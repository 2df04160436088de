# CipherRoom: formal models

This directory holds TLA+ models of the parts of CipherRoom (M5 secure chat)
whose correctness depends on the order in which things happen: who sits in
which room, on one server and on several, what is stored for members who are
away, who is handed it, when it may be forgotten, how a file gets through the
relay, how two pages agree on a session, and what a page does with messages it
cannot send yet. TLC checks the models on small instances; TLAPS proves most of
the invariants for all values of the constants.

Paths below are relative to the repository (`src/` in `PROJECT.json`).

1. [The system](#1-the-system)
2. [The modules and the code](#2-the-modules-and-the-code)
3. [What the runs check](#3-what-the-runs-check)
4. [Fairness](#4-fairness)
5. [What is proved](#5-what-is-proved)
6. [Where the code and its comments disagree](#6-where-the-code-and-its-comments-disagree)
7. [What is not modelled](#7-what-is-not-modelled)
8. [Plan](#8-plan)

## 1. The system

CipherRoom is a chat whose messages are encrypted end to end by the clients
(web, Android, iOS, desktop). One Node process serves the web client and runs
the signaling hub; several can form a cluster over a bus. Everything the server
does with a message is to pass it on, or to keep a sealed copy until the
recipient is back.

### Components

| Component | State it keeps | Operations | Talks to |
|---|---|---|---|
| **Signaling hub** `server/signaling/hub.ts` | connections (peer id, room, account, resume secret), `rooms`: room → peer id → connection | connect, join, leave, sign in, presence, signal, broadcast, close, operator's kick and disconnect | held book, away relay, account store, room proofs, cluster, file proxy |
| **Held presence** `server/signaling/presence.ts` | members whose connection went without a goodbye | hold, take (by resume secret), drop of an account, expire | called by the hub |
| **Away relay** `server/signaling/relay.ts` | room → accounts away; which connection was handed which row | set and clear away, relay, deliver, acknowledge, receipt, release, forget, restore | called by the hub; calls the queue and the account store |
| **Offline queue** `server/accounts/mailqueue.ts` (SQLite), `memqueue.ts` (memory) | rows with a state, lease, attempts, deadline and sequence number; the ledger of what was relayed to whom | enqueue, lease, ack, release, revive, upgradeStatus, sweep, rememberRelay, relayOf, purgeAccount | called by the relay, the account routes, the operator and a timer |
| **Account store** `server/accounts/store.ts` | accounts, sessions, away rooms per account; a JSON index written 400 ms after a change | issue, resolve and revoke sessions, note away and back, delete, prune | emits `onRevoke` to the hub, restores the relay |
| **Room proofs** `server/signaling/proof.ts` | verifiers of room keys, nonces | check a join's proof | hub |
| **Cluster** `server/cluster`, `signaling/cluster.ts` | members and away entries of other instances, when each was last heard; the bus: two links and a queue for each | hello, state, join, update, leave, evict, beat, bye; give up who is silent | bus, hub, relay |
| **Limits** `signaling/limits.ts`, `api-limit.ts` | token buckets, connections per address | allow, release | hub, routes |
| **File proxy** `server/file-proxy.ts` | transfers by id and by sender, a total, the time of each one's last frame | begin, chunk, end, cancel, drop of a sender, gc | hub |
| **File transfer** `client/src/lib/file-transfer.ts` | sender: the loop over chunks; receiver: a registry of files that arrive | send, cancel, repeat; take meta, chunk, end, cancel, ask again, sweep | peers, through the hub |
| **Key directory, key transparency** `server/keys`, `server/kt` | bundles, one-time keys; a Merkle log | publish, fetch, prove | clients |
| **Notifier** `server/notify` | channels, throttles | dispatch in order with fallback | relay (wake-ups) |
| **Storage, functions, AI, telephony, mobile, monitor, admin** | their own databases and pools | HTTP APIs | mostly independent of the chat |
| **Protocol 4** `client/src/lib/p4-session.ts`, `p4/` | per peer: handshake, session, protocol, reset window; chains for room messages; ratchets, replay windows | open and close of a channel, hello, KEM answer, session frame, reset; seal a room message | peers, over data channels |
| **Outbox** `client/src/lib/outbox.ts` with its callers in `App.tsx` | messages that wait, whom each waits for, attempts; the bubbles shown as drafts | add, flush, prune | composer, protocol 4 |
| **Client connection** `room-hub.ts`, `connection-keeper.ts` | socket state | reconnect, resume | hub |
| **User interface, native apps** | views | | |

`PROJECT.json` lists all of them with their status.

### How they interact

The server is one thread. A frame of a client, a close of a socket, an HTTP
route and a timer each run to their end before the next one starts, except
where a handler awaits; the handlers modelled here (`hub.ts` dispatch of join,
auth, presence, relay, relay-ack, receipt, leave; `onRevoke`) do not. So one
handler is one action, and the hard part is the *order of handlers*:

- a client's old socket closes seconds after its new one has joined, resumed the
  same place or joined under the same id;
- several pages of one account suspend, resume, close and sign out in any order;
- a message is handed to a connection that then closes, leaves, signs in as
  somebody else, or loses its session before it acknowledges;
- an acknowledgement or receipt arrives when the sender is gone, deleted, back,
  or has been told something else already;
- a session ends on one device while others carry it in other rooms;
- the process dies between an away change and the write of the index;
- a frame of a file is dropped for one slow page and repeated for everybody,
  while other pages are done, wait for answers of their own, or have given up.

Three parts are not like that. Instances of a *cluster* share nothing but the
bus; what one is told was true when it was said. A page's *session handlers*
await cryptography, and between two awaits the channel closes, a room message is
sealed or another handler runs; each gap ends an action of the model. A *flush
of the outbox* awaits every delivery, and nothing keeps a second one from
starting while it does; it works on the list it read when it began.

`mailqueue.ts` runs every call in one SQLite transaction, so one call is one
action there, too; its hard part is a row's life over many calls: leases that
run out, a budget of attempts, deadlines, dead rows that are revived, receipts
that are raised in place, sequence numbers after deletions.

### What makes each modelled component correct

- *Queue*: a message is stored once; rows of a room come out in the order they
  went in; a live row leaves only by an acknowledgement or with its account;
  quotas hold; every row ends.
- *Hub rooms*: the index lists exactly connections that are in the room under
  that id; nobody's seat is emptied by somebody else; no connection carries an
  ended session; a held place goes back only to its owner.
- *Away relay*: nobody is diverted while an own page is awake; what is stored
  for a restart is what is true; a running lease is held by a connection that
  gives it back; receipts are about messages that were relayed; nothing is kept
  for a deleted account; what waits is dealt with.
- *File relay*: the table's books agree and list nothing of a connection that is
  gone; a page that shows a file as arriving waits for something that comes;
  nobody asks for, or gives up on, what was delivered; what is settled stays.
- *Cluster*: an instance lists members only of instances it watches, and when
  the bus is quiet and lost nothing, it lists exactly who is there.
- *Sessions of two pages*: when nothing is under way they have the same session,
  or one has given the other up for a reason; a room message finds its chain;
  hellos and resets do not breed.
- *Outbox*: a message leaves it only for a reason; nobody is sent it twice or is
  sent what is not for them; a bubble looks like a draft only while something
  will still be done about it.

## 2. The modules and the code

| Module | Models | Uses |
|---|---|---|
| `Mailbox` | the rows of one account in `mail_queue` and what each method of `MailQueue` does to them, as operators on a value | |
| `MailQueue` | the queue as a state machine: all mailboxes, the clock, callers in any order | `Mailbox` |
| `OfflineBox` | the promise of the interface `OfflineQueue`: items wait, die, are settled | |
| `RelayLedger` | the table `relay_ledger` | `Mailbox` |
| `HubRooms` | connections, room index, held members, sessions | |
| `AwayRelay` | `relay.ts` with the hub's handlers that call it, the queue it fills, the away list of the store | `Mailbox`, `RelayLedger` |
| `FileProxy` | the table of relayed transfers, as operators on a value | |
| `FileRelay` | a file through the relay: sender, hub, receivers | `FileProxy` |
| `ClusterRooms` | one room on several instances, the bus, instances that start, stop, crash and go silent | |
| `PairSessions` | the protocol-4 session of two pages over channels that come and go | |
| `Outbox` | the messages of a page that wait, and flushes that overlap | |
| `MailboxProofs` | lemmas about the operators of `Mailbox` | `Mailbox`, TLAPS |
| `MailQueueProofs`, `HubRoomsProofs`, `AwayRelayProofs`, `FileRelayProofs`, `ClusterRoomsProofs`, `PairSessionsProofs`, `OutboxProofs` | theorems | the above, TLAPS |
| `MCMailQueue`, `MCHubRooms`, `MCAwayRelay`, `MCFileRelay`, `MCClusterRooms`, `MCPairSessions`, `MCOutbox` | instances for TLC | the above |

`Mailbox` is written as operators so that it has one definition with two users:
`MailQueue` puts a `Next` around it in which anybody may call anything;
`AwayRelay` calls it only as `relay.ts` does. What is proved of the operators
(section 5) holds for both.

### State and actions of the queue

| Code (`mailqueue.ts`) | Model |
|---|---|
| row of `mail_queue` | `box[a].rows[i]`: room, seq, kind, msg, from, status, state, attempts, stored, lease, expires, bytes, reason |
| `mail_queue_seq` | `box[a].seq[room]` (0: no row) |
| random row ids | 1, 2, 3 … and `box[a].ids`, how many were drawn: an id is never reused |
| payload, sealing | its size `bytes`; for receipts the `status` |
| `enqueue` 236-294 | `Accepts`, `IsDuplicate`, `Enqueue`: size, duplicate, quotas, in this order |
| `lease` 301-328 | `Due`, `Batch` (ORDER BY seq LIMIT), `Spent`, `Lease` |
| `ack`, `release`, `revive` | `Ack`, `Release`, `Revive` |
| `upgradeStatus` 436-444 | `Upgradable`, `UpgradeStatus` |
| `sweep` 420-433 | `Sweep` of every account in one action, `Swept` of the ledger |
| `purgeAccount` | `Purge`: rows and counters, not the ids |

A call that changes nothing (a duplicate, an acknowledgement of unknown ids) is
a stuttering step and left out of the actions.

### State and actions of the hub's rooms

| Code | Model |
|---|---|
| `HubClient` | `conn[c]`: phase, id, room, tok (the session), removed |
| `hub.rooms` | `rooms[r]`: peer id → connection; an empty map stands for no entry |
| `HeldBook` | `held[<<r, id>>]`: by (the connection it was), tok, since |
| `held.at` | `clock`, the count of holds: only the order of the times matters |
| resume secret | `proves`: a join can prove it only from the device of who has the place |
| sessions of the store | `session[t]`: live, lapsed, ended |
| `join` 748-892 | `Join` (its early returns are `JoinRefused`: the client has left its old room by then) |
| `leaveRoom` 938-965 | `Unseat` and the `.room = NoRoom` of the caller |
| `closed` 548-564 | `Closed`, with `Hold` |
| `authenticate` 911-932 | `Auth` |
| `kick`, `closeConnection` | `Remove`: marked; the socket closes later, its frames are served meanwhile |
| `disconnectRoom` 1243-1261 | `DisconnectRoom` |
| `onRevoke` 1041-1061 | `End`, from `SignOut` and `RevokeAll` |
| `sweepHeld` | `SweepHeld` |

The order inside `join` matters and is kept: it leaves the old room first, looks
the room's map up, lets a replaced connection leave (which deletes an empty map
from the index), and only then adds the member to the map it looked up. `Join`
has this as `detached`.

### State and actions of the away relay

A *tab* is a page of somebody's browser or app: it has at most one connection at
a time and comes back under the peer id it had. What happens about ids is the
subject of `HubRooms`; here a tab's id is the tab.

| Code | Model |
|---|---|
| `RelayPeer` (room, account, awayEnabled, suspended, leased) | `tab[c]`: on, room, acct, cover, susp, leased |
| what the page was handed and has not acknowledged | `inbox[c]` (the web client acknowledges after it decrypted, `App.tsx` 2375-2379, so it may have moved on by then) |
| `awayByRoom` | `away[r]` |
| away rooms in the account index; the file | `store[a]`; `disk[a]` |
| `setAway` 167-186, `noteAway` (store 965-972) | `SetAway`: the list keeps the newest, and the relay drops what the list dropped |
| `clearAway`, `noteBack` | `ClearAway` |
| `onJoin` 236-240, presence of a page that is back | `Arrive` |
| `setPresence` 244-257 | `Suspend`, `Resume` |
| `onLeave` 260-265, `release` 468-474 | `Depart` (`Leave`, `Close`), `Released` |
| `deliver` 268-280 | `Waiting`, `Delivered`, `Taken`, `Shown` |
| `relay` 314-371 | `Relay` |
| `ack` 409-421, `receipt` 424-435, `notifySender` 437-464 | `AckItem`, `Receipt`, `Notified` |
| `forget` 480-489 | `Forget` |
| sign-out, session end, deletion, pruning (`accounts/routes.ts`, `store.ts`) | `SignOut`, `EndSession`, `DeleteAccount`, `PruneUnused` |
| `persistSoon` 386-397; a restart and `restore` | `Persist`; `Crash` |

A frame that names several recipients or items is handled one after the other
and nothing in between looks at what the earlier ones changed, so it is as good
as several frames that name one each.

### State and actions of the file relay

| Code | Model |
|---|---|
| `byTransfer`, `byPeer`, `totalActive` (`file-proxy.ts` 57-59) | `table`: last (time of the last frame), peers, total |
| `begin` 73-119 with `gc` 213-222 | `Refusal`, `Begin`, `Gc` |
| `pushChunk`, `end` 121-148 | `Touch`: that a transfer ended is not noted |
| `cancel`, `finalize`, `dropSender` | `Finalize`, `DropSender` |
| `sendFile` (`file-transfer.ts` 374-558) | `out[f]`: idle, sending, over, failed; `BeginSend`, `SendChunk`, `EndSend`, `FailSend` |
| `resend` 538-556, one asynchronous call per question | `jobs`, `Repeat` |
| `send` (`hub.ts` 451-475) and `broadcastAll` | `Sent`: to everybody in the room but the sender; `S` are the pages whose socket is too full for a file frame |
| a page's socket and frame queue | `wire[f][p]`: frames in order, per file (`handleIncomingFrame` 737-764) |
| `proxy-need` (`hub.ts` 1019-1026) | `asks`, `HandleAsk` |
| `IncomingRegistry` | `incoming[p]`: have, rounds, at |
| `processIncomingFrame` 797-977 | `TakeMeta`, `TakeChunk`, `TakeEnd`, `TakeStop` |
| `sweepIncoming` 703-714 | `Quiet`: only a meta frame calls it |
| what the user sees (callbacks) | `card[p][f]` |
| `endTransfersOf` (`hub.ts` 1030-1036) | `Close` |

The sender's loop awaits between chunks, so each chunk is an action. Between the
decision to send and the handling by the hub nothing is modelled: the sender's
frames are handled in order, and only its own close can come between: the next
chunk then ends the loop (`proxy-channel-closed`, 507-508), or, if the sender is
back by then, goes out and is refused because `Close` ended the transfer. `lost` is a history variable: what did not
reach a page, chunk by chunk, with 0 for a meta, end or cancel frame, a question
nobody answers, or a transfer the hub forgot. Contents and their digests are
abstracted: a chunk that arrives is the chunk that was sent.

### State and actions of the cluster

| Code (`signaling/cluster.ts`, `hub.ts`, `cluster/bus.ts`) | Model |
|---|---|
| `ClusterRooms.remote`, `seen` | `remote[i]` (with the instance and the resume secret); `seen[i][j]`: no, fresh, stale (silent for `GONE_MS`) |
| `hub.rooms`, `hub.held` of one room | `local[i]`, `held[i]`: peer id → resume secret, which is the number of the join that gave it out |
| Redis: what a subscription will still hand over; `RedisBus.queue` | `net[i]`, `outq[i]` |
| the two links of an instance | `pubUp`, `subUp`; `PubDown`, `PubUp`, `SubDown`, `SubUp` |
| start, stop, crash of a process | `Start`, `Stop` (bye first, sockets after it), `Crash` |
| `tick` 251-260 | `Silence` (time passes), `Tick` with `DropInstances` |
| `onMessage` 147-232 | `Deliver`: `OnHello` … `OnEvict`; all but bye are a sign of life (`Take`) |
| `join` over instances (`hub.ts` 793-812) | `Join` with `Granted`, `HeldHere`, `Elsewhere` |
| leave, close without goodbye, presence, sweep | `Leave`, `Lost`, `Update`, `Forget`, `Sweep` |

An instance that restarts has a new id, so one here starts once and stops once.
`moved`, `missed` and `gap` are history variables: ids that joined while another
instance had them or had a message on its way that says so (`Claimed`), and pairs
between which a message was lost.

### State and actions of a session of two pages

| Code (`p4-session.ts`) | Model |
|---|---|
| `PeerState` | `peer[s]`: hs (number of its handshake), accepted, session, protocol, closed, warned (the reset window), failed (the ratchet) |
| `PairHandshake` (`p4/handshake.ts`) | `shake[s][n]`: hello answered, answer got, done; `starting`: the hello is still being made |
| a session | the two hellos and the two answers it is made of |
| `SenderKeys4` | `chain[s]`, `kept[s]` (the newest and one older) |
| `open`, `channelClosed` | `OpenChannel`, `Drop` |
| `onHello` 280-312 | `TakeHello`, `DecideHello`, `AwaitedHello`, `AcceptHello`: one action between two awaits |
| `onKem`, `tryEstablish`, `establish` | `TakeKem`, `AwaitedKem`, `AcceptKem`, `Establish` |
| `handOut`, `sealRoom` | `HandOut`, `HandedOut`; `SealRoom`, `SendChain`, `Seal`, `SendRoom` |
| `onFrame` | `TakeFrame`, `OpenFrame`, `FailFrame` |
| `resetByUs`, `onReset` 385-418 | `ResetByUs`, `TakeReset`, `StartedOver`, `WindowPasses` |

`Rest` is a step that stays where it is when nothing is under way on an open
channel, so that TLC's deadlock check finds pages that can do nothing although
something is: in the run `pairs` it is on.

### State and actions of the outbox

| Code (`outbox.ts`, `App.tsx`) | Model |
|---|---|
| an entry: `targets`, `only`, `attempts`, its place in the map | `entry[m]`; it stays when the entry was deleted, because a flush keeps the object |
| the map | `waiting` |
| a running `flush`: the ids before, the list, the entry it tries, the outcome of `sendTo` | `run[f]`: before, late, rest, msg, asked, each, open, to, held |
| `queuedIds` | `queued` |
| `resolveRecipients` 4573-4580 | `Choose`: the peers are fixed before whatever the page awaits next (`sealText` 4446, reading a file, a position) |
| the composer's delivery (`sendChatPayload` 4407, `deliverToPeers` 2699) | `Deliver`: to those of them that are connected by then |
| what it leaves to the outbox 4493-4528 | `EntryFor`, `Enqueue` (after the sealing) |
| `flush` 125-149 with `perPeerSender` 60-71 | `Start`, `Settle` (both go on to the next await: `GoOn`), `Left`, `Counts` |
| `deliverToPeers` | `Reach`, `Try`: one peer after the other for a private message, all at once for one to the room |
| `flushOutbox` after the flush | `Gone` |
| a day, or the message's own time | `Age` |

`got`, `meant`, `missed`, `again` and `overlap` are history variables.

`Deliver` is one step, although the code awaits between one peer and the next:
until `Enqueue` no flush knows of the message, and what happens to one peer's
channel does not depend on another's, so that each outcome (who took it, who is
held, who was out of reach) is one the peers can be in at one moment.

## 3. What the runs check

All bounds are constants named as such in the modules.

| Run | Properties | Instance |
|---|---|---|
| `queue` | `Deduplicated`, `Ordered`, `RowLife`, `HandedInOrder`, `EverythingSettles`, `KeepsPromise`, `NothingVanishes`, `OnlyReviveOverfills` | one account, 2 rooms, 2 messages of sizes 1 and 2 for 2 bytes, 1 item per sender, 2 rows ever, clock to 3, a lease takes 1 row, 2 attempts; fair |
| `seats` | `IndexSound`, `SessionsHonoured`, `HeldWithinLimits`, `SeatsAreKept`, `HeldForTheOwner` | 3 connections of 2 devices, 3 rooms of at most 2 members, 1 session, 1 held per room and 2 in all |
| `cover` | `TypeOK`, `PresentIsNotAway`, `AwayIsStored`, `AwayEndsForAReason` | one account with 2 pages, 3 rooms, a list of at most 2, a restart |
| `receipts` | `NothingForTheDeleted`, `ReceiptsAreGenuine`, `AckIsReported` | a signed-in sender, 2 accounts in one browser, deletion of the sender |
| `ends` | `LeasesAreHeld`, `WaitingEnds` | a guest writes 1 message to an account with 2 pages; fair, 2 attempts, a restart, clock to 1 |
| `chunks` | `TypeOK`, `WaitsForSomething`, `AsksOnlyForLost`, `SettledStays`, `PendingSettles` | 1 file of 2 chunks, 3 pages, 2 drops, the sender's and a receiver's socket may close, 1 round; fair |
| `transfers` | `TableSound` | 3 files of 2 senders, 2 per sender and address, 3 in all, clock to 1 |
| `cluster` | `TypeOK`, `GhostsAreSeen`, `KnownIsTrue` | 2 instances, 2 peer ids, 2 joins, 1 link lost or change announced, a queue of 2 |
| `pairs` | `TypeOK`, `QuietMeansSession`, `RoomReadable`, `FewHellos`, `ClosedForAReason` | 2 pages, 1 channel lost, 1 frame per page that does not open, 1 room message |
| `outbox` | `TypeOK`, `OnceWhileAlone`, `DraftsWait`, `KeptUntilTaken` | 3 peers (the third with one message only: `Small`), a private message and one to the room, 2 flushes at a time, a box of 2, 2 attempts, 1 channel or session lost |
| `resume`, `widened` | see section 6 | |

**queue.** `LeaseLimit = 1` makes the batch cut in every state with two due rows,
which is what `HandedInOrder` is about: a later row must not be handed out past
an earlier due one. `RowLife` ties lease, attempts and reason together over every
path of lease, release, upgrade, death and revival. Rows of two rooms share the
byte quota; two rows are the least with one in the other's way, and with a row
that dies or is deleted before the next is stored (the case in which a count of
rows, or a lookup that forgets dead rows, would differ). The clock needs three
steps for a lease to run out, a row to die of its deadline, and its purge.

`KeepsPromise` is refinement: with an item waiting while it has a row that is not
dead, every step of the queue is a step of `OfflineBox`. It says that a duplicate
is refused, that an item stops waiting only by an acknowledgement *the caller is
told of* (the relay turns it into "delivered"), by dying, or with its account,
and that a dead item does not come back by itself. `NothingVanishes` is the same
about rows with time: before its deadline a row leaves only by an acknowledgement
or purge. `EverythingSettles`: with time and the sweep, every row ends, also one
nobody ever asks for. Arrivals stop when what they store could no longer expire
before the clock stops. `OnlyReviveOverfills`: every step that brings a mailbox
(or one sender's part of it) over a quota is the operator's `revive`, which looks
at none. The instance reaches the byte and the sender quota, exactly and with one
row in the way; the item quota is compared in the same expression.

**seats.** Two connections of one device and one of another are the least for
"somebody else has this id by now". Three rooms keep one held member each and two
in all: each limit can be passed while the other is not, so both are trimmed.
`SeatsAreKept` is about the late leave or close of a connection that was
replaced. `HeldForTheOwner` lists the only ways a held member disappears; one
account with one session is enough for the ways an account has, and for what ends
a session to have to reach sockets and held members in two rooms. Several
accounts are covered by the theorems. Lapsed sessions are in the model and not in
`SessionsHonoured`: `resolveToken` forgets them without telling the hub, so a
socket keeps what it was signed in as until it asks again. The member limit does
bite (`Full`), but not as an invariant: section 6. The two connections of the one
device are interchangeable (symmetry).

**cover.** Three rooms and a list of two: the third away entry drops the first
from the list, and must from the relay. `Crash` comes before or after `Persist`.

**receipts.** The page `p1` belongs to a browser in which two accounts sign in
and out: the acknowledgement of what one was handed arrives under the other.
`AckIsReported` is what holds of "each acknowledgement turns into delivered"
(section 6 has what does not): the sender is told, or a receipt is kept, or the
sender's queue refused the receipt for a quota. The two accounts are interchangeable (symmetry);
the properties are safety properties, and no constant tells them apart.

**ends.** A row whose lease runs is held by an open connection of its account in
its room, or its lease dates from before the last start of the server
(`LeasesAreHeld`). So no lease has to be waited out except after a restart: with
`MaxTime = 1` a lease taken at time 1 never runs out in the model, and
`WaitingEnds` shows that closing, leaving, suspending and signing out give rows
back without the help of the clock.

**chunks.** Three pages: a frame dropped for one and not for the other is what
makes the two disagree about what is repeated. Two drops and one round are the
least with a question whose answer is lost again, and with a page that gives up.
`AsksOnlyForLost` is what the queue of frames per transfer is for
(`docs/files.md` 55-64): an end that overtook chunks would ask for what was
delivered. `WaitsForSomething` is the safety half of "no card hangs": a page that
shows a file as arriving has the sender still sending, an end or cancel under
way, or a question of its own that somebody will answer; `PendingSettles` is the
liveness half. Both have one exception, `<<p, f, 0>> \in lost`: a lost end,
cancel or question leaves a page waiting, because nothing but another meta frame
makes it look at the time.

**transfers.** Limits of 2, 2 and 3 with three files: the address's limit refuses
one page while another one of the address has both slots. The limits per sender
and in all are not reached; each compares one of the same books. `TableSound`: the total, the
sets per sender and the table agree, over refusals, cancels, gc in the middle of
`begin`, and senders that go; what is listed is of a connection that is there.

**cluster.** Two instances and two ids are the least with a takeover; with two
joins a member joins on one instance and then on the other, and the eviction
crosses leaves, beats, updates and the loss of a link. `GhostsAreSeen`: whoever is
listed for an instance that went is found by the next tick. `KnownIsTrue`: when
nothing is on its way, each instance lists exactly the other's members, under that
instance, unless a message between the two was lost or the id joined while another
instance had it. A queue of 2 is
overrun by the announcements of one join. Instances and ids are interchangeable.

**pairs.** One lost channel gives two channels: what the first one left behind
meets the second. One frame on each page that does not open leads to the resets
that cross. `QuietMeansSession` says that no order of hellos, answers, resets,
failing frames and channels leaves the pages apart, or one of them waiting for
nothing; `RoomReadable` that the receiver of a room message has its chain;
`FewHellos` that each hello has a cause; `ClosedForAReason` that resets that
cross do not close the channel. With `Straddle = TRUE` handlers of a channel that
closed go on while the next one opens; then `QuietMeansSession` fails (section
6), so the run has FALSE.

**outbox.** Two flushes are the least that overlap, and three peers the least of
whom one takes a message, one is held and one is out of reach when it is
delivered. That case needs one message; with both, two peers are in play (the
constraint `Small` in `MCOutbox`), else the run would not end in time. A box of 2
takes both messages, and 2 attempts can be used up by a flush that meets only held peers.
`KeptUntilTaken` says of a private message that every chosen peer has it but those
in `missed`: their channel closed between the choice and the delivery, and another
one took the message (section 6). It holds also when flushes overlap; for a
message to the room, what was held back for one peer can be lost then, and the
property says so (`overlap`). `OnceWhileAlone` is what is left of "not sent it
twice": overlapping flushes do send twice. Peers and flushes are interchangeable.

Other bounds: `LeaseLimit >= MaxRows` in `AwayRelay` (one lease takes all that
waits in a room; the code passes 500, and `queue` is about the limit), quotas
out of reach in `AwayRelay` (`queue` is about them), `Covers`, `Deletable`,
`StoreFull` and `CrashTimes` switch hazards on in the runs about them. Deadlock
is checked in `pairs` only: bounded rows, closed connections and a stopped clock
end every other instance.

Each property has a mutant in `PROJECT.json`: a definition replaced by a
plausible mistake (the operators marked "Variant"), under which TLC finds the
property violated in the same run.

## 4. Fairness

`MailQueue!FairSpec`: weak fairness of `Tick` and `SweepAll`. Time passes;
`server/routes.ts` 194-204 sweeps on a timer as long as the process lives.
Nothing is assumed of clients, who may never ask for their rows.

`AwayRelay!FairSpec`: weak fairness of `Tick` and of a page's acknowledgement of
what it holds (the client acknowledges each item it was shown, also one it
cannot read), strong fairness of a suspended page resuming and of an account
joining the room again (`Returns`). Strong, because both can be disabled and
enabled again by closing and suspending: people open the app, close it, open it
again. `Returns` includes a page that is in the room already, because clients
reconnect and join anew by themselves (`connection-keeper.ts`), and an expired
lease makes the server do nothing until somebody comes. No fairness is assumed
of `Close`, `Crash`, `SweepQueue`, sign-outs or senders.

`FileRelay!FairSpec`: weak fairness of the sender's loop (`SendChunk`, `EndSend`:
`sendFile` goes on until it is done or fails), of the handling of each question
and of each repeat, and of the delivery of each page's frames (an open socket, an
event loop). None of `BeginSend`, `FailSend`, `Close`, `Reconnect` or `Tick`.

`ClusterRooms`, `PairSessions` and `Outbox` state no fairness: their properties are
about safety. A page flushes its outbox once a minute at least and an instance's
timer ticks, but neither is needed for what is claimed here.

## 5. What is proved

The theorems hold for any finite or infinite sets of accounts, rooms, messages,
connections, sessions, pages, files, instances and peers (the ids of a cluster
and the messages of an outbox are finite sets), and any limits that satisfy the
named assumptions of the modules: `LimitsAssumption`, `InputsAssumption`,
`LedgerAssumption`, `HubAssumption`, `ProxyAssumption`, `RelayAssumption`,
`ClusterAssumption`, `OutboxAssumption`, `PairAssumption` (there are two pages). Those
say no more than that limits are numbers, that a budget, a lease, a queue and the
size of an item that the hub relays are positive, that "none" is none, that
a file has a sender and at least one chunk, that a private message is a message.

**`MailboxProofs`** has one lemma per operation of `Mailbox`. `Good` says of a
mailbox: it is well typed, `Unique`, `InOrder`, and every row satisfies `LifeOf`.
The four parts need one another: a new row is the last in its room only because
ids and sequence numbers grow together (`InOrder` needs ids bounded by `mb.ids`,
and numbers by the counter), and `LifeOf` needs types for its arithmetic. All
operations but enqueue and purge only delete rows or rewrite fields that order and
deduplication do not look at; they share `RewriteKeepsGood`, which asks only that
each row left is a proper row. `TimeKeepsGood` is for the clock: a lease that was
short enough stays so. The lemmas named `...Thins` say which rows an operation
leaves and which fields it changes.

**`MailQueueProofs`**: `TypeCorrect`, `DeduplicatedAlways`, `OrderedAlways`,
`RowLifeAlways` from the invariant `AllGood` (every mailbox is `Good`).
`NothingEverVanishes`: one case per call (`GoneForAReason`), because only
acknowledgement and purge remove a live row with time. `AlwaysHandedInOrder`: a
batch is a prefix of what is due in the room (`BatchIsAPrefix`), and no other call
hands out. `PromiseKept` is the refinement `KeepsPromise`, for all limits: by
`Deduplicated` an item has at most one row, so what a call does to rows is what it
does to items; every call that neither stores, revives nor acknowledges is a
`Bury` of `OfflineBox` or a stutter (`BuryStep`), and the others map to the step of
their name. `OnlyAReviveOverfills` is about a sum: `BytesOf` is a fold of the
community modules, a recursive function over sets. That the function exists is
built up size by size (`OneSizeMore`, `AddingExists`); that rows can be taken out in
any order (`AddedInAnyOrder`) and that fewer rows never weigh more (`FewerBytes`)
follow because there is no counterexample of least size (`LeastOf`, from the library's
`WFMin`). Then every call but enqueue and revive stays `Within` the mailbox, and
enqueue has counted the new row before it stores it (`EnqueueFits`).

**`HubRoomsProofs`**: the inductive invariant is `TypeOK`, `IndexSound`,
`SessionsHonoured` and `Fresh`: a connection that was not opened yet carries no
session (a closed one may: it keeps its last session, and nobody reads it).
`IndexSound` is inductive with types: `Unseat` removes a connection's own seat
only, and by `IndexSound` it has no other, so after a leave none refers to it
(`UnseatSound`). The step for `Join` is the long one: newcomer, return,
replacement, and the detached map. `SessionsHonoured` is preserved by `Join` and
`Auth` because the session is looked up in the same step, by `Closed` because
the held member gets the session of a connection that satisfied it, and by `End`
because it goes over both books. `HeldAlwaysWithinLimits` is about cardinalities:
`Hold` adds at most one member and drops one where that is too many
(`HoldIsWithin`), everything else shrinks the book. `SeatsAlwaysKept`: `Unseat`
touches no seat of another connection (`OthersStaySeated`). `HeldAlwaysForTheOwner`
needs that the times of held members are distinct and past, so that "the oldest"
is one member, the one the property allows to go (`OldestIsOne`); then one lemma
per action that drops somebody.

**`AwayRelayProofs`**: `TypeCorrect` from `Typed`, which makes every mailbox `Good`
and every list of away rooms short and without repetition.
`PresentIsNeverAway`: the set of awake pages of an account in a room grows only by
`Arrive`, which clears the entry, and `SetAway` happens only when the last awake
page goes. `AwayIsAlwaysStored` needs the stronger `Matched`: connections carry
living accounts only, and the lists of the dead are blank on disk, too (or a
restart would bring them back). For the three theorems about rows, `StepRows` says where each row of
the next state comes from: it was there, or a relay, an acknowledgement or a
receipt put it there. `NothingEverForTheDeleted` is then that none of these is
made for a deleted account; it assumes `~StoreFull`, because pruning deletes an
account without its queue. `ReceiptsAreAlwaysGenuine` carries `GenuineLedger` along:
the ledger names only what was relayed. `LeasesAreAlwaysHeld`: only `lease` hands
out, to a connection that notes it; every way a connection stops holding a row
gives the row back; and after a restart a lease ends by `boot + LeaseTime`.
`AwayAlwaysEndsForAReason` takes the actions apart that shrink `away`; what
`SetAway` drops is the list's oldest room, and the map drops the same one because
the two agree (`Matched`). `AckAlwaysReported` needs `FromOthers`: nobody is relayed
a message of their own account, so the acknowledged row leaves another mailbox
than the one its receipt goes to, and `notifySender` finds that one unchanged. The
proof asked for what the property had left out: a receipt that a quota refuses, and
(an assumption) that a receipt is not refused for its size.

**`FileRelayProofs`**: `TypeCorrect`, `TableAlwaysSound`,
`AsksOnlyForLostAlways`. `TableInv` is inductive by itself: `Sound` says the three
books of a table agree, and each operation of `FileProxy` has a lemma that it
keeps `Sound` and what it lists. `AsksOnlyForLost` is not inductive; it needs to
know what is on its way. `RelayInv` says of each page and file (`Line`) that a
meta frame comes first and only to a page that has not begun; and that, if the
page has begun or a meta frame is first, every chunk the hub was given is with
the page, in `lost`, or on its way, and on its way *ahead of* each end frame.
So when an end frame is taken, every chunk the page has not is in `lost`
(`EndLine`). An end frame is sent only when all chunks were, which is `Stages`
for the sender and `JobsAreOver` for repeats. A page that has not begun and
expects no meta is owed nothing: that is why a meta frame that was dropped, or a
file that was forgotten as idle, does no harm. What an action does to a line is
one of four lemmas about sequences (`AppendLine`, `SkipLine`, `CutLine`,
`TakeLine`). `RelayInv` does not need that the hub's pages are the ones that
receive, how many frames are dropped, or when: `Droppable` is not opened.
`AlwaysWaitsForSomething` and `SettledAlwaysStays` rest on `WaitInv`, which adds two
things. `ShownOf`: a card is "pending" just while the file is in the registry, and
nothing before its meta frame is taken; so a card that is settled has had its meta
frame, there is no second one (`RelayInv`), and what is not in the registry takes
nothing but a cancel. `HopeOf`: a page that waits, or is about to, has the hub list
the transfer and somebody at work (`Grounds`: the sender is sending, an end frame is
coming, or a question of its own is open), or a cancel is on its way, or it was
denied a frame that would have told it. What an action does to that is proved once
for each way a wire changes. Before its sender begins, nothing is on its way for a
file (`Untouched`); and a transfer that leaves the table does so with a cancel for
everybody, or in `gc`, which counts as a frame denied.

**`ClusterRoomsProofs`**: `TypeCorrect` (with the queue within `MaxQueue`,
`QueueBounded`), `GhostsAlwaysSeen` and `KnownAlwaysTrue`. For the second: every message but a goodbye marks its
sender as heard in the step that adds members for it, a join adds none for others,
and a goodbye or a tick forgets an instance and its members together. No order of
messages matters to that argument, and nothing about the bus.

`KnownAlwaysTrue` is about that order. Its invariant `Known` has five parts.
`Wired`: who a message in a subscription or in a queue can be from; what the links
and the state of an instance say of its queues (a link that is up has nothing
queued, one that is down nothing coming); lists are empty while an instance is down.
`OnePlace`: an id that is not in `moved` is connected to one instance at most, and
no other one still says it is there. `QueueEnded` and `NoGhosts` are about an id that
`j` does not have: whatever says it is there is followed by a leave (first what
waits in `outq[j]`, then what is on its way to `i`), and if `i` lists it, a leave is
coming, unless `j` missed `i` (`missed`). `AllReached` is the reverse: whatever of `j`
says an id that `j` has is gone is followed by a message that says it is there, and
if `i` does not list it, such a message is coming, unless there is a `gap`. When
nothing is on its way, those are the two halves of `KnownIsTrue`. "Followed by" is
`Answered`, "coming" is `Has`; a dozen lemmas about sequences say what they become
when messages are appended, taken, cut off at the front of a full queue, or flushed
from the queue to the subscriptions, so that the steps need no sequence arithmetic.
Each step of the model is then one lemma; the steps in which a member goes or comes
are about one id, and all others leave every pair alone (`CalmKnown`). The attempt
to prove it corrected the model in three places that TLC's small instance did not show:
`Tick` forgot that a message had been missed although others of the silent instance
were still coming, and would be applied after it was given up; a member that joins
two instances before either heard of the other can end up listed nowhere on a
third; and so can one that resumes while what its old instance said of it still
waits in a queue. The last two are in the code, and are why `moved` has every id
that joins while it is `Claimed` elsewhere.

**`PairSessionsProofs`**: `TypeCorrect` from `Typed`, which says in addition that the
handshake a page has, those whose hello is being made, and the one its handler
works on are handshakes it began (`Handshakes`), so that the indexes of `shake` are
always in range, and that at most two chains of the other page are kept.
`ClosedAlwaysForAReason` from `Accounted`: a page closes for the second reset, so
the resets that are coming to it and the one it was warned by must never be more
than the other page has sent. Most steps say no reset and only take frames off a
wire (`CalmStep`); a page sends one when it refuses, which counts it; `WindowPasses`
forgets the warning and is mild. Nothing is assumed of the order of frames.
`QuietAlwaysMeansSession` and `HellosAlwaysFew` do need that order, and rest on
`Paired`: what is on both wires at any moment, in what order, and what each page has
made of it. The two pages go through rounds; a round is the handshake of each that
belongs to the same channel or the same reset. A page in a round is reduced to what
the other one can tell apart (`View`: the number of its handshake, whether its
hello is out, which hello it took and answered, whether it was answered).
`WayOf` lists, for pages in the same round, what may be on the way from one to the
other (nothing, its hello, its hello and its answer, perhaps behind a reset that
both sent); `AheadOf` is the round in which one page has reset and the other has not
heard of it, the last answer of the old round still in front of the reset;
`ReceiveOf` is what a page can still get once the other end closed. `Shape` says that
of a wire whatever chains and room messages lie in between, so that steps that move
only those keep it (`CalmPaired`). `Local` ties the page's own variables to the view:
the gaps between the awaits of `onHello` and `onKem` are there as values of `job`, and
with a session the page has exactly the pieces that its own hello and the hello it
answered make. Resting wires leave one case of `WayOf` for both directions, and
so the same pieces on both sides. `Paired` also shows that two branches of the code
are never taken here (a handshake begun inside `onHello`, 301, and the reset in
`onKem` for a session that is over): frames come in the order they were sent.
`HellosAlwaysFew` counts on top of it: a page has in hand one handshake for a
channel that opens or is broken, and one for each wire with a reset on it, of which
there is one at most (`OneReset`).
`RoomAlwaysReadable` rests on `Delivering`, on top of `Paired`. A session of the
sender is live for the receiver while the receiver's handshake is one of its pieces
(`Live`): only then can the receiver open what is sealed under it. `Readable` says
of every live claim where the chain is (`Reaches`): the last protocol 4 frame in
front of the message carries it, and the receiver is in a session, about to
establish one, or the `kem` that gives it one is further ahead (`Due`); or no such
frame is in front, and the receiver is opening the frame with the chain or has kept
it as the newest (`Held`). The claims are those of the room messages on the wire, of
the chain the sender has handed out to its present session, and of the one a message
about to be sent was sealed with. `Steady` ties the chain being handed out to the
current one and an opened frame to the current session. The argument is the same for
all actions: either the receiver stays in its handshake, and a step only moves
frames from the wire to its hands (`ReachesKept`, `ReachesTaken`), or it leaves for
a later one, and nothing sealed so far is live, because every handshake named by a
session or a frame is one the page had begun (`NumberedOf`, `PastStays`). What the
sender puts on the wire keeps what was claimed of the frames before (`ReachesPut`),
and the chain it hands out is claimed from then on (`ReachesNext`). `Paired` gives
what the sender's side needs: when it has a session that is live, the receiver has
one, too, or the answer is on its way (`SessionBound`). `QuietAlwaysMeansSession`,
`HellosAlwaysFew` and `RoomAlwaysReadable` have the hypothesis `~Straddle`, which is
what the run `pairs` checks; with handlers that outlive their channel the first one
is false (section 6). The other two theorems hold for both values.

**`OutboxProofs`**: `TypeCorrect` needs that places in the map are distinct
(`Places`), so that a flush tries one entry at a time, and that what it tries
has attempts left. `AlwaysKeptUntilTaken` is about overlapping flushes: whoever an
attempt counts as reached has got the message (`Aims`), and a private message
waits for everybody who has not got it and was not `missed` (`Covered`), although another flush may have
emptied its list meanwhile. `AlwaysOnceWhileAlone`: with one flush at a time
(`Alone`) its view of the entry is the entry, those done, held and still to do are
apart (`Apart`), and what is between attempts waits for nobody who has it
(`Fresh`). `DraftsAlwaysWait`: whatever a step removes from the box is among the
ids some running flush noted when it began.

Only model-checked: liveness (`EverythingSettles`, `WaitingEnds`,
`PendingSettles`), which is out of the prover's reach. Every invariant and every
other action property of the passing runs has a theorem. No module of the project has
a recursive definition of its own; the one fold it uses is dealt with in
`MailQueueProofs`.

## 6. Where the code and its comments disagree

Each is a run that TLC must find violated.

- **`resume`, `ResumeTakesThePlace`** (`hub.ts` 862; a bug). "The same client
  coming back (resume secret) takes its place instead" (797-798). `join` looks
  the room's map up (794-795), makes the replaced connection leave (830), and
  then adds the newcomer to the map it looked up (862). If the replaced
  connection was the only member, `leaveRoom` deleted that map from `hub.rooms`
  (943-944): the newcomer is told it joined, but no signal, broadcast or relay
  finds it until somebody makes it join again. This is the ordinary reconnect of
  somebody alone in a room whose old socket is half open. `IndexSound` does not
  see it: the index has no wrong entry, it lacks one.
- **`widened`, `PrivateStaysPrivate`** (`outbox.ts` 62; a bug). "A private send
  keeps its chosen peers" (38-39); "a private send is never queued for the whole
  room" (`test/outbox.test.ts` 118). `perPeerSender` takes those who got the message
  off `item.targets`, in the entry that all flushes share, and deletes it when none
  is left; but no targets means everyone. When two flushes run, the first empties
  and deletes the entry; the second, which has it in its list and has not come to
  it, then sends the private message to everybody in the room. Flushes overlap in
  ordinary use: one starts when a channel opens and waits up to 2.5 s for the
  session, the next when the session is ready.

Observed while modelling, and not the subject of a run:

- "Only an acknowledgement removes an item" (`relay.ts` 9-12). `upgradeStatus`
  (`mailqueue.ts` 442) writes "read" into the row of a "delivered" that was handed
  out already, under the same id, and queues it again; the acknowledgement of the
  "delivered" then deletes the "read", which nobody was handed.
- "Finished transfers keep their slot until the TTL sweep" (`docs/files.md`
  52-53). The sweep is `gc` (`file-proxy.ts` 117), and its only caller is a `begin`
  that was accepted: the limits are judged first. A sender whose four slots are
  filled by transfers that ended an hour ago is refused with `per-peer-cap`, so
  nothing is swept, until somebody else begins a transfer; when all 64 are filled
  nobody can, until one of the senders disconnects.
- Handlers of a channel that closed go on. Both pages' hello handlers may set
  `st.hs` (`p4-session.ts` 301) after `channelClosed` cleared it; `open()` of the next
  channel then finds a handshake under way (220) and says no hello, and both pages
  wait for the other's, while "a new channel brings a new hello" (511). With `Straddle = TRUE` the configuration of `pairs` shows it. (With more
  channels, hellos of such handlers also chase each other for a while.)
- "Our own link came back: say who we have, ask the others the same"
  (`signaling/cluster.ts` 145): only the question is published; nobody learns
  from it who the instance has.
- Two instances that let the same member join before either heard of the other
  (`hub.ts` 796-801) both keep it: neither evicts, and each lists the other's. A
  third instance lists the one it heard of last, and when that one leaves, nobody,
  although the other is still there. The same can happen to a member that resumes
  on one instance while what another said of it still waits for a lost link.
- A receipt the queue refuses for its quota is dropped without a trace
  (`relay.ts` 455), and a status frame sent to a socket that is dead and not closed
  yet counts as told (446).
- `applyRemoteAway` (`relay.ts` 153) takes away entries of other instances in the
  order they come, with nothing to tell an old one by.
- The statements of the queue's `sweep` are separate (`mailqueue.ts` 421): a busy
  or full database stops it after the expiry; the next sweep does the rest.
- Overlapping flushes send a message twice, and the one that ends later can write
  its own list of held peers over a room message (or delete it), so that a peer that
  was held is never tried again.
- An entry of the outbox stores its room (`outbox.ts` 18) and `flush` does not look
  at it: after a change of rooms (`switchRoom`) a message to everyone goes to the
  members of the room on screen.
- `flushOutbox` marks everything that is gone as sent (`App.tsx` 5653-5661; the
  comment at 5645 speaks of what went out), also messages whose time or attempts
  were up.
- A chosen peer whose channel closes after the choice (`resolveRecipients`, 4576)
  and before the delivery (2699) gets nothing when another one took the message: it
  is neither in `to` nor in `held`, so the entry made at 4515 does not wait for it,
  and the message still names it as a recipient. `KeptUntilTaken` excepts it.
- A full outbox drops peers that are held without a word to the user
  (`App.tsx` 4509-4520).
- A full room refuses newcomers (`hub.ts` 755), but whoever names an id in use
  counts as returning (767) without the resume secret, gets another id, and the
  room grows past its limit. That is why the member limit is no invariant here.
- A join that may not have the id it asks for falls back to the connection's own
  id (800) without looking whether that is in use by then.
- With several recipients and an offline sender, the stored receipt is one row
  per message: the second recipient's "delivered" is a duplicate of the first
  one's. `AckIsReported` states what is left.
- `release` puts rows back (`mailqueue.ts` 201: "hand them out again now"), but
  another awake page gets them at its next join or message, not at once.
- `sweep` expires and purges in one call, by the time of storing: with a
  retention shorter than the longest life of an item, an expired item is deleted
  in the sweep that expires it and is never seen as dead.
- `POST /api/account/signout` calls `forget` for the sign-out of one session
  (`accounts/routes.ts` 517-524), which is documented as "the account signed out
  everywhere or was deleted" (`relay.ts` 478): other devices of the account that
  are suspended lose their away entry, and messages relayed to the room are no
  longer kept for them.
- The frames a page asked for go to the whole room, with the end frame. A page
  that still waits for the answer to its own question counts another page's end
  frame as a round: with enough of them it gives up while what it asked for is
  on its way (`docs/files.md` 71-74 speaks of rounds of asking and repeating).
- A sender that disconnects within ten minutes of finishing makes the hub
  broadcast `proxy-cancel` for the finished transfers (`hub.ts` 1030-1036), and a
  cancel is shown whatever was shown before: a received file turns "cancelled".
  That is the exception in `SettledStays`.
- `gc` tells nobody in the room, and the sender does not look at a refused
  `proxy-ack`: the chunks of a refused transfer are refused one by one, and the
  sender shows the file as sent.
- A quiet transfer is dropped "for this long" (`file-transfer.ts` 257-258) only
  when the meta of another file arrives.
- `isUnusedAccount` looks at the old mailbox and not at the offline queue: an
  account that messages wait for can be pruned; its rows stay until they expire.

## 7. What is not modelled

- In the hub: signal and broadcast frames (they read the index and change
  nothing), moderation, the rights of the operator's calls.
- In the relay: wake-up notifications, call limits, away entries of other
  instances.
- In the store: vault, passkeys, recovery, audit, the mailbox of the old format.
- In file transfers: data channels (P2P), a receiver's decline, the byte limits,
  other instances; names, digests and signatures.
- In the cluster: a publish that is sent again because its answer was lost, what a
  flush of the queue loses, limits of held members, frames passed on to members
  elsewhere, ended sessions and away entries told to the others.
- In the sessions: a peer that leaves the room, protocol 3 and the downgrade,
  failures that are forgotten with time, media keys, private messages, the gap
  between accepting a hello and sending the answer to it, messages sealed in one
  session and sent in a later one, and (with `Straddle = FALSE`, a named bound)
  handlers of a closed channel that meet the next one.
- In the outbox: protocol 3 and the room key, members who are away, the room of
  an entry, and calls the app never makes (`remove`, `prune`, `clear`). Choosing the
  peers and delivering to them are two steps of the composer; the delivery itself
  is one (section 2).
- Encryption, sealing at rest, frame parsing, room references: data, not control.
- Sockets that are dead and not closed yet: a connection that is there counts as
  told, as in the code.
- Everything listed as `not_modelled` in `PROJECT.json`, with the reason there:
  pure I/O, presentation, vendored code, or a later step of the plan. The largest
  part of the repository by lines is of that kind (user interface, admin
  consoles, native apps, translations, adapters to services): `App.tsx` enters
  with the callers of the outbox only, and the consoles keep no state of their own
  that an order of steps could spoil. `connection-keeper.ts` is used by the app for
  its types only.

## 8. Plan

Done: `Mailbox`, `MailQueue` with `OfflineBox`, `HubRooms`, `AwayRelay`,
`RelayLedger`, `FileProxy` with `FileRelay`, `ClusterRooms`, `PairSessions`,
`Outbox`; the proofs of section 5.

Next, the most important first:

1. *Sessions and outbox together*: what a flush holds back until the session is
   ready, with the sessions of `PairSessions` and handlers that outlive their channel.
2. *Cluster*: away entries and ended sessions on the bus; a room directory that
   instances implement in the end.
3. *Protocol 4*: the ratchet's skipped keys and the replay window as functions
   checked against a reference.
4. *Room proofs*: nonces, the first verifier. *Connection gate*: counts that must
   return to zero.
5. *Key transparency*: append-only log and its consistency proofs, over bounded
   logs.
6. The *memory queue*, checked against `MailQueue`: it applies the limit before
   the test of what is due and judges the ledger's age at lookup.
