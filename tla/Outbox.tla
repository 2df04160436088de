------------------------------- MODULE Outbox -------------------------------
(***************************************************************************)
(* The messages of a page that have nowhere to go yet                      *)
(* (client/src/lib/outbox.ts) and what App.tsx does with them: the         *)
(* composer adds a message nobody took, or the peers that could not take   *)
(* it safely yet; a flush tries every waiting message once.  A flush       *)
(* awaits the delivery of each message, and it is started whenever a       *)
(* channel opens, a session is ready, the page is resumed, or a minute     *)
(* has passed: nothing keeps one from starting while another one runs.     *)
(* What happens between two awaits is one action.  All peers speak         *)
(* protocol 4: one without a session is held, never sent the room key.     *)
(***************************************************************************)
EXTENDS Integers, FiniteSets

CONSTANTS
  Peers,        \* the other members
  Messages,     \* messages the page sends
  Private,      \* those for chosen peers; the others are for the room
  Flushes,      \* bound: calls of flush that run at the same time
  MaxMessages,  \* OUTBOX_LIMITS.maxMessages
  MaxAttempts,  \* OUTBOX_LIMITS.maxAttempts
  MaxDrops      \* bound: how often a channel closes or a session is lost

ASSUME OutboxAssumption ==
  /\ Private \subseteq Messages /\ IsFiniteSet(Messages)
  /\ MaxMessages \in Nat /\ MaxAttempts \in Nat /\ MaxDrops \in Nat

VARIABLES
  link,     \* peer -> its channel: closed, open (no session yet), ready
  drops,    \* how often one closed or lost its session
  stage,    \* message -> where the composer is with it
  entry,    \* message -> its entry; a flush keeps it when it was deleted
  waiting,  \* the messages in the outbox
  old,      \* messages whose time is up
  run,      \* flush -> what it is at
  queued,   \* bubbles shown as sending (queuedIds)
  got,      \* history: message -> the peers it was handed to
  again,    \* history: messages some peer was handed more than once
  meant,    \* history: message -> the peers it is for
  missed,   \* history: message -> those the composer left out for good
  overlap   \* history: a flush started while another one ran

vars == <<link, drops, stage, entry, waiting, old, run, queued, got, again, meant, missed, overlap>>

(* An entry as add() makes it; at is its place in the map, and shown is    *)
(* whether the bubble says it is sending.                                  *)
Entry == [targets: SUBSET Peers, only: BOOLEAN, attempts: 0 .. MaxAttempts,
          at: Nat, shown: BOOLEAN]
NoEntry == [targets |-> {}, only |-> FALSE, attempts |-> 0, at |-> 0, shown |-> FALSE]

(* A running flush: the ids that waited and those whose time was up when   *)
(* it started, the entries it has still to try, the one it tries, and of   *)
(* that one the targets as they were when the attempt began, whether it is *)
(* sealed for each peer (a private message), the peers still to do, and    *)
(* the outcome.                                                            *)
Phases == {"idle", "opening", "sending"}
Run == [phase: Phases, before: SUBSET Messages, late: SUBSET Messages,
        rest: SUBSET Messages, msg: SUBSET Messages, asked: SUBSET Peers, each: BOOLEAN,
        open: SUBSET Peers, to: SUBSET Peers, held: SUBSET Peers]
Idle == [phase |-> "idle", before |-> {}, late |-> {}, rest |-> {}, msg |-> {},
         asked |-> {}, each |-> FALSE, open |-> {}, to |-> {}, held |-> {}]

TypeOK ==
  /\ link \in [Peers -> {"closed", "open", "ready"}]
  /\ drops \in 0 .. MaxDrops
  /\ stage \in [Messages -> {"new", "chosen", "sealing", "done"}]
  /\ entry \in [Messages -> Entry]
  /\ waiting \subseteq Messages /\ old \subseteq Messages /\ queued \subseteq Messages
  /\ run \in [Flushes -> Run]
  /\ got \in [Messages -> SUBSET Peers] /\ meant \in [Messages -> SUBSET Peers]
  /\ missed \in [Messages -> SUBSET Peers]
  /\ again \subseteq Messages
  /\ overlap \in BOOLEAN

Init ==
  /\ link = [p \in Peers |-> "closed"]
  /\ drops = 0
  /\ stage = [m \in Messages |-> "new"]
  /\ entry = [m \in Messages |-> NoEntry]
  /\ waiting = {} /\ old = {} /\ queued = {}
  /\ run = [f \in Flushes |-> Idle]
  /\ got = [m \in Messages |-> {}] /\ meant = [m \in Messages |-> {}]
  /\ missed = [m \in Messages |-> {}]
  /\ again = {}
  /\ overlap = FALSE

----------------------------------------------------------------------------
(* Peers.                                                                  *)

Page == <<stage, entry, waiting, old, run, queued, got, again, meant, missed, overlap>>

OpenChannel(p) ==
  /\ link[p] = "closed"
  /\ link' = [link EXCEPT ![p] = "open"]
  /\ UNCHANGED <<Page, drops>>

SessionReady(p) ==
  /\ link[p] = "open"
  /\ link' = [link EXCEPT ![p] = "ready"]
  /\ UNCHANGED <<Page, drops>>

(* The channel closes, or a reset ends the session on it.                  *)
Lose(p, l) ==
  /\ drops < MaxDrops
  /\ \/ link[p] # "closed" /\ l = "closed"
     \/ link[p] = "ready" /\ l = "open"
  /\ link' = [link EXCEPT ![p] = l]
  /\ drops' = drops + 1
  /\ UNCHANGED Page

----------------------------------------------------------------------------
(* The composer (sendChatPayload).                                         *)

(* The peers are chosen among those with an open channel                   *)
(* (resolveRecipients), or the message is for everyone.  Before it is      *)
(* delivered the page may still seal the text, read a file or ask for its  *)
(* position.                                                               *)
Choose(m, S) ==
  /\ stage[m] = "new"
  /\ IF m \in Private THEN S # {} /\ \A p \in S : link[p] # "closed" ELSE S = Peers
  /\ stage' = [stage EXCEPT ![m] = "chosen"]
  /\ meant' = [meant EXCEPT ![m] = S]
  /\ UNCHANGED <<link, drops, entry, waiting, old, run, queued, got, again, missed, overlap>>

(* It goes to those of S whose session is ready; what waits is the whole   *)
(* message when nobody took it, else the peers that are held.  A peer      *)
(* whose channel is closed by now is neither.                              *)
Handed(S) == {p \in S : link[p] = "ready"}
Held(S)   == {p \in S : link[p] = "open"}
Missed(S) == IF Handed(S) = {} THEN {} ELSE S \ (Handed(S) \cup Held(S))

EntryFor(S, whole) ==
  IF Handed(S) = {} THEN [NoEntry EXCEPT !.targets = IF whole THEN {} ELSE S, !.shown = TRUE]
                    ELSE [NoEntry EXCEPT !.targets = Held(S), !.only = whole]

(* The first delivery is one step: no flush knows of the message yet.      *)
Deliver(m) ==
  LET S == meant[m] IN
  /\ stage[m] = "chosen"
  /\ got' = [got EXCEPT ![m] = Handed(S)]
  /\ missed' = [missed EXCEPT ![m] = Missed(S)]
  /\ IF Handed(S) # {} /\ Held(S) = {}
       THEN stage' = [stage EXCEPT ![m] = "done"] /\ UNCHANGED entry
       ELSE /\ stage' = [stage EXCEPT ![m] = "sealing"]
            /\ entry' = [entry EXCEPT ![m] = EntryFor(S, m \notin Private)]
  /\ UNCHANGED <<link, drops, waiting, old, run, queued, again, meant, overlap>>

(* The payload is sealed for the wait; add() refuses when the box is full. *)
NextPlace == Cardinality({n \in Messages : entry[n].at > 0}) + 1

Enqueue(m) ==
  /\ stage[m] = "sealing"
  /\ stage' = [stage EXCEPT ![m] = "done"]
  /\ IF Cardinality(waiting) >= MaxMessages THEN UNCHANGED <<entry, waiting, queued>>
     ELSE /\ entry' = [entry EXCEPT ![m].at = NextPlace]
          /\ waiting' = waiting \cup {m}
          /\ queued' = IF entry[m].shown THEN queued \cup {m} ELSE queued
  /\ UNCHANGED <<link, drops, old, run, got, again, meant, missed, overlap>>

(* Its time to live, or a day, is over.                                    *)
Age(m) ==
  /\ m \in waiting \ old
  /\ old' = old \cup {m}
  /\ UNCHANGED <<link, drops, stage, entry, waiting, run, queued, got, again, meant, missed, overlap>>

----------------------------------------------------------------------------
(* A flush.                                                                *)

\* Variant: one attempt too many.
ExpiredLate(m, late) == m \in late \/ entry[m].attempts > MaxAttempts
Expired(m, late) == m \in late \/ entry[m].attempts >= MaxAttempts

(* Of the entries in S: the first that is not expired is tried, and the    *)
(* expired ones before it are deleted on the way.                          *)
Tried(S, late) ==
  {m \in S : ~Expired(m, late) /\ \A n \in S : Expired(n, late) \/ entry[m].at <= entry[n].at}
Dropped(S, late) ==
  {m \in S : Expired(m, late) /\ \A n \in Tried(S, late) : entry[m].at < entry[n].at}

(* What is gone when a flush is over.                                      *)
\* Variant: only what some peer took.
GoneHanded(before, after) == {m \in before \ after : got[m] # {}}
Gone(before, after) == before \ after

(* The loop of flush() goes on with S, up to its next await, when done was *)
(* deleted and the entries are e.  After the last one flushOutbox looks    *)
(* what is gone, and that stops looking like a draft.                      *)
GoOn(f, S, before, late, done, e) ==
  /\ waiting' = waiting \ (Dropped(S, late) \cup done)
  /\ IF Tried(S, late) = {}
       THEN /\ run' = [run EXCEPT ![f] = Idle]
            /\ queued' = queued \ Gone(before, waiting')
       ELSE /\ run' = [run EXCEPT ![f] =
                 [Idle EXCEPT !.phase = "opening", !.before = before, !.late = late,
                              !.msg = Tried(S, late),
                              !.rest = S \ (Dropped(S, late) \cup Tried(S, late)),
                              !.asked = UNION {e[m].targets : m \in Tried(S, late)},
                              !.each = \A m \in Tried(S, late) : e[m].targets # {} /\ ~e[m].only]]
            /\ UNCHANGED queued
  /\ entry' = [m \in Messages |->
                 IF m \in Tried(S, late) THEN [e[m] EXCEPT !.attempts = @ + 1] ELSE e[m]]
  /\ UNCHANGED <<link, drops, stage, old, got, again, meant, missed>>

(* flushOutbox: what waits now, in the order it was added; the clock is    *)
(* read once.                                                              *)
Start(f) ==
  /\ run[f].phase = "idle" /\ waiting # {}
  /\ overlap' = (overlap \/ \E g \in Flushes : run[g].phase # "idle")
  /\ GoOn(f, waiting, waiting, old \cap waiting, {}, entry)

(* The payload is open: the peers of the message with an open channel      *)
(* (deliverToPeers); no targets means everyone.                            *)
Reach(f) ==
  LET S == IF run[f].asked = {} THEN Peers ELSE run[f].asked IN
  /\ run[f].phase = "opening"
  /\ run' = [run EXCEPT ![f].phase = "sending", ![f].open = {p \in S : link[p] # "closed"}]
  /\ UNCHANGED <<link, drops, stage, entry, waiting, old, queued, got, again, meant, missed, overlap>>

(* A private message is sealed and sent for one peer after the other, one  *)
(* for the room is sealed once and sent to all of them.                    *)
Turns(r) == IF r.each THEN {{p} : p \in r.open} ELSE {r.open} \ {{}}

Try(f, S) ==
  LET taken == {p \in S : link[p] = "ready"} IN
  /\ run[f].phase = "sending" /\ S \in Turns(run[f])
  /\ run' = [run EXCEPT ![f].open = @ \ S, ![f].to = @ \cup taken,
                        ![f].held = @ \cup (S \ taken)]
  /\ got' = [m \in Messages |-> IF m \in run[f].msg THEN got[m] \cup taken ELSE got[m]]
  /\ again' = again \cup {m \in run[f].msg : got[m] \cap taken # {}}
  /\ UNCHANGED <<link, drops, stage, entry, waiting, old, queued, meant, missed, overlap>>

(* What the entry waits for after an attempt, and whether the attempt      *)
(* counts as a delivery (perPeerSender).                                   *)
\* Variant: those it was sent to stay.
LeftAll(r, e) ==
  IF r.asked = {} /\ r.to # {} /\ r.held # {}
  THEN [e EXCEPT !.targets = r.held, !.only = TRUE] ELSE e
Left(r, e) ==
  IF r.asked # {} THEN [e EXCEPT !.targets = @ \ r.to]
  ELSE IF r.to # {} /\ r.held # {} THEN [e EXCEPT !.targets = r.held, !.only = TRUE]
  ELSE e
\* Variant: one peer that took it is enough.
CountsAny(r, e) == r.to # {}
Counts(r, e) ==
  IF r.asked # {} THEN e.targets \subseteq r.to ELSE r.to # {} /\ r.held = {}

(* The attempt is over: the entry keeps whom it still waits for, or goes,  *)
(* and the loop goes on; nothing is waited for in between.                 *)
Settle(f) ==
  LET r    == run[f]
      e    == [m \in Messages |-> IF m \in r.msg THEN Left(r, entry[m]) ELSE entry[m]]
      done == {m \in r.msg : Counts(r, entry[m])}
  IN
  /\ r.phase = "sending" /\ r.open = {}
  /\ GoOn(f, r.rest, r.before, r.late, done, e)
  /\ UNCHANGED overlap

Step(f) == Reach(f) \/ (\E S \in SUBSET Peers : Try(f, S)) \/ Settle(f)

Next ==
  \/ \E p \in Peers : \/ OpenChannel(p)
                      \/ SessionReady(p)
                      \/ \E l \in {"closed", "open"} : Lose(p, l)
  \/ \E m \in Messages : \/ \E S \in SUBSET Peers : Choose(m, S)
                         \/ Deliver(m)
                         \/ Enqueue(m)
                         \/ Age(m)
  \/ \E f \in Flushes : Start(f) \/ Step(f)

Spec == Init /\ [][Next]_vars

----------------------------------------------------------------------------
(* Properties.                                                             *)

(* A message leaves the outbox only when its time or its attempts are up,  *)
(* or when it was handed to every peer it was chosen for, whichever flush  *)
(* reached whom; only those whose channel had closed when the composer     *)
(* delivered it to another one are not waited for (App.tsx:2699, 4515).  A *)
(* message for the room leaves when it was handed to somebody and, as long *)
(* as no flush starts while another one runs, to everybody it was held for *)
(* (perPeerSender, outbox.ts:52-59).                                       *)
KeptUntilTaken ==
  [][\A m \in waiting \ waiting' :
       \/ Expired(m, old)
       \/ m \in Private /\ meant[m] \subseteq got[m] \cup missed[m]
       \/ m \notin Private /\ got[m] # {} /\ (overlap \/ entry[m].targets \subseteq got[m])]_vars

(* "A held peer gets it once its session is up, the others are not sent it *)
(* twice" (test/review-612-fixes.test.ts:565): as long as no flush starts  *)
(* while another one runs, nobody is sent a message twice or one that is   *)
(* not for them, over all peers that come, go and lose their sessions.     *)
OnceWhileAlone ==
  ~overlap => again = {} /\ \A m \in Messages : got[m] \subseteq meant[m]

(* A bubble that looks like a draft has an entry that waits, or a flush    *)
(* that will find it gone (flushOutbox, queuedIds).                        *)
DraftsWait ==
  \A m \in queued : m \in waiting \/ \E f \in Flushes : m \in run[f].before

(* "A private send keeps its chosen peers" (outbox.ts:38-45), "a private   *)
(* send is never queued for the whole room" (test/outbox.test.ts:118): a   *)
(* message for chosen peers is handed to nobody else.                      *)
PrivateStaysPrivate == \A m \in Private : got[m] \subseteq meant[m]
=============================================================================
