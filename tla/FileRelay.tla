----------------------------- MODULE FileRelay -----------------------------
(***************************************************************************)
(* A file through the server's relay: the sender (client/src/lib/          *)
(* file-transfer.ts, sendFile and resend), the hub that passes the frames  *)
(* on (server/signaling/hub.ts, proxyFrame and send) with the table of     *)
(* transfers (FileProxy.tla), and the receivers (processIncomingFrame).    *)
(*                                                                         *)
(* All pages are of one room.  What a page sends the hub handles in order, *)
(* and what the hub sends a page that page handles in order, one frame     *)
(* after another (frameQueues).  The hub does not wait for a slow page: it *)
(* drops file frames to it, of whatever kind (send, 464-467); a page whose *)
(* socket was gone for a while has missed them as well.                    *)
(***************************************************************************)
EXTENDS FileProxy, Sequences

CONSTANTS
  Chunks,             \* chunks of each file
  MaxRounds,          \* MAX_RESEND_ROUNDS
  MaxIncoming,        \* MAX_INCOMING.total
  MaxIncomingOfOne,   \* MAX_INCOMING.perSender
  Idle,               \* INCOMING_IDLE_MS
  RepeatTime,         \* how long a finished file can be repeated
  MaxTime,            \* bound: the clock stops here
  MaxLost,            \* bound: frames the hub drops while the page is there
  MayClose            \* bound: pages whose socket may close

ASSUME RelayAssumption ==
  /\ Chunks \in Nat \ {0} /\ MaxRounds \in Nat
  /\ {MaxIncoming, MaxIncomingOfOne, Idle, RepeatTime, MaxTime, MaxLost} \subseteq Nat
  /\ MayClose \subseteq Pages

VARIABLES
  here,      \* pages whose socket is open
  table,     \* the hub's table of transfers
  out,       \* file -> [step, next, at]: where sendFile is, and since when it is over
  wire,      \* file -> page -> frames on their way to that page
  asks,      \* proxy-need frames on their way to the sender
  jobs,      \* resend calls that are not done
  incoming,  \* page -> file -> [have, rounds, at]: the registry of receivers
  card,      \* page -> file -> what the page shows of the transfer
  lost,      \* history: <<page, file, what>> that did not reach the page
  now

vars == <<here, table, out, wire, asks, jobs, incoming, card, lost, now>>

Seqs  == 1 .. Chunks
Meta  == [kind |-> "meta",   seq |-> 0]
End   == [kind |-> "end",    seq |-> 0]
Stop  == [kind |-> "cancel", seq |-> 0]
Chunk(i) == [kind |-> "chunk", seq |-> i]
Frames == {Meta, End, Stop} \cup {Chunk(i) : i \in Seqs}

Asks  == [file: Files, by: Pages, round: 1 .. MaxRounds, left: SUBSET Seqs]
Entry == [have: SUBSET Seqs, rounds: 0 .. MaxRounds, at: 0 .. MaxTime]
Cards == {"none", "pending", "completed", "error", "cancelled"}

TypeOK ==
  /\ here \subseteq Pages
  /\ Listed(table) \subseteq Files /\ table.total \in Nat
  /\ DOMAIN table.peers \subseteq Pages
  /\ out \in [Files -> [step: {"idle", "sending", "over", "failed"},
                        next: 1 .. Chunks + 1, at: 0 .. MaxTime]]
  /\ wire \in [Files -> [Pages -> Seq(Frames)]]
  /\ asks \subseteq Asks /\ jobs \subseteq Asks
  /\ DOMAIN incoming = Pages
  /\ \A p \in Pages : /\ DOMAIN incoming[p] \subseteq Files
                      /\ incoming[p] \in [DOMAIN incoming[p] -> Entry]
  /\ card \in [Pages -> [Files -> Cards]]
  /\ lost \subseteq Pages \X Files \X (0 .. Chunks)
  /\ now \in 0 .. MaxTime

Init ==
  /\ here = Pages
  /\ table = EmptyTable
  /\ out = [f \in Files |-> [step |-> "idle", next |-> 1, at |-> 0]]
  /\ wire = [f \in Files |-> [p \in Pages |-> <<>>]]
  /\ asks = {} /\ jobs = {}
  /\ incoming = [p \in Pages |-> Empty]
  /\ card = [p \in Pages |-> [f \in Files |-> "none"]]
  /\ lost = {}
  /\ now = 0

Others(f) == Pages \ {Owner[f]}

(* A frame about the files of F for everybody but the sender (broadcastAll, *)
(* send): S are the pages it is dropped for, besides those not there.      *)
Sending(F, frame, S) ==
  [f \in Files |-> [p \in Pages |->
     IF f \in F /\ p \in (Others(f) \cap here) \ S
     THEN Append(wire[f][p], frame) ELSE wire[f][p]]]
Missing(F, frame, S) ==
  {m \in Pages \X F \X {frame.seq} : m[1] \in Others(m[2]) \ (here \ S)}
Sent(F, frame, S) ==
  /\ wire' = Sending(F, frame, S)
  /\ lost' = lost \cup Missing(F, frame, S)

(* Which pages a slow socket may cost the frame.                           *)
Droppable == {S \in SUBSET here : S # {} => Cardinality(lost) + Cardinality(S) <= MaxLost}

----------------------------------------------------------------------------
(* The sender.                                                             *)

(* What gc forgets when f begins: nobody in the room is told.              *)
ForgottenBy(f) ==
  {m \in Pages \X Expired(table, now) \X {0} : m[2] # f /\ m[1] \in Others(m[2])}

(* sendFile's first frame (proxy-meta).  The answer of the server is shown *)
(* and changes nothing: the chunks go out whether or not it was accepted.  *)
BeginSend(f) ==
  /\ out[f].step = "idle" /\ Owner[f] \in here
  /\ out' = [out EXCEPT ![f].step = "sending"]
  /\ IF Refusal(table, f) = ""
     THEN /\ table' = Begin(table, f, now)
          /\ \E S \in Droppable :
               /\ wire' = Sending({f}, Meta, S)
               /\ lost' = lost \cup Missing({f}, Meta, S) \cup ForgottenBy(f)
     ELSE UNCHANGED <<table, wire, lost>>
  /\ UNCHANGED <<here, asks, jobs, incoming, card, now>>

(* proxy-chunk and proxy-end: passed on while the transfer is listed.      *)
Relayed(f, frame) ==
  IF Owner[f] \in here /\ f \in Listed(table)
  THEN /\ table' = Touch(table, f, now)
       /\ \E S \in Droppable : Sent({f}, frame, S)
  ELSE UNCHANGED <<table, wire, lost>>

SendChunk(f) ==
  /\ out[f].step = "sending" /\ out[f].next \in Seqs
  /\ out' = IF Owner[f] \in here THEN [out EXCEPT ![f].next = @ + 1]
            ELSE [out EXCEPT ![f].step = "failed"]
  /\ Relayed(f, Chunk(out[f].next))
  /\ UNCHANGED <<here, asks, jobs, incoming, card, now>>

EndSend(f) ==
  /\ out[f].step = "sending" /\ out[f].next \notin Seqs
  /\ out' = [out EXCEPT ![f].step = "over", ![f].at = now]
  /\ Relayed(f, End)
  /\ UNCHANGED <<here, asks, jobs, incoming, card, now>>

(* The file cannot be read any more, or the caller cancelled: proxy-cancel. *)
FailSend(f) ==
  /\ out[f].step = "sending" /\ out[f].next \in Seqs
  /\ out' = [out EXCEPT ![f].step = "failed"]
  /\ IF Owner[f] \in here /\ f \in Listed(table)
     THEN /\ table' = Finalize(table, {f})
          /\ \E S \in Droppable : Sent({f}, Stop, S)
     ELSE UNCHANGED <<table, wire, lost>>
  /\ UNCHANGED <<here, asks, jobs, incoming, card, now>>

(* proxy-need: to the sender of a listed transfer, which repeats a file    *)
(* that is over for a while.                                               *)
HandleAsk(a) ==
  LET o == out[a.file] IN
  /\ a \in asks
  /\ asks' = asks \ {a}
  /\ IF /\ a.file \in Listed(table) /\ Owner[a.file] \in here
        /\ o.step = "over" /\ now - o.at < RepeatTime
     THEN jobs' = jobs \cup {a} /\ lost' = lost
     ELSE jobs' = jobs /\ lost' = lost \cup {<<a.by, a.file, 0>>}
  /\ UNCHANGED <<here, table, out, wire, incoming, card, now>>

(* resend: the chunks asked for, in order, then the end frame again; each  *)
(* goes to the whole room.                                                 *)
First(i, S) == i \in S /\ \A k \in S : i <= k
\* Variant: only the chunks.
RepeatWithoutEnd(j) ==
  /\ j \in jobs
  /\ \E i \in j.left :
       /\ First(i, j.left)
       /\ jobs' = (jobs \ {j}) \cup {k \in {[j EXCEPT !.left = @ \ {i}]} : k.left # {}}
       /\ Relayed(j.file, Chunk(i))
  /\ UNCHANGED <<here, out, asks, incoming, card, now>>
Repeat(j) ==
  /\ j \in jobs
  /\ \/ /\ j.left = {}
        /\ jobs' = jobs \ {j}
        /\ Relayed(j.file, End)
     \/ \E i \in j.left :
          /\ First(i, j.left)
          /\ jobs' = (jobs \ {j}) \cup {[j EXCEPT !.left = @ \ {i}]}
          /\ Relayed(j.file, Chunk(i))
  /\ UNCHANGED <<here, out, asks, incoming, card, now>>

----------------------------------------------------------------------------
(* The receiver (processIncomingFrame).                                    *)

Without(fn, S) == [x \in DOMAIN fn \ S |-> fn[x]]
Put(fn, k, v)  == [x \in DOMAIN fn \cup {k} |-> IF x = k THEN v ELSE fn[x]]

(* sweepIncoming; called for a meta frame only.                            *)
Quiet(p) == {f \in DOMAIN incoming[p] : now - incoming[p][f].at >= Idle}

TakeMeta(p, f) ==
  LET kept == Without(incoming[p], Quiet(p))
      ofSender == {g \in DOMAIN kept : Owner[g] = Owner[f]}
      full == Cardinality(DOMAIN kept) >= MaxIncoming \/ Cardinality(ofSender) >= MaxIncomingOfOne
  IN
  /\ incoming' = [incoming EXCEPT ![p] =
       IF full THEN kept ELSE Put(kept, f, [have |-> {}, rounds |-> 0, at |-> now])]
  /\ card' = [card EXCEPT ![p] = [g \in Files |->
       IF g \in Quiet(p) THEN "error"
       ELSE IF g = f /\ ~full /\ @[g] = "none" THEN "pending" ELSE @[g]]]
  /\ UNCHANGED <<asks, lost>>

TakeChunk(p, f, i) ==
  /\ incoming' = [incoming EXCEPT ![p][f].have = @ \cup {i}, ![p][f].at = now]
  /\ UNCHANGED <<asks, card, lost>>

(* requestResend: one more round.                                          *)
\* Variant: the rounds are not counted.
AskUncounted(p, f, missing) ==
  /\ incoming' = [incoming EXCEPT ![p][f].at = now]
  /\ asks' = asks \cup {[file |-> f, by |-> p, round |-> incoming[p][f].rounds + 1, left |-> missing]}
  /\ UNCHANGED <<card, lost>>
Ask(p, f, missing) ==
  /\ incoming' = [incoming EXCEPT ![p][f].rounds = @ + 1, ![p][f].at = now]
  /\ asks' = asks \cup {[file |-> f, by |-> p, round |-> incoming[p][f].rounds + 1, left |-> missing]}
  /\ UNCHANGED <<card, lost>>

\* Variant: what is given up stays in the registry.
SettleKept(p, f, as) ==
  /\ incoming' = [incoming EXCEPT ![p][f].at = now]
  /\ card' = [card EXCEPT ![p][f] = as]
  /\ UNCHANGED <<asks, lost>>
Settle(p, f, as) ==
  /\ incoming' = [incoming EXCEPT ![p] = Without(@, {f})]
  /\ card' = [card EXCEPT ![p][f] = as]
  /\ UNCHANGED <<asks, lost>>

\* Variant: one round more.
TakeEndLate(p, f) ==
  LET missing == Seqs \ incoming[p][f].have IN
  IF missing = {} THEN Settle(p, f, "completed")
  ELSE IF incoming[p][f].rounds <= MaxRounds THEN Ask(p, f, missing)
  ELSE Settle(p, f, "error")
TakeEnd(p, f) ==
  LET missing == Seqs \ incoming[p][f].have IN
  IF missing = {} THEN Settle(p, f, "completed")
  ELSE IF incoming[p][f].rounds < MaxRounds THEN Ask(p, f, missing)
  ELSE Settle(p, f, "error")

(* A cancel of what is not in the registry still changes what is shown.    *)
TakeStop(p, f) ==
  Settle(p, f, IF card[p][f] = "none" THEN "none" ELSE "cancelled")

Take(p, f, frame) ==
  \/ frame.kind = "meta" /\ f \notin DOMAIN incoming[p] /\ TakeMeta(p, f)
  \/ frame.kind = "chunk" /\ f \in DOMAIN incoming[p] /\ TakeChunk(p, f, frame.seq)
  \/ frame.kind = "end" /\ f \in DOMAIN incoming[p] /\ TakeEnd(p, f)
  \/ frame.kind = "cancel" /\ TakeStop(p, f)
  \/ /\ frame.kind \in {"chunk", "end"} /\ f \notin DOMAIN incoming[p]
     /\ UNCHANGED <<incoming, asks, card, lost>>

\* Variant: whichever of the frames is decrypted first.
DeliverAny(f, p) ==
  \E k \in 1 .. Len(wire[f][p]) :
    /\ Take(p, f, wire[f][p][k])
    /\ wire' = [wire EXCEPT ![f][p] = SubSeq(@, 1, k - 1) \o SubSeq(@, k + 1, Len(@))]
    /\ UNCHANGED <<here, table, out, jobs, now>>
Deliver(f, p) ==
  /\ wire[f][p] # <<>>
  /\ Take(p, f, Head(wire[f][p]))
  /\ wire' = [wire EXCEPT ![f][p] = Tail(@)]
  /\ UNCHANGED <<here, table, out, jobs, now>>

----------------------------------------------------------------------------
(* A socket closes: what was on its way to the page is lost, and what the  *)
(* page asked may be (D); its transfers end, and the others are told       *)
(* (endTransfersOf).                                                       *)
OnWire(p) == UNION {{<<p, f, wire[f][p][k].seq>> : k \in 1 .. Len(wire[f][p])} : f \in Files}
Close(p) ==
  /\ p \in here \cap MayClose
  /\ here' = here \ {p}
  /\ table' = DropSender(table, p)
  /\ \E S \in Droppable, D \in SUBSET {a \in asks : a.by = p} :
       LET ended == Listed(table) \ Listed(DropSender(table, p))
           sent  == Sending(ended, Stop, S)
       IN
       /\ wire' = [f \in Files |-> [sent[f] EXCEPT ![p] = <<>>]]
       /\ asks' = asks \ D
       /\ lost' = lost \cup Missing(ended, Stop, S) \cup OnWire(p)
                       \cup {<<p, a.file, 0>> : a \in D}
  /\ UNCHANGED <<out, jobs, incoming, card, now>>

Reconnect(p) ==
  /\ p \notin here
  /\ here' = here \cup {p}
  /\ UNCHANGED <<table, out, wire, asks, jobs, incoming, card, lost, now>>

Tick ==
  /\ now < MaxTime
  /\ now' = now + 1
  /\ UNCHANGED <<here, table, out, wire, asks, jobs, incoming, card, lost>>

Next ==
  \/ \E f \in Files : BeginSend(f) \/ SendChunk(f) \/ EndSend(f) \/ FailSend(f)
  \/ \E f \in Files, p \in Pages : Deliver(f, p)
  \/ \E a \in asks : HandleAsk(a)
  \/ \E j \in jobs : Repeat(j)
  \/ \E p \in Pages : Close(p) \/ Reconnect(p)
  \/ Tick

Spec == Init /\ [][Next]_vars

(* The sender goes on, frames that are on their way arrive, and pages      *)
(* handle what they get.                                                   *)
FairSpec ==
  /\ Spec
  /\ \A f \in Files : WF_vars(SendChunk(f)) /\ WF_vars(EndSend(f))
  /\ \A f \in Files, p \in Pages : WF_vars(Deliver(f, p))
  /\ \A a \in Asks : WF_vars(HandleAsk(a)) /\ WF_vars(Repeat(a))

----------------------------------------------------------------------------
(* Properties.                                                             *)

(* The three books of the table agree (file-proxy.ts, begin, finalize and  *)
(* gc in any order), so no slot is lost to a transfer that is gone; and    *)
(* what is listed is of a page that is connected (dropSender).             *)
TableSound ==
  /\ table.total = Cardinality(Listed(table))
  /\ \A p \in DOMAIN table.peers : table.peers[p] # {}
  /\ \A p \in Pages : PeerSet(table, p) = {f \in Listed(table) : Owner[f] = p}
  /\ \A f \in Listed(table) : Owner[f] \in here

(* A page that shows a file as arriving waits for something that will come: *)
(* the sender still sends, an end or cancel is on its way, or a question of *)
(* its own is.  The exceptions are frames that did not reach the page, a   *)
(* question nobody answers, and transfers the hub forgot.                  *)
WaitsForSomething ==
  \A p \in Pages, f \in Files : card[p][f] = "pending" =>
    /\ f \in DOMAIN incoming[p]
    /\ \/ <<p, f, 0>> \in lost
       \/ out[f].step = "sending" /\ f \in Listed(table)
       \/ \E k \in 1 .. Len(wire[f][p]) : wire[f][p][k].kind \in {"end", "cancel"}
       \/ \E a \in asks \cup jobs : a.file = f /\ a.by = p

(* Nobody asks for, or gives up on, a chunk that was delivered: a page that *)
(* lost no frame of a file asks for none ("Missing chunks at               *)
(* end-of-transfer" on a file delivered in full, docs/files.md:55-64).     *)
AsksOnlyForLost ==
  \A a \in asks \cup jobs : \A i \in a.left : <<a.by, a.file, i>> \in lost

(* A file that arrived, failed or was cancelled stays so, whatever is      *)
(* repeated for others in the room; only a cancel changes what is shown.   *)
SettledStays ==
  [][\A p \in Pages, f \in Files : card[p][f] \in {"completed", "error", "cancelled"} =>
       card'[p][f] \in {card[p][f], "cancelled"}]_vars

(* No page shows a file as arriving for ever, unless an end, a cancel or a *)
(* question got lost or the hub forgot the transfer.                       *)
PendingSettles ==
  \A p \in Pages, f \in Files :
    card[p][f] = "pending" ~> card[p][f] # "pending" \/ <<p, f, 0>> \in lost
=============================================================================
