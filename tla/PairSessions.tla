---------------------------- MODULE PairSessions ----------------------------
(***************************************************************************)
(* The protocol-4 session between two pages of a room over data channels   *)
(* that come and go: P4Room of client/src/lib/p4-session.ts for one peer,  *)
(* with the handshake it runs (p4/handshake.ts), the failures of its       *)
(* ratchet (p4/ratchet.ts) and the chains for room messages handed out in  *)
(* it (p4/sender-keys4.ts).  Both pages speak protocol 4.                  *)
(*                                                                         *)
(* A page handles the frames of a channel one after another; the handlers  *)
(* wait for cryptography, and what else happens on the page (the channel   *)
(* opens or closes, a room message is sent) happens in those gaps: every   *)
(* gap ends a step here.  Cryptography is by name: a hello is its number,  *)
(* a session is who said which hello and answered which, and a frame opens *)
(* in the session it was made in.  Frames of a channel come in order; a    *)
(* channel that closes loses what its end did not take yet.                *)
(***************************************************************************)
EXTENDS Naturals, Sequences, SequencesExt

CONSTANTS
  Pages,      \* the two pages
  MaxDrops,   \* bound: channels lost
  MaxFaults,  \* bound: frames that do not open
  MaxSends,   \* bound: room messages
  Straddle    \* do handlers of a channel still run when it has closed?

ASSUME PairAssumption ==
  /\ \E a, b \in Pages : a # b /\ Pages = {a, b}
  /\ MaxDrops \in Nat /\ MaxFaults \in Nat /\ MaxSends \in Nat /\ Straddle \in BOOLEAN

VARIABLES
  peer,     \* page -> what it knows of the other one (PeerState)
  shake,    \* page -> number -> its handshake (PairHandshake); 0: nothing
  starting, \* page -> handshakes whose hello is still being made (startHello)
  chain,    \* page -> [id, given]: its chain, held by the other one or not; 0: none
  chains,   \* page -> how many chains it made
  kept,     \* page -> chains of the other one, newest last (SenderKeys4.chains)
  up,       \* page -> its end of the channel is open
  fresh,    \* page -> its end opened and open() did not run yet
  wire,     \* page -> frames on their way to it
  job,      \* page -> the handler that runs
  send,     \* page -> the room message that is being sealed (sealRoom)
  drops, faults, sends, \* counters; faults: page -> frames that did not open there
  refusals  \* history: page -> resets it sent

channel == <<up, fresh>>
keys == <<chain, chains, kept>>
counters == <<drops, faults, sends, refusals>>
vars == <<peer, shake, starting, chain, chains, kept, up, fresh, wire, job, send,
          drops, faults, sends, refusals>>

Other(s) == CHOOSE t \in Pages : t # s
Idle == [at |-> "idle"]
NewPeer == [hs |-> 0, accepted |-> 0, session |-> {}, protocol |-> "pending",
            closed |-> FALSE, warned |-> FALSE, failed |-> FALSE, known |-> FALSE]
NewShake == [to |-> 0, got |-> 0, done |-> FALSE, doomed |-> FALSE]

Session  == SUBSET ((Pages \X Nat) \cup (Pages \X Nat \X Nat))
PeerState == [hs: Nat, accepted: Nat, session: Session, closed: BOOLEAN, warned: BOOLEAN,
              protocol: {"pending", "p4-pending", "p4", "refused"}, failed: BOOLEAN, known: BOOLEAN]
PairHandshake == [to: Nat, got: Nat, done: BOOLEAN, doomed: BOOLEAN]
Frame ==
       [t: {"reset"}] \cup [t: {"hello"}, h: Nat] \cup [t: {"kem"}, by: Nat, for: Nat]
  \cup [t: {"p4", "room"}, chain: Nat, session: Session]
HandingOut == [at: {"handing"}, id: Nat, session: Session]
Job ==
       [at: {"idle", "hand"}] \cup [at: {"hello"}, h: Nat]
  \cup [at: {"await", "accept"}, h: Nat, hs: Nat] \cup [at: {"establish", "restart"}, hs: Nat]
  \cup [at: {"kem", "take"}, by: Nat, for: Nat, hs: Nat] \cup HandingOut
  \cup [at: {"open"}, with: Session, frame: [t: {"p4"}, chain: Nat, session: Session]]
Send ==
       [at: {"idle"}] \cup HandingOut \cup [at: {"seal"}, session: Session]
  \cup [at: {"sealed"}, chain: Nat, session: Session]

TypeOK ==
  /\ peer \in [Pages -> PeerState]
  /\ shake \in [Pages -> Seq(PairHandshake)]
  /\ \A s \in Pages : /\ starting[s] \subseteq DOMAIN shake[s]
                       /\ peer[s].hs \in {0} \cup DOMAIN shake[s]
                       /\ Len(kept[s]) <= 2
  /\ chain \in [Pages -> [id: Nat, given: BOOLEAN]] /\ chains \in [Pages -> Nat]
  /\ kept \in [Pages -> Seq(Nat)]
  /\ up \in [Pages -> BOOLEAN] /\ fresh \in [Pages -> BOOLEAN]
  /\ wire \in [Pages -> Seq(Frame)]
  /\ job \in [Pages -> Job] /\ send \in [Pages -> Send]
  /\ drops \in 0 .. MaxDrops /\ faults \in [Pages -> 0 .. MaxFaults] /\ sends \in 0 .. MaxSends
  /\ refusals \in [Pages -> Nat]

Init ==
  /\ peer = [s \in Pages |-> NewPeer]
  /\ shake = [s \in Pages |-> <<>>] /\ starting = [s \in Pages |-> {}]
  /\ chain = [s \in Pages |-> [id |-> 0, given |-> FALSE]]
  /\ chains = [s \in Pages |-> 0] /\ kept = [s \in Pages |-> <<>>]
  /\ up = [s \in Pages |-> FALSE] /\ fresh = [s \in Pages |-> FALSE]
  /\ wire = [s \in Pages |-> <<>>]
  /\ job = [s \in Pages |-> Idle] /\ send = [s \in Pages |-> Idle]
  /\ drops = 0 /\ faults = [s \in Pages |-> 0] /\ sends = 0
  /\ refusals = [s \in Pages |-> 0]

----------------------------------------------------------------------------
(* What is sent on a channel with a closed end is lost.                    *)
Carried(s) == up[s] /\ up[Other(s)]
Put(w, s, f) == IF Carried(s) THEN [w EXCEPT ![Other(s)] = Append(@, f)] ELSE w
Sends(s, f) == wire' = Put(wire, s, f)
Popped(s)  == [wire EXCEPT ![s] = Tail(@)]
Next4(s, t) == ~fresh[s] /\ job[s] = Idle /\ wire[s] # <<>> /\ Head(wire[s]).t = t
Do(s, j) == job' = [job EXCEPT ![s] = j]

(* A handshake is given up (wipe); one still being made sends its hello    *)
(* first.                                                                  *)
Wiped(s) ==
  IF peer[s].hs = 0 THEN shake[s]
  ELSE [shake[s] EXCEPT ![peer[s].hs] =
          IF peer[s].hs \in starting[s] THEN [@ EXCEPT !.doomed = TRUE]
          ELSE [NewShake EXCEPT !.done = TRUE]]
\* Variant: the handshake of the old channel stays.
BlankKeepsShake(p) == [p EXCEPT !.accepted = 0, !.session = {}, !.failed = FALSE]
Blank(p) == [p EXCEPT !.hs = 0, !.accepted = 0, !.session = {}, !.failed = FALSE]

(* A handshake begins, or starts over.                                     *)
Number(s) == Len(shake[s]) + 1
Begin(s, p, shakes) ==
  /\ peer' = [peer EXCEPT ![s] = [p EXCEPT !.hs = Number(s)]]
  /\ shake' = [shake EXCEPT ![s] = Append(shakes, NewShake)]
  /\ starting' = [starting EXCEPT ![s] = @ \cup {Number(s)}]
Restarted(p) == [Blank(p) EXCEPT !.protocol = IF p.known THEN "p4-pending" ELSE "pending"]
StartOver(s, p) == Begin(s, Restarted(p), Wiped(s))

(* The hello is made and goes out, whatever became of its handshake; a     *)
(* handler that waited for it goes on.                                     *)
Woken(j) == [j EXCEPT !.at = IF j.at = "await" THEN "accept" ELSE "take"]
Started(s, h) ==
  /\ h \in starting[s]
  /\ starting' = [starting EXCEPT ![s] = @ \ {h}]
  /\ Sends(s, [t |-> "hello", h |-> h])
  /\ shake' = [shake EXCEPT ![s][h] =
                 IF @.doomed THEN [NewShake EXCEPT !.done = TRUE] ELSE @]
  /\ job' = [job EXCEPT ![s] =
               IF @.at \in {"await", "kem"} /\ @.hs = h THEN Woken(@) ELSE @]
  /\ UNCHANGED <<peer, keys, channel, send, counters>>

----------------------------------------------------------------------------
(* The channel.  A new one opens when the handlers of the one before have  *)
(* ended.                                                                  *)

Connect ==
  /\ \A s \in Pages : /\ ~up[s] /\ job[s] = Idle /\ wire[s] = <<>>
                      /\ starting[s] = {} /\ send[s] = Idle
  /\ up' = [s \in Pages |-> TRUE] /\ fresh' = [s \in Pages |-> TRUE]
  /\ UNCHANGED <<peer, shake, starting, keys, wire, job, send, counters>>

(* open(): our hello, unless the peer's came first and was answered.       *)
Negotiating(p) == p.hs # 0 /\ p.session = {} /\ p.protocol \in {"pending", "p4-pending"}
OpenChannel(s) ==
  LET p == [peer[s] EXCEPT !.closed = FALSE] IN
  /\ fresh[s]
  /\ fresh' = [fresh EXCEPT ![s] = FALSE]
  /\ IF Negotiating(p)
     THEN peer' = [peer EXCEPT ![s] = p] /\ UNCHANGED <<shake, starting>>
     ELSE StartOver(s, p)
  /\ UNCHANGED <<keys, up, wire, job, send, counters>>

(* channelClosed(), when an end notices; the app closes the channel of a   *)
(* peer whose resets came too fast.                                        *)
GaveUp(s) == peer[s].closed /\ peer[s].protocol = "refused"
Drop(s) ==
  /\ up[s]
  /\ drops < MaxDrops \/ ~up[Other(s)] \/ GaveUp(s)
  /\ ~Straddle => job[s] = Idle /\ send[s] = Idle /\ starting[s] = {}
  /\ up' = [up EXCEPT ![s] = FALSE] /\ fresh' = [fresh EXCEPT ![s] = FALSE]
  /\ drops' = IF up[Other(s)] /\ ~GaveUp(s) THEN drops + 1 ELSE drops
  /\ \E n \in 0 .. (IF Straddle THEN Len(wire[s]) ELSE 0) :
       wire' = [wire EXCEPT ![s] = SubSeq(@, 1, n)]
  /\ shake' = [shake EXCEPT ![s] = Wiped(s)]
  /\ peer' = [peer EXCEPT ![s] = [Blank(@) EXCEPT !.protocol = "pending"]]
  /\ UNCHANGED <<starting, keys, job, send, faults, sends, refusals>>

----------------------------------------------------------------------------
(* A hello of the peer (onHello).                                          *)

Ignored(s, t) ==
  /\ Next4(s, t) /\ wire' = Popped(s)
  /\ UNCHANGED <<peer, shake, starting, keys, channel, job, send, counters>>
IgnoreClosed(s) == peer[s].closed /\ \E t \in {"hello", "kem", "p4", "reset"} : Ignored(s, t)

TakeHello(s) ==
  /\ Next4(s, "hello") /\ ~peer[s].closed
  /\ wire' = Popped(s) /\ Do(s, [at |-> "hello", h |-> Head(wire[s]).h])
  /\ UNCHANGED <<peer, shake, starting, keys, channel, send, counters>>

(* The handshake of this channel answers it, or a fresh one when the peer  *)
(* starts over or ours was used.                                           *)
PeerStartsOver(p) == p.hs # 0 /\ (p.session # {} \/ p.accepted # 0)
DecideHello(s) ==
  LET p == peer[s]
      h == job[s].h
  IN
  /\ job[s].at = "hello"
  /\ IF p.hs # 0 /\ p.accepted = h
     THEN Do(s, Idle) /\ UNCHANGED <<peer, shake, starting>>
     ELSE /\ Do(s, [at |-> "await", h |-> h,
                    hs |-> IF p.hs = 0 \/ PeerStartsOver(p) THEN Number(s) ELSE p.hs])
          /\ CASE p.hs = 0             -> Begin(s, p, shake[s])
               [] PeerStartsOver(p) -> StartOver(s, p)
               [] OTHER                -> UNCHANGED <<peer, shake, starting>>
  /\ UNCHANGED <<keys, channel, wire, send, counters>>

(* A handshake that is over takes no hello: the handler ends.              *)
AwaitedHello(s) ==
  /\ job[s].at = "await" /\ job[s].hs \notin starting[s]
  /\ Do(s, IF shake[s][job[s].hs].done THEN Idle ELSE [job[s] EXCEPT !.at = "accept"])
  /\ UNCHANGED <<peer, shake, starting, keys, channel, wire, send, counters>>

(* Both answers are there: the session is made (tryEstablish).             *)
Goes(s, hs, k) ==
  IF ~k.done /\ k.to # 0 /\ k.got # 0
  THEN /\ shake' = [shake EXCEPT ![s][hs] = [k EXCEPT !.done = TRUE]]
       /\ Do(s, [at |-> "establish", hs |-> hs])
  ELSE /\ shake' = [shake EXCEPT ![s][hs] = IF @.done THEN @ ELSE k]
       /\ Do(s, Idle)

Heard(p) == IF p.session = {} /\ p.protocol # "p4" THEN "p4-pending" ELSE p.protocol
AcceptHello(s) ==
  LET h == job[s].h
      hs == job[s].hs
  IN
  /\ job[s].at = "accept"
  /\ peer' = [peer EXCEPT ![s] =
                [@ EXCEPT !.accepted = h, !.known = TRUE, !.protocol = Heard(peer[s])]]
  /\ Sends(s, [t |-> "kem", by |-> hs, for |-> h])
  /\ Goes(s, hs, [shake[s][hs] EXCEPT !.to = h])
  /\ UNCHANGED <<starting, keys, channel, send, counters>>

----------------------------------------------------------------------------
(* The peer's answer (onKem), and the session.                             *)

TakeKem(s) ==
  LET f == Head(wire[s])
      p == peer[s]
  IN
  /\ Next4(s, "kem") /\ ~p.closed
  /\ wire' = Popped(s)
  /\ Do(s, IF p.protocol = "refused" \/ p.hs = 0 THEN Idle
           ELSE [at |-> "kem", by |-> f.by, for |-> f.for, hs |-> p.hs])
  /\ UNCHANGED <<peer, shake, starting, keys, channel, send, counters>>

(* A reset of ours (§ 5.5): told, and started over.                        *)
\* Variant: resets of ours count toward the limit, too.
ResetByUsCounted(s) ==
  /\ Sends(s, [t |-> "reset"])
  /\ StartOver(s, [peer[s] EXCEPT !.warned = TRUE])
  /\ Do(s, [at |-> "restart", hs |-> Number(s)])
  /\ refusals' = [refusals EXCEPT ![s] = @ + 1]
ResetByUs(s) ==
  /\ Sends(s, [t |-> "reset"])
  /\ StartOver(s, peer[s])
  /\ Do(s, [at |-> "restart", hs |-> Number(s)])
  /\ refusals' = [refusals EXCEPT ![s] = @ + 1]

AwaitedKem(s) ==
  LET k == shake[s][job[s].hs] IN
  /\ job[s].at = "kem" /\ job[s].hs \notin starting[s]
  /\ IF peer[s].session = {} /\ k.done
     THEN ResetByUs(s)
     ELSE /\ Do(s, IF peer[s].session # {} THEN Idle ELSE [job[s] EXCEPT !.at = "take"])
          /\ UNCHANGED <<peer, shake, starting, wire, refusals>>
  /\ UNCHANGED <<keys, channel, send, drops, faults, sends>>

(* An answer to another hello of ours is ignored.                          *)
AcceptKem(s) ==
  LET hs == job[s].hs IN
  /\ job[s].at = "take"
  /\ IF job[s].for # hs
     THEN Do(s, Idle) /\ UNCHANGED shake
     ELSE Goes(s, hs, [shake[s][hs] EXCEPT !.got = job[s].by])
  /\ UNCHANGED <<peer, starting, keys, channel, wire, send, counters>>

(* What both sides mix in: the two hellos and the two answers.             *)
SessionOf(s, hs) ==
  LET k == shake[s][hs]
      o == Other(s)
  IN {<<s, hs>>, <<o, k.to>>, <<s, hs, k.to>>, <<o, k.got, hs>>}

(* A chain the peer held is replaced (rehello).                            *)
\* Variant: the peer is taken to hold it still.
RehelloKept(c) == c
Rehello(c) == IF c.given THEN [id |-> 0, given |-> FALSE] ELSE c

(* The session stands, whatever happened meanwhile.                        *)
Establish(s) ==
  /\ job[s].at = "establish"
  /\ peer' = [peer EXCEPT ![s] = [@ EXCEPT !.session = SessionOf(s, job[s].hs),
                                    !.protocol = "p4", !.failed = FALSE]]
  /\ chain' = [chain EXCEPT ![s] = Rehello(@)]
  /\ Do(s, [at |-> "hand"])
  /\ UNCHANGED <<shake, starting, chains, kept, channel, wire, send, counters>>

----------------------------------------------------------------------------
(* Chains.  handOut and sealRoom run one at a time (roomMutex); sessions   *)
(* change under them.                                                      *)

Locked(s) == job[s].at = "handing" \/ send[s] # Idle

(* prepare(): a new chain when there is none, or it is due.                *)
Prepared(s, due) ==
  IF chain[s].id = 0 \/ due THEN [id |-> chains[s] + 1, given |-> FALSE] ELSE chain[s]
Prepares(s, c) ==
  /\ chain' = [chain EXCEPT ![s] = c]
  /\ chains' = [chains EXCEPT ![s] = IF c.id > @ THEN c.id ELSE @]
Handing(s, c) == [at |-> "handing", id |-> c.id, session |-> peer[s].session]

HandOut(s) ==
  LET c == Prepared(s, FALSE) IN
  /\ job[s].at = "hand" /\ ~Locked(s)
  /\ IF peer[s].session = {} THEN Do(s, Idle) /\ UNCHANGED <<chain, chains>>
     ELSE Prepares(s, c) /\ Do(s, IF c.given THEN Idle ELSE Handing(s, c))
  /\ UNCHANGED <<peer, shake, starting, kept, channel, wire, send, counters>>

(* The chain goes in the session it was sealed in, if that was not wiped   *)
(* first; it counts as handed out once the frame went.                     *)
Hands(s, h, went) ==
  /\ went => Carried(s) \/ up[s]
  /\ went \/ ~up[s] \/ h.session # peer[s].session
  /\ IF went
     THEN /\ Sends(s, [t |-> "p4", session |-> h.session, chain |-> h.id])
          /\ chain' = [chain EXCEPT ![s].given = @ \/ chain[s].id = h.id]
     ELSE UNCHANGED <<wire, chain>>
HandedOut(s) ==
  /\ job[s].at = "handing"
  /\ \E went \in BOOLEAN : Hands(s, job[s], went)
  /\ Do(s, Idle)
  /\ UNCHANGED <<peer, shake, starting, chains, kept, channel, send, counters>>

(* A room message: the peer gets the chain first if it lacks it.           *)
SealRoom(s) ==
  /\ sends < MaxSends /\ sends' = sends + 1
  /\ ~Locked(s) /\ peer[s].protocol = "p4" /\ peer[s].session # {}
  /\ \E due \in BOOLEAN :
       LET c == Prepared(s, due) IN
       /\ Prepares(s, c)
       /\ send' = [send EXCEPT ![s] =
                    IF c.given THEN [at |-> "seal", session |-> peer[s].session]
                    ELSE Handing(s, c)]
  /\ UNCHANGED <<peer, shake, starting, kept, channel, wire, job, drops, faults, refusals>>
SendChain(s) ==
  /\ send[s].at = "handing"
  /\ \E went \in BOOLEAN :
       /\ Hands(s, send[s], went)
       /\ send' = [send EXCEPT ![s] = IF went THEN [at |-> "seal", session |-> send[s].session] ELSE Idle]
  /\ UNCHANGED <<peer, shake, starting, chains, kept, channel, job, counters>>
(* Sealed with the chain there is now; without one the message waits.      *)
Seal(s) ==
  /\ send[s].at = "seal"
  /\ send' = [send EXCEPT ![s] =
               IF chain[s].id = 0 THEN Idle
               ELSE [at |-> "sealed", chain |-> chain[s].id, session |-> send[s].session]]
  /\ UNCHANGED <<peer, shake, starting, keys, channel, wire, job, counters>>
(* It goes to a peer that still speaks protocol 4 (App.tsx), else it waits. *)
SendRoom(s) ==
  /\ send[s].at = "sealed"
  /\ IF peer[s].protocol = "p4" /\ peer[s].session # {}
     THEN Sends(s, [t |-> "room", chain |-> send[s].chain, session |-> send[s].session])
     ELSE UNCHANGED wire
  /\ send' = [send EXCEPT ![s] = Idle]
  /\ UNCHANGED <<peer, shake, starting, keys, channel, job, counters>>

----------------------------------------------------------------------------
(* Frames of the session (onFrame) and resets.                             *)

TakeFrame(s) ==
  /\ Next4(s, "p4") /\ ~peer[s].closed
  /\ wire' = Popped(s)
  /\ Do(s, IF peer[s].session = {} THEN Idle
           ELSE [at |-> "open", with |-> peer[s].session, frame |-> Head(wire[s])])
  /\ UNCHANGED <<peer, shake, starting, keys, channel, send, counters>>

(* The newest chain and one older are kept.                                *)
\* Variant: every chain is kept.
KeepEvery(ks, c) == Append(SelectSeq(ks, LAMBDA k : k # c), c)
Keep(ks, c) ==
  LET older == {i \in DOMAIN ks : ks[i] # c} IN
  IF older = {} THEN <<c>> ELSE <<ks[Max(older)], c>>
OpenFrame(s) ==
  LET j == job[s] IN
  /\ job[s].at = "open" /\ j.with = peer[s].session /\ j.frame.session = j.with
  /\ kept' = [kept EXCEPT ![s] = Keep(@, j.frame.chain)]
  /\ Do(s, Idle)
  /\ UNCHANGED <<peer, shake, starting, chain, chains, channel, wire, send, counters>>
(* It does not open: damaged, of another session, or ours was wiped.  The  *)
(* second time, or at once for a KEM answer that is wrong, we reset.       *)
FailFrame(s) ==
  LET j == job[s]
      sound == j.with = peer[s].session /\ j.frame.session = j.with
  IN
  /\ job[s].at = "open"
  /\ sound => faults[s] < MaxFaults
  /\ faults' = [faults EXCEPT ![s] = IF sound THEN @ + 1 ELSE @]
  /\ \/ ResetByUs(s)
     \/ /\ ~(j.with = peer[s].session /\ peer[s].failed)
        /\ peer' = [peer EXCEPT ![s].failed = @ \/ j.with = peer[s].session]
        /\ Do(s, Idle)
        /\ UNCHANGED <<shake, starting, wire, refusals>>
  /\ UNCHANGED <<keys, channel, send, drops, sends>>

\* Variant: every reset is answered by a new hello.
StartsOverNever(p) == FALSE
StartsOver(p) == p.session = {} /\ p.hs # 0

(* The peer reset: a second one soon closes the channel (a refused peer is *)
(* a closed one here); one that finds us starting over already is answered *)
(* by the hello we sent.                                                   *)
TakeReset(s) ==
  LET p == [peer[s] EXCEPT !.warned = TRUE] IN
  /\ Next4(s, "reset") /\ ~peer[s].closed
  /\ wire' = Popped(s)
  /\ CASE peer[s].warned ->
            /\ peer' = [peer EXCEPT ![s] = [Blank(p) EXCEPT !.closed = TRUE, !.protocol = "refused"]]
            /\ shake' = [shake EXCEPT ![s] = Wiped(s)]
            /\ UNCHANGED <<starting, job>>
       [] ~peer[s].warned /\ StartsOver(p) ->
            /\ peer' = [peer EXCEPT ![s] = p]
            /\ UNCHANGED <<shake, starting, job>>
       [] OTHER ->
            /\ StartOver(s, p)
            /\ Do(s, [at |-> "restart", hs |-> Number(s)])
  /\ UNCHANGED <<keys, channel, send, counters>>
StartedOver(s) ==
  /\ job[s].at = "restart" /\ job[s].hs \notin starting[s]
  /\ Do(s, Idle)
  /\ UNCHANGED <<peer, shake, starting, keys, channel, wire, send, counters>>
(* RESET_WINDOW_MS passes.                                                 *)
WindowPasses(s) ==
  /\ peer[s].warned
  /\ peer' = [peer EXCEPT ![s].warned = FALSE]
  /\ UNCHANGED <<shake, starting, keys, channel, wire, job, send, counters>>

(* A room message arrives; opening it changes no session.                  *)
TakeRoom(s) == Ignored(s, "room")

(* Nothing is under way: the pages rest.                                   *)
Quiet == \A s \in Pages : /\ job[s] = Idle /\ send[s] = Idle /\ wire[s] = <<>>
                          /\ starting[s] = {} /\ ~fresh[s] /\ up[s]
Rest == Quiet /\ UNCHANGED vars

Next ==
  \/ Connect \/ Rest
  \/ \E s \in Pages :
       \/ OpenChannel(s) \/ Drop(s) \/ IgnoreClosed(s)
       \/ \E h \in starting[s] : Started(s, h)
       \/ TakeHello(s) \/ DecideHello(s) \/ AwaitedHello(s) \/ AcceptHello(s)
       \/ TakeKem(s) \/ AwaitedKem(s) \/ AcceptKem(s) \/ Establish(s)
       \/ HandOut(s) \/ HandedOut(s) \/ SealRoom(s) \/ SendChain(s) \/ Seal(s) \/ SendRoom(s)
       \/ TakeFrame(s) \/ OpenFrame(s) \/ FailFrame(s)
       \/ TakeReset(s) \/ StartedOver(s) \/ WindowPasses(s) \/ TakeRoom(s)

Spec == Init /\ [][Next]_vars

----------------------------------------------------------------------------
(* Properties.                                                             *)

(* When nothing is under way on an open channel, both pages have the one   *)
(* session their last hellos and answers make, unless a page gave the      *)
(* other one up: whatever order hellos, answers, resets, failing frames    *)
(* and channels come in, no page waits for a handshake nobody goes on with *)
(* and no two pages hold different sessions (onHello, onKem, reset).       *)
QuietMeansSession ==
  Quiet => \/ \E s \in Pages : peer[s].closed
           \/ \A s \in Pages : /\ peer[s].session # {}
                                /\ peer[s].session = peer[Other(s)].session

(* A room message finds its chain: the receiver holds the chain of a       *)
(* message sent in the session it still has, whatever was rotated, handed  *)
(* out, replaced by a rehello or lost with an older channel meanwhile      *)
(* ("each gets our chain first when it lacks it", p4-session.ts:439).  Only *)
(* after a frame of that session did not open the chain may be missing.    *)
RoomReadable ==
  \A s \in Pages :
    Next4(s, "room") /\ peer[s].session = Head(wire[s]).session /\ ~peer[s].failed =>
      Head(wire[s]).chain \in ToSet(kept[s])

(* Hellos do not chase each other: a page says hello once per channel, and *)
(* more often only for resets (each is answered by a hello of both pages   *)
(* and may end in a new channel).                                          *)
FewHellos ==
  \A s \in Pages :
    Len(shake[s]) <= drops + 1 + 2 * (refusals[s] + refusals[Other(s)])

(* "two resets that cross on the wire - ours and the peer's for the same   *)
(* incident - must not close it" (p4-session.ts:388-390): a page gives the *)
(* other one up only when that one reset twice.                            *)
ClosedForAReason == \A s \in Pages : peer[s].closed => refusals[Other(s)] >= 2
=============================================================================
