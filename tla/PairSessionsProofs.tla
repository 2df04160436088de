------------------------- MODULE PairSessionsProofs -------------------------
(***************************************************************************)
(* Theorems about PairSessions, for any two pages and any bounds.          *)
(***************************************************************************)
EXTENDS PairSessions, SequenceTheorems, TLAPS

(* A job works on a handshake the page has.                                *)
Shaken == {"await", "accept", "establish", "restart", "kem", "take"}
Handshakes ==
  /\ peer \in [Pages -> PeerState]
  /\ shake \in [Pages -> Seq(PairHandshake)]
  /\ starting \in [Pages -> SUBSET Nat]
  /\ \A s \in Pages : /\ starting[s] \subseteq DOMAIN shake[s]
                      /\ peer[s].hs \in {0} \cup DOMAIN shake[s]
                      /\ job[s].at \in Shaken => job[s].hs \in DOMAIN shake[s]
Chains ==
  /\ chain \in [Pages -> [id: Nat, given: BOOLEAN]]
  /\ chains \in [Pages -> Nat]
  /\ kept \in [Pages -> Seq(Nat)] /\ \A s \in Pages : Len(kept[s]) <= 2
Channels ==
  /\ up \in [Pages -> BOOLEAN] /\ fresh \in [Pages -> BOOLEAN]
  /\ wire \in [Pages -> Seq(Frame)]
Handlers ==
  job \in [Pages -> Job] /\ send \in [Pages -> Send]
Counters ==
  /\ drops \in 0 .. MaxDrops /\ faults \in [Pages -> 0 .. MaxFaults]
  /\ sends \in 0 .. MaxSends /\ refusals \in [Pages -> Nat]

Typed == Handshakes /\ Chains /\ Channels /\ Handlers /\ Counters

----------------------------------------------------------------------------
(* The two pages.                                                          *)
LEMMA TwoPages ==
  ASSUME NEW s \in Pages
  PROVE  /\ Other(s) \in Pages /\ Other(s) # s /\ Other(Other(s)) = s
         /\ \A t \in Pages : t = s \/ t = Other(s)
<1>1. PICK a \in Pages, b \in Pages : a # b /\ Pages = {a, b}
  BY PairAssumption
<1>2. \A t \in Pages : Other(t) \in Pages /\ Other(t) # t
  <2> SUFFICES ASSUME NEW t \in Pages
               PROVE  Other(t) \in Pages /\ Other(t) # t
    OBVIOUS
  <2>1. \E x \in Pages : x # t
    BY <1>1
  <2> QED
    BY <2>1 DEF Other
<1> QED
  BY <1>1, <1>2

----------------------------------------------------------------------------
(* Type correctness.                                                       *)
LEMMA FrameTypes ==
  /\ [t |-> "reset"] \in Frame
  /\ \A h \in Nat : [t |-> "hello", h |-> h] \in Frame
  /\ \A x, y \in Nat : [t |-> "kem", by |-> x, for |-> y] \in Frame
  /\ \A k \in Nat, x \in Session, t \in {"p4", "room"} :
       [t |-> t, session |-> x, chain |-> k] \in Frame
BY DEF Frame

LEMMA FrameCases ==
  ASSUME NEW f \in Frame
  PROVE  /\ f.t \in {"reset", "hello", "kem", "p4", "room"}
         /\ f.t = "hello" => f.h \in Nat
         /\ f.t = "kem" => f.by \in Nat /\ f.for \in Nat
         /\ f.t = "p4" => f \in [t: {"p4"}, chain: Nat, session: Session]
BY DEF Frame

LEMMA JobCases ==
  ASSUME NEW j \in Job
  PROVE  /\ j.at = "hello" => j.h \in Nat
         /\ j.at \in {"await", "accept"} =>
              j.h \in Nat /\ [j EXCEPT !.at = "accept"] \in Job
         /\ j.at \in {"kem", "take"} =>
              j.by \in Nat /\ j.for \in Nat /\ [j EXCEPT !.at = "take"] \in Job
         /\ j.at \in {"await", "kem"} =>
              Woken(j) \in Job /\ Woken(j).at \in Shaken /\ Woken(j).hs = j.hs
         /\ j.at = "handing" => j.id \in Nat /\ j.session \in Session
         /\ j.at = "open" => j.with \in Session /\ j.frame.chain \in Nat
BY DEF Job, HandingOut, Shaken, Woken

LEMMA SendCases ==
  ASSUME NEW j \in Send
  PROVE  /\ j.at = "handing" => j.id \in Nat /\ j.session \in Session
         /\ j.at = "seal" => j.session \in Session
         /\ j.at = "sealed" => j.session \in Session /\ j.chain \in Nat
BY DEF Send, HandingOut

LEMMA Sent ==
  ASSUME Channels, NEW s \in Pages, NEW f \in Frame
  PROVE  Put(wire, s, f) \in [Pages -> Seq(Frame)]
<1>1. Other(s) \in Pages
  BY TwoPages
<1>2. Append(wire[Other(s)], f) \in Seq(Frame)
  BY <1>1, AppendProperties DEF Channels
<1> QED
  BY <1>1, <1>2 DEF Put, Channels

LEMMA Taken ==
  ASSUME Channels, NEW s \in Pages, wire[s] # <<>>
  PROVE  Head(wire[s]) \in Frame /\ Popped(s) \in [Pages -> Seq(Frame)]
<1>1. Head(wire[s]) \in Frame /\ Tail(wire[s]) \in Seq(Frame)
  BY HeadTailProperties DEF Channels
<1> QED
  BY <1>1 DEF Popped, Channels

LEMMA ShakeTypes ==
  /\ NewShake \in PairHandshake
  /\ \A k \in PairHandshake, x \in BOOLEAN, n \in Nat :
       /\ [k EXCEPT !.doomed = x] \in PairHandshake
       /\ [k EXCEPT !.done = x] \in PairHandshake
       /\ [k EXCEPT !.to = n] \in PairHandshake
       /\ [k EXCEPT !.got = n] \in PairHandshake
BY DEF NewShake, PairHandshake

LEMMA PeerTypes ==
  /\ NewPeer \in PeerState
  /\ \A p \in PeerState, x \in BOOLEAN :
       /\ Blank(p) \in PeerState /\ Blank(p).hs = 0
       /\ Restarted(p) \in PeerState /\ Restarted(p).hs = 0
       /\ [p EXCEPT !.warned = x] \in PeerState /\ [p EXCEPT !.warned = x].hs = p.hs
       /\ [p EXCEPT !.closed = x] \in PeerState /\ [p EXCEPT !.closed = x].hs = p.hs
       /\ [p EXCEPT !.failed = x] \in PeerState /\ [p EXCEPT !.failed = x].hs = p.hs
       /\ \A y \in {"pending", "refused"} :
            /\ [Blank(p) EXCEPT !.protocol = y] \in PeerState
            /\ [Blank(p) EXCEPT !.closed = x, !.protocol = y] \in PeerState
            /\ [Blank(p) EXCEPT !.protocol = y].hs = 0
            /\ [Blank(p) EXCEPT !.closed = x, !.protocol = y].hs = 0
<1>1. {} \in Session
  BY DEF Session
<1>2. NewPeer \in PeerState
  BY <1>1 DEF NewPeer, PeerState
<1>3. ASSUME NEW p \in PeerState
      PROVE  /\ Blank(p) \in PeerState /\ Blank(p).hs = 0
             /\ Restarted(p) \in PeerState /\ Restarted(p).hs = 0
  BY <1>1 DEF PeerState, Blank, Restarted
<1>4. ASSUME NEW p \in PeerState, NEW x \in BOOLEAN
      PROVE  /\ [p EXCEPT !.warned = x] \in PeerState /\ [p EXCEPT !.warned = x].hs = p.hs
             /\ [p EXCEPT !.closed = x] \in PeerState /\ [p EXCEPT !.closed = x].hs = p.hs
             /\ [p EXCEPT !.failed = x] \in PeerState /\ [p EXCEPT !.failed = x].hs = p.hs
  BY DEF PeerState
<1>5. ASSUME NEW p \in PeerState, NEW y \in {"pending", "refused"}, NEW x \in BOOLEAN
      PROVE  /\ [p EXCEPT !.protocol = y] \in PeerState
             /\ [p EXCEPT !.closed = x, !.protocol = y] \in PeerState
             /\ [p EXCEPT !.protocol = y].hs = p.hs
             /\ [p EXCEPT !.closed = x, !.protocol = y].hs = p.hs
  BY DEF PeerState
<1>6. ASSUME NEW p \in PeerState, NEW x \in BOOLEAN, NEW y \in {"pending", "refused"}
      PROVE  /\ [Blank(p) EXCEPT !.protocol = y] \in PeerState
             /\ [Blank(p) EXCEPT !.closed = x, !.protocol = y] \in PeerState
             /\ [Blank(p) EXCEPT !.protocol = y].hs = 0
             /\ [Blank(p) EXCEPT !.closed = x, !.protocol = y].hs = 0
  <2> DEFINE q == Blank(p)
  <2>1. q \in PeerState /\ q.hs = 0
    BY <1>3
  <2> HIDE DEF q
  <2>2. /\ [q EXCEPT !.protocol = y] \in PeerState
        /\ [q EXCEPT !.closed = x, !.protocol = y] \in PeerState
        /\ [q EXCEPT !.protocol = y].hs = q.hs
        /\ [q EXCEPT !.closed = x, !.protocol = y].hs = q.hs
    BY <1>5, <2>1
  <2> QED
    BY <2>1, <2>2 DEF q
<1> QED
  BY <1>2, <1>3, <1>4, <1>6

(* Giving a handshake up changes no number.                                *)
LEMMA WipedTyped ==
  ASSUME Handshakes, NEW s \in Pages
  PROVE  Wiped(s) \in Seq(PairHandshake) /\ Len(Wiped(s)) = Len(shake[s])
<1> DEFINE h == peer[s].hs
<1>1. shake[s] \in Seq(PairHandshake) /\ DOMAIN shake[s] = 1 .. Len(shake[s])
  BY LenProperties DEF Handshakes
<1>2. CASE h = 0
  BY <1>1, <1>2 DEF Wiped
<1>3. CASE h # 0
  <2> DEFINE v == IF h \in starting[s] THEN [shake[s][h] EXCEPT !.doomed = TRUE]
                  ELSE [NewShake EXCEPT !.done = TRUE]
  <2>1. h \in 1 .. Len(shake[s])
    BY <1>1, <1>3 DEF Handshakes
  <2>2. v \in PairHandshake
    BY <1>1, <2>1, ElementOfSeq, ShakeTypes
  <2>3. Wiped(s) = [shake[s] EXCEPT ![h] = v]
    BY <1>3 DEF Wiped
  <2> HIDE DEF v, h
  <2> QED
    BY <1>1, <2>1, <2>2, <2>3, ExceptSeq
<1> QED
  BY <1>2, <1>3

(* One handshake of a page changes, none begins.                           *)
LEMMA ShakeChanged ==
  ASSUME Handshakes, NEW s \in Pages, NEW h \in DOMAIN shake[s], NEW k \in PairHandshake
  PROVE  /\ [shake EXCEPT ![s][h] = k] \in [Pages -> Seq(PairHandshake)]
         /\ \A t \in Pages : /\ DOMAIN [shake EXCEPT ![s][h] = k][t] = DOMAIN shake[t]
                             /\ Len([shake EXCEPT ![s][h] = k][t]) = Len(shake[t])
<1>1. shake[s] \in Seq(PairHandshake) /\ DOMAIN shake[s] = 1 .. Len(shake[s])
  BY LenProperties DEF Handshakes
<1>2. /\ [shake[s] EXCEPT ![h] = k] \in Seq(PairHandshake)
      /\ Len([shake[s] EXCEPT ![h] = k]) = Len(shake[s])
  BY <1>1, ExceptSeq
<1> QED
  BY <1>1, <1>2 DEF Handshakes

(* What every step does to the handshakes: none is forgotten.              *)
Grown ==
  /\ peer' \in [Pages -> PeerState]
  /\ shake' \in [Pages -> Seq(PairHandshake)]
  /\ starting' \in [Pages -> SUBSET Nat]
  /\ \A s \in Pages : /\ starting'[s] \subseteq DOMAIN shake'[s]
                      /\ peer'[s].hs \in {0} \cup DOMAIN shake'[s]
                      /\ DOMAIN shake[s] \subseteq DOMAIN shake'[s]

LEMMA SameGrown ==
  ASSUME Handshakes, UNCHANGED <<peer, shake, starting>>
  PROVE  Grown
BY DEF Handshakes, Grown

LEMMA PeerGrown ==
  ASSUME Handshakes, NEW s \in Pages, NEW p \in PeerState, p.hs = peer[s].hs,
         peer' = [peer EXCEPT ![s] = p], UNCHANGED <<shake, starting>>
  PROVE  Grown
BY DEF Handshakes, Grown

(* A handshake begins: the page has one more.                              *)
LEMMA BeginTyped ==
  ASSUME Handshakes, NEW s \in Pages, NEW p \in PeerState, NEW shakes \in Seq(PairHandshake),
         Len(shakes) = Len(shake[s]), Begin(s, p, shakes)
  PROVE  /\ Grown
         /\ Number(s) \in Nat \ {0} /\ Number(s) \in DOMAIN shake'[s]
         /\ Len(shake'[s]) = Len(shake[s]) + 1
<1>1. shake[s] \in Seq(PairHandshake) /\ DOMAIN shake[s] = 1 .. Len(shake[s]) /\ Len(shake[s]) \in Nat
  BY LenProperties DEF Handshakes
<1>2. /\ Append(shakes, NewShake) \in Seq(PairHandshake)
      /\ Len(Append(shakes, NewShake)) = Len(shake[s]) + 1
  BY AppendProperties, ShakeTypes
<1>3. DOMAIN Append(shakes, NewShake) = 1 .. Len(shake[s]) + 1
  BY <1>2, LenProperties
<1>4. /\ peer' = [peer EXCEPT ![s] = [p EXCEPT !.hs = Number(s)]]
      /\ shake' = [shake EXCEPT ![s] = Append(shakes, NewShake)]
      /\ starting' = [starting EXCEPT ![s] = @ \cup {Number(s)}]
  BY DEF Begin
<1>5. Number(s) = Len(shake[s]) + 1
  BY DEF Number
<1>6. [p EXCEPT !.hs = Number(s)] \in PeerState /\ [p EXCEPT !.hs = Number(s)].hs = Number(s)
  BY <1>1, <1>5 DEF PeerState
<1>7. peer' \in [Pages -> PeerState] /\ peer'[s].hs = Number(s)
  BY <1>4, <1>6 DEF Handshakes
<1>8. shake' \in [Pages -> Seq(PairHandshake)] /\ shake'[s] = Append(shakes, NewShake)
  BY <1>2, <1>4 DEF Handshakes
<1>9. starting' \in [Pages -> SUBSET Nat]
  BY <1>1, <1>4, <1>5 DEF Handshakes
<1>10. \A t \in Pages : t # s => peer'[t] = peer[t] /\ shake'[t] = shake[t] /\ starting'[t] = starting[t]
  BY <1>4 DEF Handshakes
<1>11. starting'[s] = starting[s] \cup {Number(s)}
  BY <1>4 DEF Handshakes
<1>12. Number(s) \in Nat \ {0} /\ Number(s) \in DOMAIN shake'[s] /\ DOMAIN shake[s] \subseteq DOMAIN shake'[s]
  BY <1>1, <1>3, <1>5, <1>8
<1>13. ASSUME NEW t \in Pages
       PROVE  /\ starting'[t] \subseteq DOMAIN shake'[t]
              /\ peer'[t].hs \in {0} \cup DOMAIN shake'[t]
              /\ DOMAIN shake[t] \subseteq DOMAIN shake'[t]
  BY <1>7, <1>10, <1>11, <1>12 DEF Handshakes
<1> QED
  BY <1>2, <1>7, <1>8, <1>9, <1>12, <1>13 DEF Grown

LEMMA StartOverTyped ==
  ASSUME Handshakes, NEW s \in Pages, NEW p \in PeerState, StartOver(s, p)
  PROVE  /\ Grown
         /\ Number(s) \in Nat \ {0} /\ Number(s) \in DOMAIN shake'[s]
         /\ Len(shake'[s]) = Len(shake[s]) + 1
<1>1. Restarted(p) \in PeerState
  BY PeerTypes
<1>2. Wiped(s) \in Seq(PairHandshake) /\ Len(Wiped(s)) = Len(shake[s])
  BY WipedTyped
<1> QED
  BY <1>1, <1>2, BeginTyped DEF StartOver

(* The handler of a page goes on with j.                                   *)
LEMMA Handled ==
  ASSUME Handshakes, Handlers, Grown, NEW s \in Pages, NEW j \in Job,
         job' = [job EXCEPT ![s] = j],
         j.at \in Shaken => j.hs \in DOMAIN shake'[s]
  PROVE  Handshakes' /\ job' \in [Pages -> Job]
<1>1. job' \in [Pages -> Job] /\ job'[s] = j /\ \A t \in Pages : t # s => job'[t] = job[t]
  BY DEF Handlers
<1>2. ASSUME NEW t \in Pages, job'[t].at \in Shaken
      PROVE  job'[t].hs \in DOMAIN shake'[t]
  BY <1>1, <1>2 DEF Handshakes, Grown
<1> QED
  BY <1>1, <1>2 DEF Handshakes, Grown

LEMMA Unhandled ==
  ASSUME Handshakes, Grown, UNCHANGED job
  PROVE  Handshakes'
BY DEF Handshakes, Grown

LEMMA IdleTyped == Idle \in Job /\ Idle.at \notin Shaken /\ Idle \in Send
BY DEF Idle, Job, Send, Shaken

----------------------------------------------------------------------------
(* The steps keep the types.                                               *)
LEMMA StartedTyped ==
  ASSUME Typed, NEW s \in Pages, NEW h \in starting[s], Started(s, h)
  PROVE  Typed'
<1> DEFINE k == IF shake[s][h].doomed THEN [NewShake EXCEPT !.done = TRUE] ELSE shake[s][h]
           j == IF job[s].at \in {"await", "kem"} /\ job[s].hs = h THEN Woken(job[s]) ELSE job[s]
<1>1. h \in DOMAIN shake[s] /\ h \in 1 .. Len(shake[s]) /\ h \in Nat /\ shake[s] \in Seq(PairHandshake)
  BY LenProperties DEF Typed, Handshakes
<1>2. k \in PairHandshake
  BY <1>1, ElementOfSeq, ShakeTypes
<1>3. /\ shake' = [shake EXCEPT ![s][h] = k]
      /\ starting' = [starting EXCEPT ![s] = @ \ {h}]
      /\ job' = [job EXCEPT ![s] = j]
      /\ UNCHANGED peer
  BY DEF Started
<1>4. Grown
  <2> HIDE DEF k
  <2>1. /\ shake' \in [Pages -> Seq(PairHandshake)]
        /\ \A t \in Pages : DOMAIN shake'[t] = DOMAIN shake[t]
    BY <1>1, <1>2, <1>3, ShakeChanged DEF Typed
  <2> QED
    BY <1>3, <2>1 DEF Typed, Handshakes, Grown
<1>5. j \in Job /\ (j.at \in Shaken => j.hs \in DOMAIN shake'[s])
  <2>1. job[s] \in Job /\ (job[s].at \in Shaken => job[s].hs \in DOMAIN shake'[s])
    BY <1>4 DEF Typed, Handlers, Handshakes, Grown
  <2>2. CASE job[s].at \in {"await", "kem"} /\ job[s].hs = h
    BY <2>1, <2>2, JobCases DEF Shaken
  <2> QED
    BY <2>1, <2>2
<1>6. Handshakes' /\ job' \in [Pages -> Job]
  <2> HIDE DEF j
  <2> QED
    BY <1>3, <1>4, <1>5, Handled DEF Typed
<1>7. Channels'
  BY <1>1, Sent, FrameTypes DEF Started, Sends, channel, Typed, Channels
<1> QED
  BY <1>6, <1>7 DEF Started, keys, counters, Typed, Chains, Handlers, Counters

LEMMA ConnectTyped ==
  ASSUME Typed, Connect
  PROVE  Typed'
<1>1. Handshakes'
  BY SameGrown, Unhandled DEF Connect, Typed
<1> QED
  BY <1>1 DEF Connect, keys, counters, Typed, Chains, Channels, Handlers, Counters

LEMMA OpenChannelTyped ==
  ASSUME Typed, NEW s \in Pages, OpenChannel(s)
  PROVE  Typed'
<1> DEFINE p == [peer[s] EXCEPT !.closed = FALSE]
<1>1. p \in PeerState /\ p.hs = peer[s].hs
  BY PeerTypes DEF Typed, Handshakes
<1> HIDE DEF p
<1>2. \/ peer' = [peer EXCEPT ![s] = p] /\ UNCHANGED <<shake, starting>>
      \/ StartOver(s, p)
  BY DEF OpenChannel, p
<1>3. Grown
  BY <1>1, <1>2, PeerGrown, StartOverTyped DEF Typed
<1>4. Handshakes'
  BY <1>3, Unhandled DEF OpenChannel, Typed
<1> QED
  BY <1>4 DEF OpenChannel, keys, counters, Typed, Chains, Channels, Handlers, Counters

LEMMA DropTyped ==
  ASSUME Typed, NEW s \in Pages, Drop(s)
  PROVE  Typed'
<1> DEFINE p == [Blank(peer[s]) EXCEPT !.protocol = "pending"]
<1>1. p \in PeerState /\ p.hs = 0
  BY PeerTypes DEF Typed, Handshakes
<1>2. Wiped(s) \in Seq(PairHandshake) /\ DOMAIN Wiped(s) = DOMAIN shake[s]
  <2>1. Wiped(s) \in Seq(PairHandshake) /\ Len(Wiped(s)) = Len(shake[s])
    BY WipedTyped DEF Typed
  <2> QED
    BY <2>1, LenProperties DEF Typed, Handshakes
<1>3. /\ peer' = [peer EXCEPT ![s] = p] /\ shake' = [shake EXCEPT ![s] = Wiped(s)]
      /\ UNCHANGED <<starting, job>>
  BY DEF Drop
<1>4. Grown
  <2> HIDE DEF p
  <2> QED
    BY <1>1, <1>2, <1>3 DEF Typed, Handshakes, Grown
<1>5. Handshakes'
  BY <1>3, <1>4, Unhandled DEF Typed
<1>6. Channels'
  <2>1. PICK n \in 0 .. Len(wire[s]) : wire' = [wire EXCEPT ![s] = SubSeq(@, 1, n)]
    <3>1. wire[s] \in Seq(Frame)
      BY DEF Typed, Channels
    <3>2. Len(wire[s]) \in Nat
      BY <3>1, LenProperties
    <3>3. \E n \in 0 .. (IF Straddle THEN Len(wire[s]) ELSE 0) :
            wire' = [wire EXCEPT ![s] = SubSeq(@, 1, n)]
      BY DEF Drop
    <3>4. Len(wire[s]) \in 0 .. Len(wire[s]) /\ 0 .. 0 \subseteq 0 .. Len(wire[s])
      BY <3>2
    <3> QED
      BY <3>3, <3>4
  <2>2. SubSeq(wire[s], 1, n) \in Seq(Frame)
    <3>1. wire[s] \in Seq(Frame)
      BY DEF Typed, Channels
    <3>2. 1 \in Int /\ n \in Int /\ \A i \in 1 .. n : wire[s][i] \in Frame
      BY <3>1, LenProperties
    <3> QED
      BY <3>2, SubSeqProperties
  <2> QED
    BY <2>1, <2>2 DEF Drop, Typed, Channels
<1>7. Counters'
  BY PairAssumption DEF Drop, Typed, Counters
<1> QED
  BY <1>5, <1>6, <1>7 DEF Drop, keys, Typed, Chains, Handlers

(* A frame is taken off the channel and the handler goes on with j.        *)
LEMMA TookTyped ==
  ASSUME Typed, NEW s \in Pages, NEW t, Next4(s, t), wire' = Popped(s),
         Handshakes', job' \in [Pages -> Job], UNCHANGED <<keys, channel, send, counters>>
  PROVE  Typed'
<1>1. Popped(s) \in [Pages -> Seq(Frame)]
  BY Taken DEF Next4, Typed
<1> QED
  BY <1>1 DEF keys, channel, counters, Typed, Chains, Channels, Handlers, Counters

LEMMA IgnoredTyped ==
  ASSUME Typed, NEW s \in Pages, NEW t, Ignored(s, t)
  PROVE  Typed'
<1>1. Handshakes' /\ job' \in [Pages -> Job]
  BY SameGrown, Unhandled DEF Ignored, Typed, Handlers
<1> QED
  BY <1>1, TookTyped DEF Ignored

LEMMA TakeHelloTyped ==
  ASSUME Typed, NEW s \in Pages, TakeHello(s)
  PROVE  Typed'
<1> DEFINE j == [at |-> "hello", h |-> Head(wire[s]).h]
<1>1. Head(wire[s]).h \in Nat
  BY Taken, FrameCases DEF TakeHello, Next4, Typed
<1>2. j \in Job /\ j.at \notin Shaken
  BY <1>1 DEF Job, Shaken
<1>3. job' = [job EXCEPT ![s] = j] /\ Next4(s, "hello") /\ wire' = Popped(s)
      /\ UNCHANGED <<peer, shake, starting, keys, channel, send, counters>>
  BY DEF TakeHello, Do
<1> HIDE DEF j
<1>4. Handshakes' /\ job' \in [Pages -> Job]
  BY <1>2, <1>3, SameGrown, Handled DEF Typed
<1> QED
  BY <1>3, <1>4, TookTyped

LEMMA TakeKemTyped ==
  ASSUME Typed, NEW s \in Pages, TakeKem(s)
  PROVE  Typed'
<1> DEFINE f == Head(wire[s])
           j == IF peer[s].protocol = "refused" \/ peer[s].hs = 0 THEN Idle
                ELSE [at |-> "kem", by |-> f.by, for |-> f.for, hs |-> peer[s].hs]
<1>1. f.by \in Nat /\ f.for \in Nat
  BY Taken, FrameCases DEF TakeKem, Next4, Typed
<1>2. peer[s].hs \in Nat /\ peer[s].hs \in {0} \cup DOMAIN shake[s]
  BY DEF Typed, Handshakes, PeerState
<1>3. j \in Job /\ (j.at \in Shaken => j.hs \in DOMAIN shake[s])
  <2>1. CASE peer[s].protocol = "refused" \/ peer[s].hs = 0
    BY <2>1, IdleTyped
  <2>2. CASE ~(peer[s].protocol = "refused" \/ peer[s].hs = 0)
    BY <2>2, <1>1, <1>2 DEF Job
  <2> QED
    BY <2>1, <2>2
<1>4. job' = [job EXCEPT ![s] = j] /\ Next4(s, "kem") /\ wire' = Popped(s)
      /\ UNCHANGED <<peer, shake, starting, keys, channel, send, counters>>
  BY DEF TakeKem, Do
<1> HIDE DEF j
<1>5. Handshakes' /\ job' \in [Pages -> Job]
  BY <1>3, <1>4, SameGrown, Handled DEF Typed
<1> QED
  BY <1>4, <1>5, TookTyped

LEMMA TakeFrameTyped ==
  ASSUME Typed, NEW s \in Pages, TakeFrame(s)
  PROVE  Typed'
<1> DEFINE j == IF peer[s].session = {} THEN Idle
                ELSE [at |-> "open", with |-> peer[s].session, frame |-> Head(wire[s])]
<1>1. /\ Head(wire[s]) \in [t: {"p4"}, chain: Nat, session: Session]
      /\ peer[s].session \in Session
  BY Taken, FrameCases DEF TakeFrame, Next4, Typed, Handshakes, PeerState
<1>2. j \in Job /\ j.at \notin Shaken
  BY <1>1, IdleTyped DEF Job, Shaken
<1>3. job' = [job EXCEPT ![s] = j] /\ Next4(s, "p4") /\ wire' = Popped(s)
      /\ UNCHANGED <<peer, shake, starting, keys, channel, send, counters>>
  BY DEF TakeFrame, Do
<1> HIDE DEF j
<1>4. Handshakes' /\ job' \in [Pages -> Job]
  BY <1>2, <1>3, SameGrown, Handled DEF Typed
<1> QED
  BY <1>3, <1>4, TookTyped

LEMMA TakeResetTyped ==
  ASSUME Typed, NEW s \in Pages, TakeReset(s)
  PROVE  Typed'
<1> DEFINE p == [peer[s] EXCEPT !.warned = TRUE]
           r == [at |-> "restart", hs |-> Number(s)]
           q == [Blank(p) EXCEPT !.closed = TRUE, !.protocol = "refused"]
<1>1. p \in PeerState /\ p.hs = peer[s].hs /\ q \in PeerState /\ q.hs = 0
  <2>1. p \in PeerState /\ p.hs = peer[s].hs
    BY PeerTypes DEF Typed, Handshakes
  <2> HIDE DEF p
  <2> QED
    BY <2>1, PeerTypes
<1>2. Next4(s, "reset") /\ wire' = Popped(s) /\ UNCHANGED <<keys, channel, send, counters>>
  BY DEF TakeReset
<1>3. \/ /\ peer' = [peer EXCEPT ![s] = q] /\ shake' = [shake EXCEPT ![s] = Wiped(s)]
         /\ UNCHANGED <<starting, job>>
      \/ peer' = [peer EXCEPT ![s] = p] /\ UNCHANGED <<shake, starting, job>>
      \/ StartOver(s, p) /\ job' = [job EXCEPT ![s] = r]
  BY DEF TakeReset, Do
<1> HIDE DEF p, q
<1>4. CASE /\ peer' = [peer EXCEPT ![s] = q] /\ shake' = [shake EXCEPT ![s] = Wiped(s)]
           /\ UNCHANGED <<starting, job>>
  <2>1. Wiped(s) \in Seq(PairHandshake) /\ Len(Wiped(s)) = Len(shake[s])
    BY WipedTyped DEF Typed
  <2>2. DOMAIN Wiped(s) = DOMAIN shake[s]
    BY <2>1, LenProperties DEF Typed, Handshakes
  <2>3. Grown
    BY <1>1, <1>4, <2>1, <2>2 DEF Typed, Handshakes, Grown
  <2>4. Handshakes' /\ job' \in [Pages -> Job]
    BY <1>4, <2>3, Unhandled DEF Typed, Handlers
  <2> QED
    BY <1>2, <2>4, TookTyped
<1>5. CASE peer' = [peer EXCEPT ![s] = p] /\ UNCHANGED <<shake, starting, job>>
  <2>1. Handshakes' /\ job' \in [Pages -> Job]
    BY <1>1, <1>5, PeerGrown, Unhandled DEF Typed, Handlers
  <2> QED
    BY <1>2, <2>1, TookTyped
<1>6. CASE StartOver(s, p) /\ job' = [job EXCEPT ![s] = r]
  <2>1. Grown /\ Number(s) \in Nat /\ Number(s) \in DOMAIN shake'[s]
    BY <1>1, <1>6, StartOverTyped DEF Typed
  <2>2. r \in Job /\ r.hs \in DOMAIN shake'[s]
    BY <2>1 DEF Job
  <2> HIDE DEF r
  <2>3. Handshakes' /\ job' \in [Pages -> Job]
    BY <1>6, <2>1, <2>2, Handled DEF Typed
  <2> QED
    BY <1>2, <2>3, TookTyped
<1> QED
  BY <1>3, <1>4, <1>5, <1>6

LEMMA DecideHelloTyped ==
  ASSUME Typed, NEW s \in Pages, DecideHello(s)
  PROVE  Typed'
<1> DEFINE p == peer[s]
           n == IF p.hs = 0 \/ PeerStartsOver(p) THEN Number(s) ELSE p.hs
           j == [at |-> "await", h |-> job[s].h, hs |-> n]
<1>1. job[s].h \in Nat /\ p \in PeerState /\ shake[s] \in Seq(PairHandshake)
  BY JobCases DEF DecideHello, Typed, Handshakes, Handlers
<1>2. p.hs \in Nat /\ p.hs \in {0} \cup DOMAIN shake[s]
  BY DEF Typed, Handshakes, PeerState
<1>3. \/ job' = [job EXCEPT ![s] = Idle] /\ UNCHANGED <<peer, shake, starting>>
      \/ /\ job' = [job EXCEPT ![s] = j] /\ p.hs # 0 /\ ~PeerStartsOver(p)
         /\ UNCHANGED <<peer, shake, starting>>
      \/ /\ job' = [job EXCEPT ![s] = j] /\ (p.hs = 0 \/ PeerStartsOver(p))
         /\ Begin(s, p, shake[s]) \/ StartOver(s, p)
  BY DEF DecideHello, Do, PeerStartsOver
<1> HIDE DEF p
<1>4. ASSUME job' = [job EXCEPT ![s] = Idle], UNCHANGED <<peer, shake, starting>>
      PROVE  Handshakes' /\ job' \in [Pages -> Job]
  BY <1>4, IdleTyped, SameGrown, Handled DEF Typed
<1>5. ASSUME job' = [job EXCEPT ![s] = j], p.hs # 0, ~PeerStartsOver(p),
             UNCHANGED <<peer, shake, starting>>
      PROVE  Handshakes' /\ job' \in [Pages -> Job]
  <2>1. j \in Job /\ j.hs \in DOMAIN shake'[s]
    BY <1>1, <1>2, <1>5 DEF Job
  <2> HIDE DEF j
  <2> QED
    BY <1>5, <2>1, SameGrown, Handled DEF Typed
<1>6. ASSUME job' = [job EXCEPT ![s] = j], p.hs = 0 \/ PeerStartsOver(p),
             Begin(s, p, shake[s]) \/ StartOver(s, p)
      PROVE  Handshakes' /\ job' \in [Pages -> Job]
  <2>1. Grown /\ Number(s) \in Nat /\ Number(s) \in DOMAIN shake'[s]
    BY <1>1, <1>6, BeginTyped, StartOverTyped DEF Typed
  <2>2. j \in Job /\ j.hs \in DOMAIN shake'[s]
    BY <1>1, <1>6, <2>1 DEF Job
  <2> HIDE DEF j
  <2> QED
    BY <1>6, <2>1, <2>2, Handled DEF Typed
<1>7. Handshakes' /\ job' \in [Pages -> Job]
  BY <1>3, <1>4, <1>5, <1>6
<1> QED
  BY <1>7 DEF DecideHello, keys, channel, counters, Typed, Chains, Channels, Handlers, Counters

(* What goes on with a handshake, and changes nothing else.                *)
LEMMA WentTyped ==
  ASSUME Typed, NEW s \in Pages, Handshakes', job' \in [Pages -> Job],
         UNCHANGED <<keys, channel, wire, send, counters>>
  PROVE  Typed'
BY DEF keys, channel, counters, Typed, Chains, Channels, Handlers, Counters

LEMMA AwaitedHelloTyped ==
  ASSUME Typed, NEW s \in Pages, AwaitedHello(s)
  PROVE  Typed'
<1> DEFINE j == IF shake[s][job[s].hs].done THEN Idle ELSE [job[s] EXCEPT !.at = "accept"]
<1>1. job[s] \in Job /\ job[s].at = "await" /\ job[s].hs \in DOMAIN shake[s]
  BY DEF AwaitedHello, Typed, Handlers, Handshakes, Shaken
<1>2. [job[s] EXCEPT !.at = "accept"] \in Job /\ [job[s] EXCEPT !.at = "accept"].hs = job[s].hs
  BY <1>1, JobCases DEF Job, HandingOut
<1>3. j \in Job /\ (j.at \in Shaken => j.hs \in DOMAIN shake[s])
  BY <1>1, <1>2, IdleTyped
<1>4. job' = [job EXCEPT ![s] = j]
      /\ UNCHANGED <<peer, shake, starting, keys, channel, wire, send, counters>>
  BY DEF AwaitedHello, Do
<1> HIDE DEF j
<1>5. Handshakes' /\ job' \in [Pages -> Job]
  BY <1>3, <1>4, SameGrown, Handled DEF Typed
<1> QED
  BY <1>4, <1>5, WentTyped

(* One handshake of the page changes to k or stays, the page goes on.      *)
LEMMA GoesTyped ==
  ASSUME Typed, NEW s \in Pages, NEW h \in DOMAIN shake[s], NEW k \in PairHandshake,
         Goes(s, h, k), UNCHANGED starting, NEW p \in PeerState, p.hs = peer[s].hs,
         peer' = [peer EXCEPT ![s] = p]
  PROVE  Handshakes' /\ job' \in [Pages -> Job]
<1> DEFINE e == [at |-> "establish", hs |-> h]
<1>1. h \in 1 .. Len(shake[s]) /\ h \in Nat /\ shake[s] \in Seq(PairHandshake)
  BY LenProperties DEF Typed, Handshakes
<1>2. shake[s][h] \in PairHandshake
  BY <1>1, ElementOfSeq
<1>3. \E x \in PairHandshake : \E j \in {Idle, e} :
        shake' = [shake EXCEPT ![s][h] = x] /\ job' = [job EXCEPT ![s] = j]
  <2>1. [k EXCEPT !.done = TRUE] \in PairHandshake
    BY ShakeTypes
  <2>2. \/ /\ shake' = [shake EXCEPT ![s][h] = [k EXCEPT !.done = TRUE]]
           /\ job' = [job EXCEPT ![s] = e]
        \/ /\ shake' = [shake EXCEPT ![s][h] = IF shake[s][h].done THEN shake[s][h] ELSE k]
           /\ job' = [job EXCEPT ![s] = Idle]
    BY DEF Goes, Do
  <2> HIDE DEF e
  <2> QED
    BY <1>2, <2>1, <2>2
<1>4. PICK x \in PairHandshake, j \in {Idle, e} :
        shake' = [shake EXCEPT ![s][h] = x] /\ job' = [job EXCEPT ![s] = j]
  BY <1>3
<1>5. /\ shake' \in [Pages -> Seq(PairHandshake)]
      /\ \A t \in Pages : DOMAIN shake'[t] = DOMAIN shake[t]
  BY <1>4, ShakeChanged DEF Typed
<1>6. Grown
  BY <1>5 DEF Typed, Handshakes, Grown
<1>7. j \in Job /\ (j.at \in Shaken => j.hs \in DOMAIN shake'[s])
  <2>1. e \in Job /\ e.hs = h
    BY <1>1 DEF Job
  <2> HIDE DEF e
  <2> QED
    BY <1>5, <2>1, IdleTyped
<1> QED
  BY <1>4, <1>6, <1>7, Handled DEF Typed

LEMMA AcceptHelloTyped ==
  ASSUME Typed, NEW s \in Pages, AcceptHello(s)
  PROVE  Typed'
<1> DEFINE h == job[s].h
           n == job[s].hs
           p == [peer[s] EXCEPT !.accepted = h, !.known = TRUE, !.protocol = Heard(peer[s])]
<1>1. h \in Nat /\ n \in DOMAIN shake[s] /\ shake[s] \in Seq(PairHandshake)
  BY JobCases DEF AcceptHello, Typed, Handshakes, Handlers, Shaken
<1>2. n \in Nat /\ shake[s][n] \in PairHandshake
  BY <1>1, LenProperties, ElementOfSeq
<1>3. p \in PeerState /\ p.hs = peer[s].hs
  BY <1>1 DEF Typed, Handshakes, PeerState, Heard
<1>4. [shake[s][n] EXCEPT !.to = h] \in PairHandshake
  BY <1>1, <1>2, ShakeTypes
<1>5. /\ peer' = [peer EXCEPT ![s] = p] /\ UNCHANGED starting
      /\ Goes(s, n, [shake[s][n] EXCEPT !.to = h])
  BY DEF AcceptHello
<1>6. Handshakes' /\ job' \in [Pages -> Job]
  <2> HIDE DEF p, n, h
  <2> QED
    BY <1>1, <1>3, <1>4, <1>5, GoesTyped
<1>7. [t |-> "kem", by |-> n, for |-> h] \in Frame
  BY <1>1, <1>2, FrameTypes
<1>8. Channels'
  BY <1>7, Sent DEF AcceptHello, Sends, channel, Typed, Channels
<1> QED
  BY <1>6, <1>8 DEF AcceptHello, keys, counters, Typed, Chains, Handlers, Counters

LEMMA ResetByUsTyped ==
  ASSUME Typed, NEW s \in Pages, ResetByUs(s)
  PROVE  /\ Handshakes' /\ job' \in [Pages -> Job]
         /\ wire' \in [Pages -> Seq(Frame)]
         /\ refusals' \in [Pages -> Nat]
<1> DEFINE r == [at |-> "restart", hs |-> Number(s)]
<1>1. peer[s] \in PeerState
  BY DEF Typed, Handshakes
<1>2. Grown /\ Number(s) \in Nat /\ Number(s) \in DOMAIN shake'[s]
  BY <1>1, StartOverTyped DEF ResetByUs, Typed
<1>3. r \in Job /\ r.hs \in DOMAIN shake'[s]
  BY <1>2 DEF Job
<1>4. job' = [job EXCEPT ![s] = r]
  BY DEF ResetByUs, Do
<1> HIDE DEF r
<1>5. Handshakes' /\ job' \in [Pages -> Job]
  BY <1>2, <1>3, <1>4, Handled DEF Typed
<1>6. wire' \in [Pages -> Seq(Frame)]
  BY Sent, FrameTypes DEF ResetByUs, Sends, Typed
<1>7. refusals' \in [Pages -> Nat]
  BY DEF ResetByUs, Typed, Counters
<1> QED
  BY <1>5, <1>6, <1>7

LEMMA AwaitedKemTyped ==
  ASSUME Typed, NEW s \in Pages, AwaitedKem(s)
  PROVE  Typed'
<1> DEFINE j == IF peer[s].session # {} THEN Idle ELSE [job[s] EXCEPT !.at = "take"]
<1>1. job[s] \in Job /\ job[s].at = "kem" /\ job[s].hs \in DOMAIN shake[s]
  BY DEF AwaitedKem, Typed, Handlers, Handshakes, Shaken
<1>2. [job[s] EXCEPT !.at = "take"] \in Job /\ [job[s] EXCEPT !.at = "take"].hs = job[s].hs
  BY <1>1, JobCases DEF Job, HandingOut
<1>3. j \in Job /\ (j.at \in Shaken => j.hs \in DOMAIN shake[s])
  BY <1>1, <1>2, IdleTyped
<1>4. \/ ResetByUs(s)
      \/ job' = [job EXCEPT ![s] = j] /\ UNCHANGED <<peer, shake, starting, wire, refusals>>
  BY DEF AwaitedKem, Do
<1> HIDE DEF j
<1>5. /\ Handshakes' /\ job' \in [Pages -> Job]
      /\ wire' \in [Pages -> Seq(Frame)]
      /\ refusals' \in [Pages -> Nat]
  <2>1. CASE ResetByUs(s)
    BY <2>1, ResetByUsTyped
  <2>2. CASE job' = [job EXCEPT ![s] = j] /\ UNCHANGED <<peer, shake, starting, wire, refusals>>
    <3>1. Handshakes' /\ job' \in [Pages -> Job]
      BY <1>3, <2>2, SameGrown, Handled DEF Typed
    <3> QED
      BY <2>2, <3>1 DEF Typed, Channels, Counters
  <2> QED
    BY <1>4, <2>1, <2>2
<1> QED
  BY <1>5 DEF AwaitedKem, keys, channel, Typed, Chains, Channels, Handlers, Counters

LEMMA AcceptKemTyped ==
  ASSUME Typed, NEW s \in Pages, AcceptKem(s)
  PROVE  Typed'
<1> DEFINE n == job[s].hs
           k == [shake[s][n] EXCEPT !.got = job[s].by]
<1>1. job[s] \in Job /\ job[s].by \in Nat /\ n \in DOMAIN shake[s] /\ shake[s] \in Seq(PairHandshake)
  BY JobCases DEF AcceptKem, Typed, Handshakes, Handlers, Shaken
<1>2. shake[s][n] \in PairHandshake
  BY <1>1, LenProperties, ElementOfSeq
<1>3. k \in PairHandshake
  BY <1>1, <1>2, ShakeTypes
<1>4. \/ job' = [job EXCEPT ![s] = Idle] /\ UNCHANGED shake
      \/ Goes(s, n, k)
  BY DEF AcceptKem, Do
<1>5. UNCHANGED <<peer, starting>>
  BY DEF AcceptKem
<1> HIDE DEF n, k
<1>6. Handshakes' /\ job' \in [Pages -> Job]
  <2>1. CASE job' = [job EXCEPT ![s] = Idle] /\ UNCHANGED shake
    BY <1>5, <2>1, IdleTyped, SameGrown, Handled DEF Typed
  <2>2. CASE Goes(s, n, k)
    <3>1. peer' = [peer EXCEPT ![s] = peer[s]] /\ peer[s] \in PeerState
      BY <1>5 DEF Typed, Handshakes
    <3> QED
      BY <1>1, <1>3, <1>5, <2>2, <3>1, GoesTyped
  <2> QED
    BY <1>4, <2>1, <2>2
<1> QED
  BY <1>6, WentTyped DEF AcceptKem

(* Who said which hello and answered which.                                *)
LEMMA SessionTyped ==
  ASSUME Typed, NEW s \in Pages, NEW h \in DOMAIN shake[s]
  PROVE  SessionOf(s, h) \in Session
<1>1. h \in Nat /\ shake[s][h] \in PairHandshake
  BY LenProperties, ElementOfSeq DEF Typed, Handshakes
<1>2. shake[s][h].to \in Nat /\ shake[s][h].got \in Nat /\ Other(s) \in Pages
  BY <1>1, TwoPages DEF PairHandshake
<1> QED
  BY <1>1, <1>2 DEF SessionOf, Session

LEMMA EstablishTyped ==
  ASSUME Typed, NEW s \in Pages, Establish(s)
  PROVE  Typed'
<1> DEFINE p == [peer[s] EXCEPT !.session = SessionOf(s, job[s].hs),
                                !.protocol = "p4", !.failed = FALSE]
           j == [at |-> "hand"]
<1>1. job[s].hs \in DOMAIN shake[s]
  BY DEF Establish, Typed, Handshakes, Shaken
<1>2. SessionOf(s, job[s].hs) \in Session
  BY <1>1, SessionTyped
<1>3. p \in PeerState /\ p.hs = peer[s].hs
  BY <1>2 DEF Typed, Handshakes, PeerState
<1>4. j \in Job /\ j.at \notin Shaken
  BY DEF Job, Shaken
<1>5. peer' = [peer EXCEPT ![s] = p] /\ job' = [job EXCEPT ![s] = j] /\ UNCHANGED <<shake, starting>>
  BY DEF Establish, Do
<1> HIDE DEF p, j
<1>6. Handshakes' /\ job' \in [Pages -> Job]
  BY <1>3, <1>4, <1>5, PeerGrown, Handled DEF Typed
<1>7. Chains'
  <2>1. Rehello(chain[s]) \in [id: Nat, given: BOOLEAN]
    BY DEF Typed, Chains, Rehello
  <2> QED
    BY <2>1 DEF Establish, Typed, Chains
<1> QED
  BY <1>6, <1>7 DEF Establish, channel, counters, Typed, Channels, Handlers, Counters

LEMMA PreparedTyped ==
  ASSUME Typed, NEW s \in Pages, NEW due \in BOOLEAN
  PROVE  /\ Prepared(s, due) \in [id: Nat, given: BOOLEAN]
         /\ Prepares(s, Prepared(s, due)) =>
              /\ chain' \in [Pages -> [id: Nat, given: BOOLEAN]]
              /\ chains' \in [Pages -> Nat]
<1>1. Prepared(s, due) \in [id: Nat, given: BOOLEAN]
  BY DEF Typed, Chains, Prepared
<1>2. Prepared(s, due).id \in Nat
  BY <1>1
<1> QED
  BY <1>1, <1>2 DEF Typed, Chains, Prepares

LEMMA HandOutTyped ==
  ASSUME Typed, NEW s \in Pages, HandOut(s)
  PROVE  Typed'
<1> DEFINE c == Prepared(s, FALSE)
<1>1. c \in [id: Nat, given: BOOLEAN] /\ peer[s].session \in Session
  BY PreparedTyped DEF Typed, Handshakes, PeerState
<1>2. Handing(s, c) \in Job /\ Handing(s, c).at \notin Shaken
  <2> HIDE DEF c
  <2> QED
    BY <1>1 DEF Handing, Job, HandingOut, Shaken
<1>3. \/ job' = [job EXCEPT ![s] = Idle] /\ UNCHANGED <<chain, chains>>
      \/ /\ Prepares(s, c)
         /\ job' = [job EXCEPT ![s] = Idle] \/ job' = [job EXCEPT ![s] = Handing(s, c)]
  BY DEF HandOut, Do
<1>4. chain' \in [Pages -> [id: Nat, given: BOOLEAN]] /\ chains' \in [Pages -> Nat]
  BY <1>3, PreparedTyped DEF Typed, Chains
<1>5. UNCHANGED <<peer, shake, starting, kept, channel, wire, send, counters>>
  BY DEF HandOut
<1> HIDE DEF c
<1>6. Handshakes' /\ job' \in [Pages -> Job]
  BY <1>2, <1>3, <1>5, IdleTyped, SameGrown, Handled DEF Typed
<1> QED
  BY <1>4, <1>5, <1>6 DEF channel, counters, Typed, Chains, Channels, Handlers, Counters

LEMMA HandsTyped ==
  ASSUME Typed, NEW s \in Pages, NEW h, h.id \in Nat, h.session \in Session, NEW went \in BOOLEAN,
         Hands(s, h, went)
  PROVE  /\ wire' \in [Pages -> Seq(Frame)]
         /\ chain' \in [Pages -> [id: Nat, given: BOOLEAN]]
<1>1. CASE went
  <2>1. [t |-> "p4", session |-> h.session, chain |-> h.id] \in Frame
    BY FrameTypes
  <2>2. wire' \in [Pages -> Seq(Frame)]
    BY <1>1, <2>1, Sent DEF Hands, Sends, Typed
  <2>3. chain' = [chain EXCEPT ![s].given = @ \/ chain[s].id = h.id]
    BY <1>1 DEF Hands
  <2> QED
    BY <2>2, <2>3 DEF Typed, Chains
<1>2. CASE ~went
  BY <1>2 DEF Hands, Typed, Channels, Chains
<1> QED
  BY <1>1, <1>2

LEMMA HandedOutTyped ==
  ASSUME Typed, NEW s \in Pages, HandedOut(s)
  PROVE  Typed'
<1>1. job[s].id \in Nat /\ job[s].session \in Session
  BY JobCases DEF HandedOut, Typed, Handlers
<1>2. /\ wire' \in [Pages -> Seq(Frame)]
      /\ chain' \in [Pages -> [id: Nat, given: BOOLEAN]]
  BY <1>1, HandsTyped DEF HandedOut
<1>3. job' = [job EXCEPT ![s] = Idle] /\ UNCHANGED <<peer, shake, starting>>
  BY DEF HandedOut, Do
<1>4. Handshakes' /\ job' \in [Pages -> Job]
  BY <1>3, IdleTyped, SameGrown, Handled DEF Typed
<1> QED
  BY <1>2, <1>4 DEF HandedOut, channel, counters, Typed, Chains, Channels, Handlers, Counters

(* A room message goes on; the handlers do not.                            *)
LEMMA SendingTyped ==
  ASSUME Typed, NEW s \in Pages, NEW x \in Send, send' = [send EXCEPT ![s] = x],
         UNCHANGED <<peer, shake, starting, job>>
  PROVE  Handshakes' /\ Handlers'
<1>1. Handshakes'
  BY SameGrown, Unhandled DEF Typed
<1> QED
  BY <1>1 DEF Typed, Handlers

LEMMA SealRoomTyped ==
  ASSUME Typed, NEW s \in Pages, SealRoom(s)
  PROVE  Typed'
<1>1. PICK due \in BOOLEAN :
        /\ Prepares(s, Prepared(s, due))
        /\ send' = [send EXCEPT ![s] =
                      IF Prepared(s, due).given THEN [at |-> "seal", session |-> peer[s].session]
                      ELSE Handing(s, Prepared(s, due))]
  BY DEF SealRoom
<1> DEFINE c == Prepared(s, due)
           x == IF c.given THEN [at |-> "seal", session |-> peer[s].session] ELSE Handing(s, c)
<1>2. c \in [id: Nat, given: BOOLEAN] /\ peer[s].session \in Session
  BY PreparedTyped DEF Typed, Handshakes, PeerState
<1>3. chain' \in [Pages -> [id: Nat, given: BOOLEAN]] /\ chains' \in [Pages -> Nat]
  BY <1>1, PreparedTyped
<1>4. x \in Send
  <2> HIDE DEF c
  <2> QED
    BY <1>2 DEF Send, Handing, HandingOut
<1>5. send' = [send EXCEPT ![s] = x]
  BY <1>1
<1> HIDE DEF x
<1>6. Handshakes' /\ Handlers'
  BY <1>4, <1>5, SendingTyped DEF SealRoom
<1>7. sends' \in 0 .. MaxSends
  BY PairAssumption DEF SealRoom, Typed, Counters
<1> QED
  BY <1>3, <1>6, <1>7 DEF SealRoom, channel, Typed, Chains, Channels, Counters

LEMMA SendChainTyped ==
  ASSUME Typed, NEW s \in Pages, SendChain(s)
  PROVE  Typed'
<1>1. send[s].id \in Nat /\ send[s].session \in Session
  BY SendCases DEF SendChain, Typed, Handlers
<1>2. PICK went \in BOOLEAN :
        /\ Hands(s, send[s], went)
        /\ send' = [send EXCEPT ![s] =
                      IF went THEN [at |-> "seal", session |-> send[s].session] ELSE Idle]
  BY DEF SendChain
<1> DEFINE x == IF went THEN [at |-> "seal", session |-> send[s].session] ELSE Idle
<1>3. /\ wire' \in [Pages -> Seq(Frame)]
      /\ chain' \in [Pages -> [id: Nat, given: BOOLEAN]]
  BY <1>1, <1>2, HandsTyped
<1>4. x \in Send
  BY <1>1, IdleTyped DEF Send
<1>5. send' = [send EXCEPT ![s] = x]
  BY <1>2
<1> HIDE DEF x
<1>6. Handshakes' /\ Handlers'
  BY <1>4, <1>5, SendingTyped DEF SendChain
<1> QED
  BY <1>3, <1>6 DEF SendChain, channel, counters, Typed, Chains, Channels, Counters

LEMMA SealTyped ==
  ASSUME Typed, NEW s \in Pages, Seal(s)
  PROVE  Typed'
<1> DEFINE x == IF chain[s].id = 0 THEN Idle
                ELSE [at |-> "sealed", chain |-> chain[s].id, session |-> send[s].session]
<1>1. x \in Send
  <2>1. send[s].session \in Session /\ chain[s].id \in Nat
    BY SendCases DEF Seal, Typed, Handlers, Chains
  <2> QED
    BY <2>1, IdleTyped DEF Send
<1>2. send' = [send EXCEPT ![s] = x]
  BY DEF Seal
<1> HIDE DEF x
<1>3. Handshakes' /\ Handlers'
  BY <1>1, <1>2, SendingTyped DEF Seal
<1> QED
  BY <1>3 DEF Seal, keys, channel, counters, Typed, Chains, Channels, Counters

LEMMA SendRoomTyped ==
  ASSUME Typed, NEW s \in Pages, SendRoom(s)
  PROVE  Typed'
<1>1. send[s].chain \in Nat /\ send[s].session \in Session
  BY SendCases DEF SendRoom, Typed, Handlers
<1>2. [t |-> "room", chain |-> send[s].chain, session |-> send[s].session] \in Frame
  BY <1>1 DEF Frame
<1>3. wire' \in [Pages -> Seq(Frame)]
  BY <1>2, Sent DEF SendRoom, Sends, Typed, Channels
<1>4. Handshakes' /\ Handlers'
  BY IdleTyped, SendingTyped DEF SendRoom
<1> QED
  BY <1>3, <1>4 DEF SendRoom, keys, channel, counters, Typed, Chains, Channels, Counters

(* The newest chain and at most one older.                                 *)
LEMMA KeepTyped ==
  ASSUME NEW ks \in Seq(Nat), Len(ks) <= 2, NEW c \in Nat
  PROVE  Keep(ks, c) \in Seq(Nat) /\ Len(Keep(ks, c)) <= 2
<1> DEFINE older == {i \in DOMAIN ks : ks[i] # c}
<1>1. DOMAIN ks \subseteq {1, 2} /\ \A i \in DOMAIN ks : ks[i] \in Nat
  BY LenProperties
<1>2. older # {} => Max(older) \in older
  <2>1. older \subseteq {1, 2}
    BY <1>1
  <2> HIDE DEF older
  <2>2. older # {} => \E x \in older : \A y \in older : x >= y
    <3>1. CASE 2 \in older
      BY <2>1, <3>1
    <3>2. CASE 2 \notin older
      <4>1. \A x \in older : x = 1
        BY <2>1, <3>2
      <4> QED
        BY <4>1
    <3> QED
      BY <3>1, <3>2
  <2> QED
    BY <2>2 DEF Max
<1>3. CASE older = {}
  BY <1>3 DEF Keep
<1>4. CASE older # {}
  <2>1. Keep(ks, c) = <<ks[Max(older)], c>>
    BY <1>4 DEF Keep
  <2>2. ks[Max(older)] \in Nat
    BY <1>1, <1>2, <1>4
  <2> QED
    BY <2>1, <2>2
<1> QED
  BY <1>3, <1>4

LEMMA OpenFrameTyped ==
  ASSUME Typed, NEW s \in Pages, OpenFrame(s)
  PROVE  Typed'
<1>1. job[s].frame.chain \in Nat
  BY JobCases DEF OpenFrame, Typed, Handlers
<1>2. /\ Keep(kept[s], job[s].frame.chain) \in Seq(Nat)
      /\ Len(Keep(kept[s], job[s].frame.chain)) <= 2
  BY <1>1, KeepTyped DEF Typed, Chains
<1>3. kept' = [kept EXCEPT ![s] = Keep(kept[s], job[s].frame.chain)]
  BY DEF OpenFrame
<1>4. kept' \in [Pages -> Seq(Nat)] /\ \A t \in Pages : Len(kept'[t]) <= 2
  BY <1>2, <1>3 DEF Typed, Chains
<1>5. job' = [job EXCEPT ![s] = Idle] /\ UNCHANGED <<peer, shake, starting>>
  BY DEF OpenFrame, Do
<1>6. Handshakes' /\ job' \in [Pages -> Job]
  BY <1>5, IdleTyped, SameGrown, Handled DEF Typed
<1> QED
  BY <1>4, <1>6 DEF OpenFrame, channel, counters, Typed, Chains, Channels, Handlers, Counters

LEMMA FailFrameTyped ==
  ASSUME Typed, NEW s \in Pages, FailFrame(s)
  PROVE  Typed'
<1> DEFINE sound == job[s].with = peer[s].session /\ job[s].frame.session = job[s].with
           p == [peer[s] EXCEPT !.failed = @ \/ job[s].with = peer[s].session]
<1>1. /\ sound => faults[s] < MaxFaults
      /\ faults' = [faults EXCEPT ![s] = IF sound THEN @ + 1 ELSE @]
  BY DEF FailFrame
<1>2. faults' \in [Pages -> 0 .. MaxFaults]
  <2> HIDE DEF sound
  <2> QED
    BY <1>1, PairAssumption DEF Typed, Counters
<1>3. p \in PeerState /\ p.hs = peer[s].hs
  BY DEF Typed, Handshakes, PeerState
<1>4. \/ ResetByUs(s)
      \/ /\ peer' = [peer EXCEPT ![s] = p]
         /\ job' = [job EXCEPT ![s] = Idle] /\ UNCHANGED <<shake, starting, wire, refusals>>
  BY DEF FailFrame, Do
<1> HIDE DEF p, sound
<1>5. ASSUME peer' = [peer EXCEPT ![s] = p],
             job' = [job EXCEPT ![s] = Idle], UNCHANGED <<shake, starting, wire, refusals>>
      PROVE  /\ Handshakes' /\ job' \in [Pages -> Job]
             /\ wire' \in [Pages -> Seq(Frame)] /\ refusals' \in [Pages -> Nat]
  <2>1. Handshakes' /\ job' \in [Pages -> Job]
    BY <1>3, <1>5, IdleTyped, PeerGrown, Handled DEF Typed
  <2> QED
    BY <1>5, <2>1 DEF Typed, Channels, Counters
<1>6. /\ Handshakes' /\ job' \in [Pages -> Job]
      /\ wire' \in [Pages -> Seq(Frame)] /\ refusals' \in [Pages -> Nat]
  BY <1>4, <1>5, ResetByUsTyped
<1> QED
  BY <1>2, <1>6 DEF FailFrame, keys, channel, Typed, Chains, Channels, Handlers, Counters

LEMMA StartedOverTyped ==
  ASSUME Typed, NEW s \in Pages, StartedOver(s)
  PROVE  Typed'
<1>1. job' = [job EXCEPT ![s] = Idle]
      /\ UNCHANGED <<peer, shake, starting, keys, channel, wire, send, counters>>
  BY DEF StartedOver, Do
<1>2. Handshakes' /\ job' \in [Pages -> Job]
  BY <1>1, IdleTyped, SameGrown, Handled DEF Typed
<1> QED
  BY <1>1, <1>2, WentTyped

LEMMA WindowPassesTyped ==
  ASSUME Typed, NEW s \in Pages, WindowPasses(s)
  PROVE  Typed'
<1> DEFINE p == [peer[s] EXCEPT !.warned = FALSE]
<1>1. p \in PeerState /\ p.hs = peer[s].hs
  BY PeerTypes DEF Typed, Handshakes
<1>2. /\ peer' = [peer EXCEPT ![s] = p]
      /\ UNCHANGED <<shake, starting, keys, channel, wire, job, send, counters>>
  BY DEF WindowPasses
<1> HIDE DEF p
<1>3. Handshakes' /\ job' \in [Pages -> Job]
  BY <1>1, <1>2, PeerGrown, Unhandled DEF Typed, Handlers
<1> QED
  BY <1>2, <1>3, WentTyped

LEMMA StepTyped ==
  ASSUME Typed, [Next]_vars
  PROVE  Typed'
<1>1. CASE UNCHANGED vars
  <2>1. Handshakes'
    BY <1>1, SameGrown, Unhandled DEF vars, Typed
  <2> QED
    BY <1>1, <2>1 DEF vars, Typed, Chains, Channels, Handlers, Counters
<1>2. CASE Connect
  BY <1>2, ConnectTyped
<1>3. CASE Rest
  BY <1>1, <1>3 DEF Rest
<1>4. ASSUME NEW s \in Pages,
             OpenChannel(s) \/ Drop(s) \/ IgnoreClosed(s) \/ TakeRoom(s)
               \/ (\E h \in starting[s] : Started(s, h))
      PROVE  Typed'
  <2>1. CASE IgnoreClosed(s) \/ TakeRoom(s)
    BY <2>1, IgnoredTyped DEF IgnoreClosed, TakeRoom
  <2> QED
    BY <1>4, <2>1, OpenChannelTyped, DropTyped, StartedTyped
<1>5. ASSUME NEW s \in Pages,
             TakeHello(s) \/ DecideHello(s) \/ AwaitedHello(s) \/ AcceptHello(s)
               \/ TakeKem(s) \/ AwaitedKem(s) \/ AcceptKem(s) \/ Establish(s)
      PROVE  Typed'
  BY <1>5, TakeHelloTyped, DecideHelloTyped, AwaitedHelloTyped, AcceptHelloTyped,
     TakeKemTyped, AwaitedKemTyped, AcceptKemTyped, EstablishTyped
<1>6. ASSUME NEW s \in Pages,
             HandOut(s) \/ HandedOut(s) \/ SealRoom(s) \/ SendChain(s) \/ Seal(s) \/ SendRoom(s)
      PROVE  Typed'
  BY <1>6, HandOutTyped, HandedOutTyped, SealRoomTyped, SendChainTyped, SealTyped, SendRoomTyped
<1>7. ASSUME NEW s \in Pages,
             TakeFrame(s) \/ OpenFrame(s) \/ FailFrame(s)
               \/ TakeReset(s) \/ StartedOver(s) \/ WindowPasses(s)
      PROVE  Typed'
  BY <1>7, TakeFrameTyped, OpenFrameTyped, FailFrameTyped,
     TakeResetTyped, StartedOverTyped, WindowPassesTyped
<1> QED
  BY <1>1, <1>2, <1>3, <1>4, <1>5, <1>6, <1>7 DEF Next

LEMMA InitTyped == Init => Typed
<1> SUFFICES ASSUME Init PROVE Typed
  OBVIOUS
<1>1. NewPeer \in PeerState /\ NewPeer.hs = 0
  BY PeerTypes DEF NewPeer
<1>2. <<>> \in Seq(PairHandshake) /\ <<>> \in Seq(Nat) /\ <<>> \in Seq(Frame) /\ Len(<<>>) = 0
  OBVIOUS
<1>3. Handshakes
  BY <1>1, <1>2, IdleTyped DEF Init, Handshakes
<1>4. Chains
  BY <1>2 DEF Init, Chains
<1> QED
  BY <1>2, <1>3, <1>4, IdleTyped, PairAssumption DEF Init, Typed, Channels, Handlers, Counters

LEMMA AlwaysTyped == Spec => []Typed
<1>1. Init => Typed
  BY InitTyped
<1>2. Typed /\ [Next]_vars => Typed'
  BY StepTyped
<1> QED
  BY <1>1, <1>2, PTL DEF Spec

(* The types of the model hold in every state it reaches, whatever comes   *)
(* in whatever order: the handshake of a page and those whose hello is     *)
(* being made are ones it began and still knows, a frame that waits to be  *)
(* opened is one of the session, and of the other page's chains never more *)
(* than two are kept (P4Room, SenderKeys4.acceptChain).                    *)
THEOREM TypeCorrect == Spec => []TypeOK
<1>1. Typed => TypeOK
  BY DEF Typed, Handshakes, Chains, Channels, Handlers, Counters, TypeOK
<1> QED
  BY <1>1, AlwaysTyped, PTL

----------------------------------------------------------------------------
(* A page is given up for two resets.  Each that is on its way, and the    *)
(* one a page was warned by, is one more that the other page sent; so a    *)
(* page that closes had two of them.                                       *)
IsReset(w, i) == w[i].t = "reset"
Accounted(s) ==
  LET n == refusals[Other(s)] IN
  /\ \A i \in DOMAIN wire[s] : IsReset(wire[s], i) => n >= (IF peer[s].warned THEN 2 ELSE 1)
  /\ \A i, j \in DOMAIN wire[s] : i # j /\ IsReset(wire[s], i) /\ IsReset(wire[s], j) => n >= 2
  /\ peer[s].warned => n >= 1
  /\ peer[s].closed => n >= 2
AllAccounted == \A s \in Pages : Accounted(s)

(* Most steps say no reset: no more of them are on their way, no page is   *)
(* warned or closed.                                                       *)
Milder(p, q) == (p.warned => q.warned) /\ (p.closed => q.closed)
Mild == \A s \in Pages : Milder(peer'[s], peer[s])
Fewer(w, v) ==
  \E d \in Nat : \A i \in DOMAIN w :
    IsReset(w, i) => i + d \in DOMAIN v /\ IsReset(v, i + d)
Drained == \A s \in Pages : Fewer(wire'[s], wire[s])

LEMMA CalmStep ==
  ASSUME Typed, Typed', AllAccounted, Mild, Drained, UNCHANGED refusals
  PROVE  AllAccounted'
<1> SUFFICES ASSUME NEW s \in Pages PROVE Accounted(s)'
  BY DEF AllAccounted
<1> DEFINE n == refusals[Other(s)]
           w == wire[s]
           x == wire'[s]
<1>1. n \in Nat
  BY TwoPages DEF Typed, Counters
<1>2. /\ \A i \in DOMAIN w : IsReset(w, i) => n >= (IF peer[s].warned THEN 2 ELSE 1)
      /\ \A i, j \in DOMAIN w : i # j /\ IsReset(w, i) /\ IsReset(w, j) => n >= 2
      /\ peer[s].warned => n >= 1
      /\ peer[s].closed => n >= 2
  BY DEF AllAccounted, Accounted
<1>3. PICK d \in Nat : \A i \in DOMAIN x :
        IsReset(x, i) => i + d \in DOMAIN w /\ IsReset(w, i + d)
  BY DEF Drained, Fewer
<1>4. (peer'[s].warned => peer[s].warned) /\ (peer'[s].closed => peer[s].closed)
  BY DEF Mild, Milder
<1>5. wire'[s] = x /\ refusals'[Other(s)] = n
  OBVIOUS
<1>6. \A i \in DOMAIN x : i \in Nat
  BY LenProperties DEF Typed, Channels
<1> HIDE DEF n, w, x
<1>7. \A i \in DOMAIN x : IsReset(x, i) => n >= (IF peer'[s].warned THEN 2 ELSE 1)
  BY <1>1, <1>2, <1>3, <1>4
<1>8. ASSUME NEW i \in DOMAIN x, NEW j \in DOMAIN x, i # j, IsReset(x, i), IsReset(x, j)
      PROVE  n >= 2
  <2>1. i + d # j + d
    BY <1>6, <1>8
  <2> QED
    BY <1>2, <1>3, <1>8, <2>1
<1> QED
  BY <1>2, <1>4, <1>5, <1>7, <1>8 DEF Accounted

LEMMA DrainedSame ==
  ASSUME Typed, UNCHANGED wire
  PROVE  Drained
<1> SUFFICES ASSUME NEW s \in Pages PROVE Fewer(wire[s], wire[s])
  BY DEF Drained
<1>1. \A i \in DOMAIN wire[s] : i \in Nat
  BY LenProperties DEF Typed, Channels
<1>2. \A i \in DOMAIN wire[s] : i + 0 = i
  BY <1>1
<1> QED
  BY <1>2 DEF Fewer

LEMMA MildSame == UNCHANGED peer => Mild
BY DEF Mild, Milder

LEMMA DrainedPopped ==
  ASSUME Typed, NEW s \in Pages, wire[s] # <<>>, wire' = Popped(s)
  PROVE  /\ Drained
         /\ \A i \in DOMAIN wire'[s] : i + 1 \in DOMAIN wire[s] /\ wire'[s][i] = wire[s][i + 1]
         /\ 1 \in DOMAIN wire[s] /\ wire[s][1] = Head(wire[s])
<1> DEFINE w == wire[s]
<1>1. w \in Seq(Frame) /\ w # <<>>
  BY DEF Typed, Channels
<1>2. wire'[s] = Tail(w) /\ \A t \in Pages : t # s => wire'[t] = wire[t]
  BY DEF Popped, Typed, Channels
<1> HIDE DEF w
<1>3. /\ Len(w) \in Nat /\ DOMAIN w = 1 .. Len(w) /\ Len(w) # 0
      /\ Tail(w) \in Seq(Frame) /\ Len(Tail(w)) = Len(w) - 1
      /\ \A i \in 1 .. Len(Tail(w)) : Tail(w)[i] = w[i + 1]
  BY <1>1, LenProperties, EmptySeq, HeadTailProperties
<1>4. DOMAIN Tail(w) = 1 .. Len(w) - 1
  BY <1>3, LenProperties
<1>5. \A i \in DOMAIN Tail(w) : i + 1 \in DOMAIN w /\ Tail(w)[i] = w[i + 1]
  BY <1>3, <1>4
<1>6. 1 \in DOMAIN w /\ w[1] = Head(w)
  BY <1>1, <1>3, HeadTailProperties
<1>7. Fewer(Tail(w), w)
  BY <1>5 DEF Fewer, IsReset
<1>8. ASSUME NEW t \in Pages, t # s
      PROVE  Fewer(wire[t], wire[t])
  <2>1. \A i \in DOMAIN wire[t] : i + 0 = i
    BY LenProperties DEF Typed, Channels
  <2> QED
    BY <2>1 DEF Fewer
<1>9. Drained
  BY <1>2, <1>7, <1>8 DEF Drained, w
<1> QED
  BY <1>2, <1>5, <1>6, <1>9 DEF w

(* What a frame that is sent leaves on the wires.                          *)
LEMMA PutDomain ==
  ASSUME Typed, NEW s \in Pages, NEW f \in Frame, Sends(s, f)
  PROVE  /\ wire'[s] = wire[s]
         /\ \/ wire'[Other(s)] = wire[Other(s)]
            \/ LET w == wire[Other(s)]
                   x == wire'[Other(s)]
               IN /\ DOMAIN x = DOMAIN w \cup {Len(w) + 1}
                  /\ x[Len(w) + 1] = f /\ \A i \in DOMAIN w : x[i] = w[i]
<1>1. Other(s) \in Pages /\ Other(s) # s
  BY TwoPages
<1> DEFINE w == wire[Other(s)]
<1>2. wire' = wire \/ wire' = [wire EXCEPT ![Other(s)] = Append(w, f)]
  BY DEF Sends, Put
<1>3. w \in Seq(Frame) /\ Len(w) \in Nat /\ DOMAIN w = 1 .. Len(w)
  BY <1>1, LenProperties DEF Typed, Channels
<1>4. wire' = wire \/ (wire'[Other(s)] = Append(w, f) /\ wire'[s] = wire[s])
  BY <1>1, <1>2 DEF Typed, Channels
<1>5. /\ Append(w, f) \in Seq(Frame) /\ Len(Append(w, f)) = Len(w) + 1
      /\ Append(w, f)[Len(w) + 1] = f
      /\ \A i \in 1 .. Len(w) : Append(w, f)[i] = w[i]
  <2> HIDE DEF w
  <2> QED
    BY <1>3, AppendProperties
<1>6. DOMAIN Append(w, f) = 1 .. Len(w) + 1
  <2> HIDE DEF w
  <2> QED
    BY <1>5, LenProperties
<1>7. 1 .. Len(w) + 1 = 1 .. Len(w) \cup {Len(w) + 1}
  BY <1>3
<1> QED
  BY <1>3, <1>4, <1>5, <1>6, <1>7

LEMMA DrainedPut ==
  ASSUME Typed, NEW s \in Pages, NEW f \in Frame, f.t # "reset", Sends(s, f)
  PROVE  Drained
<1> SUFFICES ASSUME NEW t \in Pages PROVE Fewer(wire'[t], wire[t])
  BY DEF Drained
<1>1. \A i \in DOMAIN wire[t] : i + 0 = i
  BY LenProperties DEF Typed, Channels
<1>2. t = s \/ t = Other(s)
  BY TwoPages
<1>3. CASE wire'[t] = wire[t]
  BY <1>1, <1>3 DEF Fewer
<1>4. CASE wire'[t] # wire[t]
  <2>1. /\ t = Other(s)
        /\ DOMAIN wire'[t] = DOMAIN wire[t] \cup {Len(wire[t]) + 1}
        /\ wire'[t][Len(wire[t]) + 1] = f /\ \A i \in DOMAIN wire[t] : wire'[t][i] = wire[t][i]
    BY <1>2, <1>4, PutDomain
  <2>2. \A i \in DOMAIN wire'[t] :
          IsReset(wire'[t], i) => i \in DOMAIN wire[t] /\ IsReset(wire[t], i)
    BY <2>1 DEF IsReset
  <2> QED
    BY <1>1, <2>2 DEF Fewer
<1> QED
  BY <1>3, <1>4

LEMMA DrainedCut ==
  ASSUME Typed, NEW s \in Pages, NEW n \in 0 .. Len(wire[s]),
         wire' = [wire EXCEPT ![s] = SubSeq(@, 1, n)]
  PROVE  Drained
<1> SUFFICES ASSUME NEW t \in Pages PROVE Fewer(wire'[t], wire[t])
  BY DEF Drained
<1>1. wire[t] \in Seq(Frame) /\ DOMAIN wire[t] = 1 .. Len(wire[t]) /\ Len(wire[t]) \in Nat
  BY LenProperties DEF Typed, Channels
<1>2. CASE t = s
  <2>1. wire'[t] = SubSeq(wire[t], 1, n)
    BY <1>2 DEF Typed, Channels
  <2>2. n \in Nat /\ \A i \in 1 .. n : i \in DOMAIN wire[t] /\ wire[t][i] \in Frame
    BY <1>1, <1>2
  <2>3. /\ SubSeq(wire[t], 1, n) \in Seq(Frame)
        /\ Len(SubSeq(wire[t], 1, n)) = n
        /\ \A i \in 1 .. n : SubSeq(wire[t], 1, n)[i] = wire[t][i]
    BY <2>2, SubSeqProperties
  <2>4. DOMAIN SubSeq(wire[t], 1, n) = 1 .. n
    BY <2>3, LenProperties
  <2>5. \A i \in DOMAIN wire'[t] :
          i + 0 = i /\ i \in DOMAIN wire[t] /\ wire'[t][i] = wire[t][i]
    BY <1>1, <2>1, <2>2, <2>3, <2>4
  <2>6. \A i \in DOMAIN wire'[t] :
          IsReset(wire'[t], i) => i + 0 \in DOMAIN wire[t] /\ IsReset(wire[t], i + 0)
    BY <2>5 DEF IsReset
  <2> QED
    BY <2>6 DEF Fewer
<1>3. CASE t # s
  <2>1. wire'[t] = wire[t] /\ \A i \in DOMAIN wire[t] : i + 0 = i
    BY <1>1, <1>3 DEF Typed, Channels
  <2> QED
    BY <2>1 DEF Fewer
<1> QED
  BY <1>2, <1>3

LEMMA MildPeer ==
  ASSUME Typed, NEW s \in Pages, NEW p, peer' = [peer EXCEPT ![s] = p], Milder(p, peer[s])
  PROVE  Mild
BY DEF Typed, Handshakes, Mild, Milder

LEMMA MildBegin ==
  ASSUME Typed, NEW s \in Pages, NEW p \in PeerState, Milder(p, peer[s]), NEW w,
         Begin(s, p, w) \/ StartOver(s, p)
  PROVE  Mild
<1>1. \/ peer' = [peer EXCEPT ![s] = [p EXCEPT !.hs = Number(s)]]
      \/ peer' = [peer EXCEPT ![s] = [Restarted(p) EXCEPT !.hs = Number(s)]]
  BY DEF Begin, StartOver
<1>2. /\ [p EXCEPT !.hs = Number(s)].warned = p.warned
      /\ [p EXCEPT !.hs = Number(s)].closed = p.closed
      /\ [Restarted(p) EXCEPT !.hs = Number(s)].warned = p.warned
      /\ [Restarted(p) EXCEPT !.hs = Number(s)].closed = p.closed
  BY DEF PeerState, Restarted, Blank
<1> QED
  BY <1>1, <1>2, MildPeer DEF Milder

(* The steps that say no reset and take none.                              *)
LEMMA ChannelAccounted ==
  ASSUME Typed, Typed', AllAccounted, NEW s \in Pages,
         OpenChannel(s) \/ Drop(s) \/ WindowPasses(s)
  PROVE  AllAccounted'
<1>1. peer[s] \in PeerState
  BY DEF Typed, Handshakes
<1>2. CASE OpenChannel(s)
  <2> DEFINE p == [peer[s] EXCEPT !.closed = FALSE]
  <2>1. p \in PeerState /\ Milder(p, peer[s])
    BY <1>1 DEF PeerState, Milder
  <2>2. peer' = [peer EXCEPT ![s] = p] \/ StartOver(s, p)
    BY <1>2 DEF OpenChannel
  <2> HIDE DEF p
  <2>3. Mild
    BY <2>1, <2>2, MildPeer, MildBegin
  <2> QED
    BY <1>2, <2>3, DrainedSame, CalmStep DEF OpenChannel, counters
<1>3. CASE Drop(s)
  <2> DEFINE p == [Blank(peer[s]) EXCEPT !.protocol = "pending"]
  <2>1. Milder(p, peer[s])
    BY <1>1 DEF PeerState, Milder, Blank
  <2>2. peer' = [peer EXCEPT ![s] = p] /\ UNCHANGED refusals
    BY <1>3 DEF Drop
  <2> HIDE DEF p
  <2>3. Drained
    <3>1. \E n \in 0 .. (IF Straddle THEN Len(wire[s]) ELSE 0) :
            wire' = [wire EXCEPT ![s] = SubSeq(@, 1, n)]
      BY <1>3 DEF Drop
    <3>2. Len(wire[s]) \in Nat
      BY LenProperties DEF Typed, Channels
    <3>3. Len(wire[s]) \in 0 .. Len(wire[s]) /\ 0 .. 0 \subseteq 0 .. Len(wire[s])
      BY <3>2
    <3>4. \E n \in 0 .. Len(wire[s]) : wire' = [wire EXCEPT ![s] = SubSeq(@, 1, n)]
      BY <3>1, <3>3
    <3> QED
      BY <3>4, DrainedCut
  <2> QED
    BY <2>1, <2>2, <2>3, MildPeer, CalmStep
<1>4. CASE WindowPasses(s)
  <2> DEFINE p == [peer[s] EXCEPT !.warned = FALSE]
  <2>1. Milder(p, peer[s]) /\ peer' = [peer EXCEPT ![s] = p]
    BY <1>1, <1>4 DEF PeerState, Milder, WindowPasses
  <2> HIDE DEF p
  <2> QED
    BY <1>4, <2>1, MildPeer, DrainedSame, CalmStep DEF WindowPasses, counters
<1> QED
  BY <1>2, <1>3, <1>4

LEMMA HelloAccounted ==
  ASSUME Typed, Typed', AllAccounted, NEW s \in Pages,
         (\E h \in starting[s] : Started(s, h)) \/ DecideHello(s) \/ AwaitedHello(s)
           \/ AcceptHello(s) \/ AcceptKem(s) \/ Establish(s) \/ StartedOver(s)
  PROVE  AllAccounted'
<1>1. peer[s] \in PeerState /\ Milder(peer[s], peer[s])
  BY DEF Typed, Handshakes, Milder
<1>2. ASSUME NEW h \in starting[s], Started(s, h)
      PROVE  AllAccounted'
  <2>1. h \in Nat
    BY DEF Typed, Handshakes
  <2>2. [t |-> "hello", h |-> h] \in Frame
    BY <2>1, FrameTypes
  <2>3. Drained
    BY <1>2, <2>2, DrainedPut DEF Started
  <2> QED
    BY <1>2, <2>3, MildSame, CalmStep DEF Started, counters
<1>3. CASE DecideHello(s)
  <2>1. UNCHANGED peer \/ Begin(s, peer[s], shake[s]) \/ StartOver(s, peer[s])
    BY <1>3 DEF DecideHello
  <2>2. Mild
    BY <1>1, <2>1, MildSame, MildBegin
  <2> QED
    BY <1>3, <2>2, DrainedSame, CalmStep DEF DecideHello, counters
<1>4. CASE AwaitedHello(s) \/ AcceptKem(s) \/ StartedOver(s)
  BY <1>4, MildSame, DrainedSame, CalmStep DEF AwaitedHello, AcceptKem, StartedOver, counters
<1>5. CASE AcceptHello(s)
  <2> DEFINE f == [t |-> "kem", by |-> job[s].hs, for |-> job[s].h]
             p == [peer[s] EXCEPT !.accepted = job[s].h, !.known = TRUE, !.protocol = Heard(peer[s])]
  <2>1. job[s].h \in Nat /\ job[s].hs \in DOMAIN shake[s]
    BY <1>5, JobCases DEF AcceptHello, Typed, Handshakes, Handlers, Shaken
  <2>2. f \in Frame /\ f.t # "reset"
    BY <2>1, LenProperties, FrameTypes DEF Typed, Handshakes
  <2>3. Sends(s, f) /\ peer' = [peer EXCEPT ![s] = p]
    BY <1>5 DEF AcceptHello
  <2>4. Milder(p, peer[s])
    BY <1>1 DEF PeerState, Milder
  <2> HIDE DEF f, p
  <2> QED
    BY <1>5, <2>2, <2>3, <2>4, MildPeer, DrainedPut, CalmStep DEF AcceptHello, counters
<1>6. CASE Establish(s)
  <2> DEFINE p == [peer[s] EXCEPT !.session = SessionOf(s, job[s].hs),
                                  !.protocol = "p4", !.failed = FALSE]
  <2>1. peer' = [peer EXCEPT ![s] = p] /\ Milder(p, peer[s])
    BY <1>1, <1>6 DEF PeerState, Milder, Establish
  <2> HIDE DEF p
  <2> QED
    BY <1>6, <2>1, MildPeer, DrainedSame, CalmStep DEF Establish, counters
<1> QED
  BY <1>2, <1>3, <1>4, <1>5, <1>6

LEMMA TakenAccounted ==
  ASSUME Typed, Typed', AllAccounted, NEW s \in Pages,
         TakeHello(s) \/ TakeKem(s) \/ TakeFrame(s) \/ IgnoreClosed(s) \/ TakeRoom(s)
  PROVE  AllAccounted'
<1>1. wire[s] # <<>> /\ wire' = Popped(s) /\ UNCHANGED <<peer, refusals>>
  BY DEF TakeHello, TakeKem, TakeFrame, IgnoreClosed, TakeRoom, Ignored, Next4, counters
<1> QED
  BY <1>1, DrainedPopped, MildSame, CalmStep

LEMMA RoomAccounted ==
  ASSUME Typed, Typed', AllAccounted, NEW s \in Pages,
         HandOut(s) \/ HandedOut(s) \/ SealRoom(s) \/ SendChain(s) \/ Seal(s) \/ SendRoom(s)
           \/ OpenFrame(s)
  PROVE  AllAccounted'
<1>1. UNCHANGED <<peer, refusals>>
  BY DEF HandOut, HandedOut, SealRoom, SendChain, Seal, SendRoom, OpenFrame, counters
<1>2. CASE HandOut(s) \/ SealRoom(s) \/ Seal(s) \/ OpenFrame(s)
  BY <1>1, <1>2, MildSame, DrainedSame, CalmStep DEF HandOut, SealRoom, Seal, OpenFrame
<1>3. ASSUME NEW h, h.id \in Nat, h.session \in Session, NEW went \in BOOLEAN, Hands(s, h, went)
      PROVE  Drained
  <2>1. CASE went
    <3>1. [t |-> "p4", session |-> h.session, chain |-> h.id] \in Frame
      BY <1>3, FrameTypes
    <3>2. Sends(s, [t |-> "p4", session |-> h.session, chain |-> h.id])
      BY <1>3, <2>1 DEF Hands
    <3> QED
      BY <3>1, <3>2, DrainedPut
  <2>2. CASE ~went
    BY <1>3, <2>2, DrainedSame DEF Hands
  <2> QED
    BY <2>1, <2>2
<1>4. CASE HandedOut(s)
  <2>1. job[s].id \in Nat /\ job[s].session \in Session
    BY <1>4, JobCases DEF HandedOut, Typed, Handlers
  <2>2. Drained
    BY <1>3, <1>4, <2>1 DEF HandedOut
  <2> QED
    BY <1>1, <2>2, MildSame, CalmStep
<1>5. CASE SendChain(s)
  <2>1. send[s].id \in Nat /\ send[s].session \in Session
    BY <1>5, SendCases DEF SendChain, Typed, Handlers
  <2>2. Drained
    BY <1>3, <1>5, <2>1 DEF SendChain
  <2> QED
    BY <1>1, <2>2, MildSame, CalmStep
<1>6. CASE SendRoom(s)
  <2>1. send[s].chain \in Nat /\ send[s].session \in Session
    BY <1>6, SendCases DEF SendRoom, Typed, Handlers
  <2>2. [t |-> "room", chain |-> send[s].chain, session |-> send[s].session] \in Frame
    BY <2>1 DEF Frame
  <2>3. \/ Sends(s, [t |-> "room", chain |-> send[s].chain, session |-> send[s].session])
        \/ UNCHANGED wire
    BY <1>6 DEF SendRoom
  <2>4. Drained
    BY <2>2, <2>3, DrainedPut, DrainedSame
  <2> QED
    BY <1>1, <2>4, MildSame, CalmStep
<1> QED
  BY <1>2, <1>4, <1>5, <1>6

(* A reset of ours: one more is on its way, and one more was sent.         *)
LEMMA ResetAccounted ==
  ASSUME Typed, Typed', AllAccounted, NEW s \in Pages, ResetByUs(s)
  PROVE  AllAccounted'
<1> DEFINE o == Other(s)
           n == refusals[s]
           w == wire[o]
           x == wire'[o]
           e == Len(w) + 1
<1>1. s # o /\ o \in Pages /\ Other(o) = s /\ \A t \in Pages : t = s \/ t = o
  BY TwoPages
<1>2. refusals'[s] = n + 1 /\ refusals'[o] = refusals[o] /\ n \in Nat
  BY <1>1 DEF ResetByUs, Typed, Counters
<1>3. Mild
  <2>1. peer[s] \in PeerState /\ Milder(peer[s], peer[s])
    BY DEF Typed, Handshakes, Milder
  <2> QED
    BY <2>1, MildBegin DEF ResetByUs
<1>4. /\ wire'[s] = wire[s]
      /\ x = w \/ (DOMAIN x = DOMAIN w \cup {e} /\ \A i \in DOMAIN w : x[i] = w[i])
  BY FrameTypes, PutDomain DEF ResetByUs
<1>5. Accounted(s)'
  BY <1>1, <1>2, <1>3, <1>4 DEF AllAccounted, Accounted, Mild, Milder, IsReset
<1>6. /\ \A i \in DOMAIN w : IsReset(w, i) => n >= (IF peer[o].warned THEN 2 ELSE 1)
      /\ peer[o].warned => n >= 1
      /\ peer[o].closed => n >= 2
  BY <1>1 DEF AllAccounted, Accounted
<1>7. (peer'[o].warned => peer[o].warned) /\ (peer'[o].closed => peer[o].closed)
  BY <1>1, <1>3 DEF Mild, Milder
<1>8. Accounted(o)'
  <2> HIDE DEF n, x, w, e
  <2>1. peer'[o].warned => n + 1 >= 2
    BY <1>2, <1>6, <1>7
  <2>2. \A i \in DOMAIN x : IsReset(x, i) => n + 1 >= (IF peer'[o].warned THEN 2 ELSE 1)
    BY <1>2, <2>1
  <2>3. ASSUME NEW i \in DOMAIN x, NEW j \in DOMAIN x, i # j, IsReset(x, i), IsReset(x, j)
        PROVE  n + 1 >= 2
    <3>1. \E k \in DOMAIN w : IsReset(w, k)
      BY <1>4, <2>3 DEF IsReset
    <3> QED
      BY <1>2, <1>6, <3>1
  <2>4. peer'[o].warned => n + 1 >= 1
    BY <1>2
  <2>5. peer'[o].closed => n + 1 >= 2
    BY <1>2, <1>6, <1>7
  <2> QED
    BY <1>1, <1>2, <2>2, <2>3, <2>4, <2>5 DEF Accounted, x
<1> QED
  BY <1>1, <1>5, <1>8 DEF AllAccounted

LEMMA FailAccounted ==
  ASSUME Typed, Typed', AllAccounted, NEW s \in Pages, FailFrame(s) \/ AwaitedKem(s)
  PROVE  AllAccounted'
<1> DEFINE p == [peer[s] EXCEPT !.failed = @ \/ job[s].with = peer[s].session]
<1>1. peer[s] \in PeerState
  BY DEF Typed, Handshakes
<1>2. Milder(p, peer[s])
  BY <1>1 DEF PeerState, Milder
<1>3. \/ ResetByUs(s)
      \/ (UNCHANGED peer \/ peer' = [peer EXCEPT ![s] = p]) /\ UNCHANGED <<wire, refusals>>
  BY DEF FailFrame, AwaitedKem
<1> HIDE DEF p
<1> QED
  BY <1>2, <1>3, ResetAccounted, MildSame, MildPeer, DrainedSame, CalmStep

(* A reset that is taken warns the page it reached, or closes it.          *)
LEMMA TakeResetAccounted ==
  ASSUME Typed, Typed', AllAccounted, NEW s \in Pages, TakeReset(s)
  PROVE  AllAccounted'
<1> DEFINE n == refusals[Other(s)]
           w == wire[s]
           x == wire'[s]
<1>1. Other(s) \in Pages /\ n \in Nat
  BY TwoPages DEF Typed, Counters
<1>2. peer[s] \in PeerState
  BY DEF Typed, Handshakes
<1>3. w # <<>> /\ Head(w).t = "reset" /\ wire' = Popped(s) /\ ~peer[s].closed /\ UNCHANGED refusals
  BY DEF TakeReset, Next4, counters
<1>4. /\ 1 \in DOMAIN w /\ IsReset(w, 1)
      /\ \A i \in DOMAIN x : i \in Nat \ {0} /\ i + 1 \in DOMAIN w /\ x[i] = w[i + 1]
  <2>1. \A i \in DOMAIN x : i \in Nat \ {0}
    BY LenProperties DEF Typed, Channels
  <2> QED
    BY <1>3, <2>1, DrainedPopped DEF IsReset
<1>5. n >= 1 /\ (peer[s].warned => n >= 2)
  BY <1>1, <1>4 DEF AllAccounted, Accounted
<1>6. /\ peer'[s].closed => peer[s].warned
      /\ \A t \in Pages : t # s => peer'[t] = peer[t] /\ wire'[t] = wire[t]
  <2> DEFINE p == [peer[s] EXCEPT !.warned = TRUE]
             q == [Blank(p) EXCEPT !.closed = TRUE, !.protocol = "refused"]
             r == [Restarted(p) EXCEPT !.hs = Number(s)]
  <2>1. p \in PeerState /\ ~p.closed
    BY <1>2, <1>3 DEF PeerState
  <2>2. ~r.closed
    BY <2>1 DEF PeerState, Restarted, Blank
  <2>3. \/ peer[s].warned /\ peer' = [peer EXCEPT ![s] = q]
        \/ peer' = [peer EXCEPT ![s] = p] \/ peer' = [peer EXCEPT ![s] = r]
    BY DEF TakeReset, StartOver, Begin
  <2>4. \A t \in Pages : t # s => wire'[t] = wire[t]
    BY <1>3 DEF Popped, Typed, Channels
  <2> HIDE DEF p, q, r
  <2>5. ~peer'[s].closed \/ peer[s].warned
    BY <2>1, <2>2, <2>3 DEF Typed, Handshakes
  <2> QED
    BY <2>3, <2>4, <2>5 DEF Typed, Handshakes
<1>7. \A i \in DOMAIN x : IsReset(x, i) => n >= 2
  <2> SUFFICES ASSUME NEW i \in DOMAIN x, IsReset(x, i) PROVE n >= 2
    OBVIOUS
  <2>1. i + 1 # 1 /\ i + 1 \in DOMAIN w /\ IsReset(w, i + 1)
    BY <1>4 DEF IsReset
  <2> QED
    BY <1>4, <2>1 DEF AllAccounted, Accounted
<1>8. Accounted(s)'
  <2>1. /\ wire'[s] = x /\ refusals'[Other(s)] = n
        /\ \A i \in DOMAIN x : IsReset(x, i) => n >= (IF peer'[s].warned THEN 2 ELSE 1)
    BY <1>1, <1>3, <1>7
  <2> HIDE DEF n, x
  <2> QED
    BY <1>5, <1>6, <1>7, <2>1 DEF Accounted
<1>9. ASSUME NEW t \in Pages, t # s
      PROVE  Accounted(t)'
  BY <1>3, <1>6, <1>9 DEF AllAccounted, Accounted
<1> QED
  BY <1>8, <1>9 DEF AllAccounted

LEMMA StepAccounted ==
  ASSUME Typed, Typed', AllAccounted, [Next]_vars
  PROVE  AllAccounted'
<1>1. CASE UNCHANGED vars \/ Connect \/ Rest
  <2>1. UNCHANGED <<peer, wire, refusals>>
    BY <1>1 DEF vars, Connect, Rest, counters
  <2> QED
    BY <2>1, MildSame, DrainedSame, CalmStep
<1>2. ASSUME NEW s \in Pages,
             OpenChannel(s) \/ Drop(s) \/ IgnoreClosed(s) \/ TakeRoom(s) \/ TakeHello(s)
               \/ TakeKem(s) \/ TakeFrame(s) \/ TakeReset(s) \/ WindowPasses(s)
      PROVE  AllAccounted'
  BY <1>2, ChannelAccounted, TakenAccounted, TakeResetAccounted
<1>3. ASSUME NEW s \in Pages,
             (\E h \in starting[s] : Started(s, h)) \/ DecideHello(s) \/ AwaitedHello(s)
               \/ AcceptHello(s) \/ AwaitedKem(s) \/ AcceptKem(s) \/ Establish(s)
               \/ StartedOver(s) \/ FailFrame(s)
      PROVE  AllAccounted'
  BY <1>3, HelloAccounted, FailAccounted
<1>4. ASSUME NEW s \in Pages,
             HandOut(s) \/ HandedOut(s) \/ SealRoom(s) \/ SendChain(s) \/ Seal(s) \/ SendRoom(s)
               \/ OpenFrame(s)
      PROVE  AllAccounted'
  BY <1>4, RoomAccounted
<1> QED
  BY <1>1, <1>2, <1>3, <1>4 DEF Next

(* A page gives the other one up only when that one reset twice, whatever  *)
(* resets cross, frames fail and channels close meanwhile                  *)
(* (p4-session.ts:388-390, P4Room.reset).                                  *)
THEOREM ClosedAlwaysForAReason == Spec => []ClosedForAReason
<1>1. Init => AllAccounted
  <2> SUFFICES ASSUME Init, NEW s \in Pages PROVE Accounted(s)
    BY DEF AllAccounted
  <2>1. wire[s] = <<>> /\ DOMAIN wire[s] = {} /\ ~peer[s].warned /\ ~peer[s].closed
    BY DEF Init, NewPeer
  <2> QED
    BY <2>1 DEF Accounted
<1>2. Typed /\ Typed' /\ AllAccounted /\ [Next]_vars => AllAccounted'
  BY StepAccounted
<1>3. AllAccounted => ClosedForAReason
  BY DEF AllAccounted, Accounted, ClosedForAReason
<1> QED
  BY <1>1, <1>2, <1>3, AlwaysTyped, PTL DEF Spec

----------------------------------------------------------------------------
(* What is on a wire, but for chains and room messages: c says hellos,     *)
(* answers and resets of w in their order.                                 *)
Control == {"reset", "hello", "kem"}
Shape(w, c) ==
  \E at \in [DOMAIN c -> DOMAIN w] :
    /\ \A i, j \in DOMAIN c : i < j => at[i] < at[j]
    /\ \A i \in DOMAIN c : w[at[i]] = c[i] /\ c[i].t \in Control
    /\ \A k \in DOMAIN w : w[k].t \in Control => \E i \in DOMAIN c : at[i] = k

LEMMA ShapeEmpty ==
  ASSUME NEW F
  PROVE  /\ Shape(<<>>, <<>>)
         /\ \A c \in Seq(F) : Shape(<<>>, c) => c = <<>>
<1>1. DOMAIN <<>> = {}
  OBVIOUS
<1>2. Shape(<<>>, <<>>)
  <2>1. [i \in {} |-> i] \in [{} -> {}]
    OBVIOUS
  <2> QED
    BY <1>1, <2>1 DEF Shape
<1>3. ASSUME NEW c \in Seq(F), Shape(<<>>, c) PROVE c = <<>>
  <2>1. PICK at : at \in [DOMAIN c -> DOMAIN <<>>]
    BY <1>3 DEF Shape
  <2>2. DOMAIN c = {}
    BY <1>1, <2>1
  <2> QED
    BY <2>2, EmptySeq, LenProperties
<1> QED
  BY <1>2, <1>3

LEMMA ShapeAppend ==
  ASSUME NEW F, NEW w \in Seq(F), NEW c \in Seq(F), NEW f \in F, Shape(w, c)
  PROVE  /\ f.t \in Control => Shape(Append(w, f), Append(c, f))
         /\ f.t \notin Control => Shape(Append(w, f), c)
<1> DEFINE v == Append(w, f)
           d == Append(c, f)
<1>1. PICK at \in [DOMAIN c -> DOMAIN w] :
        /\ \A i, j \in DOMAIN c : i < j => at[i] < at[j]
        /\ \A i \in DOMAIN c : w[at[i]] = c[i] /\ c[i].t \in Control
        /\ \A k \in DOMAIN w : w[k].t \in Control => \E i \in DOMAIN c : at[i] = k
  BY DEF Shape
<1>2. /\ DOMAIN w = 1 .. Len(w) /\ Len(w) \in Nat
      /\ DOMAIN v = 1 .. Len(w) + 1 /\ v[Len(w) + 1] = f
      /\ \A k \in 1 .. Len(w) : v[k] = w[k]
  BY LenProperties, AppendProperties
<1>3. /\ DOMAIN c = 1 .. Len(c) /\ Len(c) \in Nat
      /\ DOMAIN d = 1 .. Len(c) + 1 /\ d[Len(c) + 1] = f
      /\ \A k \in 1 .. Len(c) : d[k] = c[k]
  BY LenProperties, AppendProperties
<1> HIDE DEF v, d
<1>4. CASE f.t \in Control
  <2> DEFINE bt == [i \in DOMAIN d |-> IF i \in DOMAIN c THEN at[i] ELSE Len(w) + 1]
  <2>1. bt \in [DOMAIN d -> DOMAIN v]
    BY <1>2, <1>3
  <2>2. /\ \A i \in DOMAIN c : bt[i] = at[i] /\ at[i] \in 1 .. Len(w)
        /\ bt[Len(c) + 1] = Len(w) + 1
    BY <1>2, <1>3
  <2> HIDE DEF bt
  <2>3. \A i, j \in DOMAIN d : i < j => bt[i] < bt[j]
    BY <1>1, <1>2, <1>3, <2>2
  <2>4. \A i \in DOMAIN d : v[bt[i]] = d[i] /\ d[i].t \in Control
    BY <1>1, <1>2, <1>3, <1>4, <2>2
  <2>5. \A k \in DOMAIN v : v[k].t \in Control => \E i \in DOMAIN d : bt[i] = k
    <3> SUFFICES ASSUME NEW k \in DOMAIN v, v[k].t \in Control
                 PROVE  \E i \in DOMAIN d : bt[i] = k
      OBVIOUS
    <3>1. CASE k = Len(w) + 1
      BY <1>3, <2>2, <3>1
    <3>2. CASE k \in DOMAIN w
      <4>1. PICK i \in DOMAIN c : at[i] = k
        BY <1>1, <1>2, <3>2
      <4> QED
        BY <1>3, <2>2, <4>1
    <3> QED
      BY <1>2, <3>1, <3>2
  <2>6. Shape(v, d)
    BY <2>1, <2>3, <2>4, <2>5 DEF Shape
  <2> QED
    BY <1>4, <2>6 DEF v, d
<1>5. CASE f.t \notin Control
  <2>1. at \in [DOMAIN c -> DOMAIN v]
    BY <1>2
  <2>2. \A i \in DOMAIN c : v[at[i]] = c[i] /\ c[i].t \in Control
    BY <1>1, <1>2
  <2>3. \A k \in DOMAIN v : v[k].t \in Control => \E i \in DOMAIN c : at[i] = k
    BY <1>1, <1>2, <1>5
  <2>4. Shape(v, c)
    BY <1>1, <2>1, <2>2, <2>3 DEF Shape
  <2> QED
    BY <1>5, <2>4 DEF v
<1> QED
  BY <1>4, <1>5

LEMMA ShapeTail ==
  ASSUME NEW F, NEW w \in Seq(F), w # <<>>, NEW c \in Seq(F), Shape(w, c)
  PROVE  /\ Head(w).t \in Control => c # <<>> /\ Head(c) = Head(w) /\ Shape(Tail(w), Tail(c))
         /\ Head(w).t \notin Control => Shape(Tail(w), c)
<1> DEFINE v == Tail(w)
           d == Tail(c)
<1>1. PICK at \in [DOMAIN c -> DOMAIN w] :
        /\ \A i, j \in DOMAIN c : i < j => at[i] < at[j]
        /\ \A i \in DOMAIN c : w[at[i]] = c[i] /\ c[i].t \in Control
        /\ \A k \in DOMAIN w : w[k].t \in Control => \E i \in DOMAIN c : at[i] = k
  BY DEF Shape
<1>2. /\ DOMAIN w = 1 .. Len(w) /\ Len(w) \in Nat \ {0} /\ Head(w) = w[1]
      /\ v \in Seq(F) /\ Len(v) = Len(w) - 1 /\ \A k \in 1 .. Len(v) : v[k] = w[k + 1]
  BY LenProperties, EmptySeq, HeadTailProperties
<1>3. DOMAIN v = 1 .. Len(w) - 1
  BY <1>2, LenProperties
<1>4. DOMAIN c = 1 .. Len(c) /\ Len(c) \in Nat
  BY LenProperties
<1>5. CASE Head(w).t \in Control
  <2>1. PICK one \in DOMAIN c : at[one] = 1
    BY <1>1, <1>2, <1>5
  <2>2. one = 1
    <3>1. one \in Nat /\ one >= 1
      BY <1>4, <2>1
    <3>2. ~(1 < one)
      <4>1. SUFFICES ASSUME 1 < one PROVE FALSE
        OBVIOUS
      <4>2. 1 \in DOMAIN c /\ at[1] \in 1 .. Len(w) /\ at[1] < at[one]
        BY <1>1, <1>2, <1>4, <3>1, <4>1
      <4> QED
        BY <2>1, <4>2
    <3> QED
      BY <3>1, <3>2
  <2>3. c # <<>> /\ Len(c) >= 1 /\ Head(c) = c[1] /\ c[1] = w[1]
    <3>1. Len(c) >= 1
      BY <1>4, <2>1
    <3> QED
      BY <1>1, <2>1, <2>2, <3>1, EmptySeq, HeadTailProperties
  <2>4. d \in Seq(F) /\ Len(d) = Len(c) - 1 /\ \A k \in 1 .. Len(d) : d[k] = c[k + 1]
    BY <2>3, HeadTailProperties
  <2>5. DOMAIN d = 1 .. Len(c) - 1
    BY <2>4, LenProperties
  <2> HIDE DEF d, v
  <2> DEFINE bt == [i \in DOMAIN d |-> at[i + 1] - 1]
  <2>6. ASSUME NEW i \in DOMAIN d
        PROVE  i + 1 \in DOMAIN c /\ at[i + 1] \in 2 .. Len(w) /\ bt[i] = at[i + 1] - 1 /\ d[i] = c[i + 1]
    <3>1. i \in Nat /\ i >= 1 /\ i + 1 \in DOMAIN c /\ 1 \in DOMAIN c /\ 1 < i + 1
      BY <1>4, <2>3, <2>5
    <3>2. at[1] < at[i + 1]
      BY <1>1, <3>1
    <3> QED
      BY <1>2, <2>1, <2>2, <2>4, <2>5, <3>1, <3>2
  <2>7. bt \in [DOMAIN d -> DOMAIN v]
    BY <1>2, <1>3, <2>6
  <2>8. \A i, j \in DOMAIN d : i < j => bt[i] < bt[j]
    <3> SUFFICES ASSUME NEW i \in DOMAIN d, NEW j \in DOMAIN d, i < j PROVE bt[i] < bt[j]
      OBVIOUS
    <3>1. i + 1 < j + 1 /\ i + 1 \in DOMAIN c /\ j + 1 \in DOMAIN c
      BY <2>5, <2>6
    <3> HIDE DEF bt
    <3> QED
      BY <1>1, <2>6, <3>1
  <2>9. \A i \in DOMAIN d : v[bt[i]] = d[i] /\ d[i].t \in Control
    <3> SUFFICES ASSUME NEW i \in DOMAIN d PROVE v[bt[i]] = d[i] /\ d[i].t \in Control
      OBVIOUS
    <3> HIDE DEF bt
    <3>1. bt[i] \in 1 .. Len(v) /\ bt[i] + 1 = at[i + 1]
      BY <1>2, <1>3, <2>6
    <3> QED
      BY <1>1, <1>2, <2>6, <3>1
  <2>10. \A k \in DOMAIN v : v[k].t \in Control => \E i \in DOMAIN d : bt[i] = k
    <3> SUFFICES ASSUME NEW k \in DOMAIN v, v[k].t \in Control
                 PROVE  \E i \in DOMAIN d : bt[i] = k
      OBVIOUS
    <3>1. k + 1 \in DOMAIN w /\ w[k + 1].t \in Control /\ k \in Nat /\ k >= 1
      BY <1>2, <1>3
    <3>2. PICK i \in DOMAIN c : at[i] = k + 1
      BY <1>1, <3>1
    <3>3. i # 1 /\ i - 1 \in DOMAIN d /\ (i - 1) + 1 = i
      BY <1>4, <2>1, <2>2, <2>5, <3>1, <3>2
    <3>4. bt[i - 1] = k
      BY <2>6, <3>1, <3>2, <3>3
    <3> QED
      BY <3>3, <3>4
  <2> HIDE DEF bt
  <2>11. Shape(v, d)
    BY <2>7, <2>8, <2>9, <2>10 DEF Shape
  <2> QED
    BY <1>2, <1>5, <2>3, <2>11 DEF v, d
<1>6. CASE Head(w).t \notin Control
  <2> DEFINE bt == [i \in DOMAIN c |-> at[i] - 1]
  <2>1. ASSUME NEW i \in DOMAIN c PROVE at[i] \in 2 .. Len(w) /\ bt[i] = at[i] - 1
    <3>1. at[i] # 1
      BY <1>1, <1>2, <1>6
    <3> QED
      BY <1>2, <3>1
  <2> HIDE DEF v
  <2>2. bt \in [DOMAIN c -> DOMAIN v]
    BY <1>2, <1>3, <2>1
  <2> HIDE DEF bt
  <2>3. \A i, j \in DOMAIN c : i < j => bt[i] < bt[j]
    BY <1>1, <2>1
  <2>4. \A i \in DOMAIN c : v[bt[i]] = c[i] /\ c[i].t \in Control
    <3> SUFFICES ASSUME NEW i \in DOMAIN c PROVE v[bt[i]] = c[i] /\ c[i].t \in Control
      OBVIOUS
    <3>1. bt[i] \in 1 .. Len(v) /\ bt[i] + 1 = at[i]
      BY <1>2, <1>3, <2>1
    <3> QED
      BY <1>1, <1>2, <3>1
  <2>5. \A k \in DOMAIN v : v[k].t \in Control => \E i \in DOMAIN c : bt[i] = k
    <3> SUFFICES ASSUME NEW k \in DOMAIN v, v[k].t \in Control
                 PROVE  \E i \in DOMAIN c : bt[i] = k
      OBVIOUS
    <3>1. k + 1 \in DOMAIN w /\ w[k + 1].t \in Control /\ k \in Nat
      BY <1>2, <1>3
    <3>2. PICK i \in DOMAIN c : at[i] = k + 1
      BY <1>1, <3>1
    <3> QED
      BY <2>1, <3>1, <3>2
  <2>6. Shape(v, c)
    BY <2>2, <2>3, <2>4, <2>5 DEF Shape
  <2> QED
    BY <1>6, <2>6 DEF v
<1> QED
  BY <1>5, <1>6

LEMMA Longer ==
  ASSUME NEW F, NEW q \in Seq(F), NEW e \in F
  PROVE  /\ Append(q, e) \in Seq(F) /\ Len(Append(q, e)) = Len(q) + 1
         /\ Append(q, e)[Len(q) + 1] = e
         /\ \A i \in 1 .. Len(q) : Append(q, e)[i] = q[i]
BY AppendProperties

LEMMA LongerThan ==
  ASSUME NEW F, NEW q \in Seq(F), NEW e \in F, NEW v \in Seq(F), Len(v) = Len(q) + 1,
         v[Len(q) + 1] = e, \A i \in 1 .. Len(q) : v[i] = q[i]
  PROVE  Append(q, e) = v
<1> DEFINE u == Append(q, e)
<1>1. /\ u \in Seq(F) /\ Len(u) = Len(q) + 1 /\ u[Len(q) + 1] = e
      /\ \A i \in 1 .. Len(q) : u[i] = q[i]
  BY Longer
<1> HIDE DEF u
<1>2. \A i \in 1 .. Len(u) : u[i] = v[i]
  BY <1>1, LenProperties
<1>3. u = v
  BY <1>1, <1>2, SeqEqual
<1> QED
  BY <1>3 DEF u

LEMMA Pairs ==
  ASSUME NEW F, NEW a \in F, NEW b \in F
  PROVE  /\ <<>> \in Seq(F) /\ <<a>> \in Seq(F) /\ <<a, b>> \in Seq(F)
         /\ Append(<<>>, a) = <<a>> /\ Append(<<a>>, b) = <<a, b>>
         /\ Head(<<a>>) = a /\ Head(<<a, b>>) = a
         /\ Tail(<<a>>) = <<>> /\ Tail(<<a, b>>) = <<b>>
<1>1. <<>> \in Seq(F) /\ <<a>> \in Seq(F) /\ <<a, b>> \in Seq(F)
  OBVIOUS
<1>2. Append(<<>>, a) = <<a>>
  OBVIOUS
<1>3. Append(<<a>>, b) = <<a, b>>
  <2> DEFINE s == <<a>>
             t == <<a, b>>
  <2>1. ASSUME NEW q \in Seq(F), NEW v \in Seq(F), Len(v) = Len(q) + 1,
               v[Len(q) + 1] = b, \A i \in 1 .. Len(q) : v[i] = q[i]
        PROVE  Append(q, b) = v
    BY <2>1, LongerThan
  <2>2. s \in Seq(F) /\ Len(s) = 1 /\ s[1] = a
    OBVIOUS
  <2>3. t \in Seq(F) /\ Len(t) = 2 /\ t[1] = a /\ t[2] = b
    OBVIOUS
  <2> HIDE DEF s, t
  <2>4. Len(t) = Len(s) + 1 /\ t[Len(s) + 1] = b /\ \A i \in 1 .. Len(s) : t[i] = s[i]
    BY <2>2, <2>3
  <2>5. Append(s, b) = t
    BY <2>1, <2>2, <2>3, <2>4
  <2> QED
    BY <2>5 DEF s, t
<1>4. Head(<<a>>) = a /\ Head(<<a, b>>) = a
  OBVIOUS
<1>5. Tail(<<a>>) = <<>>
  OBVIOUS
<1>6. Tail(<<a, b>>) = <<b>>
  OBVIOUS
<1> QED
  BY <1>1, <1>2, <1>3, <1>4, <1>5, <1>6

LEMMA Triples ==
  ASSUME NEW F, NEW a \in F, NEW b \in F, NEW c \in F
  PROVE  /\ <<a, b, c>> \in Seq(F)
         /\ Append(<<a, b>>, c) = <<a, b, c>>
         /\ Head(<<a, b, c>>) = a /\ Tail(<<a, b, c>>) = <<b, c>>
<1>1. <<a, b, c>> \in Seq(F)
  OBVIOUS
<1>2. Append(<<a, b>>, c) = <<a, b, c>>
  <2> DEFINE s == <<a, b>>
             t == <<a, b, c>>
  <2>1. ASSUME NEW q \in Seq(F), NEW v \in Seq(F), Len(v) = Len(q) + 1,
               v[Len(q) + 1] = c, \A i \in 1 .. Len(q) : v[i] = q[i]
        PROVE  Append(q, c) = v
    BY <2>1, LongerThan
  <2>2. s \in Seq(F) /\ Len(s) = 2 /\ s[1] = a /\ s[2] = b
    OBVIOUS
  <2>3. t \in Seq(F) /\ Len(t) = 3 /\ t[1] = a /\ t[2] = b /\ t[3] = c
    OBVIOUS
  <2> HIDE DEF s, t
  <2>4. Len(t) = Len(s) + 1 /\ t[Len(s) + 1] = c /\ \A i \in 1 .. Len(s) : t[i] = s[i]
    BY <2>2, <2>3
  <2>5. Append(s, c) = t
    BY <2>1, <2>2, <2>3, <2>4
  <2> QED
    BY <2>5 DEF s, t
<1>3. Head(<<a, b, c>>) = a
  OBVIOUS
<1>4. Tail(<<a, b, c>>) = <<b, c>>
  OBVIOUS
<1> QED
  BY <1>1, <1>2, <1>3, <1>4

(* A frame is put behind the others, or the first one taken.               *)
LEMMA Grows ==
  ASSUME NEW w \in Seq(Frame), NEW f \in Frame, f.t \in Control
  PROVE  /\ Shape(w, <<>>) => Shape(Append(w, f), <<f>>)
         /\ \A a \in Frame : Shape(w, <<a>>) => Shape(Append(w, f), <<a, f>>)
         /\ \A a, b \in Frame : Shape(w, <<a, b>>) => Shape(Append(w, f), <<a, b, f>>)
<1> DEFINE v == Append(w, f)
<1>1. ASSUME NEW c \in Seq(Frame), NEW d, d = Append(c, f), Shape(w, c) PROVE Shape(v, d)
  BY <1>1, ShapeAppend
<1> HIDE DEF v
<1>2. Shape(w, <<>>) => Shape(v, <<f>>)
  BY <1>1, Pairs
<1>3. ASSUME NEW a \in Frame, Shape(w, <<a>>) PROVE Shape(v, <<a, f>>)
  <2>1. <<a>> \in Seq(Frame) /\ <<a, f>> = Append(<<a>>, f)
    BY Pairs
  <2> QED
    BY <1>1, <1>3, <2>1
<1>4. ASSUME NEW a \in Frame, NEW b \in Frame, Shape(w, <<a, b>>) PROVE Shape(v, <<a, b, f>>)
  <2>1. <<a, b>> \in Seq(Frame) /\ <<a, b, f>> = Append(<<a, b>>, f)
    BY Pairs, Triples
  <2> QED
    BY <1>1, <1>4, <2>1
<1> QED
  BY <1>2, <1>3, <1>4 DEF v

LEMMA Shrinks ==
  ASSUME NEW w \in Seq(Frame), w # <<>>, Head(w).t \in Control
  PROVE  /\ ~Shape(w, <<>>)
         /\ \A a \in Frame : Shape(w, <<a>>) => Head(w) = a /\ Shape(Tail(w), <<>>)
         /\ \A a, b \in Frame : Shape(w, <<a, b>>) => Head(w) = a /\ Shape(Tail(w), <<b>>)
         /\ \A a, b, c \in Frame : Shape(w, <<a, b, c>>) => Head(w) = a /\ Shape(Tail(w), <<b, c>>)
<1> DEFINE v == Tail(w)
           g == Head(w)
<1>1. ASSUME NEW c \in Seq(Frame), Shape(w, c)
      PROVE  c # <<>> /\ g = Head(c) /\ Shape(v, Tail(c))
  BY <1>1, ShapeTail
<1> HIDE DEF v, g
<1>2. ~Shape(w, <<>>)
  <2>1. <<>> \in Seq(Frame)
    OBVIOUS
  <2> QED
    BY <1>1, <2>1
<1>3. ASSUME NEW a \in Frame, Shape(w, <<a>>) PROVE g = a /\ Shape(v, <<>>)
  <2>1. <<a>> \in Seq(Frame) /\ Head(<<a>>) = a /\ Tail(<<a>>) = <<>>
    BY Pairs
  <2> QED
    BY <1>1, <1>3, <2>1
<1>4. ASSUME NEW a \in Frame, NEW b \in Frame, Shape(w, <<a, b>>) PROVE g = a /\ Shape(v, <<b>>)
  <2>1. <<a, b>> \in Seq(Frame) /\ Head(<<a, b>>) = a /\ Tail(<<a, b>>) = <<b>>
    BY Pairs
  <2> QED
    BY <1>1, <1>4, <2>1
<1>5. ASSUME NEW a \in Frame, NEW b \in Frame, NEW c \in Frame, Shape(w, <<a, b, c>>)
      PROVE  g = a /\ Shape(v, <<b, c>>)
  <2>1. <<a, b, c>> \in Seq(Frame) /\ Head(<<a, b, c>>) = a /\ Tail(<<a, b, c>>) = <<b, c>>
    BY Triples
  <2> QED
    BY <1>1, <1>5, <2>1
<1> QED
  BY <1>2, <1>3, <1>4, <1>5 DEF v, g

----------------------------------------------------------------------------
(* Rounds.  Both pages begin a handshake when a channel opens and another  *)
(* one when either of them resets.  What a page is in a round:             *)
(*   turn      the number of its handshake                                 *)
(*   pending   its hello is not out yet                                    *)
(*   took      the other page's hello it took, 0: none                     *)
(*   acc       the one it answered                                         *)
(*   answered  it got the answer to its own                                *)
(*   live      it handles frames; dead: it gave the other page up          *)
PageView == [turn: Nat, pending: BOOLEAN, took: Nat, acc: Nat, answered: BOOLEAN,
             live: BOOLEAN, dead: BOOLEAN]
Sane(x) ==
  /\ x \in PageView
  /\ x.turn # 0
  /\ x.acc \in {0, x.took}
  /\ x.answered => x.acc # 0
  /\ x.took # 0 => x.live
  /\ x.pending => x.acc = 0
  /\ ~(x.live /\ x.dead)

ResetFrame     == [t |-> "reset"]
HelloFrame(n)  == [t |-> "hello", h |-> n]
KemFrame(n, m) == [t |-> "kem", by |-> n, for |-> m]

(* In one round: what is on the way from x to y.                           *)
WayOf(x, y, w) ==
  LET r == ResetFrame
      h == HelloFrame(x.turn)
      k == KemFrame(x.turn, y.turn)
  IN
  \/ y.dead
  \/ y.took = 0 /\ x.pending /\ (Shape(w, <<>>) \/ Shape(w, <<r>>))
  \/ y.took = 0 /\ ~x.pending /\ x.acc = 0 /\ (Shape(w, <<h>>) \/ Shape(w, <<r, h>>))
  \/ y.took = 0 /\ x.acc # 0 /\ (Shape(w, <<h, k>>) \/ Shape(w, <<r, h, k>>))
  \/ y.took = x.turn /\ ~y.answered /\ ~x.pending /\ x.acc = 0 /\ Shape(w, <<>>)
  \/ y.took = x.turn /\ ~y.answered /\ x.acc # 0 /\ Shape(w, <<k>>)
  \/ y.took = x.turn /\ y.answered /\ x.acc # 0 /\ Shape(w, <<>>)
  \/ y.took = 0 /\ x.dead /\ ~x.pending /\ Shape(w, <<>>)

(* x reset and began a new round; y did not hear of it yet.                *)
AheadOf(x, y, wx, wy) ==
  LET r == ResetFrame
      h == HelloFrame(x.turn)
      k == KemFrame(y.acc, y.turn)
  IN
  /\ x.live /\ y.live /\ ~y.pending
  /\ y.acc # 0 /\ x.turn = y.acc + 1
  /\ x.took = 0 /\ Shape(wx, <<>>)
  /\ \/ y.answered /\ x.pending /\ Shape(wy, <<r>>)
     \/ y.answered /\ ~x.pending /\ Shape(wy, <<r, h>>)
     \/ ~y.answered /\ x.pending /\ Shape(wy, <<k, r>>)
     \/ ~y.answered /\ ~x.pending /\ Shape(wy, <<k, r, h>>)

SameOf(x, y, wx, wy) == WayOf(x, y, wy) /\ WayOf(y, x, wx)
RoundOf(x, y, wx, wy) ==
  SameOf(x, y, wx, wy) \/ AheadOf(x, y, wx, wy) \/ AheadOf(y, x, wy, wx)

(* What y can still get when the other end closed.                         *)
ReceiveOf(y, w) ==
  LET r == ResetFrame
      k == KemFrame(y.took, y.turn)
  IN
  \/ y.dead
  \/ /\ y.took = 0
     /\ \/ Shape(w, <<>>) \/ Shape(w, <<r>>)
        \/ \E n \in Nat \ {0} :
             \/ Shape(w, <<HelloFrame(n)>>)
             \/ Shape(w, <<r, HelloFrame(n)>>)
             \/ Shape(w, <<HelloFrame(n), KemFrame(n, y.turn)>>)
             \/ Shape(w, <<r, HelloFrame(n), KemFrame(n, y.turn)>>)
  \/ /\ y.took # 0 /\ ~y.answered
     /\ \/ Shape(w, <<>>) \/ Shape(w, <<k>>) \/ Shape(w, <<k, r>>)
        \/ \E n \in Nat \ {0} : Shape(w, <<k, r, HelloFrame(n)>>)
  \/ /\ y.answered
     /\ \/ Shape(w, <<>>) \/ Shape(w, <<r>>)
        \/ \E n \in Nat \ {0} : Shape(w, <<r, HelloFrame(n)>>)

LEMMA ControlFrames ==
  /\ ResetFrame \in Frame /\ ResetFrame.t = "reset"
  /\ \A n \in Nat : HelloFrame(n) \in Frame /\ HelloFrame(n).t = "hello" /\ HelloFrame(n).h = n
  /\ \A n, m \in Nat : /\ KemFrame(n, m) \in Frame /\ KemFrame(n, m).t = "kem"
                       /\ KemFrame(n, m).by = n /\ KemFrame(n, m).for = m
  /\ Control = {"reset", "hello", "kem"}
BY DEF ResetFrame, HelloFrame, KemFrame, Frame, Control

LEMMA RoundTurned ==
  ASSUME NEW x, NEW y, NEW wx, NEW wy, RoundOf(x, y, wx, wy)
  PROVE  RoundOf(y, x, wy, wx)
BY DEF RoundOf, SameOf

LEMMA RoundReceive ==
  ASSUME NEW x, NEW y, Sane(x), Sane(y), NEW wx, NEW wy, RoundOf(x, y, wx, wy)
  PROVE  ReceiveOf(y, wy)
<1>1. x.turn \in Nat \ {0} /\ (y.took = 0 \/ y.took # 0) /\ (y.acc # 0 => y.took = y.acc)
  BY DEF Sane, PageView
<1>2. CASE SameOf(x, y, wx, wy)
  BY <1>1, <1>2 DEF SameOf, WayOf, ReceiveOf, Sane
<1>3. CASE AheadOf(x, y, wx, wy)
  BY <1>1, <1>3 DEF AheadOf, ReceiveOf, Sane
<1>4. CASE AheadOf(y, x, wy, wx)
  BY <1>4 DEF AheadOf, ReceiveOf
<1> QED
  BY <1>2, <1>3, <1>4 DEF RoundOf

LEMMA SaneFacts ==
  ASSUME NEW x, Sane(x)
  PROVE  /\ x.turn \in Nat \ {0} /\ x.took \in Nat /\ x.acc \in Nat
         /\ x.pending \in BOOLEAN /\ x.answered \in BOOLEAN /\ x.live \in BOOLEAN /\ x.dead \in BOOLEAN
         /\ x.acc # 0 => x.took = x.acc /\ ~x.pending
         /\ x.took = 0 => x.acc = 0 /\ ~x.answered
         /\ x.answered => x.acc # 0
         /\ x.took # 0 => x.live /\ ~x.dead
         /\ x.dead => x.took = 0 /\ x.acc = 0 /\ ~x.live /\ ~x.answered
BY DEF Sane, PageView

(* A page says its hello.                                                  *)
LEMMA SaysHello ==
  ASSUME NEW x, NEW y, Sane(x), Sane(y), NEW wx, NEW wy \in Seq(Frame), RoundOf(x, y, wx, wy),
         x.pending, NEW z,
         z.turn = x.turn, ~z.pending, z.took = x.took, z.acc = x.acc,
         z.answered = x.answered, z.live = x.live, z.dead = x.dead
  PROVE  RoundOf(z, y, wx, Append(wy, HelloFrame(x.turn)))
<1> DEFINE v == Append(wy, HelloFrame(x.turn))
<1> SUFFICES RoundOf(z, y, wx, v)
  OBVIOUS
<1>1. /\ z.turn = x.turn /\ z.pending = FALSE /\ z.took = x.took /\ z.acc = x.acc
      /\ z.answered = x.answered /\ z.live = x.live /\ z.dead = x.dead
  OBVIOUS
<1>2. x.acc = 0 /\ x.turn \in Nat /\ y.acc \in Nat /\ y.turn \in Nat
  BY SaneFacts
<1>3. HelloFrame(x.turn) \in Frame /\ HelloFrame(x.turn).t \in Control
  BY <1>2, ControlFrames
<1>4. ResetFrame \in Frame /\ KemFrame(y.acc, y.turn) \in Frame
  BY <1>2, ControlFrames
<1>5. /\ Shape(wy, <<>>) => Shape(v, <<HelloFrame(x.turn)>>)
      /\ \A a \in Frame : Shape(wy, <<a>>) => Shape(v, <<a, HelloFrame(x.turn)>>)
      /\ \A a, b \in Frame : Shape(wy, <<a, b>>) => Shape(v, <<a, b, HelloFrame(x.turn)>>)
  BY <1>3, Grows
<1> HIDE DEF v
<1>6. CASE SameOf(x, y, wx, wy)
  <2>1. WayOf(z, y, v)
    BY <1>1, <1>2, <1>4, <1>5, <1>6 DEF SameOf, WayOf
  <2>2. WayOf(y, z, wx)
    BY <1>1, <1>6 DEF SameOf, WayOf
  <2> QED
    BY <2>1, <2>2 DEF RoundOf, SameOf
<1>7. CASE AheadOf(x, y, wx, wy)
  <2>1. AheadOf(z, y, wx, v)
    BY <1>1, <1>4, <1>5, <1>7 DEF AheadOf
  <2> QED
    BY <2>1 DEF RoundOf
<1>8. CASE AheadOf(y, x, wy, wx)
  BY <1>8 DEF AheadOf
<1> QED
  BY <1>6, <1>7, <1>8 DEF RoundOf

(* A page opens its end.                                                   *)
LEMMA Opens ==
  ASSUME NEW x, NEW y, Sane(x), Sane(y), NEW wx, NEW wy, RoundOf(x, y, wx, wy),
         NEW z,
         z.turn = x.turn, z.pending = x.pending, z.took = x.took, z.acc = x.acc,
         z.answered = x.answered, z.live, z.dead = x.dead
  PROVE  RoundOf(z, y, wx, wy)
<1>1. /\ z.turn = x.turn /\ z.pending = x.pending /\ z.took = x.took /\ z.acc = x.acc
      /\ z.answered = x.answered /\ z.live /\ z.dead = x.dead
  OBVIOUS
<1>2. CASE SameOf(x, y, wx, wy)
  <2>1. WayOf(z, y, wy) /\ WayOf(y, z, wx)
    BY <1>1, <1>2 DEF SameOf, WayOf
  <2> QED
    BY <2>1 DEF RoundOf, SameOf
<1>3. CASE AheadOf(x, y, wx, wy)
  <2>1. AheadOf(z, y, wx, wy)
    BY <1>1, <1>3 DEF AheadOf
  <2> QED
    BY <2>1 DEF RoundOf
<1>4. CASE AheadOf(y, x, wy, wx)
  <2>1. AheadOf(y, z, wy, wx)
    BY <1>1, <1>4 DEF AheadOf
  <2> QED
    BY <2>1 DEF RoundOf
<1> QED
  BY <1>2, <1>3, <1>4 DEF RoundOf

(* It takes the hello of the other page: the one of this round.            *)
LEMMA TakesHello ==
  ASSUME NEW x, NEW y, Sane(x), Sane(y), NEW wx, NEW wy \in Seq(Frame), RoundOf(x, y, wx, wy),
         ~x.dead, NEW n \in Nat, wx \in Seq(Frame), wx # <<>>, Head(wx) = HelloFrame(n),
         NEW z,
         z.turn = x.turn, z.pending = x.pending, z.took = n, z.acc = x.acc,
         z.answered = x.answered, z.live = x.live, z.dead = x.dead
  PROVE  RoundOf(z, y, Tail(wx), wy)
<1> DEFINE v == Tail(wx)
<1> SUFFICES RoundOf(z, y, v, wy)
  OBVIOUS
<1>1. /\ z.turn = x.turn /\ z.pending = x.pending /\ z.took = n /\ z.acc = x.acc
      /\ z.answered = x.answered /\ z.live = x.live /\ z.dead = x.dead
  OBVIOUS
<1>2. x.turn \in Nat /\ y.turn \in Nat /\ y.acc \in Nat /\ x.acc \in Nat
  BY SaneFacts
<1>3. /\ Head(wx).t \in Control /\ Head(wx).t = "hello" /\ Head(wx).h = n
      /\ ResetFrame \in Frame /\ ResetFrame.t = "reset"
  BY ControlFrames
<1>4. /\ HelloFrame(y.turn) \in Frame /\ HelloFrame(y.turn).h = y.turn
      /\ KemFrame(y.turn, x.turn) \in Frame /\ KemFrame(y.turn, x.turn).t = "kem"
      /\ KemFrame(x.acc, x.turn) \in Frame /\ KemFrame(x.acc, x.turn).t = "kem"
  BY <1>2, ControlFrames
<1>5. /\ ~Shape(wx, <<>>)
      /\ \A a \in Frame : Shape(wx, <<a>>) => Head(wx) = a /\ Shape(v, <<>>)
      /\ \A a, b \in Frame : Shape(wx, <<a, b>>) => Head(wx) = a /\ Shape(v, <<b>>)
      /\ \A a, b, c \in Frame : Shape(wx, <<a, b, c>>) => Head(wx) = a /\ Shape(v, <<b, c>>)
  BY <1>3, Shrinks
<1> HIDE DEF v
<1>6. CASE SameOf(x, y, wx, wy)
  <2>1. x.took = 0 /\ n = y.turn /\ x.acc = 0 /\ ~x.answered
    BY <1>3, <1>4, <1>5, <1>6, SaneFacts DEF SameOf, WayOf
  <2>2. WayOf(y, z, v)
    BY <1>1, <1>3, <1>4, <1>5, <1>6, <2>1 DEF SameOf, WayOf
  <2>3. WayOf(z, y, wy)
    BY <1>1, <1>6 DEF SameOf, WayOf
  <2> QED
    BY <2>2, <2>3 DEF RoundOf, SameOf
<1>7. CASE AheadOf(x, y, wx, wy)
  BY <1>5, <1>7 DEF AheadOf
<1>8. CASE AheadOf(y, x, wy, wx)
  <2>1. HelloFrame(y.turn) \in Frame
    BY <1>2, ControlFrames
  <2> QED
    BY <1>3, <1>4, <1>5, <1>8, <2>1 DEF AheadOf
<1> QED
  BY <1>6, <1>7, <1>8 DEF RoundOf

(* It answers the hello it took.                                           *)
LEMMA Accepts ==
  ASSUME NEW x, NEW y, Sane(x), Sane(y), NEW wx, NEW wy \in Seq(Frame), RoundOf(x, y, wx, wy),
         x.took # 0, x.acc = 0, ~x.pending, NEW z,
         z.turn = x.turn, z.pending = x.pending, z.took = x.took, z.acc = x.took,
         z.answered = x.answered, z.live = x.live, z.dead = x.dead
  PROVE  RoundOf(z, y, wx, Append(wy, KemFrame(x.turn, x.took)))
<1> DEFINE k == KemFrame(x.turn, x.took)
           v == Append(wy, k)
<1> SUFFICES RoundOf(z, y, wx, v)
  OBVIOUS
<1>1. /\ z.turn = x.turn /\ z.pending = x.pending /\ z.took = x.took /\ z.acc = x.took
      /\ z.answered = x.answered /\ z.live = x.live /\ z.dead = x.dead
  OBVIOUS
<1>2. x.turn \in Nat /\ y.turn \in Nat /\ x.took \in Nat /\ ~x.dead /\ ~x.answered
  BY SaneFacts
<1>3. k \in Frame /\ k.t \in Control
  BY <1>2, ControlFrames
<1>4. HelloFrame(x.turn) \in Frame /\ ResetFrame \in Frame
  BY <1>2, ControlFrames
<1>5. /\ Shape(wy, <<>>) => Shape(v, <<k>>)
      /\ \A a \in Frame : Shape(wy, <<a>>) => Shape(v, <<a, k>>)
      /\ \A a, b \in Frame : Shape(wy, <<a, b>>) => Shape(v, <<a, b, k>>)
  BY <1>3, Grows
<1> HIDE DEF v
<1>6. CASE SameOf(x, y, wx, wy)
  <2>1. x.took = y.turn
    BY <1>2, <1>6 DEF SameOf, WayOf
  <2>2. WayOf(z, y, v)
    BY <1>1, <1>2, <1>4, <1>5, <1>6, <2>1 DEF SameOf, WayOf
  <2>3. WayOf(y, z, wx)
    BY <1>1, <1>6 DEF SameOf, WayOf
  <2> QED
    BY <2>2, <2>3 DEF RoundOf, SameOf
<1>7. CASE AheadOf(x, y, wx, wy)
  BY <1>7 DEF AheadOf
<1>8. CASE AheadOf(y, x, wy, wx)
  BY <1>8 DEF AheadOf
<1> QED
  BY <1>6, <1>7, <1>8 DEF RoundOf

(* It takes the answer to its own hello.                                   *)
LEMMA TakesKem ==
  ASSUME NEW x, NEW y, Sane(x), Sane(y), NEW wx \in Seq(Frame), NEW wy, RoundOf(x, y, wx, wy),
         x.acc # 0, wx # <<>>, NEW n \in Nat, NEW m \in Nat, Head(wx) = KemFrame(n, m),
         NEW z,
         z.turn = x.turn, z.pending = x.pending, z.took = x.took, z.acc = x.acc,
         z.answered, z.live = x.live, z.dead = x.dead
  PROVE  RoundOf(z, y, Tail(wx), wy)
<1> DEFINE v == Tail(wx)
<1> SUFFICES RoundOf(z, y, v, wy)
  OBVIOUS
<1>1. /\ z.turn = x.turn /\ z.pending = x.pending /\ z.took = x.took /\ z.acc = x.acc
      /\ z.answered = TRUE /\ z.live = x.live /\ z.dead = x.dead
  OBVIOUS
<1>2. /\ x.turn \in Nat /\ y.turn \in Nat /\ x.acc \in Nat /\ ~x.dead /\ x.took = x.acc
      /\ y.acc # 0 => y.took # 0
  BY SaneFacts
<1>3. Head(wx).t \in Control /\ Head(wx).t = "kem"
  BY ControlFrames
<1>4. /\ ResetFrame \in Frame /\ ResetFrame.t = "reset"
      /\ HelloFrame(y.turn) \in Frame /\ HelloFrame(y.turn).t = "hello"
      /\ KemFrame(y.turn, x.turn) \in Frame /\ KemFrame(x.acc, x.turn) \in Frame
  BY <1>2, ControlFrames
<1>5. /\ ~Shape(wx, <<>>)
      /\ \A a \in Frame : Shape(wx, <<a>>) => Head(wx) = a /\ Shape(v, <<>>)
      /\ \A a, b \in Frame : Shape(wx, <<a, b>>) => Head(wx) = a /\ Shape(v, <<b>>)
      /\ \A a, b, c \in Frame : Shape(wx, <<a, b, c>>) => Head(wx) = a /\ Shape(v, <<b, c>>)
  BY <1>3, Shrinks
<1> HIDE DEF v
<1>6. CASE SameOf(x, y, wx, wy)
  <2>1. y.acc # 0 /\ Shape(v, <<>>) /\ x.took = y.turn
    BY <1>2, <1>3, <1>4, <1>5, <1>6 DEF SameOf, WayOf
  <2>2. WayOf(y, z, v)
    BY <1>1, <2>1 DEF WayOf
  <2>3. WayOf(z, y, wy)
    BY <1>1, <1>6 DEF SameOf, WayOf
  <2> QED
    BY <2>2, <2>3 DEF RoundOf, SameOf
<1>7. CASE AheadOf(x, y, wx, wy)
  BY <1>5, <1>7 DEF AheadOf
<1>8. CASE AheadOf(y, x, wy, wx)
  <2>1. AheadOf(y, z, wy, v)
    BY <1>1, <1>3, <1>4, <1>5, <1>8 DEF AheadOf
  <2> QED
    BY <2>1 DEF RoundOf
<1> QED
  BY <1>6, <1>7, <1>8 DEF RoundOf

(* A page that got its answer resets.                                      *)
LEMMA Resets ==
  ASSUME NEW x, NEW y, Sane(x), Sane(y), NEW wx, NEW wy \in Seq(Frame), RoundOf(x, y, wx, wy),
         x.answered, NEW z,
         z.turn = x.turn + 1, z.pending, z.took = 0, z.acc = 0,
         ~z.answered, z.live, ~z.dead
  PROVE  RoundOf(z, y, wx, Append(wy, ResetFrame))
<1> DEFINE v == Append(wy, ResetFrame)
<1> SUFFICES RoundOf(z, y, wx, v)
  OBVIOUS
<1>1. /\ z.turn = x.turn + 1 /\ z.pending /\ z.took = 0 /\ z.acc = 0
      /\ ~z.answered /\ z.live /\ ~z.dead
  OBVIOUS
<1>2. /\ x.turn \in Nat \ {0} /\ y.turn \in Nat \ {0} /\ x.acc # 0 /\ x.took # 0 /\ ~x.dead /\ ~x.pending
      /\ y.acc # 0 => y.took = y.acc /\ ~y.pending
      /\ y.took # 0 => y.live /\ ~y.dead
      /\ y.dead => y.acc = 0
      /\ y.took = 0 => y.acc = 0
  BY SaneFacts
<1>3. ResetFrame \in Frame /\ ResetFrame.t \in Control
  BY ControlFrames
<1>4. KemFrame(x.turn, y.turn) \in Frame
  BY <1>2, ControlFrames
<1>5. /\ Shape(wy, <<>>) => Shape(v, <<ResetFrame>>)
      /\ \A a \in Frame : Shape(wy, <<a>>) => Shape(v, <<a, ResetFrame>>)
  BY <1>3, Grows
<1> HIDE DEF v
<1>6. CASE SameOf(x, y, wx, wy)
  <2>1. y.acc # 0 /\ Shape(wx, <<>>)
    BY <1>2, <1>6 DEF SameOf, WayOf
  <2>2. /\ y.acc = x.turn
        /\ \/ y.answered /\ Shape(wy, <<>>)
           \/ ~y.answered /\ Shape(wy, <<KemFrame(x.turn, y.turn)>>)
    BY <1>2, <1>6, <2>1 DEF SameOf, WayOf
  <2>3. AheadOf(z, y, wx, v)
    BY <1>1, <1>2, <1>4, <1>5, <2>1, <2>2 DEF AheadOf
  <2> QED
    BY <2>3 DEF RoundOf
<1>7. CASE AheadOf(x, y, wx, wy)
  BY <1>2, <1>7 DEF AheadOf
<1>8. CASE AheadOf(y, x, wy, wx)
  <2>1. WayOf(z, y, v)
    BY <1>1, <1>5, <1>8 DEF AheadOf, WayOf
  <2>2. y.acc = 0
    BY <1>2, <1>8 DEF AheadOf
  <2>3. WayOf(y, z, wx)
    BY <1>1, <1>2, <1>8, <2>2 DEF AheadOf, WayOf
  <2> QED
    BY <2>1, <2>3 DEF RoundOf, SameOf
<1> QED
  BY <1>6, <1>7, <1>8 DEF RoundOf

(* It takes a reset: gives the other page up,                              *)
LEMMA ResetCloses ==
  ASSUME NEW x, NEW y, Sane(x), Sane(y), NEW wx \in Seq(Frame), NEW wy, RoundOf(x, y, wx, wy),
         ~x.dead, wx # <<>>, Head(wx) = ResetFrame, NEW z,
         z.turn = x.turn, z.pending = x.pending, z.took = 0, z.acc = 0,
         ~z.answered, ~z.live, z.dead
  PROVE  RoundOf(z, y, Tail(wx), wy)
<1> DEFINE v == Tail(wx)
<1> SUFFICES RoundOf(z, y, v, wy)
  OBVIOUS
<1>1. /\ z.turn = x.turn /\ z.pending = x.pending /\ z.took = 0 /\ z.acc = 0
      /\ ~z.answered /\ ~z.live /\ z.dead
  OBVIOUS
<1>2. /\ x.turn \in Nat /\ y.turn \in Nat /\ x.acc \in Nat
      /\ x.took = 0 => x.acc = 0
  BY SaneFacts
<1>3. Head(wx).t \in Control /\ ResetFrame \in Frame /\ ResetFrame.t = "reset"
  BY ControlFrames
<1>4. /\ HelloFrame(y.turn) \in Frame /\ HelloFrame(y.turn).t = "hello"
      /\ KemFrame(y.turn, x.turn) \in Frame /\ KemFrame(y.turn, x.turn).t = "kem"
      /\ KemFrame(x.acc, x.turn) \in Frame /\ KemFrame(x.acc, x.turn).t = "kem"
  BY <1>2, ControlFrames
<1>5. /\ ~Shape(wx, <<>>)
      /\ \A a \in Frame : Shape(wx, <<a>>) => Head(wx) = a
      /\ \A a, b \in Frame : Shape(wx, <<a, b>>) => Head(wx) = a
      /\ \A a, b, c \in Frame : Shape(wx, <<a, b, c>>) => Head(wx) = a
  BY <1>3, Shrinks
<1> HIDE DEF v
<1>6. WayOf(y, z, v)
  BY <1>1 DEF WayOf
<1>7. CASE SameOf(x, y, wx, wy)
  <2>1. x.took = 0
    BY <1>3, <1>4, <1>5, <1>7 DEF SameOf, WayOf
  <2>2. WayOf(z, y, wy)
    BY <1>1, <1>2, <1>7, <2>1 DEF SameOf, WayOf
  <2> QED
    BY <1>6, <2>2 DEF RoundOf, SameOf
<1>8. CASE AheadOf(x, y, wx, wy)
  BY <1>5, <1>8 DEF AheadOf
<1>9. CASE AheadOf(y, x, wy, wx)
  <2>1. WayOf(z, y, wy)
    BY <1>1, <1>9 DEF AheadOf, WayOf
  <2> QED
    BY <1>6, <2>1 DEF RoundOf, SameOf
<1> QED
  BY <1>7, <1>8, <1>9 DEF RoundOf

(* lets it pass,                                                           *)
LEMMA ResetIgnored ==
  ASSUME NEW x, NEW y, Sane(x), Sane(y), NEW wx \in Seq(Frame), NEW wy, RoundOf(x, y, wx, wy),
         ~x.dead, ~x.answered, wx # <<>>, Head(wx) = ResetFrame
  PROVE  RoundOf(x, y, Tail(wx), wy)
<1> DEFINE v == Tail(wx)
<1> SUFFICES RoundOf(x, y, v, wy)
  OBVIOUS
<1>2. x.turn \in Nat /\ y.turn \in Nat /\ x.acc \in Nat
  BY SaneFacts
<1>3. Head(wx).t \in Control /\ ResetFrame \in Frame /\ ResetFrame.t = "reset"
  BY ControlFrames
<1>4. /\ HelloFrame(y.turn) \in Frame /\ HelloFrame(y.turn).t = "hello"
      /\ KemFrame(y.turn, x.turn) \in Frame /\ KemFrame(y.turn, x.turn).t = "kem"
      /\ KemFrame(x.acc, x.turn) \in Frame /\ KemFrame(x.acc, x.turn).t = "kem"
  BY <1>2, ControlFrames
<1>5. /\ ~Shape(wx, <<>>)
      /\ \A a \in Frame : Shape(wx, <<a>>) => Head(wx) = a /\ Shape(v, <<>>)
      /\ \A a, b \in Frame : Shape(wx, <<a, b>>) => Head(wx) = a /\ Shape(v, <<b>>)
      /\ \A a, b, c \in Frame : Shape(wx, <<a, b, c>>) => Head(wx) = a /\ Shape(v, <<b, c>>)
  BY <1>3, Shrinks
<1> HIDE DEF v
<1>6. CASE SameOf(x, y, wx, wy)
  <2>1. WayOf(y, x, v)
    BY <1>3, <1>4, <1>5, <1>6 DEF SameOf, WayOf
  <2> QED
    BY <1>6, <2>1 DEF RoundOf, SameOf
<1>7. CASE AheadOf(x, y, wx, wy)
  BY <1>5, <1>7 DEF AheadOf
<1>8. CASE AheadOf(y, x, wy, wx)
  BY <1>3, <1>4, <1>5, <1>8 DEF AheadOf
<1> QED
  BY <1>6, <1>7, <1>8 DEF RoundOf

(* or starts over itself.                                                  *)
LEMMA ResetAnswered ==
  ASSUME NEW x, NEW y, Sane(x), Sane(y), NEW wx \in Seq(Frame), NEW wy, RoundOf(x, y, wx, wy),
         x.answered, wx # <<>>, Head(wx) = ResetFrame, NEW z,
         z.turn = x.turn + 1, z.pending, z.took = 0, z.acc = 0,
         ~z.answered, z.live, ~z.dead
  PROVE  RoundOf(z, y, Tail(wx), wy)
<1> DEFINE v == Tail(wx)
<1> SUFFICES RoundOf(z, y, v, wy)
  OBVIOUS
<1>1. /\ z.turn = x.turn + 1 /\ z.pending /\ z.took = 0 /\ z.acc = 0
      /\ ~z.answered /\ z.live /\ ~z.dead
  OBVIOUS
<1>2. /\ x.turn \in Nat /\ y.turn \in Nat /\ x.acc \in Nat /\ x.acc # 0 /\ x.took = x.acc /\ ~x.dead
      /\ y.took = 0 => y.acc = 0
  BY SaneFacts
<1>3. Head(wx).t \in Control /\ ResetFrame \in Frame /\ ResetFrame.t = "reset"
  BY ControlFrames
<1>4. HelloFrame(y.turn) \in Frame
  BY <1>2, ControlFrames
<1>5. /\ ~Shape(wx, <<>>)
      /\ \A a \in Frame : Shape(wx, <<a>>) => Shape(v, <<>>)
      /\ \A a, b \in Frame : Shape(wx, <<a, b>>) => Shape(v, <<b>>)
  BY <1>3, Shrinks
<1> HIDE DEF v
<1>6. CASE SameOf(x, y, wx, wy)
  BY <1>2, <1>5, <1>6 DEF SameOf, WayOf
<1>7. CASE AheadOf(x, y, wx, wy)
  BY <1>2, <1>7 DEF AheadOf
<1>8. CASE AheadOf(y, x, wy, wx)
  <2>1. y.acc = 0
    BY <1>2, <1>8 DEF AheadOf
  <2>2. WayOf(y, z, v)
    BY <1>1, <1>3, <1>4, <1>5, <1>8, <2>1 DEF AheadOf, WayOf
  <2>3. WayOf(z, y, wy)
    BY <1>1, <1>8 DEF AheadOf, WayOf
  <2> QED
    BY <2>2, <2>3 DEF RoundOf, SameOf
<1> QED
  BY <1>6, <1>7, <1>8 DEF RoundOf

(* What reaches a page that gave up does not matter, nor do chains and     *)
(* room messages.                                                          *)
LEMMA DeadTakes ==
  ASSUME NEW x, NEW y, Sane(x), Sane(y), NEW wx, NEW wy, RoundOf(x, y, wx, wy), x.dead, NEW v
  PROVE  RoundOf(x, y, v, wy)
<1>1. ~x.live
  BY SaneFacts
<1>2. SameOf(x, y, wx, wy)
  BY <1>1 DEF RoundOf, AheadOf
<1>3. SameOf(x, y, v, wy)
  BY <1>2 DEF SameOf, WayOf
<1> QED
  BY <1>3 DEF RoundOf

Alike(w, v) == \A c \in Seq(Frame) : Shape(w, c) => Shape(v, c)

LEMMA AlikeFrames ==
  ASSUME NEW w, NEW v, Alike(w, v)
  PROVE  /\ Shape(w, <<>>) => Shape(v, <<>>)
         /\ \A a \in Frame : Shape(w, <<a>>) => Shape(v, <<a>>)
         /\ \A a, b \in Frame : Shape(w, <<a, b>>) => Shape(v, <<a, b>>)
         /\ \A a, b, c \in Frame : Shape(w, <<a, b, c>>) => Shape(v, <<a, b, c>>)
<1>1. <<>> \in Seq(Frame)
  OBVIOUS
<1>2. \A a \in Frame : <<a>> \in Seq(Frame)
  OBVIOUS
<1>3. \A a, b \in Frame : <<a, b>> \in Seq(Frame)
  BY Pairs
<1>4. \A a, b, c \in Frame : <<a, b, c>> \in Seq(Frame)
  BY Triples
<1> QED
  BY <1>1, <1>2, <1>3, <1>4 DEF Alike

LEMMA WayAlike ==
  ASSUME NEW x, NEW y, Sane(x), Sane(y), NEW w, NEW v, Alike(w, v), WayOf(x, y, w)
  PROVE  WayOf(x, y, v)
<1>1. x.turn \in Nat /\ y.turn \in Nat
  BY SaneFacts
<1>2. /\ ResetFrame \in Frame /\ HelloFrame(x.turn) \in Frame
      /\ KemFrame(x.turn, y.turn) \in Frame
  BY <1>1, ControlFrames
<1>3. /\ Shape(w, <<>>) => Shape(v, <<>>)
      /\ \A a \in Frame : Shape(w, <<a>>) => Shape(v, <<a>>)
      /\ \A a, b \in Frame : Shape(w, <<a, b>>) => Shape(v, <<a, b>>)
      /\ \A a, b, c \in Frame : Shape(w, <<a, b, c>>) => Shape(v, <<a, b, c>>)
  BY AlikeFrames
<1> QED
  BY <1>2, <1>3 DEF WayOf

LEMMA AheadAlike ==
  ASSUME NEW x, NEW y, Sane(x), Sane(y), NEW w, NEW v, Alike(w, v), NEW wx, NEW vx, Alike(wx, vx),
         AheadOf(x, y, wx, w)
  PROVE  AheadOf(x, y, vx, v)
<1>1. x.turn \in Nat /\ y.turn \in Nat /\ y.acc \in Nat
  BY SaneFacts
<1>2. /\ ResetFrame \in Frame /\ HelloFrame(x.turn) \in Frame
      /\ KemFrame(y.acc, y.turn) \in Frame
  BY <1>1, ControlFrames
<1>3. /\ Shape(w, <<>>) => Shape(v, <<>>)
      /\ Shape(wx, <<>>) => Shape(vx, <<>>)
      /\ \A a \in Frame : Shape(w, <<a>>) => Shape(v, <<a>>)
      /\ \A a, b \in Frame : Shape(w, <<a, b>>) => Shape(v, <<a, b>>)
      /\ \A a, b, c \in Frame : Shape(w, <<a, b, c>>) => Shape(v, <<a, b, c>>)
  BY AlikeFrames
<1> QED
  BY <1>2, <1>3 DEF AheadOf

LEMMA RoundAlike ==
  ASSUME NEW x, NEW y, Sane(x), Sane(y), NEW wx, NEW vx, Alike(wx, vx), NEW wy, NEW vy, Alike(wy, vy),
         RoundOf(x, y, wx, wy)
  PROVE  RoundOf(x, y, vx, vy)
BY WayAlike, AheadAlike DEF RoundOf, SameOf

(* The same steps at a page whose channel the other page closed already.   *)
LEMMA KindsOfFrame ==
  /\ \A n \in Nat : ResetFrame # HelloFrame(n)
  /\ \A n, m \in Nat : HelloFrame(n) = HelloFrame(m) => n = m
  /\ \A n, m \in Nat : ResetFrame # KemFrame(n, m)
  /\ \A n, m, k \in Nat : HelloFrame(k) # KemFrame(n, m)
  /\ \A n, m, k, l \in Nat : KemFrame(n, m) = KemFrame(k, l) => n = k /\ m = l
BY ControlFrames

LEMMA ReceivesHello ==
  ASSUME NEW y, Sane(y), ~y.dead, NEW w \in Seq(Frame), w # <<>>, NEW n \in Nat,
         Head(w) = HelloFrame(n), ReceiveOf(y, w), NEW z,
         z.turn = y.turn, z.pending = y.pending, z.took = n, z.acc = y.acc,
         z.answered = y.answered, z.live = y.live, z.dead = y.dead
  PROVE  n # 0 /\ y.took = 0 /\ ReceiveOf(z, Tail(w))
<1> DEFINE v == Tail(w)
<1> SUFFICES n # 0 /\ y.took = 0 /\ ReceiveOf(z, v)
  OBVIOUS
<1>1. /\ y.turn \in Nat /\ y.took \in Nat
      /\ y.took = 0 => ~y.answered
      /\ y.answered => y.took # 0
  BY SaneFacts
<1>2. z.turn = y.turn /\ z.took = n /\ z.answered = y.answered
  OBVIOUS
<1>3. HelloFrame(n) \in Frame /\ HelloFrame(n).t \in Control
  BY ControlFrames
<1>7. /\ ResetFrame \in Frame /\ KemFrame(y.took, y.turn) \in Frame
      /\ \A k \in Nat : HelloFrame(k) \in Frame /\ KemFrame(k, y.turn) \in Frame
  BY <1>1, ControlFrames
<1>8. /\ ~Shape(w, <<>>)
      /\ \A a \in Frame : Shape(w, <<a>>) => Head(w) = a /\ Shape(v, <<>>)
      /\ \A a, b \in Frame : Shape(w, <<a, b>>) => Head(w) = a /\ Shape(v, <<b>>)
      /\ \A a, b, c \in Frame : Shape(w, <<a, b, c>>) => Head(w) = a /\ Shape(v, <<b, c>>)
  BY <1>3, Shrinks
<1> HIDE DEF v
<1>4. ~Shape(w, <<>>) /\ ~Shape(w, <<ResetFrame>>)
  BY <1>7, <1>8, KindsOfFrame
<1>9. ASSUME NEW m \in Nat
      PROVE  /\ Shape(w, <<HelloFrame(m)>>) => n = m /\ Shape(v, <<>>)
             /\ ~Shape(w, <<ResetFrame, HelloFrame(m)>>)
             /\ Shape(w, <<HelloFrame(m), KemFrame(m, y.turn)>>) =>
                  n = m /\ Shape(v, <<KemFrame(m, y.turn)>>)
             /\ ~Shape(w, <<ResetFrame, HelloFrame(m), KemFrame(m, y.turn)>>)
  BY <1>7, <1>8, KindsOfFrame
<1>10. y.took # 0 => y.answered
  <2> DEFINE k == KemFrame(y.took, y.turn)
  <2>1. Head(w) # k
    BY <1>1, KindsOfFrame
  <2>2. k \in Frame
    BY <1>7
  <2>3. y.took # 0 /\ ~y.answered =>
          \/ Shape(w, <<>>) \/ Shape(w, <<k>>) \/ Shape(w, <<k, ResetFrame>>)
          \/ \E m \in Nat : Shape(w, <<k, ResetFrame, HelloFrame(m)>>)
    BY DEF ReceiveOf
  <2> HIDE DEF k
  <2> QED
    BY <1>7, <1>8, <2>1, <2>2, <2>3
<1>5. y.took = 0 /\ ~y.answered /\ n # 0 /\ (Shape(v, <<>>) \/ Shape(v, <<KemFrame(n, y.turn)>>))
  BY <1>1, <1>4, <1>9, <1>10 DEF ReceiveOf
<1> QED
  BY <1>2, <1>5 DEF ReceiveOf

LEMMA ReceivesKem ==
  ASSUME NEW y, Sane(y), ~y.dead, NEW w \in Seq(Frame), w # <<>>, NEW n \in Nat, NEW m \in Nat,
         Head(w) = KemFrame(n, m), ReceiveOf(y, w), NEW z,
         z.turn = y.turn, z.pending = y.pending, z.took = y.took, z.acc = y.acc,
         z.answered, z.live = y.live, z.dead = y.dead
  PROVE  n = y.took /\ m = y.turn /\ n # 0 /\ ~y.answered /\ ReceiveOf(z, Tail(w))
<1> DEFINE v == Tail(w)
<1> SUFFICES n = y.took /\ m = y.turn /\ n # 0 /\ ~y.answered /\ ReceiveOf(z, v)
  OBVIOUS
<1>1. /\ y.turn \in Nat /\ y.took \in Nat
      /\ y.answered => y.took # 0
  BY SaneFacts
<1>2. z.turn = y.turn /\ z.took = y.took /\ z.answered = TRUE
  OBVIOUS
<1>3. KemFrame(n, m) \in Frame /\ KemFrame(n, m).t \in Control
  BY ControlFrames
<1>7. /\ ResetFrame \in Frame /\ KemFrame(y.took, y.turn) \in Frame
      /\ \A k \in Nat : HelloFrame(k) \in Frame /\ KemFrame(k, y.turn) \in Frame
  BY <1>1, ControlFrames
<1>8. /\ ~Shape(w, <<>>)
      /\ \A a \in Frame : Shape(w, <<a>>) => Head(w) = a /\ Shape(v, <<>>)
      /\ \A a, b \in Frame : Shape(w, <<a, b>>) => Head(w) = a /\ Shape(v, <<b>>)
      /\ \A a, b, c \in Frame : Shape(w, <<a, b, c>>) => Head(w) = a /\ Shape(v, <<b, c>>)
  BY <1>3, Shrinks
<1> HIDE DEF v
<1>4. y.took # 0 /\ ~y.answered
  <2>1. ~Shape(w, <<>>) /\ ~Shape(w, <<ResetFrame>>)
    BY <1>7, <1>8, KindsOfFrame
  <2>2. ASSUME NEW k \in Nat
        PROVE  /\ ~Shape(w, <<HelloFrame(k)>>) /\ ~Shape(w, <<ResetFrame, HelloFrame(k)>>)
               /\ ~Shape(w, <<HelloFrame(k), KemFrame(k, y.turn)>>)
               /\ ~Shape(w, <<ResetFrame, HelloFrame(k), KemFrame(k, y.turn)>>)
    <3>1. Head(w) # HelloFrame(k) /\ Head(w) # ResetFrame
      BY KindsOfFrame
    <3>2. HelloFrame(k) \in Frame /\ KemFrame(k, y.turn) \in Frame /\ ResetFrame \in Frame
      BY <1>7
    <3> QED
      BY <1>8, <3>1, <3>2
  <2> QED
    BY <2>1, <2>2 DEF ReceiveOf
<1>9. /\ Head(w) = KemFrame(y.took, y.turn)
      /\ \/ Shape(v, <<>>) \/ Shape(v, <<ResetFrame>>)
         \/ \E k \in Nat \ {0} : Shape(v, <<ResetFrame, HelloFrame(k)>>)
  <2> DEFINE k == KemFrame(y.took, y.turn)
  <2>1. k \in Frame
    BY <1>7
  <2>2. \/ Shape(w, <<>>) \/ Shape(w, <<k>>) \/ Shape(w, <<k, ResetFrame>>)
        \/ \E l \in Nat \ {0} : Shape(w, <<k, ResetFrame, HelloFrame(l)>>)
    BY <1>4 DEF ReceiveOf
  <2> SUFFICES /\ Head(w) = k
               /\ \/ Shape(v, <<>>) \/ Shape(v, <<ResetFrame>>)
                  \/ \E l \in Nat \ {0} : Shape(v, <<ResetFrame, HelloFrame(l)>>)
    OBVIOUS
  <2> HIDE DEF k
  <2> QED
    BY <1>7, <1>8, <2>1, <2>2
<1>5. /\ n = y.took /\ m = y.turn /\ y.took # 0 /\ ~y.answered
      /\ \/ Shape(v, <<>>) \/ Shape(v, <<ResetFrame>>)
         \/ \E k \in Nat \ {0} : Shape(v, <<ResetFrame, HelloFrame(k)>>)
  BY <1>1, <1>4, <1>9, KindsOfFrame
<1> QED
  BY <1>2, <1>5 DEF ReceiveOf

LEMMA ReceivesReset ==
  ASSUME NEW y, Sane(y), ~y.dead, NEW w \in Seq(Frame), w # <<>>, Head(w) = ResetFrame, ReceiveOf(y, w)
  PROVE  /\ ~y.answered => ReceiveOf(y, Tail(w))
         /\ \A z : z.took = 0 /\ y.answered => ReceiveOf(z, Tail(w))
<1> DEFINE v == Tail(w)
<1> SUFFICES /\ ~y.answered => ReceiveOf(y, v)
             /\ \A z : z.took = 0 /\ y.answered => ReceiveOf(z, v)
  OBVIOUS
<1>1. /\ y.turn \in Nat /\ y.took \in Nat
      /\ y.answered => y.took # 0
  BY SaneFacts
<1>3. ResetFrame \in Frame /\ ResetFrame.t \in Control
  BY ControlFrames
<1>7. /\ ResetFrame \in Frame /\ KemFrame(y.took, y.turn) \in Frame
      /\ \A k \in Nat : HelloFrame(k) \in Frame /\ KemFrame(k, y.turn) \in Frame
  BY <1>1, ControlFrames
<1>8. /\ ~Shape(w, <<>>)
      /\ \A a \in Frame : Shape(w, <<a>>) => Head(w) = a /\ Shape(v, <<>>)
      /\ \A a, b \in Frame : Shape(w, <<a, b>>) => Head(w) = a /\ Shape(v, <<b>>)
      /\ \A a, b, c \in Frame : Shape(w, <<a, b, c>>) => Head(w) = a /\ Shape(v, <<b, c>>)
  BY <1>3, Shrinks
<1> HIDE DEF v
<1>4. /\ ~Shape(w, <<>>)
      /\ Shape(w, <<ResetFrame>>) => Shape(v, <<>>)
      /\ \A k \in Nat :
           /\ ~Shape(w, <<HelloFrame(k)>>)
           /\ Shape(w, <<ResetFrame, HelloFrame(k)>>) => Shape(v, <<HelloFrame(k)>>)
           /\ ~Shape(w, <<HelloFrame(k), KemFrame(k, y.turn)>>)
           /\ Shape(w, <<ResetFrame, HelloFrame(k), KemFrame(k, y.turn)>>) =>
                Shape(v, <<HelloFrame(k), KemFrame(k, y.turn)>>)
      /\ ~Shape(w, <<KemFrame(y.took, y.turn)>>) /\ ~Shape(w, <<KemFrame(y.took, y.turn), ResetFrame>>)
      /\ \A k \in Nat : ~Shape(w, <<KemFrame(y.took, y.turn), ResetFrame, HelloFrame(k)>>)
  BY <1>1, <1>7, <1>8, KindsOfFrame
<1>5. CASE ~y.answered
  <2>1. /\ y.took = 0
        /\ \/ Shape(v, <<>>)
           \/ \E k \in Nat \ {0} :
                Shape(v, <<HelloFrame(k)>>) \/ Shape(v, <<HelloFrame(k), KemFrame(k, y.turn)>>)
    BY <1>4, <1>5 DEF ReceiveOf
  <2> QED
    BY <1>5, <2>1 DEF ReceiveOf
<1>6. CASE y.answered
  <2>1. Shape(v, <<>>) \/ \E k \in Nat \ {0} : Shape(v, <<HelloFrame(k)>>)
    BY <1>1, <1>4, <1>6 DEF ReceiveOf
  <2> QED
    BY <1>6, <2>1 DEF ReceiveOf
<1> QED
  BY <1>5, <1>6, SaneFacts

(* A page that resets still gets a reset that crosses.                     *)
LEMMA ReceivesAfterReset ==
  ASSUME NEW y, Sane(y), y.answered, NEW w, ReceiveOf(y, w), NEW z, z.took = 0
  PROVE  ReceiveOf(z, w)
BY SaneFacts DEF ReceiveOf

LEMMA ReceivesOwn ==
  ASSUME NEW y, NEW w, ReceiveOf(y, w), NEW z,
         z.took = y.took, z.turn = y.turn, z.answered = y.answered, z.dead = y.dead
  PROVE  ReceiveOf(z, w)
BY DEF ReceiveOf

LEMMA ReceiveAlike ==
  ASSUME NEW y, Sane(y), NEW w, NEW v, Alike(w, v), ReceiveOf(y, w)
  PROVE  ReceiveOf(y, v)
<1>1. y.turn \in Nat /\ y.took \in Nat
  BY SaneFacts
<1>2. /\ ResetFrame \in Frame /\ KemFrame(y.took, y.turn) \in Frame
      /\ \A n \in Nat : HelloFrame(n) \in Frame /\ KemFrame(n, y.turn) \in Frame
  BY <1>1, ControlFrames
<1>3. /\ Shape(w, <<>>) => Shape(v, <<>>)
      /\ \A a \in Frame : Shape(w, <<a>>) => Shape(v, <<a>>)
      /\ \A a, b \in Frame : Shape(w, <<a, b>>) => Shape(v, <<a, b>>)
      /\ \A a, b, c \in Frame : Shape(w, <<a, b, c>>) => Shape(v, <<a, b, c>>)
  BY AlikeFrames
<1> QED
  BY <1>2, <1>3 DEF ReceiveOf

LEMMA AlikePut ==
  ASSUME NEW w \in Seq(Frame), NEW f \in Frame, f.t \notin Control
  PROVE  Alike(w, Append(w, f))
BY ShapeAppend DEF Alike

LEMMA AlikeTaken ==
  ASSUME NEW w \in Seq(Frame), w # <<>>, Head(w).t \notin Control
  PROVE  Alike(w, Tail(w))
BY ShapeTail DEF Alike

----------------------------------------------------------------------------
(* What a page of the model is in a round.                                 *)
Hears(j) == j.at \in {"hello", "await", "accept"}
View(s) ==
  LET open == up[s] /\ ~fresh[s] IN
  [turn     |-> Len(shake[s]) + (IF fresh[s] THEN 1 ELSE 0),
   pending  |-> fresh[s] \/ starting[s] # {},
   took     |-> IF Hears(job[s]) THEN job[s].h ELSE peer[s].accepted,
   acc      |-> peer[s].accepted,
   answered |-> peer[s].session # {} \/ job[s].at \in {"kem", "take", "establish"},
   live     |-> open /\ ~peer[s].closed,
   dead     |-> open /\ peer[s].closed]

(* The session the hellos n of s and m of the other page make.             *)
Joint(s, n, m) ==
  LET o == Other(s) IN {<<s, n>>, <<o, m>>, <<s, n, m>>, <<o, m, n>>}
Half(a) == [to |-> a, got |-> 0, done |-> FALSE, doomed |-> FALSE]
Made(a) == [to |-> a, got |-> a, done |-> TRUE, doomed |-> FALSE]

(* A page: of what it knows, p, its last handshake k, the n-th, the hellos *)
(* being made, the handler that runs and its end of the channel.           *)
PageOf(s, p, n, k, st, j, u, f) ==
  LET live == u /\ ~f /\ ~p.closed
      a    == p.accepted
  IN
  /\ ~u => ~f
  /\ ~u \/ f => p.protocol = "pending" /\ st = {}
  /\ u /\ ~f => n # 0
  /\ live => p.hs = n /\ p.protocol # "refused"
               /\ k = IF p.session # {} \/ j.at = "establish" THEN Made(a) ELSE Half(a)
  /\ ~live => p.hs = 0 /\ j = Idle /\ a = 0 /\ p.session = {}
  /\ st \subseteq {n}
  /\ st # {} => a = 0 /\ j.at \in {"idle", "hello", "await", "restart"}
  /\ j.at \in Shaken => j.hs = n
  /\ Hears(j) => j.h # 0 /\ a = 0
  /\ j.at \in {"kem", "take", "establish"} => a # 0 /\ p.session = {}
  /\ j.at \in {"kem", "take"} => j.for = n /\ j.by = a
  /\ j.at \in {"hand", "handing", "open"} => p.session # {}
  /\ p.session # {} => a # 0 /\ p.session = Joint(s, n, a)

Local(s) ==
  /\ PageOf(s, peer[s], Len(shake[s]), shake[s][Len(shake[s])], starting[s], job[s], up[s], fresh[s])
  /\ ~up[s] => wire[s] = <<>>

Rounded(s) ==
  up[s] => IF up[Other(s)] THEN RoundOf(View(s), View(Other(s)), wire[s], wire[Other(s)])
           ELSE ReceiveOf(View(s), wire[s])

Paired == \A s \in Pages : Local(s) /\ Rounded(s)

LEMMA LocalTypes ==
  ASSUME Typed, NEW s \in Pages
  PROVE  /\ peer[s] \in PeerState /\ shake[s] \in Seq(PairHandshake) /\ job[s] \in Job
         /\ Len(shake[s]) \in Nat /\ DOMAIN shake[s] = 1 .. Len(shake[s])
         /\ starting[s] \subseteq Nat /\ up[s] \in BOOLEAN /\ fresh[s] \in BOOLEAN
         /\ wire[s] \in Seq(Frame)
         /\ Len(shake[s]) # 0 => shake[s][Len(shake[s])] \in PairHandshake
<1>1. /\ peer[s] \in PeerState /\ shake[s] \in Seq(PairHandshake) /\ job[s] \in Job
      /\ starting[s] \subseteq Nat /\ up[s] \in BOOLEAN /\ fresh[s] \in BOOLEAN
      /\ wire[s] \in Seq(Frame)
  BY DEF Typed, Handshakes, Channels, Handlers
<1>2. Len(shake[s]) \in Nat /\ DOMAIN shake[s] = 1 .. Len(shake[s])
  BY <1>1, LenProperties
<1>3. Len(shake[s]) # 0 => shake[s][Len(shake[s])] \in PairHandshake
  BY <1>1, <1>2
<1> QED
  BY <1>1, <1>2, <1>3

LEMMA ViewFields ==
  ASSUME NEW s \in Pages
  PROVE  /\ View(s).turn = Len(shake[s]) + (IF fresh[s] THEN 1 ELSE 0)
         /\ View(s).pending = (fresh[s] \/ starting[s] # {})
         /\ View(s).took = IF Hears(job[s]) THEN job[s].h ELSE peer[s].accepted
         /\ View(s).acc = peer[s].accepted
         /\ View(s).answered = (peer[s].session # {} \/ job[s].at \in {"kem", "take", "establish"})
         /\ View(s).live = (up[s] /\ ~fresh[s] /\ ~peer[s].closed)
         /\ View(s).dead = (up[s] /\ ~fresh[s] /\ peer[s].closed)
BY DEF View

LEMMA HeardTypes ==
  ASSUME NEW j \in Job, Hears(j)
  PROVE  j.h \in Nat
BY DEF Job, Hears, HandingOut

LEMMA SaneView ==
  ASSUME Typed, NEW s \in Pages, Local(s), up[s]
  PROVE  Sane(View(s))
<1> DEFINE p == peer[s]
           n == Len(shake[s])
           j == job[s]
           k == shake[s][n]
<1>1. /\ p \in PeerState /\ j \in Job /\ n \in Nat /\ fresh[s] \in BOOLEAN /\ starting[s] \subseteq Nat
  BY LocalTypes
<1>2. p.accepted \in Nat /\ p.closed \in BOOLEAN /\ (Hears(j) => j.h \in Nat)
  BY <1>1, HeardTypes DEF PeerState
<1> HIDE DEF p, n, j, k
<1>3. View(s) \in PageView
  <2> DEFINE turn == n + (IF fresh[s] THEN 1 ELSE 0)
             pending == fresh[s] \/ starting[s] # {}
             took == IF Hears(j) THEN j.h ELSE p.accepted
             acc == p.accepted
             answered == p.session # {} \/ j.at \in {"kem", "take", "establish"}
             live == up[s] /\ ~fresh[s] /\ ~p.closed
             dead == up[s] /\ ~fresh[s] /\ p.closed
  <2>1. turn \in Nat /\ took \in Nat /\ acc \in Nat
    BY <1>1, <1>2
  <2>2. pending \in BOOLEAN /\ answered \in BOOLEAN /\ live \in BOOLEAN /\ dead \in BOOLEAN
    OBVIOUS
  <2>3. View(s) = [turn |-> turn, pending |-> pending, took |-> took, acc |-> acc,
                   answered |-> answered, live |-> live, dead |-> dead]
    BY DEF View, p, n, j
  <2> HIDE DEF turn, pending, took, acc, answered, live, dead
  <2> QED
    BY <2>1, <2>2, <2>3 DEF PageView
<1>4. PageOf(s, p, n, k, starting[s], j, up[s], fresh[s])
  BY DEF Local, p, n, j, k
<1>5. /\ fresh[s] \/ p.closed => p.accepted = 0 /\ p.session = {} /\ j = Idle
      /\ ~fresh[s] => n # 0
      /\ Hears(j) => j.h # 0 /\ p.accepted = 0
      /\ starting[s] # {} => p.accepted = 0
      /\ j.at \in {"kem", "take", "establish"} => p.accepted # 0
      /\ p.session # {} => p.accepted # 0
  BY <1>4 DEF PageOf
<1>6. Idle.at = "idle" /\ ~Hears(Idle)
  BY DEF Idle, Hears
<1> DEFINE x == View(s)
<1>7. /\ x.turn = n + (IF fresh[s] THEN 1 ELSE 0)
      /\ x.pending = (fresh[s] \/ starting[s] # {})
      /\ x.took = IF Hears(j) THEN j.h ELSE p.accepted
      /\ x.acc = p.accepted
      /\ x.answered = (p.session # {} \/ j.at \in {"kem", "take", "establish"})
      /\ x.live = (up[s] /\ ~fresh[s] /\ ~p.closed)
      /\ x.dead = (up[s] /\ ~fresh[s] /\ p.closed)
  BY ViewFields DEF p, n, j
<1> HIDE DEF x
<1>8. x.turn # 0 /\ x.acc \in {0, x.took}
  BY <1>1, <1>2, <1>5, <1>7
<1>9. x.answered => x.acc # 0
  BY <1>5, <1>7
<1>10. x.took # 0 => x.live
  BY <1>5, <1>6, <1>7
<1>11. x.pending => x.acc = 0
  BY <1>5, <1>7
<1>12. ~(x.live /\ x.dead)
  BY <1>7
<1> QED
  BY <1>3, <1>8, <1>9, <1>10, <1>11, <1>12 DEF Sane, x

(* A step of s: of the other page it may change the wire only.             *)
Aside(s) ==
  \A t \in Pages : t # s =>
    /\ peer'[t] = peer[t] /\ shake'[t] = shake[t] /\ starting'[t] = starting[t]
    /\ job'[t] = job[t] /\ up'[t] = up[t] /\ fresh'[t] = fresh[t]

LEMMA AsideKeeps ==
  ASSUME NEW s \in Pages, Aside(s), NEW t \in Pages, t # s
  PROVE  /\ View(t)' = View(t)
         /\ Local(t) /\ (wire'[t] = wire[t] \/ up[t]) => Local(t)'
<1>1. /\ peer'[t] = peer[t] /\ shake'[t] = shake[t] /\ starting'[t] = starting[t]
      /\ job'[t] = job[t] /\ up'[t] = up[t] /\ fresh'[t] = fresh[t]
  BY DEF Aside
<1>2. View(t)' = View(t)
  BY <1>1 DEF View
<1>3. Local(t) /\ (wire'[t] = wire[t] \/ up[t]) => Local(t)'
  BY <1>1 DEF Local
<1> QED
  BY <1>2, <1>3

LEMMA AlikeSelf == ASSUME NEW w PROVE Alike(w, w)
BY DEF Alike

(* A step that changes no round.                                           *)
LEMMA CalmPaired ==
  ASSUME Typed, Paired, NEW s \in Pages, Aside(s), up'[s] = up[s], View(s)' = View(s), Local(s)',
         \A t \in Pages : Alike(wire[t], wire'[t]) /\ (wire'[t] = wire[t] \/ up[t])
  PROVE  Paired'
<1> SUFFICES ASSUME NEW t \in Pages PROVE Local(t)' /\ Rounded(t)'
  BY DEF Paired
<1> DEFINE o == Other(t)
<1>1. Local(t)'
  BY AsideKeeps DEF Paired
<1>2. o \in Pages
  BY TwoPages
<1>3. \A q \in Pages : View(q)' = View(q) /\ up'[q] = up[q]
  BY AsideKeeps DEF Aside
<1>4. \A q \in Pages : up[q] => Sane(View(q))
  BY SaneView DEF Paired
<1>5. Rounded(t)'
  <2> SUFFICES ASSUME up'[t]
               PROVE  IF up'[o] THEN RoundOf(View(t)', View(o)', wire'[t], wire'[o])
                      ELSE ReceiveOf(View(t)', wire'[t])
    BY DEF Rounded
  <2>1. Rounded(t) /\ up[t] /\ up'[o] = up[o] /\ View(t)' = View(t) /\ View(o)' = View(o)
    BY <1>2, <1>3 DEF Paired
  <2>2. Sane(View(t)) /\ (up[o] => Sane(View(o)))
    BY <1>2, <1>4, <2>1
  <2>3. CASE up[o]
    <3>1. RoundOf(View(t), View(o), wire[t], wire[o])
      BY <2>1, <2>3 DEF Rounded
    <3>2. Alike(wire[t], wire'[t]) /\ Alike(wire[o], wire'[o])
      BY <1>2
    <3>3. RoundOf(View(t), View(o), wire'[t], wire'[o])
      BY <2>2, <2>3, <3>1, <3>2, RoundAlike
    <3> QED
      BY <2>1, <2>3, <3>3
  <2>4. CASE ~up[o]
    <3>1. ReceiveOf(View(t), wire[t])
      BY <2>1, <2>4 DEF Rounded
    <3>2. ReceiveOf(View(t), wire'[t])
      BY <2>2, <3>1, ReceiveAlike
    <3> QED
      BY <2>1, <2>4, <3>2
  <2> QED
    BY <2>3, <2>4
<1> QED
  BY <1>1, <1>5

(* A step of s in its round.                                               *)
LEMMA StepPaired ==
  ASSUME Typed, Paired, NEW s \in Pages, Aside(s), up[s], up'[s], Local(s)',
         LET o == Other(s) IN
         /\ wire'[o] = wire[o] \/ up[o]
         /\ up[o] => RoundOf(View(s)', View(o), wire'[s], wire'[o])
         /\ ~up[o] => ReceiveOf(View(s)', wire'[s])
  PROVE  Paired'
<1> DEFINE o == Other(s)
<1>1. o \in Pages /\ o # s /\ Other(o) = s /\ \A t \in Pages : t = s \/ t = o
  BY TwoPages
<1>2. View(o)' = View(o) /\ Local(o)' /\ up'[o] = up[o]
  BY <1>1, AsideKeeps DEF Paired, Aside
<1>3. Rounded(s)'
  BY <1>2 DEF Rounded
<1>4. Rounded(o)'
  <2>1. CASE up[o]
    <3>1. RoundOf(View(o)', View(s)', wire'[o], wire'[s])
      BY <1>2, <2>1, RoundTurned
    <3> QED
      BY <1>1, <3>1 DEF Rounded
  <2>2. CASE ~up[o]
    BY <1>2, <2>2 DEF Rounded
  <2> QED
    BY <2>1, <2>2
<1> HIDE DEF o
<1>5. \A t \in Pages : Local(t)' /\ Rounded(t)'
  BY <1>1, <1>2, <1>3, <1>4
<1> QED
  BY <1>5 DEF Paired

LEMMA WirePut ==
  ASSUME Typed, NEW s \in Pages, NEW f, Sends(s, f)
  PROVE  LET o == Other(s) IN
         /\ wire'[s] = wire[s]
         /\ up[s] /\ up[o] => wire'[o] = Append(wire[o], f)
         /\ ~(up[s] /\ up[o]) => wire'[o] = wire[o]
<1>1. Other(s) \in Pages /\ Other(s) # s
  BY TwoPages
<1>2. wire \in [Pages -> Seq(Frame)]
  BY DEF Typed, Channels
<1> QED
  BY <1>1, <1>2 DEF Sends, Put, Carried

LEMMA WirePopped ==
  ASSUME Typed, NEW s \in Pages, wire' = Popped(s)
  PROVE  wire'[s] = Tail(wire[s]) /\ wire'[Other(s)] = wire[Other(s)]
<1>1. Other(s) \in Pages /\ Other(s) # s
  BY TwoPages
<1>2. wire \in [Pages -> Seq(Frame)]
  BY DEF Typed, Channels
<1> QED
  BY <1>1, <1>2 DEF Popped

Answering(p, j) == p.session # {} \/ j.at \in {"kem", "take", "establish"}

LEMMA ViewSame ==
  ASSUME NEW s \in Pages, Len(shake'[s]) = Len(shake[s]), starting'[s] = starting[s],
         up'[s] = up[s], fresh'[s] = fresh[s],
         peer'[s].accepted = peer[s].accepted, peer'[s].closed = peer[s].closed,
         Hears(job'[s]) <=> Hears(job[s]), Hears(job[s]) => job'[s].h = job[s].h,
         Answering(peer'[s], job'[s]) <=> Answering(peer[s], job[s])
  PROVE  View(s)' = View(s)
BY DEF View, Answering

(* A handler goes on; the round does not notice.                           *)
LEMMA JobCalm ==
  ASSUME Typed, Paired, NEW s \in Pages, NEW q, job' = [job EXCEPT ![s] = q],
         UNCHANGED <<peer, shake, starting, up, fresh>>,
         PageOf(s, peer[s], Len(shake[s]), shake[s][Len(shake[s])], starting[s], q, up[s], fresh[s]),
         Hears(q) <=> Hears(job[s]), Hears(job[s]) => q.h = job[s].h,
         Answering(peer[s], q) <=> Answering(peer[s], job[s]),
         \A t \in Pages : Alike(wire[t], wire'[t]) /\ (wire'[t] = wire[t] \/ up[t])
  PROVE  Paired'
<1>1. job'[s] = q /\ \A t \in Pages : t # s => job'[t] = job[t]
  BY DEF Typed, Handlers
<1>2. Aside(s)
  BY <1>1 DEF Aside
<1>3. View(s)' = View(s)
  BY <1>1, ViewSame
<1>4. Local(s)'
  BY <1>1 DEF Local, Paired
<1> QED
  BY <1>2, <1>3, <1>4, CalmPaired

(* Nothing of the pages changes but chains and room messages.              *)
LEMMA WireCalm ==
  ASSUME Typed, Paired, NEW s \in Pages, UNCHANGED <<peer, shake, starting, up, fresh, job>>,
         \A t \in Pages : Alike(wire[t], wire'[t]) /\ (wire'[t] = wire[t] \/ up[t])
  PROVE  Paired'
<1>1. Aside(s)
  BY DEF Aside
<1>2. View(s)' = View(s)
  BY DEF View
<1>3. Local(s)'
  BY DEF Local, Paired
<1> QED
  BY <1>1, <1>2, <1>3, CalmPaired

LEMMA PutCalm ==
  ASSUME Typed, NEW s \in Pages, NEW f \in Frame, f.t \notin Control, Sends(s, f)
  PROVE  \A t \in Pages : Alike(wire[t], wire'[t]) /\ (wire'[t] = wire[t] \/ up[t])
<1>1. \A t \in Pages : wire[t] \in Seq(Frame) /\ (t = s \/ t = Other(s))
  BY TwoPages, LocalTypes
<1>2. ASSUME NEW t \in Pages
      PROVE  Alike(wire[t], wire'[t]) /\ (wire'[t] = wire[t] \/ up[t])
  BY <1>1, WirePut, AlikePut, AlikeSelf
<1> QED
  BY <1>2

LEMMA PoppedCalm ==
  ASSUME Typed, Paired, NEW s \in Pages, wire[s] # <<>>, Head(wire[s]).t \notin Control,
         wire' = Popped(s)
  PROVE  \A t \in Pages : Alike(wire[t], wire'[t]) /\ (wire'[t] = wire[t] \/ up[t])
<1>1. \A t \in Pages : wire[t] \in Seq(Frame) /\ (t = s \/ t = Other(s))
  BY TwoPages, LocalTypes
<1>2. up[s]
  BY DEF Paired, Local
<1>3. wire'[s] = Tail(wire[s]) /\ wire'[Other(s)] = wire[Other(s)] /\ Alike(wire[s], Tail(wire[s]))
  BY <1>1, WirePopped, AlikeTaken
<1> QED
  BY <1>1, <1>2, <1>3, AlikeSelf

LEMMA SameCalm ==
  ASSUME UNCHANGED wire
  PROVE  \A t \in Pages : Alike(wire[t], wire'[t]) /\ (wire'[t] = wire[t] \/ up[t])
BY AlikeSelf

(* The handlers of a hello and of an answer.                               *)
LEMMA DecidePaired ==
  ASSUME Typed, Paired, NEW s \in Pages, DecideHello(s)
  PROVE  Paired' /\ UNCHANGED <<peer, shake>>
<1> DEFINE p == peer[s]
           n == Len(shake[s])
           k == shake[s][n]
           j == job[s]
           q == [at |-> "await", h |-> j.h, hs |-> p.hs]
<1>1. PageOf(s, p, n, k, starting[s], j, up[s], fresh[s]) /\ j.at = "hello"
  BY DEF Paired, Local, DecideHello
<1>2. Idle.at = "idle" /\ q.at = "await" /\ q.h = j.h /\ q.hs = p.hs
  BY DEF Idle
<1>3. p.hs = n /\ n # 0 /\ p.accepted = 0 /\ p.session = {} /\ j.h # 0 /\ up[s] /\ ~fresh[s] /\ ~p.closed
  <2> HIDE DEF p, n, k, j, q
  <2> QED
    BY <1>1, <1>2 DEF PageOf, Hears
<1>4. job' = [job EXCEPT ![s] = q] /\ UNCHANGED <<peer, shake, starting, up, fresh, wire>>
  BY <1>3 DEF DecideHello, Do, PeerStartsOver, channel
<1>5. Hears(q) /\ Hears(j) /\ (Answering(p, q) <=> Answering(p, j))
  BY <1>1, <1>2, <1>3 DEF Hears, Answering
<1>6. PageOf(s, p, n, k, starting[s], q, up[s], fresh[s])
  <2> HIDE DEF p, n, k, j, q
  <2> QED
    BY <1>1, <1>2, <1>3 DEF PageOf, Hears, Shaken
<1> QED
  BY <1>2, <1>4, <1>5, <1>6, JobCalm, SameCalm

LEMMA AwaitedPaired ==
  ASSUME Typed, Paired, NEW s \in Pages, AwaitedHello(s) \/ AwaitedKem(s)
  PROVE  /\ Paired'
         /\ AwaitedKem(s) => UNCHANGED <<peer, shake, wire, refusals>>
<1> DEFINE p == peer[s]
           n == Len(shake[s])
           k == shake[s][n]
           j == job[s]
           a == [j EXCEPT !.at = "accept"]
           t == [j EXCEPT !.at = "take"]
<1>1. PageOf(s, p, n, k, starting[s], j, up[s], fresh[s]) /\ j \in Job
  BY LocalTypes DEF Paired, Local
<1>2. Idle.at = "idle"
  BY DEF Idle
<1>3. CASE AwaitedHello(s)
  <2>1. j.at = "await" /\ j.hs \notin starting[s]
    BY <1>3 DEF AwaitedHello
  <2>2. a.at = "accept" /\ a.h = j.h /\ a.hs = j.hs
    BY <1>1, <2>1 DEF Job, HandingOut
  <2> HIDE DEF p, n, k, a
  <2>3. /\ j.hs = n /\ p.session = {} /\ k = Half(p.accepted) /\ starting[s] = {}
        /\ p.accepted = 0 /\ j.h # 0
    <3> HIDE DEF j
    <3> QED
      BY <1>1, <1>2, <2>1 DEF PageOf, Hears, Shaken
  <2>4. ~k.done
    BY <2>3 DEF Half, Made
  <2>5. job' = [job EXCEPT ![s] = a] /\ UNCHANGED <<peer, shake, starting, up, fresh, wire>>
    BY <1>3, <2>3, <2>4 DEF AwaitedHello, Do, channel, a, k, n
  <2>6. Hears(a) /\ Hears(j) /\ (Answering(p, a) <=> Answering(p, j))
    BY <2>1, <2>2 DEF Hears, Answering
  <2>7. PageOf(s, p, n, k, starting[s], a, up[s], fresh[s])
    <3> HIDE DEF j
    <3> QED
      BY <1>1, <1>2, <2>1, <2>2, <2>3 DEF PageOf, Hears, Shaken
  <2>8. Paired'
    BY <2>2, <2>5, <2>6, <2>7, JobCalm, SameCalm DEF p, n, k
  <2> QED
    BY <2>1, <2>8 DEF AwaitedKem
<1>4. CASE AwaitedKem(s)
  <2>1. j.at = "kem" /\ j.hs \notin starting[s]
    BY <1>4 DEF AwaitedKem
  <2>2. t.at = "take" /\ t.by = j.by /\ t.for = j.for /\ t.hs = j.hs
    BY <1>1, <2>1 DEF Job, HandingOut
  <2> HIDE DEF p, n, k, t
  <2>3. j.hs = n /\ p.session = {} /\ k = Half(p.accepted) /\ p.accepted # 0
    <3> HIDE DEF j
    <3> QED
      BY <1>1, <1>2, <2>1 DEF PageOf, Hears, Shaken
  <2>4. ~k.done
    BY <2>3 DEF Half, Made
  <2>5. job' = [job EXCEPT ![s] = t] /\ UNCHANGED <<peer, shake, starting, up, fresh, wire, refusals>>
    BY <1>4, <2>3, <2>4 DEF AwaitedKem, Do, channel, t, k, n, p
  <2>6. ~Hears(t) /\ ~Hears(j) /\ (Answering(p, t) <=> Answering(p, j))
    BY <2>1, <2>2 DEF Hears, Answering
  <2>7. PageOf(s, p, n, k, starting[s], t, up[s], fresh[s])
    <3> HIDE DEF j
    <3> QED
      BY <1>1, <1>2, <2>1, <2>2, <2>3 DEF PageOf, Hears, Shaken
  <2> QED
    BY <2>2, <2>5, <2>6, <2>7, JobCalm, SameCalm DEF p, n, k
<1> QED
  BY <1>3, <1>4

LEMMA SameShake ==
  ASSUME NEW x \in PairHandshake, NEW y \in PairHandshake,
         x.to = y.to, x.got = y.got, x.done = y.done, x.doomed = y.doomed
  PROVE  x = y
BY DEF PairHandshake

LEMMA Stages ==
  /\ NewShake = Half(0)
  /\ \A a \in Nat : /\ Half(a) \in PairHandshake /\ Made(a) \in PairHandshake
                    /\ [[Half(a) EXCEPT !.got = a] EXCEPT !.done = TRUE] = Made(a)
                    /\ [Half(0) EXCEPT !.to = a] = Half(a)
<1>1. NewShake = Half(0)
  BY DEF NewShake, Half
<1>2. ASSUME NEW a \in Nat
      PROVE  /\ Half(a) \in PairHandshake /\ Made(a) \in PairHandshake
             /\ [[Half(a) EXCEPT !.got = a] EXCEPT !.done = TRUE] = Made(a)
             /\ [Half(0) EXCEPT !.to = a] = Half(a)
  <2>1. Half(a) \in PairHandshake /\ Made(a) \in PairHandshake
    BY DEF Half, Made, PairHandshake
  <2>2. [[Half(a) EXCEPT !.got = a] EXCEPT !.done = TRUE] = Made(a)
    <3> DEFINE x == [[Half(a) EXCEPT !.got = a] EXCEPT !.done = TRUE]
    <3>1. x.to = a /\ x.got = a /\ x.done = TRUE /\ x.doomed = FALSE
      BY DEF Half
    <3>2. x \in PairHandshake
      BY <2>1 DEF PairHandshake
    <3> HIDE DEF x
    <3>3. x = Made(a)
      BY <2>1, <3>1, <3>2, SameShake DEF Made
    <3> QED
      BY <3>3 DEF x
  <2>3. [Half(0) EXCEPT !.to = a] = Half(a)
    <3> DEFINE x == [Half(0) EXCEPT !.to = a]
    <3>1. x.to = a /\ x.got = 0 /\ x.done = FALSE /\ x.doomed = FALSE
      BY DEF Half
    <3>2. x \in PairHandshake
      BY DEF Half, PairHandshake
    <3> HIDE DEF x
    <3>3. x = Half(a)
      BY <2>1, <3>1, <3>2, SameShake DEF Half
    <3> QED
      BY <3>3 DEF x
  <2> QED
    BY <2>1, <2>2, <2>3
<1> QED
  BY <1>1, <1>2

LEMMA LastChanged ==
  ASSUME Typed, NEW s \in Pages, NEW n, n = Len(shake[s]), n # 0, NEW v \in PairHandshake,
         shake' = [shake EXCEPT ![s][n] = v]
  PROVE  /\ Len(shake'[s]) = n /\ shake'[s][n] = v
         /\ \A t \in Pages : t # s => shake'[t] = shake[t]
<1>1. shake[s] \in Seq(PairHandshake) /\ n \in 1 .. Len(shake[s])
  BY LocalTypes
<1>2. Len([shake[s] EXCEPT ![n] = v]) = n /\ [shake[s] EXCEPT ![n] = v][n] = v
  BY <1>1, ExceptSeq
<1>3. shake' = [shake EXCEPT ![s] = [shake[s] EXCEPT ![n] = v]]
  OBVIOUS
<1> QED
  BY <1>2, <1>3 DEF Typed, Handshakes

LEMMA DeskCalm ==
  ASSUME Typed, Paired, NEW s \in Pages, Aside(s), up'[s] = up[s], fresh'[s] = fresh[s],
         starting'[s] = starting[s], Len(shake'[s]) = Len(shake[s]),
         PageOf(s, peer'[s], Len(shake[s]), shake'[s][Len(shake[s])], starting[s], job'[s],
                up[s], fresh[s]),
         peer'[s].accepted = peer[s].accepted, peer'[s].closed = peer[s].closed,
         Hears(job'[s]) <=> Hears(job[s]), Hears(job[s]) => job'[s].h = job[s].h,
         Answering(peer'[s], job'[s]) <=> Answering(peer[s], job[s]),
         \A t \in Pages : Alike(wire[t], wire'[t]) /\ (wire'[t] = wire[t] \/ up[t])
  PROVE  Paired'
<1>1. View(s)' = View(s)
  BY ViewSame
<1>2. Local(s)'
  BY DEF Local, Paired
<1> QED
  BY <1>1, <1>2, CalmPaired

LEMMA AcceptKemPaired ==
  ASSUME Typed, Paired, NEW s \in Pages, AcceptKem(s)
  PROVE  Paired' /\ \A t \in Pages : Len(shake'[t]) = Len(shake[t])
<1> DEFINE p == peer[s]
           n == Len(shake[s])
           k == shake[s][n]
           j == job[s]
           v == Made(p.accepted)
           q == [at |-> "establish", hs |-> n]
<1>1. PageOf(s, p, n, k, starting[s], j, up[s], fresh[s]) /\ j.at = "take" /\ p \in PeerState
  BY LocalTypes DEF Paired, Local, AcceptKem
<1>2. Idle.at = "idle" /\ q.at = "establish" /\ q.hs = n
  BY DEF Idle
<1>3. /\ j.hs = n /\ j.for = n /\ j.by = p.accepted /\ n # 0 /\ p.session = {} /\ p.accepted # 0
      /\ k = Half(p.accepted) /\ starting[s] = {}
      /\ p.hs = n /\ p.protocol # "refused" /\ up[s] /\ ~fresh[s] /\ ~p.closed
  <2> HIDE DEF p, n, k, j, q
  <2> QED
    BY <1>1, <1>2 DEF PageOf, Hears, Shaken
<1>4. v \in PairHandshake /\ [[k EXCEPT !.got = p.accepted] EXCEPT !.done = TRUE] = v
  <2>1. p.accepted \in Nat
    BY <1>1 DEF PeerState
  <2> QED
    BY <1>3, <2>1, Stages
<1>5. k.done = FALSE /\ k.to = p.accepted /\ [k EXCEPT !.got = p.accepted].got = p.accepted
      /\ [k EXCEPT !.got = p.accepted].done = FALSE /\ [k EXCEPT !.got = p.accepted].to = p.accepted
  BY <1>3 DEF Half, Made
<1>6. shake' = [shake EXCEPT ![s][n] = v] /\ job' = [job EXCEPT ![s] = q]
  <2>1. Goes(s, n, [k EXCEPT !.got = p.accepted])
    BY <1>3 DEF AcceptKem
  <2> HIDE DEF k, n, p, v
  <2> QED
    BY <1>3, <1>4, <1>5, <2>1 DEF Goes, Do
<1>7. Len(shake'[s]) = n /\ shake'[s][n] = v /\ \A t \in Pages : t # s => shake'[t] = shake[t]
  BY <1>3, <1>4, <1>6, LastChanged
<1>8. job'[s] = q /\ UNCHANGED <<peer, starting, up, fresh, wire>>
  BY <1>6 DEF Typed, Handlers, AcceptKem, channel
<1>9. Aside(s)
  BY <1>6, <1>7, <1>8 DEF Aside, Typed, Handlers
<1>10. ~Hears(q) /\ ~Hears(j) /\ Answering(p, q) /\ Answering(p, j)
  BY <1>1, <1>2 DEF Hears, Answering
<1>11. PageOf(s, p, n, v, starting[s], q, up[s], fresh[s])
  <2> HIDE DEF p, n, k, j, q, v
  <2> QED
    BY <1>1, <1>2, <1>3 DEF PageOf, Hears, Shaken, v
<1> QED
  BY <1>7, <1>8, <1>9, <1>10, <1>11, DeskCalm, SameCalm

LEMMA EstablishPaired ==
  ASSUME Typed, Paired, NEW s \in Pages, Establish(s)
  PROVE  Paired'
<1> DEFINE p == peer[s]
           n == Len(shake[s])
           k == shake[s][n]
           j == job[s]
           e == SessionOf(s, n)
           x == [p EXCEPT !.session = e, !.protocol = "p4", !.failed = FALSE]
           q == [at |-> "hand"]
<1>1. PageOf(s, p, n, k, starting[s], j, up[s], fresh[s]) /\ j.at = "establish" /\ p \in PeerState
  BY LocalTypes DEF Paired, Local, Establish
<1>2. Idle.at = "idle" /\ q.at = "hand"
  BY DEF Idle
<1>3. /\ j.hs = n /\ n # 0 /\ p.session = {} /\ p.accepted # 0
      /\ k = Made(p.accepted) /\ starting[s] = {}
      /\ p.hs = n /\ up[s] /\ ~fresh[s] /\ ~p.closed
  <2> HIDE DEF p, n, k, j, q
  <2> QED
    BY <1>1, <1>2 DEF PageOf, Hears, Shaken
<1>4. e = Joint(s, n, p.accepted) /\ e # {}
  <2>1. k.to = p.accepted /\ k.got = p.accepted
    BY <1>3 DEF Half, Made
  <2> QED
    BY <2>1 DEF SessionOf, Joint
<1>5. /\ x.session = e /\ x.accepted = p.accepted /\ x.closed = p.closed /\ x.hs = p.hs
      /\ x.protocol = "p4"
  BY <1>1 DEF PeerState
<1>6. peer' = [peer EXCEPT ![s] = x] /\ job' = [job EXCEPT ![s] = q]
      /\ UNCHANGED <<shake, starting, up, fresh, wire>>
  BY <1>3 DEF Establish, Do, channel
<1>7. peer'[s] = x /\ job'[s] = q /\ Aside(s)
  BY <1>6 DEF Aside, Typed, Handlers, Handshakes
<1> HIDE DEF x, e
<1>8. ~Hears(q) /\ ~Hears(j) /\ Answering(x, q) /\ Answering(p, j)
  BY <1>1, <1>2, <1>4, <1>5 DEF Hears, Answering
<1>9. PageOf(s, x, n, k, starting[s], q, up[s], fresh[s])
  <2> HIDE DEF p, n, k, j, q
  <2> QED
    BY <1>1, <1>2, <1>3, <1>4, <1>5 DEF PageOf, Hears, Shaken
<1> QED
  BY <1>5, <1>6, <1>7, <1>8, <1>9, DeskCalm, SameCalm

(* The session of a page in its round.                                     *)
LEMMA InSession ==
  ASSUME Typed, Paired, NEW s \in Pages, job[s].at \in {"hand", "handing", "open"}
  PROVE  /\ peer[s].session # {} /\ peer[s].accepted # 0 /\ starting[s] = {}
         /\ up[s] /\ ~fresh[s] /\ ~peer[s].closed /\ View(s).answered /\ View(s).turn = Len(shake[s])
<1>1. PageOf(s, peer[s], Len(shake[s]), shake[s][Len(shake[s])], starting[s], job[s], up[s], fresh[s])
  BY DEF Paired, Local
<1>2. Idle.at = "idle"
  BY DEF Idle
<1>3. /\ peer[s].session # {} /\ peer[s].accepted # 0 /\ starting[s] = {}
      /\ up[s] /\ ~fresh[s] /\ ~peer[s].closed
  BY <1>1, <1>2 DEF PageOf
<1>4. Len(shake[s]) \in Nat
  BY LocalTypes
<1>5. /\ View(s).turn = Len(shake[s]) + (IF fresh[s] THEN 1 ELSE 0)
      /\ View(s).answered = Answering(peer[s], job[s])
  BY ViewFields DEF Answering
<1>6. View(s).answered
  BY <1>3, <1>5 DEF Answering
<1>7. View(s).turn = Len(shake[s])
  BY <1>3, <1>4, <1>5
<1> QED
  BY <1>3, <1>6, <1>7

LEMMA IdlePage ==
  ASSUME NEW s \in Pages, NEW p, NEW n, NEW k, NEW st, NEW j, NEW u, NEW f,
         PageOf(s, p, n, k, st, j, u, f),
         j.at \in {"hand", "handing", "open", "restart"}
  PROVE  PageOf(s, p, n, k, st, Idle, u, f)
BY DEF PageOf, Idle, Hears, Shaken

LEMMA HandledPaired ==
  ASSUME Typed, Paired, NEW s \in Pages,
         HandOut(s) \/ HandedOut(s) \/ OpenFrame(s) \/ StartedOver(s)
  PROVE  Paired'
<1> DEFINE p == peer[s]
           n == Len(shake[s])
           k == shake[s][n]
           j == job[s]
<1>1. PageOf(s, p, n, k, starting[s], j, up[s], fresh[s])
  BY DEF Paired, Local
<1>2. j.at \in {"hand", "handing", "open", "restart"}
  BY DEF HandOut, HandedOut, OpenFrame, StartedOver
<1>3. UNCHANGED <<peer, shake, starting, up, fresh>>
  BY DEF HandOut, HandedOut, OpenFrame, StartedOver, channel
<1>4. PageOf(s, p, n, k, starting[s], Idle, up[s], fresh[s])
  BY <1>1, <1>2, IdlePage
<1>5. Idle.at = "idle" /\ ~Hears(Idle) /\ ~Hears(j) /\ (Answering(p, Idle) <=> Answering(p, j))
  BY <1>2 DEF Idle, Hears, Answering
<1>6. CASE job' = [job EXCEPT ![s] = Idle]
  <2>1. \/ UNCHANGED wire
        \/ \E f \in Frame : f.t \notin Control /\ Sends(s, f)
    <3>1. CASE HandedOut(s)
      <4>1. PICK went \in BOOLEAN : Hands(s, job[s], went)
        BY <3>1 DEF HandedOut
      <4>2. j.id \in Nat /\ j.session \in Session
        BY <3>1, JobCases, LocalTypes DEF HandedOut
      <4>3. [t |-> "p4", session |-> j.session, chain |-> j.id] \in Frame
        BY <4>2, FrameTypes
      <4> QED
        BY <4>1, <4>3 DEF Hands, Control
    <3> QED
      BY <3>1 DEF HandOut, OpenFrame, StartedOver
  <2>2. \A t \in Pages : Alike(wire[t], wire'[t]) /\ (wire'[t] = wire[t] \/ up[t])
    BY <2>1, PutCalm, SameCalm
  <2> QED
    BY <1>3, <1>4, <1>5, <1>6, <2>2, JobCalm
<1>7. CASE HandOut(s)
  <2> DEFINE q == Handing(s, Prepared(s, FALSE))
  <2>1. q.at = "handing" /\ j.at = "hand" /\ ~Hears(q) /\ (Answering(p, q) <=> Answering(p, j))
    BY <1>7 DEF Handing, HandOut, Hears, Answering
  <2>2. job' = [job EXCEPT ![s] = Idle] \/ job' = [job EXCEPT ![s] = q]
    BY <1>7 DEF HandOut, Do
  <2> HIDE DEF q
  <2>3. PageOf(s, p, n, k, starting[s], q, up[s], fresh[s])
    <3> HIDE DEF p, n, k, j
    <3> QED
      BY <1>1, <2>1 DEF PageOf, Hears, Shaken, Idle
  <2>4. UNCHANGED wire
    BY <1>7 DEF HandOut
  <2> QED
    BY <1>3, <1>5, <1>6, <2>1, <2>2, <2>3, <2>4, JobCalm, SameCalm
<1> QED
  BY <1>6, <1>7 DEF HandedOut, OpenFrame, StartedOver, Do

LEMMA RoomPaired ==
  ASSUME Typed, Paired, NEW s \in Pages, SealRoom(s) \/ SendChain(s) \/ Seal(s) \/ SendRoom(s)
  PROVE  Paired'
<1>1. UNCHANGED <<peer, shake, starting, up, fresh, job>>
  BY DEF SealRoom, SendChain, Seal, SendRoom, channel
<1>2. \/ UNCHANGED wire
      \/ \E f \in Frame : f.t \notin Control /\ Sends(s, f)
  <2>1. CASE SendChain(s)
    <3>1. PICK went \in BOOLEAN : Hands(s, send[s], went)
      BY <2>1 DEF SendChain
    <3>2. send[s].id \in Nat /\ send[s].session \in Session
      BY <2>1, SendCases DEF SendChain, Typed, Handlers
    <3>3. [t |-> "p4", session |-> send[s].session, chain |-> send[s].id] \in Frame
      BY <3>2, FrameTypes
    <3> QED
      BY <3>1, <3>3 DEF Hands, Control
  <2>2. CASE SendRoom(s)
    <3>1. send[s].chain \in Nat /\ send[s].session \in Session
      BY <2>2, SendCases DEF SendRoom, Typed, Handlers
    <3>2. [t |-> "room", chain |-> send[s].chain, session |-> send[s].session] \in Frame
      BY <3>1 DEF Frame
    <3> QED
      BY <2>2, <3>2 DEF SendRoom, Control
  <2> QED
    BY <2>1, <2>2 DEF SealRoom, Seal
<1>3. \A t \in Pages : Alike(wire[t], wire'[t]) /\ (wire'[t] = wire[t] \/ up[t])
  BY <1>2, PutCalm, SameCalm
<1> QED
  BY <1>1, <1>3, WireCalm

LEMMA TakenFramePaired ==
  ASSUME Typed, Paired, NEW s \in Pages, TakeFrame(s) \/ TakeRoom(s)
  PROVE  Paired'
<1> DEFINE p == peer[s]
           n == Len(shake[s])
           k == shake[s][n]
           j == job[s]
<1>1. PageOf(s, p, n, k, starting[s], j, up[s], fresh[s])
  BY DEF Paired, Local
<1>2. /\ wire[s] # <<>> /\ Head(wire[s]).t \notin Control /\ wire' = Popped(s) /\ j = Idle /\ ~fresh[s]
      /\ UNCHANGED <<peer, shake, starting, up, fresh>>
  BY DEF TakeFrame, TakeRoom, Ignored, Next4, Control, channel
<1>3. \A t \in Pages : Alike(wire[t], wire'[t]) /\ (wire'[t] = wire[t] \/ up[t])
  BY <1>2, PoppedCalm
<1>4. Idle.at = "idle" /\ ~Hears(Idle)
  BY DEF Idle, Hears
<1>5. CASE TakeRoom(s)
  <2>1. UNCHANGED job
    BY <1>5 DEF TakeRoom, Ignored
  <2> QED
    BY <1>2, <1>3, <2>1, WireCalm
<1>6. CASE TakeFrame(s)
  <2> DEFINE q == [at |-> "open", with |-> p.session, frame |-> Head(wire[s])]
  <2>1. q.at = "open" /\ ~Hears(q)
    BY DEF Hears
  <2>2. \/ job' = [job EXCEPT ![s] = Idle]
        \/ job' = [job EXCEPT ![s] = q] /\ p.session # {}
    BY <1>6 DEF TakeFrame, Do
  <2> HIDE DEF q
  <2>3. CASE job' = [job EXCEPT ![s] = Idle]
    BY <1>1, <1>2, <1>3, <1>4, <2>3, JobCalm
  <2>4. CASE job' = [job EXCEPT ![s] = q] /\ p.session # {}
    <3>1. Answering(p, q) /\ Answering(p, j)
      BY <2>4 DEF Answering
    <3>2. up[s] /\ ~p.closed /\ starting[s] = {}
      <4> HIDE DEF p, n, k, j
      <4> QED
        BY <1>1, <1>2, <2>4 DEF PageOf
    <3>3. PageOf(s, p, n, k, starting[s], q, up[s], fresh[s])
      <4> HIDE DEF p, n, k, j
      <4> QED
        BY <1>1, <1>2, <1>4, <2>1, <2>4, <3>2 DEF PageOf, Hears, Shaken
    <3> QED
      BY <1>2, <1>3, <1>4, <2>1, <2>4, <3>1, <3>3, JobCalm
  <2> QED
    BY <2>2, <2>3, <2>4
<1> QED
  BY <1>5, <1>6

LEMMA WindowPaired ==
  ASSUME Typed, Paired, NEW s \in Pages, WindowPasses(s)
  PROVE  Paired'
<1> DEFINE p == peer[s]
           n == Len(shake[s])
           k == shake[s][n]
           j == job[s]
           x == [p EXCEPT !.warned = FALSE]
<1>1. PageOf(s, p, n, k, starting[s], j, up[s], fresh[s]) /\ p \in PeerState
  BY LocalTypes DEF Paired, Local
<1>2. /\ x.session = p.session /\ x.accepted = p.accepted /\ x.closed = p.closed /\ x.hs = p.hs
      /\ x.protocol = p.protocol
  BY <1>1 DEF PeerState
<1>3. peer' = [peer EXCEPT ![s] = x] /\ UNCHANGED <<shake, starting, up, fresh, wire, job>>
  BY DEF WindowPasses, channel
<1>4. peer'[s] = x /\ Aside(s)
  BY <1>3 DEF Aside, Typed, Handshakes
<1> HIDE DEF x
<1>5. Answering(x, j) <=> Answering(p, j)
  BY <1>2 DEF Answering
<1>6. PageOf(s, x, n, k, starting[s], j, up[s], fresh[s])
  <2> HIDE DEF p, n, k, j
  <2> QED
    BY <1>1, <1>2 DEF PageOf
<1> QED
  BY <1>2, <1>3, <1>4, <1>5, <1>6, DeskCalm, SameCalm

(* A frame of another session, or one that is damaged, is let pass.        *)
LEMMA PassedPaired ==
  ASSUME Typed, Paired, NEW s \in Pages, FailFrame(s), ~ResetByUs(s)
  PROVE  Paired' /\ UNCHANGED <<shake, wire, refusals>>
<1> DEFINE p == peer[s]
           n == Len(shake[s])
           k == shake[s][n]
           j == job[s]
           x == [p EXCEPT !.failed = @ \/ j.with = p.session]
<1>1. PageOf(s, p, n, k, starting[s], j, up[s], fresh[s]) /\ p \in PeerState
  BY LocalTypes DEF Paired, Local
<1>2. /\ x.session = p.session /\ x.accepted = p.accepted /\ x.closed = p.closed /\ x.hs = p.hs
      /\ x.protocol = p.protocol
  BY <1>1 DEF PeerState
<1>3. /\ j.at = "open" /\ peer' = [peer EXCEPT ![s] = x] /\ job' = [job EXCEPT ![s] = Idle]
      /\ UNCHANGED <<shake, starting, up, fresh, wire, refusals>>
  BY DEF FailFrame, Do, channel
<1>4. peer'[s] = x /\ job'[s] = Idle /\ Aside(s)
  BY <1>3 DEF Aside, Typed, Handshakes, Handlers
<1> HIDE DEF x
<1>5. p.session # {}
  BY <1>3, InSession
<1>6. Answering(x, Idle) /\ Answering(p, j) /\ ~Hears(Idle) /\ ~Hears(j) /\ Idle.at = "idle"
  BY <1>2, <1>3, <1>5 DEF Answering, Hears, Idle
<1>7. PageOf(s, x, n, k, starting[s], Idle, up[s], fresh[s])
  <2> HIDE DEF p, n, k, j
  <2> QED
    BY <1>1, <1>2, <1>3, <1>5, <1>6 DEF PageOf, Shaken
<1> QED
  BY <1>2, <1>3, <1>4, <1>6, <1>7, DeskCalm, SameCalm

(* What a page that gave up still gets.                                    *)
LEMMA TakingPage ==
  ASSUME Typed, Paired, NEW s \in Pages, NEW t, Next4(s, t)
  PROVE  /\ up[s] /\ ~fresh[s] /\ job[s] = Idle /\ wire[s] \in Seq(Frame) /\ wire[s] # <<>>
         /\ Head(wire[s]) \in Frame /\ Head(wire[s]).t = t
         /\ View(s).took = peer[s].accepted /\ View(s).dead = peer[s].closed
         /\ View(s).live = ~peer[s].closed /\ View(s).turn = Len(shake[s])
         /\ View(s).answered = (peer[s].session # {})
         /\ Sane(View(s)) /\ (up[Other(s)] => Sane(View(Other(s))))
<1>1. /\ ~fresh[s] /\ job[s] = Idle /\ wire[s] # <<>> /\ Head(wire[s]).t = t
      /\ wire[s] \in Seq(Frame)
  BY LocalTypes DEF Next4
<1>2. up[s]
  BY <1>1 DEF Paired, Local
<1>3. Head(wire[s]) \in Frame
  BY <1>1, Taken DEF Typed
<1>4. ~Hears(job[s]) /\ job[s].at = "idle"
  BY <1>1 DEF Idle, Hears
<1>5. Len(shake[s]) \in Nat /\ peer[s].closed \in BOOLEAN
  BY LocalTypes DEF PeerState
<1>6. View(s).took = peer[s].accepted
  BY <1>4 DEF View
<1>7. View(s).dead = peer[s].closed /\ View(s).live = ~peer[s].closed
  BY <1>1, <1>2, <1>5 DEF View
<1>8. View(s).turn = Len(shake[s])
  BY <1>1, <1>5 DEF View
<1>9. View(s).answered = (peer[s].session # {})
  BY <1>4 DEF View
<1>10. Sane(View(s)) /\ (up[Other(s)] => Sane(View(Other(s))))
  BY <1>2, TwoPages, SaneView DEF Paired
<1> QED
  BY <1>1, <1>2, <1>3, <1>6, <1>7, <1>8, <1>9, <1>10

LEMMA IgnoredPaired ==
  ASSUME Typed, Paired, NEW s \in Pages, IgnoreClosed(s)
  PROVE  Paired'
<1> DEFINE o == Other(s)
<1>1. PICK t \in {"hello", "kem", "p4", "reset"} : Ignored(s, t)
  BY DEF IgnoreClosed
<1>2. /\ Next4(s, t) /\ wire' = Popped(s) /\ peer[s].closed
      /\ UNCHANGED <<peer, shake, starting, up, fresh, job>>
  BY <1>1 DEF IgnoreClosed, Ignored, channel
<1>3. /\ up[s] /\ View(s).dead /\ Sane(View(s)) /\ (up[o] => Sane(View(o)))
  BY <1>2, TakingPage
<1>4. View(s)' = View(s) /\ Aside(s)
  BY <1>2 DEF View, Aside
<1>5. Local(s)'
  BY <1>2, <1>3 DEF Paired, Local
<1>6. wire'[o] = wire[o]
  BY <1>2, WirePopped
<1>7. up[o] => RoundOf(View(s)', View(o), wire'[s], wire'[o])
  <2> SUFFICES ASSUME up[o] PROVE RoundOf(View(s), View(o), wire'[s], wire[o])
    BY <1>4, <1>6
  <2>1. RoundOf(View(s), View(o), wire[s], wire[o])
    BY <1>3 DEF Paired, Rounded
  <2> QED
    BY <1>3, <2>1, DeadTakes
<1>8. ReceiveOf(View(s)', wire'[s])
  BY <1>3, <1>4 DEF ReceiveOf
<1> QED
  BY <1>2, <1>3, <1>4, <1>5, <1>6, <1>7, <1>8, StepPaired

(* The wire's of a pair after s said something,                            *)
LEMMA WiresPut ==
  ASSUME Typed, NEW s \in Pages, up[s], NEW f, Sends(s, f)
  PROVE  LET o == Other(s) IN
         /\ wire[s] \in Seq(Frame) /\ wire[o] \in Seq(Frame)
         /\ wire'[o] = wire[o] \/ up[o]
         /\ wire'[s] = wire[s]
         /\ up[o] => wire'[o] = Append(wire[o], f)
BY WirePut, TwoPages, LocalTypes

LEMMA TakeHelloPaired ==
  ASSUME Typed, Paired, NEW s \in Pages, TakeHello(s)
  PROVE  Paired'
<1> DEFINE o == Other(s)
           p == peer[s]
           n == Len(shake[s])
           k == shake[s][n]
           h == Head(wire[s]).h
           q == [at |-> "hello", h |-> h]
           x == View(s)
           z == View(s)'
<1>1. /\ Next4(s, "hello") /\ ~p.closed /\ wire' = Popped(s) /\ job' = [job EXCEPT ![s] = q]
      /\ UNCHANGED <<peer, shake, starting, up, fresh>>
  BY DEF TakeHello, Do, channel
<1>2. /\ up[s] /\ ~fresh[s] /\ job[s] = Idle /\ wire[s] \in Seq(Frame) /\ wire[s] # <<>>
      /\ Head(wire[s]) \in Frame /\ Head(wire[s]).t = "hello"
      /\ x.took = p.accepted /\ x.dead = p.closed /\ x.answered = (p.session # {})
      /\ Sane(x) /\ (up[o] => Sane(View(o)))
  BY <1>1, TakingPage
<1>3. h \in Nat /\ Head(wire[s]) = HelloFrame(h)
  BY <1>2 DEF Frame, HelloFrame
<1>4. job'[s] = q /\ Aside(s) /\ wire'[s] = Tail(wire[s]) /\ wire'[o] = wire[o]
  BY <1>1, WirePopped DEF Aside, Typed, Handlers
<1>5. q.at = "hello" /\ q.h = h /\ Hears(q) /\ Idle.at = "idle" /\ ~Hears(Idle)
  BY DEF Hears, Idle
<1>6. /\ z.turn = x.turn /\ z.pending = x.pending /\ z.took = h /\ z.acc = x.acc
      /\ z.answered = x.answered /\ z.live = x.live /\ z.dead = x.dead
  <2> HIDE DEF h, q
  <2> QED
    BY <1>1, <1>2, <1>4, <1>5 DEF View
<1>7. ReceiveOf(x, wire[s])
  BY <1>2, RoundReceive, RoundTurned DEF Paired, Rounded
<1> HIDE DEF x, z
<1>8. h # 0 /\ x.took = 0 /\ ReceiveOf(z, wire'[s])
  BY <1>1, <1>2, <1>3, <1>4, <1>6, <1>7, ReceivesHello
<1>9. up[o] => RoundOf(z, View(o), wire'[s], wire'[o])
  <2> SUFFICES ASSUME up[o] PROVE RoundOf(z, View(o), Tail(wire[s]), wire[o])
    BY <1>4
  <2>1. RoundOf(x, View(o), wire[s], wire[o]) /\ wire[o] \in Seq(Frame)
    BY <1>2, TwoPages, LocalTypes DEF Paired, Rounded, x
  <2> HIDE DEF o, h
  <2> QED
    BY <1>1, <1>2, <1>3, <1>6, <2>1, TakesHello DEF o
<1>10. PageOf(s, p, n, k, starting[s], q, up[s], fresh[s])
  <2>1. PageOf(s, p, n, k, starting[s], job[s], up[s], fresh[s])
    BY DEF Paired, Local
  <2>2. p.accepted = 0 /\ p.session = {}
    <3>1. p.accepted = 0
      BY <1>2, <1>8
    <3> HIDE DEF p, n, k
    <3> QED
      BY <2>1, <3>1 DEF PageOf
  <2> HIDE DEF p, n, k, h, q
  <2> QED
    BY <1>1, <1>2, <1>5, <1>8, <2>1, <2>2 DEF PageOf, Shaken, Hears
<1>11. Local(s)'
  BY <1>1, <1>2, <1>4, <1>10 DEF Local
<1> QED
  BY <1>1, <1>2, <1>4, <1>8, <1>9, <1>11, StepPaired DEF z

LEMMA StartedPaired ==
  ASSUME Typed, Paired, NEW s \in Pages, NEW h \in starting[s], Started(s, h)
  PROVE  Paired' /\ \A t \in Pages : Len(shake'[t]) = Len(shake[t])
<1> DEFINE o == Other(s)
           p == peer[s]
           n == Len(shake[s])
           k == shake[s][n]
           j == job[s]
           v == IF k.doomed THEN [NewShake EXCEPT !.done = TRUE] ELSE k
           q == IF j.at \in {"await", "kem"} /\ j.hs = h THEN Woken(j) ELSE j
           x == View(s)
           z == View(s)'
<1>1. PageOf(s, p, n, k, starting[s], j, up[s], fresh[s]) /\ j \in Job
  BY LocalTypes DEF Paired, Local
<1>2. Idle.at = "idle"
  BY DEF Idle
<1>3. /\ h = n /\ up[s] /\ ~fresh[s] /\ n # 0 /\ p.accepted = 0 /\ starting[s] = {n}
      /\ j.at \in {"idle", "hello", "await", "restart"} /\ p.session = {}
      /\ ~p.closed => k = Half(0)
  <2> HIDE DEF p, n, k, j
  <2> QED
    BY <1>1, <1>2 DEF PageOf
<1>4. k \in PairHandshake /\ v \in PairHandshake
  BY <1>3, LocalTypes, ShakeTypes
<1>5. shake' = [shake EXCEPT ![s][n] = v] /\ job' = [job EXCEPT ![s] = q]
      /\ starting' = [starting EXCEPT ![s] = @ \ {h}] /\ Sends(s, HelloFrame(n))
      /\ UNCHANGED <<peer, up, fresh>>
  BY <1>3 DEF Started, HelloFrame, channel
<1> HIDE DEF v, q
<1>6. Len(shake'[s]) = n /\ shake'[s][n] = v /\ \A t \in Pages : t # s => shake'[t] = shake[t]
  BY <1>3, <1>4, <1>5, LastChanged
<1>7. job'[s] = q /\ starting'[s] = {} /\ Aside(s)
  BY <1>3, <1>5, <1>6 DEF Aside, Typed, Handlers, Handshakes
<1>8. /\ wire[s] \in Seq(Frame) /\ wire[o] \in Seq(Frame) /\ (wire'[o] = wire[o] \/ up[o])
      /\ wire'[s] = wire[s] /\ (up[o] => wire'[o] = Append(wire[o], HelloFrame(n)))
  BY <1>3, <1>5, WiresPut
<1>9. /\ Hears(q) <=> Hears(j)
      /\ Hears(j) => q.h = j.h
      /\ q = j \/ (q.at = "accept" /\ q.hs = n /\ Hears(j) /\ j.at = "await")
      /\ q.at \notin {"kem", "take", "establish"} /\ j.at \notin {"kem", "take", "establish"}
  <2>1. CASE j.at = "await" /\ j.hs = h
    BY <1>1, <1>3, <2>1 DEF q, Woken, Job, HandingOut, Hears
  <2>2. CASE ~(j.at = "await" /\ j.hs = h)
    BY <1>3, <2>2 DEF q
  <2> QED
    BY <2>1, <2>2
<1>10. /\ z.turn = x.turn /\ ~z.pending /\ z.took = x.took /\ z.acc = x.acc
       /\ z.answered = x.answered /\ z.live = x.live /\ z.dead = x.dead
       /\ x.pending /\ x.turn = n
  <2>1. z.turn = x.turn /\ x.turn = n
    BY <1>3, <1>5, <1>6, LocalTypes DEF View
  <2>2. ~z.pending /\ x.pending
    BY <1>3, <1>5, <1>7 DEF View
  <2>3. z.took = x.took /\ z.acc = x.acc
    BY <1>5, <1>7, <1>9 DEF View
  <2>4. z.answered = x.answered
    BY <1>5, <1>7, <1>9 DEF View
  <2>5. z.live = x.live /\ z.dead = x.dead
    BY <1>5 DEF View
  <2> QED
    BY <2>1, <2>2, <2>3, <2>4, <2>5
<1>11. Sane(x) /\ (up[o] => Sane(View(o)))
  BY <1>3, TwoPages, SaneView DEF Paired
<1>12. ~up[o] => ReceiveOf(z, wire'[s])
  <2> SUFFICES ASSUME ~up[o] PROVE ReceiveOf(z, wire[s])
    BY <1>8
  <2>1. ReceiveOf(x, wire[s])
    BY <1>3 DEF Paired, Rounded
  <2> HIDE DEF x, z
  <2> QED
    BY <1>10, <2>1, ReceivesOwn
<1>13. up[o] => RoundOf(z, View(o), wire'[s], wire'[o])
  <2> SUFFICES ASSUME up[o] PROVE RoundOf(z, View(o), wire[s], Append(wire[o], HelloFrame(n)))
    BY <1>8
  <2>1. RoundOf(x, View(o), wire[s], wire[o]) /\ Sane(View(o))
    BY <1>3, <1>11 DEF Paired, Rounded
  <2> HIDE DEF x, z, o, n
  <2>2. RoundOf(z, View(o), wire[s], Append(wire[o], HelloFrame(x.turn)))
    BY <1>8, <1>10, <1>11, <2>1, SaysHello
  <2> QED
    BY <1>10, <2>2
<1>14. PageOf(s, p, n, v, {}, q, up[s], fresh[s])
  <2>1. ~p.closed => v = k
    <3>1. ~p.closed => k.doomed = FALSE
      BY <1>3 DEF Half
    <3> QED
      BY <3>1 DEF v
  <2>2. p.closed => j = Idle /\ q = Idle
    <3>1. p.closed => j = Idle
      <4> HIDE DEF p, n, k, j
      <4> QED
        BY <1>1 DEF PageOf
    <3> QED
      BY <1>2, <3>1 DEF q
  <2> HIDE DEF p, n, k, j
  <2> QED
    BY <1>1, <1>2, <1>3, <1>9, <2>1, <2>2 DEF PageOf, Shaken, Hears
<1>15. Local(s)'
  BY <1>3, <1>5, <1>6, <1>7, <1>14 DEF Local
<1> QED
  BY <1>3, <1>5, <1>6, <1>7, <1>8, <1>12, <1>13, <1>15, StepPaired

LEMMA AcceptHelloPaired ==
  ASSUME Typed, Paired, NEW s \in Pages, AcceptHello(s)
  PROVE  Paired' /\ \A t \in Pages : Len(shake'[t]) = Len(shake[t])
<1> DEFINE o == Other(s)
           p == peer[s]
           n == Len(shake[s])
           k == shake[s][n]
           j == job[s]
           h == j.h
           y == [p EXCEPT !.accepted = h, !.known = TRUE, !.protocol = Heard(p)]
           x == View(s)
           z == View(s)'
<1>1. /\ PageOf(s, p, n, k, starting[s], j, up[s], fresh[s]) /\ j.at = "accept"
      /\ j \in Job /\ p \in PeerState
  BY LocalTypes DEF Paired, Local, AcceptHello
<1>2. Idle.at = "idle" /\ ~Hears(Idle)
  BY DEF Idle, Hears
<1>3. /\ j.hs = n /\ up[s] /\ ~fresh[s] /\ ~p.closed /\ n # 0 /\ p.accepted = 0 /\ starting[s] = {}
      /\ p.session = {} /\ k = Half(0) /\ h # 0 /\ p.hs = n /\ p.protocol # "refused"
  <2> HIDE DEF p, n, k, j
  <2> QED
    BY <1>1, <1>2 DEF PageOf, Hears, Shaken, h
<1>4. h \in Nat
  BY <1>1, JobCases
<1>5. /\ y.accepted = h /\ y.session = {} /\ y.closed = p.closed /\ y.hs = p.hs /\ y.protocol # "refused"
  BY <1>1, <1>3 DEF PeerState, Heard
<1>6. k.done = FALSE /\ k.got = 0 /\ [k EXCEPT !.to = h] = Half(h) /\ Half(h).got = 0
      /\ Half(h) \in PairHandshake
  BY <1>3, <1>4, Stages DEF Half
<1>7. /\ shake' = [shake EXCEPT ![s][n] = Half(h)] /\ job' = [job EXCEPT ![s] = Idle]
      /\ peer' = [peer EXCEPT ![s] = y] /\ Sends(s, KemFrame(n, h))
      /\ UNCHANGED <<starting, up, fresh>>
  <2>1. /\ Goes(s, n, [k EXCEPT !.to = h]) /\ peer' = [peer EXCEPT ![s] = y]
        /\ Sends(s, KemFrame(n, h)) /\ UNCHANGED <<starting, up, fresh>>
    BY <1>3 DEF AcceptHello, KemFrame, channel
  <2>2. ~k.done /\ shake[s][n] = k
    BY <1>6
  <2> HIDE DEF k, n, h
  <2>3. Goes(s, n, Half(h))
    BY <1>6, <2>1
  <2> QED
    BY <1>6, <2>1, <2>2, <2>3 DEF Goes, Do
<1> HIDE DEF y
<1>8. Len(shake'[s]) = n /\ shake'[s][n] = Half(h) /\ \A t \in Pages : t # s => shake'[t] = shake[t]
  BY <1>3, <1>6, <1>7, LastChanged
<1>9. job'[s] = Idle /\ peer'[s] = y /\ Aside(s)
  BY <1>7, <1>8 DEF Aside, Typed, Handlers, Handshakes
<1>10. /\ wire[s] \in Seq(Frame) /\ wire[o] \in Seq(Frame) /\ (wire'[o] = wire[o] \/ up[o])
       /\ wire'[s] = wire[s] /\ (up[o] => wire'[o] = Append(wire[o], KemFrame(n, h)))
  BY <1>3, <1>7, WiresPut
<1>11. Hears(j) /\ j.at \notin {"kem", "take", "establish"}
  BY <1>1 DEF Hears
<1>12. /\ z.turn = x.turn /\ z.pending = x.pending /\ z.took = x.took /\ z.acc = x.took
       /\ z.answered = x.answered /\ z.live = x.live /\ z.dead = x.dead
       /\ ~x.pending /\ x.turn = n /\ x.took = h /\ x.acc = 0
  <2>1. z.turn = x.turn /\ x.turn = n
    BY <1>3, <1>7, <1>8, LocalTypes DEF View
  <2>2. z.pending = x.pending /\ ~x.pending
    BY <1>3, <1>7 DEF View
  <2>3. z.took = x.took /\ z.acc = x.took /\ x.took = h /\ x.acc = 0
    BY <1>2, <1>3, <1>5, <1>9, <1>11 DEF View
  <2>4. z.answered = x.answered
    BY <1>2, <1>3, <1>5, <1>9, <1>11 DEF View
  <2>5. z.live = x.live /\ z.dead = x.dead
    BY <1>5, <1>7, <1>9 DEF View
  <2> QED
    BY <2>1, <2>2, <2>3, <2>4, <2>5
<1>13. Sane(x) /\ (up[o] => Sane(View(o)))
  BY <1>3, TwoPages, SaneView DEF Paired
<1>14. ~up[o] => ReceiveOf(z, wire'[s])
  <2> SUFFICES ASSUME ~up[o] PROVE ReceiveOf(z, wire[s])
    BY <1>10
  <2>1. ReceiveOf(x, wire[s])
    BY <1>3 DEF Paired, Rounded
  <2> HIDE DEF x, z
  <2> QED
    BY <1>12, <2>1, ReceivesOwn
<1>15. up[o] => RoundOf(z, View(o), wire'[s], wire'[o])
  <2> SUFFICES ASSUME up[o] PROVE RoundOf(z, View(o), wire[s], Append(wire[o], KemFrame(n, h)))
    BY <1>10
  <2>1. RoundOf(x, View(o), wire[s], wire[o]) /\ Sane(View(o))
    BY <1>3, <1>13 DEF Paired, Rounded
  <2> HIDE DEF x, z, o, n, h
  <2>2. RoundOf(z, View(o), wire[s], Append(wire[o], KemFrame(x.turn, x.took)))
    BY <1>3, <1>10, <1>12, <1>13, <2>1, Accepts
  <2> QED
    BY <1>12, <2>2
<1>16. PageOf(s, y, n, Half(h), {}, Idle, up[s], fresh[s])
  <2> HIDE DEF p, n, k, j, h
  <2> QED
    BY <1>1, <1>2, <1>3, <1>5 DEF PageOf, Shaken, Hears
<1>17. Local(s)'
  BY <1>3, <1>7, <1>8, <1>9, <1>16 DEF Local
<1> QED
  BY <1>3, <1>7, <1>8, <1>9, <1>10, <1>14, <1>15, <1>17, StepPaired

LEMMA OverAfter ==
  ASSUME Typed, NEW s \in Pages, NEW p \in PeerState, p.closed = FALSE, StartOver(s, p),
         NEW n, n = Len(shake[s])
  PROVE  /\ Number(s) = n + 1 /\ n \in Nat /\ Len(shake'[s]) = n + 1 /\ shake'[s][n + 1] = Half(0)
         /\ starting'[s] = starting[s] \cup {n + 1}
         /\ peer'[s].hs = n + 1 /\ peer'[s].accepted = 0 /\ peer'[s].session = {}
         /\ peer'[s].protocol \in {"pending", "p4-pending"} /\ peer'[s].closed = FALSE
         /\ \A t \in Pages : t # s => peer'[t] = peer[t] /\ shake'[t] = shake[t]
                                      /\ starting'[t] = starting[t]
<1> DEFINE r == [Restarted(p) EXCEPT !.hs = n + 1]
           w == Wiped(s)
<1>1. Number(s) = n + 1 /\ n \in Nat
  BY LocalTypes DEF Number
<1>2. w \in Seq(PairHandshake) /\ Len(w) = n
  BY WipedTyped DEF Typed
<1>3. /\ peer' = [peer EXCEPT ![s] = r] /\ shake' = [shake EXCEPT ![s] = Append(w, NewShake)]
      /\ starting' = [starting EXCEPT ![s] = @ \cup {n + 1}]
  BY <1>1 DEF StartOver, Begin
<1>4. /\ r.hs = n + 1 /\ r.accepted = 0 /\ r.session = {}
      /\ r.protocol \in {"pending", "p4-pending"} /\ r.closed = FALSE
  BY DEF PeerState, Restarted, Blank
<1>5. NewShake \in PairHandshake /\ NewShake = Half(0)
  BY Stages, ShakeTypes
<1> HIDE DEF r, w
<1>6. Len(Append(w, NewShake)) = n + 1 /\ Append(w, NewShake)[n + 1] = NewShake
  BY <1>2, <1>5, AppendProperties
<1> QED
  BY <1>1, <1>3, <1>4, <1>5, <1>6 DEF Typed, Handshakes

(* A page begins a new round.                                              *)
LEMMA FreshPage ==
  ASSUME NEW s, NEW n, n # 0, NEW p, p.hs = n, p.accepted = 0, p.session = {}, ~p.closed,
         p.protocol \in {"pending", "p4-pending"}, NEW j, NEW u, u, NEW f, ~f,
         j = Idle \/ (j.at = "restart" /\ j.hs = n)
  PROVE  PageOf(s, p, n, Half(0), {n}, j, u, f)
<1>1. Idle.at = "idle"
  BY DEF Idle
<1> QED
  BY <1>1 DEF PageOf, Hears, Shaken

LEMMA OpenPaired ==
  ASSUME Typed, Paired, NEW s \in Pages, OpenChannel(s)
  PROVE  Paired' /\ up[s] /\ fresh[s] /\ ~fresh'[s] /\ Len(shake'[s]) = Len(shake[s]) + 1
         /\ peer'[s].closed = FALSE
         /\ \A t \in Pages : t # s => /\ fresh'[t] = fresh[t] /\ peer'[t] = peer[t]
                                      /\ shake'[t] = shake[t]
<1> DEFINE o == Other(s)
           n == Len(shake[s])
           p == [peer[s] EXCEPT !.closed = FALSE]
           x == View(s)
           z == View(s)'
<1>1. /\ PageOf(s, peer[s], n, shake[s][n], starting[s], job[s], up[s], fresh[s])
      /\ peer[s] \in PeerState /\ up[s] \in BOOLEAN /\ n \in Nat
  BY LocalTypes DEF Paired, Local
<1>2. fresh[s] /\ fresh' = [fresh EXCEPT ![s] = FALSE] /\ UNCHANGED <<up, wire, job, refusals>>
  BY DEF OpenChannel, counters
<1>3. /\ up[s] /\ peer[s].hs = 0 /\ starting[s] = {} /\ job[s] = Idle
      /\ peer[s].accepted = 0 /\ peer[s].session = {}
  <2> HIDE DEF n
  <2> QED
    BY <1>1, <1>2 DEF PageOf
<1>4. p \in PeerState /\ p.closed = FALSE /\ p.hs = 0
  BY <1>1, <1>3 DEF PeerState
<1>5. StartOver(s, p)
  BY <1>4 DEF OpenChannel, Negotiating
<1> HIDE DEF p
<1>6. /\ Len(shake'[s]) = n + 1 /\ shake'[s][n + 1] = Half(0) /\ starting'[s] = {n + 1}
      /\ peer'[s].hs = n + 1 /\ peer'[s].accepted = 0 /\ peer'[s].session = {}
      /\ peer'[s].protocol \in {"pending", "p4-pending"} /\ peer'[s].closed = FALSE
      /\ \A t \in Pages : t # s => peer'[t] = peer[t] /\ shake'[t] = shake[t]
                                   /\ starting'[t] = starting[t]
  <2>1. {} \cup {n + 1} = {n + 1}
    OBVIOUS
  <2> HIDE DEF n
  <2> QED
    BY <1>3, <1>4, <1>5, <2>1, OverAfter DEF n
<1>7. ~fresh'[s] /\ (\A t \in Pages : t # s => fresh'[t] = fresh[t]) /\ Aside(s)
  BY <1>2, <1>6 DEF Aside, Typed, Channels
<1>8. Idle.at = "idle" /\ ~Hears(Idle)
  BY DEF Idle, Hears
<1>9. /\ z.turn = x.turn /\ z.pending = x.pending /\ z.took = x.took /\ z.acc = x.acc
      /\ z.answered = x.answered /\ z.live /\ z.dead = x.dead
  <2>1. z.turn = x.turn
    BY <1>1, <1>2, <1>6, <1>7 DEF View
  <2>2. z.pending /\ x.pending
    BY <1>2, <1>6 DEF View
  <2>3. z.took = x.took /\ z.acc = x.acc
    BY <1>2, <1>3, <1>6, <1>8 DEF View
  <2>4. ~z.answered /\ ~x.answered
    BY <1>2, <1>3, <1>6, <1>8 DEF View
  <2>5. z.live /\ ~z.dead /\ ~x.dead
    BY <1>2, <1>3, <1>6, <1>7 DEF View
  <2>6. z.pending = TRUE /\ x.pending = TRUE /\ z.answered = FALSE /\ x.answered = FALSE
        /\ z.dead = FALSE /\ x.dead = FALSE
    <3>1. /\ z.pending \in BOOLEAN /\ x.pending \in BOOLEAN /\ z.answered \in BOOLEAN
          /\ x.answered \in BOOLEAN /\ z.dead \in BOOLEAN /\ x.dead \in BOOLEAN
      BY DEF View
    <3> HIDE DEF x, z
    <3> QED
      BY <2>2, <2>4, <2>5, <3>1
  <2> HIDE DEF x, z
  <2> QED
    BY <2>1, <2>3, <2>5, <2>6
<1>10. Sane(x) /\ (up[o] => Sane(View(o)))
  BY <1>3, TwoPages, SaneView DEF Paired
<1>11. ~up[o] => ReceiveOf(z, wire'[s])
  <2> SUFFICES ASSUME ~up[o] PROVE ReceiveOf(z, wire[s])
    BY <1>2
  <2>1. ReceiveOf(x, wire[s])
    BY <1>3 DEF Paired, Rounded
  <2> HIDE DEF x, z
  <2> QED
    BY <1>9, <2>1, ReceivesOwn
<1>12. up[o] => RoundOf(z, View(o), wire'[s], wire'[o])
  <2> SUFFICES ASSUME up[o] PROVE RoundOf(z, View(o), wire[s], wire[o])
    BY <1>2
  <2>1. RoundOf(x, View(o), wire[s], wire[o])
    BY <1>3 DEF Paired, Rounded
  <2> HIDE DEF x, z, o
  <2> QED
    BY <1>9, <1>10, <2>1, Opens
<1>13. PageOf(s, peer'[s], n + 1, Half(0), {n + 1}, Idle, up[s], fresh'[s])
  <2>1. n + 1 # 0
    BY <1>1
  <2> HIDE DEF n
  <2> QED
    BY <1>3, <1>6, <1>7, <2>1, FreshPage
<1>14. Local(s)'
  BY <1>2, <1>3, <1>6, <1>13 DEF Local
<1> QED
  BY <1>2, <1>3, <1>6, <1>7, <1>11, <1>12, <1>14, StepPaired

LEMMA TakeKemPaired ==
  ASSUME Typed, Paired, NEW s \in Pages, TakeKem(s)
  PROVE  Paired'
<1> DEFINE o == Other(s)
           p == peer[s]
           n == Len(shake[s])
           k == shake[s][n]
           f == Head(wire[s])
           q == [at |-> "kem", by |-> f.by, for |-> f.for, hs |-> n]
           x == View(s)
           z == View(s)'
<1>1. /\ Next4(s, "kem") /\ ~p.closed /\ wire' = Popped(s)
      /\ UNCHANGED <<peer, shake, starting, up, fresh>>
  BY DEF TakeKem, channel
<1>2. /\ up[s] /\ ~fresh[s] /\ job[s] = Idle /\ wire[s] \in Seq(Frame) /\ wire[s] # <<>>
      /\ f \in Frame /\ f.t = "kem" /\ x.turn = n
      /\ x.took = p.accepted /\ x.dead = p.closed /\ x.answered = (p.session # {})
      /\ Sane(x) /\ (up[o] => Sane(View(o)))
  BY <1>1, TakingPage
<1>3. f.by \in Nat /\ f.for \in Nat /\ f = KemFrame(f.by, f.for)
  BY <1>2 DEF Frame, KemFrame
<1>4. PageOf(s, p, n, k, starting[s], Idle, up[s], fresh[s])
  BY <1>2 DEF Paired, Local
<1>5. n # 0 /\ p.hs = n /\ p.protocol # "refused"
  <2> HIDE DEF p, n, k
  <2> QED
    BY <1>1, <1>2, <1>4 DEF PageOf
<1>6. job' = [job EXCEPT ![s] = q]
  BY <1>5 DEF TakeKem, Do
<1>7. job'[s] = q /\ Aside(s) /\ wire'[s] = Tail(wire[s]) /\ wire'[o] = wire[o]
  BY <1>1, <1>6, WirePopped DEF Aside, Typed, Handlers
<1>8. q.at = "kem" /\ q.by = f.by /\ q.for = f.for /\ q.hs = n /\ ~Hears(q)
      /\ Idle.at = "idle" /\ ~Hears(Idle)
  BY DEF Hears, Idle
<1> HIDE DEF q
<1>9. /\ z.turn = x.turn /\ z.pending = x.pending /\ z.took = x.took /\ z.acc = x.acc
      /\ z.answered /\ z.live = x.live /\ z.dead = x.dead /\ x.acc = p.accepted
  BY <1>1, <1>2, <1>7, <1>8 DEF View
<1>10. ReceiveOf(x, wire[s])
  BY <1>2, RoundReceive, RoundTurned DEF Paired, Rounded
<1> HIDE DEF x, z
<1>11. /\ f.by = p.accepted /\ f.for = n /\ p.accepted # 0 /\ p.session = {}
       /\ ReceiveOf(z, wire'[s])
  <2> HIDE DEF f, p, n
  <2>1. f.by = x.took /\ f.for = x.turn /\ f.by # 0 /\ ~x.answered /\ ReceiveOf(z, Tail(wire[s]))
    BY <1>1, <1>2, <1>3, <1>9, <1>10, ReceivesKem DEF f
  <2> QED
    BY <1>2, <1>7, <2>1
<1>12. up[o] => RoundOf(z, View(o), wire'[s], wire'[o])
  <2> SUFFICES ASSUME up[o] PROVE RoundOf(z, View(o), Tail(wire[s]), wire[o])
    BY <1>7
  <2>1. RoundOf(x, View(o), wire[s], wire[o]) /\ Sane(View(o)) /\ x.acc # 0
    BY <1>2, <1>9, <1>11 DEF Paired, Rounded, x
  <2> HIDE DEF o, p, n, f
  <2> QED
    BY <1>1, <1>2, <1>3, <1>9, <2>1, TakesKem DEF f
<1>13. PageOf(s, p, n, k, starting[s], q, up[s], fresh[s])
  <2> HIDE DEF p, n, k, f
  <2> QED
    BY <1>1, <1>2, <1>4, <1>5, <1>8, <1>11 DEF PageOf, Shaken
<1>14. Local(s)'
  BY <1>1, <1>2, <1>7, <1>13 DEF Local
<1> QED
  BY <1>1, <1>2, <1>7, <1>11, <1>12, <1>14, StepPaired DEF z

(* We reset.                                                               *)
LEMMA ResetPaired ==
  ASSUME Typed, Paired, NEW s \in Pages, job[s].at = "open", ResetByUs(s), UNCHANGED <<up, fresh>>
  PROVE  /\ Paired'
         /\ Len(shake'[s]) = Len(shake[s]) + 1 /\ wire'[s] = wire[s] /\ peer'[s].closed = FALSE
         /\ \A t \in Pages : t # s => peer'[t] = peer[t] /\ shake'[t] = shake[t]
<1> DEFINE o == Other(s)
           n == Len(shake[s])
           q == [at |-> "restart", hs |-> n + 1]
           x == View(s)
           z == View(s)'
<1>1. /\ peer[s].session # {} /\ peer[s].accepted # 0 /\ starting[s] = {}
      /\ up[s] /\ ~fresh[s] /\ ~peer[s].closed /\ x.answered /\ x.turn = n
  BY InSession
<1>2. peer[s] \in PeerState /\ peer[s].closed = FALSE /\ n \in Nat
  BY <1>1, LocalTypes DEF PeerState
<1>3. StartOver(s, peer[s]) /\ Sends(s, ResetFrame)
  BY DEF ResetByUs, ResetFrame
<1>4. /\ Number(s) = n + 1 /\ Len(shake'[s]) = n + 1 /\ shake'[s][n + 1] = Half(0)
      /\ starting'[s] = {n + 1}
      /\ peer'[s].hs = n + 1 /\ peer'[s].accepted = 0 /\ peer'[s].session = {}
      /\ peer'[s].protocol \in {"pending", "p4-pending"} /\ peer'[s].closed = FALSE
      /\ \A t \in Pages : t # s => peer'[t] = peer[t] /\ shake'[t] = shake[t]
                                   /\ starting'[t] = starting[t]
  <2>1. {} \cup {n + 1} = {n + 1}
    OBVIOUS
  <2> HIDE DEF n
  <2> QED
    BY <1>1, <1>2, <1>3, <2>1, OverAfter DEF n
<1>5. job' = [job EXCEPT ![s] = q]
  BY <1>4 DEF ResetByUs, Do
<1>6. job'[s] = q /\ Aside(s)
  BY <1>4, <1>5 DEF Aside, Typed, Handlers
<1>7. /\ wire[s] \in Seq(Frame) /\ wire[o] \in Seq(Frame) /\ (wire'[o] = wire[o] \/ up[o])
      /\ wire'[s] = wire[s] /\ (up[o] => wire'[o] = Append(wire[o], ResetFrame))
  BY <1>1, <1>3, WiresPut
<1>8. q.at = "restart" /\ q.hs = n + 1 /\ ~Hears(q)
  BY DEF Hears
<1> HIDE DEF q
<1>9. /\ z.turn = x.turn + 1 /\ z.pending /\ z.took = 0 /\ z.acc = 0
      /\ ~z.answered /\ z.live /\ ~z.dead
  <2>1. z.turn = x.turn + 1
    BY <1>1, <1>2, <1>4 DEF View
  <2>2. z.pending /\ z.took = 0 /\ z.acc = 0
    BY <1>4, <1>6, <1>8 DEF View
  <2>3. ~z.answered
    BY <1>4, <1>6, <1>8 DEF View
  <2>4. z.live /\ ~z.dead
    BY <1>1, <1>4 DEF View
  <2> QED
    BY <2>1, <2>2, <2>3, <2>4
<1>10. Sane(x) /\ (up[o] => Sane(View(o)))
  BY <1>1, TwoPages, SaneView DEF Paired
<1>11. ~up[o] => ReceiveOf(z, wire'[s])
  <2> SUFFICES ASSUME ~up[o] PROVE ReceiveOf(z, wire[s])
    BY <1>7
  <2>1. ReceiveOf(x, wire[s])
    BY <1>1 DEF Paired, Rounded
  <2> HIDE DEF x, z
  <2> QED
    BY <1>1, <1>9, <1>10, <2>1, ReceivesAfterReset
<1>12. up[o] => RoundOf(z, View(o), wire'[s], wire'[o])
  <2> SUFFICES ASSUME up[o] PROVE RoundOf(z, View(o), wire[s], Append(wire[o], ResetFrame))
    BY <1>7
  <2>1. RoundOf(x, View(o), wire[s], wire[o]) /\ Sane(View(o))
    BY <1>1, <1>10 DEF Paired, Rounded
  <2> HIDE DEF x, z, o, n
  <2> QED
    BY <1>1, <1>7, <1>9, <1>10, <2>1, Resets
<1>13. PageOf(s, peer'[s], n + 1, Half(0), {n + 1}, q, up[s], fresh[s])
  <2>1. n + 1 # 0
    BY <1>2
  <2> HIDE DEF n
  <2> QED
    BY <1>1, <1>4, <1>8, <2>1, FreshPage
<1>14. Local(s)'
  BY <1>1, <1>4, <1>6, <1>13 DEF Local
<1> QED
  BY <1>1, <1>4, <1>6, <1>7, <1>11, <1>12, <1>14, StepPaired

LEMMA FailPaired ==
  ASSUME Typed, Paired, NEW s \in Pages, FailFrame(s)
  PROVE  Paired'
BY ResetPaired, PassedPaired DEF FailFrame, channel

LEMMA TakeResetPaired ==
  ASSUME Typed, Paired, NEW s \in Pages, TakeReset(s)
  PROVE  Paired'
<1> DEFINE o == Other(s)
           n == Len(shake[s])
           k == shake[s][n]
           p == [peer[s] EXCEPT !.warned = TRUE]
           x == View(s)
           z == View(s)'
<1>1. Next4(s, "reset") /\ ~peer[s].closed /\ wire' = Popped(s) /\ UNCHANGED <<up, fresh>>
  BY DEF TakeReset, channel
<1>2. /\ up[s] /\ ~fresh[s] /\ job[s] = Idle /\ wire[s] \in Seq(Frame) /\ wire[s] # <<>>
      /\ Head(wire[s]) \in Frame /\ Head(wire[s]).t = "reset" /\ x.turn = n
      /\ x.took = peer[s].accepted /\ x.dead = peer[s].closed /\ x.answered = (peer[s].session # {})
      /\ Sane(x) /\ (up[o] => Sane(View(o)))
  BY <1>1, TakingPage
<1>3. Head(wire[s]) = ResetFrame /\ wire'[s] = Tail(wire[s]) /\ wire'[o] = wire[o]
  BY <1>1, <1>2, WirePopped DEF Frame, ResetFrame
<1>4. PageOf(s, peer[s], n, k, starting[s], Idle, up[s], fresh[s])
  BY <1>2 DEF Paired, Local
<1>5. /\ peer[s] \in PeerState /\ n \in Nat /\ Idle.at = "idle" /\ ~Hears(Idle)
      /\ peer[s].closed = FALSE
  BY <1>1, LocalTypes DEF Idle, Hears, PeerState
<1>6. n # 0 /\ peer[s].hs = n /\ (peer[s].session # {} => starting[s] = {}) /\ starting[s] \subseteq {n}
  <2> HIDE DEF n, k
  <2> QED
    BY <1>1, <1>2, <1>4 DEF PageOf
<1>7. /\ p \in PeerState /\ p.closed = FALSE /\ p.hs = peer[s].hs /\ p.accepted = peer[s].accepted
      /\ p.session = peer[s].session /\ p.protocol = peer[s].protocol
  BY <1>5 DEF PeerState
<1>8. ReceiveOf(x, wire[s])
  BY <1>2, RoundReceive, RoundTurned DEF Paired, Rounded
<1>9. up[o] => RoundOf(x, View(o), wire[s], wire[o])
  BY <1>2 DEF Paired, Rounded
<1>10. ~x.dead
  BY <1>1, <1>2
<1>11. CASE peer[s].warned
  <2> DEFINE y == [Blank(p) EXCEPT !.closed = TRUE, !.protocol = "refused"]
             w == Wiped(s)
  <2>1. y.hs = 0 /\ y.accepted = 0 /\ y.session = {} /\ y.closed = TRUE
    BY <1>7 DEF PeerState, Blank
  <2>2. Len(w) = n
    BY WipedTyped DEF Typed
  <2>3. peer' = [peer EXCEPT ![s] = y] /\ shake' = [shake EXCEPT ![s] = w] /\ UNCHANGED <<starting, job>>
    BY <1>11 DEF TakeReset
  <2> HIDE DEF y, w
  <2>4. peer'[s] = y /\ shake'[s] = w /\ Aside(s)
    BY <1>1, <2>3 DEF Aside, Typed, Handshakes
  <2>5. /\ z.turn = x.turn /\ z.pending = x.pending /\ z.took = 0 /\ z.acc = 0
        /\ ~z.answered /\ ~z.live /\ z.dead
    BY <1>1, <1>2, <1>5, <2>1, <2>2, <2>3, <2>4 DEF View
  <2> HIDE DEF x, z
  <2>6. ReceiveOf(z, wire'[s])
    BY <2>5 DEF ReceiveOf
  <2>7. up[o] => RoundOf(z, View(o), wire'[s], wire'[o])
    BY <1>2, <1>3, <1>9, <1>10, <2>5, ResetCloses
  <2>8. PageOf(s, y, n, w[n], starting[s], Idle, up[s], fresh[s])
    <3> HIDE DEF n
    <3> QED
      BY <1>2, <1>4, <1>5, <1>6, <2>1 DEF PageOf, Shaken
  <2>9. Local(s)'
    BY <1>1, <1>2, <2>2, <2>3, <2>4, <2>8 DEF Local
  <2> QED
    BY <1>1, <1>2, <1>3, <2>4, <2>6, <2>7, <2>9, StepPaired DEF z
<1>12. CASE ~peer[s].warned /\ peer[s].session = {}
  <2>1. StartsOver(p)
    BY <1>6, <1>7, <1>12 DEF StartsOver
  <2> HIDE DEF p
  <2>2. peer' = [peer EXCEPT ![s] = p] /\ UNCHANGED <<shake, starting, job>>
    BY <1>12, <2>1 DEF TakeReset, p
  <2>3. peer'[s] = p /\ Aside(s)
    BY <1>1, <2>2 DEF Aside, Typed, Handshakes
  <2>4. z = x
    BY <1>1, <1>7, <2>2, <2>3 DEF View
  <2>5. ~x.answered
    BY <1>2, <1>12
  <2> HIDE DEF x, z
  <2>6. ReceiveOf(z, wire'[s])
    BY <1>2, <1>3, <1>8, <1>10, <2>4, <2>5, ReceivesReset
  <2>7. up[o] => RoundOf(z, View(o), wire'[s], wire'[o])
    BY <1>2, <1>3, <1>9, <1>10, <2>4, <2>5, ResetIgnored
  <2>8. PageOf(s, p, n, k, starting[s], Idle, up[s], fresh[s])
    <3> HIDE DEF n, k
    <3> QED
      BY <1>1, <1>4, <1>7 DEF PageOf
  <2>9. Local(s)'
    BY <1>1, <1>2, <2>2, <2>3, <2>8 DEF Local
  <2> QED
    BY <1>1, <1>2, <1>3, <2>3, <2>6, <2>7, <2>9, StepPaired DEF z
<1>13. CASE ~peer[s].warned /\ peer[s].session # {}
  <2> DEFINE q == [at |-> "restart", hs |-> n + 1]
  <2>1. ~StartsOver(p)
    BY <1>7, <1>13 DEF StartsOver
  <2> HIDE DEF p
  <2>2. StartOver(s, p) /\ Do(s, [at |-> "restart", hs |-> Number(s)])
    BY <1>13, <2>1 DEF TakeReset, p
  <2>3. /\ Number(s) = n + 1 /\ Len(shake'[s]) = n + 1 /\ shake'[s][n + 1] = Half(0)
        /\ starting'[s] = {n + 1}
        /\ peer'[s].hs = n + 1 /\ peer'[s].accepted = 0 /\ peer'[s].session = {}
        /\ peer'[s].protocol \in {"pending", "p4-pending"} /\ peer'[s].closed = FALSE
        /\ \A t \in Pages : t # s => peer'[t] = peer[t] /\ shake'[t] = shake[t]
                                     /\ starting'[t] = starting[t]
    <3>1. {} \cup {n + 1} = {n + 1}
      OBVIOUS
    <3> HIDE DEF n
    <3> QED
      BY <1>6, <1>7, <1>13, <2>2, <3>1, OverAfter DEF n
  <2>4. job' = [job EXCEPT ![s] = q]
    BY <2>2, <2>3 DEF Do
  <2>5. job'[s] = q /\ Aside(s)
    BY <1>1, <2>3, <2>4 DEF Aside, Typed, Handlers
  <2>6. q.at = "restart" /\ q.hs = n + 1 /\ ~Hears(q)
    BY DEF Hears
  <2> HIDE DEF q
  <2>7. /\ z.turn = x.turn + 1 /\ z.pending /\ z.took = 0 /\ z.acc = 0
        /\ ~z.answered /\ z.live /\ ~z.dead
    <3>1. z.turn = x.turn + 1
      BY <1>1, <1>2, <1>5, <2>3 DEF View
    <3>2. z.pending /\ z.took = 0 /\ z.acc = 0
      BY <2>3, <2>5, <2>6 DEF View
    <3>3. ~z.answered
      BY <2>3, <2>5, <2>6 DEF View
    <3>4. z.live /\ ~z.dead
      BY <1>1, <1>2, <2>3 DEF View
    <3> QED
      BY <3>1, <3>2, <3>3, <3>4
  <2>8. x.answered
    BY <1>2, <1>13
  <2> HIDE DEF x, z
  <2>9. ReceiveOf(z, wire'[s])
    BY <1>2, <1>3, <1>8, <1>10, <2>7, <2>8, ReceivesReset
  <2>10. up[o] => RoundOf(z, View(o), wire'[s], wire'[o])
    BY <1>2, <1>3, <1>9, <2>7, <2>8, ResetAnswered
  <2>11. PageOf(s, peer'[s], n + 1, Half(0), {n + 1}, q, up[s], fresh[s])
    <3>1. n + 1 # 0
      BY <1>5
    <3> HIDE DEF n
    <3> QED
      BY <1>2, <2>3, <2>6, <3>1, FreshPage
  <2>12. Local(s)'
    BY <1>1, <1>2, <2>3, <2>5, <2>11 DEF Local
  <2> QED
    BY <1>1, <1>2, <1>3, <2>5, <2>9, <2>10, <2>12, StepPaired DEF z
<1> QED
  BY <1>11, <1>12, <1>13

(* The channel is lost, or there is a new one.                             *)
LEMMA DropPaired ==
  ASSUME ~Straddle, Typed, Paired, NEW s \in Pages, Drop(s)
  PROVE  Paired'
<1> DEFINE o == Other(s)
           n == Len(shake[s])
           y == [Blank(peer[s]) EXCEPT !.protocol = "pending"]
           w == Wiped(s)
<1>1. /\ up[s] /\ job[s] = Idle /\ starting[s] = {} /\ UNCHANGED <<starting, job>>
      /\ up' = [up EXCEPT ![s] = FALSE] /\ fresh' = [fresh EXCEPT ![s] = FALSE]
      /\ wire' = [wire EXCEPT ![s] = SubSeq(wire[s], 1, 0)]
      /\ shake' = [shake EXCEPT ![s] = w] /\ peer' = [peer EXCEPT ![s] = y]
  <2>1. 0 .. (IF Straddle THEN Len(wire[s]) ELSE 0) = {0}
    OBVIOUS
  <2>2. PICK m \in 0 .. (IF Straddle THEN Len(wire[s]) ELSE 0) :
               wire' = [wire EXCEPT ![s] = SubSeq(@, 1, m)]
    BY DEF Drop
  <2>3. m = 0
    BY <2>1, <2>2
  <2> QED
    BY <2>2, <2>3 DEF Drop
<1>2. peer[s] \in PeerState
  BY LocalTypes
<1>3. y.hs = 0 /\ y.accepted = 0 /\ y.session = {} /\ y.protocol = "pending"
  BY <1>2 DEF PeerState, Blank
<1>4. SubSeq(wire[s], 1, 0) = <<>>
  <2>1. SubSeq(wire[s], 1, 0) \in Seq(Frame) /\ Len(SubSeq(wire[s], 1, 0)) = 0
    BY SubSeqProperties, LocalTypes
  <2> QED
    BY <2>1, EmptySeq
<1> HIDE DEF y, w
<1>5. /\ ~up'[s] /\ ~fresh'[s] /\ wire'[s] = <<>> /\ shake'[s] = w /\ peer'[s] = y
      /\ wire'[o] = wire[o] /\ job'[s] = Idle /\ starting'[s] = {}
  BY <1>1, <1>4, TwoPages DEF Typed, Handshakes, Channels
<1>6. Aside(s)
  BY <1>1 DEF Aside, Typed, Handshakes, Channels
<1>7. Idle.at = "idle"
  BY DEF Idle
<1>8. PageOf(s, y, Len(w), w[Len(w)], {}, Idle, FALSE, FALSE)
  BY <1>3, <1>7 DEF PageOf, Hears, Shaken
<1>9. up'[s] = FALSE /\ fresh'[s] = FALSE
  BY <1>1 DEF Typed, Channels
<1>10. Local(s)'
  BY <1>5, <1>8, <1>9 DEF Local
<1>11. Rounded(s)'
  BY <1>5 DEF Rounded
<1>12. o \in Pages /\ o # s /\ Other(o) = s /\ \A t \in Pages : t = s \/ t = o
  BY TwoPages
<1>13. Local(o)' /\ View(o)' = View(o) /\ up'[o] = up[o]
  BY <1>5, <1>6, <1>12, AsideKeeps DEF Paired, Aside
<1>14. up[o] => ReceiveOf(View(o), wire[o])
  <2> SUFFICES ASSUME up[o] PROVE ReceiveOf(View(o), wire[o])
    OBVIOUS
  <2>1. RoundOf(View(s), View(o), wire[s], wire[o])
    BY <1>1 DEF Paired, Rounded
  <2>2. Sane(View(s)) /\ Sane(View(o))
    BY <1>1, <1>12, SaneView DEF Paired
  <2> QED
    BY <2>1, <2>2, RoundReceive
<1>15. Rounded(o)'
  BY <1>5, <1>12, <1>13, <1>14 DEF Rounded
<1> HIDE DEF o
<1> QED
  BY <1>10, <1>11, <1>12, <1>13, <1>15 DEF Paired

LEMMA ConnectPaired ==
  ASSUME Typed, Paired, Connect
  PROVE  Paired'
<1> SUFFICES ASSUME NEW s \in Pages PROVE Local(s)' /\ Rounded(s)'
  BY DEF Paired
<1> DEFINE o == Other(s)
<1>1. \A t \in Pages :
        /\ ~up[t] /\ job[t] = Idle /\ wire[t] = <<>> /\ starting[t] = {}
        /\ up'[t] = TRUE /\ fresh'[t] = TRUE
        /\ peer'[t] = peer[t] /\ shake'[t] = shake[t] /\ starting'[t] = starting[t]
        /\ wire'[t] = wire[t] /\ job'[t] = job[t]
  BY DEF Connect
<1>2. o \in Pages
  BY TwoPages
<1>3. Idle.at = "idle" /\ ~Hears(Idle)
  BY DEF Idle, Hears
<1>4. Local(s)'
  <2> DEFINE p == peer[s]
             n == Len(shake[s])
             k == shake[s][n]
  <2>1. PageOf(s, p, n, k, {}, Idle, up[s], fresh[s])
    BY <1>1 DEF Paired, Local
  <2>2. PageOf(s, p, n, k, {}, Idle, TRUE, TRUE)
    <3> HIDE DEF p, n, k
    <3> QED
      BY <1>1, <1>3, <2>1 DEF PageOf, Shaken
  <2> QED
    BY <1>1, <2>2 DEF Local
<1>5. ASSUME NEW t \in Pages
      PROVE  /\ View(t)'.pending /\ View(t)'.took = 0 /\ View(t)'.acc = 0 /\ ~View(t)'.answered
             /\ wire'[t] = <<>>
  <2>1. PageOf(t, peer[t], Len(shake[t]), shake[t][Len(shake[t])], {}, Idle, up[t], fresh[t])
    BY <1>1 DEF Paired, Local
  <2>2. peer[t].accepted = 0 /\ peer[t].session = {}
    BY <1>1, <2>1 DEF PageOf
  <2> QED
    BY <1>1, <1>3, <2>2 DEF View
<1>6. Shape(<<>>, <<>>)
  BY ShapeEmpty
<1>7. WayOf(View(s)', View(o)', wire'[o]) /\ WayOf(View(o)', View(s)', wire'[s])
  <2> DEFINE x == View(s)'
             y == View(o)'
  <2>1. /\ x.pending /\ x.took = 0 /\ y.pending /\ y.took = 0 /\ wire'[s] = <<>> /\ wire'[o] = <<>>
    BY <1>2, <1>5
  <2> HIDE DEF x, y
  <2>2. WayOf(x, y, <<>>) /\ WayOf(y, x, <<>>)
    BY <1>6, <2>1 DEF WayOf
  <2> QED
    BY <2>1, <2>2 DEF x, y
<1>8. RoundOf(View(s)', View(o)', wire'[s], wire'[o])
  BY <1>7 DEF RoundOf, SameOf
<1>9. Rounded(s)'
  BY <1>1, <1>2, <1>8 DEF Rounded
<1> QED
  BY <1>4, <1>9

LEMMA InitPaired == Init => Paired
<1> SUFFICES ASSUME Init, NEW s \in Pages PROVE Local(s) /\ Rounded(s)
  BY DEF Paired
<1>1. /\ peer[s] = NewPeer /\ shake[s] = <<>> /\ starting[s] = {} /\ up[s] = FALSE
      /\ fresh[s] = FALSE /\ wire[s] = <<>> /\ job[s] = Idle
  BY DEF Init
<1>2. /\ NewPeer.hs = 0 /\ NewPeer.accepted = 0 /\ NewPeer.session = {}
      /\ NewPeer.protocol = "pending" /\ Idle.at = "idle"
  BY DEF NewPeer, Idle
<1>3. PageOf(s, NewPeer, Len(<<>>), <<>>[Len(<<>>)], {}, Idle, FALSE, FALSE)
  BY <1>2 DEF PageOf, Hears, Shaken
<1> QED
  BY <1>1, <1>3 DEF Local, Rounded

LEMMA NextPaired ==
  ASSUME ~Straddle, Typed, Paired, [Next]_vars
  PROVE  Paired'
<1>1. CASE UNCHANGED vars \/ Rest
  <2>1. UNCHANGED <<peer, shake, starting, up, fresh, wire, job>>
    BY <1>1 DEF vars, Rest
  <2>2. PICK s \in Pages : TRUE
    BY PairAssumption
  <2> QED
    BY <2>1, <2>2, WireCalm, SameCalm
<1>2. CASE Connect
  BY <1>2, ConnectPaired
<1>3. ASSUME NEW s \in Pages,
             OpenChannel(s) \/ Drop(s) \/ IgnoreClosed(s)
               \/ (\E h \in starting[s] : Started(s, h))
               \/ TakeHello(s) \/ DecideHello(s) \/ AwaitedHello(s) \/ AcceptHello(s)
      PROVE  Paired'
  BY <1>3, OpenPaired, DropPaired, IgnoredPaired, StartedPaired, TakeHelloPaired, DecidePaired,
     AwaitedPaired, AcceptHelloPaired
<1>4. ASSUME NEW s \in Pages,
             TakeKem(s) \/ AwaitedKem(s) \/ AcceptKem(s) \/ Establish(s)
               \/ HandOut(s) \/ HandedOut(s) \/ SealRoom(s) \/ SendChain(s) \/ Seal(s) \/ SendRoom(s)
      PROVE  Paired'
  BY <1>4, TakeKemPaired, AwaitedPaired, AcceptKemPaired, EstablishPaired, HandledPaired, RoomPaired
<1>5. ASSUME NEW s \in Pages,
             TakeFrame(s) \/ OpenFrame(s) \/ FailFrame(s)
               \/ TakeReset(s) \/ StartedOver(s) \/ WindowPasses(s) \/ TakeRoom(s)
      PROVE  Paired'
  BY <1>5, TakenFramePaired, HandledPaired, FailPaired, TakeResetPaired, WindowPaired
<1> QED
  BY <1>1, <1>2, <1>3, <1>4, <1>5 DEF Next

----------------------------------------------------------------------------
(* Nothing on either wire: both pages are through with the round.          *)
LEMMA RoundEnds ==
  ASSUME NEW x, NEW y, Sane(x), Sane(y), RoundOf(x, y, <<>>, <<>>),
         ~x.pending, ~y.pending, ~x.dead, ~y.dead, x.took = x.acc, y.took = y.acc
  PROVE  /\ x.acc = y.turn /\ x.took = y.turn /\ x.answered
         /\ y.acc = x.turn /\ y.took = x.turn /\ y.answered
<1>1. /\ x.turn \in Nat \ {0} /\ y.turn \in Nat \ {0}
      /\ (x.acc # 0 => x.took = x.acc) /\ (y.acc # 0 => y.took = y.acc)
      /\ (x.answered => x.acc # 0) /\ (y.answered => y.acc # 0)
      /\ x.acc \in Nat /\ y.acc \in Nat
  BY DEF Sane, PageView
<1>2. /\ \A a \in Frame : ~Shape(<<>>, <<a>>)
      /\ \A a, b \in Frame : ~Shape(<<>>, <<a, b>>)
      /\ \A a, b, c \in Frame : ~Shape(<<>>, <<a, b, c>>)
  <2>1. \A c \in Seq(Frame) : Shape(<<>>, c) => c = <<>>
    BY ShapeEmpty
  <2>2. ASSUME NEW a \in Frame PROVE <<a>> \in Seq(Frame) /\ <<a>> # <<>>
    BY EmptySeq, LenProperties
  <2>3. ASSUME NEW a \in Frame, NEW b \in Frame
        PROVE  <<a, b>> \in Seq(Frame) /\ <<a, b>> # <<>>
    BY EmptySeq, LenProperties
  <2>4. ASSUME NEW a \in Frame, NEW b \in Frame, NEW c \in Frame
        PROVE  <<a, b, c>> \in Seq(Frame) /\ <<a, b, c>> # <<>>
    BY EmptySeq, LenProperties
  <2> QED
    BY <2>1, <2>2, <2>3, <2>4
<1> DEFINE r == ResetFrame
           hx == HelloFrame(x.turn)
           hy == HelloFrame(y.turn)
           kxy == KemFrame(x.turn, y.turn)
           kyx == KemFrame(y.turn, x.turn)
           ky == KemFrame(y.acc, y.turn)
           kx == KemFrame(x.acc, x.turn)
<1>3. r \in Frame /\ hx \in Frame /\ hy \in Frame /\ kxy \in Frame /\ kyx \in Frame
      /\ ky \in Frame /\ kx \in Frame
  BY <1>1, ControlFrames
<1> HIDE DEF r, hx, hy, kxy, kyx, ky, kx
<1>4. ~AheadOf(x, y, <<>>, <<>>) /\ ~AheadOf(y, x, <<>>, <<>>)
  BY <1>2, <1>3 DEF AheadOf, r, hx, hy, kx, ky
<1>5. WayOf(x, y, <<>>) /\ WayOf(y, x, <<>>)
  BY <1>4 DEF RoundOf, SameOf
<1>6. \/ y.took = x.turn /\ ~y.answered /\ x.acc = 0
      \/ y.took = x.turn /\ y.answered /\ x.acc # 0
  BY <1>2, <1>3, <1>5 DEF WayOf, r, hx, kxy
<1>7. \/ x.took = y.turn /\ ~x.answered /\ y.acc = 0
      \/ x.took = y.turn /\ x.answered /\ y.acc # 0
  BY <1>2, <1>3, <1>5 DEF WayOf, r, hy, kyx
<1>8. x.acc # 0 /\ y.acc # 0
  BY <1>1, <1>6, <1>7
<1>9. y.took = x.turn /\ x.took = y.turn
  BY <1>6, <1>7
<1>10. x.answered /\ y.answered
  BY <1>6, <1>7, <1>8
<1> QED
  BY <1>9, <1>10

LEMMA QuietSettled ==
  ASSUME Typed, Paired
  PROVE  QuietMeansSession
<1> SUFFICES ASSUME Quiet, \A s \in Pages : ~peer[s].closed, NEW s \in Pages
             PROVE  peer[s].session # {} /\ peer[s].session = peer[Other(s)].session
  BY DEF QuietMeansSession
<1> DEFINE o == Other(s)
           x == View(s)
           y == View(o)
           n == Len(shake[s])
           m == Len(shake[o])
<1>1. o \in Pages /\ Other(o) = s
  BY TwoPages
<1>2. Sane(x) /\ Sane(y)
  BY <1>1, SaneView DEF Paired, Quiet
<1>3. RoundOf(x, y, <<>>, <<>>)
  BY <1>1 DEF Paired, Rounded, Quiet
<1>4. Idle.at = "idle" /\ ~Hears(Idle)
  BY DEF Idle, Hears
<1>5. ASSUME NEW t \in Pages
      PROVE  /\ View(t).turn = Len(shake[t]) /\ ~View(t).pending /\ ~View(t).dead
             /\ View(t).took = peer[t].accepted /\ View(t).acc = peer[t].accepted
             /\ View(t).answered = (peer[t].session # {})
  <2>1. Len(shake[t]) \in Nat
    BY LocalTypes
  <2>2. /\ job[t] = Idle /\ ~fresh[t] /\ starting[t] = {} /\ up[t] /\ ~peer[t].closed
    BY DEF Quiet
  <2> DEFINE v == View(t)
  <2>3. /\ v.turn = Len(shake[t]) + (IF fresh[t] THEN 1 ELSE 0)
        /\ v.pending = (fresh[t] \/ starting[t] # {})
        /\ v.took = IF Hears(job[t]) THEN job[t].h ELSE peer[t].accepted
        /\ v.acc = peer[t].accepted
        /\ v.answered = (peer[t].session # {} \/ job[t].at \in {"kem", "take", "establish"})
        /\ v.dead = (up[t] /\ ~fresh[t] /\ peer[t].closed)
    BY ViewFields
  <2> HIDE DEF v
  <2>4. v.turn = Len(shake[t])
    BY <2>1, <2>2, <2>3
  <2>5. ~v.pending /\ ~v.dead
    BY <2>2, <2>3
  <2>6. v.took = peer[t].accepted /\ v.acc = peer[t].accepted
    BY <1>4, <2>2, <2>3
  <2>7. v.answered = (peer[t].session # {})
    BY <1>4, <2>2, <2>3
  <2> QED
    BY <2>4, <2>5, <2>6, <2>7 DEF v
<1>6. ASSUME NEW t \in Pages, peer[t].session # {}
      PROVE  peer[t].session = Joint(t, Len(shake[t]), peer[t].accepted)
  BY <1>6 DEF Paired, Local, PageOf
<1>7. /\ x.turn = n /\ ~x.pending /\ ~x.dead /\ x.took = peer[s].accepted
      /\ x.acc = peer[s].accepted /\ x.answered = (peer[s].session # {})
      /\ y.turn = m /\ ~y.pending /\ ~y.dead /\ y.took = peer[o].accepted
      /\ y.acc = peer[o].accepted /\ y.answered = (peer[o].session # {})
  BY <1>1, <1>5
<1> HIDE DEF x, y
<1>8. x.acc = y.turn /\ x.answered /\ y.acc = x.turn /\ y.answered
  BY <1>2, <1>3, <1>7, RoundEnds
<1>9. peer[s].session # {} /\ peer[o].session # {} /\ peer[s].accepted = m /\ peer[o].accepted = n
  BY <1>7, <1>8
<1>10. peer[s].session = Joint(s, n, m) /\ peer[o].session = Joint(o, m, n)
  BY <1>1, <1>6, <1>9
<1>11. Joint(s, n, m) = Joint(o, m, n)
  BY <1>1 DEF Joint
<1> QED
  BY <1>9, <1>10, <1>11

(* When nothing is under way on an open channel whose handlers end with    *)
(* it, both pages are in the one session their hellos and answers make, or *)
(* one gave the other up (onHello, onKem, reset in p4-session.ts).         *)
THEOREM QuietAlwaysMeansSession ==
  ASSUME ~Straddle
  PROVE  Spec => []QuietMeansSession
<1>1. Init => Paired
  BY InitPaired
<1>2. Typed /\ Paired /\ [Next]_vars => Paired'
  BY NextPaired
<1>3. Spec => []Typed
  BY AlwaysTyped
<1>4. Typed /\ Paired => QuietMeansSession
  BY QuietSettled
<1> QED
  BY <1>1, <1>2, <1>3, <1>4, PTL DEF Spec

----------------------------------------------------------------------------
(* Hellos do not chase each other.  A page has one in hand for a channel   *)
(* that opens, that broke or is about to, and for a reset on its way; each *)
(* handshake it begins takes one of these.                                 *)
HasReset(w) == \E i \in DOMAIN w : w[i].t = "reset"
Broken(s) == ~up[s] \/ ~up[Other(s)] \/ GaveUp(s) \/ GaveUp(Other(s))
Opening(s) == IF fresh[s] THEN 1 ELSE 0
Reopening(s) == IF Broken(s) THEN 1 ELSE 0
Resetting(s) == IF HasReset(wire[s]) THEN 1 ELSE 0
Spent(s) == Len(shake[s]) + Opening(s) + Reopening(s) + Resetting(s) + Resetting(Other(s))
Granted(s) == drops + 1 + 2 * (refusals[s] + refusals[Other(s)])
Counted == \A s \in Pages : Spent(s) <= Granted(s)

LEMMA ResetPut ==
  ASSUME NEW w \in Seq(Frame), NEW f \in Frame, f.t # "reset", HasReset(Append(w, f))
  PROVE  HasReset(w)
<1> DEFINE v == Append(w, f)
<1>1. /\ DOMAIN v = 1 .. Len(w) + 1 /\ v[Len(w) + 1] = f /\ Len(w) \in Nat
      /\ \A i \in 1 .. Len(w) : v[i] = w[i]
      /\ DOMAIN w = 1 .. Len(w)
  BY AppendProperties, LenProperties
<1>2. PICK i \in DOMAIN v : v[i].t = "reset"
  BY DEF HasReset
<1> HIDE DEF v
<1>3. i \in DOMAIN w /\ w[i].t = "reset"
  BY <1>1, <1>2
<1> QED
  BY <1>3 DEF HasReset

LEMMA ResetTaken ==
  ASSUME NEW w \in Seq(Frame), w # <<>>, HasReset(Tail(w))
  PROVE  HasReset(w)
<1> DEFINE v == Tail(w)
<1>1. /\ DOMAIN w = 1 .. Len(w) /\ Len(w) \in Nat \ {0} /\ v \in Seq(Frame)
      /\ Len(v) = Len(w) - 1 /\ \A i \in 1 .. Len(v) : v[i] = w[i + 1]
  BY LenProperties, EmptySeq, HeadTailProperties
<1>2. DOMAIN v = 1 .. Len(v)
  BY <1>1, LenProperties
<1>3. PICK i \in DOMAIN v : v[i].t = "reset"
  BY DEF HasReset
<1> HIDE DEF v
<1>4. i + 1 \in DOMAIN w /\ w[i + 1].t = "reset"
  BY <1>1, <1>2, <1>3
<1> QED
  BY <1>4 DEF HasReset

LEMMA ResetNone == ~HasReset(<<>>)
BY DEF HasReset

(* The order on a wire says whether there is a reset on it.                *)
LEMMA ResetShape ==
  ASSUME NEW w, NEW c, Shape(w, c), \A i \in DOMAIN c : c[i].t # "reset"
  PROVE  ~HasReset(w)
<1> SUFFICES ASSUME NEW k \in DOMAIN w, w[k].t = "reset" PROVE FALSE
  BY DEF HasReset
<1>1. PICK at \in [DOMAIN c -> DOMAIN w] :
        /\ \A i \in DOMAIN c : w[at[i]] = c[i]
        /\ \A j \in DOMAIN w : w[j].t \in Control => \E i \in DOMAIN c : at[i] = j
  BY DEF Shape
<1>2. PICK i \in DOMAIN c : at[i] = k
  BY <1>1 DEF Control
<1> QED
  BY <1>1, <1>2

(* One reset is on a wire at most.                                         *)
LEMMA OneReset ==
  ASSUME NEW y, Sane(y), ~y.dead, NEW w \in Seq(Frame), w # <<>>, Head(w) = ResetFrame,
         ReceiveOf(y, w)
  PROVE  ~HasReset(Tail(w))
<1> DEFINE r == ResetFrame
           v == Tail(w)
           k == KemFrame(y.took, y.turn)
<1> SUFFICES ~HasReset(v)
  OBVIOUS
<1>1. /\ r \in Frame /\ r.t = "reset" /\ r.t \in Control /\ k \in Frame /\ k.t = "kem"
      /\ \A n \in Nat : HelloFrame(n) \in Frame /\ HelloFrame(n).t = "hello"
      /\ \A n \in Nat : KemFrame(n, y.turn) \in Frame /\ KemFrame(n, y.turn).t = "kem"
  BY ControlFrames DEF Sane, PageView
<1>2. /\ ~Shape(w, <<>>)
      /\ \A a \in Frame : Shape(w, <<a>>) => r = a /\ Shape(v, <<>>)
      /\ \A a, b \in Frame : Shape(w, <<a, b>>) => r = a /\ Shape(v, <<b>>)
      /\ \A a, b, c \in Frame : Shape(w, <<a, b, c>>) => r = a /\ Shape(v, <<b, c>>)
  BY <1>1, Shrinks
<1>3. ASSUME Shape(v, <<>>) PROVE ~HasReset(v)
  BY <1>3, ResetShape
<1>4. ASSUME NEW b \in Frame, b.t # "reset", Shape(v, <<b>>) PROVE ~HasReset(v)
  <2>1. \A i \in DOMAIN <<b>> : <<b>>[i].t # "reset"
    BY <1>4
  <2> QED
    BY <1>4, <2>1, ResetShape
<1>5. ASSUME NEW b \in Frame, NEW c \in Frame, b.t # "reset", c.t # "reset", Shape(v, <<b, c>>)
      PROVE  ~HasReset(v)
  <2>1. \A i \in DOMAIN <<b, c>> : <<b, c>>[i].t # "reset"
    BY <1>5
  <2> QED
    BY <1>5, <2>1, ResetShape
<1> HIDE DEF r, v, k
<1>6. \/ \E a \in Frame : Shape(w, <<a>>)
      \/ \E n \in Nat : Shape(w, <<r, HelloFrame(n)>>)
      \/ \E n \in Nat : Shape(w, <<HelloFrame(n), KemFrame(n, y.turn)>>)
      \/ \E n \in Nat : Shape(w, <<r, HelloFrame(n), KemFrame(n, y.turn)>>)
      \/ Shape(w, <<k, r>>)
      \/ \E n \in Nat : Shape(w, <<k, r, HelloFrame(n)>>)
  BY <1>1, <1>2 DEF ReceiveOf, r, k
<1>7. CASE \E a \in Frame : Shape(w, <<a>>)
  BY <1>2, <1>3, <1>7
<1>8. CASE \E n \in Nat : Shape(w, <<r, HelloFrame(n)>>)
  <2>1. PICK n \in Nat : Shape(w, <<r, HelloFrame(n)>>)
    BY <1>8
  <2> QED
    BY <1>1, <1>2, <1>4, <2>1
<1>9. CASE \E n \in Nat : Shape(w, <<r, HelloFrame(n), KemFrame(n, y.turn)>>)
  <2>1. PICK n \in Nat : Shape(w, <<r, HelloFrame(n), KemFrame(n, y.turn)>>)
    BY <1>9
  <2> QED
    BY <1>1, <1>2, <1>5, <2>1
<1>10. CASE \/ \E n \in Nat : Shape(w, <<HelloFrame(n), KemFrame(n, y.turn)>>)
            \/ Shape(w, <<k, r>>)
            \/ \E n \in Nat : Shape(w, <<k, r, HelloFrame(n)>>)
  BY <1>1, <1>2, <1>10
<1> QED
  BY <1>6, <1>7, <1>8, <1>9, <1>10

LEMMA Balance ==
  ASSUME NEW a \in Nat, NEW b \in Nat, NEW c \in Nat, NEW d \in Nat, NEW e \in Nat, NEW g \in Nat,
         a + b + c + d + e <= g,
         NEW u \in Nat, NEW v \in Nat, NEW w \in Nat, NEW x \in Nat, NEW y \in Nat, NEW z \in Nat,
         u + v + w + x + y + g <= a + b + c + d + e + z
  PROVE  u + v + w + x + y <= z
OBVIOUS

(* What is spent and granted before and after a step.                      *)
LEMMA BudgetKept ==
  ASSUME Typed, Typed', Counted, NEW t \in Pages,
         Len(shake'[t]) + Opening(t)' + Reopening(t)' + Resetting(t)' + Resetting(Other(t))' + Granted(t)
           <= Len(shake[t]) + Opening(t) + Reopening(t) + Resetting(t) + Resetting(Other(t)) + Granted(t)'
  PROVE  Spent(t)' <= Granted(t)'
<1> DEFINE o == Other(t)
           a == Len(shake[t])
           b == Opening(t)
           c == Reopening(t)
           d == Resetting(t)
           e == Resetting(o)
           g == Granted(t)
           u == Len(shake'[t])
           v == Opening(t)'
           w == Reopening(t)'
           x == Resetting(t)'
           y == Resetting(o)'
           z == Granted(t)'
<1>1. a \in Nat /\ b \in Nat /\ c \in Nat /\ d \in Nat /\ e \in Nat
  BY LocalTypes DEF Opening, Reopening, Resetting
<1>2. v \in Nat /\ w \in Nat /\ x \in Nat /\ y \in Nat
  BY DEF Opening, Reopening, Resetting
<1>3. u \in Nat
  <2>1. shake'[t] \in Seq(PairHandshake)
    BY DEF Typed, Handshakes
  <2> QED
    BY <2>1, LenProperties
<1>4. g \in Nat /\ z \in Nat
  <2>1. o \in Pages
    BY TwoPages
  <2>2. drops \in Nat /\ refusals[t] \in Nat /\ refusals[o] \in Nat
    BY <2>1 DEF Typed, Counters
  <2>3. drops' \in Nat /\ refusals'[t] \in Nat /\ refusals'[o] \in Nat
    BY <2>1 DEF Typed, Counters
  <2>4. g = drops + 1 + 2 * (refusals[t] + refusals[o])
    BY DEF Granted
  <2>5. z = drops' + 1 + 2 * (refusals'[t] + refusals'[o])
    BY DEF Granted
  <2> HIDE DEF g, z
  <2>6. ASSUME NEW i \in Nat, NEW j \in Nat, NEW k \in Nat PROVE i + 1 + 2 * (j + k) \in Nat
    OBVIOUS
  <2> QED
    BY <2>2, <2>3, <2>4, <2>5, <2>6
<1>5. a + b + c + d + e <= g
  BY DEF Counted, Spent
<1>6. u + v + w + x + y + g <= a + b + c + d + e + z
  OBVIOUS
<1>7. Spent(t)' = u + v + w + x + y
  BY DEF Spent
<1> HIDE DEF o, a, b, c, d, e, g, u, v, w, x, y
<1>8. u + v + w + x + y <= z
  <2> HIDE DEF z
  <2> QED
    BY <1>1, <1>2, <1>3, <1>4, <1>5, <1>6, Balance
<1> QED
  BY <1>7, <1>8

LEMMA WireSteady ==
  ASSUME Typed, NEW s \in Pages,
         \/ UNCHANGED wire
         \/ \E f \in Frame : f.t # "reset" /\ Sends(s, f)
         \/ wire[s] # <<>> /\ wire' = Popped(s)
  PROVE  \A t \in Pages : HasReset(wire'[t]) => HasReset(wire[t])
<1>1. Other(s) \in Pages /\ \A t \in Pages : t = s \/ t = Other(s)
  BY TwoPages
<1>2. wire[s] \in Seq(Frame) /\ wire[Other(s)] \in Seq(Frame)
  BY <1>1, LocalTypes
<1>3. CASE UNCHANGED wire
  BY <1>3
<1>4. CASE \E f \in Frame : f.t # "reset" /\ Sends(s, f)
  <2>1. PICK f \in Frame : f.t # "reset" /\ Sends(s, f)
    BY <1>4
  <2>2. wire'[s] = wire[s] /\ (wire'[Other(s)] = Append(wire[Other(s)], f) \/ wire'[Other(s)] = wire[Other(s)])
    BY <2>1, WirePut
  <2> QED
    BY <1>1, <1>2, <2>1, <2>2, ResetPut
<1>5. CASE wire[s] # <<>> /\ wire' = Popped(s)
  <2>1. wire'[s] = Tail(wire[s]) /\ wire'[Other(s)] = wire[Other(s)]
    BY <1>5, WirePopped
  <2> QED
    BY <1>1, <1>2, <1>5, <2>1, ResetTaken
<1> QED
  BY <1>3, <1>4, <1>5

LEMMA BudgetTerms ==
  ASSUME Typed, NEW t \in Pages
  PROVE  /\ Len(shake[t]) \in Nat /\ Opening(t) \in Nat /\ Reopening(t) \in Nat
         /\ Resetting(t) \in Nat /\ Resetting(Other(t)) \in Nat /\ Granted(t) \in Nat
         /\ Opening(t)' \in Nat /\ Reopening(t)' \in Nat
         /\ Resetting(t)' \in Nat /\ Resetting(Other(t))' \in Nat
<1>1. Other(t) \in Pages
  BY TwoPages
<1>2. drops \in Nat /\ refusals[t] \in Nat /\ refusals[Other(t)] \in Nat
  BY <1>1 DEF Typed, Counters
<1>3. ASSUME NEW i \in Nat, NEW j \in Nat, NEW k \in Nat PROVE i + 1 + 2 * (j + k) \in Nat
  OBVIOUS
<1>4. Granted(t) \in Nat
  BY <1>2, <1>3 DEF Granted
<1> QED
  BY <1>4, LocalTypes DEF Opening, Reopening, Resetting

(* What a step leaves of the things in hand.                               *)
LEMMA Remaining ==
  ASSUME NEW t \in Pages, UNCHANGED up,
         \A s \in Pages : /\ fresh'[s] => fresh[s]
                          /\ HasReset(wire'[s]) => HasReset(wire[s])
  PROVE  /\ Opening(t)' <= Opening(t)
         /\ Resetting(t)' <= Resetting(t) /\ Resetting(Other(t))' <= Resetting(Other(t))
         /\ (\A s \in Pages : GaveUp(s)' => GaveUp(s)) => Reopening(t)' <= Reopening(t)
BY TwoPages DEF Opening, Resetting, Reopening, Broken

LEMMA SteadyCounted ==
  ASSUME Typed, Typed', Counted, UNCHANGED <<up, drops, refusals>>,
         \A t \in Pages : /\ Len(shake'[t]) = Len(shake[t])
                          /\ fresh'[t] => fresh[t]
                          /\ GaveUp(t)' => GaveUp(t)
                          /\ HasReset(wire'[t]) => HasReset(wire[t])
  PROVE  Counted'
<1> SUFFICES ASSUME NEW t \in Pages PROVE Spent(t)' <= Granted(t)'
  BY DEF Counted
<1> DEFINE a == Len(shake[t])
           b == Opening(t)
           c == Reopening(t)
           d == Resetting(t)
           e == Resetting(Other(t))
           g == Granted(t)
           u == Len(shake'[t])
           v == Opening(t)'
           w == Reopening(t)'
           x == Resetting(t)'
           y == Resetting(Other(t))'
           z == Granted(t)'
<1>0. /\ a \in Nat /\ b \in Nat /\ c \in Nat
      /\ d \in Nat /\ e \in Nat /\ g \in Nat
      /\ v \in Nat /\ w \in Nat
      /\ x \in Nat /\ y \in Nat
  BY BudgetTerms
<1>1. /\ v <= b /\ w <= c
      /\ x <= d /\ y <= e
  BY Remaining
<1>2. z = g /\ u = a
  BY DEF Granted
<1>3. u + v + w + x + y + g <= a + b + c + d + e + z
  <2> HIDE DEF a, b, c, d, e, g, u, v, w, x, y, z
  <2> QED
    BY <1>0, <1>1, <1>2
<1> QED
  BY <1>3, BudgetKept

(* The page begins one more handshake, for one thing it had in hand.       *)
LEMMA SpendCounted ==
  ASSUME Typed, Typed', Counted, UNCHANGED <<up, drops, refusals>>, NEW s \in Pages,
         Len(shake'[s]) = Len(shake[s]) + 1,
         \A t \in Pages : /\ t # s => Len(shake'[t]) = Len(shake[t])
                          /\ fresh'[t] => fresh[t]
                          /\ GaveUp(t)' => GaveUp(t)
                          /\ HasReset(wire'[t]) => HasReset(wire[t]),
         (fresh[s] /\ ~fresh'[s]) \/ (HasReset(wire[s]) /\ ~HasReset(wire'[s]))
  PROVE  Counted'
<1> SUFFICES ASSUME NEW t \in Pages PROVE Spent(t)' <= Granted(t)'
  BY DEF Counted
<1> DEFINE a == Len(shake[t])
           b == Opening(t)
           c == Reopening(t)
           d == Resetting(t)
           e == Resetting(Other(t))
           g == Granted(t)
           u == Len(shake'[t])
           v == Opening(t)'
           w == Reopening(t)'
           x == Resetting(t)'
           y == Resetting(Other(t))'
           z == Granted(t)'
<1>0. /\ a \in Nat /\ b \in Nat /\ c \in Nat
      /\ d \in Nat /\ e \in Nat /\ g \in Nat
      /\ v \in Nat /\ w \in Nat
      /\ x \in Nat /\ y \in Nat
  BY BudgetTerms
<1>1. /\ v <= b /\ w <= c
      /\ x <= d /\ y <= e
  BY Remaining
<1>2. z = g
  BY DEF Granted
<1>3. t = s => v + 1 <= b \/ x + 1 <= d
  BY DEF Opening, Resetting
<1>4. (t = s => u = a + 1) /\ (t # s => u = a)
  OBVIOUS
<1>5. u + v + w + x + y + g <= a + b + c + d + e + z
  <2> HIDE DEF a, b, c, d, e, g, u, v, w, x, y, z
  <2>1. CASE t = s
    BY <1>0, <1>1, <1>2, <1>3, <1>4, <2>1
  <2>2. CASE t # s
    BY <1>0, <1>1, <1>2, <1>4, <2>2
  <2> QED
    BY <2>1, <2>2
<1> QED
  BY <1>5, BudgetKept

(* A page resets: that is one more for both pages.                         *)
LEMMA RefusedCounted ==
  ASSUME Typed, Typed', Counted, NEW s \in Pages, UNCHANGED <<up, fresh, drops>>,
         refusals' = [refusals EXCEPT ![s] = @ + 1],
         Len(shake'[s]) = Len(shake[s]) + 1, wire'[s] = wire[s],
         \A t \in Pages : /\ t # s => Len(shake'[t]) = Len(shake[t])
                          /\ GaveUp(t)' => GaveUp(t)
  PROVE  Counted'
<1> SUFFICES ASSUME NEW t \in Pages PROVE Spent(t)' <= Granted(t)'
  BY DEF Counted
<1> DEFINE a == Len(shake[t])
           b == Opening(t)
           c == Reopening(t)
           d == Resetting(t)
           e == Resetting(Other(t))
           g == Granted(t)
           u == Len(shake'[t])
           v == Opening(t)'
           w == Reopening(t)'
           x == Resetting(t)'
           y == Resetting(Other(t))'
           z == Granted(t)'
<1>0. /\ a \in Nat /\ b \in Nat /\ c \in Nat
      /\ d \in Nat /\ e \in Nat /\ g \in Nat
      /\ v \in Nat /\ w \in Nat
      /\ x \in Nat /\ y \in Nat
  BY BudgetTerms
<1>1. Other(t) \in Pages /\ Other(t) # t /\ (t = s \/ Other(t) = s)
  BY TwoPages
<1>2. v = b /\ w <= c
  BY <1>1 DEF Opening, Reopening, Broken
<1>3. x + y <= d + e + 1
  BY <1>1 DEF Resetting
<1>4. z = g + 2
  <2>1. refusals'[t] + refusals'[Other(t)] = refusals[t] + refusals[Other(t)] + 1
    <3>1. refusals \in [Pages -> Nat]
      BY DEF Typed, Counters
    <3>2. CASE t = s
      BY <1>1, <3>1, <3>2
    <3>3. CASE Other(t) = s
      BY <1>1, <3>1, <3>3
    <3> QED
      BY <1>1, <3>2, <3>3
  <2>2. refusals[t] \in Nat /\ refusals[Other(t)] \in Nat /\ drops \in Nat
    BY <1>1 DEF Typed, Counters
  <2>3. ASSUME NEW h \in Nat, NEW i \in Nat, NEW j \in Nat, NEW k, k = i + j + 1
        PROVE  h + 1 + 2 * k = h + 1 + 2 * (i + j) + 2
    BY <2>3
  <2>4. z = drops + 1 + 2 * (refusals'[t] + refusals'[Other(t)])
    BY DEF Granted
  <2>5. g = drops + 1 + 2 * (refusals[t] + refusals[Other(t)])
    BY DEF Granted
  <2> QED
    BY <2>1, <2>2, <2>3, <2>4, <2>5
<1>5. u \in {a, a + 1}
  BY <1>1
<1>6. u + v + w + x + y + g <= a + b + c + d + e + z
  <2> HIDE DEF a, b, c, d, e, g, u, v, w, x, y, z
  <2> QED
    BY <1>0, <1>2, <1>3, <1>4, <1>5
<1> QED
  BY <1>6, BudgetKept

(* A page gives the other one up, and takes its last reset.                *)
LEMMA ClosedCounted ==
  ASSUME Typed, Typed', Counted, UNCHANGED <<up, drops, refusals>>, NEW s \in Pages,
         \A t \in Pages : /\ Len(shake'[t]) = Len(shake[t])
                          /\ fresh'[t] => fresh[t]
                          /\ HasReset(wire'[t]) => HasReset(wire[t]),
         HasReset(wire[s]), ~HasReset(wire'[s])
  PROVE  Counted'
<1> SUFFICES ASSUME NEW t \in Pages PROVE Spent(t)' <= Granted(t)'
  BY DEF Counted
<1> DEFINE a == Len(shake[t])
           b == Opening(t)
           c == Reopening(t)
           d == Resetting(t)
           e == Resetting(Other(t))
           g == Granted(t)
           u == Len(shake'[t])
           v == Opening(t)'
           w == Reopening(t)'
           x == Resetting(t)'
           y == Resetting(Other(t))'
           z == Granted(t)'
<1>0. /\ a \in Nat /\ b \in Nat /\ c \in Nat
      /\ d \in Nat /\ e \in Nat /\ g \in Nat
      /\ v \in Nat /\ w \in Nat
      /\ x \in Nat /\ y \in Nat
  BY BudgetTerms
<1>1. Other(t) \in Pages /\ (t = s \/ Other(t) = s)
  BY TwoPages
<1>2. v <= b /\ w <= c + 1
  BY DEF Opening, Reopening
<1>3. x + y + 1 <= d + e
  BY <1>1 DEF Resetting
<1>4. z = g /\ u = a
  BY DEF Granted
<1>5. u + v + w + x + y + g <= a + b + c + d + e + z
  <2> HIDE DEF a, b, c, d, e, g, u, v, w, x, y, z
  <2> QED
    BY <1>0, <1>2, <1>3, <1>4
<1> QED
  BY <1>5, BudgetKept

(* Steps that leave what a page knows of the other one.                    *)
LEMMA KnowingCounted ==
  ASSUME Typed, Typed', Counted, NEW s \in Pages, UNCHANGED <<peer, up, fresh, drops, refusals>>,
         \A t \in Pages : Len(shake'[t]) = Len(shake[t]),
         \/ UNCHANGED wire
         \/ \E f \in Frame : f.t # "reset" /\ Sends(s, f)
         \/ wire[s] # <<>> /\ wire' = Popped(s)
  PROVE  Counted'
BY WireSteady, SteadyCounted DEF GaveUp

LEMMA ShakesKept ==
  ASSUME Typed, NEW s \in Pages,
         \/ UNCHANGED shake
         \/ \E n \in DOMAIN shake[s] : \E k : shake' = [shake EXCEPT ![s] = [@ EXCEPT ![n] = k]]
         \/ shake' = [shake EXCEPT ![s] = Wiped(s)]
  PROVE  \A t \in Pages : Len(shake'[t]) = Len(shake[t])
<1>1. /\ shake \in [Pages -> Seq(PairHandshake)] /\ shake[s] \in Seq(PairHandshake)
      /\ Len(Wiped(s)) = Len(shake[s])
  BY WipedTyped DEF Typed, Handshakes
<1>2. CASE UNCHANGED shake
  BY <1>2
<1>3. CASE shake' = [shake EXCEPT ![s] = Wiped(s)]
  BY <1>1, <1>3
<1>4. ASSUME NEW n \in DOMAIN shake[s], NEW k,
             shake' = [shake EXCEPT ![s] = [@ EXCEPT ![n] = k]]
      PROVE  \A t \in Pages : Len(shake'[t]) = Len(shake[t])
  <2> DEFINE w == [shake[s] EXCEPT ![n] = k]
  <2>1. DOMAIN w = DOMAIN shake[s]
    OBVIOUS
  <2>2. shake'[s] = w /\ \A t \in Pages : t # s => shake'[t] = shake[t]
    BY <1>1, <1>4
  <2> QED
    BY <1>1, <2>1, <2>2
<1> QED
  BY <1>2, <1>3, <1>4

(* Hellos and answers are taken and go out.                                *)
LEMMA HelloCounted ==
  ASSUME Typed, Typed', Paired, Counted, NEW s \in Pages,
         \/ TakeHello(s) \/ DecideHello(s) \/ AwaitedHello(s) \/ TakeKem(s) \/ AwaitedKem(s)
         \/ TakeFrame(s) \/ OpenFrame(s) \/ StartedOver(s) \/ TakeRoom(s) \/ IgnoreClosed(s)
         \/ HandOut(s) \/ SealRoom(s) \/ Seal(s)
  PROVE  Counted'
<1>1. UNCHANGED <<peer, shake, up, fresh, drops, refusals>>
  <2>1. CASE DecideHello(s)
    BY <2>1, DecidePaired DEF DecideHello, channel, counters
  <2>2. CASE AwaitedKem(s)
    BY <2>2, AwaitedPaired DEF AwaitedKem, channel
  <2>3. CASE TakeHello(s) \/ AwaitedHello(s) \/ TakeKem(s)
    BY <2>3 DEF TakeHello, AwaitedHello, TakeKem, channel, counters
  <2>4. CASE TakeFrame(s) \/ OpenFrame(s) \/ StartedOver(s) \/ TakeRoom(s) \/ IgnoreClosed(s)
    BY <2>4 DEF TakeFrame, OpenFrame, StartedOver, TakeRoom, IgnoreClosed, Ignored, channel, counters
  <2>5. CASE HandOut(s) \/ SealRoom(s) \/ Seal(s)
    BY <2>5 DEF HandOut, SealRoom, Seal, channel, counters
  <2> QED
    BY <2>1, <2>2, <2>3, <2>4, <2>5
<1>2. UNCHANGED wire \/ (wire[s] # <<>> /\ wire' = Popped(s))
  <2>1. CASE TakeHello(s) \/ TakeKem(s) \/ TakeFrame(s) \/ TakeRoom(s) \/ IgnoreClosed(s)
    BY <2>1 DEF TakeHello, TakeKem, TakeFrame, TakeRoom, IgnoreClosed, Ignored, Next4
  <2>2. CASE AwaitedKem(s)
    BY <2>2, AwaitedPaired
  <2>3. CASE DecideHello(s) \/ AwaitedHello(s) \/ OpenFrame(s) \/ StartedOver(s)
    BY <2>3 DEF DecideHello, AwaitedHello, OpenFrame, StartedOver
  <2>4. CASE HandOut(s) \/ SealRoom(s) \/ Seal(s)
    BY <2>4 DEF HandOut, SealRoom, Seal
  <2> QED
    BY <2>1, <2>2, <2>3, <2>4
<1>3. \A t \in Pages : Len(shake'[t]) = Len(shake[t])
  BY <1>1
<1> QED
  BY <1>1, <1>2, <1>3, KnowingCounted

LEMMA SaysCounted ==
  ASSUME Typed, Typed', Counted, NEW s \in Pages, HandedOut(s) \/ SendChain(s) \/ SendRoom(s)
  PROVE  Counted'
<1>1. UNCHANGED <<peer, shake, up, fresh, drops, refusals>>
  BY DEF HandedOut, SendChain, SendRoom, channel, counters
<1>2. UNCHANGED wire \/ \E f \in Frame : f.t # "reset" /\ Sends(s, f)
  <2>1. job[s] \in Job /\ send[s] \in Send
    BY DEF Typed, Handlers
  <2>2. ASSUME NEW h, h.id \in Nat, h.session \in Session, NEW went \in BOOLEAN, Hands(s, h, went)
        PROVE  UNCHANGED wire \/ \E f \in Frame : f.t # "reset" /\ Sends(s, f)
    <3> DEFINE f == [t |-> "p4", session |-> h.session, chain |-> h.id]
    <3>1. f \in Frame /\ f.t # "reset"
      BY <2>2 DEF Frame
    <3> QED
      BY <2>2, <3>1 DEF Hands
  <2>3. CASE HandedOut(s)
    <3>1. job[s].at = "handing"
      BY <2>3 DEF HandedOut
    <3>2. job[s].id \in Nat /\ job[s].session \in Session
      BY <2>1, <3>1 DEF Job, HandingOut
    <3> QED
      BY <2>2, <2>3, <3>2 DEF HandedOut
  <2>4. CASE SendChain(s)
    <3>1. send[s].at = "handing"
      BY <2>4 DEF SendChain
    <3>2. send[s].id \in Nat /\ send[s].session \in Session
      BY <2>1, <3>1 DEF Send, HandingOut
    <3> QED
      BY <2>2, <2>4, <3>2 DEF SendChain
  <2>5. CASE SendRoom(s)
    <3> DEFINE f == [t |-> "room", chain |-> send[s].chain, session |-> send[s].session]
    <3>1. send[s].at = "sealed"
      BY <2>5 DEF SendRoom
    <3>2. send[s].chain \in Nat /\ send[s].session \in Session
      BY <2>1, <3>1 DEF Send, HandingOut
    <3>3. f \in Frame /\ f.t # "reset"
      BY <3>2 DEF Frame
    <3> QED
      BY <2>5, <3>3 DEF SendRoom
  <2> QED
    BY <2>3, <2>4, <2>5
<1>3. \A t \in Pages : Len(shake'[t]) = Len(shake[t])
  BY <1>1
<1> QED
  BY <1>1, <1>2, <1>3, KnowingCounted

LEMMA NotGivenUp ==
  ASSUME Typed, Typed', NEW s \in Pages,
         \/ ~peer'[s].closed
         \/ peer'[s].protocol # "refused"
         \/ peer'[s].closed = peer[s].closed /\ peer'[s].protocol = peer[s].protocol,
         \A t \in Pages : t # s => peer'[t] = peer[t]
  PROVE  \A t \in Pages : GaveUp(t)' => GaveUp(t)
<1> SUFFICES ASSUME NEW t \in Pages, GaveUp(t)' PROVE GaveUp(t)
  OBVIOUS
<1>1. peer'[t].closed /\ peer'[t].protocol = "refused"
  BY DEF GaveUp
<1>2. CASE t # s
  BY <1>1, <1>2 DEF GaveUp
<1>3. CASE t = s
  BY <1>1, <1>3 DEF GaveUp
<1> QED
  BY <1>2, <1>3

LEMMA AnswerCounted ==
  ASSUME Typed, Typed', Paired, Counted, NEW s \in Pages,
         \/ \E h \in starting[s] : Started(s, h)
         \/ AcceptHello(s) \/ AcceptKem(s) \/ Establish(s)
  PROVE  Counted'
<1>1. UNCHANGED <<up, fresh, drops, refusals>>
  BY DEF Started, AcceptHello, AcceptKem, Establish, channel, counters
<1>2. \A t \in Pages : Len(shake'[t]) = Len(shake[t])
  BY StartedPaired, AcceptHelloPaired, AcceptKemPaired DEF Establish
<1>3. UNCHANGED wire \/ \E f \in Frame : f.t # "reset" /\ Sends(s, f)
  <2>1. ASSUME NEW h \in starting[s], Started(s, h)
        PROVE  \E f \in Frame : f.t # "reset" /\ Sends(s, f)
    <3>1. h \in Nat
      BY LocalTypes
    <3>2. HelloFrame(h) \in Frame /\ HelloFrame(h).t # "reset" /\ Sends(s, HelloFrame(h))
      BY <2>1, <3>1, ControlFrames DEF Started, HelloFrame
    <3> QED
      BY <3>2
  <2>2. ASSUME AcceptHello(s) PROVE \E f \in Frame : f.t # "reset" /\ Sends(s, f)
    <3>1. job[s].at = "accept" /\ job[s] \in Job
      BY <2>2 DEF AcceptHello, Typed, Handlers
    <3>2. job[s].h \in Nat /\ job[s].hs \in Nat
      BY <3>1 DEF Job, HandingOut
    <3>3. Sends(s, KemFrame(job[s].hs, job[s].h))
      BY <2>2 DEF AcceptHello, KemFrame
    <3>4. KemFrame(job[s].hs, job[s].h) \in Frame /\ KemFrame(job[s].hs, job[s].h).t # "reset"
      BY <3>2, ControlFrames
    <3> QED
      BY <3>3, <3>4
  <2>3. AcceptKem(s) \/ Establish(s) => UNCHANGED wire
    BY DEF AcceptKem, Establish
  <2> QED
    BY <2>1, <2>2, <2>3
<1>4. \A t \in Pages : HasReset(wire'[t]) => HasReset(wire[t])
  BY <1>3, WireSteady
<1>5. \A t \in Pages : GaveUp(t)' => GaveUp(t)
  <2>1. peer[s] \in PeerState /\ peer \in [Pages -> PeerState]
    BY DEF Typed, Handshakes
  <2>2. CASE UNCHANGED peer
    BY <2>2 DEF GaveUp
  <2>3. CASE AcceptHello(s)
    <3> DEFINE y == [peer[s] EXCEPT !.accepted = job[s].h, !.known = TRUE, !.protocol = Heard(peer[s])]
    <3>1. peer' = [peer EXCEPT ![s] = y]
      BY <2>3 DEF AcceptHello
    <3>2. y.closed = peer[s].closed /\ (y.protocol = peer[s].protocol \/ y.protocol = "p4-pending")
      BY <2>1 DEF PeerState, Heard
    <3> HIDE DEF y
    <3>3. peer'[s] = y /\ \A t \in Pages : t # s => peer'[t] = peer[t]
      BY <2>1, <3>1
    <3> QED
      BY <3>2, <3>3, NotGivenUp
  <2>4. CASE Establish(s)
    <3> DEFINE y == [peer[s] EXCEPT !.session = SessionOf(s, job[s].hs), !.protocol = "p4", !.failed = FALSE]
    <3>1. peer' = [peer EXCEPT ![s] = y]
      BY <2>4 DEF Establish
    <3>2. y.protocol = "p4"
      BY <2>1 DEF PeerState
    <3> HIDE DEF y
    <3>3. peer'[s] = y /\ \A t \in Pages : t # s => peer'[t] = peer[t]
      BY <2>1, <3>1
    <3> QED
      BY <3>2, <3>3, NotGivenUp
  <2> QED
    BY <2>2, <2>3, <2>4 DEF Started, AcceptKem
<1> QED
  BY <1>1, <1>2, <1>4, <1>5, SteadyCounted

LEMMA FailedCounted ==
  ASSUME Typed, Typed', Paired, Counted, NEW s \in Pages, FailFrame(s)
  PROVE  Counted'
<1>1. UNCHANGED <<up, fresh, drops>> /\ job[s].at = "open"
  BY DEF FailFrame, channel
<1>2. peer \in [Pages -> PeerState]
  BY DEF Typed, Handshakes
<1>3. CASE ResetByUs(s)
  <2>1. /\ Len(shake'[s]) = Len(shake[s]) + 1 /\ wire'[s] = wire[s] /\ peer'[s].closed = FALSE
        /\ \A t \in Pages : t # s => peer'[t] = peer[t] /\ shake'[t] = shake[t]
    BY <1>1, <1>3, ResetPaired
  <2>2. refusals' = [refusals EXCEPT ![s] = @ + 1]
    BY <1>3 DEF ResetByUs
  <2>3. \A t \in Pages : GaveUp(t)' => GaveUp(t)
    BY <2>1, NotGivenUp
  <2> QED
    BY <1>1, <2>1, <2>2, <2>3, RefusedCounted
<1>4. CASE ~ResetByUs(s)
  <2> DEFINE y == [peer[s] EXCEPT !.failed = @ \/ job[s].with = peer[s].session]
  <2>1. peer' = [peer EXCEPT ![s] = y] /\ UNCHANGED <<shake, wire, refusals>>
    BY <1>4 DEF FailFrame
  <2>2. y.closed = peer[s].closed /\ y.protocol = peer[s].protocol
    BY <1>2 DEF PeerState
  <2> HIDE DEF y
  <2>3. peer'[s] = y /\ \A t \in Pages : t # s => peer'[t] = peer[t]
    BY <1>2, <2>1
  <2>4. \A t \in Pages : GaveUp(t)' => GaveUp(t)
    BY <2>2, <2>3, NotGivenUp
  <2> QED
    BY <1>1, <2>1, <2>4, SteadyCounted
<1> QED
  BY <1>3, <1>4

LEMMA WindowCounted ==
  ASSUME Typed, Typed', Counted, NEW s \in Pages, WindowPasses(s)
  PROVE  Counted'
<1> DEFINE y == [peer[s] EXCEPT !.warned = FALSE]
<1>1. peer \in [Pages -> PeerState]
  BY DEF Typed, Handshakes
<1>2. peer' = [peer EXCEPT ![s] = y] /\ UNCHANGED <<shake, up, fresh, wire, drops, refusals>>
  BY DEF WindowPasses, channel, counters
<1>3. y.closed = peer[s].closed /\ y.protocol = peer[s].protocol
  BY <1>1 DEF PeerState
<1> HIDE DEF y
<1>4. peer'[s] = y /\ \A t \in Pages : t # s => peer'[t] = peer[t]
  BY <1>1, <1>2
<1>5. \A t \in Pages : GaveUp(t)' => GaveUp(t)
  BY <1>3, <1>4, NotGivenUp
<1> QED
  BY <1>2, <1>5, SteadyCounted

LEMMA OpenCounted ==
  ASSUME Typed, Typed', Paired, Counted, NEW s \in Pages, OpenChannel(s)
  PROVE  Counted'
<1>1. /\ fresh[s] /\ ~fresh'[s] /\ Len(shake'[s]) = Len(shake[s]) + 1 /\ peer'[s].closed = FALSE
      /\ \A t \in Pages : t # s => /\ fresh'[t] = fresh[t] /\ peer'[t] = peer[t]
                                   /\ shake'[t] = shake[t]
  BY OpenPaired
<1>2. UNCHANGED <<up, wire, drops, refusals>>
  BY DEF OpenChannel, counters
<1>3. \A t \in Pages : GaveUp(t)' => GaveUp(t)
  BY <1>1, NotGivenUp
<1>4. \A t \in Pages : fresh'[t] => fresh[t]
  BY <1>1
<1> QED
  BY <1>1, <1>2, <1>3, <1>4, SpendCounted

LEMMA TakeResetCounted ==
  ASSUME Typed, Typed', Paired, Counted, NEW s \in Pages, TakeReset(s)
  PROVE  Counted'
<1> DEFINE n == Len(shake[s])
           p == [peer[s] EXCEPT !.warned = TRUE]
           x == View(s)
<1>1. /\ Next4(s, "reset") /\ ~peer[s].closed /\ wire' = Popped(s)
      /\ UNCHANGED <<up, fresh, drops, refusals>>
  BY DEF TakeReset, channel, counters
<1>2. /\ up[s] /\ wire[s] \in Seq(Frame) /\ wire[s] # <<>> /\ Head(wire[s]) \in Frame
      /\ Head(wire[s]).t = "reset" /\ x.dead = peer[s].closed
      /\ Sane(x) /\ (up[Other(s)] => Sane(View(Other(s))))
  BY <1>1, TakingPage
<1>3. Head(wire[s]) = ResetFrame /\ wire'[s] = Tail(wire[s])
  BY <1>1, <1>2, WirePopped DEF Frame, ResetFrame
<1>4. ReceiveOf(x, wire[s])
  BY <1>2, RoundReceive, RoundTurned DEF Paired, Rounded
<1>5. ~HasReset(wire'[s])
  <2> HIDE DEF x
  <2> QED
    BY <1>1, <1>2, <1>3, <1>4, OneReset
<1>6. HasReset(wire[s])
  BY <1>2, LenProperties, EmptySeq, HeadTailProperties DEF HasReset
<1>7. \A t \in Pages : HasReset(wire'[t]) => HasReset(wire[t])
  BY <1>1, <1>2, WireSteady
<1>8. peer \in [Pages -> PeerState] /\ peer[s] \in PeerState
  BY DEF Typed, Handshakes
<1>9. /\ p \in PeerState /\ p.closed = FALSE /\ p.protocol = peer[s].protocol
      /\ p.session = peer[s].session /\ p.hs = peer[s].hs
  BY <1>1, <1>8 DEF PeerState
<1>10. CASE peer[s].warned
  <2>1. shake' = [shake EXCEPT ![s] = Wiped(s)]
    BY <1>10 DEF TakeReset
  <2>2. \A t \in Pages : Len(shake'[t]) = Len(shake[t])
    BY <2>1, ShakesKept
  <2> QED
    BY <1>1, <1>5, <1>6, <1>7, <2>2, ClosedCounted
<1>11. CASE ~peer[s].warned /\ StartsOver(p)
  <2> HIDE DEF p
  <2>1. peer' = [peer EXCEPT ![s] = p] /\ UNCHANGED shake
    BY <1>11 DEF TakeReset, p
  <2>2. peer'[s] = p /\ \A t \in Pages : t # s => peer'[t] = peer[t]
    BY <1>8, <2>1
  <2>3. \A t \in Pages : GaveUp(t)' => GaveUp(t)
    BY <1>9, <2>2, NotGivenUp
  <2> QED
    BY <1>1, <1>7, <2>1, <2>3, SteadyCounted
<1>12. CASE ~peer[s].warned /\ ~StartsOver(p)
  <2> HIDE DEF p
  <2>1. StartOver(s, p)
    BY <1>12 DEF TakeReset, p
  <2>2. /\ Len(shake'[s]) = n + 1 /\ peer'[s].closed = FALSE
        /\ \A t \in Pages : t # s => peer'[t] = peer[t] /\ shake'[t] = shake[t]
    BY <1>9, <2>1, OverAfter
  <2>3. \A t \in Pages : GaveUp(t)' => GaveUp(t)
    BY <2>2, NotGivenUp
  <2> QED
    BY <1>1, <1>5, <1>6, <1>7, <2>2, <2>3, SpendCounted
<1> QED
  BY <1>10, <1>11, <1>12

LEMMA ConnectCounted ==
  ASSUME Typed, Typed', Paired, Counted, Connect
  PROVE  Counted'
<1> SUFFICES ASSUME NEW t \in Pages PROVE Spent(t)' <= Granted(t)'
  BY DEF Counted
<1> DEFINE a == Len(shake[t])
           b == Opening(t)
           c == Reopening(t)
           d == Resetting(t)
           e == Resetting(Other(t))
           g == Granted(t)
           u == Len(shake'[t])
           v == Opening(t)'
           w == Reopening(t)'
           x == Resetting(t)'
           y == Resetting(Other(t))'
           z == Granted(t)'
<1>1. /\ a \in Nat /\ b \in Nat /\ c \in Nat
      /\ d \in Nat /\ e \in Nat /\ g \in Nat
      /\ v \in Nat /\ w \in Nat
      /\ x \in Nat /\ y \in Nat
  BY BudgetTerms
<1>2. Other(t) \in Pages
  BY TwoPages
<1>3. ASSUME NEW s \in Pages PROVE ~GaveUp(s) /\ up'[s] = TRUE /\ ~up[s] /\ wire'[s] = wire[s]
  <2>1. ~up[s] /\ up'[s] = TRUE /\ wire'[s] = wire[s]
    BY DEF Connect
  <2>2. PageOf(s, peer[s], Len(shake[s]), shake[s][Len(shake[s])], starting[s], job[s], up[s], fresh[s])
    BY DEF Paired, Local
  <2>3. peer[s].protocol = "pending"
    BY <2>1, <2>2 DEF PageOf
  <2> QED
    BY <2>1, <2>3 DEF GaveUp
<1>4. UNCHANGED <<peer, shake, drops, refusals>>
  BY DEF Connect, counters
<1>5. c = 1
  BY <1>3 DEF Reopening, Broken
<1>6. w = 0
  <2>1. ~Broken(t)'
    BY <1>2, <1>3, <1>4 DEF Broken, GaveUp
  <2> QED
    BY <2>1 DEF Reopening
<1>7. v <= b + 1 /\ x = d /\ y = e /\ z = g /\ u = a
  <2>1. v <= b + 1
    BY DEF Opening
  <2>2. wire'[t] = wire[t] /\ wire'[Other(t)] = wire[Other(t)]
    BY <1>2, <1>3
  <2>3. x = d /\ y = e
    BY <2>2 DEF Resetting
  <2>4. z = g /\ u = a
    BY <1>4 DEF Granted
  <2> QED
    BY <2>1, <2>3, <2>4
<1>8. u + v + w + x + y + g <= a + b + c + d + e + z
  <2> HIDE DEF a, b, c, d, e, g, u, v, w, x, y, z
  <2> QED
    BY <1>1, <1>5, <1>6, <1>7
<1> QED
  BY <1>8, BudgetKept

LEMMA DropCounted ==
  ASSUME Typed, Typed', Counted, NEW s \in Pages, Drop(s)
  PROVE  Counted'
<1> SUFFICES ASSUME NEW t \in Pages PROVE Spent(t)' <= Granted(t)'
  BY DEF Counted
<1> DEFINE a == Len(shake[t])
           b == Opening(t)
           c == Reopening(t)
           d == Resetting(t)
           e == Resetting(Other(t))
           g == Granted(t)
           u == Len(shake'[t])
           v == Opening(t)'
           w == Reopening(t)'
           x == Resetting(t)'
           y == Resetting(Other(t))'
           z == Granted(t)'
<1>1. /\ a \in Nat /\ b \in Nat /\ c \in Nat
      /\ d \in Nat /\ e \in Nat /\ g \in Nat
      /\ v \in Nat /\ w \in Nat
      /\ x \in Nat /\ y \in Nat
  BY BudgetTerms
<1>2. Other(t) \in Pages /\ (s = t \/ s = Other(t)) /\ Other(s) \in Pages
      /\ (s = t => Other(s) = Other(t)) /\ (s = Other(t) => Other(s) = t)
  BY TwoPages
<1>3. /\ up' = [up EXCEPT ![s] = FALSE] /\ fresh' = [fresh EXCEPT ![s] = FALSE]
      /\ drops' = IF up[Other(s)] /\ ~GaveUp(s) THEN drops + 1 ELSE drops
      /\ shake' = [shake EXCEPT ![s] = Wiped(s)] /\ UNCHANGED refusals
  BY DEF Drop
<1>4. u = a
  BY <1>3, ShakesKept
<1>5. v <= b
  BY <1>3 DEF Opening, Typed, Channels
<1>6. x <= d /\ y <= e
  <2>1. \A r \in Pages : HasReset(wire'[r]) => HasReset(wire[r])
    <3>1. PICK m \in 0 .. (IF Straddle THEN Len(wire[s]) ELSE 0) :
            wire' = [wire EXCEPT ![s] = SubSeq(@, 1, m)]
      BY DEF Drop
    <3>2. wire \in [Pages -> Seq(Frame)] /\ wire[s] \in Seq(Frame)
      BY DEF Typed, Channels
    <3>3. m \in 0 .. Len(wire[s])
      BY <3>2, LenProperties
    <3>4. HasReset(SubSeq(wire[s], 1, m)) => HasReset(wire[s])
      <4> DEFINE q == SubSeq(wire[s], 1, m)
      <4>1. Len(wire[s]) \in Nat /\ DOMAIN wire[s] = 1 .. Len(wire[s])
        BY <3>2, LenProperties
      <4>2. m \in Int /\ q \in Seq(Frame) /\ Len(q) = m /\ \A i \in 1 .. m : q[i] = wire[s][i]
        BY <3>2, <3>3, <4>1, SubSeqProperties
      <4>3. DOMAIN q = 1 .. m
        BY <4>2, LenProperties
      <4> HIDE DEF q
      <4>4. HasReset(q) => HasReset(wire[s])
        BY <3>3, <4>1, <4>2, <4>3 DEF HasReset
      <4> QED
        BY <4>4 DEF q
    <3> QED
      BY <3>1, <3>2, <3>4
  <2> QED
    BY <1>2, <2>1 DEF Resetting
<1>7. w <= c + (drops' - drops) /\ drops' \in Nat /\ drops \in Nat /\ drops' >= drops
  <2>1. drops \in Nat
    BY DEF Typed, Counters
  <2>2. c \in {0, 1} /\ w \in {0, 1}
    BY DEF Reopening
  <2>3. CASE up[Other(s)] /\ ~GaveUp(s)
    BY <1>3, <2>1, <2>2, <2>3
  <2>4. CASE ~(up[Other(s)] /\ ~GaveUp(s))
    <3>1. c = 1
      BY <1>2, <2>4 DEF Reopening, Broken
    <3> QED
      BY <1>3, <2>1, <2>2, <2>4, <3>1
  <2> QED
    BY <2>3, <2>4
<1>8. z = g + (drops' - drops)
  <2> DEFINE k == 2 * (refusals[t] + refusals[Other(t)])
  <2>1. g = drops + 1 + k /\ z = drops' + 1 + k
    BY <1>3 DEF Granted
  <2>2. k \in Int
    <3>1. refusals[t] \in Nat /\ refusals[Other(t)] \in Nat
      BY <1>2 DEF Typed, Counters
    <3> QED
      BY <3>1
  <2> HIDE DEF k, g, z
  <2> QED
    BY <1>7, <2>1, <2>2
<1> DEFINE k == drops' - drops
<1>9. k \in Nat /\ w <= c + k /\ z = g + k
  <2>1. k \in Nat
    <3>1. drops' \in Nat /\ drops \in Nat /\ drops' >= drops
      BY <1>7
    <3>2. ASSUME NEW i \in Nat, NEW j \in Nat, i >= j PROVE i - j \in Nat
      BY <3>2
    <3> QED
      BY <3>1, <3>2
  <2>2. w <= c + k
    BY <1>7
  <2>3. z = g + k
    BY <1>8
  <2> QED
    BY <2>1, <2>2, <2>3
<1>10. u + v + w + x + y + g <= a + b + c + d + e + z
  <2> HIDE DEF a, b, c, d, e, g, u, v, w, x, y, z, k
  <2> QED
    BY <1>1, <1>4, <1>5, <1>6, <1>9
<1> QED
  BY <1>10, BudgetKept

LEMMA InitCounted == Init => Counted
<1> SUFFICES ASSUME Init, NEW s \in Pages PROVE Spent(s) <= Granted(s)
  BY DEF Counted
<1>1. Other(s) \in Pages
  BY TwoPages
<1>2. Len(shake[s]) = 0 /\ Opening(s) = 0 /\ Reopening(s) \in {0, 1}
  BY DEF Init, Opening, Reopening
<1>3. Resetting(s) = 0 /\ Resetting(Other(s)) = 0
  BY <1>1, ResetNone DEF Init, Resetting
<1>4. Granted(s) = 1
  BY <1>1 DEF Init, Granted
<1> QED
  BY <1>2, <1>3, <1>4 DEF Spent

LEMMA NextCounted ==
  ASSUME ~Straddle, Typed, Typed', Paired, Counted, [Next]_vars
  PROVE  Counted'
<1>1. CASE UNCHANGED vars \/ Rest
  <2>1. UNCHANGED <<peer, shake, up, fresh, wire, drops, refusals>>
    BY <1>1 DEF vars, Rest
  <2> QED
    BY <2>1, SteadyCounted DEF GaveUp
<1>2. CASE Connect
  BY <1>2, ConnectCounted
<1>3. ASSUME NEW s \in Pages,
             OpenChannel(s) \/ Drop(s) \/ IgnoreClosed(s)
               \/ (\E h \in starting[s] : Started(s, h))
               \/ TakeHello(s) \/ DecideHello(s) \/ AwaitedHello(s) \/ AcceptHello(s)
      PROVE  Counted'
  BY <1>3, OpenCounted, DropCounted, HelloCounted, AnswerCounted
<1>4. ASSUME NEW s \in Pages,
             TakeKem(s) \/ AwaitedKem(s) \/ AcceptKem(s) \/ Establish(s)
               \/ HandOut(s) \/ HandedOut(s) \/ SealRoom(s) \/ SendChain(s) \/ Seal(s) \/ SendRoom(s)
      PROVE  Counted'
  BY <1>4, HelloCounted, AnswerCounted, SaysCounted
<1>5. ASSUME NEW s \in Pages,
             TakeFrame(s) \/ OpenFrame(s) \/ FailFrame(s)
               \/ TakeReset(s) \/ StartedOver(s) \/ WindowPasses(s) \/ TakeRoom(s)
      PROVE  Counted'
  BY <1>5, HelloCounted, FailedCounted, TakeResetCounted, WindowCounted
<1> QED
  BY <1>1, <1>2, <1>3, <1>4, <1>5 DEF Next

LEMMA CountedFew ==
  ASSUME Typed, Counted
  PROVE  FewHellos
<1> SUFFICES ASSUME NEW s \in Pages PROVE Len(shake[s]) <= Granted(s)
  BY DEF FewHellos, Granted
<1> DEFINE a == Len(shake[s])
           b == Opening(s)
           c == Reopening(s)
           d == Resetting(s)
           e == Resetting(Other(s))
           g == Granted(s)
<1>1. a \in Nat /\ b \in Nat /\ c \in Nat /\ d \in Nat /\ e \in Nat /\ g \in Nat
  BY BudgetTerms
<1>2. a + b + c + d + e <= g
  BY DEF Counted, Spent
<1> HIDE DEF a, b, c, d, e, g
<1>3. a <= g
  BY <1>1, <1>2
<1> QED
  BY <1>3 DEF a, g

(* Hellos do not chase each other: when the handlers of a channel end with *)
(* it, a page begins one handshake per channel and at most two per reset   *)
(* (start, onHello, reset in p4-session.ts).                               *)
THEOREM HellosAlwaysFew ==
  ASSUME ~Straddle
  PROVE  Spec => []FewHellos
<1>1. Init => Paired /\ Counted
  BY InitPaired, InitCounted
<1>2. Typed /\ Typed' /\ Paired /\ Counted /\ [Next]_vars => Paired' /\ Counted'
  BY NextPaired, NextCounted
<1>3. Spec => []Typed
  BY AlwaysTyped
<1>4. Typed /\ Counted => FewHellos
  BY CountedFew
<1> QED
  BY <1>1, <1>2, <1>3, <1>4, PTL DEF Spec

----------------------------------------------------------------------------
(* Room messages find their chain.  A session is live at a page when it is *)
(* the one of the handshake the page is in: only messages of a live        *)
(* session count, those of an earlier handshake never open again.          *)
(* A chain c reaches the page, e frames ahead of a message, when           *)
(*   no chain is among them and the page holds c (or is about to open the  *)
(*   frame that has it), or                                                *)
(*   the last chain among them is c, and the page has a session by then:   *)
(*   it has one, or the answer to its hello comes before that frame.       *)
Live(s, p, T) == p.hs # 0 /\ <<s, p.hs>> \in T
Answer(w, e, n) == \E k \in 1 .. e : w[k].t = "kem" /\ w[k].for = n
Due(p, j, w, e) == Answering(p, j) \/ Answer(w, e, p.hs)
Bare(w, e) == \A k \in 1 .. e : w[k].t # "p4"
Carries(w, e, i, c) ==
  w[i].t = "p4" /\ w[i].chain = c /\ \A k \in 1 .. e : i < k => w[k].t # "p4"
Newest(ks, c) == Len(ks) # 0 /\ ks[Len(ks)] = c
Held(p, j, ks, c, T) ==
  /\ p.session # {}
  /\ p.session = T /\ ~p.failed =>
       IF j.at = "open" THEN j.frame.chain = c ELSE Newest(ks, c)
Reaches(p, j, ks, w, e, c, T) ==
  \/ Bare(w, e) /\ Held(p, j, ks, c, T)
  \/ \E i \in 1 .. e : Carries(w, e, i, c) /\ Due(p, j, w, i - 1)

(* In the handshake it is in a page goes from p, j, ks to q, l, ls.        *)
Stays(p, j, q, l) == q.hs = p.hs /\ (Answering(p, j) => Answering(q, l))
Keeps(p, j, ks, q, l, ls) ==
  /\ Stays(p, j, q, l)
  /\ \A c, T : Held(p, j, ks, c, T) => Held(q, l, ls, c, T)

LEMMA ReachesKept ==
  ASSUME NEW p, NEW j, NEW ks, NEW q, NEW l, NEW ls, Keeps(p, j, ks, q, l, ls),
         NEW w, NEW e, NEW c, NEW T, Reaches(p, j, ks, w, e, c, T)
  PROVE  Reaches(q, l, ls, w, e, c, T)
BY DEF Reaches, Keeps, Stays, Due

LEMMA AnswerTaken ==
  ASSUME NEW w \in Seq(Frame), w # <<>>, NEW n, NEW e \in 0 .. Len(w), Answer(w, e, n)
  PROVE  \/ Head(w).t = "kem" /\ Head(w).for = n
         \/ Answer(Tail(w), e - 1, n)
<1> DEFINE v == Tail(w)
<1>1. /\ Head(w) = w[1] /\ Len(w) \in Nat /\ Len(v) = Len(w) - 1
      /\ \A k \in 1 .. Len(v) : v[k] = w[k + 1]
  BY LenProperties, EmptySeq, HeadTailProperties
<1> HIDE DEF v
<1>2. PICK k \in 1 .. e : w[k].t = "kem" /\ w[k].for = n
  BY DEF Answer
<1>3. CASE k = 1
  BY <1>1, <1>2, <1>3
<1>4. CASE k # 1
  <2>1. k - 1 \in 1 .. e - 1 /\ k - 1 \in 1 .. Len(v) /\ (k - 1) + 1 = k
    BY <1>1, <1>4
  <2>2. v[k - 1] = w[k]
    BY <1>1, <2>1
  <2>3. Answer(v, e - 1, n)
    BY <1>2, <2>1, <2>2 DEF Answer
  <2> QED
    BY <2>3 DEF v
<1> QED
  BY <1>3, <1>4

(* The page takes the frame f it is at.                                    *)
Takes(f, p, j, ks, q, l, ls) ==
  /\ Stays(p, j, q, l)
  /\ f.t # "p4" => \A c, T : Held(p, j, ks, c, T) => Held(q, l, ls, c, T)
  /\ f.t = "kem" /\ f.for = p.hs => Answering(q, l)
  /\ f.t = "p4" /\ Answering(p, j) => \A T : Held(q, l, ls, f.chain, T)

LEMMA DueTaken ==
  ASSUME NEW w \in Seq(Frame), w # <<>>, NEW p, NEW j, NEW ks, NEW q, NEW l, NEW ls,
         Takes(Head(w), p, j, ks, q, l, ls), NEW e \in 0 .. Len(w), Due(p, j, w, e)
  PROVE  Due(q, l, Tail(w), e - 1)
BY AnswerTaken DEF Due, Takes, Stays

LEMMA ReachesTaken ==
  ASSUME NEW w \in Seq(Frame), w # <<>>, NEW p, NEW j, NEW ks, NEW q, NEW l, NEW ls,
         Takes(Head(w), p, j, ks, q, l, ls),
         NEW e \in 1 .. Len(w), NEW c, NEW T, Reaches(p, j, ks, w, e, c, T)
  PROVE  Reaches(q, l, ls, Tail(w), e - 1, c, T)
<1> DEFINE v == Tail(w)
           f == Head(w)
<1>1. /\ f = w[1] /\ Len(w) \in Nat /\ Len(v) = Len(w) - 1
      /\ \A k \in 1 .. Len(v) : v[k] = w[k + 1]
  BY LenProperties, EmptySeq, HeadTailProperties
<1>2. \A d \in 0 .. Len(w) : Due(p, j, w, d) => Due(q, l, v, d - 1)
  BY DueTaken
<1> SUFFICES Reaches(q, l, ls, v, e - 1, c, T)
  OBVIOUS
<1>3. Takes(f, p, j, ks, q, l, ls)
  OBVIOUS
<1> HIDE DEF v, f
<1>4. CASE Bare(w, e) /\ Held(p, j, ks, c, T)
  <2>1. Bare(v, e - 1)
    <3> SUFFICES ASSUME NEW k \in 1 .. e - 1 PROVE v[k].t # "p4"
      BY DEF Bare
    <3>1. k + 1 \in 1 .. e /\ v[k] = w[k + 1]
      BY <1>1
    <3> QED
      BY <1>4, <3>1 DEF Bare
  <2>2. Held(q, l, ls, c, T)
    <3>1. 1 \in 1 .. e
      OBVIOUS
    <3>2. f.t # "p4"
      BY <1>1, <1>4, <3>1 DEF Bare
    <3> QED
      BY <1>3, <1>4, <3>2 DEF Takes
  <2> QED
    BY <2>1, <2>2 DEF Reaches
<1>5. ASSUME NEW i \in 1 .. e, Carries(w, e, i, c), Due(p, j, w, i - 1)
      PROVE  Reaches(q, l, ls, v, e - 1, c, T)
  <2>1. \A k \in 1 .. e - 1 : k + 1 \in 1 .. e /\ v[k] = w[k + 1]
    BY <1>1
  <2>2. CASE i = 1
    <3>1. ~Answer(w, 0, p.hs)
      BY DEF Answer
    <3>2. Answering(p, j)
      BY <1>5, <2>2, <3>1 DEF Due
    <3>3. f.t = "p4" /\ f.chain = c
      BY <1>1, <1>5, <2>2 DEF Carries
    <3>4. Held(q, l, ls, c, T)
      BY <1>3, <3>2, <3>3 DEF Takes
    <3>5. Bare(v, e - 1)
      <4> SUFFICES ASSUME NEW k \in 1 .. e - 1 PROVE v[k].t # "p4"
        BY DEF Bare
      <4>1. i < k + 1
        BY <2>2
      <4> QED
        BY <1>5, <2>1, <4>1 DEF Carries
    <3> QED
      BY <3>4, <3>5 DEF Reaches
  <2>3. CASE i # 1
    <3>1. i - 1 \in 1 .. e - 1 /\ (i - 1) + 1 = i /\ i - 1 \in 0 .. Len(w)
      BY <1>1, <2>3
    <3>2. Due(q, l, v, (i - 1) - 1)
      BY <1>2, <1>5, <3>1
    <3>3. Carries(v, e - 1, i - 1, c)
      <4>1. v[i - 1] = w[i]
        BY <2>1, <3>1
      <4>2. ASSUME NEW k \in 1 .. e - 1, i - 1 < k PROVE v[k].t # "p4"
        <5>1. k + 1 \in 1 .. e /\ v[k] = w[k + 1] /\ i < k + 1
          BY <2>1, <4>2
        <5> QED
          BY <1>5, <5>1 DEF Carries
      <4> QED
        BY <1>5, <4>1, <4>2 DEF Carries
    <3> QED
      BY <3>1, <3>2, <3>3 DEF Reaches
  <2> QED
    BY <2>2, <2>3
<1> QED
  BY <1>4, <1>5 DEF Reaches

(* A frame is put behind the others.                                       *)
LEMMA DuePut ==
  ASSUME NEW w \in Seq(Frame), NEW f \in Frame, NEW p, NEW j, NEW e \in 0 .. Len(w), Due(p, j, w, e)
  PROVE  /\ Due(p, j, Append(w, f), e)
         /\ e = Len(w) => Due(p, j, Append(w, f), Len(Append(w, f)))
<1> DEFINE v == Append(w, f)
<1>1. /\ Len(w) \in Nat /\ Len(v) = Len(w) + 1 /\ \A k \in 1 .. Len(w) : v[k] = w[k]
  BY LenProperties, AppendProperties
<1> HIDE DEF v
<1>2. ASSUME Answer(w, e, p.hs)
      PROVE  Answer(v, e, p.hs) /\ (e = Len(w) => Answer(v, Len(v), p.hs))
  <2>1. PICK k \in 1 .. e : w[k].t = "kem" /\ w[k].for = p.hs
    BY <1>2 DEF Answer
  <2>2. v[k] = w[k] /\ k \in 1 .. Len(v)
    BY <1>1
  <2> QED
    BY <2>1, <2>2 DEF Answer
<1>3. Due(p, j, v, e) /\ (e = Len(w) => Due(p, j, v, Len(v)))
  BY <1>2 DEF Due
<1> QED
  BY <1>3 DEF v

LEMMA ReachesPut ==
  ASSUME NEW w \in Seq(Frame), NEW f \in Frame, NEW p, NEW j, NEW ks, NEW e \in 0 .. Len(w),
         NEW c, NEW T, Reaches(p, j, ks, w, e, c, T)
  PROVE  /\ Reaches(p, j, ks, Append(w, f), e, c, T)
         /\ e = Len(w) /\ f.t # "p4" => Reaches(p, j, ks, Append(w, f), Len(Append(w, f)), c, T)
<1> DEFINE v == Append(w, f)
<1>1. /\ Len(w) \in Nat /\ Len(v) = Len(w) + 1 /\ v[Len(w) + 1] = f
      /\ \A k \in 1 .. Len(w) : v[k] = w[k]
  BY LenProperties, AppendProperties
<1>2. \A d \in 0 .. Len(w) : Due(p, j, w, d) => Due(p, j, v, d)
  BY DuePut
<1> SUFFICES /\ Reaches(p, j, ks, v, e, c, T)
             /\ e = Len(w) /\ f.t # "p4" => Reaches(p, j, ks, v, Len(v), c, T)
  OBVIOUS
<1> HIDE DEF v
<1>3. CASE Bare(w, e) /\ Held(p, j, ks, c, T)
  <2>1. Bare(v, e) /\ (e = Len(w) /\ f.t # "p4" => Bare(v, Len(v)))
    BY <1>1, <1>3 DEF Bare
  <2> QED
    BY <1>3, <2>1 DEF Reaches
<1>4. ASSUME NEW i \in 1 .. e, Carries(w, e, i, c), Due(p, j, w, i - 1)
      PROVE  /\ Reaches(p, j, ks, v, e, c, T)
             /\ e = Len(w) /\ f.t # "p4" => Reaches(p, j, ks, v, Len(v), c, T)
  <2>1. Due(p, j, v, i - 1)
    BY <1>1, <1>2, <1>4
  <2>2. Carries(v, e, i, c) /\ (e = Len(w) /\ f.t # "p4" => Carries(v, Len(v), i, c))
    BY <1>1, <1>4 DEF Carries
  <2>3. i \in 1 .. Len(v)
    BY <1>1
  <2> QED
    BY <2>1, <2>2, <2>3 DEF Reaches
<1> QED
  BY <1>3, <1>4 DEF Reaches

(* A chain is put behind the others.                                       *)
LEMMA ReachesNext ==
  ASSUME NEW w \in Seq(Frame), NEW f \in Frame, f.t = "p4", NEW p, NEW j, NEW ks, NEW T,
         Due(p, j, w, Len(w))
  PROVE  Reaches(p, j, ks, Append(w, f), Len(Append(w, f)), f.chain, T)
<1> DEFINE v == Append(w, f)
           n == Len(w)
<1>1. n \in Nat /\ Len(v) = n + 1 /\ v[n + 1] = f
  BY LenProperties, AppendProperties
<1>2. Due(p, j, v, n)
  BY DuePut, LenProperties
<1> SUFFICES Reaches(p, j, ks, v, Len(v), f.chain, T)
  OBVIOUS
<1> HIDE DEF v, n
<1>3. Carries(v, n + 1, n + 1, f.chain)
  BY <1>1 DEF Carries
<1>4. n + 1 \in 1 .. n + 1 /\ (n + 1) - 1 = n
  BY <1>1
<1> QED
  BY <1>1, <1>2, <1>3, <1>4 DEF Reaches

----------------------------------------------------------------------------
(* What a page has of the other one's chains, and what is on its way: the  *)
(* page (p, j, ks, its wire w), the other's session T and chain c, and the *)
(* handlers h and m of the other one that hand out or seal.                *)
Past(s, n, T) == \A k \in Nat : <<s, k>> \in T => k <= n
Claim(s, p, j, ks, w, e, c, T) == Live(s, p, T) => Reaches(p, j, ks, w, e, c, T)
Bound(s, p, j, w, T) == Live(s, p, T) => Due(p, j, w, Len(w))
ReadableOf(s, p, j, ks, w, T, c, h, m) ==
  /\ \A i \in DOMAIN w : w[i].t = "room" => Claim(s, p, j, ks, w, i - 1, w[i].chain, w[i].session)
  /\ c.given => Claim(s, p, j, ks, w, Len(w), c.id, T)
  /\ m.at = "sealed" => Claim(s, p, j, ks, w, Len(w), m.chain, m.session)
  /\ m.at = "seal" /\ c.id # 0 => Claim(s, p, j, ks, w, Len(w), c.id, m.session)
  /\ h.at = "handing" => Bound(s, p, j, w, h.session)
  /\ m.at = "handing" => Bound(s, p, j, w, m.session)
(* The sessions in play are of handshakes the page began.                  *)
Named(s, n, T) == T # {} /\ Past(s, n, T)
NumberedOf(s, n, w, h, m) ==
  /\ \A i \in DOMAIN w : w[i].t = "room" => Named(s, n, w[i].session)
  /\ h.at = "handing" => Named(s, n, h.session)
  /\ m.at # "idle" => Named(s, n, m.session)

LEMMA PastStays ==
  ASSUME NEW s, NEW n \in Nat, NEW m \in Nat, n <= m, NEW T, Past(s, n, T)
  PROVE  Past(s, m, T)
BY DEF Past

LEMMA Wires ==
  ASSUME NEW w \in Seq(Frame)
  PROVE  /\ Len(w) \in Nat /\ DOMAIN w = 1 .. Len(w)
         /\ w # <<>> => /\ Head(w) = w[1] /\ Len(w) # 0
                        /\ Tail(w) \in Seq(Frame) /\ Len(Tail(w)) = Len(w) - 1
                        /\ \A k \in 1 .. Len(Tail(w)) : Tail(w)[k] = w[k + 1]
         /\ \A f \in Frame : /\ Append(w, f) \in Seq(Frame) /\ Len(Append(w, f)) = Len(w) + 1
                             /\ Append(w, f)[Len(w) + 1] = f
                             /\ \A k \in 1 .. Len(w) : Append(w, f)[k] = w[k]
<1>1. w # <<>> => /\ Head(w) = w[1] /\ Len(w) # 0
                  /\ Tail(w) \in Seq(Frame) /\ Len(Tail(w)) = Len(w) - 1
                  /\ \A k \in 1 .. Len(Tail(w)) : Tail(w)[k] = w[k + 1]
  BY LenProperties, EmptySeq, HeadTailProperties
<1>2. \A f \in Frame : /\ Append(w, f) \in Seq(Frame) /\ Len(Append(w, f)) = Len(w) + 1
                       /\ Append(w, f)[Len(w) + 1] = f
                       /\ \A k \in 1 .. Len(w) : Append(w, f)[k] = w[k]
  BY AppendProperties
<1> QED
  BY <1>1, <1>2, LenProperties

(* The page as receiver: it stays in its handshake, takes a frame in it,   *)
(* or leaves it.                                                           *)
LEMMA ReadableStays ==
  ASSUME NEW s, NEW p, NEW j, NEW ks, NEW q, NEW l, NEW ls, NEW w, NEW T, NEW c, NEW h, NEW m,
         ReadableOf(s, p, j, ks, w, T, c, h, m), Keeps(p, j, ks, q, l, ls)
  PROVE  ReadableOf(s, q, l, ls, w, T, c, h, m)
<1>1. \A e, d, X : Claim(s, p, j, ks, w, e, d, X) => Claim(s, q, l, ls, w, e, d, X)
  BY ReachesKept DEF Claim, Live, Keeps, Stays
<1>2. \A X : Bound(s, p, j, w, X) => Bound(s, q, l, w, X)
  BY DEF Bound, Live, Keeps, Stays, Due
<1> QED
  BY <1>1, <1>2 DEF ReadableOf

LEMMA ReadableTakes ==
  ASSUME NEW s, NEW p, NEW j, NEW ks, NEW q, NEW l, NEW ls, NEW w \in Seq(Frame), w # <<>>,
         NEW T, NEW c, NEW h, NEW m, ReadableOf(s, p, j, ks, w, T, c, h, m),
         Takes(Head(w), p, j, ks, q, l, ls)
  PROVE  ReadableOf(s, q, l, ls, Tail(w), T, c, h, m)
<1> DEFINE v == Tail(w)
<1>1. /\ Len(w) \in Nat \ {0} /\ DOMAIN w = 1 .. Len(w)
      /\ v \in Seq(Frame) /\ Len(v) = Len(w) - 1 /\ \A k \in 1 .. Len(v) : v[k] = w[k + 1]
  BY Wires
<1>2. DOMAIN v = 1 .. Len(v)
  BY <1>1, Wires
<1>3. \A e \in 1 .. Len(w) : \A d, X :
        Claim(s, p, j, ks, w, e, d, X) => Claim(s, q, l, ls, v, e - 1, d, X)
  BY ReachesTaken DEF Claim, Live, Takes, Stays
<1>5. \A X : Bound(s, p, j, w, X) => Bound(s, q, l, v, X)
  <2>1. Len(w) \in 0 .. Len(w) /\ q.hs = p.hs
    BY <1>1 DEF Takes, Stays
  <2>2. Due(p, j, w, Len(w)) => Due(q, l, v, Len(w) - 1)
    BY <2>1, DueTaken
  <2> HIDE DEF v
  <2> QED
    BY <1>1, <2>1, <2>2 DEF Bound, Live
<1> SUFFICES ReadableOf(s, q, l, ls, v, T, c, h, m)
  OBVIOUS
<1> HIDE DEF v
<1>6. Len(w) \in 1 .. Len(w) /\ Len(w) - 1 = Len(v)
  BY <1>1
<1>7. ASSUME NEW i \in DOMAIN v, v[i].t = "room"
      PROVE  Claim(s, q, l, ls, v, i - 1, v[i].chain, v[i].session)
  <2>1. i + 1 \in 1 .. Len(w) /\ v[i] = w[i + 1] /\ i \in 1 .. Len(w) /\ (i + 1) - 1 = i
    BY <1>1, <1>2
  <2>2. Claim(s, p, j, ks, w, (i + 1) - 1, w[i + 1].chain, w[i + 1].session)
    BY <1>1, <1>7, <2>1 DEF ReadableOf
  <2> QED
    BY <1>3, <2>1, <2>2
<1>8. \A d, X : Claim(s, p, j, ks, w, Len(w), d, X) => Claim(s, q, l, ls, v, Len(v), d, X)
  BY <1>3, <1>6
<1> QED
  BY <1>5, <1>7, <1>8 DEF ReadableOf

LEMMA ReadableLost ==
  ASSUME NEW s, NEW q, NEW l, NEW ls, NEW v, NEW T, NEW c, NEW h, NEW m,
         NEW n \in Nat, NumberedOf(s, n, v, h, m), Past(s, n, T),
         q.hs = 0 \/ q.hs = n + 1
  PROVE  ReadableOf(s, q, l, ls, v, T, c, h, m)
<1>1. \A X : Past(s, n, X) => ~Live(s, q, X)
  BY DEF Past, Live
<1>2. \A e, d, X : Past(s, n, X) => Claim(s, q, l, ls, v, e, d, X) /\ Bound(s, q, l, v, X)
  BY <1>1 DEF Claim, Bound
<1> QED
  BY <1>2 DEF ReadableOf, NumberedOf, Named

LEMMA ReadableNone ==
  ASSUME NEW s, NEW q, NEW l, NEW ls, NEW v, NEW T, NEW c, NEW h, NEW m, q.hs = 0
  PROVE  ReadableOf(s, q, l, ls, v, T, c, h, m)
BY DEF ReadableOf, Claim, Bound, Live

LEMMA NumberedTakes ==
  ASSUME NEW s, NEW n \in Nat, NEW k \in Nat, n <= k, NEW w \in Seq(Frame), NEW h, NEW m,
         NumberedOf(s, n, w, h, m), NEW v, v = w \/ (w # <<>> /\ v = Tail(w))
  PROVE  NumberedOf(s, k, v, h, m)
<1>1. \A X : Named(s, n, X) => Named(s, k, X)
  BY PastStays DEF Named
<1>2. \A i \in DOMAIN v : \E o \in DOMAIN w : v[i] = w[o]
  <2>1. CASE w # <<>> /\ v = Tail(w)
    <3>1. /\ Len(w) \in Nat /\ DOMAIN w = 1 .. Len(w) /\ v \in Seq(Frame)
          /\ Len(v) = Len(w) - 1 /\ \A i \in 1 .. Len(v) : v[i] = w[i + 1]
      BY <2>1, Wires
    <3>2. DOMAIN v = 1 .. Len(v)
      BY <3>1, Wires
    <3>3. ASSUME NEW i \in DOMAIN v PROVE i + 1 \in DOMAIN w /\ v[i] = w[i + 1]
      BY <3>1, <3>2
    <3> QED
      BY <3>3
  <2> QED
    BY <2>1
<1> QED
  BY <1>1, <1>2 DEF NumberedOf

(* The other page as sender.                                               *)
LEMMA ReadableSends ==
  ASSUME NEW s, NEW p, NEW j, NEW ks, NEW w \in Seq(Frame), NEW T, NEW c, NEW h, NEW m,
         ReadableOf(s, p, j, ks, w, T, c, h, m),
         NEW v, v = w \/ \E f \in Frame : /\ v = Append(w, f) /\ f.t # "p4"
                                          /\ f.t = "room" => Claim(s, p, j, ks, w, Len(w), f.chain, f.session),
         NEW U, NEW d, NEW g, NEW o,
         d.given => Claim(s, p, j, ks, w, Len(w), d.id, U),
         o.at = "sealed" => Claim(s, p, j, ks, w, Len(w), o.chain, o.session),
         o.at = "seal" /\ d.id # 0 => Claim(s, p, j, ks, w, Len(w), d.id, o.session),
         g.at = "handing" => Bound(s, p, j, w, g.session),
         o.at = "handing" => Bound(s, p, j, w, o.session)
  PROVE  ReadableOf(s, p, j, ks, v, U, d, g, o)
<1>1. CASE v = w
  BY <1>1 DEF ReadableOf
<1>2. ASSUME NEW f \in Frame, v = Append(w, f), f.t # "p4",
             f.t = "room" => Claim(s, p, j, ks, w, Len(w), f.chain, f.session)
      PROVE  ReadableOf(s, p, j, ks, v, U, d, g, o)
  <2>1. /\ Len(w) \in Nat /\ DOMAIN w = 1 .. Len(w) /\ DOMAIN v = 1 .. Len(v)
        /\ Len(v) = Len(w) + 1 /\ v[Len(w) + 1] = f
        /\ \A k \in 1 .. Len(w) : v[k] = w[k]
    BY <1>2, Wires
  <2>2. \A e \in 0 .. Len(w) : \A a, X :
          Claim(s, p, j, ks, w, e, a, X) => Claim(s, p, j, ks, v, e, a, X)
    BY <1>2, ReachesPut DEF Claim
  <2>3. \A a, X : Claim(s, p, j, ks, w, Len(w), a, X) => Claim(s, p, j, ks, v, Len(v), a, X)
    <3>1. Len(w) \in 0 .. Len(w)
      BY <2>1
    <3>2. \A a, X : Reaches(p, j, ks, w, Len(w), a, X) => Reaches(p, j, ks, v, Len(v), a, X)
      BY <1>2, <3>1, ReachesPut
    <3> QED
      BY <3>2 DEF Claim
  <2>4. \A X : Bound(s, p, j, w, X) => Bound(s, p, j, v, X)
    <3>1. Len(w) \in 0 .. Len(w)
      BY <2>1
    <3>2. Due(p, j, w, Len(w)) => Due(p, j, v, Len(v))
      BY <1>2, <3>1, DuePut
    <3> QED
      BY <3>2 DEF Bound
  <2>5. ASSUME NEW i \in DOMAIN v, v[i].t = "room"
        PROVE  Claim(s, p, j, ks, v, i - 1, v[i].chain, v[i].session)
    <3>1. CASE i = Len(w) + 1
      <4>1. i - 1 = Len(w) /\ Len(w) \in 0 .. Len(w) /\ v[i] = f
        BY <2>1, <3>1
      <4> QED
        BY <1>2, <2>2, <2>5, <4>1
    <3>2. CASE i \in DOMAIN w
      <4>1. i - 1 \in 0 .. Len(w) /\ v[i] = w[i]
        BY <2>1, <3>2
      <4>2. Claim(s, p, j, ks, w, i - 1, w[i].chain, w[i].session)
        BY <2>5, <3>2, <4>1 DEF ReadableOf
      <4> QED
        BY <2>2, <4>1, <4>2
    <3> QED
      BY <2>1, <3>1, <3>2
  <2> QED
    BY <2>3, <2>4, <2>5 DEF ReadableOf
<1> QED
  BY <1>1, <1>2

LEMMA ReadableHands ==
  ASSUME NEW s, NEW p, NEW j, NEW ks, NEW w \in Seq(Frame), NEW T, NEW c, NEW h, NEW m,
         ReadableOf(s, p, j, ks, w, T, c, h, m), NEW f \in Frame, f.t = "p4",
         NEW U, NEW d, NEW g, NEW o, d.id = f.chain, Bound(s, p, j, w, U),
         o.at = "seal" => Bound(s, p, j, w, o.session),
         o.at \in {"idle", "seal"}, g.at # "handing"
  PROVE  ReadableOf(s, p, j, ks, Append(w, f), U, d, g, o)
<1> DEFINE v == Append(w, f)
<1>1. /\ Len(w) \in Nat /\ DOMAIN w = 1 .. Len(w)
      /\ Len(v) = Len(w) + 1 /\ v[Len(w) + 1] = f /\ v \in Seq(Frame)
      /\ \A k \in 1 .. Len(w) : v[k] = w[k]
  BY Wires
<1>2. DOMAIN v = 1 .. Len(v)
  BY <1>1, Wires
<1>3. \A e \in 0 .. Len(w) : \A a, X :
        Claim(s, p, j, ks, w, e, a, X) => Claim(s, p, j, ks, v, e, a, X)
  BY ReachesPut DEF Claim
<1>4. \A X : Bound(s, p, j, w, X) => Claim(s, p, j, ks, v, Len(v), f.chain, X)
  BY ReachesNext DEF Bound, Claim
<1> SUFFICES ReadableOf(s, p, j, ks, v, U, d, g, o)
  OBVIOUS
<1> HIDE DEF v
<1>5. ASSUME NEW i \in DOMAIN v, v[i].t = "room"
      PROVE  Claim(s, p, j, ks, v, i - 1, v[i].chain, v[i].session)
  <2>1. i # Len(w) + 1
    BY <1>1, <1>5
  <2>2. i \in DOMAIN w /\ i - 1 \in 0 .. Len(w) /\ v[i] = w[i]
    BY <1>1, <1>2, <2>1
  <2>3. Claim(s, p, j, ks, w, i - 1, w[i].chain, w[i].session)
    BY <1>5, <2>2 DEF ReadableOf
  <2> QED
    BY <1>3, <2>2, <2>3
<1> QED
  BY <1>4, <1>5 DEF ReadableOf

LEMMA NumberedSends ==
  ASSUME NEW s, NEW n \in Nat, NEW w \in Seq(Frame), NEW h, NEW m, NumberedOf(s, n, w, h, m),
         NEW v, v = w \/ \E f \in Frame : v = Append(w, f) /\ (f.t = "room" => Named(s, n, f.session)),
         NEW g, NEW o,
         g.at = "handing" => Named(s, n, g.session),
         o.at # "idle" => Named(s, n, o.session)
  PROVE  NumberedOf(s, n, v, g, o)
<1>1. CASE v = w
  BY <1>1 DEF NumberedOf
<1>2. ASSUME NEW f \in Frame, v = Append(w, f), f.t = "room" => Named(s, n, f.session)
      PROVE  NumberedOf(s, n, v, g, o)
  <2>1. /\ Len(w) \in Nat /\ DOMAIN w = 1 .. Len(w) /\ v \in Seq(Frame)
        /\ Len(v) = Len(w) + 1 /\ v[Len(w) + 1] = f
        /\ \A k \in 1 .. Len(w) : v[k] = w[k]
    BY <1>2, Wires
  <2>2. DOMAIN v = 1 .. Len(v)
    BY <2>1, Wires
  <2>3. ASSUME NEW i \in DOMAIN v, v[i].t = "room" PROVE Named(s, n, v[i].session)
    <3>1. i = Len(w) + 1 \/ (i \in DOMAIN w /\ v[i] = w[i])
      BY <2>1, <2>2
    <3> QED
      BY <1>2, <2>1, <2>3, <3>1 DEF NumberedOf
  <2> QED
    BY <2>3 DEF NumberedOf
<1> QED
  BY <1>1, <1>2

(* A page that answers has answered the hello of the handshake the other   *)
(* page is in, which got that answer or has it on its wire, or of the one  *)
(* before it.                                                              *)
LEMMA RoundAnswered ==
  ASSUME NEW x, NEW y, Sane(x), Sane(y), NEW wx, NEW wy, RoundOf(x, y, wx, wy), x.answered
  PROVE  \/ /\ y.turn = x.acc /\ ~y.pending
            /\ y.answered \/ Shape(wy, <<KemFrame(x.turn, y.turn)>>)
         \/ y.turn = x.acc + 1 /\ y.live
<1>1. /\ x.acc # 0 /\ x.took = x.acc /\ x.live /\ ~x.dead
      /\ y.acc # 0 => y.took = y.acc /\ ~y.pending /\ ~y.dead
  BY DEF Sane
<1>2. CASE SameOf(x, y, wx, wy)
  <2>1. y.turn = x.acc /\ y.acc # 0
    BY <1>1, <1>2 DEF SameOf, WayOf
  <2>2. y.answered \/ Shape(wy, <<KemFrame(x.turn, y.turn)>>)
    BY <1>1, <1>2, <2>1 DEF SameOf, WayOf
  <2> QED
    BY <1>1, <2>1, <2>2
<1>3. ~AheadOf(x, y, wx, wy)
  BY <1>1 DEF AheadOf
<1>4. AheadOf(y, x, wy, wx) => y.turn = x.acc + 1 /\ y.live
  BY DEF AheadOf
<1> QED
  BY <1>2, <1>3, <1>4 DEF RoundOf

LEMMA ShapeOne ==
  ASSUME NEW w \in Seq(Frame), NEW f, Shape(w, <<f>>)
  PROVE  \E k \in 1 .. Len(w) : w[k] = f
<1>1. DOMAIN <<f>> = {1} /\ <<f>>[1] = f
  OBVIOUS
<1>2. PICK at \in [DOMAIN <<f>> -> DOMAIN w] : \A i \in DOMAIN <<f>> : w[at[i]] = <<f>>[i]
  BY DEF Shape
<1>3. at[1] \in DOMAIN w /\ w[at[1]] = f
  BY <1>1, <1>2
<1> QED
  BY <1>3, LenProperties

LEMMA JointNumbers ==
  ASSUME NEW s \in Pages, NEW n, NEW a, NEW k, <<Other(s), k>> \in Joint(s, n, a)
  PROVE  k = a
<1> DEFINE o == Other(s)
<1>1. o # s
  BY TwoPages
<1>2. <<o, k>> \in {<<s, n>>, <<o, a>>, <<s, n, a>>, <<o, a, n>>}
  BY DEF Joint
<1> HIDE DEF o
<1>3. <<o, k>> # <<s, n>>
  BY <1>1
<1>4. \A x, y, z : <<o, k>> # <<x, y, z>>
  <2> SUFFICES ASSUME NEW x, NEW y, NEW z, <<o, k>> = <<x, y, z>> PROVE FALSE
    OBVIOUS
  <2>1. Len(<<o, k>>) = 2 /\ Len(<<x, y, z>>) = 3
    OBVIOUS
  <2> QED
    BY <2>1
<1>5. <<o, k>> = <<o, a>>
  BY <1>2, <1>3, <1>4
<1> QED
  BY <1>5

(* A page is in a handshake only on an open channel, in its last one.      *)
LEMMA InHandshake ==
  ASSUME Typed, Paired, NEW s \in Pages
  PROVE  /\ peer[s].hs # 0 => /\ up[s] /\ ~fresh[s] /\ ~peer[s].closed
                              /\ peer[s].hs = Len(shake[s]) /\ peer[s].protocol # "refused"
         /\ peer[s].session # {} \/ job[s] # Idle => up[s] /\ peer[s].hs # 0
         /\ Len(shake[s]) \in Nat
<1> DEFINE n == Len(shake[s])
<1>1. PageOf(s, peer[s], n, shake[s][n], starting[s], job[s], up[s], fresh[s])
  BY DEF Paired, Local
<1>2. n \in Nat
  BY LocalTypes
<1> HIDE DEF n
<1>3. peer[s].hs # 0 => up[s] /\ ~fresh[s] /\ ~peer[s].closed
  BY <1>1 DEF PageOf
<1>4. peer[s].hs # 0 => peer[s].hs = n /\ peer[s].protocol # "refused"
  BY <1>1, <1>3 DEF PageOf
<1>5. peer[s].session # {} \/ job[s] # Idle => up[s] /\ ~fresh[s] /\ ~peer[s].closed
  BY <1>1 DEF PageOf
<1>6. peer[s].session # {} \/ job[s] # Idle => peer[s].hs # 0
  BY <1>1, <1>5 DEF PageOf
<1> QED
  BY <1>2, <1>3, <1>4, <1>5, <1>6 DEF n

LEMMA JointBound ==
  ASSUME Typed, Paired, NEW s \in Pages, up[s], NEW n, NEW o, o = Other(s),
         Answering(peer[o], job[o]), NEW T, T = Joint(o, n, peer[o].accepted)
  PROVE  /\ Past(s, Len(shake[s]), T)
         /\ Bound(s, peer[s], job[s], wire[s], T)
<1> DEFINE x == View(o)
           y == View(s)
           a == peer[o].accepted
           N == Len(shake[s])
           w == wire[s]
<1>1. o \in Pages /\ Other(o) = s /\ w \in Seq(Frame)
  BY TwoPages, LocalTypes
<1>2. up[o]
  <2>1. Answering(peer[o], job[o]) => peer[o].session # {} \/ job[o] # Idle
    BY DEF Answering, Idle
  <2> QED
    BY <1>1, <2>1, InHandshake
<1>3. Sane(x) /\ Sane(y) /\ RoundOf(x, y, wire[o], w)
  BY <1>1, <1>2, SaneView DEF Paired, Rounded
<1>4. x.answered /\ x.acc = a
  BY <1>1, ViewFields DEF Answering
<1>5. /\ N \in Nat /\ fresh[s] \in BOOLEAN
      /\ y.turn = N + (IF fresh[s] THEN 1 ELSE 0)
      /\ ~y.pending \/ y.live => ~fresh[s]
      /\ y.answered => Answering(peer[s], job[s])
  BY LocalTypes, ViewFields DEF Answering
<1>6. a \in Nat
  BY <1>1, LocalTypes DEF PeerState
<1>7. \A k : <<s, k>> \in T => k = a
  BY <1>1, JointNumbers
<1>8. x.turn \in Nat /\ y.turn \in Nat
  BY <1>3, SaneFacts
<1> SUFFICES Past(s, N, T) /\ Bound(s, peer[s], job[s], w, T)
  OBVIOUS
<1>9. peer[s].hs # 0 => peer[s].hs = N
  BY InHandshake
<1> HIDE DEF x, y, a, N, w
<1>10. \/ y.turn = a /\ ~y.pending /\ (y.answered \/ Shape(w, <<KemFrame(x.turn, y.turn)>>))
       \/ y.turn = a + 1 /\ y.live
  BY <1>3, <1>4, RoundAnswered
<1>11. N = y.turn /\ (N = a \/ N = a + 1)
  BY <1>5, <1>6, <1>10
<1>12. Past(s, N, T)
  BY <1>6, <1>7, <1>11 DEF Past
<1>13. Bound(s, peer[s], job[s], w, T)
  <2> SUFFICES ASSUME peer[s].hs # 0, <<s, peer[s].hs>> \in T
               PROVE  Due(peer[s], job[s], w, Len(w))
    BY DEF Bound, Live
  <2>1. peer[s].hs = a /\ peer[s].hs = y.turn
    BY <1>7, <1>9, <1>11
  <2>2. y.answered \/ Shape(w, <<KemFrame(x.turn, y.turn)>>)
    BY <1>6, <1>10, <2>1
  <2>3. CASE Shape(w, <<KemFrame(x.turn, y.turn)>>)
    <3>1. PICK k \in 1 .. Len(w) : w[k] = KemFrame(x.turn, y.turn)
      BY <1>1, <2>3, ShapeOne
    <3>2. w[k].t = "kem" /\ w[k].for = peer[s].hs
      BY <1>8, <2>1, <3>1, ControlFrames
    <3> QED
      BY <3>2 DEF Due, Answer
  <2> QED
    BY <1>5, <2>2, <2>3 DEF Due
<1> QED
  BY <1>12, <1>13

LEMMA SessionBound ==
  ASSUME Typed, Paired, NEW s \in Pages, up[s]
  PROVE  LET T == peer[Other(s)].session IN
         Past(s, Len(shake[s]), T) /\ Bound(s, peer[s], job[s], wire[s], T)
<1> DEFINE o == Other(s)
           T == peer[o].session
<1>1. o \in Pages
  BY TwoPages
<1>2. CASE T = {}
  BY <1>2 DEF Past, Bound, Live
<1>3. CASE T # {}
  <2>1. T = Joint(o, Len(shake[o]), peer[o].accepted)
    BY <1>1, <1>3 DEF Paired, Local, PageOf
  <2>2. Answering(peer[o], job[o])
    BY <1>3 DEF Answering
  <2> QED
    BY <2>1, <2>2, JointBound
<1> QED
  BY <1>2, <1>3

----------------------------------------------------------------------------
(* Of the model.                                                           *)
Readable(s) ==
  LET o == Other(s) IN
  up[s] =>
    /\ ReadableOf(s, peer[s], job[s], kept[s], wire[s], peer[o].session, chain[o], job[o], send[o])
    /\ NumberedOf(s, Len(shake[s]), wire[s], job[o], send[o])
(* While a chain is handed out it is the one there is, and no other        *)
(* handler touches it; a frame is opened in the session there is.          *)
Steady(s) ==
  /\ job[s].at = "handing" => chain[s] = [id |-> job[s].id, given |-> FALSE] /\ send[s] = Idle
  /\ send[s].at = "handing" => chain[s] = [id |-> send[s].id, given |-> FALSE]
  /\ job[s].at = "open" => job[s].with = peer[s].session
Delivering == \A s \in Pages : Readable(s) /\ Steady(s)

(* A step of s: nothing of the other page but its wire.                    *)
Alone(s) ==
  /\ Aside(s) /\ up'[s] = up[s] /\ Len(shake'[s]) \in {Len(shake[s]), Len(shake[s]) + 1}
  /\ \A t \in Pages : t # s => chain'[t] = chain[t] /\ send'[t] = send[t] /\ kept'[t] = kept[t]
Received(s) ==
  \/ /\ wire'[s] = wire[s]
     /\ Keeps(peer[s], job[s], kept[s], peer'[s], job'[s], kept'[s])
  \/ /\ wire[s] # <<>> /\ wire'[s] = Tail(wire[s])
     /\ Takes(Head(wire[s]), peer[s], job[s], kept[s], peer'[s], job'[s], kept'[s])
  \/ /\ wire'[s] = wire[s] \/ (wire[s] # <<>> /\ wire'[s] = Tail(wire[s]))
     /\ peer'[s].hs \in {0, Len(shake[s]) + 1}

LEMMA ReceivedReadable ==
  ASSUME Typed, Paired, NEW s \in Pages, Readable(s), Alone(s), Received(s)
  PROVE  Readable(s)'
<1> DEFINE o == Other(s)
           T == peer[o].session
           n == Len(shake[s])
           k == Len(shake'[s])
           w == wire[s]
           v == wire'[s]
           c == chain[o]
           h == job[o]
           m == send[o]
<1>1. o \in Pages /\ o # s /\ w \in Seq(Frame) /\ n \in Nat
  BY TwoPages, LocalTypes
<1>2. /\ peer'[o].session = T /\ chain'[o] = c /\ job'[o] = h /\ send'[o] = m
      /\ up'[s] = up[s] /\ k \in Nat /\ n <= k
  BY <1>1 DEF Alone, Aside
<1>3. CASE ~up[s]
  BY <1>2, <1>3 DEF Readable
<1>4. CASE up[s]
  <2> DEFINE p == peer[s]
             j == job[s]
             ks == kept[s]
             q == peer'[s]
             l == job'[s]
             ls == kept'[s]
  <2>1. ReadableOf(s, p, j, ks, w, T, c, h, m) /\ NumberedOf(s, n, w, h, m) /\ Past(s, n, T)
    BY <1>4, SessionBound DEF Readable
  <2>2. v = w \/ (w # <<>> /\ v = Tail(w))
    BY DEF Received
  <2>3. \/ v = w /\ Keeps(p, j, ks, q, l, ls)
        \/ w # <<>> /\ v = Tail(w) /\ Takes(Head(w), p, j, ks, q, l, ls)
        \/ q.hs = 0 \/ q.hs = n + 1
    BY DEF Received
  <2>4. Readable(s)' <=> ReadableOf(s, q, l, ls, v, T, c, h, m) /\ NumberedOf(s, k, v, h, m)
    BY <1>2, <1>4 DEF Readable
  <2> HIDE DEF p, j, ks, q, l, ls, T, n, k, w, v, c, h, m
  <2>5. NumberedOf(s, k, v, h, m) /\ NumberedOf(s, n, v, h, m)
    BY <1>1, <1>2, <2>1, <2>2, NumberedTakes
  <2>6. ReadableOf(s, q, l, ls, v, T, c, h, m)
    <3>1. CASE v = w /\ Keeps(p, j, ks, q, l, ls)
      BY <2>1, <3>1, ReadableStays
    <3>2. CASE w # <<>> /\ v = Tail(w) /\ Takes(Head(w), p, j, ks, q, l, ls)
      BY <1>1, <2>1, <3>2, ReadableTakes
    <3>3. CASE q.hs = 0 \/ q.hs = n + 1
      BY <1>1, <2>1, <2>5, <3>3, ReadableLost
    <3> QED
      BY <2>3, <3>1, <3>2, <3>3
  <2> QED
    BY <2>4, <2>5, <2>6
<1> QED
  BY <1>3, <1>4

----------------------------------------------------------------------------
(* A step of s that the other page sees nothing of but, maybe, a frame of  *)
(* the handshake.                                                          *)
Calm(s) ==
  LET o == Other(s) IN
  /\ chain'[s] = chain[s] /\ send'[s] = send[s]
  /\ peer'[s].session = peer[s].session \/ peer'[s].session = {}
  /\ job'[s].at = "handing" => job'[s] = job[s]
  /\ wire'[o] = wire[o] \/ \E f \in Frame : f.t \in Control /\ wire'[o] = Append(wire[o], f)

LEMMA SentReadable ==
  ASSUME NEW s \in Pages, Alone(s), NEW o, o = Other(s),
         up[o] =>
           /\ ReadableOf(o, peer[o], job[o], kept[o], wire'[o], peer'[s].session, chain'[s], job'[s], send'[s])
           /\ NumberedOf(o, Len(shake[o]), wire'[o], job'[s], send'[s])
  PROVE  Readable(o)'
<1>1. o \in Pages /\ o # s /\ Other(o) = s
  BY TwoPages
<1>2. /\ peer'[o] = peer[o] /\ job'[o] = job[o] /\ kept'[o] = kept[o]
      /\ shake'[o] = shake[o] /\ up'[o] = up[o]
  BY <1>1 DEF Alone, Aside
<1> QED
  BY <1>1, <1>2 DEF Readable

LEMMA CalmReadable ==
  ASSUME Typed, NEW s \in Pages, Alone(s), Calm(s), Readable(Other(s))
  PROVE  Readable(Other(s))'
<1> DEFINE o == Other(s)
           p == peer[o]
           j == job[o]
           ks == kept[o]
           w == wire[o]
           v == wire'[o]
           T == peer[s].session
           U == peer'[s].session
           c == chain[s]
           h == job[s]
           g == job'[s]
           m == send[s]
           n == Len(shake[o])
<1>1. o \in Pages /\ Other(o) = s /\ w \in Seq(Frame)
  BY TwoPages, LocalTypes
<1>2. /\ chain'[s] = c /\ send'[s] = m /\ (U = T \/ U = {})
      /\ g.at = "handing" => g = h
      /\ v = w \/ \E f \in Frame : f.t \in Control /\ v = Append(w, f)
  BY DEF Calm
<1>3. \A f \in Frame : f.t \in Control => f.t # "p4" /\ f.t # "room"
  BY DEF Control
<1>4. SUFFICES ASSUME up[o]
               PROVE  ReadableOf(o, p, j, ks, v, U, c, g, m) /\ NumberedOf(o, n, v, g, m)
  BY <1>2, SentReadable
<1>5. ReadableOf(o, p, j, ks, w, T, c, h, m) /\ NumberedOf(o, n, w, h, m)
  BY <1>1, <1>4 DEF Readable
<1> HIDE DEF o, p, j, ks, w, v, T, U, c, h, g, m, n
<1>6. c.given => Claim(o, p, j, ks, w, Len(w), c.id, U)
  <2>1. CASE U = {}
    BY <2>1 DEF Claim, Live
  <2>2. CASE U = T
    BY <1>5, <2>2 DEF ReadableOf
  <2> QED
    BY <1>2, <2>1, <2>2
<1>7. /\ m.at = "sealed" => Claim(o, p, j, ks, w, Len(w), m.chain, m.session)
      /\ m.at = "seal" /\ c.id # 0 => Claim(o, p, j, ks, w, Len(w), c.id, m.session)
      /\ g.at = "handing" => Bound(o, p, j, w, g.session)
      /\ m.at = "handing" => Bound(o, p, j, w, m.session)
  BY <1>2, <1>5 DEF ReadableOf
<1>8. /\ g.at = "handing" => Named(o, n, g.session)
      /\ m.at # "idle" => Named(o, n, m.session)
  BY <1>2, <1>5 DEF NumberedOf
<1>9. v = w \/ \E f \in Frame : /\ v = Append(w, f) /\ f.t # "p4"
                                /\ f.t = "room" => Claim(o, p, j, ks, w, Len(w), f.chain, f.session)
  BY <1>2, <1>3
<1>10. v = w \/ \E f \in Frame : v = Append(w, f) /\ (f.t = "room" => Named(o, n, f.session))
  BY <1>2, <1>3
<1>11. ReadableOf(o, p, j, ks, v, U, c, g, m)
  BY <1>1, <1>5, <1>6, <1>7, <1>9, ReadableSends
<1>12. NumberedOf(o, n, v, g, m)
  <2>1. n \in Nat
    BY <1>1, LocalTypes DEF n
  <2> QED
    BY <1>1, <1>5, <1>8, <1>10, <2>1, NumberedSends
<1> QED
  BY <1>11, <1>12

LEMMA SteadyAside ==
  ASSUME NEW s \in Pages, Alone(s), Steady(Other(s))
  PROVE  Steady(Other(s))'
<1> DEFINE o == Other(s)
<1>1. o \in Pages /\ o # s
  BY TwoPages
<1>2. peer'[o] = peer[o] /\ job'[o] = job[o] /\ chain'[o] = chain[o] /\ send'[o] = send[o]
  BY <1>1 DEF Alone, Aside
<1> QED
  BY <1>2 DEF Steady

LEMMA Delivers ==
  ASSUME NEW s \in Pages, Delivering, Alone(s), Readable(s)', Readable(Other(s))', Steady(s)'
  PROVE  Delivering'
<1>1. Other(s) \in Pages /\ \A t \in Pages : t = s \/ t = Other(s)
  BY TwoPages
<1>2. Steady(Other(s))'
  BY <1>1, SteadyAside DEF Delivering
<1> SUFFICES ASSUME NEW t \in Pages PROVE Readable(t)' /\ Steady(t)'
  BY DEF Delivering
<1> QED
  BY <1>1, <1>2

LEMMA CalmDelivers ==
  ASSUME Typed, Paired, Delivering, NEW s \in Pages, Alone(s), Calm(s), Received(s),
         job'[s].at = "open" => job'[s].with = peer'[s].session
  PROVE  Delivering'
<1>1. Readable(s) /\ Readable(Other(s)) /\ Steady(s)
  BY TwoPages DEF Delivering
<1>2. Readable(s)' /\ Readable(Other(s))'
  BY <1>1, ReceivedReadable, CalmReadable
<1>3. Steady(s)'
  BY <1>1 DEF Steady, Calm
<1> QED
  BY <1>2, <1>3, Delivers

(* Nothing of what the page is asked for changes.                          *)
LEMMA KeepsSame ==
  ASSUME NEW p, NEW j, NEW ks, NEW q, NEW l, q.hs = p.hs, q.session = p.session, q.failed = p.failed,
         l = j \/ (j.at # "open" /\ l.at # "open"), Answering(p, j) => Answering(q, l)
  PROVE  Keeps(p, j, ks, q, l, ks)
BY DEF Keeps, Stays, Held
LEMMA KeepsNothing ==
  ASSUME NEW p, NEW j, NEW ks, NEW q, NEW l, NEW ls, q.hs = p.hs, p.session = {},
         Answering(p, j) => Answering(q, l)
  PROVE  Keeps(p, j, ks, q, l, ls)
BY DEF Keeps, Stays, Held
LEMMA TakesOther ==
  ASSUME NEW f, f.t # "kem", f.t # "p4", NEW p, NEW j, NEW ks, NEW q, NEW l, NEW ls,
         Keeps(p, j, ks, q, l, ls)
  PROVE  Takes(f, p, j, ks, q, l, ls)
BY DEF Keeps, Takes

(* What a step of s leaves alone when it makes, hands out and keeps no     *)
(* chain.                                                                  *)
Beside(s) ==
  LET o == Other(s) IN
  /\ Aside(s) /\ UNCHANGED <<up, chain, send>>
  /\ \A t \in Pages : t # s => kept'[t] = kept[t]
  /\ wire'[o] = wire[o] \/ \E f \in Frame : f.t \in Control /\ wire'[o] = Append(wire[o], f)

(* At the desk: the page stays in its handshake and with its session.      *)
LEMMA DeskDelivers ==
  ASSUME Typed, Paired, Delivering, NEW s \in Pages, Beside(s),
         kept'[s] = kept[s], Len(shake'[s]) = Len(shake[s]),
         peer'[s].hs = peer[s].hs, peer'[s].session = peer[s].session, peer'[s].failed = peer[s].failed,
         job'[s] = job[s] \/ (job[s].at # "open" /\ job'[s].at \notin {"open", "handing"}),
         Answering(peer[s], job[s]) => Answering(peer'[s], job'[s]),
         \/ wire'[s] = wire[s]
         \/ /\ wire[s] # <<>> /\ wire'[s] = Tail(wire[s]) /\ Head(wire[s]).t # "p4"
            /\ Head(wire[s]).t = "kem" => Answering(peer'[s], job'[s])
  PROVE  Delivering'
<1>1. Alone(s)
  BY DEF Alone, Beside
<1>2. Calm(s)
  BY DEF Calm, Beside
<1>3. job'[s].at = "open" => job'[s].with = peer'[s].session
  <2>1. Steady(s)
    BY DEF Delivering
  <2> QED
    BY <2>1 DEF Steady
<1>4. Received(s)
  <2> DEFINE p == peer[s]
             j == job[s]
             ks == kept[s]
             q == peer'[s]
             l == job'[s]
             f == Head(wire[s])
  <2>1. Keeps(p, j, ks, q, l, ks)
    <3> HIDE DEF p, j, ks, q, l
    <3>1. l = j \/ (j.at # "open" /\ l.at # "open")
      BY DEF p, j, ks, q, l
    <3>2. q.hs = p.hs /\ q.session = p.session /\ q.failed = p.failed
      BY DEF p, j, ks, q, l
    <3>3. Answering(p, j) => Answering(q, l)
      BY DEF p, j, ks, q, l
    <3> QED
      BY <3>1, <3>2, <3>3, KeepsSame
  <2>2. ASSUME f.t # "p4", f.t = "kem" => Answering(q, l)
        PROVE  Takes(f, p, j, ks, q, l, ks)
    <3> HIDE DEF p, j, ks, q, l, f
    <3> QED
      BY <2>1, <2>2 DEF Takes, Keeps
  <2> QED
    BY <2>1, <2>2 DEF Received
<1> QED
  BY <1>1, <1>2, <1>3, <1>4, CalmDelivers

(* Another handshake, or none.                                             *)
LEMMA OverDelivers ==
  ASSUME Typed, Paired, Delivering, NEW s \in Pages, Beside(s),
         Len(shake'[s]) \in {Len(shake[s]), Len(shake[s]) + 1},
         peer'[s].hs \in {0, Len(shake[s]) + 1}, peer'[s].session = {},
         job'[s].at \notin {"open", "handing"},
         wire'[s] = wire[s] \/ (wire[s] # <<>> /\ wire'[s] = Tail(wire[s]))
  PROVE  Delivering'
<1>1. Alone(s)
  BY DEF Alone, Beside
<1>2. Calm(s)
  BY DEF Calm, Beside
<1>3. Received(s)
  BY DEF Received
<1> QED
  BY <1>1, <1>2, <1>3, CalmDelivers

LEMMA BesideSame ==
  ASSUME NEW s \in Pages, UNCHANGED <<chain, send, kept, up, fresh>>,
         \A t \in Pages : t # s => /\ peer'[t] = peer[t] /\ shake'[t] = shake[t]
                                   /\ starting'[t] = starting[t] /\ job'[t] = job[t],
         LET o == Other(s) IN
         wire'[o] = wire[o] \/ \E f \in Frame : f.t \in Control /\ wire'[o] = Append(wire[o], f)
  PROVE  Beside(s)
BY DEF Beside, Aside

LEMMA PutBeside ==
  ASSUME Typed, NEW s \in Pages, NEW f \in Frame, f.t \in Control, Sends(s, f)
  PROVE  LET o == Other(s) IN
         /\ wire'[s] = wire[s]
         /\ wire'[o] = wire[o] \/ \E g \in Frame : g.t \in Control /\ wire'[o] = Append(wire[o], g)
BY WirePut

LEMMA StartedDelivers ==
  ASSUME Typed, Paired, Delivering, NEW s \in Pages, NEW h \in starting[s], Started(s, h)
  PROVE  Delivering'
<1> DEFINE f == [t |-> "hello", h |-> h]
           j == job[s]
<1>1. f \in Frame /\ f.t \in Control
  BY LocalTypes, FrameTypes DEF Control
<1>2. /\ Sends(s, f) /\ UNCHANGED <<peer, chain, kept, up, fresh, send>>
      /\ job' = [job EXCEPT ![s] = IF @.at \in {"await", "kem"} /\ @.hs = h THEN Woken(@) ELSE @]
  BY DEF Started, keys, channel
<1>3. \A t \in Pages : Len(shake'[t]) = Len(shake[t])
  BY StartedPaired
<1>4. \A t \in Pages : t # s => /\ shake'[t] = shake[t] /\ starting'[t] = starting[t] /\ job'[t] = job[t]
  BY DEF Started, Typed, Handshakes, Handlers
<1>5. job'[s] = j \/ (j.at \in {"await", "kem"} /\ job'[s] = Woken(j))
  BY <1>2 DEF Typed, Handlers
<1>6. j.at \in {"await", "kem"} => Woken(j).at = IF j.at = "await" THEN "accept" ELSE "take"
  <2>1. j \in Job
    BY LocalTypes
  <2> QED
    BY <2>1 DEF Job, HandingOut, Woken
<1> HIDE DEF f, j
<1>7. /\ wire'[s] = wire[s]
      /\ LET o == Other(s) IN
         wire'[o] = wire[o] \/ \E g \in Frame : g.t \in Control /\ wire'[o] = Append(wire[o], g)
  BY <1>1, <1>2, PutBeside
<1>8. Beside(s)
  BY <1>2, <1>4, <1>7, BesideSame
<1>9. /\ job'[s] = j \/ (j.at # "open" /\ job'[s].at \notin {"open", "handing"})
      /\ Answering(peer[s], j) => Answering(peer'[s], job'[s])
  BY <1>2, <1>5, <1>6 DEF Answering
<1> QED
  BY <1>2, <1>3, <1>7, <1>8, <1>9, DeskDelivers DEF j

LEMMA DecideDelivers ==
  ASSUME Typed, Paired, Delivering, NEW s \in Pages, DecideHello(s)
  PROVE  Delivering'
<1>1. UNCHANGED <<peer, shake>>
  BY DecidePaired
<1>2. UNCHANGED <<chain, kept, up, fresh, wire, send>> /\ job[s].at = "hello"
  BY DEF DecideHello, keys, channel
<1>3. \A t \in Pages : t # s => starting'[t] = starting[t] /\ job'[t] = job[t]
  BY DEF DecideHello, Do, Begin, StartOver, Typed, Handshakes, Handlers
<1>4. job'[s].at \in {"idle", "await"}
  BY DEF DecideHello, Do, Typed, Handlers, Idle
<1>5. Beside(s)
  BY <1>1, <1>2, <1>3, BesideSame
<1>6. Answering(peer[s], job[s]) => Answering(peer'[s], job'[s])
  BY <1>1, <1>2 DEF Answering
<1> QED
  BY <1>1, <1>2, <1>4, <1>5, <1>6, DeskDelivers

LEMMA AwaitedHelloDelivers ==
  ASSUME Typed, Paired, Delivering, NEW s \in Pages, AwaitedHello(s) \/ StartedOver(s)
  PROVE  Delivering'
<1>1. /\ UNCHANGED <<peer, shake, starting, chain, kept, up, fresh, wire, send>>
      /\ job[s].at \in {"await", "restart"}
      /\ \A t \in Pages : t # s => job'[t] = job[t]
  BY DEF AwaitedHello, StartedOver, Do, Typed, Handlers, keys, channel
<1>2. job'[s].at \in {"idle", "accept"}
  <2> DEFINE a == [job[s] EXCEPT !.at = "accept"]
  <2>1. job[s] \in Job
    BY LocalTypes
  <2>2. job[s].at = "await" => a.at = "accept"
    BY <2>1 DEF Job, HandingOut
  <2>3. job'[s] = Idle \/ (job[s].at = "await" /\ job'[s] = a)
    BY DEF AwaitedHello, StartedOver, Do, Typed, Handlers
  <2> HIDE DEF a
  <2>4. Idle.at = "idle"
    BY DEF Idle
  <2> QED
    BY <2>2, <2>3, <2>4
<1>3. Beside(s)
  BY <1>1, BesideSame
<1>4. Answering(peer[s], job[s]) => Answering(peer'[s], job'[s])
  BY <1>1 DEF Answering
<1> QED
  BY <1>1, <1>2, <1>3, <1>4, DeskDelivers

LEMMA AcceptHelloDelivers ==
  ASSUME Typed, Paired, Delivering, NEW s \in Pages, AcceptHello(s)
  PROVE  Delivering'
<1> DEFINE f == [t |-> "kem", by |-> job[s].hs, for |-> job[s].h]
<1>1. /\ Sends(s, f) /\ UNCHANGED <<starting, chain, kept, up, fresh, send>> /\ job[s].at = "accept"
  BY DEF AcceptHello, keys, channel
<1>2. f \in Frame /\ f.t \in Control
  <2>1. job[s].h \in Nat
    BY <1>1, LocalTypes, JobCases
  <2>2. job[s].hs \in DOMAIN shake[s]
    BY <1>1 DEF Typed, Handshakes, Shaken
  <2>3. job[s].hs \in Nat
    BY <2>2, LocalTypes
  <2> QED
    BY <2>1, <2>3, FrameTypes DEF Control
<1>3. \A t \in Pages : Len(shake'[t]) = Len(shake[t])
  BY AcceptHelloPaired
<1>4. /\ \A t \in Pages : t # s => peer'[t] = peer[t] /\ shake'[t] = shake[t] /\ job'[t] = job[t]
      /\ job'[s].at \in {"idle", "establish"}
  BY DEF AcceptHello, Goes, Do, Idle, Typed, Handshakes, Handlers
<1>5. /\ peer'[s].hs = peer[s].hs /\ peer'[s].session = peer[s].session
      /\ peer'[s].failed = peer[s].failed
  <2>1. peer[s] \in PeerState
    BY LocalTypes
  <2> QED
    BY <2>1 DEF AcceptHello, Typed, Handshakes, PeerState
<1> HIDE DEF f
<1>6. /\ wire'[s] = wire[s]
      /\ LET o == Other(s) IN
         wire'[o] = wire[o] \/ \E g \in Frame : g.t \in Control /\ wire'[o] = Append(wire[o], g)
  BY <1>1, <1>2, PutBeside
<1>7. Beside(s)
  BY <1>1, <1>4, <1>6, BesideSame
<1>8. Answering(peer[s], job[s]) => Answering(peer'[s], job'[s])
  BY <1>1, <1>5 DEF Answering
<1> QED
  BY <1>1, <1>3, <1>4, <1>5, <1>6, <1>7, <1>8, DeskDelivers

LEMMA PopBeside ==
  ASSUME Typed, NEW s \in Pages, NEW t, Next4(s, t), wire' = Popped(s)
  PROVE  /\ wire[s] # <<>> /\ wire'[s] = Tail(wire[s]) /\ Head(wire[s]).t = t
         /\ wire'[Other(s)] = wire[Other(s)]
         /\ job[s] = Idle /\ job[s].at = "idle"
<1>1. wire[s] # <<>> /\ Head(wire[s]).t = t /\ job[s] = Idle
  BY DEF Next4
<1> QED
  BY <1>1, WirePopped DEF Idle

LEMMA TakeHelloDelivers ==
  ASSUME Typed, Paired, Delivering, NEW s \in Pages, TakeHello(s)
  PROVE  Delivering'
<1>1. /\ Next4(s, "hello") /\ wire' = Popped(s)
      /\ UNCHANGED <<peer, shake, starting, chain, kept, up, fresh, send>>
      /\ job' = [job EXCEPT ![s] = [at |-> "hello", h |-> Head(wire[s]).h]]
  BY DEF TakeHello, Do, keys, channel
<1>2. /\ wire[s] # <<>> /\ wire'[s] = Tail(wire[s]) /\ Head(wire[s]).t = "hello"
      /\ wire'[Other(s)] = wire[Other(s)] /\ job[s].at = "idle"
  BY <1>1, PopBeside
<1>3. job'[s].at = "hello" /\ \A t \in Pages : t # s => job'[t] = job[t]
  BY <1>1 DEF Typed, Handlers
<1>4. Beside(s)
  BY <1>1, <1>2, <1>3, BesideSame
<1>5. Answering(peer[s], job[s]) => Answering(peer'[s], job'[s])
  BY <1>1, <1>2 DEF Answering
<1> QED
  BY <1>1, <1>2, <1>3, <1>4, <1>5, DeskDelivers

LEMMA TakeKemDelivers ==
  ASSUME Typed, Paired, Delivering, NEW s \in Pages, TakeKem(s)
  PROVE  Delivering'
<1>1. /\ Next4(s, "kem") /\ wire' = Popped(s) /\ ~peer[s].closed
      /\ UNCHANGED <<peer, shake, starting, chain, kept, up, fresh, send>>
  BY DEF TakeKem, keys, channel
<1>2. /\ wire[s] # <<>> /\ wire'[s] = Tail(wire[s]) /\ Head(wire[s]).t = "kem"
      /\ wire'[Other(s)] = wire[Other(s)] /\ job[s].at = "idle"
  BY <1>1, PopBeside
<1>3. up[s] /\ ~fresh[s]
  BY <1>1, TakingPage
<1>4. peer[s].hs # 0 /\ peer[s].protocol # "refused"
  <2>1. PageOf(s, peer[s], Len(shake[s]), shake[s][Len(shake[s])], starting[s], job[s], up[s], fresh[s])
    BY DEF Paired, Local
  <2> QED
    BY <1>1, <1>3, <2>1 DEF PageOf
<1>5. job'[s].at = "kem" /\ \A t \in Pages : t # s => job'[t] = job[t]
  BY <1>4 DEF TakeKem, Do, Typed, Handlers
<1>6. Beside(s)
  BY <1>1, <1>2, <1>5, BesideSame
<1>7. Answering(peer'[s], job'[s])
  BY <1>5 DEF Answering
<1> QED
  BY <1>1, <1>2, <1>5, <1>6, <1>7, DeskDelivers

LEMMA AwaitedKemDelivers ==
  ASSUME Typed, Paired, Delivering, NEW s \in Pages, AwaitedKem(s)
  PROVE  Delivering'
<1>1. UNCHANGED <<peer, shake, wire, chain, kept, up, fresh, send>> /\ job[s].at = "kem"
  BY AwaitedPaired DEF AwaitedKem, keys, channel
<1>2. ~ResetByUs(s)
  <2> SUFFICES ASSUME ResetByUs(s) PROVE FALSE
    OBVIOUS
  <2>1. PageOf(s, peer[s], Len(shake[s]), shake[s][Len(shake[s])], starting[s], job[s], up[s], fresh[s])
    BY DEF Paired, Local
  <2>2. ~peer[s].closed
    <3>1. Idle.at = "idle"
      BY DEF Idle
    <3> QED
      BY <1>1, <2>1, <3>1 DEF PageOf
  <2>3. peer[s] \in PeerState /\ peer[s].closed = FALSE /\ Len(shake[s]) \in Nat
    BY <2>2, LocalTypes DEF PeerState
  <2>4. StartOver(s, peer[s])
    BY DEF ResetByUs
  <2>5. Len(shake'[s]) = Len(shake[s]) + 1
    BY <2>3, <2>4, OverAfter
  <2> QED
    BY <1>1, <2>3, <2>5
<1>3. UNCHANGED starting /\ job' = [job EXCEPT ![s] = IF peer[s].session # {} THEN Idle ELSE [job[s] EXCEPT !.at = "take"]]
  BY <1>2 DEF AwaitedKem, Do
<1>4. /\ \A t \in Pages : t # s => job'[t] = job[t]
      /\ job'[s] = IF peer[s].session # {} THEN Idle ELSE [job[s] EXCEPT !.at = "take"]
  BY <1>3 DEF Typed, Handlers
<1>5. [job[s] EXCEPT !.at = "take"].at = "take"
  <2>1. job[s] \in Job
    BY LocalTypes
  <2> QED
    BY <1>1, <2>1 DEF Job, HandingOut
<1>6. job'[s].at \in {"idle", "take"} /\ Answering(peer'[s], job'[s])
  BY <1>1, <1>4, <1>5 DEF Answering, Idle
<1>7. Beside(s)
  BY <1>1, <1>3, <1>4, BesideSame
<1> QED
  BY <1>1, <1>6, <1>7, DeskDelivers

LEMMA AcceptKemDelivers ==
  ASSUME Typed, Paired, Delivering, NEW s \in Pages, AcceptKem(s)
  PROVE  Delivering'
<1> DEFINE p == peer[s]
           n == Len(shake[s])
           k == shake[s][n]
           j == job[s]
<1>1. UNCHANGED <<peer, starting, chain, kept, up, fresh, wire, send>> /\ j.at = "take"
  BY DEF AcceptKem, keys, channel
<1>2. \A t \in Pages : Len(shake'[t]) = Len(shake[t])
  BY AcceptKemPaired
<1>3. PageOf(s, p, n, k, starting[s], j, up[s], fresh[s])
  BY DEF Paired, Local
<1>4. j.hs = n /\ j.for = n /\ j.by = p.accepted /\ p.accepted # 0 /\ k = Half(p.accepted)
  <2>1. Idle.at = "idle"
    BY DEF Idle
  <2> HIDE DEF p, n, k, j
  <2> QED
    BY <1>1, <1>3, <2>1 DEF PageOf, Shaken
<1>5. /\ [k EXCEPT !.got = p.accepted].got = p.accepted
      /\ [k EXCEPT !.got = p.accepted].done = FALSE /\ [k EXCEPT !.got = p.accepted].to = p.accepted
  BY <1>4 DEF Half
<1>6. job' = [job EXCEPT ![s] = [at |-> "establish", hs |-> n]]
  <2>1. Goes(s, n, [k EXCEPT !.got = p.accepted])
    BY <1>4 DEF AcceptKem
  <2> HIDE DEF k, n, p
  <2> QED
    BY <1>4, <1>5, <2>1 DEF Goes, Do
<1>7. \A t \in Pages : t # s => shake'[t] = shake[t] /\ job'[t] = job[t]
  BY DEF AcceptKem, Goes, Do, Typed, Handshakes, Handlers
<1>8. job'[s].at = "establish"
  BY <1>6 DEF Typed, Handlers
<1>9. Answering(peer'[s], job'[s])
  BY <1>8 DEF Answering
<1>10. Beside(s)
  BY <1>1, <1>7, BesideSame
<1> QED
  BY <1>1, <1>2, <1>8, <1>9, <1>10, DeskDelivers

LEMMA WindowDelivers ==
  ASSUME Typed, Paired, Delivering, NEW s \in Pages, WindowPasses(s)
  PROVE  Delivering'
<1>1. UNCHANGED <<shake, starting, chain, kept, up, fresh, wire, job, send>>
  BY DEF WindowPasses, keys, channel
<1>2. /\ peer'[s].hs = peer[s].hs /\ peer'[s].session = peer[s].session
      /\ peer'[s].failed = peer[s].failed
      /\ \A t \in Pages : t # s => peer'[t] = peer[t]
  BY DEF WindowPasses, Typed, Handshakes, PeerState
<1>3. Beside(s)
  BY <1>1, <1>2, BesideSame
<1>4. Answering(peer[s], job[s]) => Answering(peer'[s], job'[s])
  BY <1>1, <1>2 DEF Answering
<1> QED
  BY <1>1, <1>2, <1>3, <1>4, DeskDelivers

LEMMA TakeRoomDelivers ==
  ASSUME Typed, Paired, Delivering, NEW s \in Pages, TakeRoom(s)
  PROVE  Delivering'
<1>1. /\ Next4(s, "room") /\ wire' = Popped(s)
      /\ UNCHANGED <<peer, shake, starting, chain, kept, up, fresh, job, send>>
  BY DEF TakeRoom, Ignored, keys, channel
<1>2. /\ wire[s] # <<>> /\ wire'[s] = Tail(wire[s]) /\ Head(wire[s]).t = "room"
      /\ wire'[Other(s)] = wire[Other(s)]
  BY <1>1, PopBeside
<1>3. Beside(s)
  BY <1>1, <1>2, BesideSame
<1> QED
  BY <1>1, <1>2, <1>3, DeskDelivers

LEMMA IgnoreDelivers ==
  ASSUME Typed, Paired, Delivering, NEW s \in Pages, IgnoreClosed(s)
  PROVE  Delivering'
<1>1. PICK t : Next4(s, t) /\ wire' = Popped(s)
  BY DEF IgnoreClosed, Ignored
<1>2. UNCHANGED <<peer, shake, starting, chain, kept, up, fresh, job, send>> /\ peer[s].closed
  BY DEF IgnoreClosed, Ignored, keys, channel
<1>3. /\ wire[s] # <<>> /\ wire'[s] = Tail(wire[s]) /\ wire'[Other(s)] = wire[Other(s)]
      /\ job[s].at = "idle"
  BY <1>1, PopBeside
<1>4. peer[s].hs = 0 /\ peer[s].session = {}
  BY <1>2, InHandshake
<1>5. Beside(s)
  BY <1>2, <1>3, BesideSame
<1> QED
  BY <1>2, <1>3, <1>4, <1>5, OverDelivers

LEMMA OpenDelivers ==
  ASSUME Typed, Paired, Delivering, NEW s \in Pages, OpenChannel(s)
  PROVE  Delivering'
<1> DEFINE p == [peer[s] EXCEPT !.closed = FALSE]
           n == Len(shake[s])
<1>1. UNCHANGED <<chain, kept, up, wire, job, send>> /\ fresh[s] /\ fresh' = [fresh EXCEPT ![s] = FALSE]
  BY DEF OpenChannel, keys
<1>2. peer[s].hs = 0 /\ peer[s].session = {} /\ job[s] = Idle
  BY <1>1, InHandshake
<1>3. peer[s] \in PeerState
  BY LocalTypes
<1>4. p \in PeerState /\ p.closed = FALSE /\ p.hs = 0
  BY <1>2, <1>3 DEF PeerState
<1>5. StartOver(s, p)
  BY <1>4 DEF OpenChannel, Negotiating
<1> HIDE DEF p
<1>6. /\ Len(shake'[s]) = n + 1 /\ peer'[s].hs = n + 1 /\ peer'[s].session = {}
      /\ \A t \in Pages : t # s => peer'[t] = peer[t] /\ shake'[t] = shake[t]
                                   /\ starting'[t] = starting[t]
  <2> HIDE DEF n
  <2> QED
    BY <1>4, <1>5, OverAfter DEF n
<1>7. \A t \in Pages : t # s => fresh'[t] = fresh[t]
  BY <1>1 DEF Typed, Channels
<1>8. Beside(s)
  BY <1>1, <1>6, <1>7 DEF Beside, Aside
<1>9. job'[s].at = "idle"
  BY <1>1, <1>2 DEF Idle
<1> QED
  BY <1>1, <1>6, <1>8, <1>9, OverDelivers

LEMMA TakeResetDelivers ==
  ASSUME Typed, Paired, Delivering, NEW s \in Pages, TakeReset(s)
  PROVE  Delivering'
<1> DEFINE p == [peer[s] EXCEPT !.warned = TRUE]
           n == Len(shake[s])
<1>1. /\ Next4(s, "reset") /\ wire' = Popped(s) /\ ~peer[s].closed
      /\ UNCHANGED <<chain, kept, up, fresh, send>>
  BY DEF TakeReset, keys, channel
<1>2. /\ wire[s] # <<>> /\ wire'[s] = Tail(wire[s]) /\ Head(wire[s]).t = "reset"
      /\ wire'[Other(s)] = wire[Other(s)] /\ job[s] = Idle /\ job[s].at = "idle"
  BY <1>1, PopBeside
<1>3. peer[s] \in PeerState /\ n \in Nat
  BY LocalTypes
<1>4. /\ p \in PeerState /\ p.closed = FALSE /\ p.hs = peer[s].hs
      /\ p.session = peer[s].session /\ p.failed = peer[s].failed
  BY <1>1, <1>3 DEF PeerState
<1>5. \/ /\ peer' = [peer EXCEPT ![s] = [Blank(p) EXCEPT !.closed = TRUE, !.protocol = "refused"]]
         /\ shake' = [shake EXCEPT ![s] = Wiped(s)]
         /\ UNCHANGED <<starting, job>>
      \/ peer' = [peer EXCEPT ![s] = p] /\ UNCHANGED <<shake, starting, job>>
      \/ StartOver(s, p) /\ job' = [job EXCEPT ![s] = [at |-> "restart", hs |-> Number(s)]]
  BY DEF TakeReset, Do
<1>6. CASE /\ peer' = [peer EXCEPT ![s] = [Blank(p) EXCEPT !.closed = TRUE, !.protocol = "refused"]]
           /\ shake' = [shake EXCEPT ![s] = Wiped(s)]
           /\ UNCHANGED <<starting, job>>
  <2> DEFINE q == [Blank(p) EXCEPT !.closed = TRUE, !.protocol = "refused"]
  <2>1. q.hs = 0 /\ q.session = {}
    BY <1>4 DEF PeerState, Blank
  <2>2. peer'[s] = q /\ \A t \in Pages : t # s => peer'[t] = peer[t] /\ shake'[t] = shake[t]
    BY <1>6 DEF Typed, Handshakes
  <2>3. Len(shake'[s]) = n
    <3>1. Handshakes
      BY DEF Typed
    <3>2. Len(Wiped(s)) = n
      BY <3>1, WipedTyped
    <3> QED
      BY <1>6, <3>1, <3>2 DEF Handshakes
  <2> HIDE DEF q
  <2>4. Beside(s)
    BY <1>1, <1>2, <1>6, <2>2, BesideSame
  <2> QED
    BY <1>2, <1>6, <2>1, <2>2, <2>3, <2>4, OverDelivers
<1>7. CASE peer' = [peer EXCEPT ![s] = p] /\ UNCHANGED <<shake, starting, job>>
  <2>1. peer'[s] = p /\ \A t \in Pages : t # s => peer'[t] = peer[t]
    BY <1>7 DEF Typed, Handshakes
  <2> HIDE DEF p
  <2>2. Beside(s)
    BY <1>1, <1>2, <1>7, <2>1, BesideSame
  <2>3. Answering(peer[s], job[s]) => Answering(peer'[s], job'[s])
    BY <1>4, <1>7, <2>1 DEF Answering
  <2> QED
    BY <1>1, <1>2, <1>4, <1>7, <2>1, <2>2, <2>3, DeskDelivers
<1>8. CASE StartOver(s, p) /\ job' = [job EXCEPT ![s] = [at |-> "restart", hs |-> Number(s)]]
  <2> HIDE DEF p
  <2>1. /\ Len(shake'[s]) = n + 1 /\ peer'[s].hs = n + 1 /\ peer'[s].session = {}
        /\ \A t \in Pages : t # s => peer'[t] = peer[t] /\ shake'[t] = shake[t]
                                     /\ starting'[t] = starting[t]
    <3> HIDE DEF n
    <3> QED
      BY <1>4, <1>8, OverAfter DEF n
  <2>2. job'[s].at = "restart" /\ \A t \in Pages : t # s => job'[t] = job[t]
    BY <1>8 DEF Typed, Handlers
  <2>3. Beside(s)
    BY <1>1, <1>2, <2>1, <2>2, BesideSame
  <2> QED
    BY <1>2, <2>1, <2>2, <2>3, OverDelivers
<1> QED
  BY <1>5, <1>6, <1>7, <1>8

(* A frame is opened in the session there is, and its chain is kept.       *)
LEMMA TakeFrameDelivers ==
  ASSUME Typed, Paired, Delivering, NEW s \in Pages, TakeFrame(s)
  PROVE  Delivering'
<1> DEFINE p == peer[s]
           ks == kept[s]
           f == Head(wire[s])
           l == job'[s]
           q == [at |-> "open", with |-> p.session, frame |-> f]
<1>1. /\ Next4(s, "p4") /\ wire' = Popped(s)
      /\ UNCHANGED <<peer, shake, starting, chain, kept, up, fresh, send>>
      /\ job' = [job EXCEPT ![s] = IF p.session = {} THEN Idle ELSE q]
  BY DEF TakeFrame, Do, keys, channel
<1>2. /\ wire[s] # <<>> /\ wire'[s] = Tail(wire[s]) /\ f.t = "p4"
      /\ wire'[Other(s)] = wire[Other(s)] /\ job[s] = Idle /\ job[s].at = "idle"
  BY <1>1, PopBeside
<1>3. l = (IF p.session = {} THEN Idle ELSE q) /\ \A t \in Pages : t # s => job'[t] = job[t]
  BY <1>1 DEF Typed, Handlers
<1>4. q.at = "open" /\ q.with = p.session /\ q.frame = f /\ Idle.at = "idle"
  BY DEF Idle
<1>5. Beside(s)
  BY <1>1, <1>2, <1>3, BesideSame
<1>6. Alone(s) /\ Calm(s)
  <2>1. l.at # "handing"
    <3> HIDE DEF q, l
    <3> QED
      BY <1>3, <1>4
  <2> QED
    BY <1>1, <1>5, <2>1 DEF Alone, Calm, Beside
<1>7. l.at = "open" => l.with = peer'[s].session
  <2> HIDE DEF q, l
  <2> QED
    BY <1>1, <1>3, <1>4
<1>8. Takes(f, p, Idle, ks, p, l, ks)
  <2> HIDE DEF p, ks, f, l, q
  <2>1. Stays(p, Idle, p, l)
    BY <1>3, <1>4 DEF Stays, Answering
  <2>2. Answering(p, Idle) => \A T : Held(p, l, ks, f.chain, T)
    BY <1>3, <1>4 DEF Answering, Held
  <2> QED
    BY <1>2, <2>1, <2>2 DEF Takes
<1>9. Received(s)
  BY <1>1, <1>2, <1>8 DEF Received
<1> QED
  BY <1>6, <1>7, <1>9, CalmDelivers

LEMMA KeepNewest ==
  ASSUME NEW ks \in Seq(Nat), NEW c \in Nat
  PROVE  Newest(Keep(ks, c), c)
<1> DEFINE older == {i \in DOMAIN ks : ks[i] # c}
           d == ks[Max(older)]
<1>1. Len(<<c>>) = 1 /\ <<c>>[1] = c
  OBVIOUS
<1>2. Len(<<d, c>>) = 2 /\ <<d, c>>[2] = c
  OBVIOUS
<1>3. Keep(ks, c) = <<c>> \/ Keep(ks, c) = <<d, c>>
  BY DEF Keep
<1> DEFINE ls == Keep(ks, c)
<1>4. SUFFICES Len(ls) # 0 /\ ls[Len(ls)] = c
  BY DEF Newest
<1> HIDE DEF d, older
<1>5. CASE ls = <<c>>
  BY <1>1, <1>5
<1>6. CASE ls = <<d, c>>
  BY <1>2, <1>6
<1> QED
  BY <1>3, <1>5, <1>6

LEMMA OpenFrameDelivers ==
  ASSUME Typed, Paired, Delivering, NEW s \in Pages, OpenFrame(s)
  PROVE  Delivering'
<1> DEFINE p == peer[s]
           j == job[s]
           ks == kept[s]
           ls == Keep(ks, j.frame.chain)
<1>1. /\ j.at = "open" /\ UNCHANGED <<peer, shake, starting, chain, up, fresh, wire, send>>
      /\ kept' = [kept EXCEPT ![s] = ls] /\ job' = [job EXCEPT ![s] = Idle]
  BY DEF OpenFrame, Do, channel
<1>2. kept'[s] = ls /\ job'[s] = Idle
      /\ \A t \in Pages : t # s => kept'[t] = kept[t] /\ job'[t] = job[t]
  BY <1>1 DEF Typed, Chains, Handlers
<1>3. ks \in Seq(Nat) /\ j.frame.chain \in Nat
  <2>1. j \in Job
    BY LocalTypes
  <2>2. j.frame.chain \in Nat
    BY <1>1, <2>1, JobCases
  <2> QED
    BY <2>2 DEF Typed, Chains
<1>4. Newest(ls, j.frame.chain)
  BY <1>3, KeepNewest
<1>5. p.session # {} /\ Idle.at = "idle"
  BY <1>1, InSession DEF Idle
<1>6. Keeps(p, j, ks, p, Idle, ls)
  <2> HIDE DEF p, j, ks, ls
  <2>1. Stays(p, j, p, Idle)
    BY <1>5 DEF Stays, Answering
  <2>2. \A c, T : Held(p, j, ks, c, T) => Held(p, Idle, ls, c, T)
    BY <1>1, <1>4, <1>5 DEF Held
  <2> QED
    BY <2>1, <2>2 DEF Keeps
<1> HIDE DEF ls
<1>7. Alone(s) /\ Calm(s)
  BY <1>1, <1>2, <1>5 DEF Alone, Aside, Calm
<1>8. Received(s)
  BY <1>1, <1>2, <1>6 DEF Received
<1> QED
  BY <1>2, <1>5, <1>7, <1>8, CalmDelivers

(* One that does not open: the page failed, or is in another handshake.    *)
LEMMA FailFrameDelivers ==
  ASSUME Typed, Paired, Delivering, NEW s \in Pages, FailFrame(s)
  PROVE  Delivering'
<1> DEFINE p == peer[s]
           j == job[s]
           ks == kept[s]
           n == Len(shake[s])
<1>1. j.at = "open" /\ UNCHANGED <<chain, kept, up, fresh, send>>
  BY DEF FailFrame, keys, channel
<1>2. p.session # {} /\ Idle.at = "idle" /\ ~p.closed
  BY <1>1, InSession DEF Idle
<1>3. CASE ResetByUs(s)
  <2>1. Sends(s, ResetFrame) /\ StartOver(s, p)
        /\ job' = [job EXCEPT ![s] = [at |-> "restart", hs |-> Number(s)]]
    BY <1>3 DEF ResetByUs, Do, ResetFrame
  <2>2. p \in PeerState /\ p.closed = FALSE
    BY <1>2, LocalTypes DEF PeerState
  <2>3. /\ Len(shake'[s]) = n + 1 /\ peer'[s].hs = n + 1 /\ peer'[s].session = {}
        /\ \A t \in Pages : t # s => peer'[t] = peer[t] /\ shake'[t] = shake[t]
                                     /\ starting'[t] = starting[t]
    <3> HIDE DEF n
    <3> QED
      BY <2>1, <2>2, OverAfter DEF n
  <2>4. job'[s].at = "restart" /\ \A t \in Pages : t # s => job'[t] = job[t]
    BY <2>1 DEF Typed, Handlers
  <2>5. ResetFrame \in Frame /\ ResetFrame.t \in Control
    BY FrameTypes DEF ResetFrame, Control
  <2>6. /\ wire'[s] = wire[s]
        /\ LET o == Other(s) IN
           wire'[o] = wire[o] \/ \E g \in Frame : g.t \in Control /\ wire'[o] = Append(wire[o], g)
    BY <2>1, <2>5, PutBeside
  <2>7. Beside(s)
    BY <1>1, <2>3, <2>4, <2>6, BesideSame
  <2> QED
    BY <2>3, <2>4, <2>6, <2>7, OverDelivers
<1>4. CASE ~ResetByUs(s)
  <2> DEFINE q == [p EXCEPT !.failed = @ \/ j.with = p.session]
  <2>1. j.with = p.session
    <3>1. Steady(s)
      BY DEF Delivering
    <3> QED
      BY <1>1, <3>1 DEF Steady
  <2>2. /\ peer' = [peer EXCEPT ![s] = q] /\ job' = [job EXCEPT ![s] = Idle]
        /\ UNCHANGED <<shake, starting, wire>>
    BY <1>4 DEF FailFrame, Do
  <2>3. q.hs = p.hs /\ q.session = p.session /\ q.failed
    <3>1. p \in PeerState
      BY LocalTypes
    <3> QED
      BY <2>1, <3>1 DEF PeerState
  <2>4. peer'[s] = q /\ job'[s] = Idle
        /\ \A t \in Pages : t # s => peer'[t] = peer[t] /\ job'[t] = job[t]
    BY <2>2 DEF Typed, Handshakes, Handlers
  <2> HIDE DEF q
  <2>5. Keeps(p, j, ks, q, Idle, ks)
    <3> HIDE DEF p, j, ks
    <3> QED
      BY <1>2, <2>3 DEF Keeps, Stays, Answering, Held
  <2>6. Alone(s) /\ Calm(s)
    BY <1>1, <1>2, <2>2, <2>3, <2>4 DEF Alone, Aside, Calm
  <2>7. Received(s)
    BY <1>1, <2>2, <2>4, <2>5 DEF Received
  <2> QED
    BY <1>2, <2>4, <2>6, <2>7, CalmDelivers
<1> QED
  BY <1>3, <1>4

----------------------------------------------------------------------------
(* What the other page is promised by s.                                   *)
LEMMA Promised ==
  ASSUME Typed, Paired, Delivering, NEW s \in Pages, NEW o, o = Other(s), up[o]
  PROVE  /\ ReadableOf(o, peer[o], job[o], kept[o], wire[o], peer[s].session, chain[s], job[s], send[s])
         /\ NumberedOf(o, Len(shake[o]), wire[o], job[s], send[s])
         /\ Past(o, Len(shake[o]), peer[s].session)
         /\ Bound(o, peer[o], job[o], wire[o], peer[s].session)
         /\ wire[o] \in Seq(Frame) /\ Len(shake[o]) \in Nat
<1>1. o \in Pages /\ Other(o) = s
  BY TwoPages
<1>2. Readable(o)
  BY <1>1 DEF Delivering
<1> QED
  BY <1>1, <1>2, SessionBound, LocalTypes DEF Readable

(* The page itself goes on as before.                                      *)
LEMMA SenderDelivers ==
  ASSUME Typed, Paired, Delivering, NEW s \in Pages, Alone(s),
         peer'[s] = peer[s], kept'[s] = kept[s], wire'[s] = wire[s],
         job'[s] = job[s] \/ (job[s].at # "open" /\ job'[s].at # "open"),
         Answering(peer[s], job[s]) => Answering(peer[s], job'[s]),
         Readable(Other(s))', Steady(s)'
  PROVE  Delivering'
<1> DEFINE p == peer[s]
           j == job[s]
           ks == kept[s]
           l == job'[s]
<1>1. Keeps(p, j, ks, p, l, ks)
  <2>1. l = j \/ (j.at # "open" /\ l.at # "open")
    OBVIOUS
  <2>2. Answering(p, j) => Answering(p, l)
    OBVIOUS
  <2> HIDE DEF p, j, ks, l
  <2> QED
    BY <2>1, <2>2, KeepsSame
<1>2. Received(s)
  BY <1>1 DEF Received
<1>3. Readable(s)'
  BY <1>2, ReceivedReadable DEF Delivering
<1> QED
  BY <1>3, Delivers

LEMMA PreparedChain ==
  ASSUME Typed, NEW s \in Pages, NEW due \in BOOLEAN, NEW c, c = Prepared(s, due)
  PROVE  /\ c.given => c = chain[s]
         /\ ~c.given => c = [id |-> c.id, given |-> FALSE]
         /\ Prepares(s, c) => chain'[s] = c /\ \A t \in Pages : t # s => chain'[t] = chain[t]
<1>1. c \in [id: Nat, given: BOOLEAN]
  BY PreparedTyped
<1>2. c = chain[s] \/ c = [id |-> chains[s] + 1, given |-> FALSE]
  BY DEF Prepared
<1>3. c.given => c = chain[s]
  BY <1>2
<1>4. Prepares(s, c) => chain'[s] = c /\ \A t \in Pages : t # s => chain'[t] = chain[t]
  BY DEF Prepares, Typed, Chains
<1> QED
  BY <1>1, <1>3, <1>4

LEMMA HandOutDelivers ==
  ASSUME Typed, Paired, Delivering, NEW s \in Pages, HandOut(s)
  PROVE  Delivering'
<1> DEFINE c == Prepared(s, FALSE)
           q == Handing(s, c)
           T == peer[s].session
           o == Other(s)
<1>1. /\ job[s].at = "hand" /\ UNCHANGED <<peer, shake, starting, kept, up, fresh, wire, send>>
      /\ send[s] = Idle /\ send[s].at = "idle"
  BY DEF HandOut, Locked, channel, Idle
<1>2. T # {}
  BY <1>1, InSession
<1>3. Prepares(s, c) /\ job' = [job EXCEPT ![s] = IF c.given THEN Idle ELSE q]
  BY <1>2 DEF HandOut, Do
<1>4. /\ c.given => c = chain[s]
      /\ ~c.given => c = [id |-> c.id, given |-> FALSE]
      /\ chain'[s] = c /\ \A t \in Pages : t # s => chain'[t] = chain[t]
  BY <1>3, PreparedChain
<1>5. job'[s] = (IF c.given THEN Idle ELSE q) /\ \A t \in Pages : t # s => job'[t] = job[t]
  BY <1>3 DEF Typed, Handlers
<1>6. q.at = "handing" /\ q.id = c.id /\ q.session = T /\ Idle.at = "idle"
  BY DEF Handing, Idle
<1> HIDE DEF c, q
<1>7. Alone(s)
  BY <1>1, <1>4, <1>5 DEF Alone, Aside
<1>8. Readable(o)'
  <2> DEFINE p == peer[o]
             j == job[o]
             ks == kept[o]
             w == wire[o]
             n == Len(shake[o])
             m == send[s]
             g == job'[s]
  <2>1. SUFFICES ASSUME up[o] PROVE ReadableOf(o, p, j, ks, w, T, c, g, m) /\ NumberedOf(o, n, w, g, m)
    BY <1>1, <1>4, <1>7, SentReadable
  <2>2. /\ ReadableOf(o, p, j, ks, w, T, chain[s], job[s], m) /\ NumberedOf(o, n, w, job[s], m)
        /\ Named(o, n, T) /\ Bound(o, p, j, w, T) /\ w \in Seq(Frame) /\ n \in Nat
    BY <1>2, <2>1, Promised DEF Named
  <2>3. g = IF c.given THEN Idle ELSE q
    BY <1>5
  <2>4. m.at = "idle"
    BY <1>1
  <2> HIDE DEF o, p, j, ks, w, n, m, g, T
  <2>5. g.at = "handing" => g.session = T
    BY <1>6, <2>3
  <2>6. c.given => Claim(o, p, j, ks, w, Len(w), c.id, T)
    BY <1>4, <2>2 DEF ReadableOf
  <2>7. ReadableOf(o, p, j, ks, w, T, c, g, m)
    BY <2>2, <2>4, <2>5, <2>6, ReadableSends
  <2>8. NumberedOf(o, n, w, g, m)
    BY <2>2, <2>4, <2>5, NumberedSends
  <2> QED
    BY <2>7, <2>8
<1>9. Steady(s)'
  BY <1>1, <1>4, <1>5, <1>6 DEF Steady
<1>10. Answering(peer[s], job'[s])
  BY <1>2 DEF Answering
<1> QED
  BY <1>1, <1>5, <1>6, <1>7, <1>8, <1>9, <1>10, SenderDelivers

LEMMA SealRoomDelivers ==
  ASSUME Typed, Paired, Delivering, NEW s \in Pages, SealRoom(s)
  PROVE  Delivering'
<1> DEFINE T == peer[s].session
           o == Other(s)
<1>1. /\ UNCHANGED <<peer, shake, starting, kept, up, fresh, wire, job>>
      /\ job[s].at # "handing" /\ send[s] = Idle /\ send[s].at = "idle" /\ T # {}
  BY DEF SealRoom, Locked, channel, Idle
<1>2. PICK due \in BOOLEAN :
        LET c == Prepared(s, due) IN
        /\ Prepares(s, c)
        /\ send' = [send EXCEPT ![s] =
                     IF c.given THEN [at |-> "seal", session |-> peer[s].session] ELSE Handing(s, c)]
  BY DEF SealRoom
<1> DEFINE c == Prepared(s, due)
           q == Handing(s, c)
           r == [at |-> "seal", session |-> T]
<1>3. Prepares(s, c) /\ send' = [send EXCEPT ![s] = IF c.given THEN r ELSE q]
  BY <1>2
<1>4. /\ c.given => c = chain[s]
      /\ ~c.given => c = [id |-> c.id, given |-> FALSE]
      /\ chain'[s] = c /\ \A t \in Pages : t # s => chain'[t] = chain[t]
  BY <1>3, PreparedChain
<1>5. send'[s] = (IF c.given THEN r ELSE q) /\ \A t \in Pages : t # s => send'[t] = send[t]
  BY <1>3 DEF Typed, Handlers
<1>6. q.at = "handing" /\ q.id = c.id /\ q.session = T /\ r.at = "seal" /\ r.session = T
  BY DEF Handing
<1> HIDE DEF c, q, r
<1>7. Alone(s)
  BY <1>1, <1>4, <1>5 DEF Alone, Aside
<1>8. Readable(o)'
  <2> DEFINE p == peer[o]
             j == job[o]
             ks == kept[o]
             w == wire[o]
             n == Len(shake[o])
             h == job[s]
             m == send'[s]
  <2>1. SUFFICES ASSUME up[o] PROVE ReadableOf(o, p, j, ks, w, T, c, h, m) /\ NumberedOf(o, n, w, h, m)
    BY <1>1, <1>4, <1>7, SentReadable
  <2>2. /\ ReadableOf(o, p, j, ks, w, T, chain[s], h, send[s]) /\ NumberedOf(o, n, w, h, send[s])
        /\ Named(o, n, T) /\ Bound(o, p, j, w, T) /\ w \in Seq(Frame) /\ n \in Nat
    BY <1>1, <2>1, Promised DEF Named
  <2>3. m = (IF c.given THEN r ELSE q) /\ h.at # "handing"
    BY <1>1, <1>5
  <2> HIDE DEF o, p, j, ks, w, n, h, m, T
  <2>4. m.session = T /\ m.at \in {"seal", "handing"} /\ (m.at = "seal" => c.given)
    BY <1>6, <2>3
  <2>5. c.given => Claim(o, p, j, ks, w, Len(w), c.id, T)
    BY <1>4, <2>2 DEF ReadableOf
  <2>6. ReadableOf(o, p, j, ks, w, T, c, h, m)
    BY <2>2, <2>3, <2>4, <2>5, ReadableSends
  <2>7. NumberedOf(o, n, w, h, m)
    BY <2>2, <2>3, <2>4, NumberedSends
  <2> QED
    BY <2>6, <2>7
<1>9. Steady(s)'
  <2>1. job[s].at = "open" => job[s].with = peer[s].session
    BY DEF Delivering, Steady
  <2> QED
    BY <1>1, <1>4, <1>5, <1>6, <2>1 DEF Steady
<1> QED
  BY <1>1, <1>7, <1>8, <1>9, SenderDelivers

LEMMA SealDelivers ==
  ASSUME Typed, Paired, Delivering, NEW s \in Pages, Seal(s)
  PROVE  Delivering'
<1> DEFINE T == peer[s].session
           o == Other(s)
           c == chain[s]
           k == send[s]
           r == [at |-> "sealed", chain |-> c.id, session |-> k.session]
<1>1. /\ UNCHANGED <<peer, shake, starting, kept, chain, up, fresh, wire, job>> /\ k.at = "seal"
      /\ send' = [send EXCEPT ![s] = IF c.id = 0 THEN Idle ELSE r]
  BY DEF Seal, keys, channel
<1>2. send'[s] = (IF c.id = 0 THEN Idle ELSE r) /\ \A t \in Pages : t # s => send'[t] = send[t]
  BY <1>1 DEF Typed, Handlers
<1>3. r.at = "sealed" /\ r.chain = c.id /\ r.session = k.session /\ Idle.at = "idle"
  BY DEF Idle
<1> HIDE DEF r
<1>4. Alone(s)
  BY <1>1, <1>2 DEF Alone, Aside
<1>5. Steady(s)
  BY DEF Delivering
<1>6. job[s].at # "handing"
  BY <1>1, <1>3, <1>5 DEF Steady
<1>7. Readable(o)'
  <2> DEFINE p == peer[o]
             j == job[o]
             ks == kept[o]
             w == wire[o]
             n == Len(shake[o])
             h == job[s]
             m == send'[s]
  <2>1. SUFFICES ASSUME up[o] PROVE ReadableOf(o, p, j, ks, w, T, c, h, m) /\ NumberedOf(o, n, w, h, m)
    BY <1>1, <1>4, SentReadable
  <2>2. /\ ReadableOf(o, p, j, ks, w, T, c, h, k) /\ NumberedOf(o, n, w, h, k)
        /\ w \in Seq(Frame) /\ n \in Nat
    BY <2>1, Promised
  <2>3. m = (IF c.id = 0 THEN Idle ELSE r) /\ h.at # "handing" /\ k.at = "seal"
    BY <1>1, <1>2, <1>6
  <2> HIDE DEF o, p, j, ks, w, n, h, m, T, c, k
  <2>4. /\ m.at \in {"sealed", "idle"}
        /\ m.at = "sealed" => c.id # 0 /\ m.chain = c.id /\ m.session = k.session
    BY <1>3, <2>3
  <2>5. /\ c.given => Claim(o, p, j, ks, w, Len(w), c.id, T)
        /\ c.id # 0 => Claim(o, p, j, ks, w, Len(w), c.id, k.session)
        /\ Named(o, n, k.session)
    BY <2>2, <2>3 DEF ReadableOf, NumberedOf
  <2>6. m.at = "sealed" => Claim(o, p, j, ks, w, Len(w), m.chain, m.session)
    BY <2>4, <2>5
  <2>7. ReadableOf(o, p, j, ks, w, T, c, h, m)
    BY <2>2, <2>3, <2>4, <2>5, <2>6, ReadableSends
  <2>8. NumberedOf(o, n, w, h, m)
    BY <2>2, <2>3, <2>4, <2>5, NumberedSends
  <2> QED
    BY <2>7, <2>8
<1>8. Steady(s)'
  BY <1>1, <1>2, <1>3, <1>5, <1>6 DEF Steady
<1> QED
  BY <1>1, <1>4, <1>7, <1>8, SenderDelivers

LEMMA SendRoomDelivers ==
  ASSUME Typed, Paired, Delivering, NEW s \in Pages, SendRoom(s)
  PROVE  Delivering'
<1> DEFINE T == peer[s].session
           o == Other(s)
           c == chain[s]
           k == send[s]
           f == [t |-> "room", session |-> k.session, chain |-> k.chain]
<1>1. /\ UNCHANGED <<peer, shake, starting, kept, chain, up, fresh, job>> /\ k.at = "sealed"
      /\ send' = [send EXCEPT ![s] = Idle]
  BY DEF SendRoom, keys, channel
<1>2. send'[s] = Idle /\ (\A t \in Pages : t # s => send'[t] = send[t]) /\ Idle.at = "idle"
  BY <1>1 DEF Typed, Handlers, Idle
<1>3. f \in Frame
  <2>1. k.session \in Session /\ k.chain \in Nat
    BY <1>1, SendCases DEF Typed, Handlers
  <2> QED
    BY <2>1, FrameTypes
<1>4. /\ wire'[s] = wire[s]
      /\ wire'[o] = wire[o] \/ wire'[o] = Append(wire[o], f)
  <2>1. UNCHANGED wire \/ Sends(s, f)
    BY DEF SendRoom
  <2> HIDE DEF f
  <2> QED
    BY <2>1, WirePut
<1>5. f.t = "room" /\ f.chain = k.chain /\ f.session = k.session
  OBVIOUS
<1> HIDE DEF f
<1>6. Alone(s)
  BY <1>1, <1>2 DEF Alone, Aside
<1>7. Steady(s)
  BY DEF Delivering
<1>8. Readable(o)'
  <2> DEFINE p == peer[o]
             j == job[o]
             ks == kept[o]
             w == wire[o]
             v == wire'[o]
             n == Len(shake[o])
             h == job[s]
  <2>1. SUFFICES ASSUME up[o]
                 PROVE  ReadableOf(o, p, j, ks, v, T, c, h, Idle) /\ NumberedOf(o, n, v, h, Idle)
    BY <1>1, <1>2, <1>6, SentReadable
  <2>2. /\ ReadableOf(o, p, j, ks, w, T, c, h, k) /\ NumberedOf(o, n, w, h, k)
        /\ w \in Seq(Frame) /\ n \in Nat
    BY <2>1, Promised
  <2>3. (v = w \/ v = Append(w, f)) /\ k.at = "sealed"
    BY <1>1, <1>4
  <2> HIDE DEF o, p, j, ks, w, v, n, h, T, c, k
  <2>4. /\ Claim(o, p, j, ks, w, Len(w), f.chain, f.session)
        /\ c.given => Claim(o, p, j, ks, w, Len(w), c.id, T)
        /\ h.at = "handing" => Bound(o, p, j, w, h.session)
    BY <1>5, <2>2, <2>3 DEF ReadableOf
  <2>5. Named(o, n, f.session) /\ (h.at = "handing" => Named(o, n, h.session))
    BY <1>5, <2>2, <2>3 DEF NumberedOf
  <2>6. v = w \/ \E g \in Frame : /\ v = Append(w, g) /\ g.t # "p4"
                                  /\ g.t = "room" => Claim(o, p, j, ks, w, Len(w), g.chain, g.session)
    BY <1>3, <1>5, <2>3, <2>4
  <2>7. v = w \/ \E g \in Frame : v = Append(w, g) /\ (g.t = "room" => Named(o, n, g.session))
    BY <1>3, <2>3, <2>5
  <2>8. ReadableOf(o, p, j, ks, v, T, c, h, Idle)
    BY <1>2, <2>2, <2>4, <2>6, ReadableSends
  <2>9. NumberedOf(o, n, v, h, Idle)
    BY <1>2, <2>2, <2>5, <2>7, NumberedSends
  <2> QED
    BY <2>8, <2>9
<1>9. Steady(s)'
  BY <1>1, <1>2, <1>7 DEF Steady
<1> QED
  BY <1>1, <1>4, <1>6, <1>8, <1>9, SenderDelivers

(* The chain went out, or not, to the other page.                          *)
LEMMA HandsReadable ==
  ASSUME Typed, Paired, Delivering, NEW s \in Pages, Alone(s), NEW h,
         h \in {job[s], send[s]}, h.at = "handing", NEW went \in BOOLEAN, Hands(s, h, went),
         peer'[s] = peer[s], job'[s].at # "handing",
         \/ send'[s].at = "idle"
         \/ went /\ send'[s].at = "seal" /\ send'[s].session = h.session /\ h = send[s]
  PROVE  Readable(Other(s))' /\ wire'[s] = wire[s] /\ chain'[s].id = chain[s].id
         /\ (\A t \in Pages : t # s => chain'[t] = chain[t])
<1> DEFINE T == peer[s].session
           o == Other(s)
           c == chain[s]
           d == chain'[s]
           f == [t |-> "p4", session |-> h.session, chain |-> h.id]
           g == job'[s]
           m == send'[s]
<1>1. f \in Frame
  <2>1. h.session \in Session /\ h.id \in Nat
    BY LocalTypes, JobCases, SendCases DEF Typed, Handlers
  <2> QED
    BY <2>1, FrameTypes
<1>2. f.t = "p4" /\ f.chain = h.id
  OBVIOUS
<1>3. c = [id |-> h.id, given |-> FALSE]
  BY DEF Delivering, Steady
<1>4. d.id = c.id /\ \A t \in Pages : t # s => chain'[t] = chain[t]
  BY DEF Hands, Typed, Chains
<1>5. CASE went
  <2>1. Sends(s, f) /\ up[s]
    BY <1>5 DEF Hands, Carried
  <2> HIDE DEF f
  <2>2. wire'[s] = wire[s] /\ (up[o] => wire'[o] = Append(wire[o], f))
    BY <2>1, WirePut
  <2>3. Readable(o)'
    <3> DEFINE p == peer[o]
               j == job[o]
               ks == kept[o]
               w == wire[o]
               v == wire'[o]
               n == Len(shake[o])
    <3>1. SUFFICES ASSUME up[o] PROVE ReadableOf(o, p, j, ks, v, T, d, g, m) /\ NumberedOf(o, n, v, g, m)
      BY SentReadable
    <3>2. /\ ReadableOf(o, p, j, ks, w, T, c, job[s], send[s]) /\ NumberedOf(o, n, w, job[s], send[s])
          /\ Bound(o, p, j, w, T) /\ w \in Seq(Frame) /\ n \in Nat
      BY <3>1, Promised
    <3>3. /\ v = Append(w, f) /\ d.id = f.chain /\ g.at # "handing"
          /\ m.at = "idle" \/ (m.at = "seal" /\ m.session = h.session /\ h = send[s])
      BY <1>2, <1>3, <1>4, <2>2, <3>1
    <3> HIDE DEF o, p, j, ks, w, v, n, g, m, T, c, d
    <3>4. m.at = "seal" => Bound(o, p, j, w, m.session) /\ Named(o, n, m.session)
      BY <3>2, <3>3 DEF ReadableOf, NumberedOf
    <3>5. ReadableOf(o, p, j, ks, v, T, d, g, m)
      BY <1>1, <1>2, <3>2, <3>3, <3>4, ReadableHands
    <3>6. NumberedOf(o, n, v, g, m)
      BY <1>1, <1>2, <3>2, <3>3, <3>4, NumberedSends
    <3> QED
      BY <3>5, <3>6
  <2> QED
    BY <1>4, <2>2, <2>3
<1>6. CASE ~went
  <2>1. wire' = wire /\ d = c /\ m.at = "idle"
    BY <1>6 DEF Hands
  <2>2. Readable(o)'
    <3> DEFINE p == peer[o]
               j == job[o]
               ks == kept[o]
               w == wire[o]
               n == Len(shake[o])
    <3>1. SUFFICES ASSUME up[o] PROVE ReadableOf(o, p, j, ks, w, T, c, g, m) /\ NumberedOf(o, n, w, g, m)
      BY <2>1, SentReadable
    <3>2. /\ ReadableOf(o, p, j, ks, w, T, c, job[s], send[s]) /\ NumberedOf(o, n, w, job[s], send[s])
          /\ w \in Seq(Frame) /\ n \in Nat
      BY <3>1, Promised
    <3>3. m.at = "idle" /\ g.at # "handing"
      BY <2>1
    <3> HIDE DEF o, p, j, ks, w, n, g, m, T, c, d
    <3>4. c.given => Claim(o, p, j, ks, w, Len(w), c.id, T)
      BY <3>2 DEF ReadableOf
    <3>5. ReadableOf(o, p, j, ks, w, T, c, g, m)
      BY <3>2, <3>3, <3>4, ReadableSends
    <3>6. NumberedOf(o, n, w, g, m)
      BY <3>2, <3>3, NumberedSends
    <3> QED
      BY <3>5, <3>6
  <2> QED
    BY <1>4, <2>1, <2>2
<1> QED
  BY <1>5, <1>6

LEMMA HandedOutDelivers ==
  ASSUME Typed, Paired, Delivering, NEW s \in Pages, HandedOut(s)
  PROVE  Delivering'
<1>1. /\ job[s].at = "handing" /\ UNCHANGED <<peer, shake, starting, kept, up, fresh, send>>
      /\ job' = [job EXCEPT ![s] = Idle]
  BY DEF HandedOut, Do, channel
<1>2. PICK went \in BOOLEAN : Hands(s, job[s], went)
  BY DEF HandedOut
<1>3. job'[s] = Idle /\ (\A t \in Pages : t # s => job'[t] = job[t]) /\ Idle.at = "idle"
  BY <1>1 DEF Typed, Handlers, Idle
<1>4. send[s] = Idle
  BY <1>1 DEF Delivering, Steady
<1>5. \A t \in Pages : t # s => chain'[t] = chain[t]
  BY <1>2 DEF Hands, Typed, Chains
<1>6. Alone(s)
  BY <1>1, <1>3, <1>5 DEF Alone, Aside
<1>7. Readable(Other(s))' /\ wire'[s] = wire[s]
  <2> DEFINE h == job[s]
  <2>1. h \in {job[s], send[s]} /\ h.at = "handing" /\ Hands(s, h, went) /\ send'[s].at = "idle"
    BY <1>1, <1>2, <1>3, <1>4
  <2> HIDE DEF h
  <2> QED
    BY <1>1, <1>3, <1>6, <2>1, HandsReadable
<1>8. Steady(s)'
  BY <1>1, <1>3, <1>4 DEF Steady
<1>9. Answering(peer[s], job'[s])
  BY <1>1, InSession DEF Answering
<1> QED
  BY <1>1, <1>3, <1>6, <1>7, <1>8, <1>9, SenderDelivers

LEMMA SendChainDelivers ==
  ASSUME Typed, Paired, Delivering, NEW s \in Pages, SendChain(s)
  PROVE  Delivering'
<1>1. send[s].at = "handing" /\ UNCHANGED <<peer, shake, starting, kept, up, fresh, job>>
  BY DEF SendChain, channel
<1>2. PICK went \in BOOLEAN :
        /\ Hands(s, send[s], went)
        /\ send' = [send EXCEPT ![s] = IF went THEN [at |-> "seal", session |-> send[s].session] ELSE Idle]
  BY DEF SendChain
<1>3. Idle.at = "idle" /\ Steady(s)
  BY DEF Idle, Delivering
<1>4. job[s].at # "handing"
  BY <1>1, <1>3 DEF Steady
<1>5. \A t \in Pages : t # s => chain'[t] = chain[t]
  BY <1>2 DEF Hands, Typed, Chains
<1> DEFINE r == [at |-> "seal", session |-> send[s].session]
<1>6. send'[s] = (IF went THEN r ELSE Idle) /\ \A t \in Pages : t # s => send'[t] = send[t]
  BY <1>2 DEF Typed, Handlers
<1>7. r.at = "seal" /\ r.session = send[s].session
  OBVIOUS
<1> HIDE DEF r
<1>8. Alone(s)
  BY <1>1, <1>5, <1>6 DEF Alone, Aside
<1>9. Readable(Other(s))' /\ wire'[s] = wire[s]
  <2> DEFINE h == send[s]
  <2>1. /\ h \in {job[s], send[s]} /\ h.at = "handing" /\ Hands(s, h, went)
        /\ job'[s].at # "handing" /\ peer'[s] = peer[s]
    BY <1>1, <1>2, <1>4
  <2>2. \/ send'[s].at = "idle"
        \/ went /\ send'[s].at = "seal" /\ send'[s].session = h.session /\ h = send[s]
    BY <1>3, <1>6, <1>7
  <2> HIDE DEF h
  <2> QED
    BY <1>8, <2>1, <2>2, HandsReadable
<1>10. Steady(s)'
  BY <1>1, <1>3, <1>4, <1>6, <1>7 DEF Steady
<1> QED
  BY <1>1, <1>8, <1>9, <1>10, SenderDelivers

LEMMA EstablishDelivers ==
  ASSUME Typed, Paired, Delivering, NEW s \in Pages, Establish(s)
  PROVE  Delivering'
<1> DEFINE T == peer[s].session
           U == peer'[s].session
           o == Other(s)
           c == chain[s]
           d == chain'[s]
           m == send[s]
<1>1. /\ job[s].at = "establish"
      /\ UNCHANGED <<shake, starting, kept, up, fresh, wire, send>>
      /\ chain' = [chain EXCEPT ![s] = Rehello(@)] /\ job' = [job EXCEPT ![s] = [at |-> "hand"]]
  BY DEF Establish, Do, channel
<1>2. /\ job'[s].at = "hand" /\ d = Rehello(c)
      /\ \A t \in Pages : t # s => job'[t] = job[t] /\ chain'[t] = chain[t] /\ peer'[t] = peer[t]
  BY <1>1 DEF Establish, Typed, Handlers, Chains, Handshakes
<1>3. peer'[s].hs = peer[s].hs /\ U # {}
  <2>1. peer[s] \in PeerState
    BY LocalTypes
  <2>2. peer'[s] = [peer[s] EXCEPT !.session = SessionOf(s, job[s].hs), !.protocol = "p4", !.failed = FALSE]
    BY DEF Establish, Typed, Handshakes
  <2>3. SessionOf(s, job[s].hs) # {}
    BY DEF SessionOf
  <2> QED
    BY <2>1, <2>2, <2>3 DEF PeerState
<1>4. T = {}
  <2>1. PageOf(s, peer[s], Len(shake[s]), shake[s][Len(shake[s])], starting[s], job[s], up[s], fresh[s])
    BY DEF Paired, Local
  <2> QED
    BY <1>1, <2>1 DEF PageOf
<1>5. ~d.given /\ (~c.given => d = c) /\ (c.given => d.id = 0)
  BY <1>2 DEF Rehello
<1> HIDE DEF U, d
<1>6. Alone(s)
  BY <1>1, <1>2 DEF Alone, Aside
<1>7. Readable(o)'
  <2> DEFINE p == peer[o]
             j == job[o]
             ks == kept[o]
             w == wire[o]
             n == Len(shake[o])
             g == job'[s]
  <2>1. SUFFICES ASSUME up[o] PROVE ReadableOf(o, p, j, ks, w, U, d, g, m) /\ NumberedOf(o, n, w, g, m)
    BY <1>1, <1>6, SentReadable DEF U, d
  <2>2. /\ ReadableOf(o, p, j, ks, w, T, c, job[s], m) /\ NumberedOf(o, n, w, job[s], m)
        /\ w \in Seq(Frame) /\ n \in Nat
    BY <2>1, Promised
  <2>3. g.at = "hand"
    BY <1>2
  <2> HIDE DEF o, p, j, ks, w, n, g, m, T, c
  <2>4. /\ m.at = "sealed" => Claim(o, p, j, ks, w, Len(w), m.chain, m.session)
        /\ m.at = "seal" /\ d.id # 0 => Claim(o, p, j, ks, w, Len(w), d.id, m.session)
        /\ m.at = "handing" => Bound(o, p, j, w, m.session)
    BY <1>5, <2>2 DEF ReadableOf
  <2>5. m.at # "idle" => Named(o, n, m.session)
    BY <2>2 DEF NumberedOf
  <2>6. ReadableOf(o, p, j, ks, w, U, d, g, m)
    BY <1>5, <2>2, <2>3, <2>4, ReadableSends
  <2>7. NumberedOf(o, n, w, g, m)
    BY <2>2, <2>3, <2>5, NumberedSends
  <2> QED
    BY <2>6, <2>7
<1>8. Steady(s)'
  <2>1. m.at = "handing" => c = [id |-> m.id, given |-> FALSE]
    BY DEF Delivering, Steady
  <2>2. m.at = "handing" => d = [id |-> m.id, given |-> FALSE]
    BY <1>5, <2>1
  <2> QED
    BY <1>1, <1>2, <2>2 DEF Steady, d
<1>9. Received(s)
  <2> DEFINE p == peer[s]
             j == job[s]
             ks == kept[s]
             q == peer'[s]
             l == job'[s]
  <2>1. q.hs = p.hs /\ p.session = {} /\ (Answering(p, j) => Answering(q, l))
    BY <1>3, <1>4 DEF Answering, U
  <2> HIDE DEF p, j, ks, q, l
  <2>2. Keeps(p, j, ks, q, l, ks)
    BY <2>1, KeepsNothing
  <2> QED
    BY <1>1, <2>2 DEF Received, p, j, ks, q, l
<1>10. Readable(s)'
  BY <1>6, <1>9, ReceivedReadable DEF Delivering
<1> QED
  BY <1>6, <1>7, <1>8, <1>10, Delivers

(* The channel goes, with what was on it, and comes back empty.            *)
LEMMA DropDelivers ==
  ASSUME ~Straddle, Typed, Paired, Delivering, NEW s \in Pages, Drop(s)
  PROVE  Delivering'
<1> DEFINE o == Other(s)
           y == [Blank(peer[s]) EXCEPT !.protocol = "pending"]
<1>1. /\ job[s] = Idle /\ send[s] = Idle /\ UNCHANGED <<chain, kept, job, send>>
      /\ up' = [up EXCEPT ![s] = FALSE] /\ peer' = [peer EXCEPT ![s] = y]
      /\ shake' = [shake EXCEPT ![s] = Wiped(s)]
      /\ \E x : wire' = [wire EXCEPT ![s] = x]
  BY DEF Drop, keys
<1>2. y.session = {}
  <2>1. peer[s] \in PeerState
    BY LocalTypes
  <2> QED
    BY <2>1 DEF PeerState, Blank
<1> HIDE DEF y
<1>3. o \in Pages /\ o # s /\ Other(o) = s /\ \A t \in Pages : t = s \/ t = o
  BY TwoPages
<1>4. /\ up'[s] = FALSE /\ peer'[s] = y
      /\ \A t \in Pages : t # s => /\ up'[t] = up[t] /\ peer'[t] = peer[t] /\ shake'[t] = shake[t]
                                   /\ wire'[t] = wire[t]
  BY <1>1 DEF Typed, Handshakes, Channels
<1>5. Idle.at = "idle"
  BY DEF Idle
<1>6. Readable(s)'
  BY <1>4 DEF Readable
<1>7. Readable(o)'
  <2> DEFINE p == peer[o]
             j == job[o]
             ks == kept[o]
             w == wire[o]
             n == Len(shake[o])
             c == chain[s]
  <2>1. SUFFICES ASSUME up[o] PROVE ReadableOf(o, p, j, ks, w, {}, c, Idle, Idle) /\ NumberedOf(o, n, w, Idle, Idle)
    BY <1>1, <1>2, <1>3, <1>4 DEF Readable
  <2>2. /\ ReadableOf(o, p, j, ks, w, peer[s].session, c, job[s], send[s])
        /\ NumberedOf(o, n, w, job[s], send[s]) /\ w \in Seq(Frame) /\ n \in Nat
    BY <2>1, Promised
  <2> HIDE DEF o, p, j, ks, w, n, c
  <2>3. c.given => Claim(o, p, j, ks, w, Len(w), c.id, {})
    BY DEF Claim, Live
  <2>4. ReadableOf(o, p, j, ks, w, {}, c, Idle, Idle)
    BY <1>5, <2>2, <2>3, ReadableSends
  <2>5. NumberedOf(o, n, w, Idle, Idle)
    BY <1>5, <2>2, NumberedSends
  <2> QED
    BY <2>4, <2>5
<1>8. Steady(s)' /\ Steady(o)'
  <2>1. Steady(o)
    BY <1>3 DEF Delivering
  <2> QED
    BY <1>1, <1>3, <1>4, <1>5, <2>1 DEF Steady
<1> QED
  BY <1>3, <1>6, <1>7, <1>8 DEF Delivering

LEMMA ConnectDelivers ==
  ASSUME Typed, Paired, Connect
  PROVE  Delivering'
<1> SUFFICES ASSUME NEW s \in Pages PROVE Readable(s)' /\ Steady(s)'
  BY DEF Delivering
<1> DEFINE o == Other(s)
<1>1. o \in Pages
  BY TwoPages
<1>2. /\ ~up[s] /\ job[s] = Idle /\ wire[s] = <<>> /\ send[s] = Idle /\ job[o] = Idle /\ send[o] = Idle
      /\ UNCHANGED <<peer, shake, chain, kept, wire, job, send>>
  BY <1>1 DEF Connect, keys
<1>3. peer[s].hs = 0
  BY <1>2, InHandshake
<1>4. Idle.at = "idle" /\ DOMAIN <<>> = {}
  BY DEF Idle
<1>5. ReadableOf(s, peer[s], job[s], kept[s], wire[s], peer[o].session, chain[o], job[o], send[o])
  BY <1>3, ReadableNone
<1>6. NumberedOf(s, Len(shake[s]), wire[s], job[o], send[o])
  BY <1>2, <1>4 DEF NumberedOf
<1>7. Readable(s)'
  BY <1>2, <1>5, <1>6 DEF Readable
<1>8. Steady(s)'
  BY <1>2, <1>4 DEF Steady
<1> QED
  BY <1>7, <1>8

LEMMA InitDelivering == Init => Delivering
<1> SUFFICES ASSUME Init, NEW s \in Pages PROVE Readable(s) /\ Steady(s)
  BY DEF Delivering
<1>1. up[s] = FALSE /\ job[s] = Idle /\ send[s] = Idle
  BY DEF Init
<1> QED
  BY <1>1 DEF Readable, Steady, Idle

LEMMA NextDelivering ==
  ASSUME ~Straddle, Typed, Paired, Delivering, [Next]_vars
  PROVE  Delivering'
<1>1. CASE UNCHANGED vars \/ Rest
  <2>1. UNCHANGED <<peer, shake, chain, kept, up, wire, job, send>>
    BY <1>1 DEF vars, Rest
  <2> SUFFICES ASSUME NEW s \in Pages PROVE Readable(s)' /\ Steady(s)'
    BY DEF Delivering
  <2>2. Readable(s) /\ Steady(s)
    BY DEF Delivering
  <2> QED
    BY <2>1, <2>2 DEF Readable, Steady
<1>2. CASE Connect
  BY <1>2, ConnectDelivers
<1>3. ASSUME NEW s \in Pages,
             OpenChannel(s) \/ Drop(s) \/ IgnoreClosed(s)
               \/ (\E h \in starting[s] : Started(s, h))
               \/ TakeHello(s) \/ DecideHello(s) \/ AwaitedHello(s) \/ AcceptHello(s)
      PROVE  Delivering'
  BY <1>3, OpenDelivers, DropDelivers, IgnoreDelivers, StartedDelivers, TakeHelloDelivers,
     DecideDelivers, AwaitedHelloDelivers, AcceptHelloDelivers
<1>4. ASSUME NEW s \in Pages,
             TakeKem(s) \/ AwaitedKem(s) \/ AcceptKem(s) \/ Establish(s)
               \/ HandOut(s) \/ HandedOut(s) \/ SealRoom(s) \/ SendChain(s) \/ Seal(s) \/ SendRoom(s)
      PROVE  Delivering'
  BY <1>4, TakeKemDelivers, AwaitedKemDelivers, AcceptKemDelivers, EstablishDelivers,
     HandOutDelivers, HandedOutDelivers, SealRoomDelivers, SendChainDelivers, SealDelivers,
     SendRoomDelivers
<1>5. ASSUME NEW s \in Pages,
             TakeFrame(s) \/ OpenFrame(s) \/ FailFrame(s)
               \/ TakeReset(s) \/ StartedOver(s) \/ WindowPasses(s) \/ TakeRoom(s)
      PROVE  Delivering'
  BY <1>5, TakeFrameDelivers, OpenFrameDelivers, FailFrameDelivers, TakeResetDelivers,
     AwaitedHelloDelivers, WindowDelivers, TakeRoomDelivers
<1> QED
  BY <1>1, <1>2, <1>3, <1>4, <1>5 DEF Next

LEMMA NewestHeld ==
  ASSUME NEW ks \in Seq(Nat), NEW c, Newest(ks, c)
  PROVE  c \in ToSet(ks)
<1>1. Len(ks) \in DOMAIN ks /\ ks[Len(ks)] = c
  BY LenProperties DEF Newest
<1> QED
  BY <1>1 DEF ToSet

LEMMA DeliveringReads ==
  ASSUME Typed, Paired, Delivering
  PROVE  RoomReadable
<1> SUFFICES ASSUME NEW s \in Pages, Next4(s, "room"), peer[s].session = Head(wire[s]).session,
                    ~peer[s].failed
             PROVE  Head(wire[s]).chain \in ToSet(kept[s])
  BY DEF RoomReadable
<1> DEFINE w == wire[s]
           T == peer[s].session
           c == w[1].chain
<1>1. up[s] /\ job[s] = Idle /\ w \in Seq(Frame) /\ w # <<>> /\ Head(w).t = "room"
  BY TakingPage
<1>2. Head(w) = w[1] /\ 1 \in DOMAIN w
  BY <1>1, Wires
<1>3. Readable(s)
  BY DEF Delivering
<1>4. /\ Claim(s, peer[s], job[s], kept[s], w, 1 - 1, c, T) /\ T # {}
  BY <1>1, <1>2, <1>3 DEF Readable, ReadableOf, NumberedOf, Named
<1>5. Live(s, peer[s], T)
  <2>1. PageOf(s, peer[s], Len(shake[s]), shake[s][Len(shake[s])], starting[s], job[s], up[s], fresh[s])
    BY DEF Paired, Local
  <2>2. T = Joint(s, Len(shake[s]), peer[s].accepted)
    BY <1>4, <2>1 DEF PageOf
  <2>3. peer[s].hs # 0 /\ peer[s].hs = Len(shake[s])
    BY <1>4, InHandshake
  <2> QED
    BY <2>2, <2>3 DEF Live, Joint
<1>6. Reaches(peer[s], job[s], kept[s], w, 0, c, T)
  BY <1>4, <1>5 DEF Claim
<1>7. Held(peer[s], job[s], kept[s], c, T)
  BY <1>6 DEF Reaches
<1>8. Newest(kept[s], c)
  BY <1>1, <1>7 DEF Held, Idle
<1>9. kept[s] \in Seq(Nat)
  BY DEF Typed, Chains
<1> QED
  BY <1>2, <1>8, <1>9, NewestHeld

(* A room message finds its chain, on channels whose handlers end with     *)
(* them: when it is taken in the session it was sealed in, the receiver    *)
(* holds the chain, whatever was rotated, handed out or replaced before    *)
(* (sealRoom, handOut and rehello in p4-session.ts, sender-keys4.ts).      *)
THEOREM RoomAlwaysReadable ==
  ASSUME ~Straddle
  PROVE  Spec => []RoomReadable
<1>1. Init => Paired /\ Delivering
  BY InitPaired, InitDelivering
<1>2. Typed /\ Paired /\ Delivering /\ [Next]_vars => Paired' /\ Delivering'
  BY NextPaired, NextDelivering
<1>3. Spec => []Typed
  BY AlwaysTyped
<1>4. Typed /\ Paired /\ Delivering => RoomReadable
  BY DeliveringReads
<1> QED
  BY <1>1, <1>2, <1>3, <1>4, PTL DEF Spec
=============================================================================
