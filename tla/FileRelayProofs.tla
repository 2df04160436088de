-------------------------- MODULE FileRelayProofs --------------------------
(***************************************************************************)
(* Proofs about FileRelay, for any pages, files, chunks and limits.        *)
(***************************************************************************)
EXTENDS FileRelay, FiniteSetTheorems, SequenceTheorems, TLAPS

----------------------------------------------------------------------------
(* The table of transfers.                                                 *)

(* What the operations of FileProxy preserve of a table.                   *)
Sound(tb) ==
  /\ tb = [last |-> tb.last, peers |-> tb.peers, total |-> tb.total]
  /\ Listed(tb) \subseteq Files /\ IsFiniteSet(Listed(tb))
  /\ tb.total = Cardinality(Listed(tb))
  /\ DOMAIN tb.peers \subseteq Pages
  /\ \A p \in DOMAIN tb.peers : tb.peers[p] # {}
  /\ \A p \in Pages : PeerSet(tb, p) = {f \in Listed(tb) : Owner[f] = p}

LEMMA EmptySound == Sound(EmptyTable)
<1>1. /\ Listed(EmptyTable) = {} /\ DOMAIN EmptyTable.peers = {} /\ EmptyTable.total = 0
      /\ EmptyTable = [last |-> EmptyTable.last, peers |-> EmptyTable.peers, total |-> EmptyTable.total]
  BY DEF EmptyTable, Empty, Listed
<1> QED
  BY <1>1, FS_EmptySet DEF Sound, PeerSet

(* finalize takes each of the transfers out of all three books.            *)
LEMMA FinalizeSound ==
  ASSUME NEW tb, Sound(tb), NEW S
  PROVE  Sound(Finalize(tb, S)) /\ Listed(Finalize(tb, S)) = Listed(tb) \ S
<1> DEFINE new == Finalize(tb, S)
<1>1. /\ new = [last |-> new.last, peers |-> new.peers, total |-> new.total]
      /\ Listed(new) = Listed(tb) \ S
      /\ DOMAIN new.peers = {q \in DOMAIN tb.peers : ~(tb.peers[q] \subseteq S)}
      /\ \A p \in DOMAIN new.peers : new.peers[p] = tb.peers[p] \ S
      /\ new.total = tb.total - Cardinality(S \cap Listed(tb))
  BY DEF Finalize, Listed
<1>2. /\ IsFiniteSet(Listed(tb) \ S)
      /\ Cardinality(Listed(tb) \ S) = Cardinality(Listed(tb)) - Cardinality(Listed(tb) \cap S)
  BY FS_Difference DEF Sound
<1>3. S \cap Listed(tb) = Listed(tb) \cap S
  OBVIOUS
<1> HIDE DEF new
<1>4. \A p \in Pages : PeerSet(new, p) = PeerSet(tb, p) \ S
  BY <1>1 DEF PeerSet
<1>5. \A p \in DOMAIN new.peers : new.peers[p] # {}
  BY <1>1
<1>6. \A p \in Pages : PeerSet(new, p) = {f \in Listed(new) : Owner[f] = p}
  BY <1>1, <1>4 DEF Sound
<1>7. Sound(new)
  BY <1>1, <1>2, <1>3, <1>5, <1>6 DEF Sound
<1> QED
  BY <1>1, <1>7 DEF new

(* begin adds a transfer that is not listed, then forgets the old ones.    *)
LEMMA BeginSound ==
  ASSUME NEW tb, Sound(tb), NEW f \in Files, f \notin Listed(tb), NEW at
  PROVE  Sound(Begin(tb, f, at)) /\ Listed(Begin(tb, f, at)) \subseteq Listed(tb) \cup {f}
<1> DEFINE new == [last  |-> [g \in Listed(tb) \cup {f} |-> IF g = f THEN at ELSE tb.last[g]],
                   peers |-> [p \in DOMAIN tb.peers \cup {Owner[f]} |->
                     IF p = Owner[f] THEN PeerSet(tb, p) \cup {f} ELSE tb.peers[p]],
                   total |-> tb.total + 1]
<1>1. Begin(tb, f, at) = Finalize(new, Expired(new, at))
  BY DEF Begin, Gc
<1>2. /\ new = [last |-> new.last, peers |-> new.peers, total |-> new.total]
      /\ Listed(new) = Listed(tb) \cup {f}
      /\ DOMAIN new.peers = DOMAIN tb.peers \cup {Owner[f]}
      /\ \A p \in DOMAIN new.peers :
           new.peers[p] = IF p = Owner[f] THEN PeerSet(tb, p) \cup {f} ELSE tb.peers[p]
      /\ new.total = tb.total + 1
  BY DEF Listed
<1>3. Owner[f] \in Pages
  BY ProxyAssumption
<1>4. /\ IsFiniteSet(Listed(tb) \cup {f})
      /\ Cardinality(Listed(tb) \cup {f}) = Cardinality(Listed(tb)) + 1
  BY FS_AddElement DEF Sound
<1> HIDE DEF new
<1>5. \A p \in Pages : PeerSet(new, p) = IF p = Owner[f] THEN PeerSet(tb, p) \cup {f} ELSE PeerSet(tb, p)
  BY <1>2 DEF PeerSet
<1>6. \A p \in Pages : PeerSet(new, p) = {g \in Listed(new) : Owner[g] = p}
  BY <1>2, <1>5 DEF Sound
<1>7. Sound(new)
  BY <1>2, <1>3, <1>4, <1>6 DEF Sound
<1> QED
  BY <1>1, <1>2, <1>7, FinalizeSound

LEMMA TouchSound ==
  ASSUME NEW tb, Sound(tb), NEW f \in Listed(tb), NEW at
  PROVE  Sound(Touch(tb, f, at)) /\ Listed(Touch(tb, f, at)) = Listed(tb)
<1>1. /\ Touch(tb, f, at) = [last |-> Touch(tb, f, at).last, peers |-> tb.peers, total |-> tb.total]
      /\ Listed(Touch(tb, f, at)) = Listed(tb)
  BY DEF Touch, Listed, Sound
<1>2. \A p : PeerSet(Touch(tb, f, at), p) = PeerSet(tb, p)
  BY <1>1 DEF PeerSet
<1> QED
  BY <1>1, <1>2 DEF Sound

(* The books agree, and only connected pages have transfers.               *)
TableInv ==
  /\ Sound(table)
  /\ \A f \in Listed(table) : Owner[f] \in here

LEMMA TableStep ==
  ASSUME TableInv, [Next]_vars
  PROVE  TableInv'
<1> USE DEF TableInv
<1>1. ASSUME NEW f \in Files, BeginSend(f) PROVE TableInv'
  <2>1. CASE Refusal(table, f) = ""
    <3>1. f \notin Listed(table)
      BY <2>1 DEF Refusal
    <3>2. here' = here /\ Owner[f] \in here /\ table' = Begin(table, f, now)
      BY <1>1, <2>1 DEF BeginSend
    <3> QED
      BY <3>1, <3>2, BeginSound
  <2>2. CASE Refusal(table, f) # ""
    BY <1>1, <2>2 DEF BeginSend
  <2> QED
    BY <2>1, <2>2
<1>2. ASSUME NEW f, NEW frame, Relayed(f, frame), here' = here PROVE TableInv'
  <2>1. CASE f \in Listed(table) /\ table' = Touch(table, f, now)
    BY <1>2, <2>1, TouchSound
  <2>2. CASE table' = table
    BY <1>2, <2>2
  <2> QED
    BY <1>2, <2>1, <2>2 DEF Relayed
<1>3. ASSUME NEW f \in Files, SendChunk(f) \/ EndSend(f) PROVE TableInv'
  BY <1>2, <1>3 DEF SendChunk, EndSend
<1>4. ASSUME NEW f \in Files, FailSend(f) PROVE TableInv'
  <2>1. here' = here /\ (table' = Finalize(table, {f}) \/ table' = table)
    BY <1>4 DEF FailSend
  <2> QED
    BY <2>1, FinalizeSound
<1>5. ASSUME NEW j \in jobs, Repeat(j) PROVE TableInv'
  BY <1>2, <1>5 DEF Repeat
<1>6. ASSUME NEW p \in Pages, Close(p) PROVE TableInv'
  <2>1. here' = here \ {p} /\ table' = Finalize(table, PeerSet(table, p))
    BY <1>6 DEF Close, DropSender
  <2>2. \A f \in Listed(table) : Owner[f] = p => f \in PeerSet(table, p)
    BY DEF Sound
  <2> QED
    BY <2>1, <2>2, FinalizeSound
<1>7. CASE /\ UNCHANGED table
           /\ here \subseteq here'
  BY <1>7
<1>8. ASSUME NEW f \in Files, NEW p \in Pages, Deliver(f, p) PROVE TableInv'
  BY <1>7, <1>8 DEF Deliver
<1>9. ASSUME NEW a \in asks, HandleAsk(a) PROVE TableInv'
  BY <1>7, <1>9 DEF HandleAsk
<1>10. ASSUME NEW p \in Pages, Reconnect(p) PROVE TableInv'
  BY <1>7, <1>10 DEF Reconnect
<1>11. CASE Tick \/ UNCHANGED vars
  BY <1>7, <1>11 DEF Tick, vars
<1> QED
  BY <1>1, <1>3, <1>4, <1>5, <1>6, <1>8, <1>9, <1>10, <1>11 DEF Next

(* The three books of the transfer table agree and list only transfers of  *)
(* pages that are connected, for any limits (file-proxy.ts).               *)
THEOREM TableAlwaysSound == Spec => []TableSound
<1>1. Init => TableInv
  BY EmptySound DEF Init, TableInv, EmptyTable, Empty, Listed
<1>2. TableInv => TableSound
  BY DEF TableInv, TableSound, Sound
<1> QED
  BY <1>1, <1>2, TableStep, PTL DEF Spec

----------------------------------------------------------------------------
(* Frames on their way to a page, and what the page has of the file.       *)

(* w are the frames of file f, reg is the page's registry, got are the     *)
(* chunks it has or was denied, sent those the hub was given.              *)
Expecting(w, f, reg) == f \in reg \/ (w # <<>> /\ w[1] = Meta)

(* A meta frame comes first, and to a page that has not begun.             *)
MetaFirst(w, f, reg) == \A k \in 1 .. Len(w) : w[k] = Meta => k = 1 /\ f \notin reg

(* Each chunk sent is there or on its way, and ahead of each end frame.    *)
Carried(w, got, sent) ==
  /\ \A i \in sent : i \in got \/ \E j \in 1 .. Len(w) : w[j] = Chunk(i)
  /\ \A k \in 1 .. Len(w) : w[k] = End =>
       \A i \in Seqs : i \in got \/ \E j \in 1 .. k - 1 : w[j] = Chunk(i)

Line(w, f, reg, got, sent) ==
  /\ w \in Seq(Frames)
  /\ MetaFirst(w, f, reg)
  /\ Expecting(w, f, reg) => Carried(w, got, sent)

Got(p, f) ==
  {i \in Seqs : \/ <<p, f, i>> \in lost
                \/ f \in DOMAIN incoming[p] /\ i \in incoming[p][f].have}
Given(f) == IF f \in Listed(table) THEN 1 .. out[f].next - 1 ELSE {}

LineOf(p, f) ==
  IF p = Owner[f] THEN wire[f][p] = <<>> /\ f \notin DOMAIN incoming[p]
  ELSE Line(wire[f][p], f, DOMAIN incoming[p], Got(p, f), Given(f))

(* What is not begun left no trace; what is over was sent in full.         *)
Untouched(f) ==
  /\ out[f].next = 1 /\ f \notin Listed(table)
  /\ \A p \in Pages : wire[f][p] = <<>> /\ f \notin DOMAIN incoming[p]
StageOf(f) ==
  /\ out[f].step = "idle" => Untouched(f)
  /\ out[f].step = "over" => out[f].next = Chunks + 1
Stages == \A f \in Files : StageOf(f)

JobsAreOver == \A j \in jobs : out[j.file].step = "over"

RelayInv ==
  /\ TableInv /\ TypeOK /\ Stages /\ JobsAreOver /\ AsksOnlyForLost
  /\ \A p \in Pages, f \in Files : LineOf(p, f)

----------------------------------------------------------------------------
(* What happens to a line of frames.                                       *)

LEMMA FrameFacts ==
  /\ Meta \in Frames /\ End \in Frames /\ Stop \in Frames
  /\ \A i \in Seqs : Chunk(i) \in Frames
  /\ Meta # End /\ Meta # Stop /\ End # Stop
  /\ \A i : Chunk(i) # Meta /\ Chunk(i) # End /\ Chunk(i) # Stop
  /\ \A i, j : Chunk(i) = Chunk(j) => i = j
BY DEF Frames, Meta, End, Stop, Chunk

(* A page that is not waiting for a meta frame, nor has the file, is       *)
(* owed nothing.                                                           *)
LEMMA IdleLine ==
  ASSUME NEW w \in Seq(Frames), NEW f, NEW reg, f \in reg, MetaFirst(w, f, reg),
         NEW reg2, f \notin reg2, NEW got, NEW sent
  PROVE  Line(w, f, reg2, got, sent)
BY DEF Line, MetaFirst, Expecting

(* A frame other than meta is put behind the others.                       *)
LEMMA AppendLine ==
  ASSUME NEW w, NEW f, NEW reg, NEW got, NEW sent, Line(w, f, reg, got, sent),
         NEW x \in Frames, x # Meta,
         NEW got2, got \subseteq got2,
         NEW sent2, \A i \in sent2 : i \in sent \/ x = Chunk(i),
         x = End => Seqs \subseteq sent
  PROVE  Line(Append(w, x), f, reg, got2, sent2)
<1> DEFINE v == Append(w, x)
<1>1. w \in Seq(Frames)
  BY DEF Line
<1>2. /\ v \in Seq(Frames) /\ Len(w) \in Nat /\ Len(v) = Len(w) + 1 /\ v # <<>>
      /\ \A k \in 1 .. Len(w) : v[k] = w[k]
      /\ v[Len(w) + 1] = x
  BY <1>1, AppendProperties
<1> HIDE DEF v
<1>3. MetaFirst(v, f, reg)
  BY <1>2 DEF Line, MetaFirst
<1>4. ASSUME Expecting(v, f, reg) PROVE Carried(v, got2, sent2)
  <2>1. Expecting(w, f, reg)
    BY <1>1, <1>2, <1>4 DEF Expecting
  <2>2. Carried(w, got, sent)
    BY <2>1 DEF Line
  <2>3. \A i \in sent2 : i \in got2 \/ \E j \in 1 .. Len(v) : v[j] = Chunk(i)
    BY <1>2, <2>2 DEF Carried
  <2>4. ASSUME NEW k \in 1 .. Len(v), v[k] = End, NEW i \in Seqs, i \notin got2
        PROVE  \E j \in 1 .. k - 1 : v[j] = Chunk(i)
    <3>1. CASE k \in 1 .. Len(w)
      <4>1. PICK j \in 1 .. k - 1 : w[j] = Chunk(i)
        BY <1>2, <2>2, <2>4, <3>1 DEF Carried
      <4> QED
        BY <1>2, <3>1, <4>1
    <3>2. CASE k = Len(w) + 1
      <4>1. PICK j \in 1 .. Len(w) : w[j] = Chunk(i)
        BY <1>2, <2>2, <2>4, <3>2 DEF Carried
      <4> QED
        BY <1>2, <3>2, <4>1
    <3> QED
      BY <1>2, <3>1, <3>2
  <2> QED
    BY <2>3, <2>4 DEF Carried
<1> QED
  BY <1>2, <1>3, <1>4 DEF Line, v

(* Nothing is put there: what is sent now did not reach the page.          *)
LEMMA SkipLine ==
  ASSUME NEW w, NEW f, NEW reg, NEW got, NEW sent, Line(w, f, reg, got, sent),
         NEW got2, got \subseteq got2,
         NEW sent2, sent2 \subseteq sent \cup got2
  PROVE  Line(w, f, reg, got2, sent2)
BY DEF Line, Carried

(* The line is cut: what was on it did not reach the page.                 *)
LEMMA CutLine ==
  ASSUME NEW w, NEW f, NEW reg, NEW got, NEW sent, Line(w, f, reg, got, sent),
         NEW got2, got \subseteq got2,
         \A k \in 1 .. Len(w), i \in Seqs : w[k] = Chunk(i) => i \in got2,
         NEW sent2, sent2 \subseteq sent, sent2 \subseteq Seqs
  PROVE  Line(<<>>, f, reg, got2, sent2)
<1>1. ASSUME f \in reg PROVE Carried(<<>>, got2, sent2)
  <2>1. Carried(w, got, sent)
    BY <1>1 DEF Line, Expecting
  <2> QED
    BY <2>1 DEF Carried
<1>2. <<>> \in Seq(Frames) /\ Len(<<>>) = 0
  BY EmptySeq
<1>3. MetaFirst(<<>>, f, reg)
  BY <1>2 DEF MetaFirst
<1>4. Expecting(<<>>, f, reg) => f \in reg
  BY DEF Expecting
<1> QED
  BY <1>1, <1>2, <1>3, <1>4 DEF Line

(* The page takes the first frame.                                         *)
LEMMA TakeLine ==
  ASSUME NEW w, NEW f, NEW reg, NEW got, NEW sent, Line(w, f, reg, got, sent), w # <<>>,
         NEW reg2, NEW got2, NEW sent2,
         f \in reg2 => /\ f \in reg \/ w[1] = Meta
                       /\ got \subseteq got2 /\ sent2 \subseteq sent
                       /\ \A i \in Seqs : w[1] = Chunk(i) => i \in got2,
         sent2 \subseteq Seqs
  PROVE  Line(Tail(w), f, reg2, got2, sent2)
<1> DEFINE v == Tail(w)
<1>1. w \in Seq(Frames)
  BY DEF Line
<1>2. /\ v \in Seq(Frames) /\ Len(w) \in Nat /\ Len(w) > 0 /\ Len(v) = Len(w) - 1
      /\ \A k \in 1 .. Len(v) : v[k] = w[k + 1]
  BY <1>1, HeadTailProperties
<1> HIDE DEF v
<1>3. \A k \in 1 .. Len(v) : v[k] # Meta
  BY <1>2 DEF Line, MetaFirst
<1>4. MetaFirst(v, f, reg2)
  BY <1>3 DEF MetaFirst
<1>5. Expecting(v, f, reg2) => f \in reg2
  BY <1>2, <1>3 DEF Expecting
<1>6. ASSUME f \in reg2 PROVE Carried(v, got2, sent2)
  <2>1. Carried(w, got, sent)
    BY <1>6 DEF Line, Expecting
  <2>2. ASSUME NEW i \in sent2, i \notin got2
        PROVE  \E j \in 1 .. Len(v) : v[j] = Chunk(i)
    <3>1. PICK j \in 1 .. Len(w) : w[j] = Chunk(i)
      BY <1>6, <2>1, <2>2 DEF Carried
    <3>2. j # 1
      BY <1>6, <2>2, <3>1
    <3>3. j - 1 \in 1 .. Len(v) /\ v[j - 1] = w[j]
      BY <1>2, <3>2
    <3> QED
      BY <3>1, <3>3
  <2>3. ASSUME NEW k \in 1 .. Len(v), v[k] = End, NEW i \in Seqs, i \notin got2
        PROVE  \E j \in 1 .. k - 1 : v[j] = Chunk(i)
    <3>1. k + 1 \in 1 .. Len(w) /\ w[k + 1] = End
      BY <1>2, <2>3
    <3>2. PICK j \in 1 .. k : w[j] = Chunk(i)
      BY <1>6, <2>1, <2>3, <3>1 DEF Carried
    <3>3. j # 1
      BY <1>6, <2>3, <3>2
    <3>4. j - 1 \in 1 .. k - 1 /\ j - 1 \in 1 .. Len(v) /\ v[j - 1] = w[j]
      BY <1>2, <3>3
    <3> QED
      BY <3>2, <3>4
  <2> QED
    BY <2>2, <2>3 DEF Carried
<1> QED
  BY <1>2, <1>4, <1>5, <1>6 DEF Line, v

(* When the end frame is first, the page has or was denied every chunk.    *)
LEMMA EndLine ==
  ASSUME NEW w, NEW f, NEW reg, f \in reg, NEW got, NEW sent,
         Line(w, f, reg, got, sent), w # <<>>, w[1] = End
  PROVE  Seqs \subseteq got
<1>1. Carried(w, got, sent) /\ Len(w) > 0 /\ Len(w) \in Nat
  BY DEF Line, Expecting
<1> QED
  BY <1>1 DEF Carried

----------------------------------------------------------------------------
(* Types.                                                                  *)

Triples == Pages \X Files \X (0 .. Chunks)

LEMMA FrameSeq == \A x \in Frames : x.seq \in 0 .. Chunks
<1>1. Chunks \in Nat
  BY RelayAssumption
<1> QED
  BY <1>1 DEF Frames, Meta, End, Stop, Chunk, Seqs

(* A frame for the room is on its way to, or did not reach, each page      *)
(* besides the sender.                                                     *)
LEMMA SendEffect ==
  ASSUME TypeOK, NEW F \in SUBSET Files, NEW x \in Frames, NEW S
  PROVE  /\ Sending(F, x, S) \in [Files -> [Pages -> Seq(Frames)]]
         /\ \A f \in Files, p \in Pages : Sending(F, x, S)[f][p] =
              IF f \in F /\ p \in (Others(f) \cap here) \ S
              THEN Append(wire[f][p], x) ELSE wire[f][p]
         /\ Missing(F, x, S) \subseteq Triples
         /\ \A f \in F : \A p \in Others(f) \ (here \ S) : <<p, f, x.seq>> \in Missing(F, x, S)
<1>1. \A f \in Files, p \in Pages : Append(wire[f][p], x) \in Seq(Frames)
  BY AppendProperties DEF TypeOK
<1>2. \A f \in Files, p \in Pages : Sending(F, x, S)[f][p] =
        IF f \in F /\ p \in (Others(f) \cap here) \ S
        THEN Append(wire[f][p], x) ELSE wire[f][p]
  BY DEF Sending
<1>3. Sending(F, x, S) \in [Files -> [Pages -> Seq(Frames)]]
  BY <1>1 DEF Sending, TypeOK
<1>4. Missing(F, x, S) \subseteq Triples
  BY FrameSeq DEF Missing, Triples
<1>5. \A f \in F : \A p \in Others(f) \ (here \ S) : <<p, f, x.seq>> \in Missing(F, x, S)
  BY DEF Missing, Others
<1> QED
  BY <1>2, <1>3, <1>4, <1>5

(* The other files of a page, and other pages, are left alone, but for the *)
(* quiet files a meta frame makes the page drop.                           *)
LEMMA TakeEffect ==
  ASSUME TypeOK, NEW p \in Pages, NEW f \in Files, NEW x \in Frames, Take(p, f, x)
  PROVE  /\ DOMAIN incoming' = Pages
         /\ \A q \in Pages \ {p} : incoming'[q] = incoming[q]
         /\ DOMAIN incoming'[p] \subseteq Files
         /\ incoming'[p] \in [DOMAIN incoming'[p] -> Entry]
         /\ \A g \in DOMAIN incoming'[p] \ {f} :
              g \in DOMAIN incoming[p] /\ incoming'[p][g] = incoming[p][g]
         /\ card' \in [Pages -> [Files -> Cards]]
         /\ asks' \subseteq Asks /\ lost' = lost
<1> DEFINE Goal == /\ DOMAIN incoming' = Pages
                   /\ \A q \in Pages \ {p} : incoming'[q] = incoming[q]
                   /\ DOMAIN incoming'[p] \subseteq Files
                   /\ incoming'[p] \in [DOMAIN incoming'[p] -> Entry]
                   /\ \A g \in DOMAIN incoming'[p] \ {f} :
                        g \in DOMAIN incoming[p] /\ incoming'[p][g] = incoming[p][g]
                   /\ card' \in [Pages -> [Files -> Cards]]
                   /\ asks' \subseteq Asks /\ lost' = lost
<1>1. ASSUME NEW as \in Cards, Settle(p, f, as) PROVE Goal
  BY <1>1 DEF Settle, TypeOK, Without
<1>2. ASSUME f \in DOMAIN incoming[p], NEW missing \in SUBSET Seqs,
             incoming[p][f].rounds < MaxRounds, Ask(p, f, missing)
      PROVE  Goal
  <2>1. /\ incoming[p][f] \in Entry /\ MaxRounds \in Nat /\ now \in 0 .. MaxTime
    BY <1>2, RelayAssumption DEF TypeOK
  <2>2. [file |-> f, by |-> p, round |-> incoming[p][f].rounds + 1, left |-> missing] \in Asks
    BY <1>2, <2>1 DEF Asks, Entry
  <2>3. asks' \subseteq Asks /\ lost' = lost /\ card' \in [Pages -> [Files -> Cards]]
    BY <1>2, <2>2 DEF Ask, TypeOK
  <2> DEFINE e == incoming[p][f]
  <2>6. e \in Entry /\ e.rounds + 1 \in 0 .. MaxRounds
    BY <1>2, <2>1 DEF Entry
  <2> HIDE DEF e
  <2>7. [e EXCEPT !.rounds = e.rounds + 1, !.at = now] \in Entry
    BY <2>1, <2>6 DEF Entry
  <2>4. [incoming[p][f] EXCEPT !.rounds = incoming[p][f].rounds + 1, !.at = now] \in Entry
    BY <2>7 DEF e
  <2>5. incoming' = [incoming EXCEPT ![p] = [incoming[p] EXCEPT ![f] =
          [incoming[p][f] EXCEPT !.rounds = incoming[p][f].rounds + 1, !.at = now]]]
    BY <1>2 DEF Ask, TypeOK
  <2> QED
    BY <1>2, <2>3, <2>4, <2>5 DEF TypeOK
<1>3. CASE x.kind = "meta" /\ f \notin DOMAIN incoming[p] /\ TakeMeta(p, f)
  <2> DEFINE kept == Without(incoming[p], Quiet(p))
             new  == [have |-> {}, rounds |-> 0, at |-> now]
  <2>1. new \in Entry
    BY RelayAssumption DEF Entry, TypeOK
  <2>2. incoming' = [incoming EXCEPT ![p] = kept] \/ incoming' = [incoming EXCEPT ![p] = Put(kept, f, new)]
    BY <1>3 DEF TakeMeta
  <2>3. card' \in [Pages -> [Files -> Cards]]
    BY <1>3 DEF TakeMeta, TypeOK, Cards
  <2>4. asks' \subseteq Asks /\ lost' = lost
    BY <1>3 DEF TakeMeta, TypeOK
  <2>5. /\ DOMAIN kept \subseteq DOMAIN incoming[p] /\ kept \in [DOMAIN kept -> Entry]
        /\ \A g \in DOMAIN kept : kept[g] = incoming[p][g]
    BY DEF Without, TypeOK
  <2> HIDE DEF kept, new
  <2>6. CASE incoming' = [incoming EXCEPT ![p] = kept]
    BY <2>3, <2>4, <2>5, <2>6 DEF TypeOK
  <2>7. CASE incoming' = [incoming EXCEPT ![p] = Put(kept, f, new)]
    BY <2>1, <2>3, <2>4, <2>5, <2>7 DEF TypeOK, Put
  <2> QED
    BY <2>2, <2>6, <2>7
<1>4. CASE x.kind = "chunk" /\ f \in DOMAIN incoming[p] /\ TakeChunk(p, f, x.seq)
  <2>1. x.seq \in Seqs
    BY <1>4 DEF Frames, Meta, End, Stop, Chunk
  <2>2. incoming[p][f] \in Entry /\ now \in 0 .. MaxTime
    BY <1>4 DEF TypeOK
  <2>3. [incoming[p][f] EXCEPT !.have = incoming[p][f].have \cup {x.seq}, !.at = now] \in Entry
    BY <2>1, <2>2 DEF Entry
  <2>4. incoming' = [incoming EXCEPT ![p] = [incoming[p] EXCEPT ![f] =
          [incoming[p][f] EXCEPT !.have = incoming[p][f].have \cup {x.seq}, !.at = now]]]
    BY <1>4 DEF TakeChunk, TypeOK
  <2>5. card' \in [Pages -> [Files -> Cards]] /\ asks' \subseteq Asks /\ lost' = lost
    BY <1>4 DEF TakeChunk, TypeOK
  <2> QED
    BY <1>4, <2>3, <2>4, <2>5 DEF TypeOK
<1>5. CASE x.kind = "end" /\ f \in DOMAIN incoming[p] /\ TakeEnd(p, f)
  BY <1>1, <1>2, <1>5 DEF TakeEnd, Cards
<1>6. CASE x.kind = "cancel" /\ TakeStop(p, f)
  BY <1>1, <1>6 DEF TakeStop, Cards
<1>7. CASE UNCHANGED <<incoming, asks, card, lost>>
  BY <1>7 DEF TypeOK
<1> QED
  BY <1>3, <1>4, <1>5, <1>6, <1>7 DEF Take

----------------------------------------------------------------------------
(* All lines at once.                                                      *)

Lines == \A p \in Pages, f \in Files : LineOf(p, f)

LEMMA GotGrows ==
  ASSUME incoming' = incoming, lost \subseteq lost', NEW p \in Pages, NEW f \in Files
  PROVE  Got(p, f) \subseteq Got(p, f)'
BY DEF Got

(* A step that sends nothing to anybody.                                   *)
LEMMA StillLines ==
  ASSUME Lines, wire' = wire, incoming' = incoming, lost \subseteq lost',
         \A f \in Files : Given(f)' \subseteq Given(f)
  PROVE  Lines'
<1> SUFFICES ASSUME NEW p \in Pages, NEW f \in Files PROVE LineOf(p, f)'
  BY DEF Lines
<1>1. LineOf(p, f)
  BY DEF Lines
<1>2. CASE p = Owner[f]
  BY <1>1, <1>2 DEF LineOf
<1>3. CASE p # Owner[f]
  <2>1. Line(wire[f][p], f, DOMAIN incoming[p], Got(p, f), Given(f))
    BY <1>1, <1>3 DEF LineOf
  <2>2. Line(wire[f][p], f, DOMAIN incoming[p], Got(p, f)', Given(f)')
    BY <2>1, GotGrows, SkipLine
  <2> QED
    BY <1>3, <2>2 DEF LineOf
<1> QED
  BY <1>2, <1>3

(* A frame of each file of F is sent to whoever it reaches: what that does *)
(* to one line.                                                            *)
LEMMA SentLine ==
  ASSUME TypeOK, NEW p \in Pages, NEW f \in Files, LineOf(p, f),
         NEW F \in SUBSET Files, NEW x \in Frames, x # Meta, NEW S,
         wire'[f][p] = Sending(F, x, S)[f][p],
         lost \cup Missing(F, x, S) \subseteq lost',
         incoming' = incoming,
         (x = End /\ f \in F) => Seqs \subseteq Given(f),
         \A i \in Given(f)' : i \in Given(f) \/ (f \in F /\ i \in Seqs /\ x = Chunk(i))
  PROVE  LineOf(p, f)'
<1>2. /\ wire'[f][p] = IF f \in F /\ p \in (Others(f) \cap here) \ S
                       THEN Append(wire[f][p], x) ELSE wire[f][p]
      /\ (f \in F /\ p \in Others(f) \ (here \ S)) => <<p, f, x.seq>> \in lost'
  <2>1. \A g \in F : \A q \in Others(g) \ (here \ S) : <<q, g, x.seq>> \in Missing(F, x, S)
    BY SendEffect
  <2>2. Sending(F, x, S)[f][p] = IF f \in F /\ p \in (Others(f) \cap here) \ S
                                 THEN Append(wire[f][p], x) ELSE wire[f][p]
    BY DEF Sending
  <2> QED
    BY <2>1, <2>2
<1>3. CASE p = Owner[f]
  BY <1>2, <1>3 DEF LineOf, Others
<1>4. CASE p # Owner[f]
  <2>1. Line(wire[f][p], f, DOMAIN incoming[p], Got(p, f), Given(f))
    BY <1>4 DEF LineOf
  <2>2. Got(p, f) \subseteq Got(p, f)'
    BY GotGrows
  <2>3. Line(wire'[f][p], f, DOMAIN incoming[p], Got(p, f)', Given(f)')
    <3>1. CASE f \in F /\ p \in here \ S
      <4>1. wire'[f][p] = Append(wire[f][p], x)
        BY <1>2, <1>4, <3>1 DEF Others
      <4>2. \A i \in Given(f)' : i \in Given(f) \/ x = Chunk(i)
        OBVIOUS
      <4> QED
        BY <2>1, <2>2, <3>1, <4>1, <4>2, AppendLine
    <3>2. CASE f \in F /\ p \notin here \ S
      <4>1. wire'[f][p] = wire[f][p] /\ <<p, f, x.seq>> \in lost'
        BY <1>2, <1>4, <3>2 DEF Others
      <4>2. \A i \in Seqs : x = Chunk(i) => i \in Got(p, f)'
        BY <4>1 DEF Got, Chunk
      <4>3. Given(f)' \subseteq Given(f) \cup Got(p, f)'
        BY <4>2
      <4> QED
        BY <2>1, <2>2, <4>1, <4>3, SkipLine
    <3>3. CASE f \notin F
      <4>1. wire'[f][p] = wire[f][p] /\ Given(f)' \subseteq Given(f)
        BY <1>2, <3>3
      <4> QED
        BY <2>1, <2>2, <4>1, SkipLine
    <3> QED
      BY <3>1, <3>2, <3>3
  <2> QED
    BY <1>4, <2>3 DEF LineOf
<1> QED
  BY <1>3, <1>4

(* The files a step leaves alone are known as before.                      *)
LEMMA GivenInSeqs ==
  ASSUME TypeOK, NEW f \in Files
  PROVE  Given(f) \subseteq Seqs /\ (out[f].next = 1 => Given(f) = {})
         /\ (out[f].next = Chunks + 1 /\ f \in Listed(table) => Given(f) = Seqs)
<1>1. out[f].next \in 1 .. Chunks + 1 /\ Chunks \in Nat
  BY RelayAssumption DEF TypeOK
<1> QED
  BY <1>1 DEF Given, Seqs

----------------------------------------------------------------------------
(* The steps.                                                              *)

(* A frame of f that is passed on while f is listed.                       *)
LEMMA RelayedStep ==
  ASSUME RelayInv, NEW f \in Files, NEW x \in Frames, x # Meta, Relayed(f, x),
         incoming' = incoming,
         x = End => out[f].next = Chunks + 1,
         \A g \in Files \ {f} : out'[g].next = out[g].next,
         \/ out'[f].next = out[f].next
         \/ out[f].next \in Seqs /\ out'[f].next = out[f].next + 1 /\ x = Chunk(out[f].next)
  PROVE  /\ Lines' /\ lost \subseteq lost' /\ lost' \subseteq Triples
         /\ wire' \in [Files -> [Pages -> Seq(Frames)]]
         /\ \A g \in Files \ {f} : wire'[g] = wire[g]
         /\ Listed(table)' = Listed(table)
<1>1. TypeOK /\ TableInv /\ lost \subseteq Triples /\ wire \in [Files -> [Pages -> Seq(Frames)]]
  BY DEF RelayInv, TypeOK, Triples
<1>2. CASE Owner[f] \in here /\ f \in Listed(table)
  <2>1. PICK S : Sent({f}, x, S)
    BY <1>2 DEF Relayed
  <2>2. Listed(table)' = Listed(table)
    <3>1. table' = Touch(table, f, now)
      BY <1>2 DEF Relayed
    <3> QED
      BY <1>1, <1>2, <3>1, TouchSound DEF TableInv, Listed
  <2>3. wire' = Sending({f}, x, S) /\ lost' = lost \cup Missing({f}, x, S)
    BY <2>1 DEF Sent
  <2>4. ASSUME NEW p \in Pages, NEW g \in Files PROVE LineOf(p, g)'
    <3>1. LineOf(p, g)
      BY DEF RelayInv
    <3>2. (x = End /\ g \in {f}) => Seqs \subseteq Given(g)
      BY <1>1, <1>2, GivenInSeqs
    <3>3. \A i \in Given(g)' : i \in Given(g) \/ (g \in {f} /\ i \in Seqs /\ x = Chunk(i))
      <4>1. out[g].next \in Nat
        BY <1>1 DEF TypeOK
      <4> QED
        BY <2>2, <4>1 DEF Given
    <3> QED
      BY <1>1, <2>3, <3>1, <3>2, <3>3, SentLine
  <2>5. \A g \in Files \ {f} : wire'[g] = wire[g]
    BY <1>1, <2>3 DEF Sending
  <2>6. {f} \in SUBSET Files
    OBVIOUS
  <2>7. Missing({f}, x, S) \subseteq Triples /\ wire' \in [Files -> [Pages -> Seq(Frames)]]
    BY <1>1, <2>3, <2>6, SendEffect
  <2>8. Lines'
    BY <2>4 DEF Lines
  <2> QED
    BY <1>1, <2>2, <2>3, <2>5, <2>7, <2>8
<1>3. CASE ~(Owner[f] \in here /\ f \in Listed(table))
  <2>1. UNCHANGED <<table, wire, lost>>
    BY <1>3 DEF Relayed
  <2>2. f \notin Listed(table)
    BY <1>1, <1>3 DEF TableInv
  <2>3. \A g \in Files : Given(g)' \subseteq Given(g)
    BY <2>1, <2>2 DEF Given
  <2>4. Lines'
    BY <2>1, <2>3, StillLines DEF RelayInv, Lines
  <2> QED
    BY <1>1, <2>1, <2>4
<1> QED
  BY <1>2, <1>3

(* The parts of the invariant about the table are TableStep's.             *)
LEMMA RelayParts ==
  ASSUME TableInv', Stages', JobsAreOver', AsksOnlyForLost', Lines',
         here' \subseteq Pages,
         out' \in [Files -> [step: {"idle", "sending", "over", "failed"},
                             next: 1 .. Chunks + 1, at: 0 .. MaxTime]],
         wire' \in [Files -> [Pages -> Seq(Frames)]],
         asks' \subseteq Asks, jobs' \subseteq Asks,
         DOMAIN incoming' = Pages,
         \A p \in Pages : /\ DOMAIN incoming'[p] \subseteq Files
                          /\ incoming'[p] \in [DOMAIN incoming'[p] -> Entry],
         card' \in [Pages -> [Files -> Cards]],
         lost' \subseteq Triples, now' \in 0 .. MaxTime
  PROVE  RelayInv'
<1>1. /\ Listed(table)' \subseteq Files /\ table'.total \in Nat
      /\ DOMAIN table'.peers \subseteq Pages
  BY FS_CardinalityType DEF TableInv, Sound, Listed
<1>2. TypeOK'
  BY <1>1 DEF TypeOK, Triples
<1> QED
  BY <1>2 DEF RelayInv, Lines

(* A step that leaves the sender of g alone, sends no frame of g unless g  *)
(* is listed, and lets no page begin to receive g while it is idle.        *)
LEMMA StageKept ==
  ASSUME Stages, NEW g \in Files, out'[g] = out[g],
         g \in Listed(table)' => g \in Listed(table),
         out[g].step = "idle" => \A p \in Pages :
           /\ wire'[g][p] = wire[g][p]
           /\ g \in DOMAIN incoming'[p] => g \in DOMAIN incoming[p]
  PROVE  StageOf(g)'
BY DEF Stages, StageOf, Untouched

LEMMA BeginStep ==
  ASSUME RelayInv, TableInv', NEW f \in Files, BeginSend(f)
  PROVE  RelayInv'
<1>1. /\ TypeOK /\ TableInv /\ Stages /\ JobsAreOver /\ AsksOnlyForLost
      /\ UNCHANGED <<here, asks, jobs, incoming, card, now>>
      /\ out' = [out EXCEPT ![f].step = "sending"]
      /\ out[f].step = "idle" /\ out[f].next = 1
      /\ f \notin Listed(table)
      /\ \A p \in Pages : wire[f][p] = <<>> /\ f \notin DOMAIN incoming[p]
  BY DEF RelayInv, BeginSend, Stages, StageOf, Untouched
<1>2. /\ out' \in [Files -> [step: {"idle", "sending", "over", "failed"},
                             next: 1 .. Chunks + 1, at: 0 .. MaxTime]]
      /\ \A g \in Files \ {f} : out'[g] = out[g]
      /\ out'[f].step = "sending" /\ out'[f].next = 1
  BY <1>1 DEF TypeOK
<1>3. /\ Listed(table)' \subseteq Listed(table) \cup {f}
      /\ lost \subseteq lost' /\ lost' \subseteq Triples
      /\ wire' \in [Files -> [Pages -> Seq(Frames)]]
      /\ \A g \in Files, p \in Pages :
           wire'[g][p] = wire[g][p] \/ (g = f /\ p # Owner[f] /\ wire'[g][p] = Append(<<>>, Meta))
  <2>1. CASE Refusal(table, f) = ""
    <3>1. PICK S : /\ wire' = Sending({f}, Meta, S)
                   /\ lost' = lost \cup Missing({f}, Meta, S) \cup ForgottenBy(f)
      BY <1>1, <2>1 DEF BeginSend
    <3>2. Listed(table)' \subseteq Listed(table) \cup {f}
      <4>1. table' = Begin(table, f, now)
        BY <2>1 DEF BeginSend
      <4> QED
        BY <1>1, <4>1, BeginSound DEF TableInv, Listed
    <3>3. ForgottenBy(f) \subseteq Triples
      <4>1. Expired(table, now) \subseteq Files /\ 0 \in 0 .. Chunks
        BY <1>1, RelayAssumption DEF Expired, TypeOK
      <4> QED
        BY <4>1 DEF ForgottenBy, Triples
    <3>7. {f} \in SUBSET Files /\ Meta \in Frames
      BY FrameFacts
    <3>4. Missing({f}, Meta, S) \subseteq Triples
      BY <1>1, <3>7, SendEffect
    <3>5. wire' \in [Files -> [Pages -> Seq(Frames)]]
      BY <1>1, <3>1, <3>7, SendEffect
    <3>6. \A g \in Files, p \in Pages :
            wire'[g][p] = wire[g][p] \/ (g = f /\ p # Owner[f] /\ wire'[g][p] = Append(<<>>, Meta))
      BY <1>1, <3>1 DEF Sending, Others
    <3> QED
      BY <1>1, <3>1, <3>2, <3>3, <3>4, <3>5, <3>6 DEF TypeOK, Triples
  <2>2. CASE Refusal(table, f) # ""
    BY <1>1, <2>2 DEF BeginSend, TypeOK, Triples
  <2> QED
    BY <2>1, <2>2
<1>4. \A g \in Files : Given(g)' \subseteq Given(g)
  BY <1>2, <1>3 DEF Given
<1>5. Lines'
  <2> SUFFICES ASSUME NEW p \in Pages, NEW g \in Files PROVE LineOf(p, g)'
    BY DEF Lines
  <2>1. LineOf(p, g)
    BY DEF RelayInv
  <2>2. CASE p = Owner[g]
    BY <1>1, <1>3, <2>1, <2>2 DEF LineOf
  <2>3. CASE p # Owner[g] /\ wire'[g][p] = wire[g][p]
    <3>1. Line(wire[g][p], g, DOMAIN incoming[p], Got(p, g), Given(g))
      BY <2>1, <2>3 DEF LineOf
    <3>2. Line(wire[g][p], g, DOMAIN incoming[p], Got(p, g)', Given(g)')
      BY <1>1, <1>3, <1>4, <3>1, GotGrows, SkipLine
    <3> QED
      BY <1>1, <2>3, <3>2 DEF LineOf
  <2>4. CASE g = f /\ p # Owner[g] /\ wire'[g][p] = Append(<<>>, Meta)
    <3> DEFINE w == Append(<<>>, Meta)
    <3>1. /\ w \in Seq(Frames) /\ Len(w) = 1 /\ w[1] = Meta
      BY FrameFacts, EmptySeq, AppendProperties
    <3> HIDE DEF w
    <3>2. Given(f)' = {}
      BY <1>2 DEF Given
    <3>3. MetaFirst(w, f, DOMAIN incoming[p])
      BY <1>1, <3>1 DEF MetaFirst
    <3>4. Carried(w, Got(p, f)', {})
      BY <3>1, FrameFacts DEF Carried
    <3>5. Line(w, f, DOMAIN incoming[p], Got(p, f)', {})
      BY <3>1, <3>3, <3>4 DEF Line
    <3> QED
      BY <1>1, <2>4, <3>2, <3>5 DEF LineOf, w
  <2> QED
    BY <1>3, <2>2, <2>3, <2>4
<1>6. Stages'
  <2> SUFFICES ASSUME NEW g \in Files PROVE StageOf(g)'
    BY DEF Stages
  <2>1. CASE g = f
    BY <1>2, <2>1 DEF StageOf
  <2>2. CASE g # f
    BY <1>1, <1>2, <1>3, <2>2, StageKept
  <2> QED
    BY <2>1, <2>2
<1>7. JobsAreOver'
  BY <1>1, <1>2 DEF JobsAreOver, TypeOK, Asks
<1>8. AsksOnlyForLost'
  BY <1>1, <1>3 DEF AsksOnlyForLost
<1> QED
  BY <1>1, <1>2, <1>3, <1>5, <1>6, <1>7, <1>8, RelayParts DEF TypeOK

(* A frame is passed on: what is left to show is about the sender.         *)
LEMMA RelayedKeeps ==
  ASSUME RelayInv, TableInv', NEW f \in Files, NEW x \in Frames, x # Meta, Relayed(f, x),
         UNCHANGED <<here, asks, incoming, card, now>>,
         out[f].step # "idle", out'[f].step # "idle",
         out' \in [Files -> [step: {"idle", "sending", "over", "failed"},
                             next: 1 .. Chunks + 1, at: 0 .. MaxTime]],
         x = End => out[f].next = Chunks + 1,
         \A g \in Files \ {f} : out'[g] = out[g],
         \/ out'[f].next = out[f].next
         \/ out[f].next \in Seqs /\ out'[f].next = out[f].next + 1 /\ x = Chunk(out[f].next),
         out'[f].step = "over" => out'[f].next = Chunks + 1,
         jobs' \subseteq Asks, JobsAreOver', AsksOnlyForLost'
  PROVE  RelayInv'
<1>1. /\ TypeOK /\ Stages
      /\ Lines' /\ lost \subseteq lost' /\ lost' \subseteq Triples
      /\ wire' \in [Files -> [Pages -> Seq(Frames)]]
      /\ \A g \in Files \ {f} : wire'[g] = wire[g]
      /\ Listed(table)' = Listed(table)
  BY RelayedStep DEF RelayInv
<1>2. Stages'
  <2> SUFFICES ASSUME NEW g \in Files PROVE StageOf(g)'
    BY DEF Stages
  <2>1. CASE g = f
    BY <2>1 DEF StageOf
  <2>2. CASE g # f
    BY <1>1, <2>2, StageKept
  <2> QED
    BY <2>1, <2>2
<1> QED
  BY <1>1, <1>2, RelayParts DEF TypeOK

LEMMA SendChunkStep ==
  ASSUME RelayInv, TableInv', NEW f \in Files, SendChunk(f)
  PROVE  RelayInv'
<1>1. /\ TypeOK /\ JobsAreOver /\ AsksOnlyForLost /\ jobs \subseteq Asks
      /\ UNCHANGED <<here, asks, jobs, incoming, card, now>>
      /\ out[f].step = "sending" /\ out[f].next \in Seqs
      /\ Relayed(f, Chunk(out[f].next))
      /\ \/ out' = [out EXCEPT ![f].next = @ + 1]
         \/ out' = [out EXCEPT ![f].step = "failed"]
  BY DEF RelayInv, SendChunk, TypeOK
<1>2. /\ out' \in [Files -> [step: {"idle", "sending", "over", "failed"},
                             next: 1 .. Chunks + 1, at: 0 .. MaxTime]]
      /\ \A g \in Files \ {f} : out'[g] = out[g]
      /\ out'[f].step \in {"sending", "failed"}
      /\ out'[f].next = out[f].next \/ out'[f].next = out[f].next + 1
  <2>1. /\ out[f].next \in 1 .. Chunks /\ Chunks \in Nat
        /\ out \in [Files -> [step: {"idle", "sending", "over", "failed"},
                              next: 1 .. Chunks + 1, at: 0 .. MaxTime]]
    BY <1>1, RelayAssumption DEF TypeOK, Seqs
  <2>2. out[f].next + 1 \in 1 .. Chunks + 1
    BY <2>1
  <2>3. CASE out' = [out EXCEPT ![f].next = @ + 1]
    BY <1>1, <2>1, <2>2, <2>3
  <2>4. CASE out' = [out EXCEPT ![f].step = "failed"]
    BY <1>1, <2>1, <2>4
  <2> QED
    BY <1>1, <2>3, <2>4
<1>3. Chunk(out[f].next) \in Frames /\ Chunk(out[f].next) # Meta /\ Chunk(out[f].next) # End
  BY <1>1, FrameFacts
<1>4. lost \subseteq lost'
  BY <1>1 DEF Relayed, Sent
<1>5. JobsAreOver'
  BY <1>1, <1>2 DEF JobsAreOver, Asks
<1>6. AsksOnlyForLost'
  BY <1>1, <1>4 DEF AsksOnlyForLost
<1> QED
  BY <1>1, <1>2, <1>3, <1>5, <1>6, RelayedKeeps

LEMMA EndSendStep ==
  ASSUME RelayInv, TableInv', NEW f \in Files, EndSend(f)
  PROVE  RelayInv'
<1>1. /\ TypeOK /\ JobsAreOver /\ AsksOnlyForLost /\ jobs \subseteq Asks
      /\ UNCHANGED <<here, asks, jobs, incoming, card, now>>
      /\ out[f].step = "sending" /\ out[f].next \notin Seqs
      /\ Relayed(f, End)
      /\ out' = [out EXCEPT ![f].step = "over", ![f].at = now]
  BY DEF RelayInv, EndSend, TypeOK
<1>2. out[f].next = Chunks + 1
  BY <1>1, RelayAssumption DEF TypeOK, Seqs
<1>3. /\ out' \in [Files -> [step: {"idle", "sending", "over", "failed"},
                             next: 1 .. Chunks + 1, at: 0 .. MaxTime]]
      /\ \A g \in Files \ {f} : out'[g] = out[g]
      /\ out'[f].step = "over" /\ out'[f].next = out[f].next
  BY <1>1 DEF TypeOK
<1>4. lost \subseteq lost'
  BY <1>1 DEF Relayed, Sent
<1>5. JobsAreOver'
  BY <1>1, <1>3 DEF JobsAreOver, Asks
<1>6. AsksOnlyForLost'
  BY <1>1, <1>4 DEF AsksOnlyForLost
<1> QED
  BY <1>1, <1>2, <1>3, <1>5, <1>6, FrameFacts, RelayedKeeps

LEMMA RepeatStep ==
  ASSUME RelayInv, TableInv', NEW j \in jobs, Repeat(j)
  PROVE  RelayInv'
<1>1. /\ TypeOK /\ JobsAreOver /\ AsksOnlyForLost /\ jobs \subseteq Asks /\ Stages
      /\ UNCHANGED <<here, out, asks, incoming, card, now>>
  BY DEF RelayInv, Repeat, TypeOK
<1>2. /\ j.file \in Files /\ out[j.file].step = "over" /\ out[j.file].next = Chunks + 1
      /\ j \in Asks
  BY <1>1 DEF JobsAreOver, Stages, StageOf, Asks
<1>3. PICK x \in Frames : /\ x # Meta /\ Relayed(j.file, x)
                          /\ \/ jobs' = jobs \ {j}
                             \/ \E i \in j.left : jobs' = (jobs \ {j}) \cup {[j EXCEPT !.left = @ \ {i}]}
  <2>1. CASE j.left = {} /\ jobs' = jobs \ {j} /\ Relayed(j.file, End)
    BY <2>1, FrameFacts
  <2>2. ASSUME NEW i \in j.left, Relayed(j.file, Chunk(i)),
               jobs' = (jobs \ {j}) \cup {[j EXCEPT !.left = @ \ {i}]}
        PROVE  \E x \in Frames : /\ x # Meta /\ Relayed(j.file, x)
                                 /\ \E k \in j.left : jobs' = (jobs \ {j}) \cup {[j EXCEPT !.left = @ \ {k}]}
    <3>1. Chunk(i) \in Frames /\ Chunk(i) # Meta
      BY <1>2, FrameFacts DEF Asks
    <3> QED
      BY <2>2, <3>1
  <2> QED
    BY <2>1, <2>2 DEF Repeat
<1>4. \A k \in jobs' : /\ k \in Asks
                       /\ \E o \in jobs : k.file = o.file /\ k.by = o.by /\ k.left \subseteq o.left
  <2>1. CASE jobs' = jobs \ {j}
    BY <1>1, <2>1
  <2>2. ASSUME NEW i \in j.left, jobs' = (jobs \ {j}) \cup {[j EXCEPT !.left = @ \ {i}]}
        PROVE  \A k \in jobs' : /\ k \in Asks
                                /\ \E o \in jobs : k.file = o.file /\ k.by = o.by /\ k.left \subseteq o.left
    <3> DEFINE k == [j EXCEPT !.left = j.left \ {i}]
    <3>1. /\ k \in Asks /\ k.file = j.file /\ k.by = j.by /\ k.left \subseteq j.left
      BY <1>2 DEF Asks
    <3>2. jobs' = (jobs \ {j}) \cup {k}
      BY <2>2
    <3> HIDE DEF k
    <3> QED
      BY <1>1, <3>1, <3>2
  <2> QED
    BY <1>3, <2>1, <2>2
<1>5. lost \subseteq lost'
  BY <1>3 DEF Relayed, Sent
<1>6. JobsAreOver'
  BY <1>1, <1>4 DEF JobsAreOver
<1>7. AsksOnlyForLost'
  BY <1>1, <1>4, <1>5 DEF AsksOnlyForLost
<1>8. /\ out' \in [Files -> [step: {"idle", "sending", "over", "failed"},
                             next: 1 .. Chunks + 1, at: 0 .. MaxTime]]
  BY <1>1 DEF TypeOK
<1> QED
  BY <1>1, <1>2, <1>3, <1>4, <1>6, <1>7, <1>8, RelayedKeeps

LEMMA FailSendStep ==
  ASSUME RelayInv, TableInv', NEW f \in Files, FailSend(f)
  PROVE  RelayInv'
<1>1. /\ TypeOK /\ TableInv /\ JobsAreOver /\ AsksOnlyForLost /\ Stages /\ Lines
      /\ UNCHANGED <<here, asks, jobs, incoming, card, now>>
      /\ out[f].step = "sending"
      /\ out' = [out EXCEPT ![f].step = "failed"]
  BY DEF RelayInv, FailSend, Lines
<1>2. /\ out' \in [Files -> [step: {"idle", "sending", "over", "failed"},
                             next: 1 .. Chunks + 1, at: 0 .. MaxTime]]
      /\ \A g \in Files \ {f} : out'[g] = out[g]
      /\ out'[f].step = "failed"
      /\ \A g \in Files : out'[g].next = out[g].next
  BY <1>1 DEF TypeOK
<1>3. /\ Lines' /\ lost \subseteq lost' /\ lost' \subseteq Triples
      /\ wire' \in [Files -> [Pages -> Seq(Frames)]]
      /\ \A g \in Files \ {f} : wire'[g] = wire[g]
      /\ Listed(table)' \subseteq Listed(table)
  <2>1. CASE Owner[f] \in here /\ f \in Listed(table)
    <3>1. table' = Finalize(table, {f}) /\ \E S : Sent({f}, Stop, S)
      BY <2>1 DEF FailSend
    <3>2. PICK S : wire' = Sending({f}, Stop, S) /\ lost' = lost \cup Missing({f}, Stop, S)
      BY <3>1 DEF Sent
    <3>3. Listed(table)' \subseteq Listed(table)
      BY <1>1, <3>1, FinalizeSound DEF TableInv, Listed
    <3>4. {f} \in SUBSET Files /\ Stop \in Frames /\ Stop # Meta /\ Stop # End
      BY FrameFacts
    <3>5. ASSUME NEW p \in Pages, NEW g \in Files PROVE LineOf(p, g)'
      <4>1. LineOf(p, g)
        BY <1>1 DEF Lines
      <4>2. Given(g)' \subseteq Given(g)
        BY <1>2, <3>3 DEF Given
      <4> QED
        BY <1>1, <3>2, <3>4, <4>1, <4>2, SentLine
    <3>6. Missing({f}, Stop, S) \subseteq Triples /\ wire' \in [Files -> [Pages -> Seq(Frames)]]
      BY <1>1, <3>2, <3>4, SendEffect
    <3>7. \A g \in Files \ {f} : wire'[g] = wire[g]
      BY <1>1, <3>2 DEF Sending, TypeOK
    <3>8. Lines'
      BY <3>5 DEF Lines
    <3> QED
      BY <1>1, <3>2, <3>3, <3>6, <3>7, <3>8 DEF TypeOK, Triples
  <2>2. CASE UNCHANGED <<table, wire, lost>>
    <3>1. \A g \in Files : Given(g)' \subseteq Given(g)
      BY <1>2, <2>2 DEF Given
    <3>2. Lines'
      BY <1>1, <2>2, <3>1, StillLines
    <3> QED
      BY <1>1, <2>2, <3>2 DEF TypeOK, Triples
  <2> QED
    BY <2>1, <2>2 DEF FailSend
<1>4. Stages'
  <2> SUFFICES ASSUME NEW g \in Files PROVE StageOf(g)'
    BY DEF Stages
  <2>1. CASE g = f
    BY <1>2, <2>1 DEF StageOf
  <2>2. CASE g # f
    BY <1>1, <1>2, <1>3, <2>2, StageKept
  <2> QED
    BY <2>1, <2>2
<1>5. JobsAreOver'
  BY <1>1, <1>2 DEF JobsAreOver, TypeOK, Asks
<1>6. AsksOnlyForLost'
  BY <1>1, <1>3 DEF AsksOnlyForLost
<1> QED
  BY <1>1, <1>2, <1>3, <1>4, <1>5, <1>6, RelayParts DEF TypeOK

(* Nothing is sent, nobody begins and nothing arrives.                     *)
LEMMA QuietStep ==
  ASSUME RelayInv, TableInv',
         UNCHANGED <<table, out, wire, incoming, card>>,
         here' \subseteq Pages, now' \in 0 .. MaxTime,
         lost \subseteq lost', lost' \subseteq Triples,
         asks' \subseteq asks, jobs' \subseteq jobs \cup asks,
         \A j \in jobs' \ jobs : out[j.file].step = "over"
  PROVE  RelayInv'
<1>1. TypeOK /\ JobsAreOver /\ AsksOnlyForLost /\ Stages /\ Lines
  BY DEF RelayInv, Lines
<1>2. Lines'
  <2>1. \A g \in Files : Given(g)' \subseteq Given(g)
    BY DEF Given
  <2> QED
    BY <1>1, <2>1, StillLines
<1>3. Stages'
  <2> SUFFICES ASSUME NEW g \in Files PROVE StageOf(g)'
    BY DEF Stages
  <2> QED
    BY <1>1, StageKept
<1>4. JobsAreOver' /\ AsksOnlyForLost'
  BY <1>1 DEF JobsAreOver, AsksOnlyForLost
<1> QED
  BY <1>1, <1>2, <1>3, <1>4, RelayParts DEF TypeOK

LEMMA HandleAskStep ==
  ASSUME RelayInv, TableInv', NEW a \in asks, HandleAsk(a)
  PROVE  RelayInv'
<1>1. TypeOK /\ a \in Asks
  BY DEF RelayInv, TypeOK
<1>2. /\ UNCHANGED <<here, table, out, wire, incoming, card, now>>
      /\ asks' \subseteq asks
      /\ \/ jobs' = jobs /\ lost' = lost \cup {<<a.by, a.file, 0>>}
         \/ jobs' = jobs \cup {a} /\ lost' = lost /\ out[a.file].step = "over"
  BY DEF HandleAsk
<1>3. lost \subseteq Triples /\ <<a.by, a.file, 0>> \in Triples
  BY <1>1, RelayAssumption DEF TypeOK, Asks, Triples
<1> QED
  BY <1>1, <1>2, <1>3, QuietStep DEF TypeOK

LEMMA CloseStep ==
  ASSUME RelayInv, TableInv', NEW p \in Pages, Close(p)
  PROVE  RelayInv'
<1>1. /\ TypeOK /\ TableInv /\ JobsAreOver /\ AsksOnlyForLost /\ Stages /\ Lines
      /\ UNCHANGED <<out, jobs, incoming, card, now>>
      /\ here' \subseteq Pages
      /\ table' = DropSender(table, p)
  BY DEF RelayInv, Close, Lines, TypeOK
<1> DEFINE ended == Listed(table) \ Listed(DropSender(table, p))
<1>2. PICK S \in Droppable, D \in SUBSET asks :
        /\ wire' = [f \in Files |-> [Sending(ended, Stop, S)[f] EXCEPT ![p] = <<>>]]
        /\ asks' = asks \ D
        /\ \A a \in D : a.by = p
        /\ lost' = lost \cup Missing(ended, Stop, S) \cup OnWire(p)
                        \cup {<<p, a.file, 0>> : a \in D}
  BY DEF Close
<1>3. /\ Listed(table)' \subseteq Listed(table)
      /\ ended \in SUBSET Files /\ ended \subseteq Listed(table)
  BY <1>1, FinalizeSound DEF TableInv, DropSender, Listed, TypeOK
<1> HIDE DEF ended
<1>4. Stop \in Frames /\ Stop # Meta /\ Stop # End
  BY FrameFacts
<1>5. /\ Sending(ended, Stop, S) \in [Files -> [Pages -> Seq(Frames)]]
      /\ Missing(ended, Stop, S) \subseteq Triples
  BY <1>1, <1>3, <1>4, SendEffect
<1>6. OnWire(p) \subseteq Triples
  <2>1. \A f \in Files : \A k \in 1 .. Len(wire[f][p]) : wire[f][p][k] \in Frames
    BY <1>1 DEF TypeOK
  <2> QED
    BY <2>1, FrameSeq DEF OnWire, Triples
<1>7. lost \subseteq lost' /\ lost' \subseteq Triples
  <2>1. \A a \in D : <<p, a.file, 0>> \in Triples
    BY <1>1, RelayAssumption DEF TypeOK, Asks, Triples
  <2> QED
    BY <1>1, <1>2, <1>5, <1>6, <2>1 DEF TypeOK, Triples
<1>8. /\ wire' \in [Files -> [Pages -> Seq(Frames)]]
      /\ \A f \in Files : /\ wire'[f][p] = <<>>
                          /\ \A q \in Pages \ {p} : wire'[f][q] = Sending(ended, Stop, S)[f][q]
  <2>1. <<>> \in Seq(Frames)
    BY EmptySeq
  <2> QED
    BY <1>2, <1>5, <2>1
<1>9. \A f \in Files : Given(f)' \subseteq Given(f)
  BY <1>1, <1>3 DEF Given
<1>10. Lines'
  <2> SUFFICES ASSUME NEW q \in Pages, NEW f \in Files PROVE LineOf(q, f)'
    BY DEF Lines
  <2>1. LineOf(q, f)
    BY <1>1 DEF Lines
  <2>2. CASE q # p
    <3>1. wire'[f][q] = Sending(ended, Stop, S)[f][q]
      BY <1>8, <2>2
    <3>2. lost \cup Missing(ended, Stop, S) \subseteq lost'
      BY <1>2
    <3> QED
      BY <1>1, <1>3, <1>4, <1>9, <2>1, <3>1, <3>2, SentLine
  <2>3. CASE q = p /\ p = Owner[f]
    BY <1>1, <1>8, <2>1, <2>3 DEF LineOf
  <2>4. CASE q = p /\ p # Owner[f]
    <3>1. Line(wire[f][p], f, DOMAIN incoming[p], Got(p, f), Given(f))
      BY <2>1, <2>4 DEF LineOf
    <3>2. Got(p, f) \subseteq Got(p, f)'
      BY <1>1, <1>7, GotGrows
    <3>3. ASSUME NEW k \in 1 .. Len(wire[f][p]), NEW i \in Seqs, wire[f][p][k] = Chunk(i)
          PROVE  i \in Got(p, f)'
      <4>1. <<p, f, i>> \in OnWire(p)
        <5>1. wire[f][p][k].seq = i
          BY <3>3 DEF Chunk
        <5> QED
          BY <5>1 DEF OnWire
      <4> QED
        BY <1>2, <4>1 DEF Got
    <3>4. Given(f)' \subseteq Given(f) /\ Given(f)' \subseteq Seqs
      BY <1>1, <1>9, GivenInSeqs
    <3>5. Line(<<>>, f, DOMAIN incoming[p], Got(p, f)', Given(f)')
      BY <3>1, <3>2, <3>3, <3>4, CutLine
    <3> QED
      BY <1>1, <1>8, <2>4, <3>5 DEF LineOf
  <2> QED
    BY <2>2, <2>3, <2>4
<1>11. Stages'
  <2> SUFFICES ASSUME NEW g \in Files PROVE StageOf(g)'
    BY DEF Stages
  <2>1. ASSUME out[g].step = "idle", NEW q \in Pages PROVE wire'[g][q] = wire[g][q]
    <3>1. g \notin Listed(table) /\ wire[g][q] = <<>>
      BY <1>1, <2>1 DEF Stages, StageOf, Untouched
    <3>2. Sending(ended, Stop, S)[g][q] = wire[g][q]
      BY <1>3, <3>1 DEF Sending
    <3> QED
      BY <1>8, <3>1, <3>2
  <2> QED
    BY <1>1, <1>3, <2>1, StageKept
<1>12. JobsAreOver'
  BY <1>1 DEF JobsAreOver
<1>13. AsksOnlyForLost'
  BY <1>1, <1>2, <1>7 DEF AsksOnlyForLost
<1> QED
  BY <1>1, <1>2, <1>7, <1>8, <1>10, <1>11, <1>12, <1>13, RelayParts DEF TypeOK

(* What the page that takes a frame has of the file afterwards, and what   *)
(* it asks for.                                                            *)
LEMMA TakeOwn ==
  ASSUME TypeOK, NEW p \in Pages, NEW f \in Files, NEW x \in Frames, Take(p, f, x)
  PROVE  /\ f \in DOMAIN incoming'[p] =>
              \/ x = Meta /\ f \notin DOMAIN incoming[p]
              \/ /\ f \in DOMAIN incoming[p]
                 /\ incoming[p][f].have \subseteq incoming'[p][f].have
                 /\ \A i : x = Chunk(i) => i \in incoming'[p][f].have
         /\ \A a \in asks' : \/ a \in asks
                             \/ /\ x = End /\ f \in DOMAIN incoming[p]
                                /\ a.by = p /\ a.file = f
                                /\ a.left = Seqs \ incoming[p][f].have
<1> DEFINE Goal == /\ f \in DOMAIN incoming'[p] =>
                        \/ x = Meta /\ f \notin DOMAIN incoming[p]
                        \/ /\ f \in DOMAIN incoming[p]
                           /\ incoming[p][f].have \subseteq incoming'[p][f].have
                           /\ \A i : x = Chunk(i) => i \in incoming'[p][f].have
                   /\ \A a \in asks' : \/ a \in asks
                                       \/ /\ x = End /\ f \in DOMAIN incoming[p]
                                          /\ a.by = p /\ a.file = f
                                          /\ a.left = Seqs \ incoming[p][f].have
<1>1. /\ x.kind = "meta" => x = Meta
      /\ x.kind = "end" => x = End
      /\ x.kind = "cancel" => x = Stop
      /\ \A i : x = Chunk(i) => x.kind = "chunk" /\ x.seq = i
  BY DEF Frames, Meta, End, Stop, Chunk
<1>2. ASSUME NEW as, Settle(p, f, as) PROVE Goal
  BY <1>2 DEF Settle, Without, TypeOK
<1>3. CASE x.kind = "meta" /\ f \notin DOMAIN incoming[p] /\ TakeMeta(p, f)
  BY <1>1, <1>3 DEF TakeMeta
<1>4. CASE x.kind = "chunk" /\ f \in DOMAIN incoming[p] /\ TakeChunk(p, f, x.seq)
  <2>1. incoming[p][f] \in Entry
    BY <1>4 DEF TypeOK
  <2> DEFINE e == [incoming[p][f] EXCEPT !.have = incoming[p][f].have \cup {x.seq}, !.at = now]
  <2>2. e.have = incoming[p][f].have \cup {x.seq}
    BY <2>1 DEF Entry
  <2>3. incoming' = [incoming EXCEPT ![p] = [incoming[p] EXCEPT ![f] = e]]
    BY <1>4 DEF TakeChunk, TypeOK
  <2> HIDE DEF e
  <2>4. incoming'[p][f] = e /\ asks' = asks
    BY <1>4, <2>3 DEF TypeOK, TakeChunk
  <2> QED
    BY <1>1, <1>4, <2>2, <2>4
<1>5. CASE x.kind = "end" /\ f \in DOMAIN incoming[p] /\ TakeEnd(p, f)
  <2> DEFINE missing == Seqs \ incoming[p][f].have
  <2>1. ASSUME Ask(p, f, missing) PROVE Goal
    <3>1. incoming[p][f] \in Entry
      BY <1>5 DEF TypeOK
    <3> DEFINE e == [incoming[p][f] EXCEPT !.rounds = incoming[p][f].rounds + 1, !.at = now]
    <3>2. e.have = incoming[p][f].have
      BY <3>1 DEF Entry
    <3>3. incoming' = [incoming EXCEPT ![p] = [incoming[p] EXCEPT ![f] = e]]
      BY <1>5, <2>1 DEF Ask, TypeOK
    <3> HIDE DEF e
    <3>4. incoming'[p][f] = e
      BY <1>5, <3>3 DEF TypeOK
    <3>5. \A a \in asks' : a \in asks \/ (a.by = p /\ a.file = f /\ a.left = missing)
      BY <2>1 DEF Ask
    <3> QED
      BY <1>1, <1>5, <3>2, <3>4, <3>5
  <2> QED
    BY <1>2, <1>5, <2>1 DEF TakeEnd
<1>6. CASE x.kind = "cancel" /\ TakeStop(p, f)
  BY <1>2, <1>6 DEF TakeStop
<1>7. CASE /\ x.kind \in {"chunk", "end"} /\ f \notin DOMAIN incoming[p]
           /\ UNCHANGED <<incoming, asks, card, lost>>
  BY <1>7
<1> QED
  BY <1>3, <1>4, <1>5, <1>6, <1>7 DEF Take

LEMMA DeliverStep ==
  ASSUME RelayInv, TableInv', NEW f \in Files, NEW p \in Pages, Deliver(f, p)
  PROVE  RelayInv'
<1>1. /\ TypeOK /\ JobsAreOver /\ AsksOnlyForLost /\ Stages /\ Lines
      /\ UNCHANGED <<here, table, out, jobs, now>>
      /\ wire[f][p] # <<>> /\ Take(p, f, Head(wire[f][p]))
      /\ wire' = [wire EXCEPT ![f] = [wire[f] EXCEPT ![p] = Tail(wire[f][p])]]
  BY DEF RelayInv, Lines, Deliver, TypeOK
<1> DEFINE w == wire[f][p]
           x == Head(w)
           reg == DOMAIN incoming[p]
           reg2 == DOMAIN incoming'[p]
<1>2. /\ w \in Seq(Frames) /\ w # <<>> /\ Len(w) > 0
      /\ x \in Frames /\ x = w[1] /\ Tail(w) \in Seq(Frames)
  BY <1>1, HeadTailProperties DEF TypeOK
<1>3. /\ p # Owner[f] /\ Line(w, f, reg, Got(p, f), Given(f))
  BY <1>1 DEF Lines, LineOf
<1>4. /\ DOMAIN incoming' = Pages
      /\ \A q \in Pages \ {p} : incoming'[q] = incoming[q]
      /\ reg2 \subseteq Files
      /\ incoming'[p] \in [reg2 -> Entry]
      /\ \A g \in reg2 \ {f} : g \in reg /\ incoming'[p][g] = incoming[p][g]
      /\ card' \in [Pages -> [Files -> Cards]]
      /\ asks' \subseteq Asks /\ lost' = lost
  BY <1>1, <1>2, TakeEffect
<1>5. /\ f \in reg2 =>
           \/ x = Meta /\ f \notin reg
           \/ /\ f \in reg /\ incoming[p][f].have \subseteq incoming'[p][f].have
              /\ \A i : x = Chunk(i) => i \in incoming'[p][f].have
      /\ \A a \in asks' : \/ a \in asks
                          \/ /\ x = End /\ f \in reg /\ a.by = p /\ a.file = f
                             /\ a.left = Seqs \ incoming[p][f].have
  BY <1>1, <1>2, TakeOwn
<1>6. /\ wire' \in [Files -> [Pages -> Seq(Frames)]]
      /\ wire'[f][p] = Tail(w)
      /\ \A g \in Files, q \in Pages : (g = f /\ q = p) \/ wire'[g][q] = wire[g][q]
  BY <1>1, <1>2 DEF TypeOK
<1>7. \A g \in Files : Given(g)' = Given(g)
  BY <1>1 DEF Given
<1>8. Lines'
  <2> SUFFICES ASSUME NEW q \in Pages, NEW g \in Files PROVE LineOf(q, g)'
    BY DEF Lines
  <2>1. LineOf(q, g)
    BY <1>1 DEF Lines
  <2>2. CASE q # p
    BY <1>4, <1>6, <1>7, <2>1, <2>2 DEF LineOf, Got
  <2>3. CASE q = p /\ g = f
    <3>1. f \in reg2 => /\ f \in reg \/ w[1] = Meta
                        /\ Got(p, f) \subseteq Got(p, f)'
                        /\ \A i \in Seqs : w[1] = Chunk(i) => i \in Got(p, f)'
      BY <1>2, <1>4, <1>5, FrameFacts DEF Got
    <3>2. Given(f)' = Given(f) /\ Given(f)' \subseteq Seqs
      BY <1>1, <1>7, GivenInSeqs
    <3>3. Line(Tail(w), f, reg2, Got(p, f)', Given(f)')
      BY <1>2, <1>3, <3>1, <3>2, TakeLine
    <3> QED
      BY <1>3, <1>6, <2>3, <3>3 DEF LineOf
  <2>4. CASE q = p /\ g # f /\ p = Owner[g]
    BY <1>4, <1>6, <2>1, <2>4 DEF LineOf
  <2>5. CASE q = p /\ g # f /\ p # Owner[g]
    <3>1. Line(wire[g][p], g, reg, Got(p, g), Given(g))
      BY <2>1, <2>5 DEF LineOf
    <3>2. Line(wire[g][p], g, reg2, Got(p, g)', Given(g))
      <4>1. CASE g \in reg /\ g \notin reg2
        <5>1. wire[g][p] \in Seq(Frames) /\ MetaFirst(wire[g][p], g, reg)
          BY <3>1 DEF Line
        <5> QED
          BY <4>1, <5>1, IdleLine
      <4>2. CASE g \in reg <=> g \in reg2
        <5>1. Got(p, g)' = Got(p, g)
          BY <1>4, <2>5, <4>2 DEF Got
        <5> HIDE DEF reg, reg2
        <5> QED
          BY <3>1, <4>2, <5>1 DEF Line, MetaFirst, Expecting
      <4> QED
        BY <1>4, <2>5, <4>1, <4>2
    <3> QED
      BY <1>6, <1>7, <2>5, <3>2 DEF LineOf
  <2> QED
    BY <2>2, <2>3, <2>4, <2>5
<1>9. Stages'
  <2> SUFFICES ASSUME NEW g \in Files PROVE StageOf(g)'
    BY DEF Stages
  <2>1. ASSUME out[g].step = "idle"
        PROVE  g # f /\ \A q \in Pages : /\ wire'[g][q] = wire[g][q]
                                         /\ g \in DOMAIN incoming'[q] => g \in DOMAIN incoming[q]
    BY <1>1, <1>4, <1>6, <2>1 DEF Stages, StageOf, Untouched
  <2> QED
    BY <1>1, <2>1, StageKept
<1>10. JobsAreOver'
  BY <1>1 DEF JobsAreOver
<1>11. AsksOnlyForLost'
  <2> SUFFICES ASSUME NEW a \in asks' \cup jobs', NEW i \in a.left
               PROVE  <<a.by, a.file, i>> \in lost
    BY <1>4 DEF AsksOnlyForLost
  <2>1. CASE a \in asks \cup jobs
    BY <1>1, <2>1 DEF AsksOnlyForLost
  <2>2. CASE x = End /\ f \in reg /\ a.by = p /\ a.file = f /\ a.left = Seqs \ incoming[p][f].have
    <3>1. Seqs \subseteq Got(p, f)
      BY <1>2, <1>3, <2>2, EndLine
    <3> QED
      BY <2>2, <3>1 DEF Got
  <2> QED
    BY <1>1, <1>5, <2>1, <2>2
<1>12. \A q \in Pages : /\ DOMAIN incoming'[q] \subseteq Files
                        /\ incoming'[q] \in [DOMAIN incoming'[q] -> Entry]
  BY <1>1, <1>4 DEF TypeOK
<1> HIDE DEF w, x, reg, reg2
<1>13. /\ here' \subseteq Pages /\ now' \in 0 .. MaxTime /\ jobs' \subseteq Asks /\ lost' \subseteq Triples
       /\ out' \in [Files -> [step: {"idle", "sending", "over", "failed"},
                              next: 1 .. Chunks + 1, at: 0 .. MaxTime]]
  BY <1>1, <1>4 DEF TypeOK, Triples
<1> QED
  BY <1>4, <1>6, <1>8, <1>9, <1>10, <1>11, <1>12, <1>13, RelayParts

LEMMA RelayInit == Init => RelayInv
<1> SUFFICES ASSUME Init PROVE RelayInv
  OBVIOUS
<1>1. /\ Listed(table) = {} /\ table = EmptyTable /\ DOMAIN table.peers = {} /\ table.total = 0
      /\ Chunks \in Nat \ {0} /\ MaxTime \in Nat
      /\ <<>> \in Seq(Frames) /\ Len(<<>>) = 0
  BY RelayAssumption, EmptySeq DEF Init, EmptyTable, Empty, Listed
<1>2. TableInv
  BY <1>1, EmptySound DEF TableInv
<1>3. TypeOK
  BY <1>1 DEF TypeOK, Init, Empty, Cards
<1>4. /\ Stages /\ JobsAreOver /\ AsksOnlyForLost
      /\ \A p \in Pages, f \in Files : wire[f][p] = <<>> /\ f \notin DOMAIN incoming[p]
  BY <1>1 DEF Init, Empty, Stages, StageOf, Untouched, JobsAreOver, AsksOnlyForLost
<1>5. ASSUME NEW p \in Pages, NEW f \in Files PROVE LineOf(p, f)
  <2>1. Line(<<>>, f, DOMAIN incoming[p], Got(p, f), Given(f))
    BY <1>1, <1>4 DEF Line, MetaFirst, Expecting
  <2> QED
    BY <1>4, <2>1 DEF LineOf
<1> QED
  BY <1>2, <1>3, <1>4, <1>5 DEF RelayInv

LEMMA RelayNext == RelayInv /\ [Next]_vars => RelayInv'
<1> SUFFICES ASSUME RelayInv, [Next]_vars PROVE RelayInv'
  OBVIOUS
<1>1. TableInv'
  BY TableStep DEF RelayInv
<1>2. ASSUME NEW f \in Files, BeginSend(f) PROVE RelayInv'
  BY <1>1, <1>2, BeginStep
<1>3. ASSUME NEW f \in Files, SendChunk(f) PROVE RelayInv'
  BY <1>1, <1>3, SendChunkStep
<1>4. ASSUME NEW f \in Files, EndSend(f) PROVE RelayInv'
  BY <1>1, <1>4, EndSendStep
<1>5. ASSUME NEW f \in Files, FailSend(f) PROVE RelayInv'
  BY <1>1, <1>5, FailSendStep
<1>6. ASSUME NEW f \in Files, NEW p \in Pages, Deliver(f, p) PROVE RelayInv'
  BY <1>1, <1>6, DeliverStep
<1>7. ASSUME NEW a \in asks, HandleAsk(a) PROVE RelayInv'
  BY <1>1, <1>7, HandleAskStep
<1>8. ASSUME NEW j \in jobs, Repeat(j) PROVE RelayInv'
  BY <1>1, <1>8, RepeatStep
<1>9. ASSUME NEW p \in Pages, Close(p) PROVE RelayInv'
  BY <1>1, <1>9, CloseStep
<1>10. TypeOK /\ lost \subseteq Triples
  BY DEF RelayInv, TypeOK, Triples
<1>11. ASSUME NEW p \in Pages, Reconnect(p) PROVE RelayInv'
  BY <1>1, <1>10, <1>11, QuietStep DEF Reconnect, TypeOK
<1>12. CASE Tick
  <2>1. now' \in 0 .. MaxTime
    BY <1>10, <1>12, RelayAssumption DEF Tick, TypeOK
  <2> QED
    BY <1>1, <1>10, <1>12, <2>1, QuietStep DEF Tick, TypeOK
<1>13. CASE UNCHANGED vars
  BY <1>1, <1>10, <1>13, QuietStep DEF vars, TypeOK
<1> QED
  BY <1>2, <1>3, <1>4, <1>5, <1>6, <1>7, <1>8, <1>9, <1>11, <1>12, <1>13 DEF Next

(* Every variable keeps its type: in particular a page never asks for more *)
(* rounds than MAX_RESEND_ROUNDS, nor for a chunk the file does not have.  *)
THEOREM TypeCorrect == Spec => []TypeOK
<1>1. RelayInv => TypeOK
  BY DEF RelayInv
<1> QED
  BY <1>1, RelayInit, RelayNext, PTL DEF Spec

(* However transfers, repeats, closed sockets and dropped frames are       *)
(* interleaved, a page asks a sender to repeat only chunks that did not    *)
(* reach it: all that was sent of a file it knows is there, was dropped,   *)
(* or is on its way ahead of the end frame.                                *)
THEOREM AsksOnlyForLostAlways == Spec => []AsksOnlyForLost
<1>1. RelayInv => AsksOnlyForLost
  BY DEF RelayInv
<1> QED
  BY <1>1, RelayInit, RelayNext, PTL DEF Spec

----------------------------------------------------------------------------
(* What a page shows of a file, and what it waits for.                     *)

AwaitsMeta(p, f) == wire[f][p] # <<>> /\ wire[f][p][1] = Meta
OnItsWay(p, f, x) == \E k \in 1 .. Len(wire[f][p]) : wire[f][p][k] = x
Asked(p, f) == \E a \in asks \cup jobs : a.file = f /\ a.by = p

(* The card says "pending" just while the file is in the registry, and     *)
(* nothing before the meta frame is taken.                                 *)
ShownOf(p, f) ==
  /\ f \in DOMAIN incoming[p] <=> card[p][f] = "pending"
  /\ out[f].step = "idle" \/ AwaitsMeta(p, f) => card[p][f] = "none"

(* A page that waits for a transfer the hub has forgotten was denied a     *)
(* frame, or a cancel is on its way.                                       *)
Grounds(p, f) ==
  /\ f \in Listed(table)
  /\ out[f].step = "sending" \/ OnItsWay(p, f, End) \/ Asked(p, f)
Hope(p, f) == <<p, f, 0>> \in lost \/ OnItsWay(p, f, Stop) \/ Grounds(p, f)
HopeOf(p, f) == f \in DOMAIN incoming[p] \/ AwaitsMeta(p, f) => Hope(p, f)

WaitInv ==
  /\ RelayInv
  /\ \A p \in Pages, f \in Files : ShownOf(p, f) /\ HopeOf(p, f)

LEMMA SenderWaitsForNothing ==
  ASSUME RelayInv', NEW f \in Files
  PROVE  HopeOf(Owner[f], f)' /\ wire'[f][Owner[f]] = <<>>
BY ProxyAssumption DEF RelayInv, LineOf, HopeOf, AwaitsMeta

(* What a frame put behind the others does to a line.                      *)
LEMMA AppendedWay ==
  ASSUME TypeOK, NEW p \in Pages, NEW f \in Files, NEW x \in Frames,
         wire'[f][p] = Append(wire[f][p], x)
  PROVE  /\ OnItsWay(p, f, x)'
         /\ \A y : OnItsWay(p, f, y) => OnItsWay(p, f, y)'
         /\ AwaitsMeta(p, f)' => AwaitsMeta(p, f) \/ x = Meta
<1> DEFINE w == wire[f][p]
           v == Append(w, x)
<1>1. w \in Seq(Frames)
  BY DEF TypeOK
<1>2. /\ Len(w) \in Nat /\ Len(v) = Len(w) + 1
      /\ \A k \in 1 .. Len(w) : v[k] = w[k]
      /\ v[Len(w) + 1] = x
      /\ w = <<>> <=> Len(w) = 0
  BY <1>1, AppendProperties, EmptySeq
<1>3. wire'[f][p] = v
  OBVIOUS
<1> HIDE DEF w, v
<1>4. \E k \in 1 .. Len(v) : v[k] = x
  BY <1>2
<1>5. \A y : (\E k \in 1 .. Len(w) : w[k] = y) => \E k \in 1 .. Len(v) : v[k] = y
  BY <1>2
<1>6. v[1] = Meta => (w # <<>> /\ w[1] = Meta) \/ x = Meta
  BY <1>2
<1> QED
  BY <1>3, <1>4, <1>5, <1>6 DEF OnItsWay, AwaitsMeta, w

(* A step after which the page has the same registry and card, and at most *)
(* one frame more on its way: it hopes on, if the transfer gives reason.   *)
LEMMA HopesOn ==
  ASSUME TypeOK, NEW p \in Pages, NEW f \in Files, ShownOf(p, f), HopeOf(p, f),
         incoming' = incoming, card' = card, lost \subseteq lost',
         out'[f].step = "idle" => out[f].step = "idle",
         \/ wire'[f][p] = wire[f][p]
         \/ \E x \in Frames : x # Meta /\ wire'[f][p] = Append(wire[f][p], x),
         Grounds(p, f) => Hope(p, f)'
  PROVE  ShownOf(p, f)' /\ HopeOf(p, f)'
<1>1. /\ \A y : OnItsWay(p, f, y) => OnItsWay(p, f, y)'
      /\ AwaitsMeta(p, f)' => AwaitsMeta(p, f)
  <2>1. CASE wire'[f][p] = wire[f][p]
    BY <2>1 DEF OnItsWay, AwaitsMeta
  <2>2. ASSUME NEW x \in Frames, x # Meta, wire'[f][p] = Append(wire[f][p], x)
        PROVE  <1>1!:
    BY <2>2, AppendedWay
  <2> QED
    BY <2>1, <2>2
<1>2. ShownOf(p, f)'
  BY <1>1 DEF ShownOf
<1>3. Hope(p, f) => Hope(p, f)'
  BY <1>1 DEF Hope
<1> QED
  BY <1>1, <1>2, <1>3 DEF HopeOf

(* A frame of the files of F goes to the room.                             *)
LEMMA SentReaches ==
  ASSUME TypeOK, NEW p \in Pages, NEW f \in Files, p # Owner[f],
         NEW F \in SUBSET Files, NEW x \in Frames, x # Meta, NEW S,
         wire'[f][p] = Sending(F, x, S)[f][p], Missing(F, x, S) \subseteq lost'
  PROVE  /\ \/ wire'[f][p] = wire[f][p]
            \/ wire'[f][p] = Append(wire[f][p], x)
         /\ f \notin F => wire'[f][p] = wire[f][p]
         /\ f \in F => <<p, f, x.seq>> \in lost' \/ OnItsWay(p, f, x)'
<1>1. /\ wire'[f][p] = IF f \in F /\ p \in (Others(f) \cap here) \ S
                       THEN Append(wire[f][p], x) ELSE wire[f][p]
      /\ f \in F /\ p \in Others(f) \ (here \ S) => <<p, f, x.seq>> \in lost'
  <2>1. \A g \in F : \A q \in Others(g) \ (here \ S) : <<q, g, x.seq>> \in Missing(F, x, S)
    BY SendEffect
  <2>2. Sending(F, x, S)[f][p] = IF f \in F /\ p \in (Others(f) \cap here) \ S
                                 THEN Append(wire[f][p], x) ELSE wire[f][p]
    BY DEF Sending
  <2> QED
    BY <2>1, <2>2
<1>2. p \in Others(f)
  BY DEF Others
<1>3. wire'[f][p] = Append(wire[f][p], x) => OnItsWay(p, f, x)'
  BY AppendedWay
<1> QED
  BY <1>1, <1>2, <1>3

(* The steps of WaitInv; RelayInv' is RelayNext's.                         *)
Waiting(p, f) == ShownOf(p, f) /\ HopeOf(p, f)

LEMMA WaitBegin ==
  ASSUME WaitInv, RelayInv', NEW f \in Files, BeginSend(f),
         NEW p \in Pages, NEW g \in Files
  PROVE  Waiting(p, g)'
<1>1. /\ TypeOK /\ TableInv /\ ShownOf(p, g) /\ HopeOf(p, g)
      /\ UNCHANGED <<here, asks, jobs, incoming, card, now>>
      /\ out' = [out EXCEPT ![f].step = "sending"]
      /\ out[f].step = "idle" /\ Untouched(f)
      /\ LineOf(p, g)
  BY DEF WaitInv, RelayInv, BeginSend, Stages, StageOf
<1>2. out'[f].step = "sending" /\ \A h \in Files \ {f} : out'[h] = out[h]
  BY <1>1 DEF TypeOK
<1>3. CASE p = Owner[g]
  <2>1. HopeOf(p, g)'
    BY <1>3, SenderWaitsForNothing
  <2>2. wire'[g][p] = <<>>
    BY <1>3 DEF RelayInv, LineOf
  <2>3. ShownOf(p, g)'
    BY <1>1, <1>2, <2>2 DEF ShownOf, AwaitsMeta
  <2> QED
    BY <2>1, <2>3 DEF Waiting
<1>4. CASE p # Owner[g] /\ Refusal(table, f) # ""
  <2>1. UNCHANGED <<table, wire, lost>>
    BY <1>1, <1>4 DEF BeginSend
  <2>2. g \in Listed(table) => g # f
    BY <1>1 DEF Untouched
  <2>3. Grounds(p, g) => Hope(p, g)'
    BY <1>1, <1>2, <2>1, <2>2 DEF Hope, Grounds, OnItsWay, Asked
  <2>4. out'[g].step = "idle" => out[g].step = "idle"
    BY <1>1, <1>2
  <2> QED
    BY <1>1, <2>1, <2>3, <2>4, HopesOn DEF Waiting
<1>5. CASE p # Owner[g] /\ Refusal(table, f) = ""
  <2>1. PICK S : /\ wire' = Sending({f}, Meta, S)
                 /\ lost' = lost \cup Missing({f}, Meta, S) \cup ForgottenBy(f)
    BY <1>1, <1>5 DEF BeginSend
  <2>2. table' = Begin(table, f, now)
    BY <1>5 DEF BeginSend
  <2>3. CASE g # f
    <3>1. wire'[g][p] = wire[g][p]
      BY <1>1, <2>1, <2>3 DEF Sending, TypeOK
    <3>2. ASSUME g \in Listed(table), g \notin Listed(table)'
          PROVE  <<p, g, 0>> \in lost'
      <4>1. g \in Expired(table, now)
        BY <2>2, <2>3, <3>2 DEF Begin, Gc, Finalize, Listed, Expired
      <4>2. <<p, g, 0>> \in ForgottenBy(f)
        BY <1>5, <2>3, <4>1 DEF ForgottenBy, Others
      <4> QED
        BY <2>1, <4>2
    <3>3. Grounds(p, g) => Hope(p, g)'
      BY <1>1, <1>2, <2>3, <3>1, <3>2 DEF Hope, Grounds, OnItsWay, Asked
    <3> QED
      BY <1>1, <1>2, <2>1, <2>3, <3>1, <3>3, HopesOn DEF Waiting
  <2>4. CASE g = f
    <3>1. card[p][f] = "none" /\ f \notin DOMAIN incoming[p]
      BY <1>1, <2>4 DEF ShownOf, Untouched
    <3>2. ShownOf(p, f)'
      BY <1>1, <3>1 DEF ShownOf
    <3>3. f \in Listed(table)'
      <4>1. now \in Nat /\ Ttl \in Nat
        BY <1>1, ProxyAssumption, RelayAssumption DEF TypeOK
      <4> QED
        BY <2>2, <4>1 DEF Begin, Gc, Finalize, Listed, Expired
    <3> QED
      BY <1>2, <2>4, <3>2, <3>3 DEF Waiting, HopeOf, Hope, Grounds
  <2> QED
    BY <2>3, <2>4
<1> QED
  BY <1>3, <1>4, <1>5

(* A frame other than meta and end, or an end of a listed file, passed on  *)
(* while the sender is at work.                                            *)
LEMMA WaitRelayed ==
  ASSUME WaitInv, RelayInv', NEW f \in Files, NEW x \in Frames, x # Meta, Relayed(f, x),
         UNCHANGED <<here, asks, incoming, card, now>>,
         \A g \in Files \ {f} : out'[g] = out[g],
         out[f].step # "idle", out'[f].step # "idle",
         NEW p \in Pages, NEW g \in Files,
         \A a \in jobs : a.by = p /\ a.file = g =>
           (g = f /\ x = End) \/ \E b \in jobs' : b.by = p /\ b.file = g,
         (out[f].step = "sending" /\ f \in Listed(table)) => x = End \/ out'[f].step = "sending"
  PROVE  Waiting(p, g)'
<1>1. /\ TypeOK /\ TableInv /\ ShownOf(p, g) /\ HopeOf(p, g)
  BY DEF WaitInv, RelayInv
<1>2. out'[g].step = "idle" => out[g].step = "idle"
  OBVIOUS
<1>3. CASE Owner[f] \in here /\ f \in Listed(table)
  <2>1. PICK S : wire' = Sending({f}, x, S) /\ lost' = lost \cup Missing({f}, x, S)
    BY <1>3 DEF Relayed, Sent
  <2>2. Listed(table)' = Listed(table)
    <3>1. table' = Touch(table, f, now)
      BY <1>3 DEF Relayed
    <3> QED
      BY <1>1, <1>3, <3>1, TouchSound DEF TableInv, Listed
  <2>3. CASE p = Owner[g]
    <3>1. HopeOf(p, g)'
      BY <2>3, SenderWaitsForNothing
    <3>2. wire'[g][p] = <<>>
      BY <2>3 DEF RelayInv, LineOf
    <3> QED
      BY <1>1, <1>2, <3>1, <3>2 DEF Waiting, ShownOf, AwaitsMeta
  <2>4. CASE p # Owner[g]
    <3>1. /\ wire'[g][p] = wire[g][p] \/ wire'[g][p] = Append(wire[g][p], x)
          /\ g = f => <<p, f, x.seq>> \in lost' \/ OnItsWay(p, f, x)'
      <4>1. {f} \in SUBSET Files
        OBVIOUS
      <4> QED
        BY <1>1, <2>1, <2>4, <4>1, SentReaches
    <3>2. OnItsWay(p, g, End) => OnItsWay(p, g, End)'
      <4>1. CASE wire'[g][p] = wire[g][p]
        BY <4>1 DEF OnItsWay
      <4>2. CASE wire'[g][p] = Append(wire[g][p], x)
        BY <1>1, <4>2, AppendedWay
      <4> QED
        BY <3>1, <4>1, <4>2
    <3>3. End.seq = 0
      BY DEF End
    <3>4. Grounds(p, g) => Hope(p, g)'
      BY <1>3, <2>2, <3>1, <3>2, <3>3 DEF Hope, Grounds, Asked
    <3> QED
      BY <1>1, <1>2, <2>1, <3>1, <3>4, HopesOn DEF Waiting
  <2> QED
    BY <2>3, <2>4
<1>4. CASE ~(Owner[f] \in here /\ f \in Listed(table))
  <2>1. UNCHANGED <<table, wire, lost>>
    BY <1>4 DEF Relayed
  <2>2. f \notin Listed(table)
    BY <1>1, <1>4 DEF TableInv
  <2>3. Grounds(p, g) => Hope(p, g)'
    BY <2>1, <2>2 DEF Hope, Grounds, Asked, OnItsWay
  <2> QED
    BY <1>1, <1>2, <2>1, <2>3, HopesOn DEF Waiting
<1> QED
  BY <1>3, <1>4

LEMMA WaitFail ==
  ASSUME WaitInv, RelayInv', NEW f \in Files, FailSend(f),
         NEW p \in Pages, NEW g \in Files
  PROVE  Waiting(p, g)'
<1>1. /\ TypeOK /\ TableInv /\ ShownOf(p, g) /\ HopeOf(p, g)
      /\ UNCHANGED <<here, asks, jobs, incoming, card, now>>
      /\ out' = [out EXCEPT ![f].step = "failed"]
      /\ out[f].step = "sending"
  BY DEF WaitInv, RelayInv, FailSend
<1>2. out'[f].step = "failed" /\ \A h \in Files \ {f} : out'[h] = out[h]
  BY <1>1 DEF TypeOK
<1>3. out'[g].step = "idle" => out[g].step = "idle"
  BY <1>1, <1>2
<1>4. CASE p = Owner[g]
  BY <1>1, <1>3, <1>4, SenderWaitsForNothing DEF Waiting, ShownOf, AwaitsMeta
<1>5. CASE p # Owner[g] /\ Owner[f] \in here /\ f \in Listed(table)
  <2>1. table' = Finalize(table, {f}) /\ \E S : Sent({f}, Stop, S)
    BY <1>5 DEF FailSend
  <2>2. PICK S : wire' = Sending({f}, Stop, S) /\ lost' = lost \cup Missing({f}, Stop, S)
    BY <2>1 DEF Sent
  <2>3. Listed(table)' = Listed(table) \ {f}
    BY <1>1, <2>1, FinalizeSound DEF TableInv, Listed
  <2>4. {f} \in SUBSET Files /\ Stop \in Frames /\ Stop # Meta /\ Stop.seq = 0
    BY FrameFacts DEF Stop
  <2>5. /\ wire'[g][p] = wire[g][p] \/ wire'[g][p] = Append(wire[g][p], Stop)
        /\ g # f => wire'[g][p] = wire[g][p]
        /\ g = f => <<p, f, 0>> \in lost' \/ OnItsWay(p, f, Stop)'
    BY <1>1, <1>5, <2>2, <2>4, SentReaches
  <2>6. Grounds(p, g) => Hope(p, g)'
    BY <1>1, <1>2, <2>3, <2>5 DEF Hope, Grounds, OnItsWay, Asked
  <2> QED
    BY <1>1, <1>3, <2>2, <2>4, <2>5, <2>6, HopesOn DEF Waiting
<1>6. CASE p # Owner[g] /\ ~(Owner[f] \in here /\ f \in Listed(table))
  <2>1. UNCHANGED <<table, wire, lost>>
    BY <1>6 DEF FailSend
  <2>2. f \notin Listed(table)
    BY <1>1, <1>6 DEF TableInv
  <2>3. Grounds(p, g) => Hope(p, g)'
    BY <1>1, <1>2, <2>1, <2>2 DEF Hope, Grounds, OnItsWay, Asked
  <2> QED
    BY <1>1, <1>3, <2>1, <2>3, HopesOn DEF Waiting
<1> QED
  BY <1>4, <1>5, <1>6

(* A question is answered, or it was in vain.                              *)
LEMMA WaitAsk ==
  ASSUME WaitInv, NEW a \in asks, HandleAsk(a), NEW p \in Pages, NEW g \in Files
  PROVE  Waiting(p, g)'
<1>1. /\ TypeOK /\ ShownOf(p, g) /\ HopeOf(p, g)
      /\ UNCHANGED <<here, table, out, wire, incoming, card, now>>
      /\ asks' = asks \ {a}
      /\ \/ jobs' = jobs \cup {a} /\ lost' = lost
         \/ jobs' = jobs /\ lost' = lost \cup {<<a.by, a.file, 0>>}
  BY DEF WaitInv, RelayInv, HandleAsk
<1>2. Asked(p, g) => Asked(p, g)' \/ <<p, g, 0>> \in lost'
  BY <1>1 DEF Asked
<1>3. Grounds(p, g) => Hope(p, g)'
  BY <1>1, <1>2 DEF Hope, Grounds, OnItsWay
<1> QED
  BY <1>1, <1>3, HopesOn DEF Waiting

(* A socket closes: what its page waited for is lost with the line, and    *)
(* what others waited for from it is cancelled.                            *)
LEMMA WaitClose ==
  ASSUME WaitInv, RelayInv', NEW q \in Pages, Close(q), NEW p \in Pages, NEW g \in Files
  PROVE  Waiting(p, g)'
<1>1. /\ TypeOK /\ TableInv /\ ShownOf(p, g) /\ HopeOf(p, g)
      /\ UNCHANGED <<out, jobs, incoming, card, now>>
      /\ table' = Finalize(table, PeerSet(table, q))
  BY DEF WaitInv, RelayInv, Close, DropSender
<1> DEFINE ended == Listed(table) \ Listed(DropSender(table, q))
<1>2. PICK S \in Droppable, D \in SUBSET asks :
        /\ wire' = [f \in Files |-> [Sending(ended, Stop, S)[f] EXCEPT ![q] = <<>>]]
        /\ asks' = asks \ D
        /\ \A a \in D : a.by = q
        /\ lost' = lost \cup Missing(ended, Stop, S) \cup OnWire(q)
                        \cup {<<q, a.file, 0>> : a \in D}
  BY DEF Close
<1>3. /\ ended = {f \in Listed(table) : Owner[f] = q}
      /\ ended \in SUBSET Files
      /\ Listed(table)' = Listed(table) \ ended
  <2>1. Listed(DropSender(table, q)) = Listed(table) \ PeerSet(table, q)
    BY <1>1, FinalizeSound DEF TableInv, DropSender
  <2>2. PeerSet(table, q) = {f \in Listed(table) : Owner[f] = q} /\ Listed(table) \subseteq Files
    BY <1>1 DEF TableInv, Sound
  <2> QED
    BY <1>1, <2>1, <2>2 DEF DropSender, Listed
<1> HIDE DEF ended
<1>4. Stop \in Frames /\ Stop # Meta /\ Stop.seq = 0 /\ End.seq = 0
  BY FrameFacts DEF Stop, End
<1>5. CASE p = Owner[g]
  BY <1>1, <1>5, SenderWaitsForNothing DEF Waiting, ShownOf, AwaitsMeta
<1>6. CASE p # Owner[g] /\ p # q
  <2>1. wire'[g][p] = Sending(ended, Stop, S)[g][p]
    <3>1. Sending(ended, Stop, S) \in [Files -> [Pages -> Seq(Frames)]]
      BY <1>1, <1>3, <1>4, SendEffect
    <3> QED
      BY <1>2, <1>6, <3>1
  <2>2. /\ wire'[g][p] = wire[g][p] \/ wire'[g][p] = Append(wire[g][p], Stop)
        /\ g \notin ended => wire'[g][p] = wire[g][p]
        /\ g \in ended => <<p, g, 0>> \in lost' \/ OnItsWay(p, g, Stop)'
    <3>1. Missing(ended, Stop, S) \subseteq lost'
      BY <1>2
    <3> QED
      BY <1>1, <1>3, <1>4, <1>6, <2>1, <3>1, SentReaches
  <2>3. Asked(p, g) => Asked(p, g)'
    BY <1>1, <1>2, <1>6 DEF Asked
  <2>4. Grounds(p, g) => Hope(p, g)'
    BY <1>1, <1>3, <2>2, <2>3 DEF Hope, Grounds, OnItsWay
  <2> QED
    BY <1>1, <1>2, <1>4, <2>2, <2>4, HopesOn DEF Waiting
<1>7. CASE p # Owner[g] /\ p = q
  <2>1. wire'[g][p] = <<>>
    <3>1. Sending(ended, Stop, S) \in [Files -> [Pages -> Seq(Frames)]]
      BY <1>1, <1>3, <1>4, SendEffect
    <3> QED
      BY <1>2, <1>7, <3>1
  <2>2. ShownOf(p, g)'
    BY <1>1, <2>1 DEF ShownOf, AwaitsMeta
  <2>3. OnItsWay(p, g, Stop) \/ OnItsWay(p, g, End) => <<p, g, 0>> \in lost'
    <3>1. ASSUME NEW k \in 1 .. Len(wire[g][p]), wire[g][p][k].seq = 0
          PROVE  <<p, g, 0>> \in OnWire(q)
      BY <1>7, <3>1 DEF OnWire
    <3> QED
      BY <1>2, <1>4, <3>1 DEF OnItsWay
  <2>4. Asked(p, g) => Asked(p, g)' \/ <<p, g, 0>> \in lost'
    BY <1>1, <1>2, <1>7 DEF Asked
  <2>5. g \in Listed(table) => g \in Listed(table)'
    BY <1>3, <1>7
  <2>6. HopeOf(p, g)'
    BY <1>1, <1>2, <2>1, <2>3, <2>4, <2>5 DEF HopeOf, Hope, Grounds, AwaitsMeta
  <2> QED
    BY <2>2, <2>6 DEF Waiting
<1> QED
  BY <1>5, <1>6, <1>7

(* What taking a frame does to the cards, and what it leaves to wait for.  *)
LEMMA TakeCards ==
  ASSUME TypeOK, NEW p \in Pages, NEW f \in Files, NEW x \in Frames, Take(p, f, x),
         \A g \in Files : g \in DOMAIN incoming[p] <=> card[p][g] = "pending",
         x = Meta => card[p][f] = "none"
  PROVE  /\ \A q \in Pages \ {p} : card'[q] = card[q]
         /\ \A g \in Files :
              /\ g \in DOMAIN incoming'[p] <=> card'[p][g] = "pending"
              /\ card[p][g] = "none" => card'[p][g] = "none" \/ (g = f /\ x = Meta)
              /\ card[p][g] \in {"completed", "error", "cancelled"} =>
                   card'[p][g] \in {card[p][g], "cancelled"}
         /\ asks \subseteq asks'
         /\ f \in DOMAIN incoming'[p] => x # Stop
         /\ f \in DOMAIN incoming'[p] /\ x = End => \E a \in asks' : a.file = f /\ a.by = p
<1> DEFINE Cds == \A g \in Files :
                    /\ g \in DOMAIN incoming'[p] <=> card'[p][g] = "pending"
                    /\ card[p][g] = "none" => card'[p][g] = "none" \/ (g = f /\ x = Meta)
                    /\ card[p][g] \in {"completed", "error", "cancelled"} =>
                         card'[p][g] \in {card[p][g], "cancelled"}
           Goal == /\ \A q \in Pages \ {p} : card'[q] = card[q]
                   /\ Cds
                   /\ asks \subseteq asks'
                   /\ f \in DOMAIN incoming'[p] => x # Stop
                   /\ f \in DOMAIN incoming'[p] /\ x = End => \E a \in asks' : a.file = f /\ a.by = p
<1>1. /\ x.kind = "meta" => x = Meta
      /\ x.kind = "end" => x = End
      /\ x.kind = "cancel" => x = Stop
      /\ x.kind = "chunk" => x # Stop /\ x # End
      /\ Meta # Stop /\ Meta # End /\ End # Stop
  BY DEF Frames, Meta, End, Stop, Chunk
<1>2. ASSUME NEW as \in {"none", "completed", "error", "cancelled"}, Settle(p, f, as),
             as = "none" => card[p][f] = "none",
             card[p][f] = "pending" \/ as \in {card[p][f], "cancelled"},
             card[p][f] = "none" => as = "none"
      PROVE  Goal
  <2>1. /\ DOMAIN incoming'[p] = DOMAIN incoming[p] \ {f}
        /\ asks' = asks
        /\ card' = [card EXCEPT ![p] = [card[p] EXCEPT ![f] = as]]
    BY <1>2 DEF Settle, Without, TypeOK
  <2>2. /\ \A q \in Pages \ {p} : card'[q] = card[q]
        /\ card'[p][f] = as
        /\ \A g \in Files \ {f} : card'[p][g] = card[p][g]
    BY <2>1 DEF TypeOK
  <2> QED
    BY <1>2, <2>1, <2>2
<1>3. CASE x.kind = "meta" /\ f \notin DOMAIN incoming[p] /\ TakeMeta(p, f)
  <2> DEFINE kept == Without(incoming[p], Quiet(p))
             new  == [have |-> {}, rounds |-> 0, at |-> now]
             full == \/ Cardinality(DOMAIN kept) >= MaxIncoming
                     \/ Cardinality({g \in DOMAIN kept : Owner[g] = Owner[f]}) >= MaxIncomingOfOne
  <2>1. /\ asks' = asks
        /\ incoming' = [incoming EXCEPT ![p] = IF full THEN kept ELSE Put(kept, f, new)]
        /\ card' = [card EXCEPT ![p] = [g \in Files |->
             IF g \in Quiet(p) THEN "error"
             ELSE IF g = f /\ ~full /\ card[p][g] = "none" THEN "pending" ELSE card[p][g]]]
    BY <1>3 DEF TakeMeta, TypeOK
  <2>2. /\ DOMAIN kept = DOMAIN incoming[p] \ Quiet(p)
        /\ DOMAIN Put(kept, f, new) = DOMAIN kept \cup {f}
        /\ Quiet(p) \subseteq DOMAIN incoming[p]
    BY DEF Without, Put, Quiet
  <2> HIDE DEF kept, new, full
  <2>3. /\ \A q \in Pages \ {p} : card'[q] = card[q]
        /\ DOMAIN incoming'[p] = IF full THEN DOMAIN kept ELSE DOMAIN kept \cup {f}
        /\ \A g \in Files : card'[p][g] =
             IF g \in Quiet(p) THEN "error"
             ELSE IF g = f /\ ~full /\ card[p][g] = "none" THEN "pending" ELSE card[p][g]
    BY <2>1, <2>2 DEF TypeOK
  <2>4. x = Meta /\ card[p][f] = "none"
    BY <1>1, <1>3
  <2>5. Cds
    BY <1>3, <2>2, <2>3, <2>4
  <2> QED
    BY <1>1, <2>1, <2>3, <2>4, <2>5
<1>4. CASE x.kind = "chunk" /\ f \in DOMAIN incoming[p] /\ TakeChunk(p, f, x.seq)
  <2>1. DOMAIN incoming'[p] = DOMAIN incoming[p] /\ card' = card /\ asks' = asks
    BY <1>4 DEF TakeChunk, TypeOK
  <2> QED
    BY <1>1, <1>4, <2>1
<1>5. CASE x.kind = "end" /\ f \in DOMAIN incoming[p] /\ TakeEnd(p, f)
  <2> DEFINE missing == Seqs \ incoming[p][f].have
  <2>1. CASE Ask(p, f, missing)
    <3> DEFINE a == [file |-> f, by |-> p, round |-> incoming[p][f].rounds + 1, left |-> missing]
    <3>1. /\ DOMAIN incoming'[p] = DOMAIN incoming[p] /\ card' = card
          /\ asks' = asks \cup {a} /\ a.file = f /\ a.by = p
      BY <2>1 DEF Ask, TypeOK
    <3> HIDE DEF a
    <3>2. /\ asks \subseteq asks' /\ a \in asks'
          /\ \E b \in asks' : b.file = f /\ b.by = p
      BY <3>1
    <3>3. Cds
      BY <1>5, <3>1
    <3> QED
      BY <1>1, <1>5, <3>1, <3>2, <3>3
  <2>2. CASE Settle(p, f, "completed") \/ Settle(p, f, "error")
    BY <1>2, <1>5, <2>2
  <2> QED
    BY <1>5, <2>1, <2>2 DEF TakeEnd
<1>6. CASE x.kind = "cancel" /\ TakeStop(p, f)
  BY <1>2, <1>6 DEF TakeStop
<1>7. CASE /\ x.kind \in {"chunk", "end"} /\ f \notin DOMAIN incoming[p]
           /\ UNCHANGED <<incoming, asks, card, lost>>
  BY <1>1, <1>7
<1> QED
  BY <1>3, <1>4, <1>5, <1>6, <1>7 DEF Take

(* A page takes a frame.                                                   *)
LEMMA WaitDeliver ==
  ASSUME WaitInv, NEW f \in Files, NEW q \in Pages, Deliver(f, q),
         NEW p \in Pages, NEW g \in Files
  PROVE  /\ Waiting(p, g)'
         /\ card[p][g] \in {"completed", "error", "cancelled"} =>
              card'[p][g] \in {card[p][g], "cancelled"}
<1> DEFINE w == wire[f][q]
           x == Head(w)
<1>1. /\ TypeOK /\ UNCHANGED <<here, table, out, jobs, now>>
      /\ w # <<>> /\ Take(q, f, x)
      /\ wire' = [wire EXCEPT ![f] = [wire[f] EXCEPT ![q] = Tail(w)]]
      /\ \A h \in Files : ShownOf(q, h)
      /\ LineOf(q, f)
      /\ ShownOf(p, g) /\ HopeOf(p, g)
  BY DEF WaitInv, RelayInv, Deliver, TypeOK
<1>2. /\ w \in Seq(Frames) /\ x \in Frames /\ x = w[1] /\ Tail(w) \in Seq(Frames)
      /\ Len(w) \in Nat /\ Len(w) > 0 /\ Len(Tail(w)) = Len(w) - 1
      /\ \A k \in 1 .. Len(Tail(w)) : Tail(w)[k] = w[k + 1]
  BY <1>1, HeadTailProperties DEF TypeOK
<1>3. /\ wire'[f][q] = Tail(w)
      /\ (p # q \/ g # f) => wire'[g][p] = wire[g][p]
  BY <1>1 DEF TypeOK
<1>4. /\ \A r \in Pages \ {q} : incoming'[r] = incoming[r]
      /\ \A h \in DOMAIN incoming'[q] \ {f} : h \in DOMAIN incoming[q]
      /\ lost' = lost
  BY <1>1, <1>2, TakeEffect
<1>5. x = Meta => card[q][f] = "none"
  BY <1>1, <1>2 DEF ShownOf, AwaitsMeta
<1>6. /\ \A r \in Pages \ {q} : card'[r] = card[r]
      /\ \A h \in Files :
           /\ h \in DOMAIN incoming'[q] <=> card'[q][h] = "pending"
           /\ card[q][h] = "none" => card'[q][h] = "none" \/ (h = f /\ x = Meta)
           /\ card[q][h] \in {"completed", "error", "cancelled"} =>
                card'[q][h] \in {card[q][h], "cancelled"}
      /\ asks \subseteq asks'
      /\ f \in DOMAIN incoming'[q] => x # Stop
      /\ f \in DOMAIN incoming'[q] /\ x = End => \E a \in asks' : a.file = f /\ a.by = q
  <2>1. \A h \in Files : h \in DOMAIN incoming[q] <=> card[q][h] = "pending"
    BY <1>1 DEF ShownOf
  <2> QED
    BY <1>1, <1>2, <1>5, <2>1, TakeCards
<1>7. f \in DOMAIN incoming'[q] => f \in DOMAIN incoming[q] \/ x = Meta
  BY <1>1, <1>2, TakeOwn
<1>8. \A k \in 1 .. Len(Tail(w)) : Tail(w)[k] # Meta
  <2>1. MetaFirst(w, f, DOMAIN incoming[q])
    BY <1>1 DEF LineOf, Line
  <2> QED
    BY <1>2, <2>1 DEF MetaFirst
<1>9. Asked(p, g) => Asked(p, g)'
  BY <1>1, <1>6 DEF Asked
<1> HIDE DEF w, x
<1>10. CASE p # q \/ g # f
  <2>1. ShownOf(p, g)'
    BY <1>1, <1>3, <1>4, <1>6, <1>10 DEF ShownOf, AwaitsMeta
  <2>2. g \in DOMAIN incoming'[p] => g \in DOMAIN incoming[p]
    BY <1>4, <1>10
  <2>3. HopeOf(p, g)'
    BY <1>1, <1>3, <1>4, <1>9, <1>10, <2>2 DEF HopeOf, Hope, Grounds, AwaitsMeta, OnItsWay
  <2> QED
    BY <1>6, <2>1, <2>3 DEF Waiting
<1>11. CASE p = q /\ g = f
  <2>1. ~AwaitsMeta(p, g)'
    <3>1. Tail(w) # <<>> => 1 \in 1 .. Len(Tail(w))
      BY <1>2, EmptySeq
    <3> QED
      BY <1>3, <1>8, <1>11, <3>1 DEF AwaitsMeta
  <2>2. ShownOf(p, g)'
    <3>1. out[f].step = "idle" => x # Meta /\ f \notin DOMAIN incoming[q]
      <4>1. out[f].step = "idle" => w = <<>>
        BY <1>11 DEF WaitInv, RelayInv, Stages, StageOf, Untouched, w
      <4> QED
        BY <1>1, <4>1
    <3> QED
      BY <1>1, <1>6, <1>11, <2>1, <3>1 DEF ShownOf
  <2>3. ASSUME f \in DOMAIN incoming'[q] PROVE Hope(p, g)'
    <3>1. Hope(p, g)
      <4>1. f \in DOMAIN incoming[q] \/ AwaitsMeta(q, f)
        BY <1>1, <1>2, <1>7, <2>3 DEF AwaitsMeta, w
      <4> QED
        BY <1>1, <1>11, <4>1 DEF HopeOf
    <3>2. \A y : y # x /\ OnItsWay(p, g, y) => OnItsWay(p, g, y)'
      <4>1. ASSUME NEW y, y # x, NEW k \in 1 .. Len(w), w[k] = y
            PROVE  \E m \in 1 .. Len(Tail(w)) : Tail(w)[m] = y
        <5>1. k - 1 \in 1 .. Len(Tail(w)) /\ Tail(w)[k - 1] = y
          BY <1>2, <4>1
        <5> QED
          BY <5>1
      <4>2. w = wire[g][p] /\ wire'[g][p] = Tail(w)
        BY <1>3, <1>11 DEF w
      <4> QED
        BY <4>1, <4>2 DEF OnItsWay
    <3>3. x # Stop
      BY <1>6, <2>3
    <3>4. x = End => Asked(p, g)'
      BY <1>6, <1>11, <2>3 DEF Asked
    <3> QED
      BY <1>1, <1>4, <1>9, <3>1, <3>2, <3>3, <3>4 DEF Hope, Grounds
  <2> QED
    BY <1>6, <1>11, <2>1, <2>2, <2>3 DEF Waiting, HopeOf
<1> QED
  BY <1>10, <1>11

LEMMA WaitNext ==
  ASSUME WaitInv, [Next]_vars
  PROVE  /\ WaitInv'
         /\ \A p \in Pages, f \in Files : card[p][f] \in {"completed", "error", "cancelled"} =>
              card'[p][f] \in {card[p][f], "cancelled"}
<1>1. RelayInv'
  BY RelayNext DEF WaitInv
<1> SUFFICES ASSUME NEW p \in Pages, NEW g \in Files
             PROVE  /\ Waiting(p, g)'
                    /\ card[p][g] \in {"completed", "error", "cancelled"} =>
                         card'[p][g] \in {card[p][g], "cancelled"}
  BY <1>1 DEF WaitInv, Waiting
<1>2. TypeOK /\ Stages /\ JobsAreOver /\ ShownOf(p, g) /\ HopeOf(p, g)
  BY DEF WaitInv, RelayInv
<1>3. ASSUME NEW f \in Files, BeginSend(f) PROVE Waiting(p, g)' /\ card' = card
  BY <1>1, <1>3, WaitBegin DEF BeginSend
<1>4. ASSUME NEW f \in Files, SendChunk(f) PROVE Waiting(p, g)' /\ card' = card
  <2>1. /\ UNCHANGED <<here, asks, jobs, incoming, card, now>>
        /\ out[f].step = "sending" /\ out[f].next \in Seqs
        /\ Relayed(f, Chunk(out[f].next))
        /\ out' = IF Owner[f] \in here THEN [out EXCEPT ![f].next = @ + 1]
                  ELSE [out EXCEPT ![f].step = "failed"]
    BY <1>4 DEF SendChunk
  <2>2. /\ \A h \in Files \ {f} : out'[h] = out[h]
        /\ out'[f].step # "idle"
        /\ Owner[f] \in here => out'[f].step = "sending"
    BY <1>2, <2>1 DEF TypeOK
  <2>3. f \in Listed(table) => Owner[f] \in here
    BY DEF WaitInv, RelayInv, TableInv
  <2>4. Chunk(out[f].next) \in Frames /\ Chunk(out[f].next) # Meta
    BY <2>1, FrameFacts
  <2> QED
    BY <1>1, <2>1, <2>2, <2>3, <2>4, WaitRelayed
<1>5. ASSUME NEW f \in Files, EndSend(f) PROVE Waiting(p, g)' /\ card' = card
  <2>1. /\ UNCHANGED <<here, asks, jobs, incoming, card, now>>
        /\ out[f].step = "sending" /\ Relayed(f, End)
        /\ out' = [out EXCEPT ![f].step = "over", ![f].at = now]
    BY <1>5 DEF EndSend
  <2>2. /\ \A h \in Files \ {f} : out'[h] = out[h]
        /\ out'[f].step # "idle"
    BY <1>2, <2>1 DEF TypeOK
  <2> QED
    BY <1>1, <2>1, <2>2, FrameFacts, WaitRelayed
<1>6. ASSUME NEW f \in Files, FailSend(f) PROVE Waiting(p, g)' /\ card' = card
  BY <1>1, <1>6, WaitFail DEF FailSend
<1>7. ASSUME NEW f \in Files, NEW q \in Pages, Deliver(f, q)
      PROVE  /\ Waiting(p, g)'
             /\ card[p][g] \in {"completed", "error", "cancelled"} =>
                  card'[p][g] \in {card[p][g], "cancelled"}
  BY <1>7, WaitDeliver
<1>8. ASSUME NEW a \in asks, HandleAsk(a) PROVE Waiting(p, g)' /\ card' = card
  BY <1>8, WaitAsk DEF HandleAsk
<1>9. ASSUME NEW j \in jobs, Repeat(j) PROVE Waiting(p, g)' /\ card' = card
  <2>1. /\ UNCHANGED <<here, out, asks, incoming, card, now>>
        /\ j \in Asks /\ j.file \in Files /\ out[j.file].step = "over"
    BY <1>2, <1>9 DEF Repeat, TypeOK, JobsAreOver, Asks
  <2>2. CASE jobs' = jobs \ {j} /\ Relayed(j.file, End)
    <3>1. \A a \in jobs : a.by = p /\ a.file = g =>
            (g = j.file /\ End = End) \/ \E b \in jobs' : b.by = p /\ b.file = g
      BY <2>2
    <3> QED
      BY <1>1, <2>1, <2>2, <3>1, FrameFacts, WaitRelayed
  <2>3. ASSUME NEW i \in j.left, Relayed(j.file, Chunk(i)),
               jobs' = (jobs \ {j}) \cup {[j EXCEPT !.left = @ \ {i}]}
        PROVE  Waiting(p, g)'
    <3>1. Chunk(i) \in Frames /\ Chunk(i) # Meta
      BY <2>1, FrameFacts DEF Asks
    <3> DEFINE k == [j EXCEPT !.left = @ \ {i}]
    <3>2. k.by = j.by /\ k.file = j.file /\ k \in jobs'
      BY <2>1, <2>3 DEF Asks
    <3>3. \A a \in jobs : a.by = p /\ a.file = g => \E b \in jobs' : b.by = p /\ b.file = g
      <4>1. \A a \in jobs : a = j \/ a \in jobs'
        BY <2>3
      <4> HIDE DEF k
      <4> QED
        BY <3>2, <4>1
    <3> QED
      BY <1>1, <2>1, <2>3, <3>1, <3>3, WaitRelayed
  <2> QED
    BY <1>9, <2>1, <2>2, <2>3 DEF Repeat
<1>10. ASSUME NEW q \in Pages, Close(q) PROVE Waiting(p, g)' /\ card' = card
  BY <1>1, <1>10, WaitClose DEF Close
<1>11. ASSUME UNCHANGED <<table, out, wire, asks, jobs, incoming, card, lost>>
       PROVE  Waiting(p, g)' /\ card' = card
  BY <1>2, <1>11 DEF Waiting, ShownOf, HopeOf, Hope, Grounds, AwaitsMeta, OnItsWay, Asked
<1>12. ASSUME NEW q \in Pages, Reconnect(q) PROVE Waiting(p, g)' /\ card' = card
  BY <1>11, <1>12 DEF Reconnect
<1>13. CASE Tick \/ UNCHANGED vars
  BY <1>11, <1>13 DEF Tick, vars
<1>14. card' = card => (card[p][g] \in {"completed", "error", "cancelled"} =>
                          card'[p][g] \in {card[p][g], "cancelled"})
  OBVIOUS
<1> QED
  BY <1>3, <1>4, <1>5, <1>6, <1>7, <1>8, <1>9, <1>10, <1>12, <1>13, <1>14 DEF Next

LEMMA WaitInit == Init => WaitInv
<1> SUFFICES ASSUME Init PROVE WaitInv
  OBVIOUS
<1>1. RelayInv
  BY RelayInit
<1>2. ASSUME NEW p \in Pages, NEW f \in Files PROVE ShownOf(p, f) /\ HopeOf(p, f)
  <2>1. wire[f][p] = <<>> /\ f \notin DOMAIN incoming[p] /\ card[p][f] = "none"
    BY DEF Init, Empty
  <2> QED
    BY <2>1 DEF ShownOf, HopeOf, AwaitsMeta
<1> QED
  BY <1>1, <1>2 DEF WaitInv

(* A page that shows a file as arriving waits for something that will      *)
(* come, for any pages, files and limits: as long as the hub lists the     *)
(* transfer, somebody is at work for the page; when it does not, the page  *)
(* missed a frame of it or a cancel is on its way (processIncomingFrame,   *)
(* file-proxy.ts).                                                         *)
THEOREM AlwaysWaitsForSomething == Spec => []WaitsForSomething
<1>1. WaitInv => WaitsForSomething
  <2> SUFFICES ASSUME WaitInv, NEW p \in Pages, NEW f \in Files, card[p][f] = "pending"
               PROVE  /\ f \in DOMAIN incoming[p]
                      /\ \/ <<p, f, 0>> \in lost
                         \/ out[f].step = "sending" /\ f \in Listed(table)
                         \/ \E k \in 1 .. Len(wire[f][p]) : wire[f][p][k].kind \in {"end", "cancel"}
                         \/ \E a \in asks \cup jobs : a.file = f /\ a.by = p
    BY DEF WaitsForSomething
  <2>1. f \in DOMAIN incoming[p] /\ Hope(p, f)
    BY DEF WaitInv, ShownOf, HopeOf
  <2>2. Stop.kind = "cancel" /\ End.kind = "end"
    BY DEF Stop, End
  <2> QED
    BY <2>1, <2>2 DEF Hope, Grounds, OnItsWay, Asked
<1> QED
  BY <1>1, WaitInit, WaitNext, PTL DEF Spec

(* What is settled stays settled, however repeats for others and frames of *)
(* the same file come in: its meta frame was taken and will not come       *)
(* again, and what is not in the registry takes nothing but a cancel.      *)
THEOREM SettledAlwaysStays == Spec => SettledStays
<1>1. WaitInv /\ [Next]_vars =>
        [\A p \in Pages, f \in Files : card[p][f] \in {"completed", "error", "cancelled"} =>
           card'[p][f] \in {card[p][f], "cancelled"}]_vars
  BY WaitNext
<1>2. WaitInv /\ [Next]_vars => WaitInv'
  BY WaitNext
<1> QED
  BY <1>1, <1>2, WaitInit, PTL DEF Spec, SettledStays
=============================================================================
