------------------------ MODULE ClusterRoomsProofs ------------------------
(***************************************************************************)
(* Proofs about ClusterRooms, for any instances, peer ids and bounds.      *)
(***************************************************************************)
EXTENDS ClusterRooms, FiniteSetTheorems, SequenceTheorems, TLAPS

----------------------------------------------------------------------------
(* Functions whose domain is a set of peer ids.                            *)

Maps(V) == UNION {[D -> V] : D \in SUBSET Ids}

LEMMA MapsIn ==
  ASSUME NEW V, NEW D \in SUBSET Ids, NEW f \in [D -> V]
  PROVE  f \in Maps(V)
<1>1. [D -> V] \in {[E -> V] : E \in SUBSET Ids}
  OBVIOUS
<1> QED
  BY <1>1 DEF Maps

LEMMA MapsOut ==
  ASSUME NEW V, NEW f \in Maps(V)
  PROVE  /\ DOMAIN f \in SUBSET Ids
         /\ f \in [DOMAIN f -> V]
<1>1. PICK D \in SUBSET Ids : f \in [D -> V]
  BY DEF Maps
<1> QED
  BY <1>1

LEMMA MapsOperators ==
  ASSUME NEW V, NEW f \in Maps(V)
  PROVE  /\ \A k \in Ids, v \in V : Put(f, k, v) \in Maps(V)
         /\ \A S : Without(f, S) \in Maps(V)
         /\ Empty \in Maps(V)
<1>1. DOMAIN f \in SUBSET Ids /\ f \in [DOMAIN f -> V]
  BY MapsOut
<1>2. ASSUME NEW k \in Ids, NEW v \in V PROVE Put(f, k, v) \in Maps(V)
  <2>1. Put(f, k, v) \in [DOMAIN f \cup {k} -> V]
    BY <1>1 DEF Put
  <2>2. DOMAIN f \cup {k} \in SUBSET Ids
    BY <1>1
  <2> QED
    BY <2>1, <2>2, MapsIn
<1>3. ASSUME NEW S PROVE Without(f, S) \in Maps(V)
  <2>1. Without(f, S) \in [DOMAIN f \ S -> V]
    BY <1>1 DEF Without
  <2>2. DOMAIN f \ S \in SUBSET Ids
    BY <1>1
  <2> QED
    BY <2>1, <2>2, MapsIn
<1>4. Empty \in [{} -> V]
  BY DEF Empty
<1>5. Empty \in Maps(V)
  BY <1>4, MapsIn
<1> QED
  BY <1>2, <1>3, <1>5

LEMMA MembersViews == Members = Maps(Gens) /\ Views = Maps(View)
BY DEF Members, Views, Maps

----------------------------------------------------------------------------
(* Messages.                                                               *)

LEMMA MessageIn ==
  ASSUME NEW i \in Insts
  PROVE  /\ Hello(i) \in Message
         /\ Beat(i) \in Message
         /\ [t |-> "bye", from |-> i] \in Message
         /\ \A id \in Ids : Left(i, id) \in Message
         /\ \A id \in Ids, h \in Gens \cup {NoGen} : Leaving(i, id, h) \in Message
         /\ \A id \in Ids, g \in Gens :
              /\ [t |-> "join", from |-> i, id |-> id, gen |-> g] \in Message
              /\ [t |-> "update", from |-> i, id |-> id, gen |-> g] \in Message
         /\ \A j \in Insts, id \in Ids : [t |-> "evict", from |-> i, to |-> j, id |-> id] \in Message
         /\ \A j \in Insts, s \in Members :
              [t |-> "state", from |-> i, to |-> j, members |-> s] \in Message
BY DEF Message, Hello, Beat, Left, Leaving

LEMMA MessageOut ==
  ASSUME NEW m \in Message
  PROVE  /\ m.from \in Insts
         /\ m.t \in {"join", "update"} => m.id \in Ids /\ m.gen \in Gens
         /\ m.t = "leave" => m.id \in Ids /\ m.held \in Gens \cup {NoGen}
         /\ m.t \in {"left", "evict"} => m.id \in Ids
         /\ m.t = "state" => m.members \in Members
BY DEF Message

----------------------------------------------------------------------------
(* The bus.                                                                *)

(* What waits for the link is never longer than the limit.                 *)
LEMMA QueueBounded ==
  ASSUME NEW i \in Insts, outq[i] \in Seq(Message), NEW ms \in Seq(Message)
  PROVE  Queue(i, ms) \in Seq(Message) /\ Len(Queue(i, ms)) <= MaxQueue
<1> DEFINE all == outq[i] \o ms
<1>1. all \in Seq(Message) /\ Len(all) \in Nat
  BY ConcatProperties, LenProperties
<1>2. MaxQueue \in Nat \ {0}
  BY ClusterAssumption
<1>3. CASE Len(all) - MaxQueue > 0
  <2>1. Queue(i, ms) = SubSeq(all, Len(all) - MaxQueue + 1, Len(all))
    BY <1>3 DEF Queue, Over
  <2> HIDE DEF all
  <2>2. Len(all) - MaxQueue + 1 \in 1 .. Len(all)
    BY <1>1, <1>2, <1>3
  <2> QED
    BY <1>1, <1>2, <1>3, <2>1, <2>2, SubSeqProperties
<1>4. CASE ~(Len(all) - MaxQueue > 0)
  BY <1>1, <1>2, <1>4 DEF Queue, Over
<1> QED
  BY <1>3, <1>4

OutqOK == outq \in [Insts -> Seq(Message)] /\ \A i \in Insts : Len(outq[i]) <= MaxQueue

LEMMA PublishTypes ==
  ASSUME NEW i \in Insts, OutqOK, NEW base \in [Insts -> Seq(Message)], NEW ms \in Seq(Message),
         PublishAfter(base, i, ms)
  PROVE  net' \in [Insts -> Seq(Message)] /\ OutqOK'
<1>1. \A j \in Insts : base[j] \o ms \in Seq(Message)
  BY ConcatProperties
<1>2. net' \in [Insts -> Seq(Message)]
  BY <1>1 DEF PublishAfter
<1>3. Queue(i, ms) \in Seq(Message) /\ Len(Queue(i, ms)) <= MaxQueue
  BY QueueBounded DEF OutqOK
<1>4. OutqOK'
  BY <1>3 DEF PublishAfter, OutqOK
<1> QED
  BY <1>2, <1>4

LEMMA UnheardTypes ==
  ASSUME NEW i \in Insts, NEW ms
  PROVE  Unheard(i, ms) \subseteq Insts \X Insts
BY DEF Unheard, Deaf

(* Where a publication and its history stand, when it is typed.            *)
Sound == TypeOK /\ GhostsAreSeen
BusTypes ==
  /\ net \in [Insts -> Seq(Message)] /\ OutqOK
  /\ missed \subseteq Insts \X Insts /\ gap \subseteq Insts \X Insts

LinkTypes == pubUp \in [Insts -> BOOLEAN] /\ subUp \in [Insts -> BOOLEAN]
CountTypes == joins \in 0 .. MaxJoins /\ events \in 0 .. MaxEvents
ListTypes ==
  /\ inst \in [Insts -> {"off", "up", "down"}]
  /\ local \in [Insts -> Members] /\ held \in [Insts -> Members]
  /\ remote \in [Insts -> Views]
  /\ seen \in [Insts -> [Insts -> {"no", "fresh", "stale"}]]

LEMMA TypeParts == TypeOK <=> ListTypes /\ BusTypes /\ LinkTypes /\ CountTypes
BY DEF TypeOK, ListTypes, BusTypes, LinkTypes, CountTypes, OutqOK

LEMMA TypePartsNext == TypeOK' <=> ListTypes' /\ BusTypes' /\ LinkTypes' /\ CountTypes'
BY DEF TypeOK, ListTypes, BusTypes, LinkTypes, CountTypes, OutqOK

LEMMA LinksUnchanged == LinkTypes /\ UNCHANGED <<pubUp, subUp>> => LinkTypes'
BY DEF LinkTypes

LEMMA ToldTypes ==
  ASSUME NEW i \in Insts, BusTypes, NEW ms \in Seq(Message), Publish(i, ms), Told(i, ms)
  PROVE  BusTypes'
<1>1. net' \in [Insts -> Seq(Message)] /\ OutqOK'
  BY PublishTypes DEF Publish, BusTypes
<1>2. missed' \subseteq Insts \X Insts /\ gap' \subseteq Insts \X Insts
  BY UnheardTypes DEF Told, BusTypes
<1> QED
  BY <1>1, <1>2 DEF BusTypes

----------------------------------------------------------------------------
(* What the hooks of an instance do to its lists.                          *)

(* An instance that is dropped leaves nobody behind, and nothing else      *)
(* changes in the list.                                                    *)
LEMMA DropKeeps ==
  ASSUME TypeOK, NEW i \in Insts, NEW S, DropInstances(i, S)
  PROVE  /\ remote' \in [Insts -> Views] /\ held' \in [Insts -> Members]
         /\ \A k \in Insts : \A p \in DOMAIN remote'[k] :
              /\ p \in DOMAIN remote[k] /\ remote'[k][p] = remote[k][p]
              /\ k = i => remote[k][p].inst \notin S
<1> DEFINE theirs == {p \in DOMAIN remote[i] : remote[i][p].inst \in S}
           less   == Without(remote[i], theirs)
           more   == [p \in DOMAIN held[i] \cup theirs |->
                        IF p \in theirs THEN remote[i][p].gen ELSE held[i][p]]
<1>1. remote \in [Insts -> Views] /\ held \in [Insts -> Members]
  BY DEF TypeOK
<1>2. remote' = [remote EXCEPT ![i] = less] /\ held' = [held EXCEPT ![i] = more]
  BY DEF DropInstances
<1>3. remote[i] \in Maps(View) /\ held[i] \in Maps(Gens)
  BY <1>1, MembersViews
<1>4. less \in Views
  BY <1>3, MapsOperators, MembersViews
<1>5. more \in Members
  <2>1. /\ DOMAIN remote[i] \in SUBSET Ids /\ remote[i] \in [DOMAIN remote[i] -> View]
        /\ DOMAIN held[i] \in SUBSET Ids /\ held[i] \in [DOMAIN held[i] -> Gens]
    BY <1>3, MapsOut
  <2>2. \A v \in View : v.gen \in Gens
    BY DEF View
  <2>3. more \in [DOMAIN held[i] \cup theirs -> Gens]
    BY <2>1, <2>2
  <2>4. DOMAIN held[i] \cup theirs \in SUBSET Ids
    BY <2>1
  <2> QED
    BY <2>3, <2>4, MapsIn, MembersViews
<1>6. remote' \in [Insts -> Views] /\ held' \in [Insts -> Members]
  BY <1>1, <1>2, <1>4, <1>5
<1>7. \A p \in DOMAIN less : p \in DOMAIN remote[i] /\ less[p] = remote[i][p] /\ remote[i][p].inst \notin S
  BY DEF Without
<1> HIDE DEF less, more, theirs
<1> QED
  BY <1>1, <1>2, <1>6, <1>7

(* Who is added is listed for the instance that said so.                   *)
LEMMA AddKeeps ==
  ASSUME TypeOK, NEW i \in Insts, NEW members \in Members, NEW from \in Insts, Add(i, members, from)
  PROVE  /\ remote' \in [Insts -> Views] /\ held' \in [Insts -> Members]
         /\ \A k \in Insts : \A p \in DOMAIN remote'[k] :
              \/ k = i /\ remote'[k][p].inst = from
              \/ p \in DOMAIN remote[k] /\ remote'[k][p] = remote[k][p]
<1> DEFINE more == [p \in DOMAIN remote[i] \cup DOMAIN members |->
                      IF p \in DOMAIN members THEN [inst |-> from, gen |-> members[p]]
                      ELSE remote[i][p]]
           less == Without(held[i], DOMAIN members \ DOMAIN remote[i])
<1>1. remote \in [Insts -> Views] /\ held \in [Insts -> Members]
  BY DEF TypeOK
<1>2. remote' = [remote EXCEPT ![i] = more] /\ held' = [held EXCEPT ![i] = less]
  BY DEF Add
<1>3. remote[i] \in Maps(View) /\ held[i] \in Maps(Gens) /\ members \in Maps(Gens)
  BY <1>1, MembersViews
<1>4. less \in Members
  BY <1>3, MapsOperators, MembersViews
<1>5. more \in Views
  <2>1. /\ DOMAIN remote[i] \in SUBSET Ids /\ remote[i] \in [DOMAIN remote[i] -> View]
        /\ DOMAIN members \in SUBSET Ids /\ members \in [DOMAIN members -> Gens]
    BY <1>3, MapsOut
  <2>2. \A g \in Gens : [inst |-> from, gen |-> g] \in View
    BY DEF View
  <2>3. more \in [DOMAIN remote[i] \cup DOMAIN members -> View]
    BY <2>1, <2>2
  <2>4. DOMAIN remote[i] \cup DOMAIN members \in SUBSET Ids
    BY <2>1
  <2> QED
    BY <2>3, <2>4, MapsIn, MembersViews
<1>6. remote' \in [Insts -> Views] /\ held' \in [Insts -> Members]
  BY <1>1, <1>2, <1>4, <1>5
<1>7. \A p \in DOMAIN more : more[p].inst = from \/ (p \in DOMAIN remote[i] /\ more[p] = remote[i][p])
  OBVIOUS
<1> HIDE DEF less, more
<1> QED
  BY <1>1, <1>2, <1>6, <1>7
----------------------------------------------------------------------------
(* Messages that are taken.                                                *)

LEMMA TakeTypes ==
  ASSUME TypeOK, NEW i \in Insts, net[i] # <<>>
  PROVE  Head(net[i]) \in Message /\ Tail(net[i]) \in Seq(Message)
<1>1. net[i] \in Seq(Message)
  BY DEF TypeOK
<1> QED
  BY <1>1, HeadTailProperties

LEMMA HelloStep ==
  ASSUME TypeOK, NEW i \in Insts, NEW m \in Message, net[i] # <<>>, OnHello(i, m)
  PROVE  BusTypes'
<1> DEFINE base == [net EXCEPT ![i] = Tail(@)]
           state == [t |-> "state", from |-> i, to |-> m.from, members |-> local[i]]
<1>1. m.from \in Insts /\ local[i] \in Members
  BY MessageOut DEF TypeOK
<1>2. <<state>> \in Seq(Message)
  <2>1. state \in Message
    BY <1>1, MessageIn
  <2> QED
    BY <2>1
<1>3. base \in [Insts -> Seq(Message)]
  BY TakeTypes DEF TypeOK
<1>4. PublishAfter(base, i, <<state>>)
  BY DEF OnHello
<1>5. BusTypes
  BY TypeParts
<1>6. missed' = missed \cup Unheard(i, <<state>>)
      /\ gap' = (gap \ {<<i, m.from>>}) \cup Unheard(i, <<state>>)
  BY DEF OnHello
<1> HIDE DEF base, state
<1>7. net' \in [Insts -> Seq(Message)] /\ OutqOK'
  BY <1>2, <1>3, <1>4, <1>5, PublishTypes DEF BusTypes
<1>8. missed' \subseteq Insts \X Insts /\ gap' \subseteq Insts \X Insts
  BY <1>5, <1>6, UnheardTypes DEF BusTypes
<1> QED
  BY <1>7, <1>8 DEF BusTypes

LEMMA ConsumedStep ==
  ASSUME TypeOK, NEW i \in Insts, net[i] # <<>>, Consumed(i)
  PROVE  BusTypes'
<1>1. net' \in [Insts -> Seq(Message)]
  BY TakeTypes DEF TypeOK, Consumed
<1> QED
  BY <1>1, TypeParts DEF Consumed, BusTypes, OutqOK

(* Whoever is listed anew is listed for the sender; who says goodbye has   *)
(* nobody listed any more.                                                 *)
RemoteKeeps(i, m) ==
  /\ remote' \in [Insts -> Views] /\ held' \in [Insts -> Members]
  /\ \A k \in Insts : \A p \in DOMAIN remote'[k] :
       \/ k = i /\ remote'[k][p].inst = m.from /\ m.t # "bye"
       \/ /\ p \in DOMAIN remote[k] /\ remote'[k][p] = remote[k][p]
          /\ k = i /\ m.t = "bye" => remote[k][p].inst # m.from

(* Taking a message: the lists stay typed, and whoever is listed anew is   *)
(* listed for its sender, who was just heard of.                           *)
LEMMA DeliverStep ==
  ASSUME Sound, NEW i \in Insts, Deliver(i)
  PROVE  Sound'
<1> DEFINE m == Head(net[i])
<1>0. net[i] # <<>> /\ m \in Message /\ TypeOK
  BY TakeTypes DEF Deliver, Sound
<1>1. m.from \in Insts /\ seen \in [Insts -> [Insts -> {"no", "fresh", "stale"}]]
  BY <1>0, MessageOut DEF TypeOK
<1>2. seen' = [seen EXCEPT ![i][m.from] = IF m.t = "bye" THEN "no" ELSE "fresh"]
  BY DEF Deliver, Take
<1>3. UNCHANGED <<inst, pubUp, subUp, counters, moved>>
  BY DEF Deliver
<1>4. PICK op \in {"hello", "state", "beat", "bye", "join", "update", "leave", "left", "evict"} :
        /\ m.t = op
        /\ op = "hello" => OnHello(i, m)
        /\ op = "state" => OnState(i, m)
        /\ op = "beat" => OnBeat(i, m)
        /\ op = "bye" => OnBye(i, m)
        /\ op = "join" => OnJoin(i, m)
        /\ op = "update" => OnUpdate(i, m)
        /\ op = "leave" => OnLeave(i, m)
        /\ op = "left" => OnLeft(i, m)
        /\ op = "evict" => OnEvict(i, m)
  BY DEF Deliver, OnHello, OnState, OnBeat, OnBye, OnJoin, OnUpdate, OnLeave, OnLeft, OnEvict
<1> HIDE DEF m
<1>5. BusTypes'
  BY <1>0, <1>4, HelloStep, ConsumedStep
     DEF OnState, OnBeat, OnBye, OnJoin, OnUpdate, OnLeave, OnLeft, OnEvict
<1>6. seen' \in [Insts -> [Insts -> {"no", "fresh", "stale"}]]
  BY <1>1, <1>2
<1>7. local' \in [Insts -> Members]
  <2>1. local \in [Insts -> Members] /\ local[i] \in Maps(Gens)
    BY <1>0, MembersViews DEF TypeOK
  <2>2. \A S : Without(local[i], S) \in Members
    BY <2>1, MapsOperators, MembersViews
  <2>3. \/ local' = local
        \/ \E S : local' = [local EXCEPT ![i] = Without(local[i], S)]
    <3>1. CASE op = "evict"
      BY <1>4, <3>1, <2>1 DEF OnEvict
    <3>2. CASE op # "evict"
      BY <1>4, <3>2 DEF OnHello, OnState, OnBeat, OnBye, OnJoin, OnUpdate, OnLeave, OnLeft
    <3> QED
      BY <3>1, <3>2
  <2> QED
    BY <2>1, <2>2, <2>3
<1>8. RemoteKeeps(i, m)
  <2>0. remote \in [Insts -> Views] /\ held \in [Insts -> Members]
        /\ remote[i] \in Maps(View) /\ held[i] \in Maps(Gens)
    BY <1>0, MembersViews DEF TypeOK
  <2>1. /\ \A S : Without(held[i], S) \in Members
        /\ \A S : Without(remote[i], S) \in Views
        /\ \A k \in Ids, g \in Gens : Put(held[i], k, g) \in Members
        /\ \A k \in Ids, v \in View : Put(remote[i], k, v) \in Views
    BY <2>0, MapsOperators, MembersViews
  <2>2. CASE op \in {"hello", "beat"}
    <3>1. UNCHANGED <<remote, held>> /\ m.t # "bye"
      BY <1>4, <2>2 DEF OnHello, OnBeat
    <3> QED
      BY <2>0, <3>1 DEF RemoteKeeps
  <2>3. CASE op = "state"
    <3>1. CASE m.to # i
      <4>1. UNCHANGED <<remote, held>> /\ m.t # "bye"
        BY <1>4, <2>3, <3>1 DEF OnState
      <4> QED
        BY <2>0, <4>1 DEF RemoteKeeps
    <3>2. CASE m.to = i
      <4>1. Add(i, m.members, m.from) /\ m.members \in Members /\ m.t # "bye"
        BY <1>0, <1>4, <2>3, <3>2, MessageOut DEF OnState
      <4> QED
        BY <1>0, <1>1, <4>1, AddKeeps DEF RemoteKeeps
    <3> QED
      BY <3>1, <3>2
  <2>4. CASE op = "join"
    <3>1. Add(i, [p \in {m.id} |-> m.gen], m.from) /\ m.t # "bye"
      BY <1>4, <2>4 DEF OnJoin
    <3>2. [p \in {m.id} |-> m.gen] \in Members
      <4>1. m.id \in Ids /\ m.gen \in Gens
        BY <1>0, <1>4, <2>4, MessageOut
      <4>2. [p \in {m.id} |-> m.gen] \in [{m.id} -> Gens] /\ {m.id} \in SUBSET Ids
        BY <4>1
      <4> QED
        BY <4>2, MapsIn, MembersViews
    <3> QED
      BY <1>0, <1>1, <3>1, <3>2, AddKeeps DEF RemoteKeeps
  <2>5. CASE op = "bye"
    <3>1. DropInstances(i, {m.from}) /\ m.t = "bye"
      BY <1>4, <2>5 DEF OnBye
    <3> QED
      BY <1>0, <3>1, DropKeeps DEF RemoteKeeps
  <2>6. CASE op = "update"
    <3>1. m.id \in Ids /\ m.gen \in Gens /\ m.t # "bye"
      BY <1>0, <1>4, <2>6, MessageOut
    <3>2. [inst |-> m.from, gen |-> m.gen] \in View
      BY <1>1, <3>1 DEF View
    <3>3. held' = held
          /\ remote' = [remote EXCEPT ![i] = IF m.id \in DOMAIN remote[i]
                          THEN Put(remote[i], m.id, [inst |-> m.from, gen |-> m.gen]) ELSE remote[i]]
      BY <1>4, <2>0, <2>6 DEF OnUpdate
    <3>4. \A p \in DOMAIN Put(remote[i], m.id, [inst |-> m.from, gen |-> m.gen]) :
            LET v == Put(remote[i], m.id, [inst |-> m.from, gen |-> m.gen])[p] IN
            v.inst = m.from \/ (p \in DOMAIN remote[i] /\ v = remote[i][p])
      BY <3>1 DEF Put
    <3>5. remote' \in [Insts -> Views] /\ held' \in [Insts -> Members]
      BY <2>0, <2>1, <3>1, <3>2, <3>3
    <3> QED
      BY <2>0, <3>1, <3>3, <3>4, <3>5 DEF RemoteKeeps
  <2>7. CASE op = "leave"
    <3>1. m.id \in Ids /\ m.held \in Gens \cup {NoGen} /\ m.t # "bye"
      BY <1>0, <1>4, <2>7, MessageOut
    <3>2. remote' = remote \/ \E S : remote' = [remote EXCEPT ![i] = Without(remote[i], S)]
      BY <1>4, <2>0, <2>7 DEF OnLeave
    <3>3. \A S : \A p \in DOMAIN Without(remote[i], S) :
            p \in DOMAIN remote[i] /\ Without(remote[i], S)[p] = remote[i][p]
      BY DEF Without
    <3>4. remote' \in [Insts -> Views]
      BY <2>0, <2>1, <3>2
    <3>5. held' \in [Insts -> Members]
      BY <1>4, <2>0, <2>1, <2>7, <3>1 DEF OnLeave
    <3> QED
      BY <2>0, <3>1, <3>2, <3>3, <3>4, <3>5 DEF RemoteKeeps
  <2>8. CASE op \in {"left", "evict"}
    <3>1. /\ remote' = remote /\ m.t # "bye"
          /\ held' = held \/ \E S : held' = [held EXCEPT ![i] = Without(held[i], S)]
      BY <1>4, <2>0, <2>8 DEF OnLeft, OnEvict
    <3> QED
      BY <2>0, <2>1, <3>1 DEF RemoteKeeps
  <2> QED
    BY <2>2, <2>3, <2>4, <2>5, <2>6, <2>7, <2>8
<1>9. TypeOK'
  <2>1. ListTypes'
    BY <1>0, <1>3, <1>6, <1>7, <1>8 DEF TypeOK, ListTypes, RemoteKeeps
  <2>2. LinkTypes' /\ CountTypes'
    BY <1>0, <1>3, TypeParts, LinksUnchanged DEF CountTypes, counters
  <2> QED
    BY <1>5, <2>1, <2>2, TypePartsNext
<1>10. GhostsAreSeen'
  <2> SUFFICES ASSUME NEW k \in Insts, NEW j \in Insts, NEW p \in DOMAIN remote'[k],
                      remote'[k][p].inst = j
               PROVE  seen'[k][j] # "no"
    BY DEF GhostsAreSeen
  <2>1. CASE k = i /\ j = m.from /\ m.t # "bye"
    BY <1>1, <1>2, <2>1
  <2>2. CASE ~(k = i /\ j = m.from)
    <3>1. p \in DOMAIN remote[k] /\ remote'[k][p] = remote[k][p]
      BY <1>8, <2>2 DEF RemoteKeeps
    <3>2. seen[k][j] # "no"
      BY <3>1 DEF Sound, GhostsAreSeen
    <3> QED
      BY <1>1, <1>2, <2>2, <3>2
  <2>3. CASE k = i /\ j = m.from /\ m.t = "bye"
    BY <1>8, <2>3 DEF RemoteKeeps
  <2> QED
    BY <2>1, <2>2, <2>3
<1> QED
  BY <1>9, <1>10 DEF Sound

----------------------------------------------------------------------------
(* The other actions.  Most of them leave the lists of the others alone.   *)

LEMMA GhostsUnchanged ==
  ASSUME GhostsAreSeen, UNCHANGED <<remote, seen>>
  PROVE  GhostsAreSeen'
BY DEF GhostsAreSeen

LEMMA LinkStep ==
  ASSUME Sound, NEW i \in Insts,
         PubDown(i) \/ PubUp(i) \/ SubDown(i) \/ SubUp(i) \/ Start(i)
  PROVE  Sound'
<1>0. ListTypes /\ BusTypes /\ LinkTypes /\ CountTypes
  BY TypeParts DEF Sound
<1>1. GhostsAreSeen'
  BY GhostsUnchanged DEF Sound, PubDown, PubUp, SubDown, SubUp, Start
<1>2. ListTypes'
  BY <1>0 DEF ListTypes, PubDown, PubUp, SubDown, SubUp, Start
<1>3. LinkTypes'
  BY <1>0 DEF LinkTypes, PubDown, PubUp, SubDown, SubUp, Start
<1>4. CountTypes'
  <2>1. joins' = joins /\ (events' = events \/ (events < MaxEvents /\ events' = events + 1))
    BY DEF PubDown, PubUp, SubDown, SubUp, Start, counters
  <2> QED
    BY <1>0, <2>1, ClusterAssumption DEF CountTypes
<1>5. BusTypes'
  <2>1. CASE PubDown(i)
    BY <1>0, <2>1 DEF PubDown, BusTypes, OutqOK, history
  <2>2. CASE PubUp(i)
    <3>1. \A j \in Insts : net[j] \o outq[i] \in Seq(Message)
      BY <1>0, ConcatProperties DEF BusTypes, OutqOK
    <3>2. net' \in [Insts -> Seq(Message)]
      BY <1>0, <2>2, <3>1 DEF PubUp, BusTypes
    <3>3. <<>> \in Seq(Message) /\ Len(<<>>) = 0 /\ MaxQueue \in Nat
      BY ClusterAssumption
    <3>4. OutqOK'
      BY <1>0, <2>2, <3>3 DEF PubUp, BusTypes, OutqOK
    <3>5. missed' \subseteq Insts \X Insts /\ gap' \subseteq Insts \X Insts
      BY <1>0, <2>2 DEF PubUp, BusTypes, Deaf
    <3> QED
      BY <3>2, <3>4, <3>5 DEF BusTypes
  <2>3. CASE SubDown(i)
    <3>1. net' \in [Insts -> Seq(Message)]
      BY <1>0, <2>3 DEF SubDown, BusTypes
    <3>2. {m.from : m \in ToSet(net[i])} \subseteq Insts
      <4>1. ToSet(net[i]) \subseteq Message
        BY <1>0 DEF BusTypes, ToSet
      <4> QED
        BY <4>1, MessageOut
    <3>3. missed' \subseteq Insts \X Insts /\ gap' \subseteq Insts \X Insts
      BY <1>0, <2>3, <3>2 DEF SubDown, BusTypes
    <3> QED
      BY <1>0, <2>3, <3>1, <3>3 DEF SubDown, BusTypes, OutqOK
  <2>4. CASE SubUp(i)
    <3>1. Hello(i) \in Message
      BY MessageIn
    <3>2. <<Hello(i)>> \in Seq(Message)
      BY <3>1
    <3> QED
      BY <1>0, <2>4, <3>2, ToldTypes DEF SubUp
  <2>5. CASE Start(i)
    <3>1. \A j \in Insts : Append(net[j], Hello(i)) \in Seq(Message)
      BY <1>0, MessageIn, AppendProperties DEF BusTypes
    <3>2. net' \in [Insts -> Seq(Message)]
      BY <1>0, <2>5, <3>1 DEF Start, BusTypes
    <3>3. missed' \subseteq Insts \X Insts /\ gap' \subseteq Insts \X Insts
      BY <1>0, <2>5 DEF Start, BusTypes, Deaf
    <3> QED
      BY <1>0, <2>5, <3>2, <3>3 DEF Start, BusTypes, OutqOK
  <2> QED
    BY <2>1, <2>2, <2>3, <2>4, <2>5
<1> QED
  BY <1>1, <1>2, <1>3, <1>4, <1>5, TypePartsNext DEF Sound

(* An instance that is gone knows nobody, and hears of nobody.             *)
LEMMA GoneStep ==
  ASSUME Sound, NEW i \in Insts, Gone(i), net' \in [Insts -> Seq(Message)]
  PROVE  Sound'
<1>0. TypeOK /\ GhostsAreSeen
  BY DEF Sound
<1>1. Empty \in Members /\ Empty \in Views
  <2>1. local[i] \in Maps(Gens) /\ remote[i] \in Maps(View)
    BY <1>0, MembersViews DEF TypeOK
  <2> QED
    BY <2>1, MapsOperators, MembersViews
<1>2. OutqOK'
  <2>1. <<>> \in Seq(Message) /\ Len(<<>>) = 0 /\ MaxQueue \in Nat
    BY ClusterAssumption
  <2> QED
    BY <1>0, <2>1 DEF TypeOK, Gone, OutqOK
<1>3. TypeOK'
  BY <1>0, <1>1, <1>2 DEF TypeOK, Gone, OutqOK, counters, history
<1>4. GhostsAreSeen'
  <2>1. DOMAIN Empty = {}
    BY DEF Empty
  <2> QED
    BY <1>0, <2>1 DEF GhostsAreSeen, Gone, TypeOK
<1> QED
  BY <1>3, <1>4 DEF Sound

LEMMA GoesStep ==
  ASSUME Sound, NEW i \in Insts, Crash(i) \/ Stop(i)
  PROVE  Sound'
<1>0. TypeOK
  BY DEF Sound
<1>1. CASE Crash(i)
  BY <1>0, <1>1, GoneStep DEF Crash, TypeOK
<1>2. CASE Stop(i)
  <2> DEFINE bye == [t |-> "bye", from |-> i]
  <2>1. PICK order \in SetToSeqs(DOMAIN local[i]) :
          net' = [j \in Insts |-> IF j = i THEN <<>>
                   ELSE IF pubUp[i] /\ Hears(i, j)
                        THEN Append(net[j], bye) \o Goodbyes(i, order)
                        ELSE net[j]]
    BY <1>2 DEF Stop
  <2>2. local[i] \in Maps(Gens)
    BY <1>0, MembersViews DEF TypeOK
  <2>3. DOMAIN local[i] \subseteq Ids /\ local[i] \in [DOMAIN local[i] -> Gens]
    BY <2>2, MapsOut
  <2>4. Cardinality(DOMAIN local[i]) \in Nat
    BY <2>3, ClusterAssumption, FS_Subset, FS_CardinalityType
  <2>5. order \in [1 .. Cardinality(DOMAIN local[i]) -> DOMAIN local[i]]
    BY DEF SetToSeqs
  <2>6. Goodbyes(i, order) \in [1 .. Cardinality(DOMAIN local[i]) -> Message]
    <3>1. \A id \in DOMAIN local[i] :
            [t |-> "leave", from |-> i, id |-> id, held |-> local[i][id]] \in Message
      BY <2>3, MessageIn DEF Leaving
    <3> QED
      BY <2>5, <3>1 DEF Goodbyes
  <2>7. Goodbyes(i, order) \in Seq(Message)
    BY <2>4, <2>6, IsASeq
  <2>8. bye \in Message
    BY MessageIn
  <2> HIDE DEF bye
  <2>9. \A j \in Insts : Append(net[j], bye) \o Goodbyes(i, order) \in Seq(Message)
    BY <1>0, <2>7, <2>8, AppendProperties, ConcatProperties DEF TypeOK
  <2>10. net' \in [Insts -> Seq(Message)]
    BY <1>0, <2>1, <2>9 DEF TypeOK
  <2> QED
    BY <1>2, <2>10, GoneStep DEF Stop
<1> QED
  BY <1>1, <1>2

LEMMA SilenceStep ==
  ASSUME Sound, NEW i \in Insts, NEW j \in Insts, Silence(i, j)
  PROVE  Sound'
<1>1. TypeOK'
  BY DEF Sound, TypeOK, Silence, links, counters, history
<1>2. GhostsAreSeen'
  BY DEF Sound, TypeOK, GhostsAreSeen, Silence
<1> QED
  BY <1>1, <1>2 DEF Sound

(* Who is given up is dropped with its members.                            *)
LEMMA TickStep ==
  ASSUME Sound, NEW i \in Insts, Tick(i)
  PROVE  Sound'
<1>0. TypeOK /\ GhostsAreSeen /\ BusTypes
  BY TypeParts DEF Sound
<1>1. DropInstances(i, Quiet(i))
  BY DEF Tick
<1>2. <<Beat(i)>> \in Seq(Message)
  <2>1. Beat(i) \in Message
    BY MessageIn
  <2> QED
    BY <2>1
<1>3. net' \in [Insts -> Seq(Message)] /\ OutqOK'
  BY <1>0, <1>2, PublishTypes DEF Tick, Publish, BusTypes
<1>4. missed' \subseteq Insts \X Insts /\ gap' \subseteq Insts \X Insts
  BY <1>0, UnheardTypes DEF Tick, BusTypes, Quiet
<1>5. seen' = [seen EXCEPT ![i] = [j \in Insts |-> IF j \in Quiet(i) THEN "no" ELSE seen[i][j]]]
      /\ seen \in [Insts -> [Insts -> {"no", "fresh", "stale"}]]
  BY <1>0 DEF Tick, TypeOK
<1>6. TypeOK'
  <2>1. remote' \in [Insts -> Views] /\ held' \in [Insts -> Members]
    BY <1>0, <1>1, DropKeeps
  <2>2. ListTypes'
    <3>1. seen' \in [Insts -> [Insts -> {"no", "fresh", "stale"}]]
      <4>1. [j \in Insts |-> IF j \in Quiet(i) THEN "no" ELSE seen[i][j]]
              \in [Insts -> {"no", "fresh", "stale"}]
        BY <1>5
      <4> QED
        BY <1>5, <4>1
    <3>2. inst' = inst /\ local' = local
      BY DEF Tick
    <3> QED
      BY <1>0, <2>1, <3>1, <3>2 DEF TypeOK, ListTypes
  <2>3. BusTypes'
    BY <1>3, <1>4 DEF BusTypes
  <2>4. LinkTypes' /\ CountTypes'
    BY <1>0, TypeParts, LinksUnchanged DEF Tick, CountTypes, counters
  <2> QED
    BY <2>2, <2>3, <2>4, TypePartsNext
<1>7. GhostsAreSeen'
  <2> SUFFICES ASSUME NEW k \in Insts, NEW j \in Insts, NEW p \in DOMAIN remote'[k],
                      remote'[k][p].inst = j
               PROVE  seen'[k][j] # "no"
    BY DEF GhostsAreSeen
  <2>1. /\ p \in DOMAIN remote[k] /\ remote'[k][p] = remote[k][p]
        /\ k = i => j \notin Quiet(i)
    BY <1>0, <1>1, DropKeeps
  <2>2. seen[k][j] # "no"
    BY <1>0, <2>1 DEF GhostsAreSeen
  <2> QED
    BY <1>5, <2>1, <2>2
<1> QED
  BY <1>6, <1>7 DEF Sound

(* Held members that are forgotten or announced: the list of the others    *)
(* stays as it is.                                                         *)
LEMMA MemberStep ==
  ASSUME Sound, NEW i \in Insts, NEW id \in Ids,
         Leave(i, id) \/ Lost(i, id) \/ Update(i, id) \/ Forget(i, id) \/ Sweep(i, id)
  PROVE  Sound'
<1>0. ListTypes /\ BusTypes /\ LinkTypes /\ CountTypes
  BY TypeParts DEF Sound
<1>1. GhostsAreSeen'
  BY GhostsUnchanged DEF Sound, Leave, Lost, Update, Forget, Sweep
<1>2. /\ local[i] \in Maps(Gens) /\ held[i] \in Maps(Gens)
      /\ id \in DOMAIN local[i] => local[i][id] \in Gens
  <2>1. local[i] \in Maps(Gens) /\ held[i] \in Maps(Gens)
    BY <1>0, MembersViews DEF ListTypes
  <2>2. local[i] \in [DOMAIN local[i] -> Gens]
    BY <2>1, MapsOut
  <2> QED
    BY <2>1, <2>2
<1>3. /\ \A S : Without(local[i], S) \in Members /\ Without(held[i], S) \in Members
      /\ \A g \in Gens : Put(held[i], id, g) \in Members
  BY <1>2, MapsOperators, MembersViews
<1>4. ListTypes'
  <2>1. UNCHANGED <<inst, remote, seen>>
    BY DEF Leave, Lost, Update, Forget, Sweep
  <2>2. local' = local \/ local' = [local EXCEPT ![i] = Without(local[i], {id})]
    BY <1>0 DEF ListTypes, Leave, Lost, Update, Forget, Sweep
  <2>3. \/ held' = held \/ held' = [held EXCEPT ![i] = Without(held[i], {id})]
        \/ id \in DOMAIN local[i] /\ held' = [held EXCEPT ![i] = Put(held[i], id, local[i][id])]
    BY <1>0 DEF ListTypes, Leave, Lost, Update, Forget, Sweep
  <2>4. local' \in [Insts -> Members]
    BY <1>0, <1>3, <2>2 DEF ListTypes
  <2>5. held' \in [Insts -> Members]
    BY <1>0, <1>2, <1>3, <2>3 DEF ListTypes
  <2> QED
    BY <1>0, <2>1, <2>4, <2>5 DEF ListTypes
<1>5. LinkTypes' /\ CountTypes'
  <2>1. UNCHANGED <<pubUp, subUp, joins>>
        /\ (events' = events \/ (events < MaxEvents /\ events' = events + 1))
    BY DEF Leave, Lost, Update, Forget, Sweep, counters, links
  <2> QED
    BY <1>0, <2>1, LinksUnchanged, ClusterAssumption DEF CountTypes
<1>6. BusTypes'
  <2>1. CASE Sweep(i, id)
    BY <1>0, <2>1 DEF Sweep, BusTypes, OutqOK, links, history
  <2>2. CASE Leave(i, id)
    <3>1. Leaving(i, id, NoGen) \in Message
      BY MessageIn
    <3>2. <<Leaving(i, id, NoGen)>> \in Seq(Message)
      BY <3>1
    <3> QED
      BY <1>0, <2>2, <3>2, ToldTypes DEF Leave
  <2>3. CASE Lost(i, id)
    <3>1. Leaving(i, id, local[i][id]) \in Message
      BY <1>2, <2>3, MessageIn DEF Lost
    <3>2. <<Leaving(i, id, local[i][id])>> \in Seq(Message)
      BY <3>1
    <3> QED
      BY <1>0, <2>3, <3>2, ToldTypes DEF Lost
  <2>4. CASE Update(i, id)
    <3> DEFINE msg == [t |-> "update", from |-> i, id |-> id, gen |-> local[i][id]]
    <3>1. msg \in Message
      BY <1>2, <2>4, MessageIn DEF Update
    <3>2. <<msg>> \in Seq(Message)
      BY <3>1
    <3> QED
      BY <1>0, <2>4, <3>2, ToldTypes DEF Update
  <2>5. CASE Forget(i, id)
    <3>1. Left(i, id) \in Message
      BY MessageIn
    <3>2. <<Left(i, id)>> \in Seq(Message)
      BY <3>1
    <3> QED
      BY <1>0, <2>5, <3>2, ToldTypes DEF Forget
  <2> QED
    BY <2>1, <2>2, <2>3, <2>4, <2>5
<1> QED
  BY <1>1, <1>4, <1>5, <1>6, TypePartsNext DEF Sound

(* A join lists nobody for another instance; it may take one off the list. *)
LEMMA JoinStep ==
  ASSUME Sound, NEW i \in Insts, NEW own \in Ids, NEW want \in Ids \cup {NoId},
         NEW secret \in Gens, NEW account \in Ids \cup {NoId}, Join(i, own, want, secret, account)
  PROVE  Sound'
<1> DEFINE ok  == Granted(i, want, secret)
           id  == IF ok THEN want ELSE own
           out == ok /\ Elsewhere(i, want)
           old == account # NoId /\ account # id
           ms1 == IF out THEN <<[t |-> "evict", from |-> i, to |-> remote[i][want].inst, id |-> want]>>
                  ELSE <<>>
           ms2 == IF old THEN <<Left(i, account)>> ELSE <<>>
           ms  == ms1 \o ms2 \o <<Joined(i, id)>>
           S   == (IF ok THEN {want} ELSE {}) \cup (IF old THEN {account} ELSE {})
<1>0. ListTypes /\ BusTypes /\ LinkTypes /\ CountTypes /\ GhostsAreSeen
  BY TypeParts DEF Sound
<1>1. ok => want \in Ids
  BY DEF Granted
<1>2. id \in Ids /\ joins + 1 \in Gens
  BY <1>0, <1>1, ClusterAssumption DEF Join, CountTypes, Gens
<1>3. /\ local[i] \in Maps(Gens) /\ held[i] \in Maps(Gens) /\ remote[i] \in Maps(View)
      /\ want \in DOMAIN remote[i] => remote[i][want].inst \in Insts
  <2>1. local[i] \in Maps(Gens) /\ held[i] \in Maps(Gens) /\ remote[i] \in Maps(View)
    BY <1>0, MembersViews DEF ListTypes
  <2>2. remote[i] \in [DOMAIN remote[i] -> View]
    BY <2>1, MapsOut
  <2> QED
    BY <2>1, <2>2 DEF View
<1>4. ms \in Seq(Message)
  <2>1. ms1 \in Seq(Message)
    <3>1. CASE out
      <4>1. [t |-> "evict", from |-> i, to |-> remote[i][want].inst, id |-> want] \in Message
        BY <1>1, <1>3, <3>1, MessageIn DEF Elsewhere
      <4> QED
        BY <3>1, <4>1
    <3>2. CASE ~out
      BY <3>2
    <3> QED
      BY <3>1, <3>2
  <2>2. ms2 \in Seq(Message)
    <3>1. CASE old
      <4>1. Left(i, account) \in Message
        BY <3>1, MessageIn
      <4> QED
        BY <3>1, <4>1
    <3>2. CASE ~old
      BY <3>2
    <3> QED
      BY <3>1, <3>2
  <2>3. <<Joined(i, id)>> \in Seq(Message)
    <3>1. Joined(i, id) \in Message
      BY <1>2, MessageIn DEF Joined
    <3> QED
      BY <3>1
  <2> HIDE DEF ms1, ms2
  <2> QED
    BY <2>1, <2>2, <2>3, ConcatProperties
<1>5. Publish(i, ms) /\ Told(i, ms)
  BY DEF Join
<1>6. /\ local' = [local EXCEPT ![i] = Put(local[i], id, joins + 1)]
      /\ held' = [held EXCEPT ![i] = Without(held[i], S)]
      /\ remote' = [remote EXCEPT ![i] = IF out THEN Without(remote[i], {want}) ELSE remote[i]]
      /\ joins < MaxJoins /\ joins' = joins + 1
      /\ UNCHANGED <<inst, seen, pubUp, subUp, events>>
  BY <1>0 DEF Join, ListTypes
<1> HIDE DEF ok, id, out, old, ms1, ms2, ms, S
<1>7. BusTypes'
  BY <1>0, <1>4, <1>5, ToldTypes
<1>8. /\ Put(local[i], id, joins + 1) \in Members
      /\ Without(held[i], S) \in Members /\ Without(remote[i], {want}) \in Views
  BY <1>2, <1>3, MapsOperators, MembersViews
<1>9. ListTypes'
  BY <1>0, <1>6, <1>8 DEF ListTypes
<1>10. LinkTypes' /\ CountTypes'
  BY <1>0, <1>6, LinksUnchanged, ClusterAssumption DEF CountTypes
<1>11. GhostsAreSeen'
  <2>1. \A p \in DOMAIN Without(remote[i], {want}) :
          p \in DOMAIN remote[i] /\ Without(remote[i], {want})[p] = remote[i][p]
    BY DEF Without
  <2>2. \A k \in Insts : \A p \in DOMAIN remote'[k] :
          p \in DOMAIN remote[k] /\ remote'[k][p] = remote[k][p]
    BY <1>0, <1>6, <2>1 DEF ListTypes
  <2>3. seen' = seen
    BY <1>6
  <2> QED
    BY <1>0, <2>2, <2>3 DEF GhostsAreSeen
<1> QED
  BY <1>7, <1>9, <1>10, <1>11, TypePartsNext DEF Sound

----------------------------------------------------------------------------
(* The invariant.                                                          *)

LEMMA InitSound == Init => Sound
<1> SUFFICES ASSUME Init PROVE Sound
  OBVIOUS
<1>1. Empty \in Members /\ Empty \in Views
  <2>1. Empty \in [{} -> Gens] /\ Empty \in [{} -> View]
    BY DEF Empty
  <2> QED
    BY <2>1, MapsIn, MembersViews
<1>2. ListTypes
  BY <1>1 DEF Init, ListTypes
<1>3. <<>> \in Seq(Message) /\ Len(<<>>) = 0 /\ MaxQueue \in Nat
  BY ClusterAssumption
<1>4. BusTypes
  BY <1>3 DEF Init, BusTypes, OutqOK
<1>5. LinkTypes /\ CountTypes
  BY ClusterAssumption DEF Init, LinkTypes, CountTypes
<1>6. GhostsAreSeen
  BY DEF Init, GhostsAreSeen, Empty
<1> QED
  BY <1>2, <1>4, <1>5, <1>6, TypeParts DEF Sound

LEMMA NextSound == Sound /\ [Next]_vars => Sound'
<1> SUFFICES ASSUME Sound, [Next]_vars PROVE Sound'
  OBVIOUS
<1>1. CASE UNCHANGED vars
  <2>1. ListTypes' /\ BusTypes' /\ LinkTypes' /\ CountTypes'
    BY <1>1, TypeParts, LinksUnchanged
       DEF Sound, vars, ListTypes, BusTypes, OutqOK, CountTypes
  <2> QED
    BY <1>1, <2>1, TypePartsNext, GhostsUnchanged DEF Sound, vars
<1>2. CASE Next
  <2>1. PICK i \in Insts :
          \/ PubDown(i) \/ PubUp(i) \/ SubDown(i) \/ SubUp(i) \/ Start(i)
          \/ Crash(i) \/ Stop(i)
          \/ Tick(i)
          \/ Deliver(i)
          \/ \E j \in Insts : Silence(i, j)
          \/ \E own \in Ids, want \in Ids \cup {NoId}, secret \in Gens, account \in Ids \cup {NoId} :
               Join(i, own, want, secret, account)
          \/ \E id \in Ids : Leave(i, id) \/ Lost(i, id) \/ Update(i, id) \/ Forget(i, id) \/ Sweep(i, id)
    BY <1>2 DEF Next
  <2> QED
    BY <2>1, LinkStep, GoesStep, TickStep, DeliverStep, SilenceStep, JoinStep, MemberStep
<1> QED
  BY <1>1, <1>2

LEMMA SoundAlways == Spec => []Sound
BY InitSound, NextSound, PTL DEF Spec

(* Every reachable state of the cluster is well typed: in particular the   *)
(* messages an instance keeps for a link that is down never pass the limit *)
(* of the bus.                                                             *)
THEOREM TypeCorrect == Spec => []TypeOK
<1>1. Sound => TypeOK
  BY DEF Sound
<1> QED
  BY <1>1, SoundAlways, PTL

(* Nobody is ever listed for an instance that is not watched: the next     *)
(* silence or goodbye of that instance finds all of its members.           *)
THEOREM GhostsAlwaysSeen == Spec => []GhostsAreSeen
<1>1. Sound => GhostsAreSeen
  BY DEF Sound
<1> QED
  BY <1>1, SoundAlways, PTL

----------------------------------------------------------------------------
(* What is still on its way: for every message in A, one in R follows.     *)
(* From an instance j to an instance i these are the messages of net[i]    *)
(* and then those of outq[j].                                              *)

Ends(q, A, R) ==
  \A k \in DOMAIN q : q[k] \in A => \E l \in DOMAIN q : l > k /\ q[l] \in R
Has(w, q, R) == (\E k \in DOMAIN w : w[k] \in R) \/ (\E k \in DOMAIN q : q[k] \in R)
Answered(w, q, A, R) ==
  /\ Ends(q, A, R)
  /\ \A k \in DOMAIN w : w[k] \in A =>
       (\E l \in DOMAIN w : l > k /\ w[l] \in R) \/ (\E l \in DOMAIN q : q[l] \in R)

LEMMA ConcatParts ==
  ASSUME NEW w \in Seq(Message), NEW v \in Seq(Message)
  PROVE  /\ w \o v \in Seq(Message) /\ Len(w) \in Nat
         /\ DOMAIN w \subseteq Nat /\ DOMAIN v \subseteq Nat
         /\ \A k \in DOMAIN w : k <= Len(w) /\ k \in DOMAIN (w \o v) /\ (w \o v)[k] = w[k]
         /\ \A k \in DOMAIN v :
              k > 0 /\ Len(w) + k \in DOMAIN (w \o v) /\ (w \o v)[Len(w) + k] = v[k]
         /\ \A k \in DOMAIN (w \o v) :
              k \in Nat /\ (k \in DOMAIN w \/ (k - Len(w) \in DOMAIN v /\ k > Len(w)))
<1>1. /\ w \o v \in Seq(Message) /\ Len(w) \in Nat /\ Len(v) \in Nat
      /\ DOMAIN w = 1 .. Len(w) /\ DOMAIN v = 1 .. Len(v)
      /\ DOMAIN (w \o v) = 1 .. Len(w) + Len(v)
      /\ \A i \in 1 .. Len(w) + Len(v) :
           (w \o v)[i] = IF i <= Len(w) THEN w[i] ELSE v[i - Len(w)]
  BY ConcatProperties, LenProperties
<1> DEFINE x == w \o v
<1> HIDE DEF x
<1>2. \A k \in DOMAIN w : k <= Len(w) /\ k \in 1 .. Len(w) + Len(v)
  BY <1>1
<1>3. \A k \in DOMAIN v : k > 0 /\ Len(w) + k \in 1 .. Len(w) + Len(v) /\ ~(Len(w) + k <= Len(w))
                          /\ Len(w) + k - Len(w) = k
  BY <1>1
<1>4. \A k \in 1 .. Len(w) + Len(v) : k \in 1 .. Len(w) \/ (k - Len(w) \in 1 .. Len(v) /\ k > Len(w))
  BY <1>1
<1> QED
  BY <1>1, <1>2, <1>3, <1>4

LEMMA ConcatSet ==
  ASSUME NEW w \in Seq(Message), NEW v \in Seq(Message)
  PROVE  ToSet(w \o v) = ToSet(w) \cup ToSet(v)
<1> DEFINE x == w \o v
<1>1. /\ \A k \in DOMAIN w : k \in DOMAIN x /\ x[k] = w[k]
      /\ \A k \in DOMAIN v : Len(w) + k \in DOMAIN x /\ x[Len(w) + k] = v[k]
      /\ \A k \in DOMAIN x : k \in DOMAIN w \/ (k - Len(w) \in DOMAIN v /\ k > Len(w))
      /\ DOMAIN x \subseteq Nat /\ Len(w) \in Nat
  BY ConcatParts
<1> HIDE DEF x
<1>2. \A k \in DOMAIN x : x[k] \in ToSet(w) \cup ToSet(v)
  <2> SUFFICES ASSUME NEW k \in DOMAIN x PROVE x[k] \in ToSet(w) \cup ToSet(v)
    OBVIOUS
  <2>1. CASE k \in DOMAIN w
    BY <1>1, <2>1 DEF ToSet
  <2>2. CASE k - Len(w) \in DOMAIN v
    <3>1. Len(w) + (k - Len(w)) = k
      BY <1>1
    <3>2. x[k] = v[k - Len(w)]
      BY <1>1, <2>2, <3>1
    <3> QED
      BY <2>2, <3>2 DEF ToSet
  <2> QED
    BY <1>1, <2>1, <2>2
<1>3. ToSet(x) \subseteq ToSet(w) \cup ToSet(v)
  BY <1>2 DEF ToSet
<1>4. ToSet(w) \cup ToSet(v) \subseteq ToSet(x)
  BY <1>1 DEF ToSet
<1> QED
  BY <1>3, <1>4 DEF x

LEMMA TailParts ==
  ASSUME NEW w \in Seq(Message), w # <<>>
  PROVE  /\ Tail(w) \in Seq(Message) /\ Head(w) = w[1] /\ 1 \in DOMAIN w
         /\ \A k \in DOMAIN w : k \in Nat /\ (k = 1 \/ (k > 1 /\ k - 1 \in DOMAIN Tail(w)))
         /\ \A k \in DOMAIN Tail(w) : k \in Nat /\ k > 0 /\ k + 1 \in DOMAIN w /\ Tail(w)[k] = w[k + 1]
<1>1. /\ Len(w) \in Nat /\ DOMAIN w = 1 .. Len(w) /\ Len(w) # 0
      /\ Tail(w) \in Seq(Message) /\ Len(Tail(w)) = Len(w) - 1
      /\ \A i \in 1 .. Len(Tail(w)) : Tail(w)[i] = w[i + 1]
  BY LenProperties, EmptySeq, HeadTailProperties
<1>2. DOMAIN Tail(w) = 1 .. Len(w) - 1
  BY <1>1, LenProperties
<1>3. Head(w) = w[1]
  BY DEF Head
<1> QED
  BY <1>1, <1>2, <1>3

LEMMA TailSet ==
  ASSUME NEW w \in Seq(Message), w # <<>>
  PROVE  ToSet(Tail(w)) \subseteq ToSet(w) /\ Head(w) \in ToSet(w)
BY TailParts DEF ToSet

(* A queue keeps the end of what was put in it.                            *)
LEMMA QueueEnd ==
  ASSUME NEW i \in Insts, outq[i] \in Seq(Message), NEW ms \in Seq(Message)
  PROVE  \E d \in Nat :
           /\ \A k \in DOMAIN Queue(i, ms) :
                /\ k \in Nat /\ k > 0
                /\ k + d \in DOMAIN (outq[i] \o ms) /\ Queue(i, ms)[k] = (outq[i] \o ms)[k + d]
           /\ \A k \in DOMAIN (outq[i] \o ms) :
                k \in Nat /\ (k > d => k - d \in DOMAIN Queue(i, ms))
<1> DEFINE all == outq[i] \o ms
           q == Queue(i, ms)
<1>1. all \in Seq(Message)
  BY ConcatProperties
<1>2. Len(all) \in Nat /\ DOMAIN all = 1 .. Len(all) /\ \A k \in 1 .. Len(all) : all[k] \in Message
  <2> HIDE DEF all
  <2> QED
    BY <1>1, LenProperties, ElementOfSeq
<1>3. MaxQueue \in Nat \ {0}
  BY ClusterAssumption
<1>4. CASE Len(all) - MaxQueue > 0
  <2> DEFINE d == Len(all) - MaxQueue
  <2>1. q = SubSeq(all, d + 1, Len(all))
    BY <1>4 DEF Queue, Over
  <2> HIDE DEF all, q
  <2>2. d \in Nat /\ d + 1 \in Int /\ Len(all) \in Int /\ d + 1 <= Len(all)
    BY <1>2, <1>3, <1>4
  <2>3. \A k \in d + 1 .. Len(all) : all[k] \in Message
    BY <1>2, <2>2
  <2> HIDE DEF d
  <2>4. /\ SubSeq(all, d + 1, Len(all)) \in Seq(Message)
        /\ Len(SubSeq(all, d + 1, Len(all))) = IF d + 1 <= Len(all) THEN Len(all) - (d + 1) + 1 ELSE 0
        /\ \A k \in 1 .. Len(all) - (d + 1) + 1 : SubSeq(all, d + 1, Len(all))[k] = all[d + 1 + k - 1]
    BY <2>2, <2>3, SubSeqProperties
  <2>5. q \in Seq(Message) /\ Len(q) = Len(all) - d /\ \A k \in 1 .. Len(all) - d : q[k] = all[k + d]
    BY <2>1, <2>2, <2>4
  <2>6. DOMAIN q = 1 .. Len(all) - d
    BY <2>5, LenProperties
  <2>7. \A k \in DOMAIN q : k \in Nat /\ k > 0 /\ k + d \in DOMAIN all /\ q[k] = all[k + d]
    BY <1>2, <2>2, <2>5, <2>6
  <2>8. \A k \in DOMAIN all : k \in Nat /\ (k > d => k - d \in DOMAIN q)
    BY <1>2, <2>2, <2>6
  <2> QED
    BY <2>2, <2>7, <2>8 DEF q, all
<1>5. CASE ~(Len(all) - MaxQueue > 0)
  <2>1. q = all
    BY <1>5 DEF Queue, Over
  <2> HIDE DEF q, all
  <2>2. \A k \in DOMAIN all : k \in Nat /\ k > 0 /\ k + 0 = k /\ k - 0 = k
    BY <1>2
  <2> QED
    BY <2>1, <2>2 DEF q, all
<1> QED
  BY <1>4, <1>5

LEMMA QueueSet ==
  ASSUME NEW i \in Insts, outq[i] \in Seq(Message), NEW ms \in Seq(Message)
  PROVE  ToSet(Queue(i, ms)) \subseteq ToSet(outq[i]) \cup ToSet(ms)
<1>1. ASSUME NEW k \in DOMAIN Queue(i, ms)
      PROVE  \E l \in DOMAIN (outq[i] \o ms) : Queue(i, ms)[k] = (outq[i] \o ms)[l]
  BY QueueEnd
<1>2. ToSet(Queue(i, ms)) \subseteq ToSet(outq[i] \o ms)
  BY <1>1 DEF ToSet
<1> QED
  BY <1>2, ConcatSet

(* Messages that ask for no answer are added, at either end.               *)
LEMMA HarmlessAnswered ==
  ASSUME NEW w \in Seq(Message), NEW q \in Seq(Message), NEW ms \in Seq(Message), NEW A, NEW R,
         ToSet(ms) \cap A = {}
  PROVE  /\ Answered(w, q, A, R) => Answered(w \o ms, q, A, R) /\ Answered(w, q \o ms, A, R)
         /\ Has(w, q, R) => Has(w \o ms, q, R) /\ Has(w, q \o ms, R)
         /\ Ends(q, A, R) => Ends(q \o ms, A, R)
<1>1. \A k \in DOMAIN ms : ms[k] \notin A
  BY DEF ToSet
<1>2. ASSUME Ends(q, A, R)
      PROVE  Ends(q \o ms, A, R)
  <2> SUFFICES ASSUME NEW k \in DOMAIN (q \o ms), (q \o ms)[k] \in A
               PROVE  \E l \in DOMAIN (q \o ms) : l > k /\ (q \o ms)[l] \in R
    BY DEF Ends
  <2>1. k \in DOMAIN q
    <3>1. ASSUME k - Len(q) \in DOMAIN ms
          PROVE  FALSE
      <4>1. Len(q) + (k - Len(q)) = k
        BY ConcatParts
      <4>2. (q \o ms)[k] = ms[k - Len(q)]
        BY <3>1, <4>1, ConcatParts
      <4> QED
        BY <1>1, <3>1, <4>2
    <3> QED
      BY <3>1, ConcatParts
  <2>2. q[k] \in A
    BY <2>1, ConcatParts
  <2>3. PICK l \in DOMAIN q : l > k /\ q[l] \in R
    BY <1>2, <2>1, <2>2 DEF Ends
  <2>4. l \in DOMAIN (q \o ms) /\ (q \o ms)[l] \in R
    BY <2>3, ConcatParts
  <2> QED
    BY <2>3, <2>4
<1>3. ASSUME Answered(w, q, A, R)
      PROVE  Answered(w, q \o ms, A, R)
  <2>1. ASSUME NEW k \in DOMAIN w, w[k] \in A, NEW l \in DOMAIN q, q[l] \in R
        PROVE  \E n \in DOMAIN (q \o ms) : (q \o ms)[n] \in R
    BY <2>1, ConcatParts
  <2> QED
    BY <1>2, <1>3, <2>1 DEF Answered
<1>4. ASSUME Answered(w, q, A, R)
      PROVE  Answered(w \o ms, q, A, R)
  <2> SUFFICES ASSUME NEW k \in DOMAIN (w \o ms), (w \o ms)[k] \in A
               PROVE  \/ \E l \in DOMAIN (w \o ms) : l > k /\ (w \o ms)[l] \in R
                      \/ \E l \in DOMAIN q : q[l] \in R
    BY <1>4 DEF Answered
  <2>1. k \in DOMAIN w
    <3>1. ASSUME k - Len(w) \in DOMAIN ms
          PROVE  FALSE
      <4>1. Len(w) + (k - Len(w)) = k
        BY ConcatParts
      <4>2. (w \o ms)[k] = ms[k - Len(w)]
        BY <3>1, <4>1, ConcatParts
      <4> QED
        BY <1>1, <3>1, <4>2
    <3> QED
      BY <3>1, ConcatParts
  <2>2. w[k] \in A
    BY <2>1, ConcatParts
  <2>3. CASE \E l \in DOMAIN w : l > k /\ w[l] \in R
    <3>1. PICK l \in DOMAIN w : l > k /\ w[l] \in R
      BY <2>3
    <3>2. l \in DOMAIN (w \o ms) /\ (w \o ms)[l] \in R
      BY <3>1, ConcatParts
    <3> QED
      BY <3>1, <3>2
  <2> QED
    BY <1>4, <2>1, <2>2, <2>3 DEF Answered
<1>5. ASSUME Has(w, q, R)
      PROVE  Has(w \o ms, q, R) /\ Has(w, q \o ms, R)
  <2>1. ASSUME NEW k \in DOMAIN w, w[k] \in R
        PROVE  \E l \in DOMAIN (w \o ms) : (w \o ms)[l] \in R
    BY <2>1, ConcatParts
  <2>2. ASSUME NEW k \in DOMAIN q, q[k] \in R
        PROVE  \E l \in DOMAIN (q \o ms) : (q \o ms)[l] \in R
    BY <2>2, ConcatParts
  <2> QED
    BY <1>5, <2>1, <2>2 DEF Has
<1> QED
  BY <1>2, <1>3, <1>4, <1>5

(* Messages that answer everything before them and themselves are added.   *)
LEMMA SettledAnswered ==
  ASSUME NEW w \in Seq(Message), NEW q \in Seq(Message), NEW ms \in Seq(Message), NEW A, NEW R,
         Ends(ms, A, R), NEW r \in DOMAIN ms, ms[r] \in R
  PROVE  /\ Ends(q \o ms, A, R)
         /\ Answered(w \o ms, <<>>, A, R) /\ Has(w \o ms, <<>>, R)
         /\ Answered(w, q \o ms, A, R) /\ Has(w, q \o ms, R)
<1>1. ASSUME NEW x \in Seq(Message)
      PROVE  Ends(x \o ms, A, R) /\ \E l \in DOMAIN (x \o ms) : (x \o ms)[l] \in R
  <2>1. Len(x) + r \in DOMAIN (x \o ms) /\ (x \o ms)[Len(x) + r] \in R
    BY ConcatParts
  <2>2. ASSUME NEW k \in DOMAIN (x \o ms), (x \o ms)[k] \in A
        PROVE  \E l \in DOMAIN (x \o ms) : l > k /\ (x \o ms)[l] \in R
    <3>1. CASE k \in DOMAIN x
      <4>1. k <= Len(x) /\ r > 0 /\ k \in Nat /\ r \in Nat /\ Len(x) \in Nat
        BY <3>1, ConcatParts
      <4>2. Len(x) + r > k
        BY <4>1
      <4> QED
        BY <2>1, <4>2
    <3>2. CASE k - Len(x) \in DOMAIN ms
      <4>1. Len(x) + (k - Len(x)) = k /\ k \in Nat /\ Len(x) \in Nat
        BY ConcatParts
      <4>2. (x \o ms)[k] = ms[k - Len(x)]
        BY <3>2, <4>1, ConcatParts
      <4>3. PICK l \in DOMAIN ms : l > k - Len(x) /\ ms[l] \in R
        BY <2>2, <3>2, <4>2 DEF Ends
      <4>4. l \in Nat /\ Len(x) + l \in DOMAIN (x \o ms) /\ (x \o ms)[Len(x) + l] = ms[l]
        BY <4>3, ConcatParts
      <4>5. Len(x) + l > k
        BY <4>1, <4>3, <4>4
      <4> QED
        BY <4>3, <4>4, <4>5
    <3> QED
      BY <3>1, <3>2, ConcatParts
  <2> QED
    BY <2>1, <2>2 DEF Ends
<1>2. Ends(q \o ms, A, R) /\ \E l \in DOMAIN (q \o ms) : (q \o ms)[l] \in R
  BY <1>1
<1>3. Ends(w \o ms, A, R) /\ \E l \in DOMAIN (w \o ms) : (w \o ms)[l] \in R
  BY <1>1
<1>4. Answered(w \o ms, <<>>, A, R) /\ Has(w \o ms, <<>>, R)
  BY <1>3 DEF Answered, Has, Ends
<1>5. Answered(w, q \o ms, A, R) /\ Has(w, q \o ms, R)
  BY <1>2 DEF Answered, Has
<1> QED
  BY <1>2, <1>4, <1>5

(* The first message is taken.                                             *)
LEMMA TailAnswered ==
  ASSUME NEW w \in Seq(Message), w # <<>>, NEW q \in Seq(Message), NEW A, NEW R,
         Answered(w, q, A, R)
  PROVE  /\ Answered(Tail(w), q, A, R)
         /\ Head(w) \in A => Has(Tail(w), q, R)
         /\ Has(w, q, R) /\ Head(w) \notin R => Has(Tail(w), q, R)
<1>1. /\ Head(w) = w[1] /\ 1 \in DOMAIN w
      /\ \A k \in DOMAIN w : k \in Nat /\ (k = 1 \/ (k > 1 /\ k - 1 \in DOMAIN Tail(w)))
      /\ \A k \in DOMAIN Tail(w) : k \in Nat /\ k > 0 /\ k + 1 \in DOMAIN w /\ Tail(w)[k] = w[k + 1]
  BY TailParts
<1>2. \A l \in DOMAIN w : l > 1 => l - 1 \in DOMAIN Tail(w) /\ Tail(w)[l - 1] = w[l]
  <2> SUFFICES ASSUME NEW l \in DOMAIN w, l > 1
               PROVE  l - 1 \in DOMAIN Tail(w) /\ Tail(w)[l - 1] = w[l]
    OBVIOUS
  <2>1. l - 1 \in DOMAIN Tail(w) /\ (l - 1) + 1 = l
    BY <1>1
  <2> QED
    BY <1>1, <2>1
<1>3. ASSUME NEW k \in DOMAIN Tail(w), Tail(w)[k] \in A
      PROVE  (\E l \in DOMAIN Tail(w) : l > k /\ Tail(w)[l] \in R) \/ (\E l \in DOMAIN q : q[l] \in R)
  <2>1. k + 1 \in DOMAIN w /\ w[k + 1] \in A /\ k \in Nat
    BY <1>1, <1>3
  <2>2. CASE \E l \in DOMAIN w : l > k + 1 /\ w[l] \in R
    <3>1. PICK l \in DOMAIN w : l > k + 1 /\ w[l] \in R
      BY <2>2
    <3>2. l \in Nat /\ l > 1 /\ l - 1 > k
      BY <1>1, <2>1, <3>1
    <3> QED
      BY <1>2, <3>1, <3>2
  <2> QED
    BY <2>1, <2>2 DEF Answered
<1>4. ASSUME Head(w) \in A
      PROVE  Has(Tail(w), q, R)
  <2>1. CASE \E l \in DOMAIN w : l > 1 /\ w[l] \in R
    BY <1>2, <2>1 DEF Has
  <2> QED
    BY <1>1, <1>4, <2>1 DEF Answered, Has
<1>5. ASSUME Has(w, q, R), Head(w) \notin R
      PROVE  Has(Tail(w), q, R)
  <2>1. ASSUME NEW l \in DOMAIN w, w[l] \in R
        PROVE  \E k \in DOMAIN Tail(w) : Tail(w)[k] \in R
    BY <1>1, <1>2, <1>5, <2>1
  <2> QED
    BY <1>5, <2>1 DEF Has
<1> QED
  BY <1>3, <1>4, <1>5 DEF Answered

(* What was queued goes out.                                               *)
LEMMA FlushedAnswered ==
  ASSUME NEW w \in Seq(Message), NEW q \in Seq(Message), NEW A, NEW R, Answered(w, q, A, R)
  PROVE  Answered(w \o q, <<>>, A, R) /\ (Has(w, q, R) => Has(w \o q, <<>>, R))
<1>1. ASSUME NEW k \in DOMAIN (w \o q), (w \o q)[k] \in A
      PROVE  \E l \in DOMAIN (w \o q) : l > k /\ (w \o q)[l] \in R
  <2>1. CASE k \in DOMAIN w
    <3>1. w[k] \in A /\ k <= Len(w) /\ k \in Nat /\ Len(w) \in Nat
      BY <1>1, <2>1, ConcatParts
    <3>2. CASE \E l \in DOMAIN w : l > k /\ w[l] \in R
      <4>1. PICK l \in DOMAIN w : l > k /\ w[l] \in R
        BY <3>2
      <4> QED
        BY <4>1, ConcatParts
    <3>3. CASE \E l \in DOMAIN q : q[l] \in R
      <4>1. PICK l \in DOMAIN q : q[l] \in R
        BY <3>3
      <4>2. l > 0 /\ l \in Nat /\ Len(w) + l \in DOMAIN (w \o q) /\ (w \o q)[Len(w) + l] \in R
        BY <4>1, ConcatParts
      <4>3. Len(w) + l > k
        BY <3>1, <4>2
      <4> QED
        BY <4>2, <4>3
    <3> QED
      BY <2>1, <3>1, <3>2, <3>3 DEF Answered
  <2>2. CASE k - Len(w) \in DOMAIN q
    <3>1. Len(w) + (k - Len(w)) = k /\ k \in Nat /\ Len(w) \in Nat
      BY ConcatParts
    <3>2. (w \o q)[k] = q[k - Len(w)]
      BY <2>2, <3>1, ConcatParts
    <3>3. PICK l \in DOMAIN q : l > k - Len(w) /\ q[l] \in R
      BY <1>1, <2>2, <3>2 DEF Answered, Ends
    <3>4. l \in Nat /\ Len(w) + l \in DOMAIN (w \o q) /\ (w \o q)[Len(w) + l] = q[l]
      BY <3>3, ConcatParts
    <3>5. Len(w) + l > k
      BY <3>1, <3>3, <3>4
    <3> QED
      BY <3>3, <3>4, <3>5
  <2> QED
    BY <2>1, <2>2, ConcatParts
<1>2. ASSUME Has(w, q, R)
      PROVE  Has(w \o q, <<>>, R)
  <2>1. ASSUME NEW l \in DOMAIN w, w[l] \in R
        PROVE  Has(w \o q, <<>>, R)
    BY <2>1, ConcatParts DEF Has
  <2>2. ASSUME NEW l \in DOMAIN q, q[l] \in R
        PROVE  Has(w \o q, <<>>, R)
    <3>1. Len(w) + l \in DOMAIN (w \o q) /\ (w \o q)[Len(w) + l] = q[l]
      BY ConcatParts
    <3> QED
      BY <2>2, <3>1 DEF Has
  <2> QED
    BY <1>2, <2>1, <2>2 DEF Has
<1> QED
  BY <1>1, <1>2 DEF Answered, Ends

LEMMA QueueEnds ==
  ASSUME NEW i \in Insts, outq[i] \in Seq(Message), NEW ms \in Seq(Message), NEW A, NEW R,
         Ends(outq[i] \o ms, A, R)
  PROVE  Ends(Queue(i, ms), A, R)
<1> DEFINE all == outq[i] \o ms
           q == Queue(i, ms)
<1>1. PICK d \in Nat :
        /\ \A k \in DOMAIN q : k \in Nat /\ k > 0 /\ k + d \in DOMAIN all /\ q[k] = all[k + d]
        /\ \A k \in DOMAIN all : k \in Nat /\ (k > d => k - d \in DOMAIN q)
  BY QueueEnd
<1> HIDE DEF all, q
<1> SUFFICES ASSUME NEW k \in DOMAIN q, q[k] \in A
             PROVE  \E l \in DOMAIN q : l > k /\ q[l] \in R
  BY DEF Ends, q
<1>2. PICK l \in DOMAIN all : l > k + d /\ all[l] \in R
  BY <1>1 DEF Ends, all
<1>3. l \in Nat /\ k \in Nat /\ l > d /\ l - d \in DOMAIN q /\ l - d > k /\ (l - d) + d = l
  BY <1>1, <1>2
<1>4. q[l - d] = all[l]
  BY <1>1, <1>3
<1> QED
  BY <1>2, <1>3, <1>4

----------------------------------------------------------------------------
(* The invariant behind KnownIsTrue.                                       *)

(* What j says of p: it is here (to anybody; to i), it left.               *)
Adding(j, p)      == {m \in Message : m.from = j /\ Places(m, p)}
AddingTo(j, i, p) == {m \in Message : m.from = j /\ Places(m, p) /\ m.t # "update"
                                                 /\ (m.t = "state" => m.to = i)}
Removing(j, p)    == {m \in Message : m.from = j /\ m.t = "leave" /\ m.id = p}

(* Who a message can be from, and that an eviction was noted.              *)
NetOK ==
  \A i \in Insts : \A m \in ToSet(net[i]) :
    /\ m.from # i /\ inst[m.from] # "off"
    /\ m.t = "bye" => ~Up(m.from)
    /\ m.t = "evict" => m.id \in moved
QueueOK ==
  \A i \in Insts : \A m \in ToSet(outq[i]) :
    m.from = i /\ m.t # "bye" /\ (m.t = "evict" => m.id \in moved)
(* What the links and the state of an instance say of its queues.          *)
LinksOK ==
  \A i \in Insts :
    /\ pubUp[i] => outq[i] = <<>>
    /\ ~subUp[i] => net[i] = <<>>
    /\ ~Up(i) => ~pubUp[i] /\ ~subUp[i] /\ outq[i] = <<>>
ListsOK ==
  \A i \in Insts :
    /\ ~Up(i) => local[i] = Empty /\ remote[i] = Empty
    /\ \A p \in DOMAIN remote[i] : inst[remote[i][p].inst] # "off"
Wired == NetOK /\ QueueOK /\ LinksOK /\ ListsOK

(* A member that was not taken over is on one instance, and no other one   *)
(* still says that it is there.                                            *)
Alone(j, p) ==
  \A k \in Insts :
    /\ k # j => p \notin DOMAIN local[k]
    /\ \A m \in ToSet(net[k]) \cup ToSet(outq[k]) : Places(m, p) => m.from = j
OnePlace == \A j \in Insts : \A p \in DOMAIN local[j] \ moved : Alone(j, p)

(* Who is not on j (any more): what j still says of it ends in a leave,    *)
(* and if i lists it for j, a leave is on its way.                         *)
Absent(j, p) == Up(j) /\ p \notin DOMAIN local[j] /\ p \notin moved
QueueEnded ==
  \A j \in Insts : \A p \in Ids : Absent(j, p) => Ends(outq[j], Adding(j, p), Removing(j, p))
Unlisted(i, j, p) ==
  /\ Answered(net[i], outq[j], Adding(j, p), Removing(j, p))
  /\ p \in Listed(i, j) => Has(net[i], outq[j], Removing(j, p))
NoGhosts ==
  \A i, j \in Insts : \A p \in Ids :
    i # j /\ Up(i) /\ <<j, i>> \notin missed /\ Absent(j, p) => Unlisted(i, j, p)

(* Who is on j: what j still says of it to i ends in its being there, and  *)
(* if i does not list it for j, that is on its way.                        *)
Present(j, p) == p \in DOMAIN local[j] /\ p \notin moved
Reached(i, j, p) ==
  /\ Answered(net[i], outq[j], Removing(j, p), AddingTo(j, i, p))
  /\ p \notin Listed(i, j) => Has(net[i], outq[j], AddingTo(j, i, p))
AllReached ==
  \A i, j \in Insts : \A p \in Ids :
    i # j /\ Up(i) /\ Up(j) /\ <<j, i>> \notin gap /\ Present(j, p) => Reached(i, j, p)

Known == Wired /\ OnePlace /\ QueueEnded /\ NoGhosts /\ AllReached

(* Once nothing is on its way, that is what KnownIsTrue says.              *)
LEMMA KnownSuffices ==
  ASSUME TypeOK, Known
  PROVE  KnownIsTrue
<1> SUFFICES ASSUME Settled, NEW i \in Insts, NEW j \in Insts, i # j, Up(i), Up(j)
             PROVE  /\ <<j, i>> \notin gap    => DOMAIN local[j] \subseteq Listed(i, j) \cup moved
                    /\ <<j, i>> \notin missed => Listed(i, j) \subseteq DOMAIN local[j] \cup moved
  BY DEF KnownIsTrue
<1>1. net[i] = <<>> /\ outq[j] = <<>> /\ DOMAIN <<>> = {}
  BY DEF Settled
<1>2. \A R : ~Has(net[i], outq[j], R)
  BY <1>1 DEF Has
<1>3. DOMAIN local[j] \subseteq Ids /\ Listed(i, j) \subseteq Ids
  BY MembersViews, MapsOut DEF TypeOK, Listed
<1>4. ASSUME <<j, i>> \notin gap, NEW p \in DOMAIN local[j], p \notin moved
      PROVE  p \in Listed(i, j)
  BY <1>2, <1>3, <1>4 DEF Known, AllReached, Present, Reached
<1>5. ASSUME <<j, i>> \notin missed, NEW p \in Listed(i, j), p \notin moved
      PROVE  p \in DOMAIN local[j]
  BY <1>2, <1>3, <1>5 DEF Known, NoGhosts, Absent, Unlisted
<1> QED
  BY <1>4, <1>5

----------------------------------------------------------------------------
(* A publication, and what it does to what is on its way.                  *)

(* The lists of a step with no part in them.                               *)
LEMMA Published ==
  ASSUME TypeOK, LinksOK, NEW x \in Insts, NEW base \in [Insts -> Seq(Message)],
         NEW ms \in Seq(Message), PublishAfter(base, x, ms)
  PROVE  /\ \A i \in Insts :
              /\ net'[i] = base[i] \/ (i # x /\ net'[i] = base[i] \o ms /\ subUp[i] /\ Up(i))
              /\ ToSet(net'[i]) \subseteq ToSet(base[i]) \cup (IF i = x THEN {} ELSE ToSet(ms))
              /\ ToSet(outq'[i]) \subseteq ToSet(outq[i]) \cup (IF i = x THEN ToSet(ms) ELSE {})
              /\ i # x => outq'[i] = outq[i]
         /\ pubUp[x] => outq' = outq
         /\ ~pubUp[x] => net' = base /\ outq'[x] = Queue(x, ms)
<1>1. outq \in [Insts -> Seq(Message)]
  BY DEF TypeOK
<1>2. /\ net' = [j \in Insts |-> IF pubUp[x] /\ Hears(x, j) THEN base[j] \o ms ELSE base[j]]
      /\ outq' = IF pubUp[x] THEN outq ELSE [outq EXCEPT ![x] = Queue(x, ms)]
  BY DEF PublishAfter
<1>3. ASSUME NEW i \in Insts
      PROVE  /\ net'[i] = base[i] \/ (i # x /\ net'[i] = base[i] \o ms /\ subUp[i] /\ Up(i))
             /\ i # x => outq'[i] = outq[i]
             /\ outq'[i] = outq[i] \/ (i = x /\ outq'[i] = Queue(x, ms))
  BY <1>1, <1>2 DEF Hears
<1>4. ASSUME NEW i \in Insts
      PROVE  ToSet(net'[i]) \subseteq ToSet(base[i]) \cup (IF i = x THEN {} ELSE ToSet(ms))
  <2>1. ToSet(base[i] \o ms) = ToSet(base[i]) \cup ToSet(ms)
    BY ConcatSet
  <2> QED
    BY <1>3, <2>1
<1>5. ASSUME NEW i \in Insts
      PROVE  ToSet(outq'[i]) \subseteq ToSet(outq[i]) \cup (IF i = x THEN ToSet(ms) ELSE {})
  <2>1. ToSet(Queue(x, ms)) \subseteq ToSet(outq[x]) \cup ToSet(ms)
    BY <1>1, QueueSet
  <2> QED
    BY <1>3, <2>1
<1>6. pubUp[x] => outq' = outq
  BY <1>2
<1>7. ~pubUp[x] => net' = base /\ outq'[x] = Queue(x, ms)
  <2>1. [j \in Insts |-> base[j]] = base
    OBVIOUS
  <2> QED
    BY <1>1, <1>2, <2>1
<1> QED
  BY <1>3, <1>4, <1>5, <1>6, <1>7

(* A message that i hears of, or that waits, takes its place at the end.   *)
PairMoved(base, x, ms, i, j) ==
  \/ x # j /\ outq'[j] = outq[j] /\ (net'[i] = base[i] \/ net'[i] = base[i] \o ms)
  \/ x = j /\ outq[j] = <<>> /\ outq'[j] = <<>> /\ net'[i] = base[i] \o ms
  \/ x = j /\ outq'[j] = outq[j] \o ms /\ net'[i] = base[i]
LEMMA PairPublished ==
  ASSUME TypeOK, LinksOK, NEW x \in Insts, NEW base \in [Insts -> Seq(Message)],
         NEW ms \in Seq(Message), ms # <<>>, PublishAfter(base, x, ms),
         NEW i \in Insts, NEW j \in Insts, i # j, Up(i), <<j, i>> \notin Unheard(x, ms)
  PROVE  PairMoved(base, x, ms, i, j)
<1>1. CASE x # j
  BY <1>1, Published DEF PairMoved
<1>2. CASE x = j /\ pubUp[j]
  <2>1. i \notin Deaf(j)
    BY <1>2 DEF Unheard
  <2>2. Hears(j, i)
    BY <2>1 DEF Deaf, Hears
  <2>3. net'[i] = base[i] \o ms
    BY <1>2, <2>2 DEF PublishAfter
  <2>4. outq[j] = <<>> /\ outq'[j] = <<>>
    BY <1>2, Published DEF LinksOK
  <2> QED
    BY <1>2, <2>3, <2>4 DEF PairMoved
<1>3. CASE x = j /\ ~pubUp[j]
  <2>1. ~(Over(j, ms) > 0)
    BY <1>3 DEF Unheard
  <2>2. outq'[j] = Queue(j, ms)
    BY <1>3, Published
  <2>3. Queue(j, ms) = outq[j] \o ms
    BY <2>1 DEF Queue
  <2> QED
    BY <1>3, <2>2, <2>3, Published DEF PairMoved
<1> QED
  BY <1>1, <1>2, <1>3

(* It asks for no answer: nothing that was on its way is lost.             *)
LEMMA CalmPair ==
  ASSUME TypeOK, LinksOK, NEW x \in Insts, NEW base \in [Insts -> Seq(Message)],
         NEW ms \in Seq(Message), ms # <<>>, PublishAfter(base, x, ms),
         NEW i \in Insts, NEW j \in Insts, i # j, Up(i), <<j, i>> \notin Unheard(x, ms),
         NEW A, NEW R, ToSet(ms) \cap A = {}
  PROVE  /\ Answered(base[i], outq[j], A, R) => Answered(net'[i], outq'[j], A, R)
         /\ Has(base[i], outq[j], R) => Has(net'[i], outq'[j], R)
<1>1. base[i] \in Seq(Message) /\ outq[j] \in Seq(Message)
  BY DEF TypeOK
<1>2. /\ Answered(base[i], outq[j], A, R) =>
           /\ Answered(base[i] \o ms, outq[j], A, R)
           /\ Answered(base[i], outq[j] \o ms, A, R)
      /\ Has(base[i], outq[j], R) =>
           Has(base[i] \o ms, outq[j], R) /\ Has(base[i], outq[j] \o ms, R)
  BY <1>1, HarmlessAnswered
<1>3. PairMoved(base, x, ms, i, j)
  BY PairPublished
<1>4. \/ outq'[j] = outq[j] /\ (net'[i] = base[i] \/ net'[i] = base[i] \o ms)
      \/ outq'[j] = outq[j] \o ms /\ net'[i] = base[i]
  BY <1>3 DEF PairMoved
<1> QED
  BY <1>2, <1>4

(* It answers everything j said before: nothing else is needed.            *)
LEMMA SettledPair ==
  ASSUME TypeOK, LinksOK, NEW j \in Insts, NEW base \in [Insts -> Seq(Message)],
         NEW ms \in Seq(Message), ms # <<>>, PublishAfter(base, j, ms),
         NEW i \in Insts, i # j, Up(i), <<j, i>> \notin Unheard(j, ms),
         NEW A, NEW R, Ends(ms, A, R), NEW r \in DOMAIN ms, ms[r] \in R
  PROVE  Answered(net'[i], outq'[j], A, R) /\ Has(net'[i], outq'[j], R)
<1>1. base[i] \in Seq(Message) /\ outq[j] \in Seq(Message)
  BY DEF TypeOK
<1>2. /\ Answered(base[i] \o ms, <<>>, A, R) /\ Has(base[i] \o ms, <<>>, R)
      /\ Answered(base[i], outq[j] \o ms, A, R) /\ Has(base[i], outq[j] \o ms, R)
  BY <1>1, SettledAnswered
<1>3. PairMoved(base, j, ms, i, j)
  BY PairPublished
<1> QED
  BY <1>2, <1>3 DEF PairMoved

(* What is said is said by who says it, and an eviction was noted.         *)
Sane(x, m) == m.from = x /\ m.t # "bye" /\ (m.t = "evict" => m.id \in moved')

LEMMA WiredPublished ==
  ASSUME TypeOK, LinksOK, QueueOK, NEW x \in Insts, Up(x), NEW base \in [Insts -> Seq(Message)],
         NEW ms \in Seq(Message), PublishAfter(base, x, ms),
         NetOK, \A i \in Insts : ToSet(base[i]) \subseteq ToSet(net[i]) /\ (net[i] = <<>> => base[i] = <<>>),
         UNCHANGED <<inst, pubUp>>, moved \subseteq moved',
         \A i \in Insts : (~subUp'[i] => ~subUp[i]) /\ (~Up(i) => ~subUp'[i]),
         \A m \in ToSet(ms) : Sane(x, m)
  PROVE  NetOK' /\ QueueOK' /\ LinksOK'
<1>1. ASSUME NEW i \in Insts, NEW m \in ToSet(net'[i])
      PROVE  /\ m.from # i /\ inst[m.from] # "off"
             /\ m.t = "bye" => inst[m.from] # "up"
             /\ m.t = "evict" => m.id \in moved'
  <2>1. CASE m \in ToSet(net[i])
    BY <2>1 DEF NetOK, Up
  <2>2. CASE i # x /\ m \in ToSet(ms)
    BY <2>2 DEF Sane, Up
  <2> QED
    BY <2>1, <2>2, Published
<1>2. NetOK'
  BY <1>1 DEF NetOK, Up
<1>3. QueueOK'
  <2> SUFFICES ASSUME NEW i \in Insts, NEW m \in ToSet(outq'[i])
               PROVE  m.from = i /\ m.t # "bye" /\ (m.t = "evict" => m.id \in moved')
    BY DEF QueueOK
  <2>1. m \in ToSet(outq[i]) \/ (i = x /\ m \in ToSet(ms))
    BY Published
  <2> QED
    BY <2>1 DEF QueueOK, Sane
<1>4. LinksOK'
  <2> SUFFICES ASSUME NEW i \in Insts
               PROVE  /\ pubUp[i] => outq'[i] = <<>>
                      /\ ~subUp'[i] => net'[i] = <<>>
                      /\ ~Up(i) => ~pubUp[i] /\ ~subUp'[i] /\ outq'[i] = <<>>
    BY DEF LinksOK, Up
  <2>1. pubUp[i] => outq'[i] = <<>>
    BY Published DEF LinksOK
  <2>2. ~subUp'[i] => net'[i] = <<>>
    BY Published DEF LinksOK
  <2>3. ~Up(i) => ~pubUp[i] /\ ~subUp'[i] /\ outq'[i] = <<>>
    BY Published DEF LinksOK
  <2> QED
    BY <2>1, <2>2, <2>3
<1> QED
  BY <1>2, <1>3, <1>4

(* Nobody is somewhere else by what is said.                               *)
LEMMA OnePublished ==
  ASSUME TypeOK, LinksOK, OnePlace, NEW x \in Insts, NEW base \in [Insts -> Seq(Message)],
         NEW ms \in Seq(Message), PublishAfter(base, x, ms),
         \A i \in Insts : ToSet(base[i]) \subseteq ToSet(net[i]),
         moved \subseteq moved', \A i \in Insts : DOMAIN local'[i] \subseteq DOMAIN local[i],
         \A m \in ToSet(ms), p \in Ids : Places(m, p) => m.from = x /\ p \in DOMAIN local[x]
  PROVE  OnePlace'
<1> SUFFICES ASSUME NEW j \in Insts, NEW p \in DOMAIN local'[j], p \notin moved'
             PROVE  Alone(j, p)'
  BY DEF OnePlace
<1>1. p \in DOMAIN local[j] /\ p \notin moved /\ Alone(j, p)
  BY DEF OnePlace
<1>2. p \in Ids
  BY <1>1, MembersViews, MapsOut DEF TypeOK
<1>3. ASSUME NEW k \in Insts, NEW m \in ToSet(net'[k]) \cup ToSet(outq'[k]), Places(m, p)
      PROVE  m.from = j
  <2>1. m \in ToSet(net[k]) \cup ToSet(outq[k]) \/ m \in ToSet(ms)
    BY Published
  <2>2. CASE m \in ToSet(ms)
    <3>1. m.from = x /\ p \in DOMAIN local[x]
      BY <1>2, <1>3, <2>2
    <3> QED
      BY <1>1, <3>1 DEF Alone
  <2> QED
    BY <1>1, <1>3, <2>1, <2>2 DEF Alone
<1>4. \A m : Places(m, p)' <=> Places(m, p)
  BY DEF Places
<1> QED
  BY <1>1, <1>3, <1>4 DEF Alone

LEMMA EndedPublished ==
  ASSUME TypeOK, LinksOK, NEW x \in Insts, NEW base \in [Insts -> Seq(Message)],
         NEW ms \in Seq(Message), PublishAfter(base, x, ms), NEW j \in Insts, NEW A, NEW R
  PROVE  /\ Ends(outq[j], A, R) /\ (x = j => ToSet(ms) \cap A = {}) => Ends(outq'[j], A, R)
         /\ \A r \in DOMAIN ms :
              Ends(ms, A, R) /\ ms[r] \in R /\ x = j => Ends(outq'[j], A, R)
<1>1. outq[j] \in Seq(Message)
  BY DEF TypeOK
<1>2. \A s \in Seq(Message) : s = <<>> => Ends(s, A, R)
  BY DEF Ends
<1>3. CASE x # j
  BY <1>3, Published
<1>4. CASE x = j /\ pubUp[j]
  <2>1. outq'[j] = <<>>
    BY <1>4, Published DEF LinksOK
  <2> QED
    BY <1>4, <2>1 DEF Ends
<1>5. CASE x = j /\ ~pubUp[j]
  <2>1. outq'[j] = Queue(j, ms)
    BY <1>5, Published
  <2>2. Ends(outq[j], A, R) /\ ToSet(ms) \cap A = {} => Ends(outq[j] \o ms, A, R)
    BY <1>1, HarmlessAnswered
  <2>3. \A r \in DOMAIN ms : Ends(ms, A, R) /\ ms[r] \in R => Ends(outq[j] \o ms, A, R)
    BY <1>1, SettledAnswered
  <2>4. Ends(outq[j] \o ms, A, R) => Ends(Queue(j, ms), A, R)
    BY <1>1, QueueEnds
  <2> QED
    BY <1>5, <2>1, <2>2, <2>3, <2>4
<1> QED
  BY <1>3, <1>4, <1>5

----------------------------------------------------------------------------
(* The parts of the invariant, after a step.                               *)

LEMMA SetsFixed ==
  ASSUME NEW i \in Insts, NEW j \in Insts, NEW p \in Ids
  PROVE  /\ Adding(j, p)' = Adding(j, p) /\ AddingTo(j, i, p)' = AddingTo(j, i, p)
         /\ Removing(j, p)' = Removing(j, p)
BY DEF Adding, AddingTo, Removing, Places

LEMMA PartsNext ==
  ASSUME NEW i \in Insts, NEW j \in Insts, NEW p \in Ids
  PROVE  /\ Unlisted(i, j, p)' <=>
              /\ Answered(net'[i], outq'[j], Adding(j, p), Removing(j, p))
              /\ p \in Listed(i, j)' => Has(net'[i], outq'[j], Removing(j, p))
         /\ Reached(i, j, p)' <=>
              /\ Answered(net'[i], outq'[j], Removing(j, p), AddingTo(j, i, p))
              /\ p \notin Listed(i, j)' => Has(net'[i], outq'[j], AddingTo(j, i, p))
         /\ Absent(j, p)' <=> inst'[j] = "up" /\ p \notin DOMAIN local'[j] /\ p \notin moved'
         /\ Present(j, p)' <=> p \in DOMAIN local'[j] /\ p \notin moved'
         /\ Ends(outq[j], Adding(j, p), Removing(j, p))' <=> Ends(outq'[j], Adding(j, p), Removing(j, p))
         /\ Listed(i, j)' = {x \in DOMAIN remote'[i] : remote'[i][x].inst = j}
BY SetsFixed DEF Unlisted, Reached, Absent, Present, Up, Answered, Has, Ends, Listed

(* A message that places nobody does not add, one that is no leave does    *)
(* not remove.                                                             *)
LEMMA Harmless ==
  ASSUME NEW ms \in Seq(Message), NEW i \in Insts, NEW j \in Insts, NEW p \in Ids
  PROVE  /\ (\A m \in ToSet(ms) : ~Places(m, p)) => ToSet(ms) \cap Adding(j, p) = {}
         /\ (\A m \in ToSet(ms) : m.t # "leave") => ToSet(ms) \cap Removing(j, p) = {}
BY DEF Adding, Removing

----------------------------------------------------------------------------
(* What a publication does for one pair of instances and one id.           *)

LEMMA CalmUnlisted ==
  ASSUME TypeOK, LinksOK, NEW x \in Insts, NEW base \in [Insts -> Seq(Message)],
         NEW ms \in Seq(Message), ms # <<>>, PublishAfter(base, x, ms),
         NEW i \in Insts, NEW j \in Insts, i # j, Up(i), <<j, i>> \notin Unheard(x, ms), NEW p \in Ids,
         \A m \in ToSet(ms) : m.from = x, x = j => \A m \in ToSet(ms) : ~Places(m, p),
         Answered(base[i], outq[j], Adding(j, p), Removing(j, p)),
         p \in Listed(i, j)' => Has(base[i], outq[j], Removing(j, p))
  PROVE  Unlisted(i, j, p)'
<1> DEFINE A == Adding(j, p)
           R == Removing(j, p)
<1>1. ToSet(ms) \cap A = {}
  BY DEF Adding
<1> HIDE DEF A, R
<1>2. /\ Answered(base[i], outq[j], A, R) => Answered(net'[i], outq'[j], A, R)
      /\ Has(base[i], outq[j], R) => Has(net'[i], outq'[j], R)
  BY <1>1, CalmPair
<1> QED
  BY <1>2, PartsNext DEF A, R

LEMMA CalmReached ==
  ASSUME TypeOK, LinksOK, NEW x \in Insts, NEW base \in [Insts -> Seq(Message)],
         NEW ms \in Seq(Message), ms # <<>>, PublishAfter(base, x, ms),
         NEW i \in Insts, NEW j \in Insts, i # j, Up(i), <<j, i>> \notin Unheard(x, ms), NEW p \in Ids,
         \A m \in ToSet(ms) : m.from = x,
         x = j => \A m \in ToSet(ms) : m.t = "leave" => m.id # p,
         Answered(base[i], outq[j], Removing(j, p), AddingTo(j, i, p)),
         p \notin Listed(i, j)' => Has(base[i], outq[j], AddingTo(j, i, p))
  PROVE  Reached(i, j, p)'
<1> DEFINE A == Removing(j, p)
           R == AddingTo(j, i, p)
<1>1. ToSet(ms) \cap A = {}
  BY DEF Removing
<1> HIDE DEF A, R
<1>2. /\ Answered(base[i], outq[j], A, R) => Answered(net'[i], outq'[j], A, R)
      /\ Has(base[i], outq[j], R) => Has(net'[i], outq'[j], R)
  BY <1>1, CalmPair
<1> QED
  BY <1>2, PartsNext DEF A, R

LEMMA SettledUnlisted ==
  ASSUME TypeOK, LinksOK, NEW j \in Insts, NEW base \in [Insts -> Seq(Message)],
         NEW ms \in Seq(Message), PublishAfter(base, j, ms),
         NEW i \in Insts, i # j, Up(i), <<j, i>> \notin Unheard(j, ms), NEW p \in Ids,
         Ends(ms, Adding(j, p), Removing(j, p)), NEW r \in DOMAIN ms, ms[r] \in Removing(j, p)
  PROVE  Unlisted(i, j, p)'
<1> DEFINE A == Adding(j, p)
           R == Removing(j, p)
<1>1. Ends(ms, A, R) /\ ms[r] \in R /\ ms # <<>>
  OBVIOUS
<1> HIDE DEF A, R
<1>2. Answered(net'[i], outq'[j], A, R) /\ Has(net'[i], outq'[j], R)
  BY <1>1, SettledPair
<1> QED
  BY <1>2, PartsNext DEF A, R

LEMMA SettledReached ==
  ASSUME TypeOK, LinksOK, NEW j \in Insts, NEW base \in [Insts -> Seq(Message)],
         NEW ms \in Seq(Message), PublishAfter(base, j, ms),
         NEW i \in Insts, i # j, Up(i), <<j, i>> \notin Unheard(j, ms), NEW p \in Ids,
         \A m \in ToSet(ms) : m.t # "leave", NEW r \in DOMAIN ms, ms[r] \in AddingTo(j, i, p)
  PROVE  Reached(i, j, p)'
<1> DEFINE A == Removing(j, p)
           R == AddingTo(j, i, p)
<1>1. Ends(ms, A, R) /\ ms[r] \in R /\ ms # <<>>
  BY DEF Ends, Removing, ToSet
<1> HIDE DEF A, R
<1>2. Answered(net'[i], outq'[j], A, R) /\ Has(net'[i], outq'[j], R)
  BY <1>1, SettledPair
<1> QED
  BY <1>2, PartsNext DEF A, R

----------------------------------------------------------------------------
(* Publications that place nobody anew, and take nobody away.              *)

LEMMA CalmKnown ==
  ASSUME TypeOK, Known, NEW x \in Insts, Up(x), NEW ms \in Seq(Message), ms # <<>>,
         Publish(x, ms), Told(x, ms), UNCHANGED <<inst, local, remote, pubUp, moved>>,
         \A i \in Insts : (~subUp'[i] => ~subUp[i]) /\ (~Up(i) => ~subUp'[i]),
         \A m \in ToSet(ms) : /\ m.from = x /\ m.t \notin {"bye", "evict", "leave"}
                              /\ \A p \in Ids : Places(m, p) => p \in DOMAIN local[x]
  PROVE  Known'
<1>1. PublishAfter(net, x, ms) /\ net \in [Insts -> Seq(Message)]
  BY DEF Publish, TypeOK
<1>2. NetOK /\ QueueOK /\ LinksOK /\ ListsOK
  BY DEF Known, Wired
<1>3. \A m \in ToSet(ms) : m.from = x /\ Sane(x, m)
  BY DEF Sane
<1>4. NetOK' /\ QueueOK' /\ LinksOK'
  BY <1>1, <1>2, <1>3, WiredPublished
<1>5. ListsOK'
  BY <1>2 DEF ListsOK, Up
<1>6. OnePlace'
  BY <1>1, <1>2, <1>3, OnePublished DEF Known
<1>7. QueueEnded'
  <2> SUFFICES ASSUME NEW j \in Insts, NEW p \in Ids, Absent(j, p)'
               PROVE  Ends(outq'[j], Adding(j, p), Removing(j, p))
    BY PartsNext DEF QueueEnded
  <2>1. Absent(j, p)
    BY PartsNext DEF Absent, Up
  <2>2. Ends(outq[j], Adding(j, p), Removing(j, p))
    BY <2>1 DEF Known, QueueEnded
  <2>3. x = j => ToSet(ms) \cap Adding(j, p) = {}
    BY <2>1 DEF Absent, Adding
  <2> QED
    BY <1>1, <1>2, <2>2, <2>3, EndedPublished
<1>8. /\ \A i, j \in Insts : Listed(i, j)' = Listed(i, j) /\ (Up(i)' <=> Up(i))
      /\ \A i, j \in Insts : \A p \in Ids : (Absent(j, p)' <=> Absent(j, p)) /\ (Present(j, p)' <=> Present(j, p))
  BY DEF Listed, Up, Absent, Present
<1>9. NoGhosts'
  <2> SUFFICES ASSUME NEW i \in Insts, NEW j \in Insts, NEW p \in Ids,
                      i # j, Up(i), <<j, i>> \notin missed', Absent(j, p)
               PROVE  Unlisted(i, j, p)'
    BY <1>8 DEF NoGhosts
  <2>1. <<j, i>> \notin missed /\ <<j, i>> \notin Unheard(x, ms)
    BY DEF Told
  <2>2. Unlisted(i, j, p)
    BY <2>1 DEF Known, NoGhosts
  <2>3. x = j => \A m \in ToSet(ms) : ~Places(m, p)
    BY DEF Absent
  <2> QED
    BY <1>1, <1>2, <1>3, <1>8, <2>1, <2>2, <2>3, CalmUnlisted DEF Unlisted
<1>10. AllReached'
  <2> SUFFICES ASSUME NEW i \in Insts, NEW j \in Insts, NEW p \in Ids,
                      i # j, Up(i), Up(j), <<j, i>> \notin gap', Present(j, p)
               PROVE  Reached(i, j, p)'
    BY <1>8 DEF AllReached
  <2>1. <<j, i>> \notin gap /\ <<j, i>> \notin Unheard(x, ms)
    BY DEF Told
  <2>2. Reached(i, j, p)
    BY <2>1 DEF Known, AllReached
  <2> QED
    BY <1>1, <1>2, <1>3, <1>8, <2>1, <2>2, CalmReached DEF Reached
<1> QED
  BY <1>4, <1>5, <1>6, <1>7, <1>9, <1>10 DEF Known, Wired

(* A sequence of one message.                                              *)
LEMMA Single ==
  ASSUME NEW m \in Message
  PROVE  /\ <<m>> \in Seq(Message) /\ <<m>> # <<>> /\ ToSet(<<m>>) = {m}
         /\ 1 \in DOMAIN <<m>> /\ <<m>>[1] = m
BY DEF ToSet

LEMMA SubUpKnown ==
  ASSUME TypeOK, Known, NEW i \in Insts, SubUp(i)
  PROVE  Known'
<1> DEFINE m == Hello(i)
<1>1. m \in Message
  BY MessageIn
<1>2. /\ m.from = i /\ m.t \notin {"bye", "evict", "leave"}
      /\ \A p \in Ids : ~Places(m, p)
  BY DEF Hello, Places
<1>3. Up(i) /\ Publish(i, <<m>>) /\ Told(i, <<m>>) /\ UNCHANGED <<inst, local, remote, pubUp, moved>>
  BY DEF SubUp
<1>4. subUp' = [subUp EXCEPT ![i] = TRUE] /\ subUp \in [Insts -> BOOLEAN]
  BY DEF SubUp, TypeOK
<1>5. \A k \in Insts : (~subUp'[k] => ~subUp[k]) /\ (~Up(k) => ~subUp'[k])
  BY <1>3, <1>4 DEF Known, Wired, LinksOK
<1> HIDE DEF m
<1>6. \A n \in ToSet(<<m>>) : /\ n.from = i /\ n.t \notin {"bye", "evict", "leave"}
                              /\ \A p \in Ids : Places(n, p) => p \in DOMAIN local[i]
  BY <1>1, <1>2, Single
<1> QED
  BY <1>1, <1>3, <1>5, <1>6, Single, CalmKnown

LEMMA UpdateKnown ==
  ASSUME TypeOK, Known, NEW i \in Insts, NEW id \in Ids, Update(i, id)
  PROVE  Known'
<1> DEFINE m == [t |-> "update", from |-> i, id |-> id, gen |-> local[i][id]]
<1>1. m \in Message
  <2>1. local[i] \in Maps(Gens)
    BY MembersViews DEF TypeOK
  <2>2. local[i] \in [DOMAIN local[i] -> Gens] /\ id \in DOMAIN local[i]
    BY <2>1, MapsOut DEF Update
  <2> QED
    BY <2>2, MessageIn
<1>2. /\ m.from = i /\ m.t \notin {"bye", "evict", "leave"}
      /\ \A p \in Ids : Places(m, p) => p \in DOMAIN local[i]
  BY DEF Update, Places
<1>3. Up(i) /\ Publish(i, <<m>>) /\ Told(i, <<m>>) /\ UNCHANGED <<inst, local, remote, pubUp, subUp, moved>>
  BY DEF Update
<1>5. \A k \in Insts : (~subUp'[k] => ~subUp[k]) /\ (~Up(k) => ~subUp'[k])
  BY <1>3 DEF Known, Wired, LinksOK
<1> HIDE DEF m
<1>6. \A n \in ToSet(<<m>>) : /\ n.from = i /\ n.t \notin {"bye", "evict", "leave"}
                              /\ \A p \in Ids : Places(n, p) => p \in DOMAIN local[i]
  BY <1>1, <1>2, Single
<1> QED
  BY <1>1, <1>3, <1>5, <1>6, Single, CalmKnown

LEMMA ForgetKnown ==
  ASSUME TypeOK, Known, NEW i \in Insts, NEW id \in Ids, Forget(i, id)
  PROVE  Known'
<1> DEFINE m == Left(i, id)
<1>1. m \in Message
  BY MessageIn
<1>2. /\ m.from = i /\ m.t \notin {"bye", "evict", "leave"}
      /\ \A p \in Ids : Places(m, p) => p \in DOMAIN local[i]
  BY DEF Left, Places
<1>3. Up(i) /\ Publish(i, <<m>>) /\ Told(i, <<m>>) /\ UNCHANGED <<inst, local, remote, pubUp, subUp, moved>>
  BY DEF Forget
<1>5. \A k \in Insts : (~subUp'[k] => ~subUp[k]) /\ (~Up(k) => ~subUp'[k])
  BY <1>3 DEF Known, Wired, LinksOK
<1> HIDE DEF m
<1>6. \A n \in ToSet(<<m>>) : /\ n.from = i /\ n.t \notin {"bye", "evict", "leave"}
                              /\ \A p \in Ids : Places(n, p) => p \in DOMAIN local[i]
  BY <1>1, <1>2, Single
<1> QED
  BY <1>1, <1>3, <1>5, <1>6, Single, CalmKnown

(* A member goes: its leave answers all that was said of it.               *)
LEMMA GoesKnown ==
  ASSUME TypeOK, Known, NEW x \in Insts, Up(x), NEW id \in DOMAIN local[x], NEW h \in Gens \cup {NoGen},
         Publish(x, <<Leaving(x, id, h)>>), Told(x, <<Leaving(x, id, h)>>),
         local' = [local EXCEPT ![x] = Without(@, {id})],
         UNCHANGED <<inst, remote, pubUp, subUp, moved>>
  PROVE  Known'
<1> DEFINE m == Leaving(x, id, h)
           ms == <<m>>
<1>0. id \in Ids /\ local \in [Insts -> Members]
  BY MembersViews, MapsOut DEF TypeOK
<1>1. m \in Message
  BY <1>0, MessageIn
<1>2. m.from = x /\ m.t = "leave" /\ m.id = id /\ \A p : ~Places(m, p)
  BY DEF Leaving, Places
<1>3. Publish(x, ms) /\ Told(x, ms)
  OBVIOUS
<1> HIDE DEF m
<1>4. /\ ms \in Seq(Message) /\ ms # <<>> /\ 1 \in DOMAIN ms /\ ms[1] = m
      /\ \A n \in ToSet(ms) : n = m
  BY <1>1, Single
<1>5. \A n \in ToSet(ms) : n.from = x /\ Sane(x, n) /\ \A p \in Ids : ~Places(n, p)
  BY <1>2, <1>4 DEF Sane
<1> HIDE DEF ms
<1>6. PublishAfter(net, x, ms) /\ net \in [Insts -> Seq(Message)]
  BY <1>3 DEF Publish, TypeOK
<1>7. NetOK /\ QueueOK /\ LinksOK /\ ListsOK
  BY DEF Known, Wired
<1>8. DOMAIN local'[x] = DOMAIN local[x] \ {id} /\ \A k \in Insts : k # x => local'[k] = local[k]
  BY <1>0 DEF Without
<1>9. NetOK' /\ QueueOK' /\ LinksOK'
  BY <1>4, <1>5, <1>6, <1>7, WiredPublished DEF LinksOK
<1>10. ListsOK'
  BY <1>7, <1>8 DEF ListsOK, Up
<1>11. OnePlace'
  <2>1. \A k \in Insts : DOMAIN local'[k] \subseteq DOMAIN local[k]
    BY <1>8
  <2> QED
    BY <1>4, <1>5, <1>6, <1>7, <2>1, OnePublished DEF Known
<1>12. \A p \in Ids : ms[1] \in Removing(x, id) /\ Ends(ms, Adding(x, p), Removing(x, id))
  BY <1>1, <1>2, <1>4, <1>5 DEF Removing, Adding, Ends, ToSet
<1>13. QueueEnded'
  <2> SUFFICES ASSUME NEW j \in Insts, NEW p \in Ids, Absent(j, p)'
               PROVE  Ends(outq'[j], Adding(j, p), Removing(j, p))
    BY PartsNext DEF QueueEnded
  <2>0. inst[j] = "up" /\ p \notin DOMAIN local'[j] /\ p \notin moved
    BY PartsNext
  <2>1. CASE j = x /\ p = id
    BY <1>4, <1>6, <1>7, <1>12, <2>1, EndedPublished
  <2>2. CASE ~(j = x /\ p = id)
    <3>1. Absent(j, p)
      BY <1>8, <2>0, <2>2 DEF Absent, Up
    <3>2. Ends(outq[j], Adding(j, p), Removing(j, p))
      BY <3>1 DEF Known, QueueEnded
    <3>3. ToSet(ms) \cap Adding(j, p) = {}
      BY <1>5 DEF Adding
    <3> QED
      BY <1>4, <1>6, <1>7, <3>2, <3>3, EndedPublished
  <2> QED
    BY <2>1, <2>2
<1>14. \A i, j \in Insts : Listed(i, j)' = Listed(i, j) /\ (Up(i)' <=> Up(i))
  BY DEF Listed, Up
<1>15. NoGhosts'
  <2> SUFFICES ASSUME NEW i \in Insts, NEW j \in Insts, NEW p \in Ids,
                      i # j, Up(i), <<j, i>> \notin missed', Absent(j, p)'
               PROVE  Unlisted(i, j, p)'
    BY <1>14 DEF NoGhosts
  <2>0. inst[j] = "up" /\ p \notin DOMAIN local'[j] /\ p \notin moved
    BY PartsNext
  <2>1. <<j, i>> \notin missed /\ <<j, i>> \notin Unheard(x, ms)
    BY <1>3 DEF Told
  <2>2. CASE j = x /\ p = id
    BY <1>4, <1>6, <1>7, <1>12, <2>1, <2>2, SettledUnlisted
  <2>3. CASE ~(j = x /\ p = id)
    <3>1. Absent(j, p)
      BY <1>8, <2>0, <2>3 DEF Absent, Up
    <3>2. Unlisted(i, j, p)
      BY <2>1, <3>1 DEF Known, NoGhosts
    <3> QED
      BY <1>4, <1>5, <1>6, <1>7, <1>14, <2>1, <3>2, CalmUnlisted DEF Unlisted
  <2> QED
    BY <2>2, <2>3
<1>16. AllReached'
  <2> SUFFICES ASSUME NEW i \in Insts, NEW j \in Insts, NEW p \in Ids,
                      i # j, Up(i), Up(j), <<j, i>> \notin gap', Present(j, p)'
               PROVE  Reached(i, j, p)'
    BY <1>14 DEF AllReached
  <2>0. p \in DOMAIN local'[j] /\ p \notin moved
    BY PartsNext
  <2>1. <<j, i>> \notin gap /\ <<j, i>> \notin Unheard(x, ms)
    BY <1>3 DEF Told
  <2>2. Present(j, p) /\ ~(j = x /\ p = id)
    BY <1>8, <2>0 DEF Present
  <2>3. Reached(i, j, p)
    BY <2>1, <2>2 DEF Known, AllReached
  <2>4. x = j => \A n \in ToSet(ms) : n.t = "leave" => n.id # p
    BY <1>2, <1>4, <2>2
  <2> QED
    BY <1>4, <1>5, <1>6, <1>7, <1>14, <2>1, <2>3, <2>4, CalmReached DEF Reached
<1> QED
  BY <1>9, <1>10, <1>11, <1>13, <1>15, <1>16 DEF Known, Wired

LEMMA LeaveKnown ==
  ASSUME TypeOK, Known, NEW i \in Insts, NEW id \in Ids, Leave(i, id) \/ Lost(i, id)
  PROVE  Known'
<1>1. CASE Leave(i, id)
  <2>1. /\ Up(i) /\ id \in DOMAIN local[i] /\ NoGen \in Gens \cup {NoGen}
        /\ Publish(i, <<Leaving(i, id, NoGen)>>) /\ Told(i, <<Leaving(i, id, NoGen)>>)
        /\ local' = [local EXCEPT ![i] = Without(@, {id})]
        /\ UNCHANGED <<inst, remote, pubUp, subUp, moved>>
    BY <1>1 DEF Leave
  <2> QED
    BY <2>1, GoesKnown
<1>2. CASE Lost(i, id)
  <2>1. /\ Up(i) /\ id \in DOMAIN local[i]
        /\ Publish(i, <<Leaving(i, id, local[i][id])>>) /\ Told(i, <<Leaving(i, id, local[i][id])>>)
        /\ local' = [local EXCEPT ![i] = Without(@, {id})]
        /\ UNCHANGED <<inst, remote, pubUp, subUp, moved>>
    BY <1>2 DEF Lost
  <2>2. local[i] \in Maps(Gens)
    BY MembersViews DEF TypeOK
  <2>3. local[i][id] \in Gens \cup {NoGen}
    BY <2>1, <2>2, MapsOut
  <2> QED
    BY <2>1, <2>3, GoesKnown
<1> QED
  BY <1>1, <1>2

(* A member comes: that it joined is the last thing said of it.            *)
LEMMA ComesKnown ==
  ASSUME TypeOK, Known, NEW x \in Insts, Up(x), NEW id \in Ids, NEW ms \in Seq(Message),
         Publish(x, ms), Told(x, ms), NEW g,
         local' = [local EXCEPT ![x] = Put(@, id, g)],
         UNCHANGED <<inst, pubUp, subUp>>, moved' = moved \/ moved' = moved \cup {id},
         id \notin moved' => ~Claimed(x, id),
         remote' = remote \/ (id \in moved' /\ remote' = [remote EXCEPT ![x] = Without(@, {id})]),
         \A m \in ToSet(ms) : /\ m.from = x /\ m.t \in {"evict", "left", "join"}
                              /\ m.t \in {"evict", "join"} => m.id = id
                              /\ m.t = "evict" => id \in moved',
         NEW r \in DOMAIN ms, ms[r].t = "join"
  PROVE  Known'
<1>0. /\ local \in [Insts -> Members] /\ remote \in [Insts -> Views]
      /\ \A j \in Insts : DOMAIN local[j] \subseteq Ids
  BY MembersViews, MapsOut DEF TypeOK
<1>1. PublishAfter(net, x, ms) /\ net \in [Insts -> Seq(Message)] /\ ms # <<>>
  BY DEF Publish, TypeOK
<1>2. NetOK /\ QueueOK /\ LinksOK /\ ListsOK
  BY DEF Known, Wired
<1>3. \A m \in ToSet(ms) : /\ m.from = x /\ Sane(x, m) /\ m.t # "leave"
                           /\ \A p \in Ids : Places(m, p) => p = id
  BY DEF Sane, Places
<1>4. DOMAIN local'[x] = DOMAIN local[x] \cup {id} /\ \A k \in Insts : k # x => local'[k] = local[k]
  BY <1>0 DEF Put
<1>5. /\ \A i \in Insts : \A p \in DOMAIN remote'[i] : p \in DOMAIN remote[i] /\ remote'[i][p] = remote[i][p]
      /\ \A i \in Insts : \A p \in DOMAIN remote[i] : p \notin moved' => p \in DOMAIN remote'[i]
      /\ \A i \in Insts : i # x => remote'[i] = remote[i]
  BY <1>0 DEF Without
<1>6. /\ \A i, j \in Insts : \A p : p \notin moved' => (p \in Listed(i, j)' <=> p \in Listed(i, j))
      /\ moved \subseteq moved' /\ \A i \in Insts : Up(i)' <=> Up(i)
  <2>1. \A i, j \in Insts : Listed(i, j)' = {p \in DOMAIN remote'[i] : remote'[i][p].inst = j}
    BY DEF Listed
  <2>2. moved \subseteq moved' /\ \A i \in Insts : Up(i)' <=> Up(i)
    BY DEF Up
  <2> QED
    BY <1>5, <2>1, <2>2 DEF Listed
<1>7. NetOK' /\ QueueOK' /\ LinksOK'
  <2>1. \A i \in Insts : (~subUp'[i] => ~subUp[i]) /\ (~Up(i) => ~subUp'[i])
    BY <1>2 DEF LinksOK
  <2> QED
    BY <1>1, <1>2, <1>3, <1>6, <2>1, WiredPublished
<1>8. ListsOK'
  <2>1. \A i \in Insts : ~Up(i)' => local'[i] = Empty /\ remote'[i] = Empty
    BY <1>2, <1>4, <1>5, <1>6 DEF ListsOK
  <2>2. \A i \in Insts : \A p \in DOMAIN remote'[i] : inst[remote'[i][p].inst] # "off"
    BY <1>2, <1>5 DEF ListsOK
  <2> QED
    BY <2>1, <2>2 DEF ListsOK
<1>9. OnePlace'
  <2> SUFFICES ASSUME NEW j \in Insts, NEW p \in DOMAIN local'[j], p \notin moved'
               PROVE  Alone(j, p)'
    BY DEF OnePlace
  <2>0. p \in Ids
    BY <1>0, <1>4
  <2>1. \A m : Places(m, p)' <=> Places(m, p)
    BY DEF Places
  <2>2. /\ \A k \in Insts : k # j => p \notin DOMAIN local'[k]
        /\ \A k \in Insts : \A m \in ToSet(net[k]) \cup ToSet(outq[k]) : Places(m, p) => m.from = j
        /\ p = id => j = x
    <3>1. CASE p = id
      <4>1. ~Claimed(x, p)
        BY <3>1
      <4>2. j = x
        BY <1>4, <4>1 DEF Claimed
      <4> QED
        BY <1>4, <4>1, <4>2 DEF Claimed
    <3>2. CASE p # id
      <4>1. p \in DOMAIN local[j] \ moved
        BY <1>4, <1>6, <3>2
      <4>2. Alone(j, p)
        BY <4>1 DEF Known, OnePlace
      <4> QED
        BY <1>4, <3>2, <4>2 DEF Alone
    <3> QED
      BY <3>1, <3>2
  <2>3. ASSUME NEW k \in Insts, NEW m \in ToSet(net'[k]) \cup ToSet(outq'[k]), Places(m, p)
        PROVE  m.from = j
    <3>1. m \in ToSet(net[k]) \cup ToSet(outq[k]) \/ m \in ToSet(ms)
      BY <1>1, <1>2, Published
    <3> QED
      BY <1>3, <2>0, <2>2, <2>3, <3>1
  <2> QED
    BY <2>1, <2>2, <2>3 DEF Alone
<1>10. ASSUME NEW j \in Insts, NEW p \in Ids, Absent(j, p)'
       PROVE  Absent(j, p) /\ (x = j => \A m \in ToSet(ms) : ~Places(m, p))
  <2>1. inst[j] = "up" /\ p \notin DOMAIN local'[j] /\ p \notin moved'
    BY <1>10, PartsNext
  <2> QED
    BY <1>3, <1>4, <1>6, <2>1 DEF Absent, Up
<1>11. QueueEnded'
  <2> SUFFICES ASSUME NEW j \in Insts, NEW p \in Ids, Absent(j, p)'
               PROVE  Ends(outq'[j], Adding(j, p), Removing(j, p))
    BY PartsNext DEF QueueEnded
  <2>1. Ends(outq[j], Adding(j, p), Removing(j, p))
    BY <1>10 DEF Known, QueueEnded
  <2>2. x = j => ToSet(ms) \cap Adding(j, p) = {}
    BY <1>10 DEF Adding
  <2> QED
    BY <1>1, <1>2, <2>1, <2>2, EndedPublished
<1>12. NoGhosts'
  <2> SUFFICES ASSUME NEW i \in Insts, NEW j \in Insts, NEW p \in Ids,
                      i # j, Up(i), <<j, i>> \notin missed', Absent(j, p)'
               PROVE  Unlisted(i, j, p)'
    BY <1>6 DEF NoGhosts
  <2>1. <<j, i>> \notin missed /\ <<j, i>> \notin Unheard(x, ms)
    BY DEF Told
  <2>2. Unlisted(i, j, p) /\ p \notin moved'
    BY <1>10, <2>1, PartsNext DEF Known, NoGhosts
  <2> QED
    BY <1>1, <1>2, <1>3, <1>6, <1>10, <2>1, <2>2, CalmUnlisted DEF Unlisted
<1>13. AllReached'
  <2> SUFFICES ASSUME NEW i \in Insts, NEW j \in Insts, NEW p \in Ids,
                      i # j, Up(i), Up(j), <<j, i>> \notin gap', Present(j, p)'
               PROVE  Reached(i, j, p)'
    BY <1>6 DEF AllReached
  <2>0. p \in DOMAIN local'[j] /\ p \notin moved'
    BY PartsNext
  <2>1. <<j, i>> \notin gap /\ <<j, i>> \notin Unheard(x, ms)
    BY DEF Told
  <2>2. CASE j = x /\ p = id
    <3>1. ms[r] \in Message /\ ms[r] \in ToSet(ms)
      BY DEF ToSet
    <3>2. ms[r] \in AddingTo(x, i, id)
      BY <3>1 DEF AddingTo, Places
    <3>3. \A m \in ToSet(ms) : m.t # "leave"
      BY <1>3
    <3> QED
      BY <1>1, <1>2, <2>1, <2>2, <3>2, <3>3, SettledReached
  <2>3. CASE ~(j = x /\ p = id)
    <3>1. Present(j, p)
      BY <1>4, <1>6, <2>0, <2>3 DEF Present
    <3>2. Reached(i, j, p)
      BY <2>1, <3>1 DEF Known, AllReached
    <3> QED
      BY <1>1, <1>2, <1>3, <1>6, <2>0, <2>1, <3>2, CalmReached DEF Reached
  <2> QED
    BY <2>2, <2>3
<1> QED
  BY <1>7, <1>8, <1>9, <1>11, <1>12, <1>13 DEF Known, Wired

LEMMA JoinKnown ==
  ASSUME TypeOK, Known, NEW i \in Insts, NEW own \in Ids, NEW want \in Ids \cup {NoId},
         NEW secret \in Gens, NEW account \in Ids \cup {NoId}, Join(i, own, want, secret, account)
  PROVE  Known'
<1> DEFINE ok  == Granted(i, want, secret)
           id  == IF ok THEN want ELSE own
           out == ok /\ Elsewhere(i, want)
           old == account # NoId /\ account # id
           ev  == [t |-> "evict", from |-> i, to |-> remote[i][want].inst, id |-> want]
           ms1 == IF out THEN <<ev>> ELSE <<>>
           ms2 == IF old THEN <<Left(i, account)>> ELSE <<>>
           ms3 == <<Joined(i, id)>>
           ms  == ms1 \o ms2 \o ms3
           g   == joins + 1
<1>1. id \in Ids /\ g \in Gens /\ (out => id = want)
  BY ClusterAssumption DEF Join, TypeOK, Gens, Granted
<1>2. out => remote[i][want].inst \in Insts
  <2>1. remote[i] \in Maps(View)
    BY MembersViews DEF TypeOK
  <2>2. remote[i] \in [DOMAIN remote[i] -> View]
    BY <2>1, MapsOut
  <2> QED
    BY <2>2 DEF Elsewhere, View
<1>3. ev.t = "evict" /\ ev.from = i /\ ev.id = want
  OBVIOUS
<1>4. out => ev \in Message
  BY <1>1, <1>2, MessageIn
<1>5. /\ Publish(i, ms) /\ Told(i, ms) /\ Up(i)
      /\ local' = [local EXCEPT ![i] = Put(@, id, g)]
      /\ moved' = IF out \/ Claimed(i, id) THEN moved \cup {id} ELSE moved
      /\ UNCHANGED <<inst, pubUp, subUp>>
  BY DEF Join
<1>6. remote' = IF out THEN [remote EXCEPT ![i] = Without(@, {want})] ELSE remote
  <2>1. remote' = [remote EXCEPT ![i] = IF out THEN Without(@, {want}) ELSE @]
    BY DEF Join
  <2>2. remote \in [Insts -> Views]
    BY DEF TypeOK
  <2> QED
    BY <2>1, <2>2
<1> HIDE DEF ok, ev, g
<1>7. Joined(i, id) \in Message /\ Joined(i, id).t = "join" /\ Joined(i, id).from = i /\ Joined(i, id).id = id
  BY <1>1, MessageIn DEF Joined, g
<1>8. old => /\ Left(i, account) \in Message
             /\ Left(i, account).t = "left" /\ Left(i, account).from = i
  BY MessageIn DEF Left
<1> HIDE DEF id, out, old
<1>9. /\ ms1 \in Seq(Message) /\ (\A m \in ToSet(ms1) : out /\ m = ev)
      /\ ms2 \in Seq(Message) /\ (\A m \in ToSet(ms2) : old /\ m = Left(i, account))
      /\ ms3 \in Seq(Message) /\ ToSet(ms3) = {Joined(i, id)} /\ 1 \in DOMAIN ms3 /\ ms3[1] = Joined(i, id)
  <2>1. <<>> \in Seq(Message) /\ ToSet(<<>>) = {}
    BY DEF ToSet
  <2>2. ms1 \in Seq(Message) /\ (\A m \in ToSet(ms1) : out /\ m = ev)
    <3>1. CASE out
      BY <1>4, <3>1, Single
    <3>2. CASE ~out
      BY <2>1, <3>2
    <3> QED
      BY <3>1, <3>2
  <2>3. ms2 \in Seq(Message) /\ (\A m \in ToSet(ms2) : old /\ m = Left(i, account))
    <3>1. CASE old
      BY <1>8, <3>1, Single
    <3>2. CASE ~old
      BY <2>1, <3>2
    <3> QED
      BY <3>1, <3>2
  <2> QED
    BY <1>7, <2>2, <2>3, Single
<1> HIDE DEF ms1, ms2, ms3
<1>10. /\ ms1 \o ms2 \in Seq(Message) /\ ToSet(ms1 \o ms2) = ToSet(ms1) \cup ToSet(ms2)
  BY <1>9, ConcatParts, ConcatSet
<1> DEFINE ms12 == ms1 \o ms2
<1>11. ms12 \in Seq(Message) /\ ToSet(ms12) = ToSet(ms1) \cup ToSet(ms2) /\ ms = ms12 \o ms3
  BY <1>10
<1> HIDE DEF ms, ms12
<1>12. /\ ms \in Seq(Message) /\ ToSet(ms) = ToSet(ms12) \cup ToSet(ms3)
       /\ Len(ms12) + 1 \in DOMAIN ms /\ ms[Len(ms12) + 1] = Joined(i, id)
  BY <1>9, <1>11, ConcatParts, ConcatSet
<1>13. \A m \in ToSet(ms) : /\ m.from = i /\ m.t \in {"evict", "left", "join"}
                            /\ m.t \in {"evict", "join"} => m.id = id
                            /\ m.t = "evict" => id \in moved'
  BY <1>1, <1>3, <1>5, <1>7, <1>8, <1>9, <1>11, <1>12
<1> DEFINE r == Len(ms12) + 1
<1>14. r \in DOMAIN ms /\ ms[r].t = "join"
  BY <1>7, <1>12
<1> HIDE DEF r
<1>15. /\ moved' = moved \/ moved' = moved \cup {id}
       /\ id \notin moved' => ~Claimed(i, id)
       /\ remote' = remote \/ (id \in moved' /\ remote' = [remote EXCEPT ![i] = Without(@, {id})])
  BY <1>1, <1>5, <1>6
<1> QED
  BY <1>1, <1>5, <1>12, <1>13, <1>14, <1>15, ComesKnown

----------------------------------------------------------------------------
(* An instance gives up the quiet ones.                                    *)

LEMMA DropListed ==
  ASSUME TypeOK, NEW i \in Insts, NEW S, DropInstances(i, S)
  PROVE  \A k, j \in Insts : Listed(k, j)' = IF k = i /\ j \in S THEN {} ELSE Listed(k, j)
<1> DEFINE theirs == {p \in DOMAIN remote[i] : remote[i][p].inst \in S}
           less   == Without(remote[i], theirs)
<1>1. remote' = [remote EXCEPT ![i] = less] /\ remote \in [Insts -> Views]
  BY DEF DropInstances, TypeOK
<1>2. DOMAIN less = DOMAIN remote[i] \ theirs /\ \A p \in DOMAIN less : less[p] = remote[i][p]
  BY DEF Without
<1>3. \A p : p \in theirs <=> p \in DOMAIN remote[i] /\ remote[i][p].inst \in S
  OBVIOUS
<1> HIDE DEF less, theirs
<1> SUFFICES ASSUME NEW k \in Insts, NEW j \in Insts
             PROVE  Listed(k, j)' = IF k = i /\ j \in S THEN {} ELSE Listed(k, j)
  OBVIOUS
<1>4. Listed(k, j)' = {p \in DOMAIN remote'[k] : remote'[k][p].inst = j}
  BY DEF Listed
<1>5. CASE k # i
  BY <1>1, <1>4, <1>5 DEF Listed
<1>6. CASE k = i
  <2>1. remote'[k] = less
    BY <1>1, <1>6
  <2> QED
    BY <1>2, <1>3, <1>4, <1>6, <2>1 DEF Listed
<1> QED
  BY <1>5, <1>6

LEMMA TickKnown ==
  ASSUME TypeOK, Known, NEW x \in Insts, Tick(x)
  PROVE  Known'
<1> DEFINE ms == <<Beat(x)>>
           Heardless == {k \in Quiet(x) : \A m \in ToSet(net[x]) : m.from # k}
<1>0. /\ Up(x) /\ Publish(x, ms) /\ DropInstances(x, Quiet(x))
      /\ missed' = (missed \ {<<j, x>> : j \in Heardless}) \cup Unheard(x, ms)
      /\ gap' = gap \cup (Quiet(x) \X {x}) \cup Unheard(x, ms)
      /\ UNCHANGED <<inst, local, pubUp, subUp, moved>>
  BY DEF Tick
<1>1. ms \in Seq(Message) /\ ms # <<>> /\ ToSet(ms) = {Beat(x)}
  BY MessageIn, Single
<1>2. \A m \in ToSet(ms) : m.from = x /\ Sane(x, m) /\ m.t # "leave" /\ \A p \in Ids : ~Places(m, p)
  BY <1>1 DEF Beat, Sane, Places
<1> HIDE DEF ms
<1>3. PublishAfter(net, x, ms) /\ net \in [Insts -> Seq(Message)]
  BY <1>0 DEF Publish, TypeOK
<1>4. NetOK /\ QueueOK /\ LinksOK /\ ListsOK
  BY DEF Known, Wired
<1>5. /\ \A i, j \in Insts : Listed(i, j)' = IF i = x /\ j \in Quiet(x) THEN {} ELSE Listed(i, j)
      /\ \A k \in Insts : \A p \in DOMAIN remote'[k] :
           p \in DOMAIN remote[k] /\ remote'[k][p] = remote[k][p]
      /\ \A k \in Insts : k # x => remote'[k] = remote[k]
  <2>1. \A k \in Insts : k # x => remote'[k] = remote[k]
    BY <1>0 DEF DropInstances, TypeOK
  <2> QED
    BY <1>0, <2>1, DropListed, DropKeeps
<1>6. NetOK' /\ QueueOK' /\ LinksOK'
  <2>1. \A i \in Insts : (~subUp'[i] => ~subUp[i]) /\ (~Up(i) => ~subUp'[i])
    BY <1>0, <1>4 DEF LinksOK
  <2> QED
    BY <1>0, <1>1, <1>2, <1>3, <1>4, <2>1, WiredPublished
<1>7. ListsOK'
  <2>1. \A i \in Insts : ~Up(i)' => local'[i] = Empty /\ remote'[i] = Empty
    BY <1>0, <1>4, <1>5 DEF ListsOK, Up
  <2>2. \A i \in Insts : \A p \in DOMAIN remote'[i] : inst'[remote'[i][p].inst] # "off"
    BY <1>0, <1>4, <1>5 DEF ListsOK
  <2> QED
    BY <2>1, <2>2 DEF ListsOK
<1>8. OnePlace'
  <2>1. \A k \in Insts : DOMAIN local'[k] \subseteq DOMAIN local[k]
    BY <1>0
  <2> QED
    BY <1>0, <1>1, <1>2, <1>3, <1>4, <2>1, OnePublished DEF Known
<1>9. /\ \A i \in Insts : Up(i)' <=> Up(i)
      /\ \A j \in Insts : \A p \in Ids :
           (Absent(j, p)' <=> Absent(j, p)) /\ (Present(j, p)' <=> Present(j, p))
  BY <1>0 DEF Up, Absent, Present
<1>10. QueueEnded'
  <2> SUFFICES ASSUME NEW j \in Insts, NEW p \in Ids, Absent(j, p)
               PROVE  Ends(outq'[j], Adding(j, p), Removing(j, p))
    BY <1>9, PartsNext DEF QueueEnded
  <2>1. Ends(outq[j], Adding(j, p), Removing(j, p))
    BY DEF Known, QueueEnded
  <2>2. ToSet(ms) \cap Adding(j, p) = {}
    BY <1>2 DEF Adding
  <2> QED
    BY <1>1, <1>3, <1>4, <2>1, <2>2, EndedPublished
<1>11. NoGhosts'
  <2> SUFFICES ASSUME NEW i \in Insts, NEW j \in Insts, NEW p \in Ids,
                      i # j, Up(i), <<j, i>> \notin missed', Absent(j, p)
               PROVE  Unlisted(i, j, p)'
    BY <1>9 DEF NoGhosts
  <2>1. <<j, i>> \notin Unheard(x, ms) /\ (<<j, i>> \in missed => i = x /\ j \in Heardless)
    BY <1>0
  <2>2. CASE <<j, i>> \notin missed
    <3>1. Unlisted(i, j, p)
      BY <2>2 DEF Known, NoGhosts
    <3>2. /\ Answered(net[i], outq[j], Adding(j, p), Removing(j, p))
          /\ p \in Listed(i, j)' => Has(net[i], outq[j], Removing(j, p))
      BY <1>5, <3>1 DEF Unlisted
    <3> QED
      BY <1>1, <1>2, <1>3, <1>4, <2>1, <3>2, CalmUnlisted
  <2>3. CASE i = x /\ j \in Heardless
    <3>1. Ends(outq[j], Adding(j, p), Removing(j, p))
      BY DEF Known, QueueEnded
    <3>2. \A k \in DOMAIN net[i] : net[i][k] \notin Adding(j, p)
      BY <2>3 DEF Adding, ToSet
    <3>3. Answered(net[i], outq[j], Adding(j, p), Removing(j, p))
      BY <3>1, <3>2 DEF Answered
    <3>4. p \notin Listed(i, j)'
      BY <1>5, <2>3
    <3> QED
      BY <1>1, <1>2, <1>3, <1>4, <2>1, <3>3, <3>4, CalmUnlisted
  <2> QED
    BY <2>1, <2>2, <2>3
<1>12. AllReached'
  <2> SUFFICES ASSUME NEW i \in Insts, NEW j \in Insts, NEW p \in Ids,
                      i # j, Up(i), Up(j), <<j, i>> \notin gap', Present(j, p)
               PROVE  Reached(i, j, p)'
    BY <1>9 DEF AllReached
  <2>1. <<j, i>> \notin gap /\ <<j, i>> \notin Unheard(x, ms) /\ ~(i = x /\ j \in Quiet(x))
    BY <1>0
  <2>2. Reached(i, j, p)
    BY <2>1 DEF Known, AllReached
  <2>3. Listed(i, j)' = Listed(i, j)
    BY <1>5, <2>1
  <2> QED
    BY <1>1, <1>2, <1>3, <1>4, <2>1, <2>2, <2>3, CalmReached DEF Reached
<1> QED
  BY <1>6, <1>7, <1>8, <1>10, <1>11, <1>12 DEF Known, Wired

----------------------------------------------------------------------------
(* Messages that are taken.                                                *)

(* What is left to take still answers what there was to answer.            *)
LEMMA TakenPair ==
  ASSUME TypeOK, NEW i \in Insts, net[i] # <<>>, NEW base, base = [net EXCEPT ![i] = Tail(@)],
         NEW k \in Insts, NEW j \in Insts, NEW A, NEW R, Answered(net[k], outq[j], A, R)
  PROVE  /\ Answered(base[k], outq[j], A, R)
         /\ Has(net[k], outq[j], R) /\ (k = i => Head(net[i]) \notin R) => Has(base[k], outq[j], R)
         /\ k = i /\ Head(net[i]) \in A => Has(base[k], outq[j], R)
<1>1. net[i] \in Seq(Message) /\ outq[j] \in Seq(Message) /\ net \in [Insts -> Seq(Message)]
  BY DEF TypeOK
<1>2. CASE k = i
  <2>1. base[k] = Tail(net[i])
    BY <1>1, <1>2
  <2> QED
    BY <1>1, <1>2, <2>1, TailAnswered
<1>3. CASE k # i
  BY <1>1, <1>3
<1> QED
  BY <1>2, <1>3

LEMMA HelloKnown ==
  ASSUME TypeOK, Known, NEW x \in Insts, Up(x), net[x] # <<>>, NEW h, h = Head(net[x]), OnHello(x, h),
         UNCHANGED <<inst, pubUp, subUp, moved>>
  PROVE  Known'
<1> DEFINE base == [net EXCEPT ![x] = Tail(@)]
           m    == [t |-> "state", from |-> x, to |-> h.from, members |-> local[x]]
           ms   == <<m>>
<1>0. /\ h.t = "hello" /\ PublishAfter(base, x, ms)
      /\ missed' = missed \cup Unheard(x, ms)
      /\ gap' = (gap \ {<<x, h.from>>}) \cup Unheard(x, ms)
      /\ UNCHANGED <<remote, local>>
  BY DEF OnHello
<1>1. m \in Message
  BY TakeTypes, MessageOut, MessageIn DEF TypeOK
<1>2. /\ m.from = x /\ Sane(x, m) /\ m.t = "state" /\ m.to = h.from
      /\ \A p : Places(m, p) <=> p \in DOMAIN local[x]
  BY DEF Sane, Places
<1> HIDE DEF m
<1>3. /\ ms \in Seq(Message) /\ ms # <<>> /\ 1 \in DOMAIN ms /\ ms[1] = m
      /\ ToSet(ms) = {m}
  BY <1>1, Single
<1>4. \A n \in ToSet(ms) : /\ n.from = x /\ Sane(x, n) /\ n.t # "leave"
                           /\ \A p \in Ids : Places(n, p) <=> p \in DOMAIN local[x]
  BY <1>2, <1>3
<1> HIDE DEF ms
<1>5. /\ base \in [Insts -> Seq(Message)]
      /\ \A i \in Insts : ToSet(base[i]) \subseteq ToSet(net[i]) /\ (net[i] = <<>> => base[i] = <<>>)
  <2>1. net \in [Insts -> Seq(Message)] /\ Tail(net[x]) \in Seq(Message)
    BY TakeTypes DEF TypeOK
  <2>2. ToSet(Tail(net[x])) \subseteq ToSet(net[x])
    BY <2>1, TailSet
  <2> QED
    BY <2>1, <2>2
<1>6. NetOK /\ QueueOK /\ LinksOK /\ ListsOK
  BY DEF Known, Wired
<1>7. \A k \in Insts, j \in Insts : \A A, R : Answered(net[k], outq[j], A, R) =>
        /\ Answered(base[k], outq[j], A, R)
        /\ Has(net[k], outq[j], R) /\ h \notin R => Has(base[k], outq[j], R)
  BY TakenPair
<1>8. \A k, j \in Insts, p \in Ids : h \notin Removing(j, p) /\ h \notin AddingTo(j, k, p)
  BY <1>0 DEF Removing, AddingTo, Places
<1> HIDE DEF base
<1>9. NetOK' /\ QueueOK' /\ LinksOK'
  <2>1. \A i \in Insts : (~subUp'[i] => ~subUp[i]) /\ (~Up(i) => ~subUp'[i])
    BY <1>6 DEF LinksOK
  <2> QED
    BY <1>0, <1>3, <1>4, <1>5, <1>6, <2>1, WiredPublished
<1>10. ListsOK'
  BY <1>0, <1>6 DEF ListsOK, Up
<1>11. OnePlace'
  <2>1. \A k \in Insts : DOMAIN local'[k] \subseteq DOMAIN local[k]
    BY <1>0
  <2> QED
    BY <1>0, <1>3, <1>4, <1>5, <1>6, <2>1, OnePublished DEF Known
<1>12. /\ \A i, j \in Insts : Listed(i, j)' = Listed(i, j) /\ (Up(i)' <=> Up(i))
       /\ \A j \in Insts : \A p \in Ids :
            (Absent(j, p)' <=> Absent(j, p)) /\ (Present(j, p)' <=> Present(j, p))
  BY <1>0 DEF Listed, Up, Absent, Present
<1>13. QueueEnded'
  <2> SUFFICES ASSUME NEW j \in Insts, NEW p \in Ids, Absent(j, p)
               PROVE  Ends(outq'[j], Adding(j, p), Removing(j, p))
    BY <1>12, PartsNext DEF QueueEnded
  <2>1. Ends(outq[j], Adding(j, p), Removing(j, p))
    BY DEF Known, QueueEnded
  <2>2. x = j => ToSet(ms) \cap Adding(j, p) = {}
    BY <1>4 DEF Adding, Absent
  <2> QED
    BY <1>0, <1>3, <1>5, <1>6, <2>1, <2>2, EndedPublished
<1>14. NoGhosts'
  <2> SUFFICES ASSUME NEW i \in Insts, NEW j \in Insts, NEW p \in Ids,
                      i # j, Up(i), <<j, i>> \notin missed', Absent(j, p)
               PROVE  Unlisted(i, j, p)'
    BY <1>12 DEF NoGhosts
  <2>1. <<j, i>> \notin missed /\ <<j, i>> \notin Unheard(x, ms)
    BY <1>0
  <2>2. Unlisted(i, j, p)
    BY <2>1 DEF Known, NoGhosts
  <2>3. x = j => \A n \in ToSet(ms) : ~Places(n, p)
    BY <1>4 DEF Absent
  <2>4. /\ Answered(base[i], outq[j], Adding(j, p), Removing(j, p))
        /\ p \in Listed(i, j)' => Has(base[i], outq[j], Removing(j, p))
    BY <1>7, <1>8, <1>12, <2>2 DEF Unlisted
  <2> QED
    BY <1>0, <1>3, <1>4, <1>5, <1>6, <2>1, <2>3, <2>4, CalmUnlisted
<1>15. AllReached'
  <2> SUFFICES ASSUME NEW i \in Insts, NEW j \in Insts, NEW p \in Ids,
                      i # j, Up(i), Up(j), <<j, i>> \notin gap', Present(j, p)
               PROVE  Reached(i, j, p)'
    BY <1>12 DEF AllReached
  <2>1. <<j, i>> \notin Unheard(x, ms) /\ (<<j, i>> \in gap => j = x /\ i = h.from)
    BY <1>0
  <2>2. CASE <<j, i>> \notin gap
    <3>1. Reached(i, j, p)
      BY <2>2 DEF Known, AllReached
    <3>2. /\ Answered(base[i], outq[j], Removing(j, p), AddingTo(j, i, p))
          /\ p \notin Listed(i, j)' => Has(base[i], outq[j], AddingTo(j, i, p))
      BY <1>7, <1>8, <1>12, <3>1 DEF Reached
    <3> QED
      BY <1>0, <1>3, <1>4, <1>5, <1>6, <2>1, <3>2, CalmReached
  <2>3. CASE j = x /\ i = h.from
    <3>1. ms[1] \in AddingTo(x, i, p)
      BY <1>1, <1>2, <1>3, <2>3 DEF AddingTo, Present
    <3>2. \A n \in ToSet(ms) : n.t # "leave"
      BY <1>4
    <3> QED
      BY <1>0, <1>3, <1>5, <1>6, <2>1, <2>3, <3>1, <3>2, SettledReached
  <2> QED
    BY <2>1, <2>2, <2>3
<1> QED
  BY <1>9, <1>10, <1>11, <1>13, <1>14, <1>15 DEF Known, Wired

(* The others are only taken: what is asked of the lists then.             *)
Heeded(i, m) ==
  /\ \A k, j \in Insts : k # i => Listed(k, j)' = Listed(k, j)
  /\ \A j \in Insts, p \in Ids : Absent(j, p) /\ p \in Listed(i, j)' =>
       m \in Adding(j, p) \/ (p \in Listed(i, j) /\ m \notin Removing(j, p))
  /\ \A j \in Insts, p \in Ids : Up(j) /\ Present(j, p) /\ p \notin Listed(i, j)' =>
       m \in Removing(j, p) \/ (p \notin Listed(i, j) /\ m \notin AddingTo(j, i, p))

LEMMA ConsumedKnown ==
  ASSUME TypeOK, Known, NEW x \in Insts, Up(x), net[x] # <<>>, Consumed(x),
         UNCHANGED <<inst, pubUp, subUp, moved>>,
         \A k \in Insts : DOMAIN local'[k] \subseteq DOMAIN local[k]
                          /\ DOMAIN local[k] \subseteq DOMAIN local'[k] \cup moved,
         \A k \in Insts : k # x => local'[k] = local[k] /\ remote'[k] = remote[k],
         \A p \in DOMAIN remote'[x] : inst[remote'[x][p].inst] # "off",
         Heeded(x, Head(net[x]))
  PROVE  Known'
<1> DEFINE base == [net EXCEPT ![x] = Tail(@)]
           h    == Head(net[x])
<1>0. net' = base /\ UNCHANGED <<outq, missed, gap>> /\ Heeded(x, h)
  BY DEF Consumed
<1>1. /\ base \in [Insts -> Seq(Message)]
      /\ \A i \in Insts : ToSet(base[i]) \subseteq ToSet(net[i]) /\ (net[i] = <<>> => base[i] = <<>>)
  <2>1. net \in [Insts -> Seq(Message)] /\ Tail(net[x]) \in Seq(Message)
    BY TakeTypes DEF TypeOK
  <2>2. ToSet(Tail(net[x])) \subseteq ToSet(net[x])
    BY <2>1, TailSet
  <2> QED
    BY <2>1, <2>2
<1>2. NetOK /\ QueueOK /\ LinksOK /\ ListsOK
  BY DEF Known, Wired
<1>3. \A k \in Insts, j \in Insts : \A A, R : Answered(net[k], outq[j], A, R) =>
        /\ Answered(base[k], outq[j], A, R)
        /\ Has(net[k], outq[j], R) /\ (k = x => h \notin R) => Has(base[k], outq[j], R)
        /\ k = x /\ h \in A => Has(base[k], outq[j], R)
  BY TakenPair
<1> HIDE DEF base, h
<1>4. NetOK'
  BY <1>0, <1>1, <1>2 DEF NetOK, Up
<1>5. QueueOK'
  BY <1>0, <1>2 DEF QueueOK
<1>6. LinksOK'
  BY <1>0, <1>1, <1>2 DEF LinksOK, Up
<1>7. ListsOK'
  <2>1. \A i \in Insts : ~Up(i)' => local'[i] = Empty /\ remote'[i] = Empty
    BY <1>2 DEF ListsOK, Up
  <2>2. \A i \in Insts : \A p \in DOMAIN remote'[i] : inst'[remote'[i][p].inst] # "off"
    BY <1>2 DEF ListsOK
  <2> QED
    BY <2>1, <2>2 DEF ListsOK
<1>8. OnePlace'
  <2> SUFFICES ASSUME NEW j \in Insts, NEW p \in DOMAIN local'[j], p \notin moved'
               PROVE  Alone(j, p)'
    BY DEF OnePlace
  <2>1. Alone(j, p)
    BY DEF Known, OnePlace
  <2>2. \A m : Places(m, p)' <=> Places(m, p)
    BY DEF Places
  <2> QED
    BY <1>0, <1>1, <2>1, <2>2 DEF Alone
<1>9. ASSUME NEW j \in Insts, NEW p \in Ids
      PROVE  /\ Absent(j, p)' => Absent(j, p)
             /\ Present(j, p)' => Present(j, p)
  BY DEF Absent, Present, Up
<1>10. QueueEnded'
  <2> SUFFICES ASSUME NEW j \in Insts, NEW p \in Ids, Absent(j, p)'
               PROVE  Ends(outq'[j], Adding(j, p), Removing(j, p))
    BY PartsNext DEF QueueEnded
  <2> QED
    BY <1>0, <1>9 DEF Known, QueueEnded
<1>11. \A i \in Insts : Up(i)' <=> Up(i)
  BY DEF Up
<1>12. NoGhosts'
  <2> SUFFICES ASSUME NEW i \in Insts, NEW j \in Insts, NEW p \in Ids,
                      i # j, Up(i), <<j, i>> \notin missed, Absent(j, p)
               PROVE  Unlisted(i, j, p)'
    BY <1>0, <1>9, <1>11 DEF NoGhosts
  <2> DEFINE A == Adding(j, p)
             R == Removing(j, p)
  <2>1. Answered(net[i], outq[j], A, R) /\ (p \in Listed(i, j) => Has(net[i], outq[j], R))
    BY DEF Known, NoGhosts, Unlisted
  <2>2. /\ i # x => Listed(i, j)' = Listed(i, j)
        /\ i = x /\ p \in Listed(i, j)' => h \in A \/ (p \in Listed(i, j) /\ h \notin R)
    BY <1>0 DEF Heeded
  <2>3. Unlisted(i, j, p)' <=> /\ Answered(net'[i], outq'[j], A, R)
                               /\ p \in Listed(i, j)' => Has(net'[i], outq'[j], R)
    BY PartsNext
  <2> HIDE DEF A, R
  <2>4. p \in Listed(i, j)' => Has(base[i], outq[j], R)
    BY <1>3, <2>1, <2>2
  <2> QED
    BY <1>0, <1>3, <2>1, <2>3, <2>4
<1>13. AllReached'
  <2> SUFFICES ASSUME NEW i \in Insts, NEW j \in Insts, NEW p \in Ids,
                      i # j, Up(i), Up(j), <<j, i>> \notin gap, Present(j, p)
               PROVE  Reached(i, j, p)'
    BY <1>0, <1>9, <1>11 DEF AllReached
  <2> DEFINE A == Removing(j, p)
             R == AddingTo(j, i, p)
  <2>1. Answered(net[i], outq[j], A, R) /\ (p \notin Listed(i, j) => Has(net[i], outq[j], R))
    BY DEF Known, AllReached, Reached
  <2>2. /\ i # x => Listed(i, j)' = Listed(i, j)
        /\ i = x /\ p \notin Listed(i, j)' => h \in A \/ (p \notin Listed(i, j) /\ h \notin R)
    BY <1>0 DEF Heeded
  <2>3. Reached(i, j, p)' <=> /\ Answered(net'[i], outq'[j], A, R)
                              /\ p \notin Listed(i, j)' => Has(net'[i], outq'[j], R)
    BY PartsNext
  <2> HIDE DEF A, R
  <2>4. p \notin Listed(i, j)' => Has(base[i], outq[j], R)
    BY <1>3, <2>1, <2>2
  <2> QED
    BY <1>0, <1>3, <2>1, <2>3, <2>4
<1> QED
  BY <1>4, <1>5, <1>6, <1>7, <1>8, <1>10, <1>12, <1>13 DEF Known, Wired

(* Who is added is listed for the sender from then on.                     *)
NowListed(i, from, D) ==
  \A j \in Insts : Listed(i, j)' = (Listed(i, j) \ D) \cup (IF j = from THEN D ELSE {})

LEMMA AddListed ==
  ASSUME TypeOK, NEW i \in Insts, NEW members, NEW from, Add(i, members, from)
  PROVE  /\ NowListed(i, from, DOMAIN members)
         /\ \A k \in Insts : k # i => remote'[k] = remote[k]
<1> DEFINE more == [p \in DOMAIN remote[i] \cup DOMAIN members |->
                      IF p \in DOMAIN members THEN [inst |-> from, gen |-> members[p]]
                      ELSE remote[i][p]]
<1>1. remote' = [remote EXCEPT ![i] = more] /\ remote \in [Insts -> Views]
  BY DEF Add, TypeOK
<1>2. /\ DOMAIN more = DOMAIN remote[i] \cup DOMAIN members
      /\ \A p \in DOMAIN members : more[p].inst = from
      /\ \A p \in DOMAIN remote[i] : p \notin DOMAIN members => more[p] = remote[i][p]
  OBVIOUS
<1> HIDE DEF more
<1>3. remote'[i] = more /\ \A k \in Insts : k # i => remote'[k] = remote[k]
  BY <1>1
<1>4. ASSUME NEW j \in Insts
      PROVE  Listed(i, j)' = (Listed(i, j) \ DOMAIN members) \cup (IF j = from THEN DOMAIN members ELSE {})
  <2>1. Listed(i, j)' = {p \in DOMAIN more : more[p].inst = j}
    BY <1>3 DEF Listed
  <2> QED
    BY <1>2, <2>1 DEF Listed
<1> QED
  BY <1>3, <1>4 DEF NowListed

(* A message whose sender is said to have some members: these are listed   *)
(* for it (for an update: those that were listed for anybody).             *)
LEMMA PlacedHeeded ==
  ASSUME TypeOK, Known, NEW i \in Insts, net[i] # <<>>, NEW m, m = Head(net[i]),
         m.t # "leave", NEW D \in SUBSET Ids,
         \A p \in D : Places(m, p),
         \A p \in Ids : m \in AddingTo(m.from, i, p) => p \in D,
         NowListed(i, m.from, D),
         \A k \in Insts : k # i => remote'[k] = remote[k]
  PROVE  Heeded(i, m)
<1>1. m \in Message /\ m \in ToSet(net[i])
  BY TakeTypes, TailSet DEF TypeOK
<1>2. \A k, j \in Insts : k # i => Listed(k, j)' = Listed(k, j)
  BY DEF Listed
<1>3. ASSUME NEW j \in Insts, NEW p \in Ids, Absent(j, p), p \in Listed(i, j)'
      PROVE  m \in Adding(j, p) \/ (p \in Listed(i, j) /\ m \notin Removing(j, p))
  <2>1. CASE p \in D /\ j = m.from
    BY <1>1, <2>1 DEF Adding
  <2>2. CASE p \in Listed(i, j)
    BY <2>2 DEF Removing
  <2> QED
    BY <1>3, <2>1, <2>2 DEF NowListed
<1>4. ASSUME NEW j \in Insts, NEW p \in Ids, Present(j, p), p \notin Listed(i, j)'
      PROVE  p \notin Listed(i, j) /\ m \notin AddingTo(j, i, p)
  <2>1. Alone(j, p)
    BY <1>4 DEF Known, OnePlace, Present
  <2>2. p \in D => m.from = j
    BY <1>1, <2>1 DEF Alone
  <2>3. p \notin D /\ p \notin Listed(i, j)
    BY <1>4, <2>2 DEF NowListed
  <2>4. m \in AddingTo(j, i, p) => m.from = j
    BY DEF AddingTo
  <2> QED
    BY <1>4, <2>3, <2>4
<1> QED
  BY <1>2, <1>3, <1>4 DEF Heeded

(* Nobody is listed for an instance that never was.                        *)
LEMMA SendersStarted ==
  ASSUME TypeOK, Known, NEW i \in Insts, net[i] # <<>>, NEW m, m = Head(net[i]),
         \A p \in DOMAIN remote'[i] :
           remote'[i][p].inst = m.from \/ (p \in DOMAIN remote[i] /\ remote'[i][p] = remote[i][p])
  PROVE  \A p \in DOMAIN remote'[i] : inst[remote'[i][p].inst] # "off"
<1>1. m \in ToSet(net[i])
  BY TailSet DEF TypeOK
<1>2. inst[m.from] # "off"
  BY <1>1 DEF Known, Wired, NetOK
<1> QED
  BY <1>2 DEF Known, Wired, ListsOK

LEMMA StateHeeded ==
  ASSUME TypeOK, Known, NEW i \in Insts, net[i] # <<>>, NEW m, m = Head(net[i]),
         OnState(i, m) \/ OnJoin(i, m)
  PROVE  /\ Heeded(i, m) /\ local' = local /\ Consumed(i)
         /\ \A k \in Insts : k # i => remote'[k] = remote[k]
         /\ \A p \in DOMAIN remote'[i] : inst[remote'[i][p].inst] # "off"
<1>1. m \in Message /\ m.from \in Insts
  BY TakeTypes, MessageOut
<1>2. local' = local /\ Consumed(i)
  BY DEF OnState, OnJoin
<1>3. CASE m.t = "state" /\ m.to # i
  <2>1. remote' = remote
    BY <1>3 DEF OnState, OnJoin
  <2>2. \A j \in Insts : Listed(i, j)' = Listed(i, j)
    BY <2>1 DEF Listed
  <2>3. \A p \in Ids : m \notin AddingTo(m.from, i, p)
    BY <1>3 DEF AddingTo
  <2>4. Heeded(i, m)
    <3> DEFINE D == {}
    <3>1. /\ D \in SUBSET Ids /\ (\A p \in D : Places(m, p))
          /\ \A p \in Ids : m \in AddingTo(m.from, i, p) => p \in D
          /\ NowListed(i, m.from, D)
      BY <2>2, <2>3 DEF NowListed
    <3> HIDE DEF D
    <3> QED
      BY <1>3, <2>1, <3>1, PlacedHeeded
  <2> QED
    BY <1>2, <2>1, <2>4, SendersStarted
<1>4. CASE ~(m.t = "state" /\ m.to # i)
  <2>1. PICK members \in Members :
          /\ Add(i, members, m.from)
          /\ m.t # "leave"
          /\ \A p \in DOMAIN members : Places(m, p)
          /\ \A p \in Ids : m \in AddingTo(m.from, i, p) => p \in DOMAIN members
    <3>1. CASE OnState(i, m)
      <4>1. Add(i, m.members, m.from) /\ m.t = "state" /\ m.members \in Members
        BY <1>1, <1>4, <3>1, MessageOut DEF OnState
      <4> QED
        BY <4>1 DEF Places, AddingTo
    <3>2. CASE OnJoin(i, m)
      <4> DEFINE s == [p \in {m.id} |-> m.gen]
      <4>1. Add(i, s, m.from) /\ m.t = "join" /\ DOMAIN s = {m.id}
        BY <3>2 DEF OnJoin
      <4>2. s \in Members
        <5>1. m.id \in Ids /\ m.gen \in Gens
          BY <1>1, <4>1, MessageOut
        <5>2. s \in [{m.id} -> Gens] /\ {m.id} \in SUBSET Ids
          BY <5>1
        <5> QED
          BY <5>2, MapsIn, MembersViews
      <4> HIDE DEF s
      <4>3. m.t # "leave" /\ (\A p \in DOMAIN s : Places(m, p))
            /\ \A p \in Ids : m \in AddingTo(m.from, i, p) => p \in DOMAIN s
        BY <4>1 DEF Places, AddingTo
      <4> QED
        BY <4>1, <4>2, <4>3
    <3> QED
      BY <3>1, <3>2
  <2>2. DOMAIN members \in SUBSET Ids
    BY MembersViews, MapsOut
  <2>3. /\ NowListed(i, m.from, DOMAIN members)
        /\ \A k \in Insts : k # i => remote'[k] = remote[k]
    BY <2>1, AddListed
  <2>4. Heeded(i, m)
    BY <2>1, <2>2, <2>3, PlacedHeeded
  <2>5. \A k \in Insts : \A p \in DOMAIN remote'[k] :
              \/ k = i /\ remote'[k][p].inst = m.from
              \/ p \in DOMAIN remote[k] /\ remote'[k][p] = remote[k][p]
    BY <1>1, <2>1, AddKeeps
  <2> QED
    BY <1>2, <2>3, <2>4, <2>5, SendersStarted
<1> QED
  BY <1>3, <1>4

LEMMA UpdateHeeded ==
  ASSUME TypeOK, Known, NEW i \in Insts, net[i] # <<>>, NEW m, m = Head(net[i]), OnUpdate(i, m)
  PROVE  /\ Heeded(i, m) /\ local' = local /\ Consumed(i)
         /\ \A k \in Insts : k # i => remote'[k] = remote[k]
         /\ \A p \in DOMAIN remote'[i] : inst[remote'[i][p].inst] # "off"
<1> DEFINE v    == [inst |-> m.from, gen |-> m.gen]
           more == Put(remote[i], m.id, v)
           D    == {m.id} \cap DOMAIN remote[i]
<1>1. m \in Message /\ m.from \in Insts /\ m.t = "update" /\ m.id \in Ids
  BY TakeTypes, MessageOut DEF OnUpdate
<1>2. local' = local /\ Consumed(i)
  BY DEF OnUpdate
<1>3. /\ remote' = [remote EXCEPT ![i] = IF m.id \in DOMAIN remote[i] THEN more ELSE remote[i]]
      /\ remote \in [Insts -> Views]
  BY DEF OnUpdate, TypeOK
<1>4. /\ DOMAIN more = DOMAIN remote[i] \cup {m.id} /\ more[m.id] = v /\ v.inst = m.from
      /\ \A p \in DOMAIN remote[i] : p # m.id => more[p] = remote[i][p]
  BY DEF Put
<1> HIDE DEF more, v
<1>5. /\ \A k \in Insts : k # i => remote'[k] = remote[k]
      /\ remote'[i] = IF m.id \in DOMAIN remote[i] THEN more ELSE remote[i]
  BY <1>3
<1>6. \A p \in DOMAIN remote'[i] :
        remote'[i][p].inst = m.from \/ (p \in DOMAIN remote[i] /\ remote'[i][p] = remote[i][p])
  BY <1>4, <1>5
<1>7. NowListed(i, m.from, D)
  <2> SUFFICES ASSUME NEW j \in Insts
                 PROVE  Listed(i, j)' = (Listed(i, j) \ D) \cup (IF j = m.from THEN D ELSE {})
    BY DEF NowListed
  <2>1. Listed(i, j)' = {p \in DOMAIN remote'[i] : remote'[i][p].inst = j}
    BY DEF Listed
  <2>2. CASE m.id \in DOMAIN remote[i]
    <3>1. D = {m.id} /\ remote'[i] = more
      BY <1>5, <2>2
    <3> QED
      BY <1>4, <2>1, <2>2, <3>1 DEF Listed
  <2>3. CASE m.id \notin DOMAIN remote[i]
    <3>1. D = {} /\ remote'[i] = remote[i]
      BY <1>5, <2>3
    <3> QED
      BY <2>1, <3>1 DEF Listed
  <2> QED
    BY <2>2, <2>3
<1>8. /\ D \in SUBSET Ids /\ (\A p \in D : Places(m, p))
      /\ \A p \in Ids : m \in AddingTo(m.from, i, p) => p \in D
  BY <1>1 DEF Places, AddingTo
<1> HIDE DEF D
<1>9. Heeded(i, m)
  BY <1>1, <1>5, <1>7, <1>8, PlacedHeeded
<1> QED
  BY <1>2, <1>5, <1>6, <1>9, SendersStarted

LEMMA LeaveHeeded ==
  ASSUME TypeOK, Known, NEW i \in Insts, net[i] # <<>>, NEW m, m = Head(net[i]),
         OnLeave(i, m) \/ OnLeft(i, m) \/ OnBeat(i, m) \/ OnEvict(i, m)
  PROVE  /\ Heeded(i, m) /\ Consumed(i)
         /\ \A k \in Insts : k # i => remote'[k] = remote[k]
         /\ \A p \in DOMAIN remote'[i] : inst[remote'[i][p].inst] # "off"
<1> DEFINE D == IF m.t = "leave" /\ m.id \in Listed(i, m.from) THEN {m.id} ELSE {}
<1>1. m \in Message /\ m.t \in {"leave", "left", "beat", "evict"} /\ remote \in [Insts -> Views]
  BY TakeTypes DEF OnLeave, OnLeft, OnBeat, OnEvict, TypeOK
<1>2. Consumed(i)
  BY DEF OnLeave, OnLeft, OnBeat, OnEvict
<1>3. remote' = [remote EXCEPT ![i] = Without(remote[i], D)] \/ (remote' = remote /\ D = {})
  <2>1. CASE m.t = "leave"
    <3>1. OnLeave(i, m)
      BY <2>1 DEF OnLeft, OnBeat, OnEvict
    <3>2. CASE m.id \in DOMAIN remote[i] /\ remote[i][m.id].inst = m.from
      BY <1>1, <2>1, <3>1, <3>2 DEF OnLeave, Listed
    <3>3. CASE ~(m.id \in DOMAIN remote[i] /\ remote[i][m.id].inst = m.from)
      BY <3>1, <3>3 DEF OnLeave, Listed
    <3> QED
      BY <3>2, <3>3
  <2>2. CASE m.t # "leave"
    BY <2>2 DEF OnLeave, OnLeft, OnBeat, OnEvict
  <2> QED
    BY <2>1, <2>2
<1>4. \A p : p \in D <=> m.t = "leave" /\ p = m.id /\ p \in Listed(i, m.from)
  OBVIOUS
<1> HIDE DEF D
<1>5. /\ DOMAIN Without(remote[i], D) = DOMAIN remote[i] \ D
      /\ \A p \in DOMAIN remote[i] \ D : Without(remote[i], D)[p] = remote[i][p]
  BY DEF Without
<1>6. /\ \A k \in Insts : k # i => remote'[k] = remote[k]
      /\ DOMAIN remote'[i] = DOMAIN remote[i] \ D
      /\ \A p \in DOMAIN remote[i] \ D : remote'[i][p] = remote[i][p]
  BY <1>1, <1>3, <1>5
<1>7. \A j \in Insts : Listed(i, j)' = Listed(i, j) \ D
  <2> SUFFICES ASSUME NEW j \in Insts
               PROVE  Listed(i, j)' = Listed(i, j) \ D
    OBVIOUS
  <2>1. Listed(i, j)' = {p \in DOMAIN remote'[i] : remote'[i][p].inst = j}
    BY DEF Listed
  <2> QED
    BY <1>6, <2>1 DEF Listed
<1>8. \A k, j \in Insts : k # i => Listed(k, j)' = Listed(k, j)
  BY <1>6 DEF Listed
<1>9. ASSUME NEW j \in Insts, NEW p \in Ids, p \in Listed(i, j)'
      PROVE  p \in Listed(i, j) /\ m \notin Removing(j, p)
  <2>1. p \in Listed(i, j) /\ p \notin D
    BY <1>7, <1>9
  <2>2. m \in Removing(j, p) => m.t = "leave" /\ p = m.id /\ j = m.from
    BY DEF Removing
  <2> QED
    BY <1>4, <2>1, <2>2
<1>10. ASSUME NEW j \in Insts, NEW p \in Ids, p \notin Listed(i, j)'
       PROVE  m \in Removing(j, p) \/ (p \notin Listed(i, j) /\ m \notin AddingTo(j, i, p))
  <2>1. m \notin AddingTo(j, i, p)
    BY <1>1 DEF AddingTo, Places
  <2>2. CASE p \in D
    <3>1. m.t = "leave" /\ p = m.id /\ p \in Listed(i, m.from)
      BY <1>4, <2>2
    <3>2. CASE j = m.from
      BY <1>1, <3>1, <3>2 DEF Removing
    <3>3. CASE j # m.from
      BY <2>1, <3>1, <3>3 DEF Listed
    <3> QED
      BY <3>2, <3>3
  <2>3. CASE p \notin D
    BY <1>7, <1>10, <2>1, <2>3
  <2> QED
    BY <2>2, <2>3
<1>11. Heeded(i, m)
  BY <1>8, <1>9, <1>10 DEF Heeded
<1>12. \A p \in DOMAIN remote'[i] :
         remote'[i][p].inst = m.from \/ (p \in DOMAIN remote[i] /\ remote'[i][p] = remote[i][p])
  BY <1>6
<1> QED
  BY <1>2, <1>6, <1>11, <1>12, SendersStarted

(* Who says goodbye is not up any more.                                    *)
LEMMA ByeHeeded ==
  ASSUME TypeOK, Known, NEW i \in Insts, net[i] # <<>>, NEW m, m = Head(net[i]), OnBye(i, m)
  PROVE  /\ Heeded(i, m) /\ local' = local /\ Consumed(i)
         /\ \A k \in Insts : k # i => remote'[k] = remote[k]
         /\ \A p \in DOMAIN remote'[i] : inst[remote'[i][p].inst] # "off"
<1>1. m \in ToSet(net[i]) /\ m.t = "bye"
  BY TailSet DEF OnBye, TypeOK
<1>2. DropInstances(i, {m.from}) /\ local' = local /\ Consumed(i)
  BY DEF OnBye
<1>3. ~Up(m.from)
  BY <1>1 DEF Known, Wired, NetOK
<1>4. \A k, j \in Insts : Listed(k, j)' = IF k = i /\ j \in {m.from} THEN {} ELSE Listed(k, j)
  BY <1>2, DropListed
<1>5. \A k \in Insts : \A p \in DOMAIN remote'[k] : p \in DOMAIN remote[k] /\ remote'[k][p] = remote[k][p]
  BY <1>2, DropKeeps
<1>6. \A k \in Insts : k # i => remote'[k] = remote[k]
  BY <1>2 DEF DropInstances, TypeOK
<1>7. \A j \in Insts, p \in Ids : m \notin Removing(j, p) /\ m \notin AddingTo(j, i, p)
  BY <1>1 DEF Removing, AddingTo, Places
<1>8. Heeded(i, m)
  BY <1>3, <1>4, <1>7 DEF Heeded
<1> QED
  BY <1>2, <1>5, <1>6, <1>8, SendersStarted

LEMMA DeliverKnown ==
  ASSUME TypeOK, Known, NEW i \in Insts, Deliver(i)
  PROVE  Known'
<1> DEFINE m == Head(net[i])
<1>1. Up(i) /\ net[i] # <<>> /\ m \in ToSet(net[i]) /\ UNCHANGED <<inst, pubUp, subUp, moved>>
  BY TailSet DEF Deliver, TypeOK
<1>2. \/ OnHello(i, m) \/ OnState(i, m) \/ OnBeat(i, m) \/ OnBye(i, m) \/ OnJoin(i, m)
      \/ OnUpdate(i, m) \/ OnLeave(i, m) \/ OnLeft(i, m) \/ OnEvict(i, m)
  BY DEF Deliver
<1>3. CASE OnHello(i, m)
  BY <1>1, <1>3, HelloKnown
<1>4. CASE ~OnHello(i, m)
  <2>1. /\ Heeded(i, m) /\ Consumed(i)
        /\ \A k \in Insts : k # i => remote'[k] = remote[k]
        /\ \A p \in DOMAIN remote'[i] : inst[remote'[i][p].inst] # "off"
    BY <1>1, <1>2, <1>4, StateHeeded, UpdateHeeded, LeaveHeeded, ByeHeeded
  <2>2. /\ \A k \in Insts : DOMAIN local'[k] \subseteq DOMAIN local[k]
                            /\ DOMAIN local[k] \subseteq DOMAIN local'[k] \cup moved
        /\ \A k \in Insts : k # i => local'[k] = local[k]
    <3>1. CASE OnEvict(i, m)
      <4>1. local' = [local EXCEPT ![i] = IF m.to = i THEN Without(@, {m.id}) ELSE @] /\ m.t = "evict"
        BY <3>1 DEF OnEvict
      <4>2. m.id \in moved
        BY <1>1, <4>1 DEF Known, Wired, NetOK
      <4>3. local \in [Insts -> Members]
        BY DEF TypeOK
      <4>4. DOMAIN Without(local[i], {m.id}) = DOMAIN local[i] \ {m.id}
        BY DEF Without
      <4> HIDE DEF m
      <4> QED
        BY <4>1, <4>2, <4>3, <4>4
    <3>2. CASE ~OnEvict(i, m)
      <4>1. local' = local
        BY <1>2, <3>2 DEF OnHello, OnState, OnBeat, OnBye, OnJoin, OnUpdate, OnLeave, OnLeft
      <4> QED
        BY <4>1
    <3> QED
      BY <3>1, <3>2
  <2> QED
    BY <1>1, <2>1, <2>2, ConsumedKnown
<1> QED
  BY <1>3, <1>4

----------------------------------------------------------------------------
(* The other actions.                                                      *)

(* Nothing is sent, and nobody comes or goes.                              *)
LEMMA StillKnown ==
  ASSUME Known, UNCHANGED <<inst, local, remote, net, outq, subUp, moved, missed, gap>>,
         \A i \in Insts : pubUp'[i] => pubUp[i]
  PROVE  Known'
<1>1. NetOK' /\ QueueOK' /\ LinksOK' /\ ListsOK'
  BY DEF Known, Wired, NetOK, QueueOK, LinksOK, ListsOK, Up
<1>2. OnePlace'
  BY DEF Known, OnePlace, Alone, Places
<1>3. \A i, j \in Insts : \A p \in Ids :
        /\ Unlisted(i, j, p)' <=> Unlisted(i, j, p)
        /\ Reached(i, j, p)' <=> Reached(i, j, p)
        /\ Absent(j, p)' <=> Absent(j, p)
        /\ Present(j, p)' <=> Present(j, p)
        /\ Up(i)' <=> Up(i)
  <2> SUFFICES ASSUME NEW i \in Insts, NEW j \in Insts, NEW p \in Ids
               PROVE  /\ Unlisted(i, j, p)' <=> Unlisted(i, j, p)
                      /\ Reached(i, j, p)' <=> Reached(i, j, p)
                      /\ Absent(j, p)' <=> Absent(j, p)
                      /\ Present(j, p)' <=> Present(j, p)
                      /\ Up(i)' <=> Up(i)
    OBVIOUS
  <2>1. Listed(i, j)' = Listed(i, j)
    BY DEF Listed
  <2>2. Unlisted(i, j, p)' <=> Unlisted(i, j, p)
    BY <2>1, PartsNext DEF Unlisted
  <2>3. Reached(i, j, p)' <=> Reached(i, j, p)
    BY <2>1, PartsNext DEF Reached
  <2> QED
    BY <2>2, <2>3 DEF Absent, Present, Up
<1>4. QueueEnded'
  <2> SUFFICES ASSUME NEW j \in Insts, NEW p \in Ids, Absent(j, p)'
               PROVE  Ends(outq'[j], Adding(j, p), Removing(j, p))
    BY PartsNext DEF QueueEnded
  <2> QED
    BY <1>3 DEF Known, QueueEnded
<1>5. NoGhosts'
  BY <1>3 DEF Known, NoGhosts
<1>6. AllReached'
  BY <1>3 DEF Known, AllReached
<1> QED
  BY <1>1, <1>2, <1>4, <1>5, <1>6 DEF Known, Wired

LEMMA QuietKnown ==
  ASSUME TypeOK, Known, NEW i \in Insts,
         PubDown(i) \/ (\E j \in Insts : Silence(i, j)) \/ (\E id \in Ids : Sweep(i, id)) \/ UNCHANGED vars
  PROVE  Known'
<1>1. UNCHANGED <<inst, local, remote, net, outq, subUp, moved, missed, gap>>
  BY DEF PubDown, Silence, Sweep, vars, links, history
<1>2. pubUp' = pubUp \/ pubUp' = [pubUp EXCEPT ![i] = FALSE]
  BY DEF PubDown, Silence, Sweep, vars, links
<1>3. \A k \in Insts : pubUp'[k] => pubUp[k]
  BY <1>2 DEF TypeOK
<1> QED
  BY <1>1, <1>3, StillKnown

(* Messages of x reach some, at the end of what is on its way; what others *)
(* said is not disturbed by it.                                            *)
Appended(x, ms) ==
  \A i \in Insts : net'[i] = net[i] \/ (i # x /\ subUp[i] /\ Up(i) /\ net'[i] = net[i] \o ms)

LEMMA AppendedPair ==
  ASSUME TypeOK, NEW x \in Insts, NEW ms \in Seq(Message), Appended(x, ms),
         \A m \in ToSet(ms) : m.from = x,
         NEW i \in Insts, NEW j \in Insts, NEW p \in Ids,
         j # x \/ \A m \in ToSet(ms) : ~Places(m, p) /\ m.t # "leave",
         Listed(i, j)' = Listed(i, j), outq'[j] = outq[j]
  PROVE  /\ Unlisted(i, j, p) => Unlisted(i, j, p)'
         /\ Reached(i, j, p) => Reached(i, j, p)'
<1> DEFINE A == Adding(j, p)
           R == Removing(j, p)
           T == AddingTo(j, i, p)
<1>1. ToSet(ms) \cap A = {} /\ ToSet(ms) \cap R = {}
  BY DEF Adding, Removing
<1>2. net[i] \in Seq(Message) /\ outq[j] \in Seq(Message)
  BY DEF TypeOK
<1>3. net'[i] = net[i] \/ net'[i] = net[i] \o ms
  BY DEF Appended
<1>4. /\ Unlisted(i, j, p)' <=> Answered(net'[i], outq[j], A, R)
                                /\ (p \in Listed(i, j) => Has(net'[i], outq[j], R))
      /\ Reached(i, j, p)' <=> Answered(net'[i], outq[j], R, T)
                               /\ (p \notin Listed(i, j) => Has(net'[i], outq[j], T))
  BY PartsNext
<1>5. /\ Unlisted(i, j, p) <=> Answered(net[i], outq[j], A, R)
                               /\ (p \in Listed(i, j) => Has(net[i], outq[j], R))
      /\ Reached(i, j, p) <=> Answered(net[i], outq[j], R, T)
                              /\ (p \notin Listed(i, j) => Has(net[i], outq[j], T))
  BY DEF Unlisted, Reached
<1> HIDE DEF A, R, T
<1>6. /\ Answered(net[i], outq[j], A, R) => Answered(net[i] \o ms, outq[j], A, R)
      /\ Has(net[i], outq[j], R) => Has(net[i] \o ms, outq[j], R)
  BY <1>1, <1>2, HarmlessAnswered
<1>7. /\ Answered(net[i], outq[j], R, T) => Answered(net[i] \o ms, outq[j], R, T)
      /\ Has(net[i], outq[j], T) => Has(net[i] \o ms, outq[j], T)
  BY <1>1, <1>2, HarmlessAnswered
<1> QED
  BY <1>3, <1>4, <1>5, <1>6, <1>7

LEMMA AppendedSet ==
  ASSUME TypeOK, NEW x \in Insts, NEW ms \in Seq(Message), Appended(x, ms), NEW i \in Insts
  PROVE  ToSet(net'[i]) \subseteq ToSet(net[i]) \cup (IF i = x THEN {} ELSE ToSet(ms))
<1>1. net[i] \in Seq(Message)
  BY DEF TypeOK
<1>2. ToSet(net[i] \o ms) = ToSet(net[i]) \cup ToSet(ms)
  BY <1>1, ConcatSet
<1> QED
  BY <1>2 DEF Appended

LEMMA PubUpKnown ==
  ASSUME TypeOK, Known, NEW x \in Insts, PubUp(x)
  PROVE  Known'
<1> DEFINE ms == outq[x]
<1>0. /\ Up(x) /\ ms \in Seq(Message)
      /\ net' = [j \in Insts |-> IF Hears(x, j) THEN net[j] \o ms ELSE net[j]]
      /\ outq' = [outq EXCEPT ![x] = <<>>] /\ outq \in [Insts -> Seq(Message)]
      /\ pubUp' = [pubUp EXCEPT ![x] = TRUE] /\ pubUp \in [Insts -> BOOLEAN]
      /\ UNCHANGED <<inst, local, remote, subUp, moved>>
  BY DEF PubUp, TypeOK
<1>1. /\ missed' = missed \cup {x} \X (IF ms = <<>> THEN {} ELSE Deaf(x))
      /\ gap' = gap \cup {x} \X (IF ms = <<>> THEN {} ELSE Deaf(x))
  BY DEF PubUp
<1>2. NetOK /\ QueueOK /\ LinksOK /\ ListsOK
  BY DEF Known, Wired
<1>3. outq'[x] = <<>> /\ \A k \in Insts : k # x => outq'[k] = outq[k]
  BY <1>0
<1>4. Appended(x, ms)
  BY <1>0 DEF Appended, Hears
<1>5. \A m \in ToSet(ms) : m.from = x /\ m.t # "bye" /\ (m.t = "evict" => m.id \in moved)
  BY <1>2 DEF QueueOK
<1>6. \A i \in Insts : ToSet(net'[i]) \subseteq ToSet(net[i]) \cup (IF i = x THEN {} ELSE ToSet(outq[x]))
  BY <1>0, <1>4, AppendedSet
<1>7. NetOK'
  BY <1>0, <1>2, <1>5, <1>6 DEF NetOK, Up
<1>8. ToSet(<<>>) = {}
  BY DEF ToSet
<1>9. QueueOK'
  BY <1>0, <1>2, <1>3, <1>8 DEF QueueOK
<1>10. LinksOK'
  <2> SUFFICES ASSUME NEW i \in Insts
               PROVE  /\ pubUp'[i] => outq'[i] = <<>>
                      /\ ~subUp[i] => net'[i] = <<>>
                      /\ ~Up(i) => ~pubUp'[i] /\ ~subUp[i] /\ outq'[i] = <<>>
    BY <1>0 DEF LinksOK, Up
  <2>1. pubUp'[i] => outq'[i] = <<>>
    BY <1>0, <1>2, <1>3 DEF LinksOK
  <2>2. ~subUp[i] => net'[i] = <<>>
    BY <1>2, <1>4 DEF LinksOK, Appended
  <2>3. ~Up(i) => ~pubUp'[i] /\ ~subUp[i] /\ outq'[i] = <<>>
    BY <1>0, <1>2, <1>3 DEF LinksOK
  <2> QED
    BY <2>1, <2>2, <2>3
<1>11. ListsOK'
  BY <1>0, <1>2 DEF ListsOK, Up
<1>12. OnePlace'
  <2> SUFFICES ASSUME NEW j \in Insts, NEW p \in DOMAIN local[j], p \notin moved
               PROVE  Alone(j, p)'
    BY <1>0 DEF OnePlace
  <2>1. Alone(j, p)
    BY DEF Known, OnePlace
  <2>2. \A m : Places(m, p)' <=> Places(m, p)
    BY DEF Places
  <2> QED
    BY <1>0, <1>3, <1>6, <1>8, <2>1, <2>2 DEF Alone
<1>13. /\ \A i, j \in Insts : Listed(i, j)' = Listed(i, j) /\ (Up(i)' <=> Up(i))
       /\ \A j \in Insts : \A p \in Ids :
            (Absent(j, p)' <=> Absent(j, p)) /\ (Present(j, p)' <=> Present(j, p))
  BY <1>0 DEF Listed, Up, Absent, Present
<1>14. QueueEnded'
  <2> SUFFICES ASSUME NEW j \in Insts, NEW p \in Ids, Absent(j, p)
               PROVE  Ends(outq'[j], Adding(j, p), Removing(j, p))
    BY <1>13, PartsNext DEF QueueEnded
  <2>1. Ends(outq[j], Adding(j, p), Removing(j, p))
    BY DEF Known, QueueEnded
  <2>2. j = x => Ends(outq'[j], Adding(j, p), Removing(j, p))
    BY <1>3 DEF Ends
  <2> QED
    BY <1>3, <2>1, <2>2
<1>15. ASSUME NEW i \in Insts, i # x, Up(i), i \notin (IF ms = <<>> THEN {} ELSE Deaf(x)), NEW A, NEW R,
              Answered(net[i], ms, A, R)
       PROVE  Answered(net'[i], outq'[x], A, R) /\ (Has(net[i], ms, R) => Has(net'[i], outq'[x], R))
  <2>1. net[i] \in Seq(Message)
    BY DEF TypeOK
  <2>2. CASE Hears(x, i)
    <3>1. net'[i] = net[i] \o ms
      BY <1>0, <2>2
    <3> QED
      BY <1>0, <1>3, <1>15, <2>1, <3>1, FlushedAnswered
  <2>3. CASE ~Hears(x, i)
    <3>1. ms = <<>>
      BY <1>15, <2>3 DEF Hears, Deaf
    <3>2. net'[i] = net[i]
      BY <1>0, <2>3
    <3> QED
      BY <1>3, <1>15, <3>1, <3>2
  <2> QED
    BY <2>2, <2>3
<1>16. NoGhosts'
  <2> SUFFICES ASSUME NEW i \in Insts, NEW j \in Insts, NEW p \in Ids,
                      i # j, Up(i), <<j, i>> \notin missed', Absent(j, p)
               PROVE  Unlisted(i, j, p)'
    BY <1>13 DEF NoGhosts
  <2>1. <<j, i>> \notin missed /\ (j = x => i \notin (IF ms = <<>> THEN {} ELSE Deaf(x)))
    BY <1>1
  <2>2. Unlisted(i, j, p)
    BY <2>1 DEF Known, NoGhosts
  <2>3. CASE j # x
    BY <1>0, <1>3, <1>4, <1>5, <1>13, <2>2, <2>3, AppendedPair
  <2>4. CASE j = x
    <3>1. /\ Answered(net[i], ms, Adding(j, p), Removing(j, p))
          /\ p \in Listed(i, j) => Has(net[i], ms, Removing(j, p))
      BY <2>2, <2>4 DEF Unlisted
    <3>2. /\ Answered(net'[i], outq'[j], Adding(j, p), Removing(j, p))
          /\ p \in Listed(i, j)' => Has(net'[i], outq'[j], Removing(j, p))
      BY <1>13, <1>15, <2>1, <2>4, <3>1
    <3> QED
      BY <3>2, PartsNext
  <2> QED
    BY <2>3, <2>4
<1>17. AllReached'
  <2> SUFFICES ASSUME NEW i \in Insts, NEW j \in Insts, NEW p \in Ids,
                      i # j, Up(i), Up(j), <<j, i>> \notin gap', Present(j, p)
               PROVE  Reached(i, j, p)'
    BY <1>13 DEF AllReached
  <2>1. <<j, i>> \notin gap /\ (j = x => i \notin (IF ms = <<>> THEN {} ELSE Deaf(x)))
    BY <1>1
  <2>2. Reached(i, j, p)
    BY <2>1 DEF Known, AllReached
  <2>3. CASE j # x
    BY <1>0, <1>3, <1>4, <1>5, <1>13, <2>2, <2>3, AppendedPair
  <2>4. CASE j = x
    <3>1. /\ Answered(net[i], ms, Removing(j, p), AddingTo(j, i, p))
          /\ p \notin Listed(i, j) => Has(net[i], ms, AddingTo(j, i, p))
      BY <2>2, <2>4 DEF Reached
    <3>2. /\ Answered(net'[i], outq'[j], Removing(j, p), AddingTo(j, i, p))
          /\ p \notin Listed(i, j)' => Has(net'[i], outq'[j], AddingTo(j, i, p))
      BY <1>13, <1>15, <2>1, <2>4, <3>1
    <3> QED
      BY <3>2, PartsNext
  <2> QED
    BY <2>3, <2>4
<1> QED
  BY <1>7, <1>9, <1>10, <1>11, <1>12, <1>14, <1>16, <1>17 DEF Known, Wired

LEMMA SubDownKnown ==
  ASSUME TypeOK, Known, NEW x \in Insts, SubDown(x)
  PROVE  Known'
<1> DEFINE senders == {m.from : m \in ToSet(net[x])}
<1>0. /\ net' = [net EXCEPT ![x] = <<>>] /\ net \in [Insts -> Seq(Message)]
      /\ subUp' = [subUp EXCEPT ![x] = FALSE] /\ subUp \in [Insts -> BOOLEAN]
      /\ missed' = missed \cup senders \X {x} /\ gap' = gap \cup senders \X {x}
      /\ UNCHANGED <<inst, local, remote, outq, pubUp, moved>>
  BY DEF SubDown, TypeOK
<1>1. net'[x] = <<>> /\ ~subUp'[x] /\ \A i \in Insts : i # x => net'[i] = net[i] /\ subUp'[i] = subUp[i]
  BY <1>0
<1>2. NetOK /\ QueueOK /\ LinksOK /\ ListsOK
  BY DEF Known, Wired
<1>3. \A i \in Insts : ToSet(net'[i]) \subseteq ToSet(net[i])
  <2>1. ToSet(<<>>) = {}
    BY DEF ToSet
  <2> QED
    BY <1>1, <2>1
<1>4. NetOK'
  BY <1>0, <1>2, <1>3 DEF NetOK, Up
<1>5. QueueOK' /\ ListsOK'
  BY <1>0, <1>2 DEF QueueOK, ListsOK, Up
<1>6. LinksOK'
  BY <1>0, <1>1, <1>2 DEF LinksOK, Up
<1>7. OnePlace'
  <2> SUFFICES ASSUME NEW j \in Insts, NEW p \in DOMAIN local[j], p \notin moved
               PROVE  Alone(j, p)'
    BY <1>0 DEF OnePlace
  <2>1. Alone(j, p)
    BY DEF Known, OnePlace
  <2>2. \A m : Places(m, p)' <=> Places(m, p)
    BY DEF Places
  <2> QED
    BY <1>0, <1>3, <2>1, <2>2 DEF Alone
<1>8. /\ \A i, j \in Insts : Listed(i, j)' = Listed(i, j) /\ (Up(i)' <=> Up(i))
      /\ \A j \in Insts : \A p \in Ids :
           (Absent(j, p)' <=> Absent(j, p)) /\ (Present(j, p)' <=> Present(j, p))
  BY <1>0 DEF Listed, Up, Absent, Present
<1>9. QueueEnded'
  <2> SUFFICES ASSUME NEW j \in Insts, NEW p \in Ids, Absent(j, p)
               PROVE  Ends(outq'[j], Adding(j, p), Removing(j, p))
    BY <1>8, PartsNext DEF QueueEnded
  <2> QED
    BY <1>0 DEF Known, QueueEnded
  (* Nothing of an instance that is not missed was on its way.             *)
<1>10. ASSUME NEW i \in Insts, NEW j \in Insts, i = x => j \notin senders, NEW A, NEW R,
              \A m \in A \cup R : m.from = j, Answered(net[i], outq[j], A, R)
       PROVE  Answered(net'[i], outq'[j], A, R) /\ (Has(net[i], outq[j], R) => Has(net'[i], outq'[j], R))
  <2>1. CASE i = x
    <3>1. \A k \in DOMAIN net[i] : net[i][k] \notin A /\ net[i][k] \notin R
      BY <1>10, <2>1 DEF ToSet
    <3>2. Answered(<<>>, outq[j], A, R)
      BY <1>10 DEF Answered
    <3>3. Has(net[i], outq[j], R) => Has(<<>>, outq[j], R)
      BY <3>1 DEF Has
    <3> QED
      BY <1>0, <1>1, <2>1, <3>2, <3>3
  <2>2. CASE i # x
    BY <1>0, <1>1, <1>10, <2>2
  <2> QED
    BY <2>1, <2>2
<1>11. \A i, j \in Insts : \A p \in Ids :
         \A m \in Adding(j, p) \cup Removing(j, p) \cup AddingTo(j, i, p) : m.from = j
  BY DEF Adding, Removing, AddingTo
<1>12. NoGhosts'
  <2> SUFFICES ASSUME NEW i \in Insts, NEW j \in Insts, NEW p \in Ids,
                      i # j, Up(i), <<j, i>> \notin missed', Absent(j, p)
               PROVE  Unlisted(i, j, p)'
    BY <1>8 DEF NoGhosts
  <2>1. <<j, i>> \notin missed /\ (i = x => j \notin senders)
    BY <1>0
  <2>2. Unlisted(i, j, p)
    BY <2>1 DEF Known, NoGhosts
  <2>3. /\ Answered(net'[i], outq'[j], Adding(j, p), Removing(j, p))
        /\ p \in Listed(i, j)' => Has(net'[i], outq'[j], Removing(j, p))
    BY <1>8, <1>10, <1>11, <2>1, <2>2 DEF Unlisted
  <2> QED
    BY <2>3, PartsNext
<1>13. AllReached'
  <2> SUFFICES ASSUME NEW i \in Insts, NEW j \in Insts, NEW p \in Ids,
                      i # j, Up(i), Up(j), <<j, i>> \notin gap', Present(j, p)
               PROVE  Reached(i, j, p)'
    BY <1>8 DEF AllReached
  <2>1. <<j, i>> \notin gap /\ (i = x => j \notin senders)
    BY <1>0
  <2>2. Reached(i, j, p)
    BY <2>1 DEF Known, AllReached
  <2>3. /\ Answered(net'[i], outq'[j], Removing(j, p), AddingTo(j, i, p))
        /\ p \notin Listed(i, j)' => Has(net'[i], outq'[j], AddingTo(j, i, p))
    BY <1>8, <1>10, <1>11, <2>1, <2>2 DEF Reached
  <2> QED
    BY <2>3, PartsNext
<1> QED
  BY <1>4, <1>5, <1>6, <1>7, <1>9, <1>12, <1>13 DEF Known, Wired

(* A new instance has nobody, and nobody is listed for it.                 *)
LEMMA StartKnown ==
  ASSUME TypeOK, Known, NEW x \in Insts, Start(x)
  PROVE  Known'
<1> DEFINE ms == <<Hello(x)>>
<1>0. /\ inst[x] = "off" /\ inst' = [inst EXCEPT ![x] = "up"] /\ inst \in [Insts -> {"off", "up", "down"}]
      /\ pubUp' = [pubUp EXCEPT ![x] = TRUE] /\ pubUp \in [Insts -> BOOLEAN]
      /\ subUp' = [subUp EXCEPT ![x] = TRUE] /\ subUp \in [Insts -> BOOLEAN]
      /\ net' = [j \in Insts |-> IF Hears(x, j) THEN Append(net[j], Hello(x)) ELSE net[j]]
      /\ missed \subseteq missed' /\ gap \cup {j \in Insts : Up(j)} \X {x} \subseteq gap'
      /\ UNCHANGED <<local, remote, outq, moved>> /\ net \in [Insts -> Seq(Message)]
  BY DEF Start, TypeOK
<1>1. /\ ms \in Seq(Message) /\ ToSet(ms) = {Hello(x)}
      /\ \A j \in Insts : Append(net[j], Hello(x)) = net[j] \o ms
  <2>1. ms \in Seq(Message) /\ ToSet(ms) = {Hello(x)} /\ Hello(x) \in Message
    BY MessageIn, Single
  <2> QED
    BY <1>0, <2>1, AppendIsConcat
<1>2. \A m \in ToSet(ms) : m.from = x /\ m.t \notin {"bye", "evict", "leave"} /\ \A p : ~Places(m, p)
  BY <1>1 DEF Hello, Places
<1>3. Appended(x, ms)
  BY <1>0, <1>1 DEF Appended, Hears
<1> HIDE DEF ms
<1>4. NetOK /\ QueueOK /\ LinksOK /\ ListsOK
  BY DEF Known, Wired
<1>5. \A i \in Insts : ToSet(net'[i]) \subseteq ToSet(net[i]) \cup (IF i = x THEN {} ELSE ToSet(ms))
  BY <1>1, <1>3, AppendedSet
<1>6. /\ inst'[x] = "up" /\ pubUp'[x] /\ subUp'[x] /\ ~Up(x)
      /\ \A i \in Insts : i # x => inst'[i] = inst[i] /\ pubUp'[i] = pubUp[i] /\ subUp'[i] = subUp[i]
      /\ net'[x] = <<>> /\ outq[x] = <<>> /\ local[x] = Empty /\ remote[x] = Empty
  <2>1. ~Up(x)
    BY <1>0 DEF Up
  <2>2. net[x] = <<>> /\ outq[x] = <<>> /\ local[x] = Empty /\ remote[x] = Empty
    BY <1>4, <2>1 DEF LinksOK, ListsOK
  <2>3. ~Hears(x, x)
    BY DEF Hears
  <2> QED
    BY <1>0, <2>1, <2>2, <2>3
<1>7. \A i \in Insts : \A m \in ToSet(net[i]) : m.from # x
  BY <1>0, <1>4 DEF NetOK
<1>8. NetOK'
  <2> SUFFICES ASSUME NEW i \in Insts, NEW m \in ToSet(net'[i])
               PROVE  /\ m.from # i /\ inst'[m.from] # "off"
                      /\ m.t = "bye" => inst'[m.from] # "up"
                      /\ m.t = "evict" => m.id \in moved
    BY <1>0 DEF NetOK, Up
  <2>1. CASE m \in ToSet(net[i])
    <3>1. m \in Message
      BY <1>0, <2>1 DEF ToSet
    <3>2. m.from \in Insts /\ m.from # x
      BY <1>7, <2>1, <3>1, MessageOut
    <3> QED
      BY <1>4, <1>6, <2>1, <3>2 DEF NetOK, Up
  <2>2. CASE i # x /\ m \in ToSet(ms)
    BY <1>2, <1>6, <2>2
  <2> QED
    BY <1>5, <2>1, <2>2
<1>9. QueueOK'
  BY <1>0, <1>4 DEF QueueOK
<1>10. LinksOK'
  <2> SUFFICES ASSUME NEW i \in Insts
               PROVE  /\ pubUp'[i] => outq[i] = <<>>
                      /\ ~subUp'[i] => net'[i] = <<>>
                      /\ inst'[i] # "up" => ~pubUp'[i] /\ ~subUp'[i] /\ outq[i] = <<>>
    BY <1>0 DEF LinksOK, Up
  <2>1. CASE i = x
    BY <1>6, <2>1
  <2>2. CASE i # x
    BY <1>3, <1>4, <1>6, <2>2 DEF LinksOK, Up, Appended
  <2> QED
    BY <2>1, <2>2
<1>11. ListsOK'
  <2>1. \A i \in Insts : ~Up(i)' => local'[i] = Empty /\ remote'[i] = Empty
    BY <1>0, <1>4, <1>6 DEF ListsOK, Up
  <2>2. \A i \in Insts : \A p \in DOMAIN remote[i] : remote[i][p].inst \in Insts
    <3>1. \A i \in Insts : remote[i] \in Maps(View)
      BY MembersViews DEF TypeOK
    <3>2. \A i \in Insts : remote[i] \in [DOMAIN remote[i] -> View]
      BY <3>1, MapsOut
    <3> QED
      BY <3>2 DEF View
  <2>3. \A i \in Insts : \A p \in DOMAIN remote'[i] : inst'[remote'[i][p].inst] # "off"
    BY <1>0, <1>4, <1>6, <2>2 DEF ListsOK
  <2> QED
    BY <2>1, <2>3 DEF ListsOK
<1>12. OnePlace'
  <2> SUFFICES ASSUME NEW j \in Insts, NEW p \in DOMAIN local[j], p \notin moved
               PROVE  Alone(j, p)'
    BY <1>0 DEF OnePlace
  <2>1. Alone(j, p)
    BY DEF Known, OnePlace
  <2>2. \A m : Places(m, p)' <=> Places(m, p)
    BY DEF Places
  <2> QED
    BY <1>0, <1>2, <1>5, <2>1, <2>2 DEF Alone
<1>13. /\ \A i, j \in Insts : Listed(i, j)' = Listed(i, j)
       /\ \A i \in Insts : i # x => (Up(i)' <=> Up(i))
       /\ \A j \in Insts : \A p \in Ids :
            (j # x => (Absent(j, p)' <=> Absent(j, p))) /\ (Present(j, p)' <=> Present(j, p))
  BY <1>0, <1>6 DEF Listed, Up, Absent, Present
<1>14. \A j \in Insts : Listed(x, j) = {} /\ Listed(j, x) = {} /\ \A p : ~Present(x, p)
  <2>1. DOMAIN Empty = {}
    BY DEF Empty
  <2> QED
    BY <1>0, <1>4, <1>6, <2>1 DEF Listed, ListsOK, Present
<1>15. QueueEnded'
  <2> SUFFICES ASSUME NEW j \in Insts, NEW p \in Ids, Absent(j, p)'
               PROVE  Ends(outq'[j], Adding(j, p), Removing(j, p))
    BY PartsNext DEF QueueEnded
  <2>1. j = x => Ends(outq'[j], Adding(j, p), Removing(j, p))
    BY <1>0, <1>6 DEF Ends
  <2> QED
    BY <1>0, <1>13, <2>1 DEF Known, QueueEnded
<1>16. NoGhosts'
  <2> SUFFICES ASSUME NEW i \in Insts, NEW j \in Insts, NEW p \in Ids,
                      i # j, Up(i)', <<j, i>> \notin missed', Absent(j, p)'
               PROVE  Unlisted(i, j, p)'
    BY DEF NoGhosts
  <2>1. CASE i # x /\ j # x
    <3>1. Up(i) /\ Absent(j, p) /\ <<j, i>> \notin missed
      BY <1>0, <1>13, <2>1
    <3>2. Unlisted(i, j, p)
      BY <3>1 DEF Known, NoGhosts
    <3> QED
      BY <1>0, <1>1, <1>2, <1>3, <1>13, <2>1, <3>2, AppendedPair
  <2>2. CASE j = x
    <3>1. \A m \in ToSet(net'[i]) : ~(m.from = x /\ Places(m, p))
      BY <1>2, <1>5, <1>7
    <3>2. \A k \in DOMAIN net'[i] : net'[i][k] \notin Adding(x, p)
      BY <3>1 DEF ToSet, Adding
    <3>3. Answered(net'[i], outq'[x], Adding(x, p), Removing(x, p))
      BY <1>0, <1>6, <3>2 DEF Answered, Ends
    <3> QED
      BY <1>13, <1>14, <2>2, <3>3, PartsNext
  <2>3. CASE i = x /\ j # x
    <3>1. Absent(j, p)
      BY <1>13, <2>3
    <3>2. Ends(outq'[j], Adding(j, p), Removing(j, p))
      BY <1>0, <3>1 DEF Known, QueueEnded
    <3>3. Answered(net'[i], outq'[j], Adding(j, p), Removing(j, p))
      BY <1>6, <2>3, <3>2 DEF Answered
    <3> QED
      BY <1>13, <1>14, <2>3, <3>3, PartsNext
  <2> QED
    BY <2>1, <2>2, <2>3
<1>17. AllReached'
  <2> SUFFICES ASSUME NEW i \in Insts, NEW j \in Insts, NEW p \in Ids,
                      i # j, Up(i)', Up(j)', <<j, i>> \notin gap', Present(j, p)'
               PROVE  Reached(i, j, p)'
    BY DEF AllReached
  <2>1. j # x /\ Present(j, p) /\ Up(j)
    BY <1>13, <1>14
  <2>2. i # x /\ Up(i) /\ <<j, i>> \notin gap
    BY <1>0, <1>13, <2>1
  <2>3. Reached(i, j, p)
    BY <2>1, <2>2 DEF Known, AllReached
  <2> QED
    BY <1>0, <1>1, <1>2, <1>3, <1>13, <2>1, <2>3, AppendedPair
<1> QED
  BY <1>8, <1>9, <1>10, <1>11, <1>12, <1>15, <1>16, <1>17 DEF Known, Wired

(* An instance that goes takes its lists and its queue with it.            *)
LEMMA GoneKnown ==
  ASSUME TypeOK, Known, NEW x \in Insts, Up(x), Gone(x), NEW ms \in Seq(Message),
         \A m \in ToSet(ms) : m.from = x /\ m.t \in {"bye", "leave"},
         net'[x] = <<>>,
         \A i \in Insts : i # x => net'[i] = net[i] \/ (subUp[i] /\ Up(i) /\ net'[i] = net[i] \o ms)
  PROVE  Known'
<1>0. /\ inst' = [inst EXCEPT ![x] = "down"] /\ inst \in [Insts -> {"off", "up", "down"}]
      /\ local' = [local EXCEPT ![x] = Empty] /\ local \in [Insts -> Members]
      /\ remote' = [remote EXCEPT ![x] = Empty] /\ remote \in [Insts -> Views]
      /\ outq' = [outq EXCEPT ![x] = <<>>] /\ outq \in [Insts -> Seq(Message)]
      /\ pubUp' = [pubUp EXCEPT ![x] = FALSE] /\ pubUp \in [Insts -> BOOLEAN]
      /\ subUp' = [subUp EXCEPT ![x] = FALSE] /\ subUp \in [Insts -> BOOLEAN]
      /\ UNCHANGED <<moved, missed, gap>> /\ net \in [Insts -> Seq(Message)]
  BY DEF Gone, history, TypeOK
<1>1. /\ inst'[x] = "down" /\ local'[x] = Empty /\ remote'[x] = Empty /\ outq'[x] = <<>>
      /\ ~pubUp'[x] /\ ~subUp'[x]
      /\ \A i \in Insts : i # x =>
           /\ inst'[i] = inst[i] /\ local'[i] = local[i] /\ remote'[i] = remote[i] /\ outq'[i] = outq[i]
           /\ pubUp'[i] = pubUp[i] /\ subUp'[i] = subUp[i]
  BY <1>0
<1>2. NetOK /\ QueueOK /\ LinksOK /\ ListsOK
  BY DEF Known, Wired
<1>3. DOMAIN Empty = {} /\ ToSet(<<>>) = {}
  BY DEF Empty, ToSet
<1>4. ASSUME NEW i \in Insts
      PROVE  ToSet(net'[i]) \subseteq ToSet(net[i]) \cup (IF i = x THEN {} ELSE ToSet(ms))
  <2>1. ToSet(net[i] \o ms) = ToSet(net[i]) \cup ToSet(ms)
    BY <1>0, ConcatSet
  <2> QED
    BY <1>3, <2>1
<1>5. \A i \in Insts : ToSet(outq'[i]) \subseteq ToSet(outq[i]) /\ DOMAIN local'[i] \subseteq DOMAIN local[i]
  BY <1>1, <1>3
<1>6. NetOK'
  <2> SUFFICES ASSUME NEW i \in Insts, NEW m \in ToSet(net'[i])
               PROVE  /\ m.from # i /\ inst'[m.from] # "off"
                      /\ m.t = "bye" => inst'[m.from] # "up"
                      /\ m.t = "evict" => m.id \in moved
    BY <1>0 DEF NetOK, Up
  <2>1. CASE m \in ToSet(net[i])
    BY <1>0, <1>2, <2>1 DEF NetOK, Up
  <2>2. CASE i # x /\ m \in ToSet(ms)
    BY <1>1, <2>2
  <2> QED
    BY <1>4, <2>1, <2>2
<1>7. QueueOK'
  BY <1>0, <1>2, <1>5 DEF QueueOK
<1>8. LinksOK'
  <2> SUFFICES ASSUME NEW i \in Insts
               PROVE  /\ pubUp'[i] => outq'[i] = <<>>
                      /\ ~subUp'[i] => net'[i] = <<>>
                      /\ inst'[i] # "up" => ~pubUp'[i] /\ ~subUp'[i] /\ outq'[i] = <<>>
    BY DEF LinksOK, Up
  <2>1. CASE i = x
    BY <1>1, <2>1
  <2>2. CASE i # x
    BY <1>1, <1>2, <2>2 DEF LinksOK, Up
  <2> QED
    BY <2>1, <2>2
<1>9. ListsOK'
  <2>1. \A i \in Insts : ~Up(i)' => local'[i] = Empty /\ remote'[i] = Empty
    BY <1>1, <1>2 DEF ListsOK, Up
  <2>2. \A i \in Insts : \A p \in DOMAIN remote'[i] : inst'[remote'[i][p].inst] # "off"
    BY <1>0, <1>1, <1>2, <1>3 DEF ListsOK
  <2> QED
    BY <2>1, <2>2 DEF ListsOK
<1>10. OnePlace'
  <2> SUFFICES ASSUME NEW j \in Insts, NEW p \in DOMAIN local'[j], p \notin moved
               PROVE  Alone(j, p)'
    BY <1>0 DEF OnePlace
  <2>1. Alone(j, p)
    BY <1>5 DEF Known, OnePlace
  <2>2. \A m : Places(m, p)' <=> Places(m, p)
    BY DEF Places
  <2>3. \A m \in ToSet(ms) : ~Places(m, p)
    BY DEF Places
  <2> QED
    BY <1>4, <1>5, <2>1, <2>2, <2>3 DEF Alone
<1>11. ASSUME NEW i \in Insts
       PROVE  /\ Up(i)' => Up(i) /\ i # x
              /\ \A p \in Ids : Absent(i, p)' => Absent(i, p) /\ i # x
              /\ \A p \in Ids : i # x => (Present(i, p)' <=> Present(i, p))
              /\ \A j \in Insts : i # x => Listed(i, j)' = Listed(i, j)
  BY <1>0, <1>1 DEF Up, Absent, Present, Listed
<1>12. QueueEnded'
  <2> SUFFICES ASSUME NEW j \in Insts, NEW p \in Ids, Absent(j, p)'
               PROVE  Ends(outq'[j], Adding(j, p), Removing(j, p))
    BY PartsNext DEF QueueEnded
  <2> QED
    BY <1>1, <1>11 DEF Known, QueueEnded
  (* What is on its way from one of the others to another one.             *)
<1>13. ASSUME NEW i \in Insts, NEW j \in Insts, i # x, j # x, NEW A, NEW R,
              ToSet(ms) \cap A = {}, Answered(net[i], outq[j], A, R)
       PROVE  Answered(net'[i], outq'[j], A, R) /\ (Has(net[i], outq[j], R) => Has(net'[i], outq'[j], R))
  <2>1. net[i] \in Seq(Message) /\ outq[j] \in Seq(Message) /\ outq'[j] = outq[j]
    BY <1>0, <1>1, <1>13
  <2>2. /\ Answered(net[i] \o ms, outq[j], A, R)
        /\ Has(net[i], outq[j], R) => Has(net[i] \o ms, outq[j], R)
    BY <1>13, <2>1, HarmlessAnswered
  <2> QED
    BY <1>13, <2>1, <2>2
<1>14. \A j \in Insts, p \in Ids : j # x =>
         ToSet(ms) \cap Adding(j, p) = {} /\ ToSet(ms) \cap Removing(j, p) = {}
  BY DEF Adding, Removing
<1>15. NoGhosts'
  <2> SUFFICES ASSUME NEW i \in Insts, NEW j \in Insts, NEW p \in Ids,
                      i # j, Up(i)', <<j, i>> \notin missed, Absent(j, p)'
               PROVE  Unlisted(i, j, p)'
    BY <1>0 DEF NoGhosts
  <2>1. Up(i) /\ i # x /\ Absent(j, p) /\ j # x /\ Listed(i, j)' = Listed(i, j)
    BY <1>11
  <2>2. Unlisted(i, j, p)
    BY <2>1 DEF Known, NoGhosts
  <2>3. /\ Answered(net'[i], outq'[j], Adding(j, p), Removing(j, p))
        /\ p \in Listed(i, j)' => Has(net'[i], outq'[j], Removing(j, p))
    BY <1>13, <1>14, <2>1, <2>2 DEF Unlisted
  <2> QED
    BY <2>3, PartsNext
<1>16. AllReached'
  <2> SUFFICES ASSUME NEW i \in Insts, NEW j \in Insts, NEW p \in Ids,
                      i # j, Up(i)', Up(j)', <<j, i>> \notin gap, Present(j, p)'
               PROVE  Reached(i, j, p)'
    BY <1>0 DEF AllReached
  <2>1. Up(i) /\ Up(j) /\ i # x /\ Present(j, p) /\ j # x /\ Listed(i, j)' = Listed(i, j)
    BY <1>11
  <2>2. Reached(i, j, p)
    BY <2>1 DEF Known, AllReached
  <2>3. /\ Answered(net'[i], outq'[j], Removing(j, p), AddingTo(j, i, p))
        /\ p \notin Listed(i, j)' => Has(net'[i], outq'[j], AddingTo(j, i, p))
    BY <1>13, <1>14, <2>1, <2>2 DEF Reached
  <2> QED
    BY <2>3, PartsNext
<1> QED
  BY <1>6, <1>7, <1>8, <1>9, <1>10, <1>12, <1>15, <1>16 DEF Known, Wired

LEMMA Regroup ==
  ASSUME NEW a \in Seq(Message), NEW b \in Seq(Message), NEW c \in Seq(Message)
  PROVE  (a \o b) \o c = a \o (b \o c)
OBVIOUS

LEMMA StopKnown ==
  ASSUME TypeOK, Known, NEW x \in Insts, Crash(x) \/ Stop(x)
  PROVE  Known'
<1>1. Up(x) /\ Gone(x) /\ net \in [Insts -> Seq(Message)]
  BY DEF Crash, Stop, TypeOK
<1>2. CASE Crash(x)
  <2>1. <<>> \in Seq(Message) /\ ToSet(<<>>) = {}
    BY DEF ToSet
  <2>2. net'[x] = <<>> /\ \A i \in Insts : i # x => net'[i] = net[i]
    BY <1>1, <1>2 DEF Crash
  <2> QED
    BY <1>1, <2>1, <2>2, GoneKnown
<1>3. CASE Stop(x)
  <2> DEFINE bye == [t |-> "bye", from |-> x]
  <2>1. PICK order \in SetToSeqs(DOMAIN local[x]) :
          net' = [j \in Insts |-> IF j = x THEN <<>>
                   ELSE IF pubUp[x] /\ Hears(x, j)
                        THEN Append(net[j], bye) \o Goodbyes(x, order)
                        ELSE net[j]]
    BY <1>3 DEF Stop
  <2>2. local[x] \in Maps(Gens)
    BY MembersViews DEF TypeOK
  <2>3. DOMAIN local[x] \subseteq Ids /\ local[x] \in [DOMAIN local[x] -> Gens]
    BY <2>2, MapsOut
  <2> DEFINE n == Cardinality(DOMAIN local[x])
             gs == Goodbyes(x, order)
  <2>4. n \in Nat
    BY <2>3, ClusterAssumption, FS_Subset, FS_CardinalityType
  <2>5. order \in [1 .. n -> DOMAIN local[x]]
    BY DEF SetToSeqs
  <2>6. \A id \in DOMAIN local[x] :
          LET m == [t |-> "leave", from |-> x, id |-> id, held |-> local[x][id]] IN
          m \in Message /\ m.from = x /\ m.t = "leave"
    BY <2>3, MessageIn DEF Leaving
  <2> DEFINE Leaves == {m \in Message : m.from = x /\ m.t = "leave"}
  <2>7. gs \in [1 .. n -> Leaves]
    BY <2>5, <2>6 DEF Goodbyes
  <2> HIDE DEF n, gs
  <2>8. gs \in Seq(Message) /\ DOMAIN gs = 1 .. n
    BY <2>4, <2>7, IsASeq
  <2>9. \A m \in ToSet(gs) : m.from = x /\ m.t = "leave"
    BY <2>7, <2>8 DEF ToSet
  <2>10. bye \in Message /\ bye.from = x /\ bye.t = "bye"
    BY MessageIn
  <2> HIDE DEF bye
  <2> DEFINE ms == <<bye>> \o gs
  <2>11. <<bye>> \in Seq(Message) /\ ToSet(<<bye>>) = {bye}
    BY <2>10, Single
  <2>12. ms \in Seq(Message) /\ ToSet(ms) = {bye} \cup ToSet(gs)
    BY <2>8, <2>11, ConcatProperties, ConcatSet
  <2>13. \A j \in Insts : Append(net[j], bye) \o gs = net[j] \o ms
    <3> SUFFICES ASSUME NEW j \in Insts
                 PROVE  Append(net[j], bye) \o gs = net[j] \o ms
      OBVIOUS
    <3>1. net[j] \in Seq(Message)
      BY <1>1
    <3>2. Append(net[j], bye) = net[j] \o <<bye>>
      BY <2>10, <3>1, AppendIsConcat
    <3>3. (net[j] \o <<bye>>) \o gs = net[j] \o (<<bye>> \o gs)
      BY <2>8, <2>11, <3>1, Regroup
    <3> QED
      BY <3>2, <3>3
  <2>14. \A m \in ToSet(ms) : m.from = x /\ m.t \in {"bye", "leave"}
    BY <2>9, <2>10, <2>12
  <2> HIDE DEF ms
  <2>15. /\ net'[x] = <<>>
         /\ \A i \in Insts : i # x => net'[i] = net[i] \/ (subUp[i] /\ Up(i) /\ net'[i] = net[i] \o ms)
    BY <2>1, <2>13 DEF Hears, gs
  <2> QED
    BY <1>1, <2>12, <2>14, <2>15, GoneKnown
<1> QED
  BY <1>2, <1>3

LEMMA InitKnown == Init => Known
<1> SUFFICES ASSUME Init PROVE Known
  OBVIOUS
<1>1. DOMAIN Empty = {} /\ ToSet(<<>>) = {}
  BY DEF Empty, ToSet
<1>2. \A i \in Insts :
        /\ inst[i] = "off" /\ local[i] = Empty /\ remote[i] = Empty
        /\ net[i] = <<>> /\ outq[i] = <<>> /\ ~pubUp[i] /\ ~subUp[i]
  BY DEF Init
<1>3. NetOK /\ QueueOK /\ LinksOK /\ ListsOK
  BY <1>1, <1>2 DEF NetOK, QueueOK, LinksOK, ListsOK, Up
<1>4. OnePlace
  BY <1>1, <1>2 DEF OnePlace
<1>5. QueueEnded /\ NoGhosts /\ AllReached
  BY <1>2 DEF QueueEnded, NoGhosts, AllReached, Absent, Up
<1> QED
  BY <1>3, <1>4, <1>5 DEF Known, Wired

LEMMA NextKnown == TypeOK /\ Known /\ [Next]_vars => Known'
<1> SUFFICES ASSUME TypeOK, Known, [Next]_vars PROVE Known'
  OBVIOUS
<1>1. CASE UNCHANGED vars
  <2>1. UNCHANGED <<inst, local, remote, net, outq, subUp, moved, missed, gap>> /\ pubUp' = pubUp
    BY <1>1 DEF vars
  <2> QED
    BY <2>1, StillKnown
<1>2. CASE Next
  <2>1. PICK i \in Insts :
          \/ PubDown(i) \/ PubUp(i) \/ SubDown(i) \/ SubUp(i) \/ Start(i)
          \/ Crash(i) \/ Stop(i)
          \/ Tick(i)
          \/ Deliver(i)
          \/ \E j \in Insts : Silence(i, j)
          \/ \E own \in Ids, want \in Ids \cup {NoId}, secret \in Gens, account \in Ids \cup {NoId} :
               Join(i, own, want, secret, account)
          \/ \E id \in Ids : Leave(i, id) \/ Lost(i, id) \/ Update(i, id) \/ Forget(i, id)
          \/ \E id \in Ids : Sweep(i, id)
    BY <1>2 DEF Next
  <2>2. CASE PubDown(i) \/ (\E j \in Insts : Silence(i, j)) \/ (\E id \in Ids : Sweep(i, id))
    BY <2>2, QuietKnown
  <2>3. CASE PubUp(i) \/ SubDown(i) \/ SubUp(i) \/ Start(i) \/ Crash(i) \/ Stop(i)
    BY <2>3, PubUpKnown, SubDownKnown, SubUpKnown, StartKnown, StopKnown
  <2>4. CASE Tick(i) \/ Deliver(i)
    BY <2>4, TickKnown, DeliverKnown
  <2>5. CASE \E own \in Ids, want \in Ids \cup {NoId}, secret \in Gens, account \in Ids \cup {NoId} :
               Join(i, own, want, secret, account)
    BY <2>5, JoinKnown
  <2>6. CASE \E id \in Ids : Leave(i, id) \/ Lost(i, id) \/ Update(i, id) \/ Forget(i, id)
    BY <2>6, LeaveKnown, UpdateKnown, ForgetKnown
  <2> QED
    BY <2>1, <2>2, <2>3, <2>4, <2>5, <2>6
<1> QED
  BY <1>1, <1>2

(* What an instance lists of the others is what is connected to them, once *)
(* nothing is on its way, but for what a lost message or a member that was *)
(* in two places explains: over every order of joins, leaves, states,      *)
(* crashes, silences and lost links, for any number of instances.          *)
THEOREM KnownAlwaysTrue == Spec => []KnownIsTrue
<1>1. Sound => TypeOK
  BY DEF Sound
<1>2. Spec => []TypeOK
  BY <1>1, SoundAlways, PTL
<1>3. Spec => []Known
  BY <1>2, InitKnown, NextKnown, PTL DEF Spec
<1>4. TypeOK /\ Known => KnownIsTrue
  BY KnownSuffices
<1> QED
  BY <1>2, <1>3, <1>4, PTL
=============================================================================
