---------------------------- MODULE ClusterRooms ----------------------------
(***************************************************************************)
(* One room on several instances of the server: what each instance knows   *)
(* of the members on the others (server/signaling/cluster.ts), what the    *)
(* hub does with it (server/signaling/hub.ts), and the bus between them    *)
(* (server/cluster/bus.ts over resp.ts).                                   *)
(*                                                                         *)
(* The bus is Redis pub/sub: a subscriber gets what is published while its *)
(* own link is up, in one order for all; a publisher whose link is down    *)
(* queues.  An instance that restarts has a new instance id, so an         *)
(* instance here starts once and stops or crashes once.  Rooms do not      *)
(* interact in this part of the code: one room stands for each of them.    *)
(* A resume secret is the number of the join that gave it out.             *)
(*                                                                         *)
(* Not modelled: a publish the bus sends again because its answer was      *)
(* lost, the limits of the held members (HubRooms has them), frames that   *)
(* go to members elsewhere (room, chunk, signal, to) and change no room,   *)
(* ended sessions and away entries told to the others (revoke, away).      *)
(***************************************************************************)
EXTENDS Naturals, Sequences, FiniteSets, SequencesExt

CONSTANTS
  Insts,       \* instance ids
  Ids,         \* peer ids
  NoId, NoGen,
  MaxJoins,    \* bound: joins in all (a join makes a new resume secret)
  MaxEvents,   \* bound: links lost, changes announced and held members forgotten
  MaxQueue     \* what a publisher queues while its link is down

ASSUME ClusterAssumption ==
  /\ IsFiniteSet(Ids) /\ NoId \notin Ids /\ NoGen \notin Nat
  /\ MaxJoins \in Nat /\ MaxEvents \in Nat
  /\ MaxQueue \in Nat \ {0}

VARIABLES
  inst,    \* instance -> off, up or down
  local,   \* instance -> peer id -> resume secret of its connection (hub.rooms)
  held,    \* instance -> peer id -> resume secret (hub.held)
  remote,  \* instance -> peer id -> [inst, gen] (ClusterRooms.remote)
  seen,    \* instance -> instance -> no, fresh or stale (silent for GONE_MS)
  net,     \* instance -> what its subscription will still hand it
  outq,    \* instance -> what it queued for publishing (RedisBus.queue)
  pubUp, subUp,  \* instance -> its two links
  joins, events,
  moved,   \* history: ids that joined an instance while another one had them
  missed,  \* history: <<j, i>>: a message of j never reached i
  gap      \* history: <<j, i>>: missed, or given up, and not told anew since

links == <<outq, pubUp, subUp>>
counters == <<joins, events>>
history == <<moved, missed, gap>>
vars == <<inst, local, held, remote, seen, net, outq, pubUp, subUp,
          joins, events, moved, missed, gap>>

Gens == 0 .. MaxJoins
View == [inst: Insts, gen: Gens]
Members == UNION {[D -> Gens] : D \in SUBSET Ids}
Views   == UNION {[D -> View] : D \in SUBSET Ids}
Message ==
       [t: {"hello", "beat", "bye"}, from: Insts]
  \cup [t: {"join", "update"}, from: Insts, id: Ids, gen: Gens]
  \cup [t: {"leave"}, from: Insts, id: Ids, held: Gens \cup {NoGen}]
  \cup [t: {"left"}, from: Insts, id: Ids]
  \cup [t: {"evict"}, from: Insts, to: Insts, id: Ids]
  \cup [t: {"state"}, from: Insts, to: Insts, members: Members]

TypeOK ==
  /\ inst \in [Insts -> {"off", "up", "down"}]
  /\ local \in [Insts -> Members]
  /\ held \in [Insts -> Members]
  /\ remote \in [Insts -> Views]
  /\ seen \in [Insts -> [Insts -> {"no", "fresh", "stale"}]]
  /\ net \in [Insts -> Seq(Message)]
  /\ outq \in [Insts -> Seq(Message)] /\ \A i \in Insts : Len(outq[i]) <= MaxQueue
  /\ pubUp \in [Insts -> BOOLEAN] /\ subUp \in [Insts -> BOOLEAN]
  /\ missed \subseteq Insts \X Insts /\ gap \subseteq Insts \X Insts
  /\ joins \in 0 .. MaxJoins /\ events \in 0 .. MaxEvents

Empty == [x \in {} |-> x]
Put(f, k, v)  == [x \in DOMAIN f \cup {k} |-> IF x = k THEN v ELSE f[x]]
Without(f, S) == [x \in DOMAIN f \ S |-> f[x]]
Up(i) == inst[i] = "up"

Init ==
  /\ inst = [i \in Insts |-> "off"]
  /\ local = [i \in Insts |-> Empty] /\ held = [i \in Insts |-> Empty]
  /\ remote = [i \in Insts |-> Empty]
  /\ seen = [i \in Insts |-> [j \in Insts |-> "no"]]
  /\ net = [i \in Insts |-> <<>>] /\ outq = [i \in Insts |-> <<>>]
  /\ pubUp = [i \in Insts |-> FALSE] /\ subUp = [i \in Insts |-> FALSE]
  /\ joins = 0 /\ events = 0
  /\ moved = {} /\ missed = {} /\ gap = {}

----------------------------------------------------------------------------
(* The bus.                                                                *)

Hears(i, j) == j # i /\ Up(j) /\ subUp[j]
Deaf(i)     == {j \in Insts : j # i /\ Up(j) /\ ~subUp[j]}

(* Messages of i go out at once, or wait for the link: then only the last  *)
(* MaxQueue of them.                                                       *)
Over(i, ms) == Len(outq[i] \o ms) - MaxQueue
\* Variant: nothing is let go.
QueueAll(i, ms) == outq[i] \o ms
Queue(i, ms) ==
  LET all == outq[i] \o ms IN
  IF Over(i, ms) > 0 THEN SubSeq(all, Over(i, ms) + 1, Len(all)) ELSE all
PublishAfter(base, i, ms) ==
  /\ net' = [j \in Insts |-> IF pubUp[i] /\ Hears(i, j) THEN base[j] \o ms ELSE base[j]]
  /\ outq' = IF pubUp[i] THEN outq ELSE [outq EXCEPT ![i] = Queue(i, ms)]
Publish(i, ms) == PublishAfter(net, i, ms)
Unheard(i, ms) ==
  {i} \X (CASE ms = <<>>                  -> {}
            [] pubUp[i]                   -> Deaf(i)
            [] ~pubUp[i] /\ Over(i, ms) > 0 -> {j \in Insts : j # i /\ Up(j)}
            [] OTHER                      -> {})
(* What an announcement does to the history.                               *)
Told(i, ms) ==
  /\ missed' = missed \cup Unheard(i, ms)
  /\ gap' = gap \cup Unheard(i, ms)

Hello(i) == [t |-> "hello", from |-> i]

(* The publishing link drops, and is back: what was queued goes out.       *)
PubDown(i) ==
  /\ Up(i) /\ pubUp[i] /\ events < MaxEvents
  /\ pubUp' = [pubUp EXCEPT ![i] = FALSE] /\ events' = events + 1
  /\ UNCHANGED <<inst, local, held, remote, seen, net, outq, subUp, joins, history>>
PubUp(i) ==
  /\ Up(i) /\ ~pubUp[i]
  /\ pubUp' = [pubUp EXCEPT ![i] = TRUE]
  /\ net' = [j \in Insts |-> IF Hears(i, j) THEN net[j] \o outq[i] ELSE net[j]]
  /\ outq' = [outq EXCEPT ![i] = <<>>]
  /\ LET lost == {i} \X (IF outq[i] = <<>> THEN {} ELSE Deaf(i)) IN
     missed' = missed \cup lost /\ gap' = gap \cup lost
  /\ UNCHANGED <<inst, local, held, remote, seen, subUp, counters, moved>>

(* The subscription drops with what was on its way, and is back: that is a *)
(* resync, which asks the others who they have.                            *)
SubDown(i) ==
  /\ Up(i) /\ subUp[i] /\ events < MaxEvents
  /\ subUp' = [subUp EXCEPT ![i] = FALSE] /\ events' = events + 1
  /\ net' = [net EXCEPT ![i] = <<>>]
  /\ LET lost == {m.from : m \in ToSet(net[i])} \X {i} IN
     missed' = missed \cup lost /\ gap' = gap \cup lost
  /\ UNCHANGED <<inst, local, held, remote, seen, outq, pubUp, joins, moved>>
SubUp(i) ==
  /\ Up(i) /\ ~subUp[i]
  /\ subUp' = [subUp EXCEPT ![i] = TRUE]
  /\ Publish(i, <<Hello(i)>>) /\ Told(i, <<Hello(i)>>)
  /\ UNCHANGED <<inst, local, held, remote, seen, pubUp, counters, moved>>

----------------------------------------------------------------------------
(* Instances.                                                              *)

(* A new instance says hello; those that run know of others it does not.   *)
Start(i) ==
  /\ inst[i] = "off"
  /\ inst' = [inst EXCEPT ![i] = "up"]
  /\ pubUp' = [pubUp EXCEPT ![i] = TRUE] /\ subUp' = [subUp EXCEPT ![i] = TRUE]
  /\ net' = [j \in Insts |-> IF Hears(i, j) THEN Append(net[j], Hello(i)) ELSE net[j]]
  /\ missed' = missed \cup {i} \X Deaf(i)
  /\ gap' = gap \cup {i} \X Deaf(i) \cup {j \in Insts : Up(j)} \X {i}
  /\ UNCHANGED <<local, held, remote, seen, outq, counters, moved>>

(* The members of the instances in S are held from now on (dropInstance).  *)
DropInstances(i, S) ==
  LET theirs == {p \in DOMAIN remote[i] : remote[i][p].inst \in S} IN
  /\ remote' = [remote EXCEPT ![i] = Without(@, theirs)]
  /\ held' = [held EXCEPT ![i] = [p \in DOMAIN @ \cup theirs |->
                IF p \in theirs THEN remote[i][p].gen ELSE @[p]]]

Gone(i) ==
  /\ inst' = [inst EXCEPT ![i] = "down"]
  /\ local' = [local EXCEPT ![i] = Empty] /\ held' = [held EXCEPT ![i] = Empty]
  /\ remote' = [remote EXCEPT ![i] = Empty]
  /\ seen' = [seen EXCEPT ![i] = [j \in Insts |-> "no"]]
  /\ outq' = [outq EXCEPT ![i] = <<>>]
  /\ pubUp' = [pubUp EXCEPT ![i] = FALSE] /\ subUp' = [subUp EXCEPT ![i] = FALSE]
  /\ UNCHANGED <<counters, history>>
Crash(i) ==
  /\ Up(i) /\ Gone(i)
  /\ net' = [net EXCEPT ![i] = <<>>]

(* A stop says goodbye first and closes the sockets then: their members    *)
(* are announced as held after the goodbye.                                *)
Goodbyes(i, order) ==
  [n \in DOMAIN order |-> [t |-> "leave", from |-> i, id |-> order[n], held |-> local[i][order[n]]]]
Stop(i) ==
  /\ Up(i) /\ Gone(i)
  /\ \E order \in SetToSeqs(DOMAIN local[i]) :
       net' = [j \in Insts |-> IF j = i THEN <<>>
                ELSE IF pubUp[i] /\ Hears(i, j)
                     THEN Append(net[j], [t |-> "bye", from |-> i]) \o Goodbyes(i, order)
                     ELSE net[j]]

(* j was not heard by i for GONE_MS: it is down, or a link between them is. *)
Silence(i, j) ==
  /\ Up(i) /\ seen[i][j] = "fresh"
  /\ ~Up(j) \/ ~pubUp[j] \/ ~subUp[i]
  /\ \A m \in ToSet(net[i]) : m.from # j
  /\ seen' = [seen EXCEPT ![i][j] = "stale"]
  /\ UNCHANGED <<inst, local, held, remote, net, links, counters, history>>

(* The timer (tick): a beat, and who went quiet is given up.  A beat that   *)
(* would tell nobody anything (they hear from us anyway) is left out.      *)
Quiet(i) == {j \in Insts : seen[i][j] = "stale"}
Beat(i) == [t |-> "beat", from |-> i]
Tick(i) ==
  /\ Up(i)
  /\ \/ Quiet(i) # {}
     \/ pubUp[i] /\ \E j \in Insts : /\ Hears(i, j) /\ seen[j][i] = "stale"
                                     /\ \A m \in ToSet(net[j]) : m.from # i
  /\ Publish(i, <<Beat(i)>>)
  /\ seen' = [seen EXCEPT ![i] = [j \in Insts |-> IF j \in Quiet(i) THEN "no" ELSE @[j]]]
  /\ DropInstances(i, Quiet(i))
  /\ missed' = (missed \ {<<j, i>> : j \in {k \in Quiet(i) : \A m \in ToSet(net[i]) : m.from # k}})
                 \cup Unheard(i, <<Beat(i)>>)
  /\ gap' = gap \cup (Quiet(i) \X {i}) \cup Unheard(i, <<Beat(i)>>)
  /\ UNCHANGED <<inst, local, pubUp, subUp, counters, moved>>

----------------------------------------------------------------------------
(* The members of one instance.                                            *)

Joined(i, id)    == [t |-> "join", from |-> i, id |-> id, gen |-> joins + 1]
Left(i, id)      == [t |-> "left", from |-> i, id |-> id]
Leaving(i, id, h) == [t |-> "leave", from |-> i, id |-> id, held |-> h]

(* Who may have the id asked for with a resume secret: whoever is held     *)
(* here, then whoever is elsewhere, then whoever is connected here keeps   *)
(* it from all but the same client; nobody else has a claim to it.         *)
HeldHere(i, want) == want \notin DOMAIN local[i] /\ want \in DOMAIN held[i]
Elsewhere(i, want) ==
  want \notin DOMAIN local[i] /\ want \notin DOMAIN held[i] /\ want \in DOMAIN remote[i]
Granted(i, want, secret) ==
  /\ want # NoId
  /\ HeldHere(i, want)        => secret = held[i][want]
  /\ Elsewhere(i, want)       => secret = remote[i][want].gen
  /\ want \in DOMAIN local[i] => secret = local[i][want]

(* Another instance has the id, or says so in a message still on its way.  *)
Places(m, id) ==
  \/ m.t \in {"join", "update"} /\ m.id = id
  \/ m.t = "state" /\ id \in DOMAIN m.members
Claimed(i, id) ==
  \/ \E k \in Insts \ {i} : id \in DOMAIN local[k]
  \/ \E k \in Insts : \E m \in ToSet(net[k]) \cup ToSet(outq[k]) : m.from # i /\ Places(m, id)

(* A connection that is in no room joins; `own` is its own id, `account`   *)
(* a held member of the account it signs in with, if any.  It replaces the *)
(* same client's connection here without a word, and evicts the one        *)
(* elsewhere.                                                              *)
Join(i, own, want, secret, account) ==
  LET ok  == Granted(i, want, secret)
      id  == IF ok THEN want ELSE own
      out == ok /\ Elsewhere(i, want)
      old == account # NoId /\ account # id
      ms  == (IF out THEN <<[t |-> "evict", from |-> i, to |-> remote[i][want].inst, id |-> want]>>
              ELSE <<>>)
             \o (IF old THEN <<Left(i, account)>> ELSE <<>>) \o <<Joined(i, id)>>
  IN
  /\ Up(i) /\ joins < MaxJoins
  /\ joins' = joins + 1
  /\ account # NoId => account \in DOMAIN held[i]
  /\ local' = [local EXCEPT ![i] = Put(@, id, joins + 1)]
  /\ held' = [held EXCEPT ![i] = Without(@, (IF ok THEN {want} ELSE {})
                                           \cup (IF old THEN {account} ELSE {}))]
  /\ remote' = [remote EXCEPT ![i] = IF out THEN Without(@, {want}) ELSE @]
  /\ Publish(i, ms) /\ Told(i, ms)
  /\ moved' = IF out \/ Claimed(i, id) THEN moved \cup {id} ELSE moved
  /\ UNCHANGED <<inst, seen, pubUp, subUp, events>>

(* It goes: with a goodbye or removed by the server, or with no goodbye,   *)
(* when it is held here and, by the announcement, everywhere.              *)
Leave(i, id) ==
  /\ Up(i) /\ id \in DOMAIN local[i]
  /\ local' = [local EXCEPT ![i] = Without(@, {id})]
  /\ Publish(i, <<Leaving(i, id, NoGen)>>) /\ Told(i, <<Leaving(i, id, NoGen)>>)
  /\ UNCHANGED <<inst, held, remote, seen, pubUp, subUp, counters, moved>>
Lost(i, id) ==
  /\ Up(i) /\ id \in DOMAIN local[i]
  /\ local' = [local EXCEPT ![i] = Without(@, {id})]
  /\ held' = [held EXCEPT ![i] = Put(@, id, local[i][id])]
  /\ LET ms == <<Leaving(i, id, local[i][id])>> IN Publish(i, ms) /\ Told(i, ms)
  /\ UNCHANGED <<inst, remote, seen, pubUp, subUp, counters, moved>>

(* Presence or account of a member changed (setForeground, authenticate).  *)
Update(i, id) ==
  LET ms == <<[t |-> "update", from |-> i, id |-> id, gen |-> local[i][id]]>> IN
  /\ Up(i) /\ id \in DOMAIN local[i] /\ events < MaxEvents
  /\ events' = events + 1
  /\ Publish(i, ms) /\ Told(i, ms)
  /\ UNCHANGED <<inst, local, held, remote, seen, pubUp, subUp, joins, moved>>

(* A held member is gone for good: everywhere (the operator, the account   *)
(* signed in), or here (its time, its session; every instance does this    *)
(* with its own copies).                                                   *)
Forget(i, id) ==
  /\ Up(i) /\ id \in DOMAIN held[i] /\ events < MaxEvents
  /\ events' = events + 1
  /\ held' = [held EXCEPT ![i] = Without(@, {id})]
  /\ Publish(i, <<Left(i, id)>>) /\ Told(i, <<Left(i, id)>>)
  /\ UNCHANGED <<inst, local, remote, seen, pubUp, subUp, joins, moved>>
Sweep(i, id) ==
  /\ Up(i) /\ id \in DOMAIN held[i]
  /\ held' = [held EXCEPT ![i] = Without(@, {id})]
  /\ UNCHANGED <<inst, local, remote, seen, net, links, counters, history>>

----------------------------------------------------------------------------
(* What an instance does with a message (onMessage and the hub's hooks).   *)
(* All of them but a goodbye are also a sign of life.                      *)

Take(i, m) ==
  /\ Up(i) /\ net[i] # <<>> /\ m = Head(net[i])
  /\ seen' = [seen EXCEPT ![i][m.from] = IF m.t = "bye" THEN "no" ELSE "fresh"]
Consumed(i) ==
  /\ net' = [net EXCEPT ![i] = Tail(@)]
  /\ UNCHANGED <<outq, missed, gap>>

(* Who is new here is held no more (add, joined).                          *)
Add(i, members, from) ==
  /\ remote' = [remote EXCEPT ![i] = [p \in DOMAIN @ \cup DOMAIN members |->
                  IF p \in DOMAIN members THEN [inst |-> from, gen |-> members[p]] ELSE @[p]]]
  /\ held' = [held EXCEPT ![i] = Without(@, DOMAIN members \ DOMAIN remote[i])]

\* Variant: whoever was heard of before gets no answer.
OnHelloIfNew(i, m) ==
  LET state == [t |-> "state", from |-> i, to |-> m.from, members |-> local[i]]
      ms == IF seen[i][m.from] = "no" THEN <<state>> ELSE <<>> IN
  /\ m.t = "hello"
  /\ PublishAfter([net EXCEPT ![i] = Tail(@)], i, ms)
  /\ missed' = missed \cup Unheard(i, ms)
  /\ gap' = (gap \ {<<i, m.from>>}) \cup Unheard(i, ms)
  /\ UNCHANGED <<held, remote, local>>
OnHello(i, m) ==
  LET state == [t |-> "state", from |-> i, to |-> m.from, members |-> local[i]] IN
  /\ m.t = "hello"
  /\ PublishAfter([net EXCEPT ![i] = Tail(@)], i, <<state>>)
  /\ missed' = missed \cup Unheard(i, <<state>>)
  /\ gap' = (gap \ {<<i, m.from>>}) \cup Unheard(i, <<state>>)
  /\ UNCHANGED <<held, remote, local>>
OnState(i, m) ==
  /\ m.t = "state"
  /\ IF m.to = i THEN Add(i, m.members, m.from) ELSE UNCHANGED <<held, remote>>
  /\ Consumed(i) /\ UNCHANGED local
OnBeat(i, m) == m.t = "beat" /\ Consumed(i) /\ UNCHANGED <<local, held, remote>>
\* Variant: the instance is forgotten, its members are not.
OnByeKept(i, m) ==
  /\ m.t = "bye" /\ UNCHANGED <<remote, held>>
  /\ Consumed(i) /\ UNCHANGED local
OnBye(i, m) ==
  /\ m.t = "bye" /\ DropInstances(i, {m.from})
  /\ Consumed(i) /\ UNCHANGED local
OnJoin(i, m) ==
  /\ m.t = "join" /\ Add(i, [p \in {m.id} |-> m.gen], m.from)
  /\ Consumed(i) /\ UNCHANGED local
OnUpdate(i, m) ==
  /\ m.t = "update"
  /\ remote' = [remote EXCEPT ![i] =
                  IF m.id \in DOMAIN @ THEN Put(@, m.id, [inst |-> m.from, gen |-> m.gen]) ELSE @]
  /\ Consumed(i) /\ UNCHANGED <<local, held>>
OnLeave(i, m) ==
  /\ m.t = "leave"
  /\ IF m.id \in DOMAIN remote[i] /\ remote[i][m.id].inst = m.from
     THEN /\ remote' = [remote EXCEPT ![i] = Without(@, {m.id})]
          /\ held' = [held EXCEPT ![i] = IF m.held = NoGen THEN Without(@, {m.id})
                                         ELSE Put(@, m.id, m.held)]
     ELSE UNCHANGED <<held, remote>>
  /\ Consumed(i) /\ UNCHANGED local
OnLeft(i, m) ==
  /\ m.t = "left" /\ held' = [held EXCEPT ![i] = Without(@, {m.id})]
  /\ Consumed(i) /\ UNCHANGED <<local, remote>>
(* The connection here is replaced: it leaves and the others hear nothing.  *)
OnEvict(i, m) ==
  /\ m.t = "evict"
  /\ local' = [local EXCEPT ![i] = IF m.to = i THEN Without(@, {m.id}) ELSE @]
  /\ Consumed(i) /\ UNCHANGED <<held, remote>>

Deliver(i) ==
  /\ Up(i) /\ net[i] # <<>>
  /\ LET m == Head(net[i]) IN
     /\ Take(i, m)
     /\ \/ OnHello(i, m) \/ OnState(i, m) \/ OnBeat(i, m) \/ OnBye(i, m) \/ OnJoin(i, m)
        \/ OnUpdate(i, m) \/ OnLeave(i, m) \/ OnLeft(i, m) \/ OnEvict(i, m)
  /\ UNCHANGED <<inst, pubUp, subUp, counters, moved>>

----------------------------------------------------------------------------
(* Peer ids are random: a connection's own is in use by nobody, and nobody *)
(* asks for one that was not given out.                                    *)
Used(id) ==
  \/ \E i \in Insts : id \in DOMAIN local[i] \cup DOMAIN held[i] \cup DOMAIN remote[i]
  \/ \E i \in Insts : \E m \in ToSet(net[i]) \cup ToSet(outq[i]) :
       CASE m.t \in {"hello", "beat", "bye"} -> FALSE
         [] m.t = "state" -> id \in DOMAIN m.members
         [] OTHER -> m.id = id

Next ==
  \E i \in Insts :
    \/ Start(i) \/ Crash(i) \/ Stop(i) \/ Tick(i) \/ Deliver(i)
    \/ PubDown(i) \/ PubUp(i) \/ SubDown(i) \/ SubUp(i)
    \/ \E j \in Insts : Silence(i, j)
    \/ \E own \in Ids, want \in Ids \cup {NoId}, secret \in Gens, account \in Ids \cup {NoId} :
         ~Used(own) /\ want # own /\ Join(i, own, want, secret, account)
    \/ \E id \in Ids : Leave(i, id) \/ Lost(i, id) \/ Update(i, id) \/ Forget(i, id) \/ Sweep(i, id)

Spec == Init /\ [][Next]_vars

----------------------------------------------------------------------------
(* Properties.                                                             *)

(* No member is listed for an instance this one does not watch: whatever   *)
(* order of joins, states, updates, goodbyes and silences, who is listed   *)
(* for an instance that went is found by the next tick (onMessage notes    *)
(* the sender before it adds anybody; bye and tick forget the instance     *)
(* and its members together, cluster.ts:149, 164-167 and 240-248).         *)
GhostsAreSeen ==
  \A i, j \in Insts : \A p \in DOMAIN remote[i] : remote[i][p].inst = j => seen[i][j] # "no"

(* When nothing is on its way, an instance lists exactly the members       *)
(* connected to another one, under that one, unless a message between the  *)
(* two was lost (for who is missing from the list: and no hello was        *)
(* answered since).  Ids that joined while another instance had them are   *)
(* left out: an evicted connection goes without an announcement, and what  *)
(* the other instance still says of it comes after what the new one said.  *)
Settled == \A i \in Insts : net[i] = <<>> /\ outq[i] = <<>>
Listed(i, j) == {p \in DOMAIN remote[i] : remote[i][p].inst = j}
KnownIsTrue ==
  Settled =>
    \A i, j \in Insts : i # j /\ Up(i) /\ Up(j) =>
      /\ <<j, i>> \notin gap    => DOMAIN local[j] \subseteq Listed(i, j) \cup moved
      /\ <<j, i>> \notin missed => Listed(i, j) \subseteq DOMAIN local[j] \cup moved
=============================================================================
