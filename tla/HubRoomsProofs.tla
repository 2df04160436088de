--------------------------- MODULE HubRoomsProofs ---------------------------
(***************************************************************************)
(* Proofs about HubRooms, for any connections, rooms, sessions and limits. *)
(***************************************************************************)
EXTENDS HubRooms, TLAPS, FiniteSetTheorems, WellFoundedInduction

(* A connection carries no session before it is open.                      *)
Fresh == \A c \in Conns : conn[c].phase = "none" => conn[c].tok = NoToken

Inv == TypeOK /\ IndexSound /\ SessionsHonoured /\ Fresh

----------------------------------------------------------------------------
(* Operators.                                                              *)

(* Giving up a seat leaves every other entry as it was, and nothing of the *)
(* connection is left in the index: it had one seat at most.               *)
LEMMA UnseatKeeps ==
  ASSUME TypeOK, IndexSound, NEW c \in Conns
  PROVE  /\ Unseat(rooms, c) \in [Rooms -> {Unseat(rooms, c)[r] : r \in Rooms}]
         /\ \A r \in Rooms :
              /\ DOMAIN Unseat(rooms, c)[r] \subseteq DOMAIN rooms[r]
              /\ Unseat(rooms, c)[r] \in [DOMAIN Unseat(rooms, c)[r] -> Conns]
              /\ \A id \in DOMAIN Unseat(rooms, c)[r] :
                   /\ Unseat(rooms, c)[r][id] = rooms[r][id]
                   /\ Unseat(rooms, c)[r][id] # c
<1>1. CASE ~Seated(rooms, c)
  <2>1. Unseat(rooms, c) = rooms
    BY <1>1 DEF Unseat
  <2>2. \A r \in Rooms : \A id \in DOMAIN rooms[r] : rooms[r][id] # c
    BY <1>1, HubAssumption DEF Seated, IndexSound
  <2> QED
    BY <2>1, <2>2 DEF TypeOK
<1>2. CASE Seated(rooms, c)
  <2> DEFINE q == conn[c].room
             less == Without(rooms[q], {conn[c].id})
  <2>1. q \in Rooms
    BY <1>2 DEF Seated, TypeOK, Conn
  <2>2. Unseat(rooms, c) = [rooms EXCEPT ![q] = less]
    BY <1>2 DEF Unseat
  <2>3. /\ DOMAIN less = DOMAIN rooms[q] \ {conn[c].id}
        /\ less = [x \in DOMAIN less |-> less[x]]
        /\ \A x \in DOMAIN less : less[x] = rooms[q][x]
    BY DEF Without
  <2> HIDE DEF less, q
  <2>4. \A r \in Rooms : Unseat(rooms, c)[r] = IF r = q THEN less ELSE rooms[r]
    BY <2>1, <2>2 DEF TypeOK
  <2>5. Unseat(rooms, c) \in [Rooms -> {Unseat(rooms, c)[r] : r \in Rooms}]
    BY <2>2 DEF TypeOK
  <2>6. ASSUME NEW r \in Rooms, NEW id \in DOMAIN Unseat(rooms, c)[r]
        PROVE  /\ id \in DOMAIN rooms[r]
               /\ Unseat(rooms, c)[r][id] = rooms[r][id]
               /\ rooms[r][id] \in Conns
               /\ rooms[r][id] # c
    <3>1. /\ id \in DOMAIN rooms[r] /\ Unseat(rooms, c)[r][id] = rooms[r][id]
      BY <2>3, <2>4
    <3>2. rooms[r][id] \in Conns
      BY <3>1 DEF TypeOK
    <3>3. ASSUME rooms[r][id] = c PROVE FALSE
      <4>1. conn[c].room = r /\ conn[c].id = id
        BY <3>1, <3>3 DEF IndexSound
      <4> QED
        BY <4>1, <2>3, <2>4 DEF q
    <3> QED
      BY <3>1, <3>2, <3>3
  <2>7. \A r \in Rooms : Unseat(rooms, c)[r] \in [DOMAIN Unseat(rooms, c)[r] -> Conns]
    <3> TAKE r \in Rooms
    <3>1. Unseat(rooms, c)[r] = [x \in DOMAIN Unseat(rooms, c)[r] |-> Unseat(rooms, c)[r][x]]
      BY <2>3, <2>4 DEF TypeOK
    <3> QED
      BY <2>6, <3>1
  <2> QED
    BY <2>5, <2>6, <2>7
<1> QED
  BY <1>1, <1>2

(* Hence the seats that are left are of others, where they were.           *)
LEMMA UnseatSound ==
  ASSUME TypeOK, IndexSound, NEW c \in Conns,
         NEW r \in Rooms, NEW id \in DOMAIN Unseat(rooms, c)[r]
  PROVE  LET x == Unseat(rooms, c)[r][id]
         IN  /\ x \in Conns /\ x # c
             /\ conn[x].phase = "open" /\ conn[x].room = r /\ conn[x].id = id
<1>1. /\ id \in DOMAIN rooms[r] /\ Unseat(rooms, c)[r][id] = rooms[r][id]
      /\ Unseat(rooms, c)[r][id] # c
  BY UnseatKeeps
<1>2. rooms[r][id] \in Conns
  BY <1>1 DEF TypeOK
<1> QED
  BY <1>1, <1>2 DEF IndexSound, Open

LEMMA WithoutHeld ==
  ASSUME NEW h, h \in [DOMAIN h -> Held], NEW S
  PROVE  /\ DOMAIN Without(h, S) = DOMAIN h \ S
         /\ Without(h, S) \in [DOMAIN Without(h, S) -> Held]
         /\ \A k \in DOMAIN Without(h, S) : Without(h, S)[k] = h[k]
BY DEF Without

(* The book keeps members and adds the new one; the limits only take some  *)
(* away.                                                                   *)
LEMMA HoldKeeps ==
  ASSUME NEW h, h \in [DOMAIN h -> Held], NEW r, NEW id, NEW m \in Held
  PROVE  /\ DOMAIN Hold(h, r, id, m) \subseteq DOMAIN h \cup {<<r, id>>}
         /\ Hold(h, r, id, m) \in [DOMAIN Hold(h, r, id, m) -> Held]
         /\ \A k \in DOMAIN Hold(h, r, id, m) :
              Hold(h, r, id, m)[k] = m \/ (k \in DOMAIN h /\ Hold(h, r, id, m)[k] = h[k])
<1> DEFINE h1 == Put(h, <<r, id>>, m)
           h2 == TrimRoom(h1, r)
           h3 == TrimAll(h2)
<1>1. /\ DOMAIN h1 = DOMAIN h \cup {<<r, id>>}
      /\ h1 \in [DOMAIN h1 -> Held]
      /\ \A k \in DOMAIN h1 : h1[k] = m \/ (k \in DOMAIN h /\ h1[k] = h[k])
  BY DEF Put
<1> HIDE DEF h1
<1>2. /\ DOMAIN h2 \subseteq DOMAIN h1
      /\ h2 \in [DOMAIN h2 -> Held]
      /\ \A k \in DOMAIN h2 : h2[k] = h1[k]
  <2>1. CASE Cardinality(HeldIn(h1, r)) > HeldPerRoom
    <3>1. h2 = Without(h1, {Oldest(h1, HeldIn(h1, r))})
      BY <2>1 DEF TrimRoom
    <3> QED
      BY <1>1, <3>1 DEF Without
  <2>2. CASE ~(Cardinality(HeldIn(h1, r)) > HeldPerRoom)
    BY <1>1, <2>2 DEF TrimRoom
  <2> QED
    BY <2>1, <2>2
<1> HIDE DEF h2
<1>3. /\ DOMAIN h3 \subseteq DOMAIN h2
      /\ h3 \in [DOMAIN h3 -> Held]
      /\ \A k \in DOMAIN h3 : h3[k] = h2[k]
  <2>1. CASE Cardinality(DOMAIN h2) > HeldTotal
    <3>1. h3 = Without(h2, {Oldest(h2, DOMAIN h2)})
      BY <2>1 DEF TrimAll
    <3> QED
      BY <1>2, <3>1 DEF Without
  <2>2. CASE ~(Cardinality(DOMAIN h2) > HeldTotal)
    BY <1>2, <2>2 DEF TrimAll
  <2> QED
    BY <2>1, <2>2
<1>4. Hold(h, r, id, m) = h3
  BY DEF Hold, h1, h2
<1> HIDE DEF h3
<1> QED
  BY <1>1, <1>2, <1>3, <1>4

----------------------------------------------------------------------------
(* The initial states and the steps.                                       *)

LEMMA InitInv == Init => Inv
BY HubAssumption DEF Init, Inv, TypeOK, IndexSound, SessionsHonoured, Fresh, Conn, Phases,
   Empty, Ids, Held

(* What every join, leave or close has in common: connections other than   *)
(* `c` keep their seats, and c's is given up first.                        *)
LEMMA LeaveInv ==
  ASSUME Inv, NEW c \in Conns,
         conn' = [conn EXCEPT ![c].room = NoRoom],
         rooms' = Unseat(rooms, c),
         UNCHANGED <<held, clock, session>>
  PROVE  Inv'
<1>1. TypeOK /\ IndexSound /\ SessionsHonoured /\ Fresh
  BY DEF Inv
<1>2. conn' \in [Conns -> Conn] /\ conn'[c] = [conn[c] EXCEPT !.room = NoRoom]
  BY <1>1 DEF TypeOK, Conn
<1>3. \A x \in Conns : /\ conn'[x].tok = conn[x].tok /\ conn'[x].phase = conn[x].phase
                        /\ conn'[x].id = conn[x].id
                        /\ x # c => conn'[x].room = conn[x].room
  BY <1>1 DEF TypeOK, Conn
<1>4. TypeOK'
  <2>1. \A r \in Rooms : DOMAIN rooms'[r] \subseteq Ids /\ rooms'[r] \in [DOMAIN rooms'[r] -> Conns]
    BY <1>1, UnseatKeeps DEF TypeOK
  <2>2. rooms' \in [Rooms -> {rooms'[r] : r \in Rooms}]
    BY <1>1, UnseatKeeps
  <2> QED
    BY <1>1, <1>2, <2>1, <2>2 DEF TypeOK
<1>5. IndexSound'
  BY <1>1, <1>3, UnseatSound DEF IndexSound, Open
<1>6. SessionsHonoured' /\ Fresh'
  BY <1>1, <1>3 DEF SessionsHonoured, Fresh, Open
<1> QED
  BY <1>4, <1>5, <1>6 DEF Inv

LEMMA ClosedInv ==
  ASSUME Inv, NEW c \in Conns, Closed(c)
  PROVE  Inv'
<1>1. TypeOK /\ IndexSound /\ SessionsHonoured /\ Fresh
  BY DEF Inv
<1>2. conn' \in [Conns -> Conn]
  <2> DEFINE nc == [conn[c] EXCEPT !.phase = "closed", !.room = NoRoom]
  <2>1. conn[c] \in Conn /\ conn \in [Conns -> Conn]
    BY <1>1 DEF TypeOK
  <2>2. nc \in Conn
    BY <2>1 DEF Conn, Phases
  <2>3. conn' = [conn EXCEPT ![c] = nc]
    BY <2>1 DEF Closed
  <2> HIDE DEF nc
  <2> QED
    BY <2>1, <2>2, <2>3
<1>3. /\ \A x \in Conns : /\ conn'[x].tok = conn[x].tok
                          /\ conn'[x].id = conn[x].id
                          /\ x # c => conn'[x] = conn[x]
      /\ conn'[c].phase = "closed"
  BY <1>1 DEF Closed, TypeOK, Conn
<1>4. /\ DOMAIN held' \subseteq Rooms \X Ids
      /\ held' \in [DOMAIN held' -> Held]
      /\ clock' \in Nat
      /\ \A k \in DOMAIN held' :
           held'[k].tok = conn[c].tok \/ (k \in DOMAIN held /\ held'[k] = held[k])
  <2>1. CASE conn[c].room # NoRoom /\ ~conn[c].removed
    <3> DEFINE m == [by |-> c, tok |-> conn[c].tok, since |-> clock]
    <3>1. m \in Held /\ m.tok = conn[c].tok
      BY <1>1 DEF TypeOK, Conn, Held
    <3>2. held' = Hold(held, conn[c].room, conn[c].id, m) /\ clock' = clock + 1
      BY <2>1 DEF Closed
    <3>3. <<conn[c].room, conn[c].id>> \in Rooms \X Ids
      BY <1>1, <2>1 DEF TypeOK, Conn
    <3> HIDE DEF m
    <3> QED
      BY <1>1, <3>1, <3>2, <3>3, HoldKeeps DEF TypeOK
  <2>2. CASE ~(conn[c].room # NoRoom /\ ~conn[c].removed)
    BY <1>1, <2>2 DEF Closed, TypeOK
  <2> QED
    BY <2>1, <2>2
<1>5. TypeOK'
  <2>1. \A r \in Rooms : DOMAIN rooms'[r] \subseteq Ids /\ rooms'[r] \in [DOMAIN rooms'[r] -> Conns]
    BY <1>1, UnseatKeeps DEF TypeOK, Closed
  <2>2. rooms' \in [Rooms -> {rooms'[r] : r \in Rooms}]
    BY <1>1, UnseatKeeps DEF Closed
  <2> QED
    BY <1>1, <1>2, <1>4, <2>1, <2>2 DEF TypeOK, Closed
<1>6. IndexSound'
  <2>1. rooms' = Unseat(rooms, c)
    BY DEF Closed
  <2> QED
    BY <1>1, <1>3, <2>1, UnseatSound DEF IndexSound, Open
<1>7. SessionsHonoured'
  <2>1. session' = session /\ Open(c)
    BY DEF Closed
  <2>2. \A x \in Conns : Open(x)' => Open(x)
    BY <1>3, <2>1 DEF Open
  <2>3. conn[c].tok # NoToken => session[conn[c].tok] # "ended"
    BY <1>1, <2>1 DEF SessionsHonoured
  <2>4. \A k \in DOMAIN held' : held'[k].tok # NoToken => session[held'[k].tok] # "ended"
    BY <1>1, <1>4, <2>3 DEF SessionsHonoured
  <2>5. \A x \in Conns : Open(x)' /\ conn'[x].tok # NoToken => session[conn'[x].tok] # "ended"
    BY <1>1, <1>3, <2>2 DEF SessionsHonoured
  <2> QED
    BY <2>1, <2>4, <2>5 DEF SessionsHonoured
<1>8. Fresh'
  <2> SUFFICES ASSUME NEW x \in Conns, conn'[x].phase = "none" PROVE conn'[x].tok = NoToken
    BY DEF Fresh
  <2> QED
    BY <1>1, <1>3 DEF Fresh
<1> QED
  BY <1>5, <1>6, <1>7, <1>8 DEF Inv

LEMMA JoinInv ==
  ASSUME Inv, NEW c \in Conns, NEW r \in Rooms, NEW want \in Ids \cup {NoId},
         NEW proves \in BOOLEAN, NEW tok \in Tokens \cup {NoToken},
         Join(c, r, want, proves, tok)
  PROVE  Inv'
<1> DEFINE left == Unseat(rooms, c)
           id   == IdGiven(left, c, r, want, proves)
           used == IF tok # NoToken /\ session[tok] = "live" THEN tok ELSE NoToken
           back == Resumes(left, c, r, want, proves)
           over == Replaces(left, c, r, want, proves)
           rest == IF over THEN Without(left[r], {want}) ELSE left[r]
           book == IF back THEN Without(held, {<<r, want>>}) ELSE held
           gone == left[r][want]
<1>1. TypeOK /\ IndexSound /\ SessionsHonoured /\ Fresh /\ Open(c)
  BY DEF Inv, Join
<1>2. /\ left \in [Rooms -> {left[q] : q \in Rooms}]
      /\ \A q \in Rooms :
           /\ DOMAIN left[q] \subseteq DOMAIN rooms[q]
           /\ DOMAIN left[q] \subseteq Ids
           /\ left[q] \in [DOMAIN left[q] -> Conns]
           /\ \A i \in DOMAIN left[q] : left[q][i] = rooms[q][i] /\ left[q][i] # c
  BY <1>1, UnseatKeeps DEF TypeOK
<1>3. id \in Ids /\ used \in Tokens \cup {NoToken}
      /\ (used # NoToken => session[used] = "live")
  BY <1>1 DEF IdGiven, TypeOK, Conn
<1>4. conn' = [x \in Conns |->
                IF x = c THEN [conn[c] EXCEPT !.id = id, !.room = r, !.tok = used]
                ELSE IF over /\ x = gone THEN [conn[x] EXCEPT !.room = NoRoom]
                ELSE conn[x]]
  BY DEF Join
<1>5. rooms' = [left EXCEPT ![r] = IF over /\ DOMAIN rest = {} THEN rest ELSE Put(rest, id, c)]
  BY DEF Join
<1>6. held' = Without(book, OfAccount(book, r, Account(used), id)) /\ clock' = clock
      /\ session' = session
  BY DEF Join
<1> HIDE DEF id, used, back
<1>7. conn' \in [Conns -> Conn]
  <2>1. \A x \in Conns : conn[x] \in Conn
    BY <1>1 DEF TypeOK
  <2>2. \A x \in Conns : [conn[x] EXCEPT !.room = NoRoom] \in Conn
    BY <2>1 DEF Conn
  <2>3. [conn[c] EXCEPT !.id = id, !.room = r, !.tok = used] \in Conn
    BY <1>3, <2>1 DEF Conn
  <2> HIDE DEF over, gone
  <2> QED
    BY <1>4, <2>1, <2>2, <2>3
<1>8. /\ conn'[c].id = id /\ conn'[c].room = r /\ conn'[c].tok = used /\ conn'[c].phase = "open"
      /\ \A x \in Conns \ {c} :
           /\ conn'[x].id = conn[x].id /\ conn'[x].tok = conn[x].tok
           /\ conn'[x].phase = conn[x].phase
           /\ conn'[x].room = conn[x].room \/ (over /\ x = gone)
  BY <1>1, <1>4 DEF TypeOK, Conn, Open
<1>9. /\ DOMAIN rest \subseteq DOMAIN left[r] /\ rest \in [DOMAIN rest -> Conns]
      /\ \A i \in DOMAIN rest : rest[i] = left[r][i] /\ (over => i # want)
  BY <1>2 DEF Without
<1>10. /\ \A q \in Rooms \ {r} : rooms'[q] = left[q]
       /\ DOMAIN rooms'[r] \subseteq DOMAIN rest \cup {id}
       /\ rooms'[r] \in [DOMAIN rooms'[r] -> Conns]
       /\ \A i \in DOMAIN rooms'[r] :
            (i = id /\ rooms'[r][i] = c) \/ (i \in DOMAIN rest /\ rooms'[r][i] = rest[i])
       /\ rooms' \in [Rooms -> {rooms'[q] : q \in Rooms}]
  <2>1. /\ rooms'[r] = rest \/ rooms'[r] = Put(rest, id, c)
        /\ \A q \in Rooms \ {r} : rooms'[q] = left[q]
        /\ rooms' = [q \in Rooms |-> rooms'[q]]
    BY <1>2, <1>5
  <2> HIDE DEF rest
  <2>2. /\ DOMAIN Put(rest, id, c) = DOMAIN rest \cup {id}
        /\ Put(rest, id, c) \in [DOMAIN rest \cup {id} -> Conns]
        /\ \A i \in DOMAIN rest \cup {id} :
             Put(rest, id, c)[i] = IF i = id THEN c ELSE rest[i]
    BY <1>9 DEF Put
  <2> QED
    BY <1>9, <2>1, <2>2
<1>11. /\ DOMAIN held' \subseteq DOMAIN held /\ held' \in [DOMAIN held' -> Held]
       /\ \A k \in DOMAIN held' : held'[k] = held[k]
  <2>1. /\ DOMAIN book \subseteq DOMAIN held /\ book \in [DOMAIN book -> Held]
        /\ \A k \in DOMAIN book : book[k] = held[k]
    <3>1. held \in [DOMAIN held -> Held]
      BY <1>1 DEF TypeOK
    <3>2. CASE back
      <4>1. book = Without(held, {<<r, want>>})
        BY <3>2
      <4> HIDE DEF book
      <4> QED
        BY <3>1, <4>1 DEF Without
    <3> QED
      BY <3>1, <3>2
  <2> HIDE DEF book
  <2> DEFINE S == OfAccount(book, r, Account(used), id)
  <2>2. held' = Without(book, S)
    BY <1>6
  <2> HIDE DEF S
  <2>3. /\ DOMAIN Without(book, S) = DOMAIN book \ S
        /\ Without(book, S) \in [DOMAIN Without(book, S) -> Held]
        /\ \A k \in DOMAIN Without(book, S) : Without(book, S)[k] = book[k]
    BY <2>1, WithoutHeld
  <2> QED
    BY <2>1, <2>2, <2>3
<1>12. over => /\ gone \in Conns /\ gone = rooms[r][want] /\ want \in DOMAIN rooms[r]
               /\ conn[gone].room = r /\ conn[gone].id = want
  BY <1>1, <1>2 DEF Replaces, IndexSound
<1> HIDE DEF left, rest, book, over, gone
<1>13. TypeOK'
  <2>1. \A q \in Rooms : DOMAIN rooms'[q] \subseteq Ids /\ rooms'[q] \in [DOMAIN rooms'[q] -> Conns]
    BY <1>2, <1>3, <1>9, <1>10
  <2>2. DOMAIN held' \subseteq Rooms \X Ids
    BY <1>1, <1>11 DEF TypeOK
  <2> QED
    BY <1>1, <1>6, <1>7, <1>10, <1>11, <2>1, <2>2 DEF TypeOK
<1>14. IndexSound'
  <2> SUFFICES ASSUME NEW q \in Rooms, NEW i \in DOMAIN rooms'[q]
               PROVE  LET x == rooms'[q][i]
                      IN  conn'[x].phase = "open" /\ conn'[x].room = q /\ conn'[x].id = i
    BY DEF IndexSound, Open
  <2>1. CASE q = r /\ i = id /\ rooms'[q][i] = c
    BY <2>1, <1>8
  <2>2. CASE q = r /\ i \in DOMAIN rest /\ rooms'[q][i] = rest[i]
    <3> DEFINE x == rest[i]
    <3>1. /\ i \in DOMAIN rooms[r] /\ x = rooms[r][i] /\ x \in Conns /\ x # c
          /\ over => i # want
      BY <2>2, <1>2, <1>9
    <3>2. conn[x].phase = "open" /\ conn[x].room = r /\ conn[x].id = i
      BY <1>1, <3>1 DEF IndexSound, Open
    <3>3. ~(over /\ x = gone)
      BY <3>1, <3>2, <1>12
    <3> QED
      BY <2>2, <3>1, <3>2, <3>3, <1>8
  <2>3. CASE q # r
    <3> DEFINE x == rooms'[q][i]
    <3>1. i \in DOMAIN rooms[q] /\ x = rooms[q][i] /\ x \in Conns /\ x # c
      BY <2>3, <1>2, <1>10
    <3>2. conn[x].phase = "open" /\ conn[x].room = q /\ conn[x].id = i
      BY <1>1, <3>1 DEF IndexSound, Open
    <3>3. ~(over /\ x = gone)
      BY <2>3, <3>2, <1>12
    <3> QED
      BY <3>1, <3>2, <3>3, <1>8
  <2> QED
    BY <2>1, <2>2, <2>3, <1>10
<1>15. SessionsHonoured'
  BY <1>1, <1>3, <1>6, <1>8, <1>11 DEF SessionsHonoured, Open
<1>16. Fresh'
  BY <1>1, <1>8 DEF Fresh, Open
<1> QED
  BY <1>13, <1>14, <1>15, <1>16 DEF Inv

(* Steps that move nobody: the index stays, and connections keep their     *)
(* phase, id and room.                                                     *)
LEMMA StayInv ==
  ASSUME Inv, UNCHANGED rooms, clock' = clock,
         conn' \in [Conns -> Conn],
         \A c \in Conns : /\ conn'[c].id = conn[c].id /\ conn'[c].room = conn[c].room
                          /\ Open(c) => conn'[c].phase = "open"
                          /\ conn'[c].phase = "none" => conn'[c].tok = NoToken,
         DOMAIN held' \subseteq DOMAIN held,
         held' \in [DOMAIN held' -> Held],
         session' \in [Tokens -> {"live", "lapsed", "ended"}],
         SessionsHonoured'
  PROVE  Inv'
<1>1. TypeOK'
  BY DEF Inv, TypeOK
<1>2. IndexSound'
  <2> SUFFICES ASSUME NEW r \in Rooms, NEW id \in DOMAIN rooms[r]
               PROVE  LET c == rooms[r][id]
                      IN  conn'[c].phase = "open" /\ conn'[c].room = r /\ conn'[c].id = id
    BY DEF IndexSound, Open
  <2>1. rooms[r][id] \in Conns
    BY DEF Inv, TypeOK
  <2> QED
    BY <2>1 DEF Inv, IndexSound
<1>3. Fresh'
  BY DEF Fresh
<1> QED
  BY <1>1, <1>2, <1>3 DEF Inv

LEMMA ConnectInv ==
  ASSUME Inv, NEW c \in Conns, Connect(c)
  PROVE  Inv'
<1>1. TypeOK /\ SessionsHonoured /\ Fresh
  BY DEF Inv
<1>2. conn' = [conn EXCEPT ![c].phase = "open"] /\ conn[c].phase = "none"
      /\ UNCHANGED <<rooms, held, clock, session>>
  BY DEF Connect
<1>3. conn' \in [Conns -> Conn]
  <2>1. conn[c] \in Conn /\ conn \in [Conns -> Conn]
    BY <1>1 DEF TypeOK
  <2>2. [conn[c] EXCEPT !.phase = "open"] \in Conn
    BY <2>1 DEF Conn, Phases
  <2> QED
    BY <1>2, <2>1, <2>2
<1>4. \A x \in Conns : /\ conn'[x].id = conn[x].id /\ conn'[x].room = conn[x].room
                       /\ conn'[x].tok = conn[x].tok
                       /\ conn'[x].phase = IF x = c THEN "open" ELSE conn[x].phase
  BY <1>1, <1>2 DEF TypeOK, Conn
<1>5. conn[c].tok = NoToken
  BY <1>1, <1>2 DEF Fresh
<1>6. SessionsHonoured'
  <2>1. \A x \in Conns : conn'[x].phase = "open" /\ conn'[x].tok # NoToken
                         => session[conn'[x].tok] # "ended"
    BY <1>1, <1>4, <1>5 DEF SessionsHonoured, Open
  <2> QED
    BY <1>1, <1>2, <2>1 DEF SessionsHonoured, Open
<1> QED
  BY <1>1, <1>2, <1>3, <1>4, <1>6, StayInv DEF TypeOK, Fresh, Open

LEMMA AuthInv ==
  ASSUME Inv, NEW c \in Conns, NEW tok \in Tokens \cup {NoToken}, Auth(c, tok)
  PROVE  Inv'
<1> DEFINE used == IF tok # NoToken /\ session[tok] = "live" THEN tok ELSE NoToken
<1>1. TypeOK /\ SessionsHonoured /\ Fresh
  BY DEF Inv
<1>2. /\ used \in Tokens \cup {NoToken}
      /\ used # NoToken => session[used] = "live"
  OBVIOUS
<1>3. /\ Open(c) /\ conn' = [conn EXCEPT ![c].tok = used]
      /\ UNCHANGED <<rooms, clock, session>>
  BY DEF Auth
<1>4. \/ held' = held
      \/ held' = Without(held, OfAccount(held, conn[c].room, Account(used), conn[c].id))
  BY DEF Auth
<1> HIDE DEF used
<1>5. conn' \in [Conns -> Conn]
  <2>1. conn[c] \in Conn /\ conn \in [Conns -> Conn]
    BY <1>1 DEF TypeOK
  <2>2. [conn[c] EXCEPT !.tok = used] \in Conn
    BY <1>2, <2>1 DEF Conn
  <2> QED
    BY <1>3, <2>1, <2>2
<1>6. \A x \in Conns : /\ conn'[x].id = conn[x].id /\ conn'[x].room = conn[x].room
                       /\ conn'[x].phase = conn[x].phase
                       /\ conn'[x].tok = IF x = c THEN used ELSE conn[x].tok
  BY <1>1, <1>3 DEF TypeOK, Conn
<1>7. /\ DOMAIN held' \subseteq DOMAIN held
      /\ held' \in [DOMAIN held' -> Held]
      /\ \A k \in DOMAIN held' : held'[k] = held[k]
  BY <1>1, <1>4 DEF TypeOK, Without
<1>8. SessionsHonoured'
  <2>1. \A x \in Conns : conn'[x].phase = "open" /\ conn'[x].tok # NoToken
                         => session[conn'[x].tok] # "ended"
    BY <1>1, <1>2, <1>6 DEF SessionsHonoured, Open
  <2> QED
    BY <1>1, <1>3, <1>7, <2>1 DEF SessionsHonoured, Open
<1> QED
  BY <1>1, <1>3, <1>5, <1>6, <1>7, <1>8, StayInv DEF TypeOK, Fresh, Open

LEMMA RemoveInv ==
  ASSUME Inv, NEW c \in Conns, Remove(c)
  PROVE  Inv'
<1>1. TypeOK /\ SessionsHonoured /\ Fresh
  BY DEF Inv
<1>2. conn' = [conn EXCEPT ![c].removed = TRUE] /\ UNCHANGED <<rooms, held, clock, session>>
  BY DEF Remove
<1>3. conn' \in [Conns -> Conn]
  BY <1>1, <1>2 DEF TypeOK, Conn
<1>4. \A x \in Conns : /\ conn'[x].id = conn[x].id /\ conn'[x].room = conn[x].room
                       /\ conn'[x].phase = conn[x].phase /\ conn'[x].tok = conn[x].tok
  BY <1>1, <1>2 DEF TypeOK, Conn
<1>5. SessionsHonoured'
  BY <1>1, <1>2, <1>4 DEF SessionsHonoured, Open
<1> QED
  BY <1>1, <1>2, <1>3, <1>4, <1>5, StayInv DEF TypeOK, Fresh, Open

(* Ended sessions are taken off every open connection and held member.     *)
LEMMA EndInv ==
  ASSUME Inv, NEW S \in SUBSET Tokens, End(S)
  PROVE  Inv'
<1>1. TypeOK /\ SessionsHonoured /\ Fresh
  BY DEF Inv
<1>2. \A x \in Conns :
        conn'[x] = IF Open(x) /\ conn[x].tok \in S THEN [conn[x] EXCEPT !.tok = NoToken]
                   ELSE conn[x]
  BY DEF End
<1>3. conn' \in [Conns -> Conn]
  <2>1. \A x \in Conns : conn[x] \in Conn /\ [conn[x] EXCEPT !.tok = NoToken] \in Conn
    BY <1>1 DEF TypeOK, Conn
  <2> QED
    BY <2>1 DEF End
<1>4. \A x \in Conns : /\ conn'[x].id = conn[x].id /\ conn'[x].room = conn[x].room
                       /\ conn'[x].phase = conn[x].phase
                       /\ conn'[x].tok = IF Open(x) /\ conn[x].tok \in S
                                         THEN NoToken ELSE conn[x].tok
  BY <1>1, <1>2 DEF TypeOK, Conn
<1>5. /\ DOMAIN held' = DOMAIN held \ {k \in DOMAIN held : held[k].tok \in S}
      /\ held' \in [DOMAIN held' -> Held]
      /\ \A k \in DOMAIN held' : held'[k] = held[k] /\ held'[k].tok \notin S
  BY <1>1 DEF TypeOK, Without, End
<1>6. \A t \in Tokens : session'[t] = IF t \in S THEN "ended" ELSE session[t]
  BY DEF End
<1>7. SessionsHonoured'
  <2>1. \A x \in Conns : conn'[x].phase = "open" /\ conn'[x].tok # NoToken
                         => session'[conn'[x].tok] # "ended"
    BY <1>1, <1>4, <1>6 DEF SessionsHonoured, Open, TypeOK, Conn
  <2>2. \A k \in DOMAIN held' : held'[k].tok # NoToken => session'[held'[k].tok] # "ended"
    BY <1>1, <1>5, <1>6 DEF SessionsHonoured, TypeOK, Held
  <2> QED
    BY <2>1, <2>2 DEF SessionsHonoured, Open
<1>8. session' \in [Tokens -> {"live", "lapsed", "ended"}] /\ UNCHANGED <<rooms, clock>>
  BY <1>1 DEF TypeOK, End
<1> QED
  BY <1>1, <1>3, <1>4, <1>5, <1>7, <1>8, StayInv DEF Fresh, Open

LEMMA LapseInv ==
  ASSUME Inv, NEW t \in Tokens, Lapse(t)
  PROVE  Inv'
<1>1. TypeOK /\ SessionsHonoured /\ Fresh
  BY DEF Inv
<1>2. /\ session' \in [Tokens -> {"live", "lapsed", "ended"}]
      /\ \A u \in Tokens : session'[u] = "ended" => session[u] = "ended"
      /\ UNCHANGED <<conn, rooms, held, clock>>
  BY <1>1 DEF TypeOK, Lapse
<1>3. SessionsHonoured'
  BY <1>1, <1>2 DEF SessionsHonoured, Open, TypeOK, Conn, Held
<1> QED
  BY <1>1, <1>2, <1>3, StayInv DEF TypeOK, Fresh, Open

LEMMA SweepInv ==
  ASSUME Inv, SweepHeld
  PROVE  Inv'
<1>1. TypeOK /\ SessionsHonoured /\ Fresh
  BY DEF Inv
<1>2. /\ DOMAIN held' \subseteq DOMAIN held
      /\ held' \in [DOMAIN held' -> Held]
      /\ \A k \in DOMAIN held' : held'[k] = held[k]
      /\ UNCHANGED <<conn, rooms, clock, session>>
  BY <1>1 DEF TypeOK, SweepHeld, Without
<1>3. SessionsHonoured'
  BY <1>1, <1>2 DEF SessionsHonoured, Open
<1> QED
  BY <1>1, <1>2, <1>3, StayInv DEF TypeOK, Fresh, Open

LEMMA DisconnectInv ==
  ASSUME Inv, NEW r \in Rooms, NEW S \in SUBSET Ids, DisconnectRoom(r, S)
  PROVE  Inv'
<1> DEFINE seats == S \cap DOMAIN rooms[r]
           out(c) == \E id \in seats : rooms[r][id] = c
<1>1. TypeOK /\ IndexSound /\ SessionsHonoured /\ Fresh
  BY DEF Inv
<1>2. /\ conn' = [c \in Conns |-> IF out(c)
                                  THEN [conn[c] EXCEPT !.removed = TRUE, !.room = NoRoom]
                                  ELSE conn[c]]
      /\ rooms' = [rooms EXCEPT ![r] = Without(@, seats)]
      /\ UNCHANGED <<clock, session>>
  BY DEF DisconnectRoom
<1>3. /\ DOMAIN held' \subseteq DOMAIN held
      /\ held' \in [DOMAIN held' -> Held]
      /\ \A k \in DOMAIN held' : held'[k] = held[k]
  BY <1>1 DEF TypeOK, DisconnectRoom, Without
<1>4. conn' \in [Conns -> Conn]
  <2>1. \A c \in Conns : /\ conn[c] \in Conn
                         /\ [conn[c] EXCEPT !.removed = TRUE, !.room = NoRoom] \in Conn
    BY <1>1 DEF TypeOK, Conn
  <2> HIDE DEF out
  <2> QED
    BY <1>2, <2>1
<1>5. \A c \in Conns : /\ conn'[c].id = conn[c].id /\ conn'[c].tok = conn[c].tok
                       /\ conn'[c].phase = conn[c].phase
                       /\ ~out(c) => conn'[c].room = conn[c].room
  <2> HIDE DEF out
  <2> QED
    BY <1>1, <1>2 DEF TypeOK, Conn
<1>6. /\ \A q \in Rooms \ {r} : rooms'[q] = rooms[q]
      /\ DOMAIN rooms'[r] = DOMAIN rooms[r] \ seats
      /\ rooms'[r] \in [DOMAIN rooms'[r] -> Conns]
      /\ \A id \in DOMAIN rooms'[r] : rooms'[r][id] = rooms[r][id]
      /\ rooms' \in [Rooms -> {rooms'[q] : q \in Rooms}]
  <2>1. /\ DOMAIN Without(rooms[r], seats) = DOMAIN rooms[r] \ seats
        /\ Without(rooms[r], seats) \in [DOMAIN rooms[r] \ seats -> Conns]
        /\ \A id \in DOMAIN rooms[r] \ seats : Without(rooms[r], seats)[id] = rooms[r][id]
    BY <1>1 DEF TypeOK, Without
  <2> HIDE DEF seats
  <2> QED
    BY <1>1, <1>2, <2>1 DEF TypeOK
<1>7. TypeOK'
  BY <1>1, <1>2, <1>3, <1>4, <1>6 DEF TypeOK
<1>8. IndexSound'
  <2> SUFFICES ASSUME NEW q \in Rooms, NEW id \in DOMAIN rooms'[q]
               PROVE  LET c == rooms'[q][id]
                      IN  conn'[c].phase = "open" /\ conn'[c].room = q /\ conn'[c].id = id
    BY DEF IndexSound, Open
  <2> DEFINE c == rooms[q][id]
  <2>1. id \in DOMAIN rooms[q] /\ rooms'[q][id] = c /\ c \in Conns /\ (q = r => id \notin seats)
    BY <1>1, <1>6 DEF TypeOK
  <2>2. conn[c].phase = "open" /\ conn[c].room = q /\ conn[c].id = id
    BY <1>1, <2>1 DEF IndexSound, Open
  <2>3. ASSUME out(c) PROVE FALSE
    <3>1. PICK j \in seats : rooms[r][j] = c
      BY <2>3
    <3>2. conn[c].room = r /\ conn[c].id = j
      BY <1>1, <3>1 DEF IndexSound
    <3> QED
      BY <2>1, <2>2, <3>1, <3>2
  <2> HIDE DEF out, c
  <2> QED
    BY <2>1, <2>2, <2>3, <1>5
<1>9. SessionsHonoured' /\ Fresh'
  <2> HIDE DEF out
  <2>1. Fresh'
    BY <1>1, <1>5 DEF Fresh
  <2>2. SessionsHonoured'
    BY <1>1, <1>2, <1>3, <1>5 DEF SessionsHonoured, Open
  <2> QED
    BY <2>1, <2>2
<1> QED
  BY <1>7, <1>8, <1>9 DEF Inv

LEMMA StepInv == Inv /\ [Next]_vars => Inv'
<1> SUFFICES ASSUME Inv, [Next]_vars PROVE Inv'
  OBVIOUS
<1>1. ASSUME NEW c \in Conns, Leave(c) \/ JoinRefused(c) PROVE Inv'
  BY <1>1, LeaveInv DEF Leave, JoinRefused
<1>2. ASSUME NEW c \in Conns, Connect(c) PROVE Inv'
  BY <1>2, ConnectInv
<1>3. ASSUME NEW c \in Conns, Remove(c) PROVE Inv'
  BY <1>3, RemoveInv
<1>4. ASSUME NEW c \in Conns, Closed(c) PROVE Inv'
  BY <1>4, ClosedInv
<1>5. ASSUME NEW c \in Conns, NEW r \in Rooms, NEW want \in Known \cup {NoId},
             NEW proves \in BOOLEAN, NEW tok \in Holds[c] \cup {NoToken},
             Join(c, r, want, proves, tok)
      PROVE  Inv'
  <2>1. want \in Ids \cup {NoId} /\ tok \in Tokens \cup {NoToken}
    BY HubAssumption DEF Known, Ids
  <2> QED
    BY <1>5, <2>1, JoinInv
<1>6. ASSUME NEW c \in Conns, NEW tok \in Holds[c] \cup {NoToken}, Auth(c, tok) PROVE Inv'
  BY <1>6, AuthInv, HubAssumption
<1>7. ASSUME NEW t \in Tokens, Lapse(t) PROVE Inv'
  BY <1>7, LapseInv
<1>8. ASSUME NEW t \in Tokens, SignOut(t) PROVE Inv'
  BY <1>8, EndInv DEF SignOut
<1>9. ASSUME NEW a \in Accounts, RevokeAll(a) PROVE Inv'
  BY <1>9, EndInv DEF RevokeAll
<1>10. CASE SweepHeld
  BY <1>10, SweepInv
<1>11. ASSUME NEW r \in Rooms, NEW S \in SUBSET Ids, DisconnectRoom(r, S) PROVE Inv'
  BY <1>11, DisconnectInv
<1>12. CASE UNCHANGED vars
  BY <1>12 DEF vars, Inv, TypeOK, IndexSound, SessionsHonoured, Fresh, Open
<1> QED
  BY <1>1, <1>2, <1>3, <1>4, <1>5, <1>6, <1>7, <1>8, <1>9, <1>10, <1>11, <1>12 DEF Next

LEMMA AlwaysInv == Spec => []Inv
BY InitInv, StepInv, PTL DEF Spec

(* The hub's state keeps its shape.                                        *)
THEOREM TypeCorrect == Spec => []TypeOK
<1>1. Inv => TypeOK
  BY DEF Inv
<1> QED
  BY <1>1, AlwaysInv, PTL

(* In whatever order connections join, resume, leave, are removed and      *)
(* close, the rooms list only open members, under their own ids.           *)
THEOREM IndexAlwaysSound == Spec => []IndexSound
<1>1. Inv => IndexSound
  BY DEF Inv
<1> QED
  BY <1>1, AlwaysInv, PTL

(* A session that was signed out is on no open connection and no held      *)
(* member, at any later moment.                                            *)
THEOREM SessionsAlwaysHonoured == Spec => []SessionsHonoured
<1>1. Inv => SessionsHonoured
  BY DEF Inv
<1> QED
  BY <1>1, AlwaysInv, PTL

----------------------------------------------------------------------------
(* The limits of the book of held members.                                 *)

LEMMA LeastNatural ==
  ASSUME NEW T \in SUBSET Nat, T # {}
  PROVE  \E x \in T : \A y \in T : x <= y
<1>1. PICK x \in T : \A y \in T : ~ (<<y, x>> \in OpToRel(<, Nat))
  BY NatLessThanWellFounded, WFMin, Zenon
<1>2. \A y \in T : ~ (y < x)
  BY <1>1, Zenon DEF OpToRel
<1> QED
  BY <1>2

(* The oldest of some held members is one of them.                         *)
LEMMA OldestIsOne ==
  ASSUME NEW h, h \in [DOMAIN h -> Held], NEW S \in SUBSET DOMAIN h, S # {}
  PROVE  /\ Oldest(h, S) \in S
         /\ \A j \in S : h[Oldest(h, S)].since <= h[j].since
<1> DEFINE T == {h[k].since : k \in S}
<1>1. \A k \in S : h[k].since \in Nat
  BY DEF Held
<1>2. T \in SUBSET Nat /\ T # {}
  BY <1>1
<1>3. PICK t \in T : \A u \in T : t <= u
  BY <1>2, LeastNatural
<1>4. \E k \in S : \A j \in S : h[k].since <= h[j].since
  BY <1>3
<1> QED
  BY <1>4 DEF Oldest

(* Taking the oldest away brings a set that is one over a limit back to it.*)
LEMMA OneLess ==
  ASSUME NEW S, IsFiniteSet(S), NEW x \in S, NEW n \in Nat, Cardinality(S) <= n + 1
  PROVE  Cardinality(S \ {x}) <= n
<1>1. Cardinality(S) \in Nat
  BY FS_CardinalityType
<1>2. Cardinality(S \ {x}) = Cardinality(S) - 1
  BY FS_RemoveElement
<1> QED
  BY <1>1, <1>2

(* Adding one makes a finite set bigger by one at most.                    *)
LEMMA OneMore ==
  ASSUME NEW S, IsFiniteSet(S), NEW x, NEW n \in Nat, Cardinality(S) <= n
  PROVE  /\ IsFiniteSet(S \cup {x}) /\ Cardinality(S \cup {x}) \in Nat
         /\ Cardinality(S \cup {x}) <= n + 1
<1>1. Cardinality(S) \in Nat
  BY FS_CardinalityType
<1>2. /\ IsFiniteSet(S \cup {x})
      /\ Cardinality(S \cup {x}) = IF x \in S THEN Cardinality(S) ELSE Cardinality(S) + 1
  BY FS_AddElement
<1> QED
  BY <1>1, <1>2

LEMMA OverIsSome ==
  ASSUME NEW S, NEW n \in Nat, Cardinality(S) > n
  PROVE  S # {}
<1>1. Cardinality({}) = 0
  BY FS_EmptySet
<1> QED
  BY <1>1

Within(h) ==
  /\ IsFiniteSet(DOMAIN h)
  /\ \A r \in Rooms : Cardinality(HeldIn(h, r)) <= HeldPerRoom
  /\ Cardinality(DOMAIN h) <= HeldTotal

LEMMA FewerAreWithin ==
  ASSUME NEW h, NEW g, Within(h), DOMAIN g \subseteq DOMAIN h
  PROVE  Within(g)
<1>1. IsFiniteSet(DOMAIN g) /\ Cardinality(DOMAIN g) <= Cardinality(DOMAIN h)
  BY FS_Subset DEF Within
<1>2. ASSUME NEW r \in Rooms PROVE Cardinality(HeldIn(g, r)) <= HeldPerRoom
  <2>1. HeldIn(g, r) \subseteq HeldIn(h, r) /\ HeldIn(h, r) \subseteq DOMAIN h
    BY DEF HeldIn
  <2>2. IsFiniteSet(HeldIn(h, r))
    BY <2>1, FS_Subset DEF Within
  <2>3. IsFiniteSet(HeldIn(g, r)) /\ Cardinality(HeldIn(g, r)) <= Cardinality(HeldIn(h, r))
    BY <2>1, <2>2, FS_Subset
  <2> QED
    BY <2>2, <2>3, FS_CardinalityType, HubAssumption DEF Within
<1>3. Cardinality(DOMAIN g) \in Nat /\ Cardinality(DOMAIN h) \in Nat
  BY <1>1, FS_CardinalityType DEF Within
<1> QED
  BY <1>1, <1>2, <1>3, HubAssumption DEF Within

(* Holding one more member keeps both limits: the room's oldest goes first,*)
(* then the oldest of all.                                                 *)
LEMMA HoldIsWithin ==
  ASSUME NEW h, h \in [DOMAIN h -> Held], Within(h),
         NEW r \in Rooms, NEW id, NEW m \in Held
  PROVE  Within(Hold(h, r, id, m))
<1> DEFINE h1 == Put(h, <<r, id>>, m)
           h2 == TrimRoom(h1, r)
           h3 == TrimAll(h2)
<1>1. DOMAIN h1 = DOMAIN h \cup {<<r, id>>} /\ h1 \in [DOMAIN h1 -> Held]
  BY DEF Put
<1> HIDE DEF h1
<1>2. /\ IsFiniteSet(DOMAIN h1)
      /\ Cardinality(DOMAIN h1) \in Nat /\ Cardinality(DOMAIN h1) <= HeldTotal + 1
  <2>1. IsFiniteSet(DOMAIN h) /\ Cardinality(DOMAIN h) <= HeldTotal /\ HeldTotal \in Nat
    BY HubAssumption DEF Within
  <2> QED
    BY <1>1, <2>1, OneMore
<1>3. ASSUME NEW q \in Rooms
      PROVE  /\ IsFiniteSet(HeldIn(h1, q)) /\ Cardinality(HeldIn(h1, q)) \in Nat
             /\ Cardinality(HeldIn(h1, q)) <= IF q = r THEN HeldPerRoom + 1 ELSE HeldPerRoom
  <2>1. HeldIn(h, q) \subseteq DOMAIN h /\ IsFiniteSet(HeldIn(h, q))
    BY FS_Subset DEF HeldIn, Within
  <2>2. HeldIn(h1, q) = IF q = r THEN HeldIn(h, q) \cup {<<r, id>>} ELSE HeldIn(h, q)
    BY <1>1 DEF HeldIn
  <2>3. Cardinality(HeldIn(h, q)) <= HeldPerRoom /\ HeldPerRoom \in Nat
    BY HubAssumption DEF Within
  <2>4. CASE q = r
    BY <2>1, <2>2, <2>3, <2>4, OneMore
  <2>5. CASE q # r
    BY <2>1, <2>2, <2>3, <2>5, FS_CardinalityType
  <2> QED
    BY <2>4, <2>5
<1>4. /\ DOMAIN h2 \subseteq DOMAIN h1
      /\ h2 \in [DOMAIN h2 -> Held]
      /\ \A q \in Rooms : Cardinality(HeldIn(h2, q)) <= HeldPerRoom
  <2>1. CASE Cardinality(HeldIn(h1, r)) > HeldPerRoom
    <3> DEFINE o == Oldest(h1, HeldIn(h1, r))
    <3>1. h2 = Without(h1, {o})
      BY <2>1 DEF TrimRoom
    <3>2. HeldIn(h1, r) # {}
      BY <2>1, OverIsSome, HubAssumption
    <3>3. o \in HeldIn(h1, r)
      <4>1. HeldIn(h1, r) \in SUBSET DOMAIN h1
        BY DEF HeldIn
      <4> QED
        BY <1>1, <3>2, <4>1, OldestIsOne
    <3> HIDE DEF o, h2
    <3>4. /\ DOMAIN h2 = DOMAIN h1 \ {o}
          /\ h2 \in [DOMAIN h2 -> Held]
      BY <1>1, <3>1 DEF Without
    <3>5. ASSUME NEW q \in Rooms PROVE Cardinality(HeldIn(h2, q)) <= HeldPerRoom
      <4>1. CASE q = r
        <5>1. HeldIn(h2, r) = HeldIn(h1, r) \ {o}
          BY <3>4 DEF HeldIn
        <5>2. IsFiniteSet(HeldIn(h1, r)) /\ Cardinality(HeldIn(h1, r)) <= HeldPerRoom + 1
          BY <1>3
        <5> QED
          BY <3>3, <4>1, <5>1, <5>2, OneLess, HubAssumption
      <4>2. CASE q # r
        <5>1. HeldIn(h2, q) = HeldIn(h1, q)
          BY <3>3, <3>4, <4>2 DEF HeldIn
        <5> QED
          BY <1>3, <4>2, <5>1
      <4> QED
        BY <4>1, <4>2
    <3> QED
      BY <3>4, <3>5
  <2>2. CASE ~(Cardinality(HeldIn(h1, r)) > HeldPerRoom)
    <3>1. h2 = h1
      BY <2>2 DEF TrimRoom
    <3> HIDE DEF h2
    <3> QED
      BY <1>1, <1>3, <2>2, <3>1, HubAssumption
  <2> QED
    BY <2>1, <2>2
<1> HIDE DEF h2
<1>5. /\ IsFiniteSet(DOMAIN h2)
      /\ Cardinality(DOMAIN h2) \in Nat /\ Cardinality(DOMAIN h2) <= HeldTotal + 1
  BY <1>2, <1>4, FS_Subset, FS_CardinalityType, HubAssumption
<1>6. /\ DOMAIN h3 \subseteq DOMAIN h2 /\ Cardinality(DOMAIN h3) <= HeldTotal
  <2>1. CASE Cardinality(DOMAIN h2) > HeldTotal
    <3> DEFINE o == Oldest(h2, DOMAIN h2)
    <3>1. DOMAIN h3 = DOMAIN h2 \ {o}
      BY <2>1 DEF TrimAll, Without
    <3>2. DOMAIN h2 # {}
      BY <2>1, OverIsSome, HubAssumption
    <3>3. o \in DOMAIN h2
      BY <1>4, <3>2, OldestIsOne
    <3> HIDE DEF o, h3
    <3> QED
      BY <1>5, <3>1, <3>3, OneLess, HubAssumption
  <2>2. CASE ~(Cardinality(DOMAIN h2) > HeldTotal)
    BY <1>5, <2>2, HubAssumption DEF TrimAll
  <2> QED
    BY <2>1, <2>2
<1> HIDE DEF h3
<1>7. Within(h3)
  <2>1. IsFiniteSet(DOMAIN h3)
    BY <1>5, <1>6, FS_Subset
  <2>2. ASSUME NEW q \in Rooms PROVE Cardinality(HeldIn(h3, q)) <= HeldPerRoom
    <3>1. HeldIn(h3, q) \subseteq HeldIn(h2, q) /\ HeldIn(h2, q) \subseteq DOMAIN h2
      BY <1>6 DEF HeldIn
    <3>2. IsFiniteSet(HeldIn(h2, q)) /\ IsFiniteSet(HeldIn(h3, q))
          /\ Cardinality(HeldIn(h3, q)) <= Cardinality(HeldIn(h2, q))
      BY <1>5, <3>1, FS_Subset
    <3> QED
      BY <1>4, <3>2, FS_CardinalityType, HubAssumption
  <2> QED
    BY <1>6, <2>1, <2>2 DEF Within
<1>8. Hold(h, r, id, m) = h3
  BY DEF Hold, h1, h2, h3
<1> QED
  BY <1>7, <1>8

(* Nobody is added to the book but by a close.                             *)
LEMMA BookShrinks ==
  ASSUME [Next]_vars
  PROVE  DOMAIN held' \subseteq DOMAIN held \/ \E c \in Conns : Closed(c)
<1>1. ASSUME NEW c \in Conns, NEW r, NEW want, NEW proves, NEW tok,
             Join(c, r, want, proves, tok)
      PROVE  DOMAIN held' \subseteq DOMAIN held
  BY <1>1 DEF Join, Without
<1>2. ASSUME NEW c \in Conns, NEW tok, Auth(c, tok) PROVE DOMAIN held' \subseteq DOMAIN held
  BY <1>2 DEF Auth, Without
<1>3. ASSUME NEW S, End(S) PROVE DOMAIN held' \subseteq DOMAIN held
  BY <1>3 DEF End, Without
<1>4. ASSUME SweepHeld PROVE DOMAIN held' \subseteq DOMAIN held
  BY <1>4 DEF SweepHeld, Without
<1>5. ASSUME NEW r, NEW S, DisconnectRoom(r, S) PROVE DOMAIN held' \subseteq DOMAIN held
  BY <1>5 DEF DisconnectRoom, Without
<1> QED
  BY <1>1, <1>2, <1>3, <1>4, <1>5
  DEF Next, vars, Connect, Leave, JoinRefused, Remove, Lapse, SignOut, RevokeAll

(* "At most this many held members per room, and in all", for any limits   *)
(* and any number of rooms and connections.                                *)
THEOREM HeldAlwaysWithinLimits == Spec => []HeldWithinLimits
<1>1. Init => Within(held)
  <2> SUFFICES ASSUME Init PROVE Within(held)
    OBVIOUS
  <2>1. DOMAIN held = {} /\ \A r \in Rooms : HeldIn(held, r) = {}
    BY DEF Init, Empty, HeldIn
  <2>2. IsFiniteSet(DOMAIN held) /\ Cardinality(DOMAIN held) = 0
    BY <2>1, FS_EmptySet
  <2>3. \A r \in Rooms : Cardinality(HeldIn(held, r)) = 0
    BY <2>1, FS_EmptySet
  <2>4. 0 <= HeldPerRoom /\ 0 <= HeldTotal
    BY HubAssumption
  <2> QED
    BY <2>2, <2>3, <2>4 DEF Within
<1>2. Inv /\ Within(held) /\ [Next]_vars => Within(held)'
  <2> SUFFICES ASSUME Inv, Within(held), [Next]_vars PROVE Within(held')
    BY DEF Within, HeldIn
  <2>1. CASE DOMAIN held' \subseteq DOMAIN held
    BY <2>1, FewerAreWithin
  <2>2. ASSUME NEW c \in Conns, Closed(c) PROVE Within(held')
    <3>1. CASE conn[c].room # NoRoom /\ ~conn[c].removed
      <4> DEFINE m == [by |-> c, tok |-> conn[c].tok, since |-> clock]
      <4>1. held' = Hold(held, conn[c].room, conn[c].id, m)
        BY <2>2, <3>1 DEF Closed
      <4>2. m \in Held /\ conn[c].room \in Rooms /\ held \in [DOMAIN held -> Held]
        BY <3>1 DEF Inv, TypeOK, Conn, Held
      <4> HIDE DEF m
      <4> QED
        BY <4>1, <4>2, HoldIsWithin
    <3>2. CASE ~(conn[c].room # NoRoom /\ ~conn[c].removed)
      <4>1. held' = held
        BY <2>2, <3>2 DEF Closed
      <4> QED
        BY <4>1
    <3> QED
      BY <3>1, <3>2
  <2> QED
    BY <2>1, <2>2, BookShrinks
<1>3. Within(held) => HeldWithinLimits
  BY DEF Within, HeldWithinLimits
<1> QED
  BY <1>1, <1>2, <1>3, AlwaysInv, PTL DEF Spec

----------------------------------------------------------------------------
(* Who empties a seat.                                                     *)

(* A leave, refused join or close of one connection.                       *)
LEMMA OthersStaySeated ==
  ASSUME Inv, NEW c \in Conns, rooms' = Unseat(rooms, c),
         conn'[c].room = NoRoom, \A x \in Conns \ {c} : conn'[x] = conn[x],
         NEW r \in Rooms, NEW id \in DOMAIN rooms[r]
  PROVE  \/ conn'[rooms[r][id]].room # r
         \/ id \in DOMAIN rooms'[r] /\ conn'[rooms'[r][id]].room = r
<1> DEFINE x == rooms[r][id]
<1>1. x \in Conns /\ conn[x].room = r /\ conn[x].id = id
  BY DEF Inv, TypeOK, IndexSound
<1>2. CASE x = c
  BY <1>2, HubAssumption
<1>3. CASE x # c
  <2>1. conn'[x] = conn[x]
    BY <1>1, <1>3
  <2>2. id \in DOMAIN rooms'[r] /\ rooms'[r][id] = x
    <3>1. CASE ~Seated(rooms, c)
      BY <3>1 DEF Unseat
    <3>2. CASE Seated(rooms, c)
      <4>1. rooms'[r] = IF r = conn[c].room THEN Without(rooms[r], {conn[c].id}) ELSE rooms[r]
        BY <3>2 DEF Unseat, Seated, Inv, TypeOK
      <4>2. r = conn[c].room => id # conn[c].id
        BY <1>3, <3>2 DEF Seated
      <4> QED
        BY <4>1, <4>2 DEF Without
    <3> QED
      BY <3>1, <3>2
  <2> QED
    BY <1>1, <2>1, <2>2
<1> QED
  BY <1>2, <1>3

LEMMA JoinKeepsSeats ==
  ASSUME Inv, NEW c \in Conns, NEW q \in Rooms, NEW want \in Ids \cup {NoId},
         NEW proves \in BOOLEAN, NEW tok \in Tokens \cup {NoToken},
         Join(c, q, want, proves, tok),
         NEW r \in Rooms, NEW id \in DOMAIN rooms[r]
  PROVE  \/ conn'[rooms[r][id]].room # r \/ conn'[rooms[r][id]].id # id
         \/ id \in DOMAIN rooms'[r] /\ conn'[rooms'[r][id]].room = r
<1> DEFINE left == Unseat(rooms, c)
           own  == IdGiven(left, c, q, want, proves)
           used == IF tok # NoToken /\ session[tok] = "live" THEN tok ELSE NoToken
           over == Replaces(left, c, q, want, proves)
           rest == IF over THEN Without(left[q], {want}) ELSE left[q]
           x    == rooms[r][id]
<1>1. x \in Conns /\ conn[x].room = r /\ conn[x].id = id
  BY DEF Inv, TypeOK, IndexSound
<1>2. /\ conn' = [y \in Conns |->
                    IF y = c THEN [conn[c] EXCEPT !.id = own, !.room = q, !.tok = used]
                    ELSE IF over /\ y = left[q][want] THEN [conn[y] EXCEPT !.room = NoRoom]
                    ELSE conn[y]]
      /\ rooms' = [left EXCEPT ![q] = IF over /\ DOMAIN rest = {} THEN rest
                                      ELSE Put(rest, own, c)]
  BY DEF Join
<1>3. /\ left \in [Rooms -> {left[p] : p \in Rooms}]
      /\ \A p \in Rooms : \A i \in DOMAIN left[p] :
           i \in DOMAIN rooms[p] /\ left[p][i] = rooms[p][i] /\ left[p][i] # c
  BY UnseatKeeps DEF Inv
<1>4. \A p \in Rooms : \A i \in DOMAIN rooms[p] : rooms[p][i] # c => i \in DOMAIN left[p]
  <2> SUFFICES ASSUME NEW p \in Rooms, NEW i \in DOMAIN rooms[p], rooms[p][i] # c
               PROVE  i \in DOMAIN left[p]
    OBVIOUS
  <2>1. CASE ~Seated(rooms, c)
    BY <2>1 DEF Unseat
  <2>2. CASE Seated(rooms, c)
    <3>1. left[p] = IF p = conn[c].room THEN Without(rooms[p], {conn[c].id}) ELSE rooms[p]
      BY <2>2 DEF Unseat, Seated, Inv, TypeOK
    <3>2. p = conn[c].room => i # conn[c].id
      BY <2>2 DEF Seated
    <3> QED
      BY <3>1, <3>2 DEF Without
  <2> QED
    BY <2>1, <2>2
<1>5. over => want \in DOMAIN left[q] /\ own = want
  BY DEF Replaces, IdGiven
<1> HIDE DEF left, own, over, used
<1>6. \A y \in Conns : conn[y] \in Conn
  BY DEF Inv, TypeOK
<1>7. conn'[c].room = q /\ conn'[c].id = own
  BY <1>2, <1>6 DEF Conn
<1>8. ASSUME NEW y \in DOMAIN rest
      PROVE  y \in DOMAIN left[q] /\ rest[y] = left[q][y] /\ (over => y # want)
  BY DEF Without
<1>9. \/ over /\ DOMAIN rest = {} /\ rooms'[q] = rest
      \/ ~(over /\ DOMAIN rest = {}) /\ rooms'[q] = Put(rest, own, c)
  BY <1>2, <1>3
<1>10. \A p \in Rooms \ {q} : rooms'[p] = left[p]
  BY <1>2, <1>3
<1>11. CASE x = c
  <2>1. SUFFICES ASSUME q = r, own = id PROVE id \in DOMAIN rooms'[r] /\ rooms'[r][id] = c
    BY <1>7, <1>11
  <2>2. id \notin DOMAIN left[q]
    BY <1>3, <1>11, <2>1
  <2>3. ~over
    BY <1>5, <2>1, <2>2
  <2>4. rooms'[q] = Put(rest, own, c)
    BY <1>9, <2>3
  <2> QED
    BY <2>1, <2>4 DEF Put
<1>12. CASE x # c
  <2>1. id \in DOMAIN left[r] /\ left[r][id] = x
    BY <1>3, <1>4, <1>12
  <2>2. CASE over /\ x = left[q][want]
    <3>1. conn'[x].room = NoRoom
      BY <1>1, <1>2, <1>6, <1>12, <2>2 DEF Conn
    <3> QED
      BY <3>1, HubAssumption
  <2>3. CASE ~(over /\ x = left[q][want])
    <3>1. conn'[x].room = r
      BY <1>1, <1>2, <1>12, <2>3
    <3>2. CASE r # q
      BY <1>10, <2>1, <3>1, <3>2
    <3>3. CASE r = q
      <4>1. id \in DOMAIN rest /\ rest[id] = x
        BY <2>1, <2>3, <3>3 DEF Without
      <4> HIDE DEF rest
      <4>2. rooms'[q] = Put(rest, own, c)
        BY <1>9, <4>1
      <4>3. id \in DOMAIN rooms'[q] /\ rooms'[q][id] \in {c, x}
        BY <4>1, <4>2 DEF Put
      <4> QED
        BY <1>7, <3>1, <3>3, <4>3
    <3> QED
      BY <3>2, <3>3
  <2> QED
    BY <2>2, <2>3
<1> QED
  BY <1>11, <1>12

LEMMA DisconnectKeepsSeats ==
  ASSUME Inv, NEW q \in Rooms, NEW S \in SUBSET Ids, DisconnectRoom(q, S),
         NEW r \in Rooms, NEW id \in DOMAIN rooms[r]
  PROVE  \/ conn'[rooms[r][id]].room # r
         \/ id \in DOMAIN rooms'[r] /\ conn'[rooms'[r][id]].room = r
<1> DEFINE x == rooms[r][id]
           seats == S \cap DOMAIN rooms[q]
           out(y) == \E i \in seats : rooms[q][i] = y
<1>1. x \in Conns /\ conn[x].room = r /\ conn[x].id = id /\ conn[x] \in Conn
  BY DEF Inv, TypeOK, IndexSound
<1>2. /\ conn'[x] = IF out(x) THEN [conn[x] EXCEPT !.removed = TRUE, !.room = NoRoom] ELSE conn[x]
      /\ rooms'[r] = IF r = q THEN Without(rooms[r], seats) ELSE rooms[r]
  BY <1>1 DEF DisconnectRoom, Inv, TypeOK
<1>3. CASE out(x)
  <2>1. conn'[x].room = NoRoom
    BY <1>1, <1>2, <1>3 DEF Conn
  <2> QED
    BY <2>1, HubAssumption
<1>4. CASE ~out(x)
  <2>1. r = q => id \notin seats
    BY <1>4
  <2>2. id \in DOMAIN rooms'[r] /\ rooms'[r][id] = x
    BY <1>2, <2>1 DEF Without
  <2> QED
    BY <1>1, <1>2, <1>4, <2>2
<1> QED
  BY <1>3, <1>4

(* Nobody's seat is emptied by somebody else, for any connections and      *)
(* rooms: it is given up, or taken over by who joins under the same id.    *)
THEOREM SeatsAlwaysKept == Spec => SeatsAreKept
<1> DEFINE Kept ==
      \A r \in Rooms : \A id \in DOMAIN rooms[r] :
       LET c == rooms[r][id] IN
       \/ conn'[c].room # r \/ conn'[c].id # id
       \/ id \in DOMAIN rooms'[r] /\ conn'[rooms'[r][id]].room = r
<1>1. Inv /\ [Next]_vars => [Kept]_vars
  <2> SUFFICES ASSUME Inv, [Next]_vars, NEW r \in Rooms, NEW id \in DOMAIN rooms[r]
               PROVE  \/ conn'[rooms[r][id]].room # r \/ conn'[rooms[r][id]].id # id
                      \/ id \in DOMAIN rooms'[r] /\ conn'[rooms'[r][id]].room = r
    OBVIOUS
  <2> DEFINE Goal == \/ conn'[rooms[r][id]].room # r \/ conn'[rooms[r][id]].id # id
                     \/ id \in DOMAIN rooms'[r] /\ conn'[rooms'[r][id]].room = r
  <2>1. /\ rooms[r][id] \in Conns /\ conn[rooms[r][id]].room = r
        /\ conn \in [Conns -> Conn]
    BY DEF Inv, TypeOK, IndexSound
  <2>2. ASSUME NEW c \in Conns, Leave(c) \/ JoinRefused(c) \/ Closed(c) PROVE Goal
    <3>1. rooms' = Unseat(rooms, c)
      BY <2>2 DEF Leave, JoinRefused, Closed
    <3>2. conn'[c].room = NoRoom /\ \A x \in Conns \ {c} : conn'[x] = conn[x]
      BY <2>1, <2>2 DEF Leave, JoinRefused, Closed, Conn
    <3> QED
      BY <3>1, <3>2, OthersStaySeated
  <2>3. ASSUME NEW c \in Conns, NEW q \in Rooms, NEW want \in Known \cup {NoId},
               NEW proves \in BOOLEAN, NEW tok \in Holds[c] \cup {NoToken},
               Join(c, q, want, proves, tok)
        PROVE  Goal
    <3>1. want \in Ids \cup {NoId} /\ tok \in Tokens \cup {NoToken}
      BY HubAssumption DEF Known, Ids
    <3> QED
      BY <2>3, <3>1, JoinKeepsSeats
  <2>4. ASSUME NEW q \in Rooms, NEW S \in SUBSET Ids, DisconnectRoom(q, S) PROVE Goal
    BY <2>4, DisconnectKeepsSeats
  <2>5. ASSUME rooms' = rooms, \A x \in Conns : conn'[x].room = conn[x].room PROVE Goal
    BY <2>1, <2>5
  <2>6. ASSUME NEW c \in Conns, Connect(c) \/ Remove(c) PROVE Goal
    BY <2>1, <2>5, <2>6 DEF Connect, Remove, Conn
  <2>7. ASSUME NEW c \in Conns, NEW tok, Auth(c, tok) PROVE Goal
    BY <2>1, <2>5, <2>7 DEF Auth, Conn
  <2>8. ASSUME NEW S, End(S) PROVE Goal
    BY <2>1, <2>5, <2>8 DEF End, Conn
  <2>9. ASSUME SweepHeld \/ UNCHANGED vars \/ \E t \in Tokens : Lapse(t) PROVE Goal
    BY <2>5, <2>9 DEF SweepHeld, Lapse, vars
  <2> QED
    BY <2>2, <2>3, <2>4, <2>6, <2>7, <2>8, <2>9 DEF Next, SignOut, RevokeAll
<1> QED
  BY <1>1, AlwaysInv, PTL DEF Spec, SeatsAreKept

----------------------------------------------------------------------------
(* Who ends a held member's time.                                          *)

(* Members are held at different times, all of them in the past.           *)
Ages(h, t) ==
  /\ \A k \in DOMAIN h : h[k].since < t
  /\ \A j, k \in DOMAIN h : h[j].since = h[k].since => j = k

Elder(h, k, g, S) == \A j \in S : g[j].since > h[k].since

(* Holding a member keeps the ages apart, and who is dropped for it is     *)
(* older than those that stay in the room, or in the book.                 *)
LEMMA HoldDropsTheOldest ==
  ASSUME NEW h, h \in [DOMAIN h -> Held], NEW t \in Nat, Ages(h, t),
         NEW r, NEW id, NEW m \in Held, m.since = t
  PROVE  LET g == Hold(h, r, id, m) IN
         /\ Ages(g, t + 1)
         /\ \A k \in DOMAIN h \ DOMAIN g :
              Elder(h, k, g, HeldIn(g, k[1])) \/ Elder(h, k, g, DOMAIN g)
<1> DEFINE new == <<r, id>>
           h1 == Put(h, new, m)
           h2 == TrimRoom(h1, r)
           h3 == TrimAll(h2)
<1>1. /\ DOMAIN h1 = DOMAIN h \cup {new}
      /\ h1 \in [DOMAIN h1 -> Held]
      /\ h1[new] = m
      /\ \A k \in DOMAIN h1 : k # new => h1[k] = h[k]
  BY DEF Put
<1> HIDE DEF h1
<1>2. /\ \A k \in DOMAIN h : h[k].since \in Nat
      /\ \A k \in DOMAIN h1 : h1[k].since \in Nat
  BY <1>1 DEF Held
<1>3. Ages(h1, t + 1)
  <2>1. \A k \in DOMAIN h1 : k # new => k \in DOMAIN h /\ h1[k].since < t
    BY <1>1 DEF Ages
  <2>2. h1[new].since = t
    BY <1>1
  <2>3. \A k \in DOMAIN h1 : h1[k].since < t + 1
    BY <1>2, <2>1, <2>2
  <2>4. ASSUME NEW j \in DOMAIN h1, NEW k \in DOMAIN h1, h1[j].since = h1[k].since
        PROVE  j = k
    <3>1. CASE j # new /\ k # new
      BY <1>1, <2>1, <2>4, <3>1 DEF Ages
    <3>2. CASE j = new \/ k = new
      BY <1>2, <2>1, <2>2, <2>4, <3>2
    <3> QED
      BY <3>1, <3>2
  <2> QED
    BY <2>3, <2>4 DEF Ages
<1>4. ASSUME NEW k \in DOMAIN h
      PROVE  k \in DOMAIN h1 /\ h[k].since <= h1[k].since
  <2>1. CASE k = new
    BY <1>1, <1>2, <2>1 DEF Ages
  <2>2. CASE k # new
    BY <1>1, <1>2, <2>2
  <2> QED
    BY <2>1, <2>2
<1>5. /\ DOMAIN h2 \subseteq DOMAIN h1
      /\ h2 \in [DOMAIN h2 -> Held]
      /\ \A k \in DOMAIN h2 : h2[k] = h1[k]
      /\ \A k \in DOMAIN h1 \ DOMAIN h2 :
           /\ k[1] = r
           /\ \A j \in HeldIn(h1, r) : h1[k].since <= h1[j].since
  <2>1. CASE Cardinality(HeldIn(h1, r)) > HeldPerRoom
    <3> DEFINE o == Oldest(h1, HeldIn(h1, r))
    <3>1. h2 = Without(h1, {o})
      BY <2>1 DEF TrimRoom
    <3>2. HeldIn(h1, r) # {}
      BY <2>1, OverIsSome, HubAssumption
    <3>3. o \in HeldIn(h1, r) /\ \A j \in HeldIn(h1, r) : h1[o].since <= h1[j].since
      <4>1. HeldIn(h1, r) \in SUBSET DOMAIN h1
        BY DEF HeldIn
      <4> QED
        BY <1>1, <3>2, <4>1, OldestIsOne
    <3> HIDE DEF o, h2
    <3> QED
      BY <1>1, <3>1, <3>3 DEF Without, HeldIn
  <2>2. CASE ~(Cardinality(HeldIn(h1, r)) > HeldPerRoom)
    <3>1. h2 = h1
      BY <2>2 DEF TrimRoom
    <3> HIDE DEF h2
    <3> QED
      BY <1>1, <3>1
  <2> QED
    BY <2>1, <2>2
<1> HIDE DEF h2
<1>6. /\ DOMAIN h3 \subseteq DOMAIN h2
      /\ \A k \in DOMAIN h3 : h3[k] = h2[k]
      /\ \A k \in DOMAIN h2 \ DOMAIN h3 : \A j \in DOMAIN h2 : h2[k].since <= h2[j].since
  <2>1. CASE Cardinality(DOMAIN h2) > HeldTotal
    <3> DEFINE o == Oldest(h2, DOMAIN h2)
    <3>1. h3 = Without(h2, {o})
      BY <2>1 DEF TrimAll
    <3>2. DOMAIN h2 # {}
      BY <2>1, OverIsSome, HubAssumption
    <3>3. o \in DOMAIN h2 /\ \A j \in DOMAIN h2 : h2[o].since <= h2[j].since
      BY <1>5, <3>2, OldestIsOne
    <3> HIDE DEF o, h3
    <3> QED
      BY <3>1, <3>3 DEF Without
  <2>2. CASE ~(Cardinality(DOMAIN h2) > HeldTotal)
    <3>1. h3 = h2
      BY <2>2 DEF TrimAll
    <3> HIDE DEF h3
    <3> QED
      BY <3>1
  <2> QED
    BY <2>1, <2>2
<1>7. Hold(h, r, id, m) = h3
  BY DEF Hold, h1, h2, h3
<1> HIDE DEF h3
<1>8. /\ DOMAIN h3 \subseteq DOMAIN h1
      /\ \A k \in DOMAIN h3 : h3[k] = h1[k]
  BY <1>5, <1>6
<1>9. Ages(h3, t + 1)
  BY <1>3, <1>8 DEF Ages
<1>10. ASSUME NEW k \in DOMAIN h1, NEW j \in DOMAIN h1, k # j, h1[k].since <= h1[j].since
       PROVE  h1[k].since < h1[j].since
  BY <1>2, <1>3, <1>10 DEF Ages
<1>11. ASSUME NEW k \in DOMAIN h \ DOMAIN h3
       PROVE  Elder(h, k, h3, HeldIn(h3, k[1])) \/ Elder(h, k, h3, DOMAIN h3)
  <2>1. k \in DOMAIN h1 /\ h[k].since <= h1[k].since
    BY <1>4
  <2>2. CASE k \notin DOMAIN h2
    <3>1. k[1] = r /\ \A j \in HeldIn(h1, r) : h1[k].since <= h1[j].since
      BY <1>5, <2>1, <2>2
    <3>2. ASSUME NEW j \in HeldIn(h3, k[1]) PROVE h3[j].since > h[k].since
      <4>1. j \in HeldIn(h1, r) /\ j \in DOMAIN h1 /\ j # k /\ h3[j] = h1[j]
        BY <1>8, <3>1 DEF HeldIn
      <4>2. h1[k].since < h1[j].since
        BY <1>10, <2>1, <3>1, <4>1
      <4> QED
        BY <1>2, <2>1, <4>1, <4>2
    <3> QED
      BY <3>2 DEF Elder
  <2>3. CASE k \in DOMAIN h2
    <3>1. \A j \in DOMAIN h2 : h2[k].since <= h2[j].since
      BY <1>6, <2>3
    <3>2. ASSUME NEW j \in DOMAIN h3 PROVE h3[j].since > h[k].since
      <4>1. j \in DOMAIN h2 /\ j \in DOMAIN h1 /\ j # k /\ h3[j] = h1[j]
            /\ h2[j] = h1[j] /\ h2[k] = h1[k]
        BY <1>5, <1>6, <1>8, <2>3
      <4>2. h1[k].since < h1[j].since
        BY <1>10, <2>1, <3>1, <4>1
      <4> QED
        BY <1>2, <2>1, <4>1, <4>2
    <3> QED
      BY <3>2 DEF Elder
  <2> QED
    BY <2>2, <2>3
<1> QED
  BY <1>7, <1>9, <1>11

LEMMA AgesOfFewer ==
  ASSUME NEW h, NEW g, NEW t, Ages(h, t),
         DOMAIN g \subseteq DOMAIN h, \A k \in DOMAIN g : g[k] = h[k]
  PROVE  Ages(g, t)
BY DEF Ages

(* What may happen to a held member, as HeldForTheOwner says it.           *)
OwnerOrOldest(k) ==
  LET h == held[k]
      elder(S) == \A j \in S : held'[j].since > h.since
  IN
  \/ /\ k[2] \in DOMAIN rooms'[k[1]]
     /\ Device[rooms'[k[1]][k[2]]] = Device[h.by]
  \/ \E c \in Conns : /\ conn'[c].room = k[1] /\ conn'[c].tok # NoToken
                      /\ Account(conn'[c].tok) = Account(h.tok)
  \/ h.tok # NoToken /\ session'[h.tok] = "ended"
  \/ clock' = clock + 1 /\ (elder(HeldIn(held', k[1])) \/ elder(DOMAIN held'))
  \/ UNCHANGED <<conn, rooms, clock, session>> /\ elder(DOMAIN held')
  \/ \E S \in SUBSET Ids : DisconnectRoom(k[1], S)

LEMMA ClosedDropsTheOldest ==
  ASSUME Inv, Ages(held, clock), NEW c \in Conns, Closed(c)
  PROVE  /\ Ages(held', clock')
         /\ \A k \in DOMAIN held \ DOMAIN held' : OwnerOrOldest(k)
<1>1. CASE conn[c].room # NoRoom /\ ~conn[c].removed
  <2> DEFINE m == [by |-> c, tok |-> conn[c].tok, since |-> clock]
  <2>1. held' = Hold(held, conn[c].room, conn[c].id, m) /\ clock' = clock + 1
    BY <1>1 DEF Closed
  <2>2. m \in Held /\ m.since = clock /\ clock \in Nat /\ held \in [DOMAIN held -> Held]
    BY DEF Inv, TypeOK, Conn, Held
  <2> HIDE DEF m
  <2>3. /\ Ages(held', clock + 1)
        /\ \A k \in DOMAIN held \ DOMAIN held' :
             Elder(held, k, held', HeldIn(held', k[1])) \/ Elder(held, k, held', DOMAIN held')
    BY <2>1, <2>2, HoldDropsTheOldest
  <2> QED
    BY <2>1, <2>3 DEF OwnerOrOldest, Elder
<1>2. CASE ~(conn[c].room # NoRoom /\ ~conn[c].removed)
  BY <1>2 DEF Closed
<1> QED
  BY <1>1, <1>2

(* The entries of an account are dropped for a connection of the account.  *)
LEMMA AccountIsBack ==
  ASSUME Inv, NEW c \in Conns, NEW r \in Rooms, NEW used \in Tokens \cup {NoToken}, NEW except,
         conn'[c].room = r, conn'[c].tok = used,
         NEW h, NEW k \in OfAccount(h, r, Account(used), except), h[k] = held[k]
  PROVE  OwnerOrOldest(k)
<1>1. /\ k[1] = r /\ Account(used) # NoAccount /\ Account(held[k].tok) = Account(used)
  BY DEF OfAccount, HeldIn
<1>2. used # NoToken
  BY <1>1 DEF Account
<1> QED
  BY <1>1, <1>2 DEF OwnerOrOldest

LEMMA JoinDropsItsOwn ==
  ASSUME Inv, NEW c \in Conns, NEW r \in Rooms, NEW want \in Ids \cup {NoId},
         NEW proves \in BOOLEAN, NEW tok \in Tokens \cup {NoToken},
         Join(c, r, want, proves, tok)
  PROVE  /\ DOMAIN held' \subseteq DOMAIN held
         /\ \A k \in DOMAIN held' : held'[k] = held[k]
         /\ \A k \in DOMAIN held \ DOMAIN held' : OwnerOrOldest(k)
<1> DEFINE left == Unseat(rooms, c)
           id   == IdGiven(left, c, r, want, proves)
           used == IF tok # NoToken /\ session[tok] = "live" THEN tok ELSE NoToken
           back == Resumes(left, c, r, want, proves)
           over == Replaces(left, c, r, want, proves)
           rest == IF over THEN Without(left[r], {want}) ELSE left[r]
           book == IF back THEN Without(held, {<<r, want>>}) ELSE held
           S    == OfAccount(book, r, Account(used), id)
<1>1. /\ proves => CanProve(left, c, r, want)
      /\ conn' = [x \in Conns |->
                    IF x = c THEN [conn[c] EXCEPT !.id = id, !.room = r, !.tok = used]
                    ELSE IF over /\ x = left[r][want] THEN [conn[x] EXCEPT !.room = NoRoom]
                    ELSE conn[x]]
      /\ rooms' = [left EXCEPT ![r] = IF over /\ DOMAIN rest = {} THEN rest ELSE Put(rest, id, c)]
      /\ held' = Without(book, S)
  BY DEF Join
<1>2. used \in Tokens \cup {NoToken} /\ left \in [Rooms -> {left[q] : q \in Rooms}]
  BY UnseatKeeps DEF Inv
<1>3. back => /\ id = want /\ ~over /\ proves
              /\ want \notin DOMAIN left[r] /\ <<r, want>> \in DOMAIN held
  BY DEF Resumes, Replaces, IdGiven
<1>4. back => Device[held[<<r, want>>].by] = Device[c]
  BY <1>1, <1>3 DEF CanProve
<1> HIDE DEF left, id, used, back, over
<1>5. conn'[c].room = r /\ conn'[c].tok = used
  BY <1>1 DEF Inv, TypeOK, Conn
<1>6. /\ DOMAIN book = IF back THEN DOMAIN held \ {<<r, want>>} ELSE DOMAIN held
      /\ \A k \in DOMAIN book : book[k] = held[k]
  BY DEF Without
<1>7. back => want \in DOMAIN rooms'[r] /\ rooms'[r][want] = c
  <2> SUFFICES ASSUME back PROVE want \in DOMAIN rooms'[r] /\ rooms'[r][want] = c
    OBVIOUS
  <2>1. rooms'[r] = Put(rest, id, c)
    BY <1>1, <1>2, <1>3
  <2> HIDE DEF rest
  <2> QED
    BY <1>3, <2>1 DEF Put
<1> HIDE DEF book, rest
<1>8. S \subseteq DOMAIN book
  BY DEF OfAccount, HeldIn
<1>9. ASSUME NEW k \in S PROVE OwnerOrOldest(k)
  <2>1. book[k] = held[k]
    BY <1>6, <1>8
  <2>2. k \in OfAccount(book, r, Account(used), id)
    OBVIOUS
  <2> HIDE DEF S
  <2> QED
    BY <1>2, <1>5, <2>1, <2>2, AccountIsBack
<1> HIDE DEF S
<1>10. /\ DOMAIN held' = DOMAIN book \ S
       /\ \A k \in DOMAIN held' : held'[k] = book[k]
  BY <1>1 DEF Without
<1>11. ASSUME NEW k \in DOMAIN held \ DOMAIN held' PROVE OwnerOrOldest(k)
  <2>1. CASE k \in S
    BY <1>9, <2>1
  <2>2. CASE back /\ k = <<r, want>>
    BY <1>4, <1>7, <2>2 DEF OwnerOrOldest
  <2> QED
    BY <1>6, <1>10, <2>1, <2>2
<1> QED
  BY <1>6, <1>10, <1>11

LEMMA AuthDropsItsOwn ==
  ASSUME Inv, NEW c \in Conns, NEW tok \in Tokens \cup {NoToken}, Auth(c, tok)
  PROVE  /\ DOMAIN held' \subseteq DOMAIN held
         /\ \A k \in DOMAIN held' : held'[k] = held[k]
         /\ \A k \in DOMAIN held \ DOMAIN held' : OwnerOrOldest(k)
<1> DEFINE used == IF tok # NoToken /\ session[tok] = "live" THEN tok ELSE NoToken
           S    == OfAccount(held, conn[c].room, Account(used), conn[c].id)
<1>1. conn' = [conn EXCEPT ![c].tok = used] /\ used \in Tokens \cup {NoToken}
  BY DEF Auth
<1>2. held' = held \/ (conn[c].room # NoRoom /\ held' = Without(held, S))
  BY DEF Auth
<1> HIDE DEF used
<1>3. conn'[c].room = conn[c].room /\ conn'[c].tok = used
      /\ (conn[c].room # NoRoom => conn[c].room \in Rooms)
  BY <1>1 DEF Inv, TypeOK, Conn
<1>4. ASSUME conn[c].room # NoRoom, NEW k \in S PROVE OwnerOrOldest(k)
  BY <1>1, <1>3, <1>4, AccountIsBack
<1> HIDE DEF S
<1>5. CASE held' = held
  BY <1>5
<1>6. CASE conn[c].room # NoRoom /\ held' = Without(held, S)
  <2>1. DOMAIN held' = DOMAIN held \ S /\ \A k \in DOMAIN held' : held'[k] = held[k]
    BY <1>6 DEF Without
  <2> QED
    BY <1>4, <1>6, <2>1
<1> QED
  BY <1>2, <1>5, <1>6

LEMMA EndDropsTheEnded ==
  ASSUME Inv, NEW S \in SUBSET Tokens, End(S)
  PROVE  /\ DOMAIN held' \subseteq DOMAIN held
         /\ \A k \in DOMAIN held' : held'[k] = held[k]
         /\ \A k \in DOMAIN held \ DOMAIN held' : OwnerOrOldest(k)
<1>1. DOMAIN held' = DOMAIN held \ {k \in DOMAIN held : held[k].tok \in S}
      /\ \A k \in DOMAIN held' : held'[k] = held[k]
  BY DEF End, Without
<1>2. ASSUME NEW k \in DOMAIN held, held[k].tok \in S PROVE OwnerOrOldest(k)
  <2>1. session'[held[k].tok] = "ended" /\ held[k].tok # NoToken
    BY <1>2, HubAssumption DEF End
  <2> QED
    BY <2>1 DEF OwnerOrOldest
<1> QED
  BY <1>1, <1>2

LEMMA SweepDropsTheOldest ==
  ASSUME Inv, SweepHeld
  PROVE  /\ DOMAIN held' \subseteq DOMAIN held
         /\ \A k \in DOMAIN held' : held'[k] = held[k]
         /\ \A k \in DOMAIN held \ DOMAIN held' : OwnerOrOldest(k)
<1>1. PICK t \in 1 .. clock :
        /\ held' = Without(held, {k \in DOMAIN held : held[k].since < t})
        /\ UNCHANGED <<conn, rooms, clock, session>>
  BY DEF SweepHeld
<1>2. DOMAIN held' = {k \in DOMAIN held : ~(held[k].since < t)}
      /\ \A k \in DOMAIN held' : held'[k] = held[k]
  BY <1>1 DEF Without
<1>3. \A k \in DOMAIN held : held[k].since \in Nat
  BY DEF Inv, TypeOK, Held
<1>4. t \in Nat
  BY DEF Inv, TypeOK
<1>5. ASSUME NEW k \in DOMAIN held \ DOMAIN held' PROVE OwnerOrOldest(k)
  <2>1. \A j \in DOMAIN held' : held'[j].since > held[k].since
    BY <1>2, <1>3, <1>4
  <2> QED
    BY <1>1, <2>1 DEF OwnerOrOldest
<1> QED
  BY <1>2, <1>5

LEMMA DropsForAReason ==
  ASSUME Inv, Ages(held, clock), [Next]_vars
  PROVE  /\ Ages(held', clock')
         /\ \A k \in DOMAIN held \ DOMAIN held' : OwnerOrOldest(k)
<1> DEFINE Fewer == /\ DOMAIN held' \subseteq DOMAIN held
                    /\ \A k \in DOMAIN held' : held'[k] = held[k]
                    /\ \A k \in DOMAIN held \ DOMAIN held' : OwnerOrOldest(k)
           Goal == /\ Ages(held', clock')
                   /\ \A k \in DOMAIN held \ DOMAIN held' : OwnerOrOldest(k)
<1>1. ASSUME Fewer, clock' = clock PROVE Goal
  BY <1>1, AgesOfFewer
<1>2. ASSUME NEW c \in Conns, Closed(c) PROVE Goal
  BY <1>2, ClosedDropsTheOldest
<1>3. ASSUME NEW c \in Conns, NEW r \in Rooms, NEW want \in Known \cup {NoId},
             NEW proves \in BOOLEAN, NEW tok \in Holds[c] \cup {NoToken},
             Join(c, r, want, proves, tok)
      PROVE  Goal
  <2>1. want \in Ids \cup {NoId} /\ tok \in Tokens \cup {NoToken}
    BY HubAssumption DEF Known, Ids
  <2>2. Fewer
    BY <1>3, <2>1, JoinDropsItsOwn
  <2> QED
    BY <1>1, <1>3, <2>2 DEF Join
<1>4. ASSUME NEW c \in Conns, NEW tok \in Holds[c] \cup {NoToken}, Auth(c, tok) PROVE Goal
  <2>1. tok \in Tokens \cup {NoToken}
    BY HubAssumption
  <2>2. Fewer
    BY <1>4, <2>1, AuthDropsItsOwn
  <2> QED
    BY <1>1, <1>4, <2>2 DEF Auth
<1>5. ASSUME NEW S \in SUBSET Tokens, End(S) PROVE Goal
  <2>1. Fewer
    BY <1>5, EndDropsTheEnded
  <2> QED
    BY <1>1, <1>5, <2>1 DEF End
<1>6. CASE SweepHeld
  <2>1. Fewer
    BY <1>6, SweepDropsTheOldest
  <2> QED
    BY <1>1, <1>6, <2>1 DEF SweepHeld
<1>7. ASSUME NEW r \in Rooms, NEW S \in SUBSET Ids, DisconnectRoom(r, S) PROVE Goal
  <2> DEFINE gone == {k \in HeldIn(held, r) : k[2] \in S}
  <2>1. held' = Without(held, gone) /\ clock' = clock
    BY <1>7 DEF DisconnectRoom
  <2>2. \A k \in gone : OwnerOrOldest(k)
    BY <1>7 DEF OwnerOrOldest, HeldIn
  <2> HIDE DEF gone
  <2>3. DOMAIN held' = DOMAIN held \ gone /\ \A k \in DOMAIN held' : held'[k] = held[k]
    BY <2>1 DEF Without
  <2> QED
    BY <1>1, <2>1, <2>2, <2>3
<1>8. ASSUME held' = held, clock' = clock PROVE Goal
  BY <1>1, <1>8
<1> HIDE DEF Goal
<1> QED
  BY <1>2, <1>3, <1>4, <1>5, <1>6, <1>7, <1>8
  DEF Next, vars, Connect, Leave, JoinRefused, Remove, Lapse, SignOut, RevokeAll, Goal

(* A held member's place goes to the device that had it; otherwise it ends *)
(* with the session, with the account's return, with the operator, or as   *)
(* the oldest, for any limits.                                             *)
THEOREM HeldAlwaysForTheOwner == Spec => HeldForTheOwner
<1> DEFINE Right == \A k \in DOMAIN held \ DOMAIN held' : OwnerOrOldest(k)
<1>1. Init => Ages(held, clock)
  BY DEF Init, Empty, Ages
<1>2. Inv /\ Ages(held, clock) /\ [Next]_vars => Ages(held, clock)'
  <2>1. ASSUME Ages(held', clock') PROVE Ages(held, clock)'
    BY <2>1 DEF Ages
  <2> QED
    BY <2>1, DropsForAReason
<1>3. Inv /\ Ages(held, clock) /\ [Next]_vars => [Right]_vars
  BY DropsForAReason
<1> QED
  BY <1>1, <1>2, <1>3, AlwaysInv, PTL DEF Spec, HeldForTheOwner, OwnerOrOldest
=============================================================================
