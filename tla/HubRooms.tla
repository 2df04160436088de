------------------------------ MODULE HubRooms ------------------------------
(***************************************************************************)
(* Who is in which room: the connections of the signaling hub, the index   *)
(* of its rooms (server/signaling/hub.ts), the members it holds after      *)
(* their connection went (server/signaling/presence.ts), and the sessions  *)
(* a connection may carry (server/accounts/store.ts).  What the away relay *)
(* does on the same events is AwayRelay.tla.                               *)
(*                                                                         *)
(* A connection has a peer id of its own from the start (hello) and may    *)
(* ask for another one when it joins; ids are named after the connection   *)
(* they were made for.  The resume secret of a `joined` frame is known to  *)
(* the device that got it: a join proves it only from the device of the    *)
(* connection (or held member) it comes back for.                          *)
(***************************************************************************)
EXTENDS Naturals, FiniteSets

CONSTANTS
  Conns,       \* connections; each is closed once and never reused
  Rooms,
  Accounts,
  Tokens,      \* session tokens
  Holds,       \* the tokens the device of a connection was given
  Device,      \* the device of each connection
  AccountOf,   \* the account of each session token
  NoRoom, NoToken, NoAccount, NoId,
  MaxMembers,  \* the operator's limit for every room (0: none)
  HeldPerRoom, \* HELD_LIMITS.perRoom
  HeldTotal    \* HELD_LIMITS.total

ASSUME HubAssumption ==
  /\ NoRoom \notin Rooms /\ NoToken \notin Tokens
  /\ NoAccount \notin Accounts /\ NoId \notin Conns
  /\ AccountOf \in [Tokens -> Accounts]
  /\ Holds \in [Conns -> SUBSET Tokens]
  /\ MaxMembers \in Nat
  /\ HeldPerRoom \in Nat \ {0} /\ HeldTotal \in Nat \ {0}

Ids == Conns

VARIABLES
  conn,     \* connection -> [phase, id, room, tok, removed]
  rooms,    \* room -> peer id -> connection (hub.rooms)
  held,     \* <<room, peer id>> -> [by, tok, since] (hub.held)
  clock,    \* how many members were held so far: orders `since`
  session   \* token -> live, lapsed (its time ran out) or ended (signed out)

vars == <<conn, rooms, held, clock, session>>

Phases == {"none", "open", "closed"}
Conn == [phase: Phases, id: Ids, room: Rooms \cup {NoRoom},
         tok: Tokens \cup {NoToken}, removed: BOOLEAN]
Held == [by: Conns, tok: Tokens \cup {NoToken}, since: Nat]

TypeOK ==
  /\ conn \in [Conns -> Conn]
  /\ rooms \in [Rooms -> {rooms[r] : r \in Rooms}]
  /\ \A r \in Rooms : /\ DOMAIN rooms[r] \subseteq Ids
                      /\ rooms[r] \in [DOMAIN rooms[r] -> Conns]
  /\ DOMAIN held \subseteq Rooms \X Ids
  /\ held \in [DOMAIN held -> Held]
  /\ clock \in Nat
  /\ session \in [Tokens -> {"live", "lapsed", "ended"}]

Empty == [x \in {} |-> x]
Put(f, k, v)   == [x \in DOMAIN f \cup {k} |-> IF x = k THEN v ELSE f[x]]
Without(f, S)  == [x \in DOMAIN f \ S |-> f[x]]
Account(t)     == IF t = NoToken THEN NoAccount ELSE AccountOf[t]
Open(c)        == conn[c].phase = "open"

Init ==
  /\ conn = [c \in Conns |-> [phase |-> "none", id |-> c, room |-> NoRoom,
                              tok |-> NoToken, removed |-> FALSE]]
  /\ rooms = [r \in Rooms |-> Empty]
  /\ held = Empty
  /\ clock = 0
  /\ session = [t \in Tokens |-> "live"]

----------------------------------------------------------------------------
(* The book of held members (presence.ts).                                 *)

HeldIn(h, r) == {k \in DOMAIN h : k[1] = r}
Oldest(h, S) == CHOOSE k \in S : \A j \in S : h[k].since <= h[j].since

(* At most one member over each limit, since one comes in at a time: the   *)
(* oldest of the room goes, then the oldest of all.                        *)
\* Variant: the oldest of all goes when the room is over its limit.
TrimRoomAnywhere(h, r) ==
  IF Cardinality(HeldIn(h, r)) > HeldPerRoom
  THEN Without(h, {Oldest(h, DOMAIN h)}) ELSE h
TrimRoom(h, r) ==
  IF Cardinality(HeldIn(h, r)) > HeldPerRoom
  THEN Without(h, {Oldest(h, HeldIn(h, r))}) ELSE h
\* Variant: the limit in all is met one member late.
TrimAllLate(h) ==
  IF Cardinality(DOMAIN h) > HeldTotal + 1
  THEN Without(h, {Oldest(h, DOMAIN h)}) ELSE h
TrimAll(h) ==
  IF Cardinality(DOMAIN h) > HeldTotal
  THEN Without(h, {Oldest(h, DOMAIN h)}) ELSE h
Hold(h, r, id, m) == TrimAll(TrimRoom(Put(h, <<r, id>>, m), r))

(* Entries of an account in a room but the one of a given peer id          *)
(* (dropHeldOfAccount); none for a connection that is not signed in.       *)
OfAccount(h, r, a, except) ==
  {k \in HeldIn(h, r) : a # NoAccount /\ Account(h[k].tok) = a /\ k[2] # except}

----------------------------------------------------------------------------
(* Leaving (leaveRoom): the seat is given up only if it is still this      *)
(* connection's own.                                                       *)

\* Variants: whoever has the id now; only who the server did not remove.
SeatedById(rs, c) ==
  conn[c].room # NoRoom /\ conn[c].id \in DOMAIN rs[conn[c].room]
SeatedUnlessRemoved(rs, c) ==
  /\ conn[c].room # NoRoom /\ ~conn[c].removed
  /\ conn[c].id \in DOMAIN rs[conn[c].room]
  /\ rs[conn[c].room][conn[c].id] = c
Seated(rs, c) ==
  /\ conn[c].room # NoRoom
  /\ conn[c].id \in DOMAIN rs[conn[c].room]
  /\ rs[conn[c].room][conn[c].id] = c
Unseat(rs, c) ==
  IF Seated(rs, c)
  THEN [rs EXCEPT ![conn[c].room] = Without(@, {conn[c].id})] ELSE rs

Connect(c) ==
  /\ conn[c].phase = "none"
  /\ conn' = [conn EXCEPT ![c].phase = "open"]
  /\ UNCHANGED <<rooms, held, clock, session>>

Leave(c) ==
  /\ Open(c) /\ conn[c].room # NoRoom
  /\ conn' = [conn EXCEPT ![c].room = NoRoom]
  /\ rooms' = Unseat(rooms, c)
  /\ UNCHANGED <<held, clock, session>>

(* A join that is refused (the room is blocked or full, the proof of the   *)
(* room key is bad) has already left the room the connection was in.       *)
JoinRefused(c) ==
  /\ Open(c)
  /\ conn' = [conn EXCEPT ![c].room = NoRoom]
  /\ rooms' = Unseat(rooms, c)
  /\ UNCHANGED <<held, clock, session>>

----------------------------------------------------------------------------
(* Joining.  `want` is the peer id asked for, `proves` whether the frame   *)
(* carries the resume secret of who has that id, `tok` the session.        *)

(* Members here and held; whoever names an id in use is not a newcomer.    *)
Full(rs, r, want) ==
  /\ MaxMembers > 0
  /\ Cardinality(DOMAIN rs[r]) + Cardinality(HeldIn(held, r)) >= MaxMembers
  /\ want \notin DOMAIN rs[r]
  /\ <<r, want>> \notin DOMAIN held

(* The held member this connection is.                                     *)
\* Variant: the resume secret is not asked for.
ResumesUnproved(rs, c, r, want, proves) ==
  want # NoId /\ want \notin DOMAIN rs[r] /\ <<r, want>> \in DOMAIN held
Resumes(rs, c, r, want, proves) ==
  /\ want # NoId /\ want \notin DOMAIN rs[r]
  /\ <<r, want>> \in DOMAIN held
  /\ proves

(* The connection whose place this one takes.                              *)
Replaces(rs, c, r, want, proves) ==
  want # NoId /\ want \in DOMAIN rs[r] /\ proves

CanProve(rs, c, r, want) ==
  \/ want \in DOMAIN rs[r] /\ Device[rs[r][want]] = Device[c]
  \/ want \notin DOMAIN rs[r] /\ <<r, want>> \in DOMAIN held
       /\ Device[held[<<r, want>>].by] = Device[c]

(* The id it gets: the one it asked for when that is free or its own, else *)
(* the one it has.                                                         *)
IdGiven(rs, c, r, want, proves) ==
  IF want # NoId /\ (proves \/ (want \notin DOMAIN rs[r] /\ <<r, want>> \notin DOMAIN held))
  THEN want ELSE conn[c].id

Join(c, r, want, proves, tok) ==
  LET left == Unseat(rooms, c)
      id   == IdGiven(left, c, r, want, proves)
      used == IF tok # NoToken /\ session[tok] = "live" THEN tok ELSE NoToken
      back == Resumes(left, c, r, want, proves)
      over == Replaces(left, c, r, want, proves)
      rest == IF over THEN Without(left[r], {want}) ELSE left[r]
      book == IF back THEN Without(held, {<<r, want>>}) ELSE held
      \* The map of the room was looked up before the connection replaced
      \* left: when that was the room's only member, the map is no longer
      \* the room's, and the newcomer goes into it all the same.
      detached == over /\ DOMAIN rest = {}
  IN
  /\ Open(c)
  /\ proves => CanProve(left, c, r, want)
  /\ ~Full(left, r, want)
  /\ conn' = [x \in Conns |->
                IF x = c THEN [conn[c] EXCEPT !.id = id, !.room = r, !.tok = used]
                ELSE IF over /\ x = left[r][want] THEN [conn[x] EXCEPT !.room = NoRoom]
                ELSE conn[x]]
  /\ rooms' = [left EXCEPT ![r] = IF detached THEN rest ELSE Put(rest, id, c)]
  /\ held' = Without(book, OfAccount(book, r, Account(used), id))
  /\ UNCHANGED <<clock, session>>

----------------------------------------------------------------------------
(* Signing in or out on an open connection (authenticate).                 *)
Auth(c, tok) ==
  LET used == IF tok # NoToken /\ session[tok] = "live" THEN tok ELSE NoToken
      moved == Account(used) # Account(conn[c].tok)
  IN
  /\ Open(c)
  /\ conn' = [conn EXCEPT ![c].tok = used]
  /\ held' = IF moved /\ conn[c].room # NoRoom
             THEN Without(held, OfAccount(held, conn[c].room, Account(used), conn[c].id))
             ELSE held
  /\ UNCHANGED <<rooms, clock, session>>

(* The server ends a connection (kick, closeConnection): marked now, gone  *)
(* when the socket closes; its frames are still served in between.         *)
Remove(c) ==
  /\ Open(c) /\ ~conn[c].removed
  /\ conn' = [conn EXCEPT ![c].removed = TRUE]
  /\ UNCHANGED <<rooms, held, clock, session>>

(* The socket is gone (closed): no goodbye, so a member of a room is held, *)
(* unless the server removed it.                                           *)
Closed(c) ==
  /\ Open(c)
  /\ conn' = [conn EXCEPT ![c].phase = "closed", ![c].room = NoRoom]
  /\ rooms' = Unseat(rooms, c)
  /\ IF conn[c].room # NoRoom /\ ~conn[c].removed
     THEN /\ held' = Hold(held, conn[c].room, conn[c].id,
                          [by |-> c, tok |-> conn[c].tok, since |-> clock])
          /\ clock' = clock + 1
     ELSE UNCHANGED <<held, clock>>
  /\ UNCHANGED session

----------------------------------------------------------------------------
(* Sessions.                                                               *)

(* Their time runs out: resolveToken and prune forget them and tell no one. *)
Lapse(t) ==
  /\ session[t] = "live"
  /\ session' = [session EXCEPT ![t] = "lapsed"]
  /\ UNCHANGED <<conn, rooms, held, clock>>

(* onRevoke for the tokens of one session or of a whole account.           *)
\* Variant: what is held keeps its session.
EndOnSockets(S) ==
  /\ session' = [t \in Tokens |-> IF t \in S THEN "ended" ELSE session[t]]
  /\ conn' = [c \in Conns |->
                IF Open(c) /\ conn[c].tok \in S THEN [conn[c] EXCEPT !.tok = NoToken]
                ELSE conn[c]]
  /\ UNCHANGED <<rooms, held, clock>>
End(S) ==
  /\ session' = [t \in Tokens |-> IF t \in S THEN "ended" ELSE session[t]]
  /\ conn' = [c \in Conns |->
                IF Open(c) /\ conn[c].tok \in S THEN [conn[c] EXCEPT !.tok = NoToken]
                ELSE conn[c]]
  /\ held' = Without(held, {k \in DOMAIN held : held[k].tok \in S})
  /\ UNCHANGED <<rooms, clock>>

SignOut(t)   == session[t] = "live" /\ End({t})
RevokeAll(a) == \E t \in Tokens : /\ AccountOf[t] = a /\ session[t] # "ended"
                                  /\ End({u \in Tokens : AccountOf[u] = a})

----------------------------------------------------------------------------
(* Held members past their time: all held before some moment (sweepHeld).  *)
SweepHeld ==
  \E t \in 1 .. clock :
    /\ {k \in DOMAIN held : held[k].since < t} # {}
    /\ held' = Without(held, {k \in DOMAIN held : held[k].since < t})
    /\ UNCHANGED <<conn, rooms, clock, session>>

(* The operator disconnects the members of a room that match: S are the    *)
(* peer ids the target matches.                                            *)
DisconnectRoom(r, S) ==
  LET seats == S \cap DOMAIN rooms[r]
      away  == {k \in HeldIn(held, r) : k[2] \in S}
  IN
  /\ seats # {} \/ away # {}
  /\ conn' = [c \in Conns |->
                IF \E id \in seats : rooms[r][id] = c
                THEN [conn[c] EXCEPT !.removed = TRUE, !.room = NoRoom] ELSE conn[c]]
  /\ rooms' = [rooms EXCEPT ![r] = Without(@, seats)]
  /\ held' = Without(held, away)
  /\ UNCHANGED <<clock, session>>

(* Peer ids are random: nobody names one that was not given out yet.       *)
Known == {c \in Conns : conn[c].phase # "none"}

Next ==
  \/ \E c \in Conns :
       \/ Connect(c) \/ Leave(c) \/ JoinRefused(c) \/ Remove(c) \/ Closed(c)
       \/ \E r \in Rooms, want \in Known \cup {NoId}, proves \in BOOLEAN,
             tok \in Holds[c] \cup {NoToken} : Join(c, r, want, proves, tok)
       \/ \E tok \in Holds[c] \cup {NoToken} : Auth(c, tok)
  \/ \E t \in Tokens : Lapse(t) \/ SignOut(t)
  \/ \E a \in Accounts : RevokeAll(a)
  \/ SweepHeld
  \/ \E r \in Rooms, S \in SUBSET Ids : DisconnectRoom(r, S)

Spec == Init /\ [][Next]_vars

----------------------------------------------------------------------------
(* Properties.                                                             *)

(* The index of the rooms never lists a connection that is gone, that is   *)
(* in another room or that goes by another peer id by now: what hub.signal *)
(* and hub.broadcast send through it reaches a member of that room         *)
(* (hub.ts, join, leaveRoom and closed in any order).                      *)
IndexSound ==
  \A r \in Rooms : \A id \in DOMAIN rooms[r] :
    LET c == rooms[r][id] IN Open(c) /\ conn[c].room = r /\ conn[c].id = id

(* "Signing out ends it on open sockets at once" (hub.ts:32-33), and ends  *)
(* what is held of it (presence.ts): no open connection and no held member *)
(* carries a session that was signed out, however the connection got it.   *)
SessionsHonoured ==
  /\ \A c \in Conns : Open(c) /\ conn[c].tok # NoToken => session[conn[c].tok] # "ended"
  /\ \A k \in DOMAIN held : held[k].tok # NoToken => session[held[k].tok] # "ended"

(* "At most this many held members per room, and in all" (presence.ts:29). *)
HeldWithinLimits ==
  /\ \A r \in Rooms : Cardinality(HeldIn(held, r)) <= HeldPerRoom
  /\ Cardinality(DOMAIN held) <= HeldTotal

(* A member's seat is emptied by nobody else's leave, close, sign-out or   *)
(* refused join: it goes when the member leaves the room or changes its    *)
(* id, or to a connection that joins under the same id (leaveRoom's test   *)
(* that the seat is still its own).                                        *)
SeatsAreKept ==
  [][\A r \in Rooms : \A id \in DOMAIN rooms[r] :
       LET c == rooms[r][id] IN
       \/ conn'[c].room # r \/ conn'[c].id # id
       \/ id \in DOMAIN rooms'[r] /\ conn'[rooms'[r][id]].room = r]_vars

(* A held member stays held until they come back, and only they can take   *)
(* the place back (presence.ts:6-16): the entry goes to a connection of    *)
(* the same device, when the same account is in the room again, with the   *)
(* session, with the operator's disconnect, or as one of the oldest.       *)
HeldForTheOwner ==
  [][\A k \in DOMAIN held \ DOMAIN held' :
       LET h == held[k]
           elder(S) == \A j \in S : held'[j].since > h.since
       IN
       \/ /\ k[2] \in DOMAIN rooms'[k[1]]
          /\ Device[rooms'[k[1]][k[2]]] = Device[h.by]
       \/ \E c \in Conns : /\ conn'[c].room = k[1] /\ conn'[c].tok # NoToken
                           /\ Account(conn'[c].tok) = Account(h.tok)
       \/ h.tok # NoToken /\ session'[h.tok] = "ended"
       \/ clock' = clock + 1 /\ (elder(HeldIn(held', k[1])) \/ elder(DOMAIN held'))
       \/ UNCHANGED <<conn, rooms, clock, session>> /\ elder(DOMAIN held')
       \/ \E S \in SUBSET Ids : DisconnectRoom(k[1], S)]_vars

(* What a comment of the hub says of joins and the code does not keep      *)
(* (README, findings).                                                     *)

(* hub.ts:797-798: "the same client coming back (resume secret) takes its  *)
(* place instead": who replaces a connected member sits in its seat.       *)
ResumeTakesThePlace ==
  [][\A r \in Rooms : \A id \in DOMAIN rooms[r] : \A d \in Conns \ {rooms[r][id]} :
       /\ conn'[rooms[r][id]].room = NoRoom
       /\ conn'[d].room = r /\ conn'[d].id = id
       /\ conn[d].room # r \/ conn[d].id # id
       => id \in DOMAIN rooms'[r] /\ rooms'[r][id] = d]_vars
=============================================================================
