----------------------------- MODULE FileProxy -----------------------------
(***************************************************************************)
(* The table of relayed file transfers (server/file-proxy.ts): what may    *)
(* begin, what a connection's end takes away, what is forgotten after a    *)
(* time.  Operators on a table value, used by FileRelay.tla.               *)
(*                                                                         *)
(* A transfer is listed with the time of its last frame; that it ended is  *)
(* not noted (end, 149-157).  The sizes that limit a transfer are left     *)
(* out: 10 GiB are not reached by what the properties are about.           *)
(***************************************************************************)
EXTENDS Naturals, FiniteSets

CONSTANTS
  Pages,          \* pages of the room, each with one connection at a time
  Files,          \* transfers; an id is used once
  Owner,          \* the page that sends each file
  AddressOf,      \* the address group a page connects from
  MaxPerPeer,     \* MAX_PARALLEL_PER_PEER
  MaxPerAddress,  \* fileProxyPerAddress()
  MaxTotal,       \* MAX_PARALLEL_TOTAL
  Ttl             \* TRANSFER_TTL_MS

ASSUME ProxyAssumption ==
  /\ Owner \in [Files -> Pages]
  /\ {MaxPerPeer, MaxPerAddress, MaxTotal} \subseteq Nat \ {0}
  /\ Ttl \in Nat

Empty == [x \in {} |-> x]

\* byTransfer, byPeer and totalActive.
EmptyTable == [last |-> Empty, peers |-> Empty, total |-> 0]

Listed(tb)      == DOMAIN tb.last
PeerSet(tb, p)  == IF p \in DOMAIN tb.peers THEN tb.peers[p] ELSE {}
ActiveFrom(tb, address) == {f \in Listed(tb) : AddressOf[Owner[f]] = address}

(* Why a transfer may not begin now ("" when it may).                      *)
Refusal(tb, f) ==
  IF f \in Listed(tb) THEN "duplicate"
  ELSE IF tb.total >= MaxTotal THEN "server-full"
  ELSE IF Cardinality(PeerSet(tb, Owner[f])) >= MaxPerPeer THEN "per-peer-cap"
  ELSE IF Cardinality(ActiveFrom(tb, AddressOf[Owner[f]])) >= MaxPerAddress
       THEN "per-address-cap" ELSE ""

(* finalize, for each transfer of a set: a sender left with none is not    *)
(* listed any more.                                                        *)
\* Variant: the sender's own list is forgotten.
FinalizeUnlisted(tb, S) ==
  [tb EXCEPT !.last  = [f \in Listed(tb) \ S |-> tb.last[f]],
             !.total = @ - Cardinality(S \cap Listed(tb))]
Finalize(tb, S) ==
  [last  |-> [f \in Listed(tb) \ S |-> tb.last[f]],
   peers |-> [p \in {q \in DOMAIN tb.peers : ~(tb.peers[q] \subseteq S)} |-> tb.peers[p] \ S],
   total |-> tb.total - Cardinality(S \cap Listed(tb))]

Expired(tb, now) == {f \in Listed(tb) : now - tb.last[f] > Ttl}
Gc(tb, now)      == Finalize(tb, Expired(tb, now))

(* begin, once nothing refuses it; the only caller of gc in the server.    *)
Begin(tb, f, now) ==
  Gc([last  |-> [g \in Listed(tb) \cup {f} |-> IF g = f THEN now ELSE tb.last[g]],
      peers |-> [p \in DOMAIN tb.peers \cup {Owner[f]} |->
                   IF p = Owner[f] THEN PeerSet(tb, p) \cup {f} ELSE tb.peers[p]],
      total |-> tb.total + 1], now)

(* pushChunk and end of a listed transfer.                                 *)
Touch(tb, f, now) == [tb EXCEPT !.last[f] = now]

(* dropSender: the transfers the sender's connection takes with it.        *)
DropSender(tb, p) == Finalize(tb, PeerSet(tb, p))
=============================================================================
