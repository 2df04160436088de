----------------------------- MODULE OfflineBox -----------------------------
(***************************************************************************)
(* What the offline queue promises its callers (interface OfflineQueue,    *)
(* server/accounts/mailqueue.ts), without rows, leases and sequence        *)
(* numbers: an item is identified by its account, kind and message id, and *)
(* is either waiting to be delivered, dead (kept for the operator), or not *)
(* there.  It cannot be stored twice; it stops waiting only by being       *)
(* settled, which the caller is told, by dying, or with its account.       *)
(***************************************************************************)
CONSTANTS BoxAccounts, BoxKinds, BoxMessages

VARIABLES
  waiting,  \* items still to be delivered
  dead,     \* items given up
  settled   \* the items the last step acknowledged

boxVars == <<waiting, dead, settled>>

Keys == BoxAccounts \X BoxKinds \X BoxMessages
Of(a) == {k \in Keys : k[1] = a}

Init == waiting = {} /\ dead = {} /\ settled = {}

(* A new item; one that waits or lies dead is refused as a duplicate.      *)
Accept(k) ==
  /\ k \notin waiting \cup dead
  /\ waiting' = waiting \cup {k}
  /\ settled' = {}
  /\ UNCHANGED dead

(* The client acknowledged these.                                          *)
Settle(K) ==
  /\ K # {} /\ K \subseteq waiting
  /\ waiting' = waiting \ K
  /\ settled' = K
  /\ UNCHANGED dead

(* Items whose attempts or time ran out die; F are not (or no longer) kept.*)
Bury(K, F) ==
  /\ K \subseteq waiting /\ F \subseteq dead \cup K
  /\ waiting' = waiting \ K
  /\ dead' = (dead \cup K) \ F
  /\ settled' = {}

(* The operator gives a dead item a new life.                              *)
Resurrect(k) ==
  /\ k \in dead
  /\ waiting' = waiting \cup {k}
  /\ dead' = dead \ {k}
  /\ settled' = {}

(* The account was deleted.                                                *)
Drop(a) ==
  /\ waiting' = waiting \ Of(a)
  /\ dead' = dead \ Of(a)
  /\ settled' = {}

Next ==
  \/ \E k \in Keys : Accept(k) \/ Resurrect(k)
  \/ \E K \in SUBSET waiting : Settle(K) \/ \E F \in SUBSET (dead \cup K) : Bury(K, F)
  \/ \E a \in BoxAccounts : Drop(a)

Spec == Init /\ [][Next]_boxVars
=============================================================================
