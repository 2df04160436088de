----------------------------- MODULE RelayLedger -----------------------------
(***************************************************************************)
(* The relay ledger of server/accounts/mailqueue.ts (table relay_ledger):  *)
(* who relayed a message, in which room, to whom.  Operators on a value, a *)
(* function from the message ids it has an entry for.  The code keeps the  *)
(* last 200 recipients of an entry; here all of them.                      *)
(***************************************************************************)
EXTENDS Mailbox

CONSTANTS
  Recipients, \* accounts a message can be relayed to
  LedgerTtl,  \* LEDGER_LIMITS.ttlMs
  MaxLedger   \* LEDGER_LIMITS.maxEntries

ASSUME LedgerAssumption == LedgerTtl \in Nat /\ MaxLedger \in Nat

Entry == [room: Rooms, sender: Senders, to: SUBSET Recipients, at: Nat]
EmptyLedger == [m \in {} |-> {}]

(* rememberRelay(): the first relay fixes the room, the sender and the age. *)
Remember(l, m, r, sender, a, at) ==
  [x \in DOMAIN l \cup {m} |->
     IF x # m THEN l[x]
     ELSE IF m \in DOMAIN l THEN [l[m] EXCEPT !.to = @ \cup {a}]
     ELSE [room |-> r, sender |-> sender, to |-> {a}, at |-> at]]

(* sweep(): by age, then by count, the oldest first (of equally old ones   *)
(* any).  The ledgers a sweep may leave.                                   *)
Young(l, at) == {m \in DOMAIN l : l[m].at + LedgerTtl >= at}
Swept(l, at) ==
  {[m \in K |-> l[m]] : K \in
     {K \in SUBSET Young(l, at) :
        \/ K = Young(l, at) /\ Cardinality(K) <= MaxLedger
        \/ /\ Cardinality(Young(l, at)) > MaxLedger /\ Cardinality(K) = MaxLedger
           /\ \A m \in K, x \in Young(l, at) \ K : l[x].at <= l[m].at}}
=============================================================================
