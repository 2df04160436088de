---------------------------- MODULE MCAwayRelay ----------------------------
(* Instances of AwayRelay for TLC: tabs s1 and s2 are ben's, p1 and p2 are *)
(* ann's, q is cyd's; the first tab of each is its author.                 *)
EXTENDS AwayRelay, TLC

CONSTANTS s1, s2, p1, p2, q, g, ann, ben, cyd, m1, m2

AllSenders   == [peer: Tabs, acct: Accounts \cup {NoAccount}]
QuotaKeys    == [s \in AllSenders |-> IF s.acct # NoAccount THEN s.acct ELSE s.peer]
OwnerOf      == [c \in Tabs |-> IF c \in {s1, s2} THEN {ben} \cap Accounts
                                ELSE IF c \in {p1, p2} THEN {ann} ELSE IF c = q THEN {cyd} ELSE {}]
SharedTab    == [c \in Tabs |-> IF c = s1 THEN {ben} ELSE {ann, cyd}]
Twins        == Permutations({ann, cyd})
AuthorOfAll  == [m \in Messages |-> IF s1 \in Tabs THEN s1 ELSE g]
=============================================================================
