---------------------------- MODULE OutboxProofs ----------------------------
(***************************************************************************)
(* Proofs about Outbox, for any peers, messages, limits and number of      *)
(* flushes at a time.                                                      *)
(***************************************************************************)
EXTENDS Outbox, FiniteSetTheorems, TLAPS

(* Whose place in the map is taken.                                        *)
Placed == {n \in Messages : entry[n].at > 0}

(* No two entries share a place, and the next one is behind all of them.   *)
Places ==
  /\ \A m, n \in Placed : entry[m].at = entry[n].at => m = n
  /\ \A m \in Messages : entry[m].at < NextPlace

(* How far the composer is with a message, and what a flush works on.      *)
Books ==
  /\ \A m \in Messages : stage[m] # "done" => entry[m].at = 0
  /\ waiting \subseteq {m \in Placed : stage[m] = "done"}
  /\ \A f \in Flushes :
       /\ run[f].before \subseteq {m \in Placed : stage[m] = "done"}
       /\ run[f].rest \cup run[f].msg \subseteq run[f].before
       /\ run[f].late \subseteq old
       /\ run[f].phase = "idle" => run[f] = Idle
       /\ run[f].phase = "opening" => run[f].to = {} /\ run[f].held = {}
       /\ \A m, n \in run[f].msg : m = n

TypeBooks == TypeOK /\ Places /\ Books

(* What a flush may rely on for the message it tries.                      *)
Aims(f) ==
  \A m \in run[f].msg :
    /\ run[f].to \subseteq got[m]
    /\ run[f].asked = {} /\ m \in Private => meant[m] \subseteq got[m] \cup missed[m]
    /\ run[f].asked # {} => entry[m].targets # {} \/ got[m] # {}
    /\ ~overlap => entry[m].targets = run[f].asked

(* One flush at a time.                                                    *)
Alone ==
  ~overlap => \A f, g \in Flushes : run[f] # Idle /\ run[g] # Idle => f = g

(* A private message still waits for everybody who has not got it and was  *)
(* not left out.                                                           *)
Covered ==
  \A m \in Private : stage[m] \in {"sealing", "done"} => meant[m] \subseteq got[m] \cup missed[m] \cup entry[m].targets

Good == TypeBooks /\ Alone /\ Covered /\ \A f \in Flushes : Aims(f)

----------------------------------------------------------------------------
(* The steps of a flush.                                                   *)

(* What the loop may be told to go on with.                                *)
GoesOn(f, S, before, late, done, e) ==
  /\ S \subseteq before /\ done \subseteq before
  /\ before \subseteq {m \in Placed : stage[m] = "done"}
  /\ late \subseteq old
  /\ e \in [Messages -> Entry]
  /\ \A m \in Messages : /\ e[m].at = entry[m].at
                         /\ e[m].attempts = entry[m].attempts
                         /\ e[m].shown = entry[m].shown

LEMMA TriedOne ==
  ASSUME TypeBooks, NEW S \in SUBSET Placed, NEW late
  PROVE  /\ Tried(S, late) \subseteq S
         /\ \A m, n \in Tried(S, late) : m = n
         /\ \A m \in Tried(S, late) : entry[m].attempts < MaxAttempts
<1>1. Tried(S, late) \subseteq S
  BY DEF Tried
<1>2. ASSUME NEW m \in Tried(S, late), NEW n \in Tried(S, late) PROVE m = n
  <2>1. /\ m \in Placed /\ n \in Placed
        /\ ~Expired(m, late) /\ ~Expired(n, late)
    BY <1>1 DEF Tried
  <2>2. entry[m].at <= entry[n].at /\ entry[n].at <= entry[m].at
    BY <1>1, <2>1 DEF Tried
  <2>3. entry[m].at \in Nat /\ entry[n].at \in Nat
    BY <2>1 DEF TypeBooks, TypeOK, Entry, Placed
  <2> QED
    BY <2>1, <2>2, <2>3 DEF TypeBooks, Places
<1>3. ASSUME NEW m \in Tried(S, late) PROVE entry[m].attempts < MaxAttempts
  <2>1. m \in Messages /\ ~Expired(m, late)
    BY <1>1 DEF Tried, Placed
  <2>2. entry[m].attempts \in 0 .. MaxAttempts /\ MaxAttempts \in Nat
    BY <2>1, OutboxAssumption DEF TypeBooks, TypeOK, Entry
  <2> QED
    BY <2>1, <2>2 DEF Expired
<1> QED
  BY <1>1, <1>2, <1>3

LEMMA GoOnBooks ==
  ASSUME TypeBooks, NEW f \in Flushes, NEW S, NEW before, NEW late, NEW done, NEW e,
         GoesOn(f, S, before, late, done, e),
         GoOn(f, S, before, late, done, e),
         overlap' \in BOOLEAN
  PROVE  TypeBooks'
<1> DEFINE T == Tried(S, late)
           D == Dropped(S, late)
           r == [Idle EXCEPT !.phase = "opening", !.before = before, !.late = late,
                              !.msg = T, !.rest = S \ (D \cup T),
                              !.asked = UNION {e[m].targets : m \in T},
                              !.each = \A m \in T : e[m].targets # {} /\ ~e[m].only]
<1>1. /\ S \in SUBSET Placed /\ before \in SUBSET Messages /\ done \subseteq Messages
      /\ late \subseteq Messages
  BY DEF GoesOn, Placed, TypeBooks, TypeOK
<1>2. /\ T \subseteq S /\ \A m, n \in T : m = n
      /\ \A m \in T : entry[m].attempts < MaxAttempts
  BY <1>1, TriedOne
<1>3. D \subseteq S
  BY DEF Dropped
<1> HIDE DEF T, D
<1>4. r \in Run
  <2>1. UNION {e[m].targets : m \in T} \subseteq Peers
    BY <1>1, <1>2 DEF GoesOn, Entry, Placed
  <2>2. (\A m \in T : e[m].targets # {} /\ ~e[m].only) \in BOOLEAN
    OBVIOUS
  <2>3. S \ (D \cup T) \subseteq Messages /\ T \subseteq Messages
    BY <1>1, <1>2 DEF Placed
  <2> QED
    BY <1>1, <2>1, <2>2, <2>3 DEF Run, Idle, Phases
<1>5. Idle \in Run
  BY DEF Run, Idle, Phases
<1> HIDE DEF r
<1>6. /\ run' = [run EXCEPT ![f] = Idle] \/ run' = [run EXCEPT ![f] = r]
      /\ queued' \subseteq queued /\ waiting' \subseteq waiting
  BY DEF GoOn, T, D, r, Gone
<1>7. /\ entry' \in [Messages -> Entry]
      /\ \A m \in Messages : entry'[m].at = entry[m].at
  <2>1. \A m \in Messages : e[m] \in Entry
    BY DEF GoesOn
  <2>2. ASSUME NEW m \in T, m \in Messages PROVE [e[m] EXCEPT !.attempts = @ + 1] \in Entry
    <3>1. entry[m].attempts \in 0 .. MaxAttempts /\ MaxAttempts \in Nat
      BY <2>2, OutboxAssumption DEF TypeBooks, TypeOK, Entry
    <3>2. e[m].attempts + 1 \in 0 .. MaxAttempts
      BY <2>2, <3>1, <1>2 DEF GoesOn
    <3> QED
      BY <2>1, <2>2, <3>2 DEF Entry
  <2>3. entry' = [m \in Messages |-> IF m \in T THEN [e[m] EXCEPT !.attempts = @ + 1] ELSE e[m]]
    BY DEF GoOn, T
  <2>4. \A m \in Messages : entry'[m].at = e[m].at
    BY <2>1, <2>3 DEF Entry
  <2> QED
    BY <2>1, <2>2, <2>3, <2>4 DEF GoesOn
<1>8. UNCHANGED <<link, drops, stage, old, got, again, meant, missed>>
  BY DEF GoOn
<1>9. TypeOK'
  BY <1>4, <1>5, <1>6, <1>7, <1>8 DEF TypeBooks, TypeOK
<1>10. Placed' = Placed /\ NextPlace' = NextPlace
  BY <1>7 DEF Placed, NextPlace
<1>11. Places'
  BY <1>7, <1>10 DEF Places, TypeBooks, Placed
<1>12. Books'
  <2>1. r.before = before /\ r.rest \cup r.msg \subseteq before /\ r.late \subseteq old
        /\ r.phase # "idle" /\ r.to = {} /\ r.held = {} /\ \A m, n \in r.msg : m = n
    BY <1>2, <1>3 DEF r, Idle, GoesOn
  <2>2. Idle.before = {} /\ Idle.rest \cup Idle.msg = {} /\ Idle.late = {}
        /\ Idle.to = {} /\ Idle.held = {}
    BY DEF Idle
  <2>3. before \subseteq {m \in Placed : stage[m] = "done"}
    BY DEF GoesOn
  <2> QED
    BY <1>6, <1>7, <1>8, <1>10, <2>1, <2>2, <2>3 DEF Books, TypeBooks, TypeOK
<1> QED
  BY <1>9, <1>11, <1>12 DEF TypeBooks

LEMMA StartGoesOn ==
  ASSUME TypeBooks, NEW f \in Flushes, Start(f)
  PROVE  /\ GoesOn(f, waiting, waiting, old \cap waiting, {}, entry)
         /\ overlap' \in BOOLEAN
<1>1. GoesOn(f, waiting, waiting, old \cap waiting, {}, entry)
  BY DEF GoesOn, TypeBooks, TypeOK, Books
<1>2. overlap' \in BOOLEAN
  BY DEF Start, TypeBooks, TypeOK
<1> QED
  BY <1>1, <1>2

(* The entries as an attempt that is over leaves them, and those that go.  *)
After(f) == [m \in Messages |-> IF m \in run[f].msg THEN Left(run[f], entry[m]) ELSE entry[m]]
Done(f)  == {m \in run[f].msg : Counts(run[f], entry[m])}

LEMMA LeftTyped ==
  ASSUME TypeOK, NEW f \in Flushes, NEW m \in Messages
  PROVE  /\ Left(run[f], entry[m]) \in Entry
         /\ Left(run[f], entry[m]).at = entry[m].at
         /\ Left(run[f], entry[m]).attempts = entry[m].attempts
         /\ Left(run[f], entry[m]).shown = entry[m].shown
<1>1. entry[m] \in Entry /\ run[f] \in Run
  BY DEF TypeOK
<1>2. run[f].held \subseteq Peers
  BY <1>1 DEF Run
<1>3. entry[m].targets \ run[f].to \subseteq Peers
  BY <1>1 DEF Entry
<1>4. [entry[m] EXCEPT !.targets = @ \ run[f].to] \in Entry
  BY <1>1, <1>3 DEF Entry
<1>5. [entry[m] EXCEPT !.targets = run[f].held, !.only = TRUE] \in Entry
  BY <1>1, <1>2 DEF Entry
<1> QED
  BY <1>1, <1>4, <1>5 DEF Left, Entry

LEMMA SettleGoesOn ==
  ASSUME TypeBooks, NEW f \in Flushes, Settle(f)
  PROVE  /\ GoesOn(f, run[f].rest, run[f].before, run[f].late, Done(f), After(f))
         /\ GoOn(f, run[f].rest, run[f].before, run[f].late, Done(f), After(f))
         /\ overlap' = overlap
<1>1. GoOn(f, run[f].rest, run[f].before, run[f].late, Done(f), After(f)) /\ overlap' = overlap
  BY DEF Settle, Done, After
<1>2. \A m \in Messages : /\ After(f)[m] \in Entry
                          /\ After(f)[m].at = entry[m].at
                          /\ After(f)[m].attempts = entry[m].attempts
                          /\ After(f)[m].shown = entry[m].shown
  BY LeftTyped DEF After, TypeBooks, TypeOK
<1>3. After(f) \in [Messages -> Entry]
  BY <1>2 DEF After
<1>4. Done(f) \subseteq run[f].msg
  BY DEF Done
<1>5. GoesOn(f, run[f].rest, run[f].before, run[f].late, Done(f), After(f))
  BY <1>2, <1>3, <1>4 DEF GoesOn, TypeBooks, Books
<1> QED
  BY <1>1, <1>5

LEMMA RunStep ==
  ASSUME TypeBooks, NEW f \in Flushes, NEW r \in Run,
         run' = [run EXCEPT ![f] = r],
         r.before = run[f].before, r.late = run[f].late, r.rest = run[f].rest,
         r.msg = run[f].msg, r.phase = "sending",
         UNCHANGED <<link, drops, stage, entry, waiting, old, queued, meant, missed, overlap>>,
         got' \in [Messages -> SUBSET Peers], again' \subseteq Messages
  PROVE  TypeBooks'
<1>1. TypeOK'
  BY DEF TypeBooks, TypeOK
<1>2. Places' /\ Placed' = Placed
  BY DEF TypeBooks, Places, Placed, NextPlace
<1>3. Books'
  BY <1>2 DEF TypeBooks, Books, TypeOK
<1> QED
  BY <1>1, <1>2, <1>3 DEF TypeBooks

(* What an attempt does to the run of its flush.                           *)
LEMMA ReachRun ==
  ASSUME TypeOK, NEW f \in Flushes, Reach(f)
  PROVE  \E S \in SUBSET Peers :
           run' = [run EXCEPT ![f] = [run[f] EXCEPT !.phase = "sending", !.open = S]]
BY DEF Reach, TypeOK, Run

LEMMA TryRun ==
  ASSUME TypeOK, NEW f \in Flushes, NEW S, Try(f, S)
  PROVE  LET taken == {p \in S : link[p] = "ready"} IN
         /\ run[f].phase = "sending" /\ S \subseteq run[f].open
         /\ run' = [run EXCEPT ![f] = [run[f] EXCEPT !.open = @ \ S, !.to = @ \cup taken,
                                                    !.held = @ \cup (S \ taken)]]
<1>1. S \subseteq run[f].open
  BY DEF Try, Turns
<1>2. run[f] \in Run
  BY DEF TypeOK
<1> QED
  BY <1>1, <1>2 DEF Try, TypeOK, Run

LEMMA EnqueuePlaces ==
  ASSUME TypeBooks, NEW k \in Messages, entry[k].at = 0,
         entry' = [entry EXCEPT ![k].at = NextPlace]
  PROVE  /\ Places' /\ NextPlace \in Nat /\ NextPlace > 0
         /\ Placed' = Placed \cup {k}
<1>1. IsFiniteSet(Placed)
  BY OutboxAssumption, FS_Subset DEF Placed
<1>2. Cardinality(Placed) \in Nat /\ NextPlace = Cardinality(Placed) + 1
  BY <1>1, FS_CardinalityType DEF Placed, NextPlace
<1>3. \A m \in Messages : entry[m].at \in Nat
  BY DEF TypeBooks, TypeOK, Entry
<1>4. \A m \in Messages : entry'[m].at = IF m = k THEN NextPlace ELSE entry[m].at
  BY DEF TypeBooks, TypeOK, Entry
<1>5. Placed' = Placed \cup {k} /\ k \notin Placed
  <2>1. \A m \in Messages : entry'[m].at > 0 <=> entry[m].at > 0 \/ m = k
    BY <1>2, <1>3, <1>4
  <2>2. k \notin Placed
    BY DEF Placed
  <2>3. Placed' = {m \in Messages : entry'[m].at > 0}
    BY DEF Placed
  <2> QED
    BY <2>1, <2>2, <2>3 DEF Placed
<1>6. Cardinality(Placed') = Cardinality(Placed) + 1
  BY <1>1, <1>5, FS_AddElement
<1>7. NextPlace' = NextPlace + 1
  <2>1. NextPlace' = Cardinality(Placed') + 1
    BY DEF NextPlace, Placed
  <2> QED
    BY <1>2, <1>6, <2>1
<1>8. \A m \in Messages : entry[m].at < NextPlace
  BY DEF TypeBooks, Places
<1>9. \A m \in Messages : entry'[m].at < NextPlace'
  BY <1>2, <1>3, <1>4, <1>7, <1>8
<1>10. ASSUME NEW m \in Placed', NEW n \in Placed', entry'[m].at = entry'[n].at PROVE m = n
  <2>1. m \in Messages /\ n \in Messages
    BY <1>5 DEF Placed
  <2>2. m = k <=> n = k
    BY <1>2, <1>3, <1>4, <1>8, <1>10, <2>1
  <2> QED
    BY <1>4, <1>5, <1>10, <2>1, <2>2 DEF TypeBooks, Places
<1> QED
  BY <1>2, <1>5, <1>9, <1>10 DEF Places

LEMMA TypeBooksInit == Init => TypeBooks
<1> SUFFICES ASSUME Init PROVE TypeBooks
  OBVIOUS
<1>1. NoEntry \in Entry /\ Idle \in Run
  BY OutboxAssumption DEF NoEntry, Entry, Idle, Run, Phases
<1>2. TypeOK
  <2>1. 0 \in 0 .. MaxDrops
    BY OutboxAssumption
  <2>2. /\ link \in [Peers -> {"closed", "open", "ready"}]
        /\ stage \in [Messages -> {"new", "chosen", "sealing", "done"}]
    BY DEF Init
  <2>3. entry \in [Messages -> Entry] /\ run \in [Flushes -> Run]
    BY <1>1 DEF Init
  <2>4. got \in [Messages -> SUBSET Peers] /\ meant \in [Messages -> SUBSET Peers]
        /\ missed \in [Messages -> SUBSET Peers]
    BY DEF Init
  <2> QED
    BY <2>1, <2>2, <2>3, <2>4 DEF Init, TypeOK
<1>3. \A m \in Messages : entry[m].at = 0
  BY DEF Init, NoEntry
<1>4. Placed = {} /\ NextPlace = 1
  <2>1. {n \in Messages : entry[n].at > 0} = {}
    BY <1>3
  <2> QED
    BY <2>1, FS_EmptySet DEF Placed, NextPlace
<1>5. Places /\ Books
  BY <1>3, <1>4 DEF Init, Places, Books, Idle
<1> QED
  BY <1>2, <1>5 DEF TypeBooks

LEMMA TypeBooksStep == TypeBooks /\ [Next]_vars => TypeBooks'
<1> SUFFICES ASSUME TypeBooks, [Next]_vars PROVE TypeBooks'
  OBVIOUS
<1>0. TypeOK
  BY DEF TypeBooks
<1>1. CASE \E p \in Peers : OpenChannel(p) \/ SessionReady(p) \/ \E l \in {"closed", "open"} : Lose(p, l)
  <2>1. UNCHANGED Page
    BY <1>1 DEF OpenChannel, SessionReady, Lose
  <2>2. link' \in [Peers -> {"closed", "open", "ready"}]
    BY <1>0, <1>1 DEF OpenChannel, SessionReady, Lose, TypeOK
  <2>3. drops' \in 0 .. MaxDrops
    BY <1>0, <1>1, OutboxAssumption DEF OpenChannel, SessionReady, Lose, TypeOK
  <2> QED
    BY <2>1, <2>2, <2>3 DEF TypeBooks, TypeOK, Page, Places, Placed, NextPlace, Books
<1>2a. ASSUME NEW k \in Messages, NEW S \in SUBSET Peers, Choose(k, S) PROVE TypeBooks'
  <2>1. /\ stage[k] = "new" /\ stage' = [stage EXCEPT ![k] = "chosen"]
        /\ meant' = [meant EXCEPT ![k] = S]
        /\ UNCHANGED <<link, drops, entry, waiting, old, run, queued, got, again, missed, overlap>>
    BY <1>2a DEF Choose
  <2>2. TypeOK'
    BY <1>0, <2>1 DEF TypeOK
  <2>3. Placed' = Placed /\ NextPlace' = NextPlace /\ Places'
    BY <2>1 DEF TypeBooks, Places, Placed, NextPlace
  <2>4. /\ \A m \in Messages : stage[m] = "done" => stage'[m] = "done"
        /\ \A m \in Messages \ {k} : stage'[m] = stage[m]
    BY <1>0, <2>1 DEF TypeOK
  <2>5. Books'
    BY <2>1, <2>3, <2>4 DEF TypeBooks, Books
  <2> QED
    BY <2>2, <2>3, <2>5 DEF TypeBooks
<1>2b. ASSUME NEW k \in Messages, Deliver(k) PROVE TypeBooks'
  <2> DEFINE S == meant[k]
  <2>1. NoEntry \in Entry
    BY OutboxAssumption DEF NoEntry, Entry
  <2>2. EntryFor(S, k \notin Private) \in Entry /\ EntryFor(S, k \notin Private).at = 0
    <3>1. Held(S) \in SUBSET Peers /\ S \in SUBSET Peers
      BY <1>0 DEF Held, TypeOK
    <3> QED
      BY <2>1, <3>1 DEF EntryFor, NoEntry, Entry
  <2>3. /\ stage[k] = "chosen" /\ entry[k].at = 0
    BY <1>2b DEF Deliver, TypeBooks, Books
  <2>4. /\ entry' \in [Messages -> Entry]
        /\ \A m \in Messages : entry'[m].at = entry[m].at
    BY <1>0, <1>2b, <2>2, <2>3 DEF Deliver, TypeOK
  <2>5. /\ stage' \in [Messages -> {"new", "chosen", "sealing", "done"}]
        /\ \A m \in Messages \ {k} : stage'[m] = stage[m]
        /\ \A m \in Messages : stage[m] = "done" => stage'[m] = "done"
    BY <1>0, <1>2b, <2>3 DEF Deliver, TypeOK
  <2>6. /\ missed' \in [Messages -> SUBSET Peers] /\ got' \in [Messages -> SUBSET Peers]
        /\ UNCHANGED <<link, drops, waiting, old, run, queued, again, meant, overlap>>
    BY <1>0, <1>2b DEF Deliver, TypeOK, Handed, Missed
  <2>7. TypeOK'
    BY <1>0, <2>4, <2>5, <2>6 DEF TypeOK
  <2>8. Placed' = Placed /\ NextPlace' = NextPlace
    BY <2>4 DEF Placed, NextPlace
  <2>9. Places'
    BY <2>4, <2>8 DEF TypeBooks, Places, Placed
  <2>10. Books'
    <3>1. \A m \in Messages : stage'[m] # "done" => entry'[m].at = 0
      BY <2>3, <2>4, <2>5 DEF TypeBooks, Books
    <3>2. {m \in Placed : stage[m] = "done"} \subseteq {m \in Placed' : stage'[m] = "done"}
      BY <2>5, <2>8 DEF Placed
    <3> QED
      BY <2>6, <3>1, <3>2 DEF TypeBooks, Books
  <2> QED
    BY <2>7, <2>9, <2>10 DEF TypeBooks
<1>3. ASSUME NEW k \in Messages, Enqueue(k) PROVE TypeBooks'
  <2>1. /\ stage[k] = "sealing" /\ stage' = [stage EXCEPT ![k] = "done"]
        /\ UNCHANGED <<link, drops, old, run, got, again, meant, missed, overlap>>
        /\ entry[k].at = 0
    BY <1>3 DEF Enqueue, TypeBooks, Books
  <2>2. /\ stage' \in [Messages -> {"new", "chosen", "sealing", "done"}]
        /\ \A m \in Messages : stage[m] = "done" => stage'[m] = "done"
        /\ stage'[k] = "done"
        /\ \A m \in Messages \ {k} : stage'[m] = stage[m]
    BY <1>0, <2>1 DEF TypeOK
  <2>3. CASE Cardinality(waiting) >= MaxMessages
    <3>1. UNCHANGED <<entry, waiting, queued>>
      BY <1>3, <2>3 DEF Enqueue
    <3> QED
      BY <2>1, <2>2, <3>1 DEF TypeBooks, TypeOK, Places, Placed, NextPlace, Books
  <2>4. CASE ~(Cardinality(waiting) >= MaxMessages)
    <3>1. /\ entry' = [entry EXCEPT ![k].at = NextPlace]
          /\ waiting' = waiting \cup {k}
          /\ queued' \subseteq queued \cup {k}
      BY <1>3, <2>4 DEF Enqueue
    <3>2. Places' /\ NextPlace \in Nat /\ NextPlace > 0 /\ Placed' = Placed \cup {k}
      BY <2>1, <3>1, EnqueuePlaces
    <3>3. TypeOK'
      <4>1. entry[k] \in Entry
        BY <1>0 DEF TypeOK
      <4>2. [entry[k] EXCEPT !.at = NextPlace] \in Entry
        BY <3>2, <4>1 DEF Entry
      <4>3. entry' \in [Messages -> Entry]
        BY <1>0, <3>1, <4>2 DEF TypeOK
      <4> QED
        BY <1>0, <2>1, <2>2, <3>1, <4>3 DEF TypeOK
    <3>4. \A m \in Messages : stage'[m] # "done" => entry'[m].at = 0
      BY <1>0, <2>2, <3>1 DEF TypeBooks, Books, TypeOK
    <3>5. Books'
      BY <2>1, <2>2, <3>1, <3>2, <3>4 DEF TypeBooks, Books
    <3> QED
      BY <3>2, <3>3, <3>5 DEF TypeBooks
  <2> QED
    BY <2>3, <2>4
<1>4. ASSUME NEW k \in Messages, Age(k) PROVE TypeBooks'
  BY <1>4 DEF Age, TypeBooks, TypeOK, Places, Placed, NextPlace, Books
<1>5. ASSUME NEW f \in Flushes, Start(f) PROVE TypeBooks'
  <2>1. GoOn(f, waiting, waiting, old \cap waiting, {}, entry)
    BY <1>5 DEF Start
  <2> QED
    BY <1>5, <2>1, StartGoesOn, GoOnBooks
<1>6. ASSUME NEW f \in Flushes, Reach(f) PROVE TypeBooks'
  <2>1. PICK S \in SUBSET Peers :
          run' = [run EXCEPT ![f] = [run[f] EXCEPT !.phase = "sending", !.open = S]]
    BY <1>0, <1>6, ReachRun
  <2>2. run[f] \in Run
    BY <1>0 DEF TypeOK
  <2>3. [run[f] EXCEPT !.phase = "sending", !.open = S] \in Run
    BY <2>2 DEF Run, Phases
  <2>4. /\ UNCHANGED <<link, drops, stage, entry, waiting, old, queued, meant, missed, overlap>>
        /\ got' \in [Messages -> SUBSET Peers] /\ again' \subseteq Messages
    BY <1>0, <1>6 DEF Reach, TypeOK
  <2> QED
    BY <2>1, <2>2, <2>3, <2>4, RunStep DEF Run
<1>7. ASSUME NEW f \in Flushes, NEW S \in SUBSET Peers, Try(f, S) PROVE TypeBooks'
  <2> DEFINE taken == {p \in S : link[p] = "ready"}
  <2>1. /\ run[f].phase = "sending" /\ S \subseteq run[f].open
        /\ run' = [run EXCEPT ![f] = [run[f] EXCEPT !.open = @ \ S, !.to = @ \cup taken,
                                                   !.held = @ \cup (S \ taken)]]
    BY <1>0, <1>7, TryRun
  <2>2. run[f] \in Run
    BY <1>0 DEF TypeOK
  <2>3. [run[f] EXCEPT !.open = @ \ S, !.to = @ \cup taken, !.held = @ \cup (S \ taken)] \in Run
    BY <2>2 DEF Run
  <2>4. /\ UNCHANGED <<link, drops, stage, entry, waiting, old, queued, meant, missed, overlap>>
        /\ got' \in [Messages -> SUBSET Peers] /\ again' \subseteq Messages
    <3>1. \A m \in Messages : got[m] \subseteq Peers
      BY <1>0 DEF TypeOK
    <3>2. got' = [m \in Messages |-> IF m \in run[f].msg THEN got[m] \cup taken ELSE got[m]]
      BY <1>7 DEF Try
    <3>3. again' = again \cup {m \in run[f].msg : got[m] \cap taken # {}}
      BY <1>7 DEF Try
    <3>4. run[f].msg \subseteq Messages /\ again \subseteq Messages
      BY <1>0, <2>2 DEF Run, TypeOK
    <3> QED
      BY <1>7, <3>1, <3>2, <3>3, <3>4 DEF Try
  <2> QED
    BY <2>1, <2>2, <2>3, <2>4, RunStep DEF Run
<1>8. ASSUME NEW f \in Flushes, Settle(f) PROVE TypeBooks'
  <2>1. overlap' \in BOOLEAN
    BY <1>0, <1>8, SettleGoesOn DEF TypeOK
  <2> QED
    BY <1>8, <2>1, SettleGoesOn, GoOnBooks
<1>9. CASE UNCHANGED vars
  BY <1>9 DEF vars, TypeBooks, TypeOK, Places, Placed, NextPlace, Books
<1> QED
  BY <1>1, <1>2a, <1>2b, <1>3, <1>4, <1>5, <1>6, <1>7, <1>8, <1>9 DEF Next, Step

(* Every reachable state is well typed; in particular no entry is tried    *)
(* more often than OUTBOX_LIMITS.maxAttempts.                              *)
THEOREM TypeCorrect == Spec => []TypeOK
<1>1. TypeBooks => TypeOK
  BY DEF TypeBooks
<1> QED
  BY <1>1, TypeBooksInit, TypeBooksStep, PTL DEF Spec

----------------------------------------------------------------------------
(* Whom a message waits for.                                               *)

LEMMA GoOnEffect ==
  ASSUME TypeBooks, NEW f \in Flushes, NEW S, NEW before, NEW late, NEW done, NEW e,
         GoesOn(f, S, before, late, done, e),
         GoOn(f, S, before, late, done, e)
  PROVE  /\ \A g \in Flushes \ {f} : run'[g] = run[g]
         /\ \/ run'[f] = Idle
            \/ /\ run'[f].to = {} /\ run'[f].before = before
               /\ run'[f].msg \subseteq Messages
               /\ \A m \in run'[f].msg : m \in S /\ run'[f].asked = e[m].targets
         /\ \A m \in Messages : entry'[m].targets = e[m].targets
         /\ \A m \in waiting \ waiting' : m \in done \/ (m \in S /\ Expired(m, late))
         /\ run'[f] = Idle => queued' = queued \ (before \ waiting')
         /\ queued' \subseteq queued
         /\ UNCHANGED <<stage, got, meant, missed>>
<1> DEFINE T == Tried(S, late)
           r == [Idle EXCEPT !.phase = "opening", !.before = before, !.late = late,
                              !.msg = T, !.rest = S \ (Dropped(S, late) \cup T),
                              !.asked = UNION {e[m].targets : m \in T},
                              !.each = \A m \in T : e[m].targets # {} /\ ~e[m].only]
<1>1. S \in SUBSET Placed /\ Placed \subseteq Messages
  BY DEF GoesOn, Placed
<1>2. T \subseteq S /\ \A m, n \in T : m = n
  BY <1>1, TriedOne
<1>3. r.phase # Idle.phase /\ r.to = {} /\ r.before = before /\ r.msg = T
      /\ r.asked = UNION {e[m].targets : m \in T}
  BY DEF Idle
<1> HIDE DEF r
<1>4. \/ run' = [run EXCEPT ![f] = Idle] /\ queued' = queued \ (before \ waiting')
      \/ run' = [run EXCEPT ![f] = r] /\ queued' = queued
  BY DEF GoOn, T, r, Gone
<1> HIDE DEF T
<1>5. \A m \in T : m \in S /\ r.asked = e[m].targets
  BY <1>2, <1>3
<1>6. \A m \in Messages : entry'[m].targets = e[m].targets
  <2>1. entry' = [m \in Messages |-> IF m \in T THEN [e[m] EXCEPT !.attempts = @ + 1] ELSE e[m]]
    BY DEF GoOn, T
  <2>2. \A m \in Messages : e[m] \in Entry
    BY DEF GoesOn
  <2> QED
    BY <2>1, <2>2 DEF Entry
<1>7. \A m \in waiting \ waiting' : m \in done \/ (m \in S /\ Expired(m, late))
  <2>1. waiting' = waiting \ (Dropped(S, late) \cup done)
    BY DEF GoOn
  <2>2. \A m \in Dropped(S, late) : m \in S /\ Expired(m, late)
    BY DEF Dropped
  <2> QED
    BY <2>1, <2>2
<1>8. UNCHANGED <<stage, got, meant, missed>>
  BY DEF GoOn
<1>9. run \in [Flushes -> Run]
  BY DEF TypeBooks, TypeOK
<1>10. run'[f] = Idle \/ run'[f] = r
  BY <1>4, <1>9
<1>11. \A g \in Flushes \ {f} : run'[g] = run[g]
  BY <1>4, <1>9
<1>12. r # Idle
  BY <1>3
<1> QED
  BY <1>1, <1>2, <1>3, <1>4, <1>5, <1>6, <1>7, <1>8, <1>9, <1>10, <1>11, <1>12

(* What an attempt leaves of the list of peers.                            *)
LEMMA LeftTargets ==
  ASSUME TypeOK, NEW f \in Flushes, NEW m \in Messages, run[f].to \subseteq got[m]
  PROVE  LET after == Left(run[f], entry[m]).targets IN
         /\ entry[m].targets \subseteq after \cup got[m] \/ run[f].asked = {}
         /\ entry[m].targets # {} \/ got[m] # {} => after # {} \/ got[m] # {}
<1>1. entry[m] \in Entry
  BY DEF TypeOK
<1>2. CASE run[f].asked # {}
  <2>1. Left(run[f], entry[m]).targets = entry[m].targets \ run[f].to
    BY <1>1, <1>2 DEF Left, Entry
  <2> QED
    BY <2>1
<1>3. CASE run[f].asked = {}
  <2>1. Left(run[f], entry[m]).targets = entry[m].targets
          \/ (Left(run[f], entry[m]).targets = run[f].held /\ run[f].held # {})
    <3>1. [entry[m] EXCEPT !.targets = run[f].held, !.only = TRUE].targets = run[f].held
      BY <1>1 DEF Entry
    <3> QED
      BY <1>3, <3>1 DEF Left
  <2> QED
    BY <1>3, <2>1
<1> QED
  BY <1>2, <1>3

LEMMA StartGood ==
  ASSUME Good, NEW f \in Flushes, Start(f)
  PROVE  Good'
<1>1. TypeBooks
  BY DEF Good
<1>2. GoOn(f, waiting, waiting, old \cap waiting, {}, entry)
  BY DEF Start
<1>3. GoesOn(f, waiting, waiting, old \cap waiting, {}, entry) /\ overlap' \in BOOLEAN
  BY <1>1, StartGoesOn
<1>4. TypeBooks'
  BY <1>1, <1>2, <1>3, GoOnBooks
<1>5. /\ \A g \in Flushes \ {f} : run'[g] = run[g]
      /\ \/ run'[f] = Idle
         \/ /\ run'[f].to = {}
            /\ \A m \in run'[f].msg : m \in waiting /\ run'[f].asked = entry[m].targets
      /\ \A m \in Messages : entry'[m].targets = entry[m].targets
      /\ UNCHANGED <<stage, got, meant, missed>>
  BY <1>1, <1>2, <1>3, GoOnEffect
<1>6. \A g \in Flushes : run[g].msg \subseteq Messages
  BY <1>1 DEF TypeBooks, Books, Placed
<1>7. waiting \subseteq {m \in Messages : stage[m] = "done"}
  BY <1>1 DEF TypeBooks, Books, Placed
<1>8. overlap' = (overlap \/ \E g \in Flushes : run[g].phase # "idle")
  BY DEF Start
<1>9. ~overlap' => ~overlap /\ \A g \in Flushes : run[g] = Idle
  BY <1>1, <1>8 DEF TypeBooks, Books
<1>10. Alone'
  BY <1>5, <1>9 DEF Alone
<1>11. Covered'
  BY <1>5, OutboxAssumption DEF Good, Covered
<1>12. ASSUME NEW g \in Flushes PROVE Aims(g)'
  <2>1. CASE g # f
    <3>1. Aims(g)
      BY DEF Good
    <3> QED
      BY <1>5, <1>6, <1>9, <2>1, <3>1 DEF Aims
  <2>2. CASE g = f
    <3>1. CASE run'[f] = Idle
      BY <2>2, <3>1 DEF Aims, Idle
    <3>2. CASE run'[f] # Idle
      <4>1. ASSUME NEW m \in run'[f].msg
            PROVE  /\ m \in Messages /\ stage[m] = "done"
                   /\ run'[f].asked = entry[m].targets /\ run'[f].to = {}
        BY <1>5, <1>7, <3>2
      <4>2. \A m \in Private : stage[m] \in {"sealing", "done"} => meant[m] \subseteq got[m] \cup missed[m] \cup entry[m].targets
        BY DEF Good, Covered
      <4> QED
        BY <1>5, <2>2, <4>1, <4>2 DEF Aims
    <3> QED
      BY <3>1, <3>2
  <2> QED
    BY <2>1, <2>2
<1> QED
  BY <1>4, <1>10, <1>11, <1>12 DEF Good

LEMMA SettleGood ==
  ASSUME Good, NEW f \in Flushes, Settle(f)
  PROVE  Good'
<1>1. TypeBooks /\ TypeOK
  BY DEF Good, TypeBooks
<1>2. /\ GoesOn(f, run[f].rest, run[f].before, run[f].late, Done(f), After(f))
      /\ GoOn(f, run[f].rest, run[f].before, run[f].late, Done(f), After(f))
      /\ overlap' = overlap
  BY <1>1, SettleGoesOn
<1>3. TypeBooks'
  BY <1>1, <1>2, GoOnBooks DEF TypeOK
<1>4. /\ \A g \in Flushes \ {f} : run'[g] = run[g]
      /\ \/ run'[f] = Idle
         \/ /\ run'[f].to = {}
            /\ \A m \in run'[f].msg : m \in run[f].rest /\ run'[f].asked = After(f)[m].targets
      /\ \A m \in Messages : entry'[m].targets = After(f)[m].targets
      /\ UNCHANGED <<stage, got, meant, missed>>
  BY <1>1, <1>2, GoOnEffect
<1>5. \A g \in Flushes : run[g].msg \cup run[g].rest \subseteq {m \in Messages : stage[m] = "done"}
  BY <1>1 DEF TypeBooks, Books, Placed
<1>6. run[f] # Idle
  BY DEF Settle, Idle
<1>7. \A m \in run[f].msg :
        /\ m \in Messages /\ run[f].to \subseteq got[m]
        /\ run[f].asked = {} /\ m \in Private => meant[m] \subseteq got[m] \cup missed[m]
        /\ ~overlap => entry[m].targets = run[f].asked
  BY <1>5 DEF Good, Aims
<1>8. \A m \in Messages :
        After(f)[m].targets = IF m \in run[f].msg THEN Left(run[f], entry[m]).targets
                                                  ELSE entry[m].targets
  BY DEF After
<1>9. \A m \in Private : stage[m] \in {"sealing", "done"} => meant[m] \subseteq got[m] \cup missed[m] \cup After(f)[m].targets
  <2> SUFFICES ASSUME NEW m \in Private, stage[m] \in {"sealing", "done"}
               PROVE  meant[m] \subseteq got[m] \cup missed[m] \cup After(f)[m].targets
    OBVIOUS
  <2>1. m \in Messages
    BY OutboxAssumption
  <2>2. meant[m] \subseteq got[m] \cup missed[m] \cup entry[m].targets
    BY DEF Good, Covered
  <2>3. CASE m \in run[f].msg
    <3>1. \/ entry[m].targets \subseteq Left(run[f], entry[m]).targets \cup got[m]
          \/ run[f].asked = {}
      BY <1>1, <1>7, <2>1, <2>3, LeftTargets
    <3> QED
      BY <1>7, <1>8, <2>1, <2>2, <2>3, <3>1
  <2>4. CASE m \notin run[f].msg
    BY <1>8, <2>1, <2>2, <2>4
  <2> QED
    BY <2>3, <2>4
<1>10. Covered'
  BY <1>4, <1>9, OutboxAssumption DEF Covered
<1>11. Alone'
  BY <1>2, <1>4, <1>6 DEF Good, Alone
<1>12. ASSUME NEW g \in Flushes PROVE Aims(g)'
  <2>1. CASE g # f
    <3>1. Aims(g) /\ run'[g] = run[g]
      BY <1>4, <2>1 DEF Good
    <3>2. ~overlap => run[g].msg = {}
      BY <1>6, <2>1 DEF Good, Alone, Idle
    <3>3. ASSUME NEW m \in run[g].msg
          PROVE  entry[m].targets # {} \/ got[m] # {} =>
                   After(f)[m].targets # {} \/ got[m] # {}
      <4>1. m \in Messages
        BY <1>5
      <4> QED
        BY <1>1, <1>7, <1>8, <4>1, LeftTargets
    <3>4. \A m \in run[g].msg : m \in Messages
      BY <1>5
    <3> QED
      BY <1>2, <1>4, <3>1, <3>2, <3>3, <3>4 DEF Aims
  <2>2. CASE g = f
    <3>1. CASE run'[f] = Idle
      BY <2>2, <3>1 DEF Aims, Idle
    <3>2. CASE run'[f] # Idle
      <4>1. ASSUME NEW m \in run'[f].msg
            PROVE  /\ m \in Messages /\ stage[m] = "done"
                   /\ run'[f].asked = After(f)[m].targets /\ run'[f].to = {}
        BY <1>4, <1>5, <3>2
      <4> QED
        BY <1>4, <1>9, <2>2, <4>1 DEF Aims
    <3> QED
      BY <3>1, <3>2
  <2> QED
    BY <2>1, <2>2
<1> QED
  BY <1>3, <1>10, <1>11, <1>12 DEF Good

LEMMA GoodInit == Init => Good
<1> SUFFICES ASSUME Init PROVE Good
  OBVIOUS
<1>1. TypeBooks
  BY TypeBooksInit
<1>2. \A f \in Flushes : run[f] = Idle
  BY DEF Init
<1>3. Alone /\ \A f \in Flushes : Aims(f)
  BY <1>2 DEF Alone, Aims, Idle
<1>4. Covered
  BY OutboxAssumption DEF Init, Covered
<1> QED
  BY <1>1, <1>3, <1>4 DEF Good

LEMMA GoodStep == Good /\ [Next]_vars => Good'
<1> SUFFICES ASSUME Good, [Next]_vars PROVE Good'
  OBVIOUS
<1>0. TypeBooks' /\ TypeBooks /\ TypeOK
  BY TypeBooksStep DEF Good, TypeBooks
<1>1. CASE \E p \in Peers : OpenChannel(p) \/ SessionReady(p) \/ \E l \in {"closed", "open"} : Lose(p, l)
  <2>1. UNCHANGED Page
    BY <1>1 DEF OpenChannel, SessionReady, Lose
  <2> QED
    BY <1>0, <2>1 DEF Page, Good, Alone, Covered, Aims
<1>2a. ASSUME NEW k \in Messages, NEW S \in SUBSET Peers, Choose(k, S) PROVE Good'
  <2>1. /\ stage[k] = "new" /\ stage'[k] = "chosen"
        /\ \A m \in Messages \ {k} : meant'[m] = meant[m] /\ stage'[m] = stage[m]
        /\ UNCHANGED <<run, entry, got, missed, overlap>>
    BY <1>0, <1>2a DEF Choose, TypeOK
  <2>2. \A f \in Flushes : run[f].msg \subseteq Messages \ {k}
    BY <1>0, <2>1 DEF TypeBooks, Books, Placed
  <2>3. Alone' /\ \A f \in Flushes : Aims(f)'
    BY <2>1, <2>2 DEF Good, Alone, Aims
  <2>4. Covered'
    BY <2>1, OutboxAssumption DEF Good, Covered
  <2> QED
    BY <1>0, <2>3, <2>4 DEF Good
<1>2b. ASSUME NEW k \in Messages, Deliver(k) PROVE Good'
  <2> DEFINE S == meant[k]
  <2>1. /\ stage[k] = "chosen"
        /\ \A m \in Messages \ {k} : /\ got'[m] = got[m] /\ missed'[m] = missed[m]
                                      /\ entry'[m] = entry[m] /\ stage'[m] = stage[m]
        /\ UNCHANGED <<run, meant, overlap>>
    BY <1>0, <1>2b DEF Deliver, TypeOK
  <2>2. \A f \in Flushes : run[f].msg \subseteq Messages \ {k}
    BY <1>0, <2>1 DEF TypeBooks, Books, Placed
  <2>3. Alone' /\ \A f \in Flushes : Aims(f)'
    BY <2>1, <2>2 DEF Good, Alone, Aims
  <2>4. k \in Private => meant'[k] \subseteq got'[k] \cup missed'[k] \cup entry'[k].targets
    <3> SUFFICES ASSUME k \in Private
                 PROVE  meant'[k] \subseteq got'[k] \cup missed'[k] \cup entry'[k].targets
      OBVIOUS
    <3>1. meant'[k] = S /\ got'[k] = Handed(S) /\ missed'[k] = Missed(S)
      BY <1>0, <1>2b DEF Deliver, TypeOK
    <3>2. Handed(S) # {} => S \subseteq Handed(S) \cup Missed(S) \cup Held(S)
      BY DEF Missed
    <3>3. CASE Handed(S) # {} /\ Held(S) = {}
      BY <3>1, <3>2, <3>3
    <3>4. CASE ~(Handed(S) # {} /\ Held(S) = {})
      <4>1. entry'[k] = EntryFor(S, FALSE)
        BY <1>0, <1>2b, <3>4 DEF Deliver, TypeOK
      <4>2. entry'[k].targets = IF Handed(S) = {} THEN S ELSE Held(S)
        BY <4>1 DEF EntryFor, NoEntry
      <4> QED
        BY <3>1, <3>2, <4>2
    <3> QED
      BY <3>3, <3>4
  <2>5. Covered'
    BY <2>1, <2>4, OutboxAssumption DEF Good, Covered
  <2> QED
    BY <1>0, <2>3, <2>5 DEF Good
<1>3. ASSUME NEW k \in Messages, Enqueue(k) PROVE Good'
  <2>1. /\ \A m \in Messages : entry'[m].targets = entry[m].targets
        /\ \A m \in Messages : stage'[m] \in {"sealing", "done"} <=> stage[m] \in {"sealing", "done"}
        /\ UNCHANGED <<run, overlap, got, meant, missed>>
    BY <1>0, <1>3 DEF Enqueue, TypeOK, Entry
  <2>2. \A f \in Flushes : run[f].msg \subseteq Messages
    BY <1>0 DEF TypeBooks, Books, Placed
  <2> QED
    BY <1>0, <2>1, <2>2, OutboxAssumption DEF Good, Alone, Covered, Aims
<1>4. ASSUME NEW k \in Messages, Age(k) PROVE Good'
  BY <1>0, <1>4 DEF Age, Good, Alone, Covered, Aims
<1>5. ASSUME NEW f \in Flushes, Start(f) PROVE Good'
  BY <1>5, StartGood
<1>6. ASSUME NEW f \in Flushes, Reach(f) PROVE Good'
  <2>1. PICK S \in SUBSET Peers :
          run' = [run EXCEPT ![f] = [run[f] EXCEPT !.phase = "sending", !.open = S]]
    BY <1>0, <1>6, ReachRun
  <2>2. run[f] \in Run /\ run[f] # Idle
    BY <1>0, <1>6 DEF TypeOK, Reach, Idle
  <2>3. /\ \A g \in Flushes \ {f} : run'[g] = run[g]
        /\ run'[f].msg = run[f].msg /\ run'[f].asked = run[f].asked
        /\ run'[f].to = run[f].to
    BY <1>0, <2>1, <2>2 DEF TypeOK, Run
  <2>4. UNCHANGED <<stage, entry, got, meant, missed, overlap>>
    BY <1>6 DEF Reach
  <2>5. Alone'
    BY <2>2, <2>3, <2>4 DEF Good, Alone
  <2>6. Covered'
    BY <2>4 DEF Good, Covered
  <2>7. ASSUME NEW g \in Flushes PROVE Aims(g)'
    <3>1. Aims(g)
      BY DEF Good
    <3>2. CASE g # f
      BY <2>3, <2>4, <3>1, <3>2 DEF Aims
    <3>3. CASE g = f
      BY <2>3, <2>4, <3>1, <3>3 DEF Aims
    <3> QED
      BY <3>2, <3>3
  <2> QED
    BY <1>0, <2>5, <2>6, <2>7 DEF Good
<1>7. ASSUME NEW f \in Flushes, NEW S \in SUBSET Peers, Try(f, S) PROVE Good'
  <2> DEFINE taken == {p \in S : link[p] = "ready"}
  <2>1. /\ run[f].phase = "sending" /\ S \subseteq run[f].open
        /\ run' = [run EXCEPT ![f] = [run[f] EXCEPT !.open = @ \ S, !.to = @ \cup taken,
                                                   !.held = @ \cup (S \ taken)]]
    BY <1>0, <1>7, TryRun
  <2>2. run[f] \in Run /\ run[f] # Idle
    BY <1>0, <2>1 DEF TypeOK, Idle
  <2>3. /\ \A g \in Flushes \ {f} : run'[g] = run[g]
        /\ run'[f].msg = run[f].msg /\ run'[f].asked = run[f].asked
        /\ run'[f].to = run[f].to \cup taken
    BY <1>0, <2>1, <2>2 DEF TypeOK, Run
  <2>4. UNCHANGED <<stage, entry, meant, missed, overlap>>
    BY <1>7 DEF Try
  <2>5. \A m \in Messages : got'[m] = IF m \in run[f].msg THEN got[m] \cup taken ELSE got[m]
    BY <1>7 DEF Try
  <2>6. \A g \in Flushes : run[g].msg \subseteq Messages
    BY <1>0 DEF TypeBooks, Books, Placed
  <2>7. Alone'
    BY <2>2, <2>3, <2>4 DEF Good, Alone
  <2>8. Covered'
    BY <2>4, <2>5, OutboxAssumption DEF Good, Covered
  <2>9. ASSUME NEW g \in Flushes PROVE Aims(g)'
    <3>1. Aims(g)
      BY DEF Good
    <3> HIDE DEF taken
    <3>2. \A m \in run[g].msg : got[m] \subseteq got'[m]
      BY <2>5, <2>6
    <3>3. CASE g # f
      BY <2>3, <2>4, <2>6, <3>1, <3>2, <3>3 DEF Aims
    <3>4. CASE g = f
      BY <2>3, <2>4, <2>5, <2>6, <3>1, <3>2, <3>4 DEF Aims
    <3> QED
      BY <3>3, <3>4
  <2> QED
    BY <1>0, <2>7, <2>8, <2>9 DEF Good
<1>8. ASSUME NEW f \in Flushes, Settle(f) PROVE Good'
  BY <1>8, SettleGood
<1>9. CASE UNCHANGED vars
  BY <1>0, <1>9 DEF vars, Good, Alone, Covered, Aims
<1> QED
  BY <1>1, <1>2a, <1>2b, <1>3, <1>4, <1>5, <1>6, <1>7, <1>8, <1>9 DEF Next, Step

(* What leaves the outbox without being delivered has had its time or its  *)
(* attempts; what was delivered has reached whom it waited for.            *)
LEMMA LeavesForAReason ==
  ASSUME Good, [Next]_vars, NEW m \in waiting \ waiting'
  PROVE  \/ Expired(m, old)
         \/ m \in Private /\ meant[m] \subseteq got[m] \cup missed[m]
         \/ m \notin Private /\ got[m] # {} /\ (overlap \/ entry[m].targets \subseteq got[m])
<1>0. TypeBooks /\ TypeOK
  BY DEF Good, TypeBooks
<1>1. m \in Messages
  BY <1>0 DEF TypeOK
<1>2. CASE \E f \in Flushes : Start(f)
  <2>1. PICK f \in Flushes : Start(f)
    BY <1>2
  <2>2. GoOn(f, waiting, waiting, old \cap waiting, {}, entry)
    BY <2>1 DEF Start
  <2>3. GoesOn(f, waiting, waiting, old \cap waiting, {}, entry)
    BY <1>0, <2>1, StartGoesOn
  <2>4. Expired(m, old \cap waiting)
    BY <1>0, <2>2, <2>3, GoOnEffect
  <2> QED
    BY <2>4 DEF Expired
<1>3. CASE \E f \in Flushes : Settle(f)
  <2>1. PICK f \in Flushes : Settle(f)
    BY <1>3
  <2>2. /\ GoesOn(f, run[f].rest, run[f].before, run[f].late, Done(f), After(f))
        /\ GoOn(f, run[f].rest, run[f].before, run[f].late, Done(f), After(f))
    BY <1>0, <2>1, SettleGoesOn
  <2>3. m \in Done(f) \/ Expired(m, run[f].late)
    BY <1>0, <2>2, GoOnEffect
  <2>4. CASE Expired(m, run[f].late)
    BY <1>0, <2>4 DEF Expired, TypeBooks, Books
  <2>5. CASE m \in Done(f)
    <3>1. m \in run[f].msg /\ Counts(run[f], entry[m])
      BY <2>5 DEF Done
    <3>2. /\ run[f].to \subseteq got[m]
          /\ run[f].asked = {} /\ m \in Private => meant[m] \subseteq got[m] \cup missed[m]
          /\ run[f].asked # {} => entry[m].targets # {} \/ got[m] # {}
          /\ ~overlap => entry[m].targets = run[f].asked
      BY <3>1 DEF Good, Aims
    <3>3. stage[m] = "done"
      BY <1>0, <3>1 DEF TypeBooks, Books
    <3>4. m \in Private => meant[m] \subseteq got[m] \cup missed[m] \cup entry[m].targets
      BY <3>3 DEF Good, Covered
    <3>5. CASE run[f].asked = {}
      BY <3>1, <3>2, <3>5 DEF Counts
    <3>6. CASE run[f].asked # {}
      BY <3>1, <3>2, <3>4, <3>6 DEF Counts
    <3> QED
      BY <3>5, <3>6
  <2> QED
    BY <2>3, <2>4, <2>5
<1>4. ASSUME \A f \in Flushes : ~Start(f) /\ ~Settle(f) PROVE FALSE
  <2>1. waiting \subseteq waiting'
    BY <1>4 DEF Next, Step, OpenChannel, SessionReady, Lose, Page, Choose, Deliver, Enqueue, Age, Reach,
                Try, vars
  <2> QED
    BY <2>1
<1> QED
  BY <1>2, <1>3, <1>4

(* A message leaves the outbox only when its time or its attempts are up,  *)
(* or when it was handed to whom it waited for, also when flushes run at   *)
(* the same time.                                                          *)
THEOREM AlwaysKeptUntilTaken == Spec => KeptUntilTaken
<1>1. Good /\ [Next]_vars =>
        [\A m \in waiting \ waiting' :
           \/ Expired(m, old)
           \/ m \in Private /\ meant[m] \subseteq got[m] \cup missed[m]
           \/ m \notin Private /\ got[m] # {} /\ (overlap \/ entry[m].targets \subseteq got[m])]_vars
  BY LeavesForAReason
<1> QED
  BY <1>1, GoodInit, GoodStep, PTL DEF Spec, KeptUntilTaken

----------------------------------------------------------------------------
(* Bubbles that look like drafts.                                          *)

LEMMA GoOnDrafts ==
  ASSUME TypeBooks, DraftsWait,
         NEW f \in Flushes, NEW S, NEW before, NEW late, NEW done, NEW e,
         GoesOn(f, S, before, late, done, e),
         GoOn(f, S, before, late, done, e),
         run[f].before \subseteq before
  PROVE  DraftsWait'
<1>1. /\ \A g \in Flushes \ {f} : run'[g] = run[g]
      /\ run'[f] = Idle \/ run'[f].before = before
      /\ \A m \in waiting \ waiting' : m \in done \/ m \in S
      /\ run'[f] = Idle => queued' = queued \ (before \ waiting')
      /\ queued' \subseteq queued
  BY GoOnEffect
<1>2. S \subseteq before /\ done \subseteq before
  BY DEF GoesOn
<1> SUFFICES ASSUME NEW m \in queued', m \notin waiting'
             PROVE  \E g \in Flushes : m \in run'[g].before
  BY DEF DraftsWait
<1>3. m \in before \/ \E g \in Flushes \ {f} : m \in run[g].before
  BY <1>1, <1>2 DEF DraftsWait
<1>4. CASE m \in before
  BY <1>1, <1>4
<1>5. CASE \E g \in Flushes \ {f} : m \in run[g].before
  BY <1>1, <1>5
<1> QED
  BY <1>3, <1>4, <1>5

LEMMA DraftsStep == TypeBooks /\ DraftsWait /\ [Next]_vars => DraftsWait'
<1> SUFFICES ASSUME TypeBooks, DraftsWait, [Next]_vars PROVE DraftsWait'
  OBVIOUS
<1>0. TypeOK
  BY DEF TypeBooks
<1>1. CASE \E p \in Peers : OpenChannel(p) \/ SessionReady(p) \/ \E l \in {"closed", "open"} : Lose(p, l)
  BY <1>1 DEF OpenChannel, SessionReady, Lose, Page, DraftsWait
<1>2a. ASSUME NEW k \in Messages, NEW S \in SUBSET Peers, Choose(k, S) PROVE DraftsWait'
  BY <1>2a DEF Choose, DraftsWait
<1>2b. ASSUME NEW k \in Messages, Deliver(k) PROVE DraftsWait'
  BY <1>2b DEF Deliver, DraftsWait
<1>3. ASSUME NEW k \in Messages, Enqueue(k) PROVE DraftsWait'
  <2>1. /\ queued' = queued \/ (queued' \subseteq queued \cup {k} /\ k \in waiting')
        /\ waiting \subseteq waiting' /\ UNCHANGED run
    BY <1>3 DEF Enqueue
  <2> QED
    BY <2>1 DEF DraftsWait
<1>4. ASSUME NEW k \in Messages, Age(k) PROVE DraftsWait'
  BY <1>4 DEF Age, DraftsWait
<1>5. ASSUME NEW f \in Flushes, Start(f) PROVE DraftsWait'
  <2>1. GoOn(f, waiting, waiting, old \cap waiting, {}, entry)
    BY <1>5 DEF Start
  <2>2. run[f].before = {}
    BY <1>5 DEF Start, TypeBooks, Books, Idle
  <2> QED
    BY <1>5, <2>1, <2>2, StartGoesOn, GoOnDrafts
<1>6. ASSUME NEW f \in Flushes, Reach(f) PROVE DraftsWait'
  <2>1. PICK S \in SUBSET Peers :
          run' = [run EXCEPT ![f] = [run[f] EXCEPT !.phase = "sending", !.open = S]]
    BY <1>0, <1>6, ReachRun
  <2>2. \A g \in Flushes : run'[g].before = run[g].before
    BY <1>0, <2>1 DEF TypeOK, Run
  <2> QED
    BY <1>6, <2>2 DEF Reach, DraftsWait
<1>7. ASSUME NEW f \in Flushes, NEW S \in SUBSET Peers, Try(f, S) PROVE DraftsWait'
  <2> DEFINE taken == {p \in S : link[p] = "ready"}
  <2>1. run' = [run EXCEPT ![f] = [run[f] EXCEPT !.open = @ \ S, !.to = @ \cup taken,
                                                 !.held = @ \cup (S \ taken)]]
    BY <1>0, <1>7, TryRun
  <2>2. \A g \in Flushes : run'[g].before = run[g].before
    BY <1>0, <2>1 DEF TypeOK, Run
  <2> QED
    BY <1>7, <2>2 DEF Try, DraftsWait
<1>8. ASSUME NEW f \in Flushes, Settle(f) PROVE DraftsWait'
  BY <1>8, SettleGoesOn, GoOnDrafts
<1>9. CASE UNCHANGED vars
  BY <1>9 DEF vars, DraftsWait
<1> QED
  BY <1>1, <1>2a, <1>2b, <1>3, <1>4, <1>5, <1>6, <1>7, <1>8, <1>9 DEF Next, Step

(* A bubble looks like a draft only while its entry waits or a flush that  *)
(* found it waiting still runs, and will see that it is gone.              *)
THEOREM DraftsAlwaysWait == Spec => []DraftsWait
<1>1. Init => DraftsWait
  BY DEF Init, DraftsWait
<1>2. TypeBooks /\ DraftsWait /\ [Next]_vars => (TypeBooks /\ DraftsWait)'
  BY TypeBooksStep, DraftsStep
<1> QED
  BY <1>1, <1>2, TypeBooksInit, PTL DEF Spec

----------------------------------------------------------------------------
(* Nobody is sent a message twice, or one that is not for them, while one  *)
(* flush runs at a time.                                                   *)

(* A message that waits and that no flush is trying: those it waits for    *)
(* have not got it; when it waits for everyone, nobody has.                *)
Fresh(m) ==
  (m \in waiting \/ stage[m] = "sealing") /\ (\A f \in Flushes : m \notin run[f].msg) =>
    /\ got[m] \cap entry[m].targets = {}
    /\ entry[m].targets = {} => m \notin Private /\ got[m] = {}

(* The peers of an attempt: those still to do, done and held are apart,    *)
(* and who got the message from it is known.                               *)
Apart(r) ==
  /\ r.open \cap r.to = {} /\ r.open \cap r.held = {} /\ r.to \cap r.held = {}
  /\ r.asked # {} => r.open \subseteq r.asked
Reached(r, m) ==
  IF r.asked = {} THEN m \notin Private /\ got[m] = r.to ELSE got[m] \cap r.asked = r.to

Whom(m) ==
  /\ got[m] \subseteq meant[m] /\ entry[m].targets \subseteq meant[m]
  /\ stage[m] \in {"new", "chosen"} => entry[m].targets = {} /\ got[m] = {}
  /\ stage[m] # "new" => meant[m] # {} \/ m \notin Private
  /\ m \notin Private /\ stage[m] # "new" => meant[m] = Peers

Loop(f) ==
  /\ run[f].rest \cup run[f].msg \subseteq waiting /\ run[f].rest \cap run[f].msg = {}
  /\ Apart(run[f])
  /\ \A m \in run[f].msg : Reached(run[f], m)

Tidy ==
  ~overlap => /\ again = {}
              /\ \A m \in Messages : Fresh(m) /\ Whom(m)
              /\ \A f \in Flushes : Loop(f)

LEMMA GoOnRun ==
  ASSUME TypeBooks, NEW f \in Flushes, NEW S, NEW before, NEW late, NEW done, NEW e,
         GoesOn(f, S, before, late, done, e),
         GoOn(f, S, before, late, done, e)
  PROVE  /\ waiting' \subseteq waiting \ done
         /\ \/ run'[f] = Idle
            \/ /\ run'[f].to = {} /\ run'[f].open = {} /\ run'[f].held = {}
               /\ run'[f].rest \cup run'[f].msg \subseteq S
               /\ run'[f].rest \cap run'[f].msg = {}
               /\ (S \cap waiting) \ done \subseteq waiting' \cup (S \ (run'[f].rest \cup run'[f].msg))
         /\ UNCHANGED <<again, stage, meant, got>>
<1> DEFINE T == Tried(S, late)
           D == Dropped(S, late)
           r == [Idle EXCEPT !.phase = "opening", !.before = before, !.late = late,
                              !.msg = T, !.rest = S \ (D \cup T),
                              !.asked = UNION {e[m].targets : m \in T},
                              !.each = \A m \in T : e[m].targets # {} /\ ~e[m].only]
<1>1. T \subseteq S /\ D \subseteq S
  BY DEF Tried, Dropped
<1>2. T \cap D = {}
  BY DEF Tried, Dropped
<1> HIDE DEF T, D
<1>3. r.to = {} /\ r.open = {} /\ r.held = {} /\ r.msg = T /\ r.rest = S \ (D \cup T)
  BY DEF Idle
<1> HIDE DEF r
<1>4. /\ run' = [run EXCEPT ![f] = Idle] \/ run' = [run EXCEPT ![f] = r]
      /\ waiting' = waiting \ (D \cup done)
      /\ UNCHANGED <<again, stage, meant, got>>
  BY DEF GoOn, T, D, r
<1>5. run'[f] = Idle \/ run'[f] = r
  BY <1>4 DEF TypeBooks, TypeOK
<1> QED
  BY <1>1, <1>2, <1>3, <1>4, <1>5

(* The loop goes on, and the entries it leaves know whom they wait for.    *)
LEMMA GoOnTidy ==
  ASSUME Good, NEW f \in Flushes, NEW S, NEW before, NEW late, NEW done, NEW e,
         GoesOn(f, S, before, late, done, e),
         GoOn(f, S, before, late, done, e),
         again = {}, S \cap done = {}, S \subseteq waiting,
         \A g \in Flushes \ {f} : run[g] = Idle,
         \A m \in Messages :
           /\ Whom(m)
           /\ e[m].targets \subseteq entry[m].targets \/ m \notin Private
           /\ stage[m] \in {"new", "chosen"} => e[m].targets = {}
           /\ m \in waiting \ done \/ stage[m] = "sealing" =>
                /\ got[m] \cap e[m].targets = {}
                /\ e[m].targets = {} => m \notin Private /\ got[m] = {}
  PROVE  Tidy'
<1>0. TypeBooks /\ TypeOK
  BY DEF Good, TypeBooks
<1>1. /\ \A g \in Flushes \ {f} : run'[g] = Idle
      /\ \/ run'[f] = Idle
         \/ /\ run'[f].msg \subseteq Messages
            /\ \A m \in run'[f].msg : m \in S /\ run'[f].asked = e[m].targets
      /\ \A m \in Messages : entry'[m].targets = e[m].targets
  BY <1>0, GoOnEffect
<1>2. /\ waiting' \subseteq waiting \ done
      /\ \/ run'[f] = Idle
         \/ /\ run'[f].to = {} /\ run'[f].open = {} /\ run'[f].held = {}
            /\ run'[f].rest \cup run'[f].msg \subseteq S
            /\ run'[f].rest \cap run'[f].msg = {}
            /\ (S \cap waiting) \ done \subseteq waiting' \cup (S \ (run'[f].rest \cup run'[f].msg))
      /\ UNCHANGED <<again, stage, meant, got>>
  BY <1>0, GoOnRun
<1>3. ASSUME NEW m \in Messages PROVE Fresh(m)' /\ Whom(m)'
  <2>1. Fresh(m)'
    BY <1>1, <1>2 DEF Fresh
  <2>2. entry'[m].targets \subseteq meant[m]
    <3>1. CASE m \in Private
      BY <1>1, <3>1 DEF Whom
    <3>2. CASE m \notin Private
      <4>1. e[m].targets \subseteq Peers
        BY DEF GoesOn, Entry
      <4> QED
        BY <1>1, <3>2, <4>1 DEF Whom
    <3> QED
      BY <3>1, <3>2
  <2>3. Whom(m)'
    BY <1>1, <1>2, <2>2 DEF Whom
  <2> QED
    BY <2>1, <2>3
<1>4. ASSUME NEW g \in Flushes PROVE Loop(g)'
  <2>1. CASE run'[g] = Idle
    BY <2>1 DEF Loop, Apart, Idle
  <2>2. CASE g = f /\ run'[f] # Idle
    <3>1. run'[f].rest \cup run'[f].msg \subseteq waiting'
      BY <1>2, <2>2
    <3>2. Apart(run'[f])
      BY <1>2, <2>2 DEF Apart
    <3>3. ASSUME NEW m \in run'[f].msg PROVE Reached(run[f], m)'
      <4>1. m \in Messages /\ m \in S /\ run'[f].asked = e[m].targets /\ run'[f].to = {}
        BY <1>1, <1>2, <2>2
      <4>2. m \in waiting \ done
        BY <4>1
      <4> QED
        BY <1>2, <4>1, <4>2 DEF Reached
    <3> QED
      BY <1>2, <2>2, <3>1, <3>2, <3>3 DEF Loop, Apart
  <2> QED
    BY <1>1, <2>1, <2>2
<1> QED
  BY <1>2, <1>3, <1>4 DEF Tidy

LEMMA SettleTidy ==
  ASSUME Good, Tidy, NEW f \in Flushes, Settle(f)
  PROVE  Tidy'
<1>0. TypeBooks /\ TypeOK
  BY DEF Good, TypeBooks
<1>1. /\ GoesOn(f, run[f].rest, run[f].before, run[f].late, Done(f), After(f))
      /\ GoOn(f, run[f].rest, run[f].before, run[f].late, Done(f), After(f))
      /\ overlap' = overlap
  BY <1>0, SettleGoesOn
<1>2. CASE overlap
  BY <1>1, <1>2 DEF Tidy
<1>3. CASE ~overlap
  <2>1. run[f] # Idle /\ run[f].open = {}
    BY DEF Settle, Idle
  <2>2. \A g \in Flushes \ {f} : run[g] = Idle
    BY <1>3, <2>1 DEF Good, Alone
  <2>3. /\ again = {} /\ Loop(f) /\ \A m \in Messages : Fresh(m) /\ Whom(m)
    BY <1>3 DEF Tidy
  <2>4. run[f].rest \cap Done(f) = {} /\ run[f].rest \subseteq waiting
    BY <2>3 DEF Loop, Done
  <2>5. \A m \in Messages :
          After(f)[m].targets = IF m \in run[f].msg THEN Left(run[f], entry[m]).targets
                                                    ELSE entry[m].targets
    BY DEF After
  <2>6. \A m \in run[f].msg : stage[m] = "done" /\ entry[m].targets = run[f].asked
    BY <1>0, <1>3 DEF TypeBooks, Books, Good, Aims
  <2>7. ASSUME NEW m \in Messages
        PROVE  /\ Whom(m)
               /\ After(f)[m].targets \subseteq entry[m].targets \/ m \notin Private
               /\ stage[m] \in {"new", "chosen"} => After(f)[m].targets = {}
               /\ m \in waiting \ Done(f) \/ stage[m] = "sealing" =>
                    /\ got[m] \cap After(f)[m].targets = {}
                    /\ After(f)[m].targets = {} => m \notin Private /\ got[m] = {}
    <3>1. CASE m \notin run[f].msg
      <4>1. \A g \in Flushes : m \notin run[g].msg
        BY <2>2, <3>1 DEF Idle
      <4> QED
        BY <2>3, <2>5, <3>1, <4>1 DEF Fresh, Whom, Done
    <3>2. CASE m \in run[f].msg
      <4>1. stage[m] = "done" /\ entry[m].targets = run[f].asked /\ Reached(run[f], m)
            /\ run[f].to \cap run[f].held = {}
        BY <2>3, <2>6, <3>2 DEF Loop, Apart
      <4>2. CASE run[f].asked # {}
        <5>1. Left(run[f], entry[m]).targets = entry[m].targets \ run[f].to
          BY <1>0, <4>2 DEF Left, TypeOK, Entry
        <5>2. m \notin Done(f) => ~(entry[m].targets \subseteq run[f].to)
          BY <3>2, <4>2 DEF Done, Counts
        <5> QED
          BY <2>3, <2>5, <3>2, <4>1, <4>2, <5>1, <5>2 DEF Reached
      <4>3. CASE run[f].asked = {}
        <5>1. m \notin Private /\ got[m] = run[f].to
          BY <4>1, <4>3 DEF Reached
        <5>2. Left(run[f], entry[m]).targets =
                IF run[f].to # {} /\ run[f].held # {} THEN run[f].held ELSE entry[m].targets
          <6>1. [entry[m] EXCEPT !.targets = run[f].held, !.only = TRUE].targets = run[f].held
            BY <1>0 DEF TypeOK, Entry
          <6> QED
            BY <4>3, <6>1 DEF Left
        <5>3. m \notin Done(f) => run[f].to = {} \/ run[f].held # {}
          BY <3>2, <4>3 DEF Done, Counts
        <5> QED
          BY <2>3, <2>5, <3>2, <4>1, <4>3, <5>1, <5>2, <5>3
      <4> QED
        BY <4>2, <4>3
    <3> QED
      BY <3>1, <3>2
  <2> QED
    BY <1>1, <2>2, <2>3, <2>4, <2>7, GoOnTidy
<1> QED
  BY <1>2, <1>3

LEMMA StartTidy ==
  ASSUME Good, Tidy, NEW f \in Flushes, Start(f)
  PROVE  Tidy'
<1>0. TypeBooks /\ TypeOK
  BY DEF Good, TypeBooks
<1>1. /\ GoOn(f, waiting, waiting, old \cap waiting, {}, entry)
      /\ GoesOn(f, waiting, waiting, old \cap waiting, {}, entry)
      /\ overlap' = (overlap \/ \E g \in Flushes : run[g].phase # "idle")
  BY <1>0, StartGoesOn DEF Start
<1>2. CASE overlap'
  BY <1>2 DEF Tidy
<1>3. CASE ~overlap'
  <2>1. ~overlap /\ \A g \in Flushes : run[g] = Idle
    BY <1>0, <1>1, <1>3 DEF TypeBooks, Books
  <2>2. again = {} /\ \A m \in Messages : Fresh(m) /\ Whom(m)
    BY <2>1 DEF Tidy
  <2>3. \A g \in Flushes : run[g].msg = {}
    BY <2>1 DEF Idle
  <2>4. \A m \in Messages :
          /\ Whom(m)
          /\ entry[m].targets \subseteq entry[m].targets \/ m \notin Private
          /\ stage[m] \in {"new", "chosen"} => entry[m].targets = {}
          /\ m \in waiting \ {} \/ stage[m] = "sealing" =>
               /\ got[m] \cap entry[m].targets = {}
               /\ entry[m].targets = {} => m \notin Private /\ got[m] = {}
    BY <2>2, <2>3 DEF Fresh, Whom
  <2>5. \A g \in Flushes \ {f} : run[g] = Idle
    BY <2>1
  <2> HIDE <1>3
  <2> QED
    BY <1>1, <2>2, <2>4, <2>5, GoOnTidy
<1> QED
  BY <1>2, <1>3

LEMMA TryTidy ==
  ASSUME Good, Tidy, NEW f \in Flushes, NEW S \in SUBSET Peers, Try(f, S)
  PROVE  Tidy'
<1> DEFINE taken == {p \in S : link[p] = "ready"}
<1>0. TypeBooks /\ TypeOK
  BY DEF Good, TypeBooks
<1>1. /\ run[f].phase = "sending" /\ S \subseteq run[f].open
      /\ run' = [run EXCEPT ![f] = [run[f] EXCEPT !.open = @ \ S, !.to = @ \cup taken,
                                                 !.held = @ \cup (S \ taken)]]
  BY <1>0, TryRun
<1>2. run[f] \in Run /\ run[f] # Idle
  BY <1>0, <1>1 DEF TypeOK, Idle
<1>3. /\ \A g \in Flushes \ {f} : run'[g] = run[g]
      /\ run'[f].msg = run[f].msg /\ run'[f].asked = run[f].asked /\ run'[f].rest = run[f].rest
      /\ run'[f].open = run[f].open \ S /\ run'[f].to = run[f].to \cup taken
      /\ run'[f].held = run[f].held \cup (S \ taken)
  BY <1>0, <1>1, <1>2 DEF TypeOK, Run
<1>4. UNCHANGED <<stage, entry, waiting, meant, overlap>>
  BY DEF Try
<1>5. /\ \A m \in Messages : got'[m] = IF m \in run[f].msg THEN got[m] \cup taken ELSE got[m]
      /\ again' = again \cup {m \in run[f].msg : got[m] \cap taken # {}}
  BY DEF Try
<1>6. taken \subseteq S
  OBVIOUS
<1> HIDE DEF taken
<1>7. CASE overlap
  BY <1>4, <1>7 DEF Tidy
<1>8. CASE ~overlap
  <2>1. again = {} /\ Loop(f) /\ \A m \in Messages : Fresh(m) /\ Whom(m)
    BY <1>8 DEF Tidy
  <2>2. \A g \in Flushes \ {f} : run[g] = Idle
    BY <1>2, <1>8 DEF Good, Alone
  <2>3. ASSUME NEW m \in run[f].msg
        PROVE  /\ m \in Messages /\ m \in waiting /\ stage[m] = "done"
               /\ entry[m].targets = run[f].asked /\ Reached(run[f], m)
    BY <1>0, <1>8, <2>1 DEF TypeBooks, Books, Good, Aims, Loop, Placed
  <2>4. ASSUME NEW m \in run[f].msg PROVE got[m] \cap taken = {} /\ taken \subseteq meant[m]
    <3>1. /\ run[f].open \cap run[f].to = {}
          /\ run[f].asked # {} => run[f].open \subseteq run[f].asked
      BY <2>1 DEF Loop, Apart
    <3>2. CASE run[f].asked = {}
      <4>1. m \notin Private /\ got[m] = run[f].to
        BY <2>3, <3>2 DEF Reached
      <4>2. meant[m] = Peers
        BY <2>1, <2>3, <4>1 DEF Whom
      <4> QED
        BY <1>1, <1>6, <3>1, <4>1, <4>2
    <3>3. CASE run[f].asked # {}
      <4>1. got[m] \cap run[f].asked = run[f].to
        BY <2>3, <3>3 DEF Reached
      <4>2. run[f].asked \subseteq meant[m]
        BY <2>1, <2>3 DEF Whom
      <4> QED
        BY <1>1, <1>6, <3>1, <3>3, <4>1, <4>2
    <3> QED
      BY <3>2, <3>3
  <2>5. again' = {}
    BY <1>5, <2>1, <2>4
  <2>6. ASSUME NEW m \in Messages PROVE Fresh(m)' /\ Whom(m)'
    <3>1. Fresh(m)'
      <4>1. CASE m \in run[f].msg
        BY <1>3, <4>1 DEF Fresh
      <4>2. CASE m \notin run[f].msg
        <5>1. \A g \in Flushes : m \notin run[g].msg
          BY <2>2, <4>2 DEF Idle
        <5> QED
          BY <1>4, <1>5, <2>1, <4>2, <5>1 DEF Fresh
      <4> QED
        BY <4>1, <4>2
    <3>2. Whom(m)'
      BY <1>4, <1>5, <2>1, <2>3, <2>4 DEF Whom
    <3> QED
      BY <3>1, <3>2
  <2>7. ASSUME NEW g \in Flushes PROVE Loop(g)'
    <3>1. CASE g # f
      <4>1. run'[g] = Idle
        BY <1>3, <2>2, <3>1
      <4> QED
        BY <4>1 DEF Loop, Apart, Idle
    <3>2. CASE g = f
      <4>1. Apart(run'[f])
        BY <1>1, <1>3, <1>6, <2>1 DEF Loop, Apart
      <4>2. ASSUME NEW m \in run[f].msg PROVE Reached(run[f], m)'
        <5>1. got'[m] = got[m] \cup taken
          BY <1>5, <2>3
        <5>2. run[f].asked # {} => taken \subseteq run[f].asked
          BY <1>1, <1>6, <2>1 DEF Loop, Apart
        <5> QED
          BY <1>3, <2>3, <5>1, <5>2 DEF Reached
      <4> QED
        BY <1>3, <1>4, <2>1, <3>2, <4>1, <4>2 DEF Loop, Apart
    <3> QED
      BY <3>1, <3>2
  <2> QED
    BY <2>5, <2>6, <2>7 DEF Tidy
<1> QED
  BY <1>7, <1>8

LEMMA ChooseTidy ==
  ASSUME Good, Tidy, NEW k \in Messages, NEW S \in SUBSET Peers, Choose(k, S)
  PROVE  Tidy'
<1>0. TypeBooks /\ TypeOK
  BY DEF Good, TypeBooks
<1>1. /\ stage[k] = "new" /\ stage'[k] = "chosen" /\ meant'[k] = S
      /\ \A m \in Messages \ {k} : meant'[m] = meant[m] /\ stage'[m] = stage[m]
      /\ UNCHANGED <<run, waiting, entry, got, again, overlap>>
      /\ k \in Private => S # {}
      /\ k \notin Private => S = Peers
  BY <1>0 DEF Choose, TypeOK
<1>2. waiting \subseteq Messages \ {k}
  BY <1>0, <1>1 DEF TypeBooks, Books, Placed
<1>3. CASE overlap
  BY <1>1, <1>3 DEF Tidy
<1>4. CASE ~overlap
  <2>1. again = {} /\ \A m \in Messages : Fresh(m) /\ Whom(m)
    BY <1>4 DEF Tidy
  <2>2. \A f \in Flushes : Loop(f)'
    BY <1>1, <1>4 DEF Tidy, Loop, Apart, Reached
  <2>3. ASSUME NEW m \in Messages \ {k} PROVE Fresh(m)' /\ Whom(m)'
    BY <1>1, <2>1, <2>3 DEF Fresh, Whom
  <2>4. Fresh(k)' /\ Whom(k)'
    <3>1. entry[k].targets = {} /\ got[k] = {}
      BY <1>1, <2>1 DEF Whom
    <3> QED
      BY <1>1, <1>2, <3>1 DEF Fresh, Whom
  <2> QED
    BY <1>1, <2>1, <2>2, <2>3, <2>4 DEF Tidy
<1> QED
  BY <1>3, <1>4

LEMMA DeliverTidy ==
  ASSUME Good, Tidy, NEW k \in Messages, Deliver(k)
  PROVE  Tidy'
<1> DEFINE S == meant[k]
<1>0. TypeBooks /\ TypeOK
  BY DEF Good, TypeBooks
<1>1. /\ stage[k] = "chosen"
      /\ \A m \in Messages \ {k} : /\ got'[m] = got[m]
                                   /\ entry'[m] = entry[m] /\ stage'[m] = stage[m]
      /\ UNCHANGED <<run, waiting, again, meant, overlap>>
      /\ got'[k] = Handed(S)
      /\ stage'[k] \in {"sealing", "done"}
  BY <1>0 DEF Deliver, TypeOK
<1>2. waiting \subseteq Messages \ {k} /\ \A f \in Flushes : run[f].msg \subseteq Messages \ {k}
  BY <1>0, <1>1 DEF TypeBooks, Books, Placed
<1>3. Handed(S) \subseteq S /\ Held(S) \subseteq S /\ Handed(S) \cap Held(S) = {}
  BY DEF Handed, Held
<1>4. CASE overlap
  BY <1>1, <1>4 DEF Tidy
<1>5. CASE ~overlap
  <2>1. again = {} /\ \A m \in Messages : Fresh(m) /\ Whom(m)
    BY <1>5 DEF Tidy
  <2>2. \A f \in Flushes : Loop(f)'
    BY <1>1, <1>2, <1>5 DEF Tidy, Loop, Apart, Reached
  <2>3. ASSUME NEW m \in Messages \ {k} PROVE Fresh(m)' /\ Whom(m)'
    BY <1>1, <2>1, <2>3 DEF Fresh, Whom
  <2>4. Fresh(k)' /\ Whom(k)'
    <3>0. (S # {} \/ k \notin Private) /\ (k \notin Private => S = Peers)
      BY <1>1, <2>1 DEF Whom
    <3>1. CASE Handed(S) # {} /\ Held(S) = {}
      <4>1. stage'[k] = "done" /\ entry'[k] = entry[k]
        BY <1>0, <3>1 DEF Deliver, TypeOK
      <4>2. entry[k].targets = {}
        BY <1>1, <2>1 DEF Whom
      <4> QED
        BY <1>1, <1>2, <1>3, <3>0, <4>1, <4>2 DEF Fresh, Whom
    <3>2. CASE ~(Handed(S) # {} /\ Held(S) = {})
      <4>1. entry'[k] = EntryFor(S, k \notin Private)
        BY <1>0, <3>2 DEF Deliver, TypeOK
      <4>2. entry'[k].targets = IF Handed(S) = {} THEN IF k \notin Private THEN {} ELSE S
                                                  ELSE Held(S)
        BY <4>1 DEF EntryFor, NoEntry
      <4> QED
        BY <1>1, <1>3, <3>0, <3>2, <4>2 DEF Fresh, Whom
    <3> QED
      BY <3>1, <3>2
  <2> QED
    BY <1>1, <2>1, <2>2, <2>3, <2>4 DEF Tidy
<1> QED
  BY <1>4, <1>5

LEMMA TidyStep == Good /\ Tidy /\ [Next]_vars => Tidy'
<1> SUFFICES ASSUME Good, Tidy, [Next]_vars PROVE Tidy'
  OBVIOUS
<1>0. TypeBooks /\ TypeOK
  BY DEF Good, TypeBooks
<1>1. CASE \E p \in Peers : OpenChannel(p) \/ SessionReady(p) \/ \E l \in {"closed", "open"} : Lose(p, l)
  <2>1. UNCHANGED Page
    BY <1>1 DEF OpenChannel, SessionReady, Lose
  <2> QED
    BY <2>1 DEF Page, Tidy, Fresh, Whom, Loop, Apart, Reached
<1>2a. ASSUME NEW k \in Messages, NEW S \in SUBSET Peers, Choose(k, S) PROVE Tidy'
  BY <1>2a, ChooseTidy
<1>2b. ASSUME NEW k \in Messages, Deliver(k) PROVE Tidy'
  BY <1>2b, DeliverTidy
<1>3. ASSUME NEW k \in Messages, Enqueue(k) PROVE Tidy'
  <2>1. /\ \A m \in Messages : entry'[m].targets = entry[m].targets
        /\ \A m \in Messages : stage'[m] = "new" <=> stage[m] = "new"
        /\ \A m \in Messages : stage'[m] = "chosen" <=> stage[m] = "chosen"
        /\ \A m \in Messages : stage'[m] = "sealing" => stage[m] = "sealing"
        /\ waiting \subseteq waiting' /\ waiting' \subseteq waiting \cup {k}
        /\ stage[k] = "sealing"
        /\ UNCHANGED <<run, overlap, got, meant, again>>
    BY <1>0, <1>3 DEF Enqueue, TypeOK, Entry
  <2>2. \A f \in Flushes : run[f].msg \subseteq Messages
    BY <1>0 DEF TypeBooks, Books, Placed
  <2>3. ASSUME ~overlap, NEW m \in Messages PROVE Fresh(m)' /\ Whom(m)'
    <3>1. Fresh(m) /\ Whom(m)
      BY <2>3 DEF Tidy
    <3> QED
      BY <2>1, <3>1 DEF Fresh, Whom
  <2>4. ASSUME ~overlap, NEW f \in Flushes PROVE Loop(f)'
    <3>1. Loop(f)
      BY <2>4 DEF Tidy
    <3> QED
      BY <2>1, <3>1 DEF Loop, Apart, Reached
  <2> QED
    BY <2>1, <2>3, <2>4 DEF Tidy
<1>4. ASSUME NEW k \in Messages, Age(k) PROVE Tidy'
  BY <1>4 DEF Age, Tidy, Fresh, Whom, Loop, Apart, Reached
<1>5. ASSUME NEW f \in Flushes, Start(f) PROVE Tidy'
  BY <1>5, StartTidy
<1>6. ASSUME NEW f \in Flushes, Reach(f) PROVE Tidy'
  <2> DEFINE all == IF run[f].asked = {} THEN Peers ELSE run[f].asked
             open == {p \in all : link[p] # "closed"}
  <2>1. /\ run[f] \in Run /\ run[f].phase = "opening" /\ run[f] # Idle
        /\ UNCHANGED <<stage, entry, waiting, got, again, meant, missed, overlap>>
    BY <1>0, <1>6 DEF TypeOK, Reach, Idle
  <2>2. run' = [run EXCEPT ![f] = [run[f] EXCEPT !.phase = "sending", !.open = open]]
    BY <1>0, <1>6 DEF Reach, TypeOK, Run
  <2>3. open \subseteq all
    OBVIOUS
  <2> HIDE DEF open
  <2>4. /\ \A g \in Flushes \ {f} : run'[g] = run[g]
        /\ run'[f].msg = run[f].msg /\ run'[f].asked = run[f].asked /\ run'[f].rest = run[f].rest
        /\ run'[f].to = run[f].to /\ run'[f].held = run[f].held /\ run'[f].open = open
    BY <1>0, <2>1, <2>2 DEF TypeOK, Run
  <2>5. CASE overlap
    BY <2>1, <2>5 DEF Tidy
  <2>6. CASE ~overlap
    <3>1. \A m \in Messages : Fresh(m)' /\ Whom(m)'
      <4>1. \A g \in Flushes : run'[g].msg = run[g].msg
        BY <2>4
      <4> QED
        BY <2>1, <2>6, <4>1 DEF Tidy, Fresh, Whom
    <3>2. run[f].to = {} /\ run[f].held = {}
      BY <1>0, <2>1 DEF TypeBooks, Books
    <3>3. ASSUME NEW g \in Flushes PROVE Loop(g)'
      <4>1. Loop(g)
        BY <2>6 DEF Tidy
      <4>2. CASE g # f
        BY <2>1, <2>4, <4>1, <4>2 DEF Loop, Apart, Reached
      <4>3. CASE g = f
        <5>1. Apart(run'[f])
          BY <2>3, <2>4, <3>2 DEF Apart
        <5> QED
          BY <2>1, <2>4, <4>1, <4>3, <5>1 DEF Loop, Apart, Reached
      <4> QED
        BY <4>2, <4>3
    <3> QED
      BY <2>1, <2>6, <3>1, <3>3 DEF Tidy
  <2> QED
    BY <2>5, <2>6
<1>7. ASSUME NEW f \in Flushes, NEW S \in SUBSET Peers, Try(f, S) PROVE Tidy'
  BY <1>7, TryTidy
<1>8. ASSUME NEW f \in Flushes, Settle(f) PROVE Tidy'
  BY <1>8, SettleTidy
<1>9. CASE UNCHANGED vars
  BY <1>9 DEF vars, Tidy, Fresh, Whom, Loop, Apart, Reached
<1> QED
  BY <1>1, <1>2a, <1>2b, <1>3, <1>4, <1>5, <1>6, <1>7, <1>8, <1>9 DEF Next, Step

(* As long as no flush starts while another one runs, nobody is handed a   *)
(* message twice, and nobody one that is not for them.                     *)
THEOREM AlwaysOnceWhileAlone == Spec => []OnceWhileAlone
<1>1. Init => Tidy
  <2> SUFFICES ASSUME Init PROVE Tidy
    OBVIOUS
  <2>1. \A f \in Flushes : Loop(f)
    BY DEF Init, Loop, Apart, Idle
  <2>2. \A m \in Messages : Fresh(m) /\ Whom(m)
    BY DEF Init, Fresh, Whom, NoEntry
  <2> QED
    BY <2>1, <2>2 DEF Init, Tidy
<1>2. Good /\ Tidy /\ [Next]_vars => (Good /\ Tidy)'
  BY GoodStep, TidyStep
<1>3. Tidy => OnceWhileAlone
  BY DEF Tidy, Whom, OnceWhileAlone
<1> QED
  BY <1>1, <1>2, <1>3, GoodInit, PTL DEF Spec

=============================================================================
