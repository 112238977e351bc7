----------------------------- MODULE ReminderBook ------------------------------
(***************************************************************************)
(* What the reminder service promises, whatever overlaps, fails or crashes *)
(* inside it: a book of alarms that rings at least once.                   *)
(*                                                                         *)
(* A row of the book counts the firings it has recorded.  A tick takes     *)
(* rows out, and while one of its copies is loose the row may be notified, *)
(* recorded or struck out, however the row itself has fared meanwhile.     *)
(* The book never records a firing that nobody was notified of, and a row  *)
(* that is struck out with no copy of it loose stays out.                  *)
(***************************************************************************)
EXTENDS Integers, TLAPS

CONSTANT Ids

VARIABLES
  stored,    \* ids in the book
  fires,     \* firings recorded in the row of an id, 0 if it has none
  sent,      \* notifications sent, per id
  loose      \* ids of which a running tick holds a copy

vars == <<stored, fires, sent, loose>>

Init ==
  /\ stored = {}
  /\ fires = [i \in Ids |-> 0]
  /\ sent = [i \in Ids |-> 0]
  /\ loose = {}

\* A client enters i, or enters it afresh.
Accept(i) ==
  /\ stored' = stored \union {i}
  /\ fires' = [fires EXCEPT ![i] = 0]
  /\ UNCHANGED <<sent, loose>>

\* A client strikes i out, by a delete or an acknowledgement.
Withdraw(i) ==
  /\ stored' = stored \ {i}
  /\ fires' = [fires EXCEPT ![i] = 0]
  /\ UNCHANGED <<sent, loose>>

\* A tick takes out copies of the rows of S.
Take(S) ==
  /\ loose' = loose \union S
  /\ UNCHANGED <<stored, fires, sent>>

\* Ticks end, or the process dies.
Release ==
  /\ loose' \subseteq loose
  /\ UNCHANGED <<stored, fires, sent>>

\* The target of a loose copy is notified.  The tick may fail at once.
Notify(i) ==
  /\ sent' = [sent EXCEPT ![i] = @ + 1]
  /\ loose' \subseteq loose
  /\ UNCHANGED <<stored, fires>>

\* Another tick may hold a second copy of i.
HandIn(i) == loose' \in {loose, loose \ {i}}

\* A tick records the firings its copy has counted.
Record(i, n) ==
  /\ stored' = stored \union {i}
  /\ fires' = [fires EXCEPT ![i] = n]
  /\ HandIn(i)
  /\ UNCHANGED sent

\* A tick strikes i out: it has expired, or will not fire again.
Finish(i) ==
  /\ stored' = stored \ {i}
  /\ fires' = [fires EXCEPT ![i] = 0]
  /\ HandIn(i)
  /\ UNCHANGED sent

Next ==
  \/ \E i \in Ids : Accept(i)
  \/ \E i \in stored : Withdraw(i)
  \/ \E S \in SUBSET stored : Take(S)
  \/ Release
  \/ \E i \in loose : Notify(i)
  \/ \E i \in loose : \E n \in 1 .. sent[i] : Record(i, n)
  \/ \E i \in loose : Finish(i)

Spec == Init /\ [][Next]_vars

-------------------------------------------------------------------------------
TypeOK ==
  /\ stored \subseteq Ids
  /\ fires \in [Ids -> Nat]
  /\ sent \in [Ids -> Nat]
  /\ loose \subseteq Ids

\* A firing is recorded only after its notification was sent.
AtLeastOnce == \A i \in Ids : fires[i] <= sent[i]

\* Of a reminder that is neither in the book nor loose nobody hears again, unless a
\* client enters it afresh with no firing recorded.
Silent ==
  [][\A i \in Ids : i \notin stored \union loose =>
        /\ sent'[i] = sent[i]
        /\ i \notin loose'
        /\ i \in stored' => fires'[i] = 0]_vars

-------------------------------------------------------------------------------
(* Proofs: both promises are inductive once the types are known.           *)

BookInv == TypeOK /\ AtLeastOnce

LEMMA BookInit == Init => BookInv
BY DEF Init, BookInv, TypeOK, AtLeastOnce

LEMMA BookNext == BookInv /\ [Next]_vars => BookInv'
<1> SUFFICES ASSUME BookInv, [Next]_vars
             PROVE  BookInv'
  OBVIOUS
<1> USE DEF BookInv, TypeOK, AtLeastOnce
<1>1. ASSUME NEW i \in Ids, Accept(i) \/ Withdraw(i) \/ Finish(i)
      PROVE  BookInv'
  BY <1>1 DEF Accept, Withdraw, Finish, HandIn
<1>2. ASSUME NEW S \in SUBSET stored, Take(S)
      PROVE  BookInv'
  BY <1>2 DEF Take
<1>3. ASSUME Release
      PROVE  BookInv'
  BY <1>3 DEF Release
<1>4. ASSUME NEW i \in loose, Notify(i)
      PROVE  BookInv'
  <2>1. i \in Ids /\ sent[i] + 1 \in Nat
    OBVIOUS
  <2>2. \A j \in Ids : sent'[j] = IF j = i THEN sent[j] + 1 ELSE sent[j]
    BY <1>4 DEF Notify
  <2>3. AtLeastOnce'
    BY <1>4, <2>2 DEF Notify
  <2>4. QED
    BY <1>4, <2>1, <2>3 DEF Notify
<1>5. ASSUME NEW i \in loose, NEW n \in 1 .. sent[i], Record(i, n)
      PROVE  BookInv'
  <2>1. i \in Ids /\ n \in Nat /\ n <= sent[i]
    OBVIOUS
  <2>2. QED
    BY <1>5, <2>1 DEF Record, HandIn
<1>6. CASE UNCHANGED vars
  BY <1>6 DEF vars
<1>7. QED
  BY <1>1, <1>2, <1>3, <1>4, <1>5, <1>6 DEF Next

\* The book never holds a firing that was not sent, for any set of ids.
THEOREM BookRingsFirst == Spec => []AtLeastOnce
<1>1. BookInv => AtLeastOnce
  BY DEF BookInv
<1>2. QED
  BY <1>1, BookInit, BookNext, PTL DEF Spec

\* A reminder that is neither in the book nor loose is silent until it is entered
\* afresh.
THEOREM BookSilence == Spec => Silent
<1> DEFINE Quiet(i) == i \notin stored \union loose =>
                         /\ sent'[i] = sent[i]
                         /\ i \notin loose'
                         /\ i \in stored' => fires'[i] = 0
<1>1. TypeOK /\ [Next]_vars => [\A i \in Ids : Quiet(i)]_vars
  <2> SUFFICES ASSUME TypeOK, Next, NEW i \in Ids, i \notin stored \union loose
               PROVE  /\ sent'[i] = sent[i]
                      /\ i \notin loose'
                      /\ i \in stored' => fires'[i] = 0
    OBVIOUS
  <2> USE DEF TypeOK
  <2>1. ASSUME NEW j \in Ids, Accept(j) \/ (j \in stored /\ Withdraw(j))
        PROVE  /\ sent'[i] = sent[i] /\ i \notin loose'
               /\ i \in stored' => fires'[i] = 0
    BY <2>1 DEF Accept, Withdraw
  <2>2. ASSUME NEW S \in SUBSET stored, Take(S)
        PROVE  sent'[i] = sent[i] /\ i \notin loose' /\ i \notin stored'
    BY <2>2 DEF Take
  <2>3. ASSUME Release
        PROVE  sent'[i] = sent[i] /\ i \notin loose' /\ i \notin stored'
    BY <2>3 DEF Release
  <2>4. ASSUME NEW j \in loose, Notify(j)
        PROVE  sent'[i] = sent[i] /\ i \notin loose' /\ i \notin stored'
    BY <2>4 DEF Notify
  <2>5. ASSUME NEW j \in loose, NEW n \in 1 .. sent[j], Record(j, n)
        PROVE  sent'[i] = sent[i] /\ i \notin loose' /\ i \notin stored'
    BY <2>5 DEF Record, HandIn
  <2>6. ASSUME NEW j \in loose, Finish(j)
        PROVE  sent'[i] = sent[i] /\ i \notin loose' /\ i \notin stored'
    BY <2>6 DEF Finish, HandIn
  <2>7. QED
    BY <2>1, <2>2, <2>3, <2>4, <2>5, <2>6 DEF Next
<1>2. BookInv => TypeOK
  BY DEF BookInv
<1>3. Spec => []TypeOK
  BY <1>2, BookInit, BookNext, PTL DEF Spec
<1> HIDE DEF Quiet
<1>4. Spec => [][\A i \in Ids : Quiet(i)]_vars
  BY <1>1, <1>3, PTL DEF Spec
<1>5. QED
  BY <1>4 DEF Silent, Quiet
===============================================================================
