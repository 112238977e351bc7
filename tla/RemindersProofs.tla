--------------------------- MODULE RemindersProofs ----------------------------
(***************************************************************************)
(* Proofs about Reminders, for any sets of ids, users and goroutines, any  *)
(* escalation presets and any bounds.                                      *)
(***************************************************************************)
EXTENDS Reminders, FiniteSetTheorems, TLAPS

-------------------------------------------------------------------------------
(* The aggregate.                                                          *)

\* Every delay of every profile is a time (repeatDelay).
LEMMA RepeatDelayType ==
  ASSUME NEW ep \in EscalationPolicy, NEW n \in Nat
  PROVE  RepeatDelay(ep, n) \in Nat
<1>1. (n - 2) * ep.decreaseStep \in Int
  BY DEF EscalationPolicy
<1>2. QED
  BY <1>1 DEF RepeatDelay, EscalationPolicy

\* What New builds is a reminder that has not fired and is not acknowledged.
LEMMA NewType ==
  ASSUME NEW cmd \in Commands
  PROVE  /\ New(cmd) \in Reminder
         /\ New(cmd).fireCount = 0
         /\ New(cmd).acks = {}
         /\ New(cmd).targets = cmd.targets
<1>1. cmd \in Command
  BY CommandsAssumption
<1>2. QED
  BY <1>1, NeverAssumption DEF New, Command, Reminder, OptTime, ProfileNames

\* The next run of a reminder is a time or nil.
LEMMA NextRunType ==
  ASSUME NEW r \in Reminder, NEW t \in Nat
  PROVE  ComputeNextRunAt(r, t) \in OptTime
<1>1. PolicyForProfile(r.profile) \in EscalationPolicy
  BY PresetAssumption DEF PolicyForProfile, Reminder
<1>2. RepeatDelay(PolicyForProfile(r.profile), r.fireCount) \in Nat
  BY <1>1, RepeatDelayType DEF Reminder
<1>3. IsRecurring(r) => r.recurEvery \in Nat
  BY DEF IsRecurring, Reminder, OptTime
<1>4. QED
  BY <1>2, <1>3 DEF ComputeNextRunAt, OptTime

\* What Trigger changes: the fire count, the next run and, for a recurring
\* reminder, the acks.
LEMMA TriggerFacts ==
  ASSUME NEW r \in Reminder, NEW t \in Nat
  PROVE  LET f == Trigger(r, t)
         IN  /\ f \in Reminder
             /\ f.fireCount = r.fireCount + 1
             /\ f.acks \subseteq r.acks
             /\ f.targets = r.targets
             /\ f.requiresAck = r.requiresAck
             /\ f.profile = r.profile
             /\ f.recurEvery = r.recurEvery
             /\ f.nextRunAt = ComputeNextRunAt([r EXCEPT !.fireCount = @ + 1], t)
<1>1. r.fireCount + 1 \in Nat
  <2>1. r.fireCount \in Nat
    BY DEF Reminder
  <2>2. QED
    BY <2>1
<1>2. PICK n \in Nat : n = r.fireCount + 1
  BY <1>1
<1>3. PICK fired : fired = [r EXCEPT !.fireCount = n]
  OBVIOUS
<1>4. /\ fired \in Reminder
      /\ fired.fireCount = n
      /\ fired.acks = r.acks
      /\ fired.targets = r.targets
      /\ fired.requiresAck = r.requiresAck
      /\ fired.profile = r.profile
      /\ fired.recurEvery = r.recurEvery
  BY <1>3 DEF Reminder
<1>5. PICK m \in OptTime : m = ComputeNextRunAt(fired, t)
  BY <1>4, NextRunType
<1>6. PICK s \in SUBSET Users : s = IF IsRecurring(r) THEN {} ELSE fired.acks
  <2>1. fired.acks \in SUBSET Users
    BY <1>4 DEF Reminder
  <2>2. QED
    BY <2>1
<1>7. PICK f : f = [fired EXCEPT !.nextRunAt = m, !.acks = s]
  OBVIOUS
<1>8. /\ f \in Reminder
      /\ f.nextRunAt = m
      /\ f.acks = s
      /\ f.fireCount = fired.fireCount
      /\ f.targets = fired.targets
      /\ f.requiresAck = fired.requiresAck
      /\ f.profile = fired.profile
      /\ f.recurEvery = fired.recurEvery
  BY <1>4, <1>7 DEF Reminder
<1>9. s \subseteq r.acks
  BY <1>4, <1>6
<1>10. f = Trigger(r, t)
  BY <1>2, <1>3, <1>5, <1>6, <1>7, <1>4 DEF Trigger, IsRecurring
<1>11. QED
  BY <1>2, <1>3, <1>4, <1>5, <1>8, <1>9, <1>10

\* A listed row with the targets and acks of the stored one is a reminder.
LEMMA HydrateFacts ==
  ASSUME NEW row \in Reminder, NEW stored \in OptReminder
  PROVE  LET c == Hydrate(row, stored)
         IN  /\ c \in Reminder
             /\ stored = None => c.targets = {} /\ c.acks = {}
             /\ stored # None => c.targets = stored.targets /\ c.acks = stored.acks
             /\ c.fireCount = row.fireCount
             /\ InBudget(c) <=> InBudget(row)
<1>1. PICK s \in SUBSET Users : s = IF stored = None THEN {} ELSE stored.targets
  BY DEF OptReminder, Reminder
<1>2. PICK k \in SUBSET Users : k = IF stored = None THEN {} ELSE stored.acks
  BY DEF OptReminder, Reminder
<1>3. PICK c : c = [row EXCEPT !.targets = s, !.acks = k]
  OBVIOUS
<1>4. /\ c \in Reminder
      /\ c.targets = s
      /\ c.acks = k
      /\ c.fireCount = row.fireCount
      /\ c.profile = row.profile
      /\ c.requiresAck = row.requiresAck
      /\ c.recurEvery = row.recurEvery
  BY <1>3 DEF Reminder
<1>5. c = Hydrate(row, stored)
  BY <1>1, <1>2, <1>3 DEF Hydrate
<1>6. InBudget(c) <=> InBudget(row)
  BY <1>4 DEF InBudget, IsRecurring
<1>7. QED
  BY <1>1, <1>2, <1>4, <1>5, <1>6

\* An acknowledged reminder is complete.
LEMMA AcknowledgeFacts ==
  ASSUME NEW r \in Reminder, NEW u \in Users
  PROVE  /\ Acknowledge(r, u) \in Reminder
         /\ IsComplete(Acknowledge(r, u))
<1>1. PICK k \in SUBSET Users : k = r.acks \union {u}
  BY DEF Reminder
<1>2. PICK c : c = [r EXCEPT !.acks = k]
  OBVIOUS
<1>3. c \in Reminder /\ c.acks = k
  BY <1>2 DEF Reminder
<1>4. c = Acknowledge(r, u)
  BY <1>1, <1>2 DEF Acknowledge
<1>5. QED
  BY <1>1, <1>3, <1>4 DEF IsComplete

\* A triggered reminder that Tick goes on to notify has repeats left.
LEMMA TriggerBudget ==
  ASSUME NEW r \in Reminder, NEW t \in Nat, ~IsExhausted(Trigger(r, t))
  PROVE  InBudget(Trigger(r, t))
<1>1. PICK n \in Nat : n = r.fireCount + 1
  <2>1. r.fireCount \in Nat
    BY DEF Reminder
  <2>2. QED
    BY <2>1
<1>2. PICK fired : fired = [r EXCEPT !.fireCount = n]
  OBVIOUS
<1>3. /\ fired.fireCount = n
      /\ fired.requiresAck = r.requiresAck
      /\ fired.profile = r.profile
      /\ fired.recurEvery = r.recurEvery
  BY <1>2 DEF Reminder
<1>4. PICK f : f = Trigger(r, t)
  OBVIOUS
<1>5. /\ f.fireCount = fired.fireCount
      /\ f.requiresAck = fired.requiresAck
      /\ f.profile = fired.profile
      /\ f.recurEvery = fired.recurEvery
      /\ f.nextRunAt = ComputeNextRunAt(fired, t)
  BY <1>1, <1>2, <1>3, <1>4, TriggerFacts
<1>6. CASE f.requiresAck /\ ~IsRecurring(f)
  <2>1. ~(PolicyForProfile(f.profile).maxRepeats > 0
            /\ f.fireCount >= PolicyForProfile(f.profile).maxRepeats)
    BY <1>4, <1>5, <1>6 DEF IsExhausted, ComputeNextRunAt, IsRecurring
  <2>2. PolicyForProfile(f.profile).maxRepeats \in Nat
    BY <1>3, <1>5, PresetAssumption DEF PolicyForProfile, Reminder, EscalationPolicy
  <2>3. f.fireCount \in Nat
    BY <1>1, <1>3, <1>5
  <2>4. QED
    BY <1>4, <2>1, <2>2, <2>3 DEF InBudget
<1>7. CASE ~(f.requiresAck /\ ~IsRecurring(f))
  BY <1>4, <1>7 DEF InBudget
<1>8. QED
  BY <1>6, <1>7

-------------------------------------------------------------------------------
(* Type correctness.                                                       *)

\* A ticker that is notifying or storing has a reminder in hand.
InHand == \A t \in Tickers : pc[t] \in {"notify", "store"} => cur[t] # None

TypeInv == TypeOK /\ InHand

LEMMA TypeInit == Init => TypeInv
BY DEF Init, TypeInv, TypeOK, InHand, Nothing, OptReminder, InFlight, OptTime,
       TickerPc

LEMMA SaveType ==
  ASSUME TypeOK, NEW i \in Ids, NEW r \in Reminder, Save(i, r)
  PROVE  db' \in [Ids -> OptReminder] /\ ended' \subseteq Ids
BY DEF Save, TypeOK, OptReminder

LEMMA RemoveType ==
  ASSUME TypeOK, NEW i \in Ids, Remove(i)
  PROVE  db' \in [Ids -> OptReminder] /\ ended' \subseteq Ids
BY DEF Remove, TypeOK, OptReminder

\* The variables of one ticker after it moved on or returned.
TickerType ==
  /\ pc' \in [Tickers -> TickerPc]
  /\ at' \in [Tickers -> Nat]
  /\ rows' \in [Tickers -> [Ids -> OptReminder]]
  /\ due' \in [Tickers -> [Ids -> OptReminder]]
  /\ cur' \in [Tickers -> InFlight \union {None}]
  /\ InHand'

LEMMA ContinueType ==
  ASSUME TypeInv, NEW t \in Tickers, NEW i \in Ids,
         Continue(t, [due[t] EXCEPT ![i] = None])
  PROVE  TickerType
<1>1. [due[t] EXCEPT ![i] = None] \in [Ids -> OptReminder]
  BY DEF TypeInv, TypeOK, OptReminder
<1>2. QED
  BY <1>1 DEF Continue, TickerType, TypeInv, TypeOK, InHand, TickerPc, InFlight

LEMMA AbortType ==
  ASSUME TypeInv, NEW t \in Tickers, Abort(t)
  PROVE  TickerType
<1>1. Nothing \in [Ids -> OptReminder]
  BY DEF Nothing, OptReminder
<1>2. QED
  BY <1>1 DEF Abort, TickerType, TypeInv, TypeOK, InHand, TickerPc, InFlight

LEMMA DeliverType ==
  ASSUME TypeOK, NEW i \in Ids, NEW t \in Nat, Deliver(i, t)
  PROVE  sent' \in [Ids -> Nat] /\ lastSent' \in [Ids -> OptTime]
<1>1. sent[i] + 1 \in Nat
  <2>1. sent[i] \in Nat
    BY DEF TypeOK
  <2>2. QED
    BY <2>1
<1>2. sent' = [sent EXCEPT ![i] = sent[i] + 1] /\ lastSent' = [lastSent EXCEPT ![i] = t]
  BY DEF Deliver
<1>3. t \in OptTime
  BY DEF OptTime
<1>4. QED
  BY <1>1, <1>2, <1>3 DEF TypeOK

LEMMA TypeNext == TypeInv /\ [Next]_vars => TypeInv'
<1> SUFFICES ASSUME TypeInv, [Next]_vars
             PROVE  TypeInv'
  OBVIOUS
<1>1. ASSUME Clock
      PROVE  TypeInv'
  BY <1>1 DEF Clock, TypeInv, TypeOK, InHand, tickVars, history
<1>2. ASSUME NEW i \in Ids, NEW cmd \in Commands, Create(i, cmd)
      PROVE  TypeInv'
  BY <1>2, NewType, SaveType DEF Create, TypeInv, TypeOK, InHand, tickVars
<1>3. ASSUME NEW i \in Ids, Delete(i)
      PROVE  TypeInv'
  BY <1>3, RemoveType DEF Delete, TypeInv, TypeOK, InHand, tickVars
<1>4. ASSUME NEW a \in Ackers, NEW i \in Ids, NEW u \in Users, AckLoad(a, i, u)
      PROVE  TypeInv'
  <2>1. db[i] \in Reminder
    BY <1>4 DEF AckLoad, TypeInv, TypeOK, OptReminder
  <2>2. [id |-> i, rem |-> Acknowledge(db[i], u)] \in InFlight
    BY <2>1, AcknowledgeFacts DEF InFlight
  <2>3. QED
    BY <1>4, <2>2 DEF AckLoad, TypeInv, TypeOK, InHand, tickVars, history
<1>5. ASSUME NEW a \in Ackers, AckStore(a)
      PROVE  TypeInv'
  <2>1. ack[a].id \in Ids /\ ack[a].rem \in Reminder
    BY <1>5 DEF AckStore, TypeInv, TypeOK, InFlight
  <2>2. db' \in [Ids -> OptReminder] /\ ended' \subseteq Ids
    BY <1>5, <2>1, SaveType, RemoveType DEF AckStore, TypeInv
  <2>3. QED
    BY <1>5, <2>2 DEF AckStore, TypeInv, TypeOK, InFlight, InHand, tickVars
<1>6. ASSUME NEW a \in Ackers, AckFail(a)
      PROVE  TypeInv'
  BY <1>6 DEF AckFail, TypeInv, TypeOK, InFlight, InHand, tickVars, history
<1>7. ASSUME NEW t \in Tickers, TickList(t)
      PROVE  TypeInv'
  <2> DEFINE listed == [i \in Ids |->
                   IF db[i] # None /\ IsDue(db[i], now) THEN db[i] ELSE None]
  <2>1. listed \in [Ids -> OptReminder]
    BY DEF TypeInv, TypeOK, OptReminder
  <2> HIDE DEF listed
  <2>2. CASE UNCHANGED tickVars
    BY <1>7, <2>2 DEF TickList, TypeInv, TypeOK, InHand, tickVars, history
  <2>3. CASE /\ pc' = [pc EXCEPT ![t] = "hydrate"]
             /\ at' = [at EXCEPT ![t] = now]
             /\ rows' = [rows EXCEPT ![t] = listed]
             /\ UNCHANGED <<due, cur>>
    BY <1>7, <2>1, <2>3
       DEF TickList, TypeInv, TypeOK, TickerPc, InHand, tickVars, history
  <2>4. QED
    BY <1>7, <2>2, <2>3 DEF TickList, listed
<1>8. ASSUME NEW t \in Tickers, NEW i \in Ids, TickHydrate(t, i)
      PROVE  TypeInv'
  <2> DEFINE rest == [rows[t] EXCEPT ![i] = None]
             copy == Hydrate(rows[t][i], db[i])
  <2>1. rest \in [Ids -> OptReminder]
    BY DEF TypeInv, TypeOK, OptReminder
  <2>2. rows[t][i] \in Reminder /\ db[i] \in OptReminder
    BY <1>8 DEF TickHydrate, TypeInv, TypeOK, OptReminder
  <2>3. copy \in OptReminder
    BY <2>2, HydrateFacts DEF OptReminder
  <2>4. /\ rows' = [rows EXCEPT ![t] = rest]
        /\ due' = [due EXCEPT ![t] = [@ EXCEPT ![i] = copy]]
        /\ pc' = [pc EXCEPT ![t] = IF IsEmpty(rest) THEN "evaluate" ELSE @]
        /\ pc[t] = "hydrate"
        /\ UNCHANGED <<now, ticked, db, at, cur, ack, history, faults, crashes>>
    BY <1>8 DEF TickHydrate
  <2> HIDE DEF rest, copy
  <2>5. QED
    BY <2>1, <2>3, <2>4 DEF TypeInv, TypeOK, TickerPc, InHand, history
<1>9. ASSUME NEW t \in Tickers, NEW i \in Ids, TickDiscard(t, i)
      PROVE  TypeInv'
  <2>1. TickerType
    BY <1>9, ContinueType DEF TickDiscard
  <2>2. db' \in [Ids -> OptReminder] /\ ended' \subseteq Ids
    BY <1>9, RemoveType DEF TickDiscard, TypeInv
  <2>3. QED
    BY <1>9, <2>1, <2>2 DEF TickDiscard, TickerType, TypeInv, TypeOK
<1>10. ASSUME NEW t \in Tickers, NEW i \in Ids, TickTrigger(t, i)
       PROVE  TypeInv'
  <2> DEFINE fired == Trigger(due[t][i], at[t])
  <2>1. due[t][i] \in Reminder /\ at[t] \in Nat
    BY <1>10 DEF TickTrigger, TypeInv, TypeOK, OptReminder
  <2>2. fired \in Reminder
    BY <2>1, TriggerFacts
  <2>3. [id |-> i, rem |-> fired] \in InFlight /\ [id |-> i, rem |-> fired] # None
    <3>1. [id |-> i, rem |-> fired] \in InFlight
      BY <2>2 DEF InFlight
    <3>2. QED
      BY <3>1, NoneAssumption
  <2>4. /\ cur' = [cur EXCEPT ![t] = [id |-> i, rem |-> fired]]
        /\ pc' = [pc EXCEPT ![t] = "notify"]
        /\ UNCHANGED <<now, ticked, db, at, rows, due, ack, history, faults, crashes>>
    BY <1>10 DEF TickTrigger
  <2> HIDE DEF fired
  <2>5. QED
    BY <2>3, <2>4 DEF TypeInv, TypeOK, TickerPc, InHand, history
<1>11. ASSUME NEW t \in Tickers, TickNotify(t)
       PROVE  TypeInv'
  <2>1. cur[t].id \in Ids /\ at[t] \in Nat
    BY <1>11 DEF TickNotify, TypeInv, TypeOK, InHand, InFlight
  <2>2. sent' \in [Ids -> Nat] /\ lastSent' \in [Ids -> OptTime]
    BY <1>11, <2>1, DeliverType DEF TickNotify, TypeInv
  <2>3. QED
    BY <1>11, <2>2 DEF TickNotify, TypeInv, TypeOK, TickerPc, InHand
<1>12. ASSUME NEW t \in Tickers, TickStore(t)
       PROVE  TypeInv'
  <2>1. cur[t].id \in Ids /\ cur[t].rem \in Reminder
    BY <1>12 DEF TickStore, TypeInv, TypeOK, InHand, InFlight
  <2>2. TickerType
    BY <1>12, <2>1, ContinueType DEF TickStore
  <2>3. db' \in [Ids -> OptReminder] /\ ended' \subseteq Ids
    BY <1>12, <2>1, SaveType, RemoveType DEF TickStore, TypeInv
  <2>4. QED
    BY <1>12, <2>2, <2>3 DEF TickStore, TickerType, TypeInv, TypeOK
<1>13. ASSUME NEW t \in Tickers, TickRefused(t)
       PROVE  TypeInv'
  <2>1. TickerType
    BY <1>13, AbortType DEF TickRefused
  <2>2. QED
    BY <1>13, <2>1 DEF TickRefused, TickerType, TypeInv, TypeOK, history
<1>14. ASSUME NEW t \in Tickers, TickFail(t)
       PROVE  TypeInv'
  <2>1. TickerType
    BY <1>14, AbortType DEF TickFail
  <2>2. QED
    BY <1>14, <2>1 DEF TickFail, TickerType, TypeInv, TypeOK, history
<1>15. ASSUME NEW t \in Tickers, TickFailPartly(t)
       PROVE  TypeInv'
  <2>1. TickerType
    BY <1>15, AbortType DEF TickFailPartly
  <2>2. cur[t].id \in Ids /\ at[t] \in Nat
    BY <1>15 DEF TickFailPartly, TypeInv, TypeOK, InHand, InFlight
  <2>3. sent' \in [Ids -> Nat] /\ lastSent' \in [Ids -> OptTime]
    BY <1>15, <2>2, DeliverType DEF TickFailPartly, TypeInv
  <2>4. faults' \in Nat
    <3>1. faults \in Nat /\ faults' = faults + 1
      BY <1>15 DEF TickFailPartly, TypeInv, TypeOK
    <3>2. QED
      BY <3>1
  <2>5. UNCHANGED <<now, ticked, db, ack, created, ended, crashes>>
    BY <1>15 DEF TickFailPartly
  <2>6. QED
    BY <2>1, <2>3, <2>4, <2>5 DEF TickerType, TypeInv, TypeOK
<1>16. ASSUME Crash
       PROVE  TypeInv'
  <2>1. Nothing \in [Ids -> OptReminder]
    BY DEF Nothing, OptReminder
  <2>2. QED
    BY <1>16, <2>1 DEF Crash, TypeInv, TypeOK, TickerPc, InHand, history
<1>17. CASE UNCHANGED vars
  BY <1>17 DEF vars, tickVars, history, TypeInv, TypeOK, InHand
<1>18. QED
  BY <1>1, <1>2, <1>3, <1>4, <1>5, <1>6, <1>7, <1>8, <1>9, <1>10, <1>11, <1>12,
     <1>13, <1>14, <1>15, <1>16, <1>17 DEF Next, TickStep

\* The variables of the reminder service keep their types, and a ticker that is
\* about to notify or to store has a reminder in hand.
THEOREM TypeCorrect == Spec => [](TypeOK /\ InHand)
<1>1. Spec => []TypeInv
  BY TypeInit, TypeNext, PTL DEF Spec
<1>2. QED
  BY <1>1, PTL DEF TypeInv

-------------------------------------------------------------------------------
(* Safety.  What the table promises has to hold of every copy a tick works *)
(* on too, for a tick saves its copies whatever happened to the row.       *)

\* What holds of any copy r of reminder i, where i was sent n times and e is a set
\* of ids removed before.
Sound(r, n, i, e) ==
  /\ r.acks = {}
  /\ r.fireCount <= n
  /\ InBudget(r)
  /\ r.targets = {} => i \in e

\* The row is there, or was removed at least once.
Known(i) == db[i] # None \/ i \in ended

Busy(t) == pc[t] \in {"notify", "store"}

StoredSound == \A i \in Ids : db[i] # None => Sound(db[i], sent[i], i, ended)

\* The targets of a listed row are read later: only that it is known matters.
ListedSound ==
  \A t \in Tickers, i \in Ids :
    rows[t][i] # None => Sound(rows[t][i], sent[i], i, Ids) /\ Known(i)

DueSound ==
  \A t \in Tickers, i \in Ids :
    due[t][i] # None => Sound(due[t][i], sent[i], i, ended)

\* A reminder in hand has been counted once more than it was sent until the
\* notifier has taken it.
InHandSound ==
  \A t \in Tickers :
    Busy(t) =>
      /\ due[t][cur[t].id] # None
      /\ Sound(cur[t].rem,
               IF pc[t] = "notify" THEN sent[cur[t].id] + 1 ELSE sent[cur[t].id],
               cur[t].id, ended)

AcksComplete == \A a \in Ackers : ack[a] # None => IsComplete(ack[a].rem)

SafeInv == StoredSound /\ ListedSound /\ DueSound /\ InHandSound /\ AcksComplete

\* A sound reminder stays sound as it is sent again and after it is removed.
LEMMA SoundGrows ==
  ASSUME NEW r \in Reminder, NEW n \in Nat, NEW m \in Nat, n <= m,
         NEW i \in Ids, NEW e, NEW f, e \subseteq f, Sound(r, n, i, e)
  PROVE  Sound(r, m, i, f)
<1>1. r.fireCount \in Nat
  BY DEF Reminder
<1>2. r.fireCount <= m
  BY <1>1 DEF Sound
<1>3. QED
  BY <1>2 DEF Sound

\* The counters only grow.
Grows ==
  /\ \A i \in Ids : sent[i] <= sent'[i]
  /\ ended \subseteq ended'
  /\ \A i \in Ids : Known(i) => Known(i)'

LEMMA SaveGrows ==
  ASSUME TypeOK, StoredSound, NEW i \in Ids, NEW r \in Reminder, Save(i, r),
         Sound(r, sent[i], i, ended), UNCHANGED sent
  PROVE  Grows /\ StoredSound'
<1>1. r # None
  BY NoneAssumption
<1>2. \A j \in Ids : sent[j] <= sent[j]
  <2>1. \A j \in Ids : sent[j] \in Nat
    BY DEF TypeOK
  <2>2. QED
    BY <2>1
<1>3. Grows
  BY <1>1, <1>2 DEF Save, TypeOK, Grows, Known
<1>4. StoredSound'
  BY <1>1 DEF Save, TypeOK, StoredSound
<1>5. QED
  BY <1>3, <1>4

LEMMA RemoveGrows ==
  ASSUME TypeOK, StoredSound, NEW i \in Ids, Remove(i), UNCHANGED sent
  PROVE  Grows /\ StoredSound'
<1>1. \A j \in Ids : sent[j] <= sent[j]
  <2>1. \A j \in Ids : sent[j] \in Nat
    BY DEF TypeOK
  <2>2. QED
    BY <2>1
<1>2. ended \subseteq ended' /\ (db[i] # None => i \in ended')
  BY DEF Remove
<1>3. \A j \in Ids : db'[j] = IF j = i THEN None ELSE db[j]
  BY DEF Remove, TypeOK
<1>4. Grows
  BY <1>1, <1>2, <1>3 DEF Grows, Known
<1>5. ASSUME NEW j \in Ids, db'[j] # None
      PROVE  Sound(db'[j], sent'[j], j, ended')
  <2>1. db'[j] = db[j] /\ db[j] \in Reminder /\ sent[j] \in Nat
    BY <1>3, <1>5 DEF TypeOK, OptReminder
  <2>2. Sound(db[j], sent[j], j, ended)
    BY <1>5, <2>1 DEF StoredSound
  <2>3. QED
    BY <1>1, <1>2, <2>1, <2>2, SoundGrows
<1>6. QED
  BY <1>4, <1>5 DEF StoredSound

\* The copies of a ticker that does not move stay sound.
LEMMA CopyGrows ==
  ASSUME TypeInv, TypeInv', SafeInv, Grows, NEW t \in Tickers,
         pc'[t] = pc[t], rows'[t] = rows[t], due'[t] = due[t], cur'[t] = cur[t]
  PROVE  /\ \A i \in Ids :
              rows'[t][i] # None => Sound(rows'[t][i], sent'[i], i, Ids) /\ Known(i)'
         /\ \A i \in Ids :
              due'[t][i] # None => Sound(due'[t][i], sent'[i], i, ended')
         /\ Busy(t)' =>
              /\ due'[t][cur'[t].id] # None
              /\ Sound(cur'[t].rem,
                       IF pc'[t] = "notify" THEN sent'[cur'[t].id] + 1
                       ELSE sent'[cur'[t].id],
                       cur'[t].id, ended')
<1>1. \A i \in Ids : sent[i] \in Nat /\ sent'[i] \in Nat /\ sent[i] <= sent'[i]
  BY DEF TypeInv, TypeOK, Grows
<1>2. ASSUME NEW i \in Ids, rows'[t][i] # None
      PROVE  Sound(rows'[t][i], sent'[i], i, Ids) /\ Known(i)'
  <2>1. rows[t][i] \in Reminder
    BY <1>2 DEF TypeInv, TypeOK, OptReminder
  <2>2. Sound(rows[t][i], sent[i], i, Ids) /\ Known(i)
    BY <1>2 DEF SafeInv, ListedSound
  <2>3. QED
    BY <1>1, <2>1, <2>2, SoundGrows DEF Grows
<1>3. ASSUME NEW i \in Ids, due'[t][i] # None
      PROVE  Sound(due'[t][i], sent'[i], i, ended')
  <2>1. due[t][i] \in Reminder
    BY <1>3 DEF TypeInv, TypeOK, OptReminder
  <2>2. Sound(due[t][i], sent[i], i, ended)
    BY <1>3 DEF SafeInv, DueSound
  <2>3. ended \subseteq ended'
    BY DEF Grows
  <2>4. QED
    BY <1>1, <2>1, <2>2, <2>3, SoundGrows
<1>4. ASSUME Busy(t)'
      PROVE  /\ due'[t][cur'[t].id] # None
             /\ Sound(cur'[t].rem,
                      IF pc'[t] = "notify" THEN sent'[cur'[t].id] + 1
                      ELSE sent'[cur'[t].id],
                      cur'[t].id, ended')
  <2>1. Busy(t) /\ cur[t] \in InFlight
    BY <1>4 DEF Busy, TypeInv, TypeOK, InHand
  <2>2. PICK i \in Ids, r \in Reminder : i = cur[t].id /\ r = cur[t].rem
    BY <2>1 DEF InFlight
  <2>3. due[t][i] # None
    BY <2>1, <2>2 DEF SafeInv, InHandSound
  <2>4. PICK n \in Nat : n = IF pc[t] = "notify" THEN sent[i] + 1 ELSE sent[i]
    BY <1>1
  <2>5. PICK m \in Nat : m = IF pc[t] = "notify" THEN sent'[i] + 1 ELSE sent'[i]
    BY <1>1
  <2>6. n <= m
    BY <1>1, <2>4, <2>5
  <2>7. Sound(r, n, i, ended)
    BY <2>1, <2>2, <2>4 DEF SafeInv, InHandSound
  <2>8. ended \subseteq ended'
    BY DEF Grows
  <2>9. Sound(r, m, i, ended')
    BY <2>6, <2>7, <2>8, SoundGrows
  <2>10. QED
    BY <2>2, <2>3, <2>5, <2>9
<1>5. QED
  BY <1>2, <1>3, <1>4

\* A step that moves no ticker keeps their copies sound.
LEMMA TickersKept ==
  ASSUME TypeInv, TypeInv', SafeInv, Grows, UNCHANGED tickVars
  PROVE  (ListedSound /\ DueSound /\ InHandSound)'
<1>1. \A t \in Tickers : /\ pc'[t] = pc[t] /\ rows'[t] = rows[t]
                         /\ due'[t] = due[t] /\ cur'[t] = cur[t]
  BY DEF tickVars
<1>2. QED
  BY <1>1, CopyGrows DEF ListedSound, DueSound, InHandSound

\* So does the step of a ticker that goes on with fewer copies, none in hand.
LEMMA ContinueSound ==
  ASSUME TypeInv, TypeInv', SafeInv, Grows, NEW t \in Tickers, NEW i \in Ids,
         Continue(t, [due[t] EXCEPT ![i] = None])
  PROVE  (ListedSound /\ DueSound /\ InHandSound)'
<1>1. ASSUME NEW u \in Tickers, u # t
      PROVE  /\ pc'[u] = pc[u] /\ rows'[u] = rows[u]
             /\ due'[u] = due[u] /\ cur'[u] = cur[u]
  BY <1>1 DEF Continue, TypeInv, TypeOK
<1>2. ~Busy(t)' /\ rows'[t] = rows[t]
  BY DEF Continue, TypeInv, TypeOK, Busy
<1>3. \A j \in Ids : due'[t][j] = IF j = i THEN None ELSE due[t][j]
  BY DEF Continue, TypeInv, TypeOK
<1>4. ASSUME NEW j \in Ids, due'[t][j] # None
      PROVE  Sound(due'[t][j], sent'[j], j, ended')
  <2>1. due'[t][j] = due[t][j] /\ due[t][j] \in Reminder
    BY <1>3, <1>4 DEF TypeInv, TypeOK, OptReminder
  <2>2. Sound(due[t][j], sent[j], j, ended)
    BY <1>4, <2>1 DEF SafeInv, DueSound
  <2>3. sent[j] \in Nat /\ sent'[j] \in Nat /\ sent[j] <= sent'[j]
        /\ ended \subseteq ended'
    BY DEF TypeInv, TypeOK, Grows
  <2>4. QED
    BY <2>1, <2>2, <2>3, SoundGrows
<1>5. ASSUME NEW j \in Ids, rows'[t][j] # None
      PROVE  Sound(rows'[t][j], sent'[j], j, Ids) /\ Known(j)'
  <2>1. rows'[t][j] = rows[t][j] /\ rows[t][j] \in Reminder
    BY <1>2, <1>5 DEF TypeInv, TypeOK, OptReminder
  <2>2. Sound(rows[t][j], sent[j], j, Ids) /\ Known(j)
    BY <1>5, <2>1 DEF SafeInv, ListedSound
  <2>3. sent[j] \in Nat /\ sent'[j] \in Nat /\ sent[j] <= sent'[j]
    BY DEF TypeInv, TypeOK, Grows
  <2>4. QED
    BY <2>1, <2>2, <2>3, SoundGrows DEF Grows
<1>6. QED
  BY <1>1, <1>2, <1>4, <1>5, CopyGrows DEF ListedSound, DueSound, InHandSound

\* And the step of a ticker that drops its copies.
LEMMA AbortSound ==
  ASSUME TypeInv, TypeInv', SafeInv, Grows, NEW t \in Tickers, Abort(t)
  PROVE  (ListedSound /\ DueSound /\ InHandSound)'
<1>1. ASSUME NEW u \in Tickers, u # t
      PROVE  /\ pc'[u] = pc[u] /\ rows'[u] = rows[u]
             /\ due'[u] = due[u] /\ cur'[u] = cur[u]
  BY <1>1 DEF Abort, TypeInv, TypeOK
<1>2. /\ ~Busy(t)'
      /\ \A j \in Ids : rows'[t][j] = None /\ due'[t][j] = None
  BY DEF Abort, TypeInv, TypeOK, Busy, Nothing
<1>3. QED
  BY <1>1, <1>2, CopyGrows DEF ListedSound, DueSound, InHandSound

\* A step that changes neither the table nor the counters.
LEMMA TableKept ==
  ASSUME TypeOK, StoredSound, UNCHANGED <<db, ended, sent>>
  PROVE  Grows /\ StoredSound'
<1>1. \A i \in Ids : sent[i] <= sent[i]
  <2>1. \A i \in Ids : sent[i] \in Nat
    BY DEF TypeOK
  <2>2. QED
    BY <2>1
<1>2. QED
  BY <1>1 DEF Grows, Known, StoredSound

\* A step that only delivers a notification.
LEMMA DeliverGrows ==
  ASSUME TypeInv, TypeInv', StoredSound, NEW i \in Ids, NEW t \in Nat,
         Deliver(i, t), UNCHANGED <<db, ended>>
  PROVE  Grows /\ StoredSound' /\ sent'[i] = sent[i] + 1
<1>1. /\ \A j \in Ids : sent[j] \in Nat
      /\ \A j \in Ids : sent'[j] = IF j = i THEN sent[j] + 1 ELSE sent[j]
  BY DEF Deliver, TypeInv, TypeOK
<1>2. \A j \in Ids : sent[j] <= sent'[j]
  BY <1>1
<1>3. Grows
  BY <1>2 DEF Grows, Known
<1>4. ASSUME NEW j \in Ids, db'[j] # None
      PROVE  Sound(db'[j], sent'[j], j, ended')
  <2>1. db'[j] = db[j] /\ db[j] \in Reminder
    BY <1>4 DEF TypeInv, TypeOK, OptReminder
  <2>2. Sound(db[j], sent[j], j, ended)
    BY <1>4, <2>1 DEF StoredSound
  <2>3. sent'[j] \in Nat
    BY DEF TypeInv, TypeOK
  <2>4. QED
    BY <1>1, <1>2, <2>1, <2>2, <2>3, SoundGrows
<1>5. QED
  BY <1>1, <1>3, <1>4 DEF StoredSound

LEMMA SafeInit == Init => SafeInv
BY DEF Init, SafeInv, StoredSound, ListedSound, DueSound, InHandSound, Busy,
       AcksComplete, Nothing

LEMMA SafeNext == TypeInv /\ TypeInv' /\ SafeInv /\ [Next]_vars => SafeInv'
<1> SUFFICES ASSUME TypeInv, TypeInv', SafeInv, [Next]_vars
             PROVE  SafeInv'
  OBVIOUS
<1> USE DEF SafeInv
<1>t. TypeOK
  BY DEF TypeInv
<1>1. ASSUME Clock
      PROVE  SafeInv'
  BY <1>1, <1>t, TableKept, TickersKept DEF Clock, AcksComplete, history, tickVars
<1>2. ASSUME NEW i \in Ids, NEW cmd \in Commands, Create(i, cmd)
      PROVE  SafeInv'
  <2>1. New(cmd) \in Reminder
    BY NewType
  <2>2. Sound(New(cmd), sent[i], i, ended)
    <3>1. New(cmd).fireCount = 0 /\ New(cmd).acks = {} /\ New(cmd).targets # {}
      BY <1>2, NewType DEF Create
    <3>2. sent[i] \in Nat
      BY <1>t DEF TypeOK
    <3>3. InBudget(New(cmd))
      <4>1. PolicyForProfile(New(cmd).profile).maxRepeats \in Nat
        BY <2>1, PresetAssumption DEF PolicyForProfile, Reminder, EscalationPolicy
      <4>2. QED
        BY <3>1, <4>1 DEF InBudget
    <3>4. QED
      BY <3>1, <3>2, <3>3 DEF Sound
  <2>3. Grows /\ StoredSound'
    BY <1>2, <1>t, <2>1, <2>2, SaveGrows DEF Create
  <2>4. QED
    BY <1>2, <2>3, TickersKept DEF Create, AcksComplete
<1>3. ASSUME NEW i \in Ids, Delete(i)
      PROVE  SafeInv'
  <2>1. Grows /\ StoredSound'
    BY <1>3, <1>t, RemoveGrows DEF Delete
  <2>2. QED
    BY <1>3, <2>1, TickersKept DEF Delete, AcksComplete
<1>4. ASSUME NEW a \in Ackers, NEW i \in Ids, NEW u \in Users, AckLoad(a, i, u)
      PROVE  SafeInv'
  <2>1. db[i] \in Reminder
    BY <1>4, <1>t DEF AckLoad, TypeOK, OptReminder
  <2>2. IsComplete(Acknowledge(db[i], u))
    BY <2>1, AcknowledgeFacts
  <2>3. AcksComplete'
    BY <1>4, <1>t, <2>2 DEF AckLoad, AcksComplete, TypeOK
  <2>4. Grows /\ StoredSound'
    BY <1>4, <1>t, TableKept DEF AckLoad, history
  <2>5. QED
    BY <1>4, <2>3, <2>4, TickersKept DEF AckLoad
<1>5. ASSUME NEW a \in Ackers, AckStore(a)
      PROVE  SafeInv'
  <2>1. ack[a].id \in Ids /\ Remove(ack[a].id)
    BY <1>5, <1>t DEF AckStore, AcksComplete, TypeOK, InFlight
  <2>2. Grows /\ StoredSound'
    BY <1>5, <1>t, <2>1, RemoveGrows DEF AckStore
  <2>3. AcksComplete'
    BY <1>5, <1>t DEF AckStore, AcksComplete, TypeOK
  <2>4. QED
    BY <1>5, <2>2, <2>3, TickersKept DEF AckStore
<1>6. ASSUME NEW a \in Ackers, AckFail(a)
      PROVE  SafeInv'
  <2>1. AcksComplete'
    BY <1>6, <1>t DEF AckFail, AcksComplete, TypeOK
  <2>2. QED
    BY <1>6, <1>t, <2>1, TableKept, TickersKept DEF AckFail, history
<1>7. ASSUME NEW t \in Tickers, TickList(t)
      PROVE  SafeInv'
  <2> DEFINE listed == [i \in Ids |->
                   IF db[i] # None /\ IsDue(db[i], now) THEN db[i] ELSE None]
  <2>1. Grows /\ StoredSound' /\ AcksComplete'
    BY <1>7, <1>t, TableKept DEF TickList, history, AcksComplete
  <2>2. CASE UNCHANGED tickVars
    BY <2>1, <2>2, TickersKept
  <2>3. CASE /\ pc' = [pc EXCEPT ![t] = "hydrate"]
             /\ at' = [at EXCEPT ![t] = now]
             /\ rows' = [rows EXCEPT ![t] = listed]
             /\ UNCHANGED <<due, cur>>
    <3>1. ASSUME NEW u \in Tickers, u # t
          PROVE  /\ pc'[u] = pc[u] /\ rows'[u] = rows[u]
                 /\ due'[u] = due[u] /\ cur'[u] = cur[u]
      BY <1>t, <2>3, <3>1 DEF TypeOK
    <3>2. /\ ~Busy(t)' /\ due'[t] = due[t]
          /\ \A i \in Ids : rows'[t][i] # None => rows'[t][i] = db[i]
      BY <1>t, <2>3 DEF TypeOK, Busy
    <3>3. ASSUME NEW i \in Ids, rows'[t][i] # None
          PROVE  Sound(rows'[t][i], sent'[i], i, Ids) /\ Known(i)'
      <4>1. rows'[t][i] = db[i] /\ db[i] # None /\ sent'[i] = sent[i] /\ db' = db
        BY <1>7, <3>2, <3>3 DEF TickList, history
      <4>2. Sound(db[i], sent[i], i, ended)
        BY <4>1 DEF StoredSound
      <4>3. QED
        BY <4>1, <4>2 DEF Sound, Known
    <3>4. ASSUME NEW i \in Ids, due'[t][i] # None
          PROVE  Sound(due'[t][i], sent'[i], i, ended')
      BY <1>7, <3>2, <3>4 DEF TickList, history, DueSound
    <3>5. QED
      BY <2>1, <3>1, <3>2, <3>3, <3>4, CopyGrows
         DEF ListedSound, DueSound, InHandSound
  <2>4. QED
    BY <1>7, <2>2, <2>3 DEF TickList
<1>8. ASSUME NEW t \in Tickers, NEW i \in Ids, TickHydrate(t, i)
      PROVE  SafeInv'
  <2> DEFINE rest == [rows[t] EXCEPT ![i] = None]
             copy == Hydrate(rows[t][i], db[i])
  <2>1. Grows /\ StoredSound' /\ AcksComplete'
    BY <1>8, <1>t, TableKept DEF TickHydrate, history, AcksComplete
  <2>2. ASSUME NEW u \in Tickers, u # t
        PROVE  /\ pc'[u] = pc[u] /\ rows'[u] = rows[u]
               /\ due'[u] = due[u] /\ cur'[u] = cur[u]
    BY <1>8, <1>t, <2>2 DEF TickHydrate, TypeOK
  <2>3. /\ ~Busy(t)'
        /\ \A j \in Ids : rows'[t][j] = IF j = i THEN None ELSE rows[t][j]
        /\ \A j \in Ids : due'[t][j] = IF j = i THEN copy ELSE due[t][j]
        /\ UNCHANGED <<sent, ended, db>>
    <3>1. /\ pc[t] = "hydrate"
          /\ rows' = [rows EXCEPT ![t] = rest]
          /\ due' = [due EXCEPT ![t] = [@ EXCEPT ![i] = copy]]
          /\ pc' = [pc EXCEPT ![t] = IF IsEmpty(rest) THEN "evaluate" ELSE @]
          /\ UNCHANGED <<sent, ended, db>>
      BY <1>8 DEF TickHydrate, history
    <3> HIDE DEF copy
    <3>2. QED
      BY <1>t, <3>1 DEF TypeOK, Busy
  <2>4. Sound(copy, sent[i], i, ended)
    <3>1. rows[t][i] \in Reminder /\ db[i] \in OptReminder
      BY <1>8, <1>t DEF TickHydrate, TypeOK, OptReminder
    <3>2. Sound(rows[t][i], sent[i], i, Ids) /\ Known(i)
      BY <1>8 DEF TickHydrate, ListedSound
    <3>3. /\ db[i] = None => copy.targets = {} /\ copy.acks = {}
          /\ db[i] # None => copy.targets = db[i].targets /\ copy.acks = db[i].acks
          /\ copy.fireCount = rows[t][i].fireCount
          /\ InBudget(copy) <=> InBudget(rows[t][i])
      BY <3>1, HydrateFacts
    <3> HIDE DEF copy
    <3>4. CASE db[i] = None
      BY <3>2, <3>3, <3>4 DEF Sound, Known
    <3>5. CASE db[i] # None
      <4>1. Sound(db[i], sent[i], i, ended)
        BY <3>5 DEF StoredSound
      <4>2. QED
        BY <3>2, <3>3, <3>5, <4>1 DEF Sound
    <3>6. QED
      BY <3>4, <3>5
  <2> HIDE DEF rest, copy
  <2>5. ASSUME NEW j \in Ids, rows'[t][j] # None
        PROVE  Sound(rows'[t][j], sent'[j], j, Ids) /\ Known(j)'
    BY <2>3, <2>5 DEF ListedSound, Known
  <2>6. ASSUME NEW j \in Ids, due'[t][j] # None
        PROVE  Sound(due'[t][j], sent'[j], j, ended')
    BY <2>3, <2>4, <2>6 DEF DueSound
  <2>7. QED
    BY <2>1, <2>2, <2>3, <2>5, <2>6, CopyGrows DEF ListedSound, DueSound, InHandSound
<1>9. ASSUME NEW t \in Tickers, NEW i \in Ids, TickDiscard(t, i)
      PROVE  SafeInv'
  <2>1. Grows /\ StoredSound' /\ AcksComplete'
    BY <1>9, <1>t, RemoveGrows DEF TickDiscard, AcksComplete
  <2>2. QED
    BY <1>9, <2>1, ContinueSound DEF TickDiscard
<1>10. ASSUME NEW t \in Tickers, NEW i \in Ids, TickTrigger(t, i)
       PROVE  SafeInv'
  <2> DEFINE fired == Trigger(due[t][i], at[t])
  <2>1. Grows /\ StoredSound' /\ AcksComplete' /\ UNCHANGED <<sent, ended>>
    BY <1>10, <1>t, TableKept DEF TickTrigger, history, AcksComplete
  <2>2. ASSUME NEW u \in Tickers, u # t
        PROVE  /\ pc'[u] = pc[u] /\ rows'[u] = rows[u]
               /\ due'[u] = due[u] /\ cur'[u] = cur[u]
    BY <1>10, <1>t, <2>2 DEF TickTrigger, TypeOK
  <2>3. /\ pc'[t] = "notify" /\ cur'[t].id = i /\ cur'[t].rem = fired
        /\ rows' = rows /\ due' = due /\ db' = db /\ due[t][i] # None
    BY <1>10, <1>t DEF TickTrigger, TypeOK
  <2>4. Sound(fired, sent[i] + 1, i, ended)
    <3>1. due[t][i] \in Reminder /\ at[t] \in Nat
      BY <1>10, <1>t DEF TickTrigger, TypeOK, OptReminder
    <3>2. /\ fired.fireCount = due[t][i].fireCount + 1
          /\ fired.acks \subseteq due[t][i].acks
          /\ fired.targets = due[t][i].targets
      BY <3>1, TriggerFacts
    <3>3. InBudget(fired)
      BY <1>10, <3>1, TriggerBudget DEF TickTrigger
    <3>4. Sound(due[t][i], sent[i], i, ended)
      BY <2>3 DEF DueSound
    <3>5. due[t][i].fireCount \in Nat /\ sent[i] \in Nat
      BY <1>t, <3>1 DEF Reminder, TypeOK
    <3> HIDE DEF fired
    <3>6. fired.fireCount <= sent[i] + 1
      BY <3>2, <3>4, <3>5 DEF Sound
    <3>7. QED
      BY <3>2, <3>3, <3>4, <3>6 DEF Sound
  <2> HIDE DEF fired
  <2>5. ASSUME NEW j \in Ids, rows'[t][j] # None
        PROVE  Sound(rows'[t][j], sent'[j], j, Ids) /\ Known(j)'
    BY <2>1, <2>3, <2>5 DEF ListedSound, Known
  <2>6. ASSUME NEW j \in Ids, due'[t][j] # None
        PROVE  Sound(due'[t][j], sent'[j], j, ended')
    BY <2>1, <2>3, <2>6 DEF DueSound
  <2>7. /\ due'[t][cur'[t].id] # None
        /\ Sound(cur'[t].rem, sent'[cur'[t].id] + 1, cur'[t].id, ended')
    BY <2>1, <2>3, <2>4
  <2>8. (ListedSound /\ DueSound)'
    BY <2>1, <2>2, <2>5, <2>6, CopyGrows DEF ListedSound, DueSound
  <2>9. InHandSound'
    BY <2>1, <2>2, <2>3, <2>7, CopyGrows DEF InHandSound
  <2>10. QED
    BY <2>1, <2>8, <2>9
<1>11. ASSUME NEW t \in Tickers, TickNotify(t)
       PROVE  SafeInv'
  <2>1. PICK i \in Ids, r \in Reminder : i = cur[t].id /\ r = cur[t].rem
    BY <1>11 DEF TickNotify, TypeInv, TypeOK, InHand, InFlight
  <2>2. at[t] \in Nat
    BY <1>t DEF TypeOK
  <2>3. Grows /\ StoredSound' /\ sent'[i] = sent[i] + 1
    BY <1>11, <2>1, <2>2, DeliverGrows DEF TickNotify
  <2>4. ASSUME NEW u \in Tickers, u # t
        PROVE  /\ pc'[u] = pc[u] /\ rows'[u] = rows[u]
               /\ due'[u] = due[u] /\ cur'[u] = cur[u]
    BY <1>11, <1>t, <2>4 DEF TickNotify, TypeOK
  <2>5. /\ pc[t] = "notify" /\ pc'[t] = "store" /\ cur' = cur /\ due' = due
        /\ rows' = rows /\ db' = db /\ ended' = ended /\ ack' = ack
    BY <1>11, <1>t DEF TickNotify, TypeOK
  <2>6. /\ due'[t][cur'[t].id] # None
        /\ Sound(cur'[t].rem, sent'[cur'[t].id], cur'[t].id, ended')
    BY <2>1, <2>3, <2>5 DEF InHandSound, Busy
  <2>7. ASSUME NEW u \in Tickers, NEW j \in Ids
        PROVE  /\ rows'[u][j] # None
                    => Sound(rows'[u][j], sent'[j], j, Ids) /\ Known(j)'
               /\ due'[u][j] # None => Sound(due'[u][j], sent'[j], j, ended')
    <3>1. /\ rows[u][j] # None => rows[u][j] \in Reminder
          /\ due[u][j] # None => due[u][j] \in Reminder
      BY <1>t DEF TypeOK, OptReminder
    <3>2. sent[j] \in Nat /\ sent'[j] \in Nat /\ sent[j] <= sent'[j]
      BY <2>3 DEF TypeInv, TypeOK, Grows
    <3>3. /\ rows[u][j] # None => Sound(rows[u][j], sent[j], j, Ids) /\ Known(j)
          /\ due[u][j] # None => Sound(due[u][j], sent[j], j, ended)
      BY DEF ListedSound, DueSound
    <3>4. QED
      BY <2>5, <3>1, <3>2, <3>3, SoundGrows DEF Known
  <2>8. InHandSound'
    BY <2>3, <2>4, <2>5, <2>6, CopyGrows DEF InHandSound
  <2>9. QED
    BY <2>3, <2>5, <2>7, <2>8 DEF ListedSound, DueSound, AcksComplete
<1>12. ASSUME NEW t \in Tickers, TickStore(t)
       PROVE  SafeInv'
  <2>1. PICK i \in Ids, r \in Reminder : i = cur[t].id /\ r = cur[t].rem
    BY <1>12 DEF TickStore, TypeInv, TypeOK, InHand, InFlight
  <2>2. Sound(r, sent[i], i, ended)
    BY <1>12, <2>1 DEF TickStore, InHandSound, Busy
  <2>3. Grows /\ StoredSound'
    BY <1>12, <1>t, <2>1, <2>2, SaveGrows, RemoveGrows DEF TickStore
  <2>4. AcksComplete'
    BY <1>12 DEF TickStore, AcksComplete
  <2>5. QED
    BY <1>12, <2>1, <2>3, <2>4, ContinueSound DEF TickStore
<1>13. ASSUME NEW t \in Tickers, TickRefused(t)
       PROVE  SafeInv'
  <2>1. Grows /\ StoredSound' /\ AcksComplete'
    BY <1>13, <1>t, TableKept DEF TickRefused, history, AcksComplete
  <2>2. QED
    BY <1>13, <2>1, AbortSound DEF TickRefused
<1>14. ASSUME NEW t \in Tickers, TickFail(t)
       PROVE  SafeInv'
  <2>1. Grows /\ StoredSound' /\ AcksComplete'
    BY <1>14, <1>t, TableKept DEF TickFail, history, AcksComplete
  <2>2. QED
    BY <1>14, <2>1, AbortSound DEF TickFail
<1>15. ASSUME NEW t \in Tickers, TickFailPartly(t)
       PROVE  SafeInv'
  <2>1. cur[t].id \in Ids /\ at[t] \in Nat
    BY <1>15 DEF TickFailPartly, TypeInv, TypeOK, InHand, InFlight
  <2>2. Grows /\ StoredSound' /\ AcksComplete'
    BY <1>15, <2>1, DeliverGrows DEF TickFailPartly, AcksComplete
  <2>3. QED
    BY <1>15, <2>2, AbortSound DEF TickFailPartly
<1>16. ASSUME Crash
       PROVE  SafeInv'
  <2>1. Grows /\ StoredSound'
    BY <1>16, <1>t, TableKept DEF Crash, history
  <2>2. AcksComplete'
    BY <1>16 DEF Crash, AcksComplete
  <2>3. ListedSound' /\ DueSound' /\ InHandSound'
    BY <1>16 DEF Crash, ListedSound, DueSound, InHandSound, Busy, Nothing
  <2>4. QED
    BY <2>1, <2>2, <2>3
<1>17. CASE UNCHANGED vars
  BY <1>17, <1>t, TableKept, TickersKept DEF vars, history, tickVars, AcksComplete
<1>18. QED
  BY <1>1, <1>2, <1>3, <1>4, <1>5, <1>6, <1>7, <1>8, <1>9, <1>10, <1>11, <1>12,
     <1>13, <1>14, <1>15, <1>16, <1>17 DEF Next, TickStep

\* The four promises of the table hold of every reachable state: no stored reminder
\* is acknowledged, none has fired more often than it was sent, none has used up its
\* repeats, and none is without targets unless it was removed before.
THEOREM Safety ==
  Spec => [](/\ NoStoredAcks /\ RecordedFiresWereSent
             /\ BudgetRespected /\ TargetlessWereRemoved)
<1>1. Spec => []TypeInv
  BY TypeInit, TypeNext, PTL DEF Spec
<1>2. Spec => []SafeInv
  BY <1>1, SafeInit, SafeNext, PTL DEF Spec
<1>3. TypeInv /\ SafeInv => /\ NoStoredAcks /\ RecordedFiresWereSent
                            /\ BudgetRespected /\ TargetlessWereRemoved
  BY DEF SafeInv, StoredSound, Sound, NoStoredAcks, RecordedFiresWereSent,
         BudgetRespected, TargetlessWereRemoved
<1>4. QED
  BY <1>1, <1>2, <1>3, PTL

\* A stored reminder with a limited profile has repeats left, however many ticks work
\* on old copies of it.
THEOREM LimitKept == Spec => []BudgetRespected
BY Safety, PTL

\* A row that nobody can acknowledge, for want of targets, is one a tick brought back.
THEOREM TargetlessExplained == Spec => []TargetlessWereRemoved
BY Safety, PTL

-------------------------------------------------------------------------------
(* A removed reminder without a copy stays gone.                           *)

LEMMA GoneNext ==
  ASSUME TypeInv, SafeInv, Next, NEW i \in Ids, Gone(i), created'[i] = created[i]
  PROVE  Gone(i)' /\ sent'[i] = sent[i]
<1> USE DEF Gone, Held
<1>t. TypeOK
  BY DEF TypeInv
\* Neither the table nor the copies of i change, and none of i is sent.
<1> DEFINE Kept == /\ db'[i] = None /\ sent'[i] = sent[i]
                   /\ \A t \in Tickers : rows'[t][i] = None /\ due'[t][i] = None
<1> SUFFICES Kept
  OBVIOUS
<1>g. db[i] = None /\ \A t \in Tickers : rows[t][i] = None /\ due[t][i] = None
  OBVIOUS
<1>1. ASSUME Clock
      PROVE  Kept
  BY <1>1, <1>g DEF Clock, tickVars, history
<1>2. ASSUME NEW j \in Ids, NEW cmd \in Commands, Create(j, cmd)
      PROVE  Kept
  <2>1. j # i
    <3>1. created[j] \in Nat /\ created' = [created EXCEPT ![j] = created[j] + 1]
      BY <1>2, <1>t DEF Create, TypeOK
    <3>2. created'[j] # created[j]
      BY <3>1, <1>t DEF TypeOK
    <3>3. QED
      BY <3>2
  <2>2. QED
    BY <1>2, <1>g, <2>1 DEF Create, Save, tickVars, TypeOK
<1>3. ASSUME NEW j \in Ids, Delete(j)
      PROVE  Kept
  BY <1>3, <1>t, <1>g DEF Delete, Remove, tickVars, TypeOK
<1>4. ASSUME NEW a \in Ackers, NEW j \in Ids, NEW u \in Users, AckLoad(a, j, u)
      PROVE  Kept
  BY <1>4, <1>g DEF AckLoad, tickVars, history
<1>5. ASSUME NEW a \in Ackers, AckStore(a)
      PROVE  Kept
  <2>1. Remove(ack[a].id)
    BY <1>5 DEF AckStore, SafeInv, AcksComplete
  <2>2. QED
    BY <1>5, <1>t, <1>g, <2>1 DEF AckStore, Remove, tickVars, TypeOK
<1>6. ASSUME NEW a \in Ackers, AckFail(a)
      PROVE  Kept
  BY <1>6, <1>g DEF AckFail, tickVars, history
<1>7. ASSUME NEW t \in Tickers, TickList(t)
      PROVE  Kept
  <2>1. CASE UNCHANGED tickVars
    BY <1>7, <1>g, <2>1 DEF TickList, tickVars, history
  <2>2. CASE /\ rows' = [rows EXCEPT ![t] =
                  [j \in Ids |-> IF db[j] # None /\ IsDue(db[j], now)
                                   THEN db[j] ELSE None]]
             /\ UNCHANGED <<due, cur>>
    BY <1>7, <1>t, <1>g, <2>2 DEF TickList, history, TypeOK
  <2>3. QED
    BY <1>7, <2>1, <2>2 DEF TickList
<1>8. ASSUME NEW t \in Tickers, NEW j \in Ids, TickHydrate(t, j)
      PROVE  Kept
  <2> DEFINE copy == Hydrate(rows[t][j], db[j])
  <2>1. /\ j # i
        /\ rows' = [rows EXCEPT ![t] = [rows[t] EXCEPT ![j] = None]]
        /\ due' = [due EXCEPT ![t] = [@ EXCEPT ![j] = copy]]
        /\ UNCHANGED <<db, sent>>
    BY <1>8, <1>g DEF TickHydrate, history
  <2> HIDE DEF copy
  <2>2. QED
    BY <1>t, <1>g, <2>1 DEF TypeOK
<1>9. ASSUME NEW t \in Tickers, NEW j \in Ids, TickDiscard(t, j)
      PROVE  Kept
  BY <1>9, <1>t, <1>g DEF TickDiscard, Continue, Remove, TypeOK
<1>10. ASSUME NEW t \in Tickers, NEW j \in Ids, TickTrigger(t, j)
       PROVE  Kept
  BY <1>10, <1>g DEF TickTrigger, history
<1>11. ASSUME NEW t \in Tickers, TickNotify(t) \/ TickFailPartly(t)
       PROVE  Kept
  <2>1. cur[t].id # i
    BY <1>11, <1>g DEF TickNotify, TickFailPartly, SafeInv, InHandSound, Busy
  <2>2. db' = db /\ sent'[i] = sent[i]
    BY <1>11, <1>t, <2>1 DEF TickNotify, TickFailPartly, Deliver, TypeOK
  <2>3. CASE TickNotify(t)
    BY <1>g, <2>2, <2>3 DEF TickNotify
  <2>4. CASE Abort(t)
    BY <1>t, <1>g, <2>2, <2>4 DEF Abort, Nothing, TypeOK
  <2>5. QED
    BY <1>11, <2>3, <2>4 DEF TickFailPartly
<1>12. ASSUME NEW t \in Tickers, TickStore(t)
       PROVE  Kept
  <2>1. cur[t].id # i
    BY <1>12, <1>g DEF TickStore, SafeInv, InHandSound, Busy
  <2>2. db'[i] = None /\ sent' = sent
    BY <1>12, <1>t, <1>g, <2>1 DEF TickStore, Save, Remove, TypeOK
  <2>3. Continue(t, [due[t] EXCEPT ![cur[t].id] = None])
    BY <1>12 DEF TickStore
  <2>4. QED
    BY <1>t, <1>g, <2>1, <2>2, <2>3 DEF Continue, TypeOK
<1>13. ASSUME NEW t \in Tickers, TickRefused(t) \/ TickFail(t)
       PROVE  Kept
  <2>1. Abort(t) /\ UNCHANGED <<db, sent>>
    BY <1>13 DEF TickRefused, TickFail, history
  <2>2. QED
    BY <1>t, <1>g, <2>1 DEF Abort, Nothing, TypeOK
<1>14. ASSUME Crash
       PROVE  Kept
  BY <1>14, <1>g DEF Crash, Nothing, history
<1>15. QED
  BY <1>1, <1>2, <1>3, <1>4, <1>5, <1>6, <1>7, <1>8, <1>9, <1>10, <1>11, <1>12,
     <1>13, <1>14 DEF Next, TickStep

\* A removed reminder of which no running Tick holds a copy is not notified and does
\* not come back unless it is created again.
THEOREM RemovalIsFinal == Spec => GoneIsFinal
<1>1. Spec => [](TypeInv /\ SafeInv)
  <2>1. Spec => []TypeInv
    BY TypeInit, TypeNext, PTL DEF Spec
  <2>2. Spec => []SafeInv
    BY <2>1, SafeInit, SafeNext, PTL DEF Spec
  <2>3. QED
    BY <2>1, <2>2, PTL
<1>2. TypeInv /\ SafeInv /\ [Next]_vars =>
        [\A i \in Ids : (Gone(i) /\ created'[i] = created[i])
                           => (Gone(i)' /\ sent'[i] = sent[i])]_vars
  BY GoneNext
<1>3. QED
  BY <1>1, <1>2, PTL DEF Spec, GoneIsFinal

-------------------------------------------------------------------------------
(* One tick at a time.  Where ticks do not overlap, an id is used once and *)
(* nothing fails, the table keeps the accounts, except for the reminder    *)
(* that was notified and is about to be stored.                            *)

Alone(t) == Tickers = {t} /\ MaxCreates = 1 /\ MaxFaults = 0 /\ MaxCrashes = 0

\* How long after its last firing a reminder fires again.
Gap(r) ==
  IF IsRecurring(r) THEN r.recurEvery
  ELSE RepeatDelay(PolicyForProfile(r.profile), r.fireCount)

\* A row or a copy that has counted all n notifications, and is not due before its
\* delay after the last one is over.
UpToDate(r, n, last) ==
  /\ r.fireCount = n
  /\ r.fireCount > 0 => /\ r.nextRunAt \in Nat /\ last \in Nat
                        /\ last + Gap(r) <= r.nextRunAt

Handles(t, i, step) == pc[t] = step /\ cur[t].id = i

\* The reminder in hand, after Trigger.
Rescheduled(r, time) == r.nextRunAt \in {Never, time + Gap(r)}

FarEnough(r, time, last) ==
  r.fireCount > 1 =>
    time >= last + (IF IsRecurring(r) THEN r.recurEvery
                    ELSE RepeatDelay(PolicyForProfile(r.profile), r.fireCount - 1))

Account(t, i) ==
  /\ db[i] # None =>
       IF Handles(t, i, "store") THEN sent[i] = db[i].fireCount + 1
       ELSE UpToDate(db[i], sent[i], lastSent[i])
  /\ rows[t][i] # None =>
       UpToDate(rows[t][i], sent[i], lastSent[i]) /\ IsDue(rows[t][i], at[t])
  /\ due[t][i] # None /\ ~Handles(t, i, "store") =>
       UpToDate(due[t][i], sent[i], lastSent[i]) /\ IsDue(due[t][i], at[t])
  /\ Handles(t, i, "notify") =>
       /\ cur[t].rem.fireCount = sent[i] + 1
       /\ Rescheduled(cur[t].rem, at[t]) /\ FarEnough(cur[t].rem, at[t], lastSent[i])
  /\ Handles(t, i, "store") =>
       /\ cur[t].rem.fireCount = sent[i] /\ lastSent[i] = at[t]
       /\ Rescheduled(cur[t].rem, at[t])
  /\ created[i] = 0 =>
       db[i] = None /\ rows[t][i] = None /\ due[t][i] = None /\ sent[i] = 0

\* Rows are listed for the queries that follow, and a Tick that is over holds nothing.
Drained(t) ==
  /\ pc[t] # "hydrate" => IsEmpty(rows[t])
  /\ pc[t] = "idle" => IsEmpty(due[t])

AccountInv(t) == Drained(t) /\ \A i \in Ids : Account(t, i)

\* Nothing that concerns i changes.
LEMMA AccountSame ==
  ASSUME NEW t \in Tickers, NEW i \in Ids, Account(t, i),
         db'[i] = db[i], rows'[t][i] = rows[t][i], due'[t][i] = due[t][i],
         sent'[i] = sent[i], lastSent'[i] = lastSent[i], created'[i] = created[i],
         at'[t] = at[t], cur'[t] = cur[t],
         Handles(t, i, "notify")' <=> Handles(t, i, "notify"),
         Handles(t, i, "store")' <=> Handles(t, i, "store")
  PROVE  Account(t, i)'
BY DEF Account

\* The Tick has nothing in hand afterwards, and lets copies of i go.
LEMMA AccountLeft ==
  ASSUME NEW t \in Tickers, NEW i \in Ids, Account(t, i),
         rows'[t][i] = None,
         due'[t][i] = None \/ (due'[t][i] = due[t][i] /\ at'[t] = at[t]
                                 /\ ~Handles(t, i, "store")),
         pc'[t] \in {"idle", "evaluate"},
         sent'[i] = sent[i], lastSent'[i] = lastSent[i], created'[i] = created[i],
         db'[i] # None => UpToDate(db'[i], sent[i], lastSent[i]) /\ created[i] # 0
  PROVE  Account(t, i)'
BY DEF Account, Handles

\* What Trigger makes of a copy that is up to date and due.
LEMMA TriggerAccount ==
  ASSUME TypeOK, NEW t \in Tickers, NEW i \in Ids, NEW r \in Reminder,
         UpToDate(r, sent[i], lastSent[i]),
         IsDue(r, at[t])
  PROVE  /\ Trigger(r, at[t]).fireCount = sent[i] + 1
         /\ Rescheduled(Trigger(r, at[t]), at[t])
         /\ FarEnough(Trigger(r, at[t]), at[t], lastSent[i])
<1> DEFINE f == Trigger(r, at[t])
<1>t. /\ r.fireCount \in Nat /\ r.nextRunAt \in OptTime /\ r.recurEvery \in OptTime
      /\ r.profile \in ProfileNames
  BY DEF Reminder
<1>a. at[t] \in Nat
  BY DEF TypeOK
<1>1. /\ f.fireCount = r.fireCount + 1
      /\ f.profile = r.profile
      /\ f.recurEvery = r.recurEvery
      /\ f.nextRunAt = ComputeNextRunAt([r EXCEPT !.fireCount = @ + 1], at[t])
  BY <1>a, TriggerFacts
<1>2. PICK n \in Nat : n = r.fireCount + 1
  BY <1>t
<1>g. PICK g : g = [r EXCEPT !.fireCount = n]
  OBVIOUS
<1>h. g.fireCount = n /\ g.profile = r.profile /\ g.recurEvery = r.recurEvery
  BY <1>g DEF Reminder
<1>3. /\ g.fireCount = f.fireCount /\ g.profile = f.profile /\ g.recurEvery = f.recurEvery
      /\ f.nextRunAt = ComputeNextRunAt(g, at[t])
  BY <1>1, <1>2, <1>g, <1>h
<1> HIDE DEF f
<1>4. Rescheduled(f, at[t])
  BY <1>3 DEF Rescheduled, ComputeNextRunAt, Gap, IsRecurring
<1>5. FarEnough(f, at[t], lastSent[i])
  <2> SUFFICES ASSUME f.fireCount > 1
               PROVE  at[t] >= lastSent[i] + Gap(r)
    BY <1>1, <1>t DEF FarEnough, Gap, IsRecurring
  <2>1. /\ r.nextRunAt \in Nat /\ lastSent[i] \in Nat
        /\ lastSent[i] + Gap(r) <= r.nextRunAt
    BY <1>1, <1>t DEF UpToDate
  <2>2. r.nextRunAt <= at[t]
    BY <2>1, NeverAssumption DEF IsDue
  <2>3. Gap(r) \in Nat
    <3>1. PolicyForProfile(r.profile) \in EscalationPolicy
      BY <1>t, PresetAssumption DEF PolicyForProfile
    <3>2. RepeatDelay(PolicyForProfile(r.profile), r.fireCount) \in Nat
      BY <1>t, <3>1, RepeatDelayType
    <3>3. QED
      BY <1>t, <3>2 DEF Gap, IsRecurring, OptTime
  <2>4. QED
    BY <1>a, <2>1, <2>2, <2>3
<1>6. f.fireCount = sent[i] + 1
  BY <1>1 DEF UpToDate
<1>7. QED
  BY <1>4, <1>5, <1>6 DEF f

LEMMA AccountInit ==
  ASSUME NEW t \in Tickers, Init
  PROVE  AccountInv(t)
BY DEF Init, AccountInv, Account, Drained, Handles, Nothing, IsEmpty

LEMMA AccountCommands ==
  ASSUME TypeInv, SafeInv, NEW t \in Tickers, Alone(t), AccountInv(t),
         \/ Clock
         \/ \E i \in Ids, cmd \in Commands : Create(i, cmd)
         \/ \E i \in Ids : Delete(i)
         \/ \E a \in Ackers, i \in Ids, u \in Users : AckLoad(a, i, u)
         \/ \E a \in Ackers : AckStore(a)
         \/ UNCHANGED vars
  PROVE  AccountInv(t)'
<1>t. TypeOK /\ Drained(t) /\ \A i \in Ids : Account(t, i)
  BY DEF TypeInv, AccountInv
<1>k. ASSUME UNCHANGED tickVars, \A i \in Ids : Account(t, i)'
      PROVE  AccountInv(t)'
  BY <1>k, <1>t DEF tickVars, AccountInv, Drained, IsEmpty
\* The id is the only thing that changes.
<1>o. ASSUME NEW i \in Ids, UNCHANGED <<tickVars, sent, lastSent>>,
             db'[i] = db[i], created'[i] = created[i]
      PROVE  Account(t, i)'
  BY <1>o, <1>t, AccountSame DEF tickVars, Handles
<1>1. ASSUME UNCHANGED <<db, tickVars, sent, lastSent, created>>
      PROVE  AccountInv(t)'
  BY <1>1, <1>k, <1>o
<1>2. ASSUME NEW i \in Ids, Remove(i), UNCHANGED <<tickVars, sent, lastSent, created>>
      PROVE  AccountInv(t)'
  <2>1. \A j \in Ids : db'[j] = IF j = i THEN None ELSE db[j]
    BY <1>2, <1>t DEF Remove, TypeOK
  <2>2. Account(t, i)'
    BY <1>2, <1>t, <2>1
       DEF tickVars, Account, Handles
  <2>3. QED
    BY <1>2, <1>k, <1>o, <2>1, <2>2
<1>3. ASSUME NEW i \in Ids, NEW cmd \in Commands, Create(i, cmd)
      PROVE  AccountInv(t)'
  <2>a. /\ created[i] < 1
        /\ created' = [created EXCEPT ![i] = created[i] + 1]
        /\ db' = [db EXCEPT ![i] = New(cmd)]
        /\ UNCHANGED <<tickVars, sent, lastSent>>
    BY <1>3 DEF Create, Save, Alone
  <2>b. created[i] \in Nat
    BY <1>t DEF TypeOK
  <2>c. created[i] = 0 /\ created[i] + 1 = 1
    BY <2>a, <2>b
  <2>1. /\ created[i] = 0
        /\ created' = [created EXCEPT ![i] = 1]
        /\ db' = [db EXCEPT ![i] = New(cmd)]
        /\ UNCHANGED <<tickVars, sent, lastSent>>
    BY <2>a, <2>c
  <2>2. created'[i] = 1 /\ db'[i] = New(cmd)
        /\ \A j \in Ids \ {i} : db'[j] = db[j] /\ created'[j] = created[j]
    BY <1>t, <2>1 DEF TypeOK
  <2>3. rows[t][i] = None /\ due[t][i] = None /\ sent[i] = 0
    BY <1>t, <2>1 DEF Account
  <2>4. ~Handles(t, i, "notify") /\ ~Handles(t, i, "store")
    BY <2>3 DEF Handles, SafeInv, InHandSound, Busy
  <2>5. rows'[t][i] = None /\ due'[t][i] = None /\ sent'[i] = 0
        /\ ~Handles(t, i, "notify")' /\ ~Handles(t, i, "store")'
    BY <2>1, <2>3, <2>4 DEF tickVars, Handles
  <2>6. Account(t, i)'
    BY <2>2, <2>5, NewType DEF Account, UpToDate
  <2>7. QED
    BY <1>k, <1>o, <2>1, <2>2, <2>6
<1>4. ASSUME NEW a \in Ackers, AckStore(a)
      PROVE  AccountInv(t)'
  <2>1. ack[a].id \in Ids /\ Remove(ack[a].id)
    BY <1>4, <1>t DEF AckStore, SafeInv, AcksComplete, TypeOK, InFlight
  <2>2. QED
    BY <1>2, <1>4, <2>1 DEF AckStore
<1>5. QED
  BY <1>1, <1>2, <1>3, <1>4 DEF Clock, Delete, AckLoad, vars, history

LEMMA AccountTick ==
  ASSUME TypeInv, SafeInv, NEW t \in Tickers, Alone(t), AccountInv(t),
         TickList(t) \/ TickStep(t)
  PROVE  AccountInv(t)'
<1>t. TypeOK /\ Drained(t) /\ \A i \in Ids : Account(t, i)
  BY DEF TypeInv, AccountInv
<1>1. ASSUME TickList(t)
      PROVE  AccountInv(t)'
  <2> DEFINE listed == [i \in Ids |->
                   IF db[i] # None /\ IsDue(db[i], now) THEN db[i] ELSE None]
  <2>1. pc[t] = "idle" /\ UNCHANGED <<db, created, sent, lastSent>>
    BY <1>1 DEF TickList, history
  <2>2. CASE UNCHANGED tickVars
    <3>1. ASSUME NEW i \in Ids
          PROVE  Account(t, i)'
      BY <1>t, <2>1, <2>2, AccountSame DEF tickVars, Handles
    <3>2. Drained(t)'
      BY <1>t, <2>2 DEF tickVars, Drained, IsEmpty
    <3>3. QED
      BY <3>1, <3>2 DEF AccountInv
  <2>3. CASE /\ pc' = [pc EXCEPT ![t] = "hydrate"]
             /\ at' = [at EXCEPT ![t] = now]
             /\ rows' = [rows EXCEPT ![t] = listed]
             /\ UNCHANGED <<due, cur>>
    <3>1. pc'[t] = "hydrate" /\ at'[t] = now /\ rows'[t] = listed /\ due'[t] = due[t]
      BY <1>t, <2>3 DEF TypeOK
    <3>2. \A i \in Ids : listed[i] # None => listed[i] = db[i] /\ IsDue(db[i], now)
      OBVIOUS
    <3> HIDE DEF listed
    <3>3. ASSUME NEW i \in Ids
          PROVE  Account(t, i)'
      <4>1. due[t][i] = None /\ ~Handles(t, i, "store")
        BY <1>t, <2>1 DEF Drained, IsEmpty, Handles
      <4>2. ~Handles(t, i, "store")' /\ ~Handles(t, i, "notify")'
        BY <3>1 DEF Handles
      <4>3. db[i] # None => UpToDate(db[i], sent[i], lastSent[i])
        BY <1>t, <4>1 DEF Account
      <4>4. db'[i] # None => UpToDate(db'[i], sent'[i], lastSent'[i])
        BY <2>1, <4>3
      <4>5. QED
        BY <1>t, <2>1, <3>1, <3>2, <4>1, <4>2, <4>4 DEF Account
    <3>4. Drained(t)'
      BY <3>1 DEF Drained
    <3>5. QED
      BY <3>3, <3>4 DEF AccountInv
  <2>4. QED
    BY <1>1, <2>2, <2>3 DEF TickList
<1>2. ASSUME NEW i \in Ids, TickHydrate(t, i)
      PROVE  AccountInv(t)'
  <2> DEFINE rest == [rows[t] EXCEPT ![i] = None]
             row == rows[t][i]
             copy == Hydrate(rows[t][i], db[i])
  <2>1. /\ pc[t] = "hydrate" /\ row # None
        /\ rows' = [rows EXCEPT ![t] = rest]
        /\ due' = [due EXCEPT ![t] = [@ EXCEPT ![i] = copy]]
        /\ pc' = [pc EXCEPT ![t] = IF IsEmpty(rest) THEN "evaluate" ELSE @]
        /\ UNCHANGED <<db, at, cur, created, sent, lastSent>>
    BY <1>2 DEF TickHydrate, history
  <2>2. row \in Reminder
    BY <1>t, <2>1 DEF TypeOK, OptReminder
  <2>3. /\ copy.fireCount = row.fireCount /\ copy.nextRunAt = row.nextRunAt
        /\ copy.triggerAt = row.triggerAt /\ copy.profile = row.profile
        /\ copy.recurEvery = row.recurEvery
    BY <2>2 DEF Hydrate, Reminder
  <2>4. /\ rest[i] = None /\ \A j \in Ids \ {i} : rest[j] = rows[t][j]
    BY <1>t DEF TypeOK
  <2>5. UpToDate(row, sent[i], lastSent[i]) /\ IsDue(row, at[t]) /\ created[i] # 0
    BY <1>t, <2>1 DEF Account
  <2> HIDE DEF copy, row, rest
  <2>6. /\ rows'[t] = rest
        /\ due'[t][i] = copy /\ \A j \in Ids \ {i} : due'[t][j] = due[t][j]
        /\ pc'[t] = IF IsEmpty(rest) THEN "evaluate" ELSE "hydrate"
    BY <1>t, <2>1 DEF TypeOK
  <2>7. \A j \in Ids : /\ ~Handles(t, j, "notify") /\ ~Handles(t, j, "notify")'
                       /\ ~Handles(t, j, "store") /\ ~Handles(t, j, "store")'
    BY <2>1, <2>6 DEF Handles
  <2>8. ASSUME NEW j \in Ids \ {i}
        PROVE  Account(t, j)'
    BY <1>t, <2>1, <2>4, <2>6, <2>7, AccountSame
  <2>9. Account(t, i)'
    <3>1. UpToDate(copy, sent'[i], lastSent'[i]) /\ IsDue(copy, at[t])
      BY <2>1, <2>3, <2>5 DEF UpToDate, IsDue, Gap, IsRecurring
    <3>2. db'[i] # None => UpToDate(db'[i], sent'[i], lastSent'[i])
      BY <1>t, <2>1, <2>7 DEF Account
    <3>3. QED
      BY <2>1, <2>4, <2>5, <2>6, <2>7, <3>1, <3>2 DEF Account
  <2>10. Drained(t)'
    BY <2>6 DEF Drained, IsEmpty
  <2>11. QED
    BY <2>8, <2>9, <2>10 DEF AccountInv
<1>3. ASSUME NEW i \in Ids, Continue(t, [due[t] EXCEPT ![i] = None]),
             pc[t] # "hydrate", UNCHANGED <<created, sent, lastSent>>,
             \A j \in Ids \ {i} : db'[j] = db[j] /\ ~Handles(t, j, "store"),
             db'[i] # None => UpToDate(db'[i], sent[i], lastSent[i]) /\ created[i] # 0
      PROVE  AccountInv(t)'
  <2>1. /\ due'[t][i] = None /\ \A j \in Ids \ {i} : due'[t][j] = due[t][j]
        /\ pc'[t] = IF IsEmpty([due[t] EXCEPT ![i] = None]) THEN "idle" ELSE "evaluate"
        /\ at'[t] = IF IsEmpty([due[t] EXCEPT ![i] = None]) THEN 0 ELSE at[t]
        /\ due'[t] = [due[t] EXCEPT ![i] = None]
        /\ rows' = rows
    BY <1>3, <1>t DEF Continue, TypeOK
  <2>2. \A j \in Ids : rows'[t][j] = None
    BY <1>3, <1>t, <2>1 DEF Drained, IsEmpty
  <2>3. pc'[t] \in {"idle", "evaluate"}
    BY <2>1
  <2>4. Account(t, i)'
    BY <1>3, <1>t, <2>1, <2>2, <2>3, AccountLeft
  <2>5. ASSUME NEW j \in Ids \ {i}
        PROVE  Account(t, j)'
    <3>1. due'[t][j] # None => at'[t] = at[t]
      BY <2>1, <2>5 DEF IsEmpty
    <3>2. db'[j] # None => UpToDate(db'[j], sent[j], lastSent[j]) /\ created[j] # 0
      BY <1>3, <1>t, <2>5 DEF Account
    <3>3. QED
      BY <1>3, <1>t, <2>1, <2>2, <2>3, <2>5, <3>1, <3>2, AccountLeft
  <2>6. Drained(t)'
    BY <2>1, <2>2 DEF Drained, IsEmpty
  <2>7. QED
    BY <2>4, <2>5, <2>6 DEF AccountInv
<1>4. ASSUME NEW i \in Ids, TickDiscard(t, i)
      PROVE  AccountInv(t)'
  <2>1. \A j \in Ids : db'[j] = IF j = i THEN None ELSE db[j]
    BY <1>4, <1>t DEF TickDiscard, Remove, TypeOK
  <2>2. \A j \in Ids : ~Handles(t, j, "store")
    BY <1>4 DEF TickDiscard, Handles
  <2>3. QED
    BY <1>3, <1>4, <2>1, <2>2 DEF TickDiscard
<1>5. ASSUME NEW i \in Ids, TickTrigger(t, i)
      PROVE  AccountInv(t)'
  <2> DEFINE fired == Trigger(due[t][i], at[t])
  <2>1. /\ pc[t] = "evaluate" /\ due[t][i] # None
        /\ cur' = [cur EXCEPT ![t] = [id |-> i, rem |-> fired]]
        /\ pc' = [pc EXCEPT ![t] = "notify"]
        /\ UNCHANGED <<db, at, rows, due, created, sent, lastSent>>
    BY <1>5 DEF TickTrigger, history
  <2>2. due[t][i] \in Reminder
    BY <1>t, <2>1 DEF TypeOK, OptReminder
  <2>3. UpToDate(due[t][i], sent[i], lastSent[i]) /\ IsDue(due[t][i], at[t])
    BY <1>t, <2>1 DEF Account, Handles
  <2>4. /\ fired.fireCount = sent[i] + 1
        /\ Rescheduled(fired, at[t]) /\ FarEnough(fired, at[t], lastSent[i])
    BY <1>t, <2>2, <2>3, TriggerAccount
  <2> HIDE DEF fired
  <2>5. pc'[t] = "notify" /\ cur'[t].id = i /\ cur'[t].rem = fired
    BY <1>t, <2>1 DEF TypeOK
  <2>6. \A j \in Ids : ~Handles(t, j, "store") /\ ~Handles(t, j, "store")'
    BY <2>1, <2>5 DEF Handles
  <2>7. ASSUME NEW j \in Ids
        PROVE  Account(t, j)'
    <3>2. /\ db'[j] # None => UpToDate(db'[j], sent'[j], lastSent'[j])
          /\ rows'[t][j] # None =>
               UpToDate(rows'[t][j], sent'[j], lastSent'[j]) /\ IsDue(rows'[t][j], at'[t])
          /\ due'[t][j] # None =>
               UpToDate(due'[t][j], sent'[j], lastSent'[j]) /\ IsDue(due'[t][j], at'[t])
          /\ created'[j] = 0 =>
               db'[j] = None /\ rows'[t][j] = None /\ due'[t][j] = None /\ sent'[j] = 0
      BY <1>t, <2>1, <2>6 DEF Account
    <3>3. Handles(t, j, "notify")' => j = i
      BY <2>5 DEF Handles
    <3>4. Rescheduled(cur'[t].rem, at'[t]) /\ FarEnough(cur'[t].rem, at'[t], lastSent'[i])
      BY <2>1, <2>4, <2>5
    <3>5. QED
      BY <2>1, <2>4, <2>5, <2>6, <3>2, <3>3, <3>4 DEF Account
  <2>8. Drained(t)'
    BY <1>t, <2>1, <2>5 DEF Drained, IsEmpty
  <2>9. QED
    BY <2>7, <2>8 DEF AccountInv
<1>6. ASSUME TickNotify(t)
      PROVE  AccountInv(t)'
  <2>a. pc[t] = "notify"
    BY <1>6 DEF TickNotify
  <2>b. cur[t].id \in Ids
    BY <1>t, <2>a DEF TypeInv, InHand, TypeOK, InFlight
  <2>c. PICK i \in Ids : i = cur[t].id
    BY <2>b
  <2>1. /\ pc[t] = "notify" /\ pc' = [pc EXCEPT ![t] = "store"]
        /\ sent' = [sent EXCEPT ![i] = sent[i] + 1]
        /\ lastSent' = [lastSent EXCEPT ![i] = at[t]]
        /\ UNCHANGED <<db, at, rows, due, cur, created>>
    BY <1>6, <2>c DEF TickNotify, Deliver
  <2>2. due[t][i] # None /\ at[t] \in Nat /\ sent[i] \in Nat
    BY <1>t, <2>a, <2>c DEF TypeOK, SafeInv, InHandSound, Busy
  <2>3. Handles(t, i, "notify")
    BY <2>1, <2>c DEF Handles
  <2>4. pc'[t] = "store" /\ sent'[i] = sent[i] + 1 /\ lastSent'[i] = at[t]
        /\ \A j \in Ids \ {i} : sent'[j] = sent[j] /\ lastSent'[j] = lastSent[j]
    BY <1>t, <2>1, <2>2 DEF TypeOK
  <2>5. ASSUME NEW j \in Ids \ {i}
        PROVE  Account(t, j)'
    <3>1. /\ ~Handles(t, j, "notify") /\ ~Handles(t, j, "store")
          /\ ~Handles(t, j, "notify")' /\ ~Handles(t, j, "store")'
      BY <2>1, <2>4, <2>c DEF Handles
    <3>2. QED
      BY <1>t, <2>1, <2>4, <3>1, AccountSame
  <2>6. Account(t, i)'
    <3>1. Handles(t, i, "store")' /\ ~Handles(t, i, "notify")' /\ ~Handles(t, i, "store")
      BY <2>1, <2>4, <2>c DEF Handles
    <3>2. /\ cur[t].rem.fireCount = sent[i] + 1 /\ Rescheduled(cur[t].rem, at[t])
          /\ created[i] # 0
          /\ db[i] # None => sent[i] = db[i].fireCount
      BY <1>t, <2>2, <2>3, <3>1 DEF Account, UpToDate
    <3>3. rows[t][i] = None
      BY <1>t, <2>1, <2>2 DEF Drained, IsEmpty
    <3>4. Rescheduled(cur'[t].rem, at'[t])
      BY <2>1, <3>2
    <3>5. QED
      BY <2>1, <2>4, <3>1, <3>2, <3>3, <3>4 DEF Account
  <2>7. Drained(t)'
    BY <1>t, <2>1, <2>4 DEF Drained, IsEmpty
  <2>8. QED
    BY <2>5, <2>6, <2>7 DEF AccountInv
<1>7. ASSUME TickStore(t)
      PROVE  AccountInv(t)'
  <2> DEFINE i == cur[t].id
             r == cur[t].rem
  <2>1. /\ pc[t] = "store"
        /\ db' = [db EXCEPT ![i] = IF r.nextRunAt = Never THEN None ELSE r]
        /\ Continue(t, [due[t] EXCEPT ![i] = None])
        /\ UNCHANGED <<created, sent, lastSent>>
    BY <1>7 DEF TickStore, Remove, Save
  <2>2. i \in Ids /\ due[t][i] # None /\ r \in Reminder /\ at[t] \in Nat
    BY <1>t, <2>1 DEF TypeInv, InHand, TypeOK, InFlight, SafeInv, InHandSound, Busy
  <2>3. /\ r.fireCount = sent[i] /\ lastSent[i] = at[t] /\ Rescheduled(r, at[t])
        /\ created[i] # 0
    BY <1>t, <2>1, <2>2 DEF Account, Handles
  <2>4. \A j \in Ids \ {i} : ~Handles(t, j, "store")
    BY DEF Handles
  <2> HIDE DEF i, r
  <2>5. /\ db'[i] = IF r.nextRunAt = Never THEN None ELSE r
        /\ \A j \in Ids \ {i} : db'[j] = db[j]
    BY <1>t, <2>1, <2>2 DEF TypeOK
  <2>6. db'[i] # None => UpToDate(db'[i], sent[i], lastSent[i]) /\ created[i] # 0
    <3>1. r.nextRunAt \in OptTime
      BY <2>2 DEF Reminder
    <3>2. r.nextRunAt # Never => r.nextRunAt \in Nat /\ r.nextRunAt = lastSent[i] + Gap(r)
      BY <2>3, <3>1 DEF OptTime, Rescheduled
    <3>3. QED
      BY <2>2, <2>3, <2>5, <3>2 DEF UpToDate
  <2>7. QED
    BY <1>3, <2>1, <2>2, <2>4, <2>5, <2>6
<1>8. ASSUME TickRefused(t)
      PROVE  AccountInv(t)'
  <2>1. /\ pc[t] = "notify" /\ UNCHANGED <<db, created, sent, lastSent>> /\ Abort(t)
    BY <1>8 DEF TickRefused, history
  <2>2. pc'[t] = "idle" /\ \A i \in Ids : rows'[t][i] = None /\ due'[t][i] = None
    BY <1>t, <2>1 DEF Abort, Nothing, TypeOK
  <2>3. ASSUME NEW i \in Ids
        PROVE  Account(t, i)'
    <3>1. db'[i] # None => UpToDate(db'[i], sent[i], lastSent[i]) /\ created[i] # 0
      BY <1>t, <2>1 DEF Account, Handles
    <3>2. QED
      BY <1>t, <2>1, <2>2, <3>1, AccountLeft
  <2>4. Drained(t)'
    BY <2>2 DEF Drained, IsEmpty
  <2>5. QED
    BY <2>3, <2>4 DEF AccountInv
<1>9. QED
  BY <1>1, <1>2, <1>4, <1>5, <1>6, <1>7, <1>8 DEF TickStep

LEMMA AccountNext ==
  ASSUME NEW t, Alone(t), TypeInv, SafeInv, AccountInv(t), [Next]_vars
  PROVE  AccountInv(t)'
<1>1. t \in Tickers /\ Tickers = {t}
  BY DEF Alone
<1>2. /\ ~Crash
      /\ \A u \in Tickers : ~TickFail(u) /\ ~TickFailPartly(u)
      /\ \A a \in Ackers : ~AckFail(a)
  <2>1. faults \in Nat /\ crashes \in Nat /\ MaxFaults = 0 /\ MaxCrashes = 0
    BY DEF Alone, TypeInv, TypeOK
  <2>2. ~(faults < MaxFaults) /\ ~(crashes < MaxCrashes)
    BY <2>1
  <2>3. QED
    BY <2>2 DEF Crash, TickFail, TickFailPartly, AckFail
<1>3. QED
  BY <1>1, <1>2, AccountCommands, AccountTick DEF Next

\* Where ticks do not overlap, an id is used once and nothing fails, each notification
\* is counted once, and two of them are at least the delay of the profile, or the
\* period, apart: for any commands, presets and times, and whatever deletes and
\* acknowledgements race with the tick.
THEOREM Accounts ==
  ASSUME NEW t, Alone(t)
  PROVE  Spec => [](ExactAccounting /\ EscalationHonoured)
<1>1. Tickers = {t}
  BY DEF Alone
<1>2. ASSUME TypeInv, AccountInv(t)
      PROVE  ExactAccounting /\ EscalationHonoured
  <2>1. ASSUME NEW i \in Ids, db[i] # None
        PROVE  sent[i] = db[i].fireCount + Cardinality(Storing(i))
    <3>1. Account(t, i)
      BY <1>2 DEF AccountInv
    <3>2. db[i].fireCount \in Nat
      BY <1>2, <2>1 DEF TypeInv, TypeOK, OptReminder, Reminder
    <3>3. CASE Handles(t, i, "store")
      <4>1. Storing(i) = {t}
        BY <1>1, <3>3 DEF Storing, Handles
      <4>2. Cardinality(Storing(i)) = 1
        BY <4>1, FS_Singleton
      <4>3. QED
        BY <2>1, <3>1, <3>3, <4>2 DEF Account
    <3>4. CASE ~Handles(t, i, "store")
      <4>1. Storing(i) = {}
        BY <1>1, <3>4 DEF Storing, Handles
      <4>2. Cardinality(Storing(i)) = 0
        BY <4>1, FS_EmptySet
      <4>3. QED
        BY <2>1, <3>1, <3>2, <3>4, <4>2 DEF Account, UpToDate
    <3>5. QED
      BY <3>3, <3>4
  <2>2. ASSUME pc[t] = "notify"
        PROVE  FarEnough(cur[t].rem, at[t], lastSent[cur[t].id])
    <3>1. cur[t].id \in Ids
      BY <1>1, <1>2, <2>2 DEF TypeInv, InHand, TypeOK, InFlight
    <3>2. QED
      BY <1>2, <2>2, <3>1 DEF AccountInv, Account, Handles
  <2>3. QED
    BY <1>1, <2>1, <2>2 DEF ExactAccounting, EscalationHonoured, FarEnough
<1>3. Spec => []TypeInv
  BY TypeInit, TypeNext, PTL DEF Spec
<1>4. Spec => []SafeInv
  BY <1>3, SafeInit, SafeNext, PTL DEF Spec
<1>5. Init => AccountInv(t)
  BY <1>1, AccountInit
<1>6. TypeInv /\ SafeInv /\ AccountInv(t) /\ [Next]_vars => AccountInv(t)'
  BY AccountNext
<1> HIDE DEF AccountInv
<1>7. Spec => []AccountInv(t)
  BY <1>3, <1>4, <1>5, <1>6, PTL DEF Spec
<1>8. QED
  BY <1>2, <1>3, <1>7, PTL

\* Under the same conditions no notification comes too early: a repeat waits for the
\* delay of the profile, a recurrence for the period (Trigger, calculateNextRun), even
\* where a delete or an acknowledgement meets the tick.
THEOREM DelaysAreKept ==
  ASSUME NEW t, Alone(t)
  PROVE  Spec => []EscalationHonoured
<1>1. Spec => [](ExactAccounting /\ EscalationHonoured)
  BY Accounts
<1>2. QED
  BY <1>1, PTL

-------------------------------------------------------------------------------
(* The presets of policy.go.                                               *)

\* With the presets of the source, a repeat always comes five minutes to an hour
\* after the firing before it, and the annoying profile never slows down again.
THEOREM PresetDelays ==
  ASSUME NEW n \in Nat, n >= 1
  PROVE  /\ \A p \in ProfileNames :
              RepeatDelay(Presets[p], n) >= 5 /\ RepeatDelay(Presets[p], n) <= 60
         /\ RepeatDelay(EscalationAnnoying, n + 1) <= RepeatDelay(EscalationAnnoying, n)
<1>1. RepeatDelay(EscalationAnnoying, n) =
        IF n = 1 THEN 15 ELSE IF 15 - (n - 2) * 2 < 5 THEN 5 ELSE 15 - (n - 2) * 2
  BY DEF RepeatDelay, EscalationAnnoying
<1>2. RepeatDelay(EscalationAnnoying, n + 1) =
        IF 15 - (n - 1) * 2 < 5 THEN 5 ELSE 15 - (n - 1) * 2
  BY DEF RepeatDelay, EscalationAnnoying
<1>3. RepeatDelay(EscalationNormal, n) = 15
  BY DEF RepeatDelay, EscalationNormal
<1>4. RepeatDelay(EscalationQuiet, n) = IF n = 1 THEN 30 ELSE 60
  BY DEF RepeatDelay, EscalationQuiet
<1>5. /\ Presets["quiet"] = EscalationQuiet
      /\ Presets["normal"] = EscalationNormal
      /\ Presets["annoying"] = EscalationAnnoying
  BY DEF Presets
<1>6. RepeatDelay(EscalationAnnoying, n) >= 5 /\ RepeatDelay(EscalationAnnoying, n) <= 15
  BY <1>1
<1>7. RepeatDelay(EscalationAnnoying, n + 1) <= RepeatDelay(EscalationAnnoying, n)
  BY <1>1, <1>2
<1>8. ASSUME NEW p \in ProfileNames
      PROVE  RepeatDelay(Presets[p], n) >= 5 /\ RepeatDelay(Presets[p], n) <= 60
  <2>1. CASE p = "quiet"
    <3>1. RepeatDelay(Presets[p], n) \in {30, 60}
      BY <1>4, <1>5, <2>1
    <3>2. QED
      BY <3>1
  <2>2. CASE p = "normal"
    <3>1. RepeatDelay(Presets[p], n) = 15
      BY <1>3, <1>5, <2>2
    <3>2. QED
      BY <3>1
  <2>3. CASE p = "annoying"
    <3>1. RepeatDelay(Presets[p], n) = RepeatDelay(EscalationAnnoying, n)
      BY <1>5, <2>3
    <3>2. RepeatDelay(EscalationAnnoying, n) \in 5..15
      BY <1>1
    <3>3. QED
      BY <3>1, <3>2
  <2>4. QED
    BY <2>1, <2>2, <2>3 DEF ProfileNames
<1>9. QED
  BY <1>7, <1>8
-------------------------------------------------------------------------------
(* The reminder service implements the alarm book of ReminderBook, for any *)
(* sets of ids, users and goroutines, any presets and any bounds.          *)

\* Only a Tick that is reading targets holds listed rows, and a reminder in hand has
\* fired at least once.  Without the first a new list could drop old copies; without
\* the second a tick could enter a row afresh.
RowsRead == \A t \in Tickers : pc[t] # "hydrate" => IsEmpty(rows[t])

HasFired == \A t \in Tickers : Busy(t) => cur[t].rem.fireCount >= 1

BookkeepingInv == RowsRead /\ HasFired

LEMMA BookkeepingInit == Init => BookkeepingInv
BY DEF Init, BookkeepingInv, RowsRead, HasFired, Busy, IsEmpty, Nothing

\* The condition for one ticker.
Tidy(t) ==
  /\ pc[t] # "hydrate" => IsEmpty(rows[t])
  /\ Busy(t) => cur[t].rem.fireCount >= 1

LEMMA TidyKept ==
  ASSUME BookkeepingInv, NEW t \in Tickers,
         pc'[t] = pc[t], rows'[t] = rows[t], cur'[t] = cur[t]
  PROVE  Tidy(t)'
BY DEF BookkeepingInv, RowsRead, HasFired, Tidy, Busy, IsEmpty

LEMMA BookkeepingNext ==
  TypeInv /\ BookkeepingInv /\ [Next]_vars => BookkeepingInv'
<1> SUFFICES ASSUME TypeInv, BookkeepingInv, [Next]_vars
             PROVE  BookkeepingInv'
  OBVIOUS
<1>t. TypeOK
  BY DEF TypeInv
<1>q. ASSUME \A t \in Tickers : Tidy(t)'
      PROVE  BookkeepingInv'
  BY <1>q DEF Tidy, BookkeepingInv, RowsRead, HasFired
<1>1. ASSUME UNCHANGED tickVars
      PROVE  BookkeepingInv'
  BY <1>1, <1>q, TidyKept DEF tickVars
<1>2. ASSUME NEW t \in Tickers, NEW i \in Ids, Continue(t, [due[t] EXCEPT ![i] = None]),
             pc[t] # "hydrate"
      PROVE  BookkeepingInv'
  <2>1. \A u \in Tickers \ {t} : Tidy(u)'
    BY <1>2, <1>t, TidyKept DEF Continue, TypeOK
  <2>2. Tidy(t)'
    BY <1>2, <1>t DEF Continue, TypeOK, Tidy, Busy, BookkeepingInv, RowsRead, IsEmpty
  <2>3. QED
    BY <1>q, <2>1, <2>2
<1>3. ASSUME NEW t \in Tickers, Abort(t)
      PROVE  BookkeepingInv'
  <2>1. \A u \in Tickers \ {t} : Tidy(u)'
    BY <1>3, <1>t, TidyKept DEF Abort, TypeOK
  <2>2. Tidy(t)'
    BY <1>3, <1>t DEF Abort, TypeOK, Tidy, Busy, IsEmpty, Nothing
  <2>3. QED
    BY <1>q, <2>1, <2>2
<1>4. ASSUME NEW t \in Tickers, TickList(t)
      PROVE  BookkeepingInv'
  <2>1. CASE UNCHANGED tickVars
    BY <1>1, <2>1
  <2>2. CASE ~ UNCHANGED tickVars
    <3>1. /\ pc' = [pc EXCEPT ![t] = "hydrate"]
          /\ UNCHANGED cur
          /\ \A u \in Tickers \ {t} : rows'[u] = rows[u]
      BY <1>4, <1>t, <2>2 DEF TickList, TypeOK
    <3>2. \A u \in Tickers \ {t} : Tidy(u)'
      BY <1>t, <3>1, TidyKept DEF TypeOK
    <3>3. Tidy(t)'
      BY <1>t, <3>1 DEF TypeOK, Tidy, Busy
    <3>4. QED
      BY <1>q, <3>2, <3>3
  <2>3. QED
    BY <2>1, <2>2
<1>5. ASSUME NEW t \in Tickers, NEW i \in Ids, TickHydrate(t, i)
      PROVE  BookkeepingInv'
  <2> DEFINE rest == [rows[t] EXCEPT ![i] = None]
  <2>1. /\ pc[t] = "hydrate"
        /\ pc' = [pc EXCEPT ![t] = IF IsEmpty(rest) THEN "evaluate" ELSE @]
        /\ rows' = [rows EXCEPT ![t] = rest]
        /\ UNCHANGED cur
    BY <1>5 DEF TickHydrate
  <2> HIDE DEF rest
  <2>2. \A u \in Tickers \ {t} : Tidy(u)'
    BY <1>t, <2>1, TidyKept DEF TypeOK
  <2>3. /\ rows'[t] = rest
        /\ pc'[t] = IF IsEmpty(rest) THEN "evaluate" ELSE "hydrate"
    BY <1>t, <2>1 DEF TypeOK
  <2>4. Tidy(t)'
    BY <2>3 DEF Tidy, Busy, IsEmpty
  <2>5. QED
    BY <1>q, <2>2, <2>4
<1>6. ASSUME NEW t \in Tickers, NEW i \in Ids, TickTrigger(t, i)
      PROVE  BookkeepingInv'
  <2> DEFINE fired == Trigger(due[t][i], at[t])
  <2>1. due[t][i] \in Reminder /\ at[t] \in Nat
    BY <1>6, <1>t DEF TickTrigger, TypeOK, OptReminder
  <2>2. fired.fireCount = due[t][i].fireCount + 1 /\ due[t][i].fireCount \in Nat
    BY <2>1, TriggerFacts DEF Reminder
  <2> HIDE DEF fired
  <2>3. fired.fireCount >= 1
    BY <2>2
  <2>4. /\ pc[t] = "evaluate"
        /\ cur' = [cur EXCEPT ![t] = [id |-> i, rem |-> fired]]
        /\ pc' = [pc EXCEPT ![t] = "notify"]
        /\ UNCHANGED rows
    BY <1>6 DEF TickTrigger, fired
  <2>5. \A u \in Tickers \ {t} : Tidy(u)'
    BY <1>t, <2>4, TidyKept DEF TypeOK
  <2>6. cur'[t].rem = fired /\ IsEmpty(rows[t]) /\ rows' = rows
    BY <1>t, <2>4 DEF TypeOK, BookkeepingInv, RowsRead
  <2>7. Tidy(t)'
    BY <2>3, <2>6 DEF Tidy, IsEmpty
  <2>8. QED
    BY <1>q, <2>5, <2>7
<1>7. ASSUME NEW t \in Tickers, TickNotify(t)
      PROVE  BookkeepingInv'
  <2>1. /\ pc[t] = "notify" /\ pc' = [pc EXCEPT ![t] = "store"]
        /\ UNCHANGED <<rows, cur>>
    BY <1>7 DEF TickNotify
  <2>2. \A u \in Tickers \ {t} : Tidy(u)'
    BY <1>t, <2>1, TidyKept DEF TypeOK
  <2>3. Tidy(t)'
    BY <1>t, <2>1 DEF TypeOK, Tidy, Busy, IsEmpty, BookkeepingInv, RowsRead, HasFired
  <2>4. QED
    BY <1>q, <2>2, <2>3
<1>8. ASSUME NEW t \in Tickers, TickStep(t)
      PROVE  BookkeepingInv'
  <2>1. ASSUME NEW i \in Ids, TickDiscard(t, i)
        PROVE  BookkeepingInv'
    BY <1>2, <2>1 DEF TickDiscard
  <2>2. ASSUME TickStore(t)
        PROVE  BookkeepingInv'
    <3>1. cur[t].id \in Ids
      BY <2>2 DEF TickStore, TypeInv, TypeOK, InHand, InFlight
    <3>2. QED
      BY <1>2, <2>2, <3>1 DEF TickStore
  <2>3. ASSUME TickRefused(t)
        PROVE  BookkeepingInv'
    BY <1>3, <2>3 DEF TickRefused
  <2>4. QED
    BY <1>5, <1>6, <1>7, <1>8, <2>1, <2>2, <2>3 DEF TickStep
<1>9. ASSUME Crash
      PROVE  BookkeepingInv'
  BY <1>9 DEF Crash, BookkeepingInv, RowsRead, HasFired, Busy, IsEmpty, Nothing
<1>10. QED
  BY <1>1, <1>3, <1>4, <1>8, <1>9 DEF Next, Clock, Create, Delete, AckLoad, AckStore,
     AckFail, TickFail, TickFailPartly, vars

-------------------------------------------------------------------------------
(* What the operations do to the book.                                     *)

LEMMA SaveMaps ==
  ASSUME TypeOK, NEW i \in Ids, NEW r \in Reminder, Save(i, r)
  PROVE  Stored' = Stored \union {i} /\ Fires' = [Fires EXCEPT ![i] = r.fireCount]
BY NoneAssumption DEF Save, TypeOK, Stored, Fires

LEMMA RemoveMaps ==
  ASSUME TypeOK, NEW i \in Ids, Remove(i)
  PROVE  Stored' = Stored \ {i} /\ Fires' = [Fires EXCEPT ![i] = 0]
BY DEF Remove, TypeOK, Stored, Fires

\* A Tick that moves on gives up at most the copy it has handled: another Tick may
\* hold one too.
LEMMA ContinueMaps ==
  ASSUME TypeOK, NEW t \in Tickers, NEW i \in Ids,
         Continue(t, [due[t] EXCEPT ![i] = None])
  PROVE  Book!HandIn(i)
<1>1. \A u \in Tickers, j \in Ids :
        due'[u][j] = IF u = t /\ j = i THEN None ELSE due[u][j]
  BY DEF Continue, TypeOK
<1>2. rows' = rows
  BY DEF Continue
<1>3. Loose' \subseteq Loose /\ Loose \ {i} \subseteq Loose'
  BY <1>1, <1>2 DEF Loose, Held
<1>4. Loose' \in {Loose, Loose \ {i}}
  BY <1>3
<1>5. QED
  BY <1>4 DEF Book!HandIn

LEMMA AbortMaps ==
  ASSUME TypeOK, NEW t \in Tickers, Abort(t)
  PROVE  Loose' \subseteq Loose
<1>1. \A u \in Tickers, j \in Ids :
        /\ rows'[u][j] = IF u = t THEN None ELSE rows[u][j]
        /\ due'[u][j] = IF u = t THEN None ELSE due[u][j]
  BY DEF Abort, TypeOK, Nothing
<1>2. QED
  BY <1>1 DEF Loose, Held

\* The reminder a Tick notifies or stores is loose.
LEMMA InHandLoose ==
  ASSUME TypeInv, SafeInv, NEW t \in Tickers, Busy(t)
  PROVE  cur[t].id \in Loose /\ cur[t].rem \in Reminder
<1>1. cur[t].id \in Ids /\ cur[t].rem \in Reminder
  BY DEF TypeInv, TypeOK, InHand, InFlight, Busy
<1>2. QED
  BY <1>1 DEF SafeInv, InHandSound, Loose, Held

LEMMA TableKeptMaps ==
  ASSUME UNCHANGED db
  PROVE  Stored' = Stored /\ Fires' = Fires
BY DEF Stored, Fires

LEMMA TickersKeptMaps ==
  ASSUME UNCHANGED <<rows, due>>
  PROVE  Loose' = Loose
BY DEF Loose, Held

LEMMA InitMaps == Init => Book!Init
BY DEF Init, Book!Init, Stored, Fires, Loose, Held, Nothing

\* Every step of the service is a step of the book, or leaves it alone.
LEMMA StepMaps ==
  ASSUME TypeInv, SafeInv, BookkeepingInv, [Next]_vars
  PROVE  [Book!Next]_(Book!vars)
<1>t. TypeOK
  BY DEF TypeInv
<1>k. ASSUME UNCHANGED <<db, rows, due, sent>>
      PROVE  UNCHANGED Book!vars
  BY <1>k, TableKeptMaps, TickersKeptMaps DEF Book!vars
<1>1. ASSUME NEW i \in Ids, NEW cmd \in Commands, Create(i, cmd)
      PROVE  Book!Next
  <2>1. Stored' = Stored \union {i} /\ Fires' = [Fires EXCEPT ![i] = 0]
    BY <1>1, <1>t, NewType, SaveMaps DEF Create
  <2>2. Loose' = Loose /\ sent' = sent
    BY <1>1, TickersKeptMaps DEF Create, tickVars
  <2>3. Book!Accept(i)
    BY <2>1, <2>2 DEF Book!Accept
  <2>4. QED
    BY <2>3 DEF Book!Next
<1>2. ASSUME NEW i \in Ids, Remove(i), UNCHANGED <<rows, due, sent>>
      PROVE  Book!Next \/ UNCHANGED Book!vars
  <2>1. CASE db[i] = None
    <3>1. db' = db
      BY <1>2, <1>t, <2>1 DEF Remove, TypeOK
    <3>2. QED
      BY <1>2, <1>k, <3>1
  <2>2. CASE db[i] # None
    <3>1. i \in Stored
      BY <2>2 DEF Stored
    <3>2. Book!Withdraw(i)
      BY <1>2, <1>t, RemoveMaps, TickersKeptMaps DEF Book!Withdraw
    <3>3. QED
      BY <3>1, <3>2 DEF Book!Next
  <2>3. QED
    BY <2>1, <2>2
<1>3. ASSUME NEW a \in Ackers, AckStore(a)
      PROVE  Book!Next \/ UNCHANGED Book!vars
  <2>1. ack[a].id \in Ids /\ Remove(ack[a].id)
    BY <1>3, <1>t DEF AckStore, SafeInv, AcksComplete, TypeOK, InFlight
  <2>2. QED
    BY <1>2, <1>3, <2>1 DEF AckStore, tickVars
<1>4. ASSUME NEW t \in Tickers, TickList(t)
      PROVE  Book!Next \/ UNCHANGED Book!vars
  <2> DEFINE listed == [i \in Ids |->
                   IF db[i] # None /\ IsDue(db[i], now) THEN db[i] ELSE None]
             S == {i \in Ids : listed[i] # None}
  <2>1. UNCHANGED <<db, sent>>
    BY <1>4 DEF TickList, history
  <2>2. CASE UNCHANGED tickVars
    BY <1>k, <2>1, <2>2 DEF tickVars
  <2>3. CASE ~ UNCHANGED tickVars
    <3>1. /\ \A i \in Ids : rows[t][i] = None
          /\ due' = due
          /\ rows' = [rows EXCEPT ![t] = listed]
      BY <1>4, <2>3 DEF TickList, BookkeepingInv, RowsRead, IsEmpty
    <3>2. S \in SUBSET Stored
      BY DEF Stored
    <3>3. \A i \in Ids : listed[i] # None <=> i \in S
      OBVIOUS
    <3> HIDE DEF listed, S
    <3>4. \A u \in Tickers, i \in Ids :
            rows'[u][i] = IF u = t THEN listed[i] ELSE rows[u][i]
      BY <1>t, <3>1 DEF TypeOK
    <3>5. Loose' = Loose \union S
      BY <3>1, <3>2, <3>3, <3>4 DEF Loose, Held, Stored
    <3>6. Book!Take(S)
      BY <2>1, <3>5, TableKeptMaps DEF Book!Take
    <3>7. QED
      BY <3>2, <3>6 DEF Book!Next
  <2>4. QED
    BY <2>2, <2>3
<1>5. ASSUME NEW t \in Tickers, NEW i \in Ids, TickHydrate(t, i)
      PROVE  UNCHANGED Book!vars
  <2> DEFINE copy == Hydrate(rows[t][i], db[i])
  <2>1. /\ rows[t][i] # None
        /\ rows' = [rows EXCEPT ![t] = [rows[t] EXCEPT ![i] = None]]
        /\ due' = [due EXCEPT ![t] = [@ EXCEPT ![i] = copy]]
        /\ UNCHANGED <<db, sent>>
    BY <1>5 DEF TickHydrate, history
  <2>2. copy # None
    <3>1. copy \in Reminder
      BY <1>t, <2>1, HydrateFacts DEF TypeOK, OptReminder
    <3>2. QED
      BY <3>1, NoneAssumption
  <2> HIDE DEF copy
  <2>3. \A u \in Tickers, j \in Ids :
          /\ rows'[u][j] = IF u = t /\ j = i THEN None ELSE rows[u][j]
          /\ due'[u][j] = IF u = t /\ j = i THEN copy ELSE due[u][j]
    BY <1>t, <2>1 DEF TypeOK
  <2>4. \A j \in Ids : Held(j)' <=> Held(j)
    BY <2>1, <2>2, <2>3 DEF Held
  <2>5. Loose' = Loose
    BY <2>4 DEF Loose
  <2>6. QED
    BY <2>1, <2>5, TableKeptMaps DEF Book!vars
<1>6. ASSUME NEW t \in Tickers, NEW i \in Ids, TickDiscard(t, i)
      PROVE  Book!Next
  <2>1. i \in Loose
    BY <1>6 DEF TickDiscard, Loose, Held
  <2>2. Book!Finish(i)
    BY <1>6, <1>t, RemoveMaps, ContinueMaps DEF TickDiscard, Book!Finish
  <2>3. QED
    BY <2>1, <2>2 DEF Book!Next
<1>7. ASSUME NEW t \in Tickers, NEW i \in Ids, TickTrigger(t, i)
      PROVE  UNCHANGED Book!vars
  BY <1>7, <1>k DEF TickTrigger, history
<1>8. ASSUME NEW t \in Tickers, TickNotify(t) \/ TickFailPartly(t)
      PROVE  Book!Next
  <2>1. cur[t].id \in Loose
    BY <1>8, InHandLoose DEF TickNotify, TickFailPartly, Busy
  <2>2. sent' = [sent EXCEPT ![cur[t].id] = @ + 1] /\ db' = db
    BY <1>8 DEF TickNotify, TickFailPartly, Deliver
  <2>3. Loose' \subseteq Loose
    <3>1. CASE TickNotify(t)
      BY <3>1, TickersKeptMaps DEF TickNotify
    <3>2. CASE TickFailPartly(t)
      BY <1>t, <3>2, AbortMaps DEF TickFailPartly
    <3>3. QED
      BY <1>8, <3>1, <3>2
  <2>4. Book!Notify(cur[t].id)
    BY <2>2, <2>3, TableKeptMaps DEF Book!Notify
  <2>5. QED
    BY <2>1, <2>4 DEF Book!Next
<1>9. ASSUME NEW t \in Tickers, TickStore(t)
      PROVE  Book!Next
  <2>1. PICK i \in Ids, r \in Reminder : i = cur[t].id /\ r = cur[t].rem
    BY <1>9, InHandLoose DEF TickStore, Busy, Loose
  <2>2. i \in Loose
    BY <1>9, <2>1, InHandLoose DEF TickStore, Busy
  <2>3. r.fireCount \in 1 .. sent[i]
    <3>1. r.fireCount <= sent[i] /\ r.fireCount >= 1
      BY <1>9, <2>1 DEF TickStore, SafeInv, InHandSound, Sound, Busy, BookkeepingInv,
         HasFired
    <3>2. r.fireCount \in Nat /\ sent[i] \in Nat
      BY <1>t DEF Reminder, TypeOK
    <3>3. QED
      BY <3>1, <3>2
  <2>4. Book!HandIn(i) /\ sent' = sent
    BY <1>9, <1>t, <2>1, ContinueMaps DEF TickStore
  <2>5. CASE r.nextRunAt = Never
    <3>1. Book!Finish(i)
      BY <1>9, <1>t, <2>1, <2>4, <2>5, RemoveMaps DEF TickStore, Book!Finish
    <3>2. QED
      BY <2>2, <3>1 DEF Book!Next
  <2>6. CASE r.nextRunAt # Never
    <3>1. Book!Record(i, r.fireCount)
      BY <1>9, <1>t, <2>1, <2>4, <2>6, SaveMaps DEF TickStore, Book!Record
    <3>2. QED
      BY <2>2, <2>3, <3>1 DEF Book!Next
  <2>7. QED
    BY <2>5, <2>6
<1>10. ASSUME Loose' \subseteq Loose, UNCHANGED <<db, sent>>
       PROVE  Book!Next
  <2>1. Book!Release
    BY <1>10, TableKeptMaps DEF Book!Release
  <2>2. QED
    BY <2>1 DEF Book!Next
<1>11. ASSUME NEW t \in Tickers, TickRefused(t) \/ TickFail(t)
       PROVE  Book!Next
  BY <1>10, <1>11, <1>t, AbortMaps DEF TickRefused, TickFail, history
<1>12. ASSUME Crash
       PROVE  Book!Next
  <2>1. Loose' = {}
    BY <1>12 DEF Crash, Loose, Held, Nothing
  <2>2. QED
    BY <1>10, <1>12, <2>1 DEF Crash, history
<1>13. ASSUME NEW i \in Ids, Delete(i)
       PROVE  Book!Next \/ UNCHANGED Book!vars
  BY <1>2, <1>13 DEF Delete, tickVars
<1>14. ASSUME \/ Clock
              \/ \E a \in Ackers, i \in Ids, u \in Users : AckLoad(a, i, u)
              \/ \E a \in Ackers : AckFail(a)
              \/ UNCHANGED vars
       PROVE  UNCHANGED Book!vars
  BY <1>14, <1>k DEF Clock, AckLoad, AckFail, vars, tickVars, history
<1>15. QED
  BY <1>1, <1>3, <1>4, <1>5, <1>6, <1>7, <1>8, <1>9, <1>11, <1>12, <1>13, <1>14
     DEF Next, TickStep

\* The service implements the alarm book (Tick, Create, Ack and Delete with all their
\* races, failures and crashes).
THEOREM Refinement == Spec => ImplementsBook
<1>1. Spec => [](TypeInv /\ SafeInv)
  <2>1. Spec => []TypeInv
    BY TypeInit, TypeNext, PTL DEF Spec
  <2>2. Spec => []SafeInv
    BY <2>1, SafeInit, SafeNext, PTL DEF Spec
  <2>3. QED
    BY <2>1, <2>2, PTL
<1>2. Spec => []BookkeepingInv
  BY <1>1, BookkeepingInit, BookkeepingNext, PTL DEF Spec
<1>3. Spec => [][Book!Next]_(Book!vars)
  BY <1>1, <1>2, StepMaps, PTL DEF Spec
<1>4. QED
  BY <1>3, InitMaps, PTL DEF Spec, ImplementsBook, Book!Spec

\* So it keeps the promises of the book: a recorded firing was sent, and a reminder
\* that is neither stored nor in the hands of a Tick is silent until it is created.
THEOREM BookPromises == Spec => []Book!AtLeastOnce /\ Book!Silent
<1>1. Book!Spec => []Book!AtLeastOnce
  BY Book!BookRingsFirst
<1>2. Book!Spec => Book!Silent
  BY Book!BookSilence
<1>3. QED
  BY <1>1, <1>2, Refinement DEF ImplementsBook
===============================================================================
