------------------------------ MODULE Reminders -------------------------------
(***************************************************************************)
(* The reminder service: the aggregate of internal/domain/reminders and    *)
(* the PostgreSQL repository of internal/tech/postgres it is stored in.    *)
(*                                                                         *)
(* Three kinds of goroutine share the table.  Every minute the interval    *)
(* scheduler starts Manager.Tick on a goroutine of its own, whether or not *)
(* the previous one has returned; every MQTT message starts a goroutine    *)
(* that runs Create, Ack or Delete.  Nothing in the process serialises     *)
(* them: only single statements and Save's transaction are atomic.  A step *)
(* below is one access to the database, or one call of the notifier.       *)
(*                                                                         *)
(* Tick lists the due rows, reads the targets of each in later queries     *)
(* (hydrateList), then works through its private copies.                   *)
(***************************************************************************)
EXTENDS Escalation, FiniteSets

CONSTANTS
  Ids,          \* reminder ids
  Users,        \* users that can be targets
  Tickers,      \* goroutines that may run Tick at the same time
  Ackers,       \* goroutines that may run Ack at the same time
  Commands,     \* what a create message may say
  Preset,       \* the escalation preset of every profile
  None,         \* no value (nil)
  Never,        \* no time (a nil *time.Time or *time.Duration)
  MaxTime,      \* bound: the clock stops here
  MaxCreates,   \* bound: create messages per id
  MaxFaults,    \* bound: failed calls of the database or the notifier
  MaxCrashes    \* bound: crashes of the process

OptTime == Nat \union {Never}

Command ==
  [targets : SUBSET Users, triggerAt : Nat, recurEvery : OptTime,
   validUntil : OptTime, requiresAck : BOOLEAN,
   profile : ProfileNames \union {""}, message : {"", "text"}]

\* A row of table reminders with its reminder_targets and reminder_acks.  The
\* schedule kind is "recurring" exactly when recurEvery is set (handleCreate).
Reminder ==
  [targets : SUBSET Users, acks : SUBSET Users, triggerAt : Nat,
   nextRunAt : OptTime, recurEvery : OptTime, validUntil : OptTime,
   requiresAck : BOOLEAN, profile : ProfileNames, message : {"", "text"},
   fireCount : Nat]

OptReminder == Reminder \union {None}

\* A reminder a goroutine has in hand, with its id.
InFlight == [id : Ids, rem : Reminder]

ASSUME NoneAssumption == None \notin Reminder /\ None \notin InFlight
ASSUME NeverAssumption == Never \notin Nat
ASSUME CommandsAssumption == Commands \subseteq Command
ASSUME PresetAssumption == Preset \in [ProfileNames -> EscalationPolicy]

VARIABLES
  now,       \* minutes since the start
  ticked,    \* the last minute for which a tick was started
  db,        \* the table: id -> row or None
  pc,        \* where each ticker is
  at,        \* the time argument of its Tick
  rows,      \* rows it listed whose targets and acks it has not read yet
  due,       \* copies it has read and not handled yet
  cur,       \* the reminder it is handling, after Trigger
  ack,       \* what each acker has loaded and acknowledged in memory
  created,   \* history: create messages accepted per id
  ended,     \* history: ids whose row has been removed at least once
  sent,      \* history: notifications the notifier took, per id
  lastSent,  \* history: tick time of the last of them
  faults,    \* calls that failed so far
  crashes    \* crashes so far

tickVars == <<pc, at, rows, due, cur>>
history == <<created, ended, sent, lastSent>>
vars == <<now, ticked, db, tickVars, ack, history, faults, crashes>>

Nothing == [i \in Ids |-> None]
IsEmpty(copies) == \A i \in Ids : copies[i] = None

-------------------------------------------------------------------------------
(* The aggregate: lifecycle.go.                                            *)

PolicyForProfile(p) == Preset[p]

\* Mutant of New: the empty profile is kept.
NewWithoutDefault(cmd) ==
  [targets |-> cmd.targets, acks |-> {}, triggerAt |-> cmd.triggerAt,
   nextRunAt |-> Never, recurEvery |-> cmd.recurEvery,
   validUntil |-> cmd.validUntil, requiresAck |-> cmd.requiresAck,
   profile |-> cmd.profile, message |-> cmd.message, fireCount |-> 0]

\* New rejects a command without targets (ErrNoTargets) and defaults the profile.
New(cmd) ==
  [targets |-> cmd.targets, acks |-> {}, triggerAt |-> cmd.triggerAt,
   nextRunAt |-> Never, recurEvery |-> cmd.recurEvery,
   validUntil |-> cmd.validUntil, requiresAck |-> cmd.requiresAck,
   profile |-> IF cmd.profile = "" THEN "normal" ELSE cmd.profile,
   message |-> cmd.message, fireCount |-> 0]

IsRecurring(r) == r.recurEvery # Never

\* Mutant of IsDue: only rescheduled reminders are due.
IsDueAgain(r, t) == r.nextRunAt # Never /\ r.nextRunAt <= t

\* ListDueBefore: the condition of the SQL query, which is IsDue on rows.
IsDue(r, t) ==
  \/ r.nextRunAt # Never /\ r.nextRunAt <= t
  \/ r.nextRunAt = Never /\ r.triggerAt <= t

IsExpired(r, t) == r.validUntil # Never /\ t > r.validUntil

\* Mutants of ComputeNextRunAt: one repeat too many; drift-free scheduling from the
\* planned time instead of the time of the tick.
ComputeNextRunAtOffByOne(r, t) ==
  LET ep == PolicyForProfile(r.profile)
  IN  IF IsRecurring(r) THEN t + r.recurEvery
      ELSE IF ~r.requiresAck THEN Never
      ELSE IF ep.maxRepeats > 0 /\ r.fireCount > ep.maxRepeats THEN Never
      ELSE t + RepeatDelay(ep, r.fireCount)

ComputeNextRunAtPlanned(r, t) ==
  LET planned == IF r.nextRunAt = Never THEN r.triggerAt ELSE r.nextRunAt
  IN  IF IsRecurring(r) THEN planned + r.recurEvery
      ELSE IF ~r.requiresAck THEN Never
      ELSE planned + RepeatDelay(PolicyForProfile(r.profile), r.fireCount)

\* When the reminder fires next, after its fireCount-th firing at t.
ComputeNextRunAt(r, t) ==
  LET ep == PolicyForProfile(r.profile)
  IN  IF IsRecurring(r) THEN t + r.recurEvery
      ELSE IF ~r.requiresAck THEN Never
      ELSE IF ep.maxRepeats > 0 /\ r.fireCount >= ep.maxRepeats THEN Never
      ELSE t + RepeatDelay(ep, r.fireCount)

\* Mutant of Trigger: a recurring reminder starts counting afresh.
TriggerAfresh(r, t) ==
  LET fired == [r EXCEPT !.fireCount = IF IsRecurring(r) THEN 1 ELSE @ + 1]
  IN  [fired EXCEPT !.nextRunAt = ComputeNextRunAt(fired, t)]

Trigger(r, t) ==
  LET fired == [r EXCEPT !.fireCount = @ + 1]
  IN  [fired EXCEPT !.nextRunAt = ComputeNextRunAt(fired, t),
                    !.acks = IF IsRecurring(r) THEN {} ELSE @]

\* The reminder asked for an acknowledgement and has used up its repeats.
IsExhausted(r) == r.requiresAck /\ r.nextRunAt = Never

Acknowledge(r, u) == [r EXCEPT !.acks = @ \union {u}]

\* Mutant of IsComplete: every target has to acknowledge.
IsCompleteWhenAll(r) == r.acks = r.targets

IsComplete(r) == r.acks # {}

-------------------------------------------------------------------------------
(* The repository: one row, replaced as a whole or deleted.                *)

Save(i, r) == db' = [db EXCEPT ![i] = r] /\ UNCHANGED ended

\* DELETE of an absent row succeeds and changes nothing.
Remove(i) ==
  /\ db' = [db EXCEPT ![i] = None]
  /\ ended' = IF db[i] = None THEN ended ELSE ended \union {i}

-------------------------------------------------------------------------------
(* The clock and the commands.                                             *)

Clock ==
  /\ now < MaxTime
  /\ now' = now + 1
  /\ UNCHANGED <<ticked, db, tickVars, ack, history, faults, crashes>>

\* Mutant of Create: a command without targets is accepted.
CreateUnchecked(i, cmd) ==
  /\ created[i] < MaxCreates
  /\ Save(i, New(cmd))
  /\ created' = [created EXCEPT ![i] = @ + 1]
  /\ UNCHANGED <<now, ticked, tickVars, ack, sent, lastSent, faults, crashes>>

\* Manager.Create: an accepted command overwrites whatever the id held.
Create(i, cmd) ==
  /\ created[i] < MaxCreates
  /\ cmd.targets # {}
  /\ Save(i, New(cmd))
  /\ created' = [created EXCEPT ![i] = @ + 1]
  /\ UNCHANGED <<now, ticked, tickVars, ack, sent, lastSent, faults, crashes>>

Delete(i) ==
  /\ db[i] # None
  /\ Remove(i)
  /\ UNCHANGED <<now, ticked, tickVars, ack, created, sent, lastSent, faults,
                 crashes>>

\* Manager.Ack, first half: load, then Acknowledge, which refuses a user who is
\* not a target.
AckLoad(a, i, u) ==
  /\ ack[a] = None
  /\ db[i] # None
  /\ u \in db[i].targets
  /\ ack' = [ack EXCEPT ![a] = [id |-> i, rem |-> Acknowledge(db[i], u)]]
  /\ UNCHANGED <<now, ticked, db, tickVars, history, faults, crashes>>

\* Mutant of AckStore: the acknowledged reminder is saved, complete or not.
AckStoreSaves(a) ==
  /\ ack[a] # None
  /\ Save(ack[a].id, ack[a].rem)
  /\ ack' = [ack EXCEPT ![a] = None]
  /\ UNCHANGED <<now, ticked, tickVars, created, sent, lastSent, faults, crashes>>

\* Second half: remove a complete reminder, save any other.
AckStore(a) ==
  /\ ack[a] # None
  /\ IF IsComplete(ack[a].rem)
     THEN Remove(ack[a].id)
     ELSE Save(ack[a].id, ack[a].rem)
  /\ ack' = [ack EXCEPT ![a] = None]
  /\ UNCHANGED <<now, ticked, tickVars, created, sent, lastSent, faults, crashes>>

\* A load or a store that fails is logged, and the acknowledgement is lost.
AckFail(a) ==
  /\ faults < MaxFaults
  /\ ack[a] # None
  /\ ack' = [ack EXCEPT ![a] = None]
  /\ faults' = faults + 1
  /\ UNCHANGED <<now, ticked, db, tickVars, history, crashes>>

-------------------------------------------------------------------------------
(* Manager.Tick.                                                           *)

\* Tick lists the rows due at its time argument.  With none due it returns.
TickList(t) ==
  LET listed == [i \in Ids |->
                   IF db[i] # None /\ IsDue(db[i], now) THEN db[i] ELSE None]
  IN  /\ pc[t] = "idle"
      /\ ticked < now
      /\ ticked' = now
      /\ IF IsEmpty(listed)
         THEN UNCHANGED tickVars
         ELSE /\ pc' = [pc EXCEPT ![t] = "hydrate"]
              /\ at' = [at EXCEPT ![t] = now]
              /\ rows' = [rows EXCEPT ![t] = listed]
              /\ UNCHANGED <<due, cur>>
      /\ UNCHANGED <<now, db, ack, history, faults, crashes>>

\* loadAggregate: the targets and acks of a row are whatever the table holds now;
\* ON DELETE CASCADE leaves none of a row removed since it was listed.  The two
\* queries are one step: only targets matter, for no stored row has acks.
Hydrate(row, stored) ==
  [row EXCEPT !.targets = IF stored = None THEN {} ELSE stored.targets,
              !.acks = IF stored = None THEN {} ELSE stored.acks]

TickHydrate(t, i) ==
  LET rest == [rows[t] EXCEPT ![i] = None]
  IN  /\ pc[t] = "hydrate"
      /\ rows[t][i] # None
      /\ rows' = [rows EXCEPT ![t] = rest]
      /\ due' = [due EXCEPT ![t][i] = Hydrate(rows[t][i], db[i])]
      /\ pc' = [pc EXCEPT ![t] = IF IsEmpty(rest) THEN "evaluate" ELSE @]
      /\ UNCHANGED <<now, ticked, db, at, cur, ack, history, faults, crashes>>

\* The loop moves on to the next copy, or Tick returns.
Continue(t, left) ==
  /\ due' = [due EXCEPT ![t] = left]
  /\ cur' = [cur EXCEPT ![t] = None]
  /\ pc' = [pc EXCEPT ![t] = IF IsEmpty(left) THEN "idle" ELSE "evaluate"]
  /\ at' = [at EXCEPT ![t] = IF IsEmpty(left) THEN 0 ELSE @]
  /\ UNCHANGED rows

\* An expired copy, or one whose repeats are used up, is removed silently.
TickDiscard(t, i) ==
  /\ pc[t] = "evaluate"
  /\ due[t][i] # None
  /\ \/ IsExpired(due[t][i], at[t])
     \/ IsExhausted(Trigger(due[t][i], at[t]))
  /\ Remove(i)
  /\ Continue(t, [due[t] EXCEPT ![i] = None])
  /\ UNCHANGED <<now, ticked, ack, created, sent, lastSent, faults, crashes>>

\* Mutant of TickTrigger: the firing is saved before the notification.
TickTriggerSaves(t, i) ==
  LET fired == Trigger(due[t][i], at[t])
  IN  /\ pc[t] = "evaluate"
      /\ due[t][i] # None
      /\ ~IsExpired(due[t][i], at[t])
      /\ ~IsExhausted(fired)
      /\ Save(i, fired)
      /\ cur' = [cur EXCEPT ![t] = [id |-> i, rem |-> fired]]
      /\ pc' = [pc EXCEPT ![t] = "notify"]
      /\ UNCHANGED <<now, ticked, at, rows, due, ack, created, sent, lastSent,
                     faults, crashes>>

\* Any other copy is triggered and is about to be notified.
TickTrigger(t, i) ==
  LET fired == Trigger(due[t][i], at[t])
  IN  /\ pc[t] = "evaluate"
      /\ due[t][i] # None
      /\ ~IsExpired(due[t][i], at[t])
      /\ ~IsExhausted(fired)
      /\ cur' = [cur EXCEPT ![t] = [id |-> i, rem |-> fired]]
      /\ pc' = [pc EXCEPT ![t] = "notify"]
      /\ UNCHANGED <<now, ticked, db, at, rows, due, ack, history, faults, crashes>>

\* The notifier takes a notification of reminder i.
Deliver(i, t) ==
  /\ sent' = [sent EXCEPT ![i] = @ + 1]
  /\ lastSent' = [lastSent EXCEPT ![i] = t]

\* The notifier fires one event per target, none for a copy without targets.
TickNotify(t) ==
  /\ pc[t] = "notify"
  /\ cur[t].rem.message # "" \/ cur[t].rem.targets = {}
  /\ Deliver(cur[t].id, at[t])
  /\ pc' = [pc EXCEPT ![t] = "store"]
  /\ UNCHANGED <<now, ticked, db, at, rows, due, cur, ack, created, ended, faults,
                 crashes>>

\* After the notification the reminder is rescheduled, or removed if it was to
\* fire once.
TickStore(t) ==
  LET i == cur[t].id
  IN  /\ pc[t] = "store"
      /\ IF cur[t].rem.nextRunAt = Never
         THEN Remove(i)
         ELSE Save(i, cur[t].rem)
      /\ Continue(t, [due[t] EXCEPT ![i] = None])
      /\ UNCHANGED <<now, ticked, ack, created, sent, lastSent, faults, crashes>>

\* Any error returns from Tick at once: the copies not handled yet are dropped.
Abort(t) ==
  /\ pc' = [pc EXCEPT ![t] = "idle"]
  /\ rows' = [rows EXCEPT ![t] = Nothing]
  /\ due' = [due EXCEPT ![t] = Nothing]
  /\ cur' = [cur EXCEPT ![t] = None]
  /\ at' = [at EXCEPT ![t] = 0]

\* Mutant of TickRefused: the refused reminder is rescheduled as if it had been sent.
TickRefusedSaves(t) ==
  /\ pc[t] = "notify"
  /\ cur[t].rem.message = "" /\ cur[t].rem.targets # {}
  /\ Save(cur[t].id, cur[t].rem)
  /\ Abort(t)
  /\ UNCHANGED <<now, ticked, ack, created, sent, lastSent, faults, crashes>>

\* NotificationService.Notify refuses an empty message every time.
TickRefused(t) ==
  /\ pc[t] = "notify"
  /\ cur[t].rem.message = "" /\ cur[t].rem.targets # {}
  /\ Abort(t)
  /\ UNCHANGED <<now, ticked, db, ack, history, faults, crashes>>

\* A query, a statement or an event call fails.  A tick of a later minute is
\* still to come.
TickFail(t) ==
  /\ faults < MaxFaults
  /\ pc[t] # "idle"
  /\ ticked < MaxTime
  /\ Abort(t)
  /\ faults' = faults + 1
  /\ UNCHANGED <<now, ticked, db, ack, history, crashes>>

\* The notifier reaches the first targets and then fails: those users have the
\* notification, and the tick aborts as for any error.
TickFailPartly(t) ==
  /\ faults < MaxFaults
  /\ pc[t] = "notify"
  /\ ticked < MaxTime
  /\ cur[t].rem.message # "" /\ Cardinality(cur[t].rem.targets) > 1
  /\ Deliver(cur[t].id, at[t])
  /\ Abort(t)
  /\ faults' = faults + 1
  /\ UNCHANGED <<now, ticked, db, ack, created, ended, crashes>>

\* The process dies and is started again: the table is all that is left.
Crash ==
  /\ crashes < MaxCrashes
  /\ ticked < MaxTime
  /\ crashes' = crashes + 1
  /\ pc' = [t \in Tickers |-> "idle"]
  /\ rows' = [t \in Tickers |-> Nothing]
  /\ due' = [t \in Tickers |-> Nothing]
  /\ cur' = [t \in Tickers |-> None]
  /\ at' = [t \in Tickers |-> 0]
  /\ ack' = [a \in Ackers |-> None]
  /\ UNCHANGED <<now, ticked, db, history, faults>>

-------------------------------------------------------------------------------
Init ==
  /\ now = 0
  /\ ticked = 0
  /\ db = Nothing
  /\ pc = [t \in Tickers |-> "idle"]
  /\ at = [t \in Tickers |-> 0]
  /\ rows = [t \in Tickers |-> Nothing]
  /\ due = [t \in Tickers |-> Nothing]
  /\ cur = [t \in Tickers |-> None]
  /\ ack = [a \in Ackers |-> None]
  /\ created = [i \in Ids |-> 0]
  /\ ended = {}
  /\ sent = [i \in Ids |-> 0]
  /\ lastSent = [i \in Ids |-> Never]
  /\ faults = 0
  /\ crashes = 0

\* One Tick at work on its copies.
TickStep(t) ==
  \/ \E i \in Ids : TickHydrate(t, i)
  \/ \E i \in Ids : TickDiscard(t, i)
  \/ \E i \in Ids : TickTrigger(t, i)
  \/ TickNotify(t)
  \/ TickStore(t)
  \/ TickRefused(t)

Next ==
  \/ Clock
  \/ \E i \in Ids, cmd \in Commands : Create(i, cmd)
  \/ \E i \in Ids : Delete(i)
  \/ \E a \in Ackers, i \in Ids, u \in Users : AckLoad(a, i, u)
  \/ \E a \in Ackers : AckStore(a)
  \/ \E a \in Ackers : AckFail(a)
  \/ \E t \in Tickers : TickList(t)
  \/ \E t \in Tickers : TickStep(t)
  \/ \E t \in Tickers : TickFail(t)
  \/ \E t \in Tickers : TickFailPartly(t)
  \/ Crash

Spec == Init /\ [][Next]_vars

\* The clock runs, the scheduler starts a tick every minute and a goroutine that
\* was started runs; nobody is obliged to send a command, and nothing to fail.
Fairness ==
  /\ WF_vars(Clock)
  /\ WF_vars(\E t \in Tickers : TickList(t))
  /\ \A t \in Tickers : WF_vars(TickStep(t))
  /\ \A a \in Ackers : WF_vars(AckStore(a))

FairSpec == Spec /\ Fairness

-------------------------------------------------------------------------------
(* Properties.                                                             *)

TickerPc == {"idle", "hydrate", "evaluate", "notify", "store"}

\* The type of every variable.
TypeOK ==
  /\ now \in Nat /\ ticked \in Nat /\ faults \in Nat /\ crashes \in Nat
  /\ db \in [Ids -> OptReminder]
  /\ pc \in [Tickers -> TickerPc]
  /\ at \in [Tickers -> Nat]
  /\ rows \in [Tickers -> [Ids -> OptReminder]]
  /\ due \in [Tickers -> [Ids -> OptReminder]]
  /\ cur \in [Tickers -> InFlight \union {None}]
  /\ ack \in [Ackers -> InFlight \union {None}]
  /\ created \in [Ids -> Nat]
  /\ ended \subseteq Ids
  /\ sent \in [Ids -> Nat]
  /\ lastSent \in [Ids -> OptTime]

\* The first acknowledgement of any target completes a reminder, so no stored row
\* ever waits for a second one (Ack, IsComplete; the Save of Ack is never reached).
NoStoredAcks == \A i \in Ids : db[i] # None => db[i].acks = {}

\* At-least-once delivery: a firing is recorded in the table only after the notifier
\* took the notification, whatever fails, crashes or overlaps (Tick notifies, then
\* saves).
RecordedFiresWereSent == \A i \in Ids : db[i] # None => db[i].fireCount <= sent[i]

\* The reminder may still be notified: its profile has no limit, or it is not reached.
InBudget(r) ==
  LET limit == PolicyForProfile(r.profile).maxRepeats
  IN  (r.requiresAck /\ ~IsRecurring(r) /\ limit > 0) => r.fireCount < limit

\* A stored reminder with a limited profile has repeats left; one that has none is
\* removed by the tick that finds out, also when overlapping ticks save old copies.
BudgetRespected == \A i \in Ids : db[i] # None => InBudget(db[i])

\* New refuses a reminder without targets (ErrNoTargets).  A row without targets,
\* which nobody can acknowledge, arises only when a tick brings back a row that was
\* removed between its two reads.
TargetlessWereRemoved ==
  \A i \in Ids : (db[i] # None /\ db[i].targets = {}) => i \in ended

\* Some running Tick has a copy of the row.
Held(i) == \E t \in Tickers : rows[t][i] # None \/ due[t][i] # None
Gone(i) == db[i] = None /\ ~Held(i)

\* A removed reminder of which no running Tick holds a copy is never notified and
\* never comes back, unless it is created again: the window in which a delete or an
\* acknowledgement can be undone closes with the ticks that were running.
GoneIsFinal ==
  [][\A i \in Ids : (Gone(i) /\ created'[i] = created[i])
                       => (Gone(i)' /\ sent'[i] = sent[i])]_vars

\* The service is the alarm book of ReminderBook.  The book sees the table, what was
\* sent and which ids some Tick holds a copy of; how far a Tick has come is hidden.
Stored == {i \in Ids : db[i] # None}
Fires == [i \in Ids |-> IF db[i] = None THEN 0 ELSE db[i].fireCount]
Loose == {i \in Ids : Held(i)}

Book == INSTANCE ReminderBook WITH stored <- Stored, fires <- Fires, loose <- Loose

\* Whatever overlaps, fails or crashes, clients see a book that rings at least once
\* per recorded firing: every step of the goroutines is one step of the book, or none.
ImplementsBook == Book!Spec

Storing(i) == {t \in Tickers : pc[t] = "store" /\ cur[t].id = i}

\* Where ticks do not overlap, ids are not reused and nothing fails, every
\* notification is counted once in fire_count, whatever acknowledgements and deletes
\* race with the tick.
ExactAccounting ==
  \A i \in Ids :
    db[i] # None => sent[i] = db[i].fireCount + Cardinality(Storing(i))

\* Under the same conditions two notifications of a reminder are at least the delay
\* of its profile, or its period, apart.
EscalationHonoured ==
  \A t \in Tickers :
    LET r == cur[t].rem
        gap == IF IsRecurring(r) THEN r.recurEvery
               ELSE RepeatDelay(PolicyForProfile(r.profile), r.fireCount - 1)
    IN  (pc[t] = "notify" /\ r.fireCount > 1) => at[t] >= lastSent[cur[t].id] + gap

\* A reminder that waits for its first firing is notified or removed, as long as a
\* tick is still to come after its trigger time: where nothing fails, the other
\* reminders delay it, but do not starve it (Tick works through the whole list).
EventuallyFires ==
  \A i \in Ids :
    (/\ db[i] # None /\ db[i].fireCount = 0
     /\ db[i].triggerAt <= MaxTime /\ ticked < MaxTime)
      ~> (db[i] = None \/ sent[i] > 0)

\* "Deletes the reminder unconditionally, regardless of state"
\* (docs/reminders-mqtt-api.md) and "hard-deleted" (the design document): a removed
\* row comes back only by a create message.
RemovedStaysRemoved ==
  [][\A i \in Ids : (i \in ended /\ db[i] = None /\ db'[i] # None)
                       => created'[i] > created[i]]_vars

\* "Tick evaluates all due reminders at now" (manager.go): a Tick that ends, where no
\* query, statement or event call failed, has no copy left but the one it ends with.
TickEvaluatesAll ==
  [][\A t \in Tickers :
       (pc[t] # "idle" /\ pc'[t] = "idle" /\ faults' = faults /\ crashes' = crashes)
          => Cardinality({i \in Ids : due[t][i] # None}) <= 1]_vars
===============================================================================
