--------------------------- MODULE ReminderSwitches ---------------------------
(***************************************************************************)
(* The dashboard of the reminders: one Home Assistant switch per reminder, *)
(* kept by the Handler of internal/tech/homeassistant/devices/reminders    *)
(* over the entity runtime of internal/tech/homeassistant/entities.        *)
(*                                                                         *)
(* The table is reduced to what a switch shows of a row, "on" (waiting for *)
(* its time) or "off" (fired, waiting for an acknowledgement), and to the  *)
(* owner, in whose name the switch acknowledges.  Reminders models the     *)
(* rows themselves.  Every message, every command of a switch and every    *)
(* tick ends in syncEntities on its own goroutine; the mutex covers single *)
(* accesses to the map, not a run of syncEntities.                         *)
(*                                                                         *)
(* The handler knows a reminder by its id, the runtime knows a switch by   *)
(* its key.  Ids that differ only in case or spaces have the same key, and *)
(* share one switch.                                                       *)
(*                                                                         *)
(* A step is one query, one call of the runtime or one access to the map.  *)
(***************************************************************************)
EXTENDS Naturals

CONSTANTS
  Ids,         \* reminder ids
  Slug,        \* function of Ids: the id trimmed, in lower case, "_" for spaces
  Slashed,     \* keys that contain "/", which cannot name an entity
  Owners,      \* users that own reminders
  Targets,     \* users whose acknowledgement a reminder accepts
  Workers,     \* goroutines of the handler that may be at work at the same time
  None,        \* no row, no map entry, no entity
  MaxChanges,  \* bound: changes of the table
  MaxFaults,   \* bound: queries and publishes that fail
  MaxCrashes   \* bound: crashes of the process

\* entityIsOff: a reminder that has fired and waits for an acknowledgement is off.
\* named: the first 64 bytes of the message, the name of the switch, are not blank.
Row == [shows : {"on", "off"}, owner : Owners, named : BOOLEAN]

\* The reminder and the owner that the callback of a switch has captured.
Callback == [id : Ids, owner : Owners]

ASSUME NoneAssumption ==
  None \notin Row \union Callback \union {"on", "off", "unknown"}

EntityKey(i) == Slug[i]
EntityKeys == {EntityKey(i) : i \in Ids}

\* validateCommonSpec: the runtime takes no switch without a name or with such a key.
Refused(row, k) == ~row.named \/ k \in Slashed

VARIABLES
  phase,     \* the process: "down", "starting", "up"
  table,     \* id -> row or None
  switches,  \* Handler.switches: what the handler takes a switch to show
  handler,   \* Runtime.switchHandlers: key -> callback or None
  ent,       \* Runtime.entities: key -> the last state set ("unknown": none yet)
  topic,     \* key -> the retained state
  config,    \* keys whose discovery configuration is retained
  lost,      \* a publish has failed: the connection was lost, and comes back
  job,       \* what each worker is doing
  changes, faults, crashes   \* counters for the bounds

counters == <<changes, faults, crashes>>
entities == <<ent, topic, config, lost>>
runtime == <<handler, entities>>
vars == <<phase, table, switches, runtime, job, counters>>

Nothing == [i \in Ids |-> None]
NoEntities == [k \in EntityKeys |-> None]

\* rems: the reminders listed; gone, left: ids still to be removed and updated;
\* id: the one at hand; fresh: it is being declared.
Idle == [step |-> "idle", rems |-> Nothing, gone |-> {}, left |-> {}, id |-> None,
         fresh |-> FALSE]

At(w, step) == job[w].step = step
Goto(w, step) == job' = [job EXCEPT ![w].step = step]

\* The loops of syncEntities: first the removals, then the updates.
Continue(w, gone, left) ==
  job' = [job EXCEPT ![w] =
            IF gone # {} THEN [@ EXCEPT !.step = "remove", !.gone = gone, !.left = left]
            ELSE IF left # {} THEN [@ EXCEPT !.step = "update", !.gone = {}, !.left = left]
            ELSE Idle]

\* The loop moves on to the next reminder; after the last one Start is over.
Advance(w) ==
  /\ Continue(w, job[w].gone, job[w].left)
  /\ phase' = IF job'[w] = Idle THEN "up" ELSE phase

Fault ==
  /\ faults < MaxFaults
  /\ faults' = faults + 1

\* A publish fails only when the connection is lost; the broker may have received it.
PublishFails ==
  /\ Fault
  /\ lost' = TRUE

Change ==
  /\ changes < MaxChanges
  /\ changes' = changes + 1

-------------------------------------------------------------------------------
(* Messages and ticks, and what they do to the table.                      *)

HandleCreate(w, i, u, named) ==
  LET row == [shows |-> "on", owner |-> u, named |-> named]
  IN  /\ phase = "up" /\ job[w] = Idle
      /\ Change
      /\ table' = [table EXCEPT ![i] = row]
      /\ job' = [job EXCEPT ![w] =
                   [Idle EXCEPT !.step = "declare", !.id = i, !.fresh = TRUE,
                                !.rems = [Nothing EXCEPT ![i] = row]]]
      /\ UNCHANGED <<phase, switches, runtime, faults, crashes>>

\* An accepted acknowledgement and a delete remove the row and synchronise.
HandleRemoval(w, i) ==
  /\ phase = "up" /\ job[w] = Idle
  /\ table[i] # None
  /\ Change
  /\ table' = [table EXCEPT ![i] = None]
  /\ Goto(w, "list")
  /\ UNCHANGED <<phase, switches, runtime, faults, crashes>>

\* A switch is turned on.  Its callback acknowledges the reminder it captured when it
\* was registered, for the owner captured with it, whoever owns the row now; an owner
\* who is not a target is refused, and the switch keeps what it shows.  Turning a switch
\* off does nothing.
HandleCommand(w, k) ==
  /\ handler[k] # None
  /\ handler[k].owner \in Targets
  /\ HandleRemoval(w, handler[k].id)

\* A tick fires a reminder, discards one, or does nothing; then it synchronises.
HandleTick(w) ==
  /\ phase = "up" /\ job[w] = Idle
  /\ \/ \E i \in Ids :
          /\ table[i] # None
          /\ Change
          /\ \E row \in {[table[i] EXCEPT !.shows = "off"], None} :
               table' = [table EXCEPT ![i] = row]
     \/ UNCHANGED <<table, changes>>
  /\ Goto(w, "list")
  /\ UNCHANGED <<phase, switches, runtime, faults, crashes>>

-------------------------------------------------------------------------------
(* syncEntities.                                                           *)

List(w) ==
  /\ At(w, "list")
  /\ \/ /\ job' = [job EXCEPT ![w].step = "keys", ![w].rems = table]
        /\ UNCHANGED <<phase, faults>>
     \/ /\ Fault
        /\ job' = [job EXCEPT ![w] = Idle]
        /\ phase' = "up"
  /\ UNCHANGED <<table, switches, runtime, changes, crashes>>

Listed(w) == {i \in Ids : job[w].rems[i] # None}

\* Mutant of Keys: nothing is ever removed.
KeysOnlyListed(w) ==
  /\ At(w, "keys")
  /\ Continue(w, {}, Listed(w))
  /\ phase' = IF job'[w] = Idle THEN "up" ELSE phase
  /\ UNCHANGED <<table, switches, runtime, counters>>

\* The ids in the map that are not in the list are to be removed.  Start, whose map
\* is empty, declares all that it lists.
Keys(w) ==
  /\ At(w, "keys")
  /\ Continue(w, IF phase = "starting" THEN {}
                 ELSE {i \in Ids : switches[i] # None} \ Listed(w), Listed(w))
  /\ phase' = IF job'[w] = Idle THEN "up" ELSE phase
  /\ UNCHANGED <<table, switches, runtime, counters>>

\* Runtime.Remove clears the configuration and the state, then forgets the entity.
\* If a publish fails the runtime keeps the entity, and an error is logged.
RemoveEntity(w) ==
  /\ At(w, "remove")
  /\ \E i \in job[w].gone :
       LET k == EntityKey(i)
       IN  /\ job' = [job EXCEPT ![w].step = "unmap", ![w].id = i]
           /\ IF ent[k] = None THEN UNCHANGED <<runtime, faults>>
              ELSE \/ /\ config' = config \ {k}
                      /\ topic' = [topic EXCEPT ![k] = None]
                      /\ ent' = [ent EXCEPT ![k] = None]
                      /\ handler' = [handler EXCEPT ![k] = None]
                      /\ UNCHANGED <<lost, faults>>
                   \/ /\ \/ config' \in {config, config \ {k}} /\ UNCHANGED topic
                         \/ config' = config \ {k} /\ topic' = [topic EXCEPT ![k] = None]
                      /\ PublishFails
                      /\ UNCHANGED <<ent, handler>>
  /\ UNCHANGED <<phase, table, switches, changes, crashes>>

\* The map entry goes in either case.
Unmap(w) ==
  /\ At(w, "unmap")
  /\ switches' = [switches EXCEPT ![job[w].id] = None]
  /\ Continue(w, job[w].gone \ {job[w].id}, job[w].left)
  /\ UNCHANGED <<phase, table, runtime, counters>>

\* Mutant of Update: a reminder in the map is left alone.
UpdateDeclaresOnly(w) ==
  /\ At(w, "update")
  /\ \E i \in job[w].left :
       LET rest == job[w].left \ {i}
       IN  IF phase = "starting" \/ switches[i] = None
           THEN job' = [job EXCEPT ![w].id = i, ![w].left = rest, ![w].step = "declare",
                                   ![w].fresh = TRUE]
           ELSE Continue(w, {}, rest)
  /\ UNCHANGED <<phase, table, switches, runtime, counters>>

\* A listed reminder is declared, skipped because the map agrees, or set.
Update(w) ==
  /\ At(w, "update")
  /\ \E i \in job[w].left :
       LET rest == job[w].left \ {i}
           next == [job[w] EXCEPT !.id = i, !.left = rest]
       IN  IF phase = "starting" \/ switches[i] = None
           THEN job' = [job EXCEPT ![w] = [next EXCEPT !.step = "declare", !.fresh = TRUE]]
           ELSE IF switches[i] = job[w].rems[i].shows
           THEN Continue(w, {}, rest)
           ELSE job' = [job EXCEPT ![w] = [next EXCEPT !.step = "set", !.fresh = FALSE]]
  /\ UNCHANGED <<phase, table, switches, runtime, counters>>

\* DeviceRuntime.Switch and Runtime.declare: a switch that cannot be named is refused,
\* whenever it is tried; the configuration of any other is published.  An entity that is
\* declared again keeps its last state.  After an error declareEntity is given up.
Declare(w) ==
  LET i == job[w].id
      k == EntityKey(i)
      refused == Refused(job[w].rems[i], k)
  IN  /\ At(w, "declare")
      /\ \/ /\ refused
            /\ Advance(w)
            /\ UNCHANGED <<config, ent, lost, faults>>
         \/ /\ ~refused
            /\ config' = config \union {k}
            /\ ent' = [ent EXCEPT ![k] = IF @ = None THEN "unknown" ELSE @]
            /\ Goto(w, "set")
            /\ UNCHANGED <<phase, lost, faults>>
         \/ /\ ~refused
            /\ config' \in {config, config \union {k}}
            /\ PublishFails
            /\ Advance(w)
            /\ UNCHANGED ent
      /\ UNCHANGED <<table, switches, handler, topic, changes, crashes>>

\* Runtime.setState keeps the state, then publishes it; it refuses an entity that is
\* not declared (any more).  An error is logged, and the handler goes on.
Set(w) ==
  LET k == EntityKey(job[w].id)
      v == job[w].rems[job[w].id].shows
  IN  /\ At(w, "set")
      /\ IF ent[k] = None THEN UNCHANGED <<ent, topic, lost, faults>>
         ELSE /\ ent' = [ent EXCEPT ![k] = v]
              /\ \/ topic' = [topic EXCEPT ![k] = v] /\ UNCHANGED <<lost, faults>>
                 \/ topic' \in {topic, [topic EXCEPT ![k] = v]} /\ PublishFails
      /\ Goto(w, IF job[w].fresh THEN "onCommand" ELSE "store")
      /\ UNCHANGED <<phase, table, switches, handler, config, changes, crashes>>

\* Mutant of OnCommand: a switch that has a callback keeps it.
OnCommandOnce(w) ==
  LET i == job[w].id
      k == EntityKey(i)
  IN  /\ At(w, "onCommand")
      /\ IF ent[k] = None
         THEN Advance(w) /\ UNCHANGED handler
         ELSE /\ handler' = [handler EXCEPT ![k] =
                               IF @ = None THEN [id |-> i, owner |-> job[w].rems[i].owner]
                               ELSE @]
              /\ Goto(w, "store")
              /\ UNCHANGED phase
      /\ UNCHANGED <<table, switches, entities, counters>>

\* SwitchHandle.OnCommand replaces the callback of the switch.  It refuses an entity
\* that is not declared.
OnCommand(w) ==
  LET i == job[w].id
      k == EntityKey(i)
  IN  /\ At(w, "onCommand")
      /\ IF ent[k] = None
         THEN Advance(w) /\ UNCHANGED handler
         ELSE /\ handler' = [handler EXCEPT ![k] =
                               [id |-> i, owner |-> job[w].rems[i].owner]]
              /\ Goto(w, "store")
              /\ UNCHANGED phase
      /\ UNCHANGED <<table, switches, entities, counters>>

\* Mutant of Store: the state that was found is stored, not the one that was set.
StoreStale(w) ==
  /\ At(w, "store")
  /\ switches' = [switches EXCEPT ![job[w].id] = IF @ = None
                                                 THEN job[w].rems[job[w].id].shows
                                                 ELSE @]
  /\ Advance(w)
  /\ UNCHANGED <<table, runtime, counters>>

Store(w) ==
  /\ At(w, "store")
  /\ switches' = [switches EXCEPT ![job[w].id] = job[w].rems[job[w].id].shows]
  /\ Advance(w)
  /\ UNCHANGED <<table, runtime, counters>>

-------------------------------------------------------------------------------
(* The runtime and the process.                                            *)

\* Mutant of HandleReconnect: states that were never set are published too.
HandleReconnectAll ==
  /\ phase # "down"
  /\ config' = config \union {k \in EntityKeys : ent[k] # None}
  /\ topic' = [k \in EntityKeys |-> IF ent[k] = None THEN topic[k] ELSE ent[k]]
  /\ lost' = FALSE
  /\ UNCHANGED <<phase, table, switches, handler, ent, job, counters>>

\* handleReconnect, after a lost connection or the birth message of Home Assistant.
HandleReconnect ==
  /\ phase # "down"
  /\ config' = config \union {k \in EntityKeys : ent[k] # None}
  /\ topic' = [k \in EntityKeys |-> IF ent[k] \in {None, "unknown"} THEN topic[k] ELSE ent[k]]
  /\ lost' = FALSE
  /\ UNCHANGED <<phase, table, switches, handler, ent, job, counters>>

\* The map and the entities of the runtime are lost; the broker keeps what is retained.
Crash ==
  /\ phase # "down"
  /\ crashes < MaxCrashes
  /\ crashes' = crashes + 1
  /\ phase' = "down"
  /\ switches' = Nothing
  /\ handler' = NoEntities
  /\ ent' = NoEntities
  /\ lost' = FALSE
  /\ job' = [w \in Workers |-> Idle]
  /\ UNCHANGED <<table, topic, config, changes, faults>>

\* Handler.Start lists the rows and declares a switch for each.
Start(w) ==
  /\ phase = "down"
  /\ phase' = "starting"
  /\ Goto(w, "list")
  /\ UNCHANGED <<table, switches, runtime, counters>>

-------------------------------------------------------------------------------
Init ==
  /\ phase = "up"
  /\ table = Nothing
  /\ switches = Nothing
  /\ handler = NoEntities
  /\ ent = NoEntities
  /\ topic = NoEntities
  /\ config = {}
  /\ lost = FALSE
  /\ job = [w \in Workers |-> Idle]
  /\ changes = 0 /\ faults = 0 /\ crashes = 0

\* A worker that has begun goes on.
Work(w) ==
  \/ List(w)
  \/ Keys(w)
  \/ RemoveEntity(w)
  \/ Unmap(w)
  \/ Update(w)
  \/ Declare(w)
  \/ Set(w)
  \/ OnCommand(w)
  \/ Store(w)

Next ==
  \/ \E w \in Workers :
       \/ \E i \in Ids, u \in Owners, named \in BOOLEAN : HandleCreate(w, i, u, named)
       \/ \E i \in Ids : HandleRemoval(w, i)
       \/ \E k \in EntityKeys : HandleCommand(w, k)
       \/ HandleTick(w)
       \/ Start(w)
       \/ Work(w)
  \/ HandleReconnect
  \/ Crash

Spec == Init /\ [][Next]_vars

\* The interval scheduler ticks every minute, goroutines run, the process is started
\* again, and the client connects again.  Home Assistant need never be restarted.
Fairness ==
  /\ WF_vars(\E w \in Workers : HandleTick(w))
  /\ WF_vars(\E w \in Workers : Start(w))
  /\ \A w \in Workers : WF_vars(Work(w))
  /\ WF_vars(lost /\ HandleReconnect)

FairSpec == Spec /\ Fairness

-------------------------------------------------------------------------------
(* Properties.                                                             *)

SwitchState == {None, "on", "off"}

\* The type of every variable.
TypeOK ==
  /\ phase \in {"down", "starting", "up"}
  /\ table \in [Ids -> Row \union {None}]
  /\ switches \in [Ids -> SwitchState]
  /\ handler \in [EntityKeys -> Callback \union {None}]
  /\ ent \in [EntityKeys -> SwitchState \union {"unknown"}]
  /\ topic \in [EntityKeys -> SwitchState]
  /\ config \subseteq EntityKeys /\ lost \in BOOLEAN
  /\ \A w \in Workers :
       /\ job[w].rems \in [Ids -> Row \union {None}]
       /\ job[w].gone \subseteq Ids /\ job[w].left \subseteq Ids
       /\ job[w].id \in Ids \union {None}

\* The ids that share their key with no other.  The promises below are theirs: of two
\* reminders with one key each may remove or overwrite the switch of the other.
Unshared == {i \in Ids : \A j \in Ids : EntityKey(j) = EntityKey(i) => j = i}

\* What the dashboard shows of an id: no switch, or the retained state.
Shown(i) == IF EntityKey(i) \in config THEN topic[EntityKey(i)] ELSE None

Wrong(i) ==
  /\ table[i] # None
  /\ ~Refused(table[i], EntityKey(i))
  /\ Shown(i) # table[i].shows

\* "Stale state resolves" (the design document): where workers do not overlap, the switch
\* of a stored reminder that shows the wrong state, or is missing though the runtime
\* takes its name and key, comes to show the right one, unless the reminder goes; over
\* failed queries and publishes and a restart, and whatever becomes of refused switches
\* and of shared keys.
StaleStateResolves == \A i \in Unshared : Wrong(i) ~> ~Wrong(i)

\* The switch of a reminder that is gone.
Ghost(i) == table[i] = None /\ EntityKey(i) \in config

\* "They appear and disappear automatically" (the design document): a switch that the
\* handler has in its map when the reminder is removed goes.
SwitchesDisappear ==
  \A i \in Unshared : (Ghost(i) /\ switches[i] # None) ~> ~Ghost(i)

\* Every switch of a removed reminder goes as long as the process lives and nothing has
\* failed.
GhostsGo == \A i \in Unshared : Ghost(i) ~> (~Ghost(i) \/ crashes + faults > 0)

Quiescent == \A w \in Workers : job[w] = Idle

\* Under the same conditions the map of an idle handler says what the switches show, and
\* has every switch the runtime knows: entry.isOff == wantOff may stand for a look at
\* the dashboard.
MapIsTrue ==
  (Quiescent /\ faults = 0) => \A i \in Unshared :
     /\ switches[i] # None => Shown(i) = switches[i]
     /\ ent[EntityKey(i)] # None => switches[i] = ent[EntityKey(i)]

\* Where workers do not overlap, an entry of the map agrees with the last state in the
\* runtime also after publishes that failed: what a tick does not repair, the next
\* reconnect or birth message does.
MapFollowsRuntime ==
  Quiescent => \A i \in Unshared : switches[i] # None => switches[i] = ent[EntityKey(i)]

\* As long as nothing fails, the switch of a stored reminder acknowledges that reminder
\* for the owner of its row, also after the id was taken over by another owner: the
\* callback captured both when it was registered (declareEntity).  A reminder taken over
\* with a blank message is not declared again, and keeps the callback it has.
SwitchActsForOwner ==
  (Quiescent /\ faults = 0) =>
     \A i \in Unshared : (table[i] # None /\ table[i].named /\ switches[i] # None)
                            => handler[EntityKey(i)] = [id |-> i, owner |-> table[i].owner]
===============================================================================
