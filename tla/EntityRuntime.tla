----------------------------- MODULE EntityRuntime -----------------------------
(***************************************************************************)
(* The MQTT runtime of internal/tech/homeassistant/entities: entities that *)
(* the program declares, sets and removes, and Home Assistant shows from   *)
(* what the broker retains: the availability of the program, and for each  *)
(* key a discovery configuration and a state.                              *)
(*                                                                         *)
(* Callers of Declare, Set and Remove are goroutines (Jobs).  Every        *)
(* connection and every birth message of Home Assistant runs               *)
(* handleReconnect on a goroutine of its own (Republishers).  The mutex of *)
(* the runtime covers single accesses to its maps; every publish happens   *)
(* outside.                                                                *)
(*                                                                         *)
(* The broker and the client library are external: a publish waits for its *)
(* acknowledgement, is sent again when the connection was lost before one  *)
(* came, and fails only while there is no connection; the broker publishes *)
(* the last will when it loses the program, and forgets its subscriptions. *)
(***************************************************************************)
EXTENDS Naturals

CONSTANTS
  Keys,          \* keys of entities
  Values,        \* the payloads of a state
  Jobs,          \* goroutines that call the runtime
  Republishers,  \* goroutines that run handleReconnect
  None,          \* no entity, nothing retained
  MaxCalls,      \* bound: calls of the runtime
  MaxBreaks      \* bound: lost connections, restarts of Home Assistant, and crashes

ASSUME NoneAssumption == None \notin Keys \union Values \union {"unset", "live", "torn"}
ASSUME ValuesAssumption == Values \intersect {"unset", "live", "torn"} = {}
ASSUME GoroutinesAssumption == Jobs \intersect Republishers = {}

VARIABLES
  phase,     \* of NewRuntime: "down", "connecting", "register", "subscribe", "up"
  conn,      \* the connection to the broker
  broker,    \* what the broker retains: avail, config, topic
  subs,      \* the topics the broker delivers to the program
  wanted,    \* pahoRuntimeTransport.subscriptions
  memory,    \* Runtime.entities: the last state; "unset": declared and never set
  kinds,     \* runtimeRegistry.kinds: the keys
  run,       \* what every goroutine is at
  calls, breaks, crashes,  \* counters for the bounds
  exposed,      \* history: a window that the runtime leaves open has been met
  undisturbed   \* history: the republishers that have run alone since they began

entities == <<memory, kinds>>
external == <<conn, broker, subs>>
counters == <<calls, breaks, crashes>>
state == <<phase, external, wanted, entities, run, counters>>
vars == <<state, exposed, undisturbed>>

Topics == {"status", "commands"}
States == Values \union {"unset"}
Unheld == [k \in Keys |-> None]

\* key, value: of the call at hand, or of the entity being republished;
\* held: the snapshot of handleReconnect, where an entity is "live" while it is the one
\* in the map, and keeps its last state when it is no longer; topics: to subscribe to.
Idle == [step |-> "idle", key |-> None, value |-> None, held |-> Unheld, topics |-> {}]

At(p, step) == run[p].step = step
To(p, next) == run' = [run EXCEPT ![p] = next]
Goto(p, step) == To(p, [run[p] EXCEPT !.step = step])

\* setState holds the mutex from its look at the map to the end of the assignment.
Unlocked == \A j \in Jobs : ~At(j, "store")

Break ==
  /\ breaks < MaxBreaks
  /\ breaks' = breaks + 1

\* The connection is lost; the broker, which has b by then, publishes the last will.
Lose(b) ==
  /\ Break
  /\ conn' = FALSE
  /\ subs' = {}
  /\ broker' = [b EXCEPT !.avail = "offline"]

\* A publish after which the broker has b: it is acknowledged; or the connection is lost
\* first and it stays to be sent again; or it waits for a connection in vain and fails.
Publish(p, b, next) ==
  \/ conn /\ broker' = b /\ To(p, next) /\ UNCHANGED <<conn, subs, breaks>>
  \/ conn /\ Lose(b) /\ UNCHANGED run
  \/ ~conn /\ To(p, Idle) /\ UNCHANGED <<external, breaks>>

\* What a publish leaves alone.
Sent == UNCHANGED <<phase, wanted, entities, calls, crashes>>

\* An entity that leaves the map is still in the snapshots that hold it.
Kept(p, k) == IF run[p].held[k] = "live" THEN memory[k] ELSE run[p].held[k]
LeaveMap(j, k) ==
  run' = [p \in DOMAIN run |-> IF p = j THEN Idle
                               ELSE [run[p] EXCEPT !.held[k] = Kept(p, k)]]

-------------------------------------------------------------------------------
(* Declare, Set and Remove.                                                *)

Begin(j, step, k, v) ==
  /\ phase = "up" /\ run[j] = Idle /\ Unlocked
  /\ calls < MaxCalls
  /\ calls' = calls + 1
  /\ To(j, [Idle EXCEPT !.step = step, !.key = k, !.value = v])
  /\ UNCHANGED <<phase, external, wanted, entities, breaks, crashes>>

\* Mutant of BeginDeclare: the last state is not taken over.
BeginDeclareAnew(j, k) == Begin(j, "announce", k, "unset")

\* declare takes over the last state of an entity that is there already.
BeginDeclare(j, k) ==
  Begin(j, "announce", k, IF memory[k] = None THEN "unset" ELSE memory[k])

Announce(j) ==
  /\ At(j, "announce")
  /\ Publish(j, [broker EXCEPT !.config = @ \union {run[j].key}],
             [run[j] EXCEPT !.step = "upsert"])
  /\ Sent

\* The registry has no file: app.go configures none.
Upsert(j) ==
  /\ At(j, "upsert")
  /\ kinds' = kinds \union {run[j].key}
  /\ Goto(j, "install")
  /\ UNCHANGED <<phase, external, wanted, memory, counters>>

Install(j) ==
  /\ At(j, "install") /\ Unlocked
  /\ memory' = [memory EXCEPT ![run[j].key] = run[j].value]
  /\ LeaveMap(j, run[j].key)
  /\ UNCHANGED <<phase, external, wanted, kinds, counters>>

\* setState refuses an entity that is not declared.
BeginSet(j, k, v) ==
  /\ memory[k] # None
  /\ Begin(j, "store", k, v)

Store(j) ==
  /\ At(j, "store")
  /\ memory' = [memory EXCEPT ![run[j].key] = run[j].value]
  /\ Goto(j, "show")
  /\ UNCHANGED <<phase, external, wanted, kinds, counters>>

Show(j) ==
  /\ At(j, "show")
  /\ Publish(j, [broker EXCEPT !.topic[run[j].key] = run[j].value], Idle)
  /\ Sent

\* Remove knows an entity from the map or from the registry.
Known(k) == memory[k] # None \/ k \in kinds

BeginRemove(j, k) ==
  /\ Known(k)
  /\ Begin(j, "hide", k, None)

\* Mutant of Hide: an error is ignored.
HideOrNot(j) ==
  /\ At(j, "hide")
  /\ \/ Publish(j, [broker EXCEPT !.config = @ \ {run[j].key}],
                [run[j] EXCEPT !.step = "clear"])
     \/ ~conn /\ Goto(j, "unregister") /\ UNCHANGED <<external, breaks>>
  /\ Sent

Hide(j) ==
  /\ At(j, "hide")
  /\ Publish(j, [broker EXCEPT !.config = @ \ {run[j].key}],
             [run[j] EXCEPT !.step = "clear"])
  /\ Sent

Clear(j) ==
  /\ At(j, "clear")
  /\ Publish(j, [broker EXCEPT !.topic[run[j].key] = None],
             [run[j] EXCEPT !.step = "unregister"])
  /\ Sent

Unregister(j) ==
  /\ At(j, "unregister")
  /\ kinds' = kinds \ {run[j].key}
  /\ Goto(j, "forget")
  /\ UNCHANGED <<phase, external, wanted, memory, counters>>

Forget(j) ==
  /\ At(j, "forget") /\ Unlocked
  /\ memory' = [memory EXCEPT ![run[j].key] = None]
  /\ LeaveMap(j, run[j].key)
  /\ UNCHANGED <<phase, external, wanted, kinds, counters>>

-------------------------------------------------------------------------------
(* Connecting, and handleReconnect.                                        *)

Drop == conn /\ Lose(broker) /\ Sent /\ UNCHANGED run

\* The client connects, again or for the first time, and runs the OnConnect callback.
Reconnect(p) ==
  /\ phase # "down" /\ ~conn
  /\ run[p] = Idle
  /\ conn' = TRUE
  /\ phase' = IF phase = "connecting" THEN "register" ELSE phase
  /\ To(p, [Idle EXCEPT !.step = "restore"])
  /\ UNCHANGED <<broker, subs, wanted, entities, counters>>

\* Mutant of Restore: the subscriptions are left to the client library.
RestoreNothing(p) ==
  /\ At(p, "restore")
  /\ Goto(p, "online")
  /\ UNCHANGED <<external, breaks>> /\ Sent

\* restoreSubscriptions takes a snapshot of the topics; it logs an error and goes on.
Restore(p) ==
  /\ At(p, "restore")
  /\ To(p, [run[p] EXCEPT !.step = "resubscribe", !.topics = wanted])
  /\ UNCHANGED <<external, breaks>> /\ Sent

Resubscribe(p) ==
  /\ At(p, "resubscribe")
  /\ IF run[p].topics = {} THEN Goto(p, "online") /\ UNCHANGED subs
     ELSE \E t \in run[p].topics :
            /\ To(p, [run[p] EXCEPT !.topics = @ \ {t}])
            /\ subs' = IF conn THEN subs \union {t} ELSE subs
  /\ UNCHANGED <<conn, broker, breaks>> /\ Sent

\* The birth message of Home Assistant skips the subscriptions.
HandleStatus(p) ==
  /\ phase # "down" /\ conn /\ "status" \in subs
  /\ run[p] = Idle
  /\ Break
  /\ To(p, [Idle EXCEPT !.step = "online"])
  /\ UNCHANGED <<phase, external, wanted, entities, calls, crashes>>

Online(p) ==
  /\ At(p, "online")
  /\ Publish(p, [broker EXCEPT !.avail = "online"], [run[p] EXCEPT !.step = "snapshot"])
  /\ Sent

\* The next entity of the snapshot, or the end.
Continue(p, held) ==
  IF held = Unheld THEN Idle ELSE [Idle EXCEPT !.step = "config", !.held = held]

Snapshot(p) ==
  /\ At(p, "snapshot") /\ Unlocked
  /\ To(p, Continue(p, [k \in Keys |-> IF memory[k] = None THEN None ELSE "live"]))
  /\ UNCHANGED <<external, breaks>> /\ Sent

Republish(p) ==
  /\ At(p, "config")
  /\ \E k \in Keys :
       /\ run[p].held[k] # None
       /\ Publish(p, [broker EXCEPT !.config = @ \union {k}],
                  [run[p] EXCEPT !.step = "read", !.key = k])
  /\ Sent

\* The last state is read without the mutex: during an assignment the reader may see the
\* old slice, the new one, or the header of one with the bytes of the other.
Torn == "torn"
Readable(p, k) ==
  IF run[p].held[k] # "live" THEN {run[p].held[k]}
  ELSE {memory[k]} \union
       UNION {{run[j].value, Torn} : j \in {i \in Jobs : At(i, "store") /\ run[i].key = k}}

\* Mutant of Read: hasState is not asked for.
ReadUnasked(p) ==
  LET k == run[p].key
  IN  /\ At(p, "read")
      /\ \E v \in Readable(p, k) : To(p, [run[p] EXCEPT !.step = "state", !.value = v])
      /\ UNCHANGED <<external, breaks>> /\ Sent

\* Mutant of Read: a state is not published again.
ReadNothing(p) ==
  /\ At(p, "read")
  /\ To(p, Continue(p, [run[p].held EXCEPT ![run[p].key] = None]))
  /\ UNCHANGED <<external, breaks>> /\ Sent

Read(p) ==
  LET k == run[p].key
  IN  /\ At(p, "read")
      /\ \E v \in Readable(p, k) :
           To(p, IF v = "unset" THEN Continue(p, [run[p].held EXCEPT ![k] = None])
                 ELSE [run[p] EXCEPT !.step = "state", !.value = v])
      /\ UNCHANGED <<external, breaks>> /\ Sent

Resend(p) ==
  LET k == run[p].key
  IN  /\ At(p, "state")
      /\ Publish(p, [broker EXCEPT !.topic[k] = run[p].value],
                 Continue(p, [run[p].held EXCEPT ![k] = None]))
      /\ Sent

HandleReconnect(p) ==
  \/ Restore(p) \/ Resubscribe(p) \/ Online(p) \/ Snapshot(p)
  \/ Republish(p) \/ Read(p) \/ Resend(p)

-------------------------------------------------------------------------------
(* The process.                                                            *)

\* Connect comes first, then the subscriptions: to the status of Home Assistant and to
\* the commands.
Start ==
  /\ phase = "down"
  /\ phase' = "connecting"
  /\ UNCHANGED <<external, wanted, entities, run, counters>>

Register ==
  /\ phase = "register"
  /\ phase' = "subscribe"
  /\ wanted' = IF wanted = {} THEN {"status"} ELSE Topics
  /\ UNCHANGED <<external, entities, run, counters>>

\* A subscription that fails for want of a connection is left to the next one.
Subscribe ==
  /\ phase = "subscribe"
  /\ phase' = IF wanted = Topics THEN "up" ELSE "register"
  /\ subs' = IF conn THEN subs \union {IF wanted = Topics THEN "commands" ELSE "status"}
             ELSE subs
  /\ UNCHANGED <<conn, broker, wanted, entities, run, counters>>

Crash ==
  /\ phase # "down"
  /\ Break
  /\ crashes' = crashes + 1
  /\ phase' = "down"
  /\ conn' = FALSE
  /\ subs' = {}
  /\ broker' = IF conn THEN [broker EXCEPT !.avail = "offline"] ELSE broker
  /\ wanted' = {}
  /\ memory' = [k \in Keys |-> None]
  /\ kinds' = {}
  /\ run' = [p \in DOMAIN run |-> Idle]
  /\ UNCHANGED calls

Init ==
  /\ phase = "down"
  /\ conn = FALSE
  /\ broker = [avail |-> "offline", config |-> {}, topic |-> [k \in Keys |-> None]]
  /\ subs = {} /\ wanted = {}
  /\ memory = [k \in Keys |-> None]
  /\ kinds = {}
  /\ run = [p \in Jobs \union Republishers |-> Idle]
  /\ calls = 0 /\ breaks = 0 /\ crashes = 0
  /\ exposed = FALSE /\ undisturbed = {}

\* The windows: a goroutine declares or removes an entity while another one has its key
\* in hand, and a declaration fails that the broker may have seen.
Declaring(j) == run[j].step \in {"announce", "upsert", "install"}
Removing(j) == run[j].step \in {"hide", "clear", "unregister", "forget"}

Window ==
  \E j \in Jobs :
    \/ \E i \in Jobs \ {j} : (Declaring(j) \/ Removing(j)) /\ run[i].key = run[j].key
    \/ \E p \in Republishers : Removing(j) /\ run[p].held[run[j].key] # None
    \/ At(j, "announce") /\ ~conn

\* The history.
Watch == exposed' = (exposed \/ Window)
Disturb == undisturbed' = {} /\ Watch
Alone(p) ==
  /\ undisturbed' = IF ~conn' THEN {}
                    ELSE IF run[p] = Idle /\ Unlocked THEN {p}
                    ELSE undisturbed \intersect {p}
  /\ Watch

Next ==
  \/ \E j \in Jobs, k \in Keys :
       \/ BeginDeclare(j, k) /\ Disturb
       \/ \E v \in Values : BeginSet(j, k, v) /\ Disturb
       \/ BeginRemove(j, k) /\ Disturb
  \/ \E j \in Jobs :
       \/ Announce(j) /\ Disturb
       \/ Upsert(j) /\ Disturb
       \/ Install(j) /\ Disturb
       \/ Store(j) /\ Disturb
       \/ Show(j) /\ Disturb
       \/ Hide(j) /\ Disturb
       \/ Clear(j) /\ Disturb
       \/ Unregister(j) /\ Disturb
       \/ Forget(j) /\ Disturb
  \/ \E p \in Republishers :
       \/ Reconnect(p) /\ Alone(p)
       \/ HandleStatus(p) /\ Alone(p)
       \/ Restore(p) /\ Alone(p)
       \/ Resubscribe(p) /\ Alone(p)
       \/ Online(p) /\ Alone(p)
       \/ Snapshot(p) /\ Alone(p)
       \/ Republish(p) /\ Alone(p)
       \/ Read(p) /\ Alone(p)
       \/ Resend(p) /\ Alone(p)
  \/ Drop /\ Disturb
  \/ Start /\ Disturb
  \/ Register /\ Disturb
  \/ Subscribe /\ Disturb
  \/ Crash /\ Disturb

Spec == Init /\ [][Next]_vars

\* A callback that runs goes on.  The properties below need no more: neither a connection
\* nor a caller that goes on.
Fairness == \A p \in Republishers : WF_state(HandleReconnect(p))

FairSpec == Spec /\ Fairness

-------------------------------------------------------------------------------
(* Properties.                                                             *)

Steps ==
  {"idle", "announce", "upsert", "install", "store", "show", "hide", "clear", "unregister",
   "forget", "restore", "resubscribe", "online", "snapshot", "config", "read", "state"}

\* The type of every variable.
TypeOK ==
  /\ phase \in {"down", "connecting", "register", "subscribe", "up"}
  /\ conn \in BOOLEAN
  /\ broker \in [avail : {"online", "offline"}, config : SUBSET Keys,
                 topic : [Keys -> Values \union {Torn, None}]]
  /\ subs \subseteq wanted /\ wanted \subseteq Topics
  /\ memory \in [Keys -> States \union {None}]
  /\ kinds \subseteq Keys
  /\ run \in [Jobs \union Republishers ->
              [step : Steps, key : Keys \union {None}, value : States \union {Torn, None},
               held : [Keys -> States \union {None, "live"}], topics : SUBSET Topics]]
  /\ calls \in Nat /\ breaks \in Nat /\ crashes \in Nat
  /\ exposed \in BOOLEAN /\ undisturbed \subseteq Republishers

\* "Cleanup is explicit through runtime removal" (README.md): an entity that Home
\* Assistant shows can be removed by the process that declared it, unless a window was
\* met.  A crash leaves entities that only their next declaration makes known.
Removable ==
  (crashes = 0 /\ ~exposed /\ ~Window) =>
     \A k \in broker.config :
        Known(k) \/ \E j \in Jobs : run[j].key = k /\ run[j].step \in {"announce", "upsert"}

\* "Runtime entity declaration is init-safe: it ... does not overwrite an existing
\* retained state value" (README.md): declarations, reconnects and restarts leave a state
\* alone until this process sets or removes it, unless a window was met.
InitSafe ==
  [][\A k \in Keys :
       (broker'.topic[k] # broker.topic[k] /\ ~exposed /\ ~Window) =>
          \/ memory[k] \in Values
          \/ \E j \in Jobs : run[j].key = k /\ run[j].step \in {"store", "show", "clear"}]_vars

\* An entity that is declared again keeps its last state, for the next reconnect to
\* publish; only a set that overlaps the declaration can be lost.
RedeclareKeeps ==
  [][\A k \in Keys :
       (memory[k] \in Values /\ ~exposed /\ ~Window) => memory'[k] # "unset"]_vars

\* A republication that ran alone has made the broker agree with the memory of the
\* runtime, whatever failures and races came before.
Agreement ==
  /\ broker.avail = "online"
  /\ \A k \in Keys : memory[k] # None =>
       k \in broker.config /\ (memory[k] = "unset" \/ broker.topic[k] = memory[k])

RepublicationRepairs ==
  [][\A p \in Republishers :
       (p \in undisturbed /\ run[p] # Idle /\ run'[p] = Idle /\ conn') => Agreement']_vars

\* While the program stays connected, Home Assistant comes to take it for available, and
\* once it is up its commands come through.
Reachable ==
  /\ <>[]conn => <>[](broker.avail = "online")
  /\ <>[](conn /\ phase = "up") => <>[](subs = Topics)
===============================================================================
