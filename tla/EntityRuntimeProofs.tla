-------------------------- MODULE EntityRuntimeProofs --------------------------
(***************************************************************************)
(* Theorems of EntityRuntime, for any number of entities, callers and      *)
(* republications and every bound: the type invariant, and the promises    *)
(* that hold as long as no window was met.                                 *)
(***************************************************************************)
EXTENDS EntityRuntime, TLAPS

Procs == Jobs \union Republishers

JobSteps == {"announce", "upsert", "install", "store", "show", "hide", "clear", "unregister",
             "forget"}
RepSteps == {"restore", "resubscribe", "online", "snapshot", "config", "read", "state"}

\* A caller has a key in hand, and a state where it needs one; what it sets is declared.
JobOK(r) ==
  /\ r.step \in JobSteps \union {"idle"}
  /\ r.step \in JobSteps => r.key \in Keys
  /\ r.step \in {"announce", "upsert", "install"} => r.value \in States
  /\ r.step \in {"store", "show"} => r.value \in Values
  /\ r.step = "store" => memory[r.key] # None

\* A republication works on an entity of its snapshot; a live one is in the map.
RepOK(r) ==
  /\ r.step \in RepSteps \union {"idle"}
  /\ r.step \in {"read", "state"} => r.key \in Keys /\ r.held[r.key] # None
  /\ r.step = "state" => r.value \in Values \union {Torn}
  /\ r.topics \subseteq wanted
  /\ \A k \in Keys : r.held[k] = "live" => memory[k] # None

TypeInv ==
  /\ TypeOK
  /\ \A j \in Jobs : JobOK(run[j])
  /\ \A p \in Republishers : RepOK(run[p])
  /\ phase = "subscribe" => "status" \in wanted

\* What holds while no window has been met:
\* an entity Home Assistant shows is known, or about to be;
ShownIsKnown ==
  crashes = 0 => \A k \in broker.config :
    Known(k) \/ \E j \in Jobs : run[j].key = k /\ run[j].step \in {"announce", "upsert"}

\* an entity that is being removed stays hidden;
RemovedIsHidden ==
  \A j \in Jobs : run[j].step \in {"clear", "unregister", "forget"} =>
    run[j].key \notin broker.config

\* an entity of a snapshot is in the map still, and has a state if it had one;
HeldIsThere ==
  \A p \in Republishers, k \in Keys :
    /\ run[p].held[k] # None => memory[k] # None
    /\ run[p].held[k] \in Values => memory[k] \in Values

\* a state that is published again belongs to an entity that has one, or is given one;
ResentIsSet ==
  \A p \in Republishers : At(p, "state") =>
    \/ memory[run[p].key] \in Values
    \/ \E j \in Jobs : At(j, "store") /\ run[j].key = run[p].key

\* a declaration carries the state of an entity that has one.
DeclaredKeeps ==
  \A j \in Jobs : Declaring(j) /\ memory[run[j].key] \in Values => run[j].value \in Values

Unexposed == ShownIsKnown /\ RemovedIsHidden /\ HeldIsThere /\ ResentIsSet /\ DeclaredKeeps

IInv == TypeInv /\ (~exposed /\ ~Window => Unexposed)
-------------------------------------------------------------------------------
(* Types.                                                                  *)

BrokerType == [avail : {"online", "offline"}, config : SUBSET Keys,
               topic : [Keys -> Values \union {Torn, None}]]
RunType == [step : Steps, key : Keys \union {None}, value : States \union {Torn, None},
            held : [Keys -> States \union {None, "live"}], topics : SUBSET Topics]

\* Nobody but p moves.
Moves(p) == \A q \in Procs \ {p} : run'[q] = run[q]

LEMMA IdleType == Idle \in RunType
BY DEF Idle, RunType, Steps, Unheld

\* What a publish of p does, whose next step is next and which leaves the broker with b.
LEMMA PublishType ==
  ASSUME TypeOK, NEW p \in Procs, NEW b \in BrokerType, NEW next \in RunType,
         Publish(p, b, next)
  PROVE  /\ conn' \in BOOLEAN /\ broker' \in BrokerType /\ subs' \subseteq subs
         /\ breaks' \in Nat
         /\ run' \in [Procs -> RunType] /\ Moves(p)
         /\ run'[p] \in {next, run[p], Idle}
<1>0. /\ run \in [Procs -> RunType] /\ broker \in BrokerType /\ conn \in BOOLEAN
      /\ breaks \in Nat /\ next \in RunType /\ Idle \in RunType
  BY IdleType DEF TypeOK, Procs, RunType, BrokerType
<1> USE <1>0 DEF Moves, external
<1>1. CASE conn /\ broker' = b /\ To(p, next) /\ UNCHANGED <<conn, subs, breaks>>
  BY <1>1 DEF To
<1>2. CASE conn /\ Lose(b) /\ UNCHANGED run
  <2>1. broker' = [b EXCEPT !.avail = "offline"] /\ subs' = {} /\ conn' = FALSE
        /\ breaks' = breaks + 1 /\ run' = run
    BY <1>2 DEF Lose, Break
  <2>2. broker' \in BrokerType
    BY <2>1 DEF BrokerType
  <2>3. subs' \subseteq subs /\ breaks' \in Nat
    BY <2>1
  <2>7. conn' \in BOOLEAN
    BY <2>1
  <2>4. run' \in [Procs -> RunType] /\ Moves(p)
    BY <2>1
  <2>5. run'[p] \in {next, run[p], Idle}
    BY <2>1
  <2>6. QED
    BY <2>2, <2>3, <2>4, <2>5, <2>7, Zenon
<1>3. CASE ~conn /\ To(p, Idle) /\ UNCHANGED <<external, breaks>>
  BY <1>3 DEF To
<1>4. QED
  BY <1>1, <1>2, <1>3 DEF Publish

\* A step of p that leaves the map alone, to a record that is as it should be.
LEMMA MoveOK ==
  ASSUME TypeInv, NEW p \in Procs, NEW next,
         p \in Jobs => JobOK(next), p \in Republishers => RepOK(next),
         Moves(p), run'[p] \in {next, run[p], Idle},
         memory' = memory, wanted \subseteq wanted'
  PROVE  (\A j \in Jobs : JobOK(run[j])') /\ (\A q \in Republishers : RepOK(run[q])')
<1>1. JobOK(Idle) /\ RepOK(Idle)
  BY NoneAssumption DEF JobOK, RepOK, Idle, JobSteps, Unheld
<1>2. ASSUME NEW j \in Jobs PROVE JobOK(run'[j])
  <2>1. CASE j # p
    BY <2>1 DEF Moves, TypeInv, Procs
  <2>2. CASE j = p
    BY <1>1, <2>2 DEF TypeInv
  <2>3. QED
    BY <2>1, <2>2
<1>3. ASSUME NEW q \in Republishers PROVE RepOK(run'[q])
  <2>1. CASE q # p
    BY <2>1 DEF Moves, TypeInv, Procs
  <2>2. CASE q = p
    BY <1>1, <2>2 DEF TypeInv
  <2>3. QED
    BY <2>1, <2>2
<1>4. ASSUME NEW j \in Jobs PROVE JobOK(run[j])'
  BY <1>2 DEF JobOK
<1>5. ASSUME NEW q \in Republishers PROVE RepOK(run[q])'
  BY <1>3 DEF RepOK
<1>6. QED
  BY <1>4, <1>5

\* A publish whose next step is as it should be.
LEMMA PublishStep ==
  ASSUME TypeInv, NEW p \in Procs, NEW b \in BrokerType, NEW next \in RunType,
         p \in Jobs => JobOK(next), p \in Republishers => RepOK(next),
         Publish(p, b, next), Sent, exposed' \in BOOLEAN, undisturbed' \subseteq Republishers
  PROVE  TypeInv'
<1>1. TypeOK
  BY DEF TypeInv
<1>2. /\ UNCHANGED <<phase, wanted, memory, kinds, calls, crashes>>
  BY DEF Sent, entities
<1>3. (\A j \in Jobs : JobOK(run[j])') /\ (\A q \in Republishers : RepOK(run[q])')
  BY <1>1, <1>2, PublishType, MoveOK
<1>4. conn' \in BOOLEAN
  BY <1>1, PublishType
<1>5. /\ broker' \in BrokerType /\ subs' \subseteq subs /\ breaks' \in Nat
      /\ run' \in [Procs -> RunType]
  BY <1>1, PublishType
<1>6. TypeOK'
  BY <1>1, <1>2, <1>4, <1>5 DEF TypeOK, Procs, BrokerType, RunType
<1>7. QED
  BY <1>1, <1>2, <1>3, <1>6 DEF TypeInv

\* A step of p that changes no more than where it is.
LEMMA LocalStep ==
  ASSUME TypeInv, NEW p \in Procs, NEW next \in RunType,
         p \in Jobs => JobOK(next), p \in Republishers => RepOK(next),
         To(p, next), UNCHANGED <<phase, external, wanted, memory>>, kinds' \subseteq Keys,
         calls' \in Nat, breaks' \in Nat, crashes' \in Nat,
         exposed' \in BOOLEAN, undisturbed' \subseteq Republishers
  PROVE  TypeInv'
<1>1. run \in [Procs -> RunType]
  BY DEF TypeInv, TypeOK, Procs, RunType
<1>2. run' \in [Procs -> RunType] /\ Moves(p) /\ run'[p] = next
  BY <1>1 DEF To, Moves
<1>3. (\A j \in Jobs : JobOK(run[j])') /\ (\A q \in Republishers : RepOK(run[q])')
  BY <1>2, MoveOK
<1>4. UNCHANGED <<phase, conn, broker, subs, wanted, memory>>
  BY DEF external
<1>5. TypeOK'
  BY <1>2, <1>4 DEF TypeInv, TypeOK, Procs, RunType
<1>6. QED
  BY <1>3, <1>4, <1>5 DEF TypeInv

\* The history variables keep their types.
HistoryOK == exposed' \in BOOLEAN /\ undisturbed' \subseteq Republishers

LEMMA DisturbType ==
  ASSUME TypeInv, Disturb PROVE HistoryOK
<1>1. exposed' = (exposed \/ Window) /\ undisturbed' = {}
  BY DEF Disturb, Watch
<1>2. exposed' \in BOOLEAN
  BY <1>1, Zenon
<1>3. QED
  BY <1>1, <1>2 DEF HistoryOK

LEMMA AloneType ==
  ASSUME TypeInv, NEW p \in Republishers, Alone(p) PROVE HistoryOK
<1>1. exposed' = (exposed \/ Window)
  BY DEF Alone, Watch
<1>2. exposed' \in BOOLEAN
  BY <1>1, Zenon
<1>3. undisturbed' \subseteq Republishers
  BY DEF Alone, TypeInv, TypeOK
<1>4. QED
  BY <1>2, <1>3 DEF HistoryOK

-------------------------------------------------------------------------------
(* The type invariant: the steps of a caller.                              *)

\* A call begins.
LEMMA BeginType ==
  ASSUME TypeInv, HistoryOK, NEW j \in Jobs, NEW step \in JobSteps, NEW k \in Keys,
         NEW v \in States \union {None}, Begin(j, step, k, v),
         step \in {"announce", "upsert", "install"} => v \in States,
         step \in {"store", "show"} => v \in Values,
         step = "store" => memory[k] # None
  PROVE  TypeInv'
<1> DEFINE next == [Idle EXCEPT !.step = step, !.key = k, !.value = v]
<1>1. next \in RunType
  BY IdleType DEF RunType, Steps, JobSteps
<1>2. next.step = step /\ next.key = k /\ next.value = v
  BY IdleType DEF RunType
<1>3. JobOK(next)
  BY <1>2 DEF JobOK
<1>4. /\ To(j, next) /\ calls' = calls + 1
      /\ UNCHANGED <<phase, external, wanted, memory, kinds, breaks, crashes>>
  BY DEF Begin, entities
<1>5. /\ kinds' \subseteq Keys /\ calls' \in Nat /\ breaks' \in Nat /\ crashes' \in Nat
  BY <1>4 DEF TypeInv, TypeOK
<1> HIDE DEF next
<1>6. j \in Procs /\ j \notin Republishers
  BY GoroutinesAssumption DEF Procs
<1>7. QED
  BY <1>1, <1>3, <1>4, <1>5, <1>6, LocalStep DEF HistoryOK

\* The steps of a caller that publish.
LEMMA JobPublishType ==
  ASSUME TypeInv, HistoryOK, NEW j \in Jobs, Announce(j) \/ Show(j) \/ Hide(j) \/ Clear(j)
  PROVE  TypeInv'
<1>0. /\ j \in Procs /\ j \notin Republishers /\ JobOK(run[j]) /\ run[j] \in RunType
      /\ broker \in BrokerType
  BY GoroutinesAssumption DEF Procs, TypeInv, TypeOK, RunType, BrokerType
<1>1. CASE Announce(j)
  <2> DEFINE b == [broker EXCEPT !.config = @ \union {run[j].key}]
             next == [run[j] EXCEPT !.step = "upsert"]
  <2>1. b \in BrokerType
    BY <1>0, <1>1 DEF Announce, At, BrokerType, JobOK, JobSteps
  <2>2. next \in RunType /\ JobOK(next)
    BY <1>0, <1>1 DEF Announce, At, RunType, JobOK, JobSteps, Steps
  <2>3. Publish(j, b, next) /\ Sent
    BY <1>1 DEF Announce
  <2> HIDE DEF b, next
  <2>4. QED
    BY <1>0, <2>1, <2>2, <2>3, PublishStep DEF HistoryOK
<1>2. CASE Show(j)
  <2> DEFINE b == [broker EXCEPT !.topic[run[j].key] = run[j].value]
  <2>1. b \in BrokerType
    BY <1>0, <1>2 DEF Show, At, BrokerType, JobOK, JobSteps
  <2>2. Idle \in RunType /\ JobOK(Idle)
    BY IdleType DEF JobOK, Idle, JobSteps
  <2>3. Publish(j, b, Idle) /\ Sent
    BY <1>2 DEF Show
  <2> HIDE DEF b
  <2>4. QED
    BY <1>0, <2>1, <2>2, <2>3, PublishStep DEF HistoryOK
<1>3. CASE Hide(j)
  <2> DEFINE b == [broker EXCEPT !.config = @ \ {run[j].key}]
             next == [run[j] EXCEPT !.step = "clear"]
  <2>1. b \in BrokerType
    BY <1>0 DEF BrokerType
  <2>2. next \in RunType /\ JobOK(next)
    BY <1>0, <1>3 DEF Hide, At, RunType, JobOK, JobSteps, Steps
  <2>3. Publish(j, b, next) /\ Sent
    BY <1>3 DEF Hide
  <2> HIDE DEF b, next
  <2>4. QED
    BY <1>0, <2>1, <2>2, <2>3, PublishStep DEF HistoryOK
<1>4. CASE Clear(j)
  <2> DEFINE b == [broker EXCEPT !.topic[run[j].key] = None]
             next == [run[j] EXCEPT !.step = "unregister"]
  <2>1. b \in BrokerType
    BY <1>0 DEF BrokerType
  <2>2. next \in RunType /\ JobOK(next)
    BY <1>0, <1>4 DEF Clear, At, RunType, JobOK, JobSteps, Steps
  <2>3. Publish(j, b, next) /\ Sent
    BY <1>4 DEF Clear
  <2> HIDE DEF b, next
  <2>4. QED
    BY <1>0, <2>1, <2>2, <2>3, PublishStep DEF HistoryOK
<1>5. QED
  BY <1>1, <1>2, <1>3, <1>4

\* The steps of a caller at the registry.
LEMMA JobRegistryType ==
  ASSUME TypeInv, HistoryOK, NEW j \in Jobs, Upsert(j) \/ Unregister(j)
  PROVE  TypeInv'
<1>0. /\ j \in Procs /\ j \notin Republishers /\ JobOK(run[j]) /\ run[j] \in RunType
  BY GoroutinesAssumption DEF Procs, TypeInv, TypeOK, RunType
<1>1. PICK step \in {"install", "forget"} :
        /\ To(j, [run[j] EXCEPT !.step = step])
        /\ run[j].step = IF step = "install" THEN "upsert" ELSE "unregister"
  BY DEF Upsert, Unregister, Goto, At
<1>2. [run[j] EXCEPT !.step = step] \in RunType /\ JobOK([run[j] EXCEPT !.step = step])
  BY <1>0, <1>1 DEF RunType, JobOK, JobSteps, Steps
<1>3. run[j].key \in Keys
  BY <1>0, <1>1 DEF JobOK, JobSteps
<1>4. /\ UNCHANGED <<phase, external, wanted, memory, calls, breaks, crashes>>
      /\ kinds' \subseteq Keys
  BY <1>3 DEF Upsert, Unregister, counters, TypeInv, TypeOK
<1>5. calls' \in Nat /\ breaks' \in Nat /\ crashes' \in Nat
  BY <1>4 DEF TypeInv, TypeOK
<1>6. QED
  BY <1>0, <1>1, <1>2, <1>4, <1>5, LocalStep DEF HistoryOK

\* What LeaveMap does to the others: an entity that was in their snapshot remains there,
\* with its last state.
LEMMA LeaveMapEffect ==
  ASSUME TypeInv, NEW j \in Jobs, NEW k \in Keys, LeaveMap(j, k)
  PROVE  /\ run' \in [Procs -> RunType] /\ run'[j] = Idle
         /\ \A p \in Procs \ {j} :
              /\ run'[p].step = run[p].step /\ run'[p].key = run[p].key
              /\ run'[p].value = run[p].value /\ run'[p].topics = run[p].topics
              /\ \A x \in Keys \ {k} : run'[p].held[x] = run[p].held[x]
              /\ run[p].held[k] = "live" => run'[p].held[k] = memory[k]
              /\ run[p].held[k] # "live" => run'[p].held[k] = run[p].held[k]
<1>1. /\ run \in [Procs -> RunType] /\ memory[k] \in States \union {None} /\ j \in Procs
  BY DEF TypeInv, TypeOK, Procs, RunType
<1>2. run' = [p \in Procs |-> IF p = j THEN Idle ELSE [run[p] EXCEPT !.held[k] = Kept(p, k)]]
  BY <1>1 DEF LeaveMap
<1>3. ASSUME NEW p \in Procs PROVE Kept(p, k) \in States \union {None, "live"}
  BY <1>1, <1>3 DEF Kept, RunType
<1>4. ASSUME NEW p \in Procs \ {j} PROVE [run[p] EXCEPT !.held[k] = Kept(p, k)] \in RunType
  BY <1>1, <1>3, <1>4 DEF RunType
<1>5. run' \in [Procs -> RunType] /\ run'[j] = Idle
  BY <1>1, <1>2, <1>4, IdleType
<1>6. ASSUME NEW p \in Procs \ {j}
      PROVE  /\ run'[p].step = run[p].step /\ run'[p].key = run[p].key
             /\ run'[p].value = run[p].value /\ run'[p].topics = run[p].topics
             /\ \A x \in Keys \ {k} : run'[p].held[x] = run[p].held[x]
             /\ run[p].held[k] = "live" => run'[p].held[k] = memory[k]
             /\ run[p].held[k] # "live" => run'[p].held[k] = run[p].held[k]
  <2>1. run'[p] = [run[p] EXCEPT !.held[k] = Kept(p, k)] /\ run[p] \in RunType
    BY <1>1, <1>2, <1>6
  <2>2. QED
    BY <2>1 DEF RunType, Kept
<1>7. QED
  BY <1>5, <1>6

\* The steps of a caller that change the map.
LEMMA JobMapType ==
  ASSUME TypeInv, HistoryOK, NEW j \in Jobs, Install(j) \/ Forget(j) \/ Store(j)
  PROVE  TypeInv'
<1>0. /\ j \in Procs /\ j \notin Republishers /\ JobOK(run[j])
      /\ run \in [Procs -> RunType] /\ memory \in [Keys -> States \union {None}]
      /\ run[j].key \in Keys
  BY GoroutinesAssumption
  DEF Procs, TypeInv, TypeOK, RunType, Install, Forget, Store, At, JobOK, JobSteps
<1>1. /\ UNCHANGED <<phase, conn, broker, subs, wanted, kinds, calls, breaks, crashes>>
  BY DEF Install, Forget, Store, external, counters
<1>2. CASE Install(j) \/ Forget(j)
  <2> DEFINE k == run[j].key
  <2>1. PICK v \in States \union {None} :
          memory' = [memory EXCEPT ![k] = v] /\ LeaveMap(j, k) /\ Unlocked
    BY <1>0, <1>2 DEF Install, Forget, JobOK, At
  <2> HIDE DEF k
  <2>2. k \in Keys
    BY <1>0 DEF k
  <2>3. memory' \in [Keys -> States \union {None}] /\ \A x \in Keys \ {k} : memory'[x] = memory[x]
    BY <1>0, <2>1, <2>2
  <2>4. run' \in [Procs -> RunType] /\ run'[j] = Idle
    BY <2>1, <2>2, LeaveMapEffect
  <2>5. ASSUME NEW i \in Jobs PROVE JobOK(run[i])'
    <3>1. CASE i = j
      <4>1. Idle.step = "idle"
        BY DEF Idle
      <4>2. QED
        BY <2>4, <3>1, <4>1 DEF JobOK, JobSteps
    <3>2. CASE i # j
      <4>1. /\ run'[i].step = run[i].step /\ run'[i].key = run[i].key
            /\ run'[i].value = run[i].value
        BY <2>1, <2>2, <3>2, LeaveMapEffect DEF Procs
      <4>2. run[i].step # "store" /\ JobOK(run[i])
        BY <2>1 DEF Unlocked, At, TypeInv
      <4>3. QED
        BY <4>1, <4>2 DEF JobOK
    <3>3. QED
      BY <3>1, <3>2
  <2>6. ASSUME NEW q \in Republishers PROVE RepOK(run[q])'
    <3>1. /\ run'[q].step = run[q].step /\ run'[q].key = run[q].key
          /\ run'[q].value = run[q].value /\ run'[q].topics = run[q].topics
          /\ \A x \in Keys \ {k} : run'[q].held[x] = run[q].held[x]
          /\ run[q].held[k] = "live" => run'[q].held[k] = memory[k]
          /\ run[q].held[k] # "live" => run'[q].held[k] = run[q].held[k]
      BY <1>0, <2>1, <2>2, <2>6, LeaveMapEffect DEF Procs
    <3>2. RepOK(run[q])
      BY DEF TypeInv
    <3>3. memory[k] # "live"
      BY <1>0, <2>2, NoneAssumption, ValuesAssumption DEF States
    <3>4. run'[q].held[k] # "live" /\ (run[q].held[k] # None => run'[q].held[k] # None)
      BY <2>2, <3>1, <3>2, <3>3 DEF RepOK
    <3>5. QED
      BY <1>1, <2>2, <2>3, <3>1, <3>2, <3>4 DEF RepOK
  <2>7. TypeOK'
    BY <1>1, <2>3, <2>4 DEF TypeInv, TypeOK, HistoryOK, Procs, RunType
  <2>8. QED
    BY <1>1, <2>5, <2>6, <2>7 DEF TypeInv
<1>3. CASE Store(j)
  <2> DEFINE next == [run[j] EXCEPT !.step = "show"]
  <2>1. memory' = [memory EXCEPT ![run[j].key] = run[j].value] /\ To(j, next)
        /\ run[j].value \in Values
    BY <1>0, <1>3 DEF Store, Goto, At, JobOK
  <2>2. next \in RunType /\ next.step = "show" /\ next.key = run[j].key
        /\ next.value = run[j].value
    BY <1>0 DEF RunType, Steps
  <2> HIDE DEF next
  <2>3. run' \in [Procs -> RunType] /\ Moves(j) /\ run'[j] = next
    BY <1>0, <2>1, <2>2 DEF To, Moves
  <2>4. memory' \in [Keys -> States \union {None}]
        /\ \A x \in Keys : memory[x] # None => memory'[x] # None
    BY <1>0, <2>1, NoneAssumption DEF States
  <2>5. ASSUME NEW i \in Jobs PROVE JobOK(run[i])'
    <3>1. CASE i = j
      BY <1>0, <2>1, <2>2, <2>3, <3>1 DEF JobOK, JobSteps
    <3>2. CASE i # j
      <4>1. run'[i] = run[i] /\ JobOK(run[i])
        BY <2>3, <3>2 DEF Moves, Procs, TypeInv
      <4>2. QED
        BY <2>4, <4>1 DEF JobOK, JobSteps
    <3>3. QED
      BY <3>1, <3>2
  <2>6. ASSUME NEW q \in Republishers PROVE RepOK(run[q])'
    <3>1. run'[q] = run[q] /\ RepOK(run[q])
      BY <1>0, <2>3 DEF Moves, Procs, TypeInv
    <3>2. QED
      BY <1>1, <2>4, <3>1 DEF RepOK
  <2>7. TypeOK'
    BY <1>1, <2>3, <2>4 DEF TypeInv, TypeOK, HistoryOK, Procs, RunType
  <2>8. QED
    BY <1>1, <2>5, <2>6, <2>7 DEF TypeInv
<1>4. QED
  BY <1>2, <1>3

-------------------------------------------------------------------------------
(* The type invariant: the steps of a republication, and of the process.   *)

\* A republication is no caller, and its record is as it should be.
LEMMA RepFacts ==
  ASSUME TypeInv, NEW p \in Republishers
  PROVE  /\ p \in Procs /\ p \notin Jobs /\ RepOK(run[p]) /\ run[p] \in RunType
         /\ run \in [Procs -> RunType] /\ broker \in BrokerType
         /\ memory \in [Keys -> States \union {None}]
         /\ RepOK(Idle) /\ Idle \in RunType
BY GoroutinesAssumption, NoneAssumption, IdleType
DEF Procs, TypeInv, TypeOK, RunType, BrokerType, RepOK, Idle, Unheld

\* What is left of a snapshot is as it should be.
LEMMA ContinueOK ==
  ASSUME TypeInv, NEW p \in Republishers, NEW held \in [Keys -> States \union {None, "live"}],
         \A k \in Keys : held[k] = "live" => memory[k] # None
  PROVE  Continue(p, held) \in RunType /\ RepOK(Continue(p, held))
<1>1. Idle \in RunType /\ RepOK(Idle)
  BY RepFacts
<1>2. CASE held = Unheld
  BY <1>1, <1>2 DEF Continue
<1>3. CASE held # Unheld
  <2> DEFINE next == [Idle EXCEPT !.step = "config", !.held = held]
  <2>1. next \in RunType
    BY <1>1 DEF RunType, Steps
  <2>2. next.step = "config" /\ next.held = held /\ next.topics = Idle.topics
    BY <1>1 DEF RunType
  <2>3. Idle.topics = {}
    BY DEF Idle
  <2>4. RepOK(next)
    BY <2>2, <2>3 DEF RepOK, RepSteps
  <2>5. Continue(p, held) = next
    BY <1>3 DEF Continue
  <2>6. QED
    BY <2>1, <2>4, <2>5
<1>4. QED
  BY <1>2, <1>3

\* An entity less in the snapshot.
LEMMA DropHeldOK ==
  ASSUME TypeInv, NEW p \in Republishers
  PROVE  LET next == Continue(p, [run[p].held EXCEPT ![run[p].key] = None])
         IN next \in RunType /\ RepOK(next)
<1> DEFINE held == [run[p].held EXCEPT ![run[p].key] = None]
<1>1. held \in [Keys -> States \union {None, "live"}]
  BY RepFacts DEF RunType
<1>2. \A k \in Keys : held[k] = "live" => memory[k] # None
  BY RepFacts, NoneAssumption DEF RepOK, RunType
<1> HIDE DEF held
<1>3. Continue(p, held) \in RunType /\ RepOK(Continue(p, held))
  BY <1>1, <1>2, ContinueOK
<1>4. QED
  BY <1>3 DEF held

LEMMA RepPublishType ==
  ASSUME TypeInv, HistoryOK, NEW p \in Republishers, Online(p) \/ Republish(p) \/ Resend(p)
  PROVE  TypeInv'
<1>1. CASE Online(p)
  <2> DEFINE b == [broker EXCEPT !.avail = "online"]
             next == [run[p] EXCEPT !.step = "snapshot"]
  <2>1. b \in BrokerType
    BY RepFacts DEF BrokerType
  <2>2. next \in RunType /\ RepOK(next)
    BY RepFacts DEF RunType, RepOK, RepSteps, Steps
  <2>3. Publish(p, b, next) /\ Sent
    BY <1>1 DEF Online
  <2> HIDE DEF b, next
  <2>4. QED
    BY RepFacts, <2>1, <2>2, <2>3, PublishStep DEF HistoryOK
<1>2. CASE Republish(p)
  <2>0. PICK k \in Keys :
          /\ run[p].held[k] # None
          /\ Publish(p, [broker EXCEPT !.config = @ \union {k}],
                     [run[p] EXCEPT !.step = "read", !.key = k])
    BY <1>2 DEF Republish
  <2> DEFINE b == [broker EXCEPT !.config = @ \union {k}]
             next == [run[p] EXCEPT !.step = "read", !.key = k]
  <2>1. b \in BrokerType
    BY RepFacts DEF BrokerType
  <2>2. next \in RunType
    BY RepFacts DEF RunType, Steps
  <2>3. /\ next.step = "read" /\ next.key = k /\ next.held = run[p].held
        /\ next.topics = run[p].topics
    BY RepFacts DEF RunType
  <2>4. RepOK(next)
    BY RepFacts, <2>0, <2>3 DEF RepOK, RepSteps
  <2>5. Publish(p, b, next) /\ Sent
    BY <1>2, <2>0 DEF Republish
  <2> HIDE DEF b, next
  <2>6. QED
    BY RepFacts, <2>1, <2>2, <2>4, <2>5, PublishStep DEF HistoryOK
<1>3. CASE Resend(p)
  <2> DEFINE b == [broker EXCEPT !.topic[run[p].key] = run[p].value]
             next == Continue(p, [run[p].held EXCEPT ![run[p].key] = None])
  <2>1. b \in BrokerType
    BY RepFacts, <1>3 DEF Resend, At, BrokerType, RepOK
  <2>2. next \in RunType /\ RepOK(next)
    BY DropHeldOK
  <2>3. Publish(p, b, next) /\ Sent
    BY <1>3 DEF Resend
  <2> HIDE DEF b, next
  <2>4. QED
    BY RepFacts, <2>1, <2>2, <2>3, PublishStep DEF HistoryOK
<1>4. QED
  BY <1>1, <1>2, <1>3

\* What a republication may read is a state, or torn.
LEMMA ReadableType ==
  ASSUME TypeInv, NEW p \in Republishers, At(p, "read"), NEW v \in Readable(p, run[p].key)
  PROVE  v \in States \union {Torn}
<1> DEFINE k == run[p].key
<1>1. k \in Keys /\ run[p].held[k] # None
  BY RepFacts DEF At, RepOK
<1>2. CASE run[p].held[k] # "live"
  BY <1>1, <1>2, RepFacts DEF Readable, RunType
<1>3. CASE run[p].held[k] = "live"
  <2>1. memory[k] \in States
    BY <1>1, <1>3, RepFacts DEF RepOK
  <2>2. \A j \in Jobs : At(j, "store") => run[j].value \in States
    BY DEF TypeInv, JobOK, At, States
  <2>3. QED
    BY <1>3, <2>1, <2>2 DEF Readable
<1>4. QED
  BY <1>2, <1>3

LEMMA RepLocalType ==
  ASSUME TypeInv, HistoryOK, NEW p \in Republishers,
         Restore(p) \/ Snapshot(p) \/ Read(p) \/ HandleStatus(p)
  PROVE  TypeInv'
<1>0. /\ UNCHANGED <<phase, external, wanted, memory, kinds, calls, crashes>>
      /\ breaks' \in Nat
  <2>1. UNCHANGED <<phase, external, wanted, entities, calls, crashes>>
    BY DEF Restore, Snapshot, Read, HandleStatus, Sent
  <2>2. breaks' = breaks \/ breaks' = breaks + 1
    BY DEF Restore, Snapshot, Read, HandleStatus, Break
  <2>3. QED
    BY <2>1, <2>2 DEF entities, TypeInv, TypeOK
<1>1. kinds' \subseteq Keys /\ calls' \in Nat /\ crashes' \in Nat
  BY <1>0 DEF TypeInv, TypeOK
<1>2. SUFFICES \E next \in RunType : To(p, next) /\ RepOK(next)
  BY RepFacts, <1>0, <1>1, LocalStep DEF HistoryOK
<1>3. CASE Restore(p)
  <2> DEFINE next == [run[p] EXCEPT !.step = "resubscribe", !.topics = wanted]
  <2>1. next \in RunType /\ next.step = "resubscribe" /\ next.topics = wanted
        /\ next.held = run[p].held
    BY RepFacts, ZenonT(30) DEF TypeInv, TypeOK, RunType, Steps
  <2>2. RepOK(next)
    BY RepFacts, <2>1 DEF RepOK, RepSteps
  <2>3. QED
    BY <1>3, <2>1, <2>2 DEF Restore
<1>4. CASE Snapshot(p)
  <2> DEFINE held == [k \in Keys |-> IF memory[k] = None THEN None ELSE "live"]
  <2>1. held \in [Keys -> States \union {None, "live"}]
        /\ \A k \in Keys : held[k] = "live" => memory[k] # None
    BY NoneAssumption
  <2>2. To(p, Continue(p, held))
    BY <1>4 DEF Snapshot
  <2> HIDE DEF held
  <2>3. QED
    BY <2>1, <2>2, ContinueOK
<1>5. CASE Read(p)
  <2>1. PICK v \in Readable(p, run[p].key) :
          To(p, IF v = "unset" THEN Continue(p, [run[p].held EXCEPT ![run[p].key] = None])
                ELSE [run[p] EXCEPT !.step = "state", !.value = v])
    BY <1>5 DEF Read
  <2>2. v \in States \union {Torn} /\ At(p, "read")
    BY <1>5, ReadableType DEF Read
  <2>3. CASE v = "unset"
    BY <2>1, <2>3, DropHeldOK
  <2>4. CASE v # "unset"
    <3> DEFINE next == [run[p] EXCEPT !.step = "state", !.value = v]
    <3>1. /\ next \in RunType /\ next.step = "state" /\ next.value = v
          /\ next.key = run[p].key /\ next.held = run[p].held
          /\ next.topics = run[p].topics
      BY RepFacts, <2>2 DEF RunType, Steps
    <3>2. RepOK(next)
      BY RepFacts, <2>2, <2>4, <3>1 DEF RepOK, RepSteps, States, At
    <3>3. QED
      BY <2>1, <2>4, <3>1, <3>2
  <2>5. QED
    BY <2>3, <2>4
<1>6. CASE HandleStatus(p)
  <2> DEFINE next == [Idle EXCEPT !.step = "online"]
  <2>1. /\ next \in RunType /\ next.step = "online" /\ next.held = Idle.held
        /\ next.topics = Idle.topics
    BY RepFacts DEF RunType, Steps
  <2>2. RepOK(next)
    BY RepFacts, <2>1 DEF RepOK, RepSteps
  <2>3. QED
    BY <1>6, <2>1, <2>2 DEF HandleStatus
<1>7. QED
  BY <1>3, <1>4, <1>5, <1>6

\* A step of p that changes no more than where it is, the phase, and the connection.
LEMMA LinkStep ==
  ASSUME TypeInv, HistoryOK, NEW p \in Republishers, NEW next \in RunType, RepOK(next),
         To(p, next), UNCHANGED <<broker, wanted, entities, counters>>,
         conn' \in BOOLEAN, subs' \subseteq wanted,
         phase' \in {phase, "register"}
  PROVE  TypeInv'
<1>1. run' \in [Procs -> RunType] /\ Moves(p) /\ run'[p] = next
  BY RepFacts DEF To, Moves
<1>2. UNCHANGED <<broker, wanted, memory, kinds, calls, breaks, crashes>>
  BY DEF entities, counters
<1>3. (\A j \in Jobs : JobOK(run[j])') /\ (\A q \in Republishers : RepOK(run[q])')
  BY RepFacts, <1>1, <1>2, MoveOK
<1>4. TypeOK'
  BY <1>1, <1>2 DEF TypeInv, TypeOK, HistoryOK, Procs, RunType
<1>5. QED
  BY <1>2, <1>3, <1>4 DEF TypeInv

LEMMA RepLinkType ==
  ASSUME TypeInv, HistoryOK, NEW p \in Republishers, Reconnect(p) \/ Resubscribe(p)
  PROVE  TypeInv'
<1>1. CASE Reconnect(p)
  <2> DEFINE next == [Idle EXCEPT !.step = "restore"]
  <2>1. /\ next \in RunType /\ next.step = "restore" /\ next.held = Idle.held
        /\ next.topics = Idle.topics
    BY RepFacts DEF RunType, Steps
  <2>2. RepOK(next)
    BY RepFacts, <2>1 DEF RepOK, RepSteps
  <2>3. /\ To(p, next) /\ UNCHANGED <<broker, subs, wanted, entities, counters>>
        /\ conn' = TRUE /\ phase' \in {phase, "register"}
    BY <1>1 DEF Reconnect
  <2> HIDE DEF next
  <2>4. subs' \subseteq wanted
    BY <2>3 DEF TypeInv, TypeOK
  <2>5. QED
    BY <2>1, <2>2, <2>3, <2>4, LinkStep
<1>2. CASE Resubscribe(p)
  <2>1. PICK next \in RunType : To(p, next) /\ RepOK(next) /\ subs' \subseteq wanted
    <3>1. CASE run[p].topics = {}
      <4> DEFINE next == [run[p] EXCEPT !.step = "online"]
      <4>1. next \in RunType /\ RepOK(next)
        BY RepFacts DEF RunType, RepOK, RepSteps, Steps
      <4>2. To(p, next) /\ subs' = subs
        BY <1>2, <3>1 DEF Resubscribe, Goto
      <4>3. QED
        BY <4>1, <4>2 DEF TypeInv, TypeOK
    <3>2. CASE run[p].topics # {}
      <4>1. PICK t \in run[p].topics :
              /\ To(p, [run[p] EXCEPT !.topics = @ \ {t}])
              /\ subs' = IF conn THEN subs \union {t} ELSE subs
        BY <1>2, <3>2 DEF Resubscribe
      <4>2. /\ [run[p] EXCEPT !.topics = @ \ {t}] \in RunType
            /\ RepOK([run[p] EXCEPT !.topics = @ \ {t}])
        BY RepFacts, <1>2 DEF RunType, RepOK, RepSteps, Resubscribe, At
      <4>3. t \in wanted
        BY RepFacts DEF RepOK
      <4>4. subs' \subseteq wanted
        BY <4>1, <4>3 DEF TypeInv, TypeOK
      <4>5. QED
        BY <4>1, <4>2, <4>4
    <3>3. QED
      BY <3>1, <3>2
  <2>2. UNCHANGED <<broker, wanted, entities, counters>> /\ phase' = phase /\ conn' = conn
    BY <1>2 DEF Resubscribe, Sent, counters
  <2>4. conn' \in BOOLEAN
    BY <2>2 DEF TypeInv, TypeOK
  <2>3. QED
    BY <2>1, <2>2, <2>4, LinkStep
<1>3. QED
  BY <1>1, <1>2

LEMMA ProcessType ==
  ASSUME TypeInv, HistoryOK, Drop \/ Start \/ Register \/ Subscribe
  PROVE  TypeInv'
<1>0. /\ UNCHANGED <<memory, run, kinds, calls, crashes>> /\ breaks' \in Nat
      /\ wanted \subseteq wanted' /\ wanted' \subseteq Topics
  BY DEF Drop, Lose, Break, Start, Register, Subscribe, Sent, external, entities, counters,
         TypeInv, TypeOK, Topics
<1>1. (\A j \in Jobs : JobOK(run[j])') /\ (\A q \in Republishers : RepOK(run[q])')
  BY <1>0 DEF TypeInv, JobOK, RepOK
<1>2. conn' \in BOOLEAN
  <2>1. conn' = conn \/ conn' = FALSE
    BY DEF Drop, Lose, Start, Register, Subscribe, external
  <2>2. QED
    BY <2>1 DEF TypeInv, TypeOK
<1>3. broker' \in BrokerType
  <2>1. broker' = broker \/ broker' = [broker EXCEPT !.avail = "offline"]
    BY DEF Drop, Lose, Start, Register, Subscribe, external
  <2>2. QED
    BY <2>1 DEF TypeInv, TypeOK, BrokerType
<1>4. subs' \subseteq wanted'
  <2>1. CASE Subscribe
    BY <2>1 DEF Subscribe, TypeInv, TypeOK, Topics
  <2>2. CASE ~Subscribe
    BY <1>0, <2>2 DEF Drop, Lose, Start, Register, external, TypeInv, TypeOK
  <2>3. QED
    BY <2>1, <2>2
<1>5. /\ phase' \in {"down", "connecting", "register", "subscribe", "up"}
      /\ phase' = "subscribe" => "status" \in wanted'
  BY DEF Drop, Start, Register, Subscribe, Sent, external, TypeInv, TypeOK, Topics
<1>6. TypeOK'
  BY <1>0, <1>2, <1>3, <1>4, <1>5 DEF TypeInv, TypeOK, HistoryOK, BrokerType
<1>7. QED
  BY <1>1, <1>5, <1>6 DEF TypeInv

LEMMA CrashType ==
  ASSUME TypeInv, HistoryOK, Crash PROVE TypeInv'
<1>1. /\ phase' = "down" /\ subs' = {} /\ wanted' = {} /\ kinds' = {} /\ calls' = calls
      /\ breaks' \in Nat /\ crashes' \in Nat /\ run' = [p \in Procs |-> Idle]
      /\ memory' = [k \in Keys |-> None] /\ conn' = FALSE
  BY DEF Crash, Break, TypeInv, TypeOK, Procs
<1>2. broker' \in BrokerType
  BY DEF Crash, TypeInv, TypeOK, BrokerType
<1>3. conn' \in BOOLEAN
  BY <1>1
<1>4. TypeOK'
  <2>1. run' \in [Procs -> RunType]
    BY <1>1, IdleType
  <2>2. memory' \in [Keys -> States \union {None}]
    BY <1>1
  <2>3. /\ phase' \in {"down", "connecting", "register", "subscribe", "up"}
        /\ subs' \subseteq wanted' /\ wanted' \subseteq Topics /\ kinds' \subseteq Keys
        /\ calls' \in Nat /\ breaks' \in Nat /\ crashes' \in Nat
    BY <1>1 DEF TypeInv, TypeOK
  <2>4. QED
    BY <1>2, <1>3, <2>1, <2>2, <2>3 DEF TypeOK, HistoryOK, Procs, BrokerType, RunType
<1>5. (\A j \in Jobs : JobOK(run[j])') /\ (\A q \in Republishers : RepOK(run[q])')
  BY <1>1, NoneAssumption DEF Procs, JobOK, RepOK, Idle, JobSteps, Unheld
<1>6. QED
  BY <1>1, <1>4, <1>5 DEF TypeInv

LEMMA InitType ==
  ASSUME Init PROVE TypeInv
<1>1. /\ run = [p \in Procs |-> Idle] /\ memory = [k \in Keys |-> None]
      /\ phase = "down" /\ conn = FALSE /\ exposed = FALSE /\ undisturbed = {}
      /\ subs = {} /\ wanted = {} /\ kinds = {} /\ calls = 0 /\ breaks = 0 /\ crashes = 0
  BY DEF Init, Procs
<1>2. broker \in BrokerType
  BY DEF Init, BrokerType
<1>3. conn \in BOOLEAN /\ exposed \in BOOLEAN
  BY <1>1
<1>4. TypeOK
  BY <1>1, <1>2, <1>3, IdleType DEF TypeOK, Procs, BrokerType, RunType
<1>5. (\A j \in Jobs : JobOK(run[j])) /\ (\A q \in Republishers : RepOK(run[q]))
  BY <1>1, NoneAssumption DEF Procs, JobOK, RepOK, Idle, JobSteps, Unheld
<1>6. QED
  BY <1>1, <1>4, <1>5 DEF TypeInv

\* The steps of a caller, and those of a republication.
JobStep(j) ==
  \/ \E k \in Keys : \/ BeginDeclare(j, k)
                     \/ \E v \in Values : BeginSet(j, k, v)
                     \/ BeginRemove(j, k)
  \/ Announce(j) \/ Show(j) \/ Hide(j) \/ Clear(j)
  \/ Upsert(j) \/ Unregister(j)
  \/ Install(j) \/ Forget(j) \/ Store(j)

RepStep(p) ==
  \/ Reconnect(p) \/ Resubscribe(p)
  \/ Restore(p) \/ Snapshot(p) \/ Read(p) \/ HandleStatus(p)
  \/ Online(p) \/ Republish(p) \/ Resend(p)

LEMMA NextCases ==
  ASSUME Next
  PROVE  \/ \E j \in Jobs : JobStep(j) /\ Disturb
         \/ \E p \in Republishers : RepStep(p) /\ Alone(p)
         \/ (Drop \/ Start \/ Register \/ Subscribe) /\ Disturb
         \/ Crash /\ Disturb
BY DEF Next, JobStep, RepStep

LEMMA JobType ==
  ASSUME TypeInv, HistoryOK, NEW j \in Jobs, JobStep(j) PROVE TypeInv'
<1>1. ASSUME NEW k \in Keys, BeginDeclare(j, k) PROVE TypeInv'
  <2> DEFINE v == IF memory[k] = None THEN "unset" ELSE memory[k]
  <2>1. v \in States
    BY <1>1 DEF TypeInv, TypeOK, States
  <2>2. Begin(j, "announce", k, v)
    BY <1>1 DEF BeginDeclare
  <2> HIDE DEF v
  <2>3. QED
    BY <2>1, <2>2, BeginType DEF JobSteps
<1>2. ASSUME NEW k \in Keys, NEW v \in Values, BeginSet(j, k, v) PROVE TypeInv'
  BY <1>2, BeginType DEF BeginSet, JobSteps, States
<1>3. ASSUME NEW k \in Keys, BeginRemove(j, k) PROVE TypeInv'
  BY <1>3, BeginType DEF BeginRemove, JobSteps
<1>4. QED
  BY <1>1, <1>2, <1>3, JobPublishType, JobRegistryType, JobMapType DEF JobStep

LEMMA StepType ==
  ASSUME TypeInv, Next PROVE TypeInv'
<1>1. HistoryOK
  BY NextCases, DisturbType, AloneType
<1>2. QED
  BY <1>1, NextCases, JobType, RepPublishType, RepLocalType, RepLinkType, ProcessType,
     CrashType DEF RepStep

LEMMA StutterType ==
  ASSUME TypeInv, UNCHANGED vars PROVE TypeInv'
BY DEF TypeInv, TypeOK, JobOK, RepOK, vars, state, external, entities, counters

\* The runtime keeps its types: a caller works on an entity of its own, a republication on
\* one of its snapshot, and the broker delivers what the program asked for.
THEOREM TypeCorrect == Spec => []TypeOK
<1>1. Init => TypeInv
  BY InitType
<1>2. TypeInv /\ [Next]_vars => TypeInv'
  BY StepType, StutterType
<1>3. TypeInv => TypeOK
  BY DEF TypeInv
<1>4. QED
  BY <1>1, <1>2, <1>3, PTL DEF Spec

-------------------------------------------------------------------------------
(* As long as no window is met.                                            *)

\* What a publish does to what Home Assistant shows.
LEMMA PublishEffect ==
  ASSUME TypeInv, NEW p \in Procs, NEW b \in BrokerType, NEW next, Publish(p, b, next)
  PROVE  \/ /\ broker'.config = b.config /\ broker'.topic = b.topic
            /\ run'[p] \in {next, run[p]} /\ conn
         \/ broker' = broker /\ run'[p] = Idle /\ ~conn
<1>1. run \in [Procs -> RunType]
  BY DEF TypeInv, TypeOK, Procs, RunType
<1>2. QED
  BY <1>1 DEF Publish, Lose, To, external, BrokerType

\* A step of a caller that leaves the map alone.
LEMMA JobQuiet ==
  ASSUME TypeInv, Unexposed, ~Window, NEW j \in Jobs, Moves(j), ~At(j, "store"),
         UNCHANGED <<memory, crashes>>,
         \A k \in broker'.config :
           \/ Known(k)'
           \/ run'[j].key = k /\ run'[j].step \in {"announce", "upsert"}
           \/ /\ k \in broker.config /\ ~Known(k)
              /\ ~(run[j].key = k /\ run[j].step \in {"announce", "upsert"}),
         run'[j].step \in {"clear", "unregister", "forget"} => run'[j].key \notin broker'.config,
         \/ broker'.config \subseteq broker.config
         \/ Declaring(j) /\ broker'.config = broker.config \union {run[j].key},
         /\ run'[j].step \in {"announce", "upsert", "install"}
         /\ memory[run'[j].key] \in Values
         => run'[j].value \in Values
  PROVE  Unexposed'
<1>1. j \in Procs /\ j \notin Republishers
  BY GoroutinesAssumption DEF Procs
<1>2. \A i \in Jobs \ {j} : run'[i] = run[i]
  BY DEF Moves, Procs
<1>3. \A p \in Republishers : run'[p] = run[p]
  BY <1>1 DEF Moves, Procs
<1>4. ShownIsKnown'
  BY <1>2 DEF Unexposed, ShownIsKnown
<1>5. RemovedIsHidden'
  <2>1. SUFFICES ASSUME NEW i \in Jobs, run'[i].step \in {"clear", "unregister", "forget"}
                 PROVE  run'[i].key \notin broker'.config
    BY DEF RemovedIsHidden
  <2>2. CASE i = j
    BY <2>1, <2>2
  <2>3. CASE i # j
    <3>1. run'[i] = run[i] /\ run[i].key \notin broker.config
      BY <1>2, <2>1, <2>3 DEF Unexposed, RemovedIsHidden
    <3>2. run[j].key # run[i].key \/ ~Declaring(j)
      BY <2>3 DEF Window
    <3>3. QED
      BY <3>1, <3>2
  <2>4. QED
    BY <2>2, <2>3
<1>6. HeldIsThere'
  BY <1>3 DEF Unexposed, HeldIsThere
<1>7. ResentIsSet'
  BY <1>2, <1>3 DEF Unexposed, ResentIsSet, At
<1>8. DeclaredKeeps'
  BY <1>2 DEF Unexposed, DeclaredKeeps, Declaring
<1>9. QED
  BY <1>4, <1>5, <1>6, <1>7, <1>8 DEF Unexposed

\* A step of a republication: what it shows is in its snapshot, and what it is to publish
\* has been set.
LEMMA RepQuiet ==
  ASSUME TypeInv, Unexposed, ~Window, NEW p \in Republishers, Moves(p),
         UNCHANGED <<memory, kinds, crashes>>,
         \A k \in broker'.config : k \in broker.config \/ (k \in Keys /\ run[p].held[k] # None),
         \A k \in Keys : \/ run'[p].held[k] \in {None, run[p].held[k]}
                         \/ run'[p].held[k] = "live" /\ memory[k] # None,
         run'[p].step = "state" =>
           \/ memory[run'[p].key] \in Values
           \/ \E j \in Jobs : At(j, "store") /\ run[j].key = run'[p].key
  PROVE  Unexposed'
<1>1. \A j \in Jobs : run'[j] = run[j]
  BY GoroutinesAssumption DEF Moves, Procs
<1>2. \A q \in Republishers \ {p} : run'[q] = run[q]
  BY DEF Moves, Procs
<1>3. \A k \in Keys : run[p].held[k] # None => memory[k] # None
  BY DEF Unexposed, HeldIsThere
<1>4. ShownIsKnown'
  BY <1>1, <1>3 DEF Unexposed, ShownIsKnown, Known
<1>5. RemovedIsHidden'
  <2>1. SUFFICES ASSUME NEW i \in Jobs, run'[i].step \in {"clear", "unregister", "forget"}
                 PROVE  run'[i].key \notin broker'.config
    BY DEF RemovedIsHidden
  <2>2. run[i].key \notin broker.config /\ Removing(i)
    BY <1>1, <2>1 DEF Unexposed, RemovedIsHidden, Removing
  <2>3. run[p].held[run[i].key] = None
    BY <2>2 DEF Window
  <2>4. QED
    BY <1>1, <2>2, <2>3
<1>6. HeldIsThere'
  <2>1. SUFFICES ASSUME NEW q \in Republishers, NEW k \in Keys
                 PROVE  /\ run'[q].held[k] # None => memory[k] # None
                        /\ run'[q].held[k] \in Values => memory[k] \in Values
    BY DEF HeldIsThere
  <2>2. /\ run[q].held[k] # None => memory[k] # None
        /\ run[q].held[k] \in Values => memory[k] \in Values
    BY DEF Unexposed, HeldIsThere
  <2>3. "live" \notin Values /\ None \notin Values
    BY ValuesAssumption, NoneAssumption
  <2>4. QED
    BY <1>2, <2>2, <2>3
<1>7. ResentIsSet'
  BY <1>1, <1>2 DEF Unexposed, ResentIsSet, At
<1>8. DeclaredKeeps'
  BY <1>1 DEF Unexposed, DeclaredKeeps, Declaring
<1>9. QED
  BY <1>4, <1>5, <1>6, <1>7, <1>8 DEF Unexposed

LEMMA BeginUnexposed ==
  ASSUME TypeInv, Unexposed, ~Window, NEW j \in Jobs, NEW k \in Keys,
         BeginDeclare(j, k) \/ (\E v \in Values : BeginSet(j, k, v)) \/ BeginRemove(j, k)
  PROVE  Unexposed'
<1>1. PICK step \in {"announce", "store", "hide"}, v \in States \union {None} :
        /\ Begin(j, step, k, v)
        /\ step = "announce" /\ memory[k] \in Values => v \in Values
  <2>1. memory[k] \in States \union {None}
    BY DEF TypeInv, TypeOK
  <2>2. CASE BeginDeclare(j, k)
    BY <2>1, <2>2, NoneAssumption DEF BeginDeclare, States
  <2>3. QED
    BY <2>2 DEF BeginSet, BeginRemove, States
<1>2. j \in Procs /\ run \in [Procs -> RunType]
  BY DEF TypeInv, TypeOK, Procs, RunType
<1>3. run'[j] = [Idle EXCEPT !.step = step, !.key = k, !.value = v] /\ Moves(j)
  BY <1>1, <1>2 DEF Begin, To, Moves
<1>4. run'[j].step = step /\ run'[j].key = k /\ run'[j].value = v
  BY <1>3, IdleType DEF RunType
<1>5. UNCHANGED <<broker, memory, kinds, crashes>> /\ run[j].step = "idle"
  BY <1>1 DEF Begin, external, entities, Idle
<1>6. \A x \in broker'.config : Known(x)' \/ (x \in broker.config /\ ~Known(x))
  BY <1>5 DEF Known
<1>7. QED
  BY <1>1, <1>4, <1>5, <1>6, <1>3, JobQuiet DEF At

LEMMA JobPublishUnexposed ==
  ASSUME TypeInv, Unexposed, ~Window, NEW j \in Jobs,
         Announce(j) \/ Show(j) \/ Hide(j) \/ Clear(j)
  PROVE  Unexposed'
<1>0. /\ j \in Procs /\ run[j] \in RunType /\ broker \in BrokerType
      /\ JobOK(run[j])
  BY DEF TypeInv, TypeOK, Procs, RunType, BrokerType
<1>1. UNCHANGED <<memory, kinds, crashes>> /\ ~At(j, "store") /\ run[j].key \in Keys
  BY <1>0 DEF Announce, Show, Hide, Clear, Sent, entities, At, JobOK, JobSteps
<1>2. \A k : Known(k)' <=> Known(k)
  BY <1>1 DEF Known
<1>3. Idle.step = "idle"
  BY DEF Idle
<1>4. CASE Announce(j)
  <2> DEFINE b == [broker EXCEPT !.config = @ \union {run[j].key}]
             next == [run[j] EXCEPT !.step = "upsert"]
  <2>1. b \in BrokerType /\ b.config = broker.config \union {run[j].key}
    BY <1>0, <1>1 DEF BrokerType
  <2>2. next \in RunType /\ next.step = "upsert" /\ next.key = run[j].key
        /\ next.value = run[j].value
    BY <1>0 DEF RunType, Steps
  <2>3. Publish(j, b, next) /\ run[j].step = "announce"
    BY <1>4 DEF Announce, At
  <2> HIDE DEF b, next
  <2>4. Moves(j)
    BY <1>0, <2>1, <2>2, <2>3, PublishType DEF TypeInv
  <2>5. conn
    BY <2>3 DEF Window, At
  <2>6. broker'.config = b.config /\ run'[j] \in {next, run[j]}
    BY <1>0, <2>1, <2>3, <2>5, PublishEffect
  <2>7. run'[j].step \in {"announce", "upsert"} /\ run'[j].key = run[j].key
        /\ run'[j].value = run[j].value
    BY <2>2, <2>3, <2>6
  <2>8. memory[run[j].key] \in Values => run[j].value \in Values
    BY <2>3 DEF Unexposed, DeclaredKeeps, Declaring
  <2>9. QED
    BY <1>1, <1>2, <2>1, <2>3, <2>4, <2>6, <2>7, <2>8, JobQuiet DEF Declaring
<1>5. CASE Show(j)
  <2> DEFINE b == [broker EXCEPT !.topic[run[j].key] = run[j].value]
  <2>1. b \in BrokerType /\ b.config = broker.config
    BY <1>0, <1>5 DEF BrokerType, Show, At, JobOK
  <2>2. Publish(j, b, Idle) /\ run[j].step = "show"
    BY <1>5 DEF Show, At
  <2> HIDE DEF b
  <2>3. Moves(j)
    BY <1>0, <2>1, <2>2, IdleType, PublishType DEF TypeInv
  <2>4. broker'.config = broker.config /\ run'[j].step \in {"idle", "show"}
    BY <1>0, <1>3, <2>1, <2>2, PublishEffect
  <2>5. QED
    BY <1>1, <1>2, <2>2, <2>3, <2>4, JobQuiet
<1>6. CASE Hide(j)
  <2> DEFINE b == [broker EXCEPT !.config = @ \ {run[j].key}]
             next == [run[j] EXCEPT !.step = "clear"]
  <2>1. b \in BrokerType /\ b.config = broker.config \ {run[j].key}
    BY <1>0 DEF BrokerType
  <2>2. next \in RunType /\ next.step = "clear" /\ next.key = run[j].key
    BY <1>0 DEF RunType, Steps
  <2>3. Publish(j, b, next) /\ run[j].step = "hide"
    BY <1>6 DEF Hide, At
  <2> HIDE DEF b, next
  <2>4. Moves(j)
    BY <1>0, <2>1, <2>2, <2>3, PublishType DEF TypeInv
  <2>5. \/ broker'.config = broker.config \ {run[j].key} /\ run'[j] \in {next, run[j]}
        \/ broker' = broker /\ run'[j].step = "idle"
    BY <1>0, <1>3, <2>1, <2>3, PublishEffect
  <2>6. QED
    BY <1>1, <1>2, <2>2, <2>3, <2>4, <2>5, JobQuiet
<1>7. CASE Clear(j)
  <2> DEFINE b == [broker EXCEPT !.topic[run[j].key] = None]
             next == [run[j] EXCEPT !.step = "unregister"]
  <2>1. b \in BrokerType /\ b.config = broker.config
    BY <1>0 DEF BrokerType
  <2>2. next \in RunType /\ next.step = "unregister" /\ next.key = run[j].key
    BY <1>0 DEF RunType, Steps
  <2>3. Publish(j, b, next) /\ run[j].step = "clear"
    BY <1>7 DEF Clear, At
  <2> HIDE DEF b, next
  <2>4. Moves(j)
    BY <1>0, <2>1, <2>2, <2>3, PublishType DEF TypeInv
  <2>5. broker'.config = broker.config
        /\ (run'[j] \in {next, run[j]} \/ run'[j].step = "idle")
    BY <1>0, <1>3, <2>1, <2>3, PublishEffect
  <2>6. run[j].key \notin broker.config
    BY <2>3 DEF Unexposed, RemovedIsHidden
  <2>7. QED
    BY <1>1, <1>2, <2>2, <2>3, <2>4, <2>5, <2>6, JobQuiet
<1>8. QED
  BY <1>4, <1>5, <1>6, <1>7

LEMMA JobRegistryUnexposed ==
  ASSUME TypeInv, Unexposed, ~Window, NEW j \in Jobs, Upsert(j) \/ Unregister(j)
  PROVE  Unexposed'
<1>0. /\ j \in Procs /\ run \in [Procs -> RunType]
  BY DEF TypeInv, TypeOK, Procs, RunType
<1>1. PICK step \in {"install", "forget"} :
        /\ To(j, [run[j] EXCEPT !.step = step])
        /\ run[j].step = IF step = "install" THEN "upsert" ELSE "unregister"
        /\ step = "install" => kinds' = kinds \union {run[j].key}
        /\ step = "forget" => kinds' = kinds \ {run[j].key}
  BY DEF Upsert, Unregister, Goto, At
<1>2. UNCHANGED <<memory, broker, crashes>>
  BY DEF Upsert, Unregister, external, counters
<1>3. /\ Moves(j) /\ run'[j].step = step /\ run'[j].key = run[j].key
      /\ run'[j].value = run[j].value
  BY <1>0, <1>1 DEF To, Moves, RunType
<1>4. step = "forget" => run[j].key \notin broker.config
  BY <1>1 DEF Unexposed, RemovedIsHidden
<1>5. step = "install" /\ memory[run[j].key] \in Values => run[j].value \in Values
  BY <1>1 DEF Unexposed, DeclaredKeeps, Declaring
<1>6. \A k \in broker.config :
        Known(k)' \/ (~Known(k) /\ ~(run[j].key = k /\ run[j].step \in {"announce", "upsert"}))
  BY <1>1, <1>2, <1>4 DEF Known
<1>7. QED
  BY <1>1, <1>2, <1>3, <1>4, <1>5, <1>6, JobQuiet DEF At

\* Only one caller has a key in hand that is declared or removed, and no republication
\* works on a key that is removed.
LEMMA JobMapUnexposed ==
  ASSUME TypeInv, Unexposed, ~Window, NEW j \in Jobs, Install(j) \/ Forget(j) \/ Store(j)
  PROVE  Unexposed'
<1>0. /\ j \in Procs /\ j \notin Republishers /\ JobOK(run[j])
      /\ run \in [Procs -> RunType] /\ memory \in [Keys -> States \union {None}]
      /\ run[j].key \in Keys
  BY GoroutinesAssumption
  DEF Procs, TypeInv, TypeOK, RunType, Install, Forget, Store, At, JobOK, JobSteps
<1>1. UNCHANGED <<broker, kinds, crashes>>
  BY DEF Install, Forget, Store, external, counters
<1>a. /\ "live" \notin Values /\ None \notin Values /\ "unset" \notin Values
      /\ None \notin {"unset", "live"}
  BY ValuesAssumption, NoneAssumption
<1> DEFINE k == run[j].key
<1>2. CASE Install(j) \/ Forget(j)
  <2>1. PICK v \in States \union {None} :
          /\ memory' = [memory EXCEPT ![k] = v] /\ LeaveMap(j, k) /\ Unlocked
          /\ \/ v = run[j].value /\ v \in States /\ Declaring(j) /\ At(j, "install")
             \/ v = None /\ Removing(j) /\ At(j, "forget")
    BY <1>0, <1>2 DEF Install, Forget, JobOK, At, Declaring, Removing
  <2> HIDE DEF k
  <2>2. k \in Keys /\ k = run[j].key
    BY <1>0 DEF k
  <2>3. memory'[k] = v /\ \A x \in Keys \ {k} : memory'[x] = memory[x]
    BY <1>0, <2>1, <2>2
  <2>4. run'[j] = Idle /\ Idle.step = "idle" /\ Idle.held = Unheld
    BY <2>1, <2>2, LeaveMapEffect DEF Idle
  <2>5. ASSUME NEW i \in Jobs \ {j}
        PROVE  /\ run'[i].step = run[i].step /\ run'[i].key = run[i].key
               /\ run'[i].value = run[i].value /\ run[i].key # k
    <3>1. run[i].key # k
      BY <2>1, <2>2 DEF Window
    <3>2. QED
      BY <2>1, <2>2, <3>1, LeaveMapEffect DEF Procs
  <2>6. ASSUME NEW q \in Republishers
        PROVE  /\ run'[q].step = run[q].step /\ run'[q].key = run[q].key
               /\ \A x \in Keys \ {k} : run'[q].held[x] = run[q].held[x]
               /\ run[q].held[k] = "live" => run'[q].held[k] = memory[k]
               /\ run[q].held[k] # "live" => run'[q].held[k] = run[q].held[k]
    BY <1>0, <2>1, <2>2, LeaveMapEffect DEF Procs
  <2>7. memory[k] \in Values => v \in Values \/ v = None
    BY <2>1, <2>2 DEF Unexposed, DeclaredKeeps
  <2>8. v = None => /\ k \notin broker.config
                    /\ \A q \in Republishers : run[q].held[k] = None
    BY <1>a, <2>1, <2>2 DEF Unexposed, RemovedIsHidden, At, Window, States
  <2>9. ShownIsKnown'
    <3>1. SUFFICES ASSUME crashes = 0, NEW x \in broker.config
                   PROVE  \/ Known(x)'
                          \/ \E i \in Jobs : run'[i].key = x /\ run'[i].step \in {"announce", "upsert"}
      BY <1>1 DEF ShownIsKnown
    <3>2. \/ Known(x)
          \/ \E i \in Jobs : run[i].key = x /\ run[i].step \in {"announce", "upsert"}
      BY <3>1 DEF Unexposed, ShownIsKnown
    <3>3. x \in Keys
      BY DEF TypeInv, TypeOK
    <3>4. CASE x = k
      BY <2>3, <2>8, <3>4 DEF Known
    <3>5. CASE x # k
      <4>1. Known(x)' <=> Known(x)
        BY <1>1, <2>3, <3>3, <3>5 DEF Known
      <4>2. QED
        BY <2>2, <2>5, <3>2, <3>5, <4>1
    <3>6. QED
      BY <3>4, <3>5
  <2>10. RemovedIsHidden'
    BY <1>1, <2>4, <2>5 DEF Unexposed, RemovedIsHidden
  <2>11. HeldIsThere'
    <3>1. SUFFICES ASSUME NEW q \in Republishers, NEW x \in Keys
                   PROVE  /\ run'[q].held[x] # None => memory'[x] # None
                          /\ run'[q].held[x] \in Values => memory'[x] \in Values
      BY DEF HeldIsThere
    <3>2. /\ run[q].held[x] # None => memory[x] # None
          /\ run[q].held[x] \in Values => memory[x] \in Values
      BY DEF Unexposed, HeldIsThere
    <3>3. CASE x # k
      BY <2>3, <2>6, <3>2, <3>3
    <3>4. CASE x = k
      BY <1>a, <2>1, <2>3, <2>6, <2>7, <2>8, <3>2, <3>4 DEF States
    <3>5. QED
      BY <3>3, <3>4
  <2>12. ResentIsSet'
    <3>1. SUFFICES ASSUME NEW q \in Republishers, run'[q].step = "state"
                   PROVE  memory'[run'[q].key] \in Values
      BY DEF ResentIsSet, At
    <3>2. run[q].step = "state" /\ run'[q].key = run[q].key
      BY <2>6, <3>1
    <3>3. memory[run[q].key] \in Values /\ run[q].key \in Keys /\ run[q].held[run[q].key] # None
      BY <2>1, <3>2 DEF Unexposed, ResentIsSet, Unlocked, At, TypeInv, RepOK
    <3>4. CASE run[q].key # k
      BY <2>3, <3>2, <3>3, <3>4
    <3>5. CASE run[q].key = k
      BY <2>3, <2>7, <2>8, <3>2, <3>3, <3>5
    <3>6. QED
      BY <3>4, <3>5
  <2>13. DeclaredKeeps'
    <3>1. SUFFICES ASSUME NEW i \in Jobs, Declaring(i)', memory'[run'[i].key] \in Values
                   PROVE  run'[i].value \in Values
      BY DEF DeclaredKeeps
    <3>2. i # j
      BY <2>4, <3>1 DEF Declaring
    <3>3. Declaring(i) /\ run'[i].key = run[i].key /\ run'[i].value = run[i].value
          /\ run[i].key # k /\ run[i].key \in Keys
      BY <2>5, <3>1, <3>2 DEF Declaring, TypeInv, JobOK, JobSteps
    <3>4. QED
      BY <2>3, <3>1, <3>3 DEF Unexposed, DeclaredKeeps
  <2>14. QED
    BY <2>9, <2>10, <2>11, <2>12, <2>13 DEF Unexposed
<1>3. CASE Store(j)
  <2>1. /\ memory' = [memory EXCEPT ![k] = run[j].value]
        /\ run[j].value \in Values /\ At(j, "store")
        /\ To(j, [run[j] EXCEPT !.step = "show"])
    BY <1>0, <1>3 DEF Store, Goto, At, JobOK
  <2> HIDE DEF k
  <2>2. k \in Keys /\ k = run[j].key
    BY <1>0 DEF k
  <2>3. memory'[k] \in Values /\ \A x \in Keys \ {k} : memory'[x] = memory[x]
    BY <1>0, <2>1, <2>2
  <2>4. run'[j].step = "show" /\ Moves(j)
    BY <1>0, <2>1 DEF To, Moves, RunType
  <2>5. \A i \in Jobs \ {j} : run'[i] = run[i]
    BY <2>4 DEF Moves, Procs
  <2>6. \A q \in Republishers : run'[q] = run[q]
    BY <1>0, <2>4 DEF Moves, Procs
  <2>7. ShownIsKnown'
    <3>1. \A x \in broker.config : Known(x) => Known(x)'
      BY <1>1, <1>a, <2>3 DEF Known, TypeInv, TypeOK
    <3>2. run[j].step = "store"
      BY <2>1 DEF At
    <3>3. QED
      BY <1>1, <2>5, <3>1, <3>2 DEF Unexposed, ShownIsKnown
  <2>8. RemovedIsHidden'
    BY <1>1, <2>4, <2>5 DEF Unexposed, RemovedIsHidden
  <2>9. HeldIsThere'
    BY <1>a, <2>3, <2>6 DEF Unexposed, HeldIsThere
  <2>10. ResentIsSet'
    <3>1. SUFFICES ASSUME NEW q \in Republishers, run[q].step = "state"
                   PROVE  \/ memory'[run[q].key] \in Values
                          \/ \E i \in Jobs : At(i, "store")' /\ run'[i].key = run[q].key
      BY <2>6 DEF ResentIsSet, At
    <3>2. run[q].key \in Keys
      BY <3>1 DEF TypeInv, RepOK
    <3>3. \/ memory[run[q].key] \in Values
          \/ \E i \in Jobs : At(i, "store") /\ run[i].key = run[q].key
      BY <3>1 DEF Unexposed, ResentIsSet, At
    <3>4. QED
      BY <2>2, <2>3, <2>5, <3>2, <3>3 DEF At
  <2>11. DeclaredKeeps'
    <3>1. SUFFICES ASSUME NEW i \in Jobs, Declaring(i)', memory'[run'[i].key] \in Values
                   PROVE  run'[i].value \in Values
      BY DEF DeclaredKeeps
    <3>2. run'[i] = run[i] /\ Declaring(i) /\ i # j
      BY <2>4, <2>5, <3>1 DEF Declaring
    <3>3. run[i].key # k
      BY <2>2, <3>2 DEF Window
    <3>4. run[i].key \in Keys
      BY <3>2 DEF Declaring, TypeInv, JobOK, JobSteps
    <3>5. QED
      BY <2>3, <3>1, <3>2, <3>3, <3>4 DEF Unexposed, DeclaredKeeps
  <2>12. QED
    BY <2>7, <2>8, <2>9, <2>10, <2>11 DEF Unexposed
<1>4. QED
  BY <1>2, <1>3

LEMMA ContinueFacts ==
  ASSUME NEW p \in Republishers, NEW held \in [Keys -> States \union {None, "live"}]
  PROVE  /\ Continue(p, held).step \in {"idle", "config"}
         /\ Continue(p, held).held = held
         /\ Continue(p, held).step = "idle" => Continue(p, held) = Idle
BY IdleType DEF Continue, Idle, Unheld

\* A step of a republication that shows nothing.
LEMMA RepLocalUnexposed ==
  ASSUME TypeInv, Unexposed, ~Window, NEW p \in Republishers,
         \/ Reconnect(p) \/ Resubscribe(p) \/ Restore(p) \/ Snapshot(p) \/ HandleStatus(p)
  PROVE  Unexposed'
<1>0. UNCHANGED <<broker, memory, kinds, crashes>>
  BY DEF Reconnect, Resubscribe, Restore, Snapshot, HandleStatus, Sent, entities, external,
         counters
<1>1. \A k \in Keys : Idle.held[k] = None
  BY DEF Idle, Unheld
<1>2. PICK next :
        /\ To(p, next) /\ next.step # "state"
        /\ \A k \in Keys : \/ next.held[k] \in {None, run[p].held[k]}
                           \/ next.held[k] = "live" /\ memory[k] # None
  <2>1. CASE Reconnect(p) \/ HandleStatus(p)
    <3>1. PICK s \in {"restore", "online"} : To(p, [Idle EXCEPT !.step = s])
      BY <2>1 DEF Reconnect, HandleStatus
    <3>2. [Idle EXCEPT !.step = s].step = s /\ [Idle EXCEPT !.step = s].held = Idle.held
      BY IdleType DEF RunType
    <3>3. QED
      BY <1>1, <3>1, <3>2
  <2>2. CASE Restore(p)
    <3> DEFINE next == [run[p] EXCEPT !.step = "resubscribe", !.topics = wanted]
    <3>1. next.step = "resubscribe" /\ next.held = run[p].held
      BY RepFacts DEF RunType
    <3>2. QED
      BY <2>2, <3>1 DEF Restore
  <2>3. CASE Resubscribe(p)
    <3>1. ASSUME run[p].topics = {} PROVE To(p, [run[p] EXCEPT !.step = "online"])
      BY <2>3, <3>1 DEF Resubscribe, Goto
    <3>2. ASSUME run[p].topics # {}
          PROVE  /\ run[p].step = "resubscribe"
                 /\ \E t \in run[p].topics : To(p, [run[p] EXCEPT !.topics = @ \ {t}])
      BY <2>3, <3>2 DEF Resubscribe, At
    <3>3. CASE run[p].topics = {}
      BY <3>1, <3>3, RepFacts DEF RunType
    <3>4. CASE run[p].topics # {}
      <4>1. PICK t : To(p, [run[p] EXCEPT !.topics = @ \ {t}])
        BY <3>2, <3>4
      <4>2. /\ [run[p] EXCEPT !.topics = @ \ {t}].step = "resubscribe"
            /\ [run[p] EXCEPT !.topics = @ \ {t}].held = run[p].held
        BY <3>2, <3>4, RepFacts DEF RunType
      <4>3. QED
        BY <4>1, <4>2
    <3>5. QED
      BY <3>3, <3>4
  <2>4. CASE Snapshot(p)
    <3> DEFINE held == [k \in Keys |-> IF memory[k] = None THEN None ELSE "live"]
    <3>1. held \in [Keys -> States \union {None, "live"}] /\ To(p, Continue(p, held))
      BY <2>4 DEF Snapshot
    <3>2. \A k \in Keys : held[k] = None \/ (held[k] = "live" /\ memory[k] # None)
      OBVIOUS
    <3> HIDE DEF held
    <3>3. QED
      BY <3>1, <3>2, ContinueFacts
  <2>5. QED
    BY <2>1, <2>2, <2>3, <2>4
<1>3. run'[p] = next /\ Moves(p)
  BY <1>2, RepFacts DEF To, Moves
<1>4. QED
  BY <1>0, <1>2, <1>3, RepQuiet

LEMMA RepReadUnexposed ==
  ASSUME TypeInv, Unexposed, ~Window, NEW p \in Republishers, Read(p)
  PROVE  Unexposed'
<1> DEFINE k == run[p].key
           left == [run[p].held EXCEPT ![k] = None]
<1>0. UNCHANGED <<broker, memory, kinds, crashes>>
  BY DEF Read, Sent, entities, external
<1>1. k \in Keys /\ run[p].held[k] # None /\ run[p].held \in [Keys -> States \union {None, "live"}]
  BY RepFacts DEF Read, At, RepOK, RunType
<1>2. PICK v \in Readable(p, k) :
        To(p, IF v = "unset" THEN Continue(p, left) ELSE [run[p] EXCEPT !.step = "state", !.value = v])
  BY DEF Read
<1>3. left \in [Keys -> States \union {None, "live"}]
      /\ \A x \in Keys : left[x] \in {None, run[p].held[x]}
  BY <1>1
<1>4. v # "unset" => \/ memory[k] \in Values
                     \/ \E j \in Jobs : At(j, "store") /\ run[j].key = k
  <2>1. CASE run[p].held[k] # "live"
    <3>1. v = run[p].held[k]
      BY <2>1 DEF Readable
    <3>2. v # "unset" => run[p].held[k] \in Values
      BY <1>1, <2>1, <3>1 DEF States
    <3>3. QED
      BY <1>1, <3>2 DEF Unexposed, HeldIsThere
  <2>2. CASE run[p].held[k] = "live"
    <3>1. v = memory[k] \/ \E j \in Jobs : At(j, "store") /\ run[j].key = k
      BY <2>2 DEF Readable
    <3>2. memory[k] \in States
      BY <1>1, <2>2, RepFacts DEF RepOK
    <3>3. QED
      BY <3>1, <3>2 DEF States
  <2>3. QED
    BY <2>1, <2>2
<1>5. Moves(p)
  BY <1>2, RepFacts DEF To, Moves
<1> HIDE DEF k, left
<1>6. CASE v = "unset"
  <2>1. run'[p] = Continue(p, left)
    BY <1>2, <1>6, RepFacts DEF To
  <2>2. run'[p].held = left /\ run'[p].step \in {"idle", "config"}
    BY <1>3, <2>1, ContinueFacts
  <2>3. QED
    BY <1>0, <1>3, <1>5, <2>2, RepQuiet
<1>7. CASE v # "unset"
  <2>1. run'[p] = [run[p] EXCEPT !.step = "state", !.value = v]
    BY <1>2, <1>7, RepFacts DEF To
  <2>2. run'[p].held = run[p].held /\ run'[p].key = k
    BY <2>1, RepFacts DEF RunType, k
  <2>3. QED
    BY <1>0, <1>4, <1>5, <1>7, <2>2, RepQuiet
<1>8. QED
  BY <1>6, <1>7

LEMMA RepPublishUnexposed ==
  ASSUME TypeInv, Unexposed, ~Window, NEW p \in Republishers,
         Online(p) \/ Republish(p) \/ Resend(p)
  PROVE  Unexposed'
<1>0. UNCHANGED <<memory, kinds, crashes>>
  BY DEF Online, Republish, Resend, Sent, entities
<1>1. Idle.step = "idle" /\ \A k \in Keys : Idle.held[k] = None
  BY DEF Idle, Unheld
<1>2. PICK b \in BrokerType, next \in RunType :
        /\ Publish(p, b, next)
        /\ \A k \in b.config : k \in broker.config \/ (k \in Keys /\ run[p].held[k] # None)
        /\ \A k \in Keys : next.held[k] \in {None, run[p].held[k]}
        /\ next.step # "state"
  <2>1. CASE Online(p)
    <3> DEFINE b == [broker EXCEPT !.avail = "online"]
               next == [run[p] EXCEPT !.step = "snapshot"]
    <3>1. b \in BrokerType /\ b.config = broker.config
      BY RepFacts DEF BrokerType
    <3>2. next \in RunType /\ next.held = run[p].held /\ next.step = "snapshot"
      BY RepFacts DEF RunType, Steps
    <3>3. Publish(p, b, next)
      BY <2>1 DEF Online
    <3> HIDE DEF b, next
    <3>4. QED
      BY <3>1, <3>2, <3>3
  <2>2. CASE Republish(p)
    <3>0. PICK k \in Keys :
            /\ run[p].held[k] # None
            /\ Publish(p, [broker EXCEPT !.config = @ \union {k}],
                       [run[p] EXCEPT !.step = "read", !.key = k])
      BY <2>2 DEF Republish
    <3> DEFINE b == [broker EXCEPT !.config = @ \union {k}]
               next == [run[p] EXCEPT !.step = "read", !.key = k]
    <3>1. b \in BrokerType /\ b.config = broker.config \union {k}
      BY RepFacts DEF BrokerType
    <3>2. next \in RunType /\ next.held = run[p].held /\ next.step = "read"
      BY RepFacts DEF RunType, Steps
    <3>3. Publish(p, b, next)
      BY <3>0
    <3> HIDE DEF b, next
    <3>4. QED
      BY <3>0, <3>1, <3>2, <3>3
  <2>3. CASE Resend(p)
    <3> DEFINE b == [broker EXCEPT !.topic[run[p].key] = run[p].value]
               left == [run[p].held EXCEPT ![run[p].key] = None]
               next == Continue(p, left)
    <3>1. b \in BrokerType /\ b.config = broker.config
      BY RepFacts, <2>3 DEF Resend, At, BrokerType, RepOK
    <3>2. left \in [Keys -> States \union {None, "live"}]
          /\ \A x \in Keys : left[x] \in {None, run[p].held[x]}
      BY RepFacts DEF RunType
    <3>3. next \in RunType
      BY DropHeldOK
    <3>4. Publish(p, b, next)
      BY <2>3 DEF Resend
    <3> HIDE DEF b, left
    <3>5. next.held = left /\ next.step \in {"idle", "config"}
      BY <3>2, ContinueFacts
    <3> HIDE DEF next
    <3>6. QED
      BY <3>1, <3>2, <3>3, <3>4, <3>5
  <2>4. QED
    BY <2>1, <2>2, <2>3
<1>3. Moves(p)
  BY <1>2, RepFacts, PublishType DEF TypeInv
<1>4. \/ broker'.config = b.config /\ run'[p] \in {next, run[p]}
      \/ broker' = broker /\ run'[p] = Idle
  BY <1>2, RepFacts, PublishEffect
<1>5. run[p].step # "state" => run'[p].step # "state"
  BY <1>1, <1>2, <1>4
<1>6. run'[p].step = "state" => run'[p] = run[p] /\ At(p, "state")
  BY <1>1, <1>2, <1>4 DEF At
<1>7. run'[p].step = "state" =>
           \/ memory[run'[p].key] \in Values
           \/ \E j \in Jobs : At(j, "store") /\ run[j].key = run'[p].key
  BY <1>6 DEF Unexposed, ResentIsSet
<1>8. QED
  BY <1>0, <1>1, <1>2, <1>3, <1>4, <1>7, RepQuiet

LEMMA ProcessUnexposed ==
  ASSUME TypeInv, Unexposed, Drop \/ Start \/ Register \/ Subscribe
  PROVE  Unexposed'
<1>1. UNCHANGED <<memory, run, kinds, crashes>> /\ broker'.config = broker.config
  BY DEF Drop, Lose, Start, Register, Subscribe, Sent, external, entities, counters,
         TypeInv, TypeOK
<1>2. QED
  BY <1>1 DEF Unexposed, ShownIsKnown, RemovedIsHidden, HeldIsThere, ResentIsSet,
              DeclaredKeeps, Known, At, Declaring

LEMMA CrashUnexposed ==
  ASSUME TypeInv, Crash PROVE Unexposed'
<1>1. crashes' # 0 /\ \A p \in Procs : run'[p] = Idle
  BY DEF Crash, TypeInv, TypeOK, Procs
<1>2. QED
  BY <1>1, NoneAssumption
  DEF Unexposed, ShownIsKnown, RemovedIsHidden, HeldIsThere, ResentIsSet, DeclaredKeeps, At,
      Declaring, Procs, Idle, Unheld

LEMMA StepUnexposed ==
  ASSUME TypeInv, Unexposed, ~Window, Next PROVE Unexposed'
BY NextCases, BeginUnexposed, JobPublishUnexposed, JobRegistryUnexposed, JobMapUnexposed,
   RepLocalUnexposed, RepReadUnexposed, RepPublishUnexposed, ProcessUnexposed, CrashUnexposed
DEF JobStep, RepStep

LEMMA InitIInv ==
  ASSUME Init PROVE IInv
<1>1. /\ \A p \in Procs : run[p] = Idle
      /\ broker.config = {}
  BY DEF Init, Procs
<1>2. Unexposed
  BY <1>1, NoneAssumption
  DEF Unexposed, ShownIsKnown, RemovedIsHidden, HeldIsThere, ResentIsSet, DeclaredKeeps, At,
      Declaring, Procs, Idle, Unheld
<1>3. QED
  BY <1>2, InitType DEF IInv

\* exposed remembers that a window was met.
LEMMA StepIInv ==
  ASSUME IInv, [Next]_vars PROVE IInv'
<1>1. TypeInv'
  BY StepType, StutterType DEF IInv
<1>2. CASE Next
  <2>1. exposed' = (exposed \/ Window)
    BY <1>2, NextCases DEF Disturb, Alone, Watch
  <2>2. ~exposed' => Unexposed'
    BY <1>2, <2>1, StepUnexposed DEF IInv
  <2>3. QED
    BY <1>1, <2>2 DEF IInv
<1>3. CASE UNCHANGED vars
  <2>1. UNCHANGED <<broker, conn, memory, run, kinds, crashes, exposed>>
    BY <1>3 DEF vars, state, external, entities, counters
  <2>2. QED
    BY <1>1, <2>1 DEF IInv, Unexposed, ShownIsKnown, RemovedIsHidden, HeldIsThere, ResentIsSet,
       DeclaredKeeps, Known, At, Declaring, Removing, Window
<1>4. QED
  BY <1>2, <1>3

LEMMA Inductive == Spec => []IInv
<1>1. Init => IInv
  BY InitIInv
<1>2. IInv /\ [Next]_vars => IInv'
  BY StepIInv
<1>3. QED
  BY <1>1, <1>2, PTL DEF Spec

\* Cleanup is possible: what Home Assistant shows can be removed, as long as the process
\* that declared it lives and no window was met.
THEOREM CleanupIsPossible == Spec => []Removable
<1>1. IInv => Removable
  BY DEF IInv, Unexposed, ShownIsKnown, Removable
<1>2. QED
  BY <1>1, Inductive, PTL

\* Init-safety: no step of a declaration, a reconnect or a restart touches a state that the
\* process neither set nor removes.
THEOREM DeclarationsAreInitSafe == Spec => InitSafe
<1> DEFINE Safe == \A k \in Keys :
             (broker'.topic[k] # broker.topic[k] /\ ~exposed /\ ~Window) =>
                \/ memory[k] \in Values
                \/ \E j \in Jobs : run[j].key = k /\ run[j].step \in {"store", "show", "clear"}
<1>1. IInv /\ [Next]_vars => [Safe]_vars
  <2>1. SUFFICES ASSUME IInv, Next, NEW k \in Keys,
                        broker'.topic[k] # broker.topic[k], ~exposed, ~Window
                 PROVE  \/ memory[k] \in Values
                        \/ \E j \in Jobs : /\ run[j].key = k
                                           /\ run[j].step \in {"store", "show", "clear"}
    OBVIOUS
  <2>2. TypeInv /\ Unexposed /\ broker \in BrokerType
    BY <2>1 DEF IInv, TypeInv, TypeOK, BrokerType
  <2>3. ASSUME NEW j \in Jobs, JobStep(j), broker' # broker,
               broker'.topic # broker.topic, run[j].step \notin {"show", "clear"}
        PROVE  FALSE
    <3>1. Announce(j) \/ Hide(j)
      BY <2>3 DEF JobStep, BeginDeclare, BeginSet, BeginRemove, Begin, Show, Clear, Upsert,
         Unregister, Install, Forget, Store, At, external
    <3>2. QED
      BY <2>2, <3>1, <2>3 DEF Announce, Hide, Publish, Lose, external, BrokerType
  <2>4. ASSUME NEW j \in Jobs, JobStep(j), broker'.topic # broker.topic
        PROVE  run[j].step \in {"show", "clear"} /\ run[j].key = k
    <3>1. run[j].step \in {"show", "clear"}
      BY <2>3, <2>4
    <3>2. Show(j) \/ Clear(j)
      BY <2>4, <3>1 DEF JobStep, BeginDeclare, BeginSet, BeginRemove, Begin, Announce, Hide,
         Upsert, Unregister, Install, Forget, Store, At, Idle, external
    <3>3. ASSUME run[j].key # k PROVE FALSE
      BY <2>1, <2>2, <3>2, <3>3 DEF Show, Clear, Publish, Lose, external, BrokerType
    <3>4. QED
      BY <3>1, <3>3
  <2>5. ASSUME NEW p \in Republishers, RepStep(p), broker'.topic # broker.topic
        PROVE  At(p, "state") /\ run[p].key = k
    <3>1. Online(p) \/ Republish(p) \/ Resend(p)
      BY <2>5 DEF RepStep, Reconnect, Resubscribe, Restore, Snapshot, Read, HandleStatus,
         external
    <3>2. ~Online(p)
      BY <2>2, <2>5 DEF Online, Publish, Lose, external, BrokerType
    <3>3. ~Republish(p)
      BY <2>2, <2>5 DEF Republish, Publish, Lose, external, BrokerType
    <3>4. Resend(p)
      BY <3>1, <3>2, <3>3
    <3>5. ASSUME run[p].key # k PROVE FALSE
      BY <2>1, <2>2, <3>4, <3>5 DEF Resend, Publish, Lose, external, BrokerType
    <3>6. QED
      BY <3>4, <3>5 DEF Resend
  <2>6. ASSUME Drop \/ Start \/ Register \/ Subscribe \/ Crash
        PROVE  broker'.topic = broker.topic
    BY <2>2, <2>6 DEF Drop, Lose, Start, Register, Subscribe, Crash, external, BrokerType
  <2>7. broker'.topic # broker.topic
    BY <2>1
  <2>8. QED
    BY <2>1, <2>2, <2>4, <2>5, <2>6, <2>7, NextCases DEF Unexposed, ResentIsSet, At
<1>2. Spec => [][Safe]_vars
  BY <1>1, Inductive, PTL DEF Spec
<1>3. QED
  BY <1>2 DEF InitSafe

\* A new declaration takes over the state of an entity that is there, as long as no other
\* call has it in hand.
THEOREM DeclarationsKeepState == Spec => RedeclareKeeps
<1> DEFINE Keeps == \A k \in Keys :
             (memory[k] \in Values /\ ~exposed /\ ~Window) => memory'[k] # "unset"
<1>1. IInv /\ [Next]_vars => [Keeps]_vars
  <2>1. SUFFICES ASSUME IInv, Next, NEW k \in Keys, memory[k] \in Values, ~exposed, ~Window
                 PROVE  memory'[k] # "unset"
    OBVIOUS
  <2>2. TypeInv /\ Unexposed /\ memory \in [Keys -> States \union {None}]
        /\ "unset" \notin Values /\ None # "unset"
    BY <2>1, ValuesAssumption, NoneAssumption DEF IInv, TypeInv, TypeOK
  <2>3. ASSUME NEW j \in Jobs, JobStep(j) PROVE memory'[k] # "unset"
    <3>1. CASE Install(j)
      BY <2>1, <2>2, <3>1 DEF Install, Unexposed, DeclaredKeeps, Declaring, At
    <3>2. CASE Forget(j)
      BY <2>1, <2>2, <3>2 DEF Forget
    <3>3. CASE Store(j)
      BY <2>1, <2>2, <3>3 DEF Store, At, TypeInv, JobOK
    <3>4. CASE ~(Install(j) \/ Forget(j) \/ Store(j))
      <4>1. memory' = memory
        BY <2>3, <3>4 DEF JobStep, BeginDeclare, BeginSet, BeginRemove, Begin, Announce, Show,
           Hide, Clear, Upsert, Unregister, Sent, entities
      <4>2. QED
        BY <2>1, <2>2, <4>1
    <3>5. QED
      BY <3>1, <3>2, <3>3, <3>4
  <2>4. ASSUME NEW p \in Republishers, RepStep(p) PROVE memory' = memory
    BY <2>4 DEF RepStep, Reconnect, Resubscribe, Restore, Snapshot, Read, HandleStatus, Online,
       Republish, Resend, Sent, entities
  <2>5. ASSUME Drop \/ Start \/ Register \/ Subscribe PROVE memory' = memory
    BY <2>5 DEF Drop, Start, Register, Subscribe, Sent, entities
  <2>6. ASSUME Crash PROVE memory'[k] = None
    BY <2>6 DEF Crash
  <2>7. QED
    BY <2>1, <2>2, <2>3, <2>4, <2>5, <2>6, NextCases
<1>2. Spec => [][Keeps]_vars
  BY <1>1, Inductive, PTL DEF Spec
<1>3. QED
  BY <1>2 DEF RedeclareKeeps

-------------------------------------------------------------------------------
(* A republication that runs alone.                                        *)

\* Home Assistant shows the entity with the state that the runtime remembers.
Shown(k) == k \in broker.config /\ (memory[k] = "unset" \/ broker.topic[k] = memory[k])

\* What a republication that has run alone has done so far: an entity is shown, or still in
\* its snapshot.
RepairingOf(p) ==
  /\ conn /\ Unlocked
  /\ run[p].step = "idle" => run[p] = Idle
  /\ run[p].step \in {"snapshot", "config", "read", "state"} => broker.avail = "online"
  /\ run[p].step \in {"config", "read", "state"} => \A k \in Keys :
       /\ memory[k] # None => run[p].held[k] = "live" \/ Shown(k)
       /\ run[p].held[k] \in {None, "live"}
  /\ run[p].step \in {"read", "state"} => run[p].key \in broker.config
  /\ run[p].step = "state" => run[p].value = memory[run[p].key]

Repairing == \A p \in undisturbed : RepairingOf(p)

LEMMA RepMoves ==
  ASSUME TypeInv, NEW p \in Republishers, RepStep(p)
  PROVE  Moves(p) /\ memory' = memory /\ \A j \in Jobs : run'[j] = run[j]
<1>1. memory' = memory
  BY DEF RepStep, Reconnect, Resubscribe, Restore, Snapshot, Read, HandleStatus, Online,
     Republish, Resend, Sent, entities
<1>2. run' = run \/ \E next : To(p, next)
  BY DEF RepStep, Reconnect, Resubscribe, Restore, Snapshot, Read, HandleStatus, Online,
     Republish, Resend, Publish, Goto
<1>3. Moves(p)
  BY <1>2, RepFacts DEF To, Moves
<1>4. QED
  BY <1>1, <1>3, GoroutinesAssumption DEF Moves, Procs

\* The step of a caller does not end a republication, nor begins one.
LEMMA JobMoves ==
  ASSUME TypeInv, NEW j \in Jobs, JobStep(j), NEW q \in Republishers
  PROVE  run'[q].step = run[q].step
<1>0. j \in Procs /\ q \in Procs \ {j} /\ run \in [Procs -> RunType]
  BY RepFacts, GoroutinesAssumption DEF Procs
<1>1. CASE Install(j) \/ Forget(j)
  <2>1. LeaveMap(j, run[j].key) /\ run[j].key \in Keys
    BY <1>1 DEF Install, Forget, At, TypeInv, JobOK, JobSteps
  <2>2. QED
    BY <1>0, <2>1, LeaveMapEffect
<1>2. CASE ~(Install(j) \/ Forget(j))
  <2>1. run' = run \/ \E next : To(j, next)
    BY <1>2 DEF JobStep, BeginDeclare, BeginSet, BeginRemove, Begin, Announce, Show, Hide,
       Clear, Upsert, Unregister, Store, Publish, Goto
  <2>2. QED
    BY <1>0, <2>1 DEF To
<1>3. QED
  BY <1>1, <1>2

\* A publish that leaves the connection there has succeeded.
LEMMA PublishSucceeds ==
  ASSUME TypeInv, NEW p \in Procs, NEW b, NEW next, Publish(p, b, next), conn, conn'
  PROVE  broker' = b /\ run'[p] = next
BY DEF Publish, Lose, To, TypeInv, TypeOK, Procs

\* One entity of the snapshot is done with.
LEMMA Advance ==
  ASSUME TypeInv, NEW p \in Republishers, RepairingOf(p), RepStep(p), conn',
         run[p].step \in {"read", "state"},
         run'[p] = Continue(p, [run[p].held EXCEPT ![run[p].key] = None]),
         broker'.avail = broker.avail, broker'.config = broker.config,
         \A k \in Keys \ {run[p].key} : broker'.topic[k] = broker.topic[k],
         memory[run[p].key] = "unset" \/ broker'.topic[run[p].key] = memory[run[p].key]
  PROVE  RepairingOf(p)' /\ (run'[p] = Idle => Agreement')
<1> DEFINE key == run[p].key
           left == [run[p].held EXCEPT ![key] = None]
<1>1. /\ left \in [Keys -> States \union {None, "live"}] /\ left[key] = None
      /\ \A k \in Keys \ {key} : left[k] = run[p].held[k]
  BY RepFacts DEF RunType, RepOK
<1>2. /\ run'[p].held = left /\ run'[p].step \in {"idle", "config"}
      /\ run'[p].step = "idle" => run'[p] = Idle
  BY <1>1, ContinueFacts
<1>3. memory' = memory /\ Unlocked'
  BY RepMoves DEF RepairingOf, Unlocked, At
<1>4. broker'.avail = "online"
  BY DEF RepairingOf
<1>5. ASSUME NEW k \in Keys
      PROVE  /\ memory[k] # None => left[k] = "live" \/ Shown(k)'
             /\ left[k] \in {None, "live"}
  <2>1. /\ memory[k] # None => run[p].held[k] = "live" \/ Shown(k)
        /\ run[p].held[k] \in {None, "live"}
    BY DEF RepairingOf
  <2>2. CASE k = key
    BY <1>1, <1>3, <2>2 DEF Shown, RepairingOf
  <2>3. CASE k # key
    BY <1>1, <1>3, <2>1, <2>3 DEF Shown
  <2>4. QED
    BY <2>2, <2>3
<1> HIDE DEF key, left
<1>6. RepairingOf(p)'
  BY <1>2, <1>3, <1>4, <1>5 DEF RepairingOf
<1>7. run'[p] = Idle => \A k \in Keys : left[k] # "live"
  BY <1>2, NoneAssumption DEF Idle, Unheld
<1>8. QED
  BY <1>3, <1>4, <1>5, <1>6, <1>7 DEF Agreement, Shown

LEMMA RepairStep ==
  ASSUME TypeInv, NEW p \in Republishers, RepairingOf(p), RepStep(p), run[p] # Idle, conn'
  PROVE  RepairingOf(p)' /\ (run'[p] = Idle => Agreement')
<1>0. /\ conn /\ memory' = memory /\ Unlocked' /\ Unlocked /\ p \in Procs
      /\ run[p] \in RunType /\ RepOK(run[p]) /\ broker \in BrokerType
      /\ run \in [Procs -> RunType]
  BY RepMoves, RepFacts DEF RepairingOf, Unlocked, At
<1>1. ~Reconnect(p) /\ ~HandleStatus(p)
  BY DEF Reconnect, HandleStatus
<1>2. CASE Restore(p) \/ Resubscribe(p)
  <2>1. run'[p].step \in {"resubscribe", "online"}
    <3>1. CASE Restore(p)
      BY <1>0, <3>1 DEF Restore, To, RunType
    <3>2. CASE Resubscribe(p)
      <4>1. PICK next : /\ To(p, next)
                        /\ \/ next = [run[p] EXCEPT !.step = "online"]
                           \/ \E t : next = [run[p] EXCEPT !.topics = @ \ {t}]
        BY <3>2 DEF Resubscribe, Goto
      <4>2. next.step \in {"resubscribe", "online"}
        BY <1>0, <3>2, <4>1 DEF Resubscribe, At, RunType
      <4>3. QED
        BY <1>0, <4>1, <4>2 DEF To
    <3>3. QED
      BY <1>2, <3>1, <3>2
  <2>2. run'[p] # Idle
    BY <2>1 DEF Idle
  <2>3. QED
    BY <1>0, <2>1, <2>2 DEF RepairingOf
<1>3. CASE Online(p)
  <2> DEFINE b == [broker EXCEPT !.avail = "online"]
             next == [run[p] EXCEPT !.step = "snapshot"]
  <2>1. b.avail = "online" /\ next.step = "snapshot"
    BY <1>0 DEF BrokerType, RunType
  <2>2. Publish(p, b, next)
    BY <1>3 DEF Online
  <2> HIDE DEF b, next
  <2>3. broker' = b /\ run'[p] = next
    BY <1>0, <2>2, PublishSucceeds
  <2>4. run'[p] # Idle
    BY <2>1, <2>3 DEF Idle
  <2>5. QED
    BY <1>0, <2>1, <2>3, <2>4 DEF RepairingOf
<1>4. CASE Snapshot(p)
  <2> DEFINE held == [k \in Keys |-> IF memory[k] = None THEN None ELSE "live"]
  <2>1. held \in [Keys -> States \union {None, "live"}] /\ run'[p] = Continue(p, held)
    BY <1>0, <1>4 DEF Snapshot, To
  <2>2. \A k \in Keys : held[k] \in {None, "live"} /\ (memory[k] # None => held[k] = "live")
    OBVIOUS
  <2> HIDE DEF held
  <2>3. /\ run'[p].held = held /\ run'[p].step \in {"idle", "config"}
        /\ run'[p].step = "idle" => run'[p] = Idle
    BY <2>1, ContinueFacts
  <2>4. broker' = broker /\ broker.avail = "online"
    BY <1>4 DEF Snapshot, external, RepairingOf, At
  <2>5. RepairingOf(p)'
    BY <1>0, <2>2, <2>3, <2>4 DEF RepairingOf
  <2>6. run'[p] = Idle => \A k \in Keys : memory[k] = None
    BY <2>2, <2>3, NoneAssumption DEF Idle, Unheld
  <2>7. QED
    BY <1>0, <2>4, <2>5, <2>6 DEF Agreement
<1>5. CASE Republish(p)
  <2>1. PICK k \in Keys :
          Publish(p, [broker EXCEPT !.config = @ \union {k}],
                  [run[p] EXCEPT !.step = "read", !.key = k])
    BY <1>5 DEF Republish
  <2> DEFINE b == [broker EXCEPT !.config = @ \union {k}]
             next == [run[p] EXCEPT !.step = "read", !.key = k]
  <2>2. /\ b.config = broker.config \union {k} /\ b.avail = broker.avail
        /\ b.topic = broker.topic
        /\ next.step = "read" /\ next.key = k /\ next.held = run[p].held
    BY <1>0 DEF BrokerType, RunType
  <2>3. Publish(p, b, next)
    BY <2>1
  <2> HIDE DEF b, next
  <2>4. broker' = b /\ run'[p] = next
    BY <1>0, <2>3, PublishSucceeds
  <2>5. run'[p] # Idle
    BY <2>2, <2>4 DEF Idle
  <2>6. run[p].step = "config"
    BY <1>5 DEF Republish, At
  <2>7. \A x \in Keys : Shown(x) => Shown(x)'
    BY <1>0, <2>2, <2>4 DEF Shown
  <2>8. QED
    BY <1>0, <2>2, <2>4, <2>5, <2>6, <2>7 DEF RepairingOf
<1>6. CASE Read(p)
  <2> DEFINE key == run[p].key
  <2>1. run[p].step = "read" /\ key \in Keys /\ run[p].held[key] = "live"
    BY <1>0, <1>6 DEF Read, At, RepOK, RepairingOf
  <2>2. Readable(p, key) = {memory[key]}
    BY <1>0, <2>1 DEF Readable, Unlocked, At
  <2>3. broker' = broker
    BY <1>6 DEF Read, external
  <2>4. To(p, IF memory[key] = "unset" THEN Continue(p, [run[p].held EXCEPT ![key] = None])
              ELSE [run[p] EXCEPT !.step = "state", !.value = memory[key]])
    BY <1>6, <2>2 DEF Read
  <2>5. CASE memory[key] = "unset"
    <3>1. run'[p] = Continue(p, [run[p].held EXCEPT ![run[p].key] = None])
      BY <1>0, <2>4, <2>5 DEF To
    <3>2. QED
      BY <2>1, <2>3, <2>5, <3>1, Advance
  <2>6. CASE memory[key] # "unset"
    <3>1. run'[p] = [run[p] EXCEPT !.step = "state", !.value = memory[key]]
      BY <1>0, <2>4, <2>6 DEF To
    <3>2. /\ run'[p].step = "state" /\ run'[p].value = memory[key] /\ run'[p].key = key
          /\ run'[p].held = run[p].held
      BY <1>0, <3>1 DEF RunType
    <3>3. run'[p] # Idle
      BY <3>2 DEF Idle
    <3>4. \A x \in Keys : Shown(x)' <=> Shown(x)
      BY <1>0, <2>3 DEF Shown
    <3> HIDE DEF key
    <3>5. QED
      BY <1>0, <2>1, <2>3, <3>2, <3>3, <3>4 DEF RepairingOf, key
  <2>7. QED
    BY <2>5, <2>6
<1>7. CASE Resend(p)
  <2> DEFINE key == run[p].key
             b == [broker EXCEPT !.topic[key] = run[p].value]
             next == Continue(p, [run[p].held EXCEPT ![key] = None])
  <2>1. run[p].step = "state" /\ key \in Keys /\ run[p].value = memory[key]
    BY <1>0, <1>7 DEF Resend, At, RepOK, RepairingOf
  <2>2. /\ b.config = broker.config /\ b.avail = broker.avail /\ b.topic[key] = memory[key]
        /\ \A x \in Keys \ {key} : b.topic[x] = broker.topic[x]
    BY <1>0, <2>1 DEF BrokerType
  <2>3. Publish(p, b, next)
    BY <1>7 DEF Resend
  <2>4. broker' = b /\ run'[p] = next
    BY <1>0, <2>3, PublishSucceeds
  <2>5. QED
    BY <2>1, <2>2, <2>4, Advance
<1>8. QED
  BY <1>1, <1>2, <1>3, <1>4, <1>5, <1>6, <1>7 DEF RepStep

\* A republication that begins while no assignment is under way.
LEMMA RepairBegins ==
  ASSUME TypeInv, NEW p \in Republishers, RepStep(p), run[p] = Idle, Unlocked, conn'
  PROVE  RepairingOf(p)'
<1>1. run[p].step = "idle"
  BY DEF Idle
<1>2. Reconnect(p) \/ HandleStatus(p)
  BY <1>1 DEF RepStep, Resubscribe, Restore, Snapshot, Read, Online, Republish, Resend, At
<1>3. PICK s \in {"restore", "online"} : To(p, [Idle EXCEPT !.step = s])
  BY <1>2 DEF Reconnect, HandleStatus
<1>4. run'[p].step = s
  BY <1>3, RepFacts DEF To, RunType
<1>5. Unlocked'
  BY RepMoves DEF Unlocked, At
<1>6. QED
  BY <1>4, <1>5 DEF RepairingOf

\* A republication that nothing disturbs makes the broker agree with the runtime, whatever
\* was lost, interleaved or torn before.
THEOREM UndisturbedRepairs == Spec => RepublicationRepairs
<1> DEFINE Repairs == \A p \in Republishers :
             (p \in undisturbed /\ run[p] # Idle /\ run'[p] = Idle /\ conn') => Agreement'
<1>1. Init => TypeInv /\ Repairing
  BY InitType DEF Init, Repairing
<1>2. ASSUME TypeInv, Repairing, Next PROVE Repairing' /\ Repairs
  <2>1. CASE \E p \in Republishers : RepStep(p) /\ Alone(p)
    <3>1. PICK p \in Republishers : RepStep(p) /\ Alone(p)
      BY <2>1
    <3>2. undisturbed' = IF ~conn' THEN {}
                         ELSE IF run[p] = Idle /\ Unlocked THEN {p}
                         ELSE undisturbed \intersect {p}
      BY <3>1 DEF Alone
    <3>3. CASE ~conn'
      BY <3>2, <3>3 DEF Repairing
    <3>4. CASE conn' /\ run[p] = Idle /\ Unlocked
      <4>1. Repairing'
        BY <3>1, <3>2, <3>4, <1>2, RepairBegins DEF Repairing
      <4>2. \A q \in Republishers \ {p} : run'[q] = run[q]
        BY <3>1, <1>2, RepMoves DEF Moves, Procs
      <4>3. QED
        BY <3>4, <4>1, <4>2
    <3>5. CASE conn' /\ ~(run[p] = Idle /\ Unlocked)
      <4>1. \A q \in Republishers \ {p} : run'[q] = run[q]
        BY <3>1, <1>2, RepMoves DEF Moves, Procs
      <4>2. p \in undisturbed => /\ run[p] # Idle
                                 /\ RepairingOf(p)' /\ (run'[p] = Idle => Agreement')
        BY <3>1, <3>5, <1>2, RepairStep DEF Repairing, RepairingOf
      <4>3. QED
        BY <3>2, <3>5, <4>1, <4>2 DEF Repairing
    <3>6. QED
      BY <3>3, <3>4, <3>5
  <2>2. CASE (\E j \in Jobs : JobStep(j)) \/ Drop \/ Start \/ Register \/ Subscribe \/ Crash
    <3>1. CASE ~Disturb
      BY <1>2, <2>1, <3>1, NextCases
    <3>2. CASE Disturb
      <4>1. undisturbed' = {}
        BY <3>2 DEF Disturb
      <4>2. ASSUME NEW q \in Republishers, conn' PROVE run'[q].step = run[q].step
        BY <1>2, <2>2, <4>2, JobMoves DEF Drop, Start, Register, Subscribe, Crash
      <4>3. ASSUME NEW q \in Republishers, q \in undisturbed, run[q] # Idle, run'[q] = Idle, conn'
            PROVE  FALSE
        BY <1>2, <4>2, <4>3 DEF Repairing, RepairingOf, Idle
      <4>4. QED
        BY <4>1, <4>3 DEF Repairing
    <3>3. QED
      BY <3>1, <3>2
  <2>3. QED
    BY <1>2, <2>1, <2>2, NextCases
<1>3. ASSUME TypeInv, Repairing, UNCHANGED vars PROVE Repairing'
  BY <1>3 DEF vars, state, external, entities, counters, Repairing, RepairingOf, Shown, Unlocked, At
<1>4. TypeInv /\ Repairing /\ [Next]_vars => (TypeInv /\ Repairing)' /\ [Repairs]_vars
  BY <1>2, <1>3, StepType, StutterType
<1>5. Spec => [][Repairs]_vars
  BY <1>1, <1>4, PTL DEF Spec
<1>6. QED
  BY <1>5 DEF RepublicationRepairs
===============================================================================
