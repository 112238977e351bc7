------------------------ MODULE ReminderSwitchesProofs ------------------------
(***************************************************************************)
(* Theorems about the dashboard of the reminders, for any ids, owners and  *)
(* bounds: the types, for any number of workers; and where workers do not  *)
(* overlap, that the map of the handler follows the runtime and, until     *)
(* something fails, that it tells what the dashboard shows and that every  *)
(* switch acts for the owner of its reminder, for the ids that share their *)
(* key with no other, whichever ids share theirs and whichever switches    *)
(* are refused.                                                            *)
(***************************************************************************)
EXTENDS ReminderSwitches, TLAPS

Steps == {"idle", "list", "keys", "remove", "unmap", "update", "declare", "set",
          "onCommand", "store"}

Rows == [Ids -> Row \union {None}]

Jobs == [step : Steps, rems : Rows, gone : SUBSET Ids, left : SUBSET Ids,
         id : Ids \union {None}, fresh : BOOLEAN]

Showing == {"declare", "set", "onCommand", "store"}

\* What TypeOK leaves open: which ids a job may be about at each step.
JobOK(w) ==
  /\ job[w] \in Jobs
  /\ job[w].step \in Showing \union {"unmap"} => job[w].id \in Ids
  /\ job[w].step \in Showing => job[w].rems[job[w].id] # None
  /\ job[w].step = "list" => job[w].left = {}
  /\ job[w].left \subseteq Listed(w)

TypeInv ==
  /\ TypeOK
  /\ job \in [Workers -> Jobs]
  /\ \A w \in Workers : JobOK(w)
  /\ phase = "down" => \A w \in Workers : job[w] = Idle

LEMMA KeyType ==
  ASSUME NEW i \in Ids
  PROVE  EntityKey(i) \in EntityKeys
BY DEF EntityKeys

\* No other id has the key of an unshared one.
LEMMA KeysApart ==
  ASSUME NEW i \in Unshared, NEW j \in Ids, j # i
  PROVE  i \in Ids /\ EntityKey(j) # EntityKey(i)
BY DEF Unshared

LEMMA IdleType == Nothing \in Rows /\ Idle \in Jobs
BY DEF Nothing, Rows, Idle, Jobs, Steps

\* A job that is idle, or at one of these steps, has nothing at hand.
LEMMA FreeJob ==
  ASSUME NEW w \in Workers, job'[w] \in Jobs,
         job'[w].step \in {"idle", "list", "keys", "remove", "update"},
         job'[w].step = "list" => job'[w].left = {},
         job'[w].left \subseteq {i \in Ids : job'[w].rems[i] # None}
  PROVE  JobOK(w)'
BY DEF JobOK, Listed, Showing

LEMMA IdleJob ==
  ASSUME NEW w \in Workers, job'[w] = Idle
  PROVE  JobOK(w)'
BY IdleType, FreeJob DEF Idle

\* The jobs keep their types when one of them does.
LEMMA JobsKept ==
  ASSUME TypeInv, NEW w \in Workers, NEW j \in Jobs, job' = [job EXCEPT ![w] = j],
         JobOK(w)'
  PROVE  job' \in [Workers -> Jobs] /\ \A v \in Workers : JobOK(v)'
<1>1. job \in [Workers -> Jobs]
  BY DEF TypeInv
<1>2. ASSUME NEW v \in Workers, v # w
      PROVE  JobOK(v)'
  BY <1>1, <1>2 DEF TypeInv, JobOK, Listed
<1>3. QED
  BY <1>1, <1>2

\* Continue, and with it Advance.
LEMMA ContinueFacts ==
  ASSUME TypeInv, NEW w \in Workers, NEW gone \in SUBSET Ids,
         NEW left \in SUBSET Listed(w), Continue(w, gone, left)
  PROVE  /\ job' \in [Workers -> Jobs] /\ \A v \in Workers : JobOK(v)'
         /\ job'[w].step \in {"idle", "remove", "update"}
<1> DEFINE next == IF gone # {} THEN [job[w] EXCEPT !.step = "remove", !.gone = gone,
                                                    !.left = left]
                   ELSE IF left # {} THEN [job[w] EXCEPT !.step = "update", !.gone = {},
                                                         !.left = left]
                   ELSE Idle
<1>1. job \in [Workers -> Jobs] /\ job[w] \in Jobs
  BY DEF TypeInv
<1>2. job' = [job EXCEPT ![w] = next]
  BY DEF Continue
<1>3. left \subseteq Ids /\ left \subseteq {i \in Ids : job[w].rems[i] # None}
  BY DEF Listed
<1>4. CASE gone # {}
  <2>1. next = [job[w] EXCEPT !.step = "remove", !.gone = gone, !.left = left]
    BY <1>4
  <2> HIDE DEF next
  <2>2. next \in Jobs /\ next.step = "remove" /\ next.left = left
        /\ next.rems = job[w].rems
    BY <1>1, <1>3, <2>1 DEF Jobs, Steps
  <2>3. job'[w] = next
    BY <1>1, <1>2
  <2>4. JobOK(w)'
    BY <1>3, <2>2, <2>3, FreeJob
  <2>5. QED
    BY <1>2, <2>2, <2>3, <2>4, JobsKept
<1>5. CASE gone = {} /\ left # {}
  <2>1. next = [job[w] EXCEPT !.step = "update", !.gone = {}, !.left = left]
    BY <1>5
  <2> HIDE DEF next
  <2>2. next \in Jobs /\ next.step = "update" /\ next.left = left
        /\ next.rems = job[w].rems
    BY <1>1, <1>3, <2>1 DEF Jobs, Steps
  <2>3. job'[w] = next
    BY <1>1, <1>2
  <2>4. JobOK(w)'
    BY <1>3, <2>2, <2>3, FreeJob
  <2>5. QED
    BY <1>2, <2>2, <2>3, <2>4, JobsKept
<1>6. CASE gone = {} /\ left = {}
  <2>1. next = Idle
    BY <1>6
  <2>2. job'[w] = Idle
    BY <1>1, <1>2, <2>1
  <2>3. QED
    BY <1>2, <2>1, <2>2, IdleType, IdleJob, JobsKept DEF Idle
<1>7. QED
  BY <1>4, <1>5, <1>6

LEMMA AdvanceFacts ==
  ASSUME TypeInv, NEW w \in Workers, Advance(w)
  PROVE  /\ job' \in [Workers -> Jobs] /\ \A v \in Workers : JobOK(v)'
         /\ job'[w].step \in {"idle", "remove", "update"}
         /\ phase' \in {phase, "up"}
<1>1. job[w].gone \in SUBSET Ids /\ job[w].left \in SUBSET Listed(w)
  BY DEF TypeInv, JobOK, Jobs
<1>2. QED
  BY <1>1, ContinueFacts DEF Advance

LEMMA TypeInit == Init => TypeInv
<1> SUFFICES ASSUME Init
             PROVE  TypeInv
  OBVIOUS
<1>1. job \in [Workers -> Jobs] /\ \A w \in Workers : job[w] = Idle
  BY IdleType DEF Init
<1>2. \A w \in Workers : JobOK(w)
  BY <1>1, IdleType DEF JobOK, Idle, Showing
<1>3. TypeOK
  BY <1>1 DEF Init, TypeOK, Nothing, NoEntities, SwitchState, Jobs, Rows
<1>4. QED
  BY <1>1, <1>2, <1>3 DEF TypeInv

\* TypeOK without the jobs.
DataOK ==
  /\ phase \in {"down", "starting", "up"}
  /\ table \in Rows
  /\ handler \in [EntityKeys -> Callback \union {None}]
  /\ switches \in [Ids -> SwitchState]
  /\ ent \in [EntityKeys -> SwitchState \union {"unknown"}]
  /\ topic \in [EntityKeys -> SwitchState]
  /\ config \subseteq EntityKeys /\ lost \in BOOLEAN

LEMMA Assemble ==
  ASSUME DataOK', job' \in [Workers -> Jobs], \A w \in Workers : JobOK(w)',
         phase' = "down" => \A w \in Workers : job'[w] = Idle
  PROVE  TypeInv'
BY DEF TypeInv, TypeOK, DataOK, Rows, Jobs

LEMMA DataKnown ==
  ASSUME TypeInv
  PROVE  DataOK /\ job \in [Workers -> Jobs] /\ \A w \in Workers : JobOK(w)
BY DEF TypeInv, TypeOK, DataOK, Rows

\* A worker that has a job found the process up, or starting.
LEMMA BusyIsUp ==
  ASSUME TypeInv, NEW w \in Workers, job[w].step # "idle"
  PROVE  phase \in {"starting", "up"}
BY DEF TypeInv, TypeOK, Idle

\* What the row at hand shows.
LEMMA ShowsType ==
  ASSUME TypeInv, NEW w \in Workers, job[w].step \in Showing
  PROVE  /\ job[w].id \in Ids
         /\ job[w].rems[job[w].id] \in Row
         /\ job[w].rems[job[w].id].shows \in {"on", "off"}
         /\ job[w].rems[job[w].id].owner \in Owners
<1>1. JobOK(w)
  BY DEF TypeInv
<1>2. job[w].rems[job[w].id] \in Row
  BY <1>1 DEF JobOK, Jobs, Rows
<1>3. QED
  BY <1>1, <1>2 DEF JobOK, Row

\* Goto to a step that asks no more of the job than the present one.
LEMMA GotoFacts ==
  ASSUME TypeInv, NEW w \in Workers, NEW step \in Steps, Goto(w, step),
         \/ step = "list" /\ job[w] = Idle
         \/ step \in Showing /\ job[w].step \in Showing
  PROVE  job' \in [Workers -> Jobs] /\ \A v \in Workers : JobOK(v)'
<1> DEFINE next == [job[w] EXCEPT !.step = step]
<1>1. job \in [Workers -> Jobs] /\ JobOK(w)
  BY DEF TypeInv
<1>2. job' = [job EXCEPT ![w] = next] /\ next \in Jobs /\ next.step = step
  BY <1>1 DEF Goto, Jobs
<1>3. /\ next.rems = job[w].rems /\ next.left = job[w].left /\ next.id = job[w].id
  BY <1>1 DEF Jobs
<1> HIDE DEF next
<1>4. job'[w] = next
  BY <1>1, <1>2
<1>5. JobOK(w)'
  BY <1>1, <1>2, <1>3, <1>4 DEF JobOK, Listed, Showing, Idle
<1>6. QED
  BY <1>2, <1>5, JobsKept

\* The messages and the tick.
LEMMA MessagesType ==
  ASSUME TypeInv, NEW w \in Workers,
         \/ \E i \in Ids, u \in Owners, n \in BOOLEAN : HandleCreate(w, i, u, n)
         \/ \E i \in Ids : HandleRemoval(w, i)
         \/ \E k \in EntityKeys : HandleCommand(w, k)
         \/ HandleTick(w)
         \/ Start(w)
  PROVE  TypeInv'
<1>t. DataOK /\ job \in [Workers -> Jobs] /\ \A v \in Workers : JobOK(v)
  BY DataKnown
<1>1. ASSUME NEW i \in Ids, NEW u \in Owners, NEW n \in BOOLEAN, HandleCreate(w, i, u, n)
      PROVE  TypeInv'
  <2> DEFINE row == [shows |-> "on", owner |-> u, named |-> n]
             next == [Idle EXCEPT !.step = "declare", !.id = i, !.fresh = TRUE,
                                  !.rems = [Nothing EXCEPT ![i] = row]]
  <2>1. /\ phase' = "up"
        /\ table' = [table EXCEPT ![i] = row]
        /\ job' = [job EXCEPT ![w] = next]
        /\ UNCHANGED <<switches, runtime>>
        /\ job[w] = Idle
    BY <1>1 DEF HandleCreate
  <2>2. row \in Row
    BY DEF Row
  <2> HIDE DEF row
  <2> DEFINE rems == [Nothing EXCEPT ![i] = row]
  <2>3. rems \in Rows /\ rems[i] = row
    BY <2>2, IdleType DEF Rows
  <2> HIDE DEF rems
  <2>4. Idle \in Jobs /\ Idle.left = {}
    BY IdleType DEF Idle
  <2>5. next \in Jobs /\ next.step = "declare" /\ next.left = {} /\ next.id = i
        /\ next.rems = rems
    BY <2>3, <2>4 DEF Jobs, Steps, rems
  <2> HIDE DEF next
  <2>6. job'[w] = next
    BY <1>t, <2>1
  <2>7. CASE row # None
    <3>1. JobOK(w)'
      BY <2>3, <2>5, <2>6, <2>7 DEF JobOK, Listed, Showing
    <3>2. DataOK'
      BY <1>t, <2>1, <2>2 DEF DataOK, runtime, entities, Rows
    <3>3. QED
      BY <2>1, <2>5, <3>1, <3>2, JobsKept, Assemble
  <2>8. row # None
    BY <2>2, NoneAssumption
  <2>9. QED
    BY <2>7, <2>8
<1>2. ASSUME NEW i \in Ids, HandleRemoval(w, i)
      PROVE  TypeInv'
  <2>1. job' \in [Workers -> Jobs] /\ \A v \in Workers : JobOK(v)'
    BY <1>2, GotoFacts DEF HandleRemoval, Steps
  <2>2. DataOK' /\ phase' = "up"
    BY <1>2, <1>t DEF HandleRemoval, DataOK, runtime, entities, Rows
  <2>3. QED
    BY <2>1, <2>2, Assemble
<1>3. ASSUME HandleTick(w)
      PROVE  TypeInv'
  <2>1. job' \in [Workers -> Jobs] /\ \A v \in Workers : JobOK(v)'
    BY <1>3, GotoFacts DEF HandleTick, Steps
  <2>2. table' \in Rows
    <3>1. CASE UNCHANGED table
      BY <1>t, <3>1 DEF DataOK
    <3>2. ASSUME NEW i \in Ids, table[i] # None,
                 NEW row \in {[table[i] EXCEPT !.shows = "off"], None},
                 table' = [table EXCEPT ![i] = row]
          PROVE  table' \in Rows
      <4>1. row \in Row \union {None}
        BY <1>t, <3>2 DEF DataOK, Rows, Row
      <4>2. QED
        BY <1>t, <3>2, <4>1 DEF DataOK, Rows
    <3>3. QED
      BY <1>3, <3>1, <3>2 DEF HandleTick
  <2>3. DataOK' /\ phase' = "up"
    BY <1>3, <1>t, <2>2 DEF HandleTick, DataOK, runtime, entities
  <2>4. QED
    BY <2>1, <2>3, Assemble
<1>4. ASSUME Start(w)
      PROVE  TypeInv'
  <2>1. job[w] = Idle
    BY <1>4 DEF Start, TypeInv
  <2>2. job' \in [Workers -> Jobs] /\ \A v \in Workers : JobOK(v)'
    BY <1>4, <2>1, GotoFacts DEF Start, Steps
  <2>3. DataOK' /\ phase' = "starting"
    BY <1>4, <1>t DEF Start, DataOK, runtime, entities
  <2>4. QED
    BY <2>2, <2>3, Assemble
<1>5. ASSUME NEW k \in EntityKeys, HandleCommand(w, k)
      PROVE  TypeInv'
  <2>1. handler[k] \in Callback
    BY <1>t, <1>5 DEF HandleCommand, DataOK
  <2>2. handler[k].id \in Ids
    BY <2>1 DEF Callback
  <2>3. QED
    BY <1>2, <1>5, <2>2 DEF HandleCommand
<1>6. QED
  BY <1>1, <1>2, <1>3, <1>4, <1>5

\* The end of each step of a worker.
LEMMA WorkDone ==
  ASSUME TypeInv, NEW w \in Workers, job[w].step # "idle",
         job' \in [Workers -> Jobs], \A v \in Workers : JobOK(v)',
         phase' \in {phase, "up"}, UNCHANGED table,
         handler' \in [EntityKeys -> Callback \union {None}],
         switches' \in [Ids -> SwitchState],
         ent' \in [EntityKeys -> SwitchState \union {"unknown"}],
         topic' \in [EntityKeys -> SwitchState],
         config' \subseteq EntityKeys, lost' \in BOOLEAN
  PROVE  TypeInv'
<1>1. phase' \in {"starting", "up"}
  BY BusyIsUp
<1>2. DataOK'
  BY <1>1, DataKnown DEF DataOK
<1>3. QED
  BY <1>1, <1>2, Assemble

LEMMA ListType ==
  ASSUME TypeInv, NEW w \in Workers, List(w)
  PROVE  TypeInv'
<1>t. DataOK /\ job \in [Workers -> Jobs] /\ JobOK(w)
  BY DataKnown
<1>1. /\ job[w].step = "list" /\ job[w].left = {}
      /\ UNCHANGED <<table, switches, runtime>>
      /\ phase' \in {phase, "up"}
  BY <1>t DEF List, At, JobOK
<1>2. job' \in [Workers -> Jobs] /\ \A v \in Workers : JobOK(v)'
  <2> DEFINE next == [job[w] EXCEPT !.step = "keys", !.rems = table]
  <2>1. \/ job' = [job EXCEPT ![w] = next]
        \/ job' = [job EXCEPT ![w] = Idle]
    BY DEF List
  <2>2. CASE job' = [job EXCEPT ![w] = next]
    <3>1. next \in Jobs /\ next.step = "keys" /\ next.left = {}
      BY <1>t, <1>1 DEF Jobs, Steps, DataOK
    <3> HIDE DEF next
    <3>2. job'[w] = next
      BY <1>t, <2>2
    <3>3. JobOK(w)'
      BY <3>1, <3>2, FreeJob
    <3>4. QED
      BY <2>2, <3>1, <3>3, JobsKept
  <2>3. CASE job' = [job EXCEPT ![w] = Idle]
    <3>1. job'[w] = Idle
      BY <1>t, <2>3
    <3>2. QED
      BY <2>3, <3>1, IdleType, IdleJob, JobsKept
  <2>4. QED
    BY <2>1, <2>2, <2>3
<1>3. QED
  BY <1>t, <1>1, <1>2, WorkDone DEF DataOK, runtime, entities

LEMMA KeysType ==
  ASSUME TypeInv, NEW w \in Workers, Keys(w)
  PROVE  TypeInv'
<1>t. DataOK /\ JobOK(w)
  BY DataKnown
<1> DEFINE gone == IF phase = "starting" THEN {}
                   ELSE {i \in Ids : switches[i] # None} \ Listed(w)
<1>1. /\ job[w].step = "keys" /\ Continue(w, gone, Listed(w))
      /\ UNCHANGED <<table, switches, runtime>>
      /\ phase' \in {phase, "up"}
  BY DEF Keys, At
<1>2. gone \in SUBSET Ids
  OBVIOUS
<1> HIDE DEF gone
<1>3. QED
  BY <1>t, <1>1, <1>2, ContinueFacts, WorkDone DEF DataOK, runtime, entities

LEMMA RemoveEntityType ==
  ASSUME TypeInv, NEW w \in Workers, RemoveEntity(w)
  PROVE  TypeInv'
<1>t. DataOK /\ job \in [Workers -> Jobs] /\ JobOK(w)
  BY DataKnown
<1>1. PICK i \in job[w].gone :
        /\ job' = [job EXCEPT ![w].step = "unmap", ![w].id = i]
        /\ \/ UNCHANGED runtime
           \/ /\ config' = config \ {EntityKey(i)}
              /\ topic' = [topic EXCEPT ![EntityKey(i)] = None]
              /\ ent' = [ent EXCEPT ![EntityKey(i)] = None]
              /\ handler' = [handler EXCEPT ![EntityKey(i)] = None]
              /\ UNCHANGED lost
           \/ /\ config' \in {config, config \ {EntityKey(i)}}
              /\ topic' \in {topic, [topic EXCEPT ![EntityKey(i)] = None]}
              /\ lost' = TRUE
              /\ UNCHANGED <<ent, handler>>
  BY DEF RemoveEntity, PublishFails
<1>2. job[w].step = "remove" /\ UNCHANGED <<phase, table, switches>>
  BY DEF RemoveEntity, At
<1> DEFINE next == [job[w] EXCEPT !.step = "unmap", !.id = i]
<1>3. i \in Ids
  BY <1>t DEF JobOK, Jobs
<1>4. /\ next \in Jobs /\ next.step = "unmap" /\ next.id = i
      /\ next.rems = job[w].rems /\ next.left = job[w].left
  BY <1>t, <1>3 DEF JobOK, Jobs, Steps
<1>5. job' = [job EXCEPT ![w] = next]
  BY <1>1
<1> HIDE DEF next
<1>6. job'[w] = next
  BY <1>t, <1>5
<1>7. JobOK(w)'
  BY <1>t, <1>3, <1>4, <1>6 DEF JobOK, Listed, Showing
<1>8. job' \in [Workers -> Jobs] /\ \A v \in Workers : JobOK(v)'
  BY <1>4, <1>5, <1>7, JobsKept
<1>9. /\ handler' \in [EntityKeys -> Callback \union {None}]
      /\ ent' \in [EntityKeys -> SwitchState \union {"unknown"}]
      /\ topic' \in [EntityKeys -> SwitchState]
      /\ config' \subseteq EntityKeys /\ lost' \in BOOLEAN
  BY <1>t, <1>1 DEF DataOK, SwitchState, runtime, entities
<1>10. QED
  BY <1>t, <1>2, <1>8, <1>9, WorkDone DEF DataOK

LEMMA UnmapType ==
  ASSUME TypeInv, NEW w \in Workers, Unmap(w)
  PROVE  TypeInv'
<1>t. DataOK /\ JobOK(w)
  BY DataKnown
<1>1. /\ job[w].step = "unmap" /\ UNCHANGED <<phase, table, runtime>>
      /\ switches' = [switches EXCEPT ![job[w].id] = None]
      /\ Continue(w, job[w].gone \ {job[w].id}, job[w].left)
  BY DEF Unmap, At
<1>2. job[w].gone \ {job[w].id} \in SUBSET Ids /\ job[w].left \in SUBSET Listed(w)
  BY <1>t DEF JobOK, Jobs
<1>3. switches' \in [Ids -> SwitchState]
  BY <1>t, <1>1 DEF DataOK, SwitchState
<1>4. QED
  BY <1>t, <1>1, <1>2, <1>3, ContinueFacts, WorkDone DEF DataOK, runtime, entities

LEMMA UpdateType ==
  ASSUME TypeInv, NEW w \in Workers, Update(w)
  PROVE  TypeInv'
<1>t. DataOK /\ job \in [Workers -> Jobs] /\ JobOK(w)
  BY DataKnown
<1> DEFINE Moved(i, step, fresh) ==
             [job[w] EXCEPT !.id = i, !.left = job[w].left \ {i}, !.step = step,
                            !.fresh = fresh]
<1>1. PICK i \in job[w].left :
        \/ job' = [job EXCEPT ![w] = Moved(i, "declare", TRUE)]
        \/ job' = [job EXCEPT ![w] = Moved(i, "set", FALSE)]
        \/ Continue(w, {}, job[w].left \ {i})
  BY DEF Update
<1>2. job[w].step = "update" /\ UNCHANGED <<phase, table, switches, runtime>>
  BY DEF Update, At
<1>3. i \in Ids /\ job[w].rems[i] # None
  BY <1>t DEF JobOK, Jobs, Listed
<1>4. ASSUME NEW step \in {"declare", "set"}, NEW fresh \in BOOLEAN,
             job' = [job EXCEPT ![w] = Moved(i, step, fresh)]
      PROVE  job' \in [Workers -> Jobs] /\ \A v \in Workers : JobOK(v)'
  <2>1. /\ Moved(i, step, fresh) \in Jobs /\ Moved(i, step, fresh).step = step
        /\ Moved(i, step, fresh).id = i /\ Moved(i, step, fresh).rems = job[w].rems
        /\ Moved(i, step, fresh).left = job[w].left \ {i}
    BY <1>t, <1>3 DEF JobOK, Jobs, Steps
  <2> HIDE DEF Moved
  <2>2. job'[w] = Moved(i, step, fresh)
    BY <1>t, <1>4
  <2>3. JobOK(w)'
    BY <1>t, <1>3, <2>1, <2>2 DEF JobOK, Listed, Showing
  <2>4. QED
    BY <1>4, <2>1, <2>3, JobsKept
<1>5. ASSUME Continue(w, {}, job[w].left \ {i})
      PROVE  job' \in [Workers -> Jobs] /\ \A v \in Workers : JobOK(v)'
  <2>1. job[w].left \ {i} \in SUBSET Listed(w)
    BY <1>t DEF JobOK
  <2>2. QED
    BY <1>5, <2>1, ContinueFacts
<1> HIDE DEF Moved
<1>6. job' \in [Workers -> Jobs] /\ \A v \in Workers : JobOK(v)'
  BY <1>1, <1>4, <1>5
<1>7. QED
  BY <1>t, <1>2, <1>6, WorkDone DEF DataOK, runtime, entities

LEMMA DeclareType ==
  ASSUME TypeInv, NEW w \in Workers, Declare(w)
  PROVE  TypeInv'
<1>t. DataOK
  BY DataKnown
<1>1. job[w].step = "declare" /\ UNCHANGED <<table, switches, handler, topic>>
  BY DEF Declare, At
<1> DEFINE k == EntityKey(job[w].id)
<1>2. k \in EntityKeys
  BY <1>1, ShowsType, KeyType DEF Showing
<1>3. /\ config' \in {config, config \union {k}}
      /\ lost' \in {lost, TRUE}
      /\ ent' \in {ent, [ent EXCEPT ![k] = IF @ = None THEN "unknown" ELSE @]}
  BY DEF Declare, PublishFails
<1> HIDE DEF k
<1>4. /\ config' \subseteq EntityKeys /\ lost' \in BOOLEAN
      /\ ent' \in [EntityKeys -> SwitchState \union {"unknown"}]
  BY <1>t, <1>2, <1>3 DEF DataOK
<1>5. /\ job' \in [Workers -> Jobs] /\ \A v \in Workers : JobOK(v)'
      /\ phase' \in {phase, "up"}
  <2>1. CASE Goto(w, "set") /\ UNCHANGED phase
    BY <1>1, <2>1, GotoFacts DEF Showing, Steps
  <2>2. CASE Advance(w)
    BY <2>2, AdvanceFacts
  <2>3. QED
    BY <2>1, <2>2 DEF Declare
<1>6. QED
  BY <1>t, <1>1, <1>4, <1>5, WorkDone DEF DataOK

LEMMA SetType ==
  ASSUME TypeInv, NEW w \in Workers, Set(w)
  PROVE  TypeInv'
<1>t. DataOK
  BY DataKnown
<1> DEFINE k == EntityKey(job[w].id)
           v == job[w].rems[job[w].id].shows
           next == IF job[w].fresh THEN "onCommand" ELSE "store"
<1>1. /\ job[w].step = "set" /\ Goto(w, next)
      /\ UNCHANGED <<phase, table, switches, handler, config>>
  BY DEF Set, At
<1>2. k \in EntityKeys /\ v \in {"on", "off"}
  BY <1>1, ShowsType, KeyType DEF Showing
<1>3. /\ ent' \in {ent, [ent EXCEPT ![k] = v]}
      /\ topic' \in {topic, [topic EXCEPT ![k] = v]}
      /\ lost' \in {lost, TRUE}
  BY DEF Set, PublishFails
<1>4. next \in {"onCommand", "store"}
  OBVIOUS
<1> HIDE DEF k, v, next
<1>5. /\ ent' \in [EntityKeys -> SwitchState \union {"unknown"}]
      /\ topic' \in [EntityKeys -> SwitchState]
      /\ lost' \in BOOLEAN
  BY <1>t, <1>2, <1>3 DEF DataOK, SwitchState
<1>6. job' \in [Workers -> Jobs] /\ \A u \in Workers : JobOK(u)'
  BY <1>1, <1>4, GotoFacts DEF Showing, Steps
<1>7. QED
  BY <1>t, <1>1, <1>5, <1>6, WorkDone DEF DataOK

LEMMA OnCommandType ==
  ASSUME TypeInv, NEW w \in Workers, OnCommand(w)
  PROVE  TypeInv'
<1>t. DataOK
  BY DataKnown
<1>1. job[w].step = "onCommand" /\ UNCHANGED <<table, switches, entities>>
  BY DEF OnCommand, At
<1> DEFINE k == EntityKey(job[w].id)
           callback == [id |-> job[w].id, owner |-> job[w].rems[job[w].id].owner]
<1>2. k \in EntityKeys /\ callback \in Callback
  BY <1>1, ShowsType, KeyType DEF Showing, Callback
<1>3. handler' \in {handler, [handler EXCEPT ![k] = callback]}
  BY DEF OnCommand
<1> HIDE DEF k, callback
<1>4. handler' \in [EntityKeys -> Callback \union {None}]
  BY <1>t, <1>2, <1>3 DEF DataOK
<1>5. /\ job' \in [Workers -> Jobs] /\ \A v \in Workers : JobOK(v)'
      /\ phase' \in {phase, "up"}
  <2>1. CASE Goto(w, "store") /\ UNCHANGED phase
    BY <1>1, <2>1, GotoFacts DEF Showing, Steps
  <2>2. CASE Advance(w)
    BY <2>2, AdvanceFacts
  <2>3. QED
    BY <2>1, <2>2 DEF OnCommand
<1>6. QED
  BY <1>t, <1>1, <1>4, <1>5, WorkDone DEF DataOK, entities

LEMMA StoreType ==
  ASSUME TypeInv, NEW w \in Workers, Store(w)
  PROVE  TypeInv'
<1>t. DataOK
  BY DataKnown
<1>1. /\ job[w].step = "store" /\ UNCHANGED <<table, runtime>> /\ Advance(w)
      /\ switches' = [switches EXCEPT ![job[w].id] = job[w].rems[job[w].id].shows]
  BY DEF Store, At
<1>2. job[w].rems[job[w].id].shows \in {"on", "off"}
  BY <1>1, ShowsType DEF Showing
<1>3. switches' \in [Ids -> SwitchState]
  BY <1>t, <1>1, <1>2 DEF DataOK, SwitchState
<1>4. QED
  BY <1>t, <1>1, <1>3, AdvanceFacts, WorkDone DEF DataOK, runtime, entities

LEMMA ProcessType ==
  ASSUME TypeInv, HandleReconnect \/ Crash \/ UNCHANGED vars
  PROVE  TypeInv'
<1>t. DataOK /\ job \in [Workers -> Jobs] /\ \A w \in Workers : JobOK(w)
  BY DataKnown
<1>1. CASE UNCHANGED vars
  BY <1>1, <1>t DEF vars, runtime, entities, TypeInv, TypeOK, JobOK, Listed
<1>2. CASE HandleReconnect
  <2>1. /\ topic' \in [EntityKeys -> SwitchState] /\ config' \subseteq EntityKeys /\ lost' = FALSE
    BY <1>2, <1>t DEF HandleReconnect, DataOK
  <2>2. UNCHANGED <<phase, table, switches, handler, ent, job>> /\ phase # "down"
    BY <1>2 DEF HandleReconnect
  <2>3. DataOK'
    BY <1>t, <2>1, <2>2 DEF DataOK
  <2>4. \A w \in Workers : JobOK(w)'
    BY <1>t, <2>2 DEF JobOK, Listed
  <2>5. QED
    BY <1>t, <2>2, <2>3, <2>4, Assemble
<1>3. CASE Crash
  <2>1. job' \in [Workers -> Jobs] /\ \A w \in Workers : job'[w] = Idle
    BY <1>3, IdleType DEF Crash
  <2>2. \A w \in Workers : JobOK(w)'
    BY <2>1, IdleJob
  <2>3. DataOK'
    BY <1>3, <1>t DEF Crash, DataOK, Nothing, NoEntities, SwitchState
  <2>4. QED
    BY <2>1, <2>2, <2>3, Assemble
<1>4. QED
  BY <1>1, <1>2, <1>3

LEMMA TypeNext == TypeInv /\ [Next]_vars => TypeInv'
<1>1. ASSUME TypeInv, NEW w \in Workers, Work(w)
      PROVE  TypeInv'
  BY <1>1, ListType, KeysType, RemoveEntityType, UnmapType, UpdateType, DeclareType,
     SetType, OnCommandType, StoreType DEF Work
<1>2. QED
  BY <1>1, MessagesType, ProcessType DEF Next

\* Every variable keeps its type, however many goroutines run syncEntities at once.
THEOREM TypeCorrect == Spec => []TypeOK
<1>1. TypeInv => TypeOK
  BY DEF TypeInv
<1>2. QED
  BY <1>1, TypeInit, TypeNext, PTL DEF Spec

-------------------------------------------------------------------------------
(* The map follows the runtime.  While the one worker is at a reminder its *)
(* entry may be out of date, but then the runtime has what will be stored. *)

Follows(i) == switches[i] # None => switches[i] = ent[EntityKey(i)]

AtHand(w) == job[w].step \in {"unmap", "onCommand", "store"}

MapInv(w) ==
  /\ \A i \in Unshared : (AtHand(w) => i # job[w].id) => Follows(i)
  /\ job[w].id \in Unshared =>
       /\ job[w].step = "set" => ent[EntityKey(job[w].id)] # None
       /\ job[w].step \in {"onCommand", "store"} =>
            ent[EntityKey(job[w].id)] = job[w].rems[job[w].id].shows

\* A step that touches neither map nor runtime, between two reminders.
LEMMA MapKept ==
  ASSUME NEW w \in Workers, MapInv(w), ~AtHand(w), UNCHANGED <<switches, ent>>,
         job'[w].step \notin {"unmap", "onCommand", "store", "set"}
  PROVE  MapInv(w)'
BY DEF MapInv, AtHand, Follows

LEMMA MapInit ==
  ASSUME NEW w \in Workers, Init
  PROVE  MapInv(w)
<1>1. job[w].step = "idle"
  BY DEF Init, Idle
<1>2. \A i \in Unshared : switches[i] = None
  BY DEF Init, Nothing, Unshared
<1>3. QED
  BY <1>1, <1>2 DEF MapInv, AtHand, Follows

\* All but the worker's own steps from reminder to reminder.
LEMMA MapAround ==
  ASSUME TypeInv, NEW w \in Workers, MapInv(w),
         \/ \E i \in Ids, u \in Owners, n \in BOOLEAN : HandleCreate(w, i, u, n)
         \/ \E i \in Ids : HandleRemoval(w, i)
         \/ HandleTick(w)
         \/ Start(w)
         \/ List(w)
         \/ Keys(w)
         \/ HandleReconnect
         \/ Crash
         \/ UNCHANGED vars
  PROVE  MapInv(w)'
<1>t. DataOK /\ job \in [Workers -> Jobs] /\ JobOK(w) /\ job[w] \in Jobs
  BY DataKnown
<1>1. ASSUME NEW i \in Ids, NEW u \in Owners, NEW n \in BOOLEAN, HandleCreate(w, i, u, n)
      PROVE  MapInv(w)'
  <2> DEFINE next == [Idle EXCEPT !.step = "declare", !.id = i, !.fresh = TRUE,
                        !.rems = [Nothing EXCEPT ![i] = [shows |-> "on", owner |-> u, named |-> n]]]
  <2>0. job[w] = Idle /\ UNCHANGED <<switches, runtime>> /\ job' = [job EXCEPT ![w] = next]
    BY <1>1 DEF HandleCreate
  <2>1. job[w].step = "idle" /\ UNCHANGED <<switches, ent>>
    BY <2>0 DEF Idle, runtime, entities
  <2>2. job'[w].step = "declare"
    BY <1>t, <2>0, IdleType DEF Jobs
  <2>3. QED
    BY <2>1, <2>2, MapKept DEF AtHand
<1>2. ASSUME NEW i \in Ids, HandleRemoval(w, i)
      PROVE  MapInv(w)'
  <2>1. job[w].step = "idle" /\ UNCHANGED <<switches, ent>>
    BY <1>2 DEF HandleRemoval, Idle, runtime, entities
  <2>2. job'[w].step = "list"
    BY <1>2, <1>t DEF HandleRemoval, Goto, Jobs
  <2>3. QED
    BY <2>1, <2>2, MapKept DEF AtHand
<1>3. ASSUME HandleTick(w)
      PROVE  MapInv(w)'
  <2>1. job[w].step = "idle" /\ UNCHANGED <<switches, ent>>
    BY <1>3 DEF HandleTick, Idle, runtime, entities
  <2>2. job'[w].step = "list"
    BY <1>3, <1>t DEF HandleTick, Goto, Jobs
  <2>3. QED
    BY <2>1, <2>2, MapKept DEF AtHand
<1>4. ASSUME Start(w)
      PROVE  MapInv(w)'
  <2>1. job[w].step = "idle" /\ UNCHANGED <<switches, ent>>
    BY <1>4 DEF Start, TypeInv, Idle, runtime, entities
  <2>2. job'[w].step = "list"
    BY <1>4, <1>t DEF Start, Goto, Jobs
  <2>3. QED
    BY <2>1, <2>2, MapKept DEF AtHand
<1>5. ASSUME List(w)
      PROVE  MapInv(w)'
  <2>1. job[w].step = "list" /\ UNCHANGED <<switches, ent>>
    BY <1>5 DEF List, At, runtime, entities
  <2>2. job'[w].step \in {"keys", "idle"}
    BY <1>5, <1>t DEF List, Jobs, Idle
  <2>3. QED
    BY <2>1, <2>2, MapKept DEF AtHand
<1>6. ASSUME Keys(w)
      PROVE  MapInv(w)'
  <2>1. job[w].step = "keys" /\ UNCHANGED <<switches, ent>>
    BY <1>6 DEF Keys, At, runtime, entities
  <2>2. PICK gone \in SUBSET Ids : Continue(w, gone, Listed(w))
    BY <1>6 DEF Keys
  <2>3. job'[w].step \in {"idle", "remove", "update"}
    BY <2>2, ContinueFacts
  <2>4. QED
    BY <2>1, <2>3, MapKept DEF AtHand
<1>7. ASSUME HandleReconnect \/ UNCHANGED vars
      PROVE  MapInv(w)'
  <2>1. UNCHANGED <<switches, ent, job>>
    BY <1>7 DEF HandleReconnect, vars, runtime, entities
  <2>2. QED
    BY <2>1 DEF MapInv, AtHand, Follows
<1>8. ASSUME Crash
      PROVE  MapInv(w)'
  <2>1. job'[w] = Idle /\ \A i \in Unshared : switches'[i] = None
    BY <1>8 DEF Crash, Nothing, Unshared
  <2>2. QED
    BY <2>1 DEF MapInv, AtHand, Follows, Idle
<1>9. QED
  BY <1>1, <1>2, <1>3, <1>4, <1>5, <1>6, <1>7, <1>8

LEMMA MapWork ==
  ASSUME TypeInv, NEW w \in Workers, MapInv(w),
         \/ RemoveEntity(w) \/ Unmap(w) \/ Update(w) \/ Declare(w) \/ Set(w)
         \/ OnCommand(w) \/ Store(w)
  PROVE  MapInv(w)'
<1>t. DataOK /\ job \in [Workers -> Jobs] /\ JobOK(w) /\ job[w] \in Jobs
  BY DataKnown
<1>1. ASSUME RemoveEntity(w)
      PROVE  MapInv(w)'
  <2>1. PICK i \in job[w].gone :
          /\ job' = [job EXCEPT ![w].step = "unmap", ![w].id = i]
          /\ ent' \in {ent, [ent EXCEPT ![EntityKey(i)] = None]}
    BY <1>1 DEF RemoveEntity, runtime, entities
  <2>2. ~AtHand(w) /\ UNCHANGED switches
    BY <1>1 DEF RemoveEntity, At, AtHand
  <2>3. job'[w].step = "unmap" /\ job'[w].id = i /\ i \in Ids
    BY <1>t, <2>1 DEF Jobs
  <2>4. \A j \in Unshared \ {i} : ent'[EntityKey(j)] = ent[EntityKey(j)]
    BY <1>t, <2>1, <2>3, KeysApart, KeyType DEF DataOK
  <2>5. QED
    BY <2>2, <2>3, <2>4 DEF MapInv, AtHand, Follows
<1>2. ASSUME Unmap(w)
      PROVE  MapInv(w)'
  <2>1. job[w].step = "unmap" /\ UNCHANGED ent
    BY <1>2 DEF Unmap, At, runtime, entities
  <2>2. \A j \in Unshared : switches'[j] = IF j = job[w].id THEN None ELSE switches[j]
    BY <1>2, <1>t DEF Unmap, DataOK, Unshared
  <2>3. job'[w].step \in {"idle", "remove", "update"}
    <3>1. job[w].gone \ {job[w].id} \in SUBSET Ids /\ job[w].left \in SUBSET Listed(w)
      BY <1>t DEF JobOK, Jobs
    <3>2. QED
      BY <1>2, <3>1, ContinueFacts DEF Unmap
  <2>4. QED
    BY <2>1, <2>2, <2>3 DEF MapInv, AtHand, Follows
<1>3. ASSUME Update(w)
      PROVE  MapInv(w)'
  <2>1. PICK i \in job[w].left :
          \/ job' = [job EXCEPT ![w] = [job[w] EXCEPT !.id = i, !.left = job[w].left \ {i},
                                        !.step = "declare", !.fresh = TRUE]]
          \/ /\ switches[i] # None
             /\ job' = [job EXCEPT ![w] = [job[w] EXCEPT !.id = i,
                            !.left = job[w].left \ {i}, !.step = "set", !.fresh = FALSE]]
          \/ Continue(w, {}, job[w].left \ {i})
    BY <1>3 DEF Update
  <2>2. job[w].step = "update" /\ UNCHANGED <<switches, ent>>
    BY <1>3 DEF Update, At, runtime, entities
  <2>3. i \in Ids
    BY <1>t DEF JobOK, Jobs
  <2>4. \/ job'[w].step \in {"declare", "idle", "remove", "update"}
        \/ switches[i] # None /\ job'[w].step = "set" /\ job'[w].id = i
    <3>1. CASE Continue(w, {}, job[w].left \ {i})
      <4>1. job[w].left \ {i} \in SUBSET Listed(w)
        BY <1>t DEF JobOK
      <4>2. QED
        BY <3>1, <4>1, ContinueFacts
    <3>2. CASE ~Continue(w, {}, job[w].left \ {i})
      BY <1>t, <2>1, <3>2, ZenonT(30) DEF Jobs
    <3>3. QED
      BY <3>1, <3>2
  <2>5. CASE job'[w].step \in {"declare", "idle", "remove", "update"}
    BY <2>2, <2>5, MapKept DEF AtHand
  <2>6. CASE switches[i] # None /\ job'[w].step = "set" /\ job'[w].id = i
    <3>1. i \in Unshared => ent[EntityKey(i)] # None
      BY <2>2, <2>3, <2>6 DEF MapInv, AtHand, Follows
    <3>2. QED
      BY <2>2, <2>6, <3>1 DEF MapInv, AtHand, Follows
  <2>7. QED
    BY <2>4, <2>5, <2>6
<1>4. ASSUME Declare(w)
      PROVE  MapInv(w)'
  <2>1. job[w].step = "declare" /\ UNCHANGED switches
    BY <1>4 DEF Declare, At
  <2>2. job[w].id \in Ids
    BY <2>1, ShowsType DEF Showing
  <2>3. CASE UNCHANGED ent /\ Advance(w)
    <3>1. job'[w].step \in {"idle", "remove", "update"}
      BY <2>3, AdvanceFacts
    <3>2. QED
      BY <2>1, <2>3, <3>1, MapKept DEF AtHand
  <2>4. CASE /\ ent' = [ent EXCEPT ![EntityKey(job[w].id)] =
                                            IF @ = None THEN "unknown" ELSE @]
             /\ Goto(w, "set")
    <3>1. job'[w] = [job[w] EXCEPT !.step = "set"]
      BY <1>t, <2>4 DEF Goto
    <3>2. job'[w].step = "set" /\ job'[w].id = job[w].id
      BY <1>t, <3>1 DEF Jobs
    <3>3. /\ \A j \in Unshared \ {job[w].id} : ent'[EntityKey(j)] = ent[EntityKey(j)]
          /\ ent[EntityKey(job[w].id)] # None =>
               ent'[EntityKey(job[w].id)] = ent[EntityKey(job[w].id)]
          /\ ent'[EntityKey(job[w].id)] # None
      BY <1>t, <2>2, <2>4, KeysApart, KeyType, NoneAssumption DEF DataOK
    <3>4. QED
      BY <2>1, <2>2, <3>2, <3>3 DEF MapInv, AtHand, Follows
  <2>5. QED
    BY <1>4, <2>3, <2>4 DEF Declare
<1>5. ASSUME Set(w)
      PROVE  MapInv(w)'
  <2> DEFINE i == job[w].id
             v == job[w].rems[job[w].id].shows
  <2>1. job[w].step = "set" /\ UNCHANGED switches
    BY <1>5 DEF Set, At
  <2>2. i \in Ids
    BY <2>1, ShowsType DEF Showing
  <2>3. \/ ent[EntityKey(i)] = None /\ UNCHANGED ent
        \/ ent' = [ent EXCEPT ![EntityKey(i)] = v]
    BY <1>5 DEF Set
  <2>4. job'[w] = [job[w] EXCEPT !.step = IF job[w].fresh THEN "onCommand" ELSE "store"]
    BY <1>5, <1>t DEF Set, Goto
  <2>5. /\ job'[w].step \in {"onCommand", "store"} /\ job'[w].id = i
        /\ job'[w].rems[i].shows = v
    BY <1>t, <2>4 DEF Jobs
  <2>6. i \in Unshared => ent[EntityKey(i)] # None
    BY <2>1 DEF MapInv
  <2> HIDE DEF i, v
  <2>7. /\ i \in Unshared => ent'[EntityKey(i)] = v
        /\ \A j \in Unshared \ {i} : ent'[EntityKey(j)] = ent[EntityKey(j)]
    BY <1>t, <2>2, <2>3, <2>6, KeysApart, KeyType DEF DataOK
  <2>8. QED
    BY <2>1, <2>5, <2>7 DEF MapInv, AtHand, Follows, i
<1>6. ASSUME OnCommand(w)
      PROVE  MapInv(w)'
  <2>1. job[w].step = "onCommand" /\ UNCHANGED <<switches, ent>>
    BY <1>6 DEF OnCommand, At, entities
  <2>2. job[w].rems[job[w].id].shows \in {"on", "off"} /\ job[w].id \in Ids
    BY <2>1, ShowsType DEF Showing
  <2>3. CASE Goto(w, "store")
    <3>1. job'[w] = [job[w] EXCEPT !.step = "store"]
      BY <1>t, <2>3 DEF Goto
    <3>2. /\ job'[w].step = "store" /\ job'[w].id = job[w].id
          /\ job'[w].rems = job[w].rems
      BY <1>t, <3>1 DEF Jobs
    <3>3. QED
      BY <2>1, <3>2 DEF MapInv, AtHand, Follows
  <2>4. CASE ent[EntityKey(job[w].id)] = None /\ Advance(w)
    <3>1. job[w].id \notin Unshared
      BY <2>1, <2>2, <2>4, NoneAssumption DEF MapInv
    <3>2. job'[w].step \in {"idle", "remove", "update"}
      BY <2>4, AdvanceFacts
    <3>3. QED
      BY <2>1, <3>1, <3>2 DEF MapInv, AtHand, Follows
  <2>5. QED
    BY <1>6, <2>3, <2>4 DEF OnCommand
<1>7. ASSUME Store(w)
      PROVE  MapInv(w)'
  <2>1. job[w].step = "store" /\ UNCHANGED ent
    BY <1>7 DEF Store, At, runtime, entities
  <2>2. \A j \in Unshared : switches'[j] = IF j = job[w].id
                                            THEN job[w].rems[job[w].id].shows
                                            ELSE switches[j]
    BY <1>7, <1>t DEF Store, DataOK, Unshared
  <2>3. job'[w].step \in {"idle", "remove", "update"}
    BY <1>7, AdvanceFacts DEF Store
  <2>4. QED
    BY <2>1, <2>2, <2>3 DEF MapInv, AtHand, Follows
<1>8. QED
  BY <1>1, <1>2, <1>3, <1>4, <1>5, <1>6, <1>7

\* A command is the removal of the reminder that the callback has captured.
LEMMA CommandRemoves ==
  ASSUME TypeInv, NEW w \in Workers, NEW k \in EntityKeys, HandleCommand(w, k)
  PROVE  \E i \in Ids : HandleRemoval(w, i)
<1>1. handler[k] \in Callback
  BY DEF HandleCommand, TypeInv, TypeOK
<1>2. handler[k].id \in Ids
  BY <1>1 DEF Callback
<1>3. QED
  BY <1>2 DEF HandleCommand

LEMMA MapNext ==
  ASSUME NEW w, Workers = {w}, TypeInv, MapInv(w), [Next]_vars
  PROVE  MapInv(w)'
<1>1. w \in Workers
  OBVIOUS
<1>2. QED
  <2>1. ASSUME NEW k \in EntityKeys, HandleCommand(w, k)
        PROVE  \E i \in Ids : HandleRemoval(w, i)
    BY <2>1, CommandRemoves
  <2>2. QED
    BY <1>1, <2>1, MapAround, MapWork DEF Next, Work

\* Where runs of syncEntities do not overlap, the map's entry for an id that shares its key
\* with no other agrees with the last state in the runtime whenever the handler is idle,
\* whatever failed before.
THEOREM MapAgrees ==
  ASSUME NEW w, Workers = {w}
  PROVE  Spec => []MapFollowsRuntime
<1>1. Init => MapInv(w)
  BY MapInit
<1>2. TypeInv /\ MapInv(w) /\ [Next]_vars => MapInv(w)'
  BY MapNext
<1>3. MapInv(w) => MapFollowsRuntime
  BY DEF MapInv, MapFollowsRuntime, Quiescent, Follows, AtHand, Idle
<1>4. Spec => []TypeInv
  BY TypeInit, TypeNext, PTL DEF Spec
<1> HIDE DEF MapInv
<1>5. QED
  BY <1>1, <1>2, <1>3, <1>4, PTL DEF Spec

-------------------------------------------------------------------------------
(* As long as nothing fails, the map also tells what the dashboard shows,  *)
(* and every switch acknowledges for the owner of its row.                 *)

Declared(w) == job[w].step \in {"set", "onCommand", "store"}

\* The map, the runtime and the dashboard, but for the reminder at hand.
ShowInv(w) ==
  /\ \A i \in Unshared :
       /\ ((AtHand(w) => i # job[w].id) /\ switches[i] # None) =>
            EntityKey(i) \in config /\ topic[EntityKey(i)] = switches[i]
       /\ ((Declared(w) => i # job[w].id) /\ ent[EntityKey(i)] # None) =>
            switches[i] = ent[EntityKey(i)]
  /\ job[w].id \in Unshared =>
       /\ Declared(w) => EntityKey(job[w].id) \in config
       /\ job[w].step \in {"onCommand", "store"} =>
            topic[EntityKey(job[w].id)] = job[w].rems[job[w].id].shows
       /\ job[w].step = "unmap" => ent[EntityKey(job[w].id)] = None

\* The callback of i is about to be replaced.
Renewing(w, i) ==
  job[w].step \in {"declare", "set", "onCommand"} /\ job[w].fresh /\ i = job[w].id

ActsForOwner(i) == handler[EntityKey(i)] = [id |-> i, owner |-> table[i].owner]

\* The worker's list is the table.  What has a slash in its key has no switch, so a row
\* with a name that is declared has its callback replaced.
OwnerInv(w) ==
  /\ \A i \in Ids : job[w].rems[i] # None => table[i] = job[w].rems[i]
  /\ job[w].step = "keys" => job[w].rems = table
  /\ \A i \in job[w].gone : table[i] = None
  /\ job[w].step \in {"declare", "onCommand"} => job[w].fresh
  /\ (job[w].step = "set" /\ ~job[w].fresh) => switches[job[w].id] # None
  /\ \A i \in Ids : switches[i] # None => EntityKey(i) \notin Slashed
  /\ job[w].step \in {"set", "onCommand", "store"} => EntityKey(job[w].id) \notin Slashed
  /\ \A i \in Unshared :
       (table[i] # None /\ table[i].named /\ switches[i] # None /\ ~Renewing(w, i)) =>
          ActsForOwner(i)
  /\ (job[w].step = "store" /\ job[w].id \in Unshared /\ table[job[w].id].named) =>
       ActsForOwner(job[w].id)

\* The steps between two reminders, and before the declaration of one.
Between == {"idle", "list", "keys", "remove", "update", "declare"}

\* The loop goes on with the same list, and with no more removals.
LEMMA ContinueKeeps ==
  ASSUME TypeInv, NEW w \in Workers, NEW gone \in SUBSET Ids, NEW left \in SUBSET Ids,
         Continue(w, gone, left)
  PROVE  /\ job'[w].step \in {"idle", "remove", "update"}
         /\ \A i \in Ids : job'[w].rems[i] # None => job'[w].rems[i] = job[w].rems[i]
         /\ job'[w].gone \subseteq gone
<1>1. job \in [Workers -> Jobs] /\ job[w] \in Jobs
  BY DEF TypeInv
<1>2. CASE gone # {}
  <2>1. job'[w] = [job[w] EXCEPT !.step = "remove", !.gone = gone, !.left = left]
    BY <1>1, <1>2 DEF Continue
  <2>2. job'[w].step = "remove" /\ job'[w].gone = gone /\ job'[w].rems = job[w].rems
    BY <1>1, <2>1 DEF Jobs
  <2>3. QED
    BY <2>2
<1>3. CASE gone = {} /\ left # {}
  <2>1. job'[w] = [job[w] EXCEPT !.step = "update", !.gone = {}, !.left = left]
    BY <1>1, <1>3 DEF Continue
  <2>2. job'[w].step = "update" /\ job'[w].gone = {} /\ job'[w].rems = job[w].rems
    BY <1>1, <2>1 DEF Jobs
  <2>3. QED
    BY <2>2
<1>4. CASE gone = {} /\ left = {}
  <2>1. job'[w] = Idle
    BY <1>1, <1>4 DEF Continue
  <2>2. QED
    BY <2>1 DEF Idle, Nothing
<1>5. QED
  BY <1>2, <1>3, <1>4

LEMMA AdvanceKeeps ==
  ASSUME TypeInv, NEW w \in Workers, Advance(w)
  PROVE  /\ job'[w].step \in {"idle", "remove", "update"}
         /\ \A i \in Ids : job'[w].rems[i] # None => job'[w].rems[i] = job[w].rems[i]
         /\ job'[w].gone \subseteq job[w].gone
<1>1. job[w].gone \in SUBSET Ids /\ job[w].left \in SUBSET Ids
  BY DEF TypeInv, Jobs
<1>2. QED
  BY <1>1, ContinueKeeps DEF Advance

LEMMA GotoKeeps ==
  ASSUME TypeInv, NEW w \in Workers, NEW step, Goto(w, step)
  PROVE  /\ job'[w].step = step /\ job'[w].rems = job[w].rems
         /\ job'[w].gone = job[w].gone /\ job'[w].id = job[w].id
         /\ job'[w].fresh = job[w].fresh
<1>1. job \in [Workers -> Jobs] /\ job[w] \in Jobs
  BY DEF TypeInv
<1>2. job'[w] = [job[w] EXCEPT !.step = step]
  BY <1>1 DEF Goto
<1>3. QED
  BY <1>1, <1>2 DEF Jobs

\* A step from one place between reminders to another that leaves the dashboard alone.
LEMMA ShowKept ==
  ASSUME NEW w \in Workers, ShowInv(w), job[w].step \in Between,
         job'[w].step \in Between, UNCHANGED <<switches, ent, topic, config>>
  PROVE  ShowInv(w)'
BY DEF ShowInv, AtHand, Declared, Between

\* A step that changes neither rows nor callbacks, and ends between two reminders.
LEMMA OwnerKept ==
  ASSUME NEW w \in Workers, OwnerInv(w), UNCHANGED <<table, handler, switches>>,
         job'[w].step \in {"idle", "remove", "update"},
         \A i \in Ids : job'[w].rems[i] # None => job'[w].rems[i] = table[i],
         \A i \in job'[w].gone : table[i] = None,
         \A i \in Ids : ~Renewing(w, i)
  PROVE  OwnerInv(w)'
BY DEF OwnerInv, Renewing, ActsForOwner, Unshared

LEMMA ShowAround ==
  ASSUME TypeInv, NEW w \in Workers, MapInv(w), ShowInv(w), ~Fault,
         \/ \E i \in Ids, u \in Owners, n \in BOOLEAN : HandleCreate(w, i, u, n)
         \/ \E i \in Ids : HandleRemoval(w, i)
         \/ HandleTick(w)
         \/ Start(w)
         \/ List(w)
         \/ Keys(w)
         \/ HandleReconnect
         \/ Crash
         \/ UNCHANGED vars
  PROVE  ShowInv(w)'
<1>t. DataOK /\ job \in [Workers -> Jobs] /\ JobOK(w) /\ job[w] \in Jobs
  BY DataKnown
<1>1. ASSUME NEW i \in Ids, NEW u \in Owners, NEW n \in BOOLEAN, HandleCreate(w, i, u, n)
      PROVE  ShowInv(w)'
  <2> DEFINE next == [Idle EXCEPT !.step = "declare", !.id = i, !.fresh = TRUE,
                        !.rems = [Nothing EXCEPT ![i] = [shows |-> "on", owner |-> u, named |-> n]]]
  <2>0. job[w] = Idle /\ UNCHANGED <<switches, runtime>> /\ job' = [job EXCEPT ![w] = next]
    BY <1>1 DEF HandleCreate
  <2>1. job[w].step = "idle" /\ UNCHANGED <<switches, ent, topic, config>>
    BY <2>0 DEF Idle, runtime, entities
  <2>2. job'[w].step = "declare"
    BY <1>t, <2>0, IdleType DEF Jobs
  <2>3. QED
    BY <2>1, <2>2, ShowKept DEF Between
<1>2. ASSUME \/ \E i \in Ids : HandleRemoval(w, i)
             \/ HandleTick(w) \/ Start(w)
      PROVE  ShowInv(w)'
  <2>1. /\ job[w] = Idle /\ Goto(w, "list")
        /\ UNCHANGED <<switches, ent, topic, config>>
    BY <1>2 DEF HandleRemoval, HandleTick, Start, TypeInv, runtime, entities
  <2>2. job'[w].step = "list"
    BY <2>1, GotoKeeps
  <2>3. QED
    BY <2>1, <2>2, ShowKept DEF Between, Idle
<1>3. ASSUME List(w)
      PROVE  ShowInv(w)'
  <2>1. job[w].step = "list" /\ UNCHANGED <<switches, ent, topic, config>>
    BY <1>3 DEF List, At, runtime, entities
  <2>2. job'[w].step \in {"keys", "idle"}
    BY <1>3, <1>t DEF List, Jobs, Idle
  <2>3. QED
    BY <2>1, <2>2, ShowKept DEF Between
<1>4. ASSUME Keys(w)
      PROVE  ShowInv(w)'
  <2>1. job[w].step = "keys" /\ UNCHANGED <<switches, ent, topic, config>>
    BY <1>4 DEF Keys, At, runtime, entities
  <2>2. PICK gone \in SUBSET Ids : Continue(w, gone, Listed(w))
    BY <1>4 DEF Keys
  <2>3. job'[w].step \in {"idle", "remove", "update"}
    BY <2>2, ContinueFacts
  <2>4. QED
    BY <2>1, <2>3, ShowKept DEF Between
<1>5. ASSUME HandleReconnect
      PROVE  ShowInv(w)'
  <2>1. /\ config' = config \union {k \in EntityKeys : ent[k] # None}
        /\ \A k \in EntityKeys :
             topic'[k] = IF ent[k] \in {None, "unknown"} THEN topic[k] ELSE ent[k]
        /\ UNCHANGED <<switches, ent, job>>
    BY <1>5 DEF HandleReconnect
  <2>k. \A i \in Unshared : i \in Ids /\ EntityKey(i) \in EntityKeys
    BY KeyType DEF Unshared
  <2>2. (job[w].step \in {"onCommand", "store"} /\ job[w].id \in Unshared) =>
          topic'[EntityKey(job[w].id)] = job[w].rems[job[w].id].shows
    BY <2>k, <2>1 DEF MapInv, ShowInv
  <2>3. \A i \in Unshared :
          ((AtHand(w) => i # job[w].id) /\ switches[i] # None) =>
             EntityKey(i) \in config' /\ topic'[EntityKey(i)] = switches[i]
    BY <2>k, <2>1 DEF MapInv, Follows, ShowInv
  <2>4. QED
    BY <2>1, <2>2, <2>3 DEF ShowInv, AtHand, Declared
<1>6. ASSUME Crash
      PROVE  ShowInv(w)'
  <2>1. /\ job'[w] = Idle
        /\ \A i \in Unshared : switches'[i] = None /\ ent'[EntityKey(i)] = None
    BY <1>6, KeyType DEF Crash, Nothing, NoEntities, Unshared
  <2>2. QED
    BY <2>1 DEF ShowInv, AtHand, Declared, Idle
<1>7. ASSUME UNCHANGED vars
      PROVE  ShowInv(w)'
  BY <1>7 DEF vars, runtime, entities, ShowInv, AtHand, Declared
<1>8. QED
  BY <1>1, <1>2, <1>3, <1>4, <1>5, <1>6, <1>7

LEMMA ShowWork ==
  ASSUME TypeInv, NEW w \in Workers, MapInv(w), ShowInv(w), ~Fault,
         \/ RemoveEntity(w) \/ Unmap(w) \/ Update(w) \/ Declare(w) \/ Set(w)
         \/ OnCommand(w) \/ Store(w)
  PROVE  ShowInv(w)'
<1>t. DataOK /\ job \in [Workers -> Jobs] /\ JobOK(w) /\ job[w] \in Jobs
  BY DataKnown
<1>1. ASSUME RemoveEntity(w)
      PROVE  ShowInv(w)'
  <2>1. PICK i \in job[w].gone :
          /\ job' = [job EXCEPT ![w].step = "unmap", ![w].id = i]
          /\ \/ ent[EntityKey(i)] = None /\ UNCHANGED <<ent, topic, config>>
             \/ /\ ent' = [ent EXCEPT ![EntityKey(i)] = None]
                /\ topic' = [topic EXCEPT ![EntityKey(i)] = None]
                /\ config' = config \ {EntityKey(i)}
    BY <1>1 DEF RemoveEntity, PublishFails, runtime, entities
  <2>2. job[w].step = "remove" /\ UNCHANGED switches
    BY <1>1 DEF RemoveEntity, At
  <2>3. job'[w].step = "unmap" /\ job'[w].id = i /\ i \in Ids
    BY <1>t, <2>1 DEF Jobs
  <2>4. /\ ent'[EntityKey(i)] = None
        /\ \A j \in Unshared \ {i} :
             /\ ent'[EntityKey(j)] = ent[EntityKey(j)]
             /\ topic'[EntityKey(j)] = topic[EntityKey(j)]
             /\ EntityKey(j) \in config' <=> EntityKey(j) \in config
    BY <1>t, <2>1, <2>3, KeysApart, KeyType DEF DataOK
  <2>5. QED
    BY <2>2, <2>3, <2>4 DEF ShowInv, AtHand, Declared
<1>2. ASSUME Unmap(w)
      PROVE  ShowInv(w)'
  <2>1. job[w].step = "unmap" /\ UNCHANGED <<ent, topic, config>>
    BY <1>2 DEF Unmap, At, runtime, entities
  <2>2. \A j \in Unshared : switches'[j] = IF j = job[w].id THEN None ELSE switches[j]
    BY <1>2, <1>t DEF Unmap, DataOK, Unshared
  <2>3. job'[w].step \in {"idle", "remove", "update"}
    <3>1. job[w].gone \ {job[w].id} \in SUBSET Ids /\ job[w].left \in SUBSET Listed(w)
      BY <1>t DEF JobOK, Jobs
    <3>2. QED
      BY <1>2, <3>1, ContinueFacts DEF Unmap
  <2>4. QED
    BY <2>1, <2>2, <2>3 DEF ShowInv, AtHand, Declared
<1>3. ASSUME Update(w)
      PROVE  ShowInv(w)'
  <2>1. PICK i \in job[w].left :
          \/ job' = [job EXCEPT ![w] = [job[w] EXCEPT !.id = i, !.left = job[w].left \ {i},
                                        !.step = "declare", !.fresh = TRUE]]
          \/ /\ switches[i] # None
             /\ job' = [job EXCEPT ![w] = [job[w] EXCEPT !.id = i,
                            !.left = job[w].left \ {i}, !.step = "set", !.fresh = FALSE]]
          \/ Continue(w, {}, job[w].left \ {i})
    BY <1>3 DEF Update
  <2>2. job[w].step = "update" /\ UNCHANGED <<switches, ent, topic, config>>
    BY <1>3 DEF Update, At, runtime, entities
  <2>3. i \in Ids
    BY <1>t DEF JobOK, Jobs
  <2>4. \/ job'[w].step \in {"declare", "idle", "remove", "update"}
        \/ switches[i] # None /\ job'[w].step = "set" /\ job'[w].id = i
    <3>1. CASE Continue(w, {}, job[w].left \ {i})
      <4>1. job[w].left \ {i} \in SUBSET Listed(w)
        BY <1>t DEF JobOK
      <4>2. QED
        BY <3>1, <4>1, ContinueFacts
    <3>2. CASE ~Continue(w, {}, job[w].left \ {i})
      BY <1>t, <2>1, <3>2, ZenonT(30) DEF Jobs
    <3>3. QED
      BY <3>1, <3>2
  <2>5. CASE job'[w].step \in {"declare", "idle", "remove", "update"}
    BY <2>2, <2>5, ShowKept DEF Between
  <2>6. CASE switches[i] # None /\ job'[w].step = "set" /\ job'[w].id = i
    BY <2>2, <2>3, <2>6 DEF ShowInv, AtHand, Declared
  <2>7. QED
    BY <2>4, <2>5, <2>6
<1>4. ASSUME Declare(w)
      PROVE  ShowInv(w)'
  <2>1. job[w].step = "declare" /\ UNCHANGED <<switches, topic>>
    BY <1>4 DEF Declare, At
  <2>2. job[w].id \in Ids
    BY <2>1, ShowsType DEF Showing
  <2>3. CASE /\ ent' = [ent EXCEPT ![EntityKey(job[w].id)] =
                                     IF @ = None THEN "unknown" ELSE @]
             /\ config' = config \union {EntityKey(job[w].id)}
             /\ Goto(w, "set")
    <3>1. job'[w].step = "set" /\ job'[w].id = job[w].id
      BY <2>3, GotoKeeps
    <3>2. \A j \in Unshared \ {job[w].id} : ent'[EntityKey(j)] = ent[EntityKey(j)]
      BY <1>t, <2>2, <2>3, KeysApart, KeyType DEF DataOK
    <3>3. QED
      BY <2>1, <2>2, <2>3, <3>1, <3>2 DEF ShowInv, AtHand, Declared
  <2>4. CASE Advance(w) /\ UNCHANGED <<config, ent>>
    <3>1. job'[w].step \in {"idle", "remove", "update"}
      BY <2>4, AdvanceFacts
    <3>2. QED
      BY <2>1, <2>4, <3>1, ShowKept DEF Between
  <2>5. QED
    BY <1>4, <2>3, <2>4 DEF Declare, PublishFails
<1>5. ASSUME Set(w)
      PROVE  ShowInv(w)'
  <2>1. job[w].step = "set" /\ UNCHANGED <<switches, config>>
    BY <1>5 DEF Set, At
  <2>2. PICK i \in Ids : i = job[w].id
    BY <2>1, ShowsType DEF Showing
  <2>3. PICK v : v = job[w].rems[i].shows
    OBVIOUS
  <2>4. \/ /\ ent[EntityKey(i)] = None /\ UNCHANGED <<ent, topic>>
        \/ /\ ent' = [ent EXCEPT ![EntityKey(i)] = v]
           /\ topic' = [topic EXCEPT ![EntityKey(i)] = v]
    BY <1>5, <2>2, <2>3 DEF Set, PublishFails
  <2>5. PICK step \in {"onCommand", "store"} : Goto(w, step)
    BY <1>5 DEF Set
  <2>6. /\ job'[w].step = step /\ job'[w].id = i /\ job'[w].rems = job[w].rems
    BY <2>2, <2>5, GotoKeeps
  <2>7. /\ i \in Unshared => topic'[EntityKey(i)] = v
        /\ \A j \in Unshared \ {i} : /\ ent'[EntityKey(j)] = ent[EntityKey(j)]
                                     /\ topic'[EntityKey(j)] = topic[EntityKey(j)]
    <3>1. i \in Unshared => ent[EntityKey(i)] # None
      BY <2>1, <2>2 DEF MapInv
    <3>2. QED
      BY <1>t, <2>4, <3>1, KeysApart, KeyType DEF DataOK
  <2>8. QED
    BY <2>1, <2>2, <2>3, <2>6, <2>7 DEF ShowInv, AtHand, Declared
<1>6. ASSUME OnCommand(w)
      PROVE  ShowInv(w)'
  <2>1. job[w].step = "onCommand" /\ UNCHANGED <<switches, ent, topic, config>>
    BY <1>6 DEF OnCommand, At, entities
  <2>2. job[w].rems[job[w].id].shows \in {"on", "off"}
    BY <2>1, ShowsType DEF Showing
  <2>3. CASE Goto(w, "store")
    <3>1. job'[w].step = "store" /\ job'[w].id = job[w].id /\ job'[w].rems = job[w].rems
      BY <2>3, GotoKeeps
    <3>2. QED
      BY <2>1, <3>1 DEF ShowInv, AtHand, Declared
  <2>4. CASE ent[EntityKey(job[w].id)] = None /\ Advance(w)
    <3>1. job[w].id \notin Unshared
      BY <2>1, <2>2, <2>4, NoneAssumption DEF MapInv
    <3>2. job'[w].step \in {"idle", "remove", "update"}
      BY <2>4, AdvanceFacts
    <3>3. QED
      BY <2>1, <3>1, <3>2 DEF ShowInv, AtHand, Declared
  <2>5. QED
    BY <1>6, <2>3, <2>4 DEF OnCommand
<1>7. ASSUME Store(w)
      PROVE  ShowInv(w)'
  <2>1. job[w].step = "store" /\ UNCHANGED <<ent, topic, config>>
    BY <1>7 DEF Store, At, runtime, entities
  <2>2. \A j \in Unshared : switches'[j] = IF j = job[w].id
                                            THEN job[w].rems[job[w].id].shows
                                            ELSE switches[j]
    BY <1>7, <1>t DEF Store, DataOK, Unshared
  <2>3. job'[w].step \in {"idle", "remove", "update"}
    BY <1>7, AdvanceFacts DEF Store
  <2>4. job[w].id \in Unshared =>
          ent[EntityKey(job[w].id)] = job[w].rems[job[w].id].shows
    BY <2>1 DEF MapInv
  <2>5. QED
    BY <2>1, <2>2, <2>3, <2>4 DEF ShowInv, AtHand, Declared
<1>8. QED
  BY <1>1, <1>2, <1>3, <1>4, <1>5, <1>6, <1>7

LEMMA OwnerAround ==
  ASSUME TypeInv, NEW w \in Workers, OwnerInv(w), ~Fault,
         \/ \E i \in Ids, u \in Owners, n \in BOOLEAN : HandleCreate(w, i, u, n)
         \/ \E i \in Ids : HandleRemoval(w, i)
         \/ HandleTick(w)
         \/ Start(w)
         \/ List(w)
         \/ Keys(w)
         \/ HandleReconnect
         \/ Crash
         \/ UNCHANGED vars
  PROVE  OwnerInv(w)'
<1>t. DataOK /\ job \in [Workers -> Jobs] /\ JobOK(w) /\ job[w] \in Jobs
  BY DataKnown
<1>i. job[w] = Idle => /\ job[w].step = "idle" /\ job[w].gone = {}
                       /\ \A i \in Ids : job[w].rems[i] = None
  BY DEF Idle, Nothing
<1>1. ASSUME NEW i \in Ids, NEW u \in Owners, NEW n \in BOOLEAN, HandleCreate(w, i, u, n)
      PROVE  OwnerInv(w)'
  <2>1. PICK row : row = [shows |-> "on", owner |-> u, named |-> n]
    OBVIOUS
  <2>2. PICK rems : rems = [Nothing EXCEPT ![i] = row]
    OBVIOUS
  <2>3. /\ job[w] = Idle /\ UNCHANGED <<switches, handler>>
        /\ table' = [table EXCEPT ![i] = row]
        /\ job' = [job EXCEPT ![w] = [Idle EXCEPT !.step = "declare", !.id = i,
                                                  !.fresh = TRUE, !.rems = rems]]
    BY <1>1, <2>1, <2>2 DEF HandleCreate, runtime
  <2>4. \A j \in Ids : rems[j] = IF j = i THEN row ELSE None
    BY <2>2 DEF Nothing
  <2>5. \A j \in Ids : table'[j] = IF j = i THEN row ELSE table[j]
    BY <1>t, <2>3 DEF DataOK, Rows
  <2>6. /\ job'[w].step = "declare" /\ job'[w].id = i /\ job'[w].fresh
        /\ job'[w].rems = rems /\ job'[w].gone = {}
    BY <1>t, <2>3 DEF Idle
  <2>7. QED
    BY <1>i, <2>3, <2>4, <2>5, <2>6 DEF OwnerInv, Renewing, ActsForOwner, Unshared
<1>2. ASSUME (\E i \in Ids : HandleRemoval(w, i)) \/ HandleTick(w) \/ Start(w)
      PROVE  OwnerInv(w)'
  <2>1. job[w] = Idle /\ Goto(w, "list") /\ UNCHANGED <<switches, handler>>
    BY <1>2 DEF HandleRemoval, HandleTick, Start, TypeInv, runtime
  <2>2. \A j \in Ids : table'[j] # None =>
                         /\ table[j] # None /\ table'[j].owner = table[j].owner
                         /\ table'[j].named = table[j].named
    <3>1. ASSUME NEW i \in Ids, HandleRemoval(w, i)
          PROVE  \A j \in Ids : table'[j] = IF j = i THEN None ELSE table[j]
      BY <1>t, <3>1 DEF HandleRemoval, DataOK, Rows
    <3>2. ASSUME NEW i \in Ids, table[i] # None,
                 \E row \in {[table[i] EXCEPT !.shows = "off"], None} :
                    table' = [table EXCEPT ![i] = row]
          PROVE  \A j \in Ids : table'[j] # None =>
                         /\ table[j] # None /\ table'[j].owner = table[j].owner
                         /\ table'[j].named = table[j].named
      <4>1. table[i] \in Row
        BY <1>t, <3>2 DEF DataOK, Rows
      <4>2. PICK row \in {[table[i] EXCEPT !.shows = "off"], None} :
              table' = [table EXCEPT ![i] = row]
        BY <3>2
      <4>3. row # None => row.owner = table[i].owner /\ row.named = table[i].named
        BY <4>1, <4>2 DEF Row
      <4>4. \A j \in Ids : table'[j] = IF j = i THEN row ELSE table[j]
        BY <1>t, <4>2 DEF DataOK, Rows
      <4>5. QED
        BY <3>2, <4>3, <4>4
    <3>3. QED
      BY <1>2, <3>1, <3>2 DEF HandleTick, Start
  <2>3. /\ job'[w].step = "list" /\ job'[w].gone = {}
        /\ \A i \in Ids : job'[w].rems[i] = None
    BY <1>i, <2>1, GotoKeeps
  <2>4. QED
    BY <1>i, <2>1, <2>2, <2>3 DEF OwnerInv, Renewing, ActsForOwner, Unshared
<1>3. ASSUME List(w)
      PROVE  OwnerInv(w)'
  <2>1. /\ job[w].step = "list" /\ UNCHANGED <<table, switches, handler>>
        /\ job' = [job EXCEPT ![w].step = "keys", ![w].rems = table]
    BY <1>3 DEF List, At, runtime
  <2>2. job'[w].step = "keys" /\ job'[w].rems = table /\ job'[w].gone = job[w].gone
    BY <1>t, <2>1 DEF Jobs
  <2>3. QED
    BY <2>1, <2>2 DEF OwnerInv, Renewing, ActsForOwner
<1>4. ASSUME Keys(w)
      PROVE  OwnerInv(w)'
  <2>1. job[w].step = "keys" /\ UNCHANGED <<table, switches, handler>>
    BY <1>4 DEF Keys, At, runtime
  <2>2. PICK gone \in SUBSET Ids : /\ Continue(w, gone, Listed(w))
                                   /\ gone \intersect Listed(w) = {}
    BY <1>4 DEF Keys
  <2>3. /\ job'[w].step \in {"idle", "remove", "update"}
        /\ \A i \in Ids : job'[w].rems[i] # None => job'[w].rems[i] = job[w].rems[i]
        /\ job'[w].gone \subseteq gone
    BY <2>2, ContinueKeeps DEF Listed
  <2>4. \A i \in gone : table[i] = None
    BY <2>1, <2>2 DEF OwnerInv, Listed
  <2>5. QED
    BY <2>1, <2>3, <2>4, OwnerKept DEF OwnerInv, Renewing
<1>5. ASSUME HandleReconnect \/ UNCHANGED vars
      PROVE  OwnerInv(w)'
  BY <1>5 DEF HandleReconnect, vars, runtime, OwnerInv, Renewing, ActsForOwner
<1>6. ASSUME Crash
      PROVE  OwnerInv(w)'
  <2>1. job'[w] = Idle /\ \A i \in Ids : switches'[i] = None
    BY <1>6 DEF Crash, Nothing
  <2>2. QED
    BY <2>1 DEF OwnerInv, Renewing, Idle, Nothing, Unshared
<1>7. QED
  BY <1>1, <1>2, <1>3, <1>4, <1>5, <1>6

LEMMA OwnerWork ==
  ASSUME TypeInv, NEW w \in Workers, MapInv(w), OwnerInv(w), ~Fault,
         \/ RemoveEntity(w) \/ Unmap(w) \/ Update(w) \/ Declare(w) \/ Set(w)
         \/ OnCommand(w) \/ Store(w)
  PROVE  OwnerInv(w)'
<1>t. DataOK /\ job \in [Workers -> Jobs] /\ JobOK(w) /\ job[w] \in Jobs
  BY DataKnown
<1>1. ASSUME RemoveEntity(w)
      PROVE  OwnerInv(w)'
  <2>1. PICK i \in job[w].gone :
          /\ job' = [job EXCEPT ![w].step = "unmap", ![w].id = i]
          /\ handler' \in {handler, [handler EXCEPT ![EntityKey(i)] = None]}
    BY <1>1 DEF RemoveEntity, PublishFails, runtime
  <2>2. job[w].step = "remove" /\ UNCHANGED <<table, switches>>
    BY <1>1 DEF RemoveEntity, At
  <2>3. /\ job'[w].step = "unmap" /\ job'[w].rems = job[w].rems
        /\ job'[w].gone = job[w].gone /\ i \in Ids
    BY <1>t, <2>1 DEF Jobs
  <2>4. \A j \in Unshared \ {i} : handler'[EntityKey(j)] = handler[EntityKey(j)]
    BY <1>t, <2>1, <2>3, KeysApart, KeyType DEF DataOK
  <2>5. table[i] = None
    BY <2>1 DEF OwnerInv
  <2>6. QED
    BY <2>2, <2>3, <2>4, <2>5 DEF OwnerInv, Renewing, ActsForOwner
<1>2. ASSUME Unmap(w)
      PROVE  OwnerInv(w)'
  <2>1. job[w].step = "unmap" /\ UNCHANGED <<table, handler>>
    BY <1>2 DEF Unmap, At, runtime
  <2>2. \A j \in Ids : switches'[j] = IF j = job[w].id THEN None ELSE switches[j]
    BY <1>2, <1>t DEF Unmap, DataOK
  <2>3. /\ job'[w].step \in {"idle", "remove", "update"}
        /\ \A i \in Ids : job'[w].rems[i] # None => job'[w].rems[i] = job[w].rems[i]
        /\ job'[w].gone \subseteq job[w].gone
    <3>1. job[w].gone \ {job[w].id} \in SUBSET Ids /\ job[w].left \in SUBSET Ids
      BY <1>t DEF Jobs
    <3>2. QED
      BY <1>2, <3>1, ContinueKeeps DEF Unmap
  <2>4. QED
    BY <2>1, <2>2, <2>3 DEF OwnerInv, Renewing, ActsForOwner, Unshared
<1>3. ASSUME Update(w)
      PROVE  OwnerInv(w)'
  <2>1. PICK i \in job[w].left :
          \/ job' = [job EXCEPT ![w] = [job[w] EXCEPT !.id = i, !.left = job[w].left \ {i},
                                        !.step = "declare", !.fresh = TRUE]]
          \/ /\ switches[i] # None
             /\ job' = [job EXCEPT ![w] = [job[w] EXCEPT !.id = i,
                            !.left = job[w].left \ {i}, !.step = "set", !.fresh = FALSE]]
          \/ Continue(w, {}, job[w].left \ {i})
    BY <1>3 DEF Update
  <2>2. job[w].step = "update" /\ UNCHANGED <<table, switches, handler>>
    BY <1>3 DEF Update, At, runtime
  <2>3. CASE Continue(w, {}, job[w].left \ {i})
    <3>1. job[w].left \ {i} \in SUBSET Ids /\ {} \in SUBSET Ids
      BY <1>t DEF Jobs
    <3>2. /\ job'[w].step \in {"idle", "remove", "update"}
          /\ \A j \in Ids : job'[w].rems[j] # None => job'[w].rems[j] = job[w].rems[j]
          /\ job'[w].gone = {}
      BY <2>3, <3>1, ContinueKeeps
    <3>3. QED
      BY <2>2, <3>2, OwnerKept DEF OwnerInv, Renewing
  <2>4. CASE job' = [job EXCEPT ![w] = [job[w] EXCEPT !.id = i,
                       !.left = job[w].left \ {i}, !.step = "declare", !.fresh = TRUE]]
    <3>1. /\ job'[w].step = "declare" /\ job'[w].id = i /\ job'[w].fresh
          /\ job'[w].rems = job[w].rems /\ job'[w].gone = job[w].gone
      BY <1>t, <2>4 DEF Jobs
    <3>2. QED
      BY <2>2, <3>1 DEF OwnerInv, Renewing, ActsForOwner
  <2>5. CASE /\ switches[i] # None
             /\ job' = [job EXCEPT ![w] = [job[w] EXCEPT !.id = i,
                            !.left = job[w].left \ {i}, !.step = "set", !.fresh = FALSE]]
    <3>1. /\ job'[w].step = "set" /\ job'[w].id = i /\ ~job'[w].fresh
          /\ job'[w].rems = job[w].rems /\ job'[w].gone = job[w].gone
      BY <1>t, <2>5 DEF Jobs
    <3>2. i \in Ids
      BY <1>t DEF JobOK, Jobs
    <3>3. QED
      BY <2>2, <2>5, <3>1, <3>2 DEF OwnerInv, Renewing, ActsForOwner
  <2>6. QED
    BY <2>1, <2>3, <2>4, <2>5
<1>4. ASSUME Declare(w)
      PROVE  OwnerInv(w)'
  <2>1. job[w].step = "declare" /\ UNCHANGED <<table, switches, handler>>
    BY <1>4 DEF Declare, At
  <2>2. job[w].id \in Ids /\ table[job[w].id] = job[w].rems[job[w].id]
    BY <1>t, <2>1 DEF OwnerInv, JobOK, Showing
  <2>3. CASE EntityKey(job[w].id) \notin Slashed /\ Goto(w, "set")
    <3>1. /\ job'[w].step = "set" /\ job'[w].id = job[w].id
          /\ job'[w].fresh = job[w].fresh
          /\ job'[w].rems = job[w].rems /\ job'[w].gone = job[w].gone
      BY <2>3, GotoKeeps
    <3>2. QED
      BY <2>1, <2>3, <3>1 DEF OwnerInv, Renewing, ActsForOwner
  <2>4. CASE Refused(job[w].rems[job[w].id], EntityKey(job[w].id)) /\ Advance(w)
    <3>1. /\ job'[w].step \in {"idle", "remove", "update"}
          /\ \A i \in Ids : job'[w].rems[i] # None => job'[w].rems[i] = job[w].rems[i]
          /\ job'[w].gone \subseteq job[w].gone
      BY <2>4, AdvanceKeeps
    <3>2. ~table[job[w].id].named \/ switches[job[w].id] = None
      BY <2>2, <2>4 DEF OwnerInv, Refused
    <3>3. \A i \in Unshared :
            (table[i] # None /\ table[i].named /\ switches[i] # None) => ActsForOwner(i)
      BY <3>2 DEF OwnerInv, Renewing
    <3>4. QED
      BY <2>1, <3>1, <3>3 DEF OwnerInv, Renewing, ActsForOwner
  <2>5. QED
    BY <1>4, <2>3, <2>4 DEF Declare, PublishFails, Refused
<1>5. ASSUME Set(w)
      PROVE  OwnerInv(w)'
  <2>1. job[w].step = "set" /\ UNCHANGED <<table, switches, handler>>
    BY <1>5 DEF Set, At
  <2>2. PICK step : /\ step = IF job[w].fresh THEN "onCommand" ELSE "store"
                    /\ Goto(w, step)
    BY <1>5 DEF Set
  <2>3. /\ job'[w].step = step /\ job'[w].id = job[w].id /\ job'[w].fresh = job[w].fresh
        /\ job'[w].rems = job[w].rems /\ job'[w].gone = job[w].gone
    BY <2>2, GotoKeeps
  <2>4. table[job[w].id] # None
    BY <1>t, <2>1 DEF JobOK, Showing, OwnerInv
  <2>5. (~job[w].fresh /\ job[w].id \in Unshared /\ table[job[w].id].named) =>
          ActsForOwner(job[w].id)
    BY <2>1, <2>4 DEF OwnerInv, Renewing
  <2>6. QED
    BY <2>1, <2>2, <2>3, <2>5 DEF OwnerInv, Renewing, ActsForOwner
<1>6. ASSUME OnCommand(w)
      PROVE  OwnerInv(w)'
  <2>1. job[w].step = "onCommand" /\ UNCHANGED <<table, switches>>
    BY <1>6 DEF OnCommand, At
  <2>2. /\ job[w].rems[job[w].id].shows \in {"on", "off"} /\ job[w].id \in Ids
        /\ job[w].rems[job[w].id] # None
    BY <1>t, <2>1, ShowsType DEF Showing, JobOK
  <2>3. CASE /\ handler' = [handler EXCEPT ![EntityKey(job[w].id)] =
                             [id |-> job[w].id, owner |-> job[w].rems[job[w].id].owner]]
             /\ Goto(w, "store")
    <3>1. /\ job'[w].step = "store" /\ job'[w].id = job[w].id
          /\ job'[w].rems = job[w].rems /\ job'[w].gone = job[w].gone
      BY <2>3, GotoKeeps
    <3>2. table[job[w].id] = job[w].rems[job[w].id]
      BY <2>2 DEF OwnerInv
    <3>3. /\ handler'[EntityKey(job[w].id)] =
               [id |-> job[w].id, owner |-> table[job[w].id].owner]
          /\ \A j \in Unshared \ {job[w].id} :
               handler'[EntityKey(j)] = handler[EntityKey(j)]
      BY <1>t, <2>2, <2>3, <3>2, KeysApart, KeyType DEF DataOK
    <3>4. QED
      BY <2>1, <2>2, <3>1, <3>3 DEF OwnerInv, Renewing, ActsForOwner
  <2>4. CASE ent[EntityKey(job[w].id)] = None /\ Advance(w) /\ UNCHANGED handler
    <3>1. job[w].id \notin Unshared
      BY <2>1, <2>2, <2>4, NoneAssumption DEF MapInv
    <3>2. /\ job'[w].step \in {"idle", "remove", "update"}
          /\ \A i \in Ids : job'[w].rems[i] # None => job'[w].rems[i] = job[w].rems[i]
          /\ job'[w].gone \subseteq job[w].gone
      BY <2>4, AdvanceKeeps
    <3>3. QED
      BY <2>1, <2>4, <3>1, <3>2 DEF OwnerInv, Renewing, ActsForOwner
  <2>5. QED
    BY <1>6, <2>3, <2>4 DEF OnCommand
<1>7. ASSUME Store(w)
      PROVE  OwnerInv(w)'
  <2>1. job[w].step = "store" /\ UNCHANGED <<table, handler>>
    BY <1>7 DEF Store, At, runtime
  <2>2. \A j \in Ids \ {job[w].id} : switches'[j] = switches[j]
    BY <1>7, <1>t DEF Store, DataOK
  <2>3. /\ job'[w].step \in {"idle", "remove", "update"}
        /\ \A i \in Ids : job'[w].rems[i] # None => job'[w].rems[i] = job[w].rems[i]
        /\ job'[w].gone \subseteq job[w].gone
    BY <1>7, AdvanceKeeps DEF Store
  <2>4. QED
    BY <2>1, <2>2, <2>3 DEF OwnerInv, Renewing, ActsForOwner, Unshared
<1>8. QED
  BY <1>1, <1>2, <1>3, <1>4, <1>5, <1>6, <1>7

\* The dashboard before the first failure.
Flawless(w) == faults \in Nat /\ (faults = 0 => ShowInv(w) /\ OwnerInv(w))

LEMMA FlawlessInit ==
  ASSUME NEW w \in Workers, Init
  PROVE  Flawless(w)
<1>1. /\ job[w] = Idle /\ faults = 0
      /\ \A i \in Ids : table[i] = None /\ switches[i] = None
      /\ \A i \in Unshared : i \in Ids /\ ent[EntityKey(i)] = None
  BY KeyType DEF Init, Nothing, NoEntities, Unshared
<1>2. ShowInv(w)
  BY <1>1 DEF ShowInv, AtHand, Declared, Idle
<1>3. OwnerInv(w)
  BY <1>1 DEF OwnerInv, Renewing, Idle, Nothing
<1>4. QED
  BY <1>1, <1>2, <1>3 DEF Flawless

LEMMA FlawlessNext ==
  ASSUME NEW w, Workers = {w}, TypeInv, MapInv(w), Flawless(w), [Next]_vars
  PROVE  Flawless(w)'
<1>1. w \in Workers
  OBVIOUS
<1>2. UNCHANGED faults \/ Fault
  BY ZenonT(30) DEF Next, vars, counters, HandleCreate, HandleRemoval, HandleCommand, HandleTick,
         Start, Work, List, Keys, RemoveEntity, Unmap, Update, Declare, Set, OnCommand,
         Store, HandleReconnect, Crash, PublishFails
<1>3. CASE Fault
  BY <1>3 DEF Fault, Flawless
<1>4. CASE UNCHANGED faults /\ ~Fault
  <2>1. ASSUME faults = 0
        PROVE  ShowInv(w)' /\ OwnerInv(w)'
    <3>1. ShowInv(w) /\ OwnerInv(w)
      BY <2>1 DEF Flawless
    <3>2. ASSUME NEW k \in EntityKeys, HandleCommand(w, k)
          PROVE  \E i \in Ids : HandleRemoval(w, i)
      BY <3>2, CommandRemoves
    <3>3. QED
      BY <1>1, <1>4, <3>1, <3>2, ShowAround, ShowWork, OwnerAround, OwnerWork
         DEF Next, Work
  <2>2. QED
    BY <1>4, <2>1 DEF Flawless
<1>5. QED
  BY <1>2, <1>3, <1>4

\* Both promises that hold until the first failure, from Flawless.
LEMMA FlawlessPromises ==
  ASSUME NEW w, Workers = {w}
  PROVE  Spec => [](MapIsTrue /\ SwitchActsForOwner)
<1>1. Init => MapInv(w) /\ Flawless(w)
  BY MapInit, FlawlessInit
<1>2. TypeInv /\ MapInv(w) /\ Flawless(w) /\ [Next]_vars => MapInv(w)' /\ Flawless(w)'
  BY MapNext, FlawlessNext
<1>3. Flawless(w) => MapIsTrue /\ SwitchActsForOwner
  <2> SUFFICES ASSUME Flawless(w), Quiescent, faults = 0
               PROVE  /\ \A i \in Unshared :
                           /\ switches[i] # None => Shown(i) = switches[i]
                           /\ ent[EntityKey(i)] # None => switches[i] = ent[EntityKey(i)]
                      /\ \A i \in Unshared :
                           (table[i] # None /\ table[i].named /\ switches[i] # None)
                              => ActsForOwner(i)
    BY DEF MapIsTrue, SwitchActsForOwner, ActsForOwner
  <2>1. job[w].step = "idle" /\ ShowInv(w) /\ OwnerInv(w)
    BY DEF Flawless, Quiescent, Idle
  <2>2. QED
    BY <2>1 DEF ShowInv, OwnerInv, AtHand, Declared, Renewing, Shown
<1>4. Spec => []TypeInv
  BY TypeInit, TypeNext, PTL DEF Spec
<1> HIDE DEF MapInv, Flawless
<1>5. QED
  BY <1>1, <1>2, <1>3, <1>4, PTL DEF Spec

\* MapIsTrue: where runs of syncEntities do not overlap and nothing has failed, the map
\* of an idle handler tells what the dashboard shows and has every switch the runtime
\* knows, over reconnections and crashes, for the ids that share their key with no other.
THEOREM MapTells ==
  ASSUME NEW w, Workers = {w}
  PROVE  Spec => []MapIsTrue
BY FlawlessPromises, PTL

\* SwitchActsForOwner: under the same conditions the switch of an id that shares its key
\* with no other acknowledges that id, for the owner of its row, whichever ids were taken
\* over by another owner; a row with a blank message is excepted.
THEOREM SwitchesFollowOwners ==
  ASSUME NEW w, Workers = {w}
  PROVE  Spec => []SwitchActsForOwner
BY FlawlessPromises, PTL
===============================================================================
