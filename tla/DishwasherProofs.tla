--------------------------- MODULE DishwasherProofs ---------------------------
(***************************************************************************)
(* Theorems of Dishwasher, for any number of handlers and every bound:     *)
(* the type invariant, and that a quiet machine stays quiet; and for one   *)
(* handler at a time, that the states follow the schedule in memory and    *)
(* that a withdrawal leaves nothing behind.                                *)
(***************************************************************************)
EXTENDS Dishwasher, TLAPS

\* A handler of a schedule request carries the start time it has chosen.
Scheduling == {"pulseOn", "pulseOff", "store", "saveFlag", "saveStart"}
ArgsOK == \A h \in Handlers : job[h].step \in Scheduling => job[h].arg \in Nat

TypeInv == TypeOK /\ ArgsOK

-------------------------------------------------------------------------------
(* Entity states.                                                          *)

\* Publishing states over states gives states.
LEMMA OverlayType ==
  ASSUME NEW old \in States, NEW new \in States
  PROVE  Overlay(old, new) \in States
BY DEF States, Overlay

\* What the state manager publishes are states.
LEMMA PublishedStates ==
  /\ NoStates \in States
  /\ \A on : FlagOnly(on) \in States
  /\ \A s \in Nat : [NoStates EXCEPT !.start = s] \in States
  /\ Details \in States
  /\ Cleared \in States
<1>1. NoStates \in States
  BY DEF NoStates, States
<1>2. ASSUME NEW on PROVE FlagOnly(on) \in States
  BY DEF NoStates, States, FlagOnly
<1>3. ASSUME NEW s \in Nat PROVE [NoStates EXCEPT !.start = s] \in States
  BY DEF NoStates, States
<1>4. Details \in States
  BY DEF NoStates, States, Details
<1>5. Cleared \in States
  BY DEF NoStates, States, Cleared
<1>6. QED
  BY <1>1, <1>2, <1>3, <1>4, <1>5

\* What a publish, or one that fails, does to the variables of the network.
NetworkOK ==
  /\ entity \in States /\ last \in States
  /\ connected \in BOOLEAN /\ available \in BOOLEAN /\ faults \in Nat

LEMMA PublishType ==
  ASSUME NetworkOK, NEW states \in States, Published(states) \/ PublishFails(states)
  PROVE  NetworkOK'
<1>1. CASE Published(states)
  BY <1>1, OverlayType DEF Published, NetworkOK
<1>2. CASE PublishFails(states)
  BY <1>2, OverlayType DEF PublishFails, Fault, NetworkOK
<1>3. QED
  BY <1>1, <1>2

-------------------------------------------------------------------------------
(* Handlers.                                                               *)

JobsOK == job \in [Handlers -> Jobs] /\ ArgsOK

\* The steps a handler can take next keep the jobs well-formed.
LEMMA GoToType ==
  ASSUME JobsOK, NEW h \in Handlers, NEW s \in Steps, GoTo(h, s),
         s \in Scheduling => job[h].arg \in Nat
  PROVE  JobsOK'
BY DEF JobsOK, GoTo, Jobs, ArgsOK

LEMMA IdleType == Idle \in Jobs /\ Idle.step \notin Scheduling
BY DEF Idle, Jobs, Steps, Scheduling, OptTime

LEMMA ReturnType ==
  ASSUME JobsOK, NEW h \in Handlers, Return(h)
  PROVE  JobsOK' /\ phase' = "up"
<1> HIDE DEF Idle
<1>1. QED
  BY IdleType DEF JobsOK, Return, ArgsOK

LEMMA BeginType ==
  ASSUME JobsOK, NEW h \in Handlers, NEW s \in Steps, NEW a \in OptTime,
         NEW b \in {"nobody", "user", "check", "start"}, Begin(h, s, a, b),
         s \in Scheduling => a \in Nat
  PROVE  JobsOK'
BY DEF JobsOK, Begin, Jobs, ArgsOK

\* The start of a machine hands the job over to the clearing of its schedule.
LEMMA StartedType ==
  ASSUME JobsOK, NEW h \in Handlers,
         job' = [job EXCEPT ![h].step = "clearFlag", ![h].by = "start"]
  PROVE  JobsOK'
BY ZenonT(30) DEF JobsOK, Jobs, ArgsOK, Steps, Scheduling

LEMMA AllIdleType ==
  ASSUME job' = [h \in Handlers |-> Idle]
  PROVE  JobsOK'
<1> HIDE DEF Idle
<1>1. QED
  BY IdleType DEF JobsOK, ArgsOK
-------------------------------------------------------------------------------
(* Type correctness.                                                       *)

\* The variables that change one by one, besides the jobs and the network.
RestOK ==
  /\ now \in Nat /\ phase \in {"down", "starting", "up"} /\ pending \in OptTime
  /\ socket \in BOOLEAN
  /\ promise \in {"none", "made", "started", "withdrawing", "withdrawn"}
  /\ commands \in Nat /\ drops \in Nat /\ crashes \in Nat

LEMMA TypeParts == TypeInv <=> (JobsOK /\ NetworkOK /\ RestOK)
BY DEF TypeInv, TypeOK, JobsOK, NetworkOK, RestOK

LEMMA TypePartsNext == TypeInv' <=> (JobsOK' /\ NetworkOK' /\ RestOK')
BY DEF TypeInv, TypeOK, JobsOK, NetworkOK, RestOK

LEMMA InitType == Init => TypeInv
<1> SUFFICES ASSUME Init PROVE TypeInv
  OBVIOUS
<1>1. JobsOK
  <2> HIDE DEF Idle
  <2>1. QED
    BY IdleType DEF Init, JobsOK, ArgsOK
<1>2. NetworkOK
  BY PublishedStates DEF Init, NetworkOK
<1>3. RestOK
  BY DEF Init, RestOK, OptTime
<1>4. QED
  BY <1>1, <1>2, <1>3, TypeParts

\* The death of the process.
LEMMA DieType ==
  ASSUME TypeInv, Die, UNCHANGED <<now, socket, promise, commands, faults, drops>>,
         crashes' \in Nat
  PROVE  TypeInv'
<1>0. NetworkOK /\ RestOK
  BY TypeParts
<1>1. JobsOK'
  BY AllIdleType DEF Die
<1>2. NetworkOK'
  BY <1>0, PublishedStates DEF Die, NetworkOK
<1>3. RestOK'
  BY <1>0 DEF Die, RestOK, OptTime
<1>4. QED
  BY <1>1, <1>2, <1>3, TypePartsNext

\* What a request, a check, a cancel event or a switch command begins.
LEMMA BeginningsType ==
  ASSUME TypeInv, NEW h \in Handlers,
         \/ Request(h)
         \/ CancelEvent(h)
         \/ \E on \in BOOLEAN : SwitchCommand(h, on)
         \/ CheckPendingStart(h)
  PROVE  TypeInv'
<1>0. JobsOK /\ NetworkOK /\ RestOK
  BY TypeParts
<1>1. commands' \in Nat /\ RestOK'
  BY <1>0 DEF RestOK, Request, CancelEvent, SwitchCommand, CheckPendingStart, Command,
              counters
<1>2. NetworkOK'
  BY <1>0 DEF NetworkOK, network, Request, CancelEvent, SwitchCommand,
              CheckPendingStart, counters
<1>3. JobsOK'
  <2>1. CASE Request(h)
    <3>1. CASE Begin(h, "startNow", None, "nobody")
      BY <1>0, <3>1, BeginType DEF Steps, OptTime, Scheduling
    <3>2. ASSUME NEW s \in now + 1 .. MaxTime, Begin(h, "pulseOn", s, "nobody")
          PROVE  JobsOK'
      <4>1. s \in Nat
        BY <1>0, BoundAssumption DEF RestOK
      <4>2. QED
        BY <1>0, <3>2, <4>1, BeginType DEF Steps, OptTime
    <3>3. QED
      BY <2>1, <3>1, <3>2 DEF Request
  <2>2. CASE CancelEvent(h)
    BY <1>0, <2>2, BeginType DEF CancelEvent, Steps, OptTime, Scheduling
  <2>3. ASSUME NEW on \in BOOLEAN, SwitchCommand(h, on) PROVE JobsOK'
    <3>1. CASE Begin(h, "drop", None, "user")
      BY <1>0, <3>1, BeginType DEF Steps, OptTime, Scheduling
    <3>2. PICK s : /\ s = IF on /\ pending # None THEN "setOn" ELSE "setOff"
                   /\ s \in Steps \ Scheduling
      BY DEF Steps, Scheduling
    <3>3. CASE Begin(h, s, None, "nobody")
      BY <1>0, <3>2, <3>3, BeginType DEF OptTime
    <3>4. QED
      BY <2>3, <3>1, <3>2, <3>3 DEF SwitchCommand
  <2>4. CASE CheckPendingStart(h)
    BY <1>0, <2>4, BeginType DEF CheckPendingStart, Steps, OptTime, Scheduling
  <2>5. QED
    BY <2>1, <2>2, <2>3, <2>4
<1>4. QED
  BY <1>1, <1>2, <1>3, TypePartsNext

\* The steps of a request: pulse, store, save; and a start at once.
LEMMA RequestWorkType ==
  ASSUME TypeInv, NEW h \in Handlers,
         \/ StartNow(h)
         \/ InitializeModeForScheduled(h)
         \/ StorePending(h)
         \/ SaveSchedule(h)
         \/ SetScheduledFlag(h)
  PROVE  TypeInv'
<1>0. /\ JobsOK /\ NetworkOK /\ RestOK
      /\ job[h] \in Jobs /\ job[h].arg \in OptTime
      /\ job[h].step \in Scheduling => job[h].arg \in Nat
  BY TypeParts DEF JobsOK, Jobs, ArgsOK
<1>1. CASE StartNow(h)
  <2>1. JobsOK' /\ phase' = "up"
    BY <1>0, <1>1, ReturnType DEF StartNow
  <2>2. socket' \in BOOLEAN
    BY <1>0, <1>1 DEF StartNow, RestOK
  <2>3. faults' \in Nat
    BY <1>0, <1>1 DEF StartNow, NetworkOK, Fault
  <2>4. promise' \in {promise, "started"}
    BY <1>1 DEF StartNow
  <2>5. NetworkOK' /\ RestOK'
    <3>1. UNCHANGED <<now, pending, network, commands, drops, crashes>>
      BY <1>1 DEF StartNow
    <3>2. QED
      BY <1>0, <2>1, <2>2, <2>3, <2>4, <3>1 DEF NetworkOK, network, RestOK
  <2>6. QED
    BY <2>1, <2>5, TypePartsNext
<1>2. CASE InitializeModeForScheduled(h)
  <2>1. ASSUME NEW on \in BOOLEAN, NEW next \in Scheduling, Pulse(h, on, next),
               job[h].step \in Scheduling
        PROVE  JobsOK' /\ phase' \in {phase, "up"} /\ socket' \in {on, socket}
               /\ faults' \in Nat
    <3>1. next \in Steps
      BY DEF Scheduling, Steps
    <3>2. faults' \in Nat
      BY <1>0, <2>1 DEF Pulse, Fault, NetworkOK
    <3>3. CASE GoTo(h, next) /\ UNCHANGED phase
      BY <1>0, <2>1, <3>1, <3>2, <3>3, GoToType DEF Pulse
    <3>4. CASE Return(h)
      BY <1>0, <2>1, <3>2, <3>4, ReturnType DEF Pulse
    <3>5. QED
      BY <2>1, <3>3, <3>4 DEF Pulse
  <2>2. JobsOK' /\ phase' \in {phase, "up"} /\ socket' \in BOOLEAN /\ faults' \in Nat
    <3>1. CASE At(h, "pulseOn") /\ Pulse(h, TRUE, "pulseOff")
      BY <1>0, <3>1, <2>1 DEF At, Scheduling, RestOK
    <3>2. CASE At(h, "pulseOff") /\ Pulse(h, FALSE, "store")
      BY <1>0, <3>2, <2>1 DEF At, Scheduling, RestOK
    <3>3. QED
      BY <1>2, <3>1, <3>2 DEF InitializeModeForScheduled
  <2>3. NetworkOK' /\ RestOK'
    BY <1>0, <1>2, <2>2 DEF InitializeModeForScheduled, NetworkOK, network, RestOK
  <2>4. QED
    BY <2>2, <2>3, TypePartsNext
<1>3. CASE StorePending(h)
  <2>1. JobsOK'
    BY <1>0, <1>3, GoToType DEF StorePending, At, Scheduling, Steps
  <2>2. NetworkOK' /\ RestOK'
    BY <1>0, <1>3 DEF StorePending, NetworkOK, network, RestOK, counters
  <2>3. QED
    BY <2>1, <2>2, TypePartsNext
<1>4. CASE SaveSchedule(h)
  <2>1. ASSUME NEW states \in States, NEW next \in Steps, SaveStep(h, states, next),
               next \in Scheduling => job[h].arg \in Nat
        PROVE  JobsOK' /\ NetworkOK' /\ phase' \in {phase, "up"} /\ promise' = promise
    <3>1. CASE Published(states) /\ GoTo(h, next) /\ UNCHANGED <<phase, promise>>
      BY <1>0, <2>1, <3>1, PublishType, GoToType
    <3>2. CASE PublishFails(states) /\ Return(h) /\ UNCHANGED promise
      BY <1>0, <2>1, <3>2, PublishType, ReturnType
    <3>3. QED
      BY <2>1, <3>1, <3>2 DEF SaveStep
  <2>2. /\ JobsOK' /\ NetworkOK' /\ phase' \in {phase, "up"}
        /\ promise' \in {promise, "made"}
    <3>1. CASE At(h, "saveFlag") /\ SaveStep(h, FlagOnly(TRUE), "saveStart")
      <4>1. FlagOnly(TRUE) \in States /\ "saveStart" \in Steps
        BY PublishedStates DEF Steps
      <4>2. job[h].arg \in Nat
        BY <1>0, <3>1 DEF At, Scheduling
      <4>3. QED
        BY <3>1, <4>1, <4>2, <2>1
    <3>2. CASE /\ At(h, "saveStart")
               /\ SaveStep(h, [NoStates EXCEPT !.start = job[h].arg], "saveDetails")
      <4>1. job[h].arg \in Nat
        BY <1>0, <3>2 DEF At, Scheduling
      <4>2. [NoStates EXCEPT !.start = job[h].arg] \in States /\ "saveDetails" \in Steps
        BY <4>1, PublishedStates DEF Steps
      <4>3. QED
        BY <3>2, <4>1, <4>2, <2>1
    <3>3. CASE /\ \/ Published(Details) /\ promise' = "made"
                  \/ PublishFails(Details) /\ UNCHANGED promise
               /\ Return(h)
      BY <1>0, <3>3, PublishedStates, PublishType, ReturnType
    <3>4. QED
      BY <1>4, <3>1, <3>2, <3>3 DEF SaveSchedule
  <2>3. RestOK'
    BY <1>0, <1>4, <2>2 DEF SaveSchedule, RestOK
  <2>4. QED
    BY <2>2, <2>3, TypePartsNext
<1>5. CASE SetScheduledFlag(h)
  <2>1. NetworkOK'
    <3>1. PICK states : /\ states = FlagOnly(At(h, "setOn"))
                        /\ Published(states) \/ PublishFails(states)
      BY <1>5 DEF SetScheduledFlag
    <3>2. states \in States
      BY <3>1, PublishedStates
    <3>3. QED
      BY <1>0, <3>1, <3>2, PublishType
  <2>2. JobsOK' /\ phase' = "up"
    BY <1>0, <1>5, ReturnType DEF SetScheduledFlag
  <2>3. RestOK'
    BY <1>0, <1>5, <2>2 DEF SetScheduledFlag, RestOK
  <2>4. QED
    BY <2>1, <2>2, <2>3, TypePartsNext
<1>6. QED
  BY <1>1, <1>2, <1>3, <1>4, <1>5

\* The steps of a check, of a cancellation and of an expired schedule.
LEMMA CheckWorkType ==
  ASSUME TypeInv, NEW h \in Handlers,
         \/ ReadFlag(h)
         \/ Compare(h)
         \/ StartPending(h)
         \/ CancelPending(h)
         \/ ClearSchedule(h)
         \/ Forget(h)
         \/ HandleExpired(h)
  PROVE  TypeInv'
<1>0. JobsOK /\ NetworkOK /\ RestOK
  BY TypeParts
<1>1. CASE ReadFlag(h)
  <2>1. PICK s \in {"compare", "drop"} : GoTo(h, s)
    BY <1>1 DEF ReadFlag
  <2>2. JobsOK'
    BY <1>0, <2>1, GoToType DEF Steps, Scheduling
  <2>3. NetworkOK' /\ RestOK'
    BY <1>0, <1>1 DEF ReadFlag, NetworkOK, network, RestOK, Fault
  <2>4. QED
    BY <2>2, <2>3, TypePartsNext
<1>2. CASE Compare(h)
  <2>1. CASE pending = None
    BY <1>0, <1>2, <2>1, DieType DEF Compare, counters, RestOK
  <2>2. CASE pending # None
    <3>1. JobsOK' /\ phase' \in {phase, "up"}
      <4>1. CASE GoTo(h, "start") /\ UNCHANGED phase
        BY <1>0, <4>1, GoToType DEF Steps, Scheduling
      <4>2. CASE Return(h)
        BY <1>0, <4>2, ReturnType
      <4>3. QED
        BY <1>2, <2>2, <4>1, <4>2 DEF Compare
    <3>2. NetworkOK' /\ RestOK'
      BY <1>0, <1>2, <2>2, <3>1 DEF Compare, NetworkOK, network, RestOK, counters
    <3>3. QED
      BY <3>1, <3>2, TypePartsNext
  <2>3. QED
    BY <2>1, <2>2
<1>3. CASE StartPending(h)
  <2>1. JobsOK' /\ phase' \in {phase, "up"}
    BY <1>0, <1>3, StartedType, ReturnType DEF StartPending
  <2>2. socket' \in BOOLEAN
    BY <1>0, <1>3 DEF StartPending, RestOK
  <2>3. faults' \in Nat
    BY <1>0, <1>3 DEF StartPending, NetworkOK, Fault
  <2>4. promise' \in {promise, "started"}
    BY <1>3 DEF StartPending
  <2>5. NetworkOK' /\ RestOK'
    <3>1. UNCHANGED <<now, pending, network, commands, drops, crashes>>
      BY <1>3 DEF StartPending
    <3>2. QED
      BY <1>0, <2>1, <2>2, <2>3, <2>4, <3>1 DEF NetworkOK, network, RestOK
  <2>6. QED
    BY <2>1, <2>5, TypePartsNext
<1>4. CASE CancelPending(h)
  <2>1. JobsOK'
    BY <1>0, <1>4, GoToType DEF CancelPending, Steps, Scheduling
  <2>2. NetworkOK' /\ RestOK'
    BY <1>0, <1>4 DEF CancelPending, NetworkOK, network, RestOK, counters, OptTime
  <2>3. QED
    BY <2>1, <2>2, TypePartsNext
<1>5. CASE ClearSchedule(h)
  <2>1. ASSUME AfterClear(h) PROVE JobsOK' /\ phase' \in {phase, "up"}
    BY <1>0, <2>1, GoToType, ReturnType DEF AfterClear, Steps, Scheduling
  <2>2. JobsOK' /\ phase' \in {phase, "up"}
    <3>1. CASE GoTo(h, "clearRest") /\ UNCHANGED phase
      BY <1>0, <3>1, GoToType DEF Steps, Scheduling
    <3>2. QED
      BY <1>5, <2>1, <3>1 DEF ClearSchedule
  <2>3. NetworkOK'
    <3>1. PICK states \in States : Published(states) \/ PublishFails(states)
      BY <1>5, PublishedStates DEF ClearSchedule
    <3>2. QED
      BY <1>0, <3>1, PublishType
  <2>4. promise' \in {promise, "withdrawn"}
    BY <1>5 DEF ClearSchedule
  <2>5. RestOK'
    BY <1>0, <1>5, <2>2, <2>4 DEF ClearSchedule, RestOK
  <2>6. QED
    BY <2>2, <2>3, <2>5, TypePartsNext
<1>6. CASE Forget(h)
  <2>1. JobsOK' /\ phase' = "up"
    BY <1>0, <1>6, ReturnType DEF Forget
  <2>2. NetworkOK' /\ RestOK'
    BY <1>0, <1>6, <2>1 DEF Forget, NetworkOK, network, RestOK, counters, OptTime
  <2>3. QED
    BY <2>1, <2>2, TypePartsNext
<1>7. CASE HandleExpired(h)
  <2>1. JobsOK' /\ UNCHANGED phase
    BY <1>0, <1>7, GoToType DEF HandleExpired, Steps, Scheduling
  <2>2. socket' \in BOOLEAN
    BY <1>0, <1>7 DEF HandleExpired, RestOK
  <2>3. faults' \in Nat
    BY <1>0, <1>7 DEF HandleExpired, NetworkOK, Fault
  <2>4. promise' \in {promise, "started"}
    BY <1>7 DEF HandleExpired
  <2>5. NetworkOK' /\ RestOK'
    <3>1. UNCHANGED <<now, pending, network, commands, drops, crashes>>
      BY <1>7 DEF HandleExpired
    <3>2. QED
      BY <1>0, <2>1, <2>2, <2>3, <2>4, <3>1 DEF NetworkOK, network, RestOK
  <2>6. QED
    BY <2>1, <2>5, TypePartsNext
<1>8. QED
  BY <1>1, <1>2, <1>3, <1>4, <1>5, <1>6, <1>7

\* The clock, the network, a crash, the socket and a restart.
LEMMA EnvironmentType ==
  ASSUME TypeInv,
         \/ Clock \/ Drop \/ Reconnect \/ HandleReconnect \/ Crash \/ SwitchOff
         \/ \E h \in Handlers : RestoreSchedule(h)
  PROVE  TypeInv'
<1>0. JobsOK /\ NetworkOK /\ RestOK
  BY TypeParts
<1>1. ASSUME UNCHANGED job PROVE JobsOK'
  BY <1>0, <1>1 DEF JobsOK, ArgsOK
<1>2. CASE Clock
  BY <1>0, <1>1, <1>2, TypePartsNext DEF Clock, NetworkOK, network, RestOK, counters
<1>3. CASE Drop
  <2>1. drops' \in Nat
    BY <1>0, <1>3 DEF Drop, RestOK
  <2>2. connected' \in BOOLEAN /\ available' \in BOOLEAN
    BY <1>3 DEF Drop
  <2>3. UNCHANGED <<now, phase, pending, job, entity, last, socket, promise, commands,
                    faults, crashes>>
    BY <1>3 DEF Drop
  <2>4. QED
    BY <1>0, <1>1, <2>1, <2>2, <2>3, TypePartsNext DEF NetworkOK, RestOK
<1>4. CASE Reconnect
  BY <1>0, <1>1, <1>4, TypePartsNext DEF Reconnect, NetworkOK, RestOK, counters
<1>5. CASE HandleReconnect
  BY <1>0, <1>1, <1>5, OverlayType, TypePartsNext
     DEF HandleReconnect, NetworkOK, RestOK, counters
<1>6. CASE Crash
  <2>1. crashes' \in Nat
    BY <1>0, <1>6 DEF Crash, RestOK
  <2>2. QED
    BY <1>6, <2>1, DieType DEF Crash
<1>7. CASE SwitchOff
  BY <1>0, <1>1, <1>7, TypePartsNext DEF SwitchOff, NetworkOK, network, RestOK, counters
<1>8. ASSUME NEW h \in Handlers, RestoreSchedule(h) PROVE TypeInv'
  <2>1. JobsOK'
    <3>1. CASE UNCHANGED job
      BY <1>1, <3>1
    <3>2. CASE job' = [job EXCEPT ![h].step = "ensure"]
      BY <1>0, <3>2, GoToType DEF GoTo, Steps, Scheduling
    <3>3. QED
      BY <1>8, <3>1, <3>2 DEF RestoreSchedule
  <2>2. phase' \in {"starting", "up"}
    BY <1>8 DEF RestoreSchedule
  <2>3. pending' \in OptTime
    BY <1>0, <1>8 DEF RestoreSchedule, CanRestore, RestOK, OptTime
  <2>4. faults' \in Nat
    BY <1>0, <1>8 DEF RestoreSchedule, Fault, NetworkOK
  <2>5. UNCHANGED <<now, network, socket, promise, commands, drops, crashes>>
    BY <1>8 DEF RestoreSchedule
  <2>6. NetworkOK' /\ RestOK'
    BY <1>0, <2>2, <2>3, <2>4, <2>5 DEF NetworkOK, network, RestOK
  <2>7. QED
    BY <2>1, <2>6, TypePartsNext
<1>9. QED
  BY <1>2, <1>3, <1>4, <1>5, <1>6, <1>7, <1>8

\* TypeInv is invariant.
LEMMA TypeInvariant == Spec => []TypeInv
<1>1. Init => TypeInv
  BY InitType
<1>2. TypeInv /\ [Next]_vars => TypeInv'
  <2> SUFFICES ASSUME TypeInv, [Next]_vars PROVE TypeInv'
    OBVIOUS
  <2>1. ASSUME NEW h \in Handlers, Work(h) PROVE TypeInv'
    BY <2>1, RequestWorkType, CheckWorkType DEF Work
  <2>2. CASE Next
    BY <2>1, <2>2, EnvironmentType, BeginningsType DEF Next
  <2>3. CASE UNCHANGED vars
    <3>1. UNCHANGED <<job, entity, last, connected, available, now, phase, pending,
                      socket, promise, commands, faults, drops, crashes>>
      BY <2>3 DEF vars, network, counters
    <3>2. JobsOK' /\ NetworkOK' /\ RestOK'
      BY <3>1, TypeParts DEF JobsOK, ArgsOK, NetworkOK, RestOK
    <3>3. QED
      BY <3>2, TypePartsNext
  <2>4. QED
    BY <2>2, <2>3
<1>3. QED
  BY <1>1, <1>2, PTL DEF Spec

\* TypeOK: every reachable state has the declared types, so no handler that saves a
\* schedule is without a start time, and New restores nothing but a time.
THEOREM TypeCorrect == Spec => []TypeOK
<1>1. TypeInv => TypeOK
  BY DEF TypeInv
<1>2. QED
  BY <1>1, TypeInvariant, PTL

-------------------------------------------------------------------------------
(* A quiet machine stays quiet.                                            *)

\* In a quiet state no handler is at any step.
LEMMA QuietNobodyWorks ==
  ASSUME TypeInv, Quiet, NEW h \in Handlers
  PROVE  ~Work(h)
<1>1. job[h].step = "idle"
  BY DEF Quiet, Quiescent, Idle
<1>2. QED
  BY <1>1 DEF Work, At, StartNow, InitializeModeForScheduled, StorePending,
              SaveSchedule, ReadFlag, Compare, StartPending, CancelPending,
              ClearSchedule, Forget, SetScheduledFlag, HandleExpired

\* Nothing that is not a command of the user ends the quiet: QuietIsFinal.
LEMMA QuietStep ==
  ASSUME TypeInv, Quiet, Next, commands' = commands
  PROVE  Quiet' /\ (socket' => socket)
<1>1. /\ pending = None /\ entity.flag # "on" /\ last.flag # "on"
      /\ \A h \in Handlers : job[h] = Idle
      /\ commands \in Nat
  BY DEF Quiet, Quiescent, TypeInv, TypeOK
<1>2. ASSUME pending' = None, entity'.flag # "on", last'.flag # "on",
             UNCHANGED job
      PROVE  Quiet'
  BY <1>1, <1>2 DEF Quiet, Quiescent
<1>3. ~Command
  BY <1>1 DEF Command
<1>4. CASE Clock
  BY <1>1, <1>2, <1>4 DEF Clock, network
<1>5. CASE Drop
  BY <1>1, <1>2, <1>5 DEF Drop
<1>6. CASE Reconnect
  BY <1>1, <1>2, <1>6 DEF Reconnect
<1>7. CASE HandleReconnect
  BY <1>1, <1>2, <1>7 DEF HandleReconnect, Overlay
<1>8. CASE Crash
  <2>1. /\ pending' = None /\ entity'.flag # "on" /\ UNCHANGED socket
        /\ job' = [h \in Handlers |-> Idle] /\ last' = NoStates
    BY <1>1, <1>8 DEF Crash, Die
  <2>2. last'.flag # "on"
    BY <2>1, UnsetAssumption DEF NoStates
  <2>3. QED
    BY <2>1, <2>2 DEF Quiet, Quiescent
<1>9. CASE SwitchOff
  BY <1>1, <1>2, <1>9 DEF SwitchOff, network
<1>10. CASE \E h \in Handlers : RestoreSchedule(h)
  <2>1. PICK h \in Handlers : RestoreSchedule(h)
    BY <1>10
  <2>2. Flag # "on"
    BY <1>1 DEF Flag
  <2>3. UNCHANGED <<pending, job, network, socket>>
    BY <2>1, <2>2 DEF RestoreSchedule
  <2>4. QED
    BY <1>1, <1>2, <2>3 DEF network
<1>11. ASSUME NEW h \in Handlers PROVE ~Work(h)
  BY QuietNobodyWorks
<1>12. ASSUME NEW h \in Handlers
       PROVE  /\ ~Request(h) /\ ~CancelEvent(h) /\ ~CheckPendingStart(h)
              /\ \A on \in BOOLEAN : ~SwitchCommand(h, on)
  BY <1>1, <1>3 DEF Request, CancelEvent, CheckPendingStart, SwitchCommand
<1>13. QED
  BY <1>4, <1>5, <1>6, <1>7, <1>8, <1>9, <1>10, <1>11, <1>12 DEF Next

\* QuietIsFinal: once nothing is pending, at work or marked as scheduled, only a
\* command of the user can start the machine or bring up a schedule.
THEOREM QuietStaysQuiet == Spec => QuietIsFinal
<1>1. TypeInv /\ [Next]_vars
        => [(Quiet /\ commands' = commands) => (Quiet' /\ (socket' => socket))]_vars
  BY QuietStep
<1>2. QED
  BY <1>1, TypeInvariant, PTL DEF Spec, QuietIsFinal
-------------------------------------------------------------------------------
(* One handler at a time: what is pending, what is shown and what was      *)
(* withdrawn agree.                                                        *)

\* At these steps what is pending, and every state, is as the last handler left it.
Settled == {"idle", "startNow", "pulseOn", "pulseOff", "store", "readFlag", "compare",
            "start"}
Saving == {"saveFlag", "saveStart", "saveDetails"}
Clearing == {"clearFlag", "clearRest"}

\* What a handler knows of the pending schedule at each step.
PendingInv(h) ==
  /\ job[h].step \in {"readFlag", "compare", "start", "setOn"} => pending # None
  /\ job[h].step \in {"ensure", "setOff"} => pending = None
  /\ job[h].step \in Clearing /\ job[h].by # "start" => pending = None
  /\ job[h].step \in Saving => pending = job[h].arg /\ pending # None
  /\ job[h].step = "forget" => job[h].by = "start"
  /\ phase = "down" => pending = None /\ job[h].step = "idle"

\* Before the first crash: the flag in the runtime tells whether a schedule is pending.
FlagInv(h) ==
  crashes = 0 =>
    /\ phase = "up" /\ job[h].step # "ensure"
    /\ job[h].step \in Settled => ((pending # None) <=> (last.flag = "on"))
    /\ job[h].step \in {"saveStart", "saveDetails"} => last.flag = "on"
    /\ job[h].step \in {"clearRest", "forget"} => last.flag # "on"

\* What a reconnect republishes is what is shown.
Repeats(old, new) ==
  /\ old.flag \in {Unset, new.flag}
  /\ old.start \in {Unset, new.start}
  /\ old.details \in {Unset, new.details}

\* Before the first failure: a schedule that is pending is shown in full.
ShownInv(h) ==
  faults = 0 =>
    /\ Repeats(last, entity)
    /\ job[h].step \in Settled \union {"setOn"} /\ pending # None =>
         entity.flag = "on" /\ entity.start = pending /\ entity.details = "set"
    /\ job[h].step \in {"saveStart", "saveDetails"} => entity.flag = "on"
    /\ job[h].step = "saveDetails" => entity.start = pending

Unmarked == entity.flag # "on" /\ last.flag # "on"

\* After a withdrawal: nothing is pending or marked as scheduled.
WithdrawnInv(h) ==
  /\ job[h].step = "clearRest" => Unmarked
  /\ promise = "withdrawn" =>
       /\ pending = None /\ Unmarked
       /\ \/ job[h].step \in {"idle", "setOff"}
          \/ job[h].step = "drop" /\ job[h].by = "user"

SerialInv(h) ==
  TypeInv /\ PendingInv(h) /\ FlagInv(h) /\ ShownInv(h) /\ WithdrawnInv(h)

\* What a handler is about to do after each kind of step.
LEMMA AfterGoTo ==
  ASSUME JobsOK, NEW h \in Handlers, NEW s, GoTo(h, s)
  PROVE  job'[h].step = s /\ job'[h].by = job[h].by /\ job'[h].arg = job[h].arg
BY DEF JobsOK, GoTo, Jobs

LEMMA AfterReturn ==
  ASSUME JobsOK, NEW h \in Handlers, Return(h)
  PROVE  job'[h].step = "idle" /\ phase' = "up"
BY DEF JobsOK, Return, Idle

LEMMA AfterBegin ==
  ASSUME JobsOK, NEW h \in Handlers, NEW s, NEW a, NEW b, Begin(h, s, a, b)
  PROVE  /\ job'[h].step = s /\ job'[h].by = b /\ job'[h].arg = a
         /\ job[h].step = "idle" /\ phase = "up"
BY DEF JobsOK, Begin, Idle

\* What is published is repeated by the runtime, unless a publish fails.
LEMMA Repeating ==
  ASSUME NetworkOK, faults = 0 => Repeats(last, entity), NEW states \in States,
         Published(states) \/ PublishFails(states), faults' = 0
  PROVE  faults = 0 /\ Published(states) /\ Repeats(last', entity')
<1>1. Published(states)
  BY DEF PublishFails, Fault, NetworkOK
<1>2. faults = 0 /\ Repeats(last, entity)
  BY <1>1 DEF Published
<1>3. Repeats(last', entity')
  BY <1>1, <1>2 DEF Published, Overlay, Repeats, NetworkOK, States
<1>4. QED
  BY <1>1, <1>2, <1>3

\* A published flag, and nothing else, is kept by the runtime, and shown if all is well.
LEMMA FlagPublished ==
  ASSUME NetworkOK, faults = 0 => Repeats(last, entity), NEW on \in BOOLEAN,
         Published(FlagOnly(on)) \/ PublishFails(FlagOnly(on))
  PROVE  /\ last'.flag = IF on THEN "on" ELSE "off"
         /\ Published(FlagOnly(on)) => entity'.flag = last'.flag
         /\ PublishFails(FlagOnly(on)) => entity' = entity
         /\ faults' = 0 => /\ faults = 0 /\ Repeats(last', entity')
                           /\ entity'.flag = last'.flag
                           /\ entity'.start = entity.start
                           /\ entity'.details = entity.details
<1> DEFINE states == FlagOnly(on)
<1>1. /\ states.flag = IF on THEN "on" ELSE "off"
      /\ states.start = Unset /\ states.details = Unset
      /\ states.flag # Unset
  BY UnsetAssumption DEF FlagOnly, NoStates
<1>2. states \in States
  BY PublishedStates
<1> HIDE DEF states
<1>3. last' = Overlay(last, states)
  BY DEF Published, PublishFails, states
<1>4. last'.flag = states.flag
  BY <1>1, <1>3 DEF Overlay
<1>5. CASE Published(states)
  <2>1. entity' = Overlay(entity, states)
    BY <1>5 DEF Published
  <2>2. /\ entity'.flag = states.flag /\ entity'.start = entity.start
        /\ entity'.details = entity.details
    BY <1>1, <2>1 DEF Overlay
  <2>3. Published(states) => entity'.flag = last'.flag
    BY <1>4, <2>2
  <2>4. PublishFails(states) => entity' = entity
    BY DEF PublishFails
  <2>5. faults' = 0 => faults = 0 /\ Repeats(last', entity')
    BY <1>2, <1>5, Repeating
  <2>6. QED
    BY <1>1, <1>4, <2>2, <2>3, <2>4, <2>5 DEF states
<1>6. CASE PublishFails(states) /\ ~Published(states)
  <2>1. entity' = entity
    BY <1>6 DEF PublishFails
  <2>2. faults' # 0
    BY <1>6 DEF PublishFails, Fault, NetworkOK
  <2>3. QED
    BY <1>1, <1>4, <1>6, <2>1, <2>2 DEF states
<1>7. QED
  BY <1>5, <1>6 DEF states

\* The other two states say nothing of the flag.
LEMMA RestPublished ==
  ASSUME NetworkOK, faults = 0 => Repeats(last, entity), NEW states \in States,
         states.flag = Unset, Published(states) \/ PublishFails(states)
  PROVE  /\ last'.flag = last.flag /\ entity'.flag = entity.flag
         /\ faults' = 0 =>
              /\ faults = 0 /\ Repeats(last', entity')
              /\ entity'.start = IF states.start = Unset THEN entity.start
                                 ELSE states.start
              /\ entity'.details = IF states.details = Unset THEN entity.details
                                   ELSE states.details
<1>1. last' = Overlay(last, states) /\ entity' \in {entity, Overlay(entity, states)}
  BY DEF Published, PublishFails
<1>2. last'.flag = last.flag /\ entity'.flag = entity.flag
  BY <1>1 DEF Overlay
<1>3. ASSUME faults' = 0
      PROVE  faults = 0 /\ Repeats(last', entity') /\ entity' = Overlay(entity, states)
  BY <1>3, Repeating DEF Published
<1>4. QED
  BY <1>2, <1>3 DEF Overlay

\* The four parts of the invariant together.
AgreeInv(h) == PendingInv(h) /\ FlagInv(h) /\ ShownInv(h) /\ WithdrawnInv(h)

\* What a reader of SerialInv may use of the types.
LEMMA SerialFacts ==
  ASSUME NEW h \in Handlers, SerialInv(h)
  PROVE  /\ TypeInv /\ JobsOK /\ NetworkOK /\ RestOK /\ AgreeInv(h)
         /\ faults = 0 => Repeats(last, entity)
BY TypeParts DEF SerialInv, AgreeInv, ShownInv

\* Requests, checks, cancel events and switch commands begin where all is settled.
LEMMA BeginningsAgree ==
  ASSUME NEW h \in Handlers, Handlers = {h}, SerialInv(h),
         \/ Request(h)
         \/ CancelEvent(h)
         \/ \E on \in BOOLEAN : SwitchCommand(h, on)
         \/ CheckPendingStart(h)
  PROVE  AgreeInv(h)'
<1>0. JobsOK /\ NetworkOK /\ RestOK /\ AgreeInv(h)
  BY SerialFacts
<1>1. UNCHANGED <<phase, pending, entity, last, faults, crashes>>
  BY DEF Request, CancelEvent, SwitchCommand, CheckPendingStart, network, counters
<1>2. PICK s, a, b : Begin(h, s, a, b)
  BY DEF Request, CancelEvent, SwitchCommand, CheckPendingStart
<1>3. job[h].step = "idle" /\ phase = "up" /\ phase' = phase
  BY <1>0, <1>1, <1>2, AfterBegin
<1>4. CASE Request(h)
  <2>1. promise' = "none" /\ job'[h].step \in {"startNow", "pulseOn"}
    <3>1. ASSUME Begin(h, "startNow", None, "nobody") PROVE job'[h].step = "startNow"
      BY <1>0, <3>1, AfterBegin
    <3>2. ASSUME NEW t, Begin(h, "pulseOn", t, "nobody") PROVE job'[h].step = "pulseOn"
      BY <1>0, <3>2, AfterBegin
    <3>3. QED
      BY <1>4, <3>1, <3>2 DEF Request
  <2>2. QED
    BY <1>0, <1>1, <1>3, <2>1
       DEF AgreeInv, PendingInv, FlagInv, ShownInv, WithdrawnInv, Settled, Saving,
           Clearing, Unmarked
<1>5. ASSUME Begin(h, "drop", None, "user"), promise' = promise PROVE AgreeInv(h)'
  <2>1. job'[h].step = "drop" /\ job'[h].by = "user"
    BY <1>0, <1>5, AfterBegin
  <2>2. QED
    BY <1>0, <1>1, <1>3, <1>5, <2>1
       DEF AgreeInv, PendingInv, FlagInv, ShownInv, WithdrawnInv, Settled, Saving,
           Clearing, Unmarked
<1>6. ASSUME NEW s1 \in {"setOn", "setOff"}, Begin(h, s1, None, "nobody"),
             (s1 = "setOn") <=> (pending # None), promise' = promise
      PROVE  AgreeInv(h)'
  <2>1. job'[h].step = s1
    BY <1>0, <1>6, AfterBegin
  <2>2. QED
    BY <1>0, <1>1, <1>3, <1>6, <2>1
       DEF AgreeInv, PendingInv, FlagInv, ShownInv, WithdrawnInv, Settled, Saving,
           Clearing, Unmarked
<1>7. CASE CancelEvent(h)
  BY <1>5, <1>7 DEF CancelEvent
<1>8. ASSUME NEW on \in BOOLEAN, SwitchCommand(h, on) PROVE AgreeInv(h)'
  <2>1. CASE ~on /\ pending # None
    BY <1>5, <1>8, <2>1 DEF SwitchCommand
  <2>2. CASE ~(~on /\ pending # None)
    BY <1>6, <1>8, <2>2 DEF SwitchCommand
  <2>3. QED
    BY <2>1, <2>2
<1>9. CASE CheckPendingStart(h)
  <2>1. job'[h].step = "readFlag" /\ pending # None /\ promise' = promise
    BY <1>0, <1>9, AfterBegin DEF CheckPendingStart
  <2>2. QED
    BY <1>0, <1>1, <1>3, <2>1
       DEF AgreeInv, PendingInv, FlagInv, ShownInv, WithdrawnInv, Settled, Saving,
           Clearing, Unmarked
<1>10. QED
  BY <1>4, <1>7, <1>8, <1>9

\* The steps of a request.
LEMMA RequestAgrees ==
  ASSUME NEW h \in Handlers, Handlers = {h}, SerialInv(h),
         \/ StartNow(h)
         \/ InitializeModeForScheduled(h)
         \/ StorePending(h)
         \/ SaveSchedule(h)
         \/ SetScheduledFlag(h)
  PROVE  AgreeInv(h)'
<1>0. /\ JobsOK /\ NetworkOK /\ RestOK /\ AgreeInv(h)
      /\ faults = 0 => Repeats(last, entity)
      /\ faults' = 0 => faults = 0
      /\ job[h].step \in Scheduling => job[h].arg \in Nat
  <2>1. faults' \in {faults, faults + 1}
    <3>1. ASSUME NEW states, Published(states) \/ PublishFails(states)
          PROVE  faults' \in {faults, faults + 1}
      BY <3>1 DEF Published, PublishFails, Fault
    <3>2. QED
      BY <3>1 DEF StartNow, InitializeModeForScheduled, Pulse, StorePending,
                  SaveSchedule, SaveStep, SetScheduledFlag, Fault, counters
  <2>2. faults' = 0 => faults = 0
    BY <2>1, SerialFacts DEF NetworkOK
  <2>3. QED
    BY <2>2, SerialFacts DEF JobsOK, ArgsOK
<1>1. CASE StartNow(h) \/ InitializeModeForScheduled(h)
  <2>1. /\ job[h].step \in {"startNow", "pulseOn", "pulseOff"}
        /\ UNCHANGED <<pending, network, promise, crashes>>
        /\ \/ Return(h)
           \/ GoTo(h, "pulseOff") /\ UNCHANGED phase
           \/ GoTo(h, "store") /\ UNCHANGED phase
    BY <1>1 DEF StartNow, InitializeModeForScheduled, Pulse, At
  <2>2. /\ job'[h].step \in {"idle", "pulseOff", "store"}
        /\ phase' \in {phase, "up"}
        /\ phase' = "down" => phase = "down"
    BY <1>0, <2>1, AfterGoTo, AfterReturn
  <2>3. QED
    BY <1>0, <2>1, <2>2
       DEF AgreeInv, PendingInv, FlagInv, ShownInv, WithdrawnInv, Settled, Saving,
           Clearing, Unmarked, network
<1>2. CASE StorePending(h)
  <2>1. /\ job[h].step = "store" /\ job'[h].step = "saveFlag"
        /\ pending' = job'[h].arg /\ pending' # None
        /\ UNCHANGED <<phase, network, promise, crashes>>
    <3>1. job[h].step = "store" /\ GoTo(h, "saveFlag") /\ pending' = job[h].arg
          /\ UNCHANGED <<phase, network, promise, crashes>>
      BY <1>2 DEF StorePending, At, counters
    <3>2. job[h].arg # None
      BY <1>0, <3>1, ModelValues DEF Scheduling
    <3>3. QED
      BY <1>0, <3>1, <3>2, AfterGoTo
  <2>2. QED
    BY <1>0, <2>1
       DEF AgreeInv, PendingInv, FlagInv, ShownInv, WithdrawnInv, Settled, Saving,
           Clearing, Unmarked, network
<1>3. CASE SaveSchedule(h)
  <2>0. /\ UNCHANGED <<pending, crashes>> /\ job[h].step \in Saving
        /\ pending \in Nat /\ pending # None /\ pending = job[h].arg
        /\ promise # "withdrawn"
        /\ crashes = 0 => phase = "up"
        /\ phase # "down"
    <3>1. UNCHANGED <<pending, crashes>> /\ job[h].step \in Saving
      BY <1>3 DEF SaveSchedule, At, Saving
    <3>2. pending = job[h].arg /\ pending # None /\ pending \in Nat
      BY <1>0, <3>1 DEF AgreeInv, PendingInv, RestOK, OptTime
    <3>3. QED
      BY <1>0, <3>1, <3>2, ModelValues
         DEF AgreeInv, FlagInv, PendingInv, WithdrawnInv, Saving
  <2>1. CASE At(h, "saveFlag") /\ SaveStep(h, FlagOnly(TRUE), "saveStart")
    <3>1. /\ last'.flag = "on"
          /\ faults' = 0 => Repeats(last', entity') /\ entity'.flag = "on"
      BY <1>0, <2>1, FlagPublished DEF SaveStep
    <3>2. CASE /\ Published(FlagOnly(TRUE)) /\ GoTo(h, "saveStart")
               /\ UNCHANGED <<phase, promise>>
      <4>1. job'[h].step = "saveStart" /\ job'[h].arg = job[h].arg
        BY <1>0, <3>2, AfterGoTo
      <4>2. QED
        BY <1>0, <2>0, <3>1, <3>2, <4>1
           DEF AgreeInv, PendingInv, FlagInv, ShownInv, WithdrawnInv, Settled, Saving,
               Clearing, Unmarked
    <3>3. CASE PublishFails(FlagOnly(TRUE)) /\ Return(h) /\ UNCHANGED promise
      <4>1. job'[h].step = "idle" /\ phase' = "up" /\ faults' # 0
        BY <1>0, <3>3, AfterReturn DEF PublishFails, Fault, NetworkOK
      <4>2. QED
        BY <1>0, <2>0, <3>1, <3>3, <4>1
           DEF AgreeInv, PendingInv, FlagInv, ShownInv, WithdrawnInv, Settled, Saving,
               Clearing, Unmarked
    <3>4. QED
      BY <2>1, <3>2, <3>3 DEF SaveStep
  <2>2. CASE /\ At(h, "saveStart")
             /\ SaveStep(h, [NoStates EXCEPT !.start = job[h].arg], "saveDetails")
    <3> DEFINE states == [NoStates EXCEPT !.start = job[h].arg]
    <3>0. /\ states \in States /\ states.flag = Unset /\ states.details = Unset
          /\ states.start = pending /\ pending # Unset
      BY <2>0, PublishedStates, ModelValues DEF NoStates
    <3> HIDE DEF states
    <3>1. /\ last'.flag = last.flag
          /\ faults' = 0 => /\ Repeats(last', entity') /\ entity'.flag = entity.flag
                            /\ entity'.start = pending
      BY <1>0, <2>2, <3>0, RestPublished DEF SaveStep, states
    <3>2. CASE /\ Published(states) /\ GoTo(h, "saveDetails")
               /\ UNCHANGED <<phase, promise>>
      <4>1. job'[h].step = "saveDetails" /\ job'[h].arg = job[h].arg
        BY <1>0, <3>2, AfterGoTo
      <4>2. QED
        BY <1>0, <2>0, <2>2, <3>1, <3>2, <4>1
           DEF AgreeInv, PendingInv, FlagInv, ShownInv, WithdrawnInv, Settled, Saving,
               Clearing, Unmarked, At
    <3>3. CASE PublishFails(states) /\ Return(h) /\ UNCHANGED promise
      <4>1. job'[h].step = "idle" /\ phase' = "up" /\ faults' # 0
        BY <1>0, <3>3, AfterReturn DEF PublishFails, Fault, NetworkOK
      <4>2. QED
        BY <1>0, <2>0, <2>2, <3>1, <3>3, <4>1
           DEF AgreeInv, PendingInv, FlagInv, ShownInv, WithdrawnInv, Settled, Saving,
               Clearing, Unmarked, At
    <3>4. QED
      BY <2>2, <3>2, <3>3 DEF SaveStep, states
  <2>3. CASE /\ At(h, "saveDetails")
             /\ \/ Published(Details) /\ promise' = "made"
                \/ PublishFails(Details) /\ UNCHANGED promise
             /\ Return(h)
    <3>0. /\ Details \in States /\ Details.flag = Unset /\ Details.start = Unset
          /\ Details.details = "set"
      BY PublishedStates DEF Details, NoStates
    <3>1. /\ last'.flag = last.flag
          /\ faults' = 0 => /\ Repeats(last', entity') /\ entity'.flag = entity.flag
                            /\ entity'.start = entity.start
                            /\ entity'.details = "set"
      BY <1>0, <2>3, <3>0, RestPublished, UnsetAssumption
    <3>2. job'[h].step = "idle" /\ phase' = "up" /\ promise' # "withdrawn"
      BY <1>0, <2>0, <2>3, AfterReturn
    <3>3. QED
      BY <1>0, <2>0, <2>3, <3>1, <3>2
         DEF AgreeInv, PendingInv, FlagInv, ShownInv, WithdrawnInv, Settled, Saving,
             Clearing, Unmarked, At
  <2>4. QED
    BY <1>3, <2>1, <2>2, <2>3 DEF SaveSchedule
<1>4. CASE SetScheduledFlag(h)
  <2>1. PICK on \in BOOLEAN :
          /\ on <=> At(h, "setOn")
          /\ Published(FlagOnly(on)) \/ PublishFails(FlagOnly(on))
    BY <1>4 DEF SetScheduledFlag, At
  <2>2. /\ last'.flag = IF on THEN "on" ELSE "off"
        /\ entity'.flag \in {entity.flag, last'.flag}
        /\ faults' = 0 => /\ faults = 0 /\ Repeats(last', entity')
                          /\ entity'.flag = last'.flag
                          /\ entity'.start = entity.start
                          /\ entity'.details = entity.details
    BY <1>0, <2>1, FlagPublished
  <2>3. /\ UNCHANGED <<pending, promise, crashes>>
        /\ job'[h].step = "idle" /\ phase' = "up"
        /\ job[h].step \in {"setOn", "setOff"}
        /\ on <=> (job[h].step = "setOn")
    BY <1>0, <1>4, <2>1, AfterReturn DEF SetScheduledFlag, At
  <2>4. QED
    BY <1>0, <2>2, <2>3
       DEF AgreeInv, PendingInv, FlagInv, ShownInv, WithdrawnInv, Settled, Saving,
           Clearing, Unmarked
<1>5. QED
  BY <1>1, <1>2, <1>3, <1>4

\* The steps of a check, of a cancellation and of an expired schedule.
LEMMA CheckAgrees ==
  ASSUME NEW h \in Handlers, Handlers = {h}, SerialInv(h),
         \/ ReadFlag(h)
         \/ Compare(h)
         \/ StartPending(h)
         \/ CancelPending(h)
         \/ ClearSchedule(h)
         \/ Forget(h)
         \/ HandleExpired(h)
  PROVE  AgreeInv(h)'
<1>0. /\ JobsOK /\ NetworkOK /\ RestOK /\ AgreeInv(h)
      /\ faults = 0 => Repeats(last, entity)
  BY SerialFacts
<1>1. CASE ReadFlag(h)
  <2>1. PICK s \in {"compare", "drop"} : GoTo(h, s)
    BY <1>1 DEF ReadFlag
  <2>2. job'[h].step = s
    BY <1>0, <2>1, AfterGoTo
  <2>3. /\ UNCHANGED <<phase, pending, network, promise, crashes>>
        /\ job[h].step = "readFlag"
        /\ faults' = 0 => faults = 0
    BY <1>0, <1>1 DEF ReadFlag, At, Fault, NetworkOK
  <2>4. QED
    BY <1>0, <2>2, <2>3
       DEF AgreeInv, PendingInv, FlagInv, ShownInv, WithdrawnInv, Settled, Saving,
           Clearing, Unmarked, network
<1>2. CASE Compare(h)
  <2>1. job[h].step = "compare" /\ pending # None
    BY <1>0, <1>2 DEF Compare, At, AgreeInv, PendingInv
  <2>2. /\ UNCHANGED <<pending, network, promise, crashes, faults>>
        /\ (GoTo(h, "start") /\ UNCHANGED phase) \/ Return(h)
    BY <1>2, <2>1 DEF Compare, counters
  <2>3. /\ job'[h].step \in {"start", "idle"}
        /\ phase' \in {phase, "up"}
    BY <1>0, <2>2, AfterGoTo, AfterReturn
  <2>4. QED
    BY <1>0, <2>1, <2>2, <2>3
       DEF AgreeInv, PendingInv, FlagInv, ShownInv, WithdrawnInv, Settled, Saving,
           Clearing, Unmarked, network
<1>3. CASE StartPending(h)
  <2>1. /\ job[h].step = "start" /\ UNCHANGED <<pending, network, crashes>>
        /\ promise # "withdrawn" /\ promise' # "withdrawn"
        /\ faults' = 0 => faults = 0
    BY <1>0, <1>3 DEF StartPending, At, Fault, NetworkOK, AgreeInv, WithdrawnInv
  <2>2. \/ job'[h].step = "clearFlag" /\ job'[h].by = "start" /\ phase' = phase
        \/ job'[h].step = "idle" /\ phase' = "up"
    <3>1. CASE Return(h)
      BY <1>0, <3>1, AfterReturn
    <3>2. CASE /\ job' = [job EXCEPT ![h].step = "clearFlag", ![h].by = "start"]
               /\ UNCHANGED phase
      BY <1>0, <3>2 DEF JobsOK, Jobs
    <3>3. QED
      BY <1>3, <3>1, <3>2 DEF StartPending
  <2>3. QED
    BY <1>0, <2>1, <2>2
       DEF AgreeInv, PendingInv, FlagInv, ShownInv, WithdrawnInv, Settled, Saving,
           Clearing, Unmarked, network
<1>4. CASE CancelPending(h)
  <2>1. /\ job[h].step = "drop" /\ pending' = None
        /\ UNCHANGED <<phase, network, faults, crashes>>
        /\ promise' # "withdrawn"
    BY <1>0, <1>4 DEF CancelPending, At, counters, AgreeInv, WithdrawnInv
  <2>2. job'[h].step = "clearFlag" /\ job'[h].by = job[h].by
    BY <1>0, <1>4, AfterGoTo DEF CancelPending
  <2>3. QED
    BY <1>0, <2>1, <2>2
       DEF AgreeInv, PendingInv, FlagInv, ShownInv, WithdrawnInv, Settled, Saving,
           Clearing, Unmarked, network
<1>5. CASE ClearSchedule(h)
  <2>1. /\ UNCHANGED <<pending, crashes>> /\ job[h].step \in Clearing
        /\ promise # "withdrawn" /\ phase # "down"
        /\ job[h].by # "start" => pending = None
    BY <1>0, <1>5
       DEF ClearSchedule, At, Clearing, AgreeInv, WithdrawnInv, PendingInv
  <2>2. ASSUME AfterClear(h)
        PROVE  /\ \/ job'[h].step = "forget" /\ phase' = phase
                  \/ job'[h].step = "idle" /\ phase' = "up" /\ pending = None
               /\ job'[h].step = "forget" => job'[h].by = "start"
               /\ job[h].by # "start" => job'[h].step = "idle"
    BY <1>0, <2>1, <2>2, AfterGoTo, AfterReturn DEF AfterClear
  <2>3. CASE /\ At(h, "clearFlag")
             /\ \/ /\ Published(FlagOnly(FALSE))
                   /\ GoTo(h, "clearRest")
                   /\ UNCHANGED phase
                \/ PublishFails(FlagOnly(FALSE)) /\ AfterClear(h)
             /\ UNCHANGED promise
    <3>1. /\ last'.flag = "off"
          /\ Published(FlagOnly(FALSE)) => entity'.flag = "off"
          /\ faults' = 0 => /\ faults = 0 /\ Repeats(last', entity')
                            /\ entity'.start = entity.start
      BY <1>0, <2>3, FlagPublished
    <3>2. CASE Published(FlagOnly(FALSE)) /\ GoTo(h, "clearRest") /\ UNCHANGED phase
      <4>1. job'[h].step = "clearRest" /\ job'[h].by = job[h].by
        BY <1>0, <3>2, AfterGoTo
      <4>2. QED
        BY <1>0, <2>1, <2>3, <3>1, <3>2, <4>1
           DEF AgreeInv, PendingInv, FlagInv, ShownInv, WithdrawnInv, Settled, Saving,
               Clearing, Unmarked, At
    <3>3. CASE PublishFails(FlagOnly(FALSE)) /\ AfterClear(h)
      BY <1>0, <2>1, <2>2, <2>3, <3>1, <3>3
         DEF AgreeInv, PendingInv, FlagInv, ShownInv, WithdrawnInv, Settled, Saving,
             Clearing, Unmarked, At
    <3>4. QED
      BY <2>3, <3>2, <3>3
  <2>4. CASE /\ At(h, "clearRest")
             /\ Published(Cleared) \/ PublishFails(Cleared)
             /\ promise' = IF job[h].by = "user" THEN "withdrawn" ELSE promise
             /\ AfterClear(h)
    <3>0. Cleared \in States /\ Cleared.flag = Unset
      BY PublishedStates DEF Cleared, NoStates
    <3>1. /\ last'.flag = last.flag /\ entity'.flag = entity.flag
          /\ faults' = 0 => faults = 0 /\ Repeats(last', entity')
      BY <1>0, <2>4, <3>0, RestPublished
    <3>2. Unmarked /\ last.flag # "on" /\ entity.flag # "on"
      BY <1>0, <2>4 DEF At, AgreeInv, WithdrawnInv, Unmarked
    <3>3. promise' = "withdrawn" => job'[h].step = "idle" /\ pending = None
      BY <2>1, <2>4, <2>2
    <3>4. QED
      BY <1>0, <2>1, <2>2, <2>4, <3>1, <3>2, <3>3
         DEF AgreeInv, PendingInv, FlagInv, ShownInv, WithdrawnInv, Settled, Saving,
             Clearing, Unmarked, At
  <2>5. QED
    BY <1>5, <2>3, <2>4 DEF ClearSchedule
<1>6. CASE Forget(h)
  <2>1. /\ job[h].step = "forget" /\ pending' = None
        /\ UNCHANGED <<network, promise, faults, crashes>>
        /\ job'[h].step = "idle" /\ phase' = "up"
    BY <1>0, <1>6, AfterReturn DEF Forget, At, counters
  <2>2. QED
    BY <1>0, <2>1
       DEF AgreeInv, PendingInv, FlagInv, ShownInv, WithdrawnInv, Settled, Saving,
           Clearing, Unmarked, network
<1>7. CASE HandleExpired(h)
  <2>1. /\ job[h].step = "ensure" /\ job'[h].step = "clearFlag"
        /\ UNCHANGED <<phase, pending, network, crashes>>
        /\ promise # "withdrawn" /\ promise' # "withdrawn"
        /\ faults' = 0 => faults = 0
    <3>1. job'[h].step = "clearFlag"
      BY <1>0, <1>7, AfterGoTo DEF HandleExpired
    <3>2. QED
      BY <1>0, <1>7, <3>1
         DEF HandleExpired, At, Fault, NetworkOK, AgreeInv, WithdrawnInv
  <2>2. QED
    BY <1>0, <2>1
       DEF AgreeInv, PendingInv, FlagInv, ShownInv, WithdrawnInv, Settled, Saving,
           Clearing, Unmarked, network
<1>8. QED
  BY <1>1, <1>2, <1>3, <1>4, <1>5, <1>6, <1>7

\* The clock, the network, a crash, the socket and a restart.
LEMMA EnvironmentAgrees ==
  ASSUME NEW h \in Handlers, Handlers = {h}, SerialInv(h),
         \/ Clock \/ Drop \/ Reconnect \/ HandleReconnect \/ Crash \/ SwitchOff
         \/ RestoreSchedule(h)
  PROVE  AgreeInv(h)'
<1>0. /\ JobsOK /\ NetworkOK /\ RestOK /\ AgreeInv(h)
      /\ faults = 0 => Repeats(last, entity)
  BY SerialFacts
<1>1. CASE Clock \/ Drop \/ Reconnect \/ SwitchOff
  <2>1. UNCHANGED <<phase, pending, job, entity, last, promise, faults, crashes>>
    BY <1>1 DEF Clock, Drop, Reconnect, SwitchOff, network, counters
  <2>2. QED
    BY <1>0, <2>1
       DEF AgreeInv, PendingInv, FlagInv, ShownInv, WithdrawnInv, Unmarked
<1>2. CASE HandleReconnect
  <2>1. /\ UNCHANGED <<phase, pending, job, last, promise, faults, crashes>>
        /\ entity' = Overlay(entity, last)
    BY <1>2 DEF HandleReconnect, counters
  <2>2. entity'.flag \in {entity.flag, last.flag}
    BY <2>1 DEF Overlay
  <2>3. faults = 0 => /\ entity'.flag = entity.flag /\ entity'.start = entity.start
                      /\ entity'.details = entity.details
    BY <1>0, <2>1 DEF Overlay, Repeats
  <2>4. QED
    BY <1>0, <2>1, <2>2, <2>3
       DEF AgreeInv, PendingInv, FlagInv, ShownInv, WithdrawnInv, Unmarked, Repeats
<1>3. CASE Crash
  <2>1. /\ phase' = "down" /\ pending' = None /\ crashes' # 0
        /\ job'[h].step = "idle" /\ UNCHANGED <<entity, promise, faults>>
        /\ last' = NoStates
    BY <1>0, <1>3 DEF Crash, Die, Idle, RestOK
  <2>2. last'.flag = Unset /\ last'.start = Unset /\ last'.details = Unset
    BY <2>1 DEF NoStates
  <2>3. QED
    BY <1>0, <2>1, <2>2, UnsetAssumption
       DEF AgreeInv, PendingInv, FlagInv, ShownInv, WithdrawnInv, Unmarked, Repeats,
           Settled, Saving, Clearing
<1>4. CASE RestoreSchedule(h)
  <2>1. /\ phase = "down" /\ pending = None /\ job[h].step = "idle" /\ crashes # 0
        /\ UNCHANGED <<network, promise, crashes>>
    BY <1>0, <1>4 DEF RestoreSchedule, AgreeInv, PendingInv, FlagInv
  <2>2. CASE /\ Flag = "on"
             /\ job' = [job EXCEPT ![h].step = "ensure"]
             /\ phase' = "starting"
             /\ UNCHANGED <<pending, faults>>
    <3>1. job'[h].step = "ensure" /\ entity.flag = "on"
      BY <1>0, <2>2 DEF JobsOK, Jobs, Flag
    <3>2. QED
      BY <1>0, <2>1, <2>2, <3>1
         DEF AgreeInv, PendingInv, FlagInv, ShownInv, WithdrawnInv, Unmarked, Settled,
             Saving, Clearing, network
  <2>3. CASE /\ Flag = "on" /\ CanRestore
             /\ phase' = "up"
             /\ pending' = entity.start
             /\ UNCHANGED <<job, faults>>
    <3>1. entity.flag = "on" /\ entity.details = "set"
      BY <1>0, <2>3 DEF Flag, CanRestore, NetworkOK, States
    <3>2. QED
      BY <1>0, <2>1, <2>3, <3>1
         DEF AgreeInv, PendingInv, FlagInv, ShownInv, WithdrawnInv, Unmarked, Settled,
             Saving, Clearing, network
  <2>4. CASE /\ phase' = "up" /\ UNCHANGED <<pending, job>>
             /\ faults' = 0 => faults = 0
    BY <1>0, <2>1, <2>4
       DEF AgreeInv, PendingInv, FlagInv, ShownInv, WithdrawnInv, Unmarked, Settled,
           Saving, Clearing, network
  <2>5. QED
    BY <1>0, <1>4, <2>2, <2>3, <2>4 DEF RestoreSchedule, Fault, NetworkOK
<1>5. QED
  BY <1>1, <1>2, <1>3, <1>4

\* SerialInv is inductive where handlers do not overlap.
LEMMA SerialInvariant ==
  ASSUME NEW h, Handlers = {h}
  PROVE  Spec => []SerialInv(h)
<1>0. h \in Handlers
  OBVIOUS
<1>1. Init => SerialInv(h)
  <2> SUFFICES ASSUME Init PROVE SerialInv(h)
    OBVIOUS
  <2>1. /\ phase = "up" /\ pending = None /\ job[h].step = "idle"
        /\ entity = NoStates /\ last = NoStates /\ promise = "none"
    BY <1>0 DEF Init, Idle
  <2>2. /\ entity.flag = Unset /\ entity.start = Unset /\ entity.details = Unset
        /\ last.flag = Unset /\ last.start = Unset /\ last.details = Unset
    BY <2>1 DEF NoStates
  <2>3. AgreeInv(h)
    BY <2>1, <2>2, UnsetAssumption
       DEF AgreeInv, PendingInv, FlagInv, ShownInv, WithdrawnInv, Repeats, Settled,
           Saving, Clearing
  <2>4. QED
    BY <2>3, InitType DEF SerialInv, AgreeInv
<1>2. SerialInv(h) /\ TypeInv' /\ [Next]_vars => SerialInv(h)'
  <2> SUFFICES ASSUME SerialInv(h), TypeInv', [Next]_vars PROVE SerialInv(h)'
    OBVIOUS
  <2>1. CASE Next
    <3>1. ASSUME Work(h) PROVE AgreeInv(h)'
      BY <1>0, <3>1, RequestAgrees, CheckAgrees DEF Work
    <3>2. ASSUME RestoreSchedule(h) PROVE AgreeInv(h)'
      BY <1>0, <3>2, EnvironmentAgrees
    <3>3. ASSUME \/ Request(h) \/ CancelEvent(h) \/ CheckPendingStart(h)
                 \/ \E on \in BOOLEAN : SwitchCommand(h, on)
          PROVE  AgreeInv(h)'
      BY <1>0, <3>3, BeginningsAgree
    <3>4. AgreeInv(h)'
      BY <1>0, <2>1, <3>1, <3>2, <3>3, EnvironmentAgrees DEF Next
    <3>5. QED
      BY <3>4 DEF SerialInv, AgreeInv
  <2>2. CASE UNCHANGED vars
    <3>1. UNCHANGED <<phase, pending, job, entity, last, promise, faults, crashes>>
      BY <2>2 DEF vars, network, counters
    <3>2. QED
      BY <3>1
         DEF SerialInv, PendingInv, FlagInv, ShownInv, WithdrawnInv, Unmarked
  <2>3. QED
    BY <2>1, <2>2
<1>3. QED
  BY <1>1, <1>2, TypeInvariant, PTL DEF Spec

\* What SerialInv says of a handler that is idle.
LEMMA SerialPromises ==
  ASSUME NEW h \in Handlers, SerialInv(h)
  PROVE  StatesFollowMemory /\ CancelSticks
<1> SUFFICES ASSUME Quiescent PROVE StatesFollowMemory /\ CancelSticks
  BY DEF StatesFollowMemory, CancelSticks
<1>1. job[h].step = "idle" /\ AgreeInv(h) /\ NetworkOK
  BY SerialFacts DEF Quiescent, Idle
<1>2. CancelSticks
  BY <1>1 DEF AgreeInv, WithdrawnInv, Unmarked, CancelSticks, Quiet
<1>3. ASSUME faults = 0, pending # None
      PROVE  entity = [flag |-> "on", start |-> pending, details |-> "set"]
  <2>1. entity.flag = "on" /\ entity.start = pending /\ entity.details = "set"
    BY <1>1, <1>3 DEF AgreeInv, ShownInv, Settled
  <2>2. QED
    BY <1>1, <2>1 DEF NetworkOK, States
<1>4. crashes = 0 => ((pending # None) <=> (last.flag = "on"))
  BY <1>1 DEF AgreeInv, FlagInv, Settled
<1>5. QED
  BY <1>2, <1>3, <1>4 DEF StatesFollowMemory

\* StatesFollowMemory: with one handler at a time, what a reconnect republishes agrees
\* with the schedule in memory until the first crash, and what is pending is shown in
\* full, to be restored after a crash, until the first failure.
THEOREM MemoryIsShown ==
  ASSUME NEW h, Handlers = {h}
  PROVE  Spec => []StatesFollowMemory
<1>1. h \in Handlers
  OBVIOUS
<1>2. SerialInv(h) => StatesFollowMemory
  BY <1>1, SerialPromises
<1>3. QED
  BY <1>2, SerialInvariant, PTL

\* CancelSticks: with one handler at a time, a withdrawal that came to its end has left
\* nothing behind that could start the machine, whatever failed, dropped or crashed.
THEOREM WithdrawalSticks ==
  ASSUME NEW h, Handlers = {h}
  PROVE  Spec => []CancelSticks
<1>1. h \in Handlers
  OBVIOUS
<1>2. SerialInv(h) => CancelSticks
  BY <1>1, SerialPromises
<1>3. QED
  BY <1>2, SerialInvariant, PTL
===============================================================================
