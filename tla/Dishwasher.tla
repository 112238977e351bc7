------------------------------ MODULE Dishwasher -------------------------------
(***************************************************************************)
(* The delayed start of the dishwasher: the component of                   *)
(* internal/domain/devices/dishwasher with the state manager, the socket   *)
(* controller and the dashboard switch of                                  *)
(* internal/tech/homeassistant/devices/dishwasher.                         *)
(*                                                                         *)
(* A schedule lives twice: as the pointer pendingSchedule, which has no    *)
(* mutex, and as the states of Home Assistant entities, which outlive the  *)
(* process.  A schedule request, a cancel event, a command of the          *)
(* dashboard switch and the check of every five minutes each run on a      *)
(* goroutine of their own.  A step below is one publish, one service call, *)
(* one read of Home Assistant or one access to the pointer.                *)
(*                                                                         *)
(* A publish waits while the MQTT connection is down.  Home Assistant then *)
(* shows every entity as unavailable, by the client's last will, until     *)
(* Runtime.handleReconnect has published "online" and the last states.     *)
(***************************************************************************)
EXTENDS Naturals

CONSTANTS
  Handlers,     \* goroutines that may be at work at the same time
  None,         \* no pending schedule (nil)
  Unset,        \* an entity state that was never published
  Blank,        \* the empty start time of a cleared schedule
  MaxTime,      \* bound: the clock stops here
  MaxCommands,  \* bound: requests, cancel events and switch commands
  MaxFaults,    \* bound: failed calls and reads
  MaxDrops,     \* bound: lost MQTT connections
  MaxCrashes    \* bound: crashes or restarts of the process

ASSUME ModelValues ==
  None \notin Nat /\ Unset \notin Nat /\ Blank \notin Nat /\ Blank # Unset
ASSUME UnsetAssumption == Unset \notin {"on", "off", "set"}
ASSUME BoundAssumption == MaxTime \in Nat

VARIABLES
  now,        \* the time, in units of at least one check interval
  phase,      \* the process: "down", "starting", "up"
  pending,    \* pendingSchedule: its start time, or None
  job,        \* what each handler is about to do
  entity,     \* the states retained by the broker: flag, start, details
  last,       \* Runtime's lastState of each, republished on reconnect
  connected,  \* the MQTT connection
  available,  \* Home Assistant shows the entities as available
  socket,     \* the socket of the dishwasher is on
  promise,    \* history: what became of the last saved schedule
  commands, faults, drops, crashes   \* counters for the bounds

counters == <<commands, faults, drops, crashes>>
network == <<entity, last, connected, available>>
vars == <<now, phase, pending, job, network, socket, promise, counters>>

Steps == {"idle", "startNow", "pulseOn", "pulseOff", "store", "saveFlag", "saveStart",
          "saveDetails", "readFlag", "compare", "start", "drop", "clearFlag",
          "clearRest", "forget", "ensure", "setOn", "setOff"}

\* arg: the start time a request has chosen.
\* by: on whose behalf the schedule is cleared.
Idle == [step |-> "idle", arg |-> None, by |-> "nobody"]
Quiescent == \A h \in Handlers : job[h] = Idle

At(h, step) == job[h].step = step
GoTo(h, step) == job' = [job EXCEPT ![h].step = step]
\* A handler returns; the one that dealt with an expired schedule was New.
Return(h) == job' = [job EXCEPT ![h] = Idle] /\ phase' = "up"

Begin(h, step, arg, by) ==
  /\ phase = "up"
  /\ job[h] = Idle
  /\ job' = [job EXCEPT ![h] = [step |-> step, arg |-> arg, by |-> by]]

\* Something the user sends.
Command ==
  /\ commands < MaxCommands
  /\ commands' = commands + 1

Fault ==
  /\ faults < MaxFaults
  /\ faults' = faults + 1

-------------------------------------------------------------------------------
(* The entities of the runtime, as the state manager uses them.            *)

\* NewStateManager declares the entities and sets no state of them.
NoStates == [flag |-> Unset, start |-> Unset, details |-> Unset]
FlagOnly(on) == [NoStates EXCEPT !.flag = IF on THEN "on" ELSE "off"]

\* The states after those that are set in new have been published over old.
Overlay(old, new) ==
  [flag |-> IF new.flag = Unset THEN old.flag ELSE new.flag,
   start |-> IF new.start = Unset THEN old.start ELSE new.start,
   details |-> IF new.details = Unset THEN old.details ELSE new.details]

\* Runtime.setState keeps the state before it publishes it.
Published(states) ==
  /\ connected
  /\ entity' = Overlay(entity, states)
  /\ last' = Overlay(last, states)
  /\ UNCHANGED <<connected, available, faults>>

PublishFails(states) ==
  /\ Fault
  /\ last' = Overlay(last, states)
  /\ UNCHANGED <<entity, connected, available>>

\* What Home Assistant says of the switch.
Flag == IF available THEN entity.flag ELSE "unavailable"

Cleared == [NoStates EXCEPT !.start = Blank, !.details = "set"]
Details == [NoStates EXCEPT !.details = "set"]

-------------------------------------------------------------------------------
(* handleScheduleRequest.  Prices and the optimizer are a choice of the    *)
(* start time; a delay of less than five minutes counts as none.           *)

Request(h) ==
  /\ Command
  /\ promise' = "none"
  /\ \/ Begin(h, "startNow", None, "nobody")
     \/ \E s \in now + 1 .. MaxTime : Begin(h, "pulseOn", s, "nobody")
  /\ UNCHANGED <<now, phase, pending, network, socket, faults, drops, crashes>>

\* No price data, or not enough savings: start at once.
StartNow(h) ==
  /\ At(h, "startNow")
  /\ \/ socket' = TRUE /\ UNCHANGED faults
     \/ Fault /\ UNCHANGED socket
  /\ Return(h)
  /\ UNCHANGED <<now, pending, network, promise, commands, drops, crashes>>

\* InitializeModeForScheduled: on, five seconds, off.
Pulse(h, on, next) ==
  \/ /\ socket' = on
     /\ GoTo(h, next)
     /\ UNCHANGED <<phase, faults>>
  \/ /\ Fault
     /\ Return(h)
     /\ UNCHANGED socket

InitializeModeForScheduled(h) ==
  /\ \/ At(h, "pulseOn") /\ Pulse(h, TRUE, "pulseOff")
     \/ At(h, "pulseOff") /\ Pulse(h, FALSE, "store")
  /\ UNCHANGED <<now, pending, network, promise, commands, drops, crashes>>

StorePending(h) ==
  /\ At(h, "store")
  /\ pending' = job[h].arg
  /\ GoTo(h, "saveFlag")
  /\ UNCHANGED <<now, phase, network, socket, promise, counters>>

\* SaveSchedule returns at the first state it cannot set; its error is logged.
SaveStep(h, states, next) ==
  \/ Published(states) /\ GoTo(h, next) /\ UNCHANGED <<phase, promise>>
  \/ PublishFails(states) /\ Return(h) /\ UNCHANGED promise

SaveSchedule(h) ==
  /\ \/ At(h, "saveFlag") /\ SaveStep(h, FlagOnly(TRUE), "saveStart")
     \/ At(h, "saveStart") /\ SaveStep(h, [NoStates EXCEPT !.start = job[h].arg],
                                         "saveDetails")
     \/ /\ At(h, "saveDetails")
        /\ \/ Published(Details) /\ promise' = "made"
           \/ PublishFails(Details) /\ UNCHANGED promise
        /\ Return(h)
  /\ UNCHANGED <<now, pending, socket, commands, drops, crashes>>

-------------------------------------------------------------------------------
(* checkPendingStart.                                                      *)

CheckPendingStart(h) ==
  /\ pending # None
  /\ Begin(h, "readFlag", None, "check")
  /\ UNCHANGED <<now, phase, pending, network, socket, promise, counters>>

\* IsScheduleCancelled: any state but "on"; after an error the check goes on.
ReadFlag(h) ==
  /\ At(h, "readFlag")
  /\ \/ /\ GoTo(h, IF Flag = "on" THEN "compare" ELSE "drop")
        /\ UNCHANGED faults
     \/ GoTo(h, "compare") /\ Fault
  /\ UNCHANGED <<now, phase, pending, network, socket, promise, commands, drops,
                 crashes>>

\* The process is gone, and with it all that was in memory.  The last will makes the
\* entities unavailable, unless it was stopped in an orderly way.
Die ==
  /\ phase' = "down"
  /\ pending' = None
  /\ job' = [h \in Handlers |-> Idle]
  /\ last' = NoStates
  /\ connected' = FALSE
  /\ available' \in {available, FALSE}
  /\ UNCHANGED entity

\* pendingSchedule is read again: nil by now, it is a nil pointer dereference.
Compare(h) ==
  /\ At(h, "compare")
  /\ IF pending = None THEN Die
     ELSE /\ IF now >= pending
             THEN GoTo(h, "start") /\ UNCHANGED phase
             ELSE Return(h)
          /\ UNCHANGED <<pending, network>>
  /\ UNCHANGED <<now, socket, promise, counters>>

\* Mutant of StartPending: a start that fails is given up.
StartPendingOnce(h) ==
  /\ At(h, "start")
  /\ \/ /\ socket' = TRUE
        /\ promise' = IF promise = "made" THEN "started" ELSE promise
        /\ UNCHANGED faults
     \/ Fault /\ UNCHANGED <<socket, promise>>
  /\ job' = [job EXCEPT ![h].step = "clearFlag", ![h].by = "start"]
  /\ UNCHANGED <<now, phase, pending, network, commands, drops, crashes>>

\* A start that fails is tried again by the next check.
StartPending(h) ==
  /\ At(h, "start")
  /\ \/ /\ socket' = TRUE
        /\ promise' = IF promise = "made" THEN "started" ELSE promise
        /\ job' = [job EXCEPT ![h].step = "clearFlag", ![h].by = "start"]
        /\ UNCHANGED <<phase, faults>>
     \/ Fault /\ Return(h) /\ UNCHANGED <<socket, promise>>
  /\ UNCHANGED <<now, pending, network, commands, drops, crashes>>

-------------------------------------------------------------------------------
(* Cancelling, and the dashboard switch.                                   *)

CancelEvent(h) ==
  /\ Command
  /\ Begin(h, "drop", None, "user")
  /\ UNCHANGED <<now, phase, pending, network, socket, promise, faults, drops, crashes>>

\* Mutant of SwitchCommand: the check is left to find the switch off.
SwitchCommandSets(h, on) ==
  /\ Command
  /\ connected
  /\ Begin(h, IF on /\ pending # None THEN "setOn" ELSE "setOff", None, "nobody")
  /\ UNCHANGED <<now, phase, pending, network, socket, promise, faults, drops, crashes>>

\* OnScheduledCommand: "off" cancels what is pending, anything else sets the switch
\* back to what is the case.
SwitchCommand(h, on) ==
  /\ Command
  /\ connected
  /\ IF ~on /\ pending # None
     THEN Begin(h, "drop", None, "user")
     ELSE Begin(h, IF on /\ pending # None THEN "setOn" ELSE "setOff", None, "nobody")
  /\ UNCHANGED <<now, phase, pending, network, socket, promise, faults, drops, crashes>>

SetScheduledFlag(h) ==
  /\ At(h, "setOn") \/ At(h, "setOff")
  /\ LET flag == FlagOnly(At(h, "setOn")) IN Published(flag) \/ PublishFails(flag)
  /\ Return(h)
  /\ UNCHANGED <<now, pending, socket, promise, commands, drops, crashes>>

\* Mutant of CancelPending: nothing to cancel, nothing to clear.
CancelPendingOnly(h) ==
  /\ At(h, "drop")
  /\ pending' = None
  /\ IF pending = None THEN Return(h) ELSE GoTo(h, "clearFlag") /\ UNCHANGED phase
  /\ promise' = IF job[h].by = "user" THEN "withdrawn" ELSE promise
  /\ UNCHANGED <<now, network, socket, counters>>

\* cancelPendingSchedule clears the entities also when nothing is pending.
CancelPending(h) ==
  /\ At(h, "drop")
  /\ pending' = None
  /\ GoTo(h, "clearFlag")
  /\ promise' = IF job[h].by = "user" THEN "withdrawing" ELSE promise
  /\ UNCHANGED <<now, phase, network, socket, counters>>

\* After ClearSchedule the check that started the machine forgets the schedule that
\* is pending by now; everyone else returns.
AfterClear(h) ==
  IF job[h].by = "start"
  THEN GoTo(h, "forget") /\ UNCHANGED phase
  ELSE Return(h)

\* ClearSchedule returns if it cannot clear the flag; all other errors are warnings.
ClearSchedule(h) ==
  /\ \/ /\ At(h, "clearFlag")
        /\ \/ /\ Published(FlagOnly(FALSE))
              /\ GoTo(h, "clearRest")
              /\ UNCHANGED phase
           \/ PublishFails(FlagOnly(FALSE)) /\ AfterClear(h)
        /\ UNCHANGED promise
     \/ /\ At(h, "clearRest")
        /\ Published(Cleared) \/ PublishFails(Cleared)
        /\ promise' = IF job[h].by = "user" THEN "withdrawn" ELSE promise
        /\ AfterClear(h)
  /\ UNCHANGED <<now, pending, socket, commands, drops, crashes>>

Forget(h) ==
  /\ At(h, "forget")
  /\ pending' = None
  /\ Return(h)
  /\ UNCHANGED <<now, network, socket, promise, counters>>

-------------------------------------------------------------------------------
(* The connection, the process and its restart.                            *)

Clock ==
  /\ now < MaxTime
  /\ now' = now + 1
  /\ UNCHANGED <<phase, pending, job, network, socket, promise, counters>>

Drop ==
  /\ drops < MaxDrops
  /\ connected
  /\ connected' = FALSE
  /\ available' = FALSE
  /\ drops' = drops + 1
  /\ UNCHANGED <<now, phase, pending, job, entity, last, socket, promise, commands,
                 faults, crashes>>

Reconnect ==
  /\ ~connected
  /\ connected' = TRUE
  /\ UNCHANGED <<now, phase, pending, job, entity, last, available, socket, promise,
                 counters>>

\* handleReconnect, a goroutine of its own, publishes "online" and every last state.
HandleReconnect ==
  /\ connected
  /\ ~available
  /\ available' = TRUE
  /\ entity' = Overlay(entity, last)
  /\ UNCHANGED <<now, phase, pending, job, last, connected, socket, promise, counters>>

Crash ==
  /\ crashes < MaxCrashes
  /\ phase # "down"
  /\ crashes' = crashes + 1
  /\ Die
  /\ UNCHANGED <<now, socket, promise, commands, faults, drops>>

\* The person at the machine switches the socket off when a cycle is over.
SwitchOff ==
  /\ socket
  /\ Quiescent
  /\ socket' = FALSE
  /\ UNCHANGED <<now, phase, pending, job, network, promise, counters>>

CanRestore == entity.start \in Nat /\ entity.details # Unset

\* Mutants of RestoreSchedule: the flag is not asked; the start time is not parsed.
RestoreScheduleUnflagged(h) ==
  /\ phase = "down"
  /\ connected
  /\ pending' = IF CanRestore THEN entity.start ELSE None
  /\ phase' = "up"
  /\ UNCHANGED <<now, job, network, socket, promise, counters>>

RestoreScheduleUnparsed(h) ==
  /\ phase = "down"
  /\ connected
  /\ pending' = IF Flag = "on" THEN entity.start ELSE None
  /\ phase' = "up"
  /\ UNCHANGED <<now, job, network, socket, promise, counters>>

\* New, after NewRuntime has connected: nothing else of the component runs yet.  A
\* read that fails is logged, and nothing is pending.
RestoreSchedule(h) ==
  /\ phase = "down"
  /\ connected
  /\ \/ /\ Flag = "on" /\ CanRestore /\ entity.start < now
        /\ phase' = "starting"
        /\ job' = [job EXCEPT ![h].step = "ensure"]
        /\ UNCHANGED <<pending, faults>>
     \/ /\ Flag = "on" /\ CanRestore /\ entity.start >= now
        /\ phase' = "up"
        /\ pending' = entity.start
        /\ UNCHANGED <<job, faults>>
     \/ /\ ~(Flag = "on" /\ CanRestore)
        /\ phase' = "up"
        /\ UNCHANGED <<pending, job, faults>>
     \/ /\ Fault
        /\ phase' = "up"
        /\ UNCHANGED <<pending, job>>
  /\ UNCHANGED <<now, network, socket, promise, commands, drops, crashes>>

\* handleExpiredSchedule starts the machine unless the socket is on, or cannot be read.
HandleExpired(h) ==
  /\ At(h, "ensure")
  /\ \/ socket' = TRUE /\ UNCHANGED faults
     \/ Fault /\ UNCHANGED socket
  /\ promise' = IF socket' /\ promise = "made" THEN "started" ELSE promise
  /\ GoTo(h, "clearFlag")
  /\ UNCHANGED <<now, phase, pending, network, commands, drops, crashes>>

-------------------------------------------------------------------------------
Init ==
  /\ now = 0
  /\ phase = "up"
  /\ pending = None
  /\ job = [h \in Handlers |-> Idle]
  /\ entity = NoStates
  /\ last = NoStates
  /\ connected = TRUE
  /\ available = TRUE
  /\ socket = FALSE
  /\ promise = "none"
  /\ commands = 0 /\ faults = 0 /\ drops = 0 /\ crashes = 0

\* A handler that has begun goes on.
Work(h) ==
  \/ StartNow(h)
  \/ InitializeModeForScheduled(h)
  \/ StorePending(h)
  \/ SaveSchedule(h)
  \/ ReadFlag(h)
  \/ Compare(h)
  \/ StartPending(h)
  \/ CancelPending(h)
  \/ ClearSchedule(h)
  \/ Forget(h)
  \/ SetScheduledFlag(h)
  \/ HandleExpired(h)

Next ==
  \/ Clock
  \/ Drop
  \/ Reconnect
  \/ HandleReconnect
  \/ Crash
  \/ SwitchOff
  \/ \E h \in Handlers :
       \/ RestoreSchedule(h)
       \/ Request(h)
       \/ CancelEvent(h)
       \/ \E on \in BOOLEAN : SwitchCommand(h, on)
       \/ CheckPendingStart(h)
       \/ Work(h)

Spec == Init /\ [][Next]_vars

\* Time passes, the interval scheduler checks every five minutes, goroutines run, the
\* MQTT client reconnects and the process is restarted; no user has to do anything.
Fairness ==
  /\ WF_vars(Clock)
  /\ WF_vars(Reconnect)
  /\ WF_vars(HandleReconnect)
  /\ WF_vars(\E h \in Handlers : RestoreSchedule(h))
  /\ WF_vars(\E h \in Handlers : CheckPendingStart(h))
  /\ \A h \in Handlers : WF_vars(Work(h))

FairSpec == Spec /\ Fairness

-------------------------------------------------------------------------------
(* Properties.                                                             *)

OptTime == Nat \union {None}

Jobs ==
  [step : Steps, arg : OptTime, by : {"nobody", "user", "check", "start"}]

States ==
  [flag : {Unset, "on", "off"}, start : Nat \union {Unset, Blank},
   details : {Unset, "set"}]

\* The type of every variable.
TypeOK ==
  /\ now \in Nat /\ phase \in {"down", "starting", "up"}
  /\ pending \in OptTime
  /\ job \in [Handlers -> Jobs]
  /\ entity \in States /\ last \in States
  /\ connected \in BOOLEAN /\ available \in BOOLEAN /\ socket \in BOOLEAN
  /\ promise \in {"none", "made", "started", "withdrawing", "withdrawn"}
  /\ commands \in Nat /\ faults \in Nat /\ drops \in Nat /\ crashes \in Nat

\* Nothing is pending, nobody is at work, and neither the dashboard nor what a
\* reconnect would republish says that something is scheduled.
Quiet ==
  pending = None /\ Quiescent /\ entity.flag # "on" /\ last.flag # "on"

\* From there the machine does not start, and no schedule appears, before somebody
\* asks for one: not after a reconnect, a crash or a restart either, whatever handlers
\* overlapped and whatever failed before (ClearSchedule, RestoreSchedule).
QuietIsFinal ==
  [][(Quiet /\ commands' = commands) => (Quiet' /\ (socket' => socket))]_vars

\* A cancellation that came to its end leaves nothing behind that could start the
\* machine: one handler at a time, also across crashes (cancelPendingSchedule).
CancelSticks == (promise = "withdrawn" /\ Quiescent) => Quiet

\* As long as the process lives and handlers do not overlap, what is shown after the
\* next reconnect agrees with the schedule in memory, also when publishes failed; and if
\* none failed, what is pending could be restored after a crash at this moment
\* (SaveSchedule, RestoreSchedule).
StatesFollowMemory ==
  Quiescent =>
    /\ crashes = 0 => ((pending # None) <=> (last.flag = "on"))
    /\ faults = 0 /\ pending # None =>
         entity = [flag |-> "on", start |-> pending, details |-> "set"]

\* A schedule that was saved is started, unless the user withdraws or replaces it: a
\* start that fails is tried again.  Lost connections and crashes are excepted, for
\* then the check, or New, may find the switch unavailable.
PromiseKept ==
  (promise = "made") ~> (promise # "made" \/ drops > 0 \/ crashes > 0)

\* "Check if user manually cancelled the schedule" (checkPendingStart): the check
\* cancels a saved schedule only when the user has withdrawn it.
CheckCancelsForUser ==
  [][\A h \in Handlers :
       (At(h, "readFlag") /\ job'[h].step = "drop") => promise # "made"]_vars
===============================================================================
