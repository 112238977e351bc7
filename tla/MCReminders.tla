----------------------------- MODULE MCReminders ------------------------------
(***************************************************************************)
(* Small instances of Reminders for TLC.  The presets keep the shape of    *)
(* the profiles in short delays: quiet waits longer for its second repeat  *)
(* than for its first and stops at a limit, normal repeats evenly, and     *)
(* annoying decreases to its floor.                                        *)
(***************************************************************************)
EXTENDS Reminders

CONSTANTS Alice, Bob

MCPreset ==
  [quiet |-> [initialDelay |-> 1, repeatInterval |-> 2, decreaseStep |-> 0,
              minInterval |-> 0, maxRepeats |-> 3],
   normal |-> [initialDelay |-> 1, repeatInterval |-> 1, decreaseStep |-> 0,
               minInterval |-> 0, maxRepeats |-> 0],
   annoying |-> [initialDelay |-> 1, repeatInterval |-> 2, decreaseStep |-> 1,
                 minInterval |-> 1, maxRepeats |-> 0]]

\* The limit is reached within few ticks.
MCShortPreset == [MCPreset EXCEPT !.quiet.repeatInterval = 1, !.quiet.maxRepeats = 2]

Once(targets, trigger, profile) ==
  [targets |-> targets, triggerAt |-> trigger, recurEvery |-> Never,
   validUntil |-> Never, requiresAck |-> TRUE, profile |-> profile,
   message |-> "text"]

FireAndForget(trigger) == [Once({Alice}, trigger, "") EXCEPT !.requiresAck = FALSE]

Poison(trigger) == [Once({Alice}, trigger, "normal") EXCEPT !.message = ""]

\* Overlapping ticks: one escalating reminder for two users with a limited
\* profile, one to be fired once, one with a message the notifier refuses, and one
\* that is rejected for want of targets.
MCRaceCommands ==
  {Once({Alice, Bob}, 1, "quiet"), FireAndForget(0), Poison(0), Once({}, 0, "normal")}

\* One tick at a time: a reminder that escalates and one that recurs and expires.
MCSerialCommands ==
  {Once({Alice}, 0, "annoying"),
   [Once({Alice}, 1, "normal") EXCEPT !.recurEvery = 2, !.validUntil = 3]}

\* A message the notifier refuses beside one it takes.
MCPoisonCommands ==
  {Poison(0), Once({Alice}, 0, "normal")}
===============================================================================
