------------------------------ MODULE Escalation ------------------------------
(***************************************************************************)
(* The escalation profiles of internal/domain/reminders/policy.go and the  *)
(* delay they impose between two firings of a reminder that waits for an   *)
(* acknowledgement (lifecycle.go, repeatDelay).  Durations are naturals in *)
(* one unit; the presets below are in minutes, as in the source.           *)
(***************************************************************************)
EXTENDS Integers

ProfileNames == {"quiet", "normal", "annoying"}

\* policy.go, EscalationPolicy.  maxRepeats = 0 means unlimited.
EscalationPolicy ==
  [initialDelay : Nat, repeatInterval : Nat, decreaseStep : Nat,
   minInterval : Nat, maxRepeats : Nat]

\* The three presets, in minutes.
EscalationQuiet ==
  [initialDelay |-> 30, repeatInterval |-> 60, decreaseStep |-> 0,
   minInterval |-> 0, maxRepeats |-> 3]

EscalationNormal ==
  [initialDelay |-> 15, repeatInterval |-> 15, decreaseStep |-> 0,
   minInterval |-> 0, maxRepeats |-> 0]

EscalationAnnoying ==
  [initialDelay |-> 15, repeatInterval |-> 15, decreaseStep |-> 2,
   minInterval |-> 5, maxRepeats |-> 0]

Presets ==
  [quiet |-> EscalationQuiet, normal |-> EscalationNormal,
   annoying |-> EscalationAnnoying]

\* The delay that follows the n-th firing, n >= 1.
RepeatDelay(ep, n) ==
  LET reduced == ep.repeatInterval - (n - 2) * ep.decreaseStep
  IN  IF n = 1 THEN ep.initialDelay
      ELSE IF ep.decreaseStep = 0 THEN ep.repeatInterval
      ELSE IF reduced < ep.minInterval THEN ep.minInterval
      ELSE reduced
===============================================================================
