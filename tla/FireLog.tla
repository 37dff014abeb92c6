------------------------------ MODULE FireLog ------------------------------
(***************************************************************************)
(* What a BackupSchedule promises about its fires: they are served one at  *)
(* a time, in order, each only once it is due, and none is skipped unless  *)
(* it is older than the window the controller looks back.                  *)
(***************************************************************************)
EXTENDS Integers

CONSTANTS
  FireTimes,   \* the instants the cron expression names
  Window       \* how far back a missed fire is still made up for (24 h)

VARIABLES
  now,         \* the wall clock
  last         \* the last fire served, 0 for none

\* At a moment t of the past, the earliest fire neither served nor too old was
\* due; it is the one served now.
Serve ==
  \E t \in 0..now :
    \E f \in FireTimes :
      /\ last < f /\ t - Window < f /\ f <= t
      /\ \A g \in FireTimes : g < f => g <= last \/ g <= t - Window
      /\ last' = f
      /\ now' = now

Tick == now' = now + 1 /\ last' = last

Init == now = Window /\ last = 0

Next == Serve \/ Tick

Spec == Init /\ [][Next]_<<now, last>>
=============================================================================
