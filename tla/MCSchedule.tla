----------------------------- MODULE MCSchedule -----------------------------
(* Instances of BackupSchedule: irregular cron expressions with fires       *)
(* already missed when the schedule is created, and a clock that runs on    *)
(* until the first of them are older than the window.                       *)
EXTENDS BackupSchedule

Active1 == [keep |-> 1, suspend |-> FALSE, valid |-> TRUE]
Suspended == [keep |-> 1, suspend |-> TRUE, valid |-> TRUE]
SuspendedDefault == [keep |-> 0, suspend |-> TRUE, valid |-> TRUE]
Malformed == [keep |-> 1, suspend |-> FALSE, valid |-> FALSE]

SafetySpecs == {Active1, SuspendedDefault, Malformed}
LiveSpecs == {Active1, Suspended}
KeepSpecs == {Active1}

MCFires == {1, 2, 4, 9}
LiveFires == {2, 3, 9}
=============================================================================
