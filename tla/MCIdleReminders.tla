-------------------------- MODULE MCIdleReminders --------------------------
(* Small instances of IdleReminders.  The .cfg files give the constants.    *)
EXTENDS IdleReminders, TLC

CONSTANT Span   \* response time claimed by SilentCyclesEnd

SilentCyclesEnd == SilentCycleEnds(Span)

Interchangeable == Permutations(Worker)
=============================================================================
