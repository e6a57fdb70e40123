---------------------------- MODULE MCEventQueue ----------------------------
(* Small instances of EventQueue: the kinds of event that share code or    *)
(* hide one another are used together, two kinds at a time.                *)
EXTENDS EventQueue

MCMixes == {{"level", "ampr"}, {"edge", "timer"}, {"irq"}, {"vout"}}
InterruptMix == {{"irq"}}
=============================================================================
