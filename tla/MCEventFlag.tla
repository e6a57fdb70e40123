---------------------------- MODULE MCEventFlag ----------------------------
(* Three threads, two bits, and waits of every mode, way to clear and kind *)
(* of timeout.                                                             *)
EXTENDS EventFlag

CONSTANTS t1, t2, t3

ThreeThreads == {t1, t2, t3}
OneWait == {[want |-> {1}, mode |-> "And", clear |-> "None", timeout |-> "none"]}
NoMask == {{}}
W(want, mode, clear, timeout) ==
    [want |-> want, mode |-> mode, clear |-> clear, timeout |-> timeout]
SomeWaits == {W({1, 2}, "And", "Bits", "none"), W({1}, "Or", "None", "finite"),
              W({1, 2}, "Or", "All", "zero")}
SomeMasks == {{1}, {2}}
=============================================================================
