----------------------------- MODULE MCGuestGpu -----------------------------
(* Two rings.  draw1 and job1 wait for each other's labels in turn, and     *)
(* draw1 then for the flip, which may be queued before or behind it; idle1  *)
(* waits for a label only the CPU can write.                                *)
EXTENDS GuestGpu, TLC

CONSTANTS t1, t2, draw1, flip1, job1, idle1

TwoGuests == {t1, t2}
GuestSymmetry == Permutations(TwoGuests)
AllSubmissions == {draw1, flip1, job1, idle1}
CrossSubmissions == {draw1, job1}
FlipSubmissions == {draw1, job1, flip1}
AllLabels == {"a", "b", "c", "d", "e", "f"}

P(op, label) == [op |-> op, label |-> label]

Streams == (draw1 :> <<P("write", "a"), P("wait", "b"), P("flipdone", "f"),
                      P("write", "c")>>)
           @@ (flip1 :> <<P("write", "f")>>)
           @@ (job1 :> <<P("wait", "a"), P("flush", "a"), P("write", "b")>>)
           @@ (idle1 :> <<P("wait", "d"), P("data", "e"), P("draw", "e")>>)
Rings == (draw1 :> 0) @@ (flip1 :> 0) @@ (job1 :> 1) @@ (idle1 :> 0)

AllStreams == [s \in AllSubmissions |-> Streams[s]]
AllRings == [s \in AllSubmissions |-> Rings[s]]
CrossStreams == [s \in CrossSubmissions |-> Streams[s]]
CrossRings == [s \in CrossSubmissions |-> Rings[s]]
FlipStreams == [s \in FlipSubmissions |-> Streams[s]]
FlipRings == [s \in FlipSubmissions |-> Rings[s]]

(* The streams write every label at most once.                              *)
ASSUME StreamsAssumption == OneWriterPerLabel
=============================================================================
