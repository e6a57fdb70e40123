------------------------- MODULE Pm4ExecutionProofs -------------------------
(***************************************************************************)
(* The parser of one ring implements Pm4Stream, for every program, every   *)
(* nesting limit and every sequence of submissions: what the cursors of    *)
(* the stack have left, the innermost first, is the flat stream, although  *)
(* a suspension forgets which of them were in the middle of a call and     *)
(* has only a mark to step over the packet later.                          *)
(***************************************************************************)
EXTENDS Pm4Execution, SequenceTheorems, NaturalsInduction, WellFoundedInduction, TLAPS

Buffers == DOMAIN Program
Packets == UNION {ToSet(Program[b]) : b \in Buffers}
Items   == [packet : Packets, depth : Nat]
Cursors == [commands : Buffers, offset : Nat, deferred_advance : {0, 1}]

TypeInv ==
    /\ submissions \in Seq(Buffers) /\ m_buffer_stack \in Seq(Cursors)
    /\ stop_depths \in Seq(Nat)
    /\ parser \in {"idle", "running", "returned", "exited"}

(* A cursor below the top, and one that is marked, has a packet to step    *)
(* over.                                                                   *)
StackOK(st) ==
    /\ st \in Seq(Cursors)
    /\ \A i \in DOMAIN st :
          /\ st[i].offset <= Len(Program[st[i].commands])
          /\ i < Len(st) \/ st[i].deferred_advance # 0 =>
                st[i].offset < Len(Program[st[i].commands])

(* Cursor i is in the middle of its packet in an active call.              *)
Calling(depths, i) == \E k \in DOMAIN depths : depths[k] = i

(* The active calls are nested; the callers outside of them are marked.    *)
Nested(st, depths) ==
    /\ st # <<>> /\ depths # <<>> /\ depths[1] = 0
    /\ \A k \in DOMAIN depths : depths[k] < Len(st)
    /\ \A j, k \in DOMAIN depths : j < k => depths[j] < depths[k]
    /\ \A i \in 1..(Len(st) - 1) : st[i].deferred_advance = 0 <=> Calling(depths, i)

(* With no call active, every caller is marked.                            *)
Marked(st) == \A i \in 1..Len(st) : st[i].deferred_advance = IF i < Len(st) THEN 1 ELSE 0

DepthInv ==
    /\ parser = "running" => Nested(m_buffer_stack, stop_depths)
    /\ parser \in {"idle", "returned"} => Marked(m_buffer_stack)
    /\ parser = "returned" => submissions # <<>>
    /\ submissions = <<>> => m_buffer_stack = <<>>

ParserInv == TypeInv /\ StackOK(m_buffer_stack) /\ DepthInv

-----------------------------------------------------------------------------
(* Flattening takes the first sequence and then the others.                *)
LEMMA LeastNumber ==
    ASSUME NEW S \in SUBSET Nat, S # {}
    PROVE  \E x \in S : \A y \in S : x <= y
<1>1. PICK x \in S : \A y \in S : <<y, x>> \notin OpToRel(<, Nat)
  BY NatLessThanWellFounded, WFMin, Zenon
<1>2. \A y \in S : ~(y < x)
  BY <1>1, Zenon DEF OpToRel
<1> QED
  BY <1>2

Regroups(a, b, c) == (a \o b) \o c = a \o (b \o c)

LEMMA Regroup ==
    ASSUME NEW S, NEW a \in Seq(S), NEW b \in Seq(S), NEW c \in Seq(S)
    PROVE  Regroups(a, b, c)
  BY ConcatAssociative, SMT DEF Regroups

(* The end of a sequence from n + 1 on.                                    *)
LEMMA DropFirst ==
    ASSUME NEW S, NEW s \in Seq(S), NEW n \in Nat, n <= Len(s)
    PROVE  LET w == SubSeq(s, n + 1, Len(s)) IN
           /\ w \in Seq(S) /\ Len(w) = Len(s) - n
           /\ \A i \in 1..(Len(s) - n) : w[i] = s[n + i]
<1> DEFINE l == Len(s)
           w == SubSeq(s, n + 1, l)
<1>1. l \in Nat /\ n <= l
  BY LenProperties
<1>2. \A i \in (n + 1)..l : s[i] \in S
  <2>1. \A i \in (n + 1)..l : i \in 1..Len(s)
    BY <1>1
  <2> QED
    BY <2>1, ElementOfSeq, Zenon
<1> HIDE DEF l
<1>3. n + 1 \in Int /\ l \in Int /\ (l - (n + 1)) + 1 = l - n
      /\ (IF n + 1 <= l THEN (l - (n + 1)) + 1 ELSE 0) = l - n
  BY <1>1
<1>4. /\ w \in Seq(S) /\ Len(w) = IF n + 1 <= l THEN (l - (n + 1)) + 1 ELSE 0
      /\ \A i \in 1..((l - (n + 1)) + 1) : w[i] = s[((n + 1) + i) - 1]
  BY <1>2, <1>3, SubSeqProperties
<1>5. w \in Seq(S) /\ Len(w) = l - n
  BY <1>3, <1>4, Zenon
<1>6. \A i \in 1..(l - n) : w[i] = s[n + i]
  <2>1. ASSUME NEW i \in 1..(l - n) PROVE w[i] = s[n + i]
    <3>1. w[i] = s[((n + 1) + i) - 1]
      BY <1>3, <1>4, Zenon
    <3>2. ((n + 1) + i) - 1 = n + i
      BY <1>1
    <3> QED
      BY <3>1, <3>2, Zenon
  <2> QED
    BY <2>1
<1> QED
  BY <1>5, <1>6 DEF l, w

IsFlat(g, s, n) == g = [i \in 1..n |-> IF i = 1 THEN s[i] ELSE g[i - 1] \o s[i]]

LEMMA FlatExists ==
    ASSUME NEW s, NEW last \in Nat
    PROVE  \E g : IsFlat(g, s, last)
<1> DEFINE Exists(k) == \E g : IsFlat(g, s, k)
           Missing == {k \in Nat : ~Exists(k)}
<1>1. ASSUME Missing # {} PROVE FALSE
  <2>1. PICK k \in Missing : \A j \in Missing : k <= j
    BY <1>1, LeastNumber
  <2>2. Exists(0)
    <3> DEFINE g == [i \in 1..0 |-> s[i]]
    <3>1. g = [i \in 1..0 |-> IF i = 1 THEN s[i] ELSE g[i - 1] \o s[i]]
      OBVIOUS
    <3> HIDE DEF g
    <3> QED
      BY <3>1 DEF IsFlat
  <2>3. k # 0
    <3> HIDE DEF Exists
    <3> QED
      BY <2>1, <2>2
  <2>4. k - 1 \in Nat /\ Exists(k - 1)
    <3>1. k - 1 \in Nat /\ k - 1 \notin Missing
      BY <2>1, <2>3
    <3> HIDE DEF Exists
    <3> QED
      BY <3>1
  <2>5. PICK f : IsFlat(f, s, k - 1)
    BY <2>4
  <2> DEFINE step(h, i) == IF i = 1 THEN s[i] ELSE h[i - 1] \o s[i]
  <2> DEFINE g == [i \in 1..k |-> step(f, i)]
  <2>6. \A i \in 1..(k - 1) : f[i] = step(f, i)
    BY <2>5 DEF IsFlat
  <2>7. ASSUME NEW i \in 2..k PROVE g[i - 1] = f[i - 1]
    <3>1. i - 1 \in 1..(k - 1) /\ i - 1 \in 1..k
      BY <2>1
    <3> HIDE DEF step
    <3> QED
      BY <2>6, <3>1
  <2>8. \A i \in 1..k : step(f, i) = step(g, i)
    <3>1. \A i \in 1..k : i = 1 \/ i \in 2..k
      BY <2>1
    <3> HIDE DEF g
    <3> QED
      BY <2>7, <3>1
  <2>9. g = [i \in 1..k |-> step(g, i)]
    <3> HIDE DEF step
    <3> QED
      BY <2>8
  <2>10. IsFlat(g, s, k)
    <3> HIDE DEF g
    <3> QED
      BY <2>9 DEF IsFlat
  <2>11. Exists(k)
    BY <2>10
  <2> HIDE DEF Exists
  <2> QED
    BY <2>1, <2>11
<1> HIDE DEF Exists
<1>2. Exists(last)
  BY <1>1
<1> QED
  BY <1>2 DEF Exists

LEMMA FlatOf ==
    ASSUME NEW s, NEW n \in Nat, NEW g, IsFlat(g, s, n)
    PROVE  /\ n # 0 => g[1] = s[1]
           /\ \A i \in 2..n : g[i] = g[i - 1] \o s[i]
<1> DEFINE step(i) == IF i = 1 THEN s[i] ELSE g[i - 1] \o s[i]
<1>1. \A i \in 1..n : g[i] = step(i)
  BY DEF IsFlat
<1>2. /\ n # 0 => 1 \in 1..n
      /\ \A i \in 2..n : i \in 1..n /\ i # 1
  OBVIOUS
<1> QED
  BY <1>1, <1>2, Zenon

LEMMA FlattenIs ==
    ASSUME NEW S, NEW s \in Seq(Seq(S))
    PROVE  /\ s = <<>> => FlattenSeq(s) = <<>>
           /\ s # <<>> => \E g : IsFlat(g, s, Len(s)) /\ FlattenSeq(s) = g[Len(s)]
<1>1. CASE s = <<>>
  BY <1>1 DEF FlattenSeq
<1>2. CASE s # <<>>
  <2> DEFINE flat == CHOOSE g : IsFlat(g, s, Len(s))
  <2>1. Len(s) # 0 /\ Len(s) \in Nat
    BY <1>2, EmptySeq
  <2>2. FlattenSeq(s) = flat[Len(s)]
    BY <2>1, Zenon DEF FlattenSeq, IsFlat
  <2>3. IsFlat(flat, s, Len(s))
    BY <2>1, FlatExists
  <2> HIDE DEF flat
  <2> QED
    BY <1>2, <2>2, <2>3
<1> QED
  BY <1>1, <1>2

LEMMA FlatTyped ==
    ASSUME NEW S, NEW s \in Seq(Seq(S)), NEW g, IsFlat(g, s, Len(s))
    PROVE  \A i \in 1..Len(s) : g[i] \in Seq(S)
<1> DEFINE Bad == {i \in 1..Len(s) : g[i] \notin Seq(S)}
<1>1. ASSUME Bad # {} PROVE FALSE
  <2>1. Bad \in SUBSET Nat
    OBVIOUS
  <2>2. PICK i \in Bad : \A j \in Bad : i <= j
    <3> HIDE DEF Bad
    <3> QED
      BY <1>1, <2>1, LeastNumber
  <2>3. /\ i \in 1..Len(s) /\ g[i] \notin Seq(S) /\ s[i] \in Seq(S) /\ Len(s) \in Nat
        /\ Len(s) # 0
    BY <2>2
  <2>4. i # 1
    <3>1. g[1] = s[1]
      BY <2>3, FlatOf, Zenon
    <3>2. i = 1 => g[i] = s[i]
      BY <3>1, Zenon
    <3> QED
      BY <2>3, <3>2, Zenon
  <2>5. i - 1 \in 1..Len(s) /\ i - 1 \notin Bad /\ i \in 2..Len(s)
    BY <2>2, <2>3, <2>4
  <2>6. g[i - 1] \in Seq(S)
    BY <2>5
  <2>7. g[i] = g[i - 1] \o s[i]
    BY <2>3, <2>5, FlatOf, Zenon
  <2> QED
    BY <2>3, <2>6, <2>7, ConcatProperties, Zenon
<1> QED
  BY <1>1

LEMMA FlattenTyped ==
    ASSUME NEW S, NEW s \in Seq(Seq(S))
    PROVE  FlattenSeq(s) \in Seq(S)
<1>1. CASE s = <<>>
  <2>1. FlattenSeq(s) = <<>>
    BY <1>1, FlattenIs, Zenon
  <2> QED
    BY <2>1, EmptySeq
<1>2. CASE s # <<>>
  <2>1. Len(s) \in 1..Len(s)
    BY <1>2, EmptySeq
  <2> QED
    BY <1>2, <2>1, FlattenIs, FlatTyped
<1> QED
  BY <1>1, <1>2

LEMMA FlattenFirst ==
    ASSUME NEW S, NEW s \in Seq(Seq(S)), s # <<>>, NEW t \in Seq(Seq(S)),
           Len(s) = Len(t) + 1, \A i \in 1..Len(t) : t[i] = s[i + 1]
    PROVE  FlattenSeq(s) = s[1] \o FlattenSeq(t)
<1>1. Len(t) \in Nat /\ 1 \in 1..Len(s) /\ s[1] \in Seq(S)
  <2>1. Len(t) \in Nat /\ 1 \in 1..Len(s)
    BY LenProperties
  <2> QED
    BY <2>1, ElementOfSeq
<1>2. PICK g : IsFlat(g, s, Len(s)) /\ FlattenSeq(s) = g[Len(s)]
  BY FlattenIs
<1>3. g[1] = s[1]
  <2>1. Len(s) \in Nat /\ Len(s) # 0
    BY <1>1
  <2> QED
    BY <1>2, <2>1, FlatOf, Zenon
<1>4. CASE t = <<>>
  <2>1. FlattenSeq(t) = <<>>
    BY <1>4, FlattenIs, Zenon
  <2>2. Len(s) = 1
    BY <1>4
  <2> QED
    BY <1>1, <1>2, <1>3, <2>1, <2>2, ConcatEmptySeq
<1>5. CASE t # <<>>
  <2>1. PICK h : IsFlat(h, t, Len(t)) /\ FlattenSeq(t) = h[Len(t)]
    BY <1>5, FlattenIs
  <2>2. \A i \in 1..Len(t) : h[i] \in Seq(S) /\ t[i] \in Seq(S)
    BY <2>1, FlatTyped, ElementOfSeq
  <2> DEFINE Bad == {i \in 1..Len(t) : g[i + 1] # s[1] \o h[i]}
  <2>3. ASSUME Bad # {} PROVE FALSE
    <3>1. Bad \in SUBSET Nat
      <4>1. 1..Len(t) \subseteq Nat
        BY <1>1
      <4> QED
        BY <4>1, Zenon
    <3>2. PICK i \in Bad : \A j \in Bad : i <= j
      <4> HIDE DEF Bad
      <4> QED
        BY <2>3, <3>1, LeastNumber
    <3>3. i \in 1..Len(t) /\ g[i + 1] # s[1] \o h[i]
      BY <3>2
    <3>4. g[i + 1] = g[i] \o t[i]
      <4>0. Len(s) \in Nat
        BY <1>1
      <4>1. i + 1 \in 2..Len(s) /\ (i + 1) - 1 = i
        BY <1>1, <3>3
      <4>2. g[i + 1] = g[(i + 1) - 1] \o s[i + 1]
        BY <1>1, <1>2, <4>1, <4>0, FlatOf, Zenon
      <4> QED
        BY <3>3, <4>1, <4>2
    <3>5. CASE i = 1
      <4>1. h[1] = t[1]
        <5>1. Len(t) # 0
          BY <1>1, <3>3
        <5> QED
          BY <1>1, <2>1, <5>1, FlatOf, Zenon
      <4> QED
        BY <1>3, <3>3, <3>4, <3>5, <4>1
    <3>6. CASE i # 1
      <4>1. i - 1 \in 1..Len(t) /\ i \in 2..Len(t) /\ (i - 1) + 1 = i
        BY <1>1, <3>3, <3>6
      <4>2. i - 1 \notin Bad
        <5>1. i - 1 \in Bad => i <= i - 1
          BY <3>2, Zenon
        <5>2. ~(i <= i - 1)
          BY <3>3, <1>1
        <5> QED
          BY <5>1, <5>2, Zenon
      <4>3. g[i] = s[1] \o h[i - 1]
        BY <4>1, <4>2
      <4>4. h[i] = h[i - 1] \o t[i]
        BY <1>1, <2>1, <4>1, FlatOf, Zenon
      <4>5. (s[1] \o h[i - 1]) \o t[i] = s[1] \o (h[i - 1] \o t[i])
        <5>1. s[1] \in Seq(S) /\ h[i - 1] \in Seq(S) /\ t[i] \in Seq(S)
          BY <1>1, <2>2, <3>3, <4>1, Zenon
        <5>2. Regroups(s[1], h[i - 1], t[i])
          BY <5>1, Regroup, Zenon
        <5> QED
          BY <5>2, Zenon DEF Regroups
      <4> QED
        BY <3>3, <3>4, <4>3, <4>4, <4>5
    <3> QED
      BY <3>5, <3>6
  <2>4. Len(t) \in 1..Len(t)
    BY <1>5, EmptySeq
  <2>5. g[Len(t) + 1] = s[1] \o h[Len(t)]
    BY <2>3, <2>4
  <2> QED
    BY <1>2, <2>1, <2>5
<1> QED
  BY <1>4, <1>5

-----------------------------------------------------------------------------
(* What a buffer has left.                                                 *)
LEMMA ProgramTyped ==
    ASSUME ProgramAssumption, NEW b \in Buffers
    PROVE  /\ Program[b] \in Seq(Packets)
           /\ Len(Program[b]) \in Nat /\ DOMAIN Program[b] = 1..Len(Program[b])
<1>1. Program[b] \in Seq(ToSet(Program[b])) /\ ToSet(Program[b]) \subseteq Packets
  BY DEF ProgramAssumption, Packets, Buffers
<1>2. Program[b] \in Seq(Packets)
  BY <1>1
<1> QED
  BY <1>2, LenProperties

LEMMA StreamTyped ==
    ASSUME ProgramAssumption, NEW b \in Buffers, NEW f \in 0..Len(Program[b]), NEW d \in Nat
    PROVE  /\ StreamOf(b, f, d) \in Seq(Items)
           /\ Len(StreamOf(b, f, d)) = Len(Program[b]) - f
           /\ \A i \in 1..(Len(Program[b]) - f) :
                 StreamOf(b, f, d)[i] = [packet |-> Program[b][f + i], depth |-> d]
<1> DEFINE n == Len(Program[b]) - f
           item(i) == [packet |-> Program[b][f + i], depth |-> d]
<1>1. Len(Program[b]) \in Nat /\ n \in Nat
  BY ProgramTyped
<1>2. \A i \in 1..n : item(i) \in Items
  <2>1. ASSUME NEW i \in 1..n PROVE Program[b][f + i] \in Packets
    <3>1. f + i \in 1..Len(Program[b])
      BY <1>1
    <3> QED
      BY <3>1, ProgramTyped, ElementOfSeq
  <2> QED
    BY <2>1 DEF Items
<1>3. StreamOf(b, f, d) = [i \in 1..n |-> item(i)]
  BY DEF StreamOf
<1> HIDE DEF n, item
<1>4. /\ StreamOf(b, f, d) \in Seq(Items)
      /\ Len(StreamOf(b, f, d)) = n
      /\ \A i \in 1..n : StreamOf(b, f, d)[i] = item(i)
  BY <1>1, <1>2, <1>3
<1> QED
  BY <1>4 DEF n, item

LEMMA StreamEmpty ==
    ASSUME ProgramAssumption, NEW b \in Buffers, NEW d \in Nat
    PROVE  StreamOf(b, Len(Program[b]), d) = <<>>
<1>1. Len(Program[b]) \in 0..Len(Program[b])
  BY ProgramTyped
<1>2. /\ StreamOf(b, Len(Program[b]), d) \in Seq(Items)
      /\ Len(StreamOf(b, Len(Program[b]), d)) = Len(Program[b]) - Len(Program[b])
  BY <1>1, StreamTyped, Zenon
<1>3. Len(StreamOf(b, Len(Program[b]), d)) = 0
  <2>1. Len(Program[b]) - Len(Program[b]) = 0
    BY ProgramTyped
  <2> QED
    BY <1>2, <2>1, Zenon
<1> HIDE DEF StreamOf
<1> QED
  BY <1>2, <1>3, EmptySeq

(* A stream without its first n packets.                                   *)
Drops(b, f, n, d, r) ==
    LET s == StreamOf(b, f, d) \o r
    IN  SubSeq(s, n + 1, Len(s)) = StreamOf(b, f + n, d) \o r

(* A stream and its first packet.                                          *)
Steps(b, f, d, r) ==
    LET s == StreamOf(b, f, d) \o r IN
    /\ s # <<>>
    /\ Head(s) = [packet |-> Program[b][f + 1], depth |-> d]
    /\ Tail(s) = StreamOf(b, f + 1, d) \o r

LEMMA StreamDrop ==
    ASSUME ProgramAssumption, NEW b \in Buffers, NEW f \in Nat, NEW n \in Nat,
           f + n <= Len(Program[b]), NEW d \in Nat, NEW r \in Seq(Items)
    PROVE  Drops(b, f, n, d, r)
<1> DEFINE all == Len(Program[b])
           u == StreamOf(b, f, d)   v == StreamOf(b, f + n, d)
           s == u \o r              t == v \o r
<1>1. all \in Nat /\ f \in 0..all /\ f + n \in 0..all /\ Len(r) \in Nat
  BY ProgramTyped, LenProperties
<1>2. /\ u \in Seq(Items) /\ Len(u) = all - f
      /\ \A i \in 1..(all - f) : u[i] = [packet |-> Program[b][f + i], depth |-> d]
  BY <1>1, StreamTyped
<1>3. /\ v \in Seq(Items) /\ Len(v) = all - (f + n)
      /\ \A i \in 1..(all - (f + n)) : v[i] = [packet |-> Program[b][(f + n) + i], depth |-> d]
  BY <1>1, StreamTyped
<1> HIDE DEF u, v, all
<1>4. /\ s \in Seq(Items) /\ Len(s) = Len(u) + Len(r)
      /\ \A i \in 1..(Len(u) + Len(r)) : s[i] = IF i <= Len(u) THEN u[i] ELSE r[i - Len(u)]
  BY <1>2, ConcatProperties
<1>5. /\ t \in Seq(Items) /\ Len(t) = Len(v) + Len(r)
      /\ \A i \in 1..(Len(v) + Len(r)) : t[i] = IF i <= Len(v) THEN v[i] ELSE r[i - Len(v)]
  BY <1>3, ConcatProperties
<1> HIDE DEF s, t
<1> DEFINE w == SubSeq(s, n + 1, Len(s))
<1> HIDE DEF w
<1>8. /\ w \in Seq(Items) /\ Len(w) = Len(s) - n
      /\ \A i \in 1..(Len(s) - n) : w[i] = s[n + i]
  <2>1. n <= Len(s)
    BY <1>1, <1>2, <1>4
  <2> QED
    BY <1>4, <2>1, DropFirst, Zenon DEF w
<1>9. Len(w) = Len(t)
  BY <1>1, <1>2, <1>3, <1>4, <1>5, <1>8
<1>10. ASSUME NEW i \in 1..Len(w) PROVE w[i] = t[i]
  <2>1. w[i] = s[n + i] /\ i \in Nat /\ i # 0
    BY <1>1, <1>2, <1>4, <1>8
  <2>2. CASE i <= Len(v)
    <3>1. i \in 1..(all - (f + n)) /\ n + i \in 1..(all - f) /\ f + (n + i) = (f + n) + i
          /\ i \in 1..(Len(v) + Len(r)) /\ n + i \in 1..(Len(u) + Len(r)) /\ n + i <= Len(u)
      BY <1>1, <1>2, <1>3, <2>1, <2>2
    <3>2. v[i] = u[n + i]
      BY <1>2, <1>3, <3>1
    <3> QED
      BY <1>4, <1>5, <2>1, <2>2, <3>1, <3>2
  <2>3. CASE ~(i <= Len(v))
    <3>1. n + i \in 1..(Len(u) + Len(r)) /\ ~(n + i <= Len(u))
          /\ i \in 1..(Len(v) + Len(r)) /\ (n + i) - Len(u) = i - Len(v)
      BY <1>1, <1>2, <1>3, <1>4, <1>8, <2>1, <2>3
    <3>2. w[i] = r[(n + i) - Len(u)]
      BY <1>4, <2>1, <3>1, Zenon
    <3>3. t[i] = r[i - Len(v)]
      BY <1>5, <2>3, <3>1
    <3> QED
      BY <3>1, <3>2, <3>3, Zenon
  <2> QED
    BY <2>2, <2>3
<1>11. w = t
  BY <1>5, <1>8, <1>9, <1>10, SeqEqual
<1> QED
  BY <1>11, Zenon DEF Drops, w, s, t, u, v

LEMMA StreamStep ==
    ASSUME ProgramAssumption, NEW b \in Buffers, NEW f \in Nat, f < Len(Program[b]),
           NEW d \in Nat, NEW r \in Seq(Items)
    PROVE  Steps(b, f, d, r)
<1> DEFINE u == StreamOf(b, f, d)
           s == u \o r
<1>1. /\ Len(Program[b]) \in Nat /\ f \in 0..Len(Program[b])
      /\ 1 \in 1..(Len(Program[b]) - f) /\ Len(r) \in Nat
  BY ProgramTyped, LenProperties
<1>2. /\ u \in Seq(Items) /\ Len(u) = Len(Program[b]) - f
      /\ u[1] = [packet |-> Program[b][f + 1], depth |-> d]
  BY <1>1, StreamTyped, Zenon
<1>3. SubSeq(s, 1 + 1, Len(s)) = StreamOf(b, f + 1, d) \o r
  <2>1. f + 1 <= Len(Program[b]) /\ 1 \in Nat
    BY <1>1
  <2> QED
    BY <2>1, StreamDrop, Zenon DEF Drops
<1> HIDE DEF u
<1>4. s \in Seq(Items) /\ Len(s) = Len(u) + Len(r)
  BY <1>2, ConcatProperties
<1>5. s[1] = u[1]
  <2>1. 1 <= Len(u) /\ 1 \in 1..(Len(u) + Len(r))
    BY <1>1, <1>2
  <2> QED
    BY <1>2, <2>1, ConcatProperties
<1> HIDE DEF s
<1>6. Len(s) # 0
  BY <1>1, <1>2, <1>4
<1>7. s # <<>>
  BY <1>6
<1>8. Head(s) = s[1] /\ Tail(s) = SubSeq(s, 1 + 1, Len(s))
  <2>1. Tail(s) = SubSeq(s, 2, Len(s)) /\ 1 + 1 = 2
    BY <1>4, <1>7, TailIsSubSeq
  <2>2. Head(s) = s[1]
    BY <1>4, <1>7, SMT
  <2> QED
    BY <2>1, <2>2, Zenon
<1> QED
  BY <1>2, <1>3, <1>5, <1>7, <1>8, Zenon DEF Steps, s, u

-----------------------------------------------------------------------------
(* What the lower cursors of a stack have left, and what follows the       *)
(* current submission.                                                     *)
LeftIn(st, i) ==
    LET c == st[i]
    IN  StreamOf(c.commands,
                 IF i < Len(st) \/ c.deferred_advance # 0 THEN c.offset + 1 ELSE c.offset, i)

Below(st, n) == FlattenSeq([k \in 1..n |-> LeftIn(st, n + 1 - k)])

AllOf(subs) == FlattenSeq([k \in DOMAIN subs |-> StreamOf(subs[k], 0, 1)])

LEMMA CursorTyped ==
    ASSUME NEW st \in Seq(Cursors), NEW i \in 1..Len(st)
    PROVE  /\ Len(st) \in Nat /\ DOMAIN st = 1..Len(st) /\ i \in Nat /\ i # 0
           /\ st[i] \in Cursors /\ st[i].commands \in Buffers /\ st[i].offset \in Nat
           /\ st[i].deferred_advance \in {0, 1}
<1>1. Len(st) \in Nat /\ DOMAIN st = 1..Len(st)
  BY LenProperties
<1>2. st[i] \in Cursors
  BY ElementOfSeq
<1> QED
  BY <1>1, <1>2 DEF Cursors

LEMMA LeftTyped ==
    ASSUME ProgramAssumption, NEW st, StackOK(st), NEW i \in 1..Len(st)
    PROVE  LeftIn(st, i) \in Seq(Items)
<1>1. /\ st \in Seq(Cursors)
      /\ \A k \in DOMAIN st :
          /\ st[k].offset <= Len(Program[st[k].commands])
          /\ k < Len(st) \/ st[k].deferred_advance # 0 =>
                st[k].offset < Len(Program[st[k].commands])
  BY DEF StackOK
<1>2. /\ Len(st) \in Nat /\ DOMAIN st = 1..Len(st) /\ i \in Nat /\ i # 0
      /\ st[i].commands \in Buffers /\ st[i].offset \in Nat
  BY <1>1, CursorTyped, Zenon
<1> DEFINE all == Len(Program[st[i].commands])
           f == IF i < Len(st) \/ st[i].deferred_advance # 0
                THEN st[i].offset + 1 ELSE st[i].offset
<1>3. all \in Nat
  BY <1>2, ProgramTyped, Zenon
<1>4. f \in 0..all
  <2>1. /\ st[i].offset <= all
        /\ i < Len(st) \/ st[i].deferred_advance # 0 => st[i].offset < all
    BY <1>1, <1>2, Zenon
  <2> HIDE DEF all
  <2> QED
    BY <1>2, <1>3, <2>1
<1> HIDE DEF f
<1>5. StreamOf(st[i].commands, f, i) \in Seq(Items)
  BY <1>2, <1>4, StreamTyped, Zenon
<1> QED
  BY <1>5, Zenon DEF LeftIn, f

LEMMA BelowTyped ==
    ASSUME ProgramAssumption, NEW st, StackOK(st), NEW n \in 0..Len(st)
    PROVE  Below(st, n) \in Seq(Items)
<1> DEFINE left(k) == LeftIn(st, n + 1 - k)
           s == [k \in 1..n |-> left(k)]
<1>1. n \in Nat /\ Len(st) \in Nat /\ \A k \in 1..n : n + 1 - k \in 1..Len(st)
  BY LenProperties DEF StackOK
<1>2. \A k \in 1..n : left(k) \in Seq(Items)
  BY <1>1, LeftTyped, Zenon
<1> HIDE DEF left
<1>3. s \in Seq(Seq(Items))
  BY <1>1, <1>2
<1> HIDE DEF s
<1>4. FlattenSeq(s) \in Seq(Items)
  BY <1>3, FlattenTyped
<1> QED
  BY <1>4, Zenon DEF s, left, Below

LEMMA BelowNone ==
    ASSUME NEW st
    PROVE  Below(st, 0) = <<>>
<1> DEFINE s == [k \in 1..0 |-> LeftIn(st, 0 + 1 - k)]
<1>1. s = <<>>
  OBVIOUS
<1>2. FlattenSeq(<<>>) = <<>>
  BY FlattenIs, EmptySeq, Zenon
<1> HIDE DEF s
<1> QED
  BY <1>1, <1>2, Zenon DEF Below, s

(* The innermost of them first.                                            *)
LEMMA BelowFirst ==
    ASSUME ProgramAssumption, NEW st, StackOK(st), NEW n \in 1..Len(st)
    PROVE  Below(st, n) = LeftIn(st, n) \o Below(st, n - 1)
<1> DEFINE left(k) == LeftIn(st, n + 1 - k)
           lower(k) == LeftIn(st, (n - 1) + 1 - k)
           s == [k \in 1..n |-> left(k)]
           t == [k \in 1..(n - 1) |-> lower(k)]
<1>1. /\ n \in Nat /\ n # 0 /\ n - 1 \in Nat /\ Len(st) \in Nat
      /\ \A k \in 1..n : n + 1 - k \in 1..Len(st)
      /\ \A k \in 1..(n - 1) : (n - 1) + 1 - k \in 1..Len(st)
  BY LenProperties DEF StackOK
<1>2. /\ \A k \in 1..n : left(k) \in Seq(Items)
      /\ \A k \in 1..(n - 1) : lower(k) \in Seq(Items)
  BY <1>1, LeftTyped, Zenon
<1>3. \A k \in 1..(n - 1) : lower(k) = left(k + 1)
  <2>1. ASSUME NEW k \in 1..(n - 1) PROVE (n - 1) + 1 - k = n + 1 - (k + 1)
    BY <1>1
  <2> QED
    BY <2>1, Zenon
<1>4. left(1) = LeftIn(st, n)
  <2>1. n + 1 - 1 = n
    BY <1>1
  <2> QED
    BY <2>1, Zenon
<1> HIDE DEF left, lower
<1>5. s \in Seq(Seq(Items)) /\ Len(s) = n
  BY <1>1, <1>2
<1>6. t \in Seq(Seq(Items)) /\ Len(t) = n - 1
  BY <1>1, <1>2
<1>7. s[1] = left(1) /\ \A k \in 1..(n - 1) : t[k] = s[k + 1]
  BY <1>1, <1>3
<1> HIDE DEF s, t
<1>8. Len(s) = Len(t) + 1 /\ Len(s) # 0 /\ \A k \in 1..Len(t) : t[k] = s[k + 1]
  <2>1. \A k \in 1..Len(t) : t[k] = s[k + 1]
    BY <1>6, <1>7, Zenon
  <2>2. Len(s) = n /\ Len(t) = n - 1
    BY <1>5, <1>6, Zenon
  <2>3. (n - 1) + 1 = n
    BY <1>1
  <2> QED
    BY <1>1, <2>1, <2>2, <2>3, Zenon
<1>9. s # <<>>
  <2>1. Len(<<>>) = 0
    OBVIOUS
  <2> QED
    BY <1>8, <2>1, Zenon
<1>10. FlattenSeq(s) = s[1] \o FlattenSeq(t)
  BY <1>5, <1>6, <1>8, <1>9, FlattenFirst, Zenon
<1> QED
  BY <1>4, <1>7, <1>10, Zenon DEF s, t, left, lower, Below

LEMMA BelowSame ==
    ASSUME NEW st, NEW u, NEW n \in Nat, \A i \in 1..n : LeftIn(st, i) = LeftIn(u, i)
    PROVE  Below(st, n) = Below(u, n)
<1> DEFINE left(x, k) == LeftIn(x, n + 1 - k)
<1>1. \A k \in 1..n : left(st, k) = left(u, k)
  <2>1. \A k \in 1..n : n + 1 - k \in 1..n
    OBVIOUS
  <2> QED
    BY <2>1, Zenon
<1> HIDE DEF left
<1>2. [k \in 1..n |-> left(st, k)] = [k \in 1..n |-> left(u, k)]
  BY <1>1
<1> QED
  BY <1>2, Zenon DEF left, Below

(* The submissions, the current one first.                                 *)
LEMMA AllTyped ==
    ASSUME ProgramAssumption, NEW subs \in Seq(Buffers)
    PROVE  /\ [k \in DOMAIN subs |-> StreamOf(subs[k], 0, 1)] \in Seq(Seq(Items))
           /\ Len([k \in DOMAIN subs |-> StreamOf(subs[k], 0, 1)]) = Len(subs)
           /\ AllOf(subs) \in Seq(Items)
<1> DEFINE one(k) == StreamOf(subs[k], 0, 1)
           s == [k \in DOMAIN subs |-> one(k)]
<1>1. Len(subs) \in Nat /\ DOMAIN subs = 1..Len(subs)
  BY LenProperties
<1>2. \A k \in 1..Len(subs) : one(k) \in Seq(Items)
  <2>1. ASSUME NEW k \in 1..Len(subs) PROVE one(k) \in Seq(Items)
    <3>1. subs[k] \in Buffers
      BY ElementOfSeq
    <3>2. 0 \in 0..Len(Program[subs[k]]) /\ 1 \in Nat
      BY <3>1, ProgramTyped
    <3> QED
      BY <3>1, <3>2, StreamTyped, Zenon
  <2> QED
    BY <2>1
<1> HIDE DEF one
<1>3. s \in Seq(Seq(Items)) /\ Len(s) = Len(subs)
  BY <1>1, <1>2
<1> HIDE DEF s
<1>4. FlattenSeq(s) \in Seq(Items)
  BY <1>3, FlattenTyped
<1> QED
  BY <1>3, <1>4, Zenon DEF s, one, AllOf

LEMMA AllNone == AllOf(<<>>) = <<>>
<1>1. [k \in DOMAIN <<>> |-> StreamOf(<<>>[k], 0, 1)] = <<>>
  OBVIOUS
<1>2. FlattenSeq(<<>>) = <<>>
  BY FlattenIs, EmptySeq, Zenon
<1> QED
  BY <1>1, <1>2, Zenon DEF AllOf

LEMMA AllFirst ==
    ASSUME ProgramAssumption, NEW subs \in Seq(Buffers), subs # <<>>
    PROVE  /\ Head(subs) \in Buffers /\ Tail(subs) \in Seq(Buffers)
           /\ AllOf(subs) = StreamOf(Head(subs), 0, 1) \o AllOf(Tail(subs))
           /\ AllOf(Tail(subs)) =
                FlattenSeq([k \in DOMAIN Tail(subs) |-> StreamOf(subs[k + 1], 0, 1)])
<1>1. /\ Head(subs) \in Buffers /\ Tail(subs) \in Seq(Buffers)
      /\ Len(Tail(subs)) = Len(subs) - 1 /\ Len(subs) \in Nat /\ Len(subs) # 0
      /\ \A i \in 1..Len(Tail(subs)) : Tail(subs)[i] = subs[i + 1]
  BY HeadTailProperties, LenProperties
<1>2. Head(subs) = subs[1]
  BY SMT
<1> DEFINE rest == Tail(subs)
           s == [k \in DOMAIN subs |-> StreamOf(subs[k], 0, 1)]
           t == [k \in DOMAIN rest |-> StreamOf(rest[k], 0, 1)]
           u == [k \in DOMAIN rest |-> StreamOf(subs[k + 1], 0, 1)]
<1>3. DOMAIN subs = 1..Len(subs) /\ DOMAIN rest = 1..Len(rest)
  BY <1>1, LenProperties
<1>4. t = u
  <2>1. \A k \in DOMAIN rest : rest[k] = subs[k + 1]
    BY <1>1, <1>3
  <2> HIDE DEF rest
  <2> QED
    BY <2>1, Zenon
<1>5. s \in Seq(Seq(Items)) /\ Len(s) = Len(subs)
  BY AllTyped, Zenon
<1>6. t \in Seq(Seq(Items)) /\ Len(t) = Len(rest)
  BY <1>1, AllTyped, Zenon
<1>7. s[1] = StreamOf(Head(subs), 0, 1)
  <2>1. 1 \in DOMAIN subs
    BY <1>1, <1>3
  <2> QED
    BY <1>2, <2>1, Zenon
<1>8. \A k \in 1..Len(rest) : t[k] = s[k + 1]
  <2>1. ASSUME NEW k \in 1..Len(rest) PROVE t[k] = s[k + 1]
    <3>1. k \in DOMAIN rest /\ k + 1 \in DOMAIN subs
      BY <1>1, <1>3
    <3>2. rest[k] = subs[k + 1]
      BY <1>1, Zenon
    <3> HIDE DEF rest
    <3> QED
      BY <3>1, <3>2, Zenon
  <2> QED
    BY <2>1
<1>9. Len(s) = Len(t) + 1
  <2>1. Len(subs) = Len(rest) + 1
    BY <1>1
  <2> QED
    BY <1>5, <1>6, <2>1, Zenon
<1>10. s # <<>>
  <2>1. Len(<<>>) = 0
    OBVIOUS
  <2> QED
    BY <1>1, <1>5, <2>1, Zenon
<1> HIDE DEF s, t, u
<1>11. \A k \in 1..Len(t) : t[k] = s[k + 1]
  BY <1>6, <1>8, Zenon
<1>12. FlattenSeq(s) = s[1] \o FlattenSeq(t)
  BY <1>5, <1>6, <1>9, <1>10, <1>11, FlattenFirst, Zenon
<1>13. AllOf(subs) = FlattenSeq(s) /\ AllOf(rest) = FlattenSeq(t)
  BY Zenon DEF s, t, AllOf
<1>14. FlattenSeq(t) = FlattenSeq(u)
  BY <1>4, Zenon
<1> QED
  BY <1>1, <1>7, <1>12, <1>13, <1>14, Zenon DEF u

-----------------------------------------------------------------------------
(* The stream a state stands for.                                          *)
Todo == Current \o Behind
Rest == Below(m_buffer_stack, top - 1) \o Behind

TodoShape ==
    /\ Current = IF m_buffer_stack = <<>> /\ parser = "idle" /\ submissions # <<>>
                 THEN StreamOf(Head(submissions), 0, 1)
                 ELSE Below(m_buffer_stack, Len(m_buffer_stack))
    /\ Behind = IF submissions = <<>> THEN <<>> ELSE AllOf(Tail(submissions))
    /\ Behind \in Seq(Items)

LEMMA TodoParts ==
    ASSUME ProgramAssumption, ParserInv
    PROVE  TodoShape
<1>1. submissions \in Seq(Buffers) /\ m_buffer_stack \in Seq(Cursors)
  BY DEF ParserInv, TypeInv
<1>2. \A i : Left(i) = LeftIn(m_buffer_stack, i)
  BY Zenon DEF Left, LeftIn, top
<1>3. FlattenSeq([k \in 1..top |-> Left(top + 1 - k)]) = Below(m_buffer_stack, top)
  BY <1>2, Zenon DEF Below
<1>4. Current = IF m_buffer_stack = <<>> /\ parser = "idle" /\ submissions # <<>>
                THEN StreamOf(Head(submissions), 0, 1)
                ELSE Below(m_buffer_stack, Len(m_buffer_stack))
  BY <1>3, Zenon DEF Current, complete, top
<1>5. CASE submissions = <<>>
  <2>1. Behind = <<>> /\ <<>> \in Seq(Items)
    BY <1>5, EmptySeq, Zenon DEF Behind
  <2> QED
    BY <1>4, <1>5, <2>1, Zenon DEF TodoShape
<1>6. CASE submissions # <<>>
  <2>1. Behind = AllOf(Tail(submissions)) /\ Tail(submissions) \in Seq(Buffers)
    BY <1>1, <1>6, AllFirst, Zenon DEF Behind
  <2>2. Behind \in Seq(Items)
    BY <2>1, AllTyped, Zenon
  <2> QED
    BY <1>4, <1>6, <2>1, <2>2, Zenon DEF TodoShape
<1> QED
  BY <1>5, <1>6

LEMMA StackTodo ==
    ASSUME ProgramAssumption, ParserInv, m_buffer_stack # <<>>
    PROVE  /\ top \in 1..Len(m_buffer_stack) /\ top = Len(m_buffer_stack)
           /\ Rest \in Seq(Items)
           /\ Todo = LeftIn(m_buffer_stack, top) \o Rest
<1> DEFINE st == m_buffer_stack
           a == LeftIn(st, top)  b == Below(st, top - 1)
<1>1. StackOK(st) /\ st \in Seq(Cursors)
  BY DEF ParserInv, StackOK
<1>2. Behind \in Seq(Items) /\ top \in Nat /\ top = Len(st) /\ Current = Below(st, top)
  <2>1. Len(st) \in Nat
    BY <1>1, LenProperties
  <2> QED
    BY <2>1, TodoParts, Zenon DEF TodoShape, top
<1>3. top # 0 /\ top \in 1..Len(st) /\ top - 1 \in 0..Len(st)
  <2>1. Len(st) # 0
    BY <1>1, EmptySeq
  <2> QED
    BY <1>2, <2>1
<1>4. a \in Seq(Items) /\ b \in Seq(Items) /\ Below(st, top) = a \o b
  BY <1>1, <1>3, LeftTyped, BelowTyped, BelowFirst, Zenon
<1> HIDE DEF a, b
<1>5. b \o Behind \in Seq(Items)
  BY <1>2, <1>4, ConcatProperties
<1>6. Regroups(a, b, Behind)
  BY <1>2, <1>4, Regroup, Zenon
<1>7. Todo = (a \o b) \o Behind
  BY <1>2, <1>4, Zenon DEF Todo
<1>8. Todo = a \o (b \o Behind)
  BY <1>6, <1>7, Zenon DEF Regroups
<1> QED
  BY <1>2, <1>3, <1>5, <1>8, Zenon DEF Rest, a, b

(* The packet at the cursor is the first of the stream.                    *)
LEMMA PacketFirst ==
    ASSUME ProgramAssumption, ParserInv, AtPacket
    PROVE  /\ Todo # <<>> /\ Head(Todo) = [packet |-> packet, depth |-> top]
           /\ Tail(Todo) = StreamOf(cursor.commands, cursor.offset + 1, top) \o Rest
           /\ \A n \in Nat : cursor.offset + n <= Len(Commands) =>
                SubSeq(Todo, n + 1, Len(Todo))
                    = StreamOf(cursor.commands, cursor.offset + n, top) \o Rest
<1>1. m_buffer_stack # <<>> /\ m_buffer_stack \in Seq(Cursors)
  BY DEF ParserInv, TypeInv, DepthInv, Nested, AtPacket
<1>2. /\ top \in 1..Len(m_buffer_stack) /\ Rest \in Seq(Items)
      /\ top = Len(m_buffer_stack)
      /\ Todo = LeftIn(m_buffer_stack, top) \o Rest
  BY <1>1, StackTodo, Zenon
<1>3. cursor.commands \in Buffers /\ cursor.offset \in Nat /\ top \in Nat
  BY <1>1, <1>2, CursorTyped, Zenon DEF cursor
<1>4. cursor.deferred_advance = 0 /\ cursor.offset < Len(Program[cursor.commands])
  BY DEF AtPacket, Commands
<1>5. LeftIn(m_buffer_stack, top) = StreamOf(cursor.commands, cursor.offset, top)
  <2>1. ~(top < Len(m_buffer_stack))
    BY <1>2, <1>3
  <2> QED
    BY <1>4, <2>1, Zenon DEF LeftIn, cursor
<1> DEFINE s == StreamOf(cursor.commands, cursor.offset, top) \o Rest
<1>6. Todo = s
  BY <1>2, <1>5, Zenon
<1>7. Steps(cursor.commands, cursor.offset, top, Rest)
  BY <1>2, <1>3, <1>4, StreamStep, Zenon
<1>8. \A n \in Nat : cursor.offset + n <= Len(Program[cursor.commands]) =>
        Drops(cursor.commands, cursor.offset, n, top, Rest)
  BY <1>2, <1>3, StreamDrop, Zenon
<1> HIDE DEF s
<1>9. /\ Todo # <<>> /\ Head(Todo) = [packet |-> packet, depth |-> top]
      /\ Tail(Todo) = StreamOf(cursor.commands, cursor.offset + 1, top) \o Rest
  BY <1>6, <1>7, Zenon DEF packet, Commands, Steps, s
<1> QED
  BY <1>6, <1>8, <1>9, Zenon DEF Commands, Drops, s

(* A stack whose last cursor is replaced.                                  *)
Replaced(st, c, t) == t = [st EXCEPT ![Len(st)] = c]

LEMMA LeftSame ==
    ASSUME NEW st, NEW t, NEW i, Len(t) = Len(st), t[i] = st[i]
    PROVE  LeftIn(t, i) = LeftIn(st, i)
  BY Zenon DEF LeftIn

LEMMA LastReplaced ==
    ASSUME NEW st \in Seq(Cursors), st # <<>>, NEW c \in Cursors,
           NEW t, Replaced(st, c, t)
    PROVE  /\ t \in Seq(Cursors) /\ Len(t) = Len(st) /\ t # <<>> /\ t[Len(st)] = c
           /\ Len(st) \in 1..Len(st)
           /\ \A i \in 1..(Len(st) - 1) : t[i] = st[i]
           /\ Below(t, Len(st) - 1) = Below(st, Len(st) - 1)
<1> DEFINE n == Len(st)
<1>0. t = [st EXCEPT ![n] = c]
  BY DEF Replaced
<1>1. n \in Nat /\ n # 0 /\ DOMAIN st = 1..n
  BY LenProperties, EmptySeq
<1>2. \A i \in 1..n : st[i] \in Cursors
  BY ElementOfSeq
<1> HIDE DEF n
<1>3. n \in 1..n /\ n - 1 \in Nat /\ \A i \in 1..(n - 1) : i \in 1..n /\ i # n /\ i < n
  BY <1>1
<1>4. t \in Seq(Cursors) /\ Len(t) = n /\ t[n] = c
  <2>1. t = [i \in 1..n |-> IF i = n THEN c ELSE st[i]]
    BY <1>0, <1>1, Zenon
  <2>2. \A i \in 1..n : (IF i = n THEN c ELSE st[i]) \in Cursors
    BY <1>2, Zenon
  <2> DEFINE e(i) == IF i = n THEN c ELSE st[i]
  <2>3. t = [i \in 1..n |-> e(i)] /\ \A i \in 1..n : e(i) \in Cursors
    BY <2>1, <2>2, Zenon
  <2>4. e(n) = c
    BY Zenon
  <2> HIDE DEF e
  <2> QED
    BY <1>1, <1>3, <2>3, <2>4
<1>5. \A i \in 1..(n - 1) : t[i] = st[i]
  BY <1>0, <1>1, <1>3, Zenon
<1>6. \A i \in 1..(n - 1) : LeftIn(t, i) = LeftIn(st, i)
  BY <1>4, <1>5, LeftSame, Zenon DEF n
<1>7. Below(t, n - 1) = Below(st, n - 1)
  BY <1>3, <1>6, BelowSame, Zenon
<1>8. t # <<>>
  <2>1. Len(<<>>) = 0
    OBVIOUS
  <2> QED
    BY <1>1, <1>4, <2>1, Zenon
<1> QED
  BY <1>3, <1>4, <1>5, <1>7, <1>8, Zenon DEF n

-----------------------------------------------------------------------------
(* The last cursor moves to a packet of its buffer.                        *)
At0(c, f) == [commands |-> c.commands, offset |-> f, deferred_advance |-> 0]

LEMMA StackParts ==
    ASSUME NEW st, StackOK(st), st # <<>>
    PROVE  /\ st \in Seq(Cursors) /\ Len(st) \in Nat /\ Len(st) # 0 /\ DOMAIN st = 1..Len(st)
           /\ Len(st) \in 1..Len(st)
           /\ \A i \in 1..Len(st) :
                 /\ st[i] \in Cursors /\ st[i].commands \in Buffers /\ st[i].offset \in Nat
                 /\ st[i].deferred_advance \in {0, 1}
                 /\ st[i].offset <= Len(Program[st[i].commands])
                 /\ i < Len(st) \/ st[i].deferred_advance # 0 =>
                       st[i].offset < Len(Program[st[i].commands])
<1> DEFINE n == Len(st)
<1>1. st \in Seq(Cursors)
  BY DEF StackOK
<1>2. n \in Nat /\ n # 0 /\ DOMAIN st = 1..n
  BY <1>1, LenProperties, EmptySeq
<1>3. \A i \in 1..n : /\ st[i].offset <= Len(Program[st[i].commands])
                      /\ i < n \/ st[i].deferred_advance # 0 =>
                            st[i].offset < Len(Program[st[i].commands])
  BY <1>2, Zenon DEF StackOK
<1>4. \A i \in 1..n : /\ st[i] \in Cursors /\ st[i].commands \in Buffers
                      /\ st[i].offset \in Nat /\ st[i].deferred_advance \in {0, 1}
  BY <1>1, CursorTyped, Zenon
<1> HIDE DEF n
<1>5. n \in 1..n
  BY <1>2
<1> QED
  BY <1>1, <1>2, <1>3, <1>4, <1>5, Zenon DEF n

LEMMA StackMade ==
    ASSUME NEW t \in Seq(Cursors),
           \A i \in 1..Len(t) :
              /\ t[i].offset <= Len(Program[t[i].commands])
              /\ i < Len(t) \/ t[i].deferred_advance # 0 =>
                    t[i].offset < Len(Program[t[i].commands])
    PROVE  StackOK(t)
<1>1. DOMAIN t = 1..Len(t)
  BY LenProperties
<1> QED
  BY <1>1, Zenon DEF StackOK

LEMMA LastMoves ==
    ASSUME ProgramAssumption, NEW st, StackOK(st), st # <<>>, NEW f \in Nat,
           f <= Len(Program[st[Len(st)].commands]), NEW t,
           Replaced(st, At0(st[Len(st)], f), t)
    PROVE  /\ StackOK(t) /\ t # <<>> /\ Len(t) = Len(st)
           /\ Below(t, Len(t)) =
                 StreamOf(st[Len(st)].commands, f, Len(st)) \o Below(st, Len(st) - 1)
           /\ t[Len(st)].deferred_advance = 0
           /\ \A i \in 1..(Len(st) - 1) : t[i] = st[i]
<1> DEFINE n == Len(st)
           c == At0(st[n], f)
<1>1. /\ st \in Seq(Cursors) /\ n \in Nat /\ n # 0 /\ n \in 1..n
      /\ st[n].commands \in Buffers
  BY StackParts, Zenon
<1>2. c.commands = st[n].commands /\ c.offset = f /\ c.deferred_advance = 0
  BY DEF At0
<1>8. c \in Cursors
  BY <1>1 DEF At0, Cursors
<1> HIDE DEF c
<1>3. Replaced(st, c, t)
  BY Zenon DEF c
<1>4. /\ t \in Seq(Cursors) /\ Len(t) = n /\ t # <<>> /\ t[n] = c
      /\ \A i \in 1..(n - 1) : t[i] = st[i]
      /\ Below(t, n - 1) = Below(st, n - 1)
  BY <1>1, <1>3, <1>8, LastReplaced
<1>5. StackOK(t)
  <2>1. ASSUME NEW i \in 1..n
        PROVE  /\ t[i].offset <= Len(Program[t[i].commands])
               /\ i < n \/ t[i].deferred_advance # 0 =>
                     t[i].offset < Len(Program[t[i].commands])
    <3>1. CASE i = n
      <4>1. t[i].offset = f /\ t[i].commands = st[n].commands /\ t[i].deferred_advance = 0
        BY <1>2, <1>4, <3>1, Zenon
      <4>2. ~(i < n)
        BY <1>1, <3>1
      <4> QED
        BY <4>1, <4>2, Zenon
    <3>2. CASE i # n
      <4>1. i \in 1..(n - 1)
        <5> HIDE DEF n
        <5> QED
          BY <1>1, <3>2
      <4>2. t[i] = st[i]
        BY <1>4, <4>1, Zenon
      <4> QED
        BY <4>2, StackParts, Zenon
    <3> QED
      BY <3>1, <3>2, Zenon
  <2> QED
    BY <1>4, <2>1, StackMade, Zenon
<1>6. Below(t, n) = LeftIn(t, n) \o Below(t, n - 1)
  BY <1>1, <1>4, <1>5, BelowFirst, Zenon
<1>7. LeftIn(t, n) = StreamOf(st[n].commands, f, n)
  <2>1. ~(n < n)
    BY <1>1
  <2> QED
    BY <1>2, <1>4, <2>1, Zenon DEF LeftIn
<1> QED
  BY <1>2, <1>4, <1>5, <1>6, <1>7, Zenon

LEMMA NestedKept ==
    ASSUME NEW st, NEW t, NEW depths, Nested(st, depths), t # <<>>, Len(t) = Len(st),
           \A i \in 1..(Len(st) - 1) : t[i] = st[i]
    PROVE  Nested(t, depths)
  BY Zenon DEF Nested

-----------------------------------------------------------------------------
(* Steps at the top of the stack.                                          *)
LEMMA NextShape ==
    ASSUME ProgramAssumption, ParserInv'
    PROVE  TodoShape'
  BY TodoParts, PTL

LEMMA TopMoves ==
    ASSUME ProgramAssumption, ParserInv, parser = "running",
           NEW f \in Nat, f <= Len(Commands),
           Replaced(m_buffer_stack, At0(cursor, f), m_buffer_stack'),
           UNCHANGED <<submissions, stop_depths, parser>>
    PROVE  ParserInv' /\ Todo' = StreamOf(cursor.commands, f, top) \o Rest
<1> DEFINE st == m_buffer_stack  t == m_buffer_stack'
           n == Len(st)
<1>1. StackOK(st) /\ Nested(st, stop_depths) /\ st # <<>> /\ TypeInv /\ DepthInv
  BY DEF ParserInv, DepthInv, Nested
<1>2. top = n /\ cursor = st[n] /\ f <= Len(Program[st[n].commands])
  BY DEF top, cursor, Commands
<1>3. Replaced(st, At0(st[n], f), t)
  BY <1>2, Zenon
<1>4. /\ StackOK(t) /\ t # <<>> /\ Len(t) = n
      /\ Below(t, n) = StreamOf(st[n].commands, f, n) \o Below(st, n - 1)
      /\ t[n].deferred_advance = 0 /\ \A i \in 1..(n - 1) : t[i] = st[i]
  BY <1>1, <1>2, <1>3, LastMoves
<1>5. Nested(t, stop_depths)
  BY <1>1, <1>4, NestedKept, Zenon
<1>6. ParserInv'
  <2>1. TypeInv'
    BY <1>1, <1>4 DEF TypeInv, StackOK
  <2>2. DepthInv'
    BY <1>1, <1>5 DEF DepthInv
  <2> QED
    BY <1>4, <2>1, <2>2 DEF ParserInv
<1>7. /\ Behind' = Behind /\ Behind \in Seq(Items) /\ Current' = Below(t, n)
  <2>1. TodoShape /\ TodoShape'
    BY <1>6, TodoParts, NextShape
  <2> QED
    BY <1>4, <2>1 DEF TodoShape
<1> DEFINE a == StreamOf(st[n].commands, f, n)  b == Below(st, n - 1)
<1>8. a \in Seq(Items) /\ b \in Seq(Items)
  <2>1. /\ n \in Nat /\ n # 0 /\ n \in 1..n /\ st[n].commands \in Buffers
    BY <1>1, StackParts, Zenon
  <2>2. f \in 0..Len(Program[st[n].commands])
    BY <1>2, <2>1, ProgramTyped
  <2>3. n - 1 \in 0..n
    BY <2>1
  <2> QED
    BY <1>1, <2>1, <2>2, <2>3, StreamTyped, BelowTyped, Zenon
<1>9. Todo' = (a \o b) \o Behind
  BY <1>4, <1>7 DEF Todo
<1> HIDE DEF a, b
<1>10. Regroups(a, b, Behind)
  BY <1>7, <1>8, Regroup
<1>11. Todo' = a \o (b \o Behind)
  BY <1>9, <1>10, Zenon DEF Regroups
<1> QED
  BY <1>2, <1>6, <1>11, Zenon DEF Rest, a, b

LEMMA AdvanceMoves ==
    ASSUME ProgramAssumption, ParserInv, AtPacket, NEW n \in Nat, Advance(n),
           cursor.offset + n <= Len(Commands), UNCHANGED submissions
    PROVE  ParserInv' /\ Todo' = SubSeq(Todo, n + 1, Len(Todo))
<1>1. StackOK(m_buffer_stack) /\ m_buffer_stack # <<>> /\ parser = "running"
  BY DEF ParserInv, DepthInv, Nested, AtPacket
<1>2. cursor \in Cursors /\ cursor.offset \in Nat /\ cursor.deferred_advance = 0
  BY <1>1, StackParts, Zenon DEF cursor, top, AtPacket
<1>3. Replaced(m_buffer_stack, At0(cursor, cursor.offset + n), m_buffer_stack')
  <2>1. m_buffer_stack' = [m_buffer_stack EXCEPT ![top] = [cursor EXCEPT !.offset = @ + n]]
    BY Zenon DEF Advance, cursor
  <2>2. [cursor EXCEPT !.offset = @ + n] = At0(cursor, cursor.offset + n)
    BY <1>2 DEF Cursors, At0
  <2> QED
    BY <2>1, <2>2, Zenon DEF Replaced, top
<1>4. cursor.offset + n \in Nat /\ UNCHANGED <<submissions, stop_depths, parser>>
  BY <1>2 DEF Advance
<1>5. ParserInv' /\ Todo' = StreamOf(cursor.commands, cursor.offset + n, top) \o Rest
  BY <1>1, <1>3, <1>4, TopMoves, Zenon
<1> QED
  BY <1>5, PacketFirst, Zenon

LEMMA TodoTail ==
    ASSUME ProgramAssumption, ParserInv, AtPacket
    PROVE  /\ cursor.offset + 1 <= Len(Commands)
           /\ SubSeq(Todo, 1 + 1, Len(Todo)) = Tail(Todo)
<1>1. StackOK(m_buffer_stack) /\ m_buffer_stack # <<>>
  BY DEF ParserInv, DepthInv, Nested, AtPacket
<1>2. cursor.commands \in Buffers /\ cursor.offset \in Nat
  BY <1>1, StackParts, Zenon DEF cursor, top
<1>3. Len(Commands) \in Nat
  BY <1>2, ProgramTyped DEF Commands
<1>4. cursor.offset + 1 <= Len(Commands) /\ 1 \in Nat
  BY <1>2, <1>3 DEF AtPacket
<1> QED
  BY <1>4, PacketFirst, Zenon

-----------------------------------------------------------------------------
(* Each packet of the parser is one of the stream.                         *)
LEMMA PacketReached ==
    ASSUME ProgramAssumption, ParserInv, AtPacket
    PROVE  /\ Stream!Reached /\ Stream!Packet = packet
           /\ Skips <=> Stream!Skipped
           /\ \A ops : Handles(ops) <=> Stream!Runs(ops)
<1>1. Todo # <<>> /\ Head(Todo) = [packet |-> packet, depth |-> top]
  BY PacketFirst, Zenon
<1>2. Stream!Packet = packet
  BY <1>1 DEF Stream!Packet, Todo
<1>3. Stream!Reached
  BY <1>1 DEF Stream!Reached, Todo, AtPacket
<1>4. Skips <=> Stream!Skipped
  BY <1>2, <1>3, Zenon DEF Skips, Stream!Skipped
<1>5. \A ops : Handles(ops) <=> Stream!Runs(ops)
  BY <1>2, <1>3, <1>4, Zenon DEF Handles, Stream!Runs
<1> QED
  BY <1>2, <1>3, <1>4, <1>5, Zenon

(* A packet that is passed by alone.                                       *)
LEMMA OnePacket ==
    ASSUME ProgramAssumption, ParserInv, AtPacket, Advance(1), UNCHANGED submissions
    PROVE  /\ ParserInv' /\ (Current \o Behind)' = Tail(Current \o Behind)
           /\ UNCHANGED (parser = "exited")
<1>1. 1 \in Nat
  OBVIOUS
<1>2. ParserInv' /\ Todo' = Tail(Todo)
  BY <1>1, AdvanceMoves, TodoTail, Zenon
<1>3. parser' = parser
  BY DEF Advance
<1> QED
  BY <1>2, <1>3, Zenon DEF Todo

LEMMA SkipMaps ==
    ASSUME ProgramAssumption, ParserInv, SkipPredicated
    PROVE  ParserInv' /\ Stream!Skip
<1>1. /\ AtPacket /\ Skips /\ Advance(1) /\ UNCHANGED submissions
      /\ UNCHANGED <<m_predicate_skip, memory, effects, submitted>>
  BY DEF SkipPredicated, Skips
<1>2. /\ ParserInv' /\ (Current \o Behind)' = Tail(Current \o Behind)
      /\ UNCHANGED (parser = "exited")
  BY <1>1, OnePacket, Zenon
<1>3. Stream!Skipped
  BY <1>1, PacketReached, Zenon
<1> QED
  BY <1>1, <1>2, <1>3, Zenon DEF Stream!Skip

LEMMA DrawMaps ==
    ASSUME ProgramAssumption, ParserInv, Draw
    PROVE  ParserInv' /\ Stream!Draw
<1>1. /\ AtPacket /\ Handles({"draw"}) /\ Advance(1) /\ UNCHANGED submissions
      /\ UNCHANGED <<m_predicate_skip, memory, submitted>>
      /\ effects' = Append(effects, packet.id)
  BY DEF Draw, Handles
<1>2. /\ ParserInv' /\ (Current \o Behind)' = Tail(Current \o Behind)
      /\ UNCHANGED (parser = "exited")
  BY <1>1, OnePacket, Zenon
<1>3. Stream!Runs({"draw"}) /\ Stream!Packet = packet
  BY <1>1, PacketReached, Zenon
<1> QED
  BY <1>1, <1>2, <1>3, Zenon DEF Stream!Draw

LEMMA StoreMaps ==
    ASSUME ProgramAssumption, ParserInv, WriteData
    PROVE  ParserInv' /\ Stream!Store
<1>1. /\ AtPacket /\ Handles({"store"}) /\ Advance(1) /\ UNCHANGED submissions
      /\ UNCHANGED <<m_predicate_skip, effects, submitted>>
      /\ memory' = [memory EXCEPT ![packet.word] = TRUE]
  BY DEF WriteData, Handles
<1>2. /\ ParserInv' /\ (Current \o Behind)' = Tail(Current \o Behind)
      /\ UNCHANGED (parser = "exited")
  BY <1>1, OnePacket, Zenon
<1>3. Stream!Runs({"store"}) /\ Stream!Packet = packet
  BY <1>1, PacketReached, Zenon
<1> QED
  BY <1>1, <1>2, <1>3, Zenon DEF Stream!Store

LEMMA PredicateMaps ==
    ASSUME ProgramAssumption, ParserInv, SetPredication
    PROVE  ParserInv' /\ Stream!Predicate
<1>1. /\ AtPacket /\ Handles({"predicate", "unpredicate"}) /\ Advance(1)
      /\ UNCHANGED submissions /\ UNCHANGED <<memory, effects>>
      /\ submitted' \in {submitted, Len(effects)}
      /\ m_predicate_skip' = (packet.op = "predicate" /\ memory[packet.word])
  BY Zenon DEF SetPredication, Handles
<1>2. /\ ParserInv' /\ (Current \o Behind)' = Tail(Current \o Behind)
      /\ UNCHANGED (parser = "exited")
  BY <1>1, OnePacket, Zenon
<1>3. Stream!Runs({"predicate", "unpredicate"}) /\ Stream!Packet = packet
  BY <1>1, PacketReached, Zenon
<1> QED
  BY <1>1, <1>2, <1>3, Zenon DEF Stream!Predicate

LEMMA PassMaps ==
    ASSUME ProgramAssumption, ParserInv, PacketPasses
    PROVE  ParserInv' /\ Stream!Pass
<1>1. /\ AtPacket /\ Handles({"nop", "wait"}) /\ Advance(1) /\ UNCHANGED submissions
      /\ UNCHANGED <<m_predicate_skip, memory, effects, submitted>>
      /\ packet.op = "wait" => memory[packet.word]
  BY Zenon DEF PacketPasses, Handles
<1>2. /\ ParserInv' /\ (Current \o Behind)' = Tail(Current \o Behind)
      /\ UNCHANGED (parser = "exited")
  BY <1>1, OnePacket, Zenon
<1>3. Stream!Runs({"nop", "wait"}) /\ Stream!Packet = packet
  BY <1>1, PacketReached, Zenon
<1> QED
  BY <1>1, <1>2, <1>3, Zenon DEF Stream!Pass

LEMMA CondMaps ==
    ASSUME ProgramAssumption, ParserInv, CondExec
    PROVE  ParserInv' /\ Stream!CondExec
<1> DEFINE n == IF memory[packet.word] THEN 1 ELSE 1 + packet.count
<1>1. /\ AtPacket /\ Handles({"cond"}) /\ Advance(n) /\ UNCHANGED submissions
      /\ UNCHANGED <<m_predicate_skip, memory, effects, submitted>>
  BY Zenon DEF CondExec, Handles
<1>2. packet.count \in Nat /\ cursor.offset + (1 + packet.count) <= Len(Commands)
  <2>1. StackOK(m_buffer_stack) /\ m_buffer_stack # <<>>
    BY <1>1 DEF ParserInv, DepthInv, Nested, AtPacket
  <2>2. cursor.commands \in Buffers /\ cursor.offset \in Nat
    BY <2>1, StackParts, Zenon DEF cursor, top
  <2>3. Len(Commands) \in Nat /\ DOMAIN Commands = 1..Len(Commands)
    BY <2>2, ProgramTyped DEF Commands
  <2>4. cursor.offset + 1 \in DOMAIN Commands
    BY <1>1, <2>2, <2>3 DEF AtPacket
  <2>5. packet.op = "cond"
    BY <1>1, Zenon DEF Handles
  <2>6. packet.count \in 0..(Len(Commands) - (cursor.offset + 1))
    BY <2>2, <2>4, <2>5, Zenon DEF ProgramAssumption, Buffers, Commands, packet
  <2> QED
    BY <2>2, <2>3, <2>6
<1>3. n \in Nat /\ cursor.offset + n <= Len(Commands)
  <2>1. 1 + packet.count \in Nat /\ 1 \in Nat
    BY <1>2
  <2> QED
    BY <1>1, <1>2, <2>1, TodoTail, Zenon
<1>4. ParserInv' /\ Todo' = SubSeq(Todo, n + 1, Len(Todo))
  BY <1>1, <1>3, AdvanceMoves, Zenon
<1>5. Todo' = IF memory[packet.word] THEN Tail(Todo)
              ELSE SubSeq(Todo, 2 + packet.count, Len(Todo))
  <2>1. CASE memory[packet.word]
    <3>1. n = 1
      BY <2>1, Zenon
    <3> QED
      BY <1>1, <1>4, <2>1, <3>1, TodoTail, Zenon
  <2>2. CASE ~memory[packet.word]
    <3>1. n = 1 + packet.count
      BY <2>2, Zenon
    <3>2. (1 + packet.count) + 1 = 2 + packet.count
      BY <1>2
    <3> QED
      BY <1>4, <2>2, <3>1, <3>2, Zenon
  <2> QED
    BY <2>1, <2>2, Zenon
<1>6. Stream!Runs({"cond"}) /\ Stream!Packet = packet
  BY <1>1, PacketReached, Zenon
<1>7. UNCHANGED (parser = "exited")
  BY <1>1 DEF Advance
<1> QED
  BY <1>1, <1>4, <1>5, <1>6, <1>7, Zenon DEF Stream!CondExec, Todo

-----------------------------------------------------------------------------
(* The steps between packets leave the stream alone.                       *)
Alone == UNCHANGED <<Current \o Behind, memory, m_predicate_skip, effects, submitted,
                     parser = "exited">>

LEMMA SteppedOver ==
    ASSUME NEW c \in Cursors, NEW f
    PROVE  [c EXCEPT !.offset = f, !.deferred_advance = 0] = At0(c, f)
<1>1. [c EXCEPT !.offset = f]
        = [commands |-> c.commands, offset |-> f, deferred_advance |-> c.deferred_advance]
  BY DEF Cursors
<1>2. ASSUME NEW a, NEW d
      PROVE  [[commands |-> a, offset |-> f, deferred_advance |-> d] EXCEPT
                !.deferred_advance = 0]
                = [commands |-> a, offset |-> f, deferred_advance |-> 0]
  OBVIOUS
<1> QED
  BY <1>1, <1>2 DEF At0

LEMMA DeferredMaps ==
    ASSUME ProgramAssumption, ParserInv, DeferredAdvance
    PROVE  ParserInv' /\ Alone
<1>1. StackOK(m_buffer_stack) /\ m_buffer_stack # <<>> /\ parser = "running"
  BY DEF ParserInv, DepthInv, Nested, DeferredAdvance
<1>2. /\ cursor \in Cursors /\ cursor.offset \in Nat /\ cursor.deferred_advance = 1
      /\ cursor.offset < Len(Commands) /\ Len(Commands) \in Nat /\ ~(top < top)
      /\ top = Len(m_buffer_stack)
  <2>1. /\ cursor \in Cursors /\ cursor.offset \in Nat /\ cursor.deferred_advance \in {0, 1}
        /\ cursor.deferred_advance # 0 /\ cursor.commands \in Buffers
        /\ cursor.offset < Len(Commands) /\ top \in Nat
    BY <1>1, StackParts, Zenon DEF cursor, top, Commands, DeferredAdvance
  <2>2. Len(Commands) \in Nat
    BY <2>1, ProgramTyped DEF Commands
  <2> QED
    BY <2>1, <2>2 DEF top
<1>3. Replaced(m_buffer_stack, At0(cursor, cursor.offset + 1), m_buffer_stack')
  <2>1. m_buffer_stack' = [m_buffer_stack EXCEPT
                ![top].offset = @ + cursor.deferred_advance, ![top].deferred_advance = 0]
    BY DEF DeferredAdvance
  <2>2. m_buffer_stack' = [m_buffer_stack EXCEPT
                ![top] = [cursor EXCEPT !.offset = @ + 1, !.deferred_advance = 0]]
    <3>1. m_buffer_stack \in Seq(Cursors) /\ top \in DOMAIN m_buffer_stack
      BY <1>1, <1>2, StackParts, Zenon
    <3> QED
      BY <1>2, <2>1, <3>1 DEF cursor
  <2>3. [cursor EXCEPT !.offset = @ + 1, !.deferred_advance = 0]
            = At0(cursor, cursor.offset + 1)
    BY <1>2, SteppedOver, Zenon
  <2> QED
    BY <2>2, <2>3, Zenon DEF Replaced, top
<1>4. /\ cursor.offset + 1 \in Nat /\ cursor.offset + 1 <= Len(Commands)
      /\ UNCHANGED <<submissions, stop_depths, parser>>
  BY <1>2 DEF DeferredAdvance
<1>5. ParserInv' /\ Todo' = StreamOf(cursor.commands, cursor.offset + 1, top) \o Rest
  BY <1>1, <1>3, <1>4, TopMoves, Zenon
<1>6. Todo = LeftIn(m_buffer_stack, top) \o Rest
  BY <1>1, StackTodo, Zenon
<1>7. LeftIn(m_buffer_stack, top) = StreamOf(cursor.commands, cursor.offset + 1, top)
  <2>1. cursor.deferred_advance # 0
    BY <1>2
  <2> QED
    BY <2>1, Zenon DEF LeftIn, cursor
<1>8. Todo' = Todo
  BY <1>5, <1>6, <1>7, Zenon
<1> QED
  BY <1>5, <1>8 DEF Alone, Todo, DeferredAdvance

UnwoundTo(st, depths, t) ==
    t = [i \in DOMAIN st |-> IF \E k \in DOMAIN depths : depths[k] = i
                             THEN [st[i] EXCEPT !.deferred_advance = 1] ELSE st[i]]

LEMMA UnwoundParts ==
    ASSUME NEW st, StackOK(st), st # <<>>, NEW depths, Nested(st, depths),
           st[Len(st)].deferred_advance = 0, NEW t,
           UnwoundTo(st, depths, t)
    PROVE  /\ StackOK(t) /\ Len(t) = Len(st) /\ t # <<>> /\ Marked(t)
           /\ Below(t, Len(t)) = Below(st, Len(st))
<1> DEFINE n == Len(st)
           marked(c) == [commands |-> c.commands, offset |-> c.offset, deferred_advance |-> 1]
           e(i) == IF Calling(depths, i) THEN marked(st[i]) ELSE st[i]
<1>1. /\ st \in Seq(Cursors) /\ n \in Nat /\ n # 0 /\ DOMAIN st = 1..n /\ n \in 1..n
      /\ \A i \in 1..n :
            /\ st[i] \in Cursors /\ st[i].commands \in Buffers /\ st[i].offset \in Nat
            /\ st[i].deferred_advance \in {0, 1}
            /\ st[i].offset <= Len(Program[st[i].commands])
            /\ i < n \/ st[i].deferred_advance # 0 =>
                  st[i].offset < Len(Program[st[i].commands])
  BY StackParts, Zenon
<1>2. /\ \A k \in DOMAIN depths : depths[k] < n
      /\ \A i \in 1..(n - 1) : st[i].deferred_advance = 0 <=> Calling(depths, i)
  BY DEF Nested
<1>3. t = [i \in 1..n |-> e(i)]
  <2>1. \A i \in 1..n : [st[i] EXCEPT !.deferred_advance = 1] = marked(st[i])
    BY <1>1 DEF Cursors
  <2> HIDE DEF marked
  <2> QED
    BY <1>1, <2>1, Zenon DEF Calling, UnwoundTo
<1>4. ~Calling(depths, n)
  <2> HIDE DEF n
  <2> QED
    BY <1>1, <1>2 DEF Calling
<1>5. \A i \in 1..n : e(i) \in Cursors /\ e(i).commands = st[i].commands
                      /\ e(i).offset = st[i].offset
  BY <1>1 DEF Cursors
<1>6. \A i \in 1..(n - 1) : e(i).deferred_advance = 1 /\ i \in 1..n /\ i < n /\ i # n
  <2>1. ASSUME NEW i \in 1..(n - 1) PROVE e(i).deferred_advance = 1
    <3>1. i \in 1..n
      <4> HIDE DEF n
      <4> QED
        BY <1>1
    <3>2. CASE Calling(depths, i)
      BY <3>2
    <3>3. CASE ~Calling(depths, i)
      <4>1. st[i].deferred_advance # 0 /\ st[i].deferred_advance \in {0, 1}
        BY <1>1, <1>2, <3>1, <3>3, Zenon
      <4> QED
        BY <3>3, <4>1
    <3> QED
      BY <3>2, <3>3
  <2> HIDE DEF n, e
  <2> QED
    BY <1>1, <2>1
<1>7. e(n) = st[n]
  BY <1>4, Zenon
<1> HIDE DEF n, e
<1>8. t \in Seq(Cursors) /\ Len(t) = n /\ \A i \in 1..n : t[i] = e(i)
  BY <1>1, <1>3, <1>5
<1>9. t # <<>>
  BY <1>1, <1>8
<1>10. Marked(t)
  <2>1. ASSUME NEW i \in 1..n PROVE t[i].deferred_advance = IF i < n THEN 1 ELSE 0
    <3>1. CASE i = n
      <4>1. t[i].deferred_advance = 0
        BY <1>7, <1>8, <3>1, Zenon DEF n
      <4>2. ~(i < n)
        BY <1>1, <3>1
      <4> QED
        BY <4>1, <4>2
    <3>2. CASE i # n
      <4>1. i \in 1..(n - 1)
        BY <1>1, <3>2
      <4> QED
        BY <1>6, <1>8, <4>1
    <3> QED
      BY <3>1, <3>2
  <2> QED
    BY <1>8, <2>1, Zenon DEF Marked
<1>11. StackOK(t)
  <2>1. ASSUME NEW i \in 1..n
        PROVE  /\ t[i].offset <= Len(Program[t[i].commands])
               /\ i < n \/ t[i].deferred_advance # 0 =>
                     t[i].offset < Len(Program[t[i].commands])
    <3>1. t[i].commands = st[i].commands /\ t[i].offset = st[i].offset
      BY <1>5, <1>8, Zenon
    <3>2. t[i].deferred_advance = IF i < n THEN 1 ELSE 0
      BY <1>8, <1>10, Zenon DEF Marked
    <3> QED
      BY <1>1, <3>1, <3>2, Zenon
  <2> QED
    BY <1>8, <2>1, StackMade, Zenon
<1>12. \A i \in 1..n : LeftIn(t, i) = LeftIn(st, i)
  <2>1. ASSUME NEW i \in 1..n PROVE LeftIn(t, i) = LeftIn(st, i)
    <3>1. CASE i = n
      <4>1. t[i] = st[i] /\ Len(t) = Len(st)
        BY <1>7, <1>8, <3>1, Zenon DEF n
      <4> QED
        BY <4>1, LeftSame, Zenon
    <3>2. CASE i # n
      <4>1. i < n
        BY <1>1, <3>2
      <4>2. t[i].commands = st[i].commands /\ t[i].offset = st[i].offset
            /\ Len(t) = n /\ Len(st) = n
        BY <1>5, <1>8, Zenon DEF n
      <4> QED
        <5>1. LeftIn(t, i) = StreamOf(st[i].commands, st[i].offset + 1, i)
          BY <4>1, <4>2, Zenon DEF LeftIn
        <5>2. LeftIn(st, i) = StreamOf(st[i].commands, st[i].offset + 1, i)
          BY <4>1, <4>2, Zenon DEF LeftIn
        <5> QED
          BY <5>1, <5>2, Zenon
    <3> QED
      BY <3>1, <3>2
  <2> QED
    BY <2>1, Zenon
<1>13. Below(t, n) = Below(st, n)
  BY <1>1, <1>12, BelowSame, Zenon
<1> QED
  BY <1>8, <1>9, <1>10, <1>11, <1>13, Zenon DEF n

LEMMA SuspendMaps ==
    ASSUME ProgramAssumption, ParserInv, Suspend
    PROVE  ParserInv' /\ Alone
<1> DEFINE st == m_buffer_stack  t == m_buffer_stack'
<1>1. /\ StackOK(st) /\ st # <<>> /\ parser = "running" /\ Nested(st, stop_depths)
      /\ submissions # <<>> /\ TypeInv
  BY DEF ParserInv, DepthInv, Nested, Suspend, Handles, AtPacket
<1>2. st[Len(st)].deferred_advance = 0 /\ parser' = "returned" /\ stop_depths' = <<>>
      /\ submissions' = submissions
  BY DEF Suspend, Handles, AtPacket, cursor, top
<1>3. UnwoundTo(st, stop_depths, t)
  BY Zenon DEF Suspend, Unwound, UnwoundTo
<1>4. /\ StackOK(t) /\ Len(t) = Len(st) /\ t # <<>> /\ Marked(t)
      /\ Below(t, Len(t)) = Below(st, Len(st))
  BY <1>1, <1>2, <1>3, UnwoundParts
<1>5. ParserInv'
  <2>1. TypeInv'
    BY <1>1, <1>2, <1>4 DEF TypeInv, StackOK
  <2>2. DepthInv'
    BY <1>1, <1>2, <1>4 DEF DepthInv
  <2> QED
    BY <1>4, <2>1, <2>2 DEF ParserInv
<1>6. Current' = Current /\ Behind' = Behind
  <2>1. TodoShape /\ TodoShape'
    BY <1>5, TodoParts, NextShape
  <2> QED
    BY <1>1, <1>2, <1>4, <2>1 DEF TodoShape
<1>7. UNCHANGED <<memory, m_predicate_skip, effects, submitted>>
      /\ (parser = "exited")' = (parser = "exited")
  BY <1>1, <1>2 DEF Suspend
<1> QED
  BY <1>5, <1>6, <1>7 DEF Alone

LEMMA FirstCursor ==
    ASSUME ProgramAssumption, NEW b \in Buffers
    PROVE  /\ StackOK(<<Cursor(b)>>) /\ <<Cursor(b)>> # <<>>
           /\ Below(<<Cursor(b)>>, Len(<<Cursor(b)>>)) = StreamOf(b, 0, 1)
           /\ Nested(<<Cursor(b)>>, <<0>>)
<1> DEFINE c == Cursor(b)
           st == <<c>>
<1>1. /\ c \in Cursors /\ c.commands = b /\ c.offset = 0 /\ c.deferred_advance = 0
  BY DEF Cursor, Cursors
<1> HIDE DEF c
<1>2. /\ st \in Seq(Cursors) /\ Len(st) = 1 /\ st[1] = c /\ st # <<>>
      /\ \A i \in 1..1 : i = 1 /\ ~(i < 1)
  BY <1>1
<1> HIDE DEF st
<1>3. StackOK(st)
  <2>1. 0 <= Len(Program[b])
    BY ProgramTyped
  <2> QED
    BY <1>1, <1>2, <2>1, StackMade
<1>4. Below(st, 1) = LeftIn(st, 1) \o Below(st, 1 - 1)
  <2>1. 1 \in 1..Len(st)
    BY <1>2
  <2> QED
    BY <1>3, <2>1, BelowFirst
<1>5. Below(st, 1) = LeftIn(st, 1) \o <<>>
  <2>1. 1 - 1 = 0
    OBVIOUS
  <2> QED
    BY <1>4, <2>1, BelowNone, Zenon
<1>6. LeftIn(st, 1) = StreamOf(b, 0, 1)
  <2>1. ~(1 < 1)
    OBVIOUS
  <2> QED
    BY <1>1, <1>2, <2>1, Zenon DEF LeftIn
<1>7. StreamOf(b, 0, 1) \in Seq(Items)
  <2>1. 0 \in 0..Len(Program[b]) /\ 1 \in Nat
    BY ProgramTyped
  <2> QED
    BY <2>1, StreamTyped, Zenon
<1>8. Below(st, Len(st)) = StreamOf(b, 0, 1)
  BY <1>2, <1>5, <1>6, <1>7, ConcatEmptySeq
<1>9. Nested(st, <<0>>)
  BY <1>2 DEF Nested
<1> QED
  BY <1>2, <1>3, <1>8, <1>9, Zenon DEF st, c

LEMMA ProcessMaps ==
    ASSUME ProgramAssumption, ParserInv, Process
    PROVE  ParserInv' /\ Alone
<1> DEFINE st == m_buffer_stack  t == m_buffer_stack'
           b == Head(submissions)
<1>1. /\ TypeInv /\ StackOK(st) /\ parser = "idle" /\ submissions # <<>> /\ Marked(st)
      /\ submissions' = submissions /\ stop_depths' = <<0>> /\ parser' = "running"
      /\ UNCHANGED <<m_predicate_skip, memory, effects, submitted>>
  BY DEF ParserInv, DepthInv, Process
<1>2. b \in Buffers
  BY <1>1, AllFirst DEF TypeInv
<1>3. /\ StackOK(t) /\ t # <<>> /\ Nested(t, stop_depths')
      /\ Below(t, Len(t)) = IF st = <<>> THEN StreamOf(b, 0, 1) ELSE Below(st, Len(st))
  <2>1. CASE st = <<>>
    <3>1. t = <<Cursor(b)>>
      BY <2>1 DEF Process
    <3> QED
      BY <1>1, <1>2, <2>1, <3>1, FirstCursor
  <2>2. CASE st # <<>>
    <3>1. t = st
      BY <2>2 DEF Process
    <3>2. Nested(st, <<0>>)
      <4>1. Len(st) \in Nat /\ Len(st) # 0
        BY <1>1, <2>2, StackParts
      <4>2. \A i \in 1..(Len(st) - 1) : i \in 1..Len(st) /\ i < Len(st) /\ i # 0
        BY <4>1
      <4>3. \A i \in 1..(Len(st) - 1) : st[i].deferred_advance = 1
        BY <1>1, <4>2 DEF Marked
      <4> HIDE DEF st
      <4> QED
        BY <2>2, <4>1, <4>2, <4>3 DEF Nested, Calling
    <3> QED
      BY <1>1, <2>2, <3>1, <3>2
  <2> QED
    BY <2>1, <2>2
<1>4. ParserInv'
  <2>1. stop_depths' \in Seq(Nat)
    BY <1>1
  <2>2. TypeInv'
    BY <1>1, <1>3, <2>1 DEF TypeInv, StackOK
  <2>3. DepthInv'
    BY <1>1, <1>3 DEF DepthInv
  <2> QED
    BY <1>3, <2>2, <2>3 DEF ParserInv
<1>5. Current' = Current /\ Behind' = Behind
  <2>1. TodoShape /\ TodoShape'
    BY <1>4, TodoParts, NextShape
  <2> QED
    BY <1>1, <1>3, <2>1 DEF TodoShape
<1> QED
  BY <1>1, <1>4, <1>5 DEF Alone

LEMMA RoundMaps ==
    ASSUME ProgramAssumption, ParserInv, AnotherRound
    PROVE  ParserInv' /\ Alone
<1>1. ParserInv'
  BY DEF ParserInv, TypeInv, DepthInv, AnotherRound
<1>2. TodoShape /\ TodoShape'
  BY <1>1, TodoParts, NextShape
<1>3. Current' = Current /\ Behind' = Behind
  BY <1>2 DEF TodoShape, AnotherRound, complete
<1> QED
  BY <1>1, <1>3 DEF Alone, AnotherRound

(* The next submission begins where the last one ended.                    *)
LEMMA SliceMaps ==
    ASSUME ProgramAssumption, ParserInv, SliceEnds
    PROVE  ParserInv' /\ (Alone \/ Stream!Flush)
<1>1. /\ TypeInv /\ StackOK(m_buffer_stack) /\ Marked(m_buffer_stack)
      /\ parser = "returned" /\ parser' = "idle" /\ submissions # <<>>
      /\ m_buffer_stack' = m_buffer_stack /\ stop_depths' = stop_depths
      /\ submissions' = IF m_buffer_stack = <<>> THEN Tail(submissions) ELSE submissions
      /\ submitted' \in {submitted, Len(effects)}
      /\ UNCHANGED <<m_predicate_skip, memory, effects>>
  BY DEF ParserInv, DepthInv, SliceEnds, complete
<1>2. /\ submissions \in Seq(Buffers) /\ Tail(submissions) \in Seq(Buffers)
  BY <1>1, AllFirst DEF TypeInv
<1>3. ParserInv'
  <2>1. TypeInv'
    BY <1>1, <1>2 DEF TypeInv
  <2>2. DepthInv'
    BY <1>1 DEF DepthInv
  <2> QED
    BY <1>1, <2>1, <2>2 DEF ParserInv
<1>4. TodoShape /\ TodoShape'
  BY <1>3, TodoParts, NextShape
<1>5. (Current \o Behind)' = Current \o Behind
  <2>1. CASE m_buffer_stack # <<>>
    BY <1>1, <1>4, <2>1 DEF TodoShape
  <2>2. CASE m_buffer_stack = <<>>
    <3> DEFINE rest == Tail(submissions)
    <3>1. submissions' = rest
      BY <1>1, <2>2
    <3>2. Below(m_buffer_stack, Len(m_buffer_stack)) = <<>>
      <4>1. Len(m_buffer_stack) = 0
        BY <2>2
      <4> QED
        BY <4>1, BelowNone
    <3>3. Current = <<>> /\ Behind = AllOf(rest)
      BY <1>1, <1>4, <3>2, Zenon DEF TodoShape
    <3>4. Current \o Behind = AllOf(rest)
      <4>1. AllOf(rest) \in Seq(Items)
        BY <1>2, AllTyped
      <4> QED
        BY <3>3, <4>1, ConcatEmptySeq
    <3>5. CASE rest = <<>>
      <4>1. Current' = <<>> /\ Behind' = <<>>
        BY <1>1, <1>4, <3>1, <3>2, <3>5 DEF TodoShape
      <4>2. <<>> \o <<>> = <<>>
        OBVIOUS
      <4> QED
        BY <3>4, <3>5, <4>1, <4>2, AllNone
    <3>6. CASE rest # <<>>
      <4>1. Current' = StreamOf(Head(rest), 0, 1) /\ Behind' = AllOf(Tail(rest))
        BY <1>1, <1>4, <2>2, <3>1, <3>6 DEF TodoShape
      <4>2. AllOf(rest) = StreamOf(Head(rest), 0, 1) \o AllOf(Tail(rest))
        BY <1>2, <3>6, AllFirst
      <4> QED
        BY <3>4, <4>1, <4>2, Zenon
    <3> QED
      BY <3>5, <3>6
  <2> QED
    BY <2>1, <2>2
<1>6. (parser = "exited")' = (parser = "exited")
  BY <1>1
<1> QED
  BY <1>1, <1>3, <1>5, <1>6 DEF Alone, Stream!Flush

-----------------------------------------------------------------------------
(* A buffer ends and its caller goes on.                                   *)
LEMMA FrontParts ==
    ASSUME NEW S, NEW s \in Seq(S), s # <<>>
    PROVE  /\ Front(s) \in Seq(S) /\ Len(Front(s)) = Len(s) - 1
           /\ \A i \in 1..(Len(s) - 1) : Front(s)[i] = s[i]
           /\ Len(s) = 1 => Front(s) = <<>>
<1>1. Len(s) \in Nat /\ Len(s) # 0
  BY LenProperties, EmptySeq
<1>2. Front(s) \in Seq(S) /\ Len(Front(s)) = Len(s) - 1
      /\ \A i \in 1..(Len(s) - 1) : Front(s)[i] = s[i]
  <2> DEFINE m == Len(s)  n == m - 1
  <2>0. m \in Nat /\ m # 0
    BY <1>1
  <2> HIDE DEF m
  <2>1. /\ n \in Nat /\ \A i \in 1..n : i \in 1..m /\ (1 + i) - 1 = i
        /\ n \in Int /\ 1 \in Int /\ (n - 1) + 1 = n
        /\ (IF 1 <= n THEN (n - 1) + 1 ELSE 0) = n
    BY <2>0
  <2>2. \A i \in 1..n : s[i] \in S
    BY <2>1, ElementOfSeq, Zenon DEF m
  <2> HIDE DEF n
  <2>3. /\ SubSeq(s, 1, n) \in Seq(S) /\ Len(SubSeq(s, 1, n)) = n
        /\ \A i \in 1..n : SubSeq(s, 1, n)[i] = s[i]
    BY <2>1, <2>2, SubSeqProperties
  <2> QED
    BY <2>3 DEF Front, n, m
<1>3. Len(s) = 1 => Front(s) = <<>>
  BY <1>2, EmptySeq
<1> QED
  BY <1>2, <1>3

LEMMA FrontStack ==
    ASSUME ProgramAssumption, NEW st, StackOK(st), st # <<>>
    PROVE  LET u == Front(st)  n == Len(st) IN
           /\ StackOK(u) /\ Len(u) = n - 1 /\ \A i \in 1..(n - 1) : u[i] = st[i]
           /\ Below(u, n - 2) = Below(st, n - 2)
<1> DEFINE u == Front(st)  n == Len(st)
<1>1. /\ st \in Seq(Cursors) /\ n \in Nat /\ n # 0
      /\ \A i \in 1..n : /\ st[i].offset <= Len(Program[st[i].commands])
                         /\ i < n \/ st[i].deferred_advance # 0 =>
                               st[i].offset < Len(Program[st[i].commands])
  BY StackParts, Zenon
<1>2. u \in Seq(Cursors) /\ Len(u) = n - 1 /\ \A i \in 1..(n - 1) : u[i] = st[i]
  BY <1>1, FrontParts
<1> HIDE DEF u
<1>3. StackOK(u)
  <2>1. ASSUME NEW i \in 1..(n - 1)
        PROVE  /\ u[i].offset <= Len(Program[u[i].commands])
               /\ i < Len(u) \/ u[i].deferred_advance # 0 =>
                     u[i].offset < Len(Program[u[i].commands])
    <3>1. i \in 1..n /\ i < n
      BY <1>1
    <3> QED
      BY <1>1, <1>2, <3>1, Zenon
  <2> QED
    BY <1>2, <2>1, StackMade
<1>4. Below(u, n - 2) = Below(st, n - 2)
  <2>1. CASE n = 1
    <3> DEFINE none == [k \in 1..(n - 2) |-> <<>>]
    <3>1. 1..(n - 2) = {}
      BY <2>1
    <3>2. \A x : [k \in 1..(n - 2) |-> LeftIn(x, (n - 2) + 1 - k)]
                    = [k \in {} |-> LeftIn(x, (n - 2) + 1 - k)]
      BY <3>1, Zenon
    <3>3. [k \in {} |-> LeftIn(u, (n - 2) + 1 - k)] = [k \in {} |-> LeftIn(st, (n - 2) + 1 - k)]
      OBVIOUS
    <3> QED
      BY <3>2, <3>3, Zenon DEF Below
  <2>2. CASE n # 1
    <3>1. n - 2 \in Nat /\ \A i \in 1..(n - 2) : i \in 1..(n - 1) /\ i < n - 1 /\ i < n
      <4>1. n \in Nat /\ n # 0 /\ n # 1
        BY <1>1, <2>2
      <4> HIDE DEF n
      <4> QED
        BY <4>1
    <3>2. ASSUME NEW i \in 1..(n - 2) PROVE LeftIn(u, i) = LeftIn(st, i)
      <4>1. u[i] = st[i] /\ i < Len(u) /\ i < Len(st)
        BY <1>2, <3>1
      <4>2. LeftIn(u, i) = StreamOf(st[i].commands, st[i].offset + 1, i)
        BY <4>1, Zenon DEF LeftIn
      <4>3. LeftIn(st, i) = StreamOf(st[i].commands, st[i].offset + 1, i)
        BY <4>1, Zenon DEF LeftIn
      <4> QED
        BY <4>2, <4>3, Zenon
    <3> QED
      BY <3>1, <3>2, BelowSame, Zenon
  <2> QED
    BY <2>1, <2>2
<1> QED
  BY <1>2, <1>3, <1>4, Zenon DEF u

(* At the end of its buffer the top has nothing left.                      *)
LEMMA EndOfTop ==
    ASSUME ProgramAssumption, NEW st, StackOK(st), st # <<>>,
           st[Len(st)].deferred_advance = 0,
           st[Len(st)].offset = Len(Program[st[Len(st)].commands])
    PROVE  Below(st, Len(st)) = Below(st, Len(st) - 1)
<1> DEFINE n == Len(st)
<1>1. /\ n \in Nat /\ n # 0 /\ n \in 1..n /\ st[n].commands \in Buffers
  BY StackParts
<1>2. LeftIn(st, n) = <<>>
  <2>1. ~(n < n)
    BY <1>1
  <2>2. LeftIn(st, n) = StreamOf(st[n].commands, Len(Program[st[n].commands]), n)
    BY <2>1, Zenon DEF LeftIn
  <2> QED
    BY <1>1, <2>2, StreamEmpty
<1>3. Below(st, n) = <<>> \o Below(st, n - 1)
  BY <1>1, <1>2, BelowFirst, Zenon
<1>4. Below(st, n - 1) \in Seq(Items)
  <2>1. n - 1 \in 0..n
    BY <1>1
  <2> QED
    BY <2>1, BelowTyped
<1> QED
  BY <1>3, <1>4, ConcatEmptySeq

(* The active call of the top is the last one.                             *)
LEMMA LastCall ==
    ASSUME NEW st, NEW depths \in Seq(Nat), Nested(st, depths), Len(st) \in Nat
    PROVE  /\ Last(depths) \in Nat /\ Last(depths) < Len(st)
           /\ Len(st) = 1 => Last(depths) = 0
           /\ Last(depths) # 0 => Len(depths) # 1 /\ Front(depths) # <<>>
           /\ \A i \in 1..(Len(st) - 1) :
                 Calling(depths, i) <=> i = Last(depths) \/ Calling(Front(depths), i)
           /\ \A k \in DOMAIN Front(depths) : Front(depths)[k] < Last(depths)
           /\ \A i : Calling(depths, i) => i <= Last(depths)
<1>1. /\ st # <<>> /\ depths # <<>> /\ depths[1] = 0
      /\ \A k \in DOMAIN depths : depths[k] < Len(st)
      /\ \A j, k \in DOMAIN depths : j < k => depths[j] < depths[k]
  BY DEF Nested
<1> DEFINE d == Len(depths)  u == Front(depths)
<1>2. d \in Nat /\ d # 0 /\ DOMAIN depths = 1..d /\ Last(depths) = depths[d]
  BY <1>1, LenProperties, EmptySeq DEF Last
<1>3. u \in Seq(Nat) /\ Len(u) = d - 1 /\ \A i \in 1..(d - 1) : u[i] = depths[i]
  BY <1>1, FrontParts
<1>4. DOMAIN u = 1..(d - 1)
  BY <1>3, LenProperties
<1>5. \A k \in 1..d : depths[k] \in Nat
  BY ElementOfSeq
<1> HIDE DEF d, u
<1>6. /\ d \in 1..d /\ \A k \in 1..(d - 1) : k \in 1..d /\ k < d
      /\ \A k \in 1..d : k = d \/ k \in 1..(d - 1)
  BY <1>2
<1>7. \A k \in DOMAIN u : u[k] < Last(depths)
  BY <1>1, <1>2, <1>3, <1>4, <1>6, Zenon
<1>8. \A i : Calling(depths, i) <=> i = Last(depths) \/ Calling(u, i)
  BY <1>2, <1>3, <1>4, <1>6, Zenon DEF Calling
<1>9. Last(depths) \in Nat /\ Last(depths) < Len(st)
  BY <1>1, <1>2, <1>5, <1>6, Zenon
<1>10. Len(st) = 1 => Last(depths) = 0
  BY <1>9
<1>11. Last(depths) # 0 => d # 1 /\ u # <<>>
  <2>1. ASSUME Last(depths) # 0 PROVE d # 1
    BY <1>1, <1>2, <2>1, Zenon
  <2>2. d # 1 => u # <<>>
    <3>1. d # 1 => Len(u) # 0
      BY <1>2, <1>3
    <3> QED
      BY <3>1
  <2> QED
    BY <2>1, <2>2
<1>12. \A i : Calling(depths, i) => i <= Last(depths)
  <2>1. ASSUME NEW k \in 1..d PROVE depths[k] <= depths[d]
    <3>1. CASE k = d
      BY <1>5, <3>1
    <3>2. CASE k # d
      <4>1. depths[k] < depths[d]
        BY <1>1, <1>2, <1>6, <3>2, Zenon
      <4> QED
        BY <1>5, <1>6, <4>1
    <3> QED
      BY <3>1, <3>2
  <2> QED
    BY <1>2, <2>1, Zenon DEF Calling
<1> QED
  BY <1>7, <1>8, <1>9, <1>10, <1>11, <1>12, Zenon DEF d, u

(* A caller that was suspended is marked and has its packet behind it.     *)
LEMMA PopMarked ==
    ASSUME ProgramAssumption, NEW st, StackOK(st), st # <<>>, NEW depths \in Seq(Nat),
           Nested(st, depths), Len(st) - 1 # Last(depths)
    PROVE  /\ StackOK(Front(st)) /\ Front(st) # <<>> /\ Nested(Front(st), depths)
           /\ Below(Front(st), Len(Front(st))) = Below(st, Len(st) - 1)
<1> DEFINE n == Len(st)  u == Front(st)  d == Last(depths)
<1>1. /\ StackOK(u) /\ Len(u) = n - 1 /\ \A i \in 1..(n - 1) : u[i] = st[i]
      /\ Below(u, n - 2) = Below(st, n - 2)
  BY FrontStack
<1>2. n \in Nat /\ n # 0
  BY StackParts
<1>3. d \in Nat /\ d < n /\ (n = 1 => d = 0)
  BY <1>2, LastCall, Zenon
<1>4. \A i : Calling(depths, i) => i <= d
  BY <1>2, LastCall, Zenon
<1>5. n - 1 # d
  OBVIOUS
<1> HIDE DEF n, d
<1>6. /\ n # 1 /\ d < n - 1 /\ n - 1 \in Nat /\ n - 2 \in Nat /\ n - 1 \in 1..(n - 1)
      /\ n - 1 < n /\ (n - 1) - 1 = n - 2 /\ n - 1 \in 1..n
      /\ \A i \in 1..(n - 2) : i \in 1..(n - 1)
  BY <1>2, <1>3, <1>5
<1>7. u # <<>>
  <2>1. Len(u) # 0
    BY <1>1, <1>2, <1>6
  <2> QED
    BY <2>1
<1>8. Nested(u, depths)
  <2>1. /\ depths # <<>> /\ depths[1] = 0
        /\ \A j, k \in DOMAIN depths : j < k => depths[j] < depths[k]
        /\ \A i \in 1..(n - 1) : st[i].deferred_advance = 0 <=> Calling(depths, i)
    BY Zenon DEF Nested, n
  <2>2. \A k \in DOMAIN depths : depths[k] < Len(u)
    <3>1. ASSUME NEW k \in DOMAIN depths PROVE depths[k] < Len(u)
      <4>1. depths[k] \in Nat
        BY ElementOfSeq, LenProperties
      <4>2. depths[k] <= d
        BY <1>4, Zenon DEF Calling
      <4> QED
        BY <1>1, <1>2, <1>3, <1>6, <4>1, <4>2
    <3> QED
      BY <3>1
  <2>3. \A i \in 1..(Len(u) - 1) : u[i].deferred_advance = 0 <=> Calling(depths, i)
    <3>1. Len(u) - 1 = n - 2
      BY <1>1, <1>6
    <3> QED
      BY <1>1, <1>6, <2>1, <3>1, Zenon
  <2> QED
    BY <1>7, <2>1, <2>2, <2>3, Zenon DEF Nested
<1>9. LeftIn(u, n - 1) = LeftIn(st, n - 1)
  <2>1. ~Calling(depths, n - 1)
    <3>1. ~(n - 1 <= d)
      BY <1>2, <1>3, <1>6
    <3> QED
      BY <1>4, <3>1, Zenon
  <2>2. st[n - 1].deferred_advance # 0
    BY <1>6, <2>1, Zenon DEF Nested, n
  <2>3. u[n - 1] = st[n - 1]
    BY <1>1, <1>6, Zenon
  <2>4. LeftIn(u, n - 1) = StreamOf(st[n - 1].commands, st[n - 1].offset + 1, n - 1)
    BY <2>2, <2>3, Zenon DEF LeftIn
  <2>5. LeftIn(st, n - 1) = StreamOf(st[n - 1].commands, st[n - 1].offset + 1, n - 1)
    BY <2>2, <2>3, Zenon DEF LeftIn
  <2> QED
    BY <2>4, <2>5, Zenon
<1>10. Below(u, n - 1) = Below(st, n - 1)
  <2>1. Below(u, n - 1) = LeftIn(u, n - 1) \o Below(u, (n - 1) - 1)
    BY <1>1, <1>6, BelowFirst
  <2>2. Below(st, n - 1) = LeftIn(st, n - 1) \o Below(st, (n - 1) - 1)
    BY <1>6, BelowFirst DEF n
  <2> QED
    BY <1>1, <1>6, <1>9, <2>1, <2>2, Zenon
<1> QED
  BY <1>1, <1>7, <1>8, <1>10, Zenon DEF n

(* A caller whose call returns steps over its packet.                      *)
PoppedTo(st, t) == t = [Front(st) EXCEPT ![Len(st) - 1].offset = @ + 1]

LEMMA PopCalling ==
    ASSUME ProgramAssumption, NEW st, StackOK(st), st # <<>>, NEW depths \in Seq(Nat),
           Nested(st, depths), Len(st) - 1 = Last(depths), Last(depths) # 0,
           NEW t, PoppedTo(st, t)
    PROVE  /\ StackOK(t) /\ t # <<>> /\ Nested(t, Front(depths))
           /\ Below(t, Len(t)) = Below(st, Len(st) - 1)
<1> DEFINE n == Len(st)  u == Front(st)  d == Last(depths)  v == Front(depths)
           c == st[n - 1]
<1>1. /\ StackOK(u) /\ Len(u) = n - 1 /\ \A i \in 1..(n - 1) : u[i] = st[i]
      /\ Below(u, n - 2) = Below(st, n - 2)
  BY FrontStack
<1>2. n \in Nat /\ n # 0
  BY StackParts, Zenon
<1>3. n - 1 = d /\ d # 0
  OBVIOUS
<1>4. /\ Len(depths) # 1 /\ v # <<>>
      /\ \A i \in 1..(n - 1) : Calling(depths, i) <=> i = d \/ Calling(v, i)
      /\ \A k \in DOMAIN v : v[k] < d
  BY <1>2, <1>3, LastCall, Zenon
<1>5. /\ n - 1 \in Nat /\ n - 2 \in Nat /\ n - 1 \in 1..(n - 1)
      /\ n - 1 < n /\ (n - 1) - 1 = n - 2 /\ n - 1 \in 1..n
      /\ \A i \in 1..(n - 2) : i \in 1..(n - 1) /\ i # n - 1
  <2>1. n \in Nat /\ n # 0 /\ n - 1 # 0
    BY <1>2, <1>3
  <2> HIDE DEF n
  <2> QED
    BY <2>1
<1>6. u[n - 1] = c /\ u # <<>>
  <2>1. Len(u) # 0
    BY <1>1, <1>3
  <2>2. u # <<>>
    <3>1. Len(<<>>) = 0
      OBVIOUS
    <3> QED
      BY <2>1, <3>1, Zenon
  <2>3. u[n - 1] = st[n - 1]
    <3> HIDE DEF u, n
    <3> QED
      BY <1>1, <1>5, Zenon
  <2> QED
    BY <2>2, <2>3, Zenon
<1>7. c.deferred_advance = 0
  <2>1. Calling(depths, n - 1)
    BY <1>3, <1>4, <1>5, Zenon
  <2> QED
    BY <1>5, <2>1, Zenon DEF Nested
<1>8. c \in Cursors /\ c.offset + 1 \in Nat /\ c.offset + 1 <= Len(Program[c.commands])
  <2>1. c \in Cursors /\ c.offset \in Nat /\ c.commands \in Buffers
        /\ c.offset < Len(Program[c.commands])
    BY <1>5, StackParts, Zenon
  <2>2. Len(Program[c.commands]) \in Nat
    BY <2>1, ProgramTyped
  <2> HIDE DEF c
  <2> QED
    BY <2>1, <2>2
<1>9. Replaced(u, At0(u[Len(u)], c.offset + 1), t)
  <2>1. [c EXCEPT !.offset = @ + 1] = At0(c, c.offset + 1)
    <3> HIDE DEF c
    <3> QED
      BY <1>7, <1>8 DEF Cursors, At0
  <2>2. t = [u EXCEPT ![n - 1] = [u[n - 1] EXCEPT !.offset = @ + 1]]
    BY Zenon DEF PoppedTo
  <2> HIDE DEF u, c
  <2> QED
    BY <1>1, <1>6, <2>1, <2>2, Zenon DEF Replaced
<1>10. /\ StackOK(t) /\ t # <<>> /\ Len(t) = n - 1
       /\ Below(t, n - 1) = StreamOf(c.commands, c.offset + 1, n - 1) \o Below(u, (n - 1) - 1)
       /\ \A i \in 1..((n - 1) - 1) : t[i] = u[i]
  <2>1. u[Len(u)] = c /\ Len(u) = n - 1
    BY <1>1, <1>6, Zenon
  <2> HIDE DEF u, c, n
  <2>2. c.offset + 1 <= Len(Program[u[Len(u)].commands])
    BY <1>8, <2>1, Zenon
  <2>3. /\ StackOK(t) /\ t # <<>> /\ Len(t) = Len(u)
        /\ Below(t, Len(t)) =
              StreamOf(u[Len(u)].commands, c.offset + 1, Len(u)) \o Below(u, Len(u) - 1)
        /\ \A i \in 1..(Len(u) - 1) : t[i] = u[i]
    <3> DEFINE f == c.offset + 1
    <3>1. /\ StackOK(u) /\ u # <<>> /\ f \in Nat /\ Replaced(u, At0(u[Len(u)], f), t)
          /\ f <= Len(Program[u[Len(u)].commands])
      BY <1>1, <1>6, <1>8, <1>9, <2>2, Zenon
    <3> HIDE DEF f
    <3>2. /\ StackOK(t) /\ t # <<>> /\ Len(t) = Len(u)
          /\ Below(t, Len(t)) =
                StreamOf(u[Len(u)].commands, f, Len(u)) \o Below(u, Len(u) - 1)
          /\ \A i \in 1..(Len(u) - 1) : t[i] = u[i]
      BY <3>1, LastMoves
    <3> QED
      BY <3>2, Zenon DEF f
  <2> QED
    BY <2>1, <2>3, Zenon
<1>11. Below(t, n - 1) = Below(st, n - 1)
  <2>1. Below(st, n - 1) = LeftIn(st, n - 1) \o Below(st, (n - 1) - 1)
    BY <1>5, BelowFirst
  <2>2. LeftIn(st, n - 1) = StreamOf(c.commands, c.offset + 1, n - 1)
    BY <1>5, Zenon DEF LeftIn
  <2> QED
    BY <1>1, <1>5, <1>10, <2>1, <2>2, Zenon
<1>12. Nested(t, v)
  <2>1. /\ depths # <<>> /\ depths[1] = 0
        /\ \A j, k \in DOMAIN depths : j < k => depths[j] < depths[k]
        /\ \A i \in 1..(n - 1) : st[i].deferred_advance = 0 <=> Calling(depths, i)
    BY Zenon DEF Nested
  <2>2. v \in Seq(Nat) /\ Len(v) = Len(depths) - 1
        /\ \A i \in 1..(Len(depths) - 1) : v[i] = depths[i]
    BY <2>1, FrontParts
  <2> HIDE DEF n, v, u, d, c
  <2>3. /\ Len(depths) \in Nat /\ Len(depths) # 0 /\ DOMAIN depths = 1..Len(depths)
        /\ DOMAIN v = 1..(Len(depths) - 1)
    BY <2>1, <2>2, LenProperties, EmptySeq
  <2>4. v[1] = 0
    <3>1. 1 \in 1..(Len(depths) - 1)
      BY <1>4, <2>3
    <3> QED
      BY <2>1, <2>2, <3>1, Zenon
  <2>5. \A j, k \in DOMAIN v : j < k => v[j] < v[k]
    <3>1. \A k \in DOMAIN v : k \in DOMAIN depths
      BY <2>3
    <3> QED
      BY <2>1, <2>2, <2>3, <3>1, Zenon
  <2>6. \A k \in DOMAIN v : v[k] < Len(t)
    BY <1>3, <1>4, <1>10, Zenon
  <2>7. ASSUME NEW i \in 1..(Len(t) - 1)
        PROVE  t[i].deferred_advance = 0 <=> Calling(v, i)
    <3>1. i \in 1..(n - 2) /\ i \in 1..((n - 1) - 1)
      BY <1>5, <1>10
    <3>2. t[i] = st[i]
      BY <1>1, <1>5, <1>10, <3>1, Zenon
    <3> QED
      BY <1>3, <1>4, <1>5, <2>1, <3>1, <3>2, Zenon
  <2> QED
    BY <1>4, <1>10, <2>4, <2>5, <2>6, <2>7 DEF Nested
<1> QED
  BY <1>10, <1>11, <1>12, Zenon

LEMMA EndMaps ==
    ASSUME ProgramAssumption, ParserInv, BufferEnds
    PROVE  ParserInv' /\ Alone
<1> DEFINE st == m_buffer_stack  t == m_buffer_stack'
<1>1. /\ StackOK(st) /\ st # <<>> /\ parser = "running" /\ Nested(st, stop_depths)
      /\ submissions # <<>> /\ TypeInv /\ submissions' = submissions
      /\ UNCHANGED <<m_predicate_skip, memory, effects, submitted>>
  BY DEF ParserInv, DepthInv, Nested, BufferEnds
<1>2. /\ st[Len(st)].deferred_advance = 0
      /\ st[Len(st)].offset = Len(Program[st[Len(st)].commands])
  BY DEF BufferEnds, cursor, top, Commands
<1>3. Below(st, Len(st)) = Below(st, Len(st) - 1)
  BY <1>1, <1>2, EndOfTop
<1>4. stop_depths \in Seq(Nat) /\ stop_depths # <<>> /\ st \in Seq(Cursors)
  BY <1>1 DEF TypeInv, Nested
<1>5. Len(st) \in Nat /\ Front(stop_depths) \in Seq(Nat)
  BY <1>4, LenProperties, FrontParts
<1>6. /\ StackOK(t) /\ Below(t, Len(t)) = Below(st, Len(st) - 1)
      /\ stop_depths' \in Seq(Nat)
      /\ \/ parser' = "running" /\ Nested(t, stop_depths')
         \/ parser' = "returned" /\ Marked(t)
  <2>1. CASE /\ Len(st) - 1 # Last(stop_depths) /\ t = Front(st)
             /\ UNCHANGED <<stop_depths, parser>>
    <3>1. /\ StackOK(Front(st)) /\ Nested(Front(st), stop_depths)
          /\ Below(Front(st), Len(Front(st))) = Below(st, Len(st) - 1)
      BY <1>1, <1>4, <2>1, PopMarked
    <3> QED
      BY <1>1, <1>4, <2>1, <3>1, Zenon
  <2>2. CASE /\ Len(st) - 1 = 0 /\ t = Front(st)
             /\ stop_depths' = <<>> /\ parser' = "returned"
    <3>1. Len(st) = 1
      BY <1>5, <2>2
    <3>2. t = <<>>
      BY <1>1, <1>4, <2>2, <3>1, FrontParts
    <3>3. Len(t) = 0 /\ Marked(t) /\ t \in Seq(Cursors)
      BY <3>2 DEF Marked
    <3>4. StackOK(t)
      BY <3>2, <3>3 DEF StackOK
    <3>5. Below(t, Len(t)) = <<>> /\ Below(st, Len(st) - 1) = <<>>
      BY <2>2, <3>3, BelowNone, Zenon
    <3>6. stop_depths' \in Seq(Nat)
      BY <2>2
    <3> QED
      BY <2>2, <3>3, <3>4, <3>5, <3>6
  <2>3. CASE /\ Len(st) - 1 = Last(stop_depths) /\ Len(st) - 1 # 0
             /\ PoppedTo(st, t)
             /\ stop_depths' = Front(stop_depths) /\ parser' = parser
    <3>1. /\ StackOK(t) /\ Nested(t, Front(stop_depths))
          /\ Below(t, Len(t)) = Below(st, Len(st) - 1)
      BY <1>1, <1>4, <2>3, PopCalling
    <3> QED
      BY <1>1, <1>5, <2>3, <3>1, Zenon
  <2> QED
    BY <2>1, <2>2, <2>3, Zenon DEF BufferEnds, PoppedTo, top
<1>7. ParserInv'
  <2>1. TypeInv'
    BY <1>1, <1>6 DEF TypeInv, StackOK
  <2>2. DepthInv'
    BY <1>1, <1>6 DEF DepthInv
  <2> QED
    BY <1>6, <2>1, <2>2 DEF ParserInv
<1>8. Current' = Current /\ Behind' = Behind
  <2>1. TodoShape /\ TodoShape'
    BY <1>7, TodoParts, NextShape
  <2>2. parser' # "idle" /\ parser # "idle"
    BY <1>1, <1>6
  <2> QED
    BY <1>1, <1>3, <1>6, <2>1, <2>2 DEF TodoShape
<1>9. (parser = "exited")' = (parser = "exited")
  BY <1>1, <1>6
<1> QED
  BY <1>1, <1>7, <1>8, <1>9 DEF Alone

-----------------------------------------------------------------------------
(* A packet that calls a buffer.                                           *)
LEMMA Pushed ==
    ASSUME NEW s \in Seq(Nat), NEW n \in Nat
    PROVE  LET l == Append(s, n) IN
           /\ l \in Seq(Nat) /\ l # <<>> /\ Len(l) = Len(s) + 1 /\ l[Len(s) + 1] = n
           /\ \A k \in 1..Len(s) : l[k] = s[k]
  BY AppendProperties

LEMMA PushParts ==
    ASSUME ProgramAssumption, NEW st, StackOK(st), st # <<>>, NEW depths \in Seq(Nat),
           Nested(st, depths), NEW b \in Buffers, st[Len(st)].deferred_advance = 0,
           st[Len(st)].offset < Len(Program[st[Len(st)].commands])
    PROVE  LET t == Append(st, Cursor(b))  n == Len(st)  c == st[Len(st)] IN
           /\ StackOK(t) /\ t # <<>> /\ Nested(t, Append(depths, n))
           /\ Below(t, Len(t)) = StreamOf(b, 0, n + 1)
                \o (StreamOf(c.commands, c.offset + 1, n) \o Below(st, n - 1))
<1> DEFINE n == Len(st)  c == st[n]  e == Cursor(b)  t == Append(st, e)
           l == Append(depths, n)
<1>1. /\ st \in Seq(Cursors) /\ n \in Nat /\ n # 0 /\ n \in 1..n
      /\ \A i \in 1..n :
            /\ st[i] \in Cursors
            /\ st[i].offset <= Len(Program[st[i].commands])
            /\ i < n \/ st[i].deferred_advance # 0 =>
                  st[i].offset < Len(Program[st[i].commands])
  BY StackParts, Zenon
<1>2. e \in Cursors /\ e.commands = b /\ e.offset = 0 /\ e.deferred_advance = 0
  BY DEF Cursor, Cursors
<1> HIDE DEF e
<1>3. t \in Seq(Cursors) /\ t # <<>> /\ Len(t) = n + 1 /\ t[n + 1] = e
      /\ \A i \in 1..n : t[i] = st[i]
  BY <1>1, <1>2, AppendProperties
<1>4. c.deferred_advance = 0 /\ c.offset < Len(Program[c.commands])
  OBVIOUS
<1> HIDE DEF t, n
<1>5. /\ n + 1 \in 1..(n + 1) /\ ~(n + 1 < n + 1) /\ (n + 1) - 1 = n /\ n < n + 1
      /\ n - 1 \in Nat /\ n \in 1..(n + 1)
      /\ \A i \in 1..(n - 1) : i \in 1..n /\ i < n /\ i < n + 1
      /\ \A i \in 1..(n + 1) : i = n + 1 \/ i \in 1..n
  BY <1>1
<1>6. StackOK(t)
  <2>1. 0 <= Len(Program[b])
    BY ProgramTyped
  <2>2. ASSUME NEW i \in 1..(n + 1)
        PROVE  /\ t[i].offset <= Len(Program[t[i].commands])
               /\ i < Len(t) \/ t[i].deferred_advance # 0 =>
                     t[i].offset < Len(Program[t[i].commands])
    <3>1. CASE i = n + 1
      <4>1. t[i] = e /\ ~(i < Len(t))
        BY <1>3, <1>5, <3>1
      <4> QED
        BY <1>2, <2>1, <4>1, Zenon
    <3>2. CASE i \in 1..n
      <4>1. t[i] = st[i]
        BY <1>3, <3>2
      <4>2. i = n \/ i < n
        BY <1>1, <3>2
      <4>3. CASE i = n
        BY <1>1, <1>4, <4>1, <4>3, Zenon
      <4>4. CASE i < n
        BY <1>1, <3>2, <4>1, <4>4, Zenon
      <4> QED
        BY <4>2, <4>3, <4>4
    <3> QED
      BY <1>5, <3>1, <3>2, Zenon
  <2> QED
    BY <1>3, <2>2, StackMade
<1>7. LeftIn(t, n + 1) = StreamOf(b, 0, n + 1)
  BY <1>2, <1>3, <1>5, Zenon DEF LeftIn
<1>8. LeftIn(t, n) = StreamOf(c.commands, c.offset + 1, n)
  <2>1. t[n] = c /\ n < Len(t)
    BY <1>1, <1>3, <1>5, Zenon
  <2> HIDE DEF c
  <2> QED
    BY <2>1, Zenon DEF LeftIn
<1>9. Below(t, n - 1) = Below(st, n - 1)
  <2>1. ASSUME NEW i \in 1..(n - 1) PROVE LeftIn(t, i) = LeftIn(st, i)
    <3>1. t[i] = st[i] /\ i < Len(t) /\ i < Len(st)
      BY <1>3, <1>5, Zenon DEF n
    <3>2. LeftIn(t, i) = StreamOf(st[i].commands, st[i].offset + 1, i)
      BY <3>1, Zenon DEF LeftIn
    <3>3. LeftIn(st, i) = StreamOf(st[i].commands, st[i].offset + 1, i)
      BY <3>1, Zenon DEF LeftIn
    <3> QED
      BY <3>2, <3>3, Zenon
  <2> QED
    BY <1>5, <2>1, BelowSame
<1>10. Below(t, n + 1) = LeftIn(t, n + 1) \o (LeftIn(t, n) \o Below(t, n - 1))
  <2>1. Below(t, n + 1) = LeftIn(t, n + 1) \o Below(t, (n + 1) - 1)
    BY <1>3, <1>5, <1>6, BelowFirst
  <2>2. Below(t, n) = LeftIn(t, n) \o Below(t, n - 1)
    BY <1>3, <1>5, <1>6, BelowFirst
  <2> QED
    BY <1>5, <2>1, <2>2, Zenon
<1>11. Nested(t, l)
  <2>1. /\ depths # <<>> /\ depths[1] = 0
        /\ \A k \in DOMAIN depths : depths[k] < n
        /\ \A j, k \in DOMAIN depths : j < k => depths[j] < depths[k]
        /\ \A i \in 1..(n - 1) : st[i].deferred_advance = 0 <=> Calling(depths, i)
    BY Zenon DEF Nested, n
  <2> DEFINE m == Len(depths)
  <2>2. m \in Nat /\ m # 0 /\ DOMAIN depths = 1..m
    BY <2>1, LenProperties, EmptySeq
  <2>3. /\ l \in Seq(Nat) /\ l # <<>> /\ Len(l) = m + 1 /\ l[m + 1] = n
        /\ \A k \in 1..m : l[k] = depths[k]
    <3>1. n \in Nat
      BY <1>1
    <3> QED
      BY <3>1, Pushed, Zenon
  <2> HIDE DEF l, m, c
  <2>4. DOMAIN l = 1..(m + 1)
    BY <2>3, LenProperties
  <2>5. /\ 1 \in 1..m /\ m + 1 \in 1..(m + 1)
        /\ \A k \in 1..(m + 1) : k = m + 1 \/ k \in 1..m
        /\ \A k \in 1..m : k \in 1..(m + 1) /\ ~(m + 1 < k)
        /\ ~(m + 1 < m + 1)
    BY <2>2
  <2>6. l[1] = 0
    BY <2>1, <2>3, <2>5, Zenon
  <2>7. \A k \in 1..m : l[k] < n
    BY <2>1, <2>2, <2>3, Zenon
  <2>8. \A k \in DOMAIN l : l[k] < Len(t)
    <3>1. ASSUME NEW k \in 1..m PROVE l[k] < Len(t)
      <4>1. l[k] < n /\ l[k] \in Nat
        BY <2>3, <2>4, <2>5, <2>7, ElementOfSeq
      <4> QED
        BY <1>1, <1>3, <4>1
    <3>2. l[m + 1] < Len(t)
      BY <1>3, <1>5, <2>3
    <3> QED
      BY <2>4, <2>5, <3>1, <3>2, Zenon
  <2>9. \A j, k \in DOMAIN l : j < k => l[j] < l[k]
    <3>1. ASSUME NEW j \in 1..(m + 1), NEW k \in 1..(m + 1), j < k PROVE l[j] < l[k]
      <4>1. j \in 1..m
        BY <2>5, <3>1, Zenon
      <4>2. CASE k = m + 1
        BY <2>3, <2>7, <4>1, <4>2, Zenon
      <4>3. CASE k \in 1..m
        BY <2>1, <2>2, <2>3, <3>1, <4>1, <4>3, Zenon
      <4> QED
        BY <2>5, <4>2, <4>3, Zenon
    <3> QED
      BY <2>4, <3>1, Zenon
  <2>10. \A i : Calling(l, i) <=> i = n \/ Calling(depths, i)
    BY <2>2, <2>3, <2>4, <2>5, Zenon DEF Calling
  <2>11. ASSUME NEW i \in 1..(Len(t) - 1)
         PROVE  t[i].deferred_advance = 0 <=> Calling(l, i)
    <3>1. i \in 1..n /\ t[i] = st[i]
      BY <1>1, <1>3
    <3>2. i = n \/ (i # n /\ i \in 1..(n - 1))
      BY <1>1, <3>1
    <3>3. CASE i = n
      BY <1>4, <2>10, <3>1, <3>3, Zenon DEF c
    <3>4. CASE i # n /\ i \in 1..(n - 1)
      BY <2>1, <2>10, <3>1, <3>4, Zenon
    <3> QED
      BY <3>2, <3>3, <3>4
  <2> QED
    BY <1>3, <2>3, <2>6, <2>8, <2>9, <2>11, Zenon DEF Nested
<1> QED
  BY <1>3, <1>6, <1>7, <1>8, <1>9, <1>10, <1>11, Zenon DEF t, n, l, c, e

LEMMA CallMaps ==
    ASSUME ProgramAssumption, ParserInv, ProcessIndirectBuffer
    PROVE  ParserInv' /\ (Stream!Call \/ Stream!Halt)
<1> DEFINE st == m_buffer_stack  t == m_buffer_stack'
           arm == Target
<1>1. /\ Handles({"branch"}) /\ AtPacket /\ packet.op = "branch"
      /\ UNCHANGED <<submissions, m_predicate_skip, memory, effects, submitted>>
  BY Zenon DEF ProcessIndirectBuffer, Handles
<1>2. /\ StackOK(st) /\ st # <<>> /\ parser = "running" /\ Nested(st, stop_depths)
      /\ submissions # <<>> /\ TypeInv
  BY <1>1 DEF ParserInv, DepthInv, Nested, AtPacket
<1>3. /\ cursor.commands \in Buffers /\ cursor.offset \in Nat /\ top \in Nat
      /\ cursor.deferred_advance = 0 /\ cursor.offset < Len(Commands)
      /\ cursor = st[Len(st)] /\ top = Len(st)
  <2>1. /\ cursor.commands \in Buffers /\ cursor.offset \in Nat /\ top \in Nat
    BY <1>2, StackParts, Zenon DEF cursor, top
  <2> QED
    BY <1>1, <2>1 DEF AtPacket, cursor, top
<1>4. arm \in Buffers
  <2>1. Len(Commands) \in Nat /\ DOMAIN Commands = 1..Len(Commands)
    BY <1>3, ProgramTyped DEF Commands
  <2>2. cursor.offset + 1 \in DOMAIN Commands
    BY <1>3, <2>1
  <2>3. {packet.then, packet.else} \subseteq Buffers
    BY <1>1, <1>3, <2>2, Zenon DEF ProgramAssumption, Buffers, Commands, packet
  <2> QED
    BY <2>3, Zenon DEF Target
<1>5. /\ Stream!Runs({"branch"}) /\ Stream!Packet = packet /\ Stream!Target = arm
      /\ Todo # <<>> /\ Head(Todo).depth = top
      /\ Tail(Todo) = StreamOf(cursor.commands, cursor.offset + 1, top) \o Rest
  <2>1. Stream!Runs({"branch"}) /\ Stream!Packet = packet
    BY <1>1, PacketReached, Zenon
  <2>2. Stream!Target = arm
    BY <2>1, Zenon DEF Stream!Target, Target
  <2>3. /\ Todo # <<>> /\ Head(Todo) = [packet |-> packet, depth |-> top]
        /\ Tail(Todo) = StreamOf(cursor.commands, cursor.offset + 1, top) \o Rest
    BY <1>1, PacketFirst, Zenon
  <2>4. Head(Todo).depth = top
    BY <2>3
  <2> QED
    BY <2>1, <2>2, <2>3, <2>4, Zenon
<1> HIDE DEF arm
<1>6. Stream!At(arm, top + 1) = StreamOf(arm, 0, top + 1)
  <2>1. Len(Program[arm]) \in Nat /\ DOMAIN Program[arm] = 1..Len(Program[arm])
    BY <1>4, ProgramTyped
  <2> DEFINE item(i) == [packet |-> Program[arm][i], depth |-> top + 1]
             sum(i) == item(0 + i)
  <2>2. Stream!At(arm, top + 1) = [i \in 1..Len(Program[arm]) |-> item(i)]
    BY <2>1, Zenon DEF Stream!At
  <2>3. StreamOf(arm, 0, top + 1) = [i \in 1..(Len(Program[arm]) - 0) |-> sum(i)]
    BY Zenon DEF StreamOf
  <2>4. /\ Len(Program[arm]) - 0 = Len(Program[arm])
        /\ \A i \in 1..Len(Program[arm]) : 0 + i = i
    BY <2>1
  <2>5. \A i \in 1..Len(Program[arm]) : item(i) = sum(i)
    BY <2>4, Zenon
  <2> HIDE DEF item, sum
  <2> QED
    BY <2>2, <2>3, <2>4, <2>5, Zenon
<1>7. CASE Program[arm] = <<>> /\ Advance(1)
  <2>1. /\ ParserInv' /\ (Current \o Behind)' = Tail(Current \o Behind)
        /\ UNCHANGED (parser = "exited")
    BY <1>1, <1>7, OnePacket, Zenon
  <2>2. Stream!At(arm, top + 1) = <<>>
    BY <1>7 DEF Stream!At
  <2>3. <<>> \o Tail(Todo) = Tail(Todo)
    <3>1. Tail(Todo) \in Seq(Items)
      <4>1. cursor.offset + 1 \in 0..Len(Program[cursor.commands])
        BY <1>3, ProgramTyped DEF Commands
      <4>2. StreamOf(cursor.commands, cursor.offset + 1, top) \in Seq(Items)
        BY <1>3, <4>1, StreamTyped, Zenon
      <4>3. Rest \in Seq(Items)
        BY <1>2, StackTodo
      <4> QED
        BY <1>5, <4>2, <4>3, ConcatProperties
    <3> QED
      BY <3>1, ConcatEmptySeq
  <2>4. Stream!Call
    BY <1>1, <1>5, <1>7, <2>1, <2>2, <2>3, Zenon DEF Stream!Call, Todo
  <2> QED
    BY <2>1, <2>4
<1>8. CASE /\ Program[arm] # <<>> /\ top < NestingLimit
           /\ t = Append(st, Cursor(arm))
           /\ stop_depths' = Append(stop_depths, top)
           /\ UNCHANGED <<m_made_progress, parser>>
  <2>1. /\ StackOK(t) /\ t # <<>> /\ Nested(t, stop_depths')
        /\ Below(t, Len(t)) = StreamOf(arm, 0, top + 1)
             \o (StreamOf(cursor.commands, cursor.offset + 1, top) \o Below(st, top - 1))
    <3>1. stop_depths \in Seq(Nat)
      BY <1>2 DEF TypeInv
    <3>2. /\ st[Len(st)].deferred_advance = 0
          /\ st[Len(st)].offset < Len(Program[st[Len(st)].commands])
      BY <1>3, Zenon DEF Commands
    <3> QED
      BY <1>2, <1>3, <1>4, <1>8, <3>1, <3>2, PushParts
  <2>2. ParserInv'
    <3>1. stop_depths' \in Seq(Nat)
      BY <1>2, <1>3, <1>8, AppendProperties DEF TypeInv
    <3>2. TypeInv'
      BY <1>1, <1>2, <1>8, <2>1, <3>1 DEF TypeInv, StackOK
    <3>3. DepthInv'
      BY <1>1, <1>2, <1>8, <2>1 DEF DepthInv
    <3> QED
      BY <2>1, <3>2, <3>3 DEF ParserInv
  <2> DEFINE a == StreamOf(arm, 0, top + 1)  b == Below(st, top - 1)
             c == StreamOf(cursor.commands, cursor.offset + 1, top)
  <2>3. Behind' = Behind /\ Behind \in Seq(Items) /\ Current' = a \o (c \o b)
    <3>1. TodoShape /\ TodoShape'
      BY <2>2, TodoParts, NextShape
    <3> QED
      BY <1>1, <1>2, <2>1, <3>1 DEF TodoShape
  <2>4. a \in Seq(Items) /\ b \in Seq(Items) /\ c \in Seq(Items)
    <3>1. /\ cursor.offset + 1 \in 0..Len(Program[cursor.commands])
          /\ top + 1 \in Nat
      BY <1>3, ProgramTyped DEF Commands
    <3>2. 0 \in 0..Len(Program[arm])
      BY <1>4, ProgramTyped
    <3>3. c \in Seq(Items) /\ a \in Seq(Items)
      BY <1>3, <1>4, <3>1, <3>2, StreamTyped, Zenon
    <3>4. Len(st) - 1 \in 0..Len(st)
      <4>1. Len(st) \in Nat /\ Len(st) # 0
        BY <1>2, StackParts, Zenon
      <4> QED
        BY <4>1
    <3> QED
      BY <1>2, <1>3, <3>3, <3>4, BelowTyped, Zenon
  <2> HIDE DEF a, b, c
  <2>5. /\ Regroups(a, c \o b, Behind) /\ Regroups(c, b, Behind)
    <3>1. c \o b \in Seq(Items)
      BY <2>4, ConcatProperties
    <3> QED
      BY <2>3, <2>4, <3>1, Regroup
  <2>6. Todo' = a \o (c \o (b \o Behind))
    BY <2>3, <2>5, Zenon DEF Regroups, Todo
  <2>7. Todo' = Stream!At(arm, top + 1) \o Tail(Todo)
    BY <1>3, <1>5, <1>6, <2>6, Zenon DEF Rest, a, b, c
  <2>8. Stream!Call
    BY <1>1, <1>5, <1>8, <2>7, Zenon DEF Stream!Call, Todo
  <2> QED
    BY <2>2, <2>8
<1>9. CASE /\ Program[arm] # <<>> /\ top >= NestingLimit
           /\ parser' = "exited"
           /\ UNCHANGED <<m_buffer_stack, stop_depths, m_made_progress>>
  <2>1. ParserInv'
    BY <1>1, <1>2, <1>9 DEF ParserInv, TypeInv, DepthInv
  <2>2. Current' = Current /\ Behind' = Behind
    <3>1. TodoShape /\ TodoShape'
      BY <2>1, TodoParts, NextShape
    <3> QED
      BY <1>1, <1>2, <1>9, <3>1 DEF TodoShape
  <2>3. Stream!Halt
    BY <1>1, <1>5, <1>9, <2>2, Zenon DEF Stream!Halt, Todo
  <2> QED
    BY <2>1, <2>3
<1> QED
  BY <1>7, <1>8, <1>9, Zenon DEF ProcessIndirectBuffer, arm

LEMMA WriteMaps ==
    ASSUME ProgramAssumption, ParserInv, NEW w \in Words, GuestWrites(w)
    PROVE  ParserInv' /\ Stream!Write
<1>1. /\ UNCHANGED <<submissions, m_buffer_stack, stop_depths, parser, m_predicate_skip,
                     effects, submitted>>
      /\ memory' = [memory EXCEPT ![w] = ~@]
  BY DEF GuestWrites, parse
<1>2. ParserInv'
  BY <1>1 DEF ParserInv, TypeInv, DepthInv
<1>3. Current' = Current /\ Behind' = Behind
  <2>1. TodoShape /\ TodoShape'
    BY <1>2, TodoParts, NextShape
  <2> QED
    BY <1>1, <2>1 DEF TodoShape
<1> QED
  BY <1>1, <1>2, <1>3, Zenon DEF Stream!Write

-----------------------------------------------------------------------------
LEMMA InitMaps ==
    ASSUME ProgramAssumption, Init
    PROVE  ParserInv /\ Stream!Init
<1>1. /\ submissions \in Workloads /\ submissions \in Seq(Buffers)
      /\ m_buffer_stack = <<>> /\ stop_depths = <<>> /\ parser = "idle"
      /\ m_predicate_skip = FALSE /\ memory = [w \in Words |-> FALSE]
      /\ effects = <<>> /\ submitted = 0
  BY DEF Init, ProgramAssumption, Buffers
<1>2. ParserInv
  <2>1. TypeInv /\ m_buffer_stack \in Seq(Cursors) /\ DOMAIN m_buffer_stack = {}
    BY <1>1 DEF TypeInv
  <2>2. DepthInv
    BY <1>1 DEF DepthInv, Marked
  <2> QED
    BY <2>1, <2>2 DEF ParserInv, StackOK
<1>3. TodoShape
  BY <1>2, TodoParts
<1>4. Current \o Behind = AllOf(submissions)
  <2>1. CASE submissions = <<>>
    <3>1. Below(m_buffer_stack, Len(m_buffer_stack)) = <<>>
      <4>1. Len(m_buffer_stack) = 0
        BY <1>1
      <4> QED
        BY <4>1, BelowNone
    <3>2. Current = <<>> /\ Behind = <<>>
      BY <1>3, <2>1, <3>1, Zenon DEF TodoShape
    <3>3. <<>> \o <<>> = <<>>
      OBVIOUS
    <3> QED
      BY <2>1, <3>2, <3>3, AllNone
  <2>2. CASE submissions # <<>>
    <3>1. Current = StreamOf(Head(submissions), 0, 1) /\ Behind = AllOf(Tail(submissions))
      BY <1>1, <1>3, <2>2, Zenon DEF TodoShape
    <3> QED
      BY <1>1, <2>2, <3>1, AllFirst, Zenon
  <2> QED
    BY <2>1, <2>2
<1>5. AllOf(submissions) = FlattenSeq([i \in DOMAIN submissions |-> Stream!At(submissions[i], 1)])
  <2>1. ASSUME NEW i \in DOMAIN submissions
        PROVE  StreamOf(submissions[i], 0, 1) = Stream!At(submissions[i], 1)
    <3> DEFINE b == submissions[i]
    <3>1. b \in Buffers
      BY <1>1, ElementOfSeq, LenProperties
    <3> HIDE DEF b
    <3>2. Len(Program[b]) \in Nat /\ DOMAIN Program[b] = 1..Len(Program[b])
      BY <3>1, ProgramTyped
    <3> DEFINE item(k) == [packet |-> Program[b][k], depth |-> 1]
               sum(k) == item(0 + k)
    <3>3. Stream!At(b, 1) = [k \in 1..Len(Program[b]) |-> item(k)]
      BY <3>2, Zenon DEF Stream!At
    <3>4. StreamOf(b, 0, 1) = [k \in 1..(Len(Program[b]) - 0) |-> sum(k)]
      BY Zenon DEF StreamOf
    <3>5. /\ Len(Program[b]) - 0 = Len(Program[b])
          /\ \A k \in 1..Len(Program[b]) : 0 + k = k
      BY <3>2
    <3>6. \A k \in 1..Len(Program[b]) : item(k) = sum(k)
      BY <3>5, Zenon
    <3> HIDE DEF item, sum
    <3>7. StreamOf(b, 0, 1) = Stream!At(b, 1)
      BY <3>3, <3>4, <3>5, <3>6, Zenon
    <3> QED
      BY <3>7 DEF b
  <2>2. [i \in DOMAIN submissions |-> StreamOf(submissions[i], 0, 1)]
            = [i \in DOMAIN submissions |-> Stream!At(submissions[i], 1)]
    BY <2>1, Zenon
  <2> QED
    BY <2>2, Zenon DEF AllOf
<1>6. Stream!Init
  <2>1. \A s : Stream!FlattenSeq(s) = FlattenSeq(s)
    BY Zenon DEF Stream!FlattenSeq, FlattenSeq
  <2>2. (parser = "exited") = FALSE
    BY <1>1
  <2> QED
    BY <1>1, <1>4, <1>5, <2>1, <2>2, Zenon DEF Stream!Init
<1> QED
  BY <1>2, <1>6

LEMMA StepMaps ==
    ASSUME ProgramAssumption, ParserInv, [Next]_vars
    PROVE  ParserInv' /\ [Stream!Next]_(Stream!vars)
<1>1. CASE Process \/ DeferredAdvance \/ BufferEnds \/ Suspend \/ AnotherRound
  <2>1. ParserInv' /\ Alone
    BY <1>1, ProcessMaps, DeferredMaps, EndMaps, SuspendMaps, RoundMaps, Zenon
  <2> QED
    BY <2>1, Zenon DEF Alone, Stream!vars
<1>2. CASE SkipPredicated \/ Draw \/ WriteData \/ SetPredication \/ CondExec \/ PacketPasses
           \/ ProcessIndirectBuffer
  <2>1. ParserInv' /\ Stream!Step
    BY <1>2, SkipMaps, DrawMaps, StoreMaps, PredicateMaps, CondMaps, PassMaps, CallMaps, Zenon
       DEF Stream!Step
  <2> QED
    BY <2>1, Zenon DEF Stream!Next
<1>3. CASE SliceEnds
  <2>1. ParserInv' /\ (Alone \/ Stream!Flush)
    BY <1>3, SliceMaps, Zenon
  <2> QED
    BY <2>1, Zenon DEF Alone, Stream!vars, Stream!Next
<1>4. CASE \E w \in Words : GuestWrites(w)
  <2>1. ParserInv' /\ Stream!Write
    BY <1>4, WriteMaps, Zenon
  <2> QED
    BY <2>1, Zenon DEF Stream!Next
<1>5. CASE UNCHANGED vars
  <2>1. UNCHANGED <<submissions, m_buffer_stack, stop_depths, parser, m_predicate_skip,
                    memory, effects, submitted>>
    BY <1>5 DEF vars, parse
  <2>2. ParserInv'
    BY <2>1 DEF ParserInv, TypeInv, DepthInv
  <2>3. Current' = Current /\ Behind' = Behind
    <3>1. TodoShape /\ TodoShape'
      BY <2>2, TodoParts, NextShape
    <3> QED
      BY <2>1, <3>1 DEF TodoShape
  <2> QED
    BY <2>1, <2>2, <2>3, Zenon DEF Stream!vars
<1> QED
  BY <1>1, <1>2, <1>3, <1>4, <1>5, Zenon DEF Next, ParserStep

(* However often the parser is suspended inside nested buffers, resumed    *)
(* and sliced, it runs the packets of the flat stream one after the other, *)
(* each once, with the choice of every branch, COND_EXEC and predicate     *)
(* made where the packet is reached, and it submits only what is recorded. *)
THEOREM ParserImplementsStream ==
    ASSUME ProgramAssumption
    PROVE  Spec => Stream!Init /\ [][Stream!Next]_(Stream!vars)
<1>1. Init => ParserInv /\ Stream!Init
  BY InitMaps
<1>2. ParserInv /\ [Next]_vars => ParserInv' /\ [Stream!Next]_(Stream!vars)
  BY StepMaps
<1> QED
  BY <1>1, <1>2, PTL DEF Spec
=============================================================================
