--------------------------- MODULE TerminalProofs ---------------------------
(***************************************************************************)
(* Proofs about the terminals the runtime owns, and about the two programs *)
(* that use them: the executions of workflow nodes that clients start and  *)
(* show, and the standalone agents.                                        *)
(***************************************************************************)
EXTENDS StandaloneAgents, AgentExecutions,
        SequenceTheorems, FiniteSetTheorems, WellFoundedInduction, TLAPS

-----------------------------------------------------------------------------
(* Operators *)

LEMMA LeastIsIn ==
  ASSUME NEW S \in SUBSET Nat, S # {}
  PROVE  Min(S) \in S /\ \A y \in S : Min(S) <= y
  <1>1. PICK R : R = OpToRel(<, Nat)
    OBVIOUS
  <1>2. IsWellFoundedOn(R, Nat)
    BY <1>1, NatLessThanWellFounded
  <1>3. PICK x \in S : \A y \in S : ~(<<y, x>> \in R)
    BY <1>2, WFMin
  <1>4. \A y \in Nat, z \in Nat : y < z => <<y, z>> \in R
    BY <1>1 DEF OpToRel
  <1>5. x \in Nat /\ \A y \in S : y \in Nat /\ ~(y < x)
    BY <1>3, <1>4
  <1>6. \A y \in S : x <= y
    BY <1>5
  <1> QED
    BY <1>6 DEF Min

\* A property of some numbers up to n has a first one.
LEMMA FirstCounterexample ==
  ASSUME NEW S \in SUBSET Nat, S # {}, 0 \notin S
  PROVE  \E m \in S : m # 0 /\ m - 1 \in Nat /\ m - 1 \notin S
  <1>1. Min(S) \in S /\ \A y \in S : Min(S) <= y
    BY LeastIsIn
  <1>2. PICK m \in S : \A y \in S : m <= y
    BY <1>1
  <1>3. m \in Nat /\ m # 0
    OBVIOUS
  <1>4. m - 1 \in Nat /\ ~(m <= m - 1)
    BY <1>3
  <1> QED
    BY <1>2, <1>3, <1>4

LEMMA BrokenIsNat ==
  ASSUME NEW data \in Seq(Units)
  PROVE  Broken(data) \in Nat /\ DecodedLength(data) \in Nat
  <1> DEFINE S == {i \in DOMAIN data : \/ data[i] = "h" /\ i = Len(data)
                                       \/ data[i] = "l" /\ i = 1}
  <1>1. IsFiniteSet(1 .. Len(data))
    BY FS_Interval
  <1>2. S \subseteq 1 .. Len(data)
    OBVIOUS
  <1>3. IsFiniteSet(S)
    BY <1>1, <1>2, FS_Subset
  <1>4. Cardinality(S) \in Nat
    BY <1>3, FS_CardinalityType
  <1>5. Broken(data) = Cardinality(S)
    BY DEF Broken
  <1>6. Len(data) \in Nat
    OBVIOUS
  <1> QED
    BY <1>4, <1>5, <1>6 DEF DecodedLength

(* Running sums of a sequence of numbers. *)
IsSum(g, d) ==
  /\ g \in [0 .. Len(d) -> Nat]
  /\ g[0] = 0
  /\ \A i \in 1 .. Len(d) : g[i] = g[i - 1] + d[i]

LEMMA SumsExist ==
  ASSUME NEW d \in Seq(Nat)
  PROVE  \E g : IsSum(g, d)
  <1> DEFINE Good(n) == \E g \in [0 .. n -> Nat] :
                          g[0] = 0 /\ \A i \in 1 .. n : g[i] = g[i - 1] + d[i]
             S == {n \in 0 .. Len(d) : ~Good(n)}
  <1>0. Len(d) \in Nat
    OBVIOUS
  <1>1. 0 \notin S
    <2> DEFINE z == [i \in 0 .. 0 |-> 0]
    <2>1. z \in [0 .. 0 -> Nat] /\ z[0] = 0 /\ \A i \in 1 .. 0 : z[i] = z[i - 1] + d[i]
      OBVIOUS
    <2> HIDE DEF z
    <2>2. Good(0)
      BY <2>1
    <2> QED
      BY <2>2
  <1>2. S = {}
    <2>1. SUFFICES ASSUME S # {} PROVE FALSE
      OBVIOUS
    <2>2. S \in SUBSET Nat
      BY <1>0
    <2>3. PICK m \in S : m # 0 /\ m - 1 \in Nat /\ m - 1 \notin S
      BY <1>1, <2>1, <2>2, FirstCounterexample
    <2>4. m \in 1 .. Len(d) /\ m - 1 \in 0 .. Len(d)
      BY <1>0, <2>3
    <2>5. PICK g \in [0 .. m - 1 -> Nat] :
            g[0] = 0 /\ \A i \in 1 .. m - 1 : g[i] = g[i - 1] + d[i]
      BY <2>3, <2>4
    <2> DEFINE h == [i \in 0 .. m |-> IF i = m THEN g[m - 1] + d[m] ELSE g[i]]
    <2>6. d[m] \in Nat /\ g[m - 1] \in Nat
      BY <2>4
    <2>7. h \in [0 .. m -> Nat]
      BY <2>4, <2>6
    <2>8. h[0] = 0
      BY <2>4, <2>5
    <2>9. \A i \in 1 .. m : h[i] = h[i - 1] + d[i]
      BY <2>4, <2>5
    <2> HIDE DEF h
    <2>10. Good(m)
      BY <2>7, <2>8, <2>9
    <2> QED
      BY <2>3, <2>10
  <1>3. Good(Len(d))
    <2> HIDE DEF Good
    <2> QED
      BY <1>0, <1>2
  <1>4. PICK g \in [0 .. Len(d) -> Nat] :
          g[0] = 0 /\ \A i \in 1 .. Len(d) : g[i] = g[i - 1] + d[i]
    BY <1>3
  <1> QED
    BY <1>4 DEF IsSum

LEMMA SumsAgree ==
  ASSUME NEW d \in Seq(Nat), NEW e \in Seq(Nat), NEW g, NEW h, IsSum(g, d), IsSum(h, e),
         Len(d) <= Len(e), \A i \in 1 .. Len(d) : d[i] = e[i]
  PROVE  \A i \in 0 .. Len(d) : g[i] = h[i]
  <1> DEFINE S == {n \in 0 .. Len(d) : g[n] # h[n]}
  <1>0. Len(d) \in Nat /\ Len(e) \in Nat
    OBVIOUS
  <1>1. S \in SUBSET Nat /\ 0 \notin S
    BY <1>0 DEF IsSum
  <1>2. SUFFICES ASSUME S # {} PROVE FALSE
    OBVIOUS
  <1>3. PICK m \in S : m # 0 /\ m - 1 \in Nat /\ m - 1 \notin S
    BY <1>1, <1>2, FirstCounterexample
  <1>4. m \in 1 .. Len(d) /\ m - 1 \in 0 .. Len(d) /\ m \in 1 .. Len(e)
    BY <1>0, <1>3
  <1>5. g[m - 1] = h[m - 1]
    BY <1>3, <1>4
  <1>6. g[m] = g[m - 1] + d[m] /\ h[m] = h[m - 1] + e[m]
    BY <1>4 DEF IsSum
  <1> QED
    BY <1>3, <1>4, <1>5, <1>6

Lengths(chunks) == [i \in 1 .. Len(chunks) |-> DecodedLength(chunks[i].data)]

LEMMA LengthsAreNats ==
  ASSUME NEW chunks \in Seq(Chunks)
  PROVE  Lengths(chunks) \in Seq(Nat) /\ Len(Lengths(chunks)) = Len(chunks)
  <1>1. \A i \in 1 .. Len(chunks) : DecodedLength(chunks[i].data) \in Nat
    <2>1. TAKE i \in 1 .. Len(chunks)
    <2>2. chunks[i] \in Chunks
      OBVIOUS
    <2>3. chunks[i].data \in Seq(Units)
      BY <2>2 DEF Chunks
    <2> QED
      BY <2>3, BrokenIsNat
  <1>2. Len(chunks) \in Nat
    OBVIOUS
  <1> QED
    BY <1>1, <1>2 DEF Lengths

LEMMA RetainedIsSum ==
  ASSUME NEW chunks \in Seq(Chunks)
  PROVE  \E g : IsSum(g, Lengths(chunks)) /\ Retained(chunks) = g[Len(chunks)]
  <1>0. Lengths(chunks) \in Seq(Nat) /\ Len(Lengths(chunks)) = Len(chunks) /\ Len(chunks) \in Nat
    BY LengthsAreNats
  <1> DEFINE Defines(f) ==
               f = [i \in 0 .. Len(chunks) |->
                      IF i = 0 THEN 0 ELSE f[i - 1] + DecodedLength(chunks[i].data)]
             u == CHOOSE f : Defines(f)
  <1>1. \A i \in 1 .. Len(chunks) : Lengths(chunks)[i] = DecodedLength(chunks[i].data)
    BY DEF Lengths
  <1>2. PICK g : IsSum(g, Lengths(chunks))
    BY <1>0, SumsExist
  <1>3. Defines(g)
    <2>1. g = [i \in 0 .. Len(chunks) |-> g[i]]
      BY <1>0, <1>2 DEF IsSum
    <2>2. \A i \in 0 .. Len(chunks) :
             g[i] = IF i = 0 THEN 0 ELSE g[i - 1] + DecodedLength(chunks[i].data)
      BY <1>0, <1>1, <1>2 DEF IsSum
    <2> QED
      BY <2>1, <2>2
  <1>4. Defines(u)
    BY <1>3
  <1>5. Retained(chunks) = u[Len(chunks)]
    BY DEF Retained
  <1> HIDE DEF u
  <1>6. \A i \in 0 .. Len(chunks) :
           u[i] = IF i = 0 THEN 0 ELSE u[i - 1] + DecodedLength(chunks[i].data)
    BY <1>4
  <1>7. \A i \in 0 .. Len(chunks) : u[i] = g[i]
    <2> DEFINE S == {n \in 0 .. Len(chunks) : u[n] # g[n]}
    <2>1. S \in SUBSET Nat /\ 0 \notin S
      BY <1>0, <1>2, <1>6 DEF IsSum
    <2>2. SUFFICES ASSUME S # {} PROVE FALSE
      OBVIOUS
    <2>3. PICK m \in S : m # 0 /\ m - 1 \in Nat /\ m - 1 \notin S
      BY <2>1, <2>2, FirstCounterexample
    <2>4. m \in 1 .. Len(chunks) /\ m - 1 \in 0 .. Len(chunks)
      BY <1>0, <2>3
    <2>5. g[m] = g[m - 1] + DecodedLength(chunks[m].data)
      BY <1>0, <1>1, <1>2, <2>4 DEF IsSum
    <2> QED
      BY <1>6, <2>3, <2>4, <2>5
  <1> QED
    BY <1>0, <1>2, <1>5, <1>7

LEMMA RetainedOfAppend ==
  ASSUME NEW chunks \in Seq(Chunks), NEW c \in Chunks
  PROVE  /\ Retained(chunks) \in Nat
         /\ Retained(Append(chunks, c)) = Retained(chunks) + DecodedLength(c.data)
  <1> DEFINE more == Append(chunks, c)
  <1>1. more \in Seq(Chunks) /\ Len(more) = Len(chunks) + 1 /\ Len(chunks) \in Nat
        /\ more[Len(chunks) + 1] = c /\ \A i \in 1 .. Len(chunks) : more[i] = chunks[i]
    OBVIOUS
  <1> HIDE DEF more
  <1>2. PICK g : IsSum(g, Lengths(chunks)) /\ Retained(chunks) = g[Len(chunks)]
    BY RetainedIsSum
  <1>3. PICK h : IsSum(h, Lengths(more)) /\ Retained(more) = h[Len(more)]
    BY <1>1, RetainedIsSum
  <1>4. /\ Lengths(chunks) \in Seq(Nat) /\ Len(Lengths(chunks)) = Len(chunks)
        /\ Lengths(more) \in Seq(Nat) /\ Len(Lengths(more)) = Len(more)
    BY <1>1, LengthsAreNats
  <1>5. \A i \in 1 .. Len(chunks) : Lengths(chunks)[i] = Lengths(more)[i]
    BY <1>1 DEF Lengths
  <1>6. \A i \in 0 .. Len(chunks) : g[i] = h[i]
    <2>1. Len(Lengths(chunks)) <= Len(Lengths(more))
      BY <1>1, <1>4
    <2>2. \A i \in 0 .. Len(Lengths(chunks)) : g[i] = h[i]
      BY <1>2, <1>3, <1>4, <1>5, <2>1, SumsAgree
    <2> QED
      BY <2>2, <1>4
  <1>7. Lengths(more)[Len(more)] = DecodedLength(c.data)
    BY <1>1 DEF Lengths
  <1>8. h[Len(more)] = h[Len(chunks)] + Lengths(more)[Len(more)]
    <2>1. Len(more) \in 1 .. Len(Lengths(more)) /\ Len(more) - 1 = Len(chunks)
      BY <1>1, <1>4
    <2>2. h[Len(more)] = h[Len(more) - 1] + Lengths(more)[Len(more)]
      BY <1>3, <2>1 DEF IsSum
    <2> QED
      BY <2>1, <2>2
  <1>9. g[Len(chunks)] \in Nat
    <2>1. Len(chunks) \in 0 .. Len(Lengths(chunks))
      BY <1>1, <1>4
    <2> QED
      BY <1>2, <2>1 DEF IsSum
  <1> QED
    BY <1>1, <1>2, <1>3, <1>6, <1>7, <1>8, <1>9 DEF more

LEMMA RetainedOfNothing == Retained(<<>>) = 0
  <1>1. <<>> \in Seq(Chunks) /\ Len(<<>>) = 0
    OBVIOUS
  <1>2. PICK g : IsSum(g, Lengths(<<>>)) /\ Retained(<<>>) = g[0]
    BY <1>1, RetainedIsSum
  <1> QED
    BY <1>2 DEF IsSum

\* What is kept of the buffer is a suffix that leaves room.
LEMMA KeepLeavesRoom ==
  ASSUME NEW chunks \in Seq(Chunks), NEW more \in 0 .. MaxBytes
  PROVE  \E j \in 1 .. Len(chunks) + 1 :
           /\ Keep(chunks, more) = SubSeq(chunks, j, Len(chunks))
           /\ Retained(SubSeq(chunks, j, Len(chunks))) + more <= MaxBytes
  <1> DEFINE fits == {j \in 1 .. Len(chunks) + 1 :
                        Retained(SubSeq(chunks, j, Len(chunks))) + more <= MaxBytes}
  <1>1. Len(chunks) \in Nat /\ MaxBytes \in Nat
    BY TerminalAssumption
  <1>2. SubSeq(chunks, Len(chunks) + 1, Len(chunks)) = <<>>
    BY <1>1
  <1>3. Len(chunks) + 1 \in fits
    <2>1. Retained(SubSeq(chunks, Len(chunks) + 1, Len(chunks))) = 0
      BY <1>2, RetainedOfNothing
    <2> QED
      BY <1>1, <2>1
  <1>4. fits \in SUBSET Nat
    BY <1>1
  <1>5. Min(fits) \in fits
    BY <1>3, <1>4, LeastIsIn
  <1>6. Keep(chunks, more) = SubSeq(chunks, Min(fits), Len(chunks))
    BY DEF Keep
  <1> QED
    BY <1>5, <1>6

\* A push evicts from the front, appends what it marks if anything is missing,
\* and stays within the limit up to the replacements of what it appends.
LEMMA PushShape ==
  ASSUME NEW chunks \in Seq(Chunks), NEW cursor \in Nat, NEW data \in Seq(Units)
  PROVE  \E j \in 1 .. Len(chunks) + 1, c \in Chunks :
           /\ Push(chunks, cursor, data) = Append(SubSeq(chunks, j, Len(chunks)), c)
           /\ c.cursor = cursor
           /\ j > 1 => c.truncated
           /\ RetainedIsBounded(Append(SubSeq(chunks, j, Len(chunks)), c))
  <1> DEFINE bounded == IF Len(data) > MaxBytes
                        THEN SubSeq(data, Len(data) - MaxBytes + 1, Len(data)) ELSE data
             kept == Keep(chunks, Len(bounded))
             c == [cursor |-> cursor, data |-> bounded,
                   truncated |-> Len(data) > MaxBytes \/ Len(kept) < Len(chunks)]
  <1>1. Len(chunks) \in Nat /\ MaxBytes \in Nat /\ Len(data) \in Nat
    BY TerminalAssumption
  <1>2. bounded \in Seq(Units) /\ Len(bounded) \in 0 .. MaxBytes
    BY <1>1
  <1> HIDE DEF bounded
  <1>3. PICK j \in 1 .. Len(chunks) + 1 :
          /\ kept = SubSeq(chunks, j, Len(chunks))
          /\ Retained(SubSeq(chunks, j, Len(chunks))) + Len(bounded) <= MaxBytes
    BY <1>2, KeepLeavesRoom
  <1>4. kept \in Seq(Chunks) /\ Len(kept) = Len(chunks) - j + 1
    BY <1>1, <1>3
  <1>5. c \in Chunks /\ c.cursor = cursor /\ c.data = bounded
    BY <1>2 DEF Chunks
  <1>6. j > 1 => c.truncated
    <2>1. Len(kept) < Len(chunks) => c.truncated
      OBVIOUS
    <2> HIDE DEF c, kept
    <2> QED
      BY <1>1, <1>4, <2>1
  <1>7. Push(chunks, cursor, data) = Append(kept, c)
    BY DEF Push, bounded
  <1> HIDE DEF c, kept
  <1>8. RetainedIsBounded(Append(kept, c))
    <2>1. Retained(kept) \in Nat /\ Retained(Append(kept, c)) = Retained(kept) + DecodedLength(c.data)
      BY <1>4, <1>5, RetainedOfAppend
    <2>2. Append(kept, c) # <<>> /\ Last(Append(kept, c)) = c
      BY <1>4, <1>5 DEF Last
    <2>3. DecodedLength(c.data) = Len(bounded) + 2 * Broken(bounded) /\ Broken(bounded) \in Nat
      BY <1>2, <1>5, BrokenIsNat DEF DecodedLength
    <2>4. Retained(kept) + Len(bounded) <= MaxBytes
      BY <1>3
    <2> QED
      BY <1>1, <1>2, <1>5, <2>1, <2>2, <2>3, <2>4 DEF RetainedIsBounded
  <1> QED
    BY <1>3, <1>5, <1>6, <1>7, <1>8

-----------------------------------------------------------------------------
(* Chunks have consecutive cursors, so a client that goes on after a cursor *)
(* gets a suffix.                                                           *)

Consecutive(chunks, cursor) ==
  /\ Len(chunks) <= cursor
  /\ \A i \in 1 .. Len(chunks) : chunks[i].cursor = cursor - Len(chunks) + i

LEMMA AfterIsSuffix ==
  ASSUME NEW chunks \in Seq(Chunks), NEW cursor \in Nat, NEW after \in Nat,
         Consecutive(chunks, cursor)
  PROVE  \E k \in 0 .. Len(chunks) :
           /\ After(chunks, after) = SubSeq(chunks, k + 1, Len(chunks))
           /\ \A i \in 1 .. k : chunks[i].cursor <= after
           /\ \A i \in k + 1 .. Len(chunks) : chunks[i].cursor > after
  <1>0. Len(chunks) \in Nat
    OBVIOUS
  <1>1. PICK k \in 0 .. Len(chunks) :
          /\ \A i \in 1 .. k : chunks[i].cursor <= after
          /\ \A i \in k + 1 .. Len(chunks) : chunks[i].cursor > after
    <2>1. CASE after <= cursor - Len(chunks)
      <3> WITNESS 0 \in 0 .. Len(chunks)
      <3> QED
        BY <1>0, <2>1 DEF Consecutive
    <2>2. CASE after >= cursor
      <3> WITNESS Len(chunks) \in 0 .. Len(chunks)
      <3> QED
        BY <1>0, <2>2 DEF Consecutive
    <2>3. CASE after > cursor - Len(chunks) /\ after < cursor
      <3>1. PICK k \in 0 .. Len(chunks) : after = cursor - Len(chunks) + k
        <4>1. after - (cursor - Len(chunks)) \in 0 .. Len(chunks)
          BY <1>0, <2>3
        <4>2. after = cursor - Len(chunks) + (after - (cursor - Len(chunks)))
          BY <1>0
        <4> QED
          BY <4>1, <4>2
      <3>2. ASSUME NEW i \in 1 .. k PROVE chunks[i].cursor <= after
        <4>1. i \in 1 .. Len(chunks) /\ i \in Nat /\ k \in Nat /\ i <= k
          BY <1>0
        <4>2. chunks[i].cursor = cursor - Len(chunks) + i
          BY <4>1 DEF Consecutive
        <4> QED
          BY <1>0, <3>1, <4>1, <4>2
      <3>3. ASSUME NEW i \in k + 1 .. Len(chunks) PROVE chunks[i].cursor > after
        <4>1. i \in 1 .. Len(chunks) /\ i \in Nat /\ k \in Nat /\ i > k
          BY <1>0
        <4>2. chunks[i].cursor = cursor - Len(chunks) + i
          BY <4>1 DEF Consecutive
        <4> QED
          BY <1>0, <3>1, <4>1, <4>2
      <3> QED
        BY <3>2, <3>3
    <2>4. \/ after <= cursor - Len(chunks) \/ after >= cursor
          \/ after > cursor - Len(chunks) /\ after < cursor
      BY <1>0
    <2> QED
      BY <2>1, <2>2, <2>3, <2>4
  <1> DEFINE Defines(f) ==
               f = [i \in 0 .. Len(chunks) |->
                      IF i = 0 THEN <<>>
                      ELSE IF chunks[i].cursor > after THEN Append(f[i - 1], chunks[i]) ELSE f[i - 1]]
             u == CHOOSE f : Defines(f)
             g == [i \in 0 .. Len(chunks) |-> SubSeq(chunks, k + 1, i)]
  <1>2. g[0] = <<>>
    BY <1>0, <1>1
  <1>3. \A i \in 1 .. Len(chunks) :
           g[i] = IF chunks[i].cursor > after THEN Append(g[i - 1], chunks[i]) ELSE g[i - 1]
    <2> TAKE i \in 1 .. Len(chunks)
    <2>0. g[i] = SubSeq(chunks, k + 1, i) /\ g[i - 1] = SubSeq(chunks, k + 1, i - 1) /\ i \in Nat
      BY <1>0
    <2> HIDE DEF g
    <2>1. CASE i <= k
      <3>1. chunks[i].cursor <= after /\ chunks[i].cursor \in Nat
        <4>1. i \in 1 .. k
          BY <1>0, <2>0, <2>1
        <4>2. chunks[i] \in Chunks
          OBVIOUS
        <4> QED
          BY <1>1, <4>1, <4>2 DEF Chunks
      <3>3. ~(chunks[i].cursor > after)
        BY <3>1
      <3>2. SubSeq(chunks, k + 1, i) = <<>> /\ SubSeq(chunks, k + 1, i - 1) = <<>>
        BY <1>0, <1>1, <2>1
      <3> QED
        BY <2>0, <3>2, <3>3
    <2>2. CASE i > k
      <3>1. chunks[i].cursor > after
        BY <1>0, <1>1, <2>2
      <3>2. SubSeq(chunks, k + 1, i) = Append(SubSeq(chunks, k + 1, i - 1), chunks[i])
        BY <1>0, <1>1, <2>2
      <3> QED
        BY <2>0, <3>1, <3>2
    <2> QED
      BY <1>0, <1>1, <2>1, <2>2
  <1>4. Defines(g)
    <2>2. g = [i \in 0 .. Len(chunks) |-> g[i]]
      OBVIOUS
    <2> HIDE DEF g
    <2>1. \A i \in 0 .. Len(chunks) :
             g[i] = IF i = 0 THEN <<>>
                    ELSE IF chunks[i].cursor > after THEN Append(g[i - 1], chunks[i]) ELSE g[i - 1]
      <3>1. \A i \in 0 .. Len(chunks) : i = 0 \/ i \in 1 .. Len(chunks)
        BY <1>0
      <3> QED
        BY <1>2, <1>3, <3>1
    <2> QED
      BY <2>1, <2>2
  <1>5. Defines(u)
    BY <1>4
  <1>6. After(chunks, after) = u[Len(chunks)]
    BY DEF After
  <1>7. g[Len(chunks)] = SubSeq(chunks, k + 1, Len(chunks))
    BY <1>0
  <1> HIDE DEF u, g
  <1>8. \A i \in 0 .. Len(chunks) :
           u[i] = IF i = 0 THEN <<>>
                  ELSE IF chunks[i].cursor > after THEN Append(u[i - 1], chunks[i]) ELSE u[i - 1]
    BY <1>5
  <1>9. \A i \in 0 .. Len(chunks) : u[i] = g[i]
    <2> DEFINE S == {n \in 0 .. Len(chunks) : u[n] # g[n]}
    <2>1. S \in SUBSET Nat /\ 0 \notin S
      BY <1>0, <1>2, <1>8
    <2>2. SUFFICES ASSUME S # {} PROVE FALSE
      OBVIOUS
    <2>3. PICK m \in S : m # 0 /\ m - 1 \in Nat /\ m - 1 \notin S
      BY <2>1, <2>2, FirstCounterexample
    <2>4. m \in 1 .. Len(chunks) /\ m - 1 \in 0 .. Len(chunks)
      BY <1>0, <2>3
    <2> QED
      BY <1>3, <1>8, <2>3, <2>4
  <1>10. After(chunks, after) = SubSeq(chunks, k + 1, Len(chunks))
    <2>1. Len(chunks) \in 0 .. Len(chunks)
      BY <1>0
    <2> QED
      BY <1>6, <1>7, <1>9, <2>1
  <1> QED
    BY <1>1, <1>10

-----------------------------------------------------------------------------
(* The invariant of a terminal *)

PtySessions == [status : Ended \cup {None, "running"}, cursor : Nat, chunks : Seq(Chunks),
               drained : BOOLEAN, childStatus : {None, "exited", "failed"}]
Processes == [child : {None, "running", "ended"}, slaveOpen : BOOLEAN,
              unread : Seq(Units), written : Nat]
Threads == [reader : {"idle", "reading", "finishing", "done"},
            waiter : {"idle", "waiting", "finishing", "done"}]

\* What is in the buffer ends with the last cursor, and if anything was evicted
\* something that is still there says so.
Marked(chunks, cursor) ==
  Len(chunks) < cursor => \E i \in DOMAIN chunks : chunks[i].truncated

BufferInv(t) ==
  /\ Consecutive(t.chunks, t.cursor)
  /\ t.cursor # 0 => t.chunks # <<>>
  /\ Marked(t.chunks, t.cursor)
  /\ RetainedIsBounded(t.chunks)

\* The reader is through when nothing is left to read and nobody can print; the
\* terminal has exited or failed when both threads are.
EndInv(t, pr, th) ==
  /\ t.drained => pr.unread = <<>> /\ ~pr.slaveOpen
  /\ t.drained <=> th.reader \in {"finishing", "done"}
  /\ t.childStatus # None <=> th.waiter \in {"finishing", "done"}
  /\ "finishing" \in {th.reader, th.waiter} => t.drained /\ t.childStatus # None
  /\ t.status \in {"exited", "failed"} => t.drained /\ t.childStatus = t.status

\* A terminal that was not started has no program; one that runs holds its slave
\* side open.
StartInv(t, pr, th) ==
  /\ t.status = None => t = NotStarted /\ th = NoThreads
  /\ t.status # None => pr.child # None
  /\ pr.child = None => pr = NoProcess
  /\ pr.child = "running" => pr.slaveOpen

OneTerminal(t, pr, th) ==
  /\ t \in PtySessions /\ pr \in Processes /\ th \in Threads
  /\ BufferInv(t) /\ EndInv(t, pr, th) /\ StartInv(t, pr, th)

TerminalInv ==
  /\ terminal \in [Ptys -> PtySessions]
  /\ process \in [Ptys -> Processes]
  /\ threads \in [Ptys -> Threads]
  /\ \A p \in Ptys : OneTerminal(terminal[p], process[p], threads[p])

\* A session, and a child, field by field.
Session(status, cursor, chunks, drained, childStatus) ==
  [status |-> status, cursor |-> cursor, chunks |-> chunks,
   drained |-> drained, childStatus |-> childStatus]
Process(child, slaveOpen, unread, written) ==
  [child |-> child, slaveOpen |-> slaveOpen, unread |-> unread, written |-> written]

LEMMA SessionFields ==
  ASSUME NEW t \in PtySessions
  PROVE  /\ \A v, x : x = [t EXCEPT !.status = v] => x = Session(v, t.cursor, t.chunks, t.drained, t.childStatus)
         /\ \A v, x : x = [t EXCEPT !.drained = v] => x = Session(t.status, t.cursor, t.chunks, v, t.childStatus)
         /\ \A v, x : x = [t EXCEPT !.childStatus = v] => x = Session(t.status, t.cursor, t.chunks, t.drained, v)
         /\ \A v, w, x : x = [t EXCEPT !.cursor = v, !.chunks = w] => x = Session(t.status, v, w, t.drained, t.childStatus)
  <1>1. ASSUME NEW v, NEW x, x = [t EXCEPT !.status = v]
        PROVE  x = Session(v, t.cursor, t.chunks, t.drained, t.childStatus)
    BY <1>1 DEF PtySessions, Session
  <1>2. ASSUME NEW v, NEW x, x = [t EXCEPT !.drained = v]
        PROVE  x = Session(t.status, t.cursor, t.chunks, v, t.childStatus)
    BY <1>2 DEF PtySessions, Session
  <1>3. ASSUME NEW v, NEW x, x = [t EXCEPT !.childStatus = v]
        PROVE  x = Session(t.status, t.cursor, t.chunks, t.drained, v)
    BY <1>3 DEF PtySessions, Session
  <1>4. ASSUME NEW v, NEW w, NEW x, x = [t EXCEPT !.cursor = v, !.chunks = w]
        PROVE  x = Session(t.status, v, w, t.drained, t.childStatus)
    BY <1>4 DEF PtySessions, Session
  <1> QED
    BY <1>1, <1>2, <1>3, <1>4

LEMMA ProcessFields ==
  ASSUME NEW pr \in Processes
  PROVE  /\ \A v, w, x : x = [pr EXCEPT !.child = v, !.slaveOpen = w] => x = Process(v, w, pr.unread, pr.written)
         /\ \A v, x : x = [pr EXCEPT !.slaveOpen = v] => x = Process(pr.child, v, pr.unread, pr.written)
         /\ \A v, x : x = [pr EXCEPT !.unread = v] => x = Process(pr.child, pr.slaveOpen, v, pr.written)
         /\ \A v, w, x : x = [pr EXCEPT !.unread = v, !.written = w] => x = Process(pr.child, pr.slaveOpen, v, w)
  <1>1. ASSUME NEW v, NEW w, NEW x, x = [pr EXCEPT !.child = v, !.slaveOpen = w]
        PROVE  x = Process(v, w, pr.unread, pr.written)
    BY <1>1 DEF Processes, Process
  <1>2. ASSUME NEW v, NEW x, x = [pr EXCEPT !.slaveOpen = v]
        PROVE  x = Process(pr.child, v, pr.unread, pr.written)
    BY <1>2 DEF Processes, Process
  <1>3. ASSUME NEW v, NEW x, x = [pr EXCEPT !.unread = v]
        PROVE  x = Process(pr.child, pr.slaveOpen, v, pr.written)
    BY <1>3 DEF Processes, Process
  <1>4. ASSUME NEW v, NEW w, NEW x, x = [pr EXCEPT !.unread = v, !.written = w]
        PROVE  x = Process(pr.child, pr.slaveOpen, v, w)
    BY <1>4 DEF Processes, Process
  <1> QED
    BY <1>1, <1>2, <1>3, <1>4

LEMMA FreshIsFine ==
  ASSUME NEW pr \in Processes, pr.child # "running", pr.child = None => pr = NoProcess
  PROVE  OneTerminal(NotStarted, pr, NoThreads)
  <1>1. NotStarted \in PtySessions /\ NoThreads \in Threads
    BY DEF NotStarted, NoThreads, PtySessions, Threads
  <1>2. BufferInv(NotStarted)
    BY DEF BufferInv, NotStarted, Consecutive, Marked, RetainedIsBounded
  <1>3. EndInv(NotStarted, pr, NoThreads)
    BY DEF EndInv, NotStarted, NoThreads, None
  <1>4. StartInv(NotStarted, pr, NoThreads)
    BY DEF StartInv, NotStarted, NoThreads
  <1> QED
    BY <1>1, <1>2, <1>3, <1>4 DEF OneTerminal

LEMMA TerminalsStart == TerminalInit => TerminalInv
  <1> SUFFICES ASSUME TerminalInit PROVE TerminalInv
    OBVIOUS
  <1>1. NoProcess \in Processes /\ NoProcess.child = None /\ None # "running"
    BY DEF NoProcess, Processes, None
  <1>2. OneTerminal(NotStarted, NoProcess, NoThreads)
    BY <1>1, FreshIsFine
  <1>3. NotStarted \in PtySessions /\ NoThreads \in Threads
    BY <1>2 DEF OneTerminal
  <1> QED
    BY <1>1, <1>2, <1>3 DEF TerminalInit, TerminalInv

\* One terminal moves.
Moves(p, t, pr, th) ==
  /\ terminal' = [terminal EXCEPT ![p] = t]
  /\ process' = [process EXCEPT ![p] = pr]
  /\ threads' = [threads EXCEPT ![p] = th]

LEMMA OneMoves ==
  ASSUME TerminalInv, NEW p \in Ptys, NEW t, NEW pr, NEW th,
         Moves(p, t, pr, th), OneTerminal(t, pr, th)
  PROVE  TerminalInv'
  <1>1. t \in PtySessions /\ pr \in Processes /\ th \in Threads
    BY DEF OneTerminal
  <1>2. /\ terminal' \in [Ptys -> PtySessions]
        /\ process' \in [Ptys -> Processes]
        /\ threads' \in [Ptys -> Threads]
    BY <1>1 DEF TerminalInv, Moves
  <1>3. \A q \in Ptys : OneTerminal(terminal'[q], process'[q], threads'[q])
    <2> TAKE q \in Ptys
    <2>1. CASE q = p
      <3>1. terminal'[q] = t /\ process'[q] = pr /\ threads'[q] = th
        BY <2>1 DEF TerminalInv, Moves
      <3> QED
        BY <3>1
    <2>2. CASE q # p
      <3>1. terminal'[q] = terminal[q] /\ process'[q] = process[q] /\ threads'[q] = threads[q]
        BY <2>2 DEF TerminalInv, Moves
      <3> QED
        BY <3>1 DEF TerminalInv
    <2> QED
      BY <2>1, <2>2
  <1> QED
    BY <1>2, <1>3 DEF TerminalInv

-----------------------------------------------------------------------------
(* Every step of a terminal *)

\* n is t after a push.
Pushed(t, n) ==
  \E j \in 1 .. Len(t.chunks) + 1, c \in Chunks :
    /\ n.cursor = t.cursor + 1
    /\ n.chunks = Append(SubSeq(t.chunks, j, Len(t.chunks)), c)
    /\ c.cursor = n.cursor
    /\ j > 1 => c.truncated

\* What no step does to a terminal: revise its end, unstart it, or change its
\* buffer otherwise than by a push before the reader is through.
Develops(t, n) ==
  /\ t.status \in Ended => n.status = t.status
  /\ t.status # None => n.status # None
  /\ \/ n.cursor = t.cursor /\ n.chunks = t.chunks
     \/ ~t.drained /\ Pushed(t, n)

LEMMA StartStep ==
  ASSUME TerminalInv, NEW p \in Ptys, StartPty(p)
  PROVE  \E t, pr, th :
           /\ Moves(p, t, pr, th) /\ OneTerminal(t, pr, th) /\ Develops(terminal[p], t)
           /\ pr.child # None /\ t.status # None
  <1> DEFINE t == [status |-> "running", cursor |-> 0, chunks |-> <<>>,
                   drained |-> FALSE, childStatus |-> None]
             pr == [child |-> "running", slaveOpen |-> TRUE, unread |-> <<>>, written |-> 0]
             th == [reader |-> "reading", waiter |-> "waiting"]
  <1>1. terminal[p] = NotStarted /\ process[p] = NoProcess
    BY DEF StartPty
  <1>2. /\ terminal' = [terminal EXCEPT ![p] = [terminal[p] EXCEPT !.status = "running"]]
        /\ process' = [process EXCEPT ![p] = [[process[p] EXCEPT !.child = "running"]
                                                EXCEPT !.slaveOpen = TRUE]]
        /\ threads' = [threads EXCEPT ![p] = th]
    BY DEF StartPty, TerminalInv
  <1>3. Moves(p, t, pr, th)
    <2>1. [NotStarted EXCEPT !.status = "running"] = t
      <3>1. PICK x : x = [NotStarted EXCEPT !.status = "running"]
        OBVIOUS
      <3>2. x = t
        BY <1>1, <3>1, SessionFields DEF TerminalInv, NotStarted, Session
      <3> QED
        BY <3>1, <3>2
    <2>2. [[NoProcess EXCEPT !.child = "running"] EXCEPT !.slaveOpen = TRUE] = pr
      <3>1. PICK x : x = [NoProcess EXCEPT !.child = "running", !.slaveOpen = TRUE]
        OBVIOUS
      <3>2. x = pr
        BY <1>1, <3>1, ProcessFields DEF TerminalInv, NoProcess, Process
      <3> QED
        BY <3>1, <3>2
    <2> QED
      BY <1>1, <1>2, <2>1, <2>2 DEF Moves
  <1>4. t \in PtySessions /\ pr \in Processes /\ th \in Threads
    BY DEF PtySessions, Processes, Threads
  <1>5. BufferInv(t)
    BY DEF BufferInv, Consecutive, Marked, RetainedIsBounded
  <1>6. EndInv(t, pr, th) /\ StartInv(t, pr, th)
    BY DEF EndInv, StartInv, None
  <1>7. Develops(terminal[p], t)
    BY <1>1 DEF Develops, NotStarted, Ended, None
  <1>8. pr.child # None /\ t.status # None
    BY DEF None
  <1> HIDE DEF t, pr, th
  <1> QED
    BY <1>3, <1>4, <1>5, <1>6, <1>7, <1>8 DEF OneTerminal

\* A step that leaves the threads and the slave side's last holder as they are.
LEMMA PrintsStep ==
  ASSUME TerminalInv, NEW p \in Ptys, NEW character \in Characters, Prints(p, character)
  PROVE  \E t, pr, th :
           /\ Moves(p, t, pr, th) /\ OneTerminal(t, pr, th) /\ Develops(terminal[p], t)
           /\ pr.child = process[p].child
  <1> DEFINE t == terminal[p]
             th == threads[p]
             old == process[p]
  <1>1. OneTerminal(t, old, th)
    BY DEF TerminalInv
  <1>2. PICK pr : pr = [old EXCEPT !.unread = old.unread \o character,
                                   !.written = old.written + Len(character)]
    OBVIOUS
  <1>3. process' = [process EXCEPT ![p] = pr]
    BY <1>2 DEF Prints, TerminalInv
  <1>4. old \in Processes
    BY <1>1 DEF OneTerminal
  <1>5. pr = Process(old.child, old.slaveOpen, old.unread \o character,
                     old.written + Len(character))
    BY <1>2, <1>4 DEF Processes, Process
  <1>6. character \in Seq(Units)
    BY TerminalAssumption
  <1>7. /\ pr \in Processes /\ pr.child = old.child /\ pr.slaveOpen = old.slaveOpen
    <2>1. old.unread \in Seq(Units) /\ old.written \in Nat /\ old.slaveOpen \in BOOLEAN
          /\ old.child \in {None, "running", "ended"}
      BY <1>4 DEF Processes
    <2>2. old.unread \o character \in Seq(Units) /\ old.written + Len(character) \in Nat
      BY <1>6, <2>1
    <2> QED
      BY <1>5, <2>1, <2>2 DEF Process, Processes
  <1>8. old.slaveOpen
    BY DEF Prints
  <1>9. old.child # None
    BY <1>1, <1>8 DEF OneTerminal, StartInv, NoProcess
  <1>10. OneTerminal(t, pr, th)
    BY <1>1, <1>7, <1>8, <1>9 DEF OneTerminal, EndInv, StartInv
  <1>11. Moves(p, t, pr, th)
    BY <1>3 DEF Moves, Prints, TerminalInv
  <1>12. Develops(terminal[p], t)
    BY DEF Develops
  <1> HIDE DEF t, th
  <1> QED
    BY <1>7, <1>10, <1>11, <1>12

LEMMA ChildEndsStep ==
  ASSUME TerminalInv, NEW p \in Ptys, ChildEnds(p) \/ SlaveCloses(p)
  PROVE  \E t, pr, th :
           /\ Moves(p, t, pr, th) /\ OneTerminal(t, pr, th) /\ Develops(terminal[p], t)
           /\ pr.child # None /\ process[p].child # None
  <1> DEFINE t == terminal[p]
             th == threads[p]
             old == process[p]
  <1>1. OneTerminal(t, old, th) /\ old \in Processes
    BY DEF TerminalInv, OneTerminal
  <1>2. PICK open \in BOOLEAN : process' = [process EXCEPT ![p] = Process("ended", open, old.unread, old.written)]
                                /\ (~old.slaveOpen => ~open)
    <2>1. CASE ChildEnds(p)
      <3>1. old.slaveOpen
        BY <1>1, <2>1 DEF ChildEnds, OneTerminal, StartInv
      <3>2. PICK open \in BOOLEAN :
              process' = [process EXCEPT ![p] = [old EXCEPT !.child = "ended", !.slaveOpen = open]]
        BY <2>1 DEF ChildEnds, TerminalInv
      <3>3. PICK pr : pr = [old EXCEPT !.child = "ended", !.slaveOpen = open]
        OBVIOUS
      <3>4. pr = Process("ended", open, old.unread, old.written)
        BY <1>1, <3>3, ProcessFields
      <3> QED
        BY <3>1, <3>2, <3>3, <3>4
    <2>2. CASE SlaveCloses(p)
      <3>1. process' = [process EXCEPT ![p] = [old EXCEPT !.slaveOpen = FALSE]]
            /\ old.child = "ended"
        BY <2>2 DEF SlaveCloses, TerminalInv
      <3>2. PICK pr : pr = [old EXCEPT !.slaveOpen = FALSE]
        OBVIOUS
      <3>3. pr = Process("ended", FALSE, old.unread, old.written)
        BY <1>1, <3>1, <3>2 DEF Processes, Process
      <3> QED
        BY <3>1, <3>2, <3>3
    <2> QED
      BY <2>1, <2>2
  <1> DEFINE pr == Process("ended", open, old.unread, old.written)
  <1>3. pr \in Processes /\ pr.child = "ended" /\ pr.slaveOpen = open /\ pr.unread = old.unread
    BY <1>1 DEF Processes, Process
  <1> HIDE DEF pr
  <1>4. old.child # None /\ pr.child # None
    BY <1>3 DEF ChildEnds, SlaveCloses, None
  <1>5. OneTerminal(t, pr, th)
    BY <1>1, <1>2, <1>3, <1>4 DEF OneTerminal, EndInv, StartInv
  <1>6. Moves(p, t, pr, th)
    BY <1>2 DEF Moves, ChildEnds, SlaveCloses, TerminalInv, pr
  <1>7. Develops(terminal[p], t)
    BY DEF Develops
  <1> HIDE DEF t, th
  <1> QED
    BY <1>4, <1>5, <1>6, <1>7

\* What is left of chunks without the first ones, and kept with one more.
Leaves(chunks, gone, kept) ==
  /\ Len(chunks) = gone + Len(kept)
  /\ \A i \in 1 .. Len(kept) : kept[i] = chunks[gone + i]
Extends(kept, c, new) ==
  /\ Len(new) = Len(kept) + 1 /\ new[Len(kept) + 1] = c
  /\ \A i \in 1 .. Len(kept) : new[i] = kept[i]

\* A push keeps the buffer's invariant: the chunks that stay keep their cursors,
\* and what is evicted is marked in the chunk that comes.
LEMMA PushedBuffer ==
  ASSUME NEW chunks \in Seq(Chunks), NEW cursor \in Nat, Consecutive(chunks, cursor),
         Marked(chunks, cursor),
         NEW gone \in Nat, NEW kept \in Seq(Chunks), Leaves(chunks, gone, kept),
         NEW c \in Chunks, c.cursor = cursor + 1, gone > 0 => c.truncated,
         NEW new \in Seq(Chunks), Extends(kept, c, new)
  PROVE  new # <<>> /\ Consecutive(new, cursor + 1) /\ Marked(new, cursor + 1)
  <1>0. Len(chunks) \in Nat /\ Len(kept) \in Nat /\ Len(new) \in Nat
    OBVIOUS
  <1>1. Len(chunks) = gone + Len(kept) /\ \A i \in 1 .. Len(kept) : kept[i] = chunks[gone + i]
    BY DEF Leaves
  <1>2. /\ Len(new) = Len(kept) + 1 /\ new[Len(kept) + 1] = c
        /\ \A i \in 1 .. Len(kept) : new[i] = kept[i]
    BY DEF Extends
  <1>4. Consecutive(new, cursor + 1)
    <2>1. Len(new) <= cursor + 1
      BY <1>0, <1>1, <1>2 DEF Consecutive
    <2>2. ASSUME NEW i \in 1 .. Len(kept)
          PROVE  new[i].cursor = cursor + 1 - Len(new) + i
      <3>1. new[i] = chunks[gone + i] /\ gone + i \in 1 .. Len(chunks)
        BY <1>0, <1>1, <1>2
      <3>2. chunks[gone + i].cursor = cursor - Len(chunks) + (gone + i)
        BY <3>1 DEF Consecutive
      <3>3. cursor - Len(chunks) + (gone + i) = cursor + 1 - Len(new) + i
        BY <1>0, <1>1, <1>2
      <3> QED
        BY <3>1, <3>2, <3>3
    <2>3. new[Len(kept) + 1].cursor = cursor + 1 - Len(new) + (Len(kept) + 1)
      <3>1. cursor + 1 - Len(new) + (Len(kept) + 1) = cursor + 1
        BY <1>0, <1>1, <1>2
      <3> QED
        BY <1>2, <3>1
    <2>4. \A i \in 1 .. Len(new) : i \in 1 .. Len(kept) \/ i = Len(kept) + 1
      BY <1>0, <1>1, <1>2
    <2>5. ASSUME NEW i \in 1 .. Len(new)
          PROVE  new[i].cursor = cursor + 1 - Len(new) + i
      <3>1. CASE i \in 1 .. Len(kept)
        BY <2>2, <3>1
      <3>2. CASE i = Len(kept) + 1
        BY <2>3, <3>2
      <3> QED
        BY <2>4, <3>1, <3>2
    <2> QED
      BY <2>1, <2>5 DEF Consecutive
  <1>5. ASSUME Len(new) < cursor + 1
        PROVE  \E i \in DOMAIN new : new[i].truncated
    <2>0. DOMAIN new = 1 .. Len(new) /\ DOMAIN chunks = 1 .. Len(chunks)
      OBVIOUS
    <2>1. CASE gone > 0
      <3>1. Len(kept) + 1 \in 1 .. Len(new)
        BY <1>0, <1>1, <1>2
      <3> QED
        BY <1>2, <2>0, <2>1, <3>1
    <2>2. CASE gone = 0
      <3>0. Len(chunks) < cursor
        BY <1>0, <1>1, <1>2, <1>5, <2>2
      <3>1. PICK i \in DOMAIN chunks : chunks[i].truncated
        BY <3>0 DEF Marked
      <3>2. i \in 1 .. Len(kept) /\ gone + i = i /\ i \in 1 .. Len(new)
        BY <1>0, <1>1, <1>2, <2>0, <2>2
      <3>3. new[i] = chunks[i]
        BY <1>1, <1>2, <3>2
      <3> QED
        BY <2>0, <3>1, <3>2, <3>3
    <2> QED
      BY <1>0, <1>1, <1>2, <2>1, <2>2
  <1>6. new # <<>>
    BY <1>0, <1>1, <1>2
  <1> QED
    BY <1>4, <1>5, <1>6 DEF Marked

LEMMA PushStep ==
  ASSUME TerminalInv, NEW p \in Ptys, PushOutput(p)
  PROVE  \E t, pr, th :
           /\ Moves(p, t, pr, th) /\ OneTerminal(t, pr, th) /\ Develops(terminal[p], t)
           /\ pr.child = process[p].child
  <1>a. PICK s : s = terminal[p]
    OBVIOUS
  <1>b. PICK old : old = process[p]
    OBVIOUS
  <1>c. PICK th : th = threads[p]
    OBVIOUS
  <1>1. OneTerminal(s, old, th) /\ s \in PtySessions /\ old \in Processes
    BY <1>a, <1>b, <1>c DEF TerminalInv, OneTerminal
  <1>2. /\ old.unread \in Seq(Units) /\ s.chunks \in Seq(Chunks) /\ s.cursor \in Nat
    BY <1>1 DEF PtySessions, Processes
  <1>3. PICK size \in 1 .. Min({ReadSize, Len(old.unread)}) :
          /\ process' = [process EXCEPT ![p].unread = SubSeq(@, size + 1, Len(@))]
          /\ terminal' = [terminal EXCEPT ![p].cursor = s.cursor + 1,
               ![p].chunks = Push(@, s.cursor + 1, SubSeq(old.unread, 1, size))]
    BY <1>a, <1>b DEF PushOutput
  <1>4. size \in 1 .. Len(old.unread)
    <2>1. Len(old.unread) \in Nat /\ ReadSize \in Nat
      BY <1>2, TerminalAssumption
    <2>2. {ReadSize, Len(old.unread)} \in SUBSET Nat /\ {ReadSize, Len(old.unread)} # {}
      BY <2>1
    <2>3. Min({ReadSize, Len(old.unread)}) \in Nat
          /\ Min({ReadSize, Len(old.unread)}) <= Len(old.unread)
      BY <2>2, LeastIsIn
    <2> QED
      BY <2>1, <2>3
  <1>5. PICK data : data = SubSeq(old.unread, 1, size)
    OBVIOUS
  <1>6. data \in Seq(Units)
    BY <1>2, <1>4, <1>5
  <1>7. PICK chunks : chunks = Push(s.chunks, s.cursor + 1, data)
    OBVIOUS
  <1>8. PICK j \in 1 .. Len(s.chunks) + 1, c \in Chunks :
          /\ chunks = Append(SubSeq(s.chunks, j, Len(s.chunks)), c)
          /\ c.cursor = s.cursor + 1
          /\ j > 1 => c.truncated
          /\ RetainedIsBounded(chunks)
    <2>1. s.cursor + 1 \in Nat
      BY <1>2
    <2>2. \E j \in 1 .. Len(s.chunks) + 1, c \in Chunks :
           /\ Push(s.chunks, s.cursor + 1, data) = Append(SubSeq(s.chunks, j, Len(s.chunks)), c)
           /\ c.cursor = s.cursor + 1
           /\ j > 1 => c.truncated
           /\ RetainedIsBounded(Append(SubSeq(s.chunks, j, Len(s.chunks)), c))
      <3>1. PICK q \in Seq(Chunks), next \in Nat : q = s.chunks /\ next = s.cursor + 1
        BY <1>2, <2>1
      <3>2. \E j \in 1 .. Len(q) + 1, c \in Chunks :
             /\ Push(q, next, data) = Append(SubSeq(q, j, Len(q)), c)
             /\ c.cursor = next
             /\ j > 1 => c.truncated
             /\ RetainedIsBounded(Append(SubSeq(q, j, Len(q)), c))
        BY <1>6, PushShape
      <3> QED
        BY <3>1, <3>2
    <2> QED
      BY <1>7, <2>2
  <1>9. /\ chunks \in Seq(Chunks) /\ chunks # <<>>
        /\ Consecutive(chunks, s.cursor + 1)
        /\ Marked(chunks, s.cursor + 1)
    <2>0. Len(s.chunks) \in Nat /\ j \in Nat
      BY <1>2
    <2>1. BufferInv(s)
      BY <1>1 DEF OneTerminal
    <2>2. PICK kept : kept = SubSeq(s.chunks, j, Len(s.chunks))
      OBVIOUS
    <2>3. PICK gone \in Nat : gone = j - 1
      BY <2>0
    <2>4. /\ kept \in Seq(Chunks) /\ Len(kept) = Len(s.chunks) - j + 1
          /\ \A i \in 1 .. Len(kept) : kept[i] = s.chunks[j + i - 1]
      BY <1>2, <2>0, <2>2
    <2>5. Len(s.chunks) = gone + Len(kept) /\ \A i \in 1 .. Len(kept) : kept[i] = s.chunks[gone + i]
      <3>1. \A i \in 1 .. Len(kept) : j + i - 1 = gone + i
        BY <2>0, <2>3
      <3> QED
        BY <2>0, <2>3, <2>4, <3>1
    <2>6. gone > 0 => c.truncated
      BY <1>8, <2>0, <2>3
    <2>7. /\ chunks \in Seq(Chunks) /\ Len(chunks) = Len(kept) + 1 /\ chunks[Len(kept) + 1] = c
          /\ \A i \in 1 .. Len(kept) : chunks[i] = kept[i]
      BY <1>8, <2>2, <2>4
    <2> QED
      <3>1. PICK q \in Seq(Chunks), last \in Nat : q = s.chunks /\ last = s.cursor
        BY <1>2
      <3>2. Consecutive(q, last) /\ Marked(q, last)
        BY <2>1, <3>1 DEF BufferInv
      <3>3. Leaves(q, gone, kept) /\ Extends(kept, c, chunks)
        BY <2>5, <2>7, <3>1 DEF Leaves, Extends
      <3>4. c.cursor = last + 1
        BY <1>8, <3>1
      <3>5. chunks # <<>> /\ Consecutive(chunks, last + 1) /\ Marked(chunks, last + 1)
        BY <2>4, <2>6, <2>7, <3>2, <3>3, <3>4, PushedBuffer
      <3> QED
        BY <2>7, <3>1, <3>5
  <1> DEFINE t == Session(s.status, s.cursor + 1, chunks, s.drained, s.childStatus)
             pr == Process(old.child, old.slaveOpen, SubSeq(old.unread, size + 1, Len(old.unread)), old.written)
  <1>10. terminal' = [terminal EXCEPT ![p] = t]
    <2>1. terminal' = [terminal EXCEPT ![p] = [s EXCEPT !.cursor = s.cursor + 1, !.chunks = chunks]]
      BY <1>a, <1>3, <1>5, <1>7 DEF TerminalInv, PtySessions
    <2>2. PICK x : x = [s EXCEPT !.cursor = s.cursor + 1, !.chunks = chunks]
      OBVIOUS
    <2>3. x = t
      BY <1>1, <2>2 DEF PtySessions, Session
    <2> QED
      BY <2>1, <2>2, <2>3
  <1>11. process' = [process EXCEPT ![p] = pr]
    <2>1. process' = [process EXCEPT ![p] = [old EXCEPT !.unread = SubSeq(old.unread, size + 1, Len(old.unread))]]
      BY <1>b, <1>3 DEF TerminalInv
    <2>2. PICK x : x = [old EXCEPT !.unread = SubSeq(old.unread, size + 1, Len(old.unread))]
      OBVIOUS
    <2>3. x = pr
      BY <1>1, <2>2 DEF Processes, Process
    <2> QED
      BY <2>1, <2>2, <2>3
  <1>12. Moves(p, t, pr, th)
    <2>1. threads' = [threads EXCEPT ![p] = th]
      BY <1>c DEF PushOutput, TerminalInv
    <2> QED
      BY <1>10, <1>11, <2>1 DEF Moves
  <1>13. /\ t \in PtySessions /\ t.status = s.status /\ t.cursor = s.cursor + 1 /\ t.chunks = chunks
         /\ t.drained = s.drained /\ t.childStatus = s.childStatus
    BY <1>1, <1>2, <1>9 DEF PtySessions, Session
  <1>14. /\ pr \in Processes /\ pr.child = old.child /\ pr.slaveOpen = old.slaveOpen
    <2>1. SubSeq(old.unread, size + 1, Len(old.unread)) \in Seq(Units)
      BY <1>2, <1>4
    <2> QED
      BY <1>1, <2>1 DEF Processes, Process
  <1>15. th.reader = "reading" /\ th \in Threads
    BY <1>c, <1>1 DEF PushOutput, OneTerminal
  <1> HIDE DEF t, pr
  <1>16. s.status # None
    BY <1>1, <1>15 DEF OneTerminal, StartInv, NoThreads
  <1>17. ~s.drained
    BY <1>1, <1>15 DEF OneTerminal, EndInv
  <1>18. BufferInv(t)
    BY <1>2, <1>8, <1>9, <1>13 DEF BufferInv
  <1>19. EndInv(t, pr, th)
    BY <1>1, <1>13, <1>14, <1>17 DEF OneTerminal, EndInv
  <1>20. StartInv(t, pr, th)
    BY <1>1, <1>13, <1>14, <1>16 DEF OneTerminal, StartInv
  <1>21. Develops(s, t)
    BY <1>8, <1>13, <1>17 DEF Develops, Pushed
  <1> QED
    BY <1>a, <1>b, <1>12, <1>13, <1>14, <1>15, <1>18, <1>19, <1>20, <1>21 DEF OneTerminal

LEMMA DrainedStep ==
  ASSUME TerminalInv, NEW p \in Ptys, ReaderDrained(p)
  PROVE  \E t, pr, th :
           /\ Moves(p, t, pr, th) /\ OneTerminal(t, pr, th) /\ Develops(terminal[p], t)
           /\ pr.child = process[p].child
  <1>a. PICK s, pr, old : s = terminal[p] /\ pr = process[p] /\ old = threads[p]
    OBVIOUS
  <1>1. OneTerminal(s, pr, old) /\ s \in PtySessions /\ old \in Threads
    BY <1>a DEF TerminalInv, OneTerminal
  <1>2. PICK t : t = [s EXCEPT !.drained = TRUE]
    OBVIOUS
  <1>3. t = Session(s.status, s.cursor, s.chunks, TRUE, s.childStatus)
    BY <1>1, <1>2, SessionFields
  <1>4. PICK th : th = [old EXCEPT !.reader = IF s.childStatus = None THEN "done" ELSE "finishing"]
    OBVIOUS
  <1>5. /\ th \in Threads /\ th.waiter = old.waiter
        /\ th.reader = IF s.childStatus = None THEN "done" ELSE "finishing"
    BY <1>1, <1>4 DEF Threads
  <1>6. Moves(p, t, pr, th)
    BY <1>a, <1>2, <1>4 DEF ReaderDrained, Moves, TerminalInv
  <1>7. /\ t \in PtySessions /\ t.status = s.status /\ t.cursor = s.cursor /\ t.chunks = s.chunks
        /\ t.drained /\ t.childStatus = s.childStatus
    BY <1>1, <1>3 DEF PtySessions, Session
  <1>8. old.reader = "reading" /\ pr.unread = <<>> /\ ~pr.slaveOpen
    BY <1>a DEF ReaderDrained
  <1>9. s.status # None
    BY <1>1, <1>8 DEF OneTerminal, StartInv, NoThreads
  <1>10. BufferInv(t)
    BY <1>1, <1>7 DEF OneTerminal, BufferInv
  <1>11. EndInv(t, pr, th)
    BY <1>1, <1>5, <1>7, <1>8 DEF OneTerminal, EndInv
  <1>12. StartInv(t, pr, th)
    BY <1>1, <1>7, <1>9 DEF OneTerminal, StartInv
  <1>13. Develops(s, t)
    BY <1>7 DEF Develops
  <1> QED
    BY <1>a, <1>1, <1>5, <1>6, <1>7, <1>10, <1>11, <1>12, <1>13 DEF OneTerminal

LEMMA ChildFinishedStep ==
  ASSUME TerminalInv, NEW p \in Ptys, NEW status \in WaitOutcomes, ChildFinished(p, status)
  PROVE  \E t, pr, th :
           /\ Moves(p, t, pr, th) /\ OneTerminal(t, pr, th) /\ Develops(terminal[p], t)
           /\ pr.child = process[p].child
  <1>a. PICK s, pr, old : s = terminal[p] /\ pr = process[p] /\ old = threads[p]
    OBVIOUS
  <1>1. OneTerminal(s, pr, old) /\ s \in PtySessions /\ old \in Threads
    BY <1>a DEF TerminalInv, OneTerminal
  <1>2. PICK t : t = [s EXCEPT !.childStatus = status]
    OBVIOUS
  <1>3. t = Session(s.status, s.cursor, s.chunks, s.drained, status)
    BY <1>1, <1>2, SessionFields
  <1>4. PICK th : th = [old EXCEPT !.waiter = IF s.drained THEN "finishing" ELSE "done"]
    OBVIOUS
  <1>5. /\ th \in Threads /\ th.reader = old.reader
        /\ th.waiter = IF s.drained THEN "finishing" ELSE "done"
    BY <1>1, <1>4 DEF Threads
  <1>6. Moves(p, t, pr, th)
    BY <1>a, <1>2, <1>4 DEF ChildFinished, Moves, TerminalInv
  <1>7. /\ t \in PtySessions /\ t.status = s.status /\ t.cursor = s.cursor /\ t.chunks = s.chunks
        /\ t.drained = s.drained /\ t.childStatus = status /\ status # None
    BY <1>1, <1>3, TerminalAssumption DEF PtySessions, Session, None
  <1>8. old.waiter = "waiting"
    BY <1>a DEF ChildFinished
  <1>9. s.status # None
    BY <1>1, <1>8 DEF OneTerminal, StartInv, NoThreads
  <1>14. s.childStatus = None /\ s.status \notin {"exited", "failed"}
    BY <1>1, <1>8 DEF OneTerminal, EndInv, None
  <1>10. BufferInv(t)
    BY <1>1, <1>7 DEF OneTerminal, BufferInv
  <1>11. EndInv(t, pr, th)
    BY <1>1, <1>5, <1>7, <1>8, <1>14 DEF OneTerminal, EndInv
  <1>12. StartInv(t, pr, th)
    BY <1>1, <1>7, <1>9 DEF OneTerminal, StartInv
  <1>13. Develops(s, t)
    BY <1>7 DEF Develops
  <1> QED
    BY <1>a, <1>1, <1>5, <1>6, <1>7, <1>10, <1>11, <1>12, <1>13 DEF OneTerminal

\* The end is told by the thread that is second; a cancelled terminal stays so.
LEMMA FinishStep ==
  ASSUME TerminalInv, NEW p \in Ptys, Finish(p)
  PROVE  \E t, pr, th :
           /\ Moves(p, t, pr, th) /\ OneTerminal(t, pr, th) /\ Develops(terminal[p], t)
           /\ pr.child = process[p].child
  <1>a. PICK s, pr, old : s = terminal[p] /\ pr = process[p] /\ old = threads[p]
    OBVIOUS
  <1>1. OneTerminal(s, pr, old) /\ s \in PtySessions /\ old \in Threads
    BY <1>a DEF TerminalInv, OneTerminal
  <1>2. PICK t : t = [s EXCEPT !.status = FinalStatus(p)]
    OBVIOUS
  <1>3. t = Session(FinalStatus(p), s.cursor, s.chunks, s.drained, s.childStatus)
    BY <1>1, <1>2, SessionFields
  <1>4. PICK th : /\ \/ old.reader = "finishing" /\ th = [old EXCEPT !.reader = "done"]
                     \/ old.waiter = "finishing" /\ th = [old EXCEPT !.waiter = "done"]
                  /\ threads' = [threads EXCEPT ![p] = th]
    BY <1>a DEF Finish, TerminalInv
  <1>5. /\ th \in Threads /\ "finishing" \in {old.reader, old.waiter}
        /\ th.reader \in {"finishing", "done"} <=> old.reader \in {"finishing", "done"}
        /\ th.waiter \in {"finishing", "done"} <=> old.waiter \in {"finishing", "done"}
    BY <1>1, <1>4 DEF Threads
  <1>6. Moves(p, t, pr, th)
    BY <1>a, <1>2, <1>4 DEF Finish, Moves, TerminalInv
  <1>8. s.drained /\ s.childStatus \in {"exited", "failed"}
    BY <1>1, <1>5 DEF OneTerminal, EndInv, PtySessions
  <1>9. s.status # None
    BY <1>1, <1>5 DEF OneTerminal, StartInv, NoThreads
  <1>14. FinalStatus(p) = IF s.status = "running" THEN s.childStatus ELSE s.status
    BY <1>a DEF FinalStatus
  <1>7. /\ t \in PtySessions /\ t.status = FinalStatus(p) /\ t.cursor = s.cursor /\ t.chunks = s.chunks
        /\ t.drained = s.drained /\ t.childStatus = s.childStatus
    <2>1. FinalStatus(p) \in Ended \cup {None, "running"}
      BY <1>1, <1>8, <1>14 DEF PtySessions, Ended
    <2> QED
      BY <1>1, <1>3, <2>1 DEF PtySessions, Session
  <1>10. BufferInv(t)
    BY <1>1, <1>7 DEF OneTerminal, BufferInv
  <1>11. EndInv(t, pr, th)
    BY <1>1, <1>5, <1>7, <1>8, <1>14 DEF OneTerminal, EndInv
  <1>15. t.status # None
    BY <1>7, <1>8, <1>9, <1>14 DEF None
  <1>12. StartInv(t, pr, th)
    BY <1>1, <1>7, <1>9, <1>15 DEF OneTerminal, StartInv
  <1>13. Develops(s, t)
    BY <1>7, <1>14, <1>15 DEF Develops, Ended
  <1> QED
    BY <1>a, <1>1, <1>5, <1>6, <1>7, <1>10, <1>11, <1>12, <1>13 DEF OneTerminal

LEMMA CancelStep ==
  ASSUME TerminalInv, NEW p \in Ptys, CancelPty(p)
  PROVE  \E t, pr, th :
           /\ Moves(p, t, pr, th) /\ OneTerminal(t, pr, th) /\ Develops(terminal[p], t)
           /\ pr.child = process[p].child
  <1>a. PICK s, pr, old : s = terminal[p] /\ pr = process[p] /\ old = threads[p]
    OBVIOUS
  <1>1. OneTerminal(s, pr, old) /\ s \in PtySessions /\ old \in Threads
    BY <1>a DEF TerminalInv, OneTerminal
  <1>2. PICK t : t = [s EXCEPT !.status = "cancelled"]
    OBVIOUS
  <1>3. t = Session("cancelled", s.cursor, s.chunks, s.drained, s.childStatus)
    BY <1>1, <1>2, SessionFields
  <1>6. Moves(p, t, pr, old)
    BY <1>a, <1>2 DEF CancelPty, Moves, TerminalInv
  <1>7. /\ t \in PtySessions /\ t.status = "cancelled" /\ t.cursor = s.cursor /\ t.chunks = s.chunks
        /\ t.drained = s.drained /\ t.childStatus = s.childStatus
    BY <1>1, <1>3 DEF PtySessions, Session, Ended
  <1>9. s.status = "running" /\ t.status # None /\ s.status # None
    BY <1>a, <1>7 DEF CancelPty, None
  <1>10. BufferInv(t)
    BY <1>1, <1>7 DEF OneTerminal, BufferInv
  <1>11. EndInv(t, pr, old)
    BY <1>1, <1>7 DEF OneTerminal, EndInv
  <1>12. StartInv(t, pr, old)
    BY <1>1, <1>7, <1>9 DEF OneTerminal, StartInv
  <1>13. Develops(s, t)
    BY <1>7, <1>9 DEF Develops, Ended, None
  <1> QED
    BY <1>a, <1>1, <1>6, <1>7, <1>10, <1>11, <1>12, <1>13 DEF OneTerminal

-----------------------------------------------------------------------------
\* A step of one terminal, whoever takes it.
TerminalStep(p) == StartPty(p) \/ CancelPty(p) \/ ThreadNext(p) \/ ProgramNext(p)

LEMMA TerminalsKept ==
  ASSUME TerminalInv, NEW p \in Ptys, TerminalStep(p)
  PROVE  /\ TerminalInv'
         /\ \A q \in Ptys : Develops(terminal[q], terminal'[q])
         /\ \A q \in Ptys : process[q].child # None => process'[q].child # None
         /\ \A q \in Ptys : q # p => process'[q] = process[q] /\ terminal'[q] = terminal[q]
         /\ StartPty(p) => process'[p].child # None /\ terminal'[p].status # None
         /\ ~StartPty(p) => (process[p].child = None => process'[p].child = None)
  <1>1. PICK t, pr, th :
           /\ Moves(p, t, pr, th) /\ OneTerminal(t, pr, th) /\ Develops(terminal[p], t)
           /\ process[p].child # None => pr.child # None
           /\ StartPty(p) => pr.child # None /\ t.status # None
           /\ ~StartPty(p) => (process[p].child = None => pr.child = None)
    <2>1. CASE StartPty(p)
      BY <2>1, StartStep
    <2>2. CASE ~StartPty(p) /\ CancelPty(p)
      BY <2>2, CancelStep
    <2>3. CASE ~StartPty(p) /\ ThreadNext(p)
      <3>1. CASE PushOutput(p)
        BY <2>3, <3>1, PushStep
      <3>2. CASE ReaderDrained(p)
        BY <2>3, <3>2, DrainedStep
      <3>3. CASE \E status \in WaitOutcomes : ChildFinished(p, status)
        BY <2>3, <3>3, ChildFinishedStep
      <3>4. CASE Finish(p)
        BY <2>3, <3>4, FinishStep
      <3> QED
        BY <2>3, <3>1, <3>2, <3>3, <3>4 DEF ThreadNext
    <2>4. CASE ~StartPty(p) /\ ProgramNext(p)
      <3>1. CASE \E character \in Characters : Prints(p, character)
        BY <2>4, <3>1, PrintsStep
      <3>2. CASE ChildEnds(p) \/ SlaveCloses(p)
        BY <2>4, <3>2, ChildEndsStep
      <3> QED
        BY <2>4, <3>1, <3>2 DEF ProgramNext
    <2> QED
      BY <2>1, <2>2, <2>3, <2>4 DEF TerminalStep
  <1>2. TerminalInv'
    BY <1>1, OneMoves
  <1>3. terminal'[p] = t /\ process'[p] = pr
    BY <1>1 DEF Moves, TerminalInv
  <1>4. \A q \in Ptys : q # p => process'[q] = process[q] /\ terminal'[q] = terminal[q]
    BY <1>1 DEF Moves, TerminalInv
  <1>5. \A q \in Ptys : Develops(terminal[q], terminal'[q])
    <2> TAKE q \in Ptys
    <2>1. CASE q = p
      BY <1>1, <1>3, <2>1
    <2>2. CASE q # p
      BY <1>4, <2>2 DEF Develops
    <2> QED
      BY <2>1, <2>2
  <1> QED
    BY <1>1, <1>2, <1>3, <1>4, <1>5

\* Nothing happens to terminals when a step is about none of them.
LEMMA NoTerminal ==
  ASSUME TerminalInv, NEW p, p \notin Ptys, StartPty(p) \/ CancelPty(p)
  PROVE  UNCHANGED <<terminal, process, threads>>
  BY DEF TerminalInv, StartPty, CancelPty

LEMMA TerminalsUntouched ==
  ASSUME TerminalInv, UNCHANGED <<terminal, process, threads>>
  PROVE  TerminalInv'
  BY DEF TerminalInv

-----------------------------------------------------------------------------
(* Standalone agents *)

\* Requests, capture tasks and a restart keep the terminals' invariant.
LEMMA AgentStepKeeps ==
  ASSUME TerminalInv, [AgentNext]_agentVars
  PROVE  TerminalInv' /\ EndsStay
  <1>1. CASE UNCHANGED <<terminal, process, threads>>
    <2>1. EndsStay
      BY <1>1 DEF EndsStay
    <2> QED
      BY <1>1, <2>1, TerminalsUntouched
  <1>2. CASE \E p \in Ptys : TerminalStep(p)
    <2>1. PICK p \in Ptys : TerminalStep(p)
      BY <1>2
    <2>2. TerminalInv' /\ \A q \in Ptys : Develops(terminal[q], terminal'[q])
      BY <2>1, TerminalsKept
    <2> QED
      BY <2>2 DEF Develops, EndsStay
  <1>3. CASE Restart
    <2>1. \A p \in Ptys : terminal'[p] = NotStarted /\ threads'[p] = NoThreads
      BY <1>3 DEF Restart
    <2>2. ASSUME NEW p \in Ptys
          PROVE  /\ process'[p] \in Processes /\ process'[p].child # "running"
                 /\ process'[p].child = None => process'[p] = NoProcess
      <3>1. process[p] \in Processes /\ process[p].written \in Nat
        BY DEF TerminalInv, Processes
      <3>2. process'[p] = IF process[p] = NoProcess THEN NoProcess
                          ELSE [NoProcess EXCEPT !.child = "ended", !.written = process[p].written]
        BY <1>3 DEF Restart
      <3>3. CASE process[p] = NoProcess
        BY <3>2, <3>3 DEF NoProcess, Processes, None
      <3>4. CASE process[p] # NoProcess
        <4>1. process'[p] = [child |-> "ended", slaveOpen |-> FALSE, unread |-> <<>>,
                             written |-> process[p].written]
          BY <3>2, <3>4 DEF NoProcess
        <4> QED
          BY <3>1, <4>1 DEF Processes, None
      <3> QED
        BY <3>3, <3>4
    <2>3. ASSUME NEW p \in Ptys
          PROVE  OneTerminal(terminal'[p], process'[p], threads'[p])
      <3>1. PICK pr : pr = process'[p]
        OBVIOUS
      <3>2. OneTerminal(NotStarted, pr, NoThreads)
        BY <2>2, <3>1, FreshIsFine
      <3> QED
        BY <2>1, <3>1, <3>2
    <2>4. /\ terminal' \in [Ptys -> PtySessions] /\ process' \in [Ptys -> Processes]
          /\ threads' \in [Ptys -> Threads]
      <3>1. /\ terminal' = [p \in Ptys |-> NotStarted] /\ threads' = [p \in Ptys |-> NoThreads]
            /\ process' = [p \in Ptys |-> process'[p]]
        BY <1>3 DEF Restart
      <3>2. NotStarted \in PtySessions /\ NoThreads \in Threads
        BY DEF NotStarted, NoThreads, PtySessions, Threads
      <3> QED
        BY <2>2, <3>1, <3>2
    <2>5. EndsStay
      BY <2>1 DEF EndsStay, NotStarted
    <2> QED
      BY <2>3, <2>4, <2>5 DEF TerminalInv
  <1>4. ASSUME NEW p, StartPty(p) \/ CancelPty(p)
        PROVE  UNCHANGED <<terminal, process, threads>> \/ \E q \in Ptys : TerminalStep(q)
    BY <1>4, NoTerminal DEF TerminalStep
  <1>5. CASE \E r \in Requests, op \in {"start", "send", "stop"}, a \in Agents : Request(r, op, a)
    <2>1. UNCHANGED <<terminal, process, threads>>
      BY <1>5 DEF Request, terminalVars
    <2> QED
      BY <1>1, <2>1
  <1>6. CASE \E r \in Requests : RequestNext(r)
    <2>1. PICK r \in Requests : RequestNext(r)
      BY <1>6
    <2>2. UNCHANGED <<terminal, process, threads>> \/ \E q \in Ptys : TerminalStep(q)
      <3>1. CASE StartSpawns(r)
        BY <3>1, <1>4 DEF StartSpawns
      <3>2. CASE StopCancels(r)
        BY <3>2, <1>4 DEF StopCancels, terminalVars
      <3>3. CASE ~StartSpawns(r) /\ ~StopCancels(r)
        BY <2>1, <3>3 DEF RequestNext, StartLooksUp, StartBinds, StartActivates, StartBootstraps,
           SendRecords, SendAppendsHistory, SendInputs, StopLooksUp, StopRecords, RequestFails, terminalVars
      <3> QED
        BY <3>1, <3>2, <3>3
    <2> QED
      BY <1>1, <1>2, <2>2
  <1>7. CASE \E p \in Ptys : CaptureNext(p)
    <2>1. UNCHANGED <<terminal, process, threads>>
      BY <1>7 DEF CaptureNext, CaptureWaits, CaptureAppends, CaptureShares, CaptureProgresses, OnlyCapture
    <2> QED
      BY <1>1, <2>1
  <1>8. CASE \E p \in Ptys : (ProgramNext(p) \/ ThreadNext(p) \/ WaitNext(p)) /\ UNCHANGED managerVars
    <2>1. PICK p \in Ptys : ProgramNext(p) \/ ThreadNext(p) \/ WaitNext(p)
      BY <1>8
    <2>2. WaitNext(p) => UNCHANGED <<terminal, process, threads>>
      BY DEF WaitNext, CheckStatus, ReadOutput, Park, WaitTimesOut
    <2> QED
      BY <1>1, <1>2, <2>1, <2>2 DEF TerminalStep
  <1>9. CASE UNCHANGED agentVars
    BY <1>1, <1>9 DEF agentVars, terminalVars
  <1> QED
    BY <1>3, <1>5, <1>6, <1>7, <1>8, <1>9 DEF AgentNext

LEMMA AgentTerminals == AgentSpec => []TerminalInv
  <1>1. AgentInit => TerminalInv
    BY TerminalsStart DEF AgentInit
  <1>2. TerminalInv /\ [AgentNext]_agentVars => TerminalInv'
    BY AgentStepKeeps
  <1> QED
    BY <1>1, <1>2, PTL DEF AgentSpec

\* A terminal of an agent that ended stays ended the way it did until the daemon
\* restarts, whichever of cancel, the reader and the waiter is first.
THEOREM EndsAreFinal == AgentSpec => EndIsFinal
  <1>1. TerminalInv /\ [AgentNext]_agentVars => [EndsStay]_terminalVars
    BY AgentStepKeeps
  <1> QED
    BY <1>1, AgentTerminals, PTL DEF AgentSpec, EndIsFinal

-----------------------------------------------------------------------------
(* Executions of workflow nodes: the invariant *)

States == {None, "running", "completed", "stopping", "failed"}
ExecutionViews == [pty : Ptys \cup {None}, token : Nat, state : States, upto : Nat]
ClientRecords ==
  [at : {"monitor", "terminal", "spawn", "insert", "started", "execution", "frames"},
   view : Nat, pending : Ptys \cup {None}, token : Nat, execution : ExecutionViews,
   cursor : Nat, screen : Seq(Nat), seen : States]

\* A screen is in order and ends at the client's cursor.
InOrder(screen, cursor) ==
  /\ \A i, j \in DOMAIN screen : i < j => screen[i] < screen[j]
  /\ \A i \in DOMAIN screen : screen[i] <= cursor
  /\ cursor = NextOf(screen, 0)

HasSeen(screen, cursor, chunks) ==
  \A i \in DOMAIN chunks : chunks[i].cursor <= cursor =>
    \E j \in DOMAIN screen : screen[j] = chunks[i].cursor

\* A client has everything of the terminal up to its cursor that is still there;
\* an end it was told is true, and if it was told before it fetched the output
\* it has all of it.
ScreenInv(e, t) ==
  /\ InOrder(e.screen, e.cursor) /\ HasSeen(e.screen, e.cursor, t.chunks)
  /\ e.cursor <= t.cursor
  /\ e.execution.state \in {"completed", "failed"} => t.status \in {"exited", "failed"}
  /\ e.seen \in {"completed", "failed"} => t.status \in {"exited", "failed"} /\ e.cursor = t.cursor

ClientTyped(e) ==
  /\ e \in ClientRecords
  /\ e.view \in FirstVersion .. workflow
  /\ e.token <= workflow + 1

\* How far the start is that the client waits for.
ClientPending(e) ==
  /\ e.at \in {"spawn", "insert", "started"} => e.pending \in prepared /\ FirstVersion < e.token
  /\ e.at = "spawn" => process[e.pending].child = None
  /\ e.at = "insert" => /\ process[e.pending].child # None /\ terminal[e.pending].status # None
                        /\ registry[e.pending] = NoRecord
  /\ e.at = "started" => registry[e.pending] = [token |-> e.token, node |-> "node"]

ClientShown(e) ==
  /\ e.at \in {"execution", "frames"} => e.execution.pty # None
  /\ e.execution.pty # None =>
       /\ registry[e.execution.pty] # NoRecord
       /\ registry[e.execution.pty].token = e.execution.token
       /\ ScreenInv(e, terminal[e.execution.pty])

ClientInv(e) == ClientTyped(e) /\ ClientPending(e) /\ ClientShown(e)

\* No two clients wait for the same terminal.
PendingApart ==
  \A u, v \in Uis :
    /\ ui[u].at \in {"spawn", "insert", "started"} /\ ui[v].at \in {"spawn", "insert", "started"}
    /\ ui[u].pending = ui[v].pending
    => u = v

\* Files are written first, then the terminal is started, then the record made.
RegistryInv ==
  /\ workflow \in FirstVersion .. MaxVersion
  /\ registry \in [Ptys -> [token : Nat, node : {None, "node"}]]
  /\ prepared \subseteq Ptys
  /\ typed \in [Ptys -> Seq(Uis)]
  /\ \A p \in Ptys : process[p].child # None => p \in prepared
  /\ \A p \in Ptys : registry[p] # NoRecord =>
       /\ process[p].child # None /\ terminal[p].status # None
       /\ registry[p].token \in FirstVersion + 1 .. workflow + 1

ClientsInv ==
  /\ DOMAIN ui = Uis /\ ui = [u \in Uis |-> ui[u]]
  /\ \A u \in Uis : ClientInv(ui[u])
  /\ PendingApart

ExecutionInv == TerminalInv /\ RegistryInv /\ ClientsInv

LEMMA ExecutionsStart == TerminalInit /\ ExecutionInit => ExecutionInv
  <1> SUFFICES ASSUME TerminalInit, ExecutionInit PROVE ExecutionInv
    OBVIOUS
  <1>1. TerminalInv
    BY TerminalsStart
  <1>2. \A p \in Ptys : process[p].child = None /\ registry[p] = NoRecord
    BY DEF TerminalInit, ExecutionInit, NoProcess
  <1>3. RegistryInv
    <2>1. workflow \in FirstVersion .. MaxVersion
      BY VersionAssumption DEF ExecutionInit
    <2>2. NoRecord \in [token : Nat, node : {None, "node"}]
      BY DEF NoRecord
    <2>3. registry \in [Ptys -> [token : Nat, node : {None, "node"}]]
      BY <2>2 DEF ExecutionInit
    <2>4. prepared \subseteq Ptys /\ typed \in [Ptys -> Seq(Uis)]
      BY DEF ExecutionInit
    <2> QED
      BY <1>2, <2>1, <2>3, <2>4 DEF RegistryInv
  <1>4. PICK e : e = [NewUi EXCEPT !.view = FirstVersion]
    OBVIOUS
  <1>5. e = [at |-> "monitor", view |-> FirstVersion, pending |-> None, token |-> 0,
             execution |-> NoExecution, cursor |-> 0, screen |-> <<>>, seen |-> None]
    BY <1>4 DEF NewUi
  <1>6. e \in ClientRecords
    <2>1. NoExecution \in ExecutionViews
      BY DEF NoExecution, ExecutionViews, States
    <2> QED
      BY <1>5, <2>1, VersionAssumption DEF ClientRecords, States
  <1>7. ClientInv(e)
    <2>1. e.execution.pty = None
      BY <1>5 DEF NoExecution
    <2>2. ClientTyped(e)
      BY <1>5, <1>6, VersionAssumption DEF ClientTyped, ExecutionInit
    <2>3. ClientPending(e) /\ ClientShown(e)
      BY <1>5, <2>1 DEF ClientPending, ClientShown
    <2> QED
      BY <2>2, <2>3 DEF ClientInv
  <1>8. ui = [u \in Uis |-> e]
    BY <1>4 DEF ExecutionInit
  <1>9. PendingApart
    BY <1>5, <1>8 DEF PendingApart
  <1>10. ClientsInv
    BY <1>7, <1>8, <1>9 DEF ClientsInv
  <1> QED
    BY <1>1, <1>3, <1>10 DEF ExecutionInv

-----------------------------------------------------------------------------
(* What a client shows, while the terminal goes on *)

LEMMA ScreenKept ==
  ASSUME NEW e \in ClientRecords, NEW t \in PtySessions, NEW n \in PtySessions, NEW pr, NEW th,
         OneTerminal(t, pr, th), ScreenInv(e, t), Develops(t, n)
  PROVE  ScreenInv(e, n)
  <1>0. /\ t.cursor \in Nat /\ e.cursor \in Nat /\ t.chunks \in Seq(Chunks)
    BY DEF PtySessions, ClientRecords
  <1>1. t.status \in {"exited", "failed"} => n.status = t.status /\ t.drained
    BY DEF OneTerminal, EndInv, Develops, Ended
  <1>2. CASE n.cursor = t.cursor /\ n.chunks = t.chunks
    BY <1>1, <1>2 DEF ScreenInv
  <1>3. CASE ~t.drained /\ Pushed(t, n)
    <2>1. PICK j \in 1 .. Len(t.chunks) + 1, c \in Chunks :
            /\ n.cursor = t.cursor + 1
            /\ n.chunks = Append(SubSeq(t.chunks, j, Len(t.chunks)), c)
            /\ c.cursor = n.cursor
      BY <1>3 DEF Pushed
    <2>2. PICK q, new : q = t.chunks /\ new = n.chunks
      OBVIOUS
    <2>3. PICK kept : kept = SubSeq(q, j, Len(q))
      OBVIOUS
    <2>4. q \in Seq(Chunks) /\ Len(q) \in Nat /\ j \in Nat /\ j \in 1 .. Len(q) + 1
      BY <1>0, <2>1, <2>2
    <2>5. /\ kept \in Seq(Chunks) /\ Len(kept) = Len(q) - j + 1
          /\ \A i \in 1 .. Len(kept) : kept[i] = q[j + i - 1]
      BY <2>3, <2>4
    <2>6. /\ Len(new) = Len(kept) + 1 /\ new[Len(kept) + 1] = c /\ DOMAIN new = 1 .. Len(new)
          /\ \A i \in 1 .. Len(kept) : new[i] = kept[i]
      BY <2>1, <2>2, <2>3, <2>5
    <2>7. HasSeen(e.screen, e.cursor, new)
      <3>1. SUFFICES ASSUME NEW i \in DOMAIN new, new[i].cursor <= e.cursor
                     PROVE  \E k \in DOMAIN e.screen : e.screen[k] = new[i].cursor
        BY DEF HasSeen
      <3>2. CASE i = Len(kept) + 1
        BY <1>0, <2>1, <2>2, <2>6, <3>1, <3>2 DEF ScreenInv
      <3>3. CASE i \in 1 .. Len(kept)
        <4>1. new[i] = q[j + i - 1] /\ j + i - 1 \in DOMAIN q
          <5>1. j + i - 1 \in 1 .. Len(q) /\ DOMAIN q = 1 .. Len(q)
            BY <2>4, <2>5, <3>3
          <5> QED
            BY <2>5, <2>6, <3>3, <5>1
        <4> QED
          BY <2>2, <3>1, <4>1 DEF ScreenInv, HasSeen
      <3>4. i \in 1 .. Len(kept) \/ i = Len(kept) + 1
        BY <2>5, <2>6
      <3> QED
        BY <3>2, <3>3, <3>4
    <2> QED
      BY <1>0, <1>1, <1>3, <2>1, <2>2, <2>7 DEF ScreenInv
  <1> QED
    BY <1>2, <1>3 DEF Develops

\* What a client with the cursor gets is what it lacks, in order.
LEMMA FramesAreNew ==
  ASSUME TerminalInv, NEW p \in Ptys, NEW after \in Nat, after <= terminal[p].cursor
  PROVE  \E frames \in Seq(Nat) :
           /\ Frames(p, after) = frames
           /\ \A i, j \in DOMAIN frames : i < j => frames[i] < frames[j]
           /\ \A i \in DOMAIN frames : frames[i] > after /\ frames[i] <= terminal[p].cursor
           /\ \A i \in DOMAIN terminal[p].chunks :
                terminal[p].chunks[i].cursor > after =>
                  \E k \in DOMAIN frames : frames[k] = terminal[p].chunks[i].cursor
           /\ NextOf(frames, after) = terminal[p].cursor
  <1>1. PICK t : t = terminal[p]
    OBVIOUS
  <1>2. t \in PtySessions /\ BufferInv(t) /\ t.cursor \in Nat
    BY <1>1 DEF TerminalInv, OneTerminal, PtySessions
  <1>3. PICK q \in Seq(Chunks), last \in Nat : q = t.chunks /\ last = t.cursor
    BY <1>2 DEF PtySessions
  <1>4. Consecutive(q, last) /\ (last # 0 => q # <<>>)
    BY <1>2, <1>3 DEF BufferInv
  <1>5. PICK k \in 0 .. Len(q) :
          /\ After(q, after) = SubSeq(q, k + 1, Len(q))
          /\ \A i \in 1 .. k : q[i].cursor <= after
          /\ \A i \in k + 1 .. Len(q) : q[i].cursor > after
    BY <1>4, AfterIsSuffix
  <1>6. PICK chunks : chunks = SubSeq(q, k + 1, Len(q))
    OBVIOUS
  <1>7. Len(q) \in Nat /\ k \in Nat
    OBVIOUS
  <1>8. /\ chunks \in Seq(Chunks) /\ Len(chunks) = Len(q) - k /\ DOMAIN chunks = 1 .. Len(chunks)
        /\ \A i \in 1 .. Len(chunks) : chunks[i] = q[k + i]
    <2>1. /\ chunks \in Seq(Chunks) /\ Len(chunks) = Len(q) - k
      BY <1>6, <1>7
    <2>2. \A i \in 1 .. Len(chunks) : chunks[i] = q[(k + 1) + i - 1]
      BY <1>6, <1>7
    <2>3. \A i \in 1 .. Len(chunks) : (k + 1) + i - 1 = k + i
      BY <1>7
    <2> QED
      BY <2>1, <2>2, <2>3
  <1>9. PICK frames : frames = [i \in DOMAIN chunks |-> chunks[i].cursor]
    OBVIOUS
  <1>10. Frames(p, after) = frames
    BY <1>1, <1>3, <1>5, <1>6, <1>9 DEF Frames
  <1>11. ASSUME NEW i \in 1 .. Len(chunks)
         PROVE  frames[i] = last - Len(q) + (k + i) /\ frames[i] \in Nat /\ frames[i] > after
    <2>1. k + i \in 1 .. Len(q) /\ k + i \in k + 1 .. Len(q)
      BY <1>7, <1>8
    <2>2. frames[i] = q[k + i].cursor
      BY <1>8, <1>9
    <2>3. q[k + i].cursor = last - Len(q) + (k + i)
      BY <1>4, <2>1 DEF Consecutive
    <2>4. q[k + i].cursor \in Nat
      <3>1. q[k + i] \in Chunks
        BY <2>1
      <3> QED
        BY <3>1 DEF Chunks
    <2> QED
      BY <1>5, <2>1, <2>2, <2>3, <2>4
  <1>12. /\ frames \in Seq(Nat) /\ Len(frames) = Len(chunks) /\ DOMAIN frames = 1 .. Len(chunks)
    <2>1. Len(chunks) \in Nat
      BY <1>8
    <2>2. frames \in [1 .. Len(chunks) -> Nat]
      BY <1>8, <1>9, <1>11
    <2> QED
      BY <2>1, <2>2
  <1>13. \A i, j \in DOMAIN frames : i < j => frames[i] < frames[j]
    BY <1>7, <1>11, <1>12
  <1>14. \A i \in DOMAIN frames : frames[i] > after /\ frames[i] <= last
    BY <1>7, <1>8, <1>11, <1>12
  <1>15. ASSUME NEW i \in DOMAIN q, q[i].cursor > after
         PROVE  \E m \in DOMAIN frames : frames[m] = q[i].cursor
    <2>0. i \in 1 .. Len(q) /\ q[i].cursor \in Nat
      <3>1. q[i] \in Chunks
        OBVIOUS
      <3> QED
        BY <3>1 DEF Chunks
    <2>1. i > k
      BY <1>5, <1>7, <1>15, <2>0
    <2>2. i - k \in 1 .. Len(chunks) /\ k + (i - k) = i
      BY <1>7, <1>8, <2>0, <2>1
    <2>3. frames[i - k] = q[i].cursor
      BY <1>8, <1>9, <2>2
    <2> QED
      BY <1>12, <2>2, <2>3
  <1>16. NextOf(frames, after) = last
    <2>1. CASE Len(chunks) = 0
      <3>1. frames = <<>>
        BY <1>12, <2>1
      <3>2. Len(q) = k
        BY <1>7, <1>8, <2>1
      <3>3. last = after
        <4>1. CASE last = 0
          BY <1>1, <1>3, <4>1
        <4>2. CASE last # 0
          <5>1. Len(q) # 0
            BY <1>4, <4>2
          <5>2. q[Len(q)].cursor = last
            BY <1>4, <1>7, <5>1 DEF Consecutive
          <5>3. Len(q) \in 1 .. k
            BY <1>7, <3>2, <5>1
          <5> QED
            BY <1>1, <1>3, <1>5, <5>2, <5>3
        <4> QED
          BY <4>1, <4>2
      <3> QED
        BY <3>1, <3>3 DEF NextOf
    <2>2. CASE Len(chunks) # 0
      <3>1. Len(chunks) \in 1 .. Len(chunks)
        BY <1>8, <2>2
      <3>2. frames[Len(chunks)] = last
        BY <1>7, <1>8, <1>11, <3>1
      <3>3. frames # <<>>
        BY <1>12, <2>2
      <3> QED
        BY <1>12, <3>2, <3>3 DEF NextOf, Last
    <2> QED
      BY <2>1, <2>2
  <1> QED
    BY <1>1, <1>3, <1>10, <1>12, <1>13, <1>14, <1>15, <1>16

-----------------------------------------------------------------------------
(* What others do to a client: nothing *)

Starting == {"spawn", "insert", "started"}

\* Versions, files, records and terminals only go on.
GoesOn ==
  /\ workflow <= workflow' /\ prepared \subseteq prepared'
  /\ \A p \in Ptys : registry[p] # NoRecord => registry'[p] = registry[p]
  /\ \A p \in Ptys : Develops(terminal[p], terminal'[p])
  /\ \A p \in Ptys : process[p].child # None => process'[p].child # None

\* The start e waits for was left alone.
StartLeft(e) ==
  /\ e.at = "spawn" => process'[e.pending].child = None
  /\ e.at = "insert" => registry'[e.pending] = NoRecord

LEMMA ShownKept ==
  ASSUME TerminalInv, TerminalInv', RegistryInv, RegistryInv', GoesOn, NEW e, ClientInv(e)
  PROVE  ClientTyped(e)' /\ ClientShown(e)'
  <1>1. ClientTyped(e)'
    BY VersionAssumption DEF ClientInv, ClientTyped, ClientRecords, GoesOn, RegistryInv
  <1>3. ClientShown(e)'
    <2>1. CASE e.execution.pty = None
      BY <2>1 DEF ClientInv, ClientShown
    <2>2. CASE e.execution.pty # None
      <3>1. PICK p : p = e.execution.pty
        OBVIOUS
      <3>2. e \in ClientRecords /\ p \in Ptys
        BY <2>2, <3>1 DEF ClientInv, ClientTyped, ClientRecords, ExecutionViews
      <3>3. PICK t, n, pr, th : t = terminal[p] /\ n = terminal'[p] /\ pr = process[p] /\ th = threads[p]
        OBVIOUS
      <3>4. /\ t \in PtySessions /\ n \in PtySessions /\ OneTerminal(t, pr, th) /\ Develops(t, n)
        BY <3>2, <3>3 DEF TerminalInv, GoesOn
      <3>5. ScreenInv(e, t)
        BY <2>2, <3>1, <3>3 DEF ClientInv, ClientShown
      <3>6. ScreenInv(e, n)
        BY <3>2, <3>4, <3>5, ScreenKept
      <3>7. registry'[p] = registry[p] /\ registry[p] # NoRecord /\ registry[p].token = e.execution.token
        BY <2>2, <3>1, <3>2 DEF ClientInv, ClientShown, GoesOn
      <3>8. e.at \in {"execution", "frames"} => e.execution.pty # None
        BY <2>2
      <3> QED
        BY <3>1, <3>3, <3>6, <3>7, <3>8 DEF ClientShown
    <2> QED
      BY <2>1, <2>2
  <1> QED
    BY <1>1, <1>3

LEMMA ClientKept ==
  ASSUME TerminalInv, TerminalInv', RegistryInv, RegistryInv', GoesOn,
         NEW e, ClientInv(e), StartLeft(e)
  PROVE  ClientInv(e)'
  <1>1. ClientTyped(e)' /\ ClientShown(e)'
    BY ShownKept
  <1>2. ClientPending(e)'
    <2>1. e.at \in Starting => e.pending \in prepared /\ e.pending \in prepared' /\ e.pending \in Ptys
      BY DEF ClientInv, ClientPending, GoesOn, RegistryInv, Starting
    <2>2. e.at = "insert" => process'[e.pending].child # None /\ terminal'[e.pending].status # None
      BY <2>1 DEF ClientInv, ClientPending, GoesOn, Develops, Starting
    <2>3. e.at = "started" => registry'[e.pending] = [token |-> e.token, node |-> "node"]
      BY <2>1 DEF ClientInv, ClientPending, GoesOn, NoRecord, None, Starting
    <2> QED
      BY <2>1, <2>2, <2>3 DEF ClientInv, ClientPending, StartLeft, Starting
  <1> QED
    BY <1>1, <1>2 DEF ClientInv

LEMMA NoClientMoves ==
  ASSUME ExecutionInv, TerminalInv', RegistryInv', GoesOn, ui' = ui,
         \A v \in Uis : StartLeft(ui[v])
  PROVE  ExecutionInv'
  <1>1. ASSUME NEW v \in Uis
        PROVE  ClientInv(ui[v])'
    <2>1. PICK e : e = ui[v]
      OBVIOUS
    <2>2. ClientInv(e) /\ StartLeft(e)
      BY <2>1 DEF ExecutionInv, ClientsInv
    <2>3. ClientInv(e)'
      BY <2>2, ClientKept DEF ExecutionInv
    <2>4. ui'[v] = e
      BY <2>1
    <2> QED
      BY <2>3, <2>4 DEF ClientInv, ClientTyped, ClientPending, ClientShown
  <1>2. ClientsInv'
    BY <1>1 DEF ExecutionInv, ClientsInv, PendingApart
  <1> QED
    BY <1>2 DEF ExecutionInv

LEMMA OneClientMoves ==
  ASSUME ExecutionInv, TerminalInv', RegistryInv', GoesOn, NEW u \in Uis, NEW n, MoveUi(u, n),
         ClientInv(n)', \A v \in Uis : v # u => StartLeft(ui[v]),
         n.at \in Starting =>
           \A v \in Uis : v # u /\ ui[v].at \in Starting => ui[v].pending # n.pending
  PROVE  ExecutionInv'
  <1>0. /\ ui' = [v \in Uis |-> ui'[v]] /\ DOMAIN ui' = Uis /\ ui'[u] = n
        /\ \A v \in Uis : v # u => ui'[v] = ui[v]
    BY DEF ExecutionInv, ClientsInv, MoveUi
  <1>1. ASSUME NEW v \in Uis
        PROVE  ClientInv(ui[v])'
    <2>1. CASE v = u
      BY <1>0, <2>1 DEF ClientInv, ClientTyped, ClientPending, ClientShown
    <2>2. CASE v # u
      <3>1. PICK e : e = ui[v]
        OBVIOUS
      <3>2. ClientInv(e) /\ StartLeft(e)
        BY <2>2, <3>1 DEF ExecutionInv, ClientsInv
      <3>3. ClientInv(e)'
        BY <3>2, ClientKept DEF ExecutionInv
      <3>4. ui'[v] = e
        BY <1>0, <2>2, <3>1
      <3> QED
        BY <3>3, <3>4 DEF ClientInv, ClientTyped, ClientPending, ClientShown
    <2> QED
      BY <2>1, <2>2
  <1>2. PendingApart'
    <2>1. SUFFICES ASSUME NEW v \in Uis, NEW w \in Uis, ui'[v].at \in Starting, ui'[w].at \in Starting,
                          ui'[v].pending = ui'[w].pending
                   PROVE  v = w
      BY DEF PendingApart, Starting
    <2>2. CASE v = u \/ w = u
      BY <1>0, <2>1, <2>2
    <2>3. CASE v # u /\ w # u
      BY <1>0, <2>1, <2>3 DEF ExecutionInv, ClientsInv, PendingApart, Starting
    <2> QED
      BY <2>2, <2>3
  <1>3. ClientsInv'
    BY <1>0, <1>1, <1>2 DEF ClientsInv
  <1> QED
    BY <1>3 DEF ExecutionInv

\* Nothing but clients moved.
LEMMA OnlyClientsMove ==
  ASSUME ExecutionInv, UNCHANGED <<workflow, registry, prepared, terminal, process>>
  PROVE  /\ GoesOn /\ \A v \in Uis : StartLeft(ui[v])
         /\ UNCHANGED threads => TerminalInv'
         /\ UNCHANGED typed => RegistryInv'
         /\ \A e : ClientInv(e) => ClientInv(e)'
  <1>1. GoesOn
    BY DEF GoesOn, Develops, ExecutionInv, RegistryInv
  <1>2. \A v \in Uis : StartLeft(ui[v])
    BY DEF StartLeft, ExecutionInv, ClientsInv, ClientInv, ClientPending
  <1>3. UNCHANGED threads => TerminalInv'
    BY TerminalsUntouched DEF ExecutionInv
  <1>4. UNCHANGED typed => RegistryInv'
    BY DEF ExecutionInv, RegistryInv
  <1>5. ASSUME NEW e, ClientInv(e)
        PROVE  ClientInv(e)'
    BY <1>5 DEF ClientInv, ClientTyped, ClientPending, ClientShown
  <1> QED
    BY <1>1, <1>2, <1>3, <1>4, <1>5

\* What does not touch the execution a client shows.
SameScreen(e, n) ==
  /\ n.execution = e.execution /\ n.cursor = e.cursor
  /\ n.screen = e.screen /\ n.seen = e.seen

LEMMA SameScreenShown ==
  ASSUME NEW e, NEW n, ClientShown(e), SameScreen(e, n),
         n.at \in {"execution", "frames"} => n.execution.pty # None
  PROVE  ClientShown(n)
  BY DEF ClientShown, SameScreen, ScreenInv

\* Only StartPty starts a terminal.
LEMMA OthersDoNotStart ==
  ASSUME TerminalInv, NEW p \in Ptys, CancelPty(p) \/ ThreadNext(p) \/ ProgramNext(p)
  PROVE  ~StartPty(p)
  <1>1. OneTerminal(terminal[p], process[p], threads[p])
    BY DEF TerminalInv
  <1>2. CASE CancelPty(p)
    BY <1>2 DEF CancelPty, StartPty, NotStarted, None
  <1>3. CASE ThreadNext(p)
    <2>1. threads[p].reader \in {"reading", "finishing"} \/ threads[p].waiter \in {"waiting", "finishing"}
      BY <1>3 DEF ThreadNext, PushOutput, ReaderDrained, ChildFinished, Finish
    <2>2. terminal[p].status # None
      BY <1>1, <2>1 DEF OneTerminal, StartInv, NoThreads
    <2> QED
      BY <2>2 DEF StartPty, NotStarted
  <1>4. CASE ProgramNext(p)
    <2>1. process[p].slaveOpen \/ process[p].child \in {"running", "ended"}
      BY <1>4 DEF ProgramNext, Prints, ChildEnds, SlaveCloses
    <2>2. ~NoProcess.slaveOpen /\ NoProcess.child \notin {"running", "ended"}
      BY DEF NoProcess, None
    <2> QED
      BY <2>1, <2>2 DEF StartPty
  <1> QED
    BY <1>2, <1>3, <1>4

\* A step of a terminal that starts none leaves every start alone.
LEMMA RunningGoesOn ==
  ASSUME ExecutionInv, NEW p \in Ptys, CancelPty(p) \/ ThreadNext(p) \/ ProgramNext(p),
         UNCHANGED <<workflow, registry, prepared, typed>>
  PROVE  /\ TerminalInv' /\ RegistryInv' /\ GoesOn
         /\ \A v \in Uis : StartLeft(ui[v])
  <1>1. ~StartPty(p) /\ TerminalStep(p)
    BY OthersDoNotStart DEF ExecutionInv, TerminalStep
  <1>2. /\ TerminalInv'
        /\ \A q \in Ptys : Develops(terminal[q], terminal'[q])
        /\ \A q \in Ptys : process[q].child # None => process'[q].child # None
        /\ \A q \in Ptys : process[q].child = None => process'[q].child = None
    BY <1>1, TerminalsKept DEF ExecutionInv
  <1>3. RegistryInv'
    BY <1>2 DEF ExecutionInv, RegistryInv, Develops
  <1>4. GoesOn
    BY <1>2 DEF ExecutionInv, RegistryInv, GoesOn
  <1>5. ASSUME NEW v \in Uis
        PROVE  StartLeft(ui[v])
    <2>1. ClientPending(ui[v]) /\ prepared \subseteq Ptys
      BY DEF ExecutionInv, ClientsInv, ClientInv, RegistryInv
    <2> QED
      BY <1>2, <2>1 DEF StartLeft, ClientPending
  <1> QED
    BY <1>2, <1>3, <1>4, <1>5

-----------------------------------------------------------------------------
(* The start of an execution *)

LEMMA MaterializeKeeps ==
  ASSUME ExecutionInv, NEW u \in Uis, Materialize(u)
  PROVE  ExecutionInv'
  <1>1. PICK e, p : e = ui[u] /\ p = NewExecutionPty
    OBVIOUS
  <1>2. p \in Ptys /\ p \notin prepared /\ prepared' = prepared \cup {p}
    BY <1>1 DEF Materialize, NewExecutionPty, UnusedPtys
  <1>3. ClientInv(e) /\ e \in ClientRecords /\ e.view \in FirstVersion .. workflow
    BY <1>1 DEF ExecutionInv, ClientsInv, ClientInv, ClientTyped
  <1>a. PICK token : token = e.view + 1
    OBVIOUS
  <1>b. token \in Nat /\ FirstVersion < token /\ token <= workflow + 1
    BY <1>3, <1>a, VersionAssumption DEF ExecutionInv, RegistryInv
  <1>4. PICK n : n = [e EXCEPT !.at = "spawn", !.pending = p, !.token = token]
    OBVIOUS
  <1>5. MoveUi(u, n)
    BY <1>1, <1>4, <1>a DEF Materialize, FencingToken
  <1>6. /\ n \in ClientRecords /\ n.at = "spawn" /\ n.pending = p /\ n.token = token
        /\ n.view = e.view /\ SameScreen(e, n)
    BY <1>2, <1>3, <1>4, <1>b DEF ClientRecords, SameScreen
  <1>7. TerminalInv'
    BY TerminalsUntouched DEF Materialize, terminalVars, ExecutionInv
  <1>8. process[p].child = None
    BY <1>2 DEF ExecutionInv, RegistryInv
  <1>9. RegistryInv'
    BY <1>2 DEF ExecutionInv, RegistryInv, Materialize, terminalVars
  <1>10. GoesOn
    BY <1>2 DEF ExecutionInv, RegistryInv, GoesOn, Develops, Materialize, terminalVars
  <1>11. \A v \in Uis : StartLeft(ui[v])
    BY DEF StartLeft, ExecutionInv, ClientsInv, ClientInv, ClientPending, Materialize, terminalVars
  <1>12. ClientInv(n)'
    <2>1. ClientTyped(e)' /\ ClientShown(e)'
      BY <1>3, <1>7, <1>9, <1>10, ShownKept DEF ExecutionInv
    <2>2. ClientShown(n)'
      BY <1>6, <2>1 DEF ClientShown, SameScreen, ScreenInv
    <2>3. ClientTyped(n)'
      BY <1>3, <1>6, <1>b DEF ClientTyped, Materialize
    <2>4. ClientPending(n)'
      BY <1>2, <1>6, <1>8, <1>b DEF ClientPending, Materialize, terminalVars
    <2> QED
      BY <2>2, <2>3, <2>4 DEF ClientInv
  <1>13. \A v \in Uis : ui[v].at \in Starting => ui[v].pending # p
    BY <1>2 DEF ExecutionInv, ClientsInv, ClientInv, ClientPending, Starting
  <1> QED
    BY <1>5, <1>6, <1>7, <1>9, <1>10, <1>11, <1>12, <1>13, OneClientMoves

LEMMA StartsTerminalKeeps ==
  ASSUME ExecutionInv, NEW u \in Uis, StartsTerminal(u)
  PROVE  ExecutionInv'
  <1>1. PICK e, p : e = ui[u] /\ p = ui[u].pending
    OBVIOUS
  <1>2. /\ ClientInv(e) /\ e \in ClientRecords /\ e.at = "spawn" /\ p = e.pending
        /\ p \in prepared /\ p \in Ptys /\ process[p].child = None /\ FirstVersion < e.token
    BY <1>1 DEF ExecutionInv, ClientsInv, ClientInv, ClientTyped, ClientPending, StartsTerminal, RegistryInv
  <1>3. StartPty(p) /\ TerminalStep(p)
    BY <1>1 DEF StartsTerminal, TerminalStep
  <1>4. PICK n : n = [e EXCEPT !.at = "insert"]
    OBVIOUS
  <1>5. MoveUi(u, n)
    BY <1>1, <1>4 DEF StartsTerminal
  <1>6. /\ n \in ClientRecords /\ n.at = "insert" /\ n.pending = p /\ n.token = e.token
        /\ n.view = e.view /\ SameScreen(e, n)
    BY <1>2, <1>4 DEF ClientRecords, SameScreen
  <1>7. /\ TerminalInv'
        /\ \A q \in Ptys : Develops(terminal[q], terminal'[q])
        /\ \A q \in Ptys : process[q].child # None => process'[q].child # None
        /\ \A q \in Ptys : q # p => process'[q] = process[q]
        /\ process'[p].child # None /\ terminal'[p].status # None
    BY <1>2, <1>3, TerminalsKept DEF ExecutionInv
  <1>8. UNCHANGED <<workflow, registry, prepared, typed>>
    BY DEF StartsTerminal
  <1>9. RegistryInv'
    BY <1>2, <1>7, <1>8 DEF ExecutionInv, RegistryInv, Develops
  <1>10. GoesOn
    BY <1>7, <1>8 DEF ExecutionInv, RegistryInv, GoesOn
  <1>11. \A v \in Uis : v # u => StartLeft(ui[v])
    <2> SUFFICES ASSUME NEW v \in Uis, v # u PROVE StartLeft(ui[v])
      OBVIOUS
    <2>1. ClientPending(ui[v]) /\ prepared \subseteq Ptys
      BY DEF ExecutionInv, ClientsInv, ClientInv, RegistryInv
    <2>2. ui[v].at = "spawn" => ui[v].pending # p
      BY <1>1, <1>2 DEF ExecutionInv, ClientsInv, PendingApart
    <2> QED
      BY <1>7, <1>8, <2>1, <2>2 DEF StartLeft, ClientPending
  <1>12. ClientInv(n)'
    <2>1. ClientTyped(e)' /\ ClientShown(e)'
      BY <1>2, <1>7, <1>9, <1>10, ShownKept DEF ExecutionInv
    <2>2. ClientShown(n)'
      BY <1>6, <2>1 DEF ClientShown, SameScreen, ScreenInv
    <2>3. ClientTyped(n)'
      BY <1>6, <2>1 DEF ClientTyped
    <2>4. registry'[p] = NoRecord
      BY <1>2, <1>8 DEF ExecutionInv, RegistryInv
    <2>5. ClientPending(n)'
      BY <1>2, <1>6, <1>7, <1>8, <2>4 DEF ClientPending
    <2> QED
      BY <2>2, <2>3, <2>5 DEF ClientInv
  <1>13. \A v \in Uis : v # u /\ ui[v].at \in Starting => ui[v].pending # p
    BY <1>1, <1>2 DEF ExecutionInv, ClientsInv, PendingApart, Starting
  <1> QED
    BY <1>5, <1>6, <1>7, <1>9, <1>10, <1>11, <1>12, <1>13, OneClientMoves

LEMMA InsertsRecordKeeps ==
  ASSUME ExecutionInv, NEW u \in Uis, InsertsRecord(u)
  PROVE  ExecutionInv'
  <1>1. PICK e, p : e = ui[u] /\ p = ui[u].pending
    OBVIOUS
  <1>2. /\ ClientInv(e) /\ e \in ClientRecords /\ e.at = "insert" /\ p = e.pending
        /\ p \in prepared /\ p \in Ptys /\ FirstVersion < e.token /\ e.token <= workflow + 1
        /\ process[p].child # None /\ terminal[p].status # None /\ registry[p] = NoRecord
    BY <1>1 DEF ExecutionInv, ClientsInv, ClientInv, ClientTyped, ClientPending, InsertsRecord, RegistryInv
  <1>3. PICK record : record = [token |-> e.token, node |-> "node"]
    OBVIOUS
  <1>4. PICK n : n = [e EXCEPT !.at = "started"]
    OBVIOUS
  <1>5. MoveUi(u, n) /\ registry' = [registry EXCEPT ![p] = record]
    BY <1>1, <1>3, <1>4 DEF InsertsRecord
  <1>6. /\ n \in ClientRecords /\ n.at = "started" /\ n.pending = p /\ n.token = e.token
        /\ n.view = e.view /\ SameScreen(e, n)
    BY <1>2, <1>4 DEF ClientRecords, SameScreen
  <1>7. TerminalInv'
    BY TerminalsUntouched DEF InsertsRecord, terminalVars, ExecutionInv
  <1>8. UNCHANGED <<workflow, prepared, typed, terminal, process>>
    BY DEF InsertsRecord, terminalVars
  <1>14. /\ registry \in [Ptys -> [token : Nat, node : {None, "node"}]]
         /\ registry'[p] = record /\ \A q \in Ptys : q # p => registry'[q] = registry[q]
    BY <1>2, <1>5 DEF ExecutionInv, RegistryInv
  <1>9. RegistryInv'
    <2>1. workflow \in Nat /\ e.token \in Nat
      BY <1>2, VersionAssumption DEF ExecutionInv, RegistryInv, ClientRecords
    <2>2. record \in [token : Nat, node : {None, "node"}] /\ record.token \in FirstVersion + 1 .. workflow + 1
      BY <1>2, <1>3, <2>1, VersionAssumption
    <2>3. registry' \in [Ptys -> [token : Nat, node : {None, "node"}]]
      BY <1>5, <1>14, <2>2
    <2> QED
      BY <1>2, <1>8, <1>14, <2>2, <2>3 DEF ExecutionInv, RegistryInv
  <1>10. GoesOn
    BY <1>2, <1>8, <1>14 DEF ExecutionInv, RegistryInv, GoesOn, Develops
  <1>11. \A v \in Uis : v # u => StartLeft(ui[v])
    <2> SUFFICES ASSUME NEW v \in Uis, v # u PROVE StartLeft(ui[v])
      OBVIOUS
    <2>1. ClientPending(ui[v]) /\ prepared \subseteq Ptys
      BY DEF ExecutionInv, ClientsInv, ClientInv, RegistryInv
    <2>2. ui[v].at = "insert" => ui[v].pending # p
      BY <1>1, <1>2 DEF ExecutionInv, ClientsInv, PendingApart
    <2> QED
      BY <1>8, <1>14, <2>1, <2>2 DEF StartLeft, ClientPending
  <1>12. ClientInv(n)'
    <2>1. ClientTyped(e)' /\ ClientShown(e)'
      BY <1>2, <1>7, <1>9, <1>10, ShownKept DEF ExecutionInv
    <2>2. ClientShown(n)'
      BY <1>6, <2>1 DEF ClientShown, SameScreen, ScreenInv
    <2>3. ClientTyped(n)'
      BY <1>6, <2>1 DEF ClientTyped
    <2>5. ClientPending(n)'
      BY <1>2, <1>3, <1>6, <1>8, <1>14 DEF ClientPending
    <2> QED
      BY <2>2, <2>3, <2>5 DEF ClientInv
  <1>13. \A v \in Uis : v # u /\ ui[v].at \in Starting => ui[v].pending # p
    BY <1>1, <1>2 DEF ExecutionInv, ClientsInv, PendingApart, Starting
  <1> QED
    BY <1>5, <1>6, <1>7, <1>9, <1>10, <1>11, <1>12, <1>13, OneClientMoves

\* A client that learns something.
LEMMA ClientMovesAlone ==
  ASSUME ExecutionInv, NEW u \in Uis, NEW n, MoveUi(u, n), ClientInv(n), n.at \notin Starting,
         UNCHANGED <<workflow, registry, prepared, typed, terminalVars>>
  PROVE  ExecutionInv'
  <1>1. UNCHANGED <<workflow, registry, prepared, terminal, process>> /\ UNCHANGED threads /\ UNCHANGED typed
    BY DEF terminalVars
  <1>2. /\ GoesOn /\ \A v \in Uis : StartLeft(ui[v])
        /\ TerminalInv' /\ RegistryInv' /\ ClientInv(n)'
    BY <1>1, OnlyClientsMove
  <1> QED
    BY <1>2, OneClientMoves

LEMMA ShowsExecutionKeeps ==
  ASSUME ExecutionInv, NEW u \in Uis, ShowsExecution(u)
  PROVE  ExecutionInv'
  <1>1. PICK e, p : e = ui[u] /\ p = ui[u].pending
    OBVIOUS
  <1>2. /\ ClientInv(e) /\ e \in ClientRecords /\ e.at = "started" /\ p = e.pending
        /\ p \in Ptys /\ registry[p] = [token |-> e.token, node |-> "node"]
    BY <1>1 DEF ExecutionInv, ClientsInv, ClientInv, ClientTyped, ClientPending, ShowsExecution, RegistryInv
  <1>3. PICK view : view = [pty |-> p, token |-> e.token, state |-> "running", upto |-> 0]
    OBVIOUS
  <1>4. PICK n : n = [e EXCEPT !.at = "terminal", !.pending = None, !.cursor = 0, !.screen = <<>>,
                               !.seen = None, !.execution = view]
    OBVIOUS
  <1>5. MoveUi(u, n)
    BY <1>1, <1>3, <1>4 DEF ShowsExecution
  <1>6. view \in ExecutionViews /\ view.pty = p /\ view.token = e.token /\ view.state = "running"
    <2>1. e.token \in Nat
      BY <1>2 DEF ClientRecords
    <2> QED
      BY <1>2, <1>3, <2>1 DEF ExecutionViews, States
  <1>7. /\ n \in ClientRecords /\ n.at = "terminal" /\ n.token = e.token /\ n.view = e.view
        /\ n.cursor = 0 /\ n.screen = <<>> /\ n.seen = None /\ n.execution = view
    <2>1. PICK nothing \in Seq(Nat), zero \in Nat, unseen \in States :
            nothing = <<>> /\ zero = 0 /\ unseen = None
      <3>1. <<>> \in Seq(Nat) /\ None \in States /\ 0 \in Nat
        BY DEF States
      <3> QED
        BY <3>1
    <2>2. n = [e EXCEPT !.at = "terminal", !.pending = unseen, !.cursor = zero, !.screen = nothing,
                        !.seen = unseen, !.execution = view]
      BY <1>4, <2>1
    <2>3. e \in ClientRecords /\ view \in ExecutionViews /\ unseen = None
      BY <1>2, <1>6, <2>1
    <2>4. /\ n \in ClientRecords /\ n.at = "terminal" /\ n.token = e.token /\ n.view = e.view
          /\ n.cursor = zero /\ n.screen = nothing /\ n.seen = unseen /\ n.execution = view
      BY <2>2, <2>3 DEF ClientRecords
    <2> QED
      BY <2>1, <2>4
  <1>8. ClientTyped(n) /\ ClientPending(n)
    BY <1>2, <1>7 DEF ClientInv, ClientTyped, ClientPending
  <1>9. ScreenInv(n, terminal[p])
    <2>1. PICK t : t = terminal[p]
      OBVIOUS
    <2>2. t \in PtySessions /\ BufferInv(t) /\ t.cursor \in Nat /\ t.chunks \in Seq(Chunks)
      BY <1>2, <2>1 DEF ExecutionInv, TerminalInv, OneTerminal, PtySessions
    <2>3. InOrder(<<>>, 0)
      BY DEF InOrder, NextOf
    <2>4. HasSeen(<<>>, 0, t.chunks)
      <3>1. PICK q \in Seq(Chunks), last \in Nat : q = t.chunks /\ last = t.cursor
        BY <2>2
      <3>2. Consecutive(q, last)
        BY <2>2, <3>1 DEF BufferInv
      <3>3. \A i \in 1 .. Len(q) : q[i].cursor > 0
        <4> TAKE i \in 1 .. Len(q)
        <4>1. Len(q) \in Nat /\ Len(q) <= last /\ q[i].cursor = last - Len(q) + i
          BY <3>2 DEF Consecutive
        <4> QED
          BY <4>1
      <3>4. ASSUME NEW i \in DOMAIN q
            PROVE  ~(q[i].cursor <= 0)
        <4>1. q[i] \in Chunks /\ i \in 1 .. Len(q)
          OBVIOUS
        <4>2. q[i].cursor \in Nat /\ q[i].cursor > 0
          BY <3>3, <4>1 DEF Chunks
        <4> QED
          BY <4>2
      <3> QED
        BY <3>1, <3>4 DEF HasSeen
    <2> QED
      BY <1>6, <1>7, <2>1, <2>2, <2>3, <2>4 DEF ScreenInv, None
  <1>10. ClientShown(n)
    BY <1>2, <1>6, <1>7, <1>9 DEF ClientShown, NoRecord, None
  <1>11. UNCHANGED <<workflow, registry, prepared, typed, terminalVars>>
    BY DEF ShowsExecution
  <1> QED
    BY <1>5, <1>7, <1>8, <1>10, <1>11, ClientMovesAlone DEF ClientInv, Starting

LEMMA AnswerIsLostKeeps ==
  ASSUME ExecutionInv, NEW u \in Uis, AnswerIsLost(u)
  PROVE  ExecutionInv'
  <1>1. PICK e : e = ui[u]
    OBVIOUS
  <1>2. ClientInv(e) /\ e \in ClientRecords
    BY <1>1 DEF ExecutionInv, ClientsInv, ClientInv, ClientTyped
  <1>3. PICK n : n = [e EXCEPT !.at = "monitor", !.pending = None]
    OBVIOUS
  <1>4. MoveUi(u, n)
    BY <1>1, <1>3 DEF AnswerIsLost
  <1>5. n \in ClientRecords /\ n.at = "monitor" /\ n.token = e.token /\ n.view = e.view /\ SameScreen(e, n)
    BY <1>2, <1>3 DEF ClientRecords, SameScreen
  <1>6. ClientTyped(n) /\ ClientPending(n)
    BY <1>2, <1>5 DEF ClientInv, ClientTyped, ClientPending
  <1>7. ClientShown(n)
    BY <1>2, <1>5, SameScreenShown DEF ClientInv
  <1>8. UNCHANGED <<workflow, registry, prepared, typed, terminalVars>>
    BY DEF AnswerIsLost
  <1> QED
    BY <1>4, <1>5, <1>6, <1>7, <1>8, ClientMovesAlone DEF ClientInv, Starting

-----------------------------------------------------------------------------
(* The refresh of a client *)

LEMMA FetchesViewKeeps ==
  ASSUME ExecutionInv, NEW u \in Uis, FetchesView(u)
  PROVE  ExecutionInv'
  <1>1. PICK e : e = ui[u]
    OBVIOUS
  <1>2. ClientInv(e) /\ e \in ClientRecords /\ e.at \in {"monitor", "terminal"}
    BY <1>1 DEF ExecutionInv, ClientsInv, ClientInv, ClientTyped, FetchesView
  <1>a. PICK version \in {e.view, workflow} :
          MoveUi(u, [e EXCEPT !.view = version, !.at = IF e.execution.pty # None THEN "execution" ELSE e.at])
    BY <1>1 DEF FetchesView, Shows
  <1>b. PICK at : at = IF e.execution.pty # None THEN "execution" ELSE e.at
    OBVIOUS
  <1>3. /\ version \in {e.view, workflow}
        /\ at = (IF e.execution.pty # None THEN "execution" ELSE e.at)
        /\ MoveUi(u, [e EXCEPT !.view = version, !.at = at])
    BY <1>a, <1>b
  <1>4. PICK n : n = [e EXCEPT !.view = version, !.at = at]
    OBVIOUS
  <1>5. version \in FirstVersion .. workflow /\ version \in Nat
    BY <1>2, <1>3, VersionAssumption DEF ExecutionInv, RegistryInv, ClientInv, ClientTyped
  <1>6. at \in {"monitor", "terminal", "execution"} /\ (at = "execution" => e.execution.pty # None)
    BY <1>2, <1>3
  <1>7. n \in ClientRecords /\ n.at = at /\ n.token = e.token /\ n.view = version /\ SameScreen(e, n)
    BY <1>2, <1>4, <1>5, <1>6 DEF ClientRecords, SameScreen
  <1>8. ClientTyped(n) /\ ClientPending(n)
    BY <1>2, <1>5, <1>6, <1>7 DEF ClientInv, ClientTyped, ClientPending
  <1>9. ClientShown(n)
    BY <1>2, <1>6, <1>7, SameScreenShown DEF ClientInv, SameScreen
  <1>10. UNCHANGED <<workflow, registry, prepared, typed, terminalVars>>
    BY DEF FetchesView
  <1> QED
    BY <1>3, <1>4, <1>6, <1>7, <1>8, <1>9, <1>10, ClientMovesAlone DEF ClientInv, Starting

\* What a view says of an end is true.
LEMMA ViewIsTrue ==
  ASSUME ExecutionInv, NEW p \in Ptys, registry[p] # NoRecord
  PROVE  /\ View(p) \in ExecutionViews /\ View(p).pty = p /\ View(p).token = registry[p].token
         /\ View(p).state \in {"completed", "failed"} => terminal[p].status \in {"exited", "failed"}
  <1>1. terminal[p].status \in {"running", "exited", "cancelled", "failed"} /\ terminal[p].cursor \in Nat
    BY DEF ExecutionInv, TerminalInv, PtySessions, Ended, RegistryInv
  <1>2. registry[p].token \in Nat
    BY DEF ExecutionInv, RegistryInv
  <1>3. PICK status, state : status = terminal[p].status /\ state = MapStatus(status)
    OBVIOUS
  <1>4. state \in States /\ (state \in {"completed", "failed"} => status \in {"exited", "failed"})
    BY <1>1, <1>3 DEF MapStatus, States
  <1>5. View(p) = [pty |-> p, token |-> registry[p].token, state |-> state, upto |-> terminal[p].cursor]
    BY <1>3 DEF View
  <1> QED
    BY <1>1, <1>2, <1>3, <1>4, <1>5 DEF ExecutionViews

LEMMA FetchesExecutionKeeps ==
  ASSUME ExecutionInv, NEW u \in Uis, FetchesExecution(u)
  PROVE  ExecutionInv'
  <1>1. PICK e, p : e = ui[u] /\ p = ui[u].execution.pty
    OBVIOUS
  <1>2. ClientInv(e) /\ e \in ClientRecords /\ e.at = "execution" /\ p = e.execution.pty /\ p # None
    BY <1>1 DEF ExecutionInv, ClientsInv, ClientInv, ClientTyped, ClientShown, FetchesExecution
  <1>3. p \in Ptys /\ registry[p] # NoRecord /\ registry[p].token = e.execution.token
        /\ ScreenInv(e, terminal[p])
    BY <1>2 DEF ClientInv, ClientShown, ClientRecords, ExecutionViews
  <1>4. PICK execution \in {e.execution, View(p)} :
          MoveUi(u, [e EXCEPT !.at = "frames", !.execution = execution])
    BY <1>1 DEF FetchesExecution
  <1>5. /\ execution \in ExecutionViews /\ execution.pty = p /\ execution.token = registry[p].token
        /\ execution.state \in {"completed", "failed"} => terminal[p].status \in {"exited", "failed"}
    <2>1. CASE execution = e.execution
      BY <1>2, <1>3, <2>1 DEF ScreenInv, ClientRecords
    <2>2. CASE execution = View(p)
      BY <1>3, <2>2, ViewIsTrue
    <2> QED
      BY <1>4, <2>1, <2>2
  <1>6. PICK n : n = [e EXCEPT !.at = "frames", !.execution = execution]
    OBVIOUS
  <1>7. /\ n \in ClientRecords /\ n.at = "frames" /\ n.token = e.token /\ n.view = e.view
        /\ n.cursor = e.cursor /\ n.screen = e.screen /\ n.seen = e.seen /\ n.execution = execution
    BY <1>2, <1>5, <1>6 DEF ClientRecords
  <1>8. ClientTyped(n) /\ ClientPending(n)
    BY <1>2, <1>7 DEF ClientInv, ClientTyped, ClientPending
  <1>9. ClientShown(n)
    BY <1>2, <1>3, <1>5, <1>7 DEF ClientShown, ScreenInv
  <1>10. UNCHANGED <<workflow, registry, prepared, typed, terminalVars>>
    BY DEF FetchesExecution
  <1> QED
    BY <1>4, <1>6, <1>7, <1>8, <1>9, <1>10, ClientMovesAlone DEF ClientInv, Starting

\* A screen with the frames it lacked.
AscendFrom(frames, cursor) ==
  /\ \A i, j \in DOMAIN frames : i < j => frames[i] < frames[j]
  /\ \A i \in DOMAIN frames : frames[i] > cursor

Has(new, screen) == \A i \in DOMAIN screen : \E k \in DOMAIN new : new[k] = screen[i]

LEMMA ScreenExtended ==
  ASSUME NEW screen \in Seq(Nat), NEW cursor \in Nat, NEW frames \in Seq(Nat), NEW new,
         InOrder(screen, cursor), new = screen \o frames, AscendFrom(frames, cursor)
  PROVE  /\ new \in Seq(Nat) /\ InOrder(new, NextOf(frames, cursor))
         /\ Has(new, screen) /\ Has(new, frames)
  <1> USE DEF AscendFrom
  <1>1. /\ new \in Seq(Nat) /\ Len(new) = Len(screen) + Len(frames)
        /\ DOMAIN new = 1 .. Len(new) /\ DOMAIN screen = 1 .. Len(screen) /\ DOMAIN frames = 1 .. Len(frames)
        /\ Len(screen) \in Nat /\ Len(frames) \in Nat
        /\ \A i \in 1 .. Len(screen) : new[i] = screen[i]
        /\ \A i \in 1 .. Len(frames) : new[Len(screen) + i] = frames[i]
    OBVIOUS
  <1>2. ASSUME NEW i \in DOMAIN new
        PROVE  \/ i \in DOMAIN screen /\ new[i] = screen[i]
               \/ \E k \in DOMAIN frames : i = Len(screen) + k /\ new[i] = frames[k]
    <2>1. CASE i <= Len(screen)
      BY <1>1, <2>1
    <2>2. CASE i > Len(screen)
      <3>1. i - Len(screen) \in 1 .. Len(frames) /\ i = Len(screen) + (i - Len(screen))
        BY <1>1, <2>2
      <3> QED
        BY <1>1, <3>1
    <2> QED
      BY <1>1, <2>1, <2>2
  <1>3. \A i \in DOMAIN screen : screen[i] <= cursor /\ screen[i] \in Nat
    BY DEF InOrder
  <1>4. \A i \in DOMAIN frames : frames[i] \in Nat
    OBVIOUS
  <1>5. ASSUME NEW i \in DOMAIN new, NEW j \in DOMAIN new, i < j
        PROVE  new[i] < new[j]
    <2>1. CASE i \in DOMAIN screen /\ j \in DOMAIN screen
      BY <1>1, <1>5, <2>1 DEF InOrder
    <2>2. CASE j \notin DOMAIN screen
      <3>1. PICK k \in DOMAIN frames : j = Len(screen) + k /\ new[j] = frames[k]
        BY <1>2, <2>2
      <3>2. CASE i \in DOMAIN screen
        BY <1>1, <1>3, <1>4, <3>1, <3>2
      <3>3. CASE i \notin DOMAIN screen
        <4>1. PICK m \in DOMAIN frames : i = Len(screen) + m /\ new[i] = frames[m]
          BY <1>2, <3>3
        <4>2. m < k
          BY <1>1, <1>5, <3>1, <4>1
        <4> QED
          BY <3>1, <4>1, <4>2
      <3> QED
        BY <3>2, <3>3
    <2>3. j \in DOMAIN screen => i \in DOMAIN screen
      BY <1>1, <1>5
    <2> QED
      BY <2>1, <2>2, <2>3
  <1>6. NextOf(frames, cursor) = NextOf(new, 0) /\ \A i \in DOMAIN new : new[i] <= NextOf(frames, cursor)
    <2>1. CASE frames = <<>>
      <3>1. new = screen /\ NextOf(frames, cursor) = cursor
        BY <1>1, <2>1 DEF NextOf
      <3> QED
        BY <3>1 DEF InOrder
    <2>2. CASE frames # <<>>
      <3>1. Len(frames) \in 1 .. Len(frames) /\ Len(new) \in 1 .. Len(new) /\ new # <<>>
        BY <1>1, <2>2
      <3>2. Last(new) = frames[Len(frames)] /\ Last(frames) = frames[Len(frames)]
        BY <1>1, <3>1 DEF Last
      <3>3. NextOf(frames, cursor) = frames[Len(frames)] /\ NextOf(new, 0) = frames[Len(frames)]
        BY <2>2, <3>1, <3>2 DEF NextOf
      <3>4. new[Len(new)] = frames[Len(frames)]
        BY <1>1, <3>1
      <3>5. ASSUME NEW i \in DOMAIN new
            PROVE  new[i] <= new[Len(new)]
        <4>1. CASE i = Len(new)
          BY <1>1, <4>1
        <4>2. CASE i < Len(new)
          <5>1. new[i] < new[Len(new)]
            BY <1>1, <1>5, <3>1, <4>2
          <5>2. Len(new) \in DOMAIN new
            BY <1>1, <3>1
          <5>3. new[i] \in Nat /\ new[Len(new)] \in Nat
            BY <1>1, <5>2, ElementOfSeq
          <5> QED
            <6>1. \A a, b \in Nat : a < b => a <= b
              OBVIOUS
            <6> QED
              BY <5>1, <5>3, <6>1
        <4> QED
          BY <1>1, <4>1, <4>2
      <3> QED
        BY <3>3, <3>4, <3>5
    <2> QED
      BY <2>1, <2>2
  <1>7. InOrder(new, NextOf(frames, cursor))
    BY <1>5, <1>6 DEF InOrder
  <1>8. Has(new, screen)
    BY <1>1 DEF Has
  <1>9. Has(new, frames)
    <2> SUFFICES ASSUME NEW i \in DOMAIN frames PROVE \E k \in DOMAIN new : new[k] = frames[i]
      BY DEF Has
    <2>1. Len(screen) + i \in DOMAIN new
      BY <1>1
    <2> QED
      BY <1>1, <2>1
  <1> QED
    BY <1>1, <1>7, <1>8, <1>9
\* A client gets what it lacks of the output, or nothing.
LEMMA FetchesTerminalKeeps ==
  ASSUME ExecutionInv, NEW u \in Uis, FetchesTerminal(u)
  PROVE  ExecutionInv'
  <1>1. PICK e, p : e = ui[u] /\ p = ui[u].execution.pty
    OBVIOUS
  <1>2. ClientInv(e) /\ e \in ClientRecords /\ e.at = "frames" /\ p = e.execution.pty /\ p # None
    BY <1>1 DEF ExecutionInv, ClientsInv, ClientInv, ClientTyped, ClientShown, FetchesTerminal
  <1>3. p \in Ptys /\ registry[p] # NoRecord /\ registry[p].token = e.execution.token
        /\ ScreenInv(e, terminal[p])
    BY <1>2 DEF ClientInv, ClientShown, ClientRecords, ExecutionViews
  <1>4. UNCHANGED <<workflow, registry, prepared, typed, terminalVars>>
    BY DEF FetchesTerminal
  <1>5. PICK cursor, screen, execution :
          cursor = e.cursor /\ screen = e.screen /\ execution = e.execution
    OBVIOUS
  <1>6. cursor \in Nat /\ screen \in Seq(Nat) /\ execution \in ExecutionViews /\ execution.state \in States
    BY <1>2, <1>5 DEF ClientRecords, ExecutionViews
  <1>7. PICK t : t = terminal[p]
    OBVIOUS
  <1>8. t \in PtySessions /\ t.cursor \in Nat /\ ScreenInv(e, t) /\ cursor <= t.cursor
    BY <1>3, <1>5, <1>7 DEF ExecutionInv, TerminalInv, PtySessions, ScreenInv
  <1>9. PICK frames \in Seq(Nat) :
          /\ Frames(p, cursor) = frames
          /\ \A i, j \in DOMAIN frames : i < j => frames[i] < frames[j]
          /\ \A i \in DOMAIN frames : frames[i] > cursor /\ frames[i] <= t.cursor
          /\ \A i \in DOMAIN t.chunks : t.chunks[i].cursor > cursor =>
               \E k \in DOMAIN frames : frames[k] = t.chunks[i].cursor
          /\ NextOf(frames, cursor) = t.cursor
    BY <1>3, <1>6, <1>7, <1>8, FramesAreNew DEF ExecutionInv
  <1>10. PICK new : new = screen \o frames
    OBVIOUS
  <1>11. new \in Seq(Nat) /\ InOrder(new, t.cursor) /\ Has(new, screen) /\ Has(new, frames)
    <2>1. InOrder(screen, cursor)
      BY <1>5, <1>8 DEF ScreenInv
    <2>2. AscendFrom(frames, cursor)
      BY <1>9 DEF AscendFrom
    <2>3. /\ new \in Seq(Nat) /\ InOrder(new, NextOf(frames, cursor))
          /\ Has(new, screen) /\ Has(new, frames)
      BY <1>6, <1>10, <2>1, <2>2, ScreenExtended
    <2> QED
      BY <1>9, <2>3
  <1>12. CASE MoveUi(u, [ui[u] EXCEPT !.at = "terminal"])
    <2>1. PICK n : n = [e EXCEPT !.at = "terminal"]
      OBVIOUS
    <2>2. MoveUi(u, n)
      BY <1>1, <1>12, <2>1
    <2>3. n \in ClientRecords /\ n.at = "terminal" /\ n.token = e.token /\ n.view = e.view /\ SameScreen(e, n)
      BY <1>2, <2>1 DEF ClientRecords, SameScreen
    <2>4. ClientTyped(n) /\ ClientPending(n)
      BY <1>2, <2>3 DEF ClientInv, ClientTyped, ClientPending
    <2>5. ClientShown(n)
      BY <1>2, <2>3, SameScreenShown DEF ClientInv
    <2> QED
      BY <1>4, <2>2, <2>3, <2>4, <2>5, ClientMovesAlone DEF ClientInv, Starting
  <1>13. CASE MoveUi(u, [ui[u] EXCEPT !.at = "terminal", !.screen = @ \o Frames(p, ui[u].cursor),
                                      !.cursor = NextOf(Frames(p, ui[u].cursor), @),
                                      !.seen = ui[u].execution.state])
    <2>1. PICK next \in Nat, state \in States : next = t.cursor /\ state = execution.state
      BY <1>6, <1>8
    <2>2. PICK n : n = [e EXCEPT !.at = "terminal", !.screen = new, !.cursor = next, !.seen = state]
      OBVIOUS
    <2>3. Frames(p, ui[u].cursor) = frames /\ ui[u].cursor = cursor /\ ui[u].screen = screen
          /\ ui[u].execution.state = state /\ NextOf(frames, cursor) = next
      BY <1>1, <1>5, <1>9, <2>1
    <2>4. MoveUi(u, n)
      <3>1. [ui[u] EXCEPT !.at = "terminal", !.screen = @ \o Frames(p, ui[u].cursor),
                          !.cursor = NextOf(Frames(p, ui[u].cursor), @), !.seen = ui[u].execution.state]
            = [ui[u] EXCEPT !.at = "terminal", !.screen = new, !.cursor = next, !.seen = state]
        BY <1>10, <2>3
      <3> QED
        BY <1>1, <1>13, <2>2, <3>1
    <2>5. /\ n \in ClientRecords /\ n.at = "terminal" /\ n.token = e.token /\ n.view = e.view
          /\ n.cursor = next /\ n.screen = new /\ n.seen = state /\ n.execution = execution
      <3>1. e \in ClientRecords /\ new \in Seq(Nat)
        BY <1>2, <1>11
      <3> QED
        BY <1>5, <2>2, <3>1 DEF ClientRecords
    <2>6. ClientTyped(n) /\ ClientPending(n)
      BY <1>2, <2>5 DEF ClientInv, ClientTyped, ClientPending
    <2>7. ScreenInv(n, t)
      <3>1. HasSeen(new, next, t.chunks)
        <4>1. SUFFICES ASSUME NEW i \in DOMAIN t.chunks
                       PROVE  \E k \in DOMAIN new : new[k] = t.chunks[i].cursor
          BY DEF HasSeen
        <4>2. t.chunks[i].cursor \in Nat
          <5>1. PICK q \in Seq(Chunks) : q = t.chunks
            BY <1>8 DEF PtySessions
          <5>2. q[i] \in Chunks
            BY <5>1
          <5> QED
            BY <5>1, <5>2 DEF Chunks
        <4>3. CASE t.chunks[i].cursor <= cursor
          <5>1. PICK j \in DOMAIN screen : screen[j] = t.chunks[i].cursor
            BY <1>5, <1>8, <4>3 DEF ScreenInv, HasSeen
          <5> QED
            BY <1>11, <5>1 DEF Has
        <4>4. CASE t.chunks[i].cursor > cursor
          <5>1. PICK j \in DOMAIN frames : frames[j] = t.chunks[i].cursor
            BY <1>9, <4>4
          <5> QED
            BY <1>11, <5>1 DEF Has
        <4> QED
          BY <1>6, <4>2, <4>3, <4>4
      <3>2. InOrder(new, next)
        BY <1>11, <2>1
      <3>3. execution.state \in {"completed", "failed"} => t.status \in {"exited", "failed"}
        BY <1>5, <1>8 DEF ScreenInv
      <3> QED
        BY <1>8, <2>1, <2>5, <3>1, <3>2, <3>3 DEF ScreenInv
    <2>8. ClientShown(n)
      BY <1>2, <1>3, <1>5, <1>7, <2>5, <2>7 DEF ClientShown
    <2> QED
      BY <1>4, <2>4, <2>5, <2>6, <2>8, ClientMovesAlone DEF ClientInv, Starting
  <1> QED
    BY <1>1, <1>12, <1>13 DEF FetchesTerminal

-----------------------------------------------------------------------------
(* Input, stop, and the steps that are not a client's *)

LEMMA TypesKeeps ==
  ASSUME ExecutionInv, NEW u \in Uis, Types(u)
  PROVE  ExecutionInv'
  <1>1. PICK p : p = ui[u].execution.pty
    OBVIOUS
  <1>2. p \in Ptys
    BY <1>1 DEF Types, Shows, ExecutionInv, ClientsInv, ClientInv, ClientTyped, ClientRecords, ExecutionViews
  <1>3. UNCHANGED <<workflow, registry, prepared, terminal, process, threads>> /\ ui' = ui
    BY DEF Types, terminalVars
  <1>4. typed' = [typed EXCEPT ![p] = Append(typed[p], u)]
    BY <1>1 DEF Types
  <1>5. typed' \in [Ptys -> Seq(Uis)]
    <2>1. typed \in [Ptys -> Seq(Uis)]
      BY DEF ExecutionInv, RegistryInv
    <2>2. Append(typed[p], u) \in Seq(Uis)
      BY <1>2, <2>1
    <2> QED
      BY <1>4, <2>1, <2>2
  <1>6. GoesOn /\ (\A v \in Uis : StartLeft(ui[v])) /\ TerminalInv'
    BY <1>3, OnlyClientsMove
  <1>7. RegistryInv'
    BY <1>3, <1>5 DEF ExecutionInv, RegistryInv
  <1> QED
    BY <1>3, <1>6, <1>7, NoClientMoves

LEMMA StopsExecutionKeeps ==
  ASSUME ExecutionInv, NEW u \in Uis, StopsExecution(u)
  PROVE  ExecutionInv'
  <1>1. PICK e, p : e = ui[u] /\ p = ui[u].execution.pty
    OBVIOUS
  <1>2. ClientInv(e) /\ e \in ClientRecords /\ e.at \in {"monitor", "terminal"} /\ p \in Ptys
    BY <1>1 DEF ExecutionInv, ClientsInv, ClientInv, ClientTyped, StopsExecution, Shows, ClientRecords, ExecutionViews
  <1>3. PICK at \in {"monitor", e.at} : MoveUi(u, [e EXCEPT !.at = at])
    BY <1>1 DEF StopsExecution
  <1>4. PICK n : n = [e EXCEPT !.at = at]
    OBVIOUS
  <1>5. n \in ClientRecords /\ n.at \in {"monitor", "terminal"} /\ n.token = e.token /\ n.view = e.view
        /\ SameScreen(e, n)
    BY <1>2, <1>3, <1>4 DEF ClientRecords, SameScreen
  <1>6. CancelPty(p) /\ UNCHANGED <<workflow, registry, prepared, typed>>
    BY <1>1 DEF StopsExecution
  <1>7. /\ TerminalInv' /\ RegistryInv' /\ GoesOn
        /\ \A v \in Uis : StartLeft(ui[v])
    BY <1>2, <1>6, RunningGoesOn
  <1>8. ClientTyped(e)' /\ ClientShown(e)'
    BY <1>2, <1>7, ShownKept DEF ExecutionInv
  <1>9. ClientShown(n)'
    BY <1>5, <1>8 DEF ClientShown, SameScreen, ScreenInv
  <1>10. ClientTyped(n)'
    BY <1>5, <1>8 DEF ClientTyped
  <1>11. ClientPending(n)'
    BY <1>5 DEF ClientPending
  <1> QED
    BY <1>3, <1>4, <1>5, <1>7, <1>9, <1>10, <1>11, OneClientMoves DEF ClientInv, Starting

LEMMA WorkflowMovesKeeps ==
  ASSUME ExecutionInv, WorkflowMoves
  PROVE  ExecutionInv'
  <1>1. UNCHANGED <<registry, prepared, typed, terminal, process, threads>> /\ ui' = ui
    BY DEF WorkflowMoves, terminalVars
  <1>2. workflow \in Nat /\ workflow < MaxVersion /\ workflow' = workflow + 1
    BY VersionAssumption DEF WorkflowMoves, ExecutionInv, RegistryInv
  <1>3. TerminalInv'
    BY <1>1, TerminalsUntouched DEF ExecutionInv
  <1>4. RegistryInv'
    <2>1. workflow' \in FirstVersion .. MaxVersion
      BY <1>2, VersionAssumption DEF ExecutionInv, RegistryInv
    <2>2. \A token \in FirstVersion + 1 .. workflow + 1 : token \in FirstVersion + 1 .. workflow' + 1
      BY <1>2, VersionAssumption
    <2> QED
      BY <1>1, <2>1, <2>2 DEF ExecutionInv, RegistryInv
  <1>5. GoesOn
    BY <1>1, <1>2 DEF GoesOn, Develops
  <1>6. \A v \in Uis : StartLeft(ui[v])
    BY <1>1 DEF StartLeft, ExecutionInv, ClientsInv, ClientInv, ClientPending
  <1> QED
    BY <1>1, <1>3, <1>4, <1>5, <1>6, NoClientMoves

LEMMA ProgramsKeep ==
  ASSUME ExecutionInv, NEW p \in Ptys, ThreadNext(p) \/ ProgramNext(p), UNCHANGED executionVars
  PROVE  ExecutionInv'
  <1>1. UNCHANGED <<workflow, registry, prepared, typed>> /\ ui' = ui
    BY DEF executionVars
  <1>2. TerminalInv' /\ RegistryInv' /\ GoesOn /\ \A v \in Uis : StartLeft(ui[v])
    BY <1>1, RunningGoesOn
  <1> QED
    BY <1>1, <1>2, NoClientMoves

LEMMA ExecutionStepKeeps == ExecutionInv /\ [ExecutionNext]_supervisedVars => ExecutionInv'
  <1> SUFFICES ASSUME ExecutionInv, [ExecutionNext]_supervisedVars PROVE ExecutionInv'
    OBVIOUS
  <1>1. ASSUME NEW u \in Uis, UiNext(u)
        PROVE  ExecutionInv'
    <2>1. CASE Materialize(u)
      BY <2>1, MaterializeKeeps
    <2>2. CASE StartsTerminal(u)
      BY <2>2, StartsTerminalKeeps
    <2>3. CASE InsertsRecord(u)
      BY <2>3, InsertsRecordKeeps
    <2>4. CASE ShowsExecution(u)
      BY <2>4, ShowsExecutionKeeps
    <2>5. CASE AnswerIsLost(u)
      BY <2>5, AnswerIsLostKeeps
    <2>6. CASE FetchesView(u)
      BY <2>6, FetchesViewKeeps
    <2>7. CASE FetchesExecution(u)
      BY <2>7, FetchesExecutionKeeps
    <2>8. CASE FetchesTerminal(u)
      BY <2>8, FetchesTerminalKeeps
    <2>9. CASE Types(u)
      BY <2>9, TypesKeeps
    <2>10. CASE StopsExecution(u)
      BY <2>10, StopsExecutionKeeps
    <2> QED
      BY <1>1, <2>1, <2>2, <2>3, <2>4, <2>5, <2>6, <2>7, <2>8, <2>9, <2>10 DEF UiNext
  <1>2. CASE WorkflowMoves
    BY <1>2, WorkflowMovesKeeps
  <1>3. CASE UNCHANGED supervisedVars
    <2>1. UNCHANGED <<workflow, registry, prepared, typed, terminal, process, threads>> /\ ui' = ui
      BY <1>3 DEF supervisedVars, executionVars, terminalVars
    <2>2. GoesOn /\ (\A v \in Uis : StartLeft(ui[v])) /\ TerminalInv' /\ RegistryInv'
      BY <2>1, OnlyClientsMove
    <2> QED
      BY <2>1, <2>2, NoClientMoves
  <1> QED
    BY <1>1, <1>2, <1>3, ProgramsKeep DEF ExecutionNext
-----------------------------------------------------------------------------
(* Executions of workflow nodes: what a run checks follows *)

Waits == [at : {"idle", "check", "read", "armed", "parked", "recheck", "reread", "answered"},
          pty : Ptys \cup {None}, after : Nat, status : Ended \cup {None, "running"},
          chunks : Seq(Chunks)]
WaitsTyped == \A c \in Callers : waits[c] \in Waits

LEMMA WaitsStart == TerminalInit => WaitsTyped
  <1>1. NoWait \in Waits
    BY DEF NoWait, Waits
  <1> QED
    BY <1>1 DEF TerminalInit, WaitsTyped

LEMMA WaitsKeep == WaitsTyped /\ [ExecutionNext]_supervisedVars => WaitsTyped'
  <1> SUFFICES ASSUME WaitsTyped, [ExecutionNext]_supervisedVars PROVE WaitsTyped'
    OBVIOUS
  <1>1. CASE UNCHANGED waits
    BY <1>1 DEF WaitsTyped
  <1>2. CASE \E p : waits' = Notified(p)
    <2>1. PICK p : waits' = Notified(p)
      BY <1>2
    <2>2. ASSUME NEW c \in Callers
          PROVE  waits'[c] \in Waits
      <3>1. PICK w \in Waits : w = waits[c]
        BY DEF WaitsTyped
      <3>2. [w EXCEPT !.at = "recheck"] \in Waits
        BY DEF Waits
      <3> QED
        BY <2>1, <3>1, <3>2 DEF Notified
    <2> QED
      BY <2>2 DEF WaitsTyped
  <1>3. ASSUME NEW p, StartPty(p) \/ CancelPty(p) \/ ThreadNext(p) \/ ProgramNext(p)
        PROVE  UNCHANGED waits \/ waits' = Notified(p)
    BY <1>3 DEF StartPty, CancelPty, ThreadNext, ProgramNext, PushOutput, ReaderDrained, ChildFinished,
       Finish, Prints, ChildEnds, SlaveCloses
  <1>4. CASE \E u \in Uis : UiNext(u)
    <2>1. PICK u \in Uis : UiNext(u)
      BY <1>4
    <2>2. CASE StartsTerminal(u)
      BY <1>1, <1>2, <1>3, <2>2 DEF StartsTerminal
    <2>3. CASE StopsExecution(u)
      BY <1>1, <1>2, <1>3, <2>3 DEF StopsExecution
    <2>4. CASE ~StartsTerminal(u) /\ ~StopsExecution(u)
      <3>1. UNCHANGED waits
        BY <2>1, <2>4 DEF UiNext, Materialize, InsertsRecord, ShowsExecution, AnswerIsLost, FetchesView,
           FetchesExecution, FetchesTerminal, Types, terminalVars
      <3> QED
        BY <1>1, <3>1
    <2> QED
      BY <2>2, <2>3, <2>4
  <1>5. CASE WorkflowMoves \/ UNCHANGED supervisedVars
    BY <1>1, <1>5 DEF WorkflowMoves, supervisedVars, terminalVars
  <1>6. CASE \E p \in Ptys : (ThreadNext(p) \/ ProgramNext(p)) /\ UNCHANGED executionVars
    BY <1>1, <1>2, <1>3, <1>6
  <1> QED
    BY <1>4, <1>5, <1>6 DEF ExecutionNext

LEMMA TypesHold == TerminalInv /\ RegistryInv /\ ClientsInv /\ WaitsTyped => ExecutionTypeOK
  <1> SUFFICES ASSUME TerminalInv, RegistryInv, ClientsInv, WaitsTyped PROVE ExecutionTypeOK
    OBVIOUS
  <1>1. ASSUME NEW p \in Ptys
        PROVE  /\ terminal[p].status \in Ended \cup {None, "running"}
               /\ terminal[p].chunks \in Seq(Chunks)
               /\ terminal[p].childStatus \in {None, "exited", "failed"}
               /\ threads[p].reader \in {"idle", "reading", "finishing", "done"}
               /\ threads[p].waiter \in {"idle", "waiting", "finishing", "done"}
               /\ RetainedIsBounded(terminal[p].chunks)
    BY DEF TerminalInv, OneTerminal, BufferInv, PtySessions, Threads
  <1>2. ASSUME NEW c \in Callers
        PROVE  waits[c].at \in {"idle", "check", "read", "armed", "parked", "recheck", "reread", "answered"}
    BY DEF WaitsTyped, Waits
  <1>3. ASSUME NEW u \in Uis
        PROVE  /\ ui[u].at \in {"monitor", "terminal", "spawn", "insert", "started", "execution", "frames"}
               /\ ui[u].cursor \in Nat /\ ui[u].token \in 0..MaxVersion + 1
               /\ ui[u].execution.pty \in Ptys \cup {None}
    <2>1. ui[u] \in ClientRecords /\ ui[u].token <= workflow + 1
      BY DEF ClientsInv, ClientInv, ClientTyped
    <2>2. ui[u].token \in Nat /\ workflow \in Nat /\ workflow <= MaxVersion
      BY <2>1, VersionAssumption DEF ClientRecords, RegistryInv
    <2>3. ui[u].token \in 0..MaxVersion + 1
      BY <2>1, <2>2, VersionAssumption
    <2> QED
      BY <2>1, <2>3 DEF ClientRecords, ExecutionViews
  <1>4. TerminalTypeOK
    BY <1>1, <1>2 DEF TerminalTypeOK
  <1> QED
    BY <1>3, <1>4 DEF ExecutionTypeOK

LEMMA InvariantShows == ExecutionInv /\ WaitsTyped => ExecutionsAreShown
  <1> SUFFICES ASSUME ExecutionInv, WaitsTyped PROVE ExecutionsAreShown
    OBVIOUS
  <1>1. ExecutionTypeOK
    BY TypesHold DEF ExecutionInv
  <1>2. RunsWithContext
    <2>1. ASSUME NEW p \in Ptys
          PROVE  process[p].child = None <=> process[p] = NoProcess
      BY DEF ExecutionInv, TerminalInv, OneTerminal, StartInv, NoProcess
    <2> QED
      BY <2>1 DEF RunsWithContext, ExecutionInv, RegistryInv
  <1>3. ASSUME NEW u \in Uis, Shows(u)
        PROVE  ui[u].execution.pty \in Ptys /\ ScreenInv(ui[u], terminal[ui[u].execution.pty])
    BY <1>3 DEF Shows, ExecutionInv, ClientsInv, ClientInv, ClientTyped, ClientShown, ClientRecords, ExecutionViews
  <1>4. ScreensFollowTerminals
    BY <1>3 DEF ScreensFollowTerminals, ScreenInv, InOrder, HasSeen
  <1>5. EndedScreensAreComplete
    <2>1. SUFFICES ASSUME NEW u \in Uis, Shows(u), ui[u].seen \in {"completed", "failed"}
                   PROVE  /\ ui[u].cursor = terminal[ui[u].execution.pty].cursor
                          /\ process[ui[u].execution.pty].unread = <<>>
      BY DEF EndedScreensAreComplete
    <2>2. PICK p \in Ptys : p = ui[u].execution.pty
      BY <1>3, <2>1
    <2>3. ui[u].cursor = terminal[p].cursor /\ terminal[p].status \in {"exited", "failed"}
      BY <1>3, <2>1, <2>2 DEF ScreenInv
    <2>4. process[p].unread = <<>>
      BY <2>3 DEF ExecutionInv, TerminalInv, OneTerminal, EndInv
    <2> QED
      BY <2>2, <2>3, <2>4
  <1>6. InputIsFenced
    <2>1. SUFFICES ASSUME NEW p \in Ptys, registry[p] # NoRecord
                   PROVE  /\ registry[p].token \in {FencingToken(v) : v \in FirstVersion..workflow}
                          /\ \A i \in DOMAIN typed[p] :
                               ui[typed[p][i]].execution.pty = p =>
                                 ui[typed[p][i]].execution.token = registry[p].token
      BY DEF InputIsFenced
    <2>2. registry[p].token \in {FencingToken(v) : v \in FirstVersion..workflow}
      <3>1. PICK token : token = registry[p].token
        OBVIOUS
      <3>2. token \in FirstVersion + 1 .. workflow + 1 /\ workflow \in Nat
        BY <2>1, <3>1, VersionAssumption DEF ExecutionInv, RegistryInv
      <3>3. token - 1 \in FirstVersion .. workflow /\ token = (token - 1) + 1
        BY <3>2, VersionAssumption
      <3> QED
        BY <3>1, <3>3 DEF FencingToken
    <2>3. ASSUME NEW i \in DOMAIN typed[p], ui[typed[p][i]].execution.pty = p
          PROVE  ui[typed[p][i]].execution.token = registry[p].token
      <3>1. PICK q \in Seq(Uis) : q = typed[p]
        BY DEF ExecutionInv, RegistryInv
      <3>2. q[i] \in Uis
        BY <3>1
      <3>3. PICK v \in Uis : v = typed[p][i]
        BY <3>1, <3>2
      <3>4. ui[v].execution.pty # None
        BY <2>3, <3>3, TerminalAssumption
      <3> QED
        BY <2>3, <3>3, <3>4 DEF ExecutionInv, ClientsInv, ClientInv, ClientShown
    <2> QED
      BY <2>2, <2>3
  <1> QED
    BY <1>1, <1>2, <1>4, <1>5, <1>6 DEF ExecutionsAreShown

\* Whatever requests and answers of the clients are lost, an execution runs in
\* its prepared context, every screen is an ordered account of its terminal with
\* nothing twice, a client that saw the end has the whole output, and input is
\* fenced by the token of the execution it is typed into.
THEOREM ExecutionsStayShown == ExecutionSpec => []ExecutionsAreShown
  <1>1. TerminalInit /\ ExecutionInit => ExecutionInv /\ WaitsTyped
    BY ExecutionsStart, WaitsStart
  <1>2. ExecutionInv /\ WaitsTyped /\ [ExecutionNext]_supervisedVars => ExecutionInv' /\ WaitsTyped'
    BY ExecutionStepKeeps, WaitsKeep
  <1> QED
    BY <1>1, <1>2, InvariantShows, PTL DEF ExecutionSpec

-----------------------------------------------------------------------------
(* Standalone agents: how far the history records a terminal *)

Entries == [role : {"user", "system", "assistant", "lost"}, pty : Ptys \cup {None}, from : Nat, upto : Nat]

\* What became of a terminal's captured output, given a history and what is lost.
Accounts(entries, lost, p) == RangesIn(entries, p) \cup {e \in lost : e.pty = p}

LEMMA RangesOfAppend ==
  ASSUME NEW entries \in Seq(Entries), NEW e \in Entries, NEW p
  PROVE  /\ e.pty = p => RangesIn(Append(entries, e), p) = RangesIn(entries, p) \cup {e}
         /\ e.pty # p => RangesIn(Append(entries, e), p) = RangesIn(entries, p)
  <1>1. PICK more : more = Append(entries, e)
    OBVIOUS
  <1>2. PICK n \in Nat : n = Len(entries)
    OBVIOUS
  <1>3. /\ DOMAIN entries = 1 .. n /\ DOMAIN more = 1 .. n + 1 /\ more[n + 1] = e
        /\ \A k \in 1 .. n : more[k] = entries[k] /\ entries[k] \in Entries
    BY <1>1, <1>2
  <1>4. \A x : x \in RangesIn(entries, p) <=> \E k \in 1 .. n : entries[k].pty = p /\ x = entries[k]
    BY <1>3 DEF RangesIn
  <1>5. \A x : x \in RangesIn(more, p) <=> \E k \in 1 .. n + 1 : more[k].pty = p /\ x = more[k]
    BY <1>3 DEF RangesIn
  <1>6. \A k : k \in 1 .. n + 1 <=> k \in 1 .. n \/ k = n + 1
    OBVIOUS
  <1>7. ASSUME NEW x
        PROVE  x \in RangesIn(more, p) <=> x \in RangesIn(entries, p) \/ (e.pty = p /\ x = e)
    <2>1. CASE \E k \in 1 .. n : entries[k].pty = p /\ x = entries[k]
      BY <1>3, <1>4, <1>5, <1>6, <2>1
    <2>2. CASE ~ \E k \in 1 .. n : entries[k].pty = p /\ x = entries[k]
      <3>1. x \notin RangesIn(entries, p)
        BY <1>4, <2>2
      <3>2. x \in RangesIn(more, p) => e.pty = p /\ x = e
        BY <1>3, <1>5, <1>6, <2>2
      <3>3. e.pty = p /\ x = e => x \in RangesIn(more, p)
        BY <1>3, <1>5, <1>6
      <3> QED
        BY <3>1, <3>2, <3>3
    <2> QED
      BY <2>1, <2>2
  <1>8. e.pty = p => RangesIn(more, p) = RangesIn(entries, p) \cup {e}
    BY <1>7
  <1>9. e.pty # p => RangesIn(more, p) = RangesIn(entries, p)
    BY <1>7
  <1> QED
    BY <1>1, <1>8, <1>9

LEMMA AccountsOfNothing ==
  ASSUME NEW p
  PROVE  Accounts(<<>>, {}, p) = {}
  BY DEF Accounts, RangesIn

LEMMA AccountsTyped ==
  ASSUME NEW entries \in Seq(Entries), NEW lost \in SUBSET Entries, NEW p
  PROVE  Accounts(entries, lost, p) \in SUBSET Entries
  BY DEF Accounts, RangesIn

With(ranges, e) == ranges \cup {e}

\* A batch is one more range of its terminal, in the history or lost.
LEMMA AccountsOfOwn ==
  ASSUME NEW entries \in Seq(Entries), NEW lost \in SUBSET Entries, NEW e \in Entries
  PROVE  /\ Accounts(Append(entries, e), lost, e.pty) = With(Accounts(entries, lost, e.pty), e)
         /\ Accounts(entries, With(lost, e), e.pty) = With(Accounts(entries, lost, e.pty), e)
  <1>1. RangesIn(Append(entries, e), e.pty) = RangesIn(entries, e.pty) \cup {e}
    BY RangesOfAppend
  <1>2. {x \in lost \cup {e} : x.pty = e.pty} = {x \in lost : x.pty = e.pty} \cup {e}
    OBVIOUS
  <1> QED
    BY <1>1, <1>2 DEF Accounts, With

LEMMA AccountsOfOther ==
  ASSUME NEW entries \in Seq(Entries), NEW lost \in SUBSET Entries, NEW e \in Entries, NEW p, e.pty # p
  PROVE  /\ Accounts(Append(entries, e), lost, p) = Accounts(entries, lost, p)
         /\ Accounts(entries, lost \cup {e}, p) = Accounts(entries, lost, p)
  <1>1. RangesIn(Append(entries, e), p) = RangesIn(entries, p)
    BY RangesOfAppend
  <1>2. {x \in lost \cup {e} : x.pty = p} = {x \in lost : x.pty = p}
    OBVIOUS
  <1> QED
    BY <1>1, <1>2 DEF Accounts

LEMMA NothingTiles == Tile({}, 0)
  BY DEF Tile

\* The next batch goes on where the others end.
LEMMA TileGoesOn ==
  ASSUME NEW ranges \in SUBSET Entries, NEW n \in Nat, Tile(ranges, n),
         NEW e \in Entries, e.from = n, n < e.upto
  PROVE  Tile(ranges \cup {e}, e.upto) /\ \A x \in ranges : x.upto <= e.from
  <1>1. PICK m \in Nat : m = e.upto /\ n < m
    BY DEF Entries
  <1>2. \A x \in ranges : x.from \in Nat /\ x.upto \in Nat
    BY DEF Entries
  <1>3. \A x \in ranges : x.from < x.upto /\ x.upto <= n
    BY DEF Tile
  <1>4. \A x, y \in ranges : x = y \/ x.upto <= y.from \/ y.upto <= x.from
    BY DEF Tile
  <1>5. \A x \in ranges \cup {e} : x.from < x.upto /\ x.upto <= m
    BY <1>1, <1>2, <1>3
  <1>6. \A x, y \in ranges \cup {e} : x = y \/ x.upto <= y.from \/ y.upto <= x.from
    BY <1>3, <1>4
  <1>7. ASSUME NEW c \in 1 .. m
        PROVE  \E x \in ranges \cup {e} : x.from < c /\ c <= x.upto
    <2>1. CASE c <= n
      <3>1. c \in 1 .. n
        BY <1>1, <2>1
      <3>2. PICK x \in ranges : x.from < c /\ c <= x.upto
        BY <3>1 DEF Tile
      <3> QED
        BY <3>2
    <2>2. CASE n < c
      BY <1>1, <2>2
    <2> QED
      BY <2>1, <2>2
  <1>8. Tile(ranges \cup {e}, m)
    BY <1>5, <1>6, <1>7 DEF Tile
  <1> QED
    BY <1>1, <1>3, <1>8

\* Ranges tell how far they go.
LEMMA TileEnds ==
  ASSUME NEW ranges \in SUBSET Entries, NEW n \in Nat, Tile(ranges, n)
  PROVE  Max({0} \cup {e.upto : e \in ranges}) = n
  <1>1. PICK S : S = {0} \cup {e.upto : e \in ranges}
    OBVIOUS
  <1>2. \A x \in ranges : x.from \in Nat /\ x.upto \in Nat /\ x.from < x.upto /\ x.upto <= n
    BY DEF Entries, Tile
  <1>3. \A y \in S : y \in Nat /\ y <= n
    BY <1>1, <1>2
  <1>4. n \in S
    <2>1. CASE n = 0
      BY <1>1, <2>1
    <2>2. CASE n # 0
      <3>1. n \in 1 .. n
        BY <2>2
      <3>2. PICK x \in ranges : x.from < n /\ n <= x.upto
        BY <3>1 DEF Tile
      <3>3. x.upto = n
        BY <1>2, <3>2
      <3> QED
        BY <1>1, <3>3
    <2> QED
      BY <2>1, <2>2
  <1>5. \E x \in S : \A y \in S : x >= y
    BY <1>3, <1>4
  <1>6. Max(S) \in S /\ \A y \in S : Max(S) >= y
    BY <1>5 DEF Max
  <1>7. PICK x \in S : x = Max(S) /\ \A y \in S : x >= y
    BY <1>6
  <1>8. x = n
    BY <1>3, <1>4, <1>7
  <1> QED
    BY <1>1, <1>7, <1>8

\* The history has each terminal's output in order.
Ordered(entries) ==
  \A i, j \in DOMAIN entries :
    i < j /\ entries[i].pty = entries[j].pty /\ entries[i].pty # None =>
      entries[i].upto <= entries[j].from

LEMMA AppendOrdered ==
  ASSUME NEW entries \in Seq(Entries), NEW e \in Entries, Ordered(entries),
         e.pty # None => \A x \in RangesIn(entries, e.pty) : x.upto <= e.from
  PROVE  Append(entries, e) \in Seq(Entries) /\ Ordered(Append(entries, e))
  <1>1. PICK more : more = Append(entries, e)
    OBVIOUS
  <1>2. PICK n \in Nat : n = Len(entries)
    OBVIOUS
  <1>3. /\ DOMAIN entries = 1 .. n /\ DOMAIN more = 1 .. n + 1 /\ more[n + 1] = e
        /\ \A k \in 1 .. n : more[k] = entries[k]
        /\ more \in Seq(Entries)
    BY <1>1, <1>2
  <1>4. ASSUME NEW i \in DOMAIN more, NEW j \in DOMAIN more,
               i < j, more[i].pty = more[j].pty, more[i].pty # None
        PROVE  more[i].upto <= more[j].from
    <2>1. i \in 1 .. n
      BY <1>3, <1>4
    <2>2. CASE j \in 1 .. n
      BY <1>3, <1>4, <2>1, <2>2 DEF Ordered
    <2>3. CASE j = n + 1
      <3>1. more[i] = entries[i] /\ more[j] = e
        BY <1>3, <2>1, <2>3
      <3>2. entries[i] \in RangesIn(entries, e.pty)
        BY <1>3, <1>4, <2>1, <3>1 DEF RangesIn
      <3> QED
        BY <1>4, <3>1, <3>2
    <2> QED
      BY <1>3, <2>2, <2>3
  <1> QED
    BY <1>1, <1>3, <1>4 DEF Ordered

\* The entries hold what a user said in the request.
HasInput(entries, id) == \E k \in DOMAIN entries : entries[k].role = "user" /\ entries[k].from = id

LEMMA InputsStay ==
  ASSUME NEW entries \in Seq(Entries), NEW e \in Entries
  PROVE  /\ \A id : HasInput(entries, id) => HasInput(Append(entries, e), id)
         /\ e.role = "user" => HasInput(Append(entries, e), e.from)
  <1>1. PICK more : more = Append(entries, e)
    OBVIOUS
  <1>2. PICK n \in Nat : n = Len(entries)
    OBVIOUS
  <1>3. /\ DOMAIN entries = 1 .. n /\ DOMAIN more = 1 .. n + 1 /\ more[n + 1] = e
        /\ \A k \in 1 .. n : more[k] = entries[k] /\ k \in 1 .. n + 1
        /\ n + 1 \in 1 .. n + 1
    BY <1>1, <1>2
  <1>4. ASSUME NEW id, HasInput(entries, id)
        PROVE  HasInput(more, id)
    BY <1>3, <1>4 DEF HasInput
  <1>5. e.role = "user" => HasInput(more, e.from)
    BY <1>3 DEF HasInput
  <1> QED
    BY <1>1, <1>4, <1>5

-----------------------------------------------------------------------------
(* Standalone agents: the invariant *)

RequestPlaces == {"idle", "start", "send", "stop", "spawn", "bind", "activate", "bootstrap",
                  "record", "input", "cancel", "stopped"}
CapturePlaces == {"idle", "loop", "waiting", "share", "progress", "ended", "replaced"}
Bindings == [pty : Ptys \cup {None}, cursor : Nat, status : Ended \cup {None, "running", "stopped"}]
RequestRecords == [op : {None, "start", "send", "stop"}, at : RequestPlaces, agent : Agents \cup {None},
                   row : Bindings, pty : Ptys \cup {None}, id : Nat]
CaptureRecords == [at : CapturePlaces, agent : Agents \cup {None}, cursor : Nat]

\* A request that has started a program and has not let its output be captured.
Binding == {"bind", "activate", "bootstrap"}

\* What a wait has read of its terminal is what it was, or an end; a batch read
\* after an end is the last.
BatchOK(w, t) ==
  /\ w.after <= t.cursor
  /\ w.at \notin {"idle", "check"} => w.status # None /\ (w.status \in Ended => t.status = w.status)
  /\ w.at = "answered" =>
       /\ w.after <= NextCursorOf(w) /\ NextCursorOf(w) <= t.cursor
       /\ w.chunks # <<>> => w.after < NextCursorOf(w)
       /\ w.status \in {"exited", "failed"} => NextCursorOf(w) = t.cursor

\* The capture task of a terminal: k, its wait w, and what became of the output
\* it has captured.
CaptureOK(p, k, w, t, recorded) ==
  /\ k.at # "idle" => k.agent \in Agents /\ t.status # None /\ k.cursor <= t.cursor
  /\ k.at \notin {"waiting", "share", "progress"} => w = NoWait
  /\ k.at \in {"waiting", "share", "progress"} =>
       w.at # "idle" /\ w.pty = p /\ w.after = k.cursor /\ BatchOK(w, t)
  /\ k.at \in {"share", "progress"} => w.at = "answered" /\ Tile(recorded, NextCursorOf(w))
  /\ k.at \in {"loop", "waiting", "ended", "replaced"} => Tile(recorded, k.cursor)
  /\ k.at = "idle" => \E n \in Nat : Tile(recorded, n)
  /\ k.at = "ended" => t.status \in Ended /\ (t.status \in {"exited", "failed"} => k.cursor = t.cursor)

CapturesOK ==
  \A p \in Ptys : CaptureOK(p, capture[p], waits[p], terminal[p], Accounts(history, unrecorded, p))

RequestOK(n) ==
  /\ n.at # "idle" => n.agent \in Agents
  /\ n.at \in Binding => /\ n.pty \in Ptys /\ terminal[n.pty].status # None
                         /\ capture[n.pty].at = "idle" /\ Accounts(history, unrecorded, n.pty) = {}
  /\ n.at \in {"record", "input"} => HasInput(messages, n.id)
  /\ n.at = "input" => HasInput(history, n.id)

RequestsOK == \A r \in Requests : RequestOK(request[r])

StartsApart ==
  \A r, s \in Requests :
    request[r].at \in Binding /\ request[s].at \in Binding /\ request[r].pty = request[s].pty => r = s

\* A terminal that was never started is in no record and no binding.
FreshIsUnknown ==
  /\ \A p \in Ptys : process[p].child = None => Accounts(history, unrecorded, p) = {}
  /\ \A a \in Agents : binding[a].pty # None => process[binding[a].pty].child # None

InputsRecorded ==
  \A p \in Ptys : \A i \in DOMAIN inputs[p] :
    HasInput(history, inputs[p][i]) /\ HasInput(messages, inputs[p][i])

ManagerTyped ==
  /\ binding \in [Agents -> Bindings] /\ active \in Agents \cup {None}
  /\ history \in Seq(Entries) /\ unrecorded \in SUBSET Entries /\ messages \in Seq(Entries)
  /\ tasks \in [Agents -> Ptys \cup {None}] /\ capture \in [Ptys -> CaptureRecords]
  /\ request \in [Requests -> RequestRecords] /\ inputs \in [Ptys -> Seq(Nat)]
  /\ used \in [requests : Nat, restarts : Nat] /\ waits \in [Ptys -> Waits]

ManagerInv ==
  /\ ManagerTyped /\ CapturesOK /\ RequestsOK /\ StartsApart
  /\ FreshIsUnknown /\ Ordered(history) /\ InputsRecorded

AgentInv == TerminalInv /\ ManagerInv

LEMMA Nothings ==
  /\ NoBinding \in Bindings /\ NoCapture \in CaptureRecords /\ NoRequest \in RequestRecords /\ NoWait \in Waits
  /\ NoBinding.pty = None /\ NoCapture.at = "idle" /\ NoRequest.at = "idle"
  <1>1. NoBinding \in Bindings /\ NoBinding.pty = None
    BY DEF NoBinding, Bindings
  <1>2. NoCapture \in CaptureRecords /\ NoCapture.at = "idle"
    BY DEF NoCapture, CaptureRecords, CapturePlaces
  <1>3. NoRequest \in RequestRecords /\ NoRequest.at = "idle"
    BY <1>1 DEF NoRequest, RequestRecords, RequestPlaces
  <1>4. NoWait \in Waits
    BY DEF NoWait, Waits
  <1> QED
    BY <1>1, <1>2, <1>3, <1>4

LEMMA AgentsStart == AgentInit => AgentInv
  <1> SUFFICES ASSUME AgentInit PROVE AgentInv
    OBVIOUS
  <1>1. TerminalInv
    BY TerminalsStart DEF AgentInit
  <1>2. ManagerTyped
    <2>1. waits \in [Ptys -> Waits]
      BY Nothings, ManagerAssumption DEF AgentInit, TerminalInit
    <2>2. <<>> \in Seq(Entries) /\ <<>> \in Seq(Nat)
      OBVIOUS
    <2>3. used \in [requests : Nat, restarts : Nat]
      BY DEF AgentInit
    <2> QED
      BY <2>1, <2>2, <2>3, Nothings DEF AgentInit, ManagerTyped
  <1>3. history = <<>> /\ \A p : Accounts(history, unrecorded, p) = {}
    BY AccountsOfNothing DEF AgentInit
  <1>4. CapturesOK
    <2>1. \A p \in Ptys : capture[p].at = "idle" /\ waits[p] = NoWait
      BY Nothings, ManagerAssumption DEF AgentInit, TerminalInit
    <2>2. \A p : \E n \in Nat : Tile(Accounts(history, unrecorded, p), n)
      BY <1>3, NothingTiles
    <2> QED
      BY <2>1, <2>2 DEF CapturesOK, CaptureOK
  <1>5. RequestsOK /\ StartsApart
    BY Nothings DEF AgentInit, RequestsOK, RequestOK, StartsApart, Binding
  <1>6. FreshIsUnknown
    BY <1>3, Nothings DEF AgentInit, FreshIsUnknown
  <1>7. Ordered(history)
    BY <1>3 DEF Ordered
  <1>8. InputsRecorded
    BY DEF AgentInit, InputsRecorded
  <1> QED
    BY <1>1, <1>2, <1>4, <1>5, <1>6, <1>7, <1>8 DEF AgentInv, ManagerInv

-----------------------------------------------------------------------------
(* While a terminal goes on, what its capture task knows stays true *)

\* A wait is left alone or notified.
Told(w, x) == x = w \/ (w.at = "parked" /\ x = [w EXCEPT !.at = "recheck"])

LEMMA ToldFields ==
  ASSUME NEW w \in Waits, NEW x, Told(w, x)
  PROVE  /\ x \in Waits /\ x.pty = w.pty /\ x.after = w.after /\ x.status = w.status /\ x.chunks = w.chunks
         /\ x.at = w.at \/ (w.at = "parked" /\ x.at = "recheck")
         /\ NextCursorOf(x) = NextCursorOf(w)
  <1>1. CASE x = w
    BY <1>1
  <1>2. CASE w.at = "parked" /\ x = [w EXCEPT !.at = "recheck"]
    <2>1. x \in Waits /\ x.pty = w.pty /\ x.after = w.after /\ x.status = w.status /\ x.chunks = w.chunks
          /\ x.at = "recheck"
      BY <1>2 DEF Waits
    <2> QED
      BY <1>2, <2>1 DEF NextCursorOf
  <1> QED
    BY <1>1, <1>2 DEF Told

LEMMA DevelopsOn ==
  ASSUME NEW t \in PtySessions, NEW n \in PtySessions, NEW pr, NEW th,
         OneTerminal(t, pr, th), Develops(t, n)
  PROVE  /\ t.cursor \in Nat /\ n.cursor \in Nat /\ t.cursor <= n.cursor
         /\ t.status \in Ended => n.status = t.status
         /\ n.status \in {"exited", "failed"} /\ t.status = n.status => n.cursor = t.cursor
  <1>1. t.cursor \in Nat /\ n.cursor \in Nat
    BY DEF PtySessions
  <1>2. t.status \in {"exited", "failed"} => t.drained
    BY DEF OneTerminal, EndInv
  <1> QED
    BY <1>1, <1>2 DEF Develops, Pushed

LEMMA BatchKept ==
  ASSUME NEW w \in Waits, NEW x, Told(w, x), NEW t \in PtySessions, NEW n \in PtySessions, NEW pr, NEW th,
         OneTerminal(t, pr, th), Develops(t, n), BatchOK(w, t)
  PROVE  BatchOK(x, n)
  <1>1. /\ t.cursor \in Nat /\ n.cursor \in Nat /\ t.cursor <= n.cursor
        /\ t.status \in Ended => n.status = t.status
        /\ n.status \in {"exited", "failed"} /\ t.status = n.status => n.cursor = t.cursor
    BY DevelopsOn
  <1>2. /\ x \in Waits /\ x.after = w.after /\ x.status = w.status /\ x.chunks = w.chunks
        /\ x.at = w.at \/ (w.at = "parked" /\ x.at = "recheck")
        /\ NextCursorOf(x) = NextCursorOf(w)
    BY ToldFields
  <1>3. w.after \in Nat
    BY DEF Waits
  <1>4. x.after <= n.cursor
    BY <1>1, <1>2, <1>3 DEF BatchOK
  <1>5. x.at \notin {"idle", "check"} => x.status # None /\ (x.status \in Ended => n.status = x.status)
    BY <1>1, <1>2 DEF BatchOK
  <1>6. ASSUME x.at = "answered"
        PROVE  /\ x.after <= NextCursorOf(x) /\ NextCursorOf(x) <= n.cursor
               /\ x.chunks # <<>> => x.after < NextCursorOf(x)
               /\ x.status \in {"exited", "failed"} => NextCursorOf(x) = n.cursor
    <2>1. w.at = "answered"
      BY <1>2, <1>6
    <2>2. PICK next : next = NextCursorOf(w)
      OBVIOUS
    <2>3. /\ w.after <= next /\ next <= t.cursor
          /\ w.chunks # <<>> => w.after < next
          /\ w.status \in {"exited", "failed"} => next = t.cursor /\ t.status = w.status
      BY <2>1, <2>2 DEF BatchOK, Ended
    <2>4. next \in Nat
      <3>1. PICK q \in Seq(Chunks) : q = w.chunks
        BY DEF Waits
      <3>2. q # <<>> => Last(q) \in Chunks
        BY DEF Last
      <3> QED
        BY <1>3, <2>2, <3>1, <3>2 DEF NextCursorOf, Chunks
    <2>5. next <= n.cursor
      BY <1>1, <2>3, <2>4
    <2>6. w.status \in {"exited", "failed"} => n.status = w.status /\ next = n.cursor
      BY <1>1, <2>3 DEF Ended
    <2> QED
      BY <1>2, <2>2, <2>3, <2>5, <2>6
  <1> QED
    BY <1>4, <1>5, <1>6 DEF BatchOK

LEMMA CaptureKept ==
  ASSUME NEW p, NEW k \in CaptureRecords, NEW recorded,
         NEW w \in Waits, NEW x, Told(w, x), NEW t \in PtySessions, NEW n \in PtySessions, NEW pr, NEW th,
         OneTerminal(t, pr, th), Develops(t, n), CaptureOK(p, k, w, t, recorded)
  PROVE  CaptureOK(p, k, x, n, recorded)
  <1>1. /\ t.cursor \in Nat /\ n.cursor \in Nat /\ t.cursor <= n.cursor
        /\ t.status \in Ended => n.status = t.status
        /\ n.status \in {"exited", "failed"} /\ t.status = n.status => n.cursor = t.cursor
        /\ t.status # None => n.status # None
    BY DevelopsOn DEF Develops
  <1>2. /\ x \in Waits /\ x.pty = w.pty /\ x.after = w.after
        /\ x.at = w.at \/ (w.at = "parked" /\ x.at = "recheck")
        /\ NextCursorOf(x) = NextCursorOf(w)
    BY ToldFields
  <1>3. k.cursor \in Nat /\ NoWait.at = "idle"
    BY DEF CaptureRecords, NoWait
  <1>4. k.at # "idle" => k.agent \in Agents /\ n.status # None /\ k.cursor <= n.cursor
    BY <1>1, <1>3 DEF CaptureOK
  <1>5. k.at \notin {"waiting", "share", "progress"} => x = NoWait
    BY <1>3 DEF CaptureOK, Told
  <1>6. k.at \in {"waiting", "share", "progress"} =>
          x.at # "idle" /\ x.pty = p /\ x.after = k.cursor /\ BatchOK(x, n)
    BY <1>2, BatchKept DEF CaptureOK
  <1>7. k.at \in {"share", "progress"} => x.at = "answered" /\ Tile(recorded, NextCursorOf(x))
    BY <1>2 DEF CaptureOK
  <1>8. /\ k.at \in {"loop", "waiting", "ended", "replaced"} => Tile(recorded, k.cursor)
        /\ k.at = "idle" => \E m \in Nat : Tile(recorded, m)
    BY DEF CaptureOK
  <1>9. k.at = "ended" => n.status \in Ended /\ (n.status \in {"exited", "failed"} => k.cursor = n.cursor)
    BY <1>1, <1>3 DEF CaptureOK
  <1> QED
    BY <1>4, <1>5, <1>6, <1>7, <1>8, <1>9 DEF CaptureOK

-----------------------------------------------------------------------------
(* What the steps of others do to a request: nothing *)

RequestsGoOn ==
  /\ \A id : HasInput(messages, id) => HasInput(messages', id)
  /\ \A id : HasInput(history, id) => HasInput(history', id)
  /\ \A p \in Ptys : terminal[p].status # None => terminal'[p].status # None

RequestLeft(m) ==
  m.at \in Binding => capture'[m.pty].at = "idle" /\ Accounts(history', unrecorded', m.pty) = {}

LEMMA RequestKept ==
  ASSUME NEW m, RequestOK(m), RequestsGoOn, RequestLeft(m)
  PROVE  RequestOK(m)'
  BY DEF RequestOK, RequestsGoOn, RequestLeft

LEMMA RequestsStay ==
  ASSUME RequestsOK, StartsApart, RequestsGoOn, request' = request,
         \A s \in Requests : RequestLeft(request[s])
  PROVE  RequestsOK' /\ StartsApart'
  <1>1. ASSUME NEW s \in Requests
        PROVE  RequestOK(request[s])'
    <2>1. PICK m : m = request[s]
      OBVIOUS
    <2>2. RequestOK(m)'
      BY <2>1, RequestKept DEF RequestsOK
    <2> QED
      BY <2>1, <2>2 DEF RequestOK
  <1> QED
    BY <1>1 DEF RequestsOK, StartsApart

LEMMA RequestsMove ==
  ASSUME ManagerTyped, RequestsOK, StartsApart, RequestsGoOn,
         NEW r \in Requests, NEW n \in RequestRecords,
         request' = [request EXCEPT ![r] = n], RequestOK(n)',
         \A s \in Requests : s # r => RequestLeft(request[s]),
         n.at \in Binding =>
           \A s \in Requests : s # r /\ request[s].at \in Binding => request[s].pty # n.pty
  PROVE  RequestsOK' /\ StartsApart' /\ request' \in [Requests -> RequestRecords]
  <1>1. /\ request' \in [Requests -> RequestRecords] /\ request'[r] = n
        /\ \A s \in Requests : s # r => request'[s] = request[s]
    BY DEF ManagerTyped
  <1>2. ASSUME NEW s \in Requests
        PROVE  RequestOK(request[s])'
    <2>1. CASE s = r
      BY <1>1, <2>1 DEF RequestOK
    <2>2. CASE s # r
      <3>1. PICK m : m = request[s]
        OBVIOUS
      <3>2. RequestOK(m)'
        BY <2>2, <3>1, RequestKept DEF RequestsOK
      <3>3. request'[s] = m
        BY <1>1, <2>2, <3>1
      <3> QED
        BY <3>2, <3>3 DEF RequestOK
    <2> QED
      BY <2>1, <2>2
  <1>3. StartsApart'
    <2>1. SUFFICES ASSUME NEW s \in Requests, NEW v \in Requests, request'[s].at \in Binding,
                          request'[v].at \in Binding, request'[s].pty = request'[v].pty
                   PROVE  s = v
      BY DEF StartsApart
    <2>2. CASE s = r \/ v = r
      BY <1>1, <2>1, <2>2
    <2>3. CASE s # r /\ v # r
      BY <1>1, <2>1, <2>3 DEF StartsApart
    <2> QED
      BY <2>2, <2>3
  <1> QED
    BY <1>1, <1>2, <1>3 DEF RequestsOK

\* An entry that is no terminal's changes what is recorded of none.
Quiet(h, n) == n = h \/ \E e \in Entries : e.pty = None /\ n = Append(h, e)

LEMMA QuietEntries ==
  ASSUME NEW h \in Seq(Entries), NEW lost \in SUBSET Entries, NEW n, Quiet(h, n)
  PROVE  /\ n \in Seq(Entries)
         /\ Ordered(h) => Ordered(n)
         /\ \A p \in Ptys : Accounts(n, lost, p) = Accounts(h, lost, p)
         /\ \A id : HasInput(h, id) => HasInput(n, id)
  <1>1. CASE n = h
    BY <1>1
  <1>2. CASE \E e \in Entries : e.pty = None /\ n = Append(h, e)
    <2>1. PICK e \in Entries : e.pty = None /\ n = Append(h, e)
      BY <1>2
    <2>2. Ordered(h) => Append(h, e) \in Seq(Entries) /\ Ordered(Append(h, e))
      BY <2>1, AppendOrdered
    <2>3. \A p \in Ptys : e.pty # p
      BY <2>1, TerminalAssumption
    <2>4. ASSUME NEW p \in Ptys
          PROVE  Accounts(Append(h, e), lost, p) = Accounts(h, lost, p)
      <3>1. e.pty # p
        BY <2>3
      <3> QED
        BY <3>1, AccountsOfOther
    <2>5. \A id : HasInput(h, id) => HasInput(Append(h, e), id)
      BY InputsStay
    <2>6. Append(h, e) \in Seq(Entries)
      OBVIOUS
    <2> QED
      BY <2>1, <2>2, <2>4, <2>5, <2>6
  <1> QED
    BY <1>1, <1>2 DEF Quiet

\* What changes no terminal, no task and only such entries leaves requests alone.
QuietStep ==
  /\ UNCHANGED <<terminal, process, threads>> /\ UNCHANGED <<waits, capture, unrecorded>>
  /\ Quiet(history, history') /\ Quiet(messages, messages')

LEMMA QuietKeeps ==
  ASSUME AgentInv, QuietStep
  PROVE  /\ history' \in Seq(Entries) /\ messages' \in Seq(Entries)
         /\ TerminalInv' /\ CapturesOK' /\ Ordered(history)'
         /\ \A p \in Ptys : process'[p].child = None => Accounts(history', unrecorded', p) = {}
         /\ RequestsGoOn /\ \A s \in Requests : RequestLeft(request[s])
         /\ inputs' = inputs => InputsRecorded'
  <1>1. TerminalInv'
    BY TerminalsUntouched DEF QuietStep, AgentInv
  <1>2. /\ history' \in Seq(Entries) /\ Ordered(history')
        /\ \A p \in Ptys : Accounts(history', unrecorded', p) = Accounts(history, unrecorded, p)
        /\ \A id : HasInput(history, id) => HasInput(history', id)
    <2>1. PICK h, n, u : h = history /\ n = history' /\ u = unrecorded
      OBVIOUS
    <2>2. h \in Seq(Entries) /\ Quiet(h, n) /\ Ordered(h) /\ u \in SUBSET Entries /\ unrecorded' = u
      BY <2>1 DEF AgentInv, ManagerInv, ManagerTyped, QuietStep
    <2>3. /\ n \in Seq(Entries) /\ Ordered(n)
          /\ \A p \in Ptys : Accounts(n, u, p) = Accounts(h, u, p)
          /\ \A id : HasInput(h, id) => HasInput(n, id)
      BY <2>2, QuietEntries
    <2> QED
      BY <2>1, <2>2, <2>3
  <1>3. messages' \in Seq(Entries) /\ \A id : HasInput(messages, id) => HasInput(messages', id)
    <2>1. PICK h, n : h = messages /\ n = messages'
      OBVIOUS
    <2>2. h \in Seq(Entries) /\ Quiet(h, n)
      BY <2>1 DEF AgentInv, ManagerInv, ManagerTyped, QuietStep
    <2>3. n \in Seq(Entries) /\ \A id : HasInput(h, id) => HasInput(n, id)
      <3>1. {} \in SUBSET Entries
        OBVIOUS
      <3> QED
        BY <2>2, <3>1, QuietEntries
    <2> QED
      BY <2>1, <2>3
  <1>4. CapturesOK'
    BY <1>2 DEF QuietStep, AgentInv, ManagerInv, CapturesOK
  <1>5. RequestsGoOn
    BY <1>2, <1>3 DEF QuietStep, RequestsGoOn
  <1>6. \A s \in Requests : RequestLeft(request[s])
    BY <1>2 DEF QuietStep, AgentInv, ManagerInv, RequestsOK, RequestOK, RequestLeft
  <1>7. \A p \in Ptys : process'[p].child = None => Accounts(history', unrecorded', p) = {}
    BY <1>2 DEF QuietStep, AgentInv, ManagerInv, FreshIsUnknown
  <1>8. inputs' = inputs => InputsRecorded'
    BY <1>2, <1>3 DEF AgentInv, ManagerInv, InputsRecorded
  <1> QED
    BY <1>1, <1>2, <1>3, <1>4, <1>5, <1>6, <1>7, <1>8

\* A step of a request that leaves terminals and tasks alone.
LEMMA RequestStep ==
  ASSUME AgentInv, QuietStep, NEW r \in Requests, NEW n \in RequestRecords,
         request' = [request EXCEPT ![r] = n], RequestOK(n)',
         n.at \in Binding => request[r].at \in Binding /\ n.pty = request[r].pty,
         binding' \in [Agents -> Bindings], active' \in Agents \cup {None},
         \A a \in Agents : binding'[a].pty # None => process[binding'[a].pty].child # None,
         tasks' = tasks, inputs' \in [Ptys -> Seq(Nat)], InputsRecorded',
         used' \in [requests : Nat, restarts : Nat]
  PROVE  AgentInv'
  <1>1. /\ history' \in Seq(Entries) /\ messages' \in Seq(Entries)
        /\ TerminalInv' /\ CapturesOK' /\ Ordered(history)'
        /\ \A p \in Ptys : process'[p].child = None => Accounts(history', unrecorded', p) = {}
        /\ RequestsGoOn /\ \A s \in Requests : RequestLeft(request[s])
    BY QuietKeeps
  <1>2. n.at \in Binding =>
          \A s \in Requests : s # r /\ request[s].at \in Binding => request[s].pty # n.pty
    BY DEF AgentInv, ManagerInv, StartsApart
  <1>3. ManagerTyped /\ RequestsOK /\ StartsApart
    BY DEF AgentInv, ManagerInv
  <1>4. RequestsOK' /\ StartsApart' /\ request' \in [Requests -> RequestRecords]
    BY <1>1, <1>2, <1>3, RequestsMove
  <1>5. FreshIsUnknown'
    BY <1>1 DEF FreshIsUnknown, QuietStep
  <1>6. ManagerTyped'
    BY <1>1, <1>3, <1>4 DEF ManagerTyped, QuietStep
  <1> QED
    BY <1>1, <1>4, <1>5, <1>6 DEF AgentInv, ManagerInv

LEMMA PlaceChanged ==
  ASSUME NEW m \in RequestRecords, NEW x \in RequestPlaces
  PROVE  /\ [m EXCEPT !.at = x] \in RequestRecords
         /\ [m EXCEPT !.at = x].at = x /\ [m EXCEPT !.at = x].agent = m.agent
         /\ [m EXCEPT !.at = x].pty = m.pty /\ [m EXCEPT !.at = x].id = m.id
  BY DEF RequestRecords

\* A request that starts no program is fine wherever it goes.
LEMMA NoRequestIsFine == RequestOK(NoRequest)'
  BY DEF NoRequest, RequestOK, Binding

\* What a request leaves alone.
BindingsKept ==
  /\ binding' \in [Agents -> Bindings]
  /\ \A a \in Agents : binding'[a].pty # None => process[binding'[a].pty].child # None

LEMMA SameBindings ==
  ASSUME AgentInv, binding' = binding
  PROVE  BindingsKept
  BY DEF AgentInv, ManagerInv, ManagerTyped, FreshIsUnknown, BindingsKept

LEMMA SameRecords ==
  ASSUME history' = history, messages' = messages
  PROVE  Quiet(history, history') /\ Quiet(messages, messages')
  BY DEF Quiet

LEMMA NewEntries ==
  ASSUME NEW id \in Nat
  PROVE  /\ [role |-> "user", pty |-> None, from |-> id, upto |-> id] \in Entries
         /\ SystemEntry \in Entries /\ SystemEntry.pty = None
  BY DEF Entries, SystemEntry

LEMMA RequestKeeps ==
  ASSUME AgentInv, NEW r \in Requests, NEW op \in {"start", "send", "stop"}, NEW a \in Agents,
         Request(r, op, a)
  PROVE  AgentInv'
  <1>1. PICK id \in Nat : id = used.requests + 1
    BY DEF AgentInv, ManagerInv, ManagerTyped
  <1>2. PICK n : n = [NoRequest EXCEPT !.op = op, !.at = op, !.agent = a, !.id = id]
    OBVIOUS
  <1>3. n \in RequestRecords /\ n.at = op /\ n.agent = a
    BY <1>2, Nothings DEF RequestRecords, RequestPlaces
  <1>4. request' = [request EXCEPT ![r] = n]
    BY <1>1, <1>2 DEF Request
  <1>5. QuietStep /\ inputs' = inputs
    BY SameRecords DEF Request, terminalVars, QuietStep
  <1>6. InputsRecorded' /\ inputs' \in [Ptys -> Seq(Nat)]
    BY <1>5, QuietKeeps DEF AgentInv, ManagerInv, ManagerTyped
  <1>7. RequestOK(n)' /\ n.at \notin Binding
    BY <1>3 DEF RequestOK, Binding
  <1>8. BindingsKept
    BY SameBindings DEF Request
  <1>9. used' \in [requests : Nat, restarts : Nat] /\ active' \in Agents \cup {None} /\ tasks' = tasks
    <2>1. PICK u \in [requests : Nat, restarts : Nat] : u = used
      BY DEF AgentInv, ManagerInv, ManagerTyped
    <2>2. used' = [u EXCEPT !.requests = id]
      BY <1>1, <2>1 DEF Request
    <2> QED
      BY <2>2 DEF Request, AgentInv, ManagerInv, ManagerTyped
  <1> QED
    BY <1>3, <1>4, <1>5, <1>6, <1>7, <1>8, <1>9, RequestStep DEF BindingsKept

LEMMA StartLooksUpKeeps ==
  ASSUME AgentInv, NEW r \in Requests, StartLooksUp(r)
  PROVE  AgentInv'
  <1>1. PICK m \in RequestRecords : m = request[r]
    BY DEF AgentInv, ManagerInv, ManagerTyped
  <1>2. m.at = "start" /\ m.agent \in Agents
    BY <1>1 DEF StartLooksUp, AgentInv, ManagerInv, RequestsOK, RequestOK
  <1>3. PICK row \in Bindings : row = binding[m.agent]
    BY <1>2 DEF AgentInv, ManagerInv, ManagerTyped
  <1>4. QuietStep /\ inputs' = inputs
    BY SameRecords DEF StartLooksUp, terminalVars, QuietStep
  <1>5. InputsRecorded' /\ inputs' \in [Ptys -> Seq(Nat)]
    BY <1>4, QuietKeeps DEF AgentInv, ManagerInv, ManagerTyped
  <1>6. BindingsKept
    BY SameBindings DEF StartLooksUp
  <1>7. used' \in [requests : Nat, restarts : Nat] /\ active' \in Agents \cup {None} /\ tasks' = tasks
    BY <1>1, <1>2 DEF StartLooksUp, SetActive, AgentInv, ManagerInv, ManagerTyped
  <1>8. CASE request' = [request EXCEPT ![r] = NoRequest]
    BY <1>4, <1>5, <1>6, <1>7, <1>8, Nothings, NoRequestIsFine, RequestStep DEF BindingsKept, Binding
  <1>9. CASE request' = [request EXCEPT ![r].at = "spawn", ![r].row = row]
    <2>1. PICK n : n = [m EXCEPT !.at = "spawn", !.row = row]
      OBVIOUS
    <2>2. n \in RequestRecords /\ n.at = "spawn" /\ n.agent = m.agent
      BY <2>1 DEF RequestRecords, RequestPlaces
    <2>3. request' = [request EXCEPT ![r] = n]
      BY <1>1, <1>9, <2>1
    <2>4. RequestOK(n)' /\ n.at \notin Binding
      BY <1>2, <2>2 DEF RequestOK, Binding
    <2> QED
      BY <1>4, <1>5, <1>6, <1>7, <2>2, <2>3, <2>4, RequestStep DEF BindingsKept
  <1> QED
    BY <1>1, <1>3, <1>8, <1>9 DEF StartLooksUp, Answer

LEMMA StartBindsKeeps ==
  ASSUME AgentInv, NEW r \in Requests, StartBinds(r)
  PROVE  AgentInv'
  <1>1. PICK m \in RequestRecords : m = request[r]
    BY DEF AgentInv, ManagerInv, ManagerTyped
  <1>2. m.at = "bind" /\ m.agent \in Agents /\ m.pty \in Ptys /\ RequestOK(m)
    BY <1>1 DEF StartBinds, AgentInv, ManagerInv, RequestsOK, RequestOK, Binding
  <1>3. PICK n : n = [m EXCEPT !.at = "activate"]
    OBVIOUS
  <1>4. n \in RequestRecords /\ n.at = "activate" /\ n.agent = m.agent /\ n.pty = m.pty
    BY <1>3, PlaceChanged DEF RequestPlaces
  <1>5. request' = [request EXCEPT ![r] = n]
    BY <1>1, <1>3 DEF StartBinds, Goto
  <1>6. QuietStep /\ inputs' = inputs
    BY SameRecords DEF StartBinds, terminalVars, QuietStep
  <1>7. InputsRecorded' /\ inputs' \in [Ptys -> Seq(Nat)]
    BY <1>6, QuietKeeps DEF AgentInv, ManagerInv, ManagerTyped
  <1>8. RequestOK(n)'
    BY <1>2, <1>4, <1>6 DEF RequestOK, Binding, QuietStep, StartBinds
  <1>9. BindingsKept
    <2>1. process[m.pty].child # None
      BY <1>2 DEF RequestOK, Binding, AgentInv, TerminalInv, OneTerminal, StartInv
    <2>2. PICK row \in Bindings : row = [pty |-> m.pty, cursor |-> 0, status |-> "running"]
      BY <1>2 DEF Bindings
    <2>3. binding' = [binding EXCEPT ![m.agent] = row] /\ row.pty = m.pty
      BY <1>1, <2>2 DEF StartBinds, UpsertBinding
    <2> QED
      BY <1>2, <2>1, <2>2, <2>3 DEF AgentInv, ManagerInv, ManagerTyped, FreshIsUnknown, BindingsKept
  <1>10. used' \in [requests : Nat, restarts : Nat] /\ active' \in Agents \cup {None} /\ tasks' = tasks
    BY DEF StartBinds, AgentInv, ManagerInv, ManagerTyped
  <1> QED
    BY <1>1, <1>2, <1>4, <1>5, <1>6, <1>7, <1>8, <1>9, <1>10, RequestStep DEF BindingsKept, Binding

LEMMA StartActivatesKeeps ==
  ASSUME AgentInv, NEW r \in Requests, StartActivates(r)
  PROVE  AgentInv'
  <1>1. PICK m \in RequestRecords : m = request[r]
    BY DEF AgentInv, ManagerInv, ManagerTyped
  <1>2. m.at = "activate" /\ m.agent \in Agents /\ RequestOK(m)
    BY <1>1 DEF StartActivates, AgentInv, ManagerInv, RequestsOK, RequestOK, Binding
  <1>3. QuietStep /\ inputs' = inputs
    BY NewEntries DEF StartActivates, AppendHistory, terminalVars, QuietStep, Quiet
  <1>4. InputsRecorded' /\ inputs' \in [Ptys -> Seq(Nat)]
    BY <1>3, QuietKeeps DEF AgentInv, ManagerInv, ManagerTyped
  <1>5. BindingsKept
    BY SameBindings DEF StartActivates
  <1>6. used' \in [requests : Nat, restarts : Nat] /\ active' \in Agents \cup {None} /\ tasks' = tasks
    BY <1>1, <1>2 DEF StartActivates, SetActive, AgentInv, ManagerInv, ManagerTyped
  <1>7. CASE request' = [request EXCEPT ![r] = NoRequest]
    BY <1>3, <1>4, <1>5, <1>6, <1>7, Nothings, NoRequestIsFine, RequestStep DEF BindingsKept, Binding
  <1>8. CASE request' = [request EXCEPT ![r].at = "bootstrap"]
    <2>1. PICK n : n = [m EXCEPT !.at = "bootstrap"]
      OBVIOUS
    <2>2. n \in RequestRecords /\ n.at = "bootstrap" /\ n.agent = m.agent /\ n.pty = m.pty
      BY <2>1, PlaceChanged DEF RequestPlaces
    <2>3. request' = [request EXCEPT ![r] = n]
      BY <1>1, <1>8, <2>1
    <2>4. RequestLeft(m) /\ RequestsGoOn
      BY <1>1, <1>3, QuietKeeps
    <2>5. RequestOK(n)'
      BY <1>2, <2>2, <2>4 DEF RequestOK, Binding, RequestLeft, RequestsGoOn
    <2> QED
      BY <1>1, <1>2, <1>3, <1>4, <1>5, <1>6, <2>2, <2>3, <2>5, RequestStep DEF BindingsKept, Binding
  <1> QED
    BY <1>7, <1>8 DEF StartActivates, Answer, Goto

LEMMA ProgressUpdated ==
  ASSUME AgentInv, NEW a \in Agents, NEW c \in Nat, NEW s \in Ended \cup {"running", "stopped"},
         binding' = [binding EXCEPT ![a].cursor = c, ![a].status = s]
  PROVE  BindingsKept /\ \A x \in Agents : binding'[x].pty = binding[x].pty
  <1>1. PICK b \in Bindings : b = binding[a]
    BY DEF AgentInv, ManagerInv, ManagerTyped
  <1>2. PICK n : n = [b EXCEPT !.cursor = c, !.status = s]
    OBVIOUS
  <1>3. n \in Bindings /\ n.pty = b.pty
    BY <1>2 DEF Bindings
  <1>4. binding \in [Agents -> Bindings]
    BY DEF AgentInv, ManagerInv, ManagerTyped
  <1>5. binding' = [binding EXCEPT ![a] = n]
    BY <1>1, <1>2, <1>4 DEF Bindings
  <1>6. binding' \in [Agents -> Bindings] /\ \A x \in Agents : binding'[x].pty = binding[x].pty
    BY <1>1, <1>3, <1>4, <1>5
  <1> QED
    BY <1>6 DEF AgentInv, ManagerInv, FreshIsUnknown, BindingsKept

LEMMA SendRecordsKeeps ==
  ASSUME AgentInv, NEW r \in Requests, SendRecords(r)
  PROVE  AgentInv'
  <1>1. PICK m \in RequestRecords : m = request[r]
    BY DEF AgentInv, ManagerInv, ManagerTyped
  <1>2. m.at = "send" /\ m.agent \in Agents /\ m.id \in Nat
    BY <1>1 DEF SendRecords, AgentInv, ManagerInv, RequestsOK, RequestOK, RequestRecords
  <1>3. PICK row \in Bindings : row = binding[m.agent]
    BY <1>2 DEF AgentInv, ManagerInv, ManagerTyped
  <1>4. PICK e : e = [role |-> "user", pty |-> None, from |-> m.id, upto |-> m.id]
    OBVIOUS
  <1>5. e \in Entries /\ e.pty = None /\ e.role = "user" /\ e.from = m.id /\ UserEntry(r) = e
    BY <1>1, <1>2, <1>4, NewEntries DEF UserEntry
  <1>6. QuietStep /\ inputs' = inputs
    BY <1>5 DEF SendRecords, AppendShared, terminalVars, QuietStep, Quiet
  <1>7. InputsRecorded' /\ inputs' \in [Ptys -> Seq(Nat)]
    BY <1>6, QuietKeeps DEF AgentInv, ManagerInv, ManagerTyped
  <1>8. BindingsKept
    BY SameBindings DEF SendRecords
  <1>9. used' \in [requests : Nat, restarts : Nat] /\ active' \in Agents \cup {None} /\ tasks' = tasks
    BY DEF SendRecords, AgentInv, ManagerInv, ManagerTyped
  <1>10. CASE request' = [request EXCEPT ![r] = NoRequest]
    BY <1>6, <1>7, <1>8, <1>9, <1>10, Nothings, NoRequestIsFine, RequestStep DEF BindingsKept, Binding
  <1>11. CASE /\ messages' = Append(messages, e)
              /\ request' = [request EXCEPT ![r].at = "record", ![r].pty = row.pty]
    <2>1. PICK n : n = [m EXCEPT !.at = "record", !.pty = row.pty]
      OBVIOUS
    <2>2. n \in RequestRecords /\ n.at = "record" /\ n.agent = m.agent /\ n.id = m.id
      BY <2>1 DEF RequestRecords, RequestPlaces, Bindings
    <2>3. request' = [request EXCEPT ![r] = n]
      BY <1>1, <1>11, <2>1
    <2>4. HasInput(messages', n.id)
      <3>1. PICK h : h = messages /\ h \in Seq(Entries)
        BY DEF AgentInv, ManagerInv, ManagerTyped
      <3>2. HasInput(Append(h, e), m.id)
        BY <1>5, <3>1, InputsStay
      <3> QED
        BY <1>11, <2>2, <3>1, <3>2
    <2>5. RequestOK(n)' /\ n.at \notin Binding
      BY <1>2, <2>2, <2>4 DEF RequestOK, Binding
    <2> QED
      BY <1>6, <1>7, <1>8, <1>9, <2>2, <2>3, <2>5, RequestStep DEF BindingsKept
  <1> QED
    BY <1>1, <1>3, <1>5, <1>10, <1>11 DEF SendRecords, Answer, AppendShared

LEMMA SendAppendsHistoryKeeps ==
  ASSUME AgentInv, NEW r \in Requests, SendAppendsHistory(r)
  PROVE  AgentInv'
  <1>1. PICK m \in RequestRecords : m = request[r]
    BY DEF AgentInv, ManagerInv, ManagerTyped
  <1>2. m.at = "record" /\ m.agent \in Agents /\ m.id \in Nat /\ HasInput(messages, m.id)
    BY <1>1 DEF SendAppendsHistory, AgentInv, ManagerInv, RequestsOK, RequestOK, RequestRecords
  <1>3. PICK e : e = [role |-> "user", pty |-> None, from |-> m.id, upto |-> m.id]
    OBVIOUS
  <1>4. e \in Entries /\ e.pty = None /\ e.role = "user" /\ e.from = m.id /\ UserEntry(r) = e
    BY <1>1, <1>2, <1>3, NewEntries DEF UserEntry
  <1>5. history' = Append(history, e) /\ messages' = messages
    BY <1>4 DEF SendAppendsHistory, AppendHistory
  <1>6. QuietStep /\ inputs' = inputs
    BY <1>4, <1>5 DEF SendAppendsHistory, terminalVars, QuietStep, Quiet
  <1>7. InputsRecorded' /\ inputs' \in [Ptys -> Seq(Nat)]
    BY <1>6, QuietKeeps DEF AgentInv, ManagerInv, ManagerTyped
  <1>8. BindingsKept
    BY SameBindings DEF SendAppendsHistory
  <1>9. used' \in [requests : Nat, restarts : Nat] /\ active' \in Agents \cup {None} /\ tasks' = tasks
    BY DEF SendAppendsHistory, AgentInv, ManagerInv, ManagerTyped
  <1>10. PICK n : n = [m EXCEPT !.at = "input"]
    OBVIOUS
  <1>11. n \in RequestRecords /\ n.at = "input" /\ n.agent = m.agent /\ n.id = m.id
    BY <1>10 DEF RequestRecords, RequestPlaces
  <1>12. request' = [request EXCEPT ![r] = n]
    BY <1>1, <1>10 DEF SendAppendsHistory, Goto
  <1>13. HasInput(history', n.id)
    <2>1. PICK h : h = history /\ h \in Seq(Entries)
      BY DEF AgentInv, ManagerInv, ManagerTyped
    <2>2. HasInput(Append(h, e), m.id)
      BY <1>4, <2>1, InputsStay
    <2> QED
      BY <1>5, <1>11, <2>1, <2>2
  <1>14. RequestOK(n)' /\ n.at \notin Binding
    BY <1>2, <1>5, <1>11, <1>13 DEF RequestOK, Binding
  <1> QED
    BY <1>6, <1>7, <1>8, <1>9, <1>11, <1>12, <1>14, RequestStep DEF BindingsKept

LEMMA SendInputsKeeps ==
  ASSUME AgentInv, NEW r \in Requests, SendInputs(r)
  PROVE  AgentInv'
  <1>1. PICK m \in RequestRecords : m = request[r]
    BY DEF AgentInv, ManagerInv, ManagerTyped
  <1>2. m.at = "input" /\ m.id \in Nat /\ HasInput(messages, m.id) /\ HasInput(history, m.id)
    BY <1>1 DEF SendInputs, AgentInv, ManagerInv, RequestsOK, RequestOK, RequestRecords
  <1>3. QuietStep
    BY SameRecords DEF SendInputs, terminalVars, QuietStep
  <1>4. InputsRecorded' /\ inputs' \in [Ptys -> Seq(Nat)]
    <2>1. CASE inputs' = inputs
      BY <1>3, <2>1, QuietKeeps DEF AgentInv, ManagerInv, ManagerTyped
    <2>2. CASE inputs' = [inputs EXCEPT ![m.pty] = Append(@, m.id)] /\ m.pty \in Ptys
      <3>1. inputs \in [Ptys -> Seq(Nat)] /\ history' = history /\ messages' = messages
        BY DEF AgentInv, ManagerInv, ManagerTyped, SendInputs
      <3>2. PICK q \in Seq(Nat) : q = inputs[m.pty]
        BY <2>2, <3>1
      <3>3. PICK more : more = Append(q, m.id)
        OBVIOUS
      <3>4. more \in Seq(Nat) /\ \A i \in DOMAIN more : more[i] = m.id \/ (i \in DOMAIN q /\ more[i] = q[i])
        BY <1>2, <3>3
      <3>5. inputs' = [inputs EXCEPT ![m.pty] = more]
        BY <2>2, <3>2, <3>3
      <3>6. inputs' \in [Ptys -> Seq(Nat)] /\ inputs'[m.pty] = more
            /\ \A p \in Ptys : p # m.pty => inputs'[p] = inputs[p]
        BY <2>2, <3>1, <3>4, <3>5
      <3>7. \A i \in DOMAIN more : HasInput(history, more[i]) /\ HasInput(messages, more[i])
        BY <1>2, <2>2, <3>2, <3>4 DEF AgentInv, ManagerInv, InputsRecorded
      <3> QED
        BY <3>1, <3>6, <3>7 DEF AgentInv, ManagerInv, InputsRecorded
    <2> QED
      BY <1>1, <2>1, <2>2 DEF SendInputs, IsRunning, RequestRecords
  <1>5. BindingsKept
    BY SameBindings DEF SendInputs
  <1>6. used' \in [requests : Nat, restarts : Nat] /\ active' \in Agents \cup {None} /\ tasks' = tasks
    BY DEF SendInputs, AgentInv, ManagerInv, ManagerTyped
  <1>7. request' = [request EXCEPT ![r] = NoRequest]
    BY DEF SendInputs, Answer
  <1> QED
    BY <1>3, <1>4, <1>5, <1>6, <1>7, Nothings, NoRequestIsFine, RequestStep DEF BindingsKept, Binding

LEMMA StopLooksUpKeeps ==
  ASSUME AgentInv, NEW r \in Requests, StopLooksUp(r)
  PROVE  AgentInv'
  <1>1. PICK m \in RequestRecords : m = request[r]
    BY DEF AgentInv, ManagerInv, ManagerTyped
  <1>2. m.at = "stop" /\ m.agent \in Agents
    BY <1>1 DEF StopLooksUp, AgentInv, ManagerInv, RequestsOK, RequestOK
  <1>3. PICK row \in Bindings : row = binding[m.agent]
    BY <1>2 DEF AgentInv, ManagerInv, ManagerTyped
  <1>4. QuietStep /\ inputs' = inputs
    BY SameRecords DEF StopLooksUp, terminalVars, QuietStep
  <1>5. InputsRecorded' /\ inputs' \in [Ptys -> Seq(Nat)]
    BY <1>4, QuietKeeps DEF AgentInv, ManagerInv, ManagerTyped
  <1>6. BindingsKept
    BY SameBindings DEF StopLooksUp
  <1>7. used' \in [requests : Nat, restarts : Nat] /\ active' \in Agents \cup {None} /\ tasks' = tasks
    BY DEF StopLooksUp, AgentInv, ManagerInv, ManagerTyped
  <1>8. CASE request' = [request EXCEPT ![r] = NoRequest]
    BY <1>4, <1>5, <1>6, <1>7, <1>8, Nothings, NoRequestIsFine, RequestStep DEF BindingsKept, Binding
  <1>9. CASE request' = [request EXCEPT ![r].at = "cancel", ![r].row = row]
    <2>1. PICK n : n = [m EXCEPT !.at = "cancel", !.row = row]
      OBVIOUS
    <2>2. n \in RequestRecords /\ n.at = "cancel" /\ n.agent = m.agent
      BY <2>1 DEF RequestRecords, RequestPlaces
    <2>3. request' = [request EXCEPT ![r] = n]
      BY <1>1, <1>9, <2>1
    <2>4. RequestOK(n)' /\ n.at \notin Binding
      BY <1>2, <2>2 DEF RequestOK, Binding
    <2> QED
      BY <1>4, <1>5, <1>6, <1>7, <2>2, <2>3, <2>4, RequestStep DEF BindingsKept
  <1> QED
    BY <1>1, <1>3, <1>8, <1>9 DEF StopLooksUp, Answer

LEMMA StopRecordsKeeps ==
  ASSUME AgentInv, NEW r \in Requests, StopRecords(r)
  PROVE  AgentInv'
  <1>1. PICK m \in RequestRecords : m = request[r]
    BY DEF AgentInv, ManagerInv, ManagerTyped
  <1>2. m.agent \in Agents /\ m.row \in Bindings /\ m.row.cursor \in Nat
    BY <1>1 DEF StopRecords, AgentInv, ManagerInv, RequestsOK, RequestOK, RequestRecords, Bindings
  <1>3. QuietStep /\ inputs' = inputs
    BY NewEntries DEF StopRecords, AppendHistory, terminalVars, QuietStep, Quiet
  <1>4. InputsRecorded' /\ inputs' \in [Ptys -> Seq(Nat)]
    BY <1>3, QuietKeeps DEF AgentInv, ManagerInv, ManagerTyped
  <1>5. BindingsKept
    <2>1. binding' = [binding EXCEPT ![m.agent].cursor = m.row.cursor, ![m.agent].status = "stopped"]
      BY <1>1 DEF StopRecords, UpdateProgress
    <2> QED
      BY <1>2, <2>1, ProgressUpdated
  <1>6. used' \in [requests : Nat, restarts : Nat] /\ active' \in Agents \cup {None} /\ tasks' = tasks
    BY DEF StopRecords, AgentInv, ManagerInv, ManagerTyped
  <1>7. request' = [request EXCEPT ![r] = NoRequest]
    BY DEF StopRecords, Answer
  <1> QED
    BY <1>3, <1>4, <1>5, <1>6, <1>7, Nothings, NoRequestIsFine, RequestStep DEF BindingsKept, Binding

\* A request that fails leaves what it has done.
LEMMA RequestFailsKeeps ==
  ASSUME AgentInv, NEW r \in Requests, RequestFails(r)
  PROVE  AgentInv'
  <1>1. QuietStep /\ inputs' = inputs
    BY SameRecords DEF RequestFails, managerVarsButRequest, terminalVars, QuietStep
  <1>2. InputsRecorded' /\ inputs' \in [Ptys -> Seq(Nat)]
    BY <1>1, QuietKeeps DEF AgentInv, ManagerInv, ManagerTyped
  <1>3. BindingsKept
    BY SameBindings DEF RequestFails, managerVarsButRequest
  <1>4. used' \in [requests : Nat, restarts : Nat] /\ active' \in Agents \cup {None} /\ tasks' = tasks
    BY DEF RequestFails, managerVarsButRequest, AgentInv, ManagerInv, ManagerTyped
  <1>5. request' = [request EXCEPT ![r] = NoRequest]
    BY DEF RequestFails, Answer
  <1> QED
    BY <1>1, <1>2, <1>3, <1>4, <1>5, Nothings, NoRequestIsFine, RequestStep DEF BindingsKept, Binding

-----------------------------------------------------------------------------
(* Standalone agents: steps of terminals and of their programs *)

\* A started program's output begins to be captured: nothing of it is recorded.
LEMMA StartBootstrapsKeeps ==
  ASSUME AgentInv, NEW r \in Requests, StartBootstraps(r)
  PROVE  AgentInv'
  <1>1. PICK m \in RequestRecords : m = request[r]
    BY DEF AgentInv, ManagerInv, ManagerTyped
  <1>2. /\ m.at = "bootstrap" /\ m.agent \in Agents /\ m.pty \in Ptys /\ terminal[m.pty].status # None
        /\ capture[m.pty].at = "idle" /\ Accounts(history, unrecorded, m.pty) = {}
    BY <1>1 DEF StartBootstraps, AgentInv, ManagerInv, RequestsOK, RequestOK, Binding
  <1>3. /\ terminal' = terminal /\ process' = process /\ threads' = threads /\ waits' = waits
        /\ history' = history /\ unrecorded' = unrecorded /\ messages' = messages
        /\ binding' = binding /\ active' = active
        /\ inputs' = inputs /\ used' = used /\ request' = [request EXCEPT ![r] = NoRequest]
    BY DEF StartBootstraps, Answer, terminalVars
  <1>4. ManagerTyped
    BY DEF AgentInv, ManagerInv
  <1>5. /\ tasks' \in [Agents -> Ptys \cup {None}] /\ capture' \in [Ptys -> CaptureRecords]
        /\ \A q \in Ptys : q # m.pty => capture'[q] = capture[q]
        /\ CapturesOK'
    <2>1. CASE UNCHANGED <<tasks, capture>>
      BY <1>3, <1>4, <2>1 DEF ManagerTyped, AgentInv, ManagerInv, CapturesOK
    <2>2. CASE /\ tasks' = [tasks EXCEPT ![m.agent] = m.pty]
               /\ capture' = [capture EXCEPT ![m.pty] = [NoCapture EXCEPT !.at = "loop", !.agent = m.agent]]
      <3>1. PICK k : k = [NoCapture EXCEPT !.at = "loop", !.agent = m.agent]
        OBVIOUS
      <3>2. k \in CaptureRecords /\ k.at = "loop" /\ k.agent = m.agent /\ k.cursor = 0
        BY <1>2, <3>1 DEF NoCapture, CaptureRecords, CapturePlaces
      <3>3. /\ capture' \in [Ptys -> CaptureRecords] /\ capture'[m.pty] = k
            /\ \A q \in Ptys : q # m.pty => capture'[q] = capture[q]
        BY <1>2, <1>4, <2>2, <3>1, <3>2 DEF ManagerTyped
      <3>4. waits[m.pty] = NoWait
        BY <1>2 DEF AgentInv, ManagerInv, CapturesOK, CaptureOK
      <3>5. terminal[m.pty].cursor \in Nat
        BY <1>2 DEF AgentInv, TerminalInv, PtySessions
      <3>6. CaptureOK(m.pty, k, waits[m.pty], terminal[m.pty], Accounts(history, unrecorded, m.pty))
        <4>1. Tile(Accounts(history, unrecorded, m.pty), k.cursor)
          BY <1>2, <3>2, NothingTiles
        <4> QED
          BY <1>2, <3>2, <3>4, <3>5, <4>1 DEF CaptureOK
      <3>7. CapturesOK'
        BY <1>3, <3>3, <3>6 DEF AgentInv, ManagerInv, CapturesOK
      <3>8. tasks' \in [Agents -> Ptys \cup {None}]
        BY <1>2, <1>4, <2>2 DEF ManagerTyped
      <3> QED
        BY <3>3, <3>7, <3>8
    <2> QED
      BY <1>1, <2>1, <2>2 DEF StartBootstraps
  <1>6. RequestsGoOn
    BY <1>3 DEF RequestsGoOn
  <1>7. ASSUME NEW s \in Requests, s # r
        PROVE  RequestLeft(request[s])
    <2>1. request[s].at \in Binding => request[s].pty # m.pty
      BY <1>1, <1>2, <1>7 DEF AgentInv, ManagerInv, StartsApart, Binding
    <2> QED
      BY <1>3, <1>5, <2>1 DEF AgentInv, ManagerInv, RequestsOK, RequestOK, RequestLeft
  <1>8. RequestsOK' /\ StartsApart' /\ request' \in [Requests -> RequestRecords]
    BY <1>3, <1>4, <1>6, <1>7, Nothings, NoRequestIsFine, RequestsMove DEF AgentInv, ManagerInv, Binding
  <1>9. TerminalInv'
    BY <1>3, TerminalsUntouched DEF AgentInv
  <1>10. FreshIsUnknown' /\ InputsRecorded' /\ Ordered(history)'
    BY <1>3 DEF AgentInv, ManagerInv, FreshIsUnknown, InputsRecorded
  <1>11. ManagerTyped'
    BY <1>3, <1>4, <1>5, <1>8 DEF ManagerTyped
  <1> QED
    BY <1>5, <1>8, <1>9, <1>10, <1>11 DEF AgentInv, ManagerInv

LEMMA StepsTell ==
  ASSUME waits \in [Ptys -> Waits], NEW p \in Ptys, TerminalStep(p)
  PROVE  waits' \in [Ptys -> Waits] /\ \A c \in Ptys : Told(waits[c], waits'[c])
  <1>1. CASE waits' = waits
    BY <1>1 DEF Told
  <1>2. CASE waits' = Notified(p)
    <2>1. waits' = [c \in Ptys |-> IF waits[c].at = "parked" /\ waits[c].pty = p
                                    THEN [waits[c] EXCEPT !.at = "recheck"] ELSE waits[c]]
      BY <1>2, ManagerAssumption DEF Notified
    <2>2. \A c \in Ptys : Told(waits[c], waits'[c])
      BY <2>1 DEF Told
    <2>3. ASSUME NEW c \in Ptys
          PROVE  waits'[c] \in Waits
      <3>1. PICK w \in Waits : w = waits[c]
        OBVIOUS
      <3>2. PICK x : x = waits'[c]
        OBVIOUS
      <3>3. Told(w, x)
        BY <2>2, <3>1, <3>2
      <3> QED
        BY <3>2, <3>3, ToldFields
    <2> QED
      BY <2>1, <2>2, <2>3
  <1>3. waits' = waits \/ waits' = Notified(p)
    BY DEF TerminalStep, StartPty, CancelPty, ThreadNext, PushOutput, ReaderDrained, ChildFinished, Finish,
           ProgramNext, Prints, ChildEnds, SlaveCloses
  <1> QED
    BY <1>1, <1>2, <1>3

\* Whatever a terminal does, the records stay true.
LEMMA TerminalGoesOn ==
  ASSUME AgentInv, NEW p \in Ptys, TerminalStep(p), UNCHANGED managerVarsButRequest
  PROVE  /\ RequestsGoOn /\ \A s \in Requests : RequestLeft(request[s])
         /\ request' \in [Requests -> RequestRecords] /\ RequestsOK' /\ StartsApart' => AgentInv'
  <1>1. /\ binding' = binding /\ active' = active /\ history' = history /\ messages' = messages
        /\ tasks' = tasks /\ capture' = capture /\ inputs' = inputs /\ used' = used
        /\ unrecorded' = unrecorded
    BY DEF managerVarsButRequest
  <1>2. ManagerTyped /\ TerminalInv
    BY DEF AgentInv, ManagerInv
  <1>3. /\ TerminalInv'
        /\ \A q \in Ptys : Develops(terminal[q], terminal'[q])
        /\ \A q \in Ptys : process[q].child # None => process'[q].child # None
    BY <1>2, TerminalsKept
  <1>4. waits' \in [Ptys -> Waits] /\ \A c \in Ptys : Told(waits[c], waits'[c])
    BY <1>2, StepsTell DEF ManagerTyped
  <1>5. CapturesOK'
    <2>1. ASSUME NEW q \in Ptys
          PROVE  CaptureOK(q, capture[q], waits'[q], terminal'[q], Accounts(history, unrecorded, q))
      <3>1. PICK k \in CaptureRecords, w \in Waits, x \in Waits : k = capture[q] /\ w = waits[q] /\ x = waits'[q]
        BY <1>2, <1>4 DEF ManagerTyped
      <3>2. PICK t \in PtySessions, n \in PtySessions : t = terminal[q] /\ n = terminal'[q]
        BY <1>2, <1>3 DEF TerminalInv
      <3>3. PICK pr, th, recorded : pr = process[q] /\ th = threads[q] /\ recorded = Accounts(history, unrecorded, q)
        OBVIOUS
      <3>4. /\ Told(w, x) /\ OneTerminal(t, pr, th) /\ Develops(t, n)
            /\ CaptureOK(q, k, w, t, recorded)
        BY <1>2, <1>3, <1>4, <3>1, <3>2, <3>3 DEF TerminalInv, AgentInv, ManagerInv, CapturesOK
      <3>5. CaptureOK(q, k, x, n, recorded)
        BY <3>4, CaptureKept
      <3> QED
        BY <3>1, <3>2, <3>3, <3>5
    <2> QED
      BY <1>1, <2>1 DEF CapturesOK
  <1>6. RequestsGoOn
    BY <1>1, <1>3 DEF RequestsGoOn, Develops
  <1>7. \A s \in Requests : RequestLeft(request[s])
    BY <1>1 DEF AgentInv, ManagerInv, RequestsOK, RequestOK, RequestLeft
  <1>8. FreshIsUnknown' /\ InputsRecorded' /\ Ordered(history)'
    <2>1. \A a \in Agents : binding[a].pty # None => binding[a].pty \in Ptys
      BY <1>2 DEF ManagerTyped, Bindings
    <2> QED
      BY <1>1, <1>3, <2>1 DEF AgentInv, ManagerInv, FreshIsUnknown, InputsRecorded
  <1>9. request' \in [Requests -> RequestRecords] => ManagerTyped'
    BY <1>1, <1>2, <1>4 DEF ManagerTyped
  <1> QED
    BY <1>3, <1>5, <1>6, <1>7, <1>8, <1>9 DEF AgentInv, ManagerInv

LEMMA ProgramsRun ==
  ASSUME AgentInv, NEW p \in Ptys, ProgramNext(p) \/ ThreadNext(p), UNCHANGED managerVars
  PROVE  AgentInv'
  <1>1. TerminalStep(p) /\ UNCHANGED managerVarsButRequest /\ request' = request
    BY DEF TerminalStep, managerVars, managerVarsButRequest
  <1>2. RequestsGoOn /\ \A s \in Requests : RequestLeft(request[s])
    BY <1>1, TerminalGoesOn
  <1>3. RequestsOK' /\ StartsApart' /\ request' \in [Requests -> RequestRecords]
    BY <1>1, <1>2, RequestsStay DEF AgentInv, ManagerInv, ManagerTyped
  <1> QED
    BY <1>1, <1>3, TerminalGoesOn

LEMMA StopCancelsKeeps ==
  ASSUME AgentInv, NEW r \in Requests, StopCancels(r)
  PROVE  AgentInv'
  <1>1. PICK m \in RequestRecords : m = request[r]
    BY DEF AgentInv, ManagerInv, ManagerTyped
  <1>2. m.at = "cancel" /\ m.agent \in Agents /\ m.row.pty \in Ptys \cup {None}
    BY <1>1 DEF StopCancels, AgentInv, ManagerInv, RequestsOK, RequestOK, RequestRecords, Bindings
  <1>3. PICK n : n = [m EXCEPT !.at = "stopped"]
    OBVIOUS
  <1>4. n \in RequestRecords /\ n.at = "stopped" /\ n.agent = m.agent
    BY <1>3 DEF RequestRecords, RequestPlaces
  <1>5. request' = [request EXCEPT ![r] = n]
    BY <1>1, <1>3 DEF StopCancels, Goto
  <1>6. RequestOK(n)' /\ n.at \notin Binding
    BY <1>2, <1>4 DEF RequestOK, Binding
  <1>7. UNCHANGED managerVarsButRequest
    BY DEF StopCancels
  <1>8. CASE UNCHANGED terminalVars
    <2>1. QuietStep /\ inputs' = inputs
      BY <1>7, <1>8, SameRecords DEF managerVarsButRequest, terminalVars, QuietStep
    <2>2. InputsRecorded' /\ inputs' \in [Ptys -> Seq(Nat)]
      BY <2>1, QuietKeeps DEF AgentInv, ManagerInv, ManagerTyped
    <2>3. BindingsKept
      BY <1>7, SameBindings DEF managerVarsButRequest
    <2>4. used' \in [requests : Nat, restarts : Nat] /\ active' \in Agents \cup {None} /\ tasks' = tasks
      BY <1>7 DEF managerVarsButRequest, AgentInv, ManagerInv, ManagerTyped
    <2> QED
      BY <1>4, <1>5, <1>6, <2>1, <2>2, <2>3, <2>4, RequestStep DEF BindingsKept
  <1>9. CASE CancelPty(m.row.pty) /\ m.row.pty \in Ptys
    <2>1. TerminalStep(m.row.pty)
      BY <1>9 DEF TerminalStep
    <2>2. RequestsGoOn /\ \A s \in Requests : RequestLeft(request[s])
      BY <1>7, <1>9, <2>1, TerminalGoesOn
    <2>3. RequestsOK' /\ StartsApart' /\ request' \in [Requests -> RequestRecords]
      BY <1>4, <1>5, <1>6, <2>2, RequestsMove DEF AgentInv, ManagerInv
    <2> QED
      BY <1>7, <1>9, <2>1, <2>3, TerminalGoesOn
  <1> QED
    BY <1>1, <1>2, <1>8, <1>9 DEF StopCancels, IsRunning

LEMMA StartSpawnsKeeps ==
  ASSUME AgentInv, NEW r \in Requests, StartSpawns(r)
  PROVE  AgentInv'
  <1>1. PICK m \in RequestRecords : m = request[r]
    BY DEF AgentInv, ManagerInv, ManagerTyped
  <1>2. m.at = "spawn" /\ m.agent \in Agents
    BY <1>1 DEF StartSpawns, AgentInv, ManagerInv, RequestsOK, RequestOK
  <1>3. PICK p \in Ptys : p = NewPty
    <2>1. \E p \in Ptys : process[p] = NoProcess \/ \A q \in Ptys : process[q] # NoProcess
      BY ManagerAssumption
    <2> QED
      BY <2>1 DEF NewPty
  <1>4. PICK n : n = [m EXCEPT !.at = "bind", !.pty = p]
    OBVIOUS
  <1>5. n \in RequestRecords /\ n.at = "bind" /\ n.agent = m.agent /\ n.pty = p
    BY <1>4 DEF RequestRecords, RequestPlaces
  <1>6. /\ request' = [request EXCEPT ![r] = n] /\ StartPty(p) /\ UNCHANGED managerVarsButRequest
    BY <1>1, <1>3, <1>4 DEF StartSpawns
  <1>7. terminal[p].status = None /\ process[p].child = None
    BY <1>6 DEF StartPty, NotStarted, NoProcess
  <1>8. TerminalStep(p) /\ TerminalInv
    BY <1>6 DEF TerminalStep, AgentInv
  <1>9. RequestsGoOn /\ \A s \in Requests : RequestLeft(request[s])
    BY <1>6, <1>8, TerminalGoesOn
  <1>10. terminal'[p].status # None
    BY <1>6, <1>8, TerminalsKept
  <1>11. capture'[p].at = "idle" /\ Accounts(history', unrecorded', p) = {}
    BY <1>6, <1>7 DEF managerVarsButRequest, AgentInv, ManagerInv, CapturesOK, CaptureOK, FreshIsUnknown
  <1>12. RequestOK(n)'
    BY <1>2, <1>5, <1>10, <1>11 DEF RequestOK, Binding
  <1>13. \A s \in Requests : request[s].at \in Binding => request[s].pty # p
    BY <1>7 DEF AgentInv, ManagerInv, RequestsOK, RequestOK
  <1>14. RequestsOK' /\ StartsApart' /\ request' \in [Requests -> RequestRecords]
    BY <1>5, <1>6, <1>9, <1>12, <1>13, RequestsMove DEF AgentInv, ManagerInv
  <1> QED
    BY <1>6, <1>8, <1>14, TerminalGoesOn

-----------------------------------------------------------------------------
(* Standalone agents: a wait *)

\* Whoever reads what is after a cursor has everything up to the last one, and
\* reads the whole buffer when something is missing before it.
LEMMA ReadsToTheEnd ==
  ASSUME NEW q \in Seq(Chunks), NEW last \in Nat, Consecutive(q, last), last # 0 => q # <<>>,
         NEW after \in Nat, after <= last
  PROVE  /\ After(q, after) \in Seq(Chunks)
         /\ After(q, after) = <<>> => after = last
         /\ After(q, after) # <<>> => after < last /\ Last(After(q, after)).cursor = last
         /\ After(q, after) # <<>> /\ After(q, after)[1].cursor > after + 1 =>
              After(q, after) = q /\ Len(q) < last
  <1>1. PICK k \in 0 .. Len(q) :
          /\ After(q, after) = SubSeq(q, k + 1, Len(q))
          /\ \A i \in 1 .. k : q[i].cursor <= after
          /\ \A i \in k + 1 .. Len(q) : q[i].cursor > after
    BY AfterIsSuffix
  <1>2. PICK batch : batch = SubSeq(q, k + 1, Len(q))
    OBVIOUS
  <1>3. PICK n \in Nat : n = Len(q)
    OBVIOUS
  <1>4. k \in Nat /\ k <= n /\ n <= last
    BY <1>3 DEF Consecutive
  <1>5. batch \in Seq(Chunks) /\ Len(batch) = n - k
    BY <1>2, <1>3, <1>4
  <1>6. ASSUME NEW i \in 1 .. n
        PROVE  q[i].cursor = last - n + i /\ q[i].cursor \in Nat
    <2>1. q[i] \in Chunks
      BY <1>3
    <2> QED
      BY <1>3, <2>1 DEF Consecutive, Chunks
  <1>7. CASE k = n
    <2>1. batch = <<>>
      BY <1>5, <1>7
    <2>2. after = last
      <3>1. CASE last = 0
        BY <3>1
      <3>2. CASE last # 0
        <4>1. n # 0
          BY <1>3, <3>2
        <4>2. n \in 1 .. n /\ n \in 1 .. k
          BY <1>7, <4>1
        <4>3. q[n].cursor = last /\ q[n].cursor <= after
          BY <1>1, <1>4, <1>6, <4>2
        <4> QED
          BY <4>3
      <3> QED
        BY <3>1, <3>2
    <2> QED
      BY <1>1, <1>2, <1>3, <1>5, <2>1, <2>2
  <1>8. CASE k # n
    <2>1. k + 1 \in 1 .. n /\ n \in 1 .. n /\ n \in k + 1 .. Len(q) /\ batch # <<>>
      BY <1>3, <1>4, <1>5, <1>8
    <2>2. q[n].cursor = last /\ after < last
      BY <1>1, <1>4, <1>6, <2>1
    <2>3. Last(batch) = q[n]
      <3>1. batch[n - k] = q[(k + 1) + (n - k) - 1]
        BY <1>2, <1>3, <1>4, <1>5, <1>8
      <3>2. (k + 1) + (n - k) - 1 = n
        BY <1>4
      <3> QED
        BY <1>5, <3>1, <3>2 DEF Last
    <2>4. batch[1] = q[k + 1]
      BY <1>2, <1>3, <1>4, <1>5, <2>1
    <2>5. ASSUME batch[1].cursor > after + 1
          PROVE  batch = q /\ n < last
      <3>1. k = 0
        <4>1. SUFFICES ASSUME k # 0 PROVE FALSE
          OBVIOUS
        <4>2. k \in 1 .. k /\ k \in 1 .. n
          BY <1>4, <4>1
        <4>3. q[k].cursor <= after /\ q[k].cursor = last - n + k
          BY <1>1, <1>6, <4>2
        <4>4. q[k + 1].cursor = last - n + (k + 1)
          BY <1>6, <2>1
        <4> QED
          BY <1>4, <2>4, <2>5, <4>3, <4>4
      <3>2. batch = q
        BY <1>2, <1>3, <3>1
      <3>3. q[1].cursor = last - n + 1
        BY <1>6, <2>1, <3>1
      <3>4. q[1].cursor > after + 1
        BY <2>5, <3>2
      <3> QED
        BY <1>4, <3>2, <3>3, <3>4
    <2> QED
      BY <1>1, <1>2, <1>3, <1>5, <2>1, <2>2, <2>3, <2>5
  <1> QED
    BY <1>7, <1>8

\* A wait goes on as x.
LEMMA WaitMoves ==
  ASSUME AgentInv, NEW c \in Ptys, NEW x \in Waits, waits' = [waits EXCEPT ![c] = x],
         UNCHANGED managerVars, UNCHANGED <<terminal, process, threads>>,
         capture[c].at = "waiting", x.at # "idle", x.pty = c, x.after = waits[c].after, BatchOK(x, terminal[c])
  PROVE  AgentInv'
  <1>1. /\ binding' = binding /\ active' = active /\ history' = history /\ messages' = messages
        /\ tasks' = tasks /\ capture' = capture /\ inputs' = inputs /\ used' = used /\ request' = request
        /\ unrecorded' = unrecorded /\ terminal' = terminal /\ process' = process
    BY DEF managerVars, managerVarsButRequest
  <1>2. ManagerTyped
    BY DEF AgentInv, ManagerInv
  <1>3. waits' \in [Ptys -> Waits] /\ waits'[c] = x /\ \A q \in Ptys : q # c => waits'[q] = waits[q]
    BY <1>2 DEF ManagerTyped
  <1>4. CaptureOK(c, capture[c], x, terminal[c], Accounts(history, unrecorded, c))
    BY DEF AgentInv, ManagerInv, CapturesOK, CaptureOK
  <1>5. CapturesOK'
    BY <1>1, <1>3, <1>4 DEF AgentInv, ManagerInv, CapturesOK
  <1>6. TerminalInv'
    BY TerminalsUntouched DEF AgentInv
  <1>7. RequestsOK' /\ StartsApart' /\ FreshIsUnknown' /\ InputsRecorded' /\ Ordered(history)'
    BY <1>1 DEF AgentInv, ManagerInv, RequestsOK, RequestOK, StartsApart, FreshIsUnknown, InputsRecorded
  <1>8. ManagerTyped'
    BY <1>1, <1>2, <1>3 DEF ManagerTyped
  <1> QED
    BY <1>5, <1>6, <1>7, <1>8 DEF AgentInv, ManagerInv

\* Who waits is a capture task that waits for its terminal.
LEMMA WaitsForItsOwn ==
  ASSUME AgentInv, NEW c \in Ptys, waits[c].at \notin {"idle", "answered"}
  PROVE  \E w \in Waits, t \in PtySessions :
           /\ w = waits[c] /\ t = terminal[c] /\ capture[c].at = "waiting"
           /\ w.pty = c /\ w.after \in Nat /\ BatchOK(w, t) /\ t.status # None
           /\ BufferInv(t) /\ t.cursor \in Nat
           /\ t.status \in Ended \cup {None, "running"}
  <1>1. waits[c] \in Waits /\ terminal[c] \in PtySessions
    BY DEF AgentInv, ManagerInv, ManagerTyped, TerminalInv
  <1>2. capture[c].at = "waiting" /\ waits[c].pty = c /\ BatchOK(waits[c], terminal[c]) /\ terminal[c].status # None
    <2>1. NoWait.at = "idle"
      BY DEF NoWait
    <2>2. CaptureOK(c, capture[c], waits[c], terminal[c], Accounts(history, unrecorded, c))
      BY DEF AgentInv, ManagerInv, CapturesOK
    <2> QED
      BY <2>1, <2>2 DEF CaptureOK
  <1>3. waits[c].after \in Nat /\ terminal[c].cursor \in Nat /\ terminal[c].status \in Ended \cup {None, "running"}
    BY <1>1 DEF Waits, PtySessions
  <1>4. BufferInv(terminal[c])
    BY DEF AgentInv, TerminalInv, OneTerminal
  <1> QED
    BY <1>1, <1>2, <1>3, <1>4

LEMMA CheckStatusKeeps ==
  ASSUME AgentInv, NEW c \in Ptys, CheckStatus(c), UNCHANGED managerVars
  PROVE  AgentInv'
  <1>1. waits[c].at \notin {"idle", "answered"}
    BY DEF CheckStatus
  <1>2. PICK w \in Waits, t \in PtySessions :
           /\ w = waits[c] /\ t = terminal[c] /\ capture[c].at = "waiting"
           /\ w.pty = c /\ w.after \in Nat /\ BatchOK(w, t) /\ t.status # None
           /\ t.status \in Ended \cup {None, "running"}
    BY <1>1, WaitsForItsOwn
  <1>3. PICK at \in {"read", "reread"} : at = IF w.at = "check" THEN "read" ELSE "reread"
    OBVIOUS
  <1>4. PICK x : x = [w EXCEPT !.status = t.status, !.at = at]
    OBVIOUS
  <1>5. x \in Waits /\ x.at = at /\ x.status = t.status /\ x.pty = w.pty /\ x.after = w.after
    BY <1>2, <1>4 DEF Waits
  <1>6. waits' = [waits EXCEPT ![c] = x]
    <2>1. waits' = [waits EXCEPT ![c].status = t.status, ![c].at = at]
      BY <1>2, <1>3 DEF CheckStatus
    <2>2. waits \in [Ptys -> Waits]
      BY DEF AgentInv, ManagerInv, ManagerTyped
    <2> QED
      BY <1>2, <1>4, <2>1, <2>2 DEF Waits
  <1>7. BatchOK(x, t)
    BY <1>2, <1>5 DEF BatchOK
  <1>8. UNCHANGED <<terminal, process, threads>>
    BY DEF CheckStatus
  <1> QED
    BY <1>2, <1>5, <1>6, <1>7, <1>8, WaitMoves

LEMMA ReadOutputKeeps ==
  ASSUME AgentInv, NEW c \in Ptys, ReadOutput(c), UNCHANGED managerVars
  PROVE  AgentInv'
  <1>1. waits[c].at \in {"read", "reread"}
    BY DEF ReadOutput
  <1>2. PICK w \in Waits, t \in PtySessions :
           /\ w = waits[c] /\ t = terminal[c] /\ capture[c].at = "waiting"
           /\ w.pty = c /\ w.after \in Nat /\ BatchOK(w, t) /\ BufferInv(t) /\ t.cursor \in Nat
    BY <1>1, WaitsForItsOwn
  <1>3. PICK q \in Seq(Chunks) : q = t.chunks
    BY DEF PtySessions
  <1>4. Consecutive(q, t.cursor) /\ (t.cursor # 0 => q # <<>>) /\ w.after <= t.cursor
    BY <1>2, <1>3 DEF BufferInv, BatchOK
  <1>5. /\ After(q, w.after) \in Seq(Chunks)
        /\ After(q, w.after) = <<>> => w.after = t.cursor
        /\ After(q, w.after) # <<>> => w.after < t.cursor /\ Last(After(q, w.after)).cursor = t.cursor
    BY <1>2, <1>4, ReadsToTheEnd
  <1>6. PICK chunks \in Seq(Chunks) : chunks = After(q, w.after)
    BY <1>5
  <1>7. PICK at \in {"armed", "answered"} :
           at = IF w.at = "read" /\ chunks = <<>> /\ w.status = "running" THEN "armed" ELSE "answered"
    OBVIOUS
  <1>8. PICK x : x = [w EXCEPT !.chunks = chunks, !.at = at]
    OBVIOUS
  <1>9. x \in Waits /\ x.at = at /\ x.chunks = chunks /\ x.pty = w.pty /\ x.after = w.after /\ x.status = w.status
    BY <1>8 DEF Waits
  <1>10. waits' = [waits EXCEPT ![c] = x]
    <2>1. waits' = [waits EXCEPT ![c].chunks = chunks, ![c].at = at]
      BY <1>2, <1>3, <1>6, <1>7 DEF ReadOutput
    <2>2. waits \in [Ptys -> Waits]
      BY DEF AgentInv, ManagerInv, ManagerTyped
    <2> QED
      BY <1>2, <1>8, <2>1, <2>2 DEF Waits
  <1>11. NextCursorOf(x) = t.cursor
    BY <1>5, <1>6, <1>9 DEF NextCursorOf
  <1>12. BatchOK(x, t)
    BY <1>1, <1>2, <1>4, <1>5, <1>6, <1>9, <1>11 DEF BatchOK
  <1>13. UNCHANGED <<terminal, process, threads>>
    BY DEF ReadOutput
  <1> QED
    BY <1>2, <1>9, <1>10, <1>12, <1>13, WaitMoves

LEMMA ParkKeeps ==
  ASSUME AgentInv, NEW c \in Ptys, Park(c) \/ WaitTimesOut(c), UNCHANGED managerVars
  PROVE  AgentInv'
  <1>1. waits[c].at \in {"armed", "parked"}
    BY DEF Park, WaitTimesOut
  <1>2. PICK w \in Waits, t \in PtySessions :
           /\ w = waits[c] /\ t = terminal[c] /\ capture[c].at = "waiting"
           /\ w.pty = c /\ BatchOK(w, t)
    BY <1>1, WaitsForItsOwn
  <1>3. PICK at \in {"parked", "recheck"} : waits' = [waits EXCEPT ![c].at = at]
    BY DEF Park, WaitTimesOut
  <1>4. PICK x : x = [w EXCEPT !.at = at]
    OBVIOUS
  <1>5. x \in Waits /\ x.at = at /\ x.status = w.status /\ x.pty = w.pty /\ x.after = w.after
    BY <1>4 DEF Waits
  <1>6. waits' = [waits EXCEPT ![c] = x]
    BY <1>2, <1>3, <1>4
  <1>7. BatchOK(x, t)
    BY <1>1, <1>2, <1>5 DEF BatchOK
  <1>8. UNCHANGED <<terminal, process, threads>>
    BY DEF Park, WaitTimesOut
  <1> QED
    BY <1>2, <1>5, <1>6, <1>7, <1>8, WaitMoves

LEMMA WaitGoesOn ==
  ASSUME AgentInv, NEW c \in Ptys, WaitNext(c), UNCHANGED managerVars
  PROVE  AgentInv'
  BY CheckStatusKeeps, ReadOutputKeeps, ParkKeeps DEF WaitNext

-----------------------------------------------------------------------------
(* Standalone agents: the capture task of a terminal *)

LEMMA NextIsNat ==
  ASSUME NEW w \in Waits
  PROVE  NextCursorOf(w) \in Nat
  <1>1. PICK q \in Seq(Chunks) : q = w.chunks
    BY DEF Waits
  <1>2. q # <<>> => Last(q) \in Chunks
    BY DEF Last
  <1> QED
    BY <1>1, <1>2 DEF NextCursorOf, Chunks, Waits

\* A capture task appends what comes next of its terminal, or loses it.
ComesNext(e, h, u, p) ==
  /\ e.pty = p
  /\ \A x \in Accounts(h, u, p) : x.upto <= e.from

Grows(h, u, n, v, p) ==
  \/ n = h /\ v = u
  \/ \E e \in Entries : ComesNext(e, h, u, p) /\ n = Append(h, e) /\ v = u
  \/ \E e \in Entries : ComesNext(e, h, u, p) /\ n = h /\ v = u \cup {e}

LEMMA GrownEntries ==
  ASSUME NEW h \in Seq(Entries), NEW u \in SUBSET Entries, NEW n, NEW v, NEW p \in Ptys,
         Grows(h, u, n, v, p), Ordered(h)
  PROVE  /\ n \in Seq(Entries) /\ v \in SUBSET Entries /\ Ordered(n)
         /\ \A q \in Ptys : q # p => Accounts(n, v, q) = Accounts(h, u, q)
         /\ \A id : HasInput(h, id) => HasInput(n, id)
  <1>1. CASE n = h /\ v = u
    BY <1>1
  <1>2. CASE \E e \in Entries : ComesNext(e, h, u, p) /\ n = Append(h, e) /\ v = u
    <2>1. PICK e \in Entries : ComesNext(e, h, u, p) /\ n = Append(h, e) /\ v = u
      BY <1>2
    <2>2. e.pty = p /\ \A x \in RangesIn(h, e.pty) : x.upto <= e.from
      BY <2>1 DEF ComesNext, Accounts
    <2>3. Append(h, e) \in Seq(Entries) /\ Ordered(Append(h, e))
      BY <2>2, AppendOrdered
    <2>4. ASSUME NEW q \in Ptys, q # p
          PROVE  Accounts(Append(h, e), u, q) = Accounts(h, u, q)
      <3>1. e.pty # q
        BY <2>2, <2>4
      <3> QED
        BY <3>1, AccountsOfOther
    <2>5. \A id : HasInput(h, id) => HasInput(Append(h, e), id)
      BY InputsStay
    <2> QED
      BY <2>1, <2>3, <2>4, <2>5
  <1>3. CASE \E e \in Entries : ComesNext(e, h, u, p) /\ n = h /\ v = u \cup {e}
    <2>1. PICK e \in Entries : ComesNext(e, h, u, p) /\ n = h /\ v = u \cup {e}
      BY <1>3
    <2>2. ASSUME NEW q \in Ptys, q # p
          PROVE  Accounts(h, u \cup {e}, q) = Accounts(h, u, q)
      <3>1. e.pty # q
        BY <2>1, <2>2 DEF ComesNext
      <3> QED
        BY <3>1, AccountsOfOther
    <2> QED
      BY <2>1, <2>2
  <1> QED
    BY <1>1, <1>2, <1>3 DEF Grows

\* What a step of a capture task leaves alone.
CaptureStep(p) ==
  /\ active' = active /\ tasks' = tasks /\ request' = request /\ inputs' = inputs /\ used' = used
  /\ terminal' = terminal /\ process' = process /\ threads' = threads
  /\ Grows(history, unrecorded, history', unrecorded', p)
  /\ messages' = messages \/ \E e \in Entries : messages' = Append(messages, e)

\* A capture task goes on as k, and its wait as x.
LEMMA CaptureMoves ==
  ASSUME AgentInv, NEW p \in Ptys, CaptureStep(p), BindingsKept, capture[p].at # "idle",
         NEW k \in CaptureRecords, capture' = [capture EXCEPT ![p] = k],
         NEW x \in Waits, waits' = [waits EXCEPT ![p] = x],
         CaptureOK(p, k, x, terminal[p], Accounts(history', unrecorded', p))
  PROVE  AgentInv'
  <1>1. /\ active' = active /\ tasks' = tasks /\ request' = request /\ inputs' = inputs /\ used' = used
        /\ terminal' = terminal /\ process' = process /\ threads' = threads
    BY DEF CaptureStep
  <1>2. ManagerTyped
    BY DEF AgentInv, ManagerInv
  <1>3. /\ capture' \in [Ptys -> CaptureRecords] /\ capture'[p] = k
        /\ \A q \in Ptys : q # p => capture'[q] = capture[q]
        /\ waits' \in [Ptys -> Waits] /\ waits'[p] = x
        /\ \A q \in Ptys : q # p => waits'[q] = waits[q]
    BY <1>2 DEF ManagerTyped
  <1>4. /\ history' \in Seq(Entries) /\ unrecorded' \in SUBSET Entries /\ Ordered(history')
        /\ \A q \in Ptys : q # p => Accounts(history', unrecorded', q) = Accounts(history, unrecorded, q)
        /\ \A id : HasInput(history, id) => HasInput(history', id)
    <2>1. PICK h, u, n, v : h = history /\ u = unrecorded /\ n = history' /\ v = unrecorded'
      OBVIOUS
    <2>2. h \in Seq(Entries) /\ u \in SUBSET Entries /\ Grows(h, u, n, v, p) /\ Ordered(h)
      BY <2>1 DEF AgentInv, ManagerInv, ManagerTyped, CaptureStep
    <2>3. /\ n \in Seq(Entries) /\ v \in SUBSET Entries /\ Ordered(n)
          /\ \A q \in Ptys : q # p => Accounts(n, v, q) = Accounts(h, u, q)
          /\ \A id : HasInput(h, id) => HasInput(n, id)
      BY <2>2, GrownEntries
    <2> QED
      BY <2>1, <2>3
  <1>5. messages' \in Seq(Entries) /\ \A id : HasInput(messages, id) => HasInput(messages', id)
    <2>1. PICK h : h = messages /\ h \in Seq(Entries)
      BY <1>2 DEF ManagerTyped
    <2>2. CASE messages' = messages
      BY <2>1, <2>2
    <2>3. CASE \E e \in Entries : messages' = Append(messages, e)
      <3>1. PICK e \in Entries : messages' = Append(messages, e)
        BY <2>3
      <3>2. \A id : HasInput(h, id) => HasInput(Append(h, e), id)
        BY <2>1, InputsStay
      <3> QED
        BY <2>1, <3>1, <3>2
    <2> QED
      BY <2>2, <2>3 DEF CaptureStep
  <1>6. CapturesOK'
    <2>1. ASSUME NEW q \in Ptys
          PROVE  CaptureOK(q, capture'[q], waits'[q], terminal[q], Accounts(history', unrecorded', q))
      <3>1. CASE q = p
        BY <1>3, <3>1
      <3>2. CASE q # p
        BY <1>3, <1>4, <3>2 DEF AgentInv, ManagerInv, CapturesOK
      <3> QED
        BY <3>1, <3>2
    <2> QED
      BY <1>1, <2>1 DEF CapturesOK
  <1>7. RequestsGoOn
    BY <1>1, <1>4, <1>5 DEF RequestsGoOn
  <1>8. ASSUME NEW s \in Requests
        PROVE  RequestLeft(request[s])
    <2>1. request[s].at \in Binding =>
            /\ request[s].pty \in Ptys /\ request[s].pty # p /\ capture[request[s].pty].at = "idle"
            /\ Accounts(history, unrecorded, request[s].pty) = {}
      BY DEF AgentInv, ManagerInv, RequestsOK, RequestOK
    <2> QED
      BY <1>3, <1>4, <2>1 DEF RequestLeft
  <1>9. RequestsOK' /\ StartsApart'
    BY <1>1, <1>7, <1>8, RequestsStay DEF AgentInv, ManagerInv
  <1>10. process[p].child # None
    BY DEF AgentInv, ManagerInv, CapturesOK, CaptureOK, TerminalInv, OneTerminal, StartInv
  <1>11. FreshIsUnknown'
    <2>1. ASSUME NEW q \in Ptys, process[q].child = None
          PROVE  Accounts(history', unrecorded', q) = {}
      BY <1>4, <1>10, <2>1 DEF AgentInv, ManagerInv, FreshIsUnknown
    <2> QED
      BY <1>1, <2>1 DEF FreshIsUnknown, BindingsKept
  <1>12. InputsRecorded'
    BY <1>1, <1>4, <1>5 DEF AgentInv, ManagerInv, InputsRecorded
  <1>13. TerminalInv'
    BY <1>1, TerminalsUntouched DEF AgentInv
  <1>14. ManagerTyped'
    BY <1>1, <1>2, <1>3, <1>4, <1>5 DEF ManagerTyped, BindingsKept
  <1> QED
    BY <1>4, <1>6, <1>9, <1>11, <1>12, <1>13, <1>14 DEF AgentInv, ManagerInv

\* A capture task, its wait and its terminal.
LEMMA CaptureHas ==
  ASSUME AgentInv, NEW p \in Ptys
  PROVE  \E k \in CaptureRecords, w \in Waits, t \in PtySessions,
            recorded \in SUBSET Entries, h \in Seq(Entries), u \in SUBSET Entries :
           /\ k = capture[p] /\ w = waits[p] /\ t = terminal[p] /\ h = history /\ u = unrecorded
           /\ recorded = Accounts(h, u, p) /\ CaptureOK(p, k, w, t, recorded)
           /\ k.cursor \in Nat /\ t.cursor \in Nat
  <1>1. /\ capture[p] \in CaptureRecords /\ waits[p] \in Waits /\ terminal[p] \in PtySessions
        /\ history \in Seq(Entries) /\ unrecorded \in SUBSET Entries
    BY DEF AgentInv, ManagerInv, ManagerTyped, TerminalInv
  <1>2. Accounts(history, unrecorded, p) \in SUBSET Entries
    <2>1. PICK h \in Seq(Entries), u \in SUBSET Entries : h = history /\ u = unrecorded
      BY <1>1
    <2>2. Accounts(h, u, p) \in SUBSET Entries
      BY AccountsTyped
    <2> QED
      BY <2>1, <2>2
  <1>3. capture[p].cursor \in Nat /\ terminal[p].cursor \in Nat
    BY <1>1 DEF CaptureRecords, PtySessions
  <1>4. CaptureOK(p, capture[p], waits[p], terminal[p], Accounts(history, unrecorded, p))
    BY DEF AgentInv, ManagerInv, CapturesOK
  <1> QED
    BY <1>1, <1>2, <1>3, <1>4

LEMMA CaptureWaitsKeeps ==
  ASSUME AgentInv, NEW p \in Ptys, CaptureWaits(p)
  PROVE  AgentInv'
  <1>1. PICK k \in CaptureRecords, w \in Waits, t \in PtySessions,
             recorded \in SUBSET Entries, h \in Seq(Entries), u \in SUBSET Entries :
           /\ k = capture[p] /\ w = waits[p] /\ t = terminal[p] /\ h = history /\ u = unrecorded
           /\ recorded = Accounts(h, u, p) /\ CaptureOK(p, k, w, t, recorded)
           /\ k.cursor \in Nat /\ t.cursor \in Nat
    BY CaptureHas
  <1>2. k.at = "loop"
    BY <1>1 DEF CaptureWaits
  <1>3. CaptureStep(p) /\ history' = history /\ unrecorded' = unrecorded
    BY DEF CaptureWaits, OnlyCapture, requestVars, CaptureStep, Grows
  <1>4. BindingsKept
    BY SameBindings DEF CaptureWaits, OnlyCapture
  <1>5. waits \in [Ptys -> Waits]
    BY DEF AgentInv, ManagerInv, ManagerTyped
  <1>6. CASE waits' = [waits EXCEPT ![p] = Waiting(p, p, k.cursor)] /\ capture' = [capture EXCEPT ![p].at = "waiting"]
    <2>1. PICK x : x = Waiting(p, p, k.cursor)
      OBVIOUS
    <2>2. x \in Waits /\ x.at = "check" /\ x.pty = p /\ x.after = k.cursor
      <3>1. PICK v \in Waits : v = NoWait
        BY Nothings
      <3>2. x = [v EXCEPT !.at = "check", !.pty = p, !.after = k.cursor]
        BY <2>1, <3>1 DEF Waiting
      <3> QED
        BY <1>1, <3>2 DEF Waits
    <2>3. PICK n : n = [k EXCEPT !.at = "waiting"]
      OBVIOUS
    <2>4. n \in CaptureRecords /\ n.at = "waiting" /\ n.agent = k.agent /\ n.cursor = k.cursor
      BY <2>3 DEF CaptureRecords, CapturePlaces
    <2>5. CaptureOK(p, n, x, t, recorded)
      BY <1>1, <1>2, <2>2, <2>4 DEF CaptureOK, BatchOK
    <2>6. capture' = [capture EXCEPT ![p] = n] /\ waits' = [waits EXCEPT ![p] = x]
      BY <1>1, <1>6, <2>1, <2>3
    <2> QED
      BY <1>1, <1>2, <1>3, <1>4, <2>2, <2>4, <2>5, <2>6, CaptureMoves
  <1>7. CASE waits' = waits /\ capture' = [capture EXCEPT ![p].at = "replaced"]
    <2>1. PICK n : n = [k EXCEPT !.at = "replaced"]
      OBVIOUS
    <2>2. n \in CaptureRecords /\ n.at = "replaced" /\ n.agent = k.agent /\ n.cursor = k.cursor
      BY <2>1 DEF CaptureRecords, CapturePlaces
    <2>3. CaptureOK(p, n, w, t, recorded)
      BY <1>1, <1>2, <2>2 DEF CaptureOK
    <2>4. capture' = [capture EXCEPT ![p] = n] /\ waits' = [waits EXCEPT ![p] = w]
      BY <1>1, <1>5, <1>7, <2>1
    <2> QED
      BY <1>1, <1>2, <1>3, <1>4, <2>2, <2>3, <2>4, CaptureMoves
  <1> QED
    BY <1>1, <1>6, <1>7 DEF CaptureWaits, Captures

\* An appended batch, or one that is lost, goes on where the others end.
LEMMA CaptureAppendsKeeps ==
  ASSUME AgentInv, NEW p \in Ptys, CaptureAppends(p)
  PROVE  AgentInv'
  <1>1. PICK k \in CaptureRecords, w \in Waits, t \in PtySessions,
             recorded \in SUBSET Entries, h \in Seq(Entries), u \in SUBSET Entries :
           /\ k = capture[p] /\ w = waits[p] /\ t = terminal[p] /\ h = history /\ u = unrecorded
           /\ recorded = Accounts(h, u, p) /\ CaptureOK(p, k, w, t, recorded)
           /\ k.cursor \in Nat /\ t.cursor \in Nat
    BY CaptureHas
  <1>2. k.at = "waiting" /\ w.at = "answered"
    BY <1>1 DEF CaptureAppends
  <1>3. PICK next \in Nat : next = NextCursorOf(w)
    BY NextIsNat
  <1>4. Tile(recorded, k.cursor) /\ w.after = k.cursor /\ (w.chunks # <<>> => k.cursor < next)
    BY <1>1, <1>2, <1>3 DEF CaptureOK, BatchOK
  <1>5. BindingsKept
    BY SameBindings DEF CaptureAppends, OnlyCapture
  <1>6. waits' = [waits EXCEPT ![p] = w]
    <2>1. waits' = waits /\ waits \in [Ptys -> Waits]
      BY DEF CaptureAppends, AgentInv, ManagerInv, ManagerTyped
    <2> QED
      BY <1>1, <2>1
  <1>7. PICK at \in {"share", "progress"} :
           capture' = [capture EXCEPT ![p].at = at] /\ (w.chunks = <<>> => at = "progress")
    BY <1>1 DEF CaptureAppends, Captures
  <1>8. PICK n : n = [k EXCEPT !.at = at]
    OBVIOUS
  <1>9. n \in CaptureRecords /\ n.at = at /\ n.agent = k.agent /\ n.cursor = k.cursor
    BY <1>8 DEF CaptureRecords, CapturePlaces
  <1>10. capture' = [capture EXCEPT ![p] = n]
    BY <1>1, <1>7, <1>8
  <1>11. CASE w.chunks = <<>>
    <2>1. history' = h /\ unrecorded' = u
      BY <1>1, <1>11 DEF CaptureAppends
    <2>2. CaptureStep(p)
      BY <1>1, <2>1 DEF CaptureAppends, OnlyCapture, requestVars, CaptureStep, Grows
    <2>3. next = k.cursor
      BY <1>3, <1>4, <1>11 DEF NextCursorOf
    <2>4. CaptureOK(p, n, w, t, recorded)
      BY <1>1, <1>2, <1>3, <1>4, <1>9, <2>3 DEF CaptureOK
    <2>5. Accounts(history', unrecorded', p) = recorded
      BY <1>1, <2>1
    <2> QED
      BY <1>1, <1>2, <1>5, <1>6, <1>9, <1>10, <2>2, <2>4, <2>5, CaptureMoves
  <1>12. ASSUME w.chunks # <<>>,
                NEW role \in {"assistant", "lost"}, NEW e,
                e = [role |-> role, pty |-> p, from |-> k.cursor, upto |-> next],
                \/ history' = Append(h, e) /\ unrecorded' = u
                \/ history' = h /\ unrecorded' = u \cup {e}
         PROVE  AgentInv'
    <2>1. e \in Entries /\ e.pty = p /\ e.from = k.cursor /\ e.upto = next
      BY <1>1, <1>12 DEF Entries
    <2>2. Tile(recorded \cup {e}, next) /\ \A x \in recorded : x.upto <= e.from
      BY <1>1, <1>4, <1>12, <2>1, TileGoesOn
    <2>3. ComesNext(e, h, u, p)
      BY <1>1, <2>1, <2>2 DEF ComesNext
    <2>4. Accounts(history', unrecorded', p) = recorded \cup {e}
      <3>1. PICK x \in Entries : x = e /\ x.pty = p
        BY <2>1
      <3>2. /\ Accounts(Append(h, x), u, p) = With(recorded, x)
            /\ Accounts(h, With(u, x), p) = With(recorded, x)
        BY <1>1, <3>1, AccountsOfOwn
      <3>3. \/ history' = Append(h, x) /\ unrecorded' = u
            \/ history' = h /\ unrecorded' = With(u, x)
        BY <1>12, <3>1 DEF With
      <3>4. Accounts(history', unrecorded', p) = With(recorded, x)
        BY <3>2, <3>3
      <3> QED
        BY <3>1, <3>4 DEF With
    <2>5. Grows(history, unrecorded, history', unrecorded', p)
      BY <1>1, <1>12, <2>1, <2>3 DEF Grows
    <2>6. CaptureStep(p)
      BY <2>5 DEF CaptureAppends, OnlyCapture, requestVars, CaptureStep
    <2>7. CaptureOK(p, n, w, t, recorded \cup {e})
      BY <1>1, <1>2, <1>3, <1>7, <1>9, <2>2 DEF CaptureOK
    <2>8. CaptureOK(p, n, w, terminal[p], Accounts(history', unrecorded', p))
      BY <1>1, <2>4, <2>7
    <2>9. capture[p].at # "idle"
      BY <1>1, <1>2
    <2> QED
      BY <1>5, <1>6, <1>9, <1>10, <2>6, <2>8, <2>9, CaptureMoves
  <1>13. CASE w.chunks # <<>>
    <2>1. AgentEntry(p) = [role |-> "assistant", pty |-> p, from |-> k.cursor, upto |-> next]
      BY <1>1, <1>3 DEF AgentEntry
    <2>2. LostEntry(p) = [role |-> "lost", pty |-> p, from |-> k.cursor, upto |-> next]
      BY <2>1 DEF LostEntry
    <2>3. \/ history' = Append(h, AgentEntry(p)) /\ unrecorded' = u
          \/ history' = h /\ unrecorded' = u \cup {LostEntry(p)}
      BY <1>1, <1>13 DEF CaptureAppends, AppendHistory
    <2>4. PICK e, f : e = AgentEntry(p) /\ f = LostEntry(p)
      OBVIOUS
    <2>5. CASE history' = Append(h, e) /\ unrecorded' = u
      BY <1>12, <1>13, <2>1, <2>4, <2>5
    <2>6. CASE history' = h /\ unrecorded' = u \cup {f}
      BY <1>12, <1>13, <2>2, <2>4, <2>6
    <2> QED
      BY <2>3, <2>4, <2>5, <2>6
  <1> QED
    BY <1>11, <1>13

LEMMA CaptureSharesKeeps ==
  ASSUME AgentInv, NEW p \in Ptys, CaptureShares(p)
  PROVE  AgentInv'
  <1>1. PICK k \in CaptureRecords, w \in Waits, t \in PtySessions,
             recorded \in SUBSET Entries, h \in Seq(Entries), u \in SUBSET Entries :
           /\ k = capture[p] /\ w = waits[p] /\ t = terminal[p] /\ h = history /\ u = unrecorded
           /\ recorded = Accounts(h, u, p) /\ CaptureOK(p, k, w, t, recorded)
           /\ k.cursor \in Nat /\ t.cursor \in Nat
    BY CaptureHas
  <1>2. k.at = "share"
    BY <1>1 DEF CaptureShares
  <1>3. AgentEntry(p) \in Entries
    <2>1. PICK next \in Nat : next = NextCursorOf(w)
      BY NextIsNat
    <2> QED
      BY <1>1, <2>1 DEF AgentEntry, Entries
  <1>4. CaptureStep(p) /\ history' = history /\ unrecorded' = unrecorded
    BY <1>3 DEF CaptureShares, AppendShared, OnlyCapture, requestVars, CaptureStep, Grows
  <1>5. BindingsKept
    BY SameBindings DEF CaptureShares, OnlyCapture
  <1>6. waits' = [waits EXCEPT ![p] = w]
    <2>1. waits' = waits /\ waits \in [Ptys -> Waits]
      BY DEF CaptureShares, AgentInv, ManagerInv, ManagerTyped
    <2> QED
      BY <1>1, <2>1
  <1>7. PICK n : n = [k EXCEPT !.at = "progress"]
    OBVIOUS
  <1>8. n \in CaptureRecords /\ n.at = "progress" /\ n.agent = k.agent /\ n.cursor = k.cursor
    BY <1>7 DEF CaptureRecords, CapturePlaces
  <1>9. CaptureOK(p, n, w, t, recorded)
    BY <1>1, <1>2, <1>8 DEF CaptureOK
  <1>10. capture' = [capture EXCEPT ![p] = n]
    BY <1>1, <1>7 DEF CaptureShares, Captures
  <1> QED
    BY <1>1, <1>2, <1>4, <1>5, <1>6, <1>8, <1>9, <1>10, CaptureMoves

LEMMA CaptureProgressesKeeps ==
  ASSUME AgentInv, NEW p \in Ptys, CaptureProgresses(p)
  PROVE  AgentInv'
  <1>1. PICK k \in CaptureRecords, w \in Waits, t \in PtySessions,
             recorded \in SUBSET Entries, h \in Seq(Entries), u \in SUBSET Entries :
           /\ k = capture[p] /\ w = waits[p] /\ t = terminal[p] /\ h = history /\ u = unrecorded
           /\ recorded = Accounts(h, u, p) /\ CaptureOK(p, k, w, t, recorded)
           /\ k.cursor \in Nat /\ t.cursor \in Nat
    BY CaptureHas
  <1>2. k.at = "progress" /\ k.agent \in Agents /\ w.at = "answered"
    BY <1>1 DEF CaptureProgresses, CaptureOK
  <1>3. PICK next \in Nat : next = NextCursorOf(w)
    BY NextIsNat
  <1>4. Tile(recorded, next) /\ next <= t.cursor /\ BatchOK(w, t)
    BY <1>1, <1>2, <1>3 DEF CaptureOK, BatchOK
  <1>5. w.status \in Ended \cup {"running"} /\ (w.status \in Ended => t.status = w.status)
    BY <1>2, <1>4 DEF BatchOK, Waits
  <1>6. BindingsKept
    <2>1. PICK s \in Ended \cup {"running", "stopped"} : s = IF w.status = "cancelled" THEN "stopped" ELSE w.status
      BY <1>5
    <2>2. \/ binding' = [binding EXCEPT ![k.agent].cursor = next, ![k.agent].status = s]
          \/ binding' = binding
      BY <1>1, <1>3, <2>1 DEF CaptureProgresses, UpdateProgress
    <2> QED
      BY <1>2, <2>2, ProgressUpdated, SameBindings
  <1>7. CaptureStep(p) /\ history' = history /\ unrecorded' = unrecorded
    BY DEF CaptureProgresses, requestVars, CaptureStep, Grows
  <1>8. waits' = [waits EXCEPT ![p] = NoWait]
    BY DEF CaptureProgresses
  <1>9. PICK at \in {"loop", "ended"} : at = IF w.status = "running" THEN "loop" ELSE "ended"
    OBVIOUS
  <1>10. PICK n : n = [k EXCEPT !.cursor = next, !.at = at]
    OBVIOUS
  <1>11. n \in CaptureRecords /\ n.at = at /\ n.agent = k.agent /\ n.cursor = next
    BY <1>10 DEF CaptureRecords, CapturePlaces
  <1>12. at = "ended" => t.status \in Ended /\ (t.status \in {"exited", "failed"} => next = t.cursor)
    BY <1>2, <1>3, <1>4, <1>5, <1>9 DEF BatchOK, Ended
  <1>13. CaptureOK(p, n, NoWait, t, recorded)
    BY <1>1, <1>2, <1>4, <1>11, <1>12 DEF CaptureOK
  <1>14. capture' = [capture EXCEPT ![p] = n]
    <2>1. capture' = [capture EXCEPT ![p].cursor = next, ![p].at = at]
      BY <1>1, <1>3, <1>9 DEF CaptureProgresses
    <2>2. capture \in [Ptys -> CaptureRecords]
      BY DEF AgentInv, ManagerInv, ManagerTyped
    <2> QED
      BY <1>1, <1>10, <2>1, <2>2 DEF CaptureRecords
  <1> QED
    BY <1>1, <1>2, <1>6, <1>7, <1>8, <1>11, <1>13, <1>14, Nothings, CaptureMoves

-----------------------------------------------------------------------------
(* Standalone agents: every step, and what the invariant says *)

\* What became of a terminal's output is known up to some chunk, wherever its
\* capture task is.
LEMMA CaptureTiles ==
  ASSUME AgentInv
  PROVE  \A p \in Ptys : \E n \in Nat : Tile(Accounts(history, unrecorded, p), n)
  <1> SUFFICES ASSUME NEW p \in Ptys PROVE \E n \in Nat : Tile(Accounts(history, unrecorded, p), n)
    OBVIOUS
  <1>1. PICK k \in CaptureRecords, w \in Waits, t \in PtySessions,
             recorded \in SUBSET Entries, h \in Seq(Entries), u \in SUBSET Entries :
           /\ k = capture[p] /\ w = waits[p] /\ t = terminal[p] /\ h = history /\ u = unrecorded
           /\ recorded = Accounts(h, u, p) /\ CaptureOK(p, k, w, t, recorded)
           /\ k.cursor \in Nat /\ t.cursor \in Nat
    BY CaptureHas
  <1>2. NextCursorOf(w) \in Nat
    BY NextIsNat
  <1>3. k.at \in CapturePlaces
    BY DEF CaptureRecords
  <1> QED
    BY <1>1, <1>2, <1>3 DEF CaptureOK, CapturePlaces

\* A restart closes all terminals: nothing of them is looked at any more.
LEMMA RestartKeeps ==
  ASSUME AgentInv, Restart
  PROVE  AgentInv'
  <1>1. ManagerTyped /\ TerminalInv
    BY DEF AgentInv, ManagerInv
  <1>2. TerminalInv'
    BY <1>1, AgentStepKeeps DEF AgentNext
  <1>3. /\ waits' = [p \in Ptys |-> NoWait] /\ tasks' = [a \in Agents |-> None]
        /\ capture' = [p \in Ptys |-> NoCapture] /\ request' = [r \in Requests |-> NoRequest]
        /\ binding' = binding /\ active' = active /\ history' = history /\ messages' = messages /\ inputs' = inputs
        /\ unrecorded' = unrecorded
    BY DEF Restart
  <1>4. used' \in [requests : Nat, restarts : Nat]
    <2>1. PICK u \in [requests : Nat, restarts : Nat] : u = used
      BY <1>1 DEF ManagerTyped
    <2>2. used' = [u EXCEPT !.restarts = @ + 1]
      BY <2>1 DEF Restart
    <2> QED
      BY <2>2
  <1>5. ManagerTyped'
    BY <1>1, <1>3, <1>4, Nothings DEF ManagerTyped
  <1>6. CapturesOK'
    <2>1. \A p \in Ptys : \E n \in Nat : Tile(Accounts(history, unrecorded, p), n)
      BY CaptureTiles
    <2> QED
      BY <1>3, <2>1, Nothings DEF CapturesOK, CaptureOK
  <1>7. RequestsOK' /\ StartsApart'
    BY <1>3, Nothings DEF RequestsOK, RequestOK, StartsApart, Binding
  <1>8. FreshIsUnknown'
    <2>1. ASSUME NEW p \in Ptys
          PROVE  process'[p].child = None <=> process[p].child = None
      <3>1. process'[p] = IF process[p] = NoProcess THEN NoProcess
                          ELSE [NoProcess EXCEPT !.child = "ended", !.written = process[p].written]
        BY DEF Restart
      <3>2. process[p].child = None => process[p] = NoProcess
        BY <1>1 DEF TerminalInv, OneTerminal, StartInv
      <3>3. NoProcess.child = None /\ [NoProcess EXCEPT !.child = "ended", !.written = process[p].written].child = "ended"
        BY DEF NoProcess
      <3> QED
        BY <3>1, <3>2, <3>3 DEF None
    <2>2. \A a \in Agents : binding[a].pty # None => binding[a].pty \in Ptys
      BY <1>1 DEF ManagerTyped, Bindings
    <2> QED
      BY <1>3, <2>1, <2>2 DEF AgentInv, ManagerInv, FreshIsUnknown
  <1>9. InputsRecorded' /\ Ordered(history)'
    BY <1>3 DEF AgentInv, ManagerInv, InputsRecorded
  <1> QED
    BY <1>2, <1>5, <1>6, <1>7, <1>8, <1>9 DEF AgentInv, ManagerInv

LEMMA RecordsKeep == AgentInv /\ [AgentNext]_agentVars => AgentInv'
  <1> SUFFICES ASSUME AgentInv, [AgentNext]_agentVars PROVE AgentInv'
    OBVIOUS
  <1>1. CASE \E r \in Requests, op \in {"start", "send", "stop"}, a \in Agents : Request(r, op, a)
    BY <1>1, RequestKeeps
  <1>2. CASE \E r \in Requests : RequestNext(r)
    <2>1. PICK r \in Requests : RequestNext(r)
      BY <1>2
    <2>2. CASE StartLooksUp(r) \/ StartSpawns(r) \/ StartBinds(r) \/ StartActivates(r) \/ StartBootstraps(r)
      BY <2>2, StartLooksUpKeeps, StartSpawnsKeeps, StartBindsKeeps, StartActivatesKeeps, StartBootstrapsKeeps
    <2>3. CASE SendRecords(r) \/ SendAppendsHistory(r) \/ SendInputs(r)
      BY <2>3, SendRecordsKeeps, SendAppendsHistoryKeeps, SendInputsKeeps
    <2>4. CASE StopLooksUp(r) \/ StopCancels(r) \/ StopRecords(r) \/ RequestFails(r)
      BY <2>4, StopLooksUpKeeps, StopCancelsKeeps, StopRecordsKeeps, RequestFailsKeeps
    <2> QED
      BY <2>1, <2>2, <2>3, <2>4 DEF RequestNext
  <1>3. CASE \E p \in Ptys : CaptureNext(p)
    BY <1>3, CaptureWaitsKeeps, CaptureAppendsKeeps, CaptureSharesKeeps, CaptureProgressesKeeps DEF CaptureNext
  <1>4. CASE \E p \in Ptys : (ProgramNext(p) \/ ThreadNext(p) \/ WaitNext(p)) /\ UNCHANGED managerVars
    BY <1>4, ProgramsRun, WaitGoesOn
  <1>5. CASE Restart
    BY <1>5, RestartKeeps
  <1>6. CASE UNCHANGED agentVars
    <2>1. /\ UNCHANGED <<terminal, process, threads>> /\ waits' = waits
          /\ binding' = binding /\ active' = active /\ history' = history /\ messages' = messages
          /\ tasks' = tasks /\ capture' = capture /\ inputs' = inputs /\ used' = used /\ request' = request
          /\ unrecorded' = unrecorded
      BY <1>6 DEF agentVars, terminalVars, managerVars, managerVarsButRequest
    <2>2. TerminalInv'
      BY <2>1, TerminalsUntouched DEF AgentInv
    <2>3. ManagerTyped' /\ CapturesOK' /\ RequestsOK' /\ StartsApart'
      BY <2>1 DEF AgentInv, ManagerInv, ManagerTyped, CapturesOK, RequestsOK, RequestOK, StartsApart
    <2>4. FreshIsUnknown' /\ InputsRecorded' /\ Ordered(history)'
      BY <2>1 DEF AgentInv, ManagerInv, FreshIsUnknown, InputsRecorded
    <2> QED
      BY <2>2, <2>3, <2>4 DEF AgentInv, ManagerInv
  <1> QED
    BY <1>1, <1>2, <1>3, <1>4, <1>5, <1>6 DEF AgentNext

LEMMA RecordsHold == AgentSpec => []AgentInv
  BY AgentsStart, RecordsKeep, PTL DEF AgentSpec

LEMMA AccountedEnds ==
  ASSUME AgentInv, NEW p \in Ptys, NEW n \in Nat, Tile(Accounts(history, unrecorded, p), n)
  PROVE  CapturedUpto(p) = n /\ Tile(Accounted(p), n)
  <1>1. PICK k \in CaptureRecords, w \in Waits, t \in PtySessions,
             recorded \in SUBSET Entries, h \in Seq(Entries), u \in SUBSET Entries :
           h = history /\ u = unrecorded /\ recorded = Accounts(h, u, p)
    BY CaptureHas
  <1>2. Accounted(p) = recorded
    BY <1>1 DEF Accounted, Accounts
  <1>3. Max({0} \cup {e.upto : e \in recorded}) = n
    BY <1>1, TileEnds
  <1> QED
    BY <1>1, <1>2, <1>3 DEF CapturedUpto

LEMMA InvariantRecords == AgentInv => TerminalsAreRecorded
  <1> SUFFICES ASSUME AgentInv PROVE TerminalsAreRecorded
    OBVIOUS
  <1>1. ManagerTyped /\ TerminalInv
    BY DEF AgentInv, ManagerInv
  <1>2. AgentTypeOK
    <2>1. ASSUME NEW p \in Ptys
          PROVE  /\ terminal[p].status \in Ended \cup {None, "running"}
                 /\ terminal[p].chunks \in Seq(Chunks)
                 /\ terminal[p].childStatus \in {None, "exited", "failed"}
                 /\ threads[p].reader \in {"idle", "reading", "finishing", "done"}
                 /\ threads[p].waiter \in {"idle", "waiting", "finishing", "done"}
                 /\ RetainedIsBounded(terminal[p].chunks)
      <3>1. terminal[p] \in PtySessions /\ threads[p] \in Threads /\ BufferInv(terminal[p])
        BY <1>1 DEF TerminalInv, OneTerminal
      <3> QED
        BY <3>1 DEF PtySessions, Threads, BufferInv
    <2>2. \A c \in Callers :
            waits[c].at \in {"idle", "check", "read", "armed", "parked", "recheck", "reread", "answered"}
      BY <1>1, ManagerAssumption DEF ManagerTyped, Waits
    <2>3. TerminalTypeOK
      BY <2>1, <2>2 DEF TerminalTypeOK
    <2>4. \A a \in Agents : binding[a].pty \in Ptys \cup {None} /\ tasks[a] \in Ptys \cup {None}
      BY <1>1 DEF ManagerTyped, Bindings
    <2>5. \A p \in Ptys : capture[p].at \in CapturePlaces
      BY <1>1 DEF ManagerTyped, CaptureRecords
    <2> QED
      BY <1>1, <2>3, <2>4, <2>5 DEF AgentTypeOK, ManagerTyped, CapturePlaces
  <1>3. ASSUME NEW p \in Ptys, terminal[p].status \in {"exited", "failed"}
        PROVE  process[p].unread = <<>> /\ ~process[p].slaveOpen
    BY <1>1, <1>3 DEF TerminalInv, OneTerminal, EndInv
  <1>4. FinalBatchIsComplete
    <2>1. SUFFICES ASSUME NEW c \in Ptys, waits[c].at = "answered", waits[c].status \in {"exited", "failed"}
                   PROVE  /\ process[waits[c].pty].unread = <<>> /\ ~process[waits[c].pty].slaveOpen
                          /\ NextCursorOf(waits[c]) = terminal[waits[c].pty].cursor
      BY ManagerAssumption DEF FinalBatchIsComplete
    <2>2. waits[c].pty = c /\ BatchOK(waits[c], terminal[c])
      <3>1. CaptureOK(c, capture[c], waits[c], terminal[c], Accounts(history, unrecorded, c))
        BY DEF AgentInv, ManagerInv, CapturesOK
      <3> QED
        BY <2>1, <3>1 DEF CaptureOK, NoWait
    <2>3. terminal[c].status = waits[c].status /\ NextCursorOf(waits[c]) = terminal[c].cursor
      BY <2>1, <2>2 DEF BatchOK, Ended
    <2> QED
      BY <1>3, <2>1, <2>2, <2>3
  <1>5. GapsAreMarked
    <2>1. SUFFICES ASSUME NEW p \in Ptys, NEW after \in 0 .. terminal[p].cursor,
                          After(terminal[p].chunks, after) # <<>>,
                          After(terminal[p].chunks, after)[1].cursor > after + 1
                   PROVE  \E i \in DOMAIN After(terminal[p].chunks, after) :
                            After(terminal[p].chunks, after)[i].truncated
      BY DEF GapsAreMarked
    <2>2. PICK t \in PtySessions : t = terminal[p] /\ BufferInv(t)
      BY <1>1 DEF TerminalInv, OneTerminal
    <2>3. PICK q \in Seq(Chunks), last \in Nat : q = t.chunks /\ last = t.cursor
      BY DEF PtySessions
    <2>4. Consecutive(q, last) /\ (last # 0 => q # <<>>) /\ after \in Nat /\ after <= last
      BY <2>2, <2>3 DEF BufferInv
    <2>5. After(q, after) = q /\ Len(q) < last
      BY <2>1, <2>2, <2>3, <2>4, ReadsToTheEnd
    <2>6. \E i \in DOMAIN q : q[i].truncated
      BY <2>2, <2>3, <2>5 DEF BufferInv, Marked
    <2> QED
      BY <2>2, <2>3, <2>5, <2>6
  <1>6. HistoryFollowsTerminal
    <2>1. ASSUME NEW p \in Ptys
          PROVE  Tile(Accounted(p), CapturedUpto(p))
      <3>1. PICK n \in Nat : Tile(Accounts(history, unrecorded, p), n)
        BY CaptureTiles
      <3> QED
        BY <3>1, AccountedEnds
    <2>2. Ordered(history)
      BY DEF AgentInv, ManagerInv
    <2> QED
      BY <2>1, <2>2 DEF Ordered, HistoryFollowsTerminal
  <1>7. ExitedIsCaptured
    <2>1. SUFFICES ASSUME NEW p \in Ptys, capture[p].at = "ended", terminal[p].status \in {"exited", "failed"}
                   PROVE  CapturedUpto(p) = terminal[p].cursor /\ process[p].unread = <<>>
      BY DEF ExitedIsCaptured
    <2>2. PICK n \in Nat : n = terminal[p].cursor
      BY <1>1 DEF TerminalInv, PtySessions
    <2>3. Tile(Accounts(history, unrecorded, p), n)
      <3>1. CaptureOK(p, capture[p], waits[p], terminal[p], Accounts(history, unrecorded, p))
        BY DEF AgentInv, ManagerInv, CapturesOK
      <3> QED
        BY <2>1, <2>2, <3>1 DEF CaptureOK
    <2>4. CapturedUpto(p) = n
      BY <2>3, AccountedEnds
    <2> QED
      BY <1>3, <2>1, <2>2, <2>4
  <1>8. DeliveredIsRecorded
    BY DEF AgentInv, ManagerInv, InputsRecorded, HasInput, DeliveredIsRecorded
  <1> QED
    BY <1>2, <1>4, <1>5, <1>6, <1>7, <1>8 DEF TerminalsAreRecorded

\* The history has what a terminal prints in order and no part of it twice; all
\* of it is accounted for once an exit was captured, and what is missing is in
\* batches whose own append failed (spawn_capture); what a program was told is
\* in both records (send). For any number of agents and of requests, whichever
\* statements fail and whenever the daemon restarts.
THEOREM TerminalsStayRecorded == AgentSpec => []TerminalsAreRecorded
  BY RecordsHold, InvariantRecords, PTL
=============================================================================
