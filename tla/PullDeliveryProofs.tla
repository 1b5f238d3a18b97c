-------------------------- MODULE PullDeliveryProofs --------------------------
(***************************************************************************)
(* Proofs about PullApi and PullDelivery for every set of files, scopes,   *)
(* callers and workers, every buffer size, and whatever lines join others  *)
(* or overtake them.                                                       *)
(*                                                                         *)
(* The service alone:  IInv says which numbers the buffer, the batches and *)
(* the cursors hold.  OInv adds where offsets stand, as for the v2         *)
(* service: but for lines that a critical one overtook they grow with the  *)
(* numbers, and the checkpoint is behind every record nobody answers for.  *)
(* LInv says the same line by line, since a record that others joined has  *)
(* the offset of the last of them.                                         *)
(*                                                                         *)
(* With the control plane:  DInv says that a worker's batch is a copy of   *)
(* the buffer right above records that are in the index, that what it has  *)
(* written is in the index, and that each scope's cursors and              *)
(* acknowledgements cover records in the index only.  The agent's part is  *)
(* taken from IInv, OInv and LInv: the control plane is one of the callers *)
(* they allow, which is also the refinement stated at the end.             *)
(*                                                                         *)
(* Normalized and AllAdded are loops.  EveryRound and LoopRuns below do    *)
(* for them what induction would: the least round that goes wrong has a    *)
(* round before it.                                                        *)
(***************************************************************************)
EXTENDS PullDelivery, CollectionProofs, WellFoundedInduction

(* A set of numbers has a least one. *)
LEMMA LeastNumber ==
    ASSUME NEW S, S \subseteq Nat, S # {}
    PROVE  \E n \in S : \A m \in S : n <= m
<1>1. PICK n \in S : \A m \in S : ~(<<m, n>> \in OpToRel(<, Nat))
  BY NatLessThanWellFounded, WFMin
<1>2. \A m \in S : ~(m < n)
  BY <1>1, Zenon DEF OpToRel
<1> QED BY <1>2

(* A set of numbers that holds 0 and every successor holds all of them. *)
LEMMA NumbersBySuccessor ==
    ASSUME NEW S, 0 \in S, \A n \in Nat : n \in S => n + 1 \in S
    PROVE  Nat \subseteq S
<1> DEFINE T == Nat \ S
<1>1. SUFFICES ASSUME T # {} PROVE FALSE
  OBVIOUS
<1>2. PICK n \in T : \A m \in T : n <= m
  BY <1>1, LeastNumber
<1>3. n # 0 /\ n - 1 \in Nat
  BY <1>2
<1>4. n - 1 \in S
  BY <1>2, <1>3
<1> QED BY <1>2, <1>3, <1>4

(* Values that a loop takes one after the other: each in the set that holds *)
(* after that many rounds.                                                  *)
LEMMA EveryRound ==
    ASSUME NEW n \in Nat, NEW S, NEW p, p[0] \in S[0],
           \A i \in 1 .. n : p[i - 1] \in S[i - 1] => p[i] \in S[i]
    PROVE  \A i \in 0 .. n : p[i] \in S[i]
<1> DEFINE T == {i \in Nat : i <= n => p[i] \in S[i]}
<1>1. 0 \in T
  OBVIOUS
<1>2. ASSUME NEW i \in Nat, i \in T PROVE i + 1 \in T
  <2>1. SUFFICES ASSUME i + 1 <= n PROVE p[i + 1] \in S[i + 1]
    OBVIOUS
  <2>2. i + 1 \in 1 .. n /\ (i + 1) - 1 = i /\ p[i] \in S[i]
    BY <1>2, <2>1
  <2> QED BY <2>2
<1>3. Nat \subseteq T
  <2> HIDE DEF T
  <2> QED BY <1>1, <1>2, NumbersBySuccessor
<1> QED BY <1>3

\* The values of a loop that starts with base and applies step[i] in round i.
Loops(n, U, S, base, step) ==
    {g \in [0 .. n -> U] :
        /\ g[0] = base
        /\ \A i \in 1 .. n : g[i] = step[i][g[i - 1]]
        /\ \A i \in 0 .. n : g[i] \in S[i]}

(* They exist: what a recursive function of the model chooses is there. *)
LEMMA LoopRuns ==
    ASSUME NEW n \in Nat, NEW U, NEW S, NEW base, NEW step,
           \A i \in 0 .. n : S[i] \subseteq U, base \in S[0],
           \A i \in 1 .. n : step[i] \in [S[i - 1] -> S[i]]
    PROVE  Loops(n, U, S, base, step) # {}
<1> DEFINE Runs(g, k) == /\ g[0] = base
                         /\ \A i \in 1 .. k : g[i] = step[i][g[i - 1]]
                         /\ \A i \in 0 .. k : g[i] \in S[i]
           T == {k \in Nat : k <= n => \E g \in [0 .. k -> U] : Runs(g, k)}
<1>1. 0 \in T
  <2>1. [i \in 0 .. 0 |-> base] \in [0 .. 0 -> U] /\ Runs([i \in 0 .. 0 |-> base], 0)
    OBVIOUS
  <2> QED BY <2>1
<1>2. ASSUME NEW k \in Nat, k \in T PROVE k + 1 \in T
  <2>1. SUFFICES ASSUME k + 1 <= n PROVE \E g \in [0 .. k + 1 -> U] : Runs(g, k + 1)
    OBVIOUS
  <2>2. PICK g \in [0 .. k -> U] : Runs(g, k)
    BY <1>2, <2>1
  <2> DEFINE h == [i \in 0 .. k + 1 |-> IF i = k + 1 THEN step[k + 1][g[k]] ELSE g[i]]
  <2>3. step[k + 1] \in [S[k] -> S[k + 1]] /\ S[k + 1] \subseteq U
    <3>1. k + 1 \in 1 .. n /\ (k + 1) - 1 = k
      BY <2>1
    <3> QED BY <3>1
  <2>4. g[k] \in S[k]
    BY <2>2
  <2>5. h[k + 1] = step[k + 1][g[k]] /\ h[k + 1] \in S[k + 1]
    BY <2>3, <2>4
  <2>6. \A i \in 0 .. k : h[i] = g[i]
    OBVIOUS
  <2>7. h \in [0 .. k + 1 -> U]
    BY <2>3, <2>5
  <2> HIDE DEF h
  <2>8. h[0] = base
    BY <2>2, <2>6
  <2>9. \A i \in 1 .. k : h[i] = step[i][h[i - 1]]
    <3>1. \A i \in 1 .. k : i - 1 \in 0 .. k /\ i \in 0 .. k
      OBVIOUS
    <3> QED BY <2>2, <2>6, <3>1
  <2>10. \A i \in 1 .. k + 1 : h[i] = step[i][h[i - 1]]
    <3>1. h[k + 1] = step[k + 1][h[(k + 1) - 1]]
      <4>1. (k + 1) - 1 = k /\ h[k] = g[k]
        BY <2>6
      <4> QED BY <2>5, <4>1
    <3>2. \A i \in 1 .. k + 1 : i \in 1 .. k \/ i = k + 1
      OBVIOUS
    <3> QED BY <2>9, <3>1, <3>2
  <2>11. \A i \in 0 .. k + 1 : h[i] \in S[i]
    <3>1. \A i \in 0 .. k + 1 : i \in 0 .. k \/ i = k + 1
      OBVIOUS
    <3> QED BY <2>2, <2>5, <2>6, <3>1
  <2> QED BY <2>7, <2>8, <2>10, <2>11
<1>3. Nat \subseteq T
  <2> HIDE DEF T
  <2> QED BY <1>1, <1>2, NumbersBySuccessor
<1>4. n \in T
  <2> HIDE DEF T
  <2> QED BY <1>3
<1>5. PICK g \in [0 .. n -> U] : Runs(g, n)
  BY <1>4
<1>6. g \in Loops(n, U, S, base, step)
  BY <1>5 DEF Loops
<1> QED BY <1>6

(* A finite set of numbers has a largest one. *)
LEMMA LargestNumber ==
    ASSUME NEW S, S \subseteq Nat, IsFiniteSet(S), S # {}
    PROVE  /\ Max(S) \in S
           /\ \A m \in S : m <= Max(S)
<1>1. PICK n \in Nat : \E e : e \in Bijection(1 .. n, S)
  BY FS_NatBijection DEF ExistsBijection
<1>2. PICK e : e \in Bijection(1 .. n, S)
  BY <1>1
<1>3. e \in [1 .. n -> S] /\ \A m \in S : \E i \in 1 .. n : e[i] = m
  BY <1>2 DEF Bijection, Injection, Surjection
<1> DEFINE Bounds(k) == {x \in Nat : \A i \in 1 .. k : e[i] <= x}
           T == {k \in Nat : k <= n => Bounds(k) # {}}
<1>4. 0 \in T
  <2>1. 0 \in Bounds(0)
    OBVIOUS
  <2> QED BY <2>1
<1>5. ASSUME NEW k \in Nat, k \in T PROVE k + 1 \in T
  <2>1. SUFFICES ASSUME k + 1 <= n PROVE Bounds(k + 1) # {}
    OBVIOUS
  <2>2. PICK x \in Bounds(k) : TRUE
    BY <1>5, <2>1
  <2>3. e[k + 1] \in Nat /\ \A i \in 1 .. k : e[i] \in Nat
    <3>1. k + 1 \in 1 .. n /\ \A i \in 1 .. k : i \in 1 .. n
      BY <2>1
    <3> QED BY <1>3, <3>1
  <2>4. x + e[k + 1] \in Bounds(k + 1)
    <3>1. \A i \in 1 .. k + 1 : i \in 1 .. k \/ i = k + 1
      OBVIOUS
    <3> QED BY <2>2, <2>3, <3>1
  <2> QED BY <2>4
<1>6. n \in T
  <2> HIDE DEF T
  <2> QED BY <1>4, <1>5, NumbersBySuccessor
<1> DEFINE Above == {x \in Nat : \A m \in S : m <= x}
<1>7. Above # {}
  <2>1. PICK x \in Bounds(n) : TRUE
    BY <1>6
  <2>2. x \in Above
    BY <1>3, <2>1
  <2> QED BY <2>2
<1>8. PICK x \in Above : \A y \in Above : x <= y
  BY <1>7, LeastNumber
<1>9. x \in S
  <2>1. SUFFICES ASSUME x \notin S PROVE FALSE
    OBVIOUS
  <2>2. \A m \in S : m \in Nat /\ m < x
    BY <1>8, <2>1
  <2>3. x - 1 \in Nat /\ x \in Nat
    <3>1. PICK m \in S : TRUE
      OBVIOUS
    <3>2. x \in Nat /\ m \in Nat /\ m < x
      BY <2>2
    <3> QED BY <3>2
  <2>4. x - 1 \in Above
    BY <2>2, <2>3
  <2> QED BY <1>8, <2>3, <2>4
<1>10. \E z \in S : \A y \in S : z >= y
  BY <1>8, <1>9
<1>11. Max(S) \in S /\ \A y \in S : Max(S) >= y
  BY <1>10 DEF Max
<1> QED BY <1>11

-----------------------------------------------------------------------------
(***************************************************************************)
(* What AddRecords does with a group: the parts it makes of it and the     *)
(* buffer after each of them.                                              *)
(***************************************************************************)
Part == [off : Nat, lines : SUBSET Nat]

FirstLines(group, i) == {group[j] : j \in 1 .. i}

\* Parts of the first i lines of a group: all these lines, in their order; a part
\* stands at the last of its own.
PartsOf(group, i) ==
    {parts \in Seq(Part) :
        /\ \A k \in 1 .. Len(parts) :
              /\ parts[k].off \in FirstLines(group, i) /\ parts[k].lines \subseteq FirstLines(group, i)
              /\ \A n \in parts[k].lines : n <= parts[k].off
        /\ \A k, l \in 1 .. Len(parts) : k < l =>
              /\ parts[k].off < parts[l].off
              /\ \A n \in parts[l].lines : parts[k].off < n
        /\ \A n \in FirstLines(group, i) : \E k \in 1 .. Len(parts) : n \in parts[k].lines}

(* Another line of the group joins the last part or makes one. *)
LEMMA JoinedParts ==
    ASSUME NEW group \in Seq(Nat), Increasing(group), NEW i \in 1 .. Len(group),
           NEW parts \in PartsOf(group, i - 1)
    PROVE  Joined(parts, group[i]) \in PartsOf(group, i)
<1> DEFINE n == group[i]
           len == Len(parts)
           joined == Joined(parts, group[i])
           before == FirstLines(group, i - 1)
<1>1. /\ parts \in Seq(Part) /\ len \in Nat /\ n \in Nat /\ i \in Nat
      /\ \A k \in 1 .. len : /\ parts[k] \in Part
                             /\ parts[k].off \in Nat /\ parts[k].lines \in SUBSET Nat
                             /\ parts[k].off \in before /\ parts[k].lines \subseteq before
                             /\ \A m \in parts[k].lines : m <= parts[k].off
      /\ \A k, l \in 1 .. len : k < l => /\ parts[k].off < parts[l].off
                                         /\ \A m \in parts[l].lines : parts[k].off < m
      /\ \A m \in before : \E k \in 1 .. len : m \in parts[k].lines
  <2>1. parts \in Seq(Part) /\ len \in Nat /\ n \in Nat /\ i \in Nat
    BY LenProperties, ElementOfSeq DEF PartsOf
  <2>2. \A k \in 1 .. len : parts[k] \in Part
    BY <2>1, ElementOfSeq
  <2> QED BY <2>1, <2>2 DEF PartsOf, Part
<1>2. \A m \in before : m \in Nat /\ m < n
  <2> SUFFICES ASSUME NEW j \in 1 .. i - 1 PROVE group[j] \in Nat /\ group[j] < n
    BY DEF FirstLines
  <2>1. j \in 1 .. Len(group) /\ j < i
    BY LenProperties
  <2> QED BY <2>1, ElementOfSeq DEF Increasing
<1>3. FirstLines(group, i) = before \cup {n}
  <2>1. \A j \in 1 .. i : j \in 1 .. i - 1 \/ j = i
    BY <1>1
  <2>2. i \in 1 .. i /\ \A j \in 1 .. i - 1 : j \in 1 .. i
    BY <1>1
  <2> QED BY <2>1, <2>2 DEF FirstLines
<1> HIDE DEF n, len, before
<1>4. CASE parts # <<>> /\ n \in Continuations
  <2> DEFINE last == [off |-> n, lines |-> parts[len].lines \cup {n}]
  <2>1. len \in 1 .. len
    BY <1>1, <1>4, EmptySeq DEF len
  <2>2. last \in Part
    BY <1>1, <2>1 DEF Part
  <2>3. joined = [parts EXCEPT ![len] = last]
    BY <1>4 DEF Joined, n, len
  <2> HIDE DEF joined
  <2>4. /\ joined \in Seq(Part) /\ Len(joined) = len
        /\ \A k \in 1 .. len : joined[k] = IF k = len THEN last ELSE parts[k]
    BY <1>1, <2>1, <2>2, <2>3, ExceptSeq DEF len
  <2>5. last.off = n /\ last.lines = parts[len].lines \cup {n}
    OBVIOUS
  <2> HIDE DEF last
  <2>6. \A k \in 1 .. len : /\ joined[k].off \in before \cup {n} /\ joined[k].lines \subseteq before \cup {n}
                            /\ \A m \in joined[k].lines : m <= joined[k].off
    <3>1. \A m \in last.lines : m <= last.off
      BY <1>1, <1>2, <2>1, <2>5
    <3>2. last.off \in before \cup {n} /\ last.lines \subseteq before \cup {n}
      BY <1>1, <2>1, <2>5
    <3>3. ASSUME NEW k \in 1 .. len
          PROVE  /\ joined[k].off \in before \cup {n} /\ joined[k].lines \subseteq before \cup {n}
                 /\ \A m \in joined[k].lines : m <= joined[k].off
      <4>1. CASE k = len
        BY <2>4, <3>1, <3>2, <4>1
      <4>2. CASE k # len
        BY <1>1, <2>4, <4>2
      <4> QED BY <4>1, <4>2
    <3> QED BY <3>3
  <2>7. ASSUME NEW k \in 1 .. len, NEW l \in 1 .. len, k < l
        PROVE  joined[k].off < joined[l].off /\ \A m \in joined[l].lines : joined[k].off < m
    <3>0. k # len /\ parts[k].off \in before
      BY <1>1, <2>7
    <3>1. k # len /\ joined[k] = parts[k] /\ parts[k].off < n
      BY <1>2, <2>4, <2>7, <3>0
    <3>2. CASE l = len
      <4>1. joined[l] = last /\ k < len
        BY <2>4, <2>7, <3>2
      <4>2. len \in 1 .. len /\ \A m \in parts[len].lines : parts[k].off < m
        BY <1>1, <2>1, <2>7, <4>1
      <4> QED BY <2>5, <3>1, <4>1, <4>2
    <3>3. CASE l # len
      BY <1>1, <2>4, <2>7, <3>1, <3>3
    <3> QED BY <3>2, <3>3
  <2>8. \A m \in before \cup {n} : \E k \in 1 .. len : m \in joined[k].lines
    <3>1. n \in joined[len].lines
      BY <2>1, <2>4, <2>5
    <3>2. \A k \in 1 .. len : parts[k].lines \subseteq joined[k].lines
      BY <2>4, <2>5
    <3> QED BY <1>1, <2>1, <3>1, <3>2
  <2> QED BY <1>3, <2>4, <2>6, <2>7, <2>8 DEF PartsOf, joined
<1>5. CASE ~(parts # <<>> /\ n \in Continuations)
  <2> DEFINE last == [off |-> n, lines |-> {n}]
  <2>1. last \in Part
    BY <1>1 DEF Part
  <2>2. joined = Append(parts, last)
    BY <1>5 DEF Joined, n
  <2> HIDE DEF joined
  <2>3. /\ joined \in Seq(Part) /\ Len(joined) = len + 1
        /\ \A k \in 1 .. len : joined[k] = parts[k]
        /\ joined[len + 1] = last
    BY <1>1, <2>1, <2>2, AppendProperties DEF len
  <2>4. last.off = n /\ last.lines = {n}
    OBVIOUS
  <2> HIDE DEF last
  <2>5. \A k \in 1 .. len + 1 : k \in 1 .. len \/ k = len + 1
    BY <1>1
  <2>6. \A k \in 1 .. len + 1 :
           /\ joined[k].off \in before \cup {n} /\ joined[k].lines \subseteq before \cup {n}
           /\ \A m \in joined[k].lines : m <= joined[k].off
    <3>1. ASSUME NEW k \in 1 .. len
          PROVE  /\ joined[k].off \in before \cup {n} /\ joined[k].lines \subseteq before \cup {n}
                 /\ \A m \in joined[k].lines : m <= joined[k].off
      BY <1>1, <2>3
    <3>2. /\ joined[len + 1].off \in before \cup {n} /\ joined[len + 1].lines \subseteq before \cup {n}
          /\ \A m \in joined[len + 1].lines : m <= joined[len + 1].off
      BY <1>1, <2>3, <2>4
    <3> QED BY <2>5, <3>1, <3>2
  <2>7. ASSUME NEW k \in 1 .. len + 1, NEW l \in 1 .. len + 1, k < l
        PROVE  joined[k].off < joined[l].off /\ \A m \in joined[l].lines : joined[k].off < m
    <3>0. k \in 1 .. len
      BY <1>1, <2>7
    <3>1. k \in 1 .. len /\ joined[k] = parts[k] /\ parts[k].off < n
      BY <1>1, <1>2, <2>3, <3>0
    <3>2. CASE l = len + 1
      BY <2>3, <2>4, <3>1, <3>2
    <3>3. CASE l \in 1 .. len
      BY <1>1, <2>3, <2>7, <3>1, <3>3
    <3> QED BY <2>5, <3>2, <3>3
  <2>8. \A m \in before \cup {n} : \E k \in 1 .. len + 1 : m \in joined[k].lines
    <3>1. len + 1 \in 1 .. len + 1 /\ \A k \in 1 .. len : k \in 1 .. len + 1
      BY <1>1
    <3> QED BY <1>1, <2>3, <2>4, <3>1
  <2> QED BY <1>3, <2>3, <2>6, <2>7, <2>8 DEF PartsOf, joined
<1> QED BY <1>4, <1>5

(* The parts of a whole group. *)
LEMMA NormalizedParts ==
    ASSUME NEW group \in Seq(Nat), Increasing(group)
    PROVE  Normalized(group) \in PartsOf(group, Len(group))
<1> DEFINE len == Len(group)
           S == [i \in 0 .. len |-> PartsOf(group, i)]
           step == [i \in 1 .. len |-> [parts \in S[i - 1] |-> Joined(parts, group[i])]]
<1>1. len \in Nat
  BY LenProperties
<1>2. <<>> \in S[0]
  <2>1. FirstLines(group, 0) = {}
    BY DEF FirstLines
  <2>2. <<>> \in Seq(Part) /\ Len(<<>>) = 0
    BY EmptySeq
  <2> QED BY <1>1, <2>1, <2>2 DEF PartsOf
<1>3. \A i \in 1 .. len : i - 1 \in 0 .. len /\ i \in 0 .. len
  BY <1>1
<1>4. \A i \in 1 .. len : \A parts \in S[i - 1] : Joined(parts, group[i]) \in S[i]
  BY <1>3, JoinedParts
<1> HIDE DEF len, S
<1>5. \A i \in 1 .. len : step[i] \in [S[i - 1] -> S[i]]
  BY <1>4
<1>6. PICK g \in Loops(len, Seq(Part), S, <<>>, step) : TRUE
  <2>1. \A i \in 0 .. len : S[i] \subseteq Seq(Part)
    BY DEF S, PartsOf
  <2> HIDE DEF step
  <2>2. Loops(len, Seq(Part), S, <<>>, step) # {}
    BY <1>1, <1>2, <1>5, <2>1, LoopRuns
  <2> QED BY <2>2
<1>7. g = [i \in 0 .. len |-> IF i = 0 THEN <<>> ELSE Joined(g[i - 1], group[i])]
  <2>0. /\ g \in [0 .. len -> Seq(Part)] /\ g[0] = <<>>
        /\ \A i \in 1 .. len : g[i] = step[i][g[i - 1]]
        /\ \A i \in 0 .. len : g[i] \in S[i]
    BY DEF Loops
  <2>1. \A i \in 1 .. len : g[i] = Joined(g[i - 1], group[i])
    BY <1>3, <2>0
  <2>2. \A i \in 0 .. len : i = 0 \/ i \in 1 .. len
    BY <1>1
  <2>3. \A i \in 0 .. len : g[i] = IF i = 0 THEN <<>> ELSE Joined(g[i - 1], group[i])
    BY <2>0, <2>1, <2>2
  <2> QED BY <2>0, <2>3
<1> DEFINE p[i \in 0 .. len] == IF i = 0 THEN <<>> ELSE Joined(p[i - 1], group[i])
<1>8. p = [i \in 0 .. len |-> IF i = 0 THEN <<>> ELSE Joined(p[i - 1], group[i])]
  BY <1>7, Zenon DEF p
<1>9. Normalized(group) = p[len]
  BY Zenon DEF Normalized, len
<1> HIDE DEF p
<1>10. p[0] \in S[0] /\ \A i \in 1 .. len : p[i] = Joined(p[i - 1], group[i])
  BY <1>1, <1>2, <1>8
<1>11. \A i \in 0 .. len : p[i] \in S[i]
  <2>1. \A i \in 1 .. len : p[i - 1] \in S[i - 1] => p[i] \in S[i]
    BY <1>4, <1>10
  <2> QED BY <1>1, <1>10, <2>1, EveryRound
<1> QED BY <1>1, <1>9, <1>11 DEF S, len

Buffers == UNION {[D -> Record] : D \in SUBSET Nat}
BufferStates == {state \in [seq : Nat, recs : Buffers] : DOMAIN state.recs \subseteq 1 .. state.seq}

\* What one part may do to record q of a buffer.
Kept(old, new, q) ==
    q \in DOMAIN old /\ new[q].file = old[q].file /\ new[q].off = old[q].off
Placed(new, q, f, o) == new[q].file = f /\ new[q].off = o

\* Its lines stay, and only lines that may join it come to them.
Grown(old, new, q) ==
    /\ q \in DOMAIN new
    /\ old[q].lines \subseteq new[q].lines /\ new[q].lines \subseteq old[q].lines \cup Joining

\* A record of the file stands for these lines.
Held(recs, f, lines) == \E q \in DOMAIN recs : recs[q].file = f /\ lines \subseteq recs[q].lines

(* What a continuation line and a repeated line make of a record. *)
LEMMA ExtendedRecord ==
    ASSUME NEW record, record \in Record, NEW part \in Part
    PROVE  /\ Extended(record, part) \in Record /\ Counted(record, part) \in Record
           /\ Extended(record, part).file = record.file /\ Extended(record, part).off = part.off
           /\ Extended(record, part).lines = record.lines \cup part.lines
           /\ Counted(record, part).file = record.file /\ Counted(record, part).off = record.off
           /\ Counted(record, part).lines = record.lines \cup part.lines
  BY DEF Extended, Counted, Record, Part

(* One part leaves every record where it is, but for the newest one before *)
(* it, which it may continue; or it is a new record with the next number.  *)
LEMMA AddedBuffer ==
    ASSUME NEW state \in BufferStates, NEW f \in Files, NEW part \in Part,
           NEW new, new = Added(f, state, part)
    PROVE  /\ new \in BufferStates
           /\ new.seq \in {state.seq, state.seq + 1}
           /\ DOMAIN state.recs \subseteq DOMAIN new.recs
           /\ \A q \in DOMAIN new.recs :
                 \/ Kept(state.recs, new.recs, q)
                 \/ q \in Continued(state.recs, f, part) /\ Placed(new.recs, q, f, part.off)
                 \/ /\ q \notin DOMAIN state.recs /\ q = state.seq + 1
                    /\ Placed(new.recs, q, f, part.off)
                    /\ new.recs[q].lines = part.lines
                    /\ \A p \in DOMAIN state.recs : Kept(state.recs, new.recs, p)
           /\ \A q \in DOMAIN state.recs : Grown(state.recs, new.recs, q)
           /\ Held(new.recs, f, part.lines)
<1> DEFINE old == state.recs
           seq == state.seq + 1
           D == DOMAIN old
           C == Continued(old, f, part)
           R == Repeated(old, f, part)
           added == [file |-> f, off |-> part.off, lines |-> part.lines]
           continued == [q \in D |-> IF q \in C THEN Extended(old[q], part) ELSE old[q]]
           counted == [q \in D |-> IF q \in R THEN Counted(old[q], part) ELSE old[q]]
           longer == [q \in D \cup {seq} |-> IF q = seq THEN added ELSE old[q]]
<1>1. /\ state.seq \in Nat /\ D \in SUBSET Nat /\ D \subseteq 1 .. state.seq
      /\ old \in [D -> Record] /\ seq \notin D /\ seq \in Nat
      /\ state = [seq |-> state.seq, recs |-> old]
  BY DEF BufferStates, Buffers
<1>2. \A q \in D : old[q] \in Record
  BY <1>1
<1>3. added \in Record /\ added.file = f /\ added.off = part.off /\ added.lines = part.lines
  BY DEF Part, Record
<1>4. C \in SUBSET D /\ R \in SUBSET D /\ \A q \in C \cup R : old[q].file = f
  BY DEF Continued, Repeated
<1>5. \/ new = [seq |-> state.seq, recs |-> continued] /\ part.lines \subseteq Joining /\ C # {}
      \/ new = [seq |-> seq, recs |-> counted] /\ part.lines \subseteq Joining /\ R # {}
      \/ new = [seq |-> seq, recs |-> longer]
  BY <1>1 DEF Added, Joining
<1>6. ASSUME NEW E \in SUBSET Nat, NEW m \in Nat, E \subseteq 1 .. m,
             NEW grown \in [E -> Record], new = [seq |-> m, recs |-> grown]
      PROVE  new \in BufferStates /\ new.seq = m /\ new.recs = grown /\ DOMAIN new.recs = E
  <2>1. grown \in Buffers /\ DOMAIN grown = E
    BY DEF Buffers
  <2>2. new \in [seq : Nat, recs : Buffers] /\ new.seq = m /\ new.recs = grown
    BY <1>6, <2>1
  <2> QED BY <1>6, <2>1, <2>2 DEF BufferStates
<1>7. continued \in [D -> Record] /\ counted \in [D -> Record]
  BY <1>2, ExtendedRecord
<1>8. \A q \in D : \/ Kept(old, continued, q)
                   \/ q \in C /\ Placed(continued, q, f, part.off)
  BY <1>2, <1>4, ExtendedRecord DEF Kept, Placed
<1>9. \A q \in D : Kept(old, counted, q)
  BY <1>2, ExtendedRecord DEF Kept
<1>l. ASSUME part.lines \subseteq Joining
      PROVE  \A q \in D : Grown(old, continued, q) /\ Grown(old, counted, q)
  BY <1>2, <1>l, ExtendedRecord DEF Grown
<1>h. /\ C # {} => Held(continued, f, part.lines)
      /\ R # {} => Held(counted, f, part.lines)
  <2>1. \A q \in C : continued[q].file = f /\ part.lines \subseteq continued[q].lines
    BY <1>2, <1>4, ExtendedRecord
  <2>2. \A q \in R : counted[q].file = f /\ part.lines \subseteq counted[q].lines
    BY <1>2, <1>4, ExtendedRecord
  <2>3. DOMAIN continued = D /\ DOMAIN counted = D
    OBVIOUS
  <2> HIDE DEF continued, counted
  <2> QED BY <1>4, <2>1, <2>2, <2>3 DEF Held
<1>10. /\ longer \in [D \cup {seq} -> Record]
       /\ \A q \in D : Kept(old, longer, q)
       /\ \A q \in D : Grown(old, longer, q)
       /\ Placed(longer, seq, f, part.off) /\ longer[seq].lines = part.lines
       /\ Held(longer, f, part.lines)
  <2>1. \A q \in D : q # seq /\ longer[q] = old[q]
    BY <1>1
  <2>2. longer[seq] = added
    OBVIOUS
  <2>3. longer \in [D \cup {seq} -> Record]
    BY <1>2, <1>3
  <2>4. DOMAIN longer = D \cup {seq}
    OBVIOUS
  <2> HIDE DEF longer, added
  <2> QED BY <1>3, <2>1, <2>2, <2>3, <2>4 DEF Kept, Placed, Grown, Held
<1> HIDE DEF continued, counted, longer, added, D, C, R, seq
<1>11. CASE new = [seq |-> state.seq, recs |-> continued] /\ part.lines \subseteq Joining /\ C # {}
  BY <1>1, <1>6, <1>7, <1>8, <1>l, <1>h, <1>11 DEF D, C
<1>12. CASE new = [seq |-> seq, recs |-> counted] /\ part.lines \subseteq Joining /\ R # {}
  <2>1. D \subseteq 1 .. seq
    BY <1>1 DEF seq
  <2> QED BY <1>1, <1>6, <1>7, <1>9, <1>l, <1>h, <1>12, <2>1 DEF D, seq
<1>13. CASE new = [seq |-> seq, recs |-> longer]
  <2>1. D \cup {seq} \subseteq 1 .. seq /\ D \cup {seq} \in SUBSET Nat
    BY <1>1 DEF seq
  <2>2. new \in BufferStates /\ new.seq = seq /\ new.recs = longer /\ DOMAIN new.recs = D \cup {seq}
    BY <1>1, <1>6, <1>10, <1>13, <2>1
  <2> QED BY <1>1, <1>10, <2>2 DEF D, seq
<1> QED BY <1>5, <1>11, <1>12, <1>13

\* The buffer after i parts: what was buffered is where it was or stands at one of
\* them, and so does what is new; no line is lost, and every part has its place.
StatesAfter(f, parts, i) ==
    {state \in BufferStates :
        /\ nextSeq <= state.seq /\ DOMAIN records \subseteq DOMAIN state.recs
        /\ \A q \in DOMAIN state.recs :
              \/ Kept(records, state.recs, q)
              \/ /\ IF q \in DOMAIN records THEN records[q].file = f ELSE nextSeq < q
                 /\ \E j \in 1 .. i : Placed(state.recs, q, f, parts[j].off)
        /\ \A q \in DOMAIN records : Grown(records, state.recs, q)
        /\ \A q \in DOMAIN state.recs \ DOMAIN records :
              \A n \in state.recs[q].lines \ Joining : \E j \in 1 .. i : n \in parts[j].lines
        /\ \A j \in 1 .. i : Held(state.recs, f, parts[j].lines)}

(* One more part. *)
LEMMA AddedState ==
    ASSUME ApiTypeOK, NEW f \in Files, NEW parts \in Seq(Part), NEW i \in 1 .. Len(parts),
           NEW state \in StatesAfter(f, parts, i - 1)
    PROVE  Added(f, state, parts[i]) \in StatesAfter(f, parts, i)
<1> DEFINE part == parts[i]
           new == Added(f, state, part)
<1>1. part \in Part /\ i \in Nat /\ nextSeq \in Nat
  BY LenProperties, ElementOfSeq DEF ApiTypeOK
<1>2. /\ state \in BufferStates /\ state.seq \in Nat
      /\ nextSeq <= state.seq /\ DOMAIN records \subseteq DOMAIN state.recs
      /\ \A q \in DOMAIN state.recs :
            \/ Kept(records, state.recs, q)
            \/ /\ IF q \in DOMAIN records THEN records[q].file = f ELSE nextSeq < q
               /\ \E j \in 1 .. i - 1 : Placed(state.recs, q, f, parts[j].off)
      /\ \A q \in DOMAIN records : Grown(records, state.recs, q)
      /\ \A q \in DOMAIN state.recs \ DOMAIN records :
            \A n \in state.recs[q].lines \ Joining : \E j \in 1 .. i - 1 : n \in parts[j].lines
      /\ \A j \in 1 .. i - 1 : Held(state.recs, f, parts[j].lines)
  BY DEF StatesAfter, BufferStates
<1> HIDE DEF part, new
<1>3. /\ new \in BufferStates
      /\ new.seq \in {state.seq, state.seq + 1}
      /\ DOMAIN state.recs \subseteq DOMAIN new.recs
      /\ \A q \in DOMAIN new.recs :
            \/ Kept(state.recs, new.recs, q)
            \/ q \in Continued(state.recs, f, part) /\ Placed(new.recs, q, f, part.off)
            \/ /\ q \notin DOMAIN state.recs /\ q = state.seq + 1
               /\ Placed(new.recs, q, f, part.off) /\ new.recs[q].lines = part.lines
      /\ \A q \in DOMAIN state.recs : Grown(state.recs, new.recs, q)
      /\ Held(new.recs, f, part.lines)
  BY <1>1, <1>2, AddedBuffer DEF new
<1>4. nextSeq <= new.seq /\ DOMAIN records \subseteq DOMAIN new.recs
  BY <1>1, <1>2, <1>3
<1>5. i \in 1 .. i /\ \A j \in 1 .. i - 1 : j \in 1 .. i
  BY <1>1
<1>6. ASSUME NEW q \in DOMAIN new.recs
      PROVE  \/ Kept(records, new.recs, q)
             \/ /\ IF q \in DOMAIN records THEN records[q].file = f ELSE nextSeq < q
                /\ \E j \in 1 .. i : Placed(new.recs, q, f, parts[j].off)
  <2>1. CASE Kept(state.recs, new.recs, q)
    <3>1. CASE Kept(records, state.recs, q)
      BY <2>1, <3>1 DEF Kept
    <3>2. CASE ~Kept(records, state.recs, q)
      <4>1. q \in DOMAIN state.recs
        BY <2>1 DEF Kept
      <4>2. PICK j \in 1 .. i - 1 : Placed(state.recs, q, f, parts[j].off)
        BY <1>2, <3>2, <4>1
      <4>3. Placed(new.recs, q, f, parts[j].off)
        BY <2>1, <4>2 DEF Kept, Placed
      <4> QED BY <1>2, <1>5, <3>2, <4>1, <4>3
    <3> QED BY <3>1, <3>2
  <2>2. CASE q \in Continued(state.recs, f, part) /\ Placed(new.recs, q, f, part.off)
    <3>1. q \in DOMAIN state.recs /\ state.recs[q].file = f
      BY <2>2 DEF Continued
    <3>2. IF q \in DOMAIN records THEN records[q].file = f ELSE nextSeq < q
      BY <1>2, <3>1 DEF Kept
    <3> QED BY <1>5, <2>2, <3>2 DEF part
  <2>3. CASE q \notin DOMAIN state.recs /\ q = state.seq + 1 /\ Placed(new.recs, q, f, part.off)
    <3>1. q \notin DOMAIN records /\ nextSeq < q
      BY <1>1, <1>2, <2>3
    <3> QED BY <1>5, <2>3, <3>1 DEF part
  <2> QED BY <1>3, <2>1, <2>2, <2>3
<1>7. \A q \in DOMAIN records : Grown(records, new.recs, q)
  BY <1>2, <1>3 DEF Grown
<1>8. ASSUME NEW q \in DOMAIN new.recs \ DOMAIN records, NEW n \in new.recs[q].lines \ Joining
      PROVE  \E j \in 1 .. i : n \in parts[j].lines
  <2>1. CASE q \in DOMAIN state.recs
    <3>1. n \in state.recs[q].lines \ Joining
      BY <1>3, <2>1 DEF Grown
    <3> QED BY <1>2, <1>5, <2>1, <3>1
  <2>2. CASE q \notin DOMAIN state.recs
    <3>1. n \in part.lines
      BY <1>3, <2>2 DEF Kept, Continued
    <3> QED BY <1>5, <3>1 DEF part
  <2> QED BY <2>1, <2>2
<1>9. ASSUME NEW j \in 1 .. i PROVE Held(new.recs, f, parts[j].lines)
  <2>1. CASE j = i
    BY <1>3, <2>1 DEF part
  <2>2. CASE j # i
    <3>1. j \in 1 .. i - 1
      BY <1>1, <2>2
    <3>2. PICK q \in DOMAIN state.recs : state.recs[q].file = f /\ parts[j].lines \subseteq state.recs[q].lines
      BY <1>2, <3>1 DEF Held
    <3>3. new.recs[q].file = f
      BY <1>3, <3>2 DEF Kept, Placed, Continued, Grown
    <3> QED BY <1>3, <3>2, <3>3 DEF Held, Grown
  <2> QED BY <2>1, <2>2
<1>10. new \in StatesAfter(f, parts, i)
  BY <1>3, <1>4, <1>6, <1>7, <1>8, <1>9 DEF StatesAfter
<1> QED BY <1>10 DEF new, part

\* The buffer after each part of a group.
Additions(f, parts) ==
    {g \in [0 .. Len(parts) -> BufferStates] :
        /\ g[0] = [seq |-> nextSeq, recs |-> records]
        /\ \A i \in 1 .. Len(parts) : g[i] = Added(f, g[i - 1], parts[i])
        /\ \A i \in 0 .. Len(parts) : g[i] \in StatesAfter(f, parts, i)
        /\ AllAdded(f, parts) = g[Len(parts)]}

(* The states that AllAdded goes through exist, each of the kind just described. *)
LEMMA AdditionsExist ==
    ASSUME ApiTypeOK, NEW f \in Files, NEW parts \in Seq(Part)
    PROVE  Additions(f, parts) # {}
<1> DEFINE len == Len(parts)
           base == [seq |-> nextSeq, recs |-> records]
           S == [i \in 0 .. len |-> StatesAfter(f, parts, i)]
           step == [i \in 1 .. len |-> [state \in S[i - 1] |-> Added(f, state, parts[i])]]
<1>1. len \in Nat
  BY LenProperties
<1>2. base \in S[0]
  <2>1. DOMAIN records \in SUBSET Nat /\ DOMAIN records \subseteq 1 .. nextSeq
        /\ records \in [DOMAIN records -> Record] /\ nextSeq \in Nat
    BY DEF ApiTypeOK
  <2>2. records \in Buffers
    BY <2>1 DEF Buffers
  <2>3. base \in [seq : Nat, recs : Buffers] /\ base.seq = nextSeq /\ base.recs = records
    BY <2>1, <2>2
  <2>4. base \in BufferStates
    BY <2>1, <2>3 DEF BufferStates
  <2>5. \A q \in DOMAIN records : Kept(records, records, q) /\ Grown(records, records, q)
    BY DEF Kept, Grown
  <2> HIDE DEF base
  <2>6. base \in StatesAfter(f, parts, 0)
    BY <2>1, <2>3, <2>4, <2>5 DEF StatesAfter
  <2> QED BY <1>1, <2>6
<1>3. \A i \in 1 .. len : i - 1 \in 0 .. len /\ i \in 0 .. len
  BY <1>1
<1>4. \A i \in 1 .. len : \A state \in S[i - 1] : Added(f, state, parts[i]) \in S[i]
  BY <1>3, AddedState
<1> HIDE DEF len, S, base
<1>5. \A i \in 1 .. len : step[i] \in [S[i - 1] -> S[i]]
  BY <1>4
<1>6. PICK g \in Loops(len, BufferStates, S, base, step) : TRUE
  <2>1. \A i \in 0 .. len : S[i] \subseteq BufferStates
    BY DEF S, StatesAfter
  <2> HIDE DEF step
  <2>2. Loops(len, BufferStates, S, base, step) # {}
    BY <1>1, <1>2, <1>5, <2>1, LoopRuns
  <2> QED BY <2>2
<1>7. g = [i \in 0 .. len |-> IF i = 0 THEN base ELSE Added(f, g[i - 1], parts[i])]
  <2>1. /\ g \in [0 .. len -> BufferStates] /\ g[0] = base
        /\ \A i \in 1 .. len : g[i] = step[i][g[i - 1]]
        /\ \A i \in 0 .. len : g[i] \in S[i]
    BY DEF Loops
  <2>2. \A i \in 1 .. len : g[i] = Added(f, g[i - 1], parts[i])
    BY <1>3, <2>1
  <2>3. \A i \in 0 .. len : i = 0 \/ i \in 1 .. len
    BY <1>1
  <2>4. \A i \in 0 .. len : g[i] = IF i = 0 THEN base ELSE Added(f, g[i - 1], parts[i])
    BY <2>1, <2>2, <2>3
  <2> QED BY <2>1, <2>4
<1> DEFINE p[i \in 0 .. len] == IF i = 0 THEN base ELSE Added(f, p[i - 1], parts[i])
<1>8. p = [i \in 0 .. len |-> IF i = 0 THEN base ELSE Added(f, p[i - 1], parts[i])]
  BY <1>7, Zenon DEF p
<1>9. AllAdded(f, parts) = p[len]
  BY Zenon DEF AllAdded, len, base
<1> HIDE DEF p
<1>10. p[0] = base /\ \A i \in 1 .. len : p[i] = Added(f, p[i - 1], parts[i])
  BY <1>1, <1>8
<1>11. \A i \in 0 .. len : p[i] \in S[i]
  <2>1. \A i \in 1 .. len : p[i - 1] \in S[i - 1] => p[i] \in S[i]
    BY <1>4, <1>10
  <2> QED BY <1>1, <1>2, <1>10, <2>1, EveryRound
<1>12. \A i \in 0 .. len : S[i] = StatesAfter(f, parts, i) /\ S[i] \subseteq BufferStates
  BY DEF S, StatesAfter
<1>13. p \in [0 .. len -> BufferStates]
  <2>1. p = [i \in 0 .. len |-> p[i]]
    BY <1>8
  <2> QED BY <1>11, <1>12, <2>1
<1>14. p \in Additions(f, parts)
  BY <1>9, <1>10, <1>11, <1>12, <1>13 DEF Additions, len, base
<1> QED BY <1>14
(* Trimming drops records from the front until the buffer has its size. *)
LEMMA TrimmedBuffer ==
    ASSUME NEW n \in Nat, NEW recs \in Buffers, DOMAIN recs \subseteq 1 .. n
    PROVE  /\ DOMAIN Trimmed(recs) \subseteq DOMAIN recs
           /\ Trimmed(recs) \in [DOMAIN Trimmed(recs) -> Record]
           /\ \A q \in DOMAIN Trimmed(recs) : Trimmed(recs)[q] = recs[q]
           /\ Cardinality(DOMAIN Trimmed(recs)) <= MaxBuffered
           /\ n <= MaxBuffered => DOMAIN Trimmed(recs) = DOMAIN recs
<1> DEFINE D == DOMAIN recs
           From(p) == {r \in D : r >= p}
           T == {p \in D : Cardinality(From(p)) <= MaxBuffered}
<1>1. recs \in [D -> Record] /\ D \subseteq Nat
  BY DEF Buffers
<1>2. DOMAIN Trimmed(recs) = T /\ \A q \in T : Trimmed(recs)[q] = recs[q]
  BY DEF Trimmed
<1>3. Trimmed(recs) \in [T -> Record]
  BY <1>1, <1>2 DEF Trimmed
<1>4. IsFiniteSet(D)
  <2>1. IsFiniteSet(1 .. n)
    BY FS_Interval
  <2> QED BY <2>1, FS_Subset
<1>5. MaxBuffered \in Nat
  BY PullApiAssumption
<1>s. n <= MaxBuffered => T = D
  <2> SUFFICES ASSUME n <= MaxBuffered, NEW p \in D PROVE Cardinality(From(p)) <= MaxBuffered
    OBVIOUS
  <2>1. From(p) \subseteq 1 .. n
    OBVIOUS
  <2>2. IsFiniteSet(1 .. n) /\ Cardinality(1 .. n) = n
    BY FS_Interval
  <2> HIDE DEF From
  <2>3. Cardinality(From(p)) <= n /\ Cardinality(From(p)) \in Nat
    BY <2>1, <2>2, FS_Subset, FS_CardinalityType
  <2> QED BY <1>5, <2>3
<1>6. CASE T = {}
  <2> HIDE DEF T
  <2>1. Cardinality(T) = 0
    BY <1>6, FS_EmptySet
  <2> QED BY <1>2, <1>3, <1>5, <1>s, <1>6, <2>1
<1>7. CASE T # {}
  <2>1. PICK p \in T : \A q \in T : p <= q
    BY <1>1, <1>7, LeastNumber
  <2>2. T \subseteq From(p) /\ From(p) \subseteq D
    BY <1>1, <2>1
  <2>3. IsFiniteSet(From(p)) /\ Cardinality(From(p)) \in Nat /\ Cardinality(From(p)) <= MaxBuffered
    BY <1>4, <2>1, <2>2, FS_Subset, FS_CardinalityType
  <2> HIDE DEF From, T
  <2>4. IsFiniteSet(T) /\ Cardinality(T) <= Cardinality(From(p)) /\ Cardinality(T) \in Nat
    BY <2>2, <2>3, FS_Subset, FS_CardinalityType
  <2>5. Cardinality(T) <= MaxBuffered
    BY <1>5, <2>3, <2>4
  <2>6. T \subseteq D
    BY <2>2
  <2> QED BY <1>2, <1>3, <1>s, <2>5, <2>6
<1> QED BY <1>6, <1>7

(* What AddRecords leaves in the buffer: records that stand where they stood or *)
(* at a line of the group it took, the new ones under new numbers.              *)
LEMMA AddRecordsBuffer ==
    ASSUME ApiTypeOK, NEW f \in Files, AddRecords(f), Increasing(Waiting(f))
    PROVE  /\ nextSeq' \in Nat /\ nextSeq <= nextSeq'
           /\ DOMAIN records' \subseteq 1 .. nextSeq' /\ records' \in [DOMAIN records' -> Record]
           /\ Cardinality(DOMAIN records') <= MaxBuffered
           /\ \A q \in DOMAIN records' :
                 \/ Kept(records, records', q)
                 \/ /\ IF q \in DOMAIN records THEN records[q].file = f ELSE nextSeq < q
                    /\ records'[q].file = f /\ InGroup(Waiting(f), records'[q].off)
<1> DEFINE group == Waiting(f)
           parts == Normalized(group)
           after == AllAdded(f, parts)
<1>1. group \in Seq(Nat) /\ Len(group) \in Nat
  BY TakeType, LenProperties DEF AddRecords, ApiTypeOK
<1>2. nextSeq' = after.seq /\ records' = Trimmed(after.recs)
  BY DEF AddRecords
<1> HIDE DEF group, after
<1>3. /\ parts \in Seq(Part) /\ Len(parts) \in Nat
      /\ \A k \in 1 .. Len(parts) : \E j \in 1 .. Len(group) : parts[k].off = group[j]
  <2>1. parts \in PartsOf(group, Len(group))
    BY <1>1, NormalizedParts DEF group
  <2> HIDE DEF parts
  <2> QED BY <2>1, LenProperties DEF PartsOf, FirstLines
<1> HIDE DEF parts
<1>4. PICK g \in Additions(f, parts) : TRUE
  BY <1>3, AdditionsExist
<1>5. after \in StatesAfter(f, parts, Len(parts))
  BY <1>3 DEF Additions, after
<1>6. /\ after.seq \in Nat /\ after.recs \in Buffers /\ DOMAIN after.recs \subseteq 1 .. after.seq
      /\ nextSeq <= after.seq
      /\ \A q \in DOMAIN after.recs :
            \/ Kept(records, after.recs, q)
            \/ /\ IF q \in DOMAIN records THEN records[q].file = f ELSE nextSeq < q
               /\ \E j \in 1 .. Len(parts) : Placed(after.recs, q, f, parts[j].off)
  BY <1>5 DEF StatesAfter, BufferStates
<1>7. /\ DOMAIN records' \subseteq DOMAIN after.recs
      /\ records' \in [DOMAIN records' -> Record]
      /\ \A q \in DOMAIN records' : records'[q] = after.recs[q]
      /\ Cardinality(DOMAIN records') <= MaxBuffered
  BY <1>2, <1>6, TrimmedBuffer
<1>8. ASSUME NEW q \in DOMAIN records'
      PROVE  \/ Kept(records, records', q)
             \/ /\ IF q \in DOMAIN records THEN records[q].file = f ELSE nextSeq < q
                /\ records'[q].file = f /\ InGroup(group, records'[q].off)
  <2>1. CASE Kept(records, after.recs, q)
    BY <1>7, <2>1 DEF Kept
  <2>2. CASE ~Kept(records, after.recs, q)
    <3>1. PICK j \in 1 .. Len(parts) : Placed(after.recs, q, f, parts[j].off)
      BY <1>6, <1>7, <2>2
    <3>2. PICK k \in 1 .. Len(group) : parts[j].off = group[k]
      BY <1>3
    <3> QED BY <1>6, <1>7, <2>2, <3>1, <3>2 DEF Placed, InGroup
  <2> QED BY <2>1, <2>2
<1> QED BY <1>2, <1>6, <1>7, <1>8 DEF group

(* And what it does with the lines: records of the buffer keep theirs and gain only *)
(* such as may join them, new records are made of the group; where nothing is       *)
(* dropped, every line of the group is in the buffer afterwards.                    *)
LEMMA AddRecordsLines ==
    ASSUME ApiTypeOK, NEW f \in Files, AddRecords(f), Increasing(Waiting(f))
    PROVE  /\ \A q \in DOMAIN records \cap DOMAIN records' :
                 records'[q].file = records[q].file /\ Grown(records, records', q)
           /\ \A q \in DOMAIN records' \ DOMAIN records :
                 \A n \in records'[q].lines \ Joining : InGroup(Waiting(f), n)
           /\ nextSeq' <= MaxBuffered =>
                 /\ DOMAIN records \subseteq DOMAIN records'
                 /\ \A n : InGroup(Waiting(f), n) => Held(records', f, {n})
<1> DEFINE group == Waiting(f)
           parts == Normalized(group)
           after == AllAdded(f, parts)
<1>1. group \in Seq(Nat) /\ Len(group) \in Nat
  BY TakeType, LenProperties DEF AddRecords, ApiTypeOK
<1>2. nextSeq' = after.seq /\ records' = Trimmed(after.recs)
  BY DEF AddRecords
<1> HIDE DEF group, after
<1>3. /\ parts \in Seq(Part) /\ Len(parts) \in Nat
      /\ \A k \in 1 .. Len(parts) : parts[k].lines \subseteq FirstLines(group, Len(group))
      /\ \A n \in FirstLines(group, Len(group)) : \E k \in 1 .. Len(parts) : n \in parts[k].lines
  <2>1. parts \in PartsOf(group, Len(group))
    BY <1>1, NormalizedParts DEF group
  <2> HIDE DEF parts
  <2> QED BY <2>1, LenProperties DEF PartsOf
<1>g. \A n : InGroup(group, n) <=> n \in FirstLines(group, Len(group))
  BY DEF InGroup, FirstLines
<1> HIDE DEF parts
<1>4. PICK g \in Additions(f, parts) : TRUE
  BY <1>3, AdditionsExist
<1>5. after \in StatesAfter(f, parts, Len(parts))
  BY <1>3 DEF Additions, after
<1>6. /\ after.seq \in Nat /\ after.recs \in Buffers /\ DOMAIN after.recs \subseteq 1 .. after.seq
      /\ DOMAIN records \subseteq DOMAIN after.recs
      /\ \A q \in DOMAIN records : after.recs[q].file = records[q].file
      /\ \A q \in DOMAIN records : Grown(records, after.recs, q)
      /\ \A q \in DOMAIN after.recs \ DOMAIN records :
            \A n \in after.recs[q].lines \ Joining : \E j \in 1 .. Len(parts) : n \in parts[j].lines
      /\ \A j \in 1 .. Len(parts) : Held(after.recs, f, parts[j].lines)
  BY <1>5 DEF StatesAfter, BufferStates, Kept, Placed
<1>7. /\ DOMAIN records' \subseteq DOMAIN after.recs
      /\ \A q \in DOMAIN records' : records'[q] = after.recs[q]
      /\ after.seq <= MaxBuffered => DOMAIN records' = DOMAIN after.recs
  BY <1>2, <1>6, TrimmedBuffer
<1>8. \A q \in DOMAIN records \cap DOMAIN records' :
         records'[q].file = records[q].file /\ Grown(records, records', q)
  BY <1>6, <1>7 DEF Grown
<1>9. ASSUME NEW q \in DOMAIN records' \ DOMAIN records, NEW n \in records'[q].lines \ Joining
      PROVE  InGroup(group, n)
  BY <1>3, <1>6, <1>7, <1>9, <1>g
<1>10. ASSUME nextSeq' <= MaxBuffered
       PROVE  /\ DOMAIN records \subseteq DOMAIN records'
              /\ \A n : InGroup(group, n) => Held(records', f, {n})
  <2>1. DOMAIN records' = DOMAIN after.recs
    BY <1>2, <1>7, <1>10
  <2>2. ASSUME NEW n, InGroup(group, n) PROVE Held(records', f, {n})
    <3>1. PICK k \in 1 .. Len(parts) : n \in parts[k].lines
      BY <1>3, <1>g, <2>2
    <3>2. PICK q \in DOMAIN after.recs : after.recs[q].file = f /\ parts[k].lines \subseteq after.recs[q].lines
      BY <1>6 DEF Held
    <3> QED BY <1>7, <2>1, <3>1, <3>2 DEF Held
  <2> QED BY <1>6, <2>1, <2>2
<1> QED BY <1>8, <1>9, <1>10 DEF group
-----------------------------------------------------------------------------
(***************************************************************************)
(* The service: which numbers the cursors and the batches cover.           *)
(***************************************************************************)
BatchNumbers(b) ==
    /\ b.next <= nextSeq
    /\ \A q \in DOMAIN b.recs : q \in Nat /\ q <= b.next /\ b.recs[q].file \in FilesOf[b.scope]

BatchComplete(b) ==
    \A q \in Matching(b.scope) : q <= b.next => q \in DOMAIN b.recs \/ Covered(b.scope, q)

CommittedNumbers(s) == committed[s] <= nextSeq \/ committed[s] <= vouched[s]

IInv ==
    /\ ApiTypeOK
    /\ \A f \in Files : GroupsInOrder(f)
    /\ \A b \in pending : BatchNumbers(b) /\ BatchComplete(b)
    /\ \A s \in Scopes : CommittedNumbers(s)
    /\ CommittedCoversOnlyAcked

(* The types at hand. *)
LEMMA ApiTypes ==
    ASSUME ApiTypeOK
    PROVE  /\ CollectionTypeOK /\ nextSeq \in Nat
           /\ \A q \in DOMAIN records : /\ q \in 1 .. nextSeq /\ q \in Nat /\ 0 < q /\ q <= nextSeq
                                        /\ records[q] \in Record
                                        /\ records[q].file \in Files /\ records[q].off \in Nat
           /\ \A s \in Scopes : /\ committed[s] \in Nat /\ vouched[s] \in Nat /\ acked[s] \in SUBSET Nat
                                /\ FilesOf[s] \in SUBSET Files
           /\ \A b \in pending : /\ b.scope \in Scopes /\ b.next \in DOMAIN b.recs
                                 /\ \A q \in DOMAIN b.recs : b.recs[q] \in Record
  <1>1. \A q \in DOMAIN records : records[q] \in Record
    BY DEF ApiTypeOK
  <1>2. \A q \in DOMAIN records : records[q].file \in Files /\ records[q].off \in Nat
    BY <1>1 DEF Record
  <1> QED BY <1>1, <1>2, PullApiAssumption DEF ApiTypeOK

(* The initial state satisfies the invariant of the numbers. *)
LEMMA ApiInitIInv == ApiInit => IInv
<1> SUFFICES ASSUME ApiInit PROVE IInv
  OBVIOUS
<1>1. DOMAIN records = {} /\ records \in [{} -> Record]
  BY DEF ApiInit, NothingBuffered
<1>2. CollectionInit
  BY DEF ApiInit
<1>3. CollectionTypeOK
  BY <1>2 DEF CollectionInit, AtStart, NoLines, CollectionTypeOK
<1>4. Cardinality(DOMAIN records) = 0
  BY <1>1, FS_EmptySet
<1>5. ApiTypeOK
  BY <1>1, <1>3, <1>4, PullApiAssumption DEF ApiInit, ApiTypeOK, NothingCommitted, NothingAcked
<1>6. \A f \in Files : GroupsInOrder(f)
  BY <1>2, InitInOrder
<1>7. \A s \in Scopes : CommittedNumbers(s)
  BY DEF ApiInit, NothingCommitted, CommittedNumbers
<1>8. CommittedCoversOnlyAcked
  BY <1>1 DEF CommittedCoversOnlyAcked, Matching
<1> QED BY <1>5, <1>6, <1>7, <1>8 DEF ApiInit, IInv

(* Scans and flushes leave the service alone. *)
LEMMA ServiceUnchangedIInv ==
    ASSUME IInv, CollectionTypeOK', \A f \in Files : GroupsInOrder(f)',
           UNCHANGED <<nextSeq, records, committed, acked, vouched>>, pending' \subseteq pending
    PROVE  IInv'
<1>1. ApiTypeOK'
  BY DEF IInv, ApiTypeOK
<1>2. \A b \in pending' : BatchNumbers(b)' /\ BatchComplete(b)'
  BY DEF IInv, BatchNumbers, BatchComplete, Matching, Covered
<1>3. \A s \in Scopes : CommittedNumbers(s)'
  BY DEF IInv, CommittedNumbers
<1>4. CommittedCoversOnlyAcked'
  BY DEF IInv, CommittedCoversOnlyAcked, Matching, Covered
<1> QED BY <1>1, <1>2, <1>3, <1>4 DEF IInv

(* A scan keeps it. *)
LEMMA CollectIInv == ASSUME IInv, NEW f \in Files, NEW n \in ScanSizes, Collect(f, n) PROVE IInv'
<1>1. Scan(f, n) /\ CollectionTypeOK /\ UNCHANGED serviceVars
  BY DEF Collect, IInv, ApiTypeOK
<1>2. CollectionTypeOK' /\ \A e \in Files : GroupsInOrder(e)'
  BY <1>1, ScanType, ScanInOrder DEF IInv
<1> QED BY <1>1, <1>2, ServiceUnchangedIInv DEF serviceVars

(* New records have numbers no batch and no committed cursor can mean. *)
LEMMA AddRecordsIInv == ASSUME IInv, NEW f \in Files, AddRecords(f) PROVE IInv'
<1>t. ApiTypeOK /\ CollectionTypeOK
  BY DEF IInv, ApiTypeOK
<1>1. Take(f) /\ UNCHANGED <<committed, pending, acked, vouched>>
  BY DEF AddRecords
<1>2. /\ CollectionTypeOK' /\ Increasing(Waiting(f))
      /\ \A e \in Files : GroupsInOrder(e)'
  BY <1>1, <1>t, TakeType, TakeInOrder DEF IInv
<1>3. /\ nextSeq' \in Nat /\ nextSeq <= nextSeq' /\ nextSeq \in Nat
      /\ DOMAIN records' \subseteq 1 .. nextSeq' /\ records' \in [DOMAIN records' -> Record]
      /\ Cardinality(DOMAIN records') <= MaxBuffered
      /\ \A q \in DOMAIN records' :
            \/ q \in DOMAIN records /\ records'[q].file = records[q].file
            \/ q \notin DOMAIN records /\ nextSeq < q
  BY <1>2, <1>t, AddRecordsBuffer DEF Kept, ApiTypeOK
<1>4. ApiTypeOK'
  BY <1>t, <1>1, <1>2, <1>3 DEF ApiTypeOK
<1>5. \A s \in Scopes : \A q \in Matching(s)' : q \in Nat /\ (q \in Matching(s) \/ nextSeq < q)
  BY <1>3 DEF Matching
<1>6. ASSUME NEW b \in pending PROVE BatchNumbers(b)' /\ BatchComplete(b)'
  <2>1. b.scope \in Scopes /\ b.next \in Nat /\ BatchNumbers(b) /\ BatchComplete(b)
    BY <1>t, ApiTypes DEF IInv, BatchNumbers
  <2>2. BatchNumbers(b)'
    BY <1>3, <2>1 DEF BatchNumbers
  <2>3. BatchComplete(b)'
    BY <1>1, <1>3, <1>5, <2>1 DEF BatchNumbers, BatchComplete, Covered
  <2> QED BY <2>2, <2>3
<1>7. \A s \in Scopes : CommittedNumbers(s)'
  BY <1>t, <1>1, <1>3, ApiTypes DEF IInv, CommittedNumbers
<1>8. CommittedCoversOnlyAcked'
  <2> SUFFICES ASSUME NEW s \in Scopes, NEW q \in Matching(s)', q <= committed[s]
               PROVE  q \in acked[s] \/ q <= vouched[s]
    BY <1>1 DEF CommittedCoversOnlyAcked, Covered
  <2>1. CASE q \in Matching(s)
    BY <2>1 DEF IInv, CommittedCoversOnlyAcked, Covered
  <2>2. CASE nextSeq < q
    <3>1. committed[s] \in Nat /\ vouched[s] \in Nat /\ q \in Nat
      BY <1>t, <1>5, ApiTypes
    <3> QED BY <1>3, <2>2, <3>1 DEF IInv, CommittedNumbers
  <2> QED BY <1>5, <2>1, <2>2
<1> QED BY <1>1, <1>2, <1>4, <1>6, <1>7, <1>8 DEF IInv
(* A pull takes all that is buffered up to its last record and above a start *)
(* below which everything is answered for.                                   *)
LEMMA PullBatch ==
    ASSUME IInv, NEW s \in Scopes, NEW c \in Nat \cup {NoCursor}, NEW n \in Nat,
           NEW id \in BatchIds, NEW b \in Response(s, c, n, id)
    PROVE  /\ b.id = id /\ b.scope = s
           /\ b.next \in DOMAIN b.recs /\ DOMAIN b.recs \subseteq Matching(s)
           /\ \A q \in DOMAIN b.recs : q <= b.next /\ b.recs[q] = records[q]
           /\ b.recs \in [DOMAIN b.recs -> Record]
           /\ \A q \in Matching(s) : q <= b.next =>
                 \/ q \in DOMAIN b.recs
                 \/ Covered(s, q)
                 \/ c # NoCursor /\ q <= c
<1> DEFINE start == StartCursor(s, c)
           above == {q \in Matching(s) : q > start}
           chosen == Selected(s, start, n)
<1>t. ApiTypeOK
  BY DEF IInv
<1>1. \A q \in Matching(s) : q \in DOMAIN records /\ q \in Nat /\ 0 < q /\ q <= nextSeq
  BY <1>t, ApiTypes DEF Matching
<1>2. /\ chosen = {q \in above : Cardinality({p \in above : p <= q}) <= n}
      /\ chosen \subseteq Matching(s)
  BY DEF Selected
<1>3. PICK last \in {q \in chosen : \A p \in chosen : p <= q} :
         b = [id |-> id, scope |-> s, next |-> last, recs |-> [q \in chosen |-> records[q]]]
  BY DEF Response
<1>4. /\ b.id = id /\ b.scope = s /\ b.next = last /\ DOMAIN b.recs = chosen
      /\ \A q \in chosen : q <= last /\ b.recs[q] = records[q]
      /\ b.recs \in [chosen -> Record]
  BY <1>t, <1>1, <1>2, <1>3, ApiTypes
<1>5. start \in Nat
  BY <1>t, ApiTypes DEF StartCursor
<1>6. ASSUME NEW q \in Matching(s), q <= last, q > start PROVE q \in chosen
  <2> DEFINE upTo(x) == {p \in above : p <= x}
  <2>1. last \in above /\ last \in Nat /\ q \in Nat /\ Cardinality(upTo(last)) <= n
    BY <1>1, <1>2
  <2>2. upTo(last) \subseteq 1 .. nextSeq /\ upTo(q) \subseteq upTo(last)
    <3>1. \A p \in above : p \in 1 .. nextSeq /\ p \in Nat
      BY <1>1, <1>t, ApiTypes
    <3>2. q \in Nat /\ last \in Nat /\ q <= last
      BY <1>6, <2>1
    <3> HIDE DEF above
    <3>3. \A p \in above : p <= q => p <= last
      BY <3>1, <3>2
    <3> QED BY <3>1, <3>3
  <2>3. IsFiniteSet(upTo(last))
    <3>1. IsFiniteSet(1 .. nextSeq)
      <4>1. 1 \in Int /\ nextSeq \in Int
        BY <1>t DEF ApiTypeOK
      <4> QED BY <4>1, FS_Interval
    <3> QED BY <2>2, <3>1, FS_Subset
  <2>4. /\ Cardinality(upTo(q)) <= Cardinality(upTo(last))
        /\ Cardinality(upTo(q)) \in Nat /\ Cardinality(upTo(last)) \in Nat
    <3> HIDE DEF upTo
    <3> QED BY <2>2, <2>3, FS_Subset, FS_CardinalityType
  <2>5. Cardinality(upTo(q)) <= n
    <3> HIDE DEF upTo
    <3> QED BY <2>1, <2>4
  <2> QED BY <1>2, <1>6, <2>5
<1>7. ASSUME NEW q \in Matching(s), ~(q > start)
      PROVE  Covered(s, q) \/ (c # NoCursor /\ q <= c)
  <2>1. q <= start /\ start # 0
    BY <1>1, <1>5, <1>7
  <2>2. CASE c = NoCursor
    <3>1. start = committed[s]
      BY <2>1, <2>2 DEF StartCursor
    <3> QED BY <2>1, <3>1 DEF IInv, CommittedCoversOnlyAcked
  <2>3. CASE c # NoCursor
    BY <2>1, <2>3 DEF StartCursor
  <2> QED BY <2>2, <2>3
<1> HIDE DEF chosen, above, start
<1> QED BY <1>2, <1>3, <1>4, <1>6, <1>7

(* A pull keeps it: the batch it makes is complete below the number it ends with. *)
LEMMA PullIInv ==
    ASSUME IInv, NEW s \in Scopes, NEW c \in Nat \cup {NoCursor}, NEW n \in Nat,
           NEW id \in BatchIds, Pull(s, c, n, id)
    PROVE  IInv'
<1>t. ApiTypeOK /\ NoCursor \notin Nat
  BY PullApiAssumption DEF IInv
<1>1. /\ UNCHANGED <<nextSeq, records, committed, acked>> /\ UNCHANGED collectionVars
      /\ pending' = pending \cup Response(s, c, n, id)
      /\ vouched' = [vouched EXCEPT ![s] = Vouched(@, c)]
  BY DEF Pull
<1>2. /\ vouched' \in [Scopes -> Nat]
      /\ \A x \in Scopes : vouched[x] <= vouched'[x]
      /\ c # NoCursor => c <= vouched'[s]
  BY <1>1, <1>t DEF ApiTypeOK, Vouched, Larger
<1>3. \A x \in Scopes : \A q \in Nat : Covered(x, q) => Covered(x, q)'
  BY <1>1, <1>2, <1>t DEF Covered, ApiTypeOK
<1>4. \A x \in Scopes : Matching(x)' = Matching(x) /\ \A q \in Matching(x) : q \in Nat
  BY <1>1, <1>t, ApiTypes DEF Matching
<1>5. ASSUME NEW b \in pending'
      PROVE  /\ b.id \in BatchIds /\ b.scope \in Scopes /\ b.next \in DOMAIN b.recs
             /\ b.recs \in [DOMAIN b.recs -> Record]
             /\ BatchNumbers(b)' /\ BatchComplete(b)'
  <2>1. CASE b \in pending
    <3>1. b.scope \in Scopes
      BY <1>t, <2>1 DEF ApiTypeOK
    <3>2. BatchComplete(b)'
      BY <1>3, <1>4, <2>1, <3>1 DEF IInv, BatchComplete
    <3>3. BatchNumbers(b)'
      BY <1>1, <2>1 DEF IInv, BatchNumbers
    <3> QED BY <1>t, <2>1, <3>2, <3>3 DEF ApiTypeOK
  <2>2. CASE b \in Response(s, c, n, id)
    <3>1. /\ b.id = id /\ b.scope = s
          /\ b.next \in DOMAIN b.recs /\ DOMAIN b.recs \subseteq Matching(s)
          /\ \A q \in DOMAIN b.recs : q <= b.next /\ b.recs[q] = records[q]
          /\ b.recs \in [DOMAIN b.recs -> Record]
          /\ \A q \in Matching(s) : q <= b.next =>
                q \in DOMAIN b.recs \/ Covered(s, q) \/ (c # NoCursor /\ q <= c)
      BY <2>2, PullBatch
    <3>2. BatchNumbers(b)'
      BY <1>1, <1>t, <3>1, ApiTypes DEF BatchNumbers, Matching
    <3>3. \A q \in Matching(s) : c # NoCursor /\ q <= c => Covered(s, q)'
      BY <1>2, <1>4 DEF Covered
    <3>4. BatchComplete(b)'
      BY <1>3, <1>4, <3>1, <3>3 DEF BatchComplete
    <3> QED BY <3>1, <3>2, <3>4
  <2> QED BY <1>1, <2>1, <2>2
<1>6. ApiTypeOK'
  BY <1>1, <1>2, <1>5, <1>t DEF ApiTypeOK, CollectionTypeOK, collectionVars
<1>7. \A x \in Scopes : CommittedNumbers(x)'
  BY <1>1, <1>2, <1>t DEF IInv, CommittedNumbers, ApiTypeOK
<1>8. CommittedCoversOnlyAcked'
  BY <1>1, <1>3, <1>4 DEF IInv, CommittedCoversOnlyAcked
<1>9. \A f \in Files : GroupsInOrder(f)'
  BY <1>1 DEF IInv, GroupsInOrder, Waits, collectionVars
<1> QED BY <1>5, <1>6, <1>7, <1>8, <1>9 DEF IInv

(* An acknowledgement saves for each file one of the batch's offsets or none. *)
LEMMA SavedOffset ==
    ASSUME IInv, NEW b \in pending
    PROVE  /\ SavedOffsets(b) = [f \in Files |-> SavedOffsets(b)[f]]
           /\ \A f \in Files :
                 \/ SavedOffsets(b)[f] = saved[f]
                 \/ /\ SavedOffsets(b)[f] \in Nat
                    /\ \E q \in DOMAIN b.recs : b.recs[q].file = f /\ b.recs[q].off = SavedOffsets(b)[f]
<1>1. SavedOffsets(b) = [f \in Files |-> SavedOffsets(b)[f]]
  BY DEF SavedOffsets
<1>2. ASSUME NEW f \in Files, SavedOffsets(b)[f] # saved[f]
      PROVE  /\ SavedOffsets(b)[f] \in Nat
             /\ \E q \in DOMAIN b.recs : b.recs[q].file = f /\ b.recs[q].off = SavedOffsets(b)[f]
  <2> DEFINE D == {q \in DOMAIN b.recs : b.recs[q].file = f}
             offsets == {b.recs[q].off : q \in D}
  <2>1. /\ b.next \in Nat /\ \A q \in DOMAIN b.recs : q \in Nat /\ q <= b.next /\ b.recs[q].off \in Nat
    BY ApiTypes DEF IInv, BatchNumbers, Record
  <2>2. IsFiniteSet(D)
    <3>1. IsFiniteSet(0 .. b.next) /\ D \subseteq 0 .. b.next
      BY <2>1, FS_Interval
    <3> QED BY <3>1, FS_Subset
  <2>3. IsFiniteSet(offsets)
    <3> DEFINE off == [q \in D |-> b.recs[q].off]
    <3>1. off \in Surjection(D, offsets)
      BY DEF Surjection
    <3> HIDE DEF off, D, offsets
    <3> QED BY <2>2, <3>1, FS_Surjection
  <2>4. offsets # {} /\ SavedOffsets(b)[f] = Max(offsets)
    BY <1>2 DEF SavedOffsets
  <2>5. offsets \subseteq Nat
    BY <2>1
  <2>6. Max(offsets) \in offsets
    <3> HIDE DEF offsets
    <3> QED BY <2>3, <2>4, <2>5, LargestNumber
  <2> QED BY <2>4, <2>5, <2>6
<1> QED BY <1>1, <1>2

(* An acknowledgement answers for all that its cursors cover. *)
LEMMA AckIInv ==
    ASSUME IInv, NEW b \in pending, NEW c \in Nat \cup {NoCursor}, AckBatch(b, c)
    PROVE  /\ IInv'
           /\ \A x \in Scopes : committed[x] <= committed'[x]
<1> DEFINE s == b.scope
           high == CommittedCursor(b, c)
<1>t. ApiTypeOK /\ NoCursor \notin Nat
  BY PullApiAssumption DEF IInv
<1>1. /\ UNCHANGED <<nextSeq, records>> /\ UNCHANGED <<read, hot, rest, disk, crashes>>
      /\ pending' = pending \ {b}
      /\ committed' = [committed EXCEPT ![s] = RaisedCursor(s, high)]
      /\ saved' = SavedOffsets(b)
      /\ acked' = [acked EXCEPT ![s] = @ \cup DOMAIN b.recs]
      /\ vouched' = [vouched EXCEPT ![s] = Vouched(@, c)]
  BY DEF AckBatch
<1>2. /\ s \in Scopes /\ b.next \in Nat /\ b.next <= nextSeq
      /\ DOMAIN b.recs \in SUBSET Nat
      /\ BatchComplete(b)
  BY <1>t, ApiTypes DEF IInv, BatchNumbers
<1>3. high \in Nat /\ high \in {b.next} \cup (IF c = NoCursor THEN {} ELSE {c})
  BY <1>2 DEF CommittedCursor, Larger
<1> HIDE DEF s, high
<1>4. /\ committed' \in [Scopes -> Nat]
      /\ \A x \in Scopes : committed'[x] = committed[x] \/ (x = s /\ committed'[x] = high)
      /\ \A x \in Scopes : committed[x] <= committed'[x]
  BY <1>1, <1>2, <1>3, <1>t DEF ApiTypeOK, RaisedCursor, Larger
<1>5. /\ vouched' \in [Scopes -> Nat]
      /\ \A x \in Scopes : vouched[x] <= vouched'[x]
      /\ c # NoCursor => c <= vouched'[s]
  BY <1>1, <1>2, <1>t DEF ApiTypeOK, Vouched, Larger
<1>6. /\ acked' \in [Scopes -> SUBSET Nat]
      /\ \A x \in Scopes : acked[x] \subseteq acked'[x]
      /\ DOMAIN b.recs \subseteq acked'[s]
  BY <1>1, <1>2, <1>t DEF ApiTypeOK
<1>7. \A x \in Scopes : \A q \in Nat : Covered(x, q) => Covered(x, q)'
  BY <1>5, <1>6, <1>t DEF Covered, ApiTypeOK
<1>8. \A x \in Scopes : Matching(x)' = Matching(x) /\ \A q \in Matching(x) : q \in Nat
  BY <1>1, <1>t, ApiTypes DEF Matching
<1>9. saved' \in [Files -> Nat]
  <2>1. saved \in [Files -> Nat]
    BY <1>t DEF ApiTypeOK, CollectionTypeOK
  <2> QED BY <1>1, <2>1, SavedOffset, Zenon
<1>10. CollectionTypeOK'
  BY <1>1, <1>9, <1>t DEF ApiTypeOK, CollectionTypeOK
<1>11. ApiTypeOK'
  BY <1>1, <1>4, <1>5, <1>6, <1>10, <1>t DEF ApiTypeOK
<1>12. ASSUME NEW x \in pending' PROVE BatchNumbers(x)' /\ BatchComplete(x)'
  <2>1. x \in pending /\ x.scope \in Scopes
    BY <1>1, <1>t DEF ApiTypeOK
  <2> QED BY <1>1, <1>7, <1>8, <2>1 DEF IInv, BatchNumbers, BatchComplete
<1>13. \A x \in Scopes : CommittedNumbers(x)'
  BY <1>1, <1>2, <1>3, <1>4, <1>5, <1>t DEF IInv, CommittedNumbers, ApiTypeOK
<1>14. CommittedCoversOnlyAcked'
  <2> SUFFICES ASSUME NEW x \in Scopes, NEW q \in Matching(x), q <= committed'[x]
               PROVE  Covered(x, q)'
    BY <1>8 DEF CommittedCoversOnlyAcked
  <2>1. CASE q <= committed[x]
    BY <1>7, <1>8, <2>1 DEF IInv, CommittedCoversOnlyAcked
  <2>2. CASE x = s /\ q <= b.next
    BY <1>2, <1>6, <1>7, <1>8, <2>2 DEF BatchComplete, Covered, s
  <2>3. CASE x = s /\ c # NoCursor /\ q <= c
    <3>1. vouched'[s] \in Nat /\ c \in Nat /\ q \in Nat
      BY <1>2, <1>5, <1>8, <2>3
    <3> QED BY <1>5, <2>3, <3>1 DEF Covered
  <2> QED BY <1>3, <1>4, <2>1, <2>2, <2>3
<1>15. \A f \in Files : GroupsInOrder(f)'
  BY <1>1 DEF IInv, GroupsInOrder, Waits
<1> QED BY <1>4, <1>11, <1>12, <1>13, <1>14, <1>15 DEF IInv

(* A refused batch is forgotten, and a flush writes positions: both keep it. *)
LEMMA NackIInv == ASSUME IInv, NEW b \in pending, NackBatch(b) PROVE IInv'
<1>1. /\ UNCHANGED <<nextSeq, records, committed, acked, vouched>>
      /\ pending' \subseteq pending /\ UNCHANGED collectionVars
  BY DEF NackBatch
<1>2. CollectionTypeOK' /\ \A f \in Files : GroupsInOrder(f)'
  BY <1>1 DEF IInv, ApiTypeOK, CollectionTypeOK, GroupsInOrder, Waits, collectionVars
<1> QED BY <1>1, <1>2, ServiceUnchangedIInv

(* Likewise for the flush. *)
LEMMA FlushIInv == ASSUME IInv, Flush PROVE IInv'
<1>1. FlushPositions /\ UNCHANGED serviceVars
  BY DEF Flush
<1>2. CollectionTypeOK' /\ \A f \in Files : GroupsInOrder(f)'
  BY <1>1 DEF IInv, ApiTypeOK, CollectionTypeOK, GroupsInOrder, Waits, FlushPositions
<1> QED BY <1>1, <1>2, ServiceUnchangedIInv DEF serviceVars

(* A restart of the agent empties what the invariant speaks of. *)
LEMMA RestartIInv == ASSUME IInv, Restart PROVE IInv'
<1>1. /\ RestartCollection /\ nextSeq' = 0 /\ records' = NothingBuffered
      /\ committed' = NothingCommitted /\ pending' = {}
      /\ acked' = NothingAcked /\ vouched' = NothingCommitted
  BY DEF Restart
<1>2. CollectionTypeOK' /\ \A f \in Files : GroupsInOrder(f)'
  BY <1>1, RestartType, RestartInOrder DEF IInv, ApiTypeOK
<1>3. DOMAIN records' = {} /\ records' \in [{} -> Record]
  BY <1>1 DEF NothingBuffered
<1>4. Cardinality(DOMAIN records') = 0
  BY <1>3, FS_EmptySet
<1>5. ApiTypeOK'
  BY <1>1, <1>2, <1>3, <1>4, PullApiAssumption DEF ApiTypeOK, NothingCommitted, NothingAcked
<1>6. \A s \in Scopes : CommittedNumbers(s)'
  BY <1>1 DEF NothingCommitted, CommittedNumbers
<1>7. CommittedCoversOnlyAcked'
  BY <1>3 DEF CommittedCoversOnlyAcked, Matching
<1> QED BY <1>1, <1>2, <1>5, <1>6, <1>7 DEF IInv

\* What any caller may make the service do.
ServiceStep ==
    \/ \E f \in Files, n \in ScanSizes : Collect(f, n)
    \/ \E f \in Files : AddRecords(f)
    \/ \E s \in Scopes, c \in Nat \cup {NoCursor}, n \in Nat, id \in BatchIds : Pull(s, c, n, id)
    \/ \E b \in pending, c \in Nat \cup {NoCursor} : AckBatch(b, c)
    \/ \E b \in pending : NackBatch(b)
    \/ Flush
    \/ Restart
    \/ UNCHANGED apiVars

(* Callers of bounded runs are among those the lemmas allow. *)
LEMMA ApiNextIsServiceStep == [ApiNext]_apiVars => ServiceStep
  BY PullApiAssumption DEF ApiNext, ServiceStep

(* No step of the service undoes the invariant. *)
LEMMA ServiceStepIInv == IInv /\ ServiceStep => IInv'
<1>1. ASSUME IInv, UNCHANGED apiVars PROVE IInv'
  <2>1. CollectionTypeOK' /\ \A f \in Files : GroupsInOrder(f)'
    BY <1>1 DEF IInv, ApiTypeOK, CollectionTypeOK, GroupsInOrder, Waits, apiVars, collectionVars
  <2> QED BY <1>1, <2>1, ServiceUnchangedIInv DEF apiVars, serviceVars
<1> QED BY <1>1, CollectIInv, AddRecordsIInv, PullIInv, AckIInv, NackIInv, FlushIInv, RestartIInv
    DEF ServiceStep

(* So the invariant holds throughout. *)
LEMMA ApiSpecIInv == ApiSpec => []IInv
  BY ApiInitIInv, ApiNextIsServiceStep, ServiceStepIInv, PTL DEF ApiSpec

(* The v1 service keeps its buffer, cursors and batches well-formed, and the buffer
   within its size (AddRecords, Pull and Ack of service.go). *)
THEOREM ApiTypeCorrect == ApiSpec => []ApiTypeOK
<1>1. IInv => ApiTypeOK
  BY DEF IInv
<1> QED BY <1>1, ApiSpecIInv, PTL

(* The committed cursor of a scope covers a buffered record only if it was in a
   batch that was acknowledged, or below a cursor the caller sent (Ack). *)
THEOREM CommittedOnlyWhatIsAnsweredFor == ApiSpec => []CommittedCoversOnlyAcked
<1>1. IInv => CommittedCoversOnlyAcked
  BY DEF IInv
<1> QED BY <1>1, ApiSpecIInv, PTL

(* No acknowledgement moves the committed cursor of a scope back, in whatever order
   those of overlapping batches arrive; only a restart resets it (Ack). *)
THEOREM CommittedCursorsOnlyRise == ApiSpec => CommittedNeverMovesBack
<1> DEFINE Rises == crashes' = crashes => \A s \in Scopes : committed'[s] >= committed[s]
<1>1. ASSUME IInv, [ApiNext]_apiVars PROVE Rises
  <2>t. \A s \in Scopes : committed[s] \in Nat
    BY <1>1, ApiTypes DEF IInv
  <2>1. ASSUME NEW b \in pending, NEW c \in CommitCursors, AckBatch(b, c) PROVE Rises
    <3>1. c \in Nat \cup {NoCursor}
      BY PullApiAssumption
    <3>2. \A s \in Scopes : committed[s] <= committed'[s]
      BY <1>1, <2>1, <3>1, AckIInv
    <3>3. \A s \in Scopes : committed'[s] \in Nat
      BY <1>1, <2>1, <3>1, AckIInv, ApiTypes DEF IInv, ApiTypeOK
    <3> QED BY <2>t, <3>2, <3>3
  <2>2. ASSUME Restart PROVE Rises
    <3>1. crashes \in Nat /\ crashes' = crashes + 1
      BY <1>1, <2>2 DEF IInv, ApiTypeOK, CollectionTypeOK, Restart, RestartCollection
    <3> QED BY <3>1
  <2>3. ASSUME UNCHANGED committed PROVE Rises
    BY <2>t, <2>3
  <2> QED BY <1>1, <2>1, <2>2, <2>3
      DEF ApiNext, Collect, AddRecords, Pull, NackBatch, Flush, apiVars, serviceVars
<1>2. IInv /\ [ApiNext]_apiVars => [Rises]_apiVars
  BY <1>1
<1> QED BY <1>2, ApiSpecIInv, PTL DEF ApiSpec, CommittedNeverMovesBack
-----------------------------------------------------------------------------
(***************************************************************************)
(* The order of offsets: but for lines that a critical one overtakes they  *)
(* grow with the numbers of the buffer, from a batch to the records after  *)
(* it and to the lines on their way.                                       *)
(***************************************************************************)
RecordsInOrder ==
    \A p, q \in DOMAIN records :
        records[p].file = records[q].file /\ p < q => Ahead(records[p].off, records[q].off)

RecordsPassed == \A q \in DOMAIN records : Passed(records[q].file, records[q].off)

BatchOffsets(b) ==
    \A p \in DOMAIN b.recs :
        /\ Passed(b.recs[p].file, b.recs[p].off)
        /\ \A q \in DOMAIN records :
              records[q].file = b.recs[p].file /\ b.next < q => Ahead(b.recs[p].off, records[q].off)

Answered(q) == \E s \in Scopes : Covered(s, q)

\* A checkpoint at offset o of file f is behind every record that nobody answers for.
Clear(f, o) ==
    /\ Passed(f, o)
    /\ \A q \in DOMAIN records :
          records[q].file = f => Answered(q) \/ Ahead(o, records[q].off)

OInv ==
    /\ \A f \in Files : Clear(f, saved[f]) /\ Clear(f, disk[f])
    /\ RecordsInOrder /\ RecordsPassed
    /\ \A b \in pending : BatchOffsets(b)

\* The order within a buffer, and of a buffer before the parts from i on.
InOrderBefore(recs, f, parts, i) ==
    /\ \A p, q \in DOMAIN recs :
          recs[p].file = recs[q].file /\ p < q => Ahead(recs[p].off, recs[q].off)
    /\ \A q \in DOMAIN recs : recs[q].file = f =>
          \A j \in i .. Len(parts) : Ahead(recs[q].off, parts[j].off)

(* A part goes behind the records before it: one that it continues was the *)
(* newest of those, and what is newer had overtaken it already.            *)
LEMMA AddedInOrder ==
    ASSUME NEW state \in BufferStates, NEW f \in Files, NEW parts \in Seq(Part),
           NEW i \in 1 .. Len(parts),
           \A k, l \in 1 .. Len(parts) : k < l => parts[k].off < parts[l].off,
           InOrderBefore(state.recs, f, parts, i),
           NEW new, new = Added(f, state, parts[i])
    PROVE  InOrderBefore(new.recs, f, parts, i + 1)
<1> DEFINE part == parts[i]
           old == state.recs
<1>1. /\ part \in Part /\ part.off \in Nat /\ i \in Nat /\ Len(parts) \in Nat
      /\ \A j \in 1 .. Len(parts) : parts[j].off \in Nat
  <2>1. \A j \in 1 .. Len(parts) : parts[j] \in Part
    BY ElementOfSeq
  <2> QED BY <2>1, LenProperties DEF Part
<1>2. /\ state.seq \in Nat /\ DOMAIN old \subseteq 1 .. state.seq
      /\ \A q \in DOMAIN old : old[q].off \in Nat /\ q \in Nat
  BY DEF BufferStates, Buffers, Record
<1> HIDE DEF part
<1>3. /\ new \in BufferStates
      /\ DOMAIN old \subseteq DOMAIN new.recs
      /\ \A q \in DOMAIN new.recs :
            \/ Kept(old, new.recs, q)
            \/ q \in Continued(old, f, part) /\ Placed(new.recs, q, f, part.off)
            \/ /\ q \notin DOMAIN old /\ q = state.seq + 1
               /\ Placed(new.recs, q, f, part.off)
               /\ \A p \in DOMAIN old : Kept(old, new.recs, p)
  BY <1>1, AddedBuffer DEF part
<1>4. /\ \A p, q \in DOMAIN old : old[p].file = old[q].file /\ p < q => Ahead(old[p].off, old[q].off)
      /\ \A q \in DOMAIN old : old[q].file = f => Ahead(old[q].off, part.off)
      /\ \A q \in DOMAIN old : old[q].file = f => \A j \in i .. Len(parts) : Ahead(old[q].off, parts[j].off)
  <2>1. i \in i .. Len(parts)
    BY <1>1
  <2> QED BY <2>1 DEF InOrderBefore, part
<1>5. \A j \in i + 1 .. Len(parts) : j \in i .. Len(parts) /\ Ahead(part.off, parts[j].off)
  BY <1>1 DEF Ahead, part
<1> HIDE DEF old
<1>6. ASSUME NEW q \in DOMAIN new.recs, new.recs[q].file = f, NEW j \in i + 1 .. Len(parts)
      PROVE  Ahead(new.recs[q].off, parts[j].off)
  BY <1>3, <1>4, <1>5, <1>6 DEF Kept, Placed
<1>7. ASSUME NEW p \in DOMAIN new.recs, NEW q \in DOMAIN new.recs,
             new.recs[p].file = new.recs[q].file, p < q
      PROVE  Ahead(new.recs[p].off, new.recs[q].off)
  <2>1. CASE Kept(old, new.recs, p) /\ Kept(old, new.recs, q)
    BY <1>4, <1>7, <2>1 DEF Kept
  <2>2. CASE Kept(old, new.recs, p) /\ Placed(new.recs, q, f, part.off)
    BY <1>4, <1>7, <2>2 DEF Kept, Placed
  <2>3. CASE p \in Continued(old, f, part) /\ Placed(new.recs, p, f, part.off)
    <3>1. q \in DOMAIN old => Kept(old, new.recs, q) \/ q \in Continued(old, f, part)
      BY <1>3
    <3>2. p \in DOMAIN old /\ q \in Nat /\ p \in Nat
      BY <1>2, <1>3, <2>3 DEF Continued, BufferStates
    <3>3. q \notin Continued(old, f, part)
      BY <1>7, <2>3, <3>2 DEF Continued
    <3>4. CASE q \in DOMAIN old
      <4>1. Kept(old, new.recs, q) /\ old[q].file = f /\ old[q].off \in Nat
        BY <1>2, <1>7, <2>3, <3>1, <3>3, <3>4 DEF Kept, Placed, old
      <4>2. ~(old[q].off < part.off)
        BY <1>7, <2>3, <3>2, <3>4, <4>1 DEF Continued
      <4>3. Ahead(old[q].off, part.off)
        BY <1>4, <3>4, <4>1
      <4>4. Overtaken(part.off) /\ part.off <= old[q].off
        BY <1>1, <4>1, <4>2, <4>3 DEF Ahead
      <4>5. Ahead(part.off, old[q].off)
        BY <1>1, <4>1, <4>4 DEF Ahead
      <4> QED BY <2>3, <4>1, <4>5 DEF Kept, Placed
    <3>5. CASE q \notin DOMAIN old
      <4>1. Placed(new.recs, q, f, part.off) /\ Kept(old, new.recs, p)
        BY <1>3, <3>2, <3>5 DEF Kept, Continued
      <4> QED BY <1>4, <2>3, <4>1 DEF Kept, Placed
    <3> QED BY <3>4, <3>5
  <2>4. CASE p \notin DOMAIN old /\ p = state.seq + 1
    <3>1. q \in Nat /\ q \notin DOMAIN old
      BY <1>2, <1>3, <1>7, <2>4 DEF BufferStates, old
    <3>2. q = state.seq + 1
      BY <1>3, <3>1 DEF Kept, Continued
    <3> QED BY <1>2, <1>7, <2>4, <3>2
  <2> QED BY <1>3, <2>1, <2>2, <2>3, <2>4
<1> QED BY <1>6, <1>7 DEF InOrderBefore
(* So a whole group keeps the buffer in order. *)
LEMMA AddRecordsInOrder ==
    ASSUME ApiTypeOK, NEW f \in Files, AddRecords(f), Increasing(Waiting(f)),
           RecordsInOrder, RecordsPassed
    PROVE  RecordsInOrder'
<1> DEFINE group == Waiting(f)
           parts == Normalized(group)
           after == AllAdded(f, parts)
           S == [i \in 0 .. Len(parts) |->
                    {state \in BufferStates : InOrderBefore(state.recs, f, parts, i + 1)}]
<1>1. group \in Seq(Nat) /\ Len(group) \in Nat
  BY TakeType, LenProperties DEF AddRecords, ApiTypeOK
<1>2. records' = Trimmed(after.recs)
  BY DEF AddRecords
<1>g. \A j \in 1 .. Len(group) : group[j] \in Nat /\ InGroup(group, group[j])
  BY <1>1, ElementOfSeq DEF InGroup
<1>w. \A m : InGroup(group, m) => Waits(f, m)
  BY TakeWaits DEF ApiTypeOK, AddRecords
<1> HIDE DEF group, after
<1>3. /\ parts \in Seq(Part) /\ Len(parts) \in Nat
      /\ \A k \in 1 .. Len(parts) : \E j \in 1 .. Len(group) : parts[k].off = group[j]
      /\ \A k, l \in 1 .. Len(parts) : k < l => parts[k].off < parts[l].off
  <2>1. parts \in PartsOf(group, Len(group))
    BY <1>1, NormalizedParts DEF group
  <2> HIDE DEF parts
  <2> QED BY <2>1, LenProperties DEF PartsOf, FirstLines
<1> HIDE DEF parts
<1>4. PICK g \in Additions(f, parts) : TRUE
  BY <1>3, AdditionsExist
<1>5. /\ g[0] = [seq |-> nextSeq, recs |-> records]
      /\ \A i \in 1 .. Len(parts) : g[i] = Added(f, g[i - 1], parts[i])
      /\ \A i \in 0 .. Len(parts) : g[i] \in BufferStates
      /\ after = g[Len(parts)]
  BY DEF Additions, after
<1>6. g[0] \in S[0]
  <2>1. g[0] \in BufferStates /\ g[0].recs = records
    BY <1>3, <1>5
  <2>2. \A j \in 1 .. Len(parts) : parts[j].off \in Nat /\ Waits(f, parts[j].off)
    BY <1>3, <1>g, <1>w
  <2>3. InOrderBefore(records, f, parts, 1)
    BY <2>2 DEF InOrderBefore, RecordsInOrder, RecordsPassed, Passed
  <2> QED BY <1>3, <2>1, <2>3
<1>7. ASSUME NEW i \in 1 .. Len(parts), g[i - 1] \in S[i - 1] PROVE g[i] \in S[i]
  <2>1. i - 1 \in 0 .. Len(parts) /\ i \in 0 .. Len(parts) /\ (i - 1) + 1 = i
    BY <1>3
  <2>2. g[i - 1] \in BufferStates /\ InOrderBefore(g[i - 1].recs, f, parts, i)
    BY <1>7, <2>1
  <2>3. InOrderBefore(g[i].recs, f, parts, i + 1)
    BY <1>3, <1>5, <2>2, AddedInOrder
  <2> QED BY <1>5, <2>1, <2>3
<1>8. g[Len(parts)] \in S[Len(parts)]
  <2> HIDE DEF S
  <2>1. \A i \in 0 .. Len(parts) : g[i] \in S[i]
    BY <1>3, <1>6, <1>7, EveryRound
  <2> QED BY <1>3, <2>1
<1>9. after \in BufferStates
      /\ \A p, q \in DOMAIN after.recs :
            after.recs[p].file = after.recs[q].file /\ p < q => Ahead(after.recs[p].off, after.recs[q].off)
  BY <1>3, <1>5, <1>8 DEF InOrderBefore
<1>10. /\ DOMAIN records' \subseteq DOMAIN after.recs
       /\ \A q \in DOMAIN records' : records'[q] = after.recs[q]
  <2>1. after.seq \in Nat /\ after.recs \in Buffers /\ DOMAIN after.recs \subseteq 1 .. after.seq
    BY <1>9 DEF BufferStates
  <2> QED BY <1>2, <2>1, TrimmedBuffer
<1> QED BY <1>9, <1>10 DEF RecordsInOrder, Ahead, Overtaken

(* Critical is a constant, so the order of two offsets never changes. *)
LEMMA AheadConstant == \A o, n : Ahead(o, n)' <=> Ahead(o, n)
  BY DEF Ahead, Overtaken

(* The initial state satisfies the order of offsets. *)
LEMMA ApiInitOInv == ApiInit => OInv
<1> SUFFICES ASSUME ApiInit PROVE OInv
  OBVIOUS
<1>1. CollectionInit /\ DOMAIN records = {} /\ pending = {}
  BY DEF ApiInit, NothingBuffered
<1>2. \A f \in Files : Passed(f, saved[f]) /\ Passed(f, disk[f])
  BY <1>1, InitInOrder
<1> QED BY <1>1, <1>2 DEF OInv, Clear, RecordsInOrder, RecordsPassed

(* A scan reads on: what it brings is behind all that was read. *)
LEMMA CollectOInv == ASSUME IInv, OInv, NEW f \in Files, NEW n \in ScanSizes, Collect(f, n) PROVE OInv'
<1>t. ApiTypeOK /\ CollectionTypeOK
  BY DEF IInv, ApiTypeOK
<1>1. Scan(f, n) /\ UNCHANGED <<nextSeq, records, committed, pending, acked, vouched, saved, disk>>
  BY DEF Collect, Scan, serviceVars
<1>2. \A e \in Files : \A o \in Nat : Passed(e, o) => Passed(e, o)'
  BY <1>1, <1>t, ScanInOrder DEF IInv
<1>3. \A q : Answered(q)' <=> Answered(q)
  BY <1>1 DEF Answered, Covered
<1>4. \A e \in Files : saved[e] \in Nat /\ disk[e] \in Nat
  BY <1>t DEF CollectionTypeOK
<1>5. \A e \in Files : Clear(e, saved[e])' /\ Clear(e, disk[e])'
  BY <1>1, <1>2, <1>3, <1>4, AheadConstant DEF OInv, Clear
<1>6. RecordsInOrder' /\ RecordsPassed'
  BY <1>1, <1>2, <1>t, ApiTypes, AheadConstant DEF OInv, RecordsInOrder, RecordsPassed
<1>7. ASSUME NEW b \in pending PROVE BatchOffsets(b)'
  <2>1. \A p \in DOMAIN b.recs : b.recs[p].file \in Files /\ b.recs[p].off \in Nat
    BY <1>t, ApiTypes DEF Record
  <2> QED BY <1>1, <1>2, <2>1, AheadConstant DEF OInv, BatchOffsets
<1> QED BY <1>1, <1>5, <1>6, <1>7 DEF OInv

(* What an offset came before it still comes before: a record stays where it is *)
(* or stands at a line that waited.                                             *)
LEMMA AddRecordsOInv == ASSUME IInv, OInv, NEW f \in Files, AddRecords(f) PROVE OInv'
<1>t. ApiTypeOK /\ CollectionTypeOK
  BY DEF IInv, ApiTypeOK
<1>1. Take(f) /\ UNCHANGED <<committed, pending, acked, vouched, saved, disk>>
  BY DEF AddRecords, Take
<1>2. /\ Increasing(Waiting(f))
      /\ \A e \in Files : \A o \in Nat : Passed(e, o) => Passed(e, o)'
      /\ \A m \in Nat : InGroup(Waiting(f), m) => Passed(f, m)'
      /\ \A m : InGroup(Waiting(f), m) => Waits(f, m)
  BY <1>1, <1>t, TakeInOrder, TakeWaits DEF IInv
<1>3. \A q \in DOMAIN records' :
         \/ Kept(records, records', q)
         \/ /\ IF q \in DOMAIN records THEN records[q].file = f ELSE nextSeq < q
            /\ records'[q].file = f /\ InGroup(Waiting(f), records'[q].off)
  BY <1>2, <1>t, AddRecordsBuffer
<1>4. \A q \in DOMAIN records' : q \in Nat /\ records'[q].file \in Files /\ records'[q].off \in Nat
  BY AddRecordsIInv, ApiTypes DEF IInv, ApiTypeOK, Record
<1>5. RecordsInOrder'
  BY <1>2, <1>t, AddRecordsInOrder DEF OInv
<1>6. RecordsPassed'
  BY <1>2, <1>3, <1>4, <1>t, ApiTypes DEF OInv, RecordsPassed, Kept
<1>7. \A q : Answered(q)' <=> Answered(q)
  BY <1>1 DEF Answered, Covered
<1>8. ASSUME NEW e \in Files, NEW o \in Nat, Passed(e, o),
             NEW q \in DOMAIN records', records'[q].file = e, ~Kept(records, records', q)
      PROVE  Ahead(o, records'[q].off)
  BY <1>2, <1>3, <1>4, <1>8 DEF Passed
<1>9. ASSUME NEW e \in Files, NEW o \in Nat, Clear(e, o) PROVE Clear(e, o)'
  <2>1. Passed(e, o) /\ Passed(e, o)'
    BY <1>2, <1>9 DEF Clear
  <2>2. ASSUME NEW q \in DOMAIN records', records'[q].file = e PROVE Answered(q) \/ Ahead(o, records'[q].off)
    <3>1. CASE Kept(records, records', q)
      BY <1>9, <2>2, <3>1 DEF Clear, Kept
    <3>2. CASE ~Kept(records, records', q)
      BY <1>8, <2>1, <2>2, <3>2
    <3> QED BY <3>1, <3>2
  <2> QED BY <1>7, <2>1, <2>2, AheadConstant DEF Clear
<1>10. \A e \in Files : Clear(e, saved[e])' /\ Clear(e, disk[e])'
  <2>1. \A e \in Files : saved[e] \in Nat /\ disk[e] \in Nat /\ saved'[e] = saved[e] /\ disk'[e] = disk[e]
    BY <1>1, <1>t DEF CollectionTypeOK
  <2> QED BY <1>9, <2>1 DEF OInv, Clear
<1>11. ASSUME NEW b \in pending PROVE BatchOffsets(b)'
  <2>1. /\ \A p \in DOMAIN b.recs : b.recs[p].file \in Files /\ b.recs[p].off \in Nat
        /\ BatchOffsets(b) /\ b.next <= nextSeq
    BY <1>t, ApiTypes DEF Record, OInv, IInv, BatchNumbers
  <2>2. ASSUME NEW p \in DOMAIN b.recs, NEW q \in DOMAIN records',
               records'[q].file = b.recs[p].file, b.next < q
        PROVE  Ahead(b.recs[p].off, records'[q].off)
    <3>1. CASE Kept(records, records', q)
      BY <2>1, <2>2, <3>1 DEF BatchOffsets, Kept
    <3>2. CASE ~Kept(records, records', q)
      BY <1>8, <2>1, <2>2, <3>2 DEF BatchOffsets
    <3> QED BY <3>1, <3>2
  <2> QED BY <1>1, <1>2, <2>1, <2>2, AheadConstant DEF BatchOffsets
<1> QED BY <1>1, <1>5, <1>6, <1>10, <1>11 DEF OInv

(* A batch has the offsets of the records it copies. *)
LEMMA PullOInv ==
    ASSUME IInv, OInv, NEW s \in Scopes, NEW c \in Nat \cup {NoCursor}, NEW n \in Nat,
           NEW id \in BatchIds, Pull(s, c, n, id)
    PROVE  OInv'
<1>t. ApiTypeOK
  BY DEF IInv
<1>1. /\ UNCHANGED <<nextSeq, records, committed, acked, read, hot, rest, saved, disk>>
      /\ pending' = pending \cup Response(s, c, n, id)
      /\ vouched' = [vouched EXCEPT ![s] = Vouched(@, c)]
  BY DEF Pull, collectionVars
<1>2. \A f \in Files : \A o : Passed(f, o)' <=> Passed(f, o)
  BY <1>1, AheadConstant DEF Passed, Waits
<1>3. \A x \in Scopes : vouched[x] \in Nat /\ vouched'[x] \in Nat /\ vouched[x] <= vouched'[x]
  BY <1>1, <1>t DEF ApiTypeOK, Vouched, Larger
<1>4. \A q \in DOMAIN records : Answered(q) => Answered(q)'
  BY <1>1, <1>3, <1>t, ApiTypes DEF Answered, Covered
<1>5. \A f \in Files : Clear(f, saved[f])' /\ Clear(f, disk[f])'
  BY <1>1, <1>2, <1>4, AheadConstant DEF OInv, Clear
<1>6. RecordsInOrder' /\ RecordsPassed'
  BY <1>1, <1>2, <1>t, ApiTypes, AheadConstant DEF OInv, RecordsInOrder, RecordsPassed
<1>7. ASSUME NEW b \in pending' PROVE BatchOffsets(b)'
  <2>1. CASE b \in pending
    <3>1. \A p \in DOMAIN b.recs : b.recs[p].file \in Files
      BY <1>t, <2>1, ApiTypes DEF Record
    <3> QED BY <1>1, <1>2, <2>1, <3>1, AheadConstant DEF OInv, BatchOffsets
  <2>2. CASE b \in Response(s, c, n, id)
    <3>1. /\ b.next \in DOMAIN b.recs /\ DOMAIN b.recs \subseteq DOMAIN records
          /\ \A q \in DOMAIN b.recs : q <= b.next /\ b.recs[q] = records[q]
      BY <2>2, PullBatch DEF Matching
    <3>2. \A q \in DOMAIN records : q \in Nat /\ records[q].file \in Files
      BY <1>t, ApiTypes
    <3>3. \A p \in DOMAIN b.recs : \A q \in DOMAIN records : b.next < q => p < q
      BY <3>1, <3>2
    <3>4. BatchOffsets(b)
      BY <3>1, <3>3 DEF OInv, RecordsInOrder, RecordsPassed, BatchOffsets
    <3> QED BY <1>1, <1>2, <3>1, <3>2, <3>4, AheadConstant DEF BatchOffsets
  <2> QED BY <1>1, <2>1, <2>2
<1> QED BY <1>5, <1>6, <1>7 DEF OInv

(* An acknowledged offset leaves the records behind its batch uncovered; those *)
(* before its end are answered for, or the scope does not see their file.      *)
LEMMA AckOInv ==
    ASSUME IInv, OInv, NEW b \in pending, NEW c \in Nat \cup {NoCursor}, AckBatch(b, c)
    PROVE  OInv'
<1> DEFINE s == b.scope
<1>t. ApiTypeOK
  BY DEF IInv
<1>1. /\ UNCHANGED <<nextSeq, records, read, hot, rest, disk>>
      /\ pending' \subseteq pending
      /\ saved' = SavedOffsets(b)
      /\ acked' = [acked EXCEPT ![s] = @ \cup DOMAIN b.recs]
      /\ vouched' = [vouched EXCEPT ![s] = Vouched(@, c)]
  BY DEF AckBatch
<1>2. \A f \in Files : \A o : Passed(f, o)' <=> Passed(f, o)
  BY <1>1, AheadConstant DEF Passed, Waits
<1>3. \A x \in Scopes : vouched[x] \in Nat /\ vouched'[x] \in Nat /\ vouched[x] <= vouched'[x]
  BY <1>1, <1>t DEF ApiTypeOK, Vouched, Larger
<1>4. s \in Scopes /\ acked'[s] = acked[s] \cup DOMAIN b.recs
      /\ \A x \in Scopes : acked[x] \subseteq acked'[x]
  BY <1>1, <1>t DEF ApiTypeOK
<1>5. \A q \in DOMAIN records : q \in Nat /\ (Answered(q) => Answered(q)')
  BY <1>1, <1>3, <1>4, <1>t, ApiTypes DEF Answered, Covered
<1>6. /\ BatchNumbers(b) /\ BatchComplete(b) /\ BatchOffsets(b) /\ b.next \in Nat
      /\ \A p \in DOMAIN b.recs : b.recs[p].file \in Files /\ b.recs[p].off \in Nat
  BY <1>t, ApiTypes DEF IInv, OInv, BatchNumbers, Record
<1> HIDE DEF s
<1>7. ASSUME NEW f \in Files, NEW p \in DOMAIN b.recs, b.recs[p].file = f
      PROVE  Clear(f, b.recs[p].off)'
  <2>1. ASSUME NEW q \in DOMAIN records, records[q].file = f
        PROVE  Answered(q)' \/ Ahead(b.recs[p].off, records[q].off)
    <3>1. q \in Matching(s)
      BY <1>6, <1>7, <2>1 DEF BatchNumbers, Matching, s
    <3>2. CASE q <= b.next
      <4>1. q \in DOMAIN b.recs \/ Covered(s, q)
        BY <1>6, <3>1, <3>2 DEF BatchComplete, s
      <4>2. q \in DOMAIN b.recs => Covered(s, q)'
        BY <1>4 DEF Covered
      <4> QED BY <1>4, <1>5, <4>1, <4>2 DEF Answered
    <3>3. CASE b.next < q
      BY <1>6, <1>7, <2>1, <3>3 DEF BatchOffsets
    <3> QED BY <1>5, <1>6, <3>2, <3>3
  <2>2. Passed(f, b.recs[p].off)'
    BY <1>2, <1>6, <1>7 DEF BatchOffsets
  <2> QED BY <1>1, <2>1, <2>2, AheadConstant DEF Clear
<1>8. ASSUME NEW f \in Files PROVE Clear(f, disk[f])' /\ Clear(f, saved[f])'
  <2>1. ASSUME NEW o, Clear(f, o) PROVE Clear(f, o)'
    BY <1>1, <1>2, <1>5, <2>1, AheadConstant DEF Clear
  <2>2. Clear(f, saved[f])' /\ Clear(f, disk[f])'
    <3>1. \/ saved'[f] = saved[f]
          \/ \E p \in DOMAIN b.recs : b.recs[p].file = f /\ b.recs[p].off = saved'[f]
      BY <1>1, SavedOffset
    <3>2. CASE saved'[f] = saved[f]
      BY <1>1, <2>1, <3>2 DEF OInv, Clear
    <3>3. ASSUME NEW p \in DOMAIN b.recs, b.recs[p].file = f, b.recs[p].off = saved'[f]
          PROVE  Clear(f, saved[f])'
      BY <1>7, <3>3 DEF Clear
    <3>4. Clear(f, disk[f])'
      BY <1>1, <2>1 DEF OInv, Clear
    <3> QED BY <3>1, <3>2, <3>3, <3>4
  <2> QED BY <2>2
<1>9. RecordsInOrder' /\ RecordsPassed'
  BY <1>1, <1>2, <1>t, ApiTypes, AheadConstant DEF OInv, RecordsInOrder, RecordsPassed
<1>10. ASSUME NEW x \in pending' PROVE BatchOffsets(x)'
  <2>1. x \in pending /\ \A p \in DOMAIN x.recs : x.recs[p].file \in Files
    BY <1>1, <1>t, ApiTypes DEF Record
  <2> QED BY <1>1, <1>2, <2>1, AheadConstant DEF OInv, BatchOffsets
<1> QED BY <1>8, <1>9, <1>10 DEF OInv

(* After a restart there is nothing the checkpoints could cover. *)
LEMMA RestartOInv == ASSUME IInv, Restart PROVE OInv'
<1>1. RestartCollection /\ CollectionTypeOK /\ pending' = {} /\ DOMAIN records' = {}
  BY DEF Restart, NothingBuffered, IInv, ApiTypeOK
<1>2. \A f \in Files : Passed(f, saved[f])' /\ Passed(f, disk[f])'
  BY <1>1, RestartInOrder
<1> QED BY <1>1, <1>2 DEF OInv, Clear, RecordsInOrder, RecordsPassed

(* Every step keeps the order. *)
LEMMA ServiceStepOInv == IInv /\ OInv /\ ServiceStep => OInv'
<1> SUFFICES ASSUME IInv, OInv, ServiceStep PROVE OInv'
  OBVIOUS
<1>1. ASSUME NEW b \in pending, NackBatch(b) PROVE OInv'
  BY <1>1, AheadConstant
  DEF NackBatch, collectionVars, OInv, BatchOffsets, Clear, RecordsInOrder, RecordsPassed, Passed,
      Waits, Answered, Covered
<1>2. CASE Flush
  BY <1>2, AheadConstant
  DEF Flush, FlushPositions, serviceVars, OInv, BatchOffsets, Clear, RecordsInOrder, RecordsPassed,
      Passed, Waits, Answered, Covered
<1>3. CASE UNCHANGED apiVars
  BY <1>3, AheadConstant
  DEF apiVars, collectionVars, serviceVars, OInv, BatchOffsets, Clear, RecordsInOrder, RecordsPassed,
      Passed, Waits, Answered, Covered
<1> QED BY <1>1, <1>2, <1>3, CollectOInv, AddRecordsOInv, PullOInv, AckOInv, RestartOInv
    DEF ServiceStep

(* Neither the saved nor the stored checkpoint passes a buffered record that nobody
   answers for, so a crash brings it back, but for a line that a critical one
   overtook (Ack saves offsets, the store flushes them). *)
THEOREM CheckpointClearOfUnanswered == ApiSpec => []UnackedSurvivesCrash
<1>1. IInv /\ OInv => UnackedSurvivesCrash
  BY ApiTypes DEF IInv, OInv, Clear, Answered, Ahead, UnackedSurvivesCrash
<1> QED BY <1>1, ApiInitOInv, ApiNextIsServiceStep, ServiceStepOInv, ApiSpecIInv, PTL DEF ApiSpec
-----------------------------------------------------------------------------
(***************************************************************************)
(* The lines of the records.  Those that may join the record of another    *)
(* line are out of order by nature; the others are looked at one by one.   *)
(***************************************************************************)
\* An offset o is before line n, or moved beyond it with a line that was overtaken.
LineAhead(o, n) == o < n \/ \E k \in n .. o : Overtaken(k)

Plain(q) == records[q].lines \ Joining

LinesTraced ==
    NothingDropped =>
        \A f \in Files : \A n \in 1 .. read[f] : Waits(f, n) \/ Held(records, f, {n})

LinesInOrder ==
    \A p, q \in DOMAIN records :
        records[p].file = records[q].file /\ p < q => \A n \in Plain(q) : LineAhead(records[p].off, n)

\* A batch is a copy of what is buffered, but for lines that joined since.
BatchLines(b) ==
    \A q \in DOMAIN b.recs \cap DOMAIN records :
        records[q].file = b.recs[q].file /\ Plain(q) \subseteq b.recs[q].lines

BatchAhead(b) ==
    \A p \in DOMAIN b.recs : \A q \in DOMAIN records :
        records[q].file = b.recs[p].file /\ b.next < q =>
            \A n \in Plain(q) : LineAhead(b.recs[p].off, n)

\* A caller that sees the file answers for the record.
AnsweredIn(f, q) == \E s \in Scopes : f \in FilesOf[s] /\ Covered(s, q)

LinesClear(f, o) ==
    \A q \in DOMAIN records :
        records[q].file = f => AnsweredIn(f, q) \/ \A n \in Plain(q) : LineAhead(o, n)

LInv ==
    /\ LinesTraced /\ LinesInOrder
    /\ \A b \in pending : BatchLines(b) /\ BatchAhead(b)
    /\ \A f \in Files : LinesClear(f, saved[f]) /\ LinesClear(f, disk[f])

(* For a single line the order of lines is the order of offsets. *)
LEMMA AheadOfLine == \A o, n \in Nat : Ahead(o, n) => LineAhead(o, n)
<1> SUFFICES ASSUME NEW o \in Nat, NEW n \in Nat, Ahead(o, n), ~(o < n)
             PROVE  \E k \in n .. o : Overtaken(k)
  BY DEF LineAhead
<1>1. n \in n .. o /\ Overtaken(n)
  BY DEF Ahead
<1> QED BY <1>1

(* It does not change either. *)
LEMMA LineAheadConstant == \A o, n : LineAhead(o, n)' <=> LineAhead(o, n)
  BY DEF LineAhead, Overtaken

\* The order of lines within a buffer, and of a buffer before the parts from i on.
LinesBefore(recs, f, parts, i) ==
    /\ \A p, q \in DOMAIN recs :
          recs[p].file = recs[q].file /\ p < q =>
              \A n \in recs[q].lines \ Joining : LineAhead(recs[p].off, n)
    /\ \A q \in DOMAIN recs : recs[q].file = f =>
          \A j \in i .. Len(parts) : \A n \in parts[j].lines : Ahead(recs[q].off, n)

(* A part keeps that order: a record that it continues only passes lines of newer *)
(* records when the line it takes was overtaken.                                  *)
LEMMA AddedLinesInOrder ==
    ASSUME NEW state \in BufferStates, NEW f \in Files, NEW parts \in Seq(Part),
           NEW i \in 1 .. Len(parts),
           \A k, l \in 1 .. Len(parts) : k < l =>
               parts[k].off < parts[l].off /\ \A n \in parts[l].lines : parts[k].off < n,
           InOrderBefore(state.recs, f, parts, i), LinesBefore(state.recs, f, parts, i),
           NEW new, new = Added(f, state, parts[i])
    PROVE  LinesBefore(new.recs, f, parts, i + 1)
<1> DEFINE part == parts[i]
           old == state.recs
<1>1. /\ part \in Part /\ part.off \in Nat /\ part.lines \in SUBSET Nat /\ i \in Nat /\ Len(parts) \in Nat
  <2>1. \A j \in 1 .. Len(parts) : parts[j] \in Part
    BY ElementOfSeq
  <2> QED BY <2>1, LenProperties DEF Part
<1>2. /\ state.seq \in Nat /\ DOMAIN old \subseteq 1 .. state.seq
      /\ \A q \in DOMAIN old : old[q].off \in Nat /\ old[q].lines \in SUBSET Nat /\ q \in Nat
  BY DEF BufferStates, Buffers, Record
<1> HIDE DEF part
<1>3. /\ new \in BufferStates
      /\ \A q \in DOMAIN new.recs :
            \/ Kept(old, new.recs, q)
            \/ q \in Continued(old, f, part) /\ Placed(new.recs, q, f, part.off)
            \/ /\ q \notin DOMAIN old /\ q = state.seq + 1
               /\ Placed(new.recs, q, f, part.off)
               /\ new.recs[q].lines = part.lines
               /\ \A p \in DOMAIN old : Kept(old, new.recs, p)
      /\ \A q \in DOMAIN old : Grown(old, new.recs, q)
  BY <1>1, AddedBuffer DEF part
<1>4. /\ \A q \in DOMAIN old : old[q].file = f => Ahead(old[q].off, part.off)
      /\ \A p, q \in DOMAIN old : old[p].file = old[q].file /\ p < q =>
            \A n \in old[q].lines \ Joining : LineAhead(old[p].off, n)
      /\ \A q \in DOMAIN old : old[q].file = f => \A n \in part.lines : Ahead(old[q].off, n)
      /\ \A q \in DOMAIN old : old[q].file = f =>
            \A j \in i .. Len(parts) : \A n \in parts[j].lines : Ahead(old[q].off, n)
  <2>1. i \in i .. Len(parts)
    BY <1>1
  <2> QED BY <2>1 DEF InOrderBefore, LinesBefore, part
<1>5. \A j \in i + 1 .. Len(parts) :
         j \in i .. Len(parts) /\ \A n \in parts[j].lines : Ahead(part.off, n)
  BY <1>1 DEF Ahead, part
<1> HIDE DEF old
<1>6. ASSUME NEW q \in DOMAIN new.recs, new.recs[q].file = f,
             NEW j \in i + 1 .. Len(parts), NEW n \in parts[j].lines
      PROVE  Ahead(new.recs[q].off, n)
  BY <1>3, <1>4, <1>5, <1>6 DEF Kept, Placed
<1>7. ASSUME NEW p \in DOMAIN new.recs, NEW q \in DOMAIN new.recs,
             new.recs[p].file = new.recs[q].file, p < q, NEW n \in new.recs[q].lines \ Joining
      PROVE  LineAhead(new.recs[p].off, n)
  <2>n. p \in Nat /\ q \in Nat
    BY <1>3 DEF BufferStates
  <2>1. CASE q \in DOMAIN old
    <3>1. p \in DOMAIN old
      BY <1>2, <1>3, <1>7, <2>1, <2>n DEF Kept, Continued, old
    <3>2. n \in old[q].lines \ Joining /\ n \in Nat
      BY <1>2, <1>3, <2>1 DEF Grown, old
    <3>3. new.recs[q].file = old[q].file
      BY <1>3, <2>1 DEF Kept, Placed, Continued
    <3>4. CASE Kept(old, new.recs, p)
      BY <1>4, <1>7, <2>1, <3>1, <3>2, <3>3, <3>4 DEF Kept
    <3>5. CASE p \in Continued(old, f, part) /\ Placed(new.recs, p, f, part.off)
      <4>1. old[q].file = f /\ old[q].off \in Nat
        BY <1>2, <1>7, <2>1, <3>3, <3>5 DEF Placed, old
      <4>2. ~(old[q].off < part.off)
        BY <1>7, <2>1, <2>n, <3>5, <4>1 DEF Continued
      <4>3. Overtaken(part.off)
        BY <1>1, <1>4, <2>1, <4>1, <4>2 DEF Ahead
      <4>4. part.off < n \/ part.off \in n .. part.off
        BY <1>1, <3>2
      <4> QED BY <3>5, <4>3, <4>4 DEF LineAhead, Placed
    <3> QED BY <1>3, <3>1, <3>4, <3>5
  <2>2. CASE q \notin DOMAIN old
    <3>1. /\ q = state.seq + 1 /\ Placed(new.recs, q, f, part.off) /\ n \in part.lines
          /\ \A r \in DOMAIN old : Kept(old, new.recs, r)
      BY <1>3, <1>7, <2>2 DEF Kept, Continued
    <3>2. p \in DOMAIN old
      BY <1>2, <1>3, <1>7, <2>n, <3>1 DEF Kept, Continued
    <3>3. Ahead(old[p].off, n) /\ old[p].off \in Nat /\ n \in Nat /\ new.recs[p].off = old[p].off
      BY <1>1, <1>2, <1>4, <1>7, <3>1, <3>2 DEF Kept, Placed, old
    <3> QED BY <3>3, AheadOfLine
  <2> QED BY <2>1, <2>2
<1> QED BY <1>6, <1>7 DEF LinesBefore

(* So a whole group keeps the order of the lines. *)
LEMMA AddRecordsLinesInOrder ==
    ASSUME ApiTypeOK, NEW f \in Files, AddRecords(f), Increasing(Waiting(f)),
           RecordsInOrder, RecordsPassed, LinesInOrder
    PROVE  LinesInOrder'
<1> DEFINE group == Waiting(f)
           parts == Normalized(group)
           after == AllAdded(f, parts)
           S == [i \in 0 .. Len(parts) |->
                    {state \in BufferStates : /\ InOrderBefore(state.recs, f, parts, i + 1)
                                              /\ LinesBefore(state.recs, f, parts, i + 1)}]
<1>1. group \in Seq(Nat) /\ Len(group) \in Nat
  BY TakeType, LenProperties DEF AddRecords, ApiTypeOK
<1>2. records' = Trimmed(after.recs)
  BY DEF AddRecords
<1>w. \A m \in FirstLines(group, Len(group)) : m \in Nat /\ Waits(f, m)
  <2>1. \A j \in 1 .. Len(group) : group[j] \in Nat /\ InGroup(group, group[j])
    BY <1>1, ElementOfSeq DEF InGroup
  <2>2. \A m : InGroup(group, m) => Waits(f, m)
    BY TakeWaits DEF ApiTypeOK, AddRecords
  <2> QED BY <2>1, <2>2 DEF FirstLines
<1> HIDE DEF group, after
<1>3. /\ parts \in Seq(Part) /\ Len(parts) \in Nat
      /\ \A k \in 1 .. Len(parts) : /\ parts[k].off \in FirstLines(group, Len(group))
                                    /\ parts[k].lines \subseteq FirstLines(group, Len(group))
      /\ \A k, l \in 1 .. Len(parts) : k < l =>
            parts[k].off < parts[l].off /\ \A n \in parts[l].lines : parts[k].off < n
  <2>1. parts \in PartsOf(group, Len(group))
    BY <1>1, NormalizedParts DEF group
  <2> HIDE DEF parts
  <2> QED BY <2>1, LenProperties DEF PartsOf
<1> HIDE DEF parts
<1>4. PICK g \in Additions(f, parts) : TRUE
  BY <1>3, AdditionsExist
<1>5. /\ g[0] = [seq |-> nextSeq, recs |-> records]
      /\ \A i \in 1 .. Len(parts) : g[i] = Added(f, g[i - 1], parts[i])
      /\ \A i \in 0 .. Len(parts) : g[i] \in BufferStates
      /\ after = g[Len(parts)]
  BY DEF Additions, after
<1>6. g[0] \in S[0]
  <2>1. g[0] \in BufferStates /\ g[0].recs = records
    BY <1>3, <1>5
  <2>2. \A j \in 1 .. Len(parts) :
           /\ parts[j].off \in Nat /\ Waits(f, parts[j].off)
           /\ \A n \in parts[j].lines : n \in Nat /\ Waits(f, n)
    BY <1>3, <1>w
  <2>3. \A q \in DOMAIN records : records[q].file = f =>
           \A n \in Nat : Waits(f, n) => Ahead(records[q].off, n)
    BY DEF RecordsPassed, Passed
  <2>4. InOrderBefore(records, f, parts, 1)
    BY <2>2, <2>3 DEF InOrderBefore, RecordsInOrder
  <2>5. LinesBefore(records, f, parts, 1)
    BY <2>2, <2>3 DEF LinesBefore, LinesInOrder, Plain
  <2> QED BY <1>3, <2>1, <2>4, <2>5
<1>7. ASSUME NEW i \in 1 .. Len(parts), g[i - 1] \in S[i - 1] PROVE g[i] \in S[i]
  <2>1. i - 1 \in 0 .. Len(parts) /\ i \in 0 .. Len(parts) /\ (i - 1) + 1 = i
    BY <1>3
  <2>2. /\ g[i - 1] \in BufferStates /\ InOrderBefore(g[i - 1].recs, f, parts, i)
        /\ LinesBefore(g[i - 1].recs, f, parts, i)
    BY <1>7, <2>1
  <2>3. \A k, l \in 1 .. Len(parts) : k < l => parts[k].off < parts[l].off
    BY <1>3
  <2>4. InOrderBefore(g[i].recs, f, parts, i + 1)
    BY <1>3, <1>5, <2>2, <2>3, AddedInOrder
  <2>5. LinesBefore(g[i].recs, f, parts, i + 1)
    BY <1>3, <1>5, <2>2, AddedLinesInOrder
  <2> QED BY <1>5, <2>1, <2>4, <2>5
<1>8. g[Len(parts)] \in S[Len(parts)]
  <2> HIDE DEF S
  <2>1. \A i \in 0 .. Len(parts) : g[i] \in S[i]
    BY <1>3, <1>6, <1>7, EveryRound
  <2> QED BY <1>3, <2>1
<1>9. /\ after \in BufferStates
      /\ \A p, q \in DOMAIN after.recs :
            after.recs[p].file = after.recs[q].file /\ p < q =>
                \A n \in after.recs[q].lines \ Joining : LineAhead(after.recs[p].off, n)
  BY <1>3, <1>5, <1>8 DEF LinesBefore
<1>10. /\ DOMAIN records' \subseteq DOMAIN after.recs
       /\ \A q \in DOMAIN records' : records'[q] = after.recs[q]
  <2>1. after.seq \in Nat /\ after.recs \in Buffers /\ DOMAIN after.recs \subseteq 1 .. after.seq
    BY <1>9 DEF BufferStates
  <2> QED BY <1>2, <2>1, TrimmedBuffer
<1>11. \A p, q \in DOMAIN records' :
          records'[p].file = records'[q].file /\ p < q =>
              \A n \in records'[q].lines \ Joining : LineAhead(records'[p].off, n)
  BY <1>9, <1>10
<1> QED BY <1>11, LineAheadConstant DEF LinesInOrder, Plain, Joining
(* The initial state satisfies the order of lines. *)
LEMMA ApiInitLInv == ApiInit => LInv
<1> SUFFICES ASSUME ApiInit PROVE LInv
  OBVIOUS
<1>1. DOMAIN records = {} /\ pending = {} /\ \A f \in Files : read[f] = 0
  BY DEF ApiInit, NothingBuffered, CollectionInit, AtStart
<1> QED BY <1>1 DEF LInv, LinesTraced, LinesInOrder, LinesClear

(* While the buffer stays as it is, the batches and the checkpoints are what counts. *)
LEMMA SameRecordsLInv ==
    ASSUME LInv, LinesTraced', UNCHANGED records,
           \A b \in pending' : BatchLines(b) /\ BatchAhead(b),
           \A f \in Files : \A q \in DOMAIN records : AnsweredIn(f, q) => AnsweredIn(f, q)',
           \A f \in Files : LinesClear(f, saved[f])' /\ LinesClear(f, disk[f])'
    PROVE  LInv'
<1>1. \A q \in DOMAIN records : Plain(q)' = Plain(q)
  BY DEF Plain, Joining
<1>2. LinesInOrder'
  BY <1>1, LineAheadConstant DEF LInv, LinesInOrder
<1>3. \A b \in pending' : BatchLines(b)' /\ BatchAhead(b)'
  BY <1>1, LineAheadConstant DEF BatchLines, BatchAhead
<1> QED BY <1>2, <1>3 DEF LInv

(* A checkpoint that was clear of the lines still is. *)
LEMMA StaysClear ==
    ASSUME NEW f \in Files, NEW o, LinesClear(f, o), UNCHANGED records,
           \A q \in DOMAIN records : AnsweredIn(f, q) => AnsweredIn(f, q)'
    PROVE  LinesClear(f, o)'
<1>1. \A q \in DOMAIN records : Plain(q)' = Plain(q)
  BY DEF Plain, Joining
<1> QED BY <1>1, LineAheadConstant DEF LinesClear

(* Steps that only touch the collector or drop a batch. *)
LEMMA ServiceUnchangedLInv ==
    ASSUME LInv, LinesTraced', UNCHANGED <<records, acked, vouched>>, pending' \subseteq pending,
           \A f \in Files : saved'[f] = saved[f] /\ disk'[f] \in {saved[f], disk[f]}
    PROVE  LInv'
<1>1. \A f \in Files : \A q \in DOMAIN records : AnsweredIn(f, q) => AnsweredIn(f, q)'
  BY DEF AnsweredIn, Covered
<1>2. \A f \in Files : LinesClear(f, saved[f])' /\ LinesClear(f, disk[f])'
  <2> SUFFICES ASSUME NEW f \in Files PROVE LinesClear(f, saved[f])' /\ LinesClear(f, disk[f])'
    OBVIOUS
  <2>1. ASSUME NEW o, LinesClear(f, o) PROVE LinesClear(f, o)'
    BY <1>1, <2>1, StaysClear
  <2>2. \A o : LinesClear(f, o) => LinesClear(f, o)'
    BY <2>1
  <2>3. LinesClear(f, saved[f]) /\ LinesClear(f, disk[f])
    BY DEF LInv
  <2> QED BY <2>2, <2>3 DEF LinesClear
<1>3. \A b \in pending' : BatchLines(b) /\ BatchAhead(b)
  BY DEF LInv
<1> QED BY <1>1, <1>2, <1>3, SameRecordsLInv

(* A scan keeps it: new lines wait. *)
LEMMA CollectLInv == ASSUME IInv, LInv, NEW f \in Files, NEW n \in ScanSizes, Collect(f, n) PROVE LInv'
<1>t. CollectionTypeOK
  BY DEF IInv, ApiTypeOK
<1>1. Scan(f, n) /\ UNCHANGED <<nextSeq, records, acked, vouched, pending, saved, disk, crashes>>
      /\ read' = [read EXCEPT ![f] = @ + n]
  BY DEF Collect, Scan, serviceVars
<1>2. /\ \A m : ~Waits(f, m)
      /\ \A m : Waits(f, m)' <=> m \in (read[f] + 1) .. (read[f] + n)
      /\ \A e \in Files \ {f} : hot'[e] = hot[e] /\ rest'[e] = rest[e]
  BY <1>1, <1>t, ScanWaits
<1>3. n \in Nat /\ \A e \in Files : read[e] \in Nat
  BY <1>t, CollectionAssumption DEF CollectionTypeOK
<1>4. ASSUME NothingDropped', NEW e \in Files, NEW m \in 1 .. read'[e]
      PROVE  Waits(e, m)' \/ Held(records, e, {m})
  <2>1. \A x \in 1 .. read[e] : Waits(e, x) \/ Held(records, e, {x})
    BY <1>1, <1>4 DEF LInv, LinesTraced, NothingDropped
  <2>2. CASE e = f
    <3>1. read'[f] = read[f] + n
      BY <1>1, <1>t DEF CollectionTypeOK
    <3>2. m \in 1 .. read[f] \/ m \in (read[f] + 1) .. (read[f] + n)
      BY <1>3, <1>4, <2>2, <3>1
    <3> QED BY <1>2, <2>1, <2>2, <3>2
  <2>3. CASE e # f
    <3>1. read'[e] = read[e] /\ (Waits(e, m) => Waits(e, m)')
      BY <1>1, <1>2, <1>t, <2>3 DEF CollectionTypeOK, Waits
    <3> QED BY <1>4, <2>1, <3>1
  <2> QED BY <2>2, <2>3
<1>5. LinesTraced'
  BY <1>1, <1>4 DEF LinesTraced, Held
<1> QED BY <1>1, <1>5, ServiceUnchangedLInv

(* What a buffered record gains may join it, and what is new comes after all that *)
(* was passed.                                                                    *)
LEMMA AddRecordsLInv == ASSUME IInv, OInv, LInv, NEW f \in Files, AddRecords(f) PROVE LInv'
<1>t. ApiTypeOK /\ CollectionTypeOK
  BY DEF IInv, ApiTypeOK
<1>1. Take(f) /\ UNCHANGED <<committed, pending, acked, vouched, read, saved, disk, crashes>>
  BY DEF AddRecords, Take
<1>2. /\ Increasing(Waiting(f))
      /\ \A m : Waits(f, m) <=> InGroup(Waiting(f), m) \/ Waits(f, m)'
      /\ \A e \in Files \ {f} : hot'[e] = hot[e] /\ rest'[e] = rest[e]
      /\ \A m : InGroup(Waiting(f), m) => m \in Nat
  <2>1. Waiting(f) \in Seq(Nat)
    BY <1>1, <1>t, TakeType
  <2>2. \A m : InGroup(Waiting(f), m) => m \in Nat
    BY <2>1, ElementOfSeq DEF InGroup
  <2> QED BY <1>1, <1>t, <2>2, TakeInOrder, TakeWaits DEF IInv
<1>3. \A q \in DOMAIN records' :
         \/ Kept(records, records', q)
         \/ /\ IF q \in DOMAIN records THEN records[q].file = f ELSE nextSeq < q
            /\ records'[q].file = f
  BY <1>2, <1>t, AddRecordsBuffer
<1>4. /\ \A q \in DOMAIN records \cap DOMAIN records' :
            records'[q].file = records[q].file /\ Grown(records, records', q)
      /\ \A q \in DOMAIN records' \ DOMAIN records :
            \A n \in records'[q].lines \ Joining : InGroup(Waiting(f), n)
      /\ nextSeq' <= MaxBuffered =>
            /\ DOMAIN records \subseteq DOMAIN records'
            /\ \A n : InGroup(Waiting(f), n) => Held(records', f, {n})
  BY <1>2, <1>t, AddRecordsLines
<1>n. nextSeq \in Nat /\ nextSeq' \in Nat /\ nextSeq <= nextSeq' /\ MaxBuffered \in Nat
  BY <1>2, <1>t, AddRecordsBuffer, PullApiAssumption DEF ApiTypeOK
<1>5. \A q \in DOMAIN records \cap DOMAIN records' : Plain(q)' \subseteq Plain(q)
  BY <1>4 DEF Grown, Plain, Joining
<1>6. ASSUME NEW q \in DOMAIN records' \ DOMAIN records
      PROVE  /\ records'[q].file = f /\ nextSeq < q
             /\ \A o \in Nat : Passed(f, o) => \A n \in Plain(q)' : LineAhead(o, n)
  <2>1. records'[q].file = f /\ nextSeq < q
    BY <1>3, <1>6 DEF Kept
  <2>2. \A n \in Plain(q)' : n \in Nat /\ Waits(f, n)
    BY <1>2, <1>4, <1>6 DEF Plain, Joining
  <2> QED BY <2>1, <2>2, AheadOfLine DEF Passed
<1>7. LinesTraced'
  <2> SUFFICES ASSUME NothingDropped', NEW e \in Files, NEW n \in 1 .. read'[e]
               PROVE  Waits(e, n)' \/ Held(records', e, {n})
    BY DEF LinesTraced, Held
  <2>1. NothingDropped /\ nextSeq' <= MaxBuffered
    BY <1>1, <1>n DEF NothingDropped
  <2>2. Waits(e, n) \/ Held(records, e, {n})
    BY <1>1, <2>1 DEF LInv, LinesTraced
  <2>3. CASE Held(records, e, {n})
    <3>1. PICK q \in DOMAIN records : records[q].file = e /\ n \in records[q].lines
      BY <2>3 DEF Held
    <3>2. q \in DOMAIN records' /\ records'[q].file = e /\ n \in records'[q].lines
      BY <1>4, <2>1, <3>1 DEF Grown
    <3> QED BY <3>2 DEF Held
  <2>4. CASE Waits(e, n) /\ e = f
    BY <1>2, <1>4, <2>1, <2>4
  <2>5. CASE Waits(e, n) /\ e # f
    BY <1>2, <2>5 DEF Waits
  <2> QED BY <2>2, <2>3, <2>4, <2>5
<1>8. LinesInOrder'
  BY <1>2, <1>t, AddRecordsLinesInOrder DEF OInv, LInv
<1>9. ASSUME NEW b \in pending PROVE BatchLines(b)' /\ BatchAhead(b)'
  <2>1. /\ BatchLines(b) /\ BatchAhead(b) /\ BatchOffsets(b)
        /\ b.next <= nextSeq /\ b.next \in Nat
        /\ \A p \in DOMAIN b.recs : p \in Nat /\ p <= b.next /\ b.recs[p].off \in Nat
    BY <1>t, ApiTypes DEF IInv, OInv, LInv, BatchNumbers, Record
  <2>2. ASSUME NEW q \in DOMAIN b.recs, q \in DOMAIN records'
        PROVE  records'[q].file = b.recs[q].file /\ Plain(q)' \subseteq b.recs[q].lines
    <3>1. q \in DOMAIN records
      BY <1>6, <1>n, <2>1, <2>2
    <3> QED BY <1>4, <1>5, <2>1, <2>2, <3>1 DEF BatchLines
  <2>3. ASSUME NEW p \in DOMAIN b.recs, NEW q \in DOMAIN records',
               records'[q].file = b.recs[p].file, b.next < q, NEW n \in Plain(q)'
        PROVE  LineAhead(b.recs[p].off, n)
    <3>1. CASE q \in DOMAIN records
      BY <1>4, <1>5, <2>1, <2>3, <3>1 DEF BatchAhead
    <3>2. CASE q \notin DOMAIN records
      BY <1>6, <2>1, <2>3, <3>2 DEF BatchOffsets
    <3> QED BY <3>1, <3>2
  <2> QED BY <2>2, <2>3, LineAheadConstant DEF BatchLines, BatchAhead
<1>10. ASSUME NEW e \in Files, NEW o \in Nat, LinesClear(e, o), Passed(e, o) PROVE LinesClear(e, o)'
  <2>1. \A q : AnsweredIn(e, q)' <=> AnsweredIn(e, q)
    BY <1>1 DEF AnsweredIn, Covered
  <2>2. ASSUME NEW q \in DOMAIN records', records'[q].file = e
        PROVE  AnsweredIn(e, q) \/ \A n \in Plain(q)' : LineAhead(o, n)
    <3>1. CASE q \in DOMAIN records
      BY <1>4, <1>5, <1>10, <2>2, <3>1 DEF LinesClear
    <3>2. CASE q \notin DOMAIN records
      BY <1>6, <1>10, <2>2, <3>2
    <3> QED BY <3>1, <3>2
  <2> QED BY <2>1, <2>2, LineAheadConstant DEF LinesClear
<1>11. \A e \in Files : LinesClear(e, saved[e])' /\ LinesClear(e, disk[e])'
  <2>1. \A e \in Files : saved[e] \in Nat /\ disk[e] \in Nat /\ saved'[e] = saved[e] /\ disk'[e] = disk[e]
    BY <1>1, <1>t DEF CollectionTypeOK
  <2> QED BY <1>10, <2>1 DEF OInv, LInv, Clear, LinesClear
<1> QED BY <1>1, <1>7, <1>8, <1>9, <1>11 DEF LInv

(* A pull keeps it: the batch has the lines of the records it copies. *)
LEMMA PullLInv ==
    ASSUME IInv, LInv, NEW s \in Scopes, NEW c \in Nat \cup {NoCursor}, NEW n \in Nat,
           NEW id \in BatchIds, Pull(s, c, n, id)
    PROVE  LInv'
<1>t. ApiTypeOK
  BY DEF IInv
<1>1. /\ UNCHANGED <<nextSeq, records, acked, read, hot, rest, saved, disk, crashes>>
      /\ pending' = pending \cup Response(s, c, n, id)
      /\ vouched' = [vouched EXCEPT ![s] = Vouched(@, c)]
  BY DEF Pull, collectionVars
<1>2. \A x \in Scopes : vouched[x] \in Nat /\ vouched'[x] \in Nat /\ vouched[x] <= vouched'[x]
  BY <1>1, <1>t DEF ApiTypeOK, Vouched, Larger
<1>3. \A f \in Files : \A q \in DOMAIN records : AnsweredIn(f, q) => AnsweredIn(f, q)'
  BY <1>1, <1>2, <1>t, ApiTypes DEF AnsweredIn, Covered
<1>4. LinesTraced'
  BY <1>1 DEF LInv, LinesTraced, NothingDropped, Held, Waits
<1>5. ASSUME NEW b \in Response(s, c, n, id) PROVE BatchLines(b) /\ BatchAhead(b)
  <2>1. /\ b.next \in DOMAIN b.recs /\ DOMAIN b.recs \subseteq DOMAIN records
        /\ \A q \in DOMAIN b.recs : q <= b.next /\ b.recs[q] = records[q]
    BY PullBatch DEF Matching
  <2>2. \A q \in DOMAIN records : q \in Nat
    BY <1>t, ApiTypes
  <2>3. \A p \in DOMAIN b.recs : \A q \in DOMAIN records : b.next < q => p < q
    BY <2>1, <2>2
  <2> QED BY <2>1, <2>3 DEF BatchLines, BatchAhead, Plain, LInv, LinesInOrder
<1>6. \A b \in pending' : BatchLines(b) /\ BatchAhead(b)
  BY <1>1, <1>5 DEF LInv
<1>7. ASSUME NEW f \in Files PROVE LinesClear(f, saved[f])' /\ LinesClear(f, disk[f])'
  <2>1. LinesClear(f, saved[f])'
    <3>1. LinesClear(f, saved[f])
      BY DEF LInv
    <3> QED BY <1>1, <1>3, <3>1, LineAheadConstant DEF LinesClear, Plain, Joining
  <2>2. LinesClear(f, disk[f])'
    <3>1. LinesClear(f, disk[f])
      BY DEF LInv
    <3> QED BY <1>1, <1>3, <3>1, LineAheadConstant DEF LinesClear, Plain, Joining
  <2> QED BY <2>1, <2>2
<1> QED BY <1>1, <1>3, <1>4, <1>6, <1>7, SameRecordsLInv

(* An acknowledgement keeps it: lines before the saved offset are the batch's own,
   or those of records before it, for which the scope answers as well. *)
LEMMA AckLInv ==
    ASSUME IInv, LInv, NEW b \in pending, NEW c \in Nat \cup {NoCursor}, AckBatch(b, c)
    PROVE  LInv'
<1> DEFINE s == b.scope
<1>t. ApiTypeOK
  BY DEF IInv
<1>1. /\ UNCHANGED <<nextSeq, records, read, hot, rest, disk, crashes>>
      /\ pending' \subseteq pending
      /\ saved' = SavedOffsets(b)
      /\ acked' = [acked EXCEPT ![s] = @ \cup DOMAIN b.recs]
      /\ vouched' = [vouched EXCEPT ![s] = Vouched(@, c)]
  BY DEF AckBatch
<1>2. \A x \in Scopes : vouched[x] \in Nat /\ vouched'[x] \in Nat /\ vouched[x] <= vouched'[x]
  BY <1>1, <1>t DEF ApiTypeOK, Vouched, Larger
<1>3. s \in Scopes /\ acked'[s] = acked[s] \cup DOMAIN b.recs
      /\ \A x \in Scopes : acked[x] \subseteq acked'[x]
  BY <1>1, <1>t DEF ApiTypeOK
<1>4. \A x \in Scopes : \A q \in DOMAIN records : Covered(x, q) => Covered(x, q)'
  BY <1>2, <1>3, <1>t, ApiTypes DEF Covered
<1>5. \A f \in Files : \A q \in DOMAIN records : AnsweredIn(f, q) => AnsweredIn(f, q)'
  BY <1>4 DEF AnsweredIn
<1>6. LinesTraced'
  BY <1>1 DEF LInv, LinesTraced, NothingDropped, Held, Waits
<1>7. BatchNumbers(b) /\ BatchComplete(b) /\ BatchAhead(b) /\ b.next \in Nat
      /\ \A q \in DOMAIN records : q \in Nat
  BY <1>t, ApiTypes DEF IInv, LInv, BatchNumbers
<1> HIDE DEF s
<1>8. ASSUME NEW f \in Files, NEW p \in DOMAIN b.recs, b.recs[p].file = f
      PROVE  LinesClear(f, b.recs[p].off)'
  <2>1. ASSUME NEW q \in DOMAIN records, records[q].file = f
        PROVE  AnsweredIn(f, q)' \/ \A n \in Plain(q) : LineAhead(b.recs[p].off, n)
    <3>1. f \in FilesOf[s] /\ q \in Matching(s)
      BY <1>7, <1>8, <2>1 DEF BatchNumbers, Matching, s
    <3>2. CASE q <= b.next
      <4>1. q \in DOMAIN b.recs \/ Covered(s, q)
        BY <1>7, <3>1, <3>2 DEF BatchComplete, s
      <4>2. Covered(s, q)'
        BY <1>3, <1>4, <2>1, <4>1 DEF Covered
      <4> QED BY <1>3, <3>1, <4>2 DEF AnsweredIn
    <3>3. CASE b.next < q
      BY <1>7, <1>8, <2>1, <3>3 DEF BatchAhead
    <3> QED BY <1>7, <3>2, <3>3
  <2> QED BY <1>1, <2>1, LineAheadConstant DEF LinesClear, Plain, Joining
<1>9. ASSUME NEW f \in Files PROVE LinesClear(f, saved[f])' /\ LinesClear(f, disk[f])'
  <2>1. ASSUME NEW o, LinesClear(f, o) PROVE LinesClear(f, o)'
    BY <1>1, <1>5, <2>1, StaysClear
  <2>2. LinesClear(f, disk[f])'
    BY <1>1, <2>1 DEF LInv, LinesClear
  <2>3. \/ saved'[f] = saved[f]
        \/ \E p \in DOMAIN b.recs : b.recs[p].file = f /\ b.recs[p].off = saved'[f]
    BY <1>1, SavedOffset
  <2>4. LinesClear(f, saved[f])'
    <3>1. CASE saved'[f] = saved[f]
      BY <2>1, <3>1 DEF LInv, LinesClear
    <3>2. ASSUME NEW p \in DOMAIN b.recs, b.recs[p].file = f, b.recs[p].off = saved'[f]
          PROVE  LinesClear(f, saved[f])'
      BY <1>8, <3>2 DEF LinesClear
    <3> QED BY <2>3, <3>1, <3>2
  <2> QED BY <2>2, <2>4
<1>10. \A x \in pending' : BatchLines(x) /\ BatchAhead(x)
  BY <1>1 DEF LInv
<1> QED BY <1>1, <1>5, <1>6, <1>9, <1>10, SameRecordsLInv

(* A restart leaves no lines to speak of. *)
LEMMA RestartLInv == ASSUME IInv, Restart PROVE LInv'
<1>1. /\ RestartCollection /\ CollectionTypeOK /\ pending' = {} /\ DOMAIN records' = {}
      /\ crashes' = crashes + 1 /\ crashes \in Nat
  BY DEF Restart, RestartCollection, NothingBuffered, IInv, ApiTypeOK, CollectionTypeOK
<1>2. ~NothingDropped'
  BY <1>1 DEF NothingDropped
<1> QED BY <1>1, <1>2 DEF LInv, LinesTraced, LinesInOrder, LinesClear
(* Every step keeps the lines in order. *)
LEMMA ServiceStepLInv == IInv /\ OInv /\ LInv /\ ServiceStep => LInv'
<1> SUFFICES ASSUME IInv, OInv, LInv, ServiceStep PROVE LInv'
  OBVIOUS
<1>1. ASSUME NEW b \in pending, NackBatch(b) PROVE LInv'
  <2>1. LinesTraced'
    BY <1>1 DEF NackBatch, collectionVars, LInv, LinesTraced, NothingDropped, Held, Waits
  <2> QED BY <1>1, <2>1, ServiceUnchangedLInv DEF NackBatch, collectionVars
<1>2. CASE Flush
  <2>1. LinesTraced'
    BY <1>2 DEF Flush, FlushPositions, serviceVars, LInv, LinesTraced, NothingDropped, Held, Waits
  <2>2. \A f \in Files : saved'[f] = saved[f] /\ disk'[f] \in {saved[f], disk[f]}
    BY <1>2 DEF Flush, FlushPositions
  <2> QED BY <1>2, <2>1, <2>2, ServiceUnchangedLInv DEF Flush, serviceVars
<1>3. CASE UNCHANGED apiVars
  <2>1. LinesTraced'
    BY <1>3 DEF apiVars, collectionVars, serviceVars, LInv, LinesTraced, NothingDropped, Held, Waits
  <2> QED BY <1>3, <2>1, ServiceUnchangedLInv DEF apiVars, collectionVars, serviceVars
<1> QED BY <1>1, <1>2, <1>3, CollectLInv, AddRecordsLInv, PullLInv, AckLInv, RestartLInv
    DEF ServiceStep
-----------------------------------------------------------------------------
(***************************************************************************)
(* The control plane: what its workers hold, what its cursors cover, and   *)
(* what of that is in the index.                                           *)
(***************************************************************************)
Stages == {"idle", "pulled", "indexed", "acked", "failed"}

BatchType(b) ==
    /\ b # NoBatch /\ b.scope \in Scopes
    /\ b.next \in DOMAIN b.recs /\ b.next \in Nat
    /\ b.recs \in [DOMAIN b.recs -> Record]

ControlTypes ==
    /\ cursor \in [Scopes -> Nat \cup {NoCursor}]
    /\ stage \in [Workers -> Stages] /\ DOMAIN holds = Workers
    /\ index \subseteq Files \X Nat /\ deadLetters \subseteq Files \X Nat
    /\ faults \in 0 .. MaxFaults
    /\ \A w \in Workers : IF stage[w] = "idle" THEN holds[w] = NoBatch ELSE BatchType(holds[w])

\* All records of a scope up to a number are in the index.
IndexedUpTo(s, o) ==
    /\ o <= nextSeq
    /\ \A q \in Matching(s) : q <= o => Indexed(q)

\* A batch of this run of the agent: a copy of the buffer above records in the index.
BatchOfThisRun(b) ==
    /\ BatchLines(b)
    /\ b.next <= nextSeq /\ \A q \in DOMAIN b.recs : q \in Nat /\ q <= b.next
    /\ \A q \in Matching(b.scope) : q <= b.next => q \in DOMAIN b.recs \/ Indexed(q)

BatchBuffered(b) ==
    \A q \in DOMAIN b.recs : q \in DOMAIN records /\ b.recs[q].lines \subseteq records[q].lines

WorkerInv(w) ==
    stage[w] # "idle" =>
        /\ stage[w] \in {"indexed", "acked"} => LinesOf(holds[w]) \subseteq index
        /\ crashes = 0 => BatchOfThisRun(holds[w])
        /\ NothingDropped => BatchBuffered(holds[w])

ScopeInv(s) ==
    /\ \A q \in acked[s] : q <= nextSeq
    /\ \A q \in Matching(s) \cap acked[s] : Indexed(q)
    /\ crashes = 0 => /\ IndexedUpTo(s, vouched[s])
                      /\ cursor[s] # NoCursor => IndexedUpTo(s, cursor[s])

LettersBuffered ==
    NothingDropped => \A line \in deadLetters : Held(records, line[1], {line[2]})

DInv ==
    /\ ControlTypes
    /\ \A w \in Workers : WorkerInv(w)
    /\ \A s \in Scopes : ScopeInv(s)
    /\ LettersBuffered

(* The lines of a batch. *)
LEMMA BatchLinesType ==
    ASSUME NEW b, BatchType(b)
    PROVE  /\ LinesOf(b) \subseteq Files \X Nat
           /\ \A q \in DOMAIN b.recs : b.recs[q] \in Record
           /\ \A q \in DOMAIN b.recs : \A n \in b.recs[q].lines : <<b.recs[q].file, n>> \in LinesOf(b)
<1>1. \A q \in DOMAIN b.recs : b.recs[q] \in Record
  BY DEF BatchType
<1>2. \A q \in DOMAIN b.recs : b.recs[q].file \in Files /\ b.recs[q].lines \subseteq Nat
  BY <1>1 DEF Record
<1> QED BY <1>1, <1>2 DEF LinesOf

(* What is in the index stays there, and what a step adds to the buffer has higher *)
(* numbers than all that was covered.                                              *)
LEMMA StillCovered ==
    ASSUME IInv, IInv', index \subseteq index', nextSeq <= nextSeq',
           \A q \in DOMAIN records' :
              \/ /\ q \in DOMAIN records /\ records'[q].file = records[q].file
                 /\ Plain(q)' \subseteq Plain(q)
              \/ nextSeq < q
    PROVE  /\ \A q \in DOMAIN records \cap DOMAIN records' : Indexed(q) => Indexed(q)'
           /\ \A s \in Scopes : \A q \in Matching(s)' : q \in Matching(s) \/ nextSeq < q
           /\ \A s \in Scopes : \A o \in Nat : IndexedUpTo(s, o) => IndexedUpTo(s, o)'
           /\ \A b : BatchType(b) /\ BatchOfThisRun(b) => BatchOfThisRun(b)'
<1>n. /\ nextSeq \in Nat /\ nextSeq' \in Nat
      /\ \A q \in DOMAIN records : q \in Nat /\ q <= nextSeq
      /\ \A q \in DOMAIN records' : q \in Nat
  <2>1. nextSeq' \in Nat /\ DOMAIN records' \subseteq 1 .. nextSeq'
    BY DEF IInv, ApiTypeOK
  <2> QED BY <2>1, ApiTypes DEF IInv
<1>1. ASSUME NEW q \in DOMAIN records \cap DOMAIN records'
      PROVE  /\ records'[q].file = records[q].file /\ Plain(q)' \subseteq Plain(q)
             /\ Indexed(q) => Indexed(q)'
  <2>1. records'[q].file = records[q].file /\ Plain(q)' \subseteq Plain(q)
    BY <1>n
  <2> QED BY <2>1 DEF Indexed, Plain, Joining
<1>2. ASSUME NEW s \in Scopes, NEW q \in Matching(s)'
      PROVE  q \in DOMAIN records' /\ q \in Nat /\ (q \in Matching(s) \/ nextSeq < q)
  BY <1>n, <1>2 DEF Matching
<1>3. \A s \in Scopes : \A q \in Matching(s) : q \in DOMAIN records
  BY DEF Matching
<1>4. ASSUME NEW s \in Scopes, NEW o \in Nat, IndexedUpTo(s, o) PROVE IndexedUpTo(s, o)'
  <2>1. o <= nextSeq /\ o <= nextSeq'
    BY <1>n, <1>4 DEF IndexedUpTo
  <2>2. ASSUME NEW q \in Matching(s)', q <= o PROVE Indexed(q)'
    <3>1. q \in Matching(s)
      BY <1>n, <1>2, <2>1, <2>2
    <3> QED BY <1>1, <1>2, <1>3, <1>4, <2>2, <3>1 DEF IndexedUpTo
  <2> QED BY <2>1, <2>2 DEF IndexedUpTo
<1>5. ASSUME NEW b, BatchType(b), BatchOfThisRun(b) PROVE BatchOfThisRun(b)'
  <2>1. b.scope \in Scopes /\ b.next \in Nat /\ b.next <= nextSeq /\ b.next <= nextSeq'
        /\ \A q \in DOMAIN b.recs : q \in Nat /\ q <= b.next
    BY <1>n, <1>5 DEF BatchType, BatchOfThisRun
  <2>2. ASSUME NEW q \in DOMAIN b.recs \cap DOMAIN records'
        PROVE  records'[q].file = b.recs[q].file /\ Plain(q)' \subseteq b.recs[q].lines
    <3>1. q \in DOMAIN records
      BY <1>n, <2>1
    <3> QED BY <1>1, <1>5, <3>1 DEF BatchOfThisRun, BatchLines
  <2>3. ASSUME NEW q \in Matching(b.scope)', q <= b.next PROVE q \in DOMAIN b.recs \/ Indexed(q)'
    <3>1. q \in Matching(b.scope)
      BY <1>n, <1>2, <2>1, <2>3
    <3> QED BY <1>1, <1>2, <1>3, <1>5, <2>1, <2>3, <3>1 DEF BatchOfThisRun
  <2> QED BY <2>1, <2>2, <2>3 DEF BatchOfThisRun, BatchLines
<1> QED BY <1>1, <1>2, <1>4, <1>5

(* An agent that goes on leaves the control plane's view of it true. *)
LEMMA AgentGoesOn ==
    ASSUME IInv, IInv', DInv, UNCHANGED controlVars, UNCHANGED <<acked, vouched, crashes>>,
           nextSeq <= nextSeq',
           \A q \in DOMAIN records' :
              \/ /\ q \in DOMAIN records /\ records'[q].file = records[q].file
                 /\ Grown(records, records', q)
              \/ nextSeq < q,
           nextSeq' <= MaxBuffered => DOMAIN records \subseteq DOMAIN records'
    PROVE  DInv'
<1>c. UNCHANGED <<cursor, stage, holds, index, deadLetters, faults>>
  BY DEF controlVars
<1>n. /\ nextSeq \in Nat /\ nextSeq' \in Nat /\ MaxBuffered \in Nat
      /\ \A q \in DOMAIN records : q \in Nat /\ q <= nextSeq
      /\ \A s \in Scopes : vouched[s] \in Nat /\ acked[s] \in SUBSET Nat
  <2>1. nextSeq' \in Nat
    BY DEF IInv, ApiTypeOK
  <2> QED BY <2>1, ApiTypes, PullApiAssumption DEF IInv
<1>1. \A q \in DOMAIN records' :
         \/ /\ q \in DOMAIN records /\ records'[q].file = records[q].file
            /\ Plain(q)' \subseteq Plain(q)
         \/ nextSeq < q
  BY DEF Grown, Plain, Joining
<1>2. /\ \A q \in DOMAIN records \cap DOMAIN records' : Indexed(q) => Indexed(q)'
      /\ \A s \in Scopes : \A q \in Matching(s)' : q \in Matching(s) \/ nextSeq < q
      /\ \A s \in Scopes : \A o \in Nat : IndexedUpTo(s, o) => IndexedUpTo(s, o)'
      /\ \A b : BatchType(b) /\ BatchOfThisRun(b) => BatchOfThisRun(b)'
  BY <1>c, <1>1, StillCovered
<1>3. ControlTypes'
  BY <1>c DEF DInv, ControlTypes, BatchType
<1>4. NothingDropped' => /\ NothingDropped
                         /\ \A q \in DOMAIN records : /\ Grown(records, records', q)
                                                      /\ records'[q].file = records[q].file
  BY <1>n DEF NothingDropped
<1>5. ASSUME NEW w \in Workers PROVE WorkerInv(w)'
  <2> SUFFICES ASSUME stage[w] # "idle"
               PROVE  /\ stage[w] \in {"indexed", "acked"} => LinesOf(holds[w]) \subseteq index
                      /\ crashes = 0 => BatchOfThisRun(holds[w])'
                      /\ NothingDropped' => BatchBuffered(holds[w])'
    BY <1>c DEF WorkerInv, LinesOf
  <2>1. BatchType(holds[w]) /\ WorkerInv(w)
    BY DEF DInv, ControlTypes
  <2>2. \A b : BatchType(b) /\ BatchBuffered(b) /\ NothingDropped' => BatchBuffered(b)'
    BY <1>4 DEF BatchBuffered, Grown
  <2>3. \A b : b = holds[w] => (BatchOfThisRun(b)' => BatchOfThisRun(holds[w])')
               /\ (BatchBuffered(b)' => BatchBuffered(holds[w])')
    BY <1>c DEF BatchOfThisRun, BatchBuffered, BatchLines, Matching
  <2> QED BY <1>2, <1>4, <2>1, <2>2, <2>3 DEF WorkerInv
<1>6. ASSUME NEW s \in Scopes PROVE ScopeInv(s)'
  <2>1. ScopeInv(s)
    BY DEF DInv
  <2>2. \A q \in acked[s] : q <= nextSeq'
    BY <1>n, <2>1 DEF ScopeInv
  <2>3. ASSUME NEW q \in Matching(s)' \cap acked[s] PROVE Indexed(q)'
    <3>1. q \in Matching(s) /\ q \in DOMAIN records /\ q \in DOMAIN records'
      BY <1>n, <1>2, <2>1, <2>3 DEF ScopeInv, Matching
    <3> QED BY <1>2, <2>1, <3>1 DEF ScopeInv
  <2>4. ASSUME crashes = 0
        PROVE  IndexedUpTo(s, vouched[s])' /\ (cursor[s] # NoCursor => IndexedUpTo(s, cursor[s])')
    <3>1. cursor[s] # NoCursor => cursor[s] \in Nat
      BY DEF DInv, ControlTypes
    <3>2. \A o : /\ o = vouched[s] => (IndexedUpTo(s, o)' => IndexedUpTo(s, vouched[s])')
                 /\ o = cursor[s] => (IndexedUpTo(s, o)' => IndexedUpTo(s, cursor[s])')
      BY <1>c DEF IndexedUpTo
    <3> QED BY <1>n, <1>2, <2>1, <2>4, <3>1, <3>2 DEF ScopeInv
  <2> QED BY <1>c, <2>2, <2>3, <2>4 DEF ScopeInv
<1>7. LettersBuffered'
  BY <1>c, <1>4 DEF DInv, LettersBuffered, Held, Grown
<1> QED BY <1>3, <1>5, <1>6, <1>7 DEF DInv
(* The agent's own steps. *)
LEMMA AgentDInv ==
    ASSUME IInv, IInv', OInv, LInv, DInv, AgentStep, UNCHANGED controlVars
    PROVE  DInv'
<1>t. /\ ApiTypeOK /\ nextSeq \in Nat /\ \A q \in DOMAIN records : Grown(records, records, q)
  BY DEF IInv, ApiTypeOK, Grown
<1>1. ASSUME UNCHANGED <<nextSeq, records, acked, vouched, crashes>> PROVE DInv'
  <2>1. \A q \in DOMAIN records' :
           q \in DOMAIN records /\ records'[q].file = records[q].file /\ Grown(records, records', q)
    BY <1>1, <1>t
  <2>2. nextSeq <= nextSeq'
    BY <1>1, <1>t
  <2> QED BY <1>1, <2>1, <2>2, AgentGoesOn
<1>2. ASSUME NEW f \in Files, AddRecords(f) PROVE DInv'
  <2>1. Take(f) /\ UNCHANGED <<acked, vouched, crashes>>
    BY <1>2 DEF AddRecords, Take
  <2>2. Increasing(Waiting(f))
    BY <1>t, <2>1, TakeInOrder DEF IInv, ApiTypeOK
  <2>3. /\ nextSeq <= nextSeq'
        /\ \A q \in DOMAIN records' : q \in DOMAIN records \/ nextSeq < q
    BY <1>2, <1>t, <2>2, AddRecordsBuffer DEF Kept
  <2>4. /\ \A q \in DOMAIN records \cap DOMAIN records' :
              records'[q].file = records[q].file /\ Grown(records, records', q)
        /\ nextSeq' <= MaxBuffered => DOMAIN records \subseteq DOMAIN records'
    BY <1>2, <1>t, <2>2, AddRecordsLines
  <2>5. \A q \in DOMAIN records' :
           \/ /\ q \in DOMAIN records /\ records'[q].file = records[q].file
              /\ Grown(records, records', q)
           \/ nextSeq < q
    BY <2>3, <2>4
  <2> QED BY <2>1, <2>3, <2>4, <2>5, AgentGoesOn
<1>3. ASSUME Restart PROVE DInv'
  <2>1. /\ crashes' = crashes + 1 /\ crashes \in Nat /\ DOMAIN records' = {} /\ acked' = NothingAcked
        /\ UNCHANGED <<cursor, stage, holds, index, deadLetters, faults>>
    BY <1>3, <1>t DEF Restart, RestartCollection, NothingBuffered, ApiTypeOK, CollectionTypeOK, controlVars
  <2>2. crashes' # 0 /\ ~NothingDropped'
    BY <2>1 DEF NothingDropped
  <2>3. ControlTypes'
    BY <2>1 DEF DInv, ControlTypes, BatchType
  <2>4. \A w \in Workers : WorkerInv(w)'
    BY <2>1, <2>2 DEF DInv, WorkerInv, LinesOf
  <2>5. \A s \in Scopes : ScopeInv(s)'
    BY <2>1, <2>2 DEF ScopeInv, NothingAcked
  <2>6. LettersBuffered'
    BY <2>2 DEF LettersBuffered
  <2> QED BY <2>3, <2>4, <2>5, <2>6 DEF DInv
<1>4. ASSUME NEW f \in Files, NEW n \in ScanSizes, Collect(f, n) PROVE DInv'
  BY <1>1, <1>4 DEF Collect, Scan, serviceVars
<1>5. CASE Flush
  BY <1>1, <1>5 DEF Flush, FlushPositions, serviceVars
<1> QED BY <1>2, <1>3, <1>4, <1>5 DEF AgentStep

(* The control plane's steps leave the buffer alone, and the index only grows. *)
LEMMA BufferStays ==
    ASSUME IInv, IInv', UNCHANGED <<nextSeq, records, crashes>>, index \subseteq index'
    PROVE  /\ \A q \in DOMAIN records : Indexed(q) => Indexed(q)'
           /\ \A s \in Scopes : Matching(s)' = Matching(s) /\ Matching(s) \subseteq DOMAIN records
           /\ \A s \in Scopes : \A o \in Nat : IndexedUpTo(s, o) => IndexedUpTo(s, o)'
           /\ \A b : BatchType(b) /\ BatchOfThisRun(b) => BatchOfThisRun(b)'
           /\ \A b : BatchBuffered(b) => BatchBuffered(b)'
           /\ NothingDropped' <=> NothingDropped
<1>1. \A q \in DOMAIN records' :
         /\ q \in DOMAIN records /\ records'[q].file = records[q].file
         /\ Plain(q)' \subseteq Plain(q)
  BY DEF Plain, Joining
<1>2. nextSeq <= nextSeq' /\ records' = records
  BY DEF IInv, ApiTypeOK
<1>3. /\ \A q \in DOMAIN records \cap DOMAIN records' : Indexed(q) => Indexed(q)'
      /\ \A s \in Scopes : \A o \in Nat : IndexedUpTo(s, o) => IndexedUpTo(s, o)'
      /\ \A b : BatchType(b) /\ BatchOfThisRun(b) => BatchOfThisRun(b)'
  BY <1>1, <1>2, StillCovered
<1>4. \A s \in Scopes : Matching(s)' = Matching(s) /\ Matching(s) \subseteq DOMAIN records
  BY DEF Matching
<1>5. \A b : BatchBuffered(b) => BatchBuffered(b)'
  BY <1>2 DEF BatchBuffered
<1> QED BY <1>2, <1>3, <1>4, <1>5 DEF NothingDropped

(* What a worker keeps to be true of itself. *)
LEMMA WorkerStays ==
    ASSUME IInv, IInv', DInv, UNCHANGED <<nextSeq, records, crashes>>, index \subseteq index',
           NEW w \in Workers, holds'[w] = holds[w], stage[w] # "idle",
           stage'[w] \in {"indexed", "acked"} => LinesOf(holds[w]) \subseteq index'
    PROVE  WorkerInv(w)'
<1>1. BatchType(holds[w]) /\ WorkerInv(w)
  BY DEF DInv, ControlTypes
<1>2. /\ crashes = 0 => BatchOfThisRun(holds[w])
      /\ NothingDropped => BatchBuffered(holds[w])
  BY <1>1 DEF WorkerInv
<1>3. /\ \A b : BatchType(b) /\ BatchOfThisRun(b) => BatchOfThisRun(b)'
      /\ \A b : BatchBuffered(b) => BatchBuffered(b)'
      /\ NothingDropped' <=> NothingDropped
  BY BufferStays
<1>4. \A b : b = holds[w] =>
         /\ BatchOfThisRun(b)' => BatchOfThisRun(holds[w])'
         /\ BatchBuffered(b)' => BatchBuffered(holds[w])'
  BY DEF BatchOfThisRun, BatchBuffered, BatchLines, Matching
<1>5. LinesOf(holds[w])' = LinesOf(holds[w])
  BY DEF LinesOf
<1> QED BY <1>1, <1>2, <1>3, <1>4, <1>5 DEF WorkerInv

(* A scope whose cursors do not move. *)
LEMMA ScopeStays ==
    ASSUME IInv, IInv', DInv, UNCHANGED <<nextSeq, records, crashes>>, index \subseteq index',
           NEW s \in Scopes, acked'[s] = acked[s], vouched'[s] = vouched[s], cursor'[s] = cursor[s]
    PROVE  ScopeInv(s)'
<1>1. ScopeInv(s) /\ vouched[s] \in Nat /\ (cursor[s] # NoCursor => cursor[s] \in Nat)
  BY ApiTypes DEF DInv, ControlTypes, IInv
<1>2. /\ \A q \in DOMAIN records : Indexed(q) => Indexed(q)'
      /\ Matching(s)' = Matching(s) /\ Matching(s) \subseteq DOMAIN records
      /\ \A o \in Nat : IndexedUpTo(s, o) => IndexedUpTo(s, o)'
  BY BufferStays
<1>3. \A o : /\ o = vouched[s] => (IndexedUpTo(s, o)' => IndexedUpTo(s, vouched[s])')
             /\ o = cursor[s] => (IndexedUpTo(s, o)' => IndexedUpTo(s, cursor[s])')
  BY DEF IndexedUpTo
<1> QED BY <1>1, <1>2, <1>3 DEF ScopeInv

(* A worker that is idle, or goes idle, has nothing to keep. *)
LEMMA IdleWorker == ASSUME NEW w \in Workers, stage'[w] = "idle" PROVE WorkerInv(w)'
  BY DEF WorkerInv

(* A step of worker w alone that neither moves a cursor nor asks the agent for anything *)
(* that counts: it writes to the index or to the dead letters and goes on.              *)
LEMMA WorkerGoesOn ==
    ASSUME IInv, IInv', DInv, NEW w \in Workers, NEW st \in Stages,
           stage[w] # "idle", Goto(w, st),
           IF st = "idle" THEN holds' = [holds EXCEPT ![w] = NoBatch] ELSE holds' = holds,
           UNCHANGED <<nextSeq, records, crashes>>,
           index \subseteq index', index' \subseteq index \cup LinesOf(holds[w]),
           st \in {"indexed", "acked"} => LinesOf(holds[w]) \subseteq index',
           deadLetters' \subseteq deadLetters \cup LinesOf(holds[w]),
           cursor' \in [Scopes -> Nat \cup {NoCursor}], faults' \in 0 .. MaxFaults,
           \A s \in Scopes : ScopeInv(s)'
    PROVE  DInv'
<1>1. BatchType(holds[w]) /\ WorkerInv(w)
  BY DEF DInv, ControlTypes
<1>2. /\ LinesOf(holds[w]) \subseteq Files \X Nat
      /\ \A q \in DOMAIN holds[w].recs : holds[w].recs[q] \in Record
  BY <1>1, BatchLinesType
<1>3. /\ stage' = [stage EXCEPT ![w] = st] /\ stage \in [Workers -> Stages]
      /\ stage' \in [Workers -> Stages] /\ stage'[w] = st
      /\ \A v \in Workers \ {w} : stage'[v] = stage[v]
      /\ DOMAIN holds = Workers /\ DOMAIN holds' = Workers
      /\ \A v \in Workers \ {w} : holds'[v] = holds[v]
      /\ holds'[w] = IF st = "idle" THEN NoBatch ELSE holds[w]
  BY DEF DInv, ControlTypes, Goto
<1>4. ControlTypes'
  <2>1. index' \subseteq Files \X Nat /\ deadLetters' \subseteq Files \X Nat
    BY <1>2 DEF DInv, ControlTypes
  <2>2. \A v \in Workers :
           IF stage'[v] = "idle" THEN holds'[v] = NoBatch ELSE BatchType(holds'[v])
    BY <1>1, <1>3 DEF DInv, ControlTypes
  <2> QED BY <1>3, <2>1, <2>2 DEF ControlTypes, BatchType
<1>5. ASSUME NEW v \in Workers PROVE WorkerInv(v)'
  <2>1. CASE stage'[v] = "idle"
    BY <2>1, IdleWorker
  <2>2. CASE stage'[v] # "idle"
    <3>1. holds'[v] = holds[v] /\ stage[v] # "idle"
      BY <1>3, <2>2
    <3>2. stage'[v] \in {"indexed", "acked"} => LinesOf(holds[v]) \subseteq index'
      BY <1>3, <3>1 DEF DInv, WorkerInv
    <3> QED BY <3>1, <3>2, WorkerStays
  <2> QED BY <2>1, <2>2
<1>6. LettersBuffered'
  <2> SUFFICES ASSUME NothingDropped', NEW line \in deadLetters'
               PROVE  Held(records, line[1], {line[2]})
    BY DEF LettersBuffered, Held
  <2>1. NothingDropped
    BY DEF NothingDropped
  <2>2. CASE line \in deadLetters
    BY <2>1, <2>2 DEF DInv, LettersBuffered
  <2>3. CASE line \in LinesOf(holds[w])
    <3>1. PICK q \in DOMAIN holds[w].recs :
             \E n \in holds[w].recs[q].lines : line = <<holds[w].recs[q].file, n>>
      BY <2>3 DEF LinesOf
    <3>2. BatchLines(holds[w]) /\ BatchBuffered(holds[w])
      BY <1>1, <2>1 DEF WorkerInv, NothingDropped, BatchOfThisRun
    <3>3. q \in DOMAIN records /\ records[q].file = line[1] /\ line[2] \in records[q].lines
      BY <3>1, <3>2 DEF BatchLines, BatchBuffered
    <3> QED BY <3>3 DEF Held
  <2> QED BY <2>2, <2>3
<1> QED BY <1>4, <1>5, <1>6 DEF DInv
(* A task starts with all that is buffered above records that are in the index. *)
LEMMA StartTaskDInv ==
    ASSUME IInv, IInv', LInv, DInv, NEW w \in Workers, NEW s \in Scopes, NEW n \in PullSizes,
           NEW id \in BatchIds, StartTask(w, s, n, id)
    PROVE  DInv'
<1> DEFINE c == cursor[s]
<1>t. /\ ApiTypeOK /\ n \in Nat /\ NoCursor \notin Nat
      /\ c \in Nat \cup {NoCursor}
      /\ vouched \in [Scopes -> Nat] /\ nextSeq \in Nat
      /\ \A q \in DOMAIN records : q \in Nat /\ q <= nextSeq
  BY PullApiAssumption, ApiTypes DEF IInv, DInv, ControlTypes, ApiTypeOK
<1>1. /\ UNCHANGED <<nextSeq, records, acked, crashes>> /\ UNCHANGED <<cursor, index, deadLetters>>
      /\ stage[w] = "idle"
      /\ pending' = pending \cup Response(s, c, n, id)
      /\ Response(s, c, n, id) # {}
      /\ \A b \in pending : b.id # id
      /\ vouched' = [vouched EXCEPT ![s] = Vouched(@, c)]
  BY DEF StartTask, Pull, collectionVars
<1> HIDE DEF c
<1>2. index \subseteq index'
  BY <1>1
<1>3. /\ \A q \in DOMAIN records : Indexed(q) => Indexed(q)'
      /\ \A x \in Scopes : Matching(x)' = Matching(x) /\ Matching(x) \subseteq DOMAIN records
      /\ \A x \in Scopes : \A o \in Nat : IndexedUpTo(x, o) => IndexedUpTo(x, o)'
      /\ \A b : BatchType(b) /\ BatchOfThisRun(b) => BatchOfThisRun(b)'
      /\ \A b : BatchBuffered(b) => BatchBuffered(b)'
      /\ NothingDropped' <=> NothingDropped
  BY <1>1, <1>2, BufferStays
<1>4. ASSUME NEW b \in Response(s, c, n, id)
      PROVE  /\ b.id = id /\ BatchType(b) /\ BatchBuffered(b)
             /\ crashes = 0 => BatchOfThisRun(b)
  <2>1. /\ b.id = id /\ b.scope = s
        /\ b.next \in DOMAIN b.recs /\ DOMAIN b.recs \subseteq Matching(s)
        /\ \A q \in DOMAIN b.recs : q <= b.next /\ b.recs[q] = records[q]
        /\ b.recs \in [DOMAIN b.recs -> Record]
        /\ \A q \in Matching(s) : q <= b.next =>
              q \in DOMAIN b.recs \/ Covered(s, q) \/ (c # NoCursor /\ q <= c)
    BY <1>t, PullBatch
  <2>2. b # NoBatch
    <3>1. PICK last : b = [id |-> id, scope |-> s, next |-> last,
                            recs |-> [q \in Selected(s, StartCursor(s, c), n) |-> records[q]]]
      BY DEF Response
    <3>2. "scope" \in DOMAIN b /\ "scope" \notin DOMAIN NoBatch
      BY <3>1 DEF NoBatch
    <3> QED BY <3>2
  <2>3. DOMAIN b.recs \subseteq DOMAIN records /\ b.next \in Nat /\ b.next <= nextSeq
        /\ \A q \in DOMAIN b.recs : q \in Nat
    BY <1>3, <1>t, <2>1
  <2>4. BatchType(b)
    BY <2>1, <2>2, <2>3 DEF BatchType
  <2>5. BatchBuffered(b) /\ BatchLines(b)
    BY <2>1, <2>3 DEF BatchBuffered, BatchLines, Plain
  <2>6. ASSUME crashes = 0, NEW q \in Matching(s), Covered(s, q) \/ (c # NoCursor /\ q <= c)
        PROVE  Indexed(q)
    BY <2>6 DEF DInv, ScopeInv, Covered, IndexedUpTo, c
  <2> QED BY <2>1, <2>3, <2>4, <2>5, <2>6 DEF BatchOfThisRun
<1>5. \/ /\ holds' = [holds EXCEPT ![w] = CHOOSE b \in pending' : b.id = id]
         /\ Goto(w, "pulled") /\ NoFault
      \/ UNCHANGED <<stage, holds>> /\ Fault
  BY DEF StartTask
<1>6. (CHOOSE b \in pending' : b.id = id) \in Response(s, c, n, id)
  <2>1. \E b \in pending' : b.id = id
    BY <1>1, <1>4
  <2> QED BY <1>1, <2>1
<1>7. faults' \in 0 .. MaxFaults
  BY <1>5, PullDeliveryAssumption DEF DInv, ControlTypes, Fault, NoFault
<1>8. \A x \in Scopes : ScopeInv(x)'
  <2> SUFFICES ASSUME NEW x \in Scopes PROVE ScopeInv(x)'
    OBVIOUS
  <2>1. CASE x # s
    <3>1. vouched'[x] = vouched[x]
      BY <1>1, <1>t, <2>1
    <3> QED BY <1>1, <1>2, <3>1, ScopeStays
  <2>2. CASE x = s
    <3>1. ScopeInv(s)
      BY DEF DInv
    <3>2. /\ vouched'[s] \in Nat
          /\ vouched'[s] = vouched[s] \/ (c # NoCursor /\ vouched'[s] = c)
      BY <1>1, <1>t DEF Vouched, Larger
    <3>3. crashes = 0 => /\ IndexedUpTo(s, vouched'[s])
                         /\ cursor[s] # NoCursor => IndexedUpTo(s, cursor[s])
      BY <3>1, <3>2 DEF ScopeInv, c
    <3>4. \A o : /\ o = vouched'[s] => (IndexedUpTo(s, o)' => IndexedUpTo(s, vouched[s])')
                 /\ o = cursor[s] => (IndexedUpTo(s, o)' => IndexedUpTo(s, cursor[s])')
      BY <1>1 DEF IndexedUpTo
    <3>5. crashes = 0 => /\ IndexedUpTo(s, vouched[s])'
                         /\ cursor[s] # NoCursor => IndexedUpTo(s, cursor[s])'
      BY <1>3, <1>t, <3>2, <3>3, <3>4 DEF c
    <3>6. \A q \in Matching(s)' \cap acked'[s] : Indexed(q)'
      BY <1>1, <1>3, <3>1 DEF ScopeInv
    <3> QED BY <1>1, <2>2, <3>1, <3>5, <3>6 DEF ScopeInv
  <2> QED BY <2>1, <2>2
<1>9. LettersBuffered'
  BY <1>1, <1>3 DEF DInv, LettersBuffered, Held
<1>10. CASE UNCHANGED <<stage, holds>>
  <2>1. ControlTypes'
    BY <1>1, <1>7, <1>10 DEF DInv, ControlTypes, BatchType
  <2>2. ASSUME NEW v \in Workers PROVE WorkerInv(v)'
    <3>1. CASE stage[v] = "idle"
      BY <1>10, <3>1, IdleWorker
    <3>2. CASE stage[v] # "idle"
      <4>1. stage'[v] \in {"indexed", "acked"} => LinesOf(holds[v]) \subseteq index'
        BY <1>1, <1>10, <3>2 DEF DInv, WorkerInv
      <4> QED BY <1>1, <1>2, <1>10, <3>2, <4>1, WorkerStays
    <3> QED BY <3>1, <3>2
  <2> QED BY <1>8, <1>9, <2>1, <2>2 DEF DInv
<1>11. CASE holds' = [holds EXCEPT ![w] = CHOOSE b \in pending' : b.id = id] /\ Goto(w, "pulled")
  <2>1. /\ stage' = [stage EXCEPT ![w] = "pulled"] /\ stage' \in [Workers -> Stages]
        /\ stage'[w] = "pulled"
        /\ \A v \in Workers \ {w} : stage'[v] = stage[v]
        /\ DOMAIN holds' = Workers
        /\ \A v \in Workers \ {w} : holds'[v] = holds[v]
        /\ holds'[w] \in Response(s, c, n, id)
    BY <1>6, <1>11 DEF DInv, ControlTypes, Goto, Stages
  <2>2. ControlTypes'
    <3>1. \A v \in Workers :
             IF stage'[v] = "idle" THEN holds'[v] = NoBatch ELSE BatchType(holds'[v])
      BY <1>4, <2>1 DEF DInv, ControlTypes
    <3> QED BY <1>1, <1>7, <2>1, <3>1 DEF DInv, ControlTypes, BatchType
  <2>3. ASSUME NEW v \in Workers PROVE WorkerInv(v)'
    <3>1. CASE stage'[v] = "idle"
      BY <3>1, IdleWorker
    <3>2. CASE stage'[v] # "idle" /\ v # w
      <4>1. stage[v] # "idle" /\ holds'[v] = holds[v]
            /\ (stage'[v] \in {"indexed", "acked"} => LinesOf(holds[v]) \subseteq index')
        BY <1>1, <2>1, <3>2 DEF DInv, WorkerInv
      <4> QED BY <1>1, <1>2, <4>1, WorkerStays
    <3>3. CASE v = w
      <4>1. \A b : b = holds'[w] =>
               /\ BatchOfThisRun(b)' => BatchOfThisRun(holds[w])'
               /\ BatchBuffered(b)' => BatchBuffered(holds[w])'
        BY DEF BatchOfThisRun, BatchBuffered, BatchLines, Matching
      <4>2. /\ crashes = 0 => BatchOfThisRun(holds[w])'
            /\ BatchBuffered(holds[w])'
        BY <1>3, <1>4, <2>1, <4>1
      <4> QED BY <1>1, <2>1, <3>3, <4>2 DEF WorkerInv
    <3> QED BY <3>1, <3>2, <3>3
  <2> QED BY <1>8, <1>9, <2>2, <2>3 DEF DInv
<1> QED BY <1>5, <1>10, <1>11
(* What a worker has written is in the index up to its batch's cursor. *)
LEMMA WrittenBatch ==
    ASSUME IInv, DInv, NEW w \in Workers, stage[w] \in {"indexed", "acked"}
    PROVE  /\ BatchType(holds[w]) /\ stage[w] # "idle"
           /\ crashes = 0 => IndexedUpTo(holds[w].scope, holds[w].next)
           /\ \A q \in DOMAIN records : q \in DOMAIN holds[w].recs /\ BatchLines(holds[w]) => Indexed(q)
<1> DEFINE b == holds[w]
<1>1. BatchType(b) /\ WorkerInv(w) /\ stage[w] # "idle" /\ LinesOf(b) \subseteq index
  BY DEF DInv, ControlTypes, WorkerInv
<1>2. \A q \in DOMAIN b.recs : \A n \in b.recs[q].lines : <<b.recs[q].file, n>> \in LinesOf(b)
  BY <1>1, BatchLinesType
<1> HIDE DEF b
<1>3. ASSUME NEW q \in DOMAIN records, q \in DOMAIN b.recs, BatchLines(b) PROVE Indexed(q)
  <2>1. records[q].file = b.recs[q].file /\ Plain(q) \subseteq b.recs[q].lines
    BY <1>3 DEF BatchLines
  <2> QED BY <1>1, <1>2, <1>3, <2>1 DEF Indexed, Plain
<1>4. ASSUME crashes = 0 PROVE IndexedUpTo(b.scope, b.next)
  <2>1. BatchOfThisRun(b)
    BY <1>1, <1>4 DEF WorkerInv, b
  <2>2. \A q \in Matching(b.scope) : q \in DOMAIN records
    BY DEF Matching
  <2> QED BY <1>3, <2>1, <2>2 DEF BatchOfThisRun, IndexedUpTo
<1> QED BY <1>1, <1>3, <1>4 DEF b

(* A worker writes its batch to the index. *)
LEMMA WriteIndexDInv ==
    ASSUME IInv, IInv', DInv, NEW w \in Workers, WriteIndex(w) PROVE DInv'
<1>1. /\ stage[w] = "pulled" /\ index' = index \cup LinesOf(holds[w]) /\ Goto(w, "indexed")
      /\ UNCHANGED <<cursor, holds, deadLetters, faults, apiVars>>
  BY DEF WriteIndex, Written
<1>2. UNCHANGED <<nextSeq, records, crashes, acked, vouched>>
  BY <1>1 DEF apiVars, serviceVars, collectionVars
<1>3. index \subseteq index' /\ "indexed" \in Stages /\ "indexed" # "idle" /\ stage[w] # "idle"
  BY <1>1 DEF Stages
<1>4. \A s \in Scopes : ScopeInv(s)'
  BY <1>1, <1>2, <1>3, ScopeStays
<1> QED BY <1>1, <1>2, <1>3, <1>4, WorkerGoesOn DEF DInv, ControlTypes

(* A write that fails changes nothing but the worker's stage. *)
LEMMA WriteFailsDInv ==
    ASSUME IInv, IInv', DInv, NEW w \in Workers, WriteFails(w) PROVE DInv'
<1>1. /\ stage[w] = "pulled" /\ Goto(w, "failed")
      /\ UNCHANGED <<cursor, holds, deadLetters, faults, apiVars>>
  BY DEF WriteFails
<1>2. UNCHANGED <<nextSeq, records, crashes, acked, vouched>>
  BY <1>1 DEF apiVars, serviceVars, collectionVars
<1>3. index \subseteq index' /\ index' \subseteq index \cup LinesOf(holds[w])
  BY DEF WriteFails
<1>4. "failed" \in Stages \ {"idle", "indexed", "acked"} /\ stage[w] # "idle"
  BY <1>1 DEF Stages
<1>5. \A s \in Scopes : ScopeInv(s)'
  BY <1>1, <1>2, <1>3, ScopeStays
<1> QED BY <1>1, <1>2, <1>3, <1>4, <1>5, WorkerGoesOn DEF DInv, ControlTypes

(* An acknowledgement answers for records that are in the index. *)
LEMMA AckScopes ==
    ASSUME IInv, IInv', LInv, DInv, NEW w \in Workers, stage[w] = "indexed", holds[w] \in pending,
           AckBatch(holds[w], holds[w].next), UNCHANGED <<cursor, index>>
    PROVE  \A s \in Scopes : ScopeInv(s)'
<1> DEFINE b == holds[w]
<1>t. /\ NoCursor \notin Nat /\ b.next \in Nat /\ b.scope \in Scopes
      /\ vouched \in [Scopes -> Nat] /\ acked \in [Scopes -> SUBSET Nat]
      /\ BatchNumbers(b) /\ BatchLines(b)
  BY PullApiAssumption DEF IInv, DInv, LInv, ControlTypes, BatchType, ApiTypeOK
<1>1. /\ UNCHANGED <<nextSeq, records, crashes>> /\ index \subseteq index'
      /\ acked' = [acked EXCEPT ![b.scope] = @ \cup DOMAIN b.recs]
      /\ vouched' = [vouched EXCEPT ![b.scope] = Vouched(@, b.next)]
  BY DEF AckBatch
<1>w. /\ crashes = 0 => IndexedUpTo(b.scope, b.next)
      /\ \A q \in DOMAIN records : q \in DOMAIN b.recs => Indexed(q)
  BY <1>t, WrittenBatch
<1> HIDE DEF b
<1>2. ASSUME NEW s \in Scopes, s # b.scope PROVE ScopeInv(s)'
  <2>1. acked'[s] = acked[s] /\ vouched'[s] = vouched[s]
    BY <1>1, <1>t, <1>2
  <2> QED BY <1>1, <2>1, ScopeStays
<1>3. ASSUME NEW s \in Scopes, s = b.scope PROVE ScopeInv(s)'
  <2>1. ScopeInv(s) /\ s \in Scopes
    BY <1>t DEF DInv
  <2>2. /\ \A q \in DOMAIN records : Indexed(q) => Indexed(q)'
        /\ Matching(s)' = Matching(s) /\ Matching(s) \subseteq DOMAIN records
        /\ \A o \in Nat : IndexedUpTo(s, o) => IndexedUpTo(s, o)'
    BY <1>1, <1>t, BufferStays
  <2>3. acked'[s] = acked[s] \cup DOMAIN b.recs /\ vouched'[s] \in {vouched[s], b.next}
    BY <1>1, <1>3, <1>t DEF Vouched, Larger
  <2>4. \A q \in acked'[s] : q <= nextSeq
    BY <1>t, <2>1, <2>3, ApiTypes DEF ScopeInv, BatchNumbers, IInv
  <2>5. \A q \in Matching(s)' \cap acked'[s] : Indexed(q)'
    BY <1>w, <2>1, <2>2, <2>3 DEF ScopeInv
  <2>6. crashes = 0 => IndexedUpTo(s, vouched'[s]) /\ vouched'[s] \in Nat
    BY <1>t, <1>w, <2>1, <2>3, <1>3 DEF ScopeInv
  <2>7. crashes = 0 /\ cursor[s] # NoCursor => IndexedUpTo(s, cursor[s]) /\ cursor[s] \in Nat
    BY <2>1 DEF ScopeInv, DInv, ControlTypes
  <2>8. \A o : /\ o = vouched'[s] => (IndexedUpTo(s, o)' => IndexedUpTo(s, vouched[s])')
               /\ o = cursor[s] => (IndexedUpTo(s, o)' => IndexedUpTo(s, cursor[s])')
    BY DEF IndexedUpTo
  <2> QED BY <1>1, <2>2, <2>4, <2>5, <2>6, <2>7, <2>8 DEF ScopeInv
<1> QED BY <1>2, <1>3

(* An acknowledgement, answered or lost, carries the cursor of a batch that is in
   the index. *)
LEMMA AcknowledgeDInv ==
    ASSUME IInv, IInv', LInv, DInv, NEW w \in Workers, Acknowledge(w) PROVE DInv'
<1>1. /\ stage[w] = "indexed" /\ stage[w] # "idle"
      /\ UNCHANGED <<cursor, holds, index, deadLetters>>
      /\ LinesOf(holds[w]) \subseteq index
  BY DEF Acknowledge, DInv, WorkerInv
<1>2. PICK st \in {"acked", "failed"} : Goto(w, st)
  BY DEF Acknowledge
<1>3. faults' \in 0 .. MaxFaults
  BY PullDeliveryAssumption DEF Acknowledge, DInv, ControlTypes, Fault, NoFault
<1>4. UNCHANGED <<nextSeq, records, crashes>> /\ \A s \in Scopes : ScopeInv(s)'
  <2>1. CASE UNCHANGED apiVars
    <3>1. UNCHANGED <<nextSeq, records, crashes, acked, vouched>>
      BY <2>1 DEF apiVars, serviceVars, collectionVars
    <3> QED BY <1>1, <3>1, ScopeStays
  <2>2. CASE holds[w] \in pending /\ AckBatch(holds[w], holds[w].next)
    <3>1. UNCHANGED <<nextSeq, records, crashes>>
      BY <2>2 DEF AckBatch
    <3>2. \A s \in Scopes : ScopeInv(s)'
      BY <1>1, <2>2, AckScopes
    <3> QED BY <3>1, <3>2
  <2> QED BY <2>1, <2>2 DEF Acknowledge
<1>5. st \in Stages /\ st # "idle"
  BY DEF Stages
<1> QED BY <1>1, <1>2, <1>3, <1>4, <1>5, WorkerGoesOn DEF DInv, ControlTypes

(* The cursor that is persisted is that of a batch written and acknowledged. *)
LEMMA PersistCursorDInv ==
    ASSUME IInv, IInv', DInv, NEW w \in Workers, PersistCursor(w) PROVE DInv'
<1> DEFINE b == holds[w]
<1>1. /\ stage[w] = "acked" /\ stage[w] # "idle"
      /\ UNCHANGED <<index, deadLetters>> /\ UNCHANGED apiVars
      /\ Goto(w, "idle") /\ holds' = [holds EXCEPT ![w] = NoBatch]
      /\ cursor' \in {cursor, [cursor EXCEPT ![b.scope] = b.next]}
  BY DEF PersistCursor, PersistedCursor, Finish
<1>2. UNCHANGED <<nextSeq, records, crashes, acked, vouched>>
  BY <1>1 DEF apiVars, serviceVars, collectionVars
<1>3. BatchType(b) /\ (crashes = 0 => IndexedUpTo(b.scope, b.next))
  BY <1>1, WrittenBatch
<1>4. /\ b.scope \in Scopes /\ b.next \in Nat
      /\ cursor \in [Scopes -> Nat \cup {NoCursor}]
      /\ faults' \in 0 .. MaxFaults
  BY <1>3, PullDeliveryAssumption DEF BatchType, PersistCursor, DInv, ControlTypes, Fault, NoFault
<1> HIDE DEF b
<1>5. /\ cursor' \in [Scopes -> Nat \cup {NoCursor}]
      /\ \A s \in Scopes : cursor'[s] = cursor[s] \/ (s = b.scope /\ cursor'[s] = b.next)
  BY <1>1, <1>4
<1>6. ASSUME NEW s \in Scopes PROVE ScopeInv(s)'
  <2>1. CASE cursor'[s] = cursor[s]
    BY <1>1, <1>2, <2>1, ScopeStays
  <2>2. CASE s = b.scope /\ cursor'[s] = b.next
    <3>1. ScopeInv(s) /\ vouched[s] \in Nat
      BY ApiTypes DEF DInv, IInv
    <3>2. /\ \A q \in DOMAIN records : Indexed(q) => Indexed(q)'
          /\ Matching(s)' = Matching(s) /\ Matching(s) \subseteq DOMAIN records
          /\ \A o \in Nat : IndexedUpTo(s, o) => IndexedUpTo(s, o)'
      BY <1>1, <1>2, BufferStays
    <3>3. \A o : /\ o = vouched[s] => (IndexedUpTo(s, o)' => IndexedUpTo(s, vouched[s])')
                 /\ o = cursor'[s] => (IndexedUpTo(s, o)' => IndexedUpTo(s, cursor[s])')
      BY <1>2 DEF IndexedUpTo
    <3> QED BY <1>2, <1>3, <1>4, <2>2, <3>1, <3>2, <3>3 DEF ScopeInv
  <2> QED BY <1>5, <2>1, <2>2
<1>7. "idle" \in Stages
  BY DEF Stages
<1> QED BY <1>1, <1>2, <1>4, <1>5, <1>6, <1>7, WorkerGoesOn

(* A batch that is given up goes to the dead letters and stays in the buffer. *)
LEMMA HandleNackDInv ==
    ASSUME IInv, IInv', DInv, NEW w \in Workers, HandleNack(w) PROVE DInv'
<1>1. /\ stage[w] = "failed" /\ stage[w] # "idle"
      /\ UNCHANGED <<cursor, index>>
      /\ Goto(w, "idle") /\ holds' = [holds EXCEPT ![w] = NoBatch]
      /\ deadLetters' \subseteq deadLetters \cup LinesOf(holds[w])
  BY DEF HandleNack, Finish
<1>2. UNCHANGED <<nextSeq, records, crashes, acked, vouched>>
  BY DEF HandleNack, Rejected, NackBatch, apiVars, serviceVars, collectionVars
<1>3. faults' \in 0 .. MaxFaults
  BY PullDeliveryAssumption DEF HandleNack, DInv, ControlTypes, Fault, NoFault
<1>4. index \subseteq index'
  BY <1>1
<1>5. \A s \in Scopes : ScopeInv(s)'
  BY <1>1, <1>2, <1>4, ScopeStays
<1>6. "idle" \in Stages
  BY DEF Stages
<1> QED BY <1>1, <1>2, <1>3, <1>4, <1>5, <1>6, WorkerGoesOn DEF DInv, ControlTypes

(* A restart of the control plane loses the workers' batches and no cursor. *)
LEMMA ControlPlaneCrashDInv == ASSUME IInv, IInv', DInv, ControlPlaneCrash PROVE DInv'
<1>1. /\ stage' = [w \in Workers |-> "idle"] /\ holds' = [w \in Workers |-> NoBatch]
      /\ UNCHANGED <<cursor, index, deadLetters, apiVars>> /\ faults' \in 0 .. MaxFaults
  BY PullDeliveryAssumption DEF ControlPlaneCrash, Fault, DInv, ControlTypes
<1>2. UNCHANGED <<nextSeq, records, crashes, acked, vouched>>
  BY <1>1 DEF apiVars, serviceVars, collectionVars
<1>3. ControlTypes'
  BY <1>1 DEF DInv, ControlTypes, Stages
<1>4. \A w \in Workers : WorkerInv(w)'
  BY <1>1 DEF WorkerInv
<1>5. \A s \in Scopes : ScopeInv(s)'
  BY <1>1, <1>2, ScopeStays
<1>6. LettersBuffered'
  BY <1>1, <1>2 DEF DInv, LettersBuffered, Held, NothingDropped
<1> QED BY <1>3, <1>4, <1>5, <1>6 DEF DInv
(* Whatever the control plane does, to the agent it is a caller like any other. *)
LEMMA StepsAreServiceSteps ==
    ASSUME IInv, DInv, [Next]_vars
    PROVE  ServiceStep
<1>1. ASSUME NEW w \in Workers, NEW s \in Scopes, NEW n \in PullSizes, NEW id \in BatchIds,
             StartTask(w, s, n, id)
      PROVE  ServiceStep
  <2>1. Pull(s, cursor[s], n, id)
    BY <1>1 DEF StartTask
  <2>2. cursor[s] \in Nat \cup {NoCursor} /\ n \in Nat
    BY PullApiAssumption DEF DInv, ControlTypes
  <2> QED BY <2>1, <2>2 DEF ServiceStep
<1>2. ASSUME NEW w \in Workers, Acknowledge(w) PROVE ServiceStep
  <2>1. stage[w] # "idle" => holds[w].next \in Nat
    BY DEF DInv, ControlTypes, BatchType
  <2> QED BY <1>2, <2>1 DEF Acknowledge, ServiceStep
<1>3. ASSUME NEW w \in Workers, HandleNack(w) PROVE ServiceStep
  BY <1>3 DEF HandleNack, Rejected, ServiceStep
<1>4. ASSUME NEW w \in Workers, WriteIndex(w) \/ WriteFails(w) \/ PersistCursor(w)
      PROVE  ServiceStep
  BY <1>4 DEF WriteIndex, WriteFails, PersistCursor, ServiceStep
<1>5. CASE AgentStep
  BY <1>5 DEF AgentStep, ServiceStep
<1>6. CASE ControlPlaneCrash \/ UNCHANGED vars
  BY <1>6 DEF ControlPlaneCrash, vars, ServiceStep
<1> QED BY <1>1, <1>2, <1>3, <1>4, <1>5, <1>6 DEF Next, WorkerStep

(* Nothing is held, indexed or covered at first. *)
LEMMA InitDInv == Init => DInv
<1> SUFFICES ASSUME Init PROVE DInv
  OBVIOUS
<1>1. /\ DOMAIN records = {} /\ \A s \in Scopes : acked[s] = {} /\ vouched[s] = 0 /\ nextSeq = 0
  BY DEF Init, ApiInit, NothingBuffered, NothingAcked, NothingCommitted
<1>2. ControlTypes
  BY PullDeliveryAssumption DEF Init, ControlTypes, Stages
<1>3. \A s \in Scopes : ScopeInv(s)
  BY <1>1 DEF Init, ScopeInv, IndexedUpTo, Matching
<1>4. (\A w \in Workers : WorkerInv(w)) /\ LettersBuffered
  BY DEF Init, WorkerInv, LettersBuffered
<1> QED BY <1>2, <1>3, <1>4 DEF DInv

(* Every step of agent and control plane keeps the control plane's invariant. *)
LEMMA NextDInv == ASSUME IInv, IInv', OInv, LInv, DInv, [Next]_vars PROVE DInv'
<1>1. CASE UNCHANGED vars
  <2>1. UNCHANGED controlVars /\ UNCHANGED <<nextSeq, records, acked, vouched, crashes>>
    BY <1>1 DEF vars, apiVars, serviceVars, collectionVars
  <2>2. nextSeq <= nextSeq' /\ \A q \in DOMAIN records' :
           q \in DOMAIN records /\ records'[q].file = records[q].file /\ Grown(records, records', q)
    BY <2>1 DEF Grown, IInv, ApiTypeOK
  <2> QED BY <2>1, <2>2, AgentGoesOn
<1>2. ASSUME NEW w \in Workers, WorkerStep(w) PROVE DInv'
  BY <1>2, StartTaskDInv, WriteIndexDInv, WriteFailsDInv, AcknowledgeDInv, PersistCursorDInv,
     HandleNackDInv DEF WorkerStep
<1> QED BY <1>1, <1>2, AgentDInv, ControlPlaneCrashDInv DEF Next

(* So the four invariants hold throughout. *)
LEMMA SpecInv == Spec => [](IInv /\ OInv /\ LInv /\ DInv)
<1>1. Init => IInv /\ OInv /\ LInv /\ DInv
  BY ApiInitIInv, ApiInitOInv, ApiInitLInv, InitDInv DEF Init
<1>2. IInv /\ OInv /\ LInv /\ DInv /\ [Next]_vars => (IInv /\ OInv /\ LInv /\ DInv)'
  BY StepsAreServiceSteps, ServiceStepIInv, ServiceStepOInv, ServiceStepLInv, NextDInv
<1> QED BY <1>1, <1>2, PTL DEF Spec

(* Agent and control plane together stay well-formed: cursors, worker stages, the
   batches workers hold, index and dead letters (Execute of executor.go). *)
THEOREM DeliveryTypeCorrect == Spec => []TypeOK
<1>1. IInv /\ DInv => TypeOK
  BY DEF IInv, DInv, ControlTypes, BatchType, Stages, TypeOK
<1> QED BY <1>1, SpecInv, PTL

(* The executor is one of the callers the service is specified for: every step of
   agent and control plane is a step of PullApi or leaves its state alone, if
   callers may send any number as a cursor. *)
THEOREM DeliveryCallsTheService ==
    ASSUME Nat \cup {NoCursor} \subseteq Cursors, Nat \subseteq CommitCursors
    PROVE  Spec => ApiSpec
<1>1. ASSUME IInv, DInv, [Next]_vars PROVE [ApiNext]_apiVars
  <2>1. ASSUME NEW w \in Workers, NEW s \in Scopes, NEW n \in PullSizes, NEW id \in BatchIds,
               StartTask(w, s, n, id)
        PROVE  ApiNext
    <3>1. Pull(s, cursor[s], n, id)
      BY <2>1 DEF StartTask
    <3>2. cursor[s] \in Cursors
      BY <1>1 DEF DInv, ControlTypes
    <3> QED BY <3>1, <3>2 DEF ApiNext
  <2>2. ASSUME NEW w \in Workers, Acknowledge(w) PROVE [ApiNext]_apiVars
    <3>1. stage[w] # "idle" => holds[w].next \in CommitCursors
      BY <1>1 DEF DInv, ControlTypes, BatchType
    <3> QED BY <2>2, <3>1 DEF Acknowledge, ApiNext
  <2>3. ASSUME NEW w \in Workers, HandleNack(w) PROVE [ApiNext]_apiVars
    BY <2>3 DEF HandleNack, Rejected, ApiNext
  <2>4. ASSUME NEW w \in Workers, WriteIndex(w) \/ WriteFails(w) \/ PersistCursor(w)
        PROVE  UNCHANGED apiVars
    BY <2>4 DEF WriteIndex, WriteFails, PersistCursor
  <2>5. CASE AgentStep
    BY <2>5 DEF AgentStep, ApiNext
  <2>6. CASE ControlPlaneCrash \/ UNCHANGED vars
    BY <2>6 DEF ControlPlaneCrash, vars
  <2> QED BY <1>1, <2>1, <2>2, <2>3, <2>4, <2>5, <2>6 DEF Next, WorkerStep
<1>2. Init => ApiInit
  BY DEF Init
<1> QED BY <1>1, <1>2, SpecInv, PTL DEF Spec, ApiSpec

(* Until the agent restarts, no cursor the control plane has persisted is beyond a
   buffered record that is not in the index, over lost answers, failed writes,
   concurrent tasks and restarts of the control plane (Execute). *)
THEOREM CursorNeverSkips == Spec => []CursorOnlyAfterIndexed
<1>1. DInv => CursorOnlyAfterIndexed
  BY DEF DInv, ScopeInv, IndexedUpTo, CursorOnlyAfterIndexed
<1> QED BY <1>1, SpecInv, PTL

(* What the agent counts as acknowledged is in the index, over restarts of either
   side: the executor acknowledges after the write only. *)
THEOREM AcknowledgedIsIndexed == Spec => []AckedIsIndexed
<1>1. DInv => AckedIsIndexed
  BY DEF DInv, ScopeInv, AckedIsIndexed
<1> QED BY <1>1, SpecInv, PTL

(* A line of the dead letters that is not in the index is still in the agent's
   buffer beyond every cursor, so that the next task pulls it, as long as the agent
   stays up and its buffer has dropped nothing (handleNack). *)
THEOREM DeadLettersAreRetried == Spec => []DeadLetterIsRetried
<1>1. ASSUME IInv, DInv PROVE DeadLetterIsRetried
  <2> SUFFICES ASSUME NothingDropped, NEW line \in deadLetters,
                      line[2] \notin Joining, line \notin index
               PROVE  \E q \in DOMAIN records :
                        /\ records[q].file = line[1] /\ line[2] \in records[q].lines
                        /\ \A s \in Scopes :
                              line[1] \in FilesOf[s] /\ cursor[s] # NoCursor => cursor[s] < q
    BY DEF DeadLetterIsRetried
  <2>1. PICK q \in DOMAIN records : records[q].file = line[1] /\ line[2] \in records[q].lines
    BY <1>1 DEF DInv, LettersBuffered, Held
  <2>2. line = <<line[1], line[2]>> /\ ~Indexed(q)
    <3>1. line \in Files \X Nat
      BY <1>1 DEF DInv, ControlTypes
    <3> QED BY <2>1, <3>1 DEF Indexed
  <2>3. ASSUME NEW s \in Scopes, line[1] \in FilesOf[s], cursor[s] # NoCursor PROVE cursor[s] < q
    <3>1. q \in Matching(s) /\ q \in Nat /\ cursor[s] \in Nat
      BY <1>1, <2>1, <2>3, ApiTypes DEF Matching, IInv, DInv, ControlTypes
    <3>2. IndexedUpTo(s, cursor[s])
      BY <1>1, <2>3 DEF DInv, ScopeInv, NothingDropped
    <3> QED BY <2>2, <3>1, <3>2 DEF IndexedUpTo
  <2> QED BY <2>1, <2>3
<1> QED BY <1>1, SpecInv, PTL

(* Under the same conditions the agent's stored checkpoint covers only lines that
   are in the index, but for those a critical line overtook: no line is lost
   between reading it and the index, whatever calls and writes fail. *)
THEOREM CheckpointedIsIndexed == Spec => []CheckpointCoversIndexed
<1>1. ASSUME IInv, OInv, LInv, DInv PROVE CheckpointCoversIndexed
  <2> SUFFICES ASSUME NothingDropped, NEW f \in Files, NEW n \in 1 .. disk[f], n \notin Joining,
                      ~\E k \in n .. disk[f] : Overtaken(k)
               PROVE  <<f, n>> \in index
    BY DEF CheckpointCoversIndexed
  <2>1. disk[f] \in Nat /\ read[f] \in Nat /\ n \in Nat /\ n <= disk[f] /\ ~LineAhead(disk[f], n)
    BY <1>1 DEF IInv, ApiTypeOK, CollectionTypeOK, LineAhead
  <2>2. disk[f] <= read[f] /\ ~Waits(f, n)
    BY <1>1, <2>1, AheadOfLine DEF OInv, Clear, Passed
  <2>3. PICK q \in DOMAIN records : records[q].file = f /\ n \in Plain(q)
    BY <1>1, <2>1, <2>2 DEF LInv, LinesTraced, Held, Plain
  <2>4. PICK s \in Scopes : f \in FilesOf[s] /\ Covered(s, q)
    BY <1>1, <2>1, <2>3 DEF LInv, LinesClear, AnsweredIn
  <2>5. Indexed(q)
    BY <1>1, <2>3, <2>4 DEF DInv, ScopeInv, IndexedUpTo, Covered, Matching, NothingDropped
  <2> QED BY <2>3, <2>5 DEF Indexed, Plain
<1> QED BY <1>1, SpecInv, PTL
=============================================================================
