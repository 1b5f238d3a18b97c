-------------------------- MODULE CollectionProofs --------------------------
(***************************************************************************)
(* Lemmas about the collector's part, for the proofs of its consumers.     *)
(***************************************************************************)
EXTENDS Collection, FiniteSetTheorems, SequenceTheorems, TLAPS

\* Line n is among the lines g; it waits in one of the two groups of its file.
InGroup(g, n) == \E i \in 1 .. Len(g) : g[i] = n
Waits(f, n) == InGroup(hot[f], n) \/ InGroup(rest[f], n)

(* A scan splits its lines into two sequences of them, each in file order. *)
LEMMA ScanGroup ==
    ASSUME NEW lo \in Nat, NEW hi \in Nat, NEW S \in SUBSET (lo .. hi), NEW g \in InOrder(S)
    PROVE  /\ g \in Seq(Nat)
           /\ \A i \in 1 .. Len(g) : g[i] \in S
           /\ \A i, j \in 1 .. Len(g) : i < j => g[i] < g[j]
<1>1. lo \in Int /\ hi \in Int
  OBVIOUS
<1>2. IsFiniteSet(S)
  BY <1>1, FS_Interval, FS_Subset
<1>3. Cardinality(S) \in Nat
  BY <1>2, FS_CardinalityType
<1>4. g \in [1 .. Cardinality(S) -> S] /\ \A i, j \in DOMAIN g : i < j => g[i] < g[j]
  BY DEF InOrder
<1>5. g \in Seq(S)
  BY <1>3, <1>4, SeqDef
<1>6. DOMAIN g = 1 .. Len(g)
  BY <1>5, LenProperties
<1>7. S \subseteq Nat
  BY <1>1
<1>8. g \in Seq(Nat)
  <2>1. g \in [1 .. Cardinality(S) -> Nat]
    BY <1>4, <1>7
  <2> QED BY <1>3, <2>1, SeqDef
<1>9. \A i \in 1 .. Len(g) : g[i] \in S
  BY <1>5, ElementOfSeq
<1>10. \A i, j \in 1 .. Len(g) : i < j => g[i] < g[j]
  BY <1>4, <1>6
<1> QED BY <1>8, <1>9, <1>10

(* It leaves none of them out: an increasing sequence as long as a finite set *)
(* of its elements has room for all of them.                                  *)
LEMMA ScanGroupIsAll ==
    ASSUME NEW lo \in Nat, NEW hi \in Nat, NEW S \in SUBSET (lo .. hi), NEW g \in InOrder(S)
    PROVE  \A n \in S : InGroup(g, n)
<1> SUFFICES ASSUME NEW n \in S PROVE InGroup(g, n)
  OBVIOUS
<1> DEFINE D == 1 .. Cardinality(S)
<1>1. lo \in Int /\ hi \in Int
  OBVIOUS
<1>2. IsFiniteSet(S)
  BY <1>1, FS_Interval, FS_Subset
<1>3. Cardinality(S) \in Nat
  BY <1>2, FS_CardinalityType
<1>4. g \in [D -> S] /\ DOMAIN g = D /\ \A i, j \in D : i < j => g[i] < g[j]
  BY DEF InOrder
<1>5. Len(g) = Cardinality(S)
  <2>1. g \in Seq(S)
    BY <1>3, <1>4, SeqDef
  <2> QED BY <1>3, <1>4, <2>1, LenProperties
<1>6. ASSUME \A i \in D : g[i] # n PROVE FALSE
  <2>1. g \in [D -> S \ {n}]
    BY <1>4, <1>6
  <2>2. IsFiniteSet(S \ {n}) /\ Cardinality(S \ {n}) = Cardinality(S) - 1
    BY <1>2, FS_RemoveElement
  <2>3. IsFiniteSet(D) /\ Cardinality(D) = Cardinality(S)
    BY <1>3, FS_Interval
  <2>4. Cardinality(S \ {n}) < Cardinality(D)
    BY <1>3, <2>2, <2>3
  <2>5. PICK i, j \in D : i # j /\ g[i] = g[j]
    <3> HIDE DEF D
    <3> QED BY <2>1, <2>2, <2>3, <2>4, FS_PigeonHole
  <2>6. i < j \/ j < i
    BY <1>3, <2>5
  <2>7. g[i] \in lo .. hi /\ g[j] \in lo .. hi
    BY <1>4
  <2>8. g[i] < g[j] \/ g[j] < g[i]
    BY <1>4, <2>6
  <2> QED BY <1>1, <2>5, <2>7, <2>8
<1> QED BY <1>5, <1>6 DEF InGroup

(* Scanning keeps the types of the collector's part. *)
LEMMA ScanType ==
    ASSUME CollectionTypeOK, NEW f \in Files, NEW n \in ScanSizes, Scan(f, n)
    PROVE  CollectionTypeOK'
<1>1. n \in Nat /\ read[f] \in Nat
  BY CollectionAssumption DEF CollectionTypeOK
<1> DEFINE window == (read[f] + 1) .. (read[f] + n)
<1>2. PICK h \in InOrder(window \cap Critical), r \in InOrder(window \ Critical) :
         hot' = [hot EXCEPT ![f] = h] /\ rest' = [rest EXCEPT ![f] = r]
  BY DEF Scan
<1>3. window \cap Critical \in SUBSET window /\ window \ Critical \in SUBSET window
      /\ read[f] + 1 \in Nat /\ read[f] + n \in Nat
  BY <1>1
<1>4. h \in Seq(Nat) /\ r \in Seq(Nat)
  BY <1>3, ScanGroup
<1>5. hot' \in [Files -> Seq(Nat)] /\ rest' \in [Files -> Seq(Nat)]
  BY <1>2, <1>4 DEF CollectionTypeOK
<1> QED BY <1>1, <1>5 DEF Scan, CollectionTypeOK

(* Taking a group keeps them too, and the group is a sequence of lines. *)
LEMMA TakeType ==
    ASSUME CollectionTypeOK, NEW f \in Files, Take(f)
    PROVE  CollectionTypeOK' /\ Waiting(f) \in Seq(Nat)
<1>1. Waiting(f) \in Seq(Nat)
  BY DEF CollectionTypeOK, Waiting
<1>2. hot' \in [Files -> Seq(Nat)] /\ rest' \in [Files -> Seq(Nat)]
  BY DEF Take, CollectionTypeOK
<1> QED BY <1>1, <1>2 DEF Take, CollectionTypeOK

(* So does a restart. *)
LEMMA RestartType ==
    ASSUME CollectionTypeOK, RestartCollection
    PROVE  CollectionTypeOK'
  BY DEF CollectionTypeOK, RestartCollection, NoLines

-----------------------------------------------------------------------------
(* Nothing is in an empty group. *)
LEMMA EmptyGroup == \A n : ~InGroup(<<>>, n)
  BY DEF InGroup

(* A group of a scan holds exactly the lines it was made of. *)
LEMMA ScanGroupLines ==
    ASSUME NEW lo \in Nat, NEW hi \in Nat, NEW S \in SUBSET (lo .. hi), NEW g \in InOrder(S)
    PROVE  \A m : InGroup(g, m) <=> m \in S
<1>1. \A i \in 1 .. Len(g) : g[i] \in S
  BY ScanGroup
<1>2. ASSUME NEW m \in S PROVE InGroup(g, m)
  BY ScanGroupIsAll
<1> QED BY <1>1, <1>2 DEF InGroup

(* After a scan exactly the lines of its window wait, the critical ones in front. *)
LEMMA ScanWaits ==
    ASSUME CollectionTypeOK, NEW f \in Files, NEW n \in ScanSizes, Scan(f, n)
    PROVE  /\ \A m : ~Waits(f, m)
           /\ \A m : Waits(f, m)' <=> m \in (read[f] + 1) .. (read[f] + n)
           /\ \A m : InGroup(hot'[f], m) => m \in Critical
           /\ \A e \in Files \ {f} : hot'[e] = hot[e] /\ rest'[e] = rest[e]
<1>1. n \in Nat /\ read[f] \in Nat
  BY CollectionAssumption DEF CollectionTypeOK
<1> DEFINE window == (read[f] + 1) .. (read[f] + n)
<1>2. PICK h \in InOrder(window \cap Critical), r \in InOrder(window \ Critical) :
         hot' = [hot EXCEPT ![f] = h] /\ rest' = [rest EXCEPT ![f] = r]
  BY DEF Scan
<1>3. window \cap Critical \in SUBSET window /\ window \ Critical \in SUBSET window
      /\ read[f] + 1 \in Nat /\ read[f] + n \in Nat
  BY <1>1
<1>4. hot'[f] = h /\ rest'[f] = r
  BY <1>2 DEF CollectionTypeOK
<1> HIDE DEF window
<1>5. \A m : InGroup(h, m) <=> m \in window \cap Critical
  <2> DEFINE lo == read[f] + 1 hi == read[f] + n
  <2>1. lo \in Nat /\ hi \in Nat /\ window \cap Critical \in SUBSET (lo .. hi)
    BY <1>3 DEF window
  <2> HIDE DEF lo, hi
  <2> QED BY <2>1, ScanGroupLines
<1>6. \A m : InGroup(r, m) <=> m \in window \ Critical
  <2> DEFINE lo == read[f] + 1 hi == read[f] + n
  <2>1. lo \in Nat /\ hi \in Nat /\ window \ Critical \in SUBSET (lo .. hi)
    BY <1>3 DEF window
  <2> HIDE DEF lo, hi
  <2> QED BY <2>1, ScanGroupLines
<1>7. \A m : ~Waits(f, m)
  BY EmptyGroup DEF Scan, Waits
<1>8. \A m : Waits(f, m)' <=> m \in window
  BY <1>4, <1>5, <1>6 DEF Waits
<1>9. \A e \in Files \ {f} : hot'[e] = hot[e] /\ rest'[e] = rest[e]
  BY <1>2 DEF CollectionTypeOK
<1> QED BY <1>4, <1>5, <1>7, <1>8, <1>9 DEF window

(* A consumer takes some of the waiting lines and leaves the others; if it *)
(* leaves any, those it takes are the first group.                         *)
LEMMA TakeWaits ==
    ASSUME CollectionTypeOK, NEW f \in Files, Take(f)
    PROVE  /\ \A m : Waits(f, m) <=> InGroup(Waiting(f), m) \/ Waits(f, m)'
           /\ \A m : ~InGroup(hot'[f], m)
           /\ \A m, k : InGroup(Waiting(f), m) /\ Waits(f, k)' => InGroup(hot[f], m)
           /\ \A e \in Files \ {f} : hot'[e] = hot[e] /\ rest'[e] = rest[e]
<1>1. hot'[f] = <<>> /\ rest'[f] = IF hot[f] # <<>> THEN rest[f] ELSE <<>>
  BY DEF Take, CollectionTypeOK
<1>2. \A e \in Files \ {f} : hot'[e] = hot[e] /\ rest'[e] = rest[e]
  BY DEF Take, CollectionTypeOK
<1>3. \A m : Waits(f, m)' <=> InGroup(rest'[f], m)
  BY <1>1, EmptyGroup DEF Waits
<1>4. CASE hot[f] # <<>>
  BY <1>1, <1>2, <1>3, <1>4, EmptyGroup DEF Waits, Waiting
<1>5. CASE hot[f] = <<>>
  BY <1>1, <1>2, <1>3, <1>5, EmptyGroup DEF Waits, Waiting
<1> QED BY <1>4, <1>5

(* After a restart nothing waits. *)
LEMMA RestartWaits ==
    ASSUME RestartCollection, NEW f \in Files
    PROVE  \A m : ~Waits(f, m)'
<1>1. hot'[f] = <<>> /\ rest'[f] = <<>>
  BY DEF RestartCollection, NoLines
<1> QED BY <1>1, EmptyGroup DEF Waits

-----------------------------------------------------------------------------
(***************************************************************************)
(* The order of offsets, as far as critical lines leave one.               *)
(***************************************************************************)

\* Offset o comes before line n, unless a critical line may come before both.
Ahead(o, n) == o < n \/ Overtaken(n)

\* An offset the collector has passed and no waiting line should come before.
Passed(f, o) == o <= read[f] /\ \A n \in Nat : Waits(f, n) => Ahead(o, n)

Increasing(g) == \A i, j \in 1 .. Len(g) : i < j => g[i] < g[j]

\* The two groups of a file: read lines, each in order, the critical ones in front.
GroupsInOrder(f) ==
    /\ Increasing(hot[f]) /\ Increasing(rest[f])
    /\ \A n \in Nat : Waits(f, n) => n <= read[f]
    /\ \A n \in Nat : (InGroup(hot[f], n) => n \in Critical) /\ (InGroup(rest[f], n) => n \notin Critical)

(* A scan puts two such groups behind everything that was passed. *)
LEMMA ScanInOrder ==
    ASSUME CollectionTypeOK, NEW f \in Files, NEW n \in ScanSizes, Scan(f, n),
           \A e \in Files : GroupsInOrder(e)
    PROVE  /\ \A e \in Files : GroupsInOrder(e)'
           /\ \A e \in Files : \A o \in Nat : Passed(e, o) => Passed(e, o)'
<1>1. n \in Nat /\ read[f] \in Nat /\ read' = [read EXCEPT ![f] = @ + n]
  BY CollectionAssumption DEF CollectionTypeOK, Scan
<1> DEFINE window == (read[f] + 1) .. (read[f] + n)
           lo == read[f] + 1
           hi == read[f] + n
           hots == window \cap Critical
           rests == window \ Critical
<1>2. PICK h \in InOrder(hots), r \in InOrder(rests) :
         hot' = [hot EXCEPT ![f] = h] /\ rest' = [rest EXCEPT ![f] = r]
  BY DEF Scan
<1>3. /\ lo \in Nat /\ hi \in Nat /\ hots \in SUBSET (lo .. hi) /\ rests \in SUBSET (lo .. hi)
      /\ \A m \in hots : m \in Critical
      /\ \A m \in rests : m \notin Critical
  BY <1>1
<1>4. hot'[f] = h /\ rest'[f] = r /\ read'[f] = read[f] + n
  BY <1>1, <1>2 DEF CollectionTypeOK
<1>5. \A e \in Files \ {f} : hot'[e] = hot[e] /\ rest'[e] = rest[e] /\ read'[e] = read[e]
  BY <1>1, <1>2 DEF CollectionTypeOK
<1>6. \A m : Waits(f, m)' <=> m \in (read[f] + 1) .. (read[f] + n)
  BY ScanWaits
<1> HIDE DEF window, lo, hi, hots, rests
<1>7. Increasing(h) /\ \A m : InGroup(h, m) <=> m \in hots
  BY <1>3, ScanGroup, ScanGroupLines DEF Increasing
<1>8. Increasing(r) /\ \A m : InGroup(r, m) <=> m \in rests
  BY <1>3, ScanGroup, ScanGroupLines DEF Increasing
<1>9. GroupsInOrder(f)'
  BY <1>1, <1>3, <1>4, <1>6, <1>7, <1>8 DEF GroupsInOrder
<1>10. \A o \in Nat : Passed(f, o) => Passed(f, o)'
  BY <1>1, <1>4, <1>6 DEF Passed, Ahead
<1>11. ASSUME NEW e \in Files, e # f
       PROVE  GroupsInOrder(e)' /\ \A o \in Nat : Passed(e, o) => Passed(e, o)'
  BY <1>5, <1>11 DEF GroupsInOrder, Passed, Waits, Ahead, Overtaken
<1> QED BY <1>9, <1>10, <1>11

(* What a consumer takes comes before what it leaves. *)
LEMMA TakeInOrder ==
    ASSUME CollectionTypeOK, NEW f \in Files, Take(f), \A e \in Files : GroupsInOrder(e)
    PROVE  /\ \A e \in Files : GroupsInOrder(e)'
           /\ \A e \in Files : \A o \in Nat : Passed(e, o) => Passed(e, o)'
           /\ Increasing(Waiting(f))
           /\ \A m \in Nat : InGroup(Waiting(f), m) => Passed(f, m)'
<1>1. /\ hot'[f] = <<>> /\ rest'[f] = (IF hot[f] # <<>> THEN rest[f] ELSE <<>>)
      /\ UNCHANGED read
  BY DEF Take, CollectionTypeOK
<1>2. /\ \A m : Waits(f, m) <=> InGroup(Waiting(f), m) \/ Waits(f, m)'
      /\ \A m : ~InGroup(hot'[f], m)
      /\ \A m, k : InGroup(Waiting(f), m) /\ Waits(f, k)' => InGroup(hot[f], m)
      /\ \A e \in Files \ {f} : hot'[e] = hot[e] /\ rest'[e] = rest[e]
  BY TakeWaits
<1>3. Increasing(<<>>)
  BY DEF Increasing
<1>4. GroupsInOrder(f)'
  BY <1>1, <1>2, <1>3, EmptyGroup DEF GroupsInOrder
<1>5. \A o \in Nat : Passed(f, o) => Passed(f, o)'
  BY <1>1, <1>2 DEF Passed, Ahead, Overtaken
<1>6. ASSUME NEW e \in Files, e # f
      PROVE  GroupsInOrder(e)' /\ \A o \in Nat : Passed(e, o) => Passed(e, o)'
  BY <1>1, <1>2, <1>6 DEF GroupsInOrder, Passed, Waits, Ahead, Overtaken
<1>7. Increasing(Waiting(f))
  BY DEF GroupsInOrder, Waiting
<1>8. ASSUME NEW m \in Nat, InGroup(Waiting(f), m) PROVE Passed(f, m)'
  <2>1. m <= read'[f]
    BY <1>1, <1>2, <1>8 DEF GroupsInOrder
  <2>2. ASSUME NEW k \in Nat, Waits(f, k)' PROVE Ahead(m, k)
    <3>1. m \in Critical
      BY <1>2, <1>8, <2>2 DEF GroupsInOrder
    <3>2. k \notin Critical
      BY <1>2, <2>2, <1>4 DEF GroupsInOrder, Waits
    <3>3. m # k
      BY <3>1, <3>2
    <3> QED BY <3>1, <3>3 DEF Ahead, Overtaken
  <2> QED BY <2>1, <2>2 DEF Passed, Ahead, Overtaken
<1> QED BY <1>4, <1>5, <1>6, <1>7, <1>8

(* A restart goes back to positions that nothing waits behind. *)
LEMMA RestartInOrder ==
    ASSUME CollectionTypeOK, RestartCollection, NEW f \in Files
    PROVE  GroupsInOrder(f)' /\ Passed(f, saved[f])' /\ Passed(f, disk[f])'
<1>1. /\ hot'[f] = <<>> /\ rest'[f] = <<>>
      /\ read'[f] = disk[f] /\ saved'[f] = disk[f] /\ disk'[f] = disk[f] /\ disk[f] \in Nat
  BY DEF RestartCollection, NoLines, CollectionTypeOK
<1>2. \A n : ~Waits(f, n)'
  BY RestartWaits
<1>3. Increasing(<<>>)
  BY DEF Increasing
<1> QED BY <1>1, <1>2, <1>3, EmptyGroup DEF GroupsInOrder, Passed

(* Before the first scan nothing waits either. *)
LEMMA InitInOrder ==
    ASSUME CollectionInit, NEW f \in Files
    PROVE  GroupsInOrder(f) /\ Passed(f, saved[f]) /\ Passed(f, disk[f])
<1>1. hot[f] = <<>> /\ rest[f] = <<>> /\ read[f] = 0 /\ saved[f] = 0 /\ disk[f] = 0
  BY DEF CollectionInit, NoLines, AtStart
<1>2. \A n : ~Waits(f, n)
  BY <1>1, EmptyGroup DEF Waits
<1>3. Increasing(<<>>)
  BY DEF Increasing
<1> QED BY <1>1, <1>2, <1>3, EmptyGroup DEF GroupsInOrder, Passed
=============================================================================
