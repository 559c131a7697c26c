---------------------------- MODULE EventLogScan ----------------------------
(***************************************************************************)
(* What recovery finds (EventLog): the loop of RecoverSlots over a medium, *)
(* by induction on the slot it has reached, what it makes of the images a  *)
(* power failure may leave, and that a restart preserves the invariant of  *)
(* the log.                                                                *)
(***************************************************************************)
EXTENDS EventLogSteps, WellFoundedInduction

(* A set of naturals has a least element.                                  *)
LEMMA NatMin == ASSUME NEW S \in SUBSET Nat, S # {} PROVE \E x \in S : \A y \in S : x <= y
<1> DEFINE R == {p \in Nat \X Nat : p[1] < p[2]}
<1>1. IsWellFoundedOn(R, Nat)
  <2>1. OpToRel(<, Nat) = R
    BY Zenon DEF OpToRel
  <2> QED BY <2>1, NatLessThanWellFounded, Zenon
<1>2. \A x, y \in Nat : <<y, x>> \notin R => x <= y
  OBVIOUS
<1> HIDE DEF R
<1>3. PICK x \in S : \A y \in S : ~ (<<y, x>> \in R)
  BY <1>1, WFMin, Zenon
<1> QED BY <1>2, <1>3, Zenon

(* A set of naturals below a bound has a greatest element.                 *)
LEMMA NatMax == ASSUME NEW n \in Nat, NEW S \in SUBSET (0..n), S # {} PROVE \E x \in S : \A y \in S : y <= x
<1> DEFINE T == {t \in Nat : n - t \in S}
<1>0. PICK s \in S : TRUE
  BY Zenon
<1>1. T \in SUBSET Nat /\ n - s \in T
  BY <1>0
<1>2. PICK t \in T : \A y \in T : t <= y
  BY <1>1, NatMin, Zenon
<1>3. \A y \in S : n - y \in T
  OBVIOUS
<1>4. n - t \in S /\ \A y \in S : t <= n - y
  BY <1>2, <1>3, Zenon
<1>5. \A y \in S : y <= n - t
  BY <1>2, <1>4
<1> QED BY <1>4, <1>5, Zenon

(* The recursion of Scan is well defined: every result is one turn of the  *)
(* loop over the later results.                                            *)
LEMMA ScanUnfold == ASSUME NEW m PROVE Scan(m) = [i \in 0..DiskSlots |-> ScanBody(m, Scan(m), i)]
<1> DEFINE Solves(f, n) == f = [i \in n..DiskSlots |-> ScanBody(m, f, i)]
           S == {n \in 0..DiskSlots : ~\E f : Solves(f, n)}
<1>1. S = {}
  <2> SUFFICES ASSUME S # {} PROVE FALSE
    OBVIOUS
  <2>1. PICK n \in S : \A y \in S : y <= n
    BY NatMax, LogConstants, Zenon
  <2>2. n \in 0..DiskSlots /\ ~\E f : Solves(f, n)
    BY <2>1, Zenon
  <2>3. n # DiskSlots => n + 1 \in 0..DiskSlots /\ n + 1 \notin S
    BY <2>1, <2>2, LogConstants
  <2>4. PICK f : n # DiskSlots => Solves(f, n + 1)
    BY <2>3, Zenon
  <2> DEFINE g == [i \in n..DiskSlots |-> IF i = n THEN ScanBody(m, f, n) ELSE f[i]]
  <2>5. ASSUME NEW i \in n..DiskSlots PROVE g[i] = ScanBody(m, g, i)
    <3>1. \A j \in (i + 1)..DiskSlots : g[j] = f[j]
      BY <2>2, LogConstants, SMTT(20)
    <3>2. ScanBody(m, g, i) = ScanBody(m, f, i)
      <4>1. i \in 0..DiskSlots
        BY <2>2, LogConstants
      <4> HIDE DEF g
      <4> QED BY <3>1, <4>1, BodyLocal, Zenon
    <3>3. CASE i = n
      BY <3>2, <3>3, Zenon
    <3>4. CASE i # n
      <4>1. n # DiskSlots /\ i \in (n + 1)..DiskSlots
        BY <2>2, <3>4, LogConstants
      <4>2. f[i] = ScanBody(m, f, i)
        BY <2>4, <4>1, Zenon
      <4>3. g[i] = f[i]
        BY <3>4, Zenon
      <4> QED BY <4>2, <4>3, <3>2, Zenon
    <3> QED BY <3>3, <3>4, Zenon
  <2>6. g = [i \in n..DiskSlots |-> ScanBody(m, g, i)]
    <3>1. g = [i \in n..DiskSlots |-> g[i]]
      OBVIOUS
    <3> HIDE DEF g
    <3> QED BY <2>5, <3>1, Zenon
  <2> QED BY <2>2, <2>6, Zenon
<1>2. \E f : f = [i \in 0..DiskSlots |-> ScanBody(m, f, i)]
  BY <1>1, LogConstants
<1>3. Scan(m) = CHOOSE f : f = [i \in 0..DiskSlots |-> ScanBody(m, f, i)]
  BY Zenon DEF Scan, ScanBody
<1> QED BY <1>2, <1>3, Zenon

(* What a step adds to the result of the scan.                             *)
LEMMA StepScan ==
  ASSUME NEW m, NEW i, NEW j, Step(m, i, j)
  PROVE  /\ i \in 0..DiskSlots /\ j \in (i + 1)..DiskSlots
         /\ Scan(m)[i].next = Scan(m)[j].next
         /\ Scan(m)[j].groups \subseteq Scan(m)[i].groups
         /\ Shows(m, i) => /\ Scan(m)[i].groups = Scan(m)[j].groups \cup {i .. (j - 1)}
                           /\ Scan(m)[i].end = IF Scan(m)[j].groups = {} THEN j - 1 ELSE Scan(m)[j].end
         /\ ~Shows(m, i) => Scan(m)[i] = Scan(m)[j]
<1>1. i \in 0..DiskSlots /\ i < DiskSlots /\ i + 1 \in (i + 1)..DiskSlots
  BY LogConstants DEF Step, Slots
<1>2. Scan(m)[i] = ScanBody(m, Scan(m), i)
  BY <1>1, ScanUnfold, Zenon
<1>3. CASE Skips(m, i) /\ j = i + 1
  <2>1. ~Shows(m, i)
    BY <1>3, Zenon DEF Skips, Shows, IsReservedEmptySlot
  <2>2. Scan(m)[i] = Scan(m)[j]
    BY <1>1, <1>2, <1>3, Zenon DEF ScanBody
  <2> QED BY <1>1, <1>3, <2>1, <2>2, Zenon
<1>4. CASE Shows(m, i) /\ j = i + m[i].len
  <2>1. ~Skips(m, i)
    BY <1>4, Zenon DEF Skips, Shows, IsReservedEmptySlot
  <2>2. m[i].len \in Nat /\ j \in (i + 1)..DiskSlots
    BY <1>1, <1>4, ShowsForward, Zenon
  <2>3. Scan(m)[i] = Showing(i, i + m[i].len - 1, Scan(m)[i + m[i].len])
    BY <1>1, <1>2, <1>4, <2>1, Zenon DEF ScanBody
  <2>4. /\ Scan(m)[i].next = Scan(m)[i + m[i].len].next
        /\ Scan(m)[i].groups = Scan(m)[i + m[i].len].groups \cup {i .. (i + m[i].len - 1)}
        /\ Scan(m)[i].end = IF Scan(m)[i + m[i].len].groups = {} THEN i + m[i].len - 1
                            ELSE Scan(m)[i + m[i].len].end
    BY <2>3 DEF Showing
  <2>5. /\ Scan(m)[i].next = Scan(m)[j].next
        /\ Scan(m)[i].groups = Scan(m)[j].groups \cup {i .. (j - 1)}
    BY <1>1, <1>4, <2>2, <2>4
  <2>6. Scan(m)[i].end = IF Scan(m)[j].groups = {} THEN j - 1 ELSE Scan(m)[j].end
    BY <1>1, <1>4, <2>2, <2>4
  <2> QED BY <1>1, <1>4, <2>2, <2>5, <2>6, Zenon
<1> QED BY <1>3, <1>4, Zenon DEF Step

(* Where no step is possible the scan ends.                                *)
LEMMA HaltScan ==
  ASSUME NEW m, NEW i \in 0..DiskSlots, \A j : ~Step(m, i, j)
  PROVE  Scan(m)[i].groups = {} /\ Scan(m)[i].end = 0 /\ Scan(m)[i].next = i
<1>1. Scan(m)[i] = ScanBody(m, Scan(m), i)
  BY ScanUnfold, Zenon
<1>2. i < DiskSlots => i \in Slots
  BY LogConstants DEF Slots
<1>3. ~(i < DiskSlots /\ Skips(m, i)) /\ ~(i < DiskSlots /\ Shows(m, i))
  BY <1>2, Zenon DEF Step
<1>4. Scan(m)[i] = Stopped(m, i)
  BY <1>1, <1>3, Zenon DEF ScanBody
<1> QED BY <1>4 DEF Stopped

(* The scan reaches the slot after a step from a slot it reaches.          *)
LEMMA VisitedStep == ASSUME NEW m, NEW i, NEW j, Visited(m, i), Step(m, i, j) PROVE Visited(m, j)
<1>1. PICK V \in SUBSET (0..DiskSlots) : i \in V /\ \A x \in V \ {0} : \E y \in V : y < x /\ Step(m, y, x)
  BY Zenon DEF Visited
<1> DEFINE W == V \cup {j}
<1>2. i < j /\ j \in 0..DiskSlots
  BY StepScan, LogConstants
<1>3. W \in SUBSET (0..DiskSlots) /\ j \in W
  BY <1>1, <1>2, Zenon
<1>4. \A x \in W \ {0} : \E y \in W : y < x /\ Step(m, y, x)
  BY <1>1, <1>2, Zenon
<1> QED BY <1>3, <1>4, Zenon DEF Visited

(* The scan of the whole region ends where the scan from a reached slot    *)
(* ends, and makes its groups visible.                                     *)
LEMMA VisitedScan ==
  ASSUME NEW m, NEW i, Visited(m, i)
  PROVE  i \in 0..DiskSlots /\ Scan(m)[i].next = Scan(m)[0].next /\ Scan(m)[i].groups \subseteq Scan(m)[0].groups
<1>1. PICK V \in SUBSET (0..DiskSlots) : i \in V /\ \A x \in V \ {0} : \E y \in V : y < x /\ Step(m, y, x)
  BY Zenon DEF Visited
<1> DEFINE Good(x) == Scan(m)[x].next = Scan(m)[0].next /\ Scan(m)[x].groups \subseteq Scan(m)[0].groups
           S == {x \in V : ~Good(x)}
<1>2. S = {}
  <2> SUFFICES ASSUME S # {} PROVE FALSE
    OBVIOUS
  <2>1. S \in SUBSET Nat
    <3>1. V \subseteq Nat
      BY <1>1, LogConstants
    <3> QED BY <3>1, Zenon
  <2>2. PICK x \in S : \A y \in S : x <= y
    BY <2>1, NatMin, Zenon
  <2>3. x # 0 /\ ~Good(x) /\ x \in V
    BY <2>2, Zenon
  <2>4. PICK y \in V : y < x /\ Step(m, y, x)
    BY <1>1, <2>3, Zenon
  <2>5. y \notin S
    BY <2>1, <2>2, <2>4, LogConstants
  <2>6. Good(y)
    BY <2>5, Zenon
  <2> QED BY <2>3, <2>4, <2>6, StepScan
<1>3. Good(i)
  BY <1>1, <1>2, Zenon
<1> QED BY <1>1, <1>3, Zenon

(* The scan ends: no set of slots is closed under its steps.               *)
LEMMA ScanInduction ==
  ASSUME NEW m, NEW S \in SUBSET (0..DiskSlots), \A i \in S : \E j \in S : Step(m, i, j)
  PROVE  S = {}
<1> SUFFICES ASSUME S # {} PROVE FALSE
  OBVIOUS
<1>1. PICK i \in S : \A y \in S : y <= i
  BY NatMax, LogConstants, Zenon
<1>2. PICK j \in S : Step(m, i, j)
  BY <1>1, Zenon
<1> QED BY <1>1, <1>2, StepScan, LogConstants

(* The scan ends at a slot where no step is possible.                      *)
LEMMA ScanNext ==
  ASSUME NEW m, NEW i \in 0..DiskSlots
  PROVE  Scan(m)[i].next \in i..DiskSlots /\ \A j : ~Step(m, Scan(m)[i].next, j)
<1> DEFINE Good(x) == Scan(m)[x].next \in x..DiskSlots /\ \A j : ~Step(m, Scan(m)[x].next, j)
           S == {x \in 0..DiskSlots : ~Good(x)}
<1>1. ASSUME NEW x \in S PROVE \E j \in S : Step(m, x, j)
  <2>1. x \in 0..DiskSlots /\ ~Good(x)
    OBVIOUS
  <2>2. PICK j : Step(m, x, j)
    BY <2>1, HaltScan, LogConstants
  <2>3. j \in (x + 1)..DiskSlots /\ Scan(m)[x].next = Scan(m)[j].next
    BY <2>2, StepScan
  <2>4. ~Good(j)
    BY <2>1, <2>3, LogConstants
  <2>5. j \in 0..DiskSlots
    BY <2>1, <2>3, LogConstants
  <2> HIDE DEF Good
  <2> QED BY <2>2, <2>4, <2>5, Zenon
<1>2. S = {}
  <2> HIDE DEF Good
  <2>1. S \in SUBSET (0..DiskSlots)
    OBVIOUS
  <2> HIDE DEF S
  <2> QED BY <1>1, <2>1, ScanInduction, Zenon
<1> QED BY <1>2, Zenon

(* The end it reports is the last slot of a group before the slot where it *)
(* stopped, 0 when it found none.                                          *)
LEMMA ScanEnd ==
  ASSUME NEW m, NEW i \in 0..DiskSlots
  PROVE  /\ Scan(m)[i].groups = {} => Scan(m)[i].end = 0
         /\ Scan(m)[i].groups # {} => Scan(m)[i].end \in i..(Scan(m)[i].next - 1)
<1> DEFINE Good(x) == /\ Scan(m)[x].groups = {} => Scan(m)[x].end = 0
                      /\ Scan(m)[x].groups # {} => Scan(m)[x].end \in x..(Scan(m)[x].next - 1)
           S == {x \in 0..DiskSlots : ~Good(x)}
<1>1. ASSUME NEW x \in S PROVE \E j \in S : Step(m, x, j)
  <2>1. x \in 0..DiskSlots /\ ~Good(x)
    OBVIOUS
  <2>2. PICK j : Step(m, x, j)
    BY <2>1, HaltScan
  <2>3. j \in (x + 1)..DiskSlots /\ j \in 0..DiskSlots /\ Scan(m)[x].next = Scan(m)[j].next
    BY <2>1, <2>2, StepScan, LogConstants
  <2>4. Scan(m)[j].next \in j..DiskSlots
    BY <2>3, ScanNext, Zenon
  <2>5. ASSUME Good(j) PROVE Good(x)
    <3>1. CASE ~Shows(m, x)
      <4>1. Scan(m)[x] = Scan(m)[j]
        BY <2>2, <3>1, StepScan
      <4> QED BY <2>1, <2>3, <2>4, <2>5, <4>1
    <3>2. CASE Shows(m, x)
      <4>1. Scan(m)[x].groups = Scan(m)[j].groups \cup {x .. (j - 1)}
        BY <2>2, <3>2, StepScan, Zenon
      <4>2. Scan(m)[x].groups # {}
        BY <4>1, Zenon
      <4>3. Scan(m)[x].end = IF Scan(m)[j].groups = {} THEN j - 1 ELSE Scan(m)[j].end
        BY <2>2, <3>2, StepScan
      <4>4. Scan(m)[x].end \in x..(Scan(m)[x].next - 1)
        BY <2>1, <2>3, <2>4, <2>5, <4>3
      <4> QED BY <4>2, <4>4, Zenon
    <3> QED BY <3>1, <3>2, Zenon
  <2> HIDE DEF Good
  <2> QED BY <2>1, <2>2, <2>3, <2>5, Zenon
<1>2. S = {}
  <2> HIDE DEF Good
  <2>1. S \in SUBSET (0..DiskSlots)
    OBVIOUS
  <2> HIDE DEF S
  <2> QED BY <1>1, <2>1, ScanInduction, Zenon
<1> QED BY <1>2, Zenon

(* It reaches the slot where it stops.                                     *)
LEMMA VisitedNext == ASSUME NEW m PROVE Visited(m, RecoverSlots(m).next)
<1> SUFFICES ASSUME ~Visited(m, Scan(m)[0].next) PROVE FALSE
  BY Zenon DEF RecoverSlots
<1> DEFINE S == {x \in 0..DiskSlots : Visited(m, x)}
<1>1. ASSUME NEW x \in S PROVE \E j \in S : Step(m, x, j)
  <2>1. x \in 0..DiskSlots /\ Visited(m, x)
    OBVIOUS
  <2>2. Scan(m)[x].next = Scan(m)[0].next
    BY <2>1, VisitedScan, Zenon
  <2>3. PICK j : Step(m, x, j)
    BY <2>1, <2>2, HaltScan, Zenon
  <2>4. Visited(m, j) /\ j \in 0..DiskSlots
    BY <2>1, <2>3, VisitedStep, StepScan, LogConstants
  <2> QED BY <2>3, <2>4, Zenon
<1>2. S = {}
  <2>1. S \in SUBSET (0..DiskSlots)
    OBVIOUS
  <2> HIDE DEF S
  <2> QED BY <1>1, <2>1, ScanInduction, Zenon
<1> QED BY <1>2, VisitedStart, LogConstants

(* Every group made visible starts at a slot the scan reached and is       *)
(* whole.                                                                  *)
LEMMA ScanShown ==
  ASSUME NEW m, NEW s \in RecoverSlots(m).groups
  PROVE  \E x \in Slots : Visited(m, x) /\ Shows(m, x) /\ s = x .. (x + m[x].len - 1)
<1> DEFINE Shown == \E x \in Slots : Visited(m, x) /\ Shows(m, x) /\ s = x .. (x + m[x].len - 1)
           S == {x \in 0..DiskSlots : Visited(m, x) /\ s \in Scan(m)[x].groups}
<1> SUFFICES ASSUME ~Shown PROVE FALSE
  OBVIOUS
<1>1. ASSUME NEW x \in S PROVE \E j \in S : Step(m, x, j)
  <2>1. x \in 0..DiskSlots /\ Visited(m, x) /\ s \in Scan(m)[x].groups
    OBVIOUS
  <2>2. PICK j : Step(m, x, j)
    BY <2>1, HaltScan, Zenon
  <2>3. Visited(m, j) /\ j \in 0..DiskSlots
    BY <2>1, <2>2, VisitedStep, StepScan, LogConstants
  <2>4. s \in Scan(m)[j].groups
    <3>1. CASE ~Shows(m, x)
      BY <2>1, <2>2, <3>1, StepScan
    <3>2. CASE Shows(m, x)
      <4>1. Scan(m)[x].groups = Scan(m)[j].groups \cup {x .. (j - 1)}
        BY <2>2, <3>2, StepScan, Zenon
      <4>2. x \in Slots /\ j = x + m[x].len
        BY <2>2, <3>2, Zenon DEF Step, Shows, Skips, IsReservedEmptySlot
      <4>3. s # x .. (j - 1)
        <5>1. x \in Slots /\ m[x].len \in Nat /\ j = x + m[x].len
          BY <2>1, <3>2, <4>2, ShowsForward, Zenon
        <5> QED BY <2>1, <3>2, <5>1 DEF Slots
      <4> QED BY <2>1, <4>1, <4>3, Zenon
    <3> QED BY <3>1, <3>2, Zenon
  <2> HIDE DEF Shown
  <2> QED BY <2>2, <2>3, <2>4, Zenon
<1>2. S = {}
  <2>1. S \in SUBSET (0..DiskSlots)
    OBVIOUS
  <2> HIDE DEF S, Shown
  <2> QED BY <1>1, <2>1, ScanInduction, Zenon
<1>3. 0 \in S
  BY VisitedStart, LogConstants DEF RecoverSlots
<1> QED BY <1>2, <1>3, Zenon

(* Every whole group that starts at a slot the scan reaches is made        *)
(* visible, and the scan reaches the slot after it.                        *)
LEMMA ShownScan ==
  ASSUME NEW m, NEW x \in Slots, Visited(m, x), Shows(m, x)
  PROVE  /\ x .. (x + m[x].len - 1) \in RecoverSlots(m).groups
         /\ Visited(m, x + m[x].len)
<1> DEFINE j == x + m[x].len
<1>1. Step(m, x, j)
  BY Zenon DEF Step
<1> HIDE DEF j
<1>2. Visited(m, j)
  BY <1>1, VisitedStep, Zenon
<1>3. Scan(m)[x].groups = Scan(m)[j].groups \cup {x .. (j - 1)}
  BY <1>1, StepScan, Zenon
<1>4. Scan(m)[x].groups \subseteq Scan(m)[0].groups
  BY VisitedScan, Zenon
<1>5. x .. (j - 1) \in Scan(m)[0].groups
  BY <1>3, <1>4, Zenon
<1>6. x .. (j - 1) \in RecoverSlots(m).groups
  BY <1>5, Zenon DEF RecoverSlots
<1>7. x \in 0..DiskSlots /\ m[x].len \in Nat
  BY ShowsForward, LogConstants DEF Slots
<1> QED BY <1>2, <1>6, <1>7 DEF j

(* The scan stops at or after every slot it reaches.                       *)
LEMMA VisitedBound ==
  ASSUME NEW m, NEW x, Visited(m, x)
  PROVE  x \in 0..DiskSlots /\ RecoverSlots(m).next \in x..DiskSlots
<1>1. x \in 0..DiskSlots /\ Scan(m)[x].next = Scan(m)[0].next
  BY VisitedScan, Zenon
<1>2. Scan(m)[x].next \in x..DiskSlots
  BY <1>1, ScanNext, Zenon
<1> QED BY <1>1, <1>2, Zenon DEF RecoverSlots

(* A group of which every event is on the medium, and whose first slot is  *)
(* reached, is returned, and the scan goes on after its padding.           *)
LEMMA PassGroup ==
  ASSUME LogTypes, Layout, NEW m, Stored(m), NEW k \in G, Visited(m, groups[k].first),
         \A p \in EventSlots(k) : m[p] = Content(k, p)
  PROVE  EventSlots(k) \in RecoverSlots(m).groups /\ Visited(m, groups[k].last + 1) /\ Visited(m, End(k))
<1> DEFINE f == groups[k].first
           e == groups[k].last
<1>1. f \in Nat /\ e \in Nat /\ f <= e /\ e < End(k) /\ End(k) \in Nat /\ f \in Slots /\ e \in Slots
  BY GroupTypes, InSlots, Zenon DEF Layout
<1>2. Shows(m, f) /\ m[f].len = e - f + 1
  BY WholeShows, Zenon
<1>3. f .. (f + m[f].len - 1) \in RecoverSlots(m).groups /\ Visited(m, f + m[f].len)
  BY <1>1, <1>2, ShownScan, Zenon
<1>4. f + m[f].len - 1 = e /\ f + m[f].len = e + 1
  BY <1>1, <1>2
<1>5. EventSlots(k) \in RecoverSlots(m).groups /\ Visited(m, e + 1)
  BY <1>3, <1>4, Zenon DEF EventSlots
<1> DEFINE S == {x \in (e + 1)..End(k) : ~Visited(m, x)}
<1>6. S = {}
  <2> SUFFICES ASSUME S # {} PROVE FALSE
    OBVIOUS
  <2>1. S \in SUBSET Nat
    BY <1>1
  <2>2. PICK x \in S : \A y \in S : x <= y
    BY <2>1, NatMin, Zenon
  <2>3. x \in (e + 1)..End(k) /\ ~Visited(m, x) /\ x # e + 1
    BY <2>2, <1>5, Zenon
  <2>4. x - 1 \in Nat /\ e < x - 1 /\ x - 1 < End(k)
    BY <1>1, <2>3
  <2>5. Visited(m, x - 1)
    BY <1>1, <2>2, <2>3, <2>4, LogConstants
  <2>6. e \in EventSlots(k) /\ e \in Positions(k)
    BY <1>1, InSlots DEF EventSlots
  <2>7. m[e].group = k
    BY <2>6, ContentFacts
  <2>8. x - 1 \in Positions(k) /\ LBAOf(x - 1) = LBAOf(e)
    BY <1>1, <2>4, Padding
  <2>9. m[x - 1] = Content(k, x - 1)
    BY <2>4, <2>6, <2>7, <2>8, StoredGroup
  <2>10. m[x - 1].kind = "reserved" /\ m[x - 1].id = x - 1
    BY <2>4, <2>8, <2>9, ContentFacts
  <2>11. Step(m, x - 1, (x - 1) + 1)
    BY <2>8, <2>10, InSlots, Zenon DEF Step, Skips, IsReservedEmptySlot
  <2>12. Visited(m, (x - 1) + 1)
    BY <2>5, <2>11, VisitedStep, Zenon
  <2> QED BY <1>1, <2>3, <2>12
<1> QED BY <1>1, <1>5, <1>6

(* A step that ends in the middle of a block can be followed by another.   *)
LEMMA StepAligned ==
  ASSUME LogTypes, Layout, NEW m, Stored(m), NEW y, NEW x, Step(m, y, x), ~Aligned(x)
  PROVE  x \in Slots /\ Skips(m, x)
<1>1. y \in Slots /\ y \in Nat /\ x \in Nat
  <2>1. y \in 0..DiskSlots /\ x \in (y + 1)..DiskSlots
    BY StepScan, Zenon
  <2> QED BY <2>1, LogConstants DEF Step
<1>2. CASE Skips(m, y) /\ x = y + 1
  <2> DEFINE g == m[y].group
  <2>1. m[y].kind = "reserved"
    BY <1>2, Zenon DEF Skips, IsReservedEmptySlot
  <2>2. g \in G /\ y \in Positions(g) /\ m[y] = Content(g, y)
    BY <1>1, <2>1, StoredWritten, Zenon
  <2> HIDE DEF g
  <2>3. groups[g].last < y
    BY <1>1, <2>1, <2>2, ContentFacts, GroupTypes
  <2>4. groups[g].last < x /\ m[y].group = g
    BY <1>1, <1>2, <2>2, <2>3, GroupTypes DEF g
  <2> QED BY <1>1, <1>2, <2>2, <2>4, TailSkips, Zenon
<1>3. CASE Shows(m, y) /\ x = y + m[y].len
  <2> DEFINE n == m[y].len
             p == x - 1
             g == m[p].group
  <2>1. n \in Nat /\ n \in 1..MaxAtomicGroupSlots /\ y + n <= DiskSlots
    BY <1>3, LogConstants DEF Shows, Placed
  <2>2. p \in Slots /\ p = y + (n - 1) /\ n - 1 \in 0..(n - 1) /\ x = p + 1
    BY <1>1, <1>3, <2>1, LogConstants DEF Slots
  <2>3. Intact(m, y, n - 1) /\ Fits(m, y, n - 1)
    BY <1>3, <2>2, Zenon DEF Shows, WholeGroup
  <2>4. m[p].kind = "event" /\ m[p].len = n /\ m[p].index = n - 1
    BY <2>2, <2>3, Zenon DEF Fits
  <2> HIDE DEF n
  <2>5. g \in G /\ p \in Positions(g) /\ m[p] = Content(g, p)
    BY <2>2, <2>4, StoredWritten, Zenon
  <2> HIDE DEF g, p
  <2>6. groups[g].last \in Nat /\ groups[g].first \in Nat /\ p \in Nat
    BY <2>5, GroupTypes, InSlots, Zenon
  <2>7. p <= groups[g].last
    BY <2>4, <2>5, <2>6, ContentFacts
  <2>8. n = groups[g].last - groups[g].first + 1 /\ n - 1 = p - groups[g].first
    BY <2>4, <2>5, <2>7, ContentFacts
  <2>9. groups[g].last < x
    BY <2>1, <2>2, <2>6, <2>8
  <2>10. m[p].group = g
    BY Zenon DEF g
  <2> QED BY <1>1, <2>2, <2>5, <2>9, <2>10, TailSkips, Zenon
<1> QED BY <1>2, <1>3, Zenon DEF Step

(* Recovery stops at the start of a block: the writer never shares a block *)
(* with what was recovered.                                                *)
LEMMA NextAligned ==
  ASSUME LogTypes, Layout, NEW m, Stored(m)
  PROVE  Aligned(RecoverSlots(m).next)
<1> DEFINE x == RecoverSlots(m).next
<1>1. Visited(m, x)
  BY VisitedNext, Zenon
<1>2. \A j : ~Step(m, x, j)
  BY ScanNext, LogConstants DEF RecoverSlots
<1>3. x = 0 \/ \E y : Step(m, y, x)
  BY <1>1, Zenon DEF Visited
<1> HIDE DEF x
<1>4. CASE x = 0
  <2>1. dev.perLBA \in Nat \ {0}
    BY BlockTypes, Zenon
  <2>2. 0 % dev.perLBA = 0
    BY <2>1
  <2> QED BY <1>4, <2>2, Zenon DEF Aligned, x
<1>5. CASE \E y : Step(m, y, x)
  <2>1. PICK y : Step(m, y, x)
    BY <1>5, Zenon
  <2>2. ~Aligned(x) => Step(m, x, x + 1)
    BY <2>1, StepAligned, Zenon DEF Step
  <2> QED BY <1>2, <2>2, Zenon DEF x
<1> QED BY <1>3, <1>4, <1>5, Zenon

(* The scan reaches a group alive when every earlier one alive is whole.   *)
LEMMA ReachLive ==
  ASSUME LogTypes, Layout, NEW b, Chain(b), NEW m, Stored(m), Visited(m, b), NEW k \in G, Live(k),
         \A j \in 1..(k - 1) : Live(j) => \A p \in EventSlots(j) : m[p] = Content(j, p)
  PROVE  Visited(m, groups[k].first)
<1> DEFINE S == {j \in 1..k : Live(j) /\ ~Visited(m, groups[j].first)}
<1>1. k \in Nat /\ k \in 1..k /\ 1..k \subseteq G /\ Len(groups) \in Nat
  <2>1. Len(groups) \in Nat
    BY DEF LogTypes
  <2> QED BY <2>1 DEF G
<1>2. S = {}
  <2> SUFFICES ASSUME S # {} PROVE FALSE
    OBVIOUS
  <2>1. S \in SUBSET Nat
    BY <1>1
  <2>2. PICK j \in S : \A y \in S : j <= y
    BY <2>1, NatMin, Zenon
  <2>3. j \in 1..k /\ j \in G /\ Live(j) /\ ~Visited(m, groups[j].first)
    BY <1>1, <2>2, Zenon
  <2>4. PICK i \in 1..(j - 1) : Live(i) /\ End(i) = groups[j].first
    BY <2>3, Zenon DEF Chain
  <2>5. i \in 1..(k - 1) /\ i \in G /\ i \in 1..k /\ i \notin S
    BY <1>1, <2>1, <2>2, <2>3
  <2>6. Visited(m, groups[i].first)
    BY <2>4, <2>5, Zenon
  <2> HIDE DEF S
  <2>7. Visited(m, End(i))
    BY <2>4, <2>5, <2>6, PassGroup, Zenon
  <2> QED BY <2>3, <2>4, <2>7, Zenon
<1> QED BY <1>1, <1>2, Zenon

(* The invariant implies that acknowledged groups are recovered.           *)
LEMMA SoundRecovers == ASSUME LogTypes, NEW b, Sound(b) PROVE AcknowledgedRecovered
<1> SUFFICES ASSUME NEW m \in CrashImages, NEW k \in 1..Len(groups), k \in acked, NoHoleBefore(k)
             PROVE  Recovered(k, m, RecoverSlots(m))
  BY Zenon DEF AcknowledgedRecovered
<1>1. k \in G
  BY Zenon DEF G
<1> USE DEF Sound
<1>2. Stored(m) /\ Overwrites(m) /\ Visited(m, b)
  BY CrashFacts, Preserved, Zenon
<1>3. SUFFICES Visited(m, groups[k].first) /\ \A p \in EventSlots(k) : m[p] = Content(k, p)
  BY <1>1, <1>2, PassGroup, Zenon DEF Recovered
<1>4. CASE Live(k)
  <2>1. ASSUME NEW j \in G, Live(j), j \in acked PROVE \A p \in EventSlots(j) : m[p] = Content(j, p)
    <3>1. \A p \in Positions(j) : media[p] = Content(j, p)
      BY <2>1, Zenon DEF Durable, DurableGroup
    <3> QED BY <1>2, <2>1, <3>1, OnCrash, InSlots, Zenon
  <2>2. ASSUME NEW j \in 1..(k - 1), Live(j) PROVE j \in G /\ j \in acked
    <3>1. j \in G
      BY <1>1, GroupTypes DEF G
    <3>2. j \in acked \cup kept
      BY <1>4, <2>2, Zenon DEF NoHoleBefore, Live
    <3>3. j \notin kept
      BY <2>2, Zenon DEF Kept
    <3> QED BY <3>1, <3>2, <3>3, Zenon
  <2>3. Visited(m, groups[k].first)
    BY <1>1, <1>2, <1>4, <2>1, <2>2, ReachLive, Zenon
  <2> QED BY <1>1, <1>4, <2>1, <2>3, Zenon
<1>5. CASE ~Live(k)
  <2>1. k \in kept
    BY <1>1, <1>5, Zenon DEF Kept
  <2> QED BY <1>2, <2>1, Preserved, Zenon
<1> QED BY <1>4, <1>5, Zenon

(* The invariant implies that what recovery makes visible is whole.        *)
LEMMA SoundWhole == ASSUME LogTypes, NEW b, Sound(b) PROVE VisibleGroupsWhole
<1> SUFFICES ASSUME NEW m \in CrashImages, NEW s \in RecoverSlots(m).groups, NEW p \in s, NEW q \in s
             PROVE  /\ m[p].kind = "event"
                    /\ groups[m[p].group].epoch = groups[m[q].group].epoch => m[p].group = m[q].group
  BY Zenon DEF VisibleGroupsWhole
<1> USE DEF Sound
<1>1. Stored(m)
  BY CrashFacts, Zenon
<1>2. PICK x \in Slots : Shows(m, x) /\ s = x .. (x + m[x].len - 1)
  BY ScanShown, Zenon
<1>3. ASSUME NEW z \in s
      PROVE  m[z].kind = "event" /\ m[z].group \in G /\ groups[m[z].group].first = x /\ x \in Positions(m[z].group)
  <2>1. x \in Nat /\ m[x].len \in Nat /\ x + m[x].len <= DiskSlots
    BY <1>2, LogConstants DEF Shows, Placed, Slots
  <2>2. z \in Slots /\ z \in Nat /\ z - x \in 0..(m[x].len - 1) /\ x + (z - x) = z
    BY <1>2, <2>1, LogConstants, SMTT(20) DEF Slots
  <2>3. Fits(m, x, z - x)
    BY <1>2, <2>2, Zenon DEF Shows, WholeGroup
  <2>4. m[z].kind = "event" /\ m[z].index = z - x
    BY <2>2, <2>3, Zenon DEF Fits
  <2> DEFINE g == m[z].group
  <2>5. g \in G /\ z \in Positions(g) /\ m[z] = Content(g, z)
    BY <1>1, <2>2, <2>4, StoredWritten, Zenon
  <2> HIDE DEF g
  <2>6. groups[g].first \in Nat /\ groups[g].last \in Nat
    BY <2>5, GroupTypes, Zenon
  <2>7. z <= groups[g].last
    BY <2>2, <2>4, <2>5, <2>6, ContentFacts, SMTT(20)
  <2>8. z - x = z - groups[g].first
    BY <2>4, <2>5, <2>7, ContentFacts
  <2>9. groups[g].first = x
    BY <2>1, <2>2, <2>6, <2>8
  <2>10. x \in Positions(g)
    BY <2>5, <2>9, InSlots, Zenon
  <2> QED BY <2>4, <2>5, <2>9, <2>10, Zenon DEF g
<1>4. groups[m[p].group].epoch = groups[m[q].group].epoch => m[p].group = m[q].group
  <2>1. m[p].group \in G /\ m[q].group \in G /\ x \in Positions(m[p].group) /\ x \in Positions(m[q].group)
    BY <1>3, Zenon
  <2> QED BY <2>1, Disjoint, Zenon
<1> QED BY <1>3, <1>4, Zenon

(* The result of recovery is well formed.                                  *)
LEMMA RecoverFacts ==
  ASSUME LogTypes, Layout, NEW m, Stored(m)
  PROVE  /\ RecoverSlots(m).next \in 0..DiskSlots /\ RecoverSlots(m).end \in Slots
         /\ Aligned(RecoverSlots(m).next) /\ Visited(m, RecoverSlots(m).next)
         /\ RecoverSlots(m).groups # {} => RecoverSlots(m).end < RecoverSlots(m).next
<1>1. 0 \in 0..DiskSlots /\ 0 \in Slots /\ DiskSlots \in Nat
  BY LogConstants DEF Slots
<1>2. Scan(m)[0].next \in 0..DiskSlots
  BY <1>1, ScanNext, Zenon
<1>3. /\ Scan(m)[0].groups = {} => Scan(m)[0].end = 0
      /\ Scan(m)[0].groups # {} => Scan(m)[0].end \in 0..(Scan(m)[0].next - 1)
  BY <1>1, ScanEnd, Zenon
<1>4. Scan(m)[0].end \in Slots
  BY <1>1, <1>2, <1>3 DEF Slots
<1>5. Scan(m)[0].groups # {} => Scan(m)[0].end < Scan(m)[0].next
  BY <1>1, <1>2, <1>3
<1> QED BY <1>2, <1>4, <1>5, NextAligned, VisitedNext, Zenon DEF RecoverSlots

(* A group recovery returned lies before the slot where it stopped.        *)
LEMMA RecoveredFacts ==
  ASSUME LogTypes, Layout, NEW m, Stored(m), NEW k \in G, Recovered(k, m, RecoverSlots(m))
  PROVE  groups[k].last < RecoverSlots(m).next /\ Visited(m, groups[k].first) /\ \A p \in EventSlots(k) : m[p] = Content(k, p)
<1>1. EventSlots(k) \in RecoverSlots(m).groups /\ \A p \in EventSlots(k) : m[p] = Content(k, p)
  BY Zenon DEF Recovered
<1>2. PICK x \in Slots : Visited(m, x) /\ Shows(m, x) /\ EventSlots(k) = x .. (x + m[x].len - 1)
  BY <1>1, ScanShown, Zenon
<1>3. groups[k].first \in Nat /\ groups[k].last \in Nat /\ groups[k].first <= groups[k].last
  BY GroupTypes, Zenon DEF Layout
<1>4. x \in Nat /\ m[x].len \in Nat
  BY <1>2, LogConstants DEF Slots, Shows, Placed
<1>5. groups[k].first .. groups[k].last = x .. (x + m[x].len - 1)
  BY <1>2, Zenon DEF EventSlots
<1>6. groups[k].first = x
  <2> DEFINE e == x + m[x].len - 1
  <2>1. e \in Int
    BY <1>4
  <2> HIDE DEF e
  <2>2. groups[k].first \in groups[k].first .. groups[k].last
    BY <1>3
  <2>3. groups[k].first \in x .. e
    BY <1>5, <2>2, Zenon DEF e
  <2>4. x \in x .. e
    BY <1>3, <1>4, <2>1, <2>3
  <2>5. x \in groups[k].first .. groups[k].last
    BY <1>5, <2>4, Zenon DEF e
  <2> QED BY <1>3, <1>4, <2>1, <2>3, <2>5
<1>7. Visited(m, groups[k].last + 1)
  BY <1>1, <1>2, <1>6, PassGroup, Zenon
<1>8. RecoverSlots(m).next \in (groups[k].last + 1)..DiskSlots
  BY <1>7, VisitedBound, Zenon
<1>9. groups[k].last < RecoverSlots(m).next
  BY <1>3, <1>8, LogConstants
<1> QED BY <1>1, <1>2, <1>6, <1>9, Zenon

(* A group recovery does not return, and that has no hole before it, was   *)
(* not acknowledged and is not whole on the medium.                        *)
LEMMA NotRecovered ==
  ASSUME LogTypes, NEW b, Sound(b), NEW m, Stored(m), Overwrites(m), NEW k \in G,
         NEW K, K = {j \in G : Recovered(j, m, RecoverSlots(m))},
         \A j \in 1..(k - 1) : groups[j].epoch = groups[k].epoch => j \in acked \cup K, k \notin K
  PROVE  k \notin acked /\ \E p \in EventSlots(k) : m[p] # Content(k, p)
<1> USE DEF Sound
<1>1. SUFFICES ASSUME k \in acked \/ \A p \in EventSlots(k) : m[p] = Content(k, p) PROVE FALSE
  OBVIOUS
<1>2. 1..(k - 1) \subseteq G /\ k \in Nat
  <2>1. Len(groups) \in Nat
    BY DEF LogTypes
  <2> QED BY <2>1 DEF G
<1>3. Visited(m, groups[k].first) /\ (\A p \in EventSlots(k) : m[p] = Content(k, p)) => FALSE
  BY PassGroup, Zenon DEF Recovered
<1>4. \A j \in K : j \in G /\ \A p \in EventSlots(j) : m[p] = Content(j, p)
  BY Zenon DEF Recovered
<1>5. CASE Live(k)
  <2>1. ASSUME NEW j \in G, Live(j), j \in acked PROVE \A p \in EventSlots(j) : m[p] = Content(j, p)
    <3>1. \A p \in Positions(j) : media[p] = Content(j, p)
      BY <2>1, Zenon DEF Durable, DurableGroup
    <3> QED BY <2>1, <3>1, OnCrash, InSlots, Zenon
  <2>2. ASSUME NEW j \in 1..(k - 1), Live(j) PROVE \A p \in EventSlots(j) : m[p] = Content(j, p)
    <3>1. j \in G /\ j \in acked \cup K
      BY <1>2, <1>5, <2>2, Zenon DEF Live
    <3> QED BY <1>4, <2>1, <2>2, <3>1, Zenon
  <2>3. Visited(m, b)
    BY Preserved, Zenon
  <2>4. Visited(m, groups[k].first)
    BY <1>5, <2>2, <2>3, ReachLive, Zenon
  <2> QED BY <1>1, <1>3, <1>5, <2>1, <2>4, Zenon
<1>6. CASE ~Live(k)
  <2> DEFINE S == {j \in 1..(k - 1) : groups[j].epoch = groups[k].epoch /\ j \notin acked \cup kept}
  <2>1. S = {}
    <3> SUFFICES ASSUME S # {} PROVE FALSE
      OBVIOUS
    <3>1. S \in SUBSET Nat
      BY <1>2
    <3>2. PICK j \in S : \A y \in S : j <= y
      BY <3>1, NatMin, Zenon
    <3>3. j \in 1..(k - 1) /\ j \in G /\ groups[j].epoch = groups[k].epoch /\ j \notin acked /\ j \notin kept /\ ~Live(j) /\ j \in K
      BY <1>2, <1>6, <3>2, Zenon DEF Live
    <3>4. NoHoleBefore(j)
      <4> SUFFICES ASSUME NEW i \in 1..(j - 1), groups[i].epoch = groups[j].epoch PROVE i \in acked \cup kept
        BY Zenon DEF NoHoleBefore
      <4>1. i \in 1..(k - 1) /\ i < j
        BY <1>2, <3>3
      <4> QED BY <1>2, <3>2, <3>3, <4>1
    <3>5. \E p \in EventSlots(j) : m[p] # Content(j, p)
      <4>1. \E p \in EventSlots(j) : media[p] # Content(j, p)
        BY <3>3, <3>4, Zenon DEF Kept
      <4> QED BY <3>3, <4>1, Preserved, Zenon
    <3> QED BY <1>4, <3>3, <3>5, Zenon
  <2>2. NoHoleBefore(k)
    BY <2>1, Zenon DEF NoHoleBefore
  <2>3. CASE k \in kept
    BY <1>3, <2>3, Preserved, Zenon
  <2>4. CASE k \notin kept
    <3>1. k \notin acked /\ \E p \in EventSlots(k) : media[p] # Content(k, p)
      BY <1>6, <2>2, <2>4, Zenon DEF Kept
    <3>2. \E p \in EventSlots(k) : m[p] # Content(k, p)
      BY <1>6, <3>1, Preserved, Zenon
    <3> QED BY <1>1, <3>1, <3>2, Zenon
  <2> QED BY <2>3, <2>4, Zenon
<1> QED BY <1>5, <1>6, Zenon

(* A restart leaves the groups where they lie, and none of them alive.     *)
LEMMA RestartFacts ==
  ASSUME LogTypes, Layout, UNCHANGED <<dev, groups>>, epoch' = epoch + 1
  PROVE  /\ G' = G /\ Flushes' = Flushes /\ \A k \in G : ~Live(k)'
         /\ \A k : /\ Positions(k)' = Positions(k) /\ EventSlots(k)' = EventSlots(k) /\ End(k)' = End(k)
         /\ \A p : LBAOf(p)' = LBAOf(p) /\ Aligned(p)' = Aligned(p)
         /\ \A k, p : Content(k, p)' = Content(k, p)
<1>1. \A k \in G : groups[k].epoch # epoch + 1
  <2>1. \A k \in G : groups[k].epoch \in Nat /\ groups[k].epoch <= epoch /\ epoch \in Nat
    BY GroupTypes, Zenon DEF Layout, LogTypes
  <2> QED BY <2>1
<1>2. \A k \in G : ~Live(k)'
  BY <1>1, Zenon DEF Live
<1> QED BY <1>2, Zenon DEF G, Flushes, Positions, EventSlots, End, LBAOf, Aligned, Content

(* A restart preserves the types.                                          *)
LEMMA RestartTypes ==
  ASSUME LogTypes, Layout, NEW m, Stored(m), Restart(m)
  PROVE  LogTypes'
<1> DEFINE r == RecoverSlots(m)
<1>1. r.next \in 0..DiskSlots /\ r.end \in Slots /\ r.end \in Nat
  BY RecoverFacts, LogConstants DEF Slots
<1>2. /\ UNCHANGED <<dev, groups, acked>> /\ epoch' = epoch + 1 /\ media' = m /\ policy' = PolicyAfter(r)
      /\ inflight' = [k \in GroupIds |-> {}] /\ done' = [k \in GroupIds |-> {}]
      /\ flush' = [k \in GroupIds |-> "no"] /\ flushing' = [k \in GroupIds |-> {}]
      /\ failed' = {} /\ published' = {} /\ kept' = {k \in 1..Len(groups) : Recovered(k, m, r)}
      /\ cache' = [p \in Slots |-> Blank] /\ link' = <<>>
      /\ proj' = [applied |-> kept', watermark |-> r.end, root |-> r.end]
  BY Zenon DEF Restart
<1> HIDE DEF r
<1>3. G' = G
  BY <1>2, Zenon DEF G
<1>4. policy' \in [next : 0..DiskSlots, open : 0..MaxBatchSlots, frontier : Slots]
  BY <1>1, <1>2, LogConstants DEF PolicyAfter
<1>5. /\ inflight' \in [GroupIds -> SUBSET Nat] /\ done' \in [GroupIds -> SUBSET Nat]
      /\ flush' \in [GroupIds -> {"no", "sent", "done", "failed"}] /\ flushing' \in [GroupIds -> SUBSET Slots]
  BY <1>2, Zenon
<1>6. Blank \in Contents
  BY Zenon DEF Blank, Contents
<1>7. cache' \in [Slots -> Contents] /\ media' \in [Slots -> Contents]
  BY <1>2, <1>6, Zenon DEF Stored
<1>8. failed' \subseteq G /\ acked' \subseteq G /\ published' \subseteq G /\ kept' \subseteq G
  BY <1>2, Zenon DEF LogTypes, G
<1>9. proj' \in [applied : SUBSET G, watermark : Nat, root : Nat]
  BY <1>1, <1>2, <1>8, Zenon
<1>10. link' \in Seq(G) /\ Len(link') <= LinkDepth /\ epoch' \in Nat
  BY <1>2, LogConstants DEF LogTypes
<1> QED BY <1>2, <1>3, <1>4, <1>5, <1>7, <1>8, <1>9, <1>10, Zenon DEF LogTypes

(* A restart establishes the invariant with the slot where recovery        *)
(* stopped.                                                                *)
LEMMA RestartSound ==
  ASSUME LogTypes, NEW b, Sound(b), NEW m, Stored(m), Overwrites(m), Restart(m), NEW c, c = RecoverSlots(m).next
  PROVE  Sound(c)'
<1> USE DEF Sound
<1>1. c \in 0..DiskSlots /\ Aligned(c) /\ Visited(m, c)
  BY RecoverFacts, Zenon
<1>2. /\ UNCHANGED <<dev, groups, acked>> /\ epoch' = epoch + 1 /\ media' = m
      /\ inflight' = [k \in GroupIds |-> {}] /\ done' = [k \in GroupIds |-> {}]
      /\ flush' = [k \in GroupIds |-> "no"] /\ flushing' = [k \in GroupIds |-> {}]
      /\ kept' = {k \in 1..Len(groups) : Recovered(k, m, RecoverSlots(m))} /\ cache' = [p \in Slots |-> Blank]
  BY Zenon DEF Restart
<1>3. policy'.next = c
  BY Zenon DEF Restart, PolicyAfter
<1>4. /\ G' = G /\ \A k \in G : ~Live(k)'
      /\ \A k : /\ Positions(k)' = Positions(k) /\ EventSlots(k)' = EventSlots(k) /\ End(k)' = End(k)
      /\ \A p : LBAOf(p)' = LBAOf(p) /\ Aligned(p)' = Aligned(p)
      /\ \A k, p : Content(k, p)' = Content(k, p)
  BY <1>2, RestartFacts, Zenon
<1>5. Layout'
  <2>1. \A k \in G : groups[k].epoch <= epoch'
    <3>1. \A k \in G : groups[k].epoch \in Nat /\ groups[k].epoch <= epoch /\ epoch \in Nat
      BY GroupTypes, Zenon DEF Layout, LogTypes
    <3> QED BY <1>2, <3>1
  <2> QED BY <1>2, <2>1, Zenon DEF Layout, G, End, Aligned, LBAOf
<1>6. Chain(c)'
  <2>1. Aligned(c)' /\ Aligned(policy.next)' /\ c \in 0..policy'.next
    <3>1. Aligned(policy.next)'
      BY <1>1, <1>2, <1>3, Zenon DEF Aligned
    <3> QED BY <1>1, <1>3, <1>4, <3>1
  <2> QED BY <1>3, <1>4, <2>1, Zenon DEF Chain
<1>7. Stored(media)' /\ Stored(cache)'
  <2>1. Stored(media')
    BY <1>2, Zenon
  <2>2. Stored(media)'
    BY <1>2, <2>1, Zenon DEF Stored, G, Positions, LBAOf, Content
  <2>3. \A p \in Slots : cache'[p] = Blank
    BY <1>2, Zenon
  <2>4. cache' \in [Slots -> Contents]
    <3>1. Blank \in Contents
      BY Zenon DEF Blank, Contents
    <3> QED BY <1>2, <3>1, Zenon
  <2>5. Stored(cache)'
    BY <2>3, <2>4, Zenon DEF Stored
  <2> QED BY <2>2, <2>5, Zenon
<1>8. Device' /\ Durable'
  <2>1. \A p \in Slots : cache'[p] = Blank
    BY <1>2, Zenon
  <2>2. \A k \in GroupIds : inflight'[k] = {} /\ done'[k] = {} /\ flush'[k] = "no" /\ flushing'[k] = {}
    BY <1>2, Zenon
  <2> QED BY <1>4, <1>7, <2>1, <2>2, Zenon DEF Device, Durable
<1>9. Visited(media, c)'
  <2>1. Visited(media', c)
    BY <1>1, <1>2, Zenon
  <2> QED BY <2>1, Zenon DEF Visited, Step, Skips, Shows, Placed, WholeGroup, Intact, Fits
<1>10. Kept(c)'
  <2>1. ASSUME NEW k \in kept'
        PROVE  /\ ~Live(k)' /\ groups'[k].last < c /\ Visited(media', groups'[k].first)
               /\ \A p \in EventSlots(k)' : media'[p] = Content(k, p)'
    <3>1. k \in G /\ Recovered(k, m, RecoverSlots(m))
      BY <1>2, Zenon DEF G
    <3>2. groups[k].last < c /\ Visited(m, groups[k].first) /\ \A p \in EventSlots(k) : m[p] = Content(k, p)
      BY <3>1, RecoveredFacts, Zenon
    <3> QED BY <1>2, <1>4, <3>1, <3>2, Zenon
  <2>2. ASSUME NEW k \in G', ~Live(k)', NoHoleBefore(k)', k \notin kept'
        PROVE  k \notin acked' /\ \E p \in EventSlots(k)' : media'[p] # Content(k, p)'
    <3>1. k \in G /\ kept' = {j \in G : Recovered(j, m, RecoverSlots(m))}
      BY <1>2, <1>4, Zenon DEF G
    <3>2. \A j \in 1..(k - 1) : groups[j].epoch = groups[k].epoch => j \in acked \cup kept'
      BY <1>2, <2>2, Zenon DEF NoHoleBefore
    <3>3. k \notin acked /\ \E p \in EventSlots(k) : m[p] # Content(k, p)
      BY <2>2, <3>1, <3>2, NotRecovered, Zenon
    <3> QED BY <1>2, <1>4, <3>3, Zenon
  <2>3. (\A k \in kept : Visited(media, groups[k].first))'
    BY <1>2, <2>1, Zenon DEF Visited, Step, Skips, Shows, Placed, WholeGroup, Intact, Fits
  <2> QED BY <2>1, <2>2, <2>3, Zenon DEF Kept
<1> QED BY <1>5, <1>6, <1>8, <1>9, <1>10, Zenon DEF Sound

(* It also rebuilds a sound projection.                                    *)
LEMMA RestartProjected ==
  ASSUME LogTypes, Layout, NEW m, Stored(m), Restart(m), NEW c, c = RecoverSlots(m).next
  PROVE  Projected(c)'
<1> DEFINE r == RecoverSlots(m)
<1>1. /\ UNCHANGED <<dev, groups>> /\ epoch' = epoch + 1 /\ policy' = PolicyAfter(r) /\ published' = {}
      /\ kept' = {k \in 1..Len(groups) : Recovered(k, m, r)} /\ link' = <<>>
      /\ proj' = [applied |-> kept', watermark |-> r.end, root |-> r.end]
  BY Zenon DEF Restart
<1>2. r.end \in Nat /\ c \in Nat /\ (r.groups # {} => r.end < c)
  BY RecoverFacts, LogConstants DEF Slots
<1>3. kept' # {} => r.groups # {}
  BY <1>1, Zenon DEF Recovered
<1> HIDE DEF r
<1>4. \A k \in kept' : ~Live(k)'
  <2>1. kept' \subseteq G
    BY <1>1, Zenon DEF G
  <2> QED BY <1>1, <2>1, RestartFacts, Zenon
<1>5. proj'.root <= policy'.frontier /\ proj'.applied = kept' /\ proj'.watermark = r.end
  BY <1>1, <1>2 DEF PolicyAfter
<1>6. 1..Len(link') = {}
  BY <1>1
<1>7. proj'.applied = {} \/ (proj'.watermark < c /\ \A k \in proj'.applied : ~Live(k)')
  BY <1>2, <1>3, <1>4, <1>5, Zenon
<1>8. \A k \in proj'.applied : ~Live(k)'
  BY <1>4, <1>5, Zenon
<1> QED BY <1>1, <1>5, <1>6, <1>7, <1>8, Zenon DEF Projected
=============================================================================
