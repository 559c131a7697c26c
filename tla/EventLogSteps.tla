--------------------------- MODULE EventLogSteps ----------------------------
(***************************************************************************)
(* The steps between two restarts preserve the invariant of the append log *)
(* (EventLog): appending a group, the device's writes and flushes, and the *)
(* projection's way from the durable frontier to its root.                 *)
(***************************************************************************)
EXTENDS EventLog, TLAPS

(* One turn of RecoverSlots' loop at slot i, given the results f of the    *)
(* later slots.                                                            *)
ScanBody(m, f, i) ==
  IF i < DiskSlots /\ Skips(m, i) THEN f[i + 1]
  ELSE IF i < DiskSlots /\ Shows(m, i) THEN Showing(i, i + m[i].len - 1, f[i + m[i].len])
  ELSE Stopped(m, i)

(* A group the scan makes visible is not empty and lies within the region. *)
LEMMA ShowsForward == ASSUME NEW m, NEW i \in 0..DiskSlots, Shows(m, i)
                      PROVE m[i].len \in Nat /\ i + m[i].len \in (i + 1)..DiskSlots
BY LogConstants DEF Shows, Placed

(* A turn at slot i only uses results of later slots.                      *)
LEMMA BodyLocal == ASSUME NEW m, NEW i \in 0..DiskSlots, NEW f, NEW g, \A j \in (i + 1)..DiskSlots : f[j] = g[j]
                   PROVE ScanBody(m, f, i) = ScanBody(m, g, i)
<1>1. CASE i < DiskSlots /\ Skips(m, i)
  <2>1. i + 1 \in (i + 1)..DiskSlots
    BY <1>1, LogConstants
  <2>2. f[i + 1] = g[i + 1]
    BY <2>1, Zenon
  <2> QED BY <1>1, <2>2, Zenon DEF ScanBody
<1>2. CASE i < DiskSlots /\ ~Skips(m, i) /\ Shows(m, i)
  <2>1. f[i + m[i].len] = g[i + m[i].len]
    BY <1>2, ShowsForward, Zenon
  <2> QED BY <1>2, <2>1, Zenon DEF ScanBody
<1>3. CASE ~(i < DiskSlots /\ Skips(m, i)) /\ ~(i < DiskSlots /\ Shows(m, i))
  BY <1>3, Zenon DEF ScanBody
<1> QED BY <1>1, <1>2, <1>3, Zenon

(* The scan goes on from slot i to slot j: over a padding slot, or over a  *)
(* whole group.                                                            *)
Step(m, i, j) ==
  /\ i \in Slots
  /\ \/ Skips(m, i) /\ j = i + 1
     \/ Shows(m, i) /\ j = i + m[i].len

(* The scan that starts at slot 0 reaches slot i: there is a set of slots  *)
(* in which every one but 0 follows an earlier one.                        *)
Visited(m, i) ==
  \E V \in SUBSET (0..DiskSlots) : i \in V /\ \A x \in V \ {0} : \E y \in V : y < x /\ Step(m, y, x)

(* The scan reaches its first slot.                                        *)
LEMMA VisitedStart == ASSUME NEW m PROVE Visited(m, 0)
<1>1. {0} \in SUBSET (0..DiskSlots)
  BY LogConstants
<1> QED BY <1>1, Zenon DEF Visited

(* Whether slot b is reached depends on the slots below b only.            *)
LEMMA VisitedLocal ==
  ASSUME NEW m, NEW n, NEW b \in 0..DiskSlots, \A p \in 0..(b - 1) : m[p] = n[p], Visited(m, b)
  PROVE  Visited(n, b)
<1>1. PICK V \in SUBSET (0..DiskSlots) : b \in V /\ \A x \in V \ {0} : \E y \in V : y < x /\ Step(m, y, x)
  BY Zenon DEF Visited
<1> DEFINE W == {x \in V : x <= b}
<1>2. W \in SUBSET (0..DiskSlots) /\ b \in W
  <2>1. b <= b
    BY LogConstants
  <2> QED BY <1>1, <2>1, Zenon
<1>3. ASSUME NEW x \in W \ {0} PROVE \E y \in W : y < x /\ Step(n, y, x)
  <2>1. PICK y \in V : y < x /\ Step(m, y, x)
    BY <1>1, Zenon
  <2>2. x \in 0..b /\ y \in 0..(b - 1) /\ y \in W
    BY <2>1, LogConstants
  <2>3. m[y] = n[y]
    BY <2>2, Zenon
  <2>4. CASE Skips(m, y) /\ x = y + 1
    BY <2>1, <2>2, <2>3, <2>4, Zenon DEF Step, Skips
  <2>5. CASE Shows(m, y) /\ x = y + m[y].len
    <3>1. m[y].len \in Nat
      BY <2>5, LogConstants DEF Shows, Placed
    <3>2. \A j \in 0..(m[y].len - 1) : m[y + j] = n[y + j]
      BY <2>2, <2>5, <3>1
    <3>3. WholeGroup(n, y)
      BY <2>3, <2>5, <3>2, Zenon DEF Shows, WholeGroup, Intact, Fits
    <3>4. Shows(n, y)
      BY <2>3, <2>5, <3>3, Zenon DEF Shows, Placed
    <3> QED BY <2>1, <2>2, <2>3, <2>5, <3>4, Zenon DEF Step
  <2> QED BY <2>1, <2>4, <2>5, Zenon DEF Step
<1> QED BY <1>2, <1>3, Zenon DEF Visited

(* Slot p is the first of its logical block.                               *)
Aligned(p) == p % dev.perLBA = 0

(* The groups accepted so far, and the slot after group k with its         *)
(* padding.                                                                *)
G == 1..Len(groups)
End(k) == groups[k].first + groups[k].consumed

(* A store holds whole blocks: every slot is blank or what its group       *)
(* writes there, and the slots of a block are of one group.                *)
Stored(m) ==
  /\ m \in [Slots -> Contents]
  /\ \A p \in Slots : \/ m[p] = Blank
                      \/ m[p].group \in G /\ p \in Positions(m[p].group) /\ m[p] = Content(m[p].group, p)
  /\ \A p, q \in Slots : LBAOf(p) = LBAOf(q) => m[p].group = m[q].group

(* The types of the log's variables.                                       *)
LogTypes ==
  /\ dev \in [perLBA : LBASlots, mode : {"FUA", "WRITE_PLUS_FLUSH"}]
  /\ policy \in [next : 0..DiskSlots, open : 0..MaxBatchSlots, frontier : Slots]
  /\ groups \in Seq([epoch : Nat, first : Nat, last : Nat, consumed : Nat]) /\ Len(groups) <= MaxGroups
  /\ inflight \in [GroupIds -> SUBSET Nat] /\ done \in [GroupIds -> SUBSET Nat]
  /\ flush \in [GroupIds -> {"no", "sent", "done", "failed"}] /\ flushing \in [GroupIds -> SUBSET Slots]
  /\ failed \subseteq G /\ acked \subseteq G /\ published \subseteq G /\ kept \subseteq G
  /\ cache \in [Slots -> Contents] /\ media \in [Slots -> Contents]
  /\ link \in Seq(G) /\ Len(link) <= LinkDepth
  /\ proj \in [applied : SUBSET G, watermark : Nat, root : Nat] /\ epoch \in Nat

(* Where groups lie: whole blocks within the region, padded in their last  *)
(* block only, in the order they were accepted since the same restart.     *)
Layout ==
  /\ \A k \in G :
       /\ groups[k].first <= groups[k].last /\ groups[k].last < End(k) /\ End(k) <= DiskSlots
       /\ groups[k].last - groups[k].first + 1 <= MaxAtomicGroupSlots /\ groups[k].epoch <= epoch
       /\ Aligned(groups[k].first) /\ Aligned(End(k)) /\ LBAOf(End(k) - 1) = LBAOf(groups[k].last)
  /\ \A j, k \in G : j < k => /\ groups[j].epoch <= groups[k].epoch
                              /\ groups[j].epoch = groups[k].epoch => End(j) <= groups[k].first

(* Division rounds a smaller number to a smaller block when the greater    *)
(* one starts a block.                                                     *)
LEMMA DivLess == ASSUME NEW B \in Nat \ {0}, NEW p \in Nat, NEW c \in Nat, p < c, c % B = 0
                 PROVE p \div B < c \div B
OBVIOUS

(* Division is monotonic.                                                  *)
LEMMA DivMono == ASSUME NEW B \in Nat \ {0}, NEW p \in Nat, NEW q \in Nat, p <= q
                 PROVE p \div B <= q \div B
OBVIOUS

(* A number that starts no block is in the block of its predecessor.       *)
LEMMA DivSame == ASSUME NEW B \in Nat \ {0}, NEW p \in Nat \ {0}, p % B # 0
                 PROVE p \div B = (p - 1) \div B
OBVIOUS

(* A quotient of naturals is a natural.                                    *)
LEMMA DivNat == ASSUME NEW B \in Nat \ {0}, NEW p \in Nat PROVE p \div B \in Nat
OBVIOUS

(* The types of the fields of a group.                                     *)
LEMMA GroupTypes ==
  ASSUME LogTypes, NEW k \in G
  PROVE  /\ groups[k] \in [epoch : Nat, first : Nat, last : Nat, consumed : Nat]
         /\ groups[k].epoch \in Nat /\ groups[k].first \in Nat /\ groups[k].last \in Nat
         /\ groups[k].consumed \in Nat /\ End(k) \in Nat /\ k \in Nat \ {0}
<1> DEFINE R == [epoch : Nat, first : Nat, last : Nat, consumed : Nat]
<1>1. groups \in Seq(R) /\ Len(groups) \in Nat
  BY DEF LogTypes
<1>2. k \in 1..Len(groups)
  BY Zenon DEF G
<1> HIDE DEF R
<1>3. groups[k] \in R /\ k \in Nat \ {0}
  BY <1>1, <1>2
<1> QED BY <1>3 DEF End, R

(* A block has at least one slot.                                          *)
LEMMA BlockTypes == ASSUME LogTypes PROVE dev.perLBA \in Nat \ {0}
BY LogConstants, Zenon DEF LogTypes

(* Slots and the blocks they are in.                                       *)
LEMMA Blocks ==
  ASSUME LogTypes, NEW p \in Nat, NEW q \in Nat
  PROVE  /\ LBAOf(p) \in Nat
         /\ p <= q => LBAOf(p) <= LBAOf(q)
         /\ p < q /\ Aligned(q) => LBAOf(p) < LBAOf(q)
         /\ p # 0 /\ ~Aligned(p) => LBAOf(p) = LBAOf(p - 1)
<1> DEFINE B == dev.perLBA
<1>1. B \in Nat \ {0}
  BY BlockTypes, Zenon
<1> HIDE DEF B
<1>2. p \div B \in Nat /\ (p <= q => p \div B <= q \div B)
  BY <1>1, DivNat, DivMono, Zenon
<1>3. p < q /\ q % B = 0 => p \div B < q \div B
  BY <1>1, DivLess, Zenon
<1>4. p # 0 /\ p % B # 0 => p \div B = (p - 1) \div B
  BY <1>1, DivSame, Zenon
<1> QED BY <1>2, <1>3, <1>4, Zenon DEF B, LBAOf, Aligned

(* The slots of a group lie within the region.                             *)
LEMMA InSlots ==
  ASSUME LogTypes, Layout, NEW k \in G
  PROVE  /\ \A p : p \in Positions(k) <=> p \in Nat /\ groups[k].first <= p /\ p < End(k)
         /\ Positions(k) \subseteq Slots /\ EventSlots(k) \subseteq Positions(k)
         /\ groups[k].first \in Positions(k) /\ groups[k].last \in Positions(k)
<1>1. groups[k].first \in Nat /\ groups[k].last \in Nat /\ groups[k].consumed \in Nat
  BY GroupTypes, Zenon
<1>2. groups[k].first <= groups[k].last /\ groups[k].last < End(k) /\ End(k) <= DiskSlots
  BY Zenon DEF Layout
<1> QED BY <1>1, <1>2, LogConstants DEF End, Positions, EventSlots, Slots

(* Blocks are not shared: a slot in a block of a group is a slot of that   *)
(* group.                                                                  *)
LEMMA SameBlock ==
  ASSUME LogTypes, Layout, NEW k \in G, NEW p \in Positions(k), NEW q \in Nat, LBAOf(q) = LBAOf(p)
  PROVE  q \in Positions(k)
<1>1. p \in Nat /\ groups[k].first <= p /\ p < End(k)
  BY InSlots, Zenon
<1>2. groups[k].first \in Nat /\ End(k) \in Nat
  BY GroupTypes, Zenon
<1>3. Aligned(groups[k].first) /\ Aligned(End(k))
  BY Zenon DEF Layout
<1>4. LBAOf(p) \in Nat /\ LBAOf(q) \in Nat /\ LBAOf(groups[k].first) \in Nat /\ LBAOf(End(k)) \in Nat
  BY <1>1, <1>2, Blocks, Zenon
<1>5. LBAOf(groups[k].first) <= LBAOf(p) /\ LBAOf(p) < LBAOf(End(k))
  BY <1>1, <1>2, <1>3, Blocks, Zenon
<1>6. q < groups[k].first => LBAOf(q) < LBAOf(groups[k].first)
  BY <1>2, <1>3, Blocks, Zenon
<1>7. End(k) <= q => LBAOf(End(k)) <= LBAOf(q)
  BY <1>2, <1>3, Blocks, Zenon
<1>8. groups[k].first <= q /\ q < End(k)
  BY <1>2, <1>4, <1>5, <1>6, <1>7
<1> QED BY <1>8, InSlots, Zenon

(* Groups accepted since the same restart share no slot.                   *)
LEMMA Disjoint ==
  ASSUME LogTypes, Layout, NEW j \in G, NEW k \in G, groups[j].epoch = groups[k].epoch,
         NEW p, p \in Positions(j), p \in Positions(k)
  PROVE  j = k
<1>1. /\ p \in Nat /\ groups[j].first <= p /\ p < End(j)
      /\ groups[k].first <= p /\ p < End(k)
  BY InSlots, Zenon
<1>2. j \in Nat /\ k \in Nat /\ groups[j].first \in Nat /\ groups[k].first \in Nat /\ End(j) \in Nat /\ End(k) \in Nat
  BY GroupTypes, Zenon
<1>3. (j < k => End(j) <= groups[k].first) /\ (k < j => End(k) <= groups[j].first)
  BY Zenon DEF Layout
<1> QED BY <1>1, <1>2, <1>3

(* The padding of a group is in the block of its last event.               *)
LEMMA Padding ==
  ASSUME LogTypes, Layout, NEW k \in G, NEW p \in Nat, groups[k].last <= p, p < End(k)
  PROVE  p \in Positions(k) /\ LBAOf(p) = LBAOf(groups[k].last)
<1>1. groups[k].last \in Nat /\ groups[k].first \in Nat /\ End(k) \in Nat
  BY GroupTypes, Zenon
<1>2. groups[k].first <= groups[k].last /\ LBAOf(End(k) - 1) = LBAOf(groups[k].last)
  BY Zenon DEF Layout
<1>3. p \in Positions(k)
  BY <1>1, <1>2, InSlots
<1>4. End(k) - 1 \in Nat /\ p <= End(k) - 1
  BY <1>1
<1>5. LBAOf(groups[k].last) <= LBAOf(p) /\ LBAOf(p) <= LBAOf(End(k) - 1)
  BY <1>1, <1>4, Blocks, Zenon
<1>6. LBAOf(p) \in Nat /\ LBAOf(groups[k].last) \in Nat
  BY <1>1, Blocks, Zenon
<1> QED BY <1>2, <1>3, <1>5, <1>6

(* What a group writes to a slot.                                          *)
LEMMA ContentFacts ==
  ASSUME LogTypes, Layout, NEW k \in G, NEW p \in Positions(k)
  PROVE  /\ Content(k, p) \in Contents /\ Content(k, p).group = k /\ Content(k, p) # Blank /\ Content(k, p).id = p
         /\ p <= groups[k].last =>
              /\ Content(k, p).kind = "event" /\ Content(k, p).index = p - groups[k].first
              /\ Content(k, p).len = groups[k].last - groups[k].first + 1
         /\ groups[k].last < p => Content(k, p).kind = "reserved"
<1>1. groups[k].first \in Nat /\ groups[k].last \in Nat /\ k \in Nat \ {0}
  BY GroupTypes, Zenon
<1>2. p \in Nat /\ groups[k].first <= p
  BY InSlots, Zenon
<1>3. groups[k].last - groups[k].first + 1 \in Nat
  BY <1>1 DEF Layout
<1>4. CASE p <= groups[k].last
  BY <1>1, <1>2, <1>3, <1>4 DEF Content, Contents, Blank
<1>5. CASE groups[k].last < p
  BY <1>1, <1>2, <1>5 DEF Content, Contents, Blank
<1> QED BY <1>1, <1>2, <1>4, <1>5

(* A store that has one slot of a group's block has the whole block.       *)
LEMMA StoredGroup ==
  ASSUME LogTypes, Layout, NEW m, Stored(m), NEW k \in G, NEW p \in Positions(k), NEW q \in Nat,
         m[p].group = k, LBAOf(q) = LBAOf(p)
  PROVE  q \in Positions(k) /\ m[q] = Content(k, q)
<1>1. q \in Positions(k) /\ p \in Slots /\ q \in Slots
  BY SameBlock, InSlots, Zenon
<1>2. m[q].group = k
  BY <1>1, Zenon DEF Stored
<1>3. m[q] # Blank
  BY <1>2, GroupTypes DEF Blank
<1> QED BY <1>1, <1>2, <1>3, Zenon DEF Stored

(* The scan makes a group visible whose events are all there.              *)
LEMMA WholeShows ==
  ASSUME LogTypes, Layout, NEW m, NEW k \in G, \A p \in EventSlots(k) : m[p] = Content(k, p)
  PROVE  Shows(m, groups[k].first) /\ m[groups[k].first].len = groups[k].last - groups[k].first + 1
<1> DEFINE f == groups[k].first
           n == groups[k].last - groups[k].first + 1
<1>1. f \in Nat /\ groups[k].last \in Nat /\ f <= groups[k].last /\ n \in 1..MaxAtomicGroupSlots /\ f + n <= DiskSlots
  BY GroupTypes, LogConstants DEF Layout
<1>2. \A j \in 0..(n - 1) : f + j \in EventSlots(k) /\ f + j \in Positions(k) /\ f + j <= groups[k].last
  BY <1>1, InSlots DEF EventSlots
<1>3. ASSUME NEW j \in 0..(n - 1)
      PROVE  /\ m[f + j].id = f + j /\ m[f + j].kind = "event"
             /\ m[f + j].index = j /\ m[f + j].len = n
  <2>1. f + j \in Positions(k) /\ f + j <= groups[k].last /\ m[f + j] = Content(k, f + j)
    BY <1>2, Zenon
  <2>2. /\ m[f + j].id = f + j /\ m[f + j].kind = "event"
        /\ m[f + j].index = (f + j) - groups[k].first /\ m[f + j].len = n
    BY <2>1, ContentFacts
  <2> QED BY <1>1, <2>2
<1>4. 0 \in 0..(n - 1) /\ f + 0 = f
  BY <1>1
<1>5. m[f].id = f /\ m[f].kind = "event" /\ m[f].len = n
  BY <1>3, <1>4
<1> HIDE DEF f, n
<1>6. WholeGroup(m, f)
  BY <1>3, <1>5, Zenon DEF WholeGroup, Intact, Fits, SlotChecksumValid
<1>7. Shows(m, f)
  BY <1>1, <1>5, <1>6, Zenon DEF Shows, Placed
<1> QED BY <1>5, <1>7, Zenon DEF f, n

(* Behind the events of a group, a slot in the middle of a block is        *)
(* padding.                                                                *)
LEMMA TailSkips ==
  ASSUME LogTypes, Layout, NEW m, Stored(m), NEW k \in G, NEW p \in Positions(k), m[p].group = k,
         NEW x \in Nat, x = p + 1, groups[k].last < x, ~Aligned(x)
  PROVE  x \in Slots /\ Skips(m, x)
<1>1. p \in Nat /\ x # 0 /\ x - 1 = p
  BY InSlots
<1>2. LBAOf(x) = LBAOf(p)
  BY <1>1, Blocks, Zenon
<1>3. x \in Positions(k) /\ m[x] = Content(k, x)
  BY <1>2, StoredGroup
<1>4. m[x].kind = "reserved" /\ m[x].id = x
  BY <1>3, ContentFacts
<1> QED BY <1>3, <1>4, InSlots, Zenon DEF Skips, IsReservedEmptySlot

(* A slot that is not blank holds what its group wrote there.              *)
LEMMA StoredWritten ==
  ASSUME LogTypes, Layout, NEW m, Stored(m), NEW p \in Slots, m[p].kind # "blank", NEW g, g = m[p].group
  PROVE  g \in G /\ p \in Positions(g) /\ m[p] = Content(g, p)
<1>1. m[p] # Blank
  BY DEF Blank
<1> QED BY <1>1, Zenon DEF Stored

(* The writes of group k: its blocks are in flight or done unless one      *)
(* failed, and a flush covers whole blocks.                                *)
WritesOf(k) ==
  /\ inflight[k] \subseteq LBAs(k) /\ done[k] \subseteq LBAs(k) /\ inflight[k] \cap done[k] = {}
  /\ k \notin failed => LBAs(k) \subseteq inflight[k] \cup done[k]
  /\ ~Flushes => flush[k] = "no"
  /\ \A p, q \in Slots : LBAOf(p) = LBAOf(q) /\ p \in flushing[k] => q \in flushing[k]

(* The device: medium and cache hold whole blocks, the cache only those of *)
(* groups alive, and no command is under way for a group not yet accepted. *)
Device ==
  /\ Stored(media) /\ Stored(cache) /\ \A p \in Slots : cache[p] # Blank => Live(cache[p].group)
  /\ \A k \in GroupIds \ G : inflight[k] = {} /\ done[k] = {} /\ flush[k] = "no" /\ flushing[k] = {}
  /\ \A k \in G : Live(k) => WritesOf(k)

(* What is not on the medium yet is the content of a group alive, block by *)
(* block.                                                                  *)
LEMMA UnwrittenFacts ==
  ASSUME LogTypes, Layout, Device, NEW p \in Slots, NEW q \in Slots, LBAOf(p) = LBAOf(q)
  PROVE  /\ Unwritten(p) = Blank \/ \E k \in G : Live(k) /\ p \in Positions(k) /\ Unwritten(p) = Content(k, p)
         /\ Unwritten(p).group = Unwritten(q).group
<1>1. \A k \in G : p \in Positions(k) <=> q \in Positions(k)
  <2>1. p \in Nat /\ q \in Nat
    BY LogConstants DEF Slots
  <2> QED BY <2>1, SameBlock, Zenon
<1>2. Writers(p) = Writers(q)
  BY <1>1, Zenon DEF Writers, G
<1>3. CASE Writers(p) # {}
  <2> DEFINE k == CHOOSE w \in Writers(p) : TRUE
  <2>1. k \in Writers(p)
    BY <1>3, Zenon
  <2>2. k \in G /\ Live(k) /\ p \in Positions(k)
    BY <2>1, Zenon DEF Writers, G
  <2>3. Unwritten(p) = Content(k, p) /\ Unwritten(q) = Content(k, q)
    BY <1>2, <1>3, Zenon DEF Unwritten
  <2> HIDE DEF k
  <2> QED BY <1>1, <2>2, <2>3, ContentFacts
<1>4. CASE Writers(p) = {}
  <2>1. Unwritten(p) = cache[p] /\ Unwritten(q) = cache[q]
    BY <1>2, <1>4, Zenon DEF Unwritten
  <2>2. cache[p].group = cache[q].group
    BY Zenon DEF Device, Stored
  <2>3. cache[p] = Blank \/ \E k \in G : Live(k) /\ p \in Positions(k) /\ cache[p] = Content(k, p)
    BY Zenon DEF Device, Stored
  <2> QED BY <2>1, <2>2, <2>3, Zenon
<1> QED BY <1>3, <1>4, Zenon

(* Medium m differs from the current one by contents of groups alive only. *)
Overwrites(m) ==
  \A p \in Slots : m[p] = media[p] \/ \E k \in G : Live(k) /\ p \in Positions(k) /\ m[p] = Content(k, p)

(* What a power failure leaves: whole blocks, and nothing changed but by   *)
(* the groups alive.                                                       *)
LEMMA CrashFacts ==
  ASSUME LogTypes, Layout, Device, NEW m \in CrashImages
  PROVE  Stored(m) /\ Overwrites(m)
<1>1. PICK blocks : m = CrashImage(blocks)
  BY Zenon DEF CrashImages
<1>2. \A p \in Slots : m[p] = IF LBAOf(p) \in blocks /\ Unwritten(p) # Blank THEN Unwritten(p) ELSE media[p]
  BY <1>1, Zenon DEF CrashImage
<1>3. \A p \in Slots : Unwritten(p) = Blank \/ \E k \in G : Live(k) /\ p \in Positions(k) /\ Unwritten(p) = Content(k, p)
  BY UnwrittenFacts, Zenon
<1>4. \A p \in Slots : m[p] = media[p] \/ \E k \in G : Live(k) /\ p \in Positions(k) /\ m[p] = Content(k, p)
  BY <1>2, <1>3, Zenon
<1>5. ASSUME NEW p \in Slots
      PROVE  \/ m[p] = Blank
             \/ m[p].group \in G /\ p \in Positions(m[p].group) /\ m[p] = Content(m[p].group, p)
  <2>1. CASE m[p] = media[p]
    BY <2>1, Zenon DEF Device, Stored
  <2>2. CASE \E k \in G : Live(k) /\ p \in Positions(k) /\ m[p] = Content(k, p)
    BY <2>2, ContentFacts
  <2> QED BY <1>4, <2>1, <2>2, Zenon
<1>6. m \in [Slots -> Contents]
  <2>1. \A p \in Slots : m[p] \in Contents
    <3>1. Blank \in Contents
      BY Zenon DEF Blank, Contents
    <3> QED BY <1>5, <3>1, ContentFacts
  <2>2. m = [p \in Slots |-> m[p]]
    BY <1>1, Zenon DEF CrashImage
  <2> QED BY <2>1, <2>2, Zenon
<1>7. ASSUME NEW p \in Slots, NEW q \in Slots, LBAOf(p) = LBAOf(q)
      PROVE  m[p].group = m[q].group
  <2>1. Unwritten(p).group = Unwritten(q).group
    BY <1>7, UnwrittenFacts, Zenon
  <2>2. \A x \in Slots : Unwritten(x) # Blank <=> Unwritten(x).group # 0
    <3>1. Blank.group = 0
      BY Zenon DEF Blank
    <3> QED BY <1>3, <3>1, ContentFacts, GroupTypes
  <2>3. media[p].group = media[q].group
    BY <1>7, Zenon DEF Device, Stored
  <2> QED BY <1>2, <1>7, <2>1, <2>2, <2>3, Zenon
<1> QED BY <1>4, <1>5, <1>6, <1>7, Zenon DEF Stored, Overwrites

(* The groups alive follow one another without a gap from the slot b where *)
(* the last recovery ended to the writer's next slot.                      *)
Chain(b) ==
  /\ b \in 0..policy.next /\ Aligned(b) /\ Aligned(policy.next)
  /\ \A k \in G : Live(k) =>
       /\ b <= groups[k].first /\ End(k) <= policy.next
       /\ groups[k].first = b \/ \E j \in 1..(k - 1) : Live(j) /\ End(j) = groups[k].first
  /\ policy.next = b \/ \E j \in G : Live(j) /\ End(j) = policy.next

(* What is on the medium of group k: everything once it is acknowledged or *)
(* its flush is done; before, every written block is on the medium or in   *)
(* the cache, where the flush under way takes it from.                     *)
DurableGroup(k) ==
  /\ k \in acked => /\ inflight[k] = {} /\ k \notin failed /\ (Flushes => flush[k] = "done")
                    /\ \A p \in Positions(k) : media[p] = Content(k, p)
  /\ \A p \in Positions(k) : LBAOf(p) \in done[k] =>
       media[p] = Content(k, p) \/ (Flushes /\ cache[p] = Content(k, p))
  /\ flush[k] = "sent" =>
       /\ inflight[k] = {}
       /\ \A p \in Positions(k) : media[p] = Content(k, p) \/ (cache[p] = Content(k, p) /\ p \in flushing[k])
  /\ flush[k] = "done" => inflight[k] = {} /\ \A p \in Positions(k) : media[p] = Content(k, p)

(* That holds of every group alive.                                        *)
Durable == \A k \in G : Live(k) => DurableGroup(k)

(* The groups the last recovery returned are still there and reached by    *)
(* the scan; one it did not return, with no hole before it, was not        *)
(* acknowledged and is not whole.                                          *)
Kept(b) ==
  /\ \A k \in kept : /\ ~Live(k) /\ groups[k].last < b /\ Visited(media, groups[k].first)
                     /\ \A p \in EventSlots(k) : media[p] = Content(k, p)
  /\ \A k \in G : ~Live(k) /\ NoHoleBefore(k) /\ k \notin kept =>
       k \notin acked /\ \E p \in EventSlots(k) : media[p] # Content(k, p)

(* The invariant of log and device, with b the slot where the last         *)
(* recovery ended.                                                         *)
Sound(b) == Layout /\ Chain(b) /\ Device /\ Durable /\ Visited(media, b) /\ Kept(b)

(* A slot of a group alive that is on the medium is there after a power    *)
(* failure.                                                                *)
LEMMA OnCrash ==
  ASSUME LogTypes, Layout, NEW m, Overwrites(m), NEW k \in G, Live(k), NEW p \in Positions(k),
         media[p] = Content(k, p)
  PROVE  m[p] = Content(k, p)
<1>1. p \in Slots
  BY InSlots, Zenon
<1>2. CASE m[p] = media[p]
  BY <1>2, Zenon
<1>3. CASE \E j \in G : Live(j) /\ p \in Positions(j) /\ m[p] = Content(j, p)
  <2>1. PICK j \in G : Live(j) /\ p \in Positions(j) /\ m[p] = Content(j, p)
    BY <1>3, Zenon
  <2>2. groups[j].epoch = groups[k].epoch
    BY <2>1, Zenon DEF Live
  <2>3. j = k
    BY <2>1, <2>2, Disjoint, Zenon
  <2> QED BY <2>1, <2>3, Zenon
<1> QED BY <1>1, <1>2, <1>3, Zenon DEF Overwrites

(* A power failure changes nothing below the slot where the last recovery  *)
(* ended.                                                                  *)
LEMMA BelowBase ==
  ASSUME LogTypes, Layout, NEW b, Chain(b), NEW m, Overwrites(m), NEW p \in 0..(b - 1)
  PROVE  p \in Slots /\ m[p] = media[p]
<1>1. b \in 0..policy.next /\ policy.next \in 0..DiskSlots
  BY Zenon DEF Chain, LogTypes
<1>2. p \in Slots
  BY <1>1, LogConstants DEF Slots
<1>3. ASSUME NEW k \in G, Live(k), p \in Positions(k) PROVE FALSE
  <2>1. b <= groups[k].first
    BY <1>3, Zenon DEF Chain
  <2>2. groups[k].first <= p /\ groups[k].first \in Nat
    BY <1>3, InSlots, GroupTypes, Zenon
  <2> QED BY <1>1, <2>1, <2>2
<1> QED BY <1>2, <1>3, Zenon DEF Overwrites

(* The scan of a medium that only the groups alive changed still reaches   *)
(* that slot and the groups kept, and finds no group of an earlier restart *)
(* whole that was not.                                                     *)
LEMMA Preserved ==
  ASSUME LogTypes, NEW b, Sound(b), NEW m, Overwrites(m)
  PROVE  /\ Visited(m, b) /\ b \in 0..DiskSlots
         /\ \A k \in kept : Visited(m, groups[k].first) /\ \A p \in EventSlots(k) : m[p] = Content(k, p)
         /\ \A k \in G : ~Live(k) /\ (\E p \in EventSlots(k) : media[p] # Content(k, p))
                           => \E p \in EventSlots(k) : m[p] # Content(k, p)
<1> USE DEF Sound
<1>1. b \in 0..DiskSlots
  BY LogConstants DEF Chain, LogTypes
<1>2. \A p \in 0..(b - 1) : media[p] = m[p]
  BY BelowBase, Zenon
<1>3. Visited(m, b)
  BY <1>1, <1>2, VisitedLocal, Zenon
<1>4. ASSUME NEW k \in kept
      PROVE  Visited(m, groups[k].first) /\ \A p \in EventSlots(k) : m[p] = Content(k, p)
  <2>1. groups[k].last < b /\ Visited(media, groups[k].first) /\ \A p \in EventSlots(k) : media[p] = Content(k, p)
    BY Zenon DEF Kept
  <2>2. k \in G
    BY Zenon DEF LogTypes
  <2>3. groups[k].first \in Nat /\ groups[k].last \in Nat /\ groups[k].first <= groups[k].last
    BY <2>2, GroupTypes, Zenon DEF Layout
  <2>4. \A p \in EventSlots(k) : m[p] = Content(k, p)
    BY <1>1, <1>2, <2>1, <2>3 DEF EventSlots
  <2>5. groups[k].first \in 0..DiskSlots /\ \A p \in 0..(groups[k].first - 1) : media[p] = m[p]
    BY <1>1, <1>2, <2>1, <2>3, LogConstants
  <2> QED BY <2>1, <2>4, <2>5, VisitedLocal, Zenon
<1>5. ASSUME NEW k \in G, ~Live(k), NEW p \in EventSlots(k), media[p] # Content(k, p)
      PROVE  m[p] # Content(k, p)
  <2>1. p \in Slots /\ p \in Positions(k)
    BY InSlots, Zenon
  <2>2. CASE m[p] = media[p]
    BY <1>5, <2>2, Zenon
  <2>3. ASSUME NEW j \in G, Live(j), p \in Positions(j), m[p] = Content(j, p) PROVE m[p] # Content(k, p)
    <3>1. Content(j, p).group = j /\ Content(k, p).group = k
      BY <2>1, <2>3, ContentFacts, Zenon
    <3> QED BY <1>5, <2>3, <3>1, Zenon
  <2> QED BY <2>1, <2>2, <2>3, Zenon DEF Overwrites
<1> QED BY <1>1, <1>3, <1>4, <1>5, Zenon

(* The invariant implies that event IDs are unique.                        *)
LEMMA SoundUnique == ASSUME LogTypes, NEW b, Sound(b) PROVE EventIDsUnique
<1> SUFFICES ASSUME NEW j \in G, NEW k \in G, j < k, groups[j].epoch # groups[k].epoch, j \in kept, Live(k)
             PROVE  End(j) <= groups[k].first
  BY Zenon DEF EventIDsUnique, G, End, Sound, Layout
<1> USE DEF Sound
<1>1. groups[j].last < b /\ b <= groups[k].first /\ Aligned(b)
  BY Zenon DEF Kept, Chain
<1>2. groups[j].last \in Nat /\ groups[k].first \in Nat /\ End(j) \in Nat /\ groups[j].last < End(j) /\ b \in Nat
  BY GroupTypes DEF Layout, Chain
<1>3. b < End(j) => LBAOf(b) = LBAOf(groups[j].last)
  BY <1>1, <1>2, Padding
<1>4. LBAOf(groups[j].last) < LBAOf(b)
  BY <1>1, <1>2, Blocks, Zenon
<1>5. LBAOf(b) \in Nat /\ LBAOf(groups[j].last) \in Nat
  BY <1>2, Blocks, Zenon
<1> QED BY <1>1, <1>2, <1>3, <1>4, <1>5

(* The invariant of the projection: groups are published in order and once *)
(* acknowledged, the link holds those published and not applied, ascending *)
(* and later than all applied, and the watermark is the end of an applied  *)
(* group or lies before every group alive.                                 *)
Projected(b) ==
  /\ proj.root <= policy.frontier
  /\ \A k \in published : k \in acked /\ Live(k)
  /\ \A k \in published : \A j \in 1..(k - 1) : Live(j) => j \in published \cup failed
  /\ \A i \in 1..Len(link) : link[i] \in published \ proj.applied
  /\ \A i, j \in 1..Len(link) : i < j => link[i] < link[j]
  /\ \A k \in published : k \in proj.applied \/ \E i \in 1..Len(link) : link[i] = k
  /\ \A k \in proj.applied : Live(k) => k \in published /\ \A i \in 1..Len(link) : k < link[i]
  /\ \/ proj.applied = {}
     \/ proj.watermark < b /\ \A k \in proj.applied : ~Live(k)
     \/ \E g \in proj.applied : Live(g) /\ proj.watermark = groups[g].last
-----------------------------------------------------------------------------
(* Neither a group is accepted nor a restart taken.                        *)
Still == UNCHANGED <<dev, groups, epoch>>

(* Then groups and blocks stay as they are.                                *)
LEMMA StillFacts ==
  ASSUME Still
  PROVE  /\ G' = G /\ Flushes' = Flushes
         /\ \A k : /\ Positions(k)' = Positions(k) /\ EventSlots(k)' = EventSlots(k) /\ End(k)' = End(k)
                   /\ LBAs(k)' = LBAs(k) /\ Live(k)' = Live(k)
         /\ \A p : LBAOf(p)' = LBAOf(p) /\ Aligned(p)' = Aligned(p)
         /\ \A k, p : Content(k, p)' = Content(k, p)
BY Zenon DEF Still, G, Flushes, Positions, EventSlots, End, LBAs, Live, LBAOf, Aligned, Content

(* So does the layout.                                                     *)
LEMMA StillLayout == ASSUME Still, Layout PROVE Layout'
BY Zenon DEF Still, Layout, G, Aligned, End, LBAOf

(* The write of a block of a group leaves whole blocks.                    *)
LEMMA PutStored ==
  ASSUME LogTypes, Layout, NEW m, Stored(m), NEW k \in G, NEW l
  PROVE  Stored(Put(m, k, l))
<1> DEFINE n == Put(m, k, l)
<1>1. \A p \in Slots : n[p] = IF p \in Positions(k) /\ LBAOf(p) = l THEN Content(k, p) ELSE m[p]
  BY Zenon DEF Put
<1>2. ASSUME NEW p \in Slots
      PROVE  /\ n[p] = Blank \/ (n[p].group \in G /\ p \in Positions(n[p].group) /\ n[p] = Content(n[p].group, p))
             /\ n[p] \in Contents
  <2>1. CASE p \in Positions(k) /\ LBAOf(p) = l
    <3>1. n[p] = Content(k, p)
      BY <1>1, <2>1, Zenon
    <3> HIDE DEF n
    <3> QED BY <2>1, <3>1, ContentFacts
  <2>2. CASE ~(p \in Positions(k) /\ LBAOf(p) = l)
    <3>1. n[p] = m[p]
      BY <1>1, <2>2, Zenon
    <3> HIDE DEF n
    <3> QED BY <3>1, Zenon DEF Stored
  <2> QED BY <2>1, <2>2, Zenon
<1>3. ASSUME NEW p \in Slots, NEW q \in Slots, LBAOf(p) = LBAOf(q) PROVE n[p].group = n[q].group
  <2>1. p \in Positions(k) <=> q \in Positions(k)
    <3>1. p \in Nat /\ q \in Nat
      BY LogConstants DEF Slots
    <3> QED BY <1>3, <3>1, SameBlock, Zenon
  <2>2. CASE p \in Positions(k) /\ LBAOf(p) = l
    <3>1. n[p] = Content(k, p) /\ n[q] = Content(k, q)
      BY <1>1, <1>3, <2>1, <2>2, Zenon
    <3> HIDE DEF n
    <3> QED BY <2>1, <2>2, <3>1, ContentFacts
  <2>3. CASE ~(p \in Positions(k) /\ LBAOf(p) = l)
    <3>1. n[p] = m[p] /\ n[q] = m[q]
      BY <1>1, <1>3, <2>1, <2>3, Zenon
    <3> HIDE DEF n
    <3> QED BY <1>3, <3>1, Zenon DEF Stored
  <2> QED BY <2>2, <2>3, Zenon
<1>4. n \in [Slots -> Contents]
  <2>1. n = [p \in Slots |-> n[p]]
    BY Zenon DEF Put
  <2> HIDE DEF n
  <2> QED BY <1>2, <2>1, Zenon
<1> HIDE DEF n
<1>5. Stored(n)
  BY <1>2, <1>3, <1>4, Zenon DEF Stored
<1> QED BY <1>5, Zenon DEF n

(* The write of a group alive changes the medium as a group alive may.     *)
LEMMA PutOverwrites ==
  ASSUME NEW k \in G, Live(k), NEW l PROVE Overwrites(Put(media, k, l))
BY Zenon DEF Overwrites, Put

(* A store of whole blocks stays one.                                      *)
LEMMA StillStored == ASSUME Still, NEW m, Stored(m) PROVE Stored(m)'
BY Zenon DEF Still, Stored, G, Positions, LBAOf, Content

(* The new medium holds whole blocks of the new state.                     *)
LEMMA StillMedia == ASSUME Still, Stored(media') PROVE Stored(media)'
BY Zenon DEF Still, Stored, G, Positions, LBAOf, Content

(* So does the new cache.                                                  *)
LEMMA StillCache == ASSUME Still, Stored(cache') PROVE Stored(cache)'
BY Zenon DEF Still, Stored, G, Positions, LBAOf, Content

(* The parts of the invariant that no step of a group alive disturbs.      *)
LEMMA StillSound ==
  ASSUME LogTypes, NEW b, Sound(b), Still, Overwrites(media'), UNCHANGED kept,
         policy'.next = policy.next, \A k \in G : ~Live(k) => (k \in acked' <=> k \in acked)
  PROVE  Layout' /\ Chain(b)' /\ Visited(media, b)' /\ Kept(b)'
<1> USE DEF Sound
<1>1. /\ Visited(media', b)
      /\ \A k \in kept : Visited(media', groups[k].first) /\ \A p \in EventSlots(k) : media'[p] = Content(k, p)
      /\ \A k \in G : ~Live(k) /\ (\E p \in EventSlots(k) : media[p] # Content(k, p))
                           => \E p \in EventSlots(k) : media'[p] # Content(k, p)
  BY Preserved, Zenon
<1>2. Layout'
  BY StillLayout, Zenon
<1>3. Chain(b)'
  BY Zenon DEF Chain, Still, G, Live, End, Aligned
<1>5. Visited(media, b)'
  BY <1>1, Zenon DEF Visited, Step, Skips, Shows, Placed, WholeGroup, Intact, Fits
<1>6. ASSUME NEW k \in kept'
      PROVE  /\ ~Live(k)' /\ groups'[k].last < b /\ Visited(media', groups'[k].first)
             /\ \A p \in EventSlots(k)' : media'[p] = Content(k, p)'
  <2>1. k \in kept /\ groups'[k] = groups[k]
    BY Zenon DEF Still
  <2> QED BY <1>1, <2>1, StillFacts DEF Kept
<1>7. ASSUME NEW k \in G', ~Live(k)', NoHoleBefore(k)', k \notin kept'
      PROVE  k \notin acked' /\ \E p \in EventSlots(k)' : media'[p] # Content(k, p)'
  <2>1. k \in G /\ ~Live(k) /\ k \notin kept
    BY <1>7, StillFacts, Zenon
  <2>2. NoHoleBefore(k)
    <3> SUFFICES ASSUME NEW j \in 1..(k - 1), groups[j].epoch = groups[k].epoch PROVE j \in acked \cup kept
      BY Zenon DEF NoHoleBefore
    <3>1. j \in G /\ ~Live(j)
      BY <2>1, GroupTypes DEF G, Live
    <3>2. j \in acked' \cup kept'
      BY <1>7, Zenon DEF NoHoleBefore, Still
    <3> QED BY <3>1, <3>2, Zenon
  <2>3. k \notin acked /\ \E p \in EventSlots(k) : media[p] # Content(k, p)
    BY <2>1, <2>2, Zenon DEF Kept
  <2> QED BY <1>1, <2>1, <2>3, StillFacts, Zenon
<1>8. Kept(b)'
  BY <1>6, <1>7, Zenon DEF Kept
<1> QED BY <1>2, <1>3, <1>5, <1>8, Zenon

(* The durable frontier is a slot.                                         *)
LEMMA FrontierTypes == ASSUME LogTypes, Layout, NEW k \in G PROVE FrontierAfter(k) \in Slots
<1>1. groups[k].last \in Slots /\ policy.frontier \in Slots
  BY InSlots, Zenon DEF LogTypes
<1> QED BY <1>1, Zenon DEF FrontierAfter

(* Completed writes preserve the types.                                    *)
LEMMA TypesWrites ==
  ASSUME LogTypes, Layout, Still, NEW k \in G, NEW l \in inflight[k], CompleteWrite(k, l) \/ FailWrite(k, l),
         media' \in [Slots -> Contents], cache' \in [Slots -> Contents]
  PROVE  LogTypes'
<1>1. G' = G /\ k \in GroupIds
  BY StillFacts, LogConstants DEF LogTypes, G, GroupIds
<1>2. inflight' \in [GroupIds -> SUBSET Nat] /\ done' \in [GroupIds -> SUBSET Nat] /\ failed' \subseteq G
  <2>1. inflight \in [GroupIds -> SUBSET Nat] /\ done \in [GroupIds -> SUBSET Nat] /\ failed \subseteq G /\ l \in Nat
    BY <1>1, Zenon DEF LogTypes
  <2>2. inflight' = [inflight EXCEPT ![k] = inflight[k] \ {l}]
    BY Zenon DEF CompleteWrite, FailWrite
  <2>3. \/ done' = [done EXCEPT ![k] = done[k] \cup {l}] /\ failed' = failed
        \/ done' = done /\ failed' = failed \cup {k}
    BY Zenon DEF CompleteWrite, FailWrite
  <2> QED BY <1>1, <2>1, <2>2, <2>3, Zenon
<1>3. UNCHANGED <<policy, flush, flushing, acked, published, kept, link, proj>>
  BY Zenon DEF CompleteWrite, FailWrite, progress
<1> QED BY <1>1, <1>2, <1>3, Zenon DEF LogTypes, Still

(* Flushes preserve the types.                                             *)
LEMMA TypesFlush ==
  ASSUME LogTypes, Layout, Still, NEW k \in G, SubmitFlush(k) \/ FlushDone(k) \/ FlushFailed(k),
         media' \in [Slots -> Contents], cache' \in [Slots -> Contents]
  PROVE  LogTypes'
<1>1. G' = G /\ k \in GroupIds
  BY StillFacts, LogConstants DEF LogTypes, G, GroupIds
<1>2. flush' \in [GroupIds -> {"no", "sent", "done", "failed"}] /\ failed' \subseteq G
  BY <1>1, Zenon DEF LogTypes, SubmitFlush, FlushDone, FlushFailed
<1>3. flushing' \in [GroupIds -> SUBSET Slots]
  <2>1. flushing \in [GroupIds -> SUBSET Slots]
    BY Zenon DEF LogTypes
  <2>2. flushing' = flushing \/ \E T \in SUBSET Slots : flushing' = [flushing EXCEPT ![k] = T]
    BY Zenon DEF SubmitFlush, FlushDone, FlushFailed
  <2> QED BY <2>1, <2>2, Zenon
<1>4. UNCHANGED <<policy, inflight, done, acked, published, kept, link, proj>>
  BY Zenon DEF SubmitFlush, FlushDone, FlushFailed, progress
<1> QED BY <1>1, <1>2, <1>3, <1>4, Zenon DEF LogTypes, Still

(* An acknowledgement preserves the types.                                 *)
LEMMA TypesAck ==
  ASSUME LogTypes, Layout, NEW k \in G, OnDurabilityCompleted(k)
  PROVE  LogTypes' /\ Still /\ policy'.next = policy.next
<1>1. Still /\ UNCHANGED <<inflight, done, flush, flushing, failed, published, kept, cache, media, link, proj>>
  BY Zenon DEF OnDurabilityCompleted, durability, Still
<1>2. G' = G
  BY <1>1, StillFacts, Zenon
<1>3. policy' \in [next : 0..DiskSlots, open : 0..MaxBatchSlots, frontier : Slots] /\ policy'.next = policy.next
  <2>1. policy \in [next : 0..DiskSlots, open : 0..MaxBatchSlots, frontier : Slots] /\ 0 \in 0..MaxBatchSlots
    BY LogConstants DEF LogTypes
  <2>2. policy' = [policy EXCEPT !.frontier = FrontierAfter(k), !.open = 0] /\ FrontierAfter(k) \in Slots
    BY FrontierTypes, Zenon DEF OnDurabilityCompleted
  <2> QED BY <2>1, <2>2, Zenon
<1>4. acked' \subseteq G
  BY Zenon DEF OnDurabilityCompleted, LogTypes
<1> QED BY <1>1, <1>2, <1>3, <1>4, Zenon DEF LogTypes, Still

(* A publication preserves the types.                                      *)
LEMMA TypesPublish ==
  ASSUME LogTypes, Layout, NEW k \in G, PublishCommittedGroup(k)
  PROVE  LogTypes' /\ Still /\ policy'.next = policy.next
<1>1. Still /\ UNCHANGED <<inflight, done, flush, flushing, failed, acked, kept, cache, media, proj>>
  BY Zenon DEF PublishCommittedGroup, durability, Still
<1>2. G' = G
  BY <1>1, StillFacts, Zenon
<1>3. policy' \in [next : 0..DiskSlots, open : 0..MaxBatchSlots, frontier : Slots] /\ policy'.next = policy.next
  BY FrontierTypes, LogConstants, Zenon DEF PublishCommittedGroup, LogTypes
<1>4. published' \subseteq G
  BY Zenon DEF PublishCommittedGroup, LogTypes
<1>5. link' \in Seq(G) /\ Len(link') <= LinkDepth
  <2> HIDE DEF G
  <2>1. link \in Seq(G) /\ Len(link) < LinkDepth /\ link' = Append(link, k)
    BY Zenon DEF PublishCommittedGroup, LogTypes
  <2> QED BY <2>1, LogConstants
<1> QED BY <1>1, <1>2, <1>3, <1>4, <1>5, Zenon DEF LogTypes, Still

(* The steps of the projection preserve the types.                         *)
LEMMA TypesApply ==
  ASSUME LogTypes, Layout, ApplyGroup \/ AdvanceProjection
  PROVE  LogTypes' /\ Still /\ UNCHANGED policy
<1>1. Still /\ UNCHANGED <<policy, inflight, done, flush, flushing, failed, acked, published, kept, cache, media>>
  BY Zenon DEF ApplyGroup, AdvanceProjection, durability, progress, Still
<1>2. G' = G
  BY <1>1, StillFacts, Zenon
<1>3. proj' \in [applied : SUBSET G, watermark : Nat, root : Nat] /\ link' \in Seq(G) /\ Len(link') <= LinkDepth
  <2>1. proj \in [applied : SUBSET G, watermark : Nat, root : Nat] /\ link \in Seq(G) /\ Len(link) <= LinkDepth
    BY Zenon DEF LogTypes
  <2>2. CASE ApplyGroup
    <3>1. link # <<>> /\ link' = Tail(link) /\ Head(link) \in G
      BY <2>1, <2>2 DEF ApplyGroup
    <3>2. groups[Head(link)].last \in Nat
      BY <3>1, GroupTypes, Zenon
    <3>3. proj' = [proj EXCEPT !.applied = @ \cup {Head(link)}, !.watermark = groups[Head(link)].last]
      BY <2>2, Zenon DEF ApplyGroup
    <3>4. proj' \in [applied : SUBSET G, watermark : Nat, root : Nat]
      BY <2>1, <3>1, <3>2, <3>3, Zenon
    <3>5. link' \in Seq(G) /\ Len(link') <= LinkDepth
      BY <2>1, <3>1, LogConstants
    <3> QED BY <3>4, <3>5, Zenon
  <2>3. CASE AdvanceProjection
    BY <2>1, <2>3, Zenon DEF AdvanceProjection
  <2> QED BY <2>2, <2>3, Zenon
<1> QED BY <1>1, <1>2, <1>3, Zenon DEF LogTypes, Still

(* The invariant of a group that a step does not concern, when what it has *)
(* in the cache stays there or goes to the medium.                         *)
LEMMA SameGroup ==
  ASSUME LogTypes, Layout, Still, Overwrites(media'), NEW j \in G, Live(j), WritesOf(j), DurableGroup(j),
         inflight'[j] = inflight[j], done'[j] = done[j], flush'[j] = flush[j], flushing'[j] = flushing[j],
         j \in acked' => j \in acked, j \in failed' <=> j \in failed,
         \A p \in Positions(j) : cache[p] = Content(j, p) => cache'[p] = Content(j, p) \/ media'[p] = Content(j, p)
  PROVE  WritesOf(j)' /\ DurableGroup(j)'
<1>1. \A p \in Positions(j) : media[p] = Content(j, p) => media'[p] = Content(j, p)
  BY OnCrash, Zenon
<1>2. WritesOf(j)'
  BY StillFacts, Zenon DEF WritesOf
<1>3. /\ \A p \in Positions(j) : LBAOf(p) \in done'[j] =>
           media'[p] = Content(j, p) \/ (Flushes /\ cache'[p] = Content(j, p))
      /\ j \in acked' => /\ inflight'[j] = {} /\ j \notin failed' /\ (Flushes => flush'[j] = "done")
                         /\ \A p \in Positions(j) : media'[p] = Content(j, p)
  BY <1>1, Zenon DEF DurableGroup
<1>4. /\ flush'[j] = "sent" =>
           /\ inflight'[j] = {}
           /\ \A p \in Positions(j) : media'[p] = Content(j, p) \/ (cache'[p] = Content(j, p) /\ p \in flushing'[j])
      /\ flush'[j] = "done" => inflight'[j] = {} /\ \A p \in Positions(j) : media'[p] = Content(j, p)
  BY <1>1, Zenon DEF DurableGroup
<1>5. /\ Positions(j)' = Positions(j) /\ Flushes' = Flushes
      /\ \A p : LBAOf(p)' = LBAOf(p) /\ Content(j, p)' = Content(j, p)
  BY StillFacts, Zenon
<1> QED BY <1>2, <1>3, <1>4, <1>5 DEF DurableGroup

(* What a step between two restarts has to preserve.                       *)
LEMMA SoundStep ==
  ASSUME LogTypes, NEW b, Sound(b), Still, Overwrites(media'), UNCHANGED kept,
         policy'.next = policy.next, \A k \in G : ~Live(k) => (k \in acked' <=> k \in acked),
         Stored(media'), Stored(cache'), \A p \in Slots : cache'[p] # Blank => Live(cache'[p].group),
         \A k \in GroupIds \ G : inflight'[k] = {} /\ done'[k] = {} /\ flush'[k] = "no" /\ flushing'[k] = {},
         \A k \in G : Live(k) => WritesOf(k)' /\ DurableGroup(k)'
  PROVE  Sound(b)'
<1>1. Layout' /\ Chain(b)' /\ Visited(media, b)' /\ Kept(b)'
  BY StillSound, Zenon
<1>2. Stored(media)' /\ Stored(cache)'
  BY StillMedia, StillCache, Zenon
<1>3. (\A p \in Slots : cache[p] # Blank => Live(cache[p].group))'
  BY Zenon DEF Live, Still
<1>4. Device' /\ Durable'
  BY <1>2, <1>3, StillFacts, Zenon DEF Device, Durable
<1> QED BY <1>1, <1>4, Zenon DEF Sound

(* An accepted group is one of the bounded set.                            *)
LEMMA GroupIn == ASSUME LogTypes, NEW k \in G PROVE k \in GroupIds
BY LogConstants DEF LogTypes, G, GroupIds

(* What the write of a block leaves in a store.                            *)
LEMMA PutCache ==
  ASSUME LogTypes, Layout, NEW m \in [Slots -> Contents], NEW k \in G, Live(k), NEW l
  PROVE  /\ \A p \in Slots : Put(m, k, l)[p] = m[p] \/ (p \in Positions(k) /\ Put(m, k, l)[p] = Content(k, p))
         /\ \A p \in Positions(k) : LBAOf(p) = l => Put(m, k, l)[p] = Content(k, p)
         /\ \A j \in G : Live(j) => \A p \in Positions(j) : m[p] = Content(j, p) => Put(m, k, l)[p] = Content(j, p)
<1>1. Positions(k) \subseteq Slots
  BY InSlots, Zenon
<1>2. \A p \in Slots : Put(m, k, l)[p] = IF p \in Positions(k) /\ LBAOf(p) = l THEN Content(k, p) ELSE m[p]
  BY Zenon DEF Put
<1>3. ASSUME NEW j \in G, Live(j), NEW p \in Positions(j), m[p] = Content(j, p) PROVE Put(m, k, l)[p] = Content(j, p)
  <2>1. p \in Slots
    BY InSlots, Zenon
  <2>2. p \in Positions(k) => j = k
    BY <1>3, Disjoint, Zenon DEF Live
  <2> QED BY <1>2, <1>3, <2>1, <2>2, Zenon
<1> QED BY <1>1, <1>2, <1>3, Zenon

(* A completed write preserves the invariant.                              *)
LEMMA WriteSound ==
  ASSUME LogTypes, NEW b, Sound(b), NEW k \in G, NEW l \in inflight[k], CompleteWrite(k, l)
  PROVE  LogTypes' /\ Sound(b)'
<1> USE DEF Sound
<1>1. /\ Still /\ UNCHANGED <<kept, acked, failed, flush, flushing>> /\ policy'.next = policy.next
      /\ inflight' = [inflight EXCEPT ![k] = inflight[k] \ {l}] /\ done' = [done EXCEPT ![k] = done[k] \cup {l}]
  BY Zenon DEF CompleteWrite, Still, progress
<1>2. Live(k) /\ WritesOf(k) /\ DurableGroup(k) /\ k \in GroupIds
  BY GroupIn, Zenon DEF CompleteWrite, Device, Durable
<1>3. \/ Flushes /\ cache' = Put(cache, k, l) /\ media' = media
      \/ ~Flushes /\ media' = Put(media, k, l) /\ cache' = cache
  BY Zenon DEF CompleteWrite
<1>14. cache \in [Slots -> Contents] /\ media \in [Slots -> Contents] /\ Layout
  BY Zenon DEF LogTypes
<1>15. /\ \A p \in Slots : cache'[p] = cache[p] \/ (p \in Positions(k) /\ cache'[p] = Content(k, p))
       /\ \A j \in G : Live(j) => \A p \in Positions(j) : cache[p] = Content(j, p) => cache'[p] = Content(j, p)
       /\ \A j \in G : Live(j) => \A p \in Positions(j) : media[p] = Content(j, p) => media'[p] = Content(j, p)
       /\ \A p \in Positions(k) : LBAOf(p) = l => media'[p] = Content(k, p) \/ (Flushes /\ cache'[p] = Content(k, p))
  <2>1. CASE Flushes /\ cache' = Put(cache, k, l) /\ media' = media
    <3>1. /\ \A p \in Slots : Put(cache, k, l)[p] = cache[p] \/ (p \in Positions(k) /\ Put(cache, k, l)[p] = Content(k, p))
          /\ \A p \in Positions(k) : LBAOf(p) = l => Put(cache, k, l)[p] = Content(k, p)
          /\ \A j \in G : Live(j) => \A p \in Positions(j) : cache[p] = Content(j, p) => Put(cache, k, l)[p] = Content(j, p)
      BY <1>2, <1>14, PutCache
    <3> QED BY <2>1, <3>1, Zenon
  <2>2. CASE ~Flushes /\ media' = Put(media, k, l) /\ cache' = cache
    <3>1. /\ \A p \in Slots : Put(media, k, l)[p] = media[p] \/ (p \in Positions(k) /\ Put(media, k, l)[p] = Content(k, p))
          /\ \A p \in Positions(k) : LBAOf(p) = l => Put(media, k, l)[p] = Content(k, p)
          /\ \A j \in G : Live(j) => \A p \in Positions(j) : media[p] = Content(j, p) => Put(media, k, l)[p] = Content(j, p)
      BY <1>2, <1>14, PutCache
    <3> QED BY <2>2, <3>1, Zenon
  <2> QED BY <1>3, <2>1, <2>2, Zenon
<1>4. Stored(media') /\ Stored(cache') /\ Overwrites(media')
  BY <1>2, <1>3, PutStored, PutOverwrites DEF Device, Overwrites
<1>5. LogTypes'
  BY <1>1, <1>4, TypesWrites, Zenon DEF Stored
<1>6. ASSUME NEW p \in Slots, cache'[p] # Blank PROVE Live(cache'[p].group)
  <2>1. cache'[p] = cache[p] \/ (p \in Positions(k) /\ cache'[p] = Content(k, p))
    BY <1>15, Zenon
  <2> QED BY <1>2, <1>6, <2>1, ContentFacts DEF Device
<1>7. /\ inflight'[k] = inflight[k] \ {l} /\ done'[k] = done[k] \cup {l}
      /\ \A j \in GroupIds \ {k} : inflight'[j] = inflight[j] /\ done'[j] = done[j]
  BY <1>1, <1>2 DEF LogTypes
<1>9. ASSUME NEW j \in G, Live(j), j # k PROVE WritesOf(j)' /\ DurableGroup(j)'
  BY <1>1, <1>4, <1>7, <1>9, <1>15, GroupIn, SameGroup DEF Device, Durable
<1>10. WritesOf(k)'
  BY <1>1, <1>2, <1>7, StillFacts DEF WritesOf
<1>11. DurableGroup(k)'
  <2>1. k \notin acked' /\ flush'[k] # "sent" /\ flush'[k] # "done"
    BY <1>1, <1>2, Zenon DEF DurableGroup
  <2>3. \A p \in Positions(k) : LBAOf(p) \in done'[k] => media'[p] = Content(k, p) \/ (Flushes /\ cache'[p] = Content(k, p))
    BY <1>2, <1>7, <1>15, Zenon DEF DurableGroup
  <2>4. /\ Positions(k)' = Positions(k) /\ Flushes' = Flushes
        /\ \A p : LBAOf(p)' = LBAOf(p) /\ Content(k, p)' = Content(k, p)
    BY <1>1, StillFacts, Zenon
  <2> QED BY <2>1, <2>3, <2>4, Zenon DEF DurableGroup
<1>12. \A j \in GroupIds \ G : inflight'[j] = {} /\ done'[j] = {} /\ flush'[j] = "no" /\ flushing'[j] = {}
  BY <1>1, <1>7, Zenon DEF Device
<1>13. Sound(b)'
  BY <1>1, <1>4, <1>6, <1>9, <1>10, <1>11, <1>12, SoundStep, Zenon
<1> QED BY <1>5, <1>13, Zenon

(* A failed write preserves it, whether its block was written or not.      *)
LEMMA FailSound ==
  ASSUME LogTypes, NEW b, Sound(b), NEW k \in G, NEW l \in inflight[k], FailWrite(k, l)
  PROVE  LogTypes' /\ Sound(b)'
<1> USE DEF Sound
<1>1. /\ Still /\ UNCHANGED <<kept, acked, done, flush, flushing, cache>> /\ policy'.next = policy.next
      /\ inflight' = [inflight EXCEPT ![k] = inflight[k] \ {l}] /\ failed' = failed \cup {k}
  BY Zenon DEF FailWrite, Still, progress
<1>2. Live(k) /\ WritesOf(k) /\ DurableGroup(k) /\ k \in GroupIds
  BY GroupIn, Zenon DEF FailWrite, Device, Durable
<1>3. media' = media \/ media' = Put(media, k, l)
  BY Zenon DEF FailWrite
<1>4. Stored(media') /\ Stored(cache') /\ Overwrites(media')
  BY <1>1, <1>2, <1>3, PutStored, PutOverwrites DEF Device, Overwrites
<1>5. LogTypes'
  BY <1>1, <1>4, TypesWrites, Zenon DEF Stored
<1>6. \A p \in Slots : cache'[p] # Blank => Live(cache'[p].group)
  BY <1>1, Zenon DEF Device
<1>7. /\ inflight'[k] = inflight[k] \ {l} /\ \A j \in GroupIds \ {k} : inflight'[j] = inflight[j]
  BY <1>1, <1>2 DEF LogTypes
<1>9. ASSUME NEW j \in G, Live(j), j # k PROVE WritesOf(j)' /\ DurableGroup(j)'
  BY <1>1, <1>4, <1>7, <1>9, GroupIn, SameGroup, Zenon DEF Device, Durable
<1>10. WritesOf(k)'
  BY <1>1, <1>2, <1>7, StillFacts DEF WritesOf
<1>11. DurableGroup(k)'
  <2>1. k \notin acked' /\ flush'[k] # "sent" /\ flush'[k] # "done"
    BY <1>1, <1>2, Zenon DEF DurableGroup
  <2>2. \A p \in Positions(k) : media[p] = Content(k, p) => media'[p] = Content(k, p)
    BY <1>2, <1>4, OnCrash, Zenon
  <2>3. \A p \in Positions(k) : LBAOf(p) \in done'[k] => media'[p] = Content(k, p) \/ (Flushes /\ cache'[p] = Content(k, p))
    BY <1>1, <1>2, <2>2, Zenon DEF DurableGroup
  <2>4. /\ Positions(k)' = Positions(k) /\ Flushes' = Flushes
        /\ \A p : LBAOf(p)' = LBAOf(p) /\ Content(k, p)' = Content(k, p)
    BY <1>1, StillFacts, Zenon
  <2> QED BY <2>1, <2>3, <2>4, Zenon DEF DurableGroup
<1>12. \A j \in GroupIds \ G : inflight'[j] = {} /\ done'[j] = {} /\ flush'[j] = "no" /\ flushing'[j] = {}
  BY <1>1, <1>7, Zenon DEF Device
<1>13. Sound(b)'
  BY <1>1, <1>4, <1>6, <1>9, <1>10, <1>11, <1>12, SoundStep, Zenon
<1> QED BY <1>5, <1>13, Zenon

(* The cache holds a block whole or not at all.                            *)
LEMMA CacheBlock ==
  ASSUME LogTypes, Device, NEW p \in Slots, NEW q \in Slots, LBAOf(p) = LBAOf(q)
  PROVE  cache[p] # Blank <=> cache[q] # Blank
<1>1. cache[p].group = cache[q].group
  BY Zenon DEF Device, Stored
<1>2. \A x \in Slots : cache[x] # Blank => cache[x].group \in G
  BY Zenon DEF Device, Stored
<1>3. Blank.group = 0 /\ 0 \notin G
  BY GroupTypes, Zenon DEF Blank
<1> QED BY <1>1, <1>2, <1>3, Zenon

(* The submission of a flush preserves it.                                 *)
LEMMA SubmitSound ==
  ASSUME LogTypes, NEW b, Sound(b), NEW k \in G, SubmitFlush(k)
  PROVE  LogTypes' /\ Sound(b)'
<1> USE DEF Sound
<1>1. /\ Still /\ UNCHANGED <<kept, acked, inflight, done, failed, cache, media>> /\ policy'.next = policy.next
      /\ flush' = [flush EXCEPT ![k] = "sent"] /\ flushing' = [flushing EXCEPT ![k] = {p \in Slots : cache[p] # Blank}]
  BY Zenon DEF SubmitFlush, Still, progress
<1>2. Live(k) /\ WritesOf(k) /\ DurableGroup(k) /\ k \in GroupIds
  BY GroupIn, Zenon DEF SubmitFlush, Device, Durable
<1>3. Flushes /\ flush[k] = "no" /\ inflight[k] = {} /\ k \notin failed
  BY Zenon DEF SubmitFlush
<1>4. Stored(media') /\ Stored(cache') /\ Overwrites(media')
  BY <1>1, Zenon DEF Device, Overwrites
<1>5. LogTypes'
  BY <1>1, <1>4, TypesFlush, Zenon DEF Stored
<1>6. \A p \in Slots : cache'[p] # Blank => Live(cache'[p].group)
  BY <1>1, Zenon DEF Device
<1>7. /\ flush'[k] = "sent" /\ flushing'[k] = {p \in Slots : cache[p] # Blank}
      /\ \A j \in GroupIds \ {k} : flush'[j] = flush[j] /\ flushing'[j] = flushing[j]
  BY <1>1, <1>2 DEF LogTypes
<1>9. ASSUME NEW j \in G, Live(j), j # k PROVE WritesOf(j)' /\ DurableGroup(j)'
  BY <1>1, <1>4, <1>7, <1>9, GroupIn, SameGroup, Zenon DEF Device, Durable
<1>10. WritesOf(k)'
  <2>1. \A p, q \in Slots : LBAOf(p) = LBAOf(q) /\ p \in flushing'[k] => q \in flushing'[k]
    BY <1>7, CacheBlock, Zenon
  <2> QED BY <1>1, <1>2, <1>3, <2>1, StillFacts, Zenon DEF WritesOf
<1>11. DurableGroup(k)'
  <2>1. k \notin acked'
    BY <1>1, <1>2, <1>3, Zenon DEF DurableGroup
  <2>2. ASSUME NEW p \in Positions(k) PROVE media[p] = Content(k, p) \/ (cache[p] = Content(k, p) /\ p \in flushing'[k])
    <3>1. LBAOf(p) \in done[k]
      BY <1>2, <1>3, Zenon DEF WritesOf, LBAs
    <3>2. Content(k, p) # Blank /\ p \in Slots
      BY ContentFacts, InSlots, Zenon
    <3> QED BY <1>2, <1>7, <3>1, <3>2, Zenon DEF DurableGroup
  <2>3. /\ Positions(k)' = Positions(k) /\ Flushes' = Flushes
        /\ \A p : LBAOf(p)' = LBAOf(p) /\ Content(k, p)' = Content(k, p)
    BY <1>1, StillFacts, Zenon
  <2> QED BY <1>1, <1>2, <1>3, <1>7, <2>1, <2>2, <2>3 DEF DurableGroup
<1>12. \A j \in GroupIds \ G : inflight'[j] = {} /\ done'[j] = {} /\ flush'[j] = "no" /\ flushing'[j] = {}
  BY <1>1, <1>7, Zenon DEF Device
<1>13. Sound(b)'
  BY <1>1, <1>4, <1>6, <1>9, <1>10, <1>11, <1>12, SoundStep, Zenon
<1> QED BY <1>5, <1>13, Zenon

(* A flush moves the blocks it covers from the cache to the medium.        *)
LEMMA FlushStores ==
  ASSUME LogTypes, Layout, Device, NEW k \in G, WritesOf(k), FlushDone(k)
  PROVE  /\ Stored(media') /\ Stored(cache') /\ Overwrites(media')
         /\ \A p \in Slots : cache'[p] = Blank \/ cache'[p] = cache[p]
         /\ \A p \in Slots : cache[p] # Blank => (p \notin flushing[k] /\ cache'[p] = cache[p]) \/ media'[p] = cache[p]
<1>1. /\ media' = [p \in Slots |-> IF p \in flushing[k] /\ cache[p] # Blank THEN cache[p] ELSE media[p]]
      /\ cache' = [p \in Slots |-> IF p \in flushing[k] THEN Blank ELSE cache[p]]
  BY Zenon DEF FlushDone
<1>2. /\ \A p \in Slots : media'[p] = IF p \in flushing[k] /\ cache[p] # Blank THEN cache[p] ELSE media[p]
      /\ \A p \in Slots : cache'[p] = IF p \in flushing[k] THEN Blank ELSE cache[p]
  BY <1>1, Zenon
<1>3. Stored(media) /\ Stored(cache) /\ \A p \in Slots : cache[p] # Blank => Live(cache[p].group)
  BY Zenon DEF Device
<1>4. \A p, q \in Slots : LBAOf(p) = LBAOf(q) => /\ cache[p] # Blank <=> cache[q] # Blank
                                                 /\ p \in flushing[k] <=> q \in flushing[k]
  BY CacheBlock, Zenon DEF WritesOf
<1>5. Blank \in Contents
  BY Zenon DEF Blank, Contents
<1>6. media' \in [Slots -> Contents] /\ cache' \in [Slots -> Contents]
  BY <1>1, <1>5, Zenon DEF LogTypes
<1>7. Stored(media')
  <2>1. ASSUME NEW p \in Slots
        PROVE  \/ media'[p] = Blank
               \/ media'[p].group \in G /\ p \in Positions(media'[p].group) /\ media'[p] = Content(media'[p].group, p)
    BY <1>2, <1>3, Zenon DEF Stored
  <2>2. ASSUME NEW p \in Slots, NEW q \in Slots, LBAOf(p) = LBAOf(q) PROVE media'[p].group = media'[q].group
    <3>1. media[p].group = media[q].group /\ cache[p].group = cache[q].group
      BY <1>3, <2>2, Zenon DEF Stored
    <3> QED BY <1>2, <1>4, <2>2, <3>1, Zenon
  <2> QED BY <1>6, <2>1, <2>2, Zenon DEF Stored
<1>8. Stored(cache')
  <2>1. ASSUME NEW p \in Slots
        PROVE  \/ cache'[p] = Blank
               \/ cache'[p].group \in G /\ p \in Positions(cache'[p].group) /\ cache'[p] = Content(cache'[p].group, p)
    BY <1>2, <1>3, Zenon DEF Stored
  <2>2. ASSUME NEW p \in Slots, NEW q \in Slots, LBAOf(p) = LBAOf(q) PROVE cache'[p].group = cache'[q].group
    <3>1. cache[p].group = cache[q].group
      BY <1>3, <2>2, Zenon DEF Stored
    <3> QED BY <1>2, <1>4, <2>2, <3>1, Zenon
  <2> QED BY <1>6, <2>1, <2>2, Zenon DEF Stored
<1>9. Overwrites(media')
  <2>1. \A p \in Slots : cache[p] # Blank => \E j \in G : Live(j) /\ p \in Positions(j) /\ cache[p] = Content(j, p)
    BY <1>3, Zenon DEF Stored
  <2> QED BY <1>2, <2>1, Zenon DEF Overwrites
<1> QED BY <1>2, <1>7, <1>8, <1>9, Zenon

(* A completed flush preserves the invariant.                              *)
LEMMA FlushSound ==
  ASSUME LogTypes, NEW b, Sound(b), NEW k \in G, FlushDone(k)
  PROVE  LogTypes' /\ Sound(b)'
<1> USE DEF Sound
<1>1. /\ Still /\ UNCHANGED <<kept, acked, inflight, done, failed, flushing>> /\ policy'.next = policy.next
      /\ flush' = [flush EXCEPT ![k] = "done"]
  BY Zenon DEF FlushDone, Still, progress
<1>2. Live(k) /\ WritesOf(k) /\ DurableGroup(k) /\ k \in GroupIds /\ flush[k] = "sent"
  BY GroupIn, Zenon DEF FlushDone, Device, Durable
<1>3. Flushes /\ k \notin acked
  BY <1>2, Zenon DEF WritesOf, DurableGroup
<1>4. Stored(media') /\ Stored(cache') /\ Overwrites(media')
  BY <1>2, FlushStores, Zenon
<1>5. LogTypes'
  BY <1>1, <1>4, TypesFlush, Zenon DEF Stored
<1>6. \A p \in Slots : cache'[p] # Blank => Live(cache'[p].group)
  <2>1. \A p \in Slots : cache'[p] = Blank \/ cache'[p] = cache[p]
    BY <1>2, FlushStores, Zenon
  <2> QED BY <2>1, Zenon DEF Device
<1>7. flush'[k] = "done" /\ \A j \in GroupIds \ {k} : flush'[j] = flush[j]
  BY <1>1, <1>2 DEF LogTypes
<1>8. ASSUME NEW j \in G, NEW p \in Positions(j), cache[p] = Content(j, p)
      PROVE  (p \notin flushing[k] /\ cache'[p] = Content(j, p)) \/ media'[p] = Content(j, p)
  <2>1. p \in Slots /\ cache[p] # Blank
    BY <1>8, ContentFacts, InSlots
  <2>2. (p \notin flushing[k] /\ cache'[p] = cache[p]) \/ media'[p] = cache[p]
    BY <1>2, <2>1, FlushStores, Zenon
  <2> QED BY <1>8, <2>2, Zenon
<1>9. ASSUME NEW j \in G, Live(j), j # k PROVE WritesOf(j)' /\ DurableGroup(j)'
  BY <1>1, <1>4, <1>7, <1>8, <1>9, GroupIn, SameGroup, Zenon DEF Device, Durable
<1>10. WritesOf(k)'
  BY <1>1, <1>2, <1>3, StillFacts, Zenon DEF WritesOf
<1>11. DurableGroup(k)'
  <2>1. \A p \in Positions(k) : media[p] = Content(k, p) => media'[p] = Content(k, p)
    BY <1>2, <1>4, OnCrash, Zenon
  <2>2. \A p \in Positions(k) : media'[p] = Content(k, p)
    BY <1>2, <1>8, <2>1, Zenon DEF DurableGroup
  <2>3. /\ Positions(k)' = Positions(k) /\ Flushes' = Flushes
        /\ \A p : LBAOf(p)' = LBAOf(p) /\ Content(k, p)' = Content(k, p)
    BY <1>1, StillFacts, Zenon
  <2> QED BY <1>1, <1>2, <1>3, <1>7, <2>2, <2>3 DEF DurableGroup
<1>12. \A j \in GroupIds \ G : inflight'[j] = {} /\ done'[j] = {} /\ flush'[j] = "no" /\ flushing'[j] = {}
  BY <1>1, <1>7, Zenon DEF Device
<1>13. Sound(b)'
  BY <1>1, <1>4, <1>6, <1>9, <1>10, <1>11, <1>12, SoundStep, Zenon
<1> QED BY <1>5, <1>13, Zenon

(* A failed flush preserves it.                                            *)
LEMMA FlushFailSound ==
  ASSUME LogTypes, NEW b, Sound(b), NEW k \in G, FlushFailed(k)
  PROVE  LogTypes' /\ Sound(b)'
<1> USE DEF Sound
<1>1. /\ Still /\ UNCHANGED <<kept, acked, inflight, done, flushing, cache, media>> /\ policy'.next = policy.next
      /\ flush' = [flush EXCEPT ![k] = "failed"] /\ failed' = failed \cup {k}
  BY Zenon DEF FlushFailed, Still, progress
<1>2. Live(k) /\ WritesOf(k) /\ DurableGroup(k) /\ k \in GroupIds /\ flush[k] = "sent"
  BY GroupIn, Zenon DEF FlushFailed, Device, Durable
<1>3. Flushes /\ k \notin acked
  BY <1>2, Zenon DEF WritesOf, DurableGroup
<1>4. Stored(media') /\ Stored(cache') /\ Overwrites(media')
  BY <1>1, Zenon DEF Device, Overwrites
<1>5. LogTypes'
  BY <1>1, <1>4, TypesFlush, Zenon DEF Stored
<1>6. \A p \in Slots : cache'[p] # Blank => Live(cache'[p].group)
  BY <1>1, Zenon DEF Device
<1>7. flush'[k] = "failed" /\ \A j \in GroupIds \ {k} : flush'[j] = flush[j]
  BY <1>1, <1>2 DEF LogTypes
<1>9. ASSUME NEW j \in G, Live(j), j # k PROVE WritesOf(j)' /\ DurableGroup(j)'
  BY <1>1, <1>4, <1>7, <1>9, GroupIn, SameGroup, Zenon DEF Device, Durable
<1>10. WritesOf(k)'
  BY <1>1, <1>2, <1>3, StillFacts, Zenon DEF WritesOf
<1>11. DurableGroup(k)'
  <2>1. /\ Positions(k)' = Positions(k) /\ Flushes' = Flushes
        /\ \A p : LBAOf(p)' = LBAOf(p) /\ Content(k, p)' = Content(k, p)
    BY <1>1, StillFacts, Zenon
  <2> QED BY <1>1, <1>2, <1>3, <1>7, <2>1 DEF DurableGroup
<1>12. \A j \in GroupIds \ G : inflight'[j] = {} /\ done'[j] = {} /\ flush'[j] = "no" /\ flushing'[j] = {}
  BY <1>1, <1>7, Zenon DEF Device
<1>13. Sound(b)'
  BY <1>1, <1>4, <1>6, <1>9, <1>10, <1>11, <1>12, SoundStep, Zenon
<1> QED BY <1>5, <1>13, Zenon

(* So does a step that touches neither the disk nor the acknowledgements.  *)
LEMMA QuietSound ==
  ASSUME LogTypes, NEW b, Sound(b), Still, UNCHANGED <<durability, acked, kept, cache, media>>,
         policy'.next = policy.next
  PROVE  Sound(b)'
<1> USE DEF Sound
<1>1. UNCHANGED <<inflight, done, flush, flushing, failed, acked, kept, cache, media>>
  BY Zenon DEF durability
<1>2. Stored(media') /\ Stored(cache') /\ Overwrites(media') /\ \A p \in Slots : cache'[p] # Blank => Live(cache'[p].group)
  BY <1>1, Zenon DEF Device, Overwrites
<1>3. ASSUME NEW j \in G, Live(j) PROVE WritesOf(j)' /\ DurableGroup(j)'
  BY <1>1, <1>2, <1>3, SameGroup, Zenon DEF Device, Durable
<1>4. \A j \in GroupIds \ G : inflight'[j] = {} /\ done'[j] = {} /\ flush'[j] = "no" /\ flushing'[j] = {}
  BY <1>1, Zenon DEF Device
<1> QED BY <1>1, <1>2, <1>3, <1>4, SoundStep, Zenon

(* A multiple of a block starts a block.                                   *)
LEMMA Multiple == ASSUME NEW B \in Nat \ {0}, NEW q \in Nat PROVE (B * q) % B = 0 /\ (B * q) \div B = q
OBVIOUS

(* Adding slots to a position: the sum is a position no earlier than any   *)
(* one before.                                                             *)
LEMMA Ahead ==
  ASSUME NEW f \in Nat, NEW c \in Nat
  PROVE  /\ f + c \in Nat /\ f + c <= f + c /\ \A e \in Nat : e <= f => e <= f + c
         /\ \A p \in f .. (f + c - 1) : p \in Nat
OBVIOUS

(* The slots of the open batch never exceed a batch's capacity.            *)
LEMMA OpenRange ==
  ASSUME NEW o \in 0..MaxBatchSlots, NEW c \in Nat, c <= MaxBatchSlots
  PROVE  OpenAfter(o, c) \in 0..MaxBatchSlots
BY LogConstants DEF OpenAfter

(* A natural number within a bound lies in the interval up to it.          *)
LEMMA UpTo ==
  ASSUME NEW x \in Nat, NEW m \in Nat, x <= m
  PROVE  x \in 0..m
OBVIOUS

(* The records of a new group lie inside the slots it consumes and within  *)
(* the group limit.                                                        *)
LEMMA Span ==
  ASSUME NEW f \in Nat, NEW m, NEW n \in 1..m, NEW c \in Nat, n <= c, m \in Nat
  PROVE  f <= f + n - 1 /\ f + n - 1 < f + c /\ (f + n - 1) - f + 1 <= m
OBVIOUS

(* A sequence over a set is one over a greater set.                        *)
LEMMA SeqMono == ASSUME NEW S, NEW T, S \subseteq T, NEW s \in Seq(S) PROVE s \in Seq(T)
<1>1. Len(s) \in Nat /\ s \in [1..Len(s) -> S]
  OBVIOUS
<1>2. s \in [1..Len(s) -> T]
  BY <1>1, Zenon
<1> QED BY <1>1, <1>2

(* FinishBatch fills up the last block of a group, and no more.            *)
LEMMA FinishGeometry ==
  ASSUME LogTypes, NEW n \in Nat \ {0}, NEW f \in Nat, Aligned(f), NEW c, c = n + FinishBatch(dev.perLBA, n)
  PROVE  c \in Nat /\ n <= c /\ Aligned(f + c) /\ LBAOf(f + c - 1) = LBAOf(f + n - 1)
<1> DEFINE B == dev.perLBA
<1>0. B \in Nat \ {0} /\ f % B = 0 /\ c = n + FinishBatch(B, n)
  BY BlockTypes, Zenon DEF Aligned
<1> HIDE DEF B
<1> SUFFICES c \in Nat /\ n <= c /\ (f + c) % B = 0 /\ (f + c - 1) \div B = (f + n - 1) \div B
  BY Zenon DEF Aligned, LBAOf, B
<1> USE <1>0
<1> DEFINE q == (f \div B) + (n \div B)
<1>1. n = B * (n \div B) + (n % B) /\ n % B \in 0..(B - 1) /\ f = B * (f \div B) /\ q \in Nat /\ q + 1 \in Nat
  OBVIOUS
<1>2. CASE n % B = 0
  <2>1. c = n
    BY <1>2 DEF FinishBatch
  <2>2. f + c = B * q
    BY <1>1, <1>2, <2>1
  <2> HIDE DEF q
  <2>3. (B * q) % B = 0
    BY <1>1, Multiple, Zenon
  <2>4. (f + c) % B = 0
    BY <2>2, <2>3, Zenon
  <2> QED BY <2>1, <2>4
<1>3. CASE n % B # 0
  <2>1. c = n + (B - (n % B)) /\ c \in Nat /\ n <= c
    BY <1>1, <1>3 DEF FinishBatch
  <2>2. f + c = B * (q + 1)
    BY <1>1, <2>1
  <2>3. f + c - 1 = B * q + (B - 1) /\ f + n - 1 = B * q + ((n % B) - 1)
    BY <1>1, <2>1
  <2> HIDE DEF q
  <2>4. (B * (q + 1)) % B = 0
    BY <1>1, Multiple, Zenon
  <2>5. \A r \in 0..(B - 1) : (B * q + r) \div B = q
    BY <1>1
  <2>6. B - 1 \in 0..(B - 1) /\ (n % B) - 1 \in 0..(B - 1)
    BY <1>1, <1>3
  <2>7. (f + c) % B = 0
    BY <2>2, <2>4, Zenon
  <2>8. (f + c - 1) \div B = (f + n - 1) \div B
    BY <2>3, <2>5, <2>6, Zenon
  <2> QED BY <2>1, <2>7, <2>8, Zenon
<1> QED BY <1>2, <1>3, Zenon

(* The group an append adds.                                               *)
LEMMA EnqueueFacts ==
  ASSUME LogTypes, NEW n \in GroupSizes, EnqueueAtomicGroup(n), NEW k, k = Len(groups) + 1,
         NEW c, c = n + FinishBatch(dev.perLBA, n), Aligned(policy.next)
  PROVE  /\ k \in GroupIds /\ k \notin G /\ G' = G \cup {k} /\ G = 1..(k - 1) /\ n \in 1..MaxAtomicGroupSlots /\ c \in Nat
         /\ groups' \in Seq([epoch : Nat, first : Nat, last : Nat, consumed : Nat]) /\ Len(groups') = k
         /\ groups'[k].epoch = epoch /\ groups'[k].first = policy.next /\ groups'[k].last = policy.next + n - 1
         /\ groups'[k].consumed = c /\ \A j \in G : groups'[j] = groups[j]
         /\ n <= c /\ policy.next + c <= DiskSlots /\ c <= MaxBatchSlots
         /\ Aligned(policy.next + c) /\ LBAOf(policy.next + c - 1) = LBAOf(policy.next + n - 1)
<1> DEFINE R == [epoch : Nat, first : Nat, last : Nat, consumed : Nat]
           f == policy.next
<1>1. n \in 1..MaxAtomicGroupSlots /\ c <= MaxBatchSlots /\ k <= MaxGroups /\ f + c <= DiskSlots
  BY Zenon DEF EnqueueAtomicGroup, Accepts
<1>2. n \in Nat \ {0} /\ f \in Nat /\ epoch \in Nat /\ groups \in Seq(R) /\ Len(groups) \in Nat
  BY <1>1, LogConstants, SMTT(20) DEF LogTypes
<1>3. c \in Nat /\ n <= c /\ Aligned(f + c) /\ LBAOf(f + c - 1) = LBAOf(f + n - 1)
  <2> HIDE DEF f
  <2>1. Aligned(f)
    BY Zenon DEF f
  <2> QED BY <1>2, <2>1, FinishGeometry, Zenon
<1> DEFINE rec == [epoch |-> epoch, first |-> f, last |-> f + n - 1, consumed |-> c]
<1>4. groups' = Append(groups, rec)
  BY Zenon DEF EnqueueAtomicGroup
<1>5. rec \in R
  BY <1>2, <1>3
<1>6. rec.epoch = epoch /\ rec.first = f /\ rec.last = f + n - 1 /\ rec.consumed = c
  OBVIOUS
<1> HIDE DEF R, rec, f
<1>7. groups' \in Seq(R) /\ Len(groups') = k /\ groups'[k] = rec /\ \A j \in 1..Len(groups) : groups'[j] = groups[j]
  BY <1>2, <1>4, <1>5
<1>8. k \in Nat \ {0} /\ k \in GroupIds /\ k \notin G /\ G' = G \cup {k} /\ G = 1..(k - 1)
  BY <1>1, <1>2, <1>7, LogConstants DEF G, GroupIds
<1>9. groups'[k].epoch = epoch /\ groups'[k].first = f /\ groups'[k].last = f + n - 1 /\ groups'[k].consumed = c
  BY <1>6, <1>7, Zenon
<1>10. \A j \in G : groups'[j] = groups[j]
  BY <1>7, Zenon DEF G
<1> QED BY <1>1, <1>3, <1>7, <1>8, <1>9, <1>10, Zenon DEF f, R

(* An append preserves the types.                                          *)
LEMMA EnqueueTypes ==
  ASSUME LogTypes, NEW n \in GroupSizes, EnqueueAtomicGroup(n), NEW k, k = Len(groups) + 1,
         NEW c, c = n + FinishBatch(dev.perLBA, n), NEW f, f = policy.next, Aligned(policy.next)
  PROVE  LogTypes'
<1>1. /\ k \in GroupIds /\ G' = G \cup {k} /\ c \in Nat
      /\ groups' \in Seq([epoch : Nat, first : Nat, last : Nat, consumed : Nat]) /\ Len(groups') = k
      /\ f + c <= DiskSlots /\ c <= MaxBatchSlots
  BY EnqueueFacts, Zenon
<1>2. /\ UNCHANGED <<dev, done, flush, flushing, failed, acked, published, kept, cache, media, link, proj, epoch>>
      /\ inflight' = [inflight EXCEPT ![k] = {LBAOf(p) : p \in f .. (f + c - 1)}]
      /\ policy' = [policy EXCEPT !.next = f + c, !.open = OpenAfter(policy.open, c)]
  BY Zenon DEF EnqueueAtomicGroup, progress
<1>3. f \in Nat /\ policy.open \in 0..MaxBatchSlots /\ MaxBatchSlots \in Nat
  BY LogConstants DEF LogTypes
<1>4. inflight' \in [GroupIds -> SUBSET Nat]
  <2> DEFINE S == {LBAOf(p) : p \in f .. (f + c - 1)}
  <2> HIDE DEF S
  <2>1. \A p \in f .. (f + c - 1) : p \in Nat
    BY <1>1, <1>3, Ahead, Zenon
  <2>2. S \in SUBSET Nat
    BY <2>1, Blocks, Zenon DEF S
  <2> QED BY <1>2, <2>2, Zenon DEF LogTypes, S
<1>5. policy' \in [next : 0..DiskSlots, open : 0..MaxBatchSlots, frontier : Slots]
  <2>1. OpenAfter(policy.open, c) \in 0..MaxBatchSlots
    BY <1>1, <1>3, OpenRange, Zenon
  <2>2. f + c \in 0..DiskSlots
    <3>1. DiskSlots \in Nat
      BY LogConstants
    <3>2. f + c \in Nat
      BY <1>1, <1>3, Ahead, Zenon
    <3> QED BY <1>1, <3>1, <3>2, UpTo, Zenon
  <2>3. policy \in [next : 0..DiskSlots, open : 0..MaxBatchSlots, frontier : Slots]
    BY Zenon DEF LogTypes
  <2> QED BY <1>2, <2>1, <2>2, <2>3, Zenon
<1>6. failed' \subseteq G' /\ acked' \subseteq G' /\ published' \subseteq G' /\ kept' \subseteq G'
  BY <1>1, <1>2, Zenon DEF LogTypes
<1>7. link' \in Seq(G') /\ Len(link') <= LinkDepth
  <2>1. link \in Seq(G) /\ G \subseteq G' /\ Len(link) <= LinkDepth
    BY <1>1, Zenon DEF LogTypes
  <2> QED BY <1>2, <2>1, SeqMono, Zenon
<1>8. proj' \in [applied : SUBSET G', watermark : Nat, root : Nat]
  BY <1>1, <1>2, Zenon DEF LogTypes
<1>9. Len(groups') <= MaxGroups
  BY <1>1, LogConstants DEF GroupIds
<1> QED BY <1>1, <1>2, <1>4, <1>5, <1>6, <1>7, <1>8, <1>9, Zenon DEF LogTypes

(* It leaves the earlier groups where they are.                            *)
LEMMA OldFacts ==
  ASSUME UNCHANGED <<dev, epoch>>, NEW j, groups'[j] = groups[j]
  PROVE  /\ Positions(j)' = Positions(j) /\ EventSlots(j)' = EventSlots(j) /\ End(j)' = End(j) /\ Flushes' = Flushes
         /\ LBAs(j)' = LBAs(j) /\ Live(j)' = Live(j) /\ \A p : Content(j, p)' = Content(j, p)
         /\ \A p : LBAOf(p)' = LBAOf(p) /\ Aligned(p)' = Aligned(p)
BY Zenon DEF Positions, EventSlots, End, LBAs, Live, Content, LBAOf, Aligned, Flushes

(* An append preserves the invariant.                                      *)
LEMMA EnqueueSound ==
  ASSUME LogTypes, NEW b, Sound(b), NEW n \in GroupSizes, EnqueueAtomicGroup(n), NEW k, k = Len(groups) + 1,
         NEW c, c = n + FinishBatch(dev.perLBA, n), NEW f, f = policy.next
  PROVE  Sound(b)'
<1> USE DEF Sound
<1>1. Aligned(f)
  BY Zenon DEF Chain
<1>2. k \in GroupIds /\ k \notin G /\ G' = G \cup {k} /\ G = 1..(k - 1) /\ \A j \in G : groups'[j] = groups[j]
  BY <1>1, EnqueueFacts, Zenon
<1>20. /\ groups'[k].epoch = epoch /\ groups'[k].first = f /\ groups'[k].last = f + n - 1 /\ groups'[k].consumed = c
       /\ n \in 1..MaxAtomicGroupSlots /\ c \in Nat /\ n <= c /\ f + c <= DiskSlots
       /\ Aligned(f + c) /\ LBAOf(f + c - 1) = LBAOf(f + n - 1)
  BY <1>1, EnqueueFacts, Zenon
<1>3. UNCHANGED <<dev, done, flush, flushing, failed, acked, kept, cache, media, epoch>>
  BY Zenon DEF EnqueueAtomicGroup, progress
<1>5. n \in Nat \ {0} /\ f \in Nat /\ k \in Nat /\ epoch \in Nat /\ k \in 1..k
  <2>1. n \in Nat \ {0} /\ k \in Nat /\ k \in 1..k
    BY <1>2, <1>20, LogConstants DEF GroupIds
  <2>2. f \in Nat /\ epoch \in Nat
    BY LogConstants DEF LogTypes
  <2> QED BY <2>1, <2>2, Zenon
<1>7. /\ inflight'[k] = {LBAOf(p) : p \in f .. (f + c - 1)} /\ policy'.next = f + c
      /\ \A j \in GroupIds \ {k} : inflight'[j] = inflight[j]
  <2>1. policy'.next = f + c
    BY Zenon DEF EnqueueAtomicGroup, LogTypes
  <2>2. inflight' = [inflight EXCEPT ![k] = {LBAOf(p) : p \in f .. (f + c - 1)}]
    BY Zenon DEF EnqueueAtomicGroup
  <2>3. inflight \in [GroupIds -> SUBSET Nat]
    BY Zenon DEF LogTypes
  <2> QED BY <1>2, <2>1, <2>2, <2>3, Zenon
<1>8. ASSUME NEW j \in G
      PROVE  /\ Positions(j)' = Positions(j) /\ EventSlots(j)' = EventSlots(j) /\ End(j)' = End(j)
             /\ LBAs(j)' = LBAs(j) /\ Live(j)' = Live(j) /\ \A p : Content(j, p)' = Content(j, p)
  BY <1>2, <1>3, OldFacts, Zenon
<1>9. /\ End(k)' = f + c /\ Live(k)' /\ Positions(k)' = f .. (f + c - 1) /\ LBAs(k)' = {LBAOf(p) : p \in f .. (f + c - 1)}
      /\ Flushes' = Flushes /\ \A p : LBAOf(p)' = LBAOf(p) /\ Aligned(p)' = Aligned(p)
  BY <1>20, <1>3, Zenon DEF End, Live, Positions, LBAs, LBAOf, Aligned, Flushes
<1>10. Layout'
  <2>1. ASSUME NEW j \in G
        PROVE  /\ groups'[j].first <= groups'[j].last /\ groups'[j].last < End(j)' /\ End(j)' <= DiskSlots
               /\ groups'[j].last - groups'[j].first + 1 <= MaxAtomicGroupSlots /\ groups'[j].epoch <= epoch'
               /\ Aligned(groups'[j].first) /\ Aligned(End(j)') /\ LBAOf(End(j)' - 1) = LBAOf(groups'[j].last)
    BY <1>2, <1>3, <1>8, Zenon DEF Layout
  <2>2. /\ groups'[k].first <= groups'[k].last /\ groups'[k].last < End(k)' /\ End(k)' <= DiskSlots
        /\ groups'[k].last - groups'[k].first + 1 <= MaxAtomicGroupSlots /\ groups'[k].epoch <= epoch'
        /\ Aligned(groups'[k].first) /\ Aligned(End(k)') /\ LBAOf(End(k)' - 1) = LBAOf(groups'[k].last)
    <3>1. f <= f + n - 1 /\ f + n - 1 < f + c /\ (f + n - 1) - f + 1 <= MaxAtomicGroupSlots
      <4>1. MaxAtomicGroupSlots \in Nat
        BY LogConstants
      <4> QED BY <1>20, <1>5, <4>1, Span, Zenon
    <3>2. epoch <= epoch
      BY <1>5
    <3>3. /\ groups'[k].first <= groups'[k].last /\ groups'[k].last < End(k)' /\ End(k)' <= DiskSlots
          /\ groups'[k].last - groups'[k].first + 1 <= MaxAtomicGroupSlots /\ groups'[k].epoch <= epoch'
      BY <1>20, <1>3, <1>9, <3>1, <3>2, Zenon
    <3>4. Aligned(groups'[k].first) /\ Aligned(End(k)') /\ LBAOf(End(k)' - 1) = LBAOf(groups'[k].last)
      BY <1>1, <1>5, <1>20, <1>9
    <3> QED BY <3>3, <3>4, Zenon
  <2>3. ASSUME NEW i \in G', NEW j \in G', i < j
        PROVE  /\ groups'[i].epoch <= groups'[j].epoch
               /\ groups'[i].epoch = groups'[j].epoch => End(i)' <= groups'[j].first
    <3>1. i \in G
      BY <1>2, <1>5, <2>3
    <3>2. CASE j \in G
      BY <1>2, <1>8, <2>3, <3>1, <3>2, Zenon DEF Layout
    <3>3. CASE j = k
      <4>1. groups[i].epoch <= epoch /\ (groups[i].epoch = epoch => End(i) <= f)
        BY <3>1, Zenon DEF Layout, Chain, Live
      <4> QED BY <1>2, <1>20, <1>8, <3>1, <3>3, <4>1, Zenon
    <3> QED BY <1>2, <3>2, <3>3, Zenon
  <2>4. \A j \in G' :
          /\ groups'[j].first <= groups'[j].last /\ groups'[j].last < End(j)' /\ End(j)' <= DiskSlots
          /\ groups'[j].last - groups'[j].first + 1 <= MaxAtomicGroupSlots /\ groups'[j].epoch <= epoch'
          /\ Aligned(groups'[j].first) /\ Aligned(End(j)') /\ LBAOf(End(j)' - 1) = LBAOf(groups'[j].last)
    BY <1>2, <2>1, <2>2, Zenon
  <2>5. (\A j \in G : Aligned(groups[j].first) /\ Aligned(End(j)) /\ LBAOf(End(j) - 1) = LBAOf(groups[j].last))'
    BY <1>3, <2>4, Zenon DEF Aligned, LBAOf
  <2> QED BY <2>3, <2>4, <2>5, Zenon DEF Layout
<1>11. Chain(b)'
  <2>1. b \in 0..f /\ Aligned(b) /\ (f = b \/ \E j \in G : Live(j) /\ End(j) = f)
    BY Zenon DEF Chain
  <2>6. b \in Nat /\ b <= f
    BY <1>5, <2>1
  <2>7. f + c <= f + c /\ \A e \in Nat : e <= f => e <= f + c
    BY <1>20, <1>5, Ahead, Zenon
  <2>2. b \in 0..policy'.next /\ Aligned(b)' /\ Aligned(policy.next)'
    <3>1. Aligned(policy.next)'
      BY <1>20, <1>3, <1>7, Zenon DEF Aligned
    <3> QED BY <1>20, <1>5, <1>7, <1>9, <2>1, <3>1
  <2>3. ASSUME NEW j \in G', Live(j)'
        PROVE  /\ b <= groups'[j].first /\ End(j)' <= policy'.next
               /\ groups'[j].first = b \/ \E i \in 1..(j - 1) : Live(i)' /\ End(i)' = groups'[j].first
    <3>1. CASE j = k
      <4>1. b <= groups'[j].first /\ End(j)' <= policy'.next
        <5>1. b <= groups'[k].first /\ End(k)' <= policy'.next
          BY <1>20, <1>7, <1>9, <2>6, <2>7, Zenon
        <5> QED BY <3>1, <5>1, Zenon
      <4>2. groups'[j].first = b \/ \E i \in 1..(j - 1) : Live(i)' /\ End(i)' = groups'[j].first
        BY <1>2, <1>20, <1>8, <2>1, <3>1, Zenon
      <4> QED BY <4>1, <4>2, Zenon
    <3>2. CASE j \in G
      <4>1. /\ b <= groups[j].first /\ End(j) <= f
            /\ groups[j].first = b \/ \E i \in 1..(j - 1) : Live(i) /\ End(i) = groups[j].first
        BY <1>8, <2>3, <3>2, Zenon DEF Chain
      <4>2. 1..(j - 1) \subseteq G /\ End(j) \in Nat
        BY <1>2, <1>5, <3>2, GroupTypes
      <4>3. End(j)' <= policy'.next
        <5>1. End(j) <= f + c
          BY <2>7, <4>1, <4>2, Zenon
        <5>2. policy'.next = f + c /\ End(j)' = End(j)
          BY <1>7, <1>8, <3>2, Zenon
        <5> QED BY <5>1, <5>2, Zenon
      <4>4. groups'[j].first = b \/ \E i \in 1..(j - 1) : Live(i)' /\ End(i)' = groups'[j].first
        BY <1>2, <1>8, <3>2, <4>1, <4>2, Zenon
      <4> QED BY <1>2, <3>2, <4>1, <4>3, <4>4, Zenon
    <3> QED BY <1>2, <3>1, <3>2, Zenon
  <2>4. k \in G' /\ Live(k)' /\ End(k)' = policy'.next
    BY <1>2, <1>7, <1>9, Zenon
  <2> QED BY <2>2, <2>3, <2>4, Zenon DEF Chain
<1>12. Stored(media)' /\ Stored(cache)'
  <2>1. ASSUME NEW m, Stored(m), NEW p \in Slots
        PROVE  m[p] = Blank \/ \E g \in G : m[p].group = g /\ p \in Positions(g) /\ m[p] = Content(g, p)
    BY <2>1, Zenon DEF Stored
  <2>2. ASSUME NEW p \in Slots
        PROVE  /\ media[p] = Blank \/ \E g \in G' : media[p].group = g /\ p \in Positions(g)' /\ media[p] = Content(g, p)'
               /\ cache[p] = Blank \/ \E g \in G' : cache[p].group = g /\ p \in Positions(g)' /\ cache[p] = Content(g, p)'
    <3>1. Stored(media) /\ Stored(cache)
      BY Zenon DEF Device
    <3>2. /\ media[p] = Blank \/ \E g \in G : media[p].group = g /\ p \in Positions(g) /\ media[p] = Content(g, p)
          /\ cache[p] = Blank \/ \E g \in G : cache[p].group = g /\ p \in Positions(g) /\ cache[p] = Content(g, p)
      BY <2>1, <3>1, Zenon
    <3>3. \A g \in G : g \in G' /\ Positions(g)' = Positions(g) /\ Content(g, p)' = Content(g, p)
      BY <1>2, <1>8, Zenon
    <3> QED BY <3>2, <3>3, Zenon
  <2>3. ASSUME NEW p \in Slots
        PROVE  (\/ media[p] = Blank
                \/ media[p].group \in G /\ p \in Positions(media[p].group) /\ media[p] = Content(media[p].group, p))'
    BY <1>3, <2>2, Zenon DEF Positions, Content
  <2>4. ASSUME NEW p \in Slots
        PROVE  (\/ cache[p] = Blank
                \/ cache[p].group \in G /\ p \in Positions(cache[p].group) /\ cache[p] = Content(cache[p].group, p))'
    BY <1>3, <2>2, Zenon DEF Positions, Content
  <2>5. ASSUME NEW p \in Slots, NEW q \in Slots, LBAOf(p)' = LBAOf(q)'
        PROVE  media'[p].group = media'[q].group /\ cache'[p].group = cache'[q].group
    BY <1>3, <1>9, <2>5, Zenon DEF Stored, Device
  <2>6. media' \in [Slots -> Contents] /\ cache' \in [Slots -> Contents]
    BY <1>3, Zenon DEF LogTypes
  <2>7. Stored(media)'
    BY <2>3, <2>5, <2>6, Zenon DEF Stored
  <2>8. Stored(cache)'
    BY <2>4, <2>5, <2>6, Zenon DEF Stored
  <2> QED BY <2>7, <2>8, Zenon
<1>13. (\A p \in Slots : cache[p] # Blank => Live(cache[p].group))'
  <2>1. \A p \in Slots : cache[p] # Blank => cache[p].group \in G /\ Live(cache[p].group)
    BY Zenon DEF Device, Stored
  <2> QED BY <1>2, <1>3, <2>1, Zenon DEF Live
<1>14. (\A j \in GroupIds \ G : inflight[j] = {} /\ done[j] = {} /\ flush[j] = "no" /\ flushing[j] = {})'
  BY <1>2, <1>3, <1>7, Zenon DEF Device
<1>15. ASSUME NEW j \in G', Live(j)' PROVE WritesOf(j)' /\ DurableGroup(j)'
  <2>1. CASE j \in G
    <3>1. inflight'[j] = inflight[j] /\ Live(j)
      BY <1>2, <1>7, <1>8, <1>15, <2>1, GroupIn, Zenon
    <3>2. WritesOf(j) /\ DurableGroup(j)
      BY <2>1, <3>1, Zenon DEF Device, Durable
    <3>3. WritesOf(j)'
      BY <1>3, <1>8, <1>9, <2>1, <3>1, <3>2, Zenon DEF WritesOf
    <3>4. DurableGroup(j)'
      BY <1>3, <1>8, <1>9, <2>1, <3>1, <3>2, Zenon DEF DurableGroup
    <3> QED BY <3>3, <3>4, Zenon
  <2>2. CASE j = k
    <3>1. k \notin acked /\ k \notin failed /\ done[k] = {} /\ flush[k] = "no" /\ flushing[k] = {}
      BY <1>2, Zenon DEF LogTypes, Device
    <3>2. WritesOf(k)'
      BY <1>3, <1>7, <1>9, <3>1, Zenon DEF WritesOf
    <3>3. DurableGroup(k)'
      BY <1>3, <1>9, <3>1, Zenon DEF DurableGroup
    <3> QED BY <2>2, <3>2, <3>3, Zenon
  <2> QED BY <1>2, <2>1, <2>2, Zenon
<1>16. Device' /\ Durable'
  BY <1>12, <1>13, <1>14, <1>15, Zenon DEF Device, Durable
<1>17. Visited(media, b)'
  <2>1. Visited(media', b)
    BY <1>3, Zenon
  <2> QED BY <2>1, Zenon DEF Visited, Step, Skips, Shows, Placed, WholeGroup, Intact, Fits
<1>18. Kept(b)'
  <2>1. ASSUME NEW j \in kept'
        PROVE  /\ ~Live(j)' /\ groups'[j].last < b /\ Visited(media', groups'[j].first)
               /\ \A p \in EventSlots(j)' : media'[p] = Content(j, p)'
    <3>1. j \in kept /\ j \in G /\ groups'[j] = groups[j]
      BY <1>2, <1>3, Zenon DEF LogTypes
    <3>2. /\ ~Live(j) /\ groups[j].last < b /\ Visited(media, groups[j].first)
          /\ \A p \in EventSlots(j) : media[p] = Content(j, p)
      BY <3>1, Zenon DEF Kept
    <3>3. EventSlots(j)' = EventSlots(j) /\ Live(j)' = Live(j) /\ \A p : Content(j, p)' = Content(j, p)
      BY <1>8, <3>1, Zenon
    <3> QED BY <1>3, <3>1, <3>2, <3>3, Zenon
  <2>2. ASSUME NEW j \in G', ~Live(j)', NoHoleBefore(j)', j \notin kept'
        PROVE  j \notin acked' /\ \E p \in EventSlots(j)' : media'[p] # Content(j, p)'
    <3>1. j \in G /\ ~Live(j) /\ j \notin kept
      BY <1>2, <1>3, <1>8, <1>9, <2>2, Zenon
    <3>2. \A i \in 1..(j - 1) : i \in G
      BY <1>2, <1>5, <3>1
    <3>3. NoHoleBefore(j)
      BY <1>2, <1>3, <2>2, <3>1, <3>2, Zenon DEF NoHoleBefore
    <3> QED BY <1>3, <1>8, <3>1, <3>3, Zenon DEF Kept
  <2>3. (\A j \in kept : Visited(media, groups[j].first))'
    BY <1>3, <2>1, Zenon DEF Visited, Step, Skips, Shows, Placed, WholeGroup, Intact, Fits
  <2> QED BY <2>1, <2>2, <2>3, Zenon DEF Kept
<1> QED BY <1>10, <1>11, <1>16, <1>17, <1>18, Zenon DEF Sound

(* The invariant implies that the watermark is honest.                     *)
LEMMA ProjectedHonest == ASSUME LogTypes, NEW b, Sound(b), Projected(b) PROVE WatermarkHonest
<1> SUFFICES ASSUME proj.applied # {}, NEW k \in G, Live(k), k \in acked, groups[k].last <= proj.watermark
             PROVE  k \in proj.applied
  BY Zenon DEF WatermarkHonest, Projected, G
<1> USE DEF Sound
<1>1. groups[k].first \in Nat /\ groups[k].last \in Nat /\ groups[k].first <= groups[k].last /\ b <= groups[k].first /\ b \in Nat
  BY GroupTypes DEF Layout, Chain
<1>2. proj.watermark \in Nat /\ proj.applied \subseteq G
  BY Zenon DEF LogTypes
<1>3. ~(proj.watermark < b)
  BY <1>1, <1>2
<1>4. PICK g \in proj.applied : Live(g) /\ proj.watermark = groups[g].last
  BY <1>3, Zenon DEF Projected
<1>5. g \in G /\ g \in published /\ \A i \in 1..Len(link) : g < link[i]
  BY <1>2, <1>4, Zenon DEF Projected
<1>6. g \in Nat /\ k \in Nat /\ groups[g].last \in Nat /\ End(g) \in Nat /\ groups[g].last < End(g)
  BY <1>5, GroupTypes, Zenon DEF Layout
<1>7. g < k => End(g) <= groups[k].first
  BY <1>4, <1>5, Zenon DEF Layout, Live
<1>8. k <= g
  BY <1>1, <1>4, <1>6, <1>7
<1>9. k \notin failed
  BY Zenon DEF Durable, DurableGroup
<1>10. k = g \/ k \in 1..(g - 1)
  BY <1>6, <1>8, GroupTypes
<1>11. k \in published
  BY <1>5, <1>9, <1>10, Zenon DEF Projected
<1>12. ASSUME NEW i \in 1..Len(link), link[i] = k PROVE FALSE
  BY <1>5, <1>6, <1>8, <1>12
<1> QED BY <1>11, <1>12, Zenon DEF Projected

(* A step that leaves link and projection alone preserves the projection's *)
(* invariant.                                                              *)
LEMMA ProjectedStep ==
  ASSUME LogTypes, NEW b, Projected(b), UNCHANGED <<dev, epoch, published, link, proj>>,
         \A j \in G : groups'[j] = groups[j], acked \subseteq acked', failed \subseteq failed',
         policy.frontier <= policy'.frontier, policy'.frontier \in Nat
  PROVE  Projected(b)'
<1>1. \A j \in G : Live(j)' = Live(j)
  BY Zenon DEF Live
<1>2. published \subseteq G /\ proj.applied \subseteq G /\ proj.root \in Nat /\ policy.frontier \in Nat
  BY LogConstants DEF LogTypes, Slots
<1>3. \A k \in published : 1..(k - 1) \subseteq G
  <2>1. Len(groups) \in Nat
    BY DEF LogTypes
  <2> QED BY <1>2, <2>1 DEF G
<1>4. proj'.root <= policy'.frontier
  BY <1>2 DEF Projected
<1>5. \A k \in published' : k \in acked' /\ Live(k)'
  BY <1>1, <1>2, Zenon DEF Projected
<1>6. \A k \in published' : \A j \in 1..(k - 1) : Live(j)' => j \in published' \cup failed'
  BY <1>1, <1>3, Zenon DEF Projected
<1>7. \/ proj'.applied = {}
      \/ proj'.watermark < b /\ \A k \in proj'.applied : ~Live(k)'
      \/ \E g \in proj'.applied : Live(g)' /\ proj'.watermark = groups'[g].last
  BY <1>1, <1>2, Zenon DEF Projected
<1>8. \A k \in proj'.applied : Live(k)' => k \in published' /\ \A i \in 1..Len(link') : k < link'[i]
  BY <1>1, <1>2, Zenon DEF Projected
<1>9. /\ \A i \in 1..Len(link') : link'[i] \in published' \ proj'.applied
      /\ \A i, j \in 1..Len(link') : i < j => link'[i] < link'[j]
      /\ \A k \in published' : k \in proj'.applied \/ \E i \in 1..Len(link') : link'[i] = k
  BY Zenon DEF Projected
<1> QED BY <1>4, <1>5, <1>6, <1>7, <1>8, <1>9, Zenon DEF Projected

(* A publication preserves it: groups enter the link in log order.         *)
LEMMA PublishProjected ==
  ASSUME LogTypes, NEW b, Sound(b), Projected(b), NEW k \in G, PublishCommittedGroup(k)
  PROVE  Projected(b)'
<1> USE DEF Sound
<1>1. /\ Still /\ UNCHANGED <<failed, acked, proj>> /\ link' = Append(link, k) /\ published' = published \cup {k}
      /\ policy' = [policy EXCEPT !.frontier = FrontierAfter(k)]
  BY Zenon DEF PublishCommittedGroup, Still, durability
<1>2. /\ Live(k) /\ k \in acked /\ k \notin published
      /\ \A j \in 1..(k - 1) : Live(j) => j \in published \cup failed
  BY Zenon DEF PublishCommittedGroup
<1>3. k \notin failed
  BY <1>2, Zenon DEF Durable, DurableGroup
<1>4. \A j : Live(j)' = Live(j)
  BY <1>1, StillFacts, Zenon
<1>5. ASSUME NEW g \in published PROVE g < k
  <2>1. g \in G /\ g \in Nat /\ k \in Nat \ {0} /\ g # k
    BY <1>2, GroupTypes DEF LogTypes
  <2>2. k \in 1..(g - 1) => k \in published \cup failed
    BY <1>2, Zenon DEF Projected
  <2> QED BY <1>2, <1>3, <2>1, <2>2, SMTT(20)
<1>6. proj'.root <= policy'.frontier
  <2>1. policy'.frontier = FrontierAfter(k) /\ FrontierAfter(k) \in Nat /\ policy.frontier \in Nat /\ proj.root \in Nat
    <3>1. policy \in [next : 0..DiskSlots, open : 0..MaxBatchSlots, frontier : Slots] /\ proj.root \in Nat
      BY Zenon DEF LogTypes
    <3>2. FrontierAfter(k) \in Nat /\ policy.frontier \in Nat
      BY <3>1, FrontierTypes, LogConstants DEF Slots
    <3>3. policy'.frontier = FrontierAfter(k)
      BY <1>1, <3>1, Zenon
    <3> QED BY <3>1, <3>2, <3>3, Zenon
  <2>2. policy.frontier <= FrontierAfter(k)
    BY <2>1, GroupTypes DEF FrontierAfter
  <2> QED BY <1>1, <2>1, <2>2 DEF Projected
<1> DEFINE n == Len(link)
<1>7. /\ n \in Nat /\ Len(link') = n + 1 /\ link'[n + 1] = k /\ \A i \in 1..n : link'[i] = link[i]
      /\ 1..(n + 1) = (1..n) \cup {n + 1} /\ n + 1 \notin 1..n
  <2> HIDE DEF G
  <2>1. link \in Seq(G)
    BY Zenon DEF LogTypes
  <2> QED BY <1>1, <2>1
<1> HIDE DEF n
<1>8. k \notin proj.applied
  BY <1>2, Zenon DEF Projected
<1>9. /\ \A i \in 1..Len(link') : link'[i] \in published' \ proj'.applied
      /\ \A x \in published' : x \in proj'.applied \/ \E i \in 1..Len(link') : link'[i] = x
  BY <1>1, <1>7, <1>8 DEF Projected, n
<1>10. \A i, j \in 1..Len(link') : i < j => link'[i] < link'[j]
  <2> SUFFICES ASSUME NEW i \in 1..(n + 1), NEW j \in 1..(n + 1), i < j PROVE link'[i] < link'[j]
    BY <1>7, Zenon
  <2>1. i \in 1..n
    BY <1>7
  <2>2. CASE j = n + 1
    <3>1. link[i] \in published
      BY <2>1, Zenon DEF Projected, n
    <3> QED BY <1>5, <1>7, <2>1, <2>2, <3>1, Zenon
  <2>3. CASE j \in 1..n
    BY <1>7, <2>1, <2>3, Zenon DEF Projected, n
  <2> QED BY <1>7, <2>2, <2>3, Zenon
<1>11. \A x \in proj'.applied : Live(x)' => x \in published' /\ \A i \in 1..Len(link') : x < link'[i]
  <2> SUFFICES ASSUME NEW x \in proj.applied, Live(x) PROVE x \in published' /\ \A i \in 1..Len(link') : x < link'[i]
    BY <1>1, <1>4, Zenon
  <2>1. x \in published /\ \A i \in 1..n : x < link[i]
    BY Zenon DEF Projected, n
  <2> QED BY <1>1, <1>5, <1>7, <2>1, Zenon
<1>12. /\ \A x \in published' : x \in acked' /\ Live(x)'
       /\ \A x \in published' : \A j \in 1..(x - 1) : Live(j)' => j \in published' \cup failed'
  BY <1>1, <1>2, <1>4, Zenon DEF Projected
<1>13. \/ proj'.applied = {}
       \/ proj'.watermark < b /\ \A x \in proj'.applied : ~Live(x)'
       \/ \E g \in proj'.applied : Live(g)' /\ proj'.watermark = groups'[g].last
  BY <1>1, <1>4, Zenon DEF Projected, Still
<1> QED BY <1>6, <1>9, <1>10, <1>11, <1>12, <1>13, Zenon DEF Projected

(* Applying the oldest group of the link preserves it.                     *)
LEMMA ApplyProjected ==
  ASSUME LogTypes, NEW b, Projected(b), ApplyGroup
  PROVE  Projected(b)'
<1>1. /\ Still /\ UNCHANGED <<policy, published, failed, acked>> /\ link # <<>> /\ link' = Tail(link)
      /\ proj' = [proj EXCEPT !.applied = proj.applied \cup {Head(link)}, !.watermark = groups[Head(link)].last]
  BY Zenon DEF ApplyGroup, Still, durability, progress
<1>2. \A j : Live(j)' = Live(j)
  BY <1>1, StillFacts, Zenon
<1> DEFINE n == Len(link)
           h == link[1]
<1>3. proj'.applied = proj.applied \cup {h} /\ proj'.watermark = groups[h].last /\ proj'.root = proj.root
  <2>1. Head(link) = h
    BY DEF LogTypes
  <2> HIDE DEF h
  <2> QED BY <1>1, <2>1, Zenon DEF LogTypes
<1>4. n \in Nat \ {0} /\ Len(link') = n - 1 /\ \A i \in 1..(n - 1) : link'[i] = link[i + 1]
  <2> HIDE DEF G
  <2>1. link \in Seq(G)
    BY Zenon DEF LogTypes
  <2> QED BY <1>1, <2>1
<1>5. 1 \in 1..n /\ \A i \in 1..(n - 1) : i + 1 \in 1..n /\ 1 < i + 1
  BY <1>4
<1>6. h \in published /\ Live(h) /\ h \notin proj.applied /\ \A i \in 1..(n - 1) : h < link[i + 1] /\ link[i + 1] \in published \ proj.applied
  BY <1>5, Zenon DEF Projected
<1>7. \A g \in published : g \in Nat
  BY GroupTypes, Zenon DEF LogTypes
<1>8. \A i \in 1..Len(link') : link'[i] \in published' \ proj'.applied
  BY <1>1, <1>3, <1>4, <1>6, <1>7
<1>9. \A i, j \in 1..Len(link') : i < j => link'[i] < link'[j]
  <2> SUFFICES ASSUME NEW i \in 1..(n - 1), NEW j \in 1..(n - 1), i < j PROVE link'[i] < link'[j]
    BY <1>4, Zenon
  <2>1. i + 1 \in 1..n /\ j + 1 \in 1..n /\ i + 1 < j + 1
    BY <1>4
  <2>2. link[i + 1] < link[j + 1]
    BY <2>1, Zenon DEF Projected
  <2> QED BY <1>4, <2>2, Zenon
<1>10. \A x \in published' : x \in proj'.applied \/ \E i \in 1..Len(link') : link'[i] = x
  <2> SUFFICES ASSUME NEW x \in published, x \notin proj.applied, x # h PROVE \E i \in 1..(n - 1) : link'[i] = x
    BY <1>1, <1>3, <1>4, Zenon
  <2>1. PICK i \in 1..n : link[i] = x
    BY Zenon DEF Projected
  <2>2. i # 1
    BY <2>1, Zenon
  <2>3. i - 1 \in 1..(n - 1) /\ (i - 1) + 1 = i
    BY <1>4, <2>2
  <2>4. link'[i - 1] = x
    BY <1>4, <2>1, <2>3, Zenon
  <2> QED BY <2>3, <2>4, Zenon
<1>11. \A x \in proj'.applied : Live(x)' => x \in published' /\ \A i \in 1..Len(link') : x < link'[i]
  <2> SUFFICES ASSUME NEW x \in proj.applied \cup {h}, Live(x) PROVE x \in published /\ \A i \in 1..(n - 1) : x < link[i + 1]
    BY <1>1, <1>2, <1>3, <1>4, Zenon
  <2> QED BY <1>5, <1>6, Zenon DEF Projected
<1>12. \E g \in proj'.applied : Live(g)' /\ proj'.watermark = groups'[g].last
  <2>1. PICK x : x = h
    OBVIOUS
  <2> HIDE DEF h
  <2>2. Live(x)'
    BY <1>2, <1>6, <2>1, Zenon
  <2>3. groups'[x].last = groups[x].last
    BY <1>1, Zenon DEF Still
  <2>4. x \in proj'.applied /\ proj'.watermark = groups'[x].last
    BY <1>3, <2>1, <2>3, Zenon
  <2> QED BY <2>2, <2>4, Zenon
<1>13. /\ \A x \in published' : x \in acked' /\ Live(x)'
       /\ \A x \in published' : \A j \in 1..(x - 1) : Live(j)' => j \in published' \cup failed'
       /\ proj'.root <= policy'.frontier
  BY <1>1, <1>2, <1>3, Zenon DEF Projected
<1> QED BY <1>8, <1>9, <1>10, <1>11, <1>12, <1>13, Zenon DEF Projected

(* A new projection root preserves it.                                     *)
LEMMA AdvanceProjected ==
  ASSUME LogTypes, NEW b, Projected(b), AdvanceProjection
  PROVE  Projected(b)'
<1>1. /\ Still /\ UNCHANGED <<policy, published, failed, acked, link>> /\ proj.watermark <= policy.frontier
      /\ proj' = [proj EXCEPT !.root = proj.watermark]
  BY Zenon DEF AdvanceProjection, AcceptAdvance, Still, durability, progress
<1>2. \A j : Live(j)' = Live(j)
  BY <1>1, StillFacts, Zenon
<1>3. proj'.applied = proj.applied /\ proj'.watermark = proj.watermark /\ proj'.root <= policy'.frontier
  BY <1>1, Zenon DEF LogTypes
<1>4. \/ proj'.applied = {}
      \/ proj'.watermark < b /\ \A x \in proj'.applied : ~Live(x)'
      \/ \E g \in proj'.applied : Live(g)' /\ proj'.watermark = groups'[g].last
  BY <1>1, <1>2, <1>3, Zenon DEF Projected, Still
<1>5. /\ \A x \in published' : x \in acked' /\ Live(x)'
      /\ \A x \in published' : \A j \in 1..(x - 1) : Live(j)' => j \in published' \cup failed'
      /\ \A x \in proj'.applied : Live(x)' => x \in published' /\ \A i \in 1..Len(link') : x < link'[i]
  BY <1>1, <1>2, <1>3, Zenon DEF Projected
<1>6. /\ \A i \in 1..Len(link') : link'[i] \in published' \ proj'.applied
      /\ \A i, j \in 1..Len(link') : i < j => link'[i] < link'[j]
      /\ \A k \in published' : k \in proj'.applied \/ \E i \in 1..Len(link') : link'[i] = k
  BY <1>1, <1>3, Zenon DEF Projected
<1> QED BY <1>3, <1>4, <1>5, <1>6, Zenon DEF Projected
=============================================================================
