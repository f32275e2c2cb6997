------------------------- MODULE PointerScan_proofs -------------------------
(***************************************************************************)
(* The chains of the pointer scanner are right, all of them are found when *)
(* no limit was met, and those of the table resolve.  The invariant says   *)
(* this of the levels so far; a level is shown to extend the chains of the *)
(* level before by every edge into their heads.                            *)
(***************************************************************************)
EXTENDS PointerScan, Sorting_proofs, SequenceTheorems

---------------------------------------------------------------------------
(* Addresses *)

\* Where a slot is under a layout.
Place(layout, s) == layout[s[1]] + s[2]

LEMMA Slots ==
  \A s : s \in Slot <=> /\ s = <<s[1], s[2]>>
                        /\ s[1] \in Names /\ s[2] \in 0..Mappings[s[1]].size - 1
<1>1. ASSUME NEW s, s \in Slot
      PROVE  s = <<s[1], s[2]>> /\ s[1] \in Names /\ s[2] \in 0..Mappings[s[1]].size - 1
  <2>1. PICK n \in Names : s \in {n} \X (0..Mappings[n].size - 1)
    BY <1>1 DEF Slot
  <2>2. s = <<s[1], s[2]>> /\ s[1] = n /\ s[2] \in 0..Mappings[n].size - 1
    BY <2>1
  <2>3. QED
    BY <2>2
<1>2. ASSUME NEW s, s = <<s[1], s[2]>>, s[1] \in Names, s[2] \in 0..Mappings[s[1]].size - 1
      PROVE  s \in Slot
  <2>1. <<s[1], s[2]>> \in {s[1]} \X (0..Mappings[s[1]].size - 1)
    BY <1>2
  <2>2. QED
    BY <1>2, <2>1 DEF Slot
<1>3. QED
  BY <1>1, <1>2

\* No two mappings overlap: a place belongs to one slot.
LEMMA PlacesDiffer ==
  ASSUME NEW l \in Layouts
  PROVE  /\ \A n \in Names : l[n] \in Nat \ {0} /\ Mappings[n].size \in Nat
         /\ \A s \in Slot : Place(l, s) \in Nat \ {0}
         /\ \A n, m \in Names, a \in Int :
              /\ l[n] <= a /\ a < l[n] + Mappings[n].size
              /\ l[m] <= a /\ a < l[m] + Mappings[m].size
              => n = m
<1>1. \A n \in Names : l[n] \in Nat \ {0} /\ Mappings[n].size \in Nat
  BY PointerScanAssumption
<1>2. \A s \in Slot : Place(l, s) \in Nat \ {0}
  <2>1. SUFFICES ASSUME NEW s \in Slot PROVE Place(l, s) \in Nat \ {0}
    OBVIOUS
  <2>2. s[1] \in Names /\ s[2] \in 0..Mappings[s[1]].size - 1
    BY Slots
  <2>3. l[s[1]] \in Nat \ {0} /\ s[2] \in Nat
    BY <1>1, <2>2
  <2>4. QED
    BY <2>3 DEF Place
<1>3. ASSUME NEW n \in Names, NEW m \in Names, NEW a \in Int, n # m,
             l[n] <= a, a < l[n] + Mappings[n].size,
             l[m] <= a, a < l[m] + Mappings[m].size
      PROVE  FALSE
  <2>1. l[m] + Mappings[m].size <= l[n] \/ l[n] + Mappings[n].size <= l[m]
    BY <1>3, PointerScanAssumption
  <2>2. QED
    BY <1>1, <1>3, <2>1
<1>4. QED
  BY <1>1, <1>2, <1>3

\* region_at finds the mapping an address is in.
LEMMA Located ==
  ASSUME base \in Layouts
  PROVE  /\ \A s \in Slot : /\ Address(s) = Place(base, s) /\ Address(s) \in Nat \ {0}
                            /\ Inside(Address(s), s[1]) /\ SlotAt(Address(s)) = s
         /\ \A a \in Int, n \in Names :
              Inside(a, n) => SlotAt(a) \in Slot /\ Address(SlotAt(a)) = a
<1>1. /\ \A n \in Names : base[n] \in Nat \ {0} /\ Mappings[n].size \in Nat
      /\ \A s \in Slot : Place(base, s) \in Nat \ {0}
      /\ \A n, m \in Names, a \in Int : Inside(a, n) /\ Inside(a, m) => n = m
  BY PlacesDiffer DEF Inside
<1>2. ASSUME NEW a \in Int, NEW n \in Names, Inside(a, n)
      PROVE  SlotAt(a) = <<n, a - base[n]>>
  <2>1. (CHOOSE m \in Names : Inside(a, m)) = n
    BY <1>1, <1>2
  <2>2. QED
    BY <2>1 DEF SlotAt
<1>3. ASSUME NEW s \in Slot
      PROVE  /\ Address(s) = Place(base, s) /\ Address(s) \in Nat \ {0}
             /\ Inside(Address(s), s[1]) /\ SlotAt(Address(s)) = s
  <2>1. s = <<s[1], s[2]>> /\ s[1] \in Names /\ s[2] \in 0..Mappings[s[1]].size - 1
    BY Slots
  <2>2. Address(s) = Place(base, s) /\ Address(s) = base[s[1]] + s[2]
    BY DEF Address, Place
  <2>3. Inside(Address(s), s[1]) /\ Address(s) - base[s[1]] = s[2] /\ Address(s) \in Int
    BY <1>1, <2>1, <2>2 DEF Inside
  <2>4. SlotAt(Address(s)) = <<s[1], s[2]>>
    BY <1>2, <2>1, <2>3
  <2>5. QED
    BY <1>1, <2>1, <2>2, <2>3, <2>4
<1>4. ASSUME NEW a \in Int, NEW n \in Names, Inside(a, n)
      PROVE  SlotAt(a) \in Slot /\ Address(SlotAt(a)) = a
  <2>1. SlotAt(a) = <<n, a - base[n]>>
    BY <1>2, <1>4
  <2>2. base[n] \in Nat /\ Mappings[n].size \in Nat /\ base[n] <= a /\ a < base[n] + Mappings[n].size
    BY <1>1, <1>4 DEF Inside
  <2>3. SlotAt(a)[1] = n /\ SlotAt(a)[2] = a - base[n]
    BY <2>1
  <2>4. a - base[n] \in 0..Mappings[n].size - 1 /\ base[n] + (a - base[n]) = a
    BY <2>2
  <2>5. SlotAt(a) \in Slot
    BY <2>1, <2>3, <2>4, Slots
  <2>6. QED
    BY <2>3, <2>4, <2>5 DEF Address
<1>5. QED
  BY <1>3, <1>4

\* A source is the address of a readable slot, above the offsets of a scan.
LEMMA SourceFacts ==
  ASSUME base \in Layouts, memory \in Memories, NEW code, NEW a \in Sources(code)
  PROVE  /\ a \in Nat \ {0} /\ SlotAt(a) \in Slot /\ Address(SlotAt(a)) = a
         /\ "r" \in Mappings[SlotAt(a)[1]].perms /\ Readable(a)
         /\ Pointer(a) \in Nat
<1>1. PICK s \in Slot : a = Address(s) /\ IsSource(s[1], code)
  BY DEF Sources
<1>2. a \in Nat \ {0} /\ SlotAt(a) = s /\ Inside(a, s[1])
  BY <1>1, Located
<1>3. "r" \in Mappings[s[1]].perms
  BY <1>1 DEF IsSource
<1>4. s[1] \in Names
  BY Slots
<1>5. memory[s] \in Slot \cup {Null}
  BY PointerScanAssumption
<1>6. Pointer(a) \in Nat
  <2>1. CASE memory[s] = Null
    BY <1>2, <2>1 DEF Pointer
  <2>2. CASE memory[s] \in Slot
    <3>1. Address(memory[s]) \in Nat
      BY <2>2, Located
    <3>2. memory[s] # Null
      BY <2>2, PointerScanAssumption
    <3>3. QED
      BY <1>2, <3>1, <3>2 DEF Pointer
  <2>3. QED
    BY <1>5, <2>1, <2>2
<1>7. Readable(a)
  BY <1>2, <1>3, <1>4 DEF Readable
<1>8. QED
  BY <1>1, <1>2, <1>3, <1>6, <1>7

---------------------------------------------------------------------------
(* Everything is finite *)

LEMMA FiniteImage ==
  ASSUME NEW f, IsFiniteSet(DOMAIN f)
  PROVE  /\ IsFiniteSet({f[x] : x \in DOMAIN f})
         /\ Cardinality({f[x] : x \in DOMAIN f}) <= Cardinality(DOMAIN f)
<1> DEFINE D == DOMAIN f
           g == [x \in D |-> f[x]]
           T == {f[x] : x \in D}
<1>1. g \in Surjection(D, T)
  <2>1. g \in [D -> T] /\ \A t \in T : \E x \in D : g[x] = t
    OBVIOUS
  <2> HIDE DEF g, T, D
  <2>2. QED
    BY <2>1 DEF Surjection
<1> HIDE DEF g
<1>2. QED
  BY <1>1, FS_Surjection

LEMMA FiniteSlots == IsFiniteSet(Slot)
<1> DEFINE f == [n \in Names |-> {n} \X (0..Mappings[n].size - 1)]
<1>1. ASSUME NEW n \in Names
      PROVE  IsFiniteSet({n} \X (0..Mappings[n].size - 1))
  <2> DEFINE last == Mappings[n].size - 1
  <2>1. last \in Int
    <3>1. Mappings[n].size \in Nat
      BY PointerScanAssumption
    <3>2. QED
      BY <3>1
  <2>2. IsFiniteSet(0..last)
    <3> HIDE DEF last
    <3>1. QED
      BY <2>1, FS_Interval
  <2>3. IsFiniteSet({n})
    BY FS_Singleton
  <2>4. QED
    BY <2>2, <2>3, FS_Product
<1>2. IsFiniteSet({f[n] : n \in DOMAIN f})
  <2>1. IsFiniteSet(DOMAIN f)
    BY PointerScanAssumption
  <2> HIDE DEF f
  <2>2. QED
    BY <2>1, FiniteImage
<1>3. Slot = UNION {f[n] : n \in DOMAIN f}
  BY DEF Slot
<1>4. \A T \in {f[n] : n \in DOMAIN f} : IsFiniteSet(T)
  BY <1>1
<1> HIDE DEF f
<1>5. QED
  BY <1>2, <1>3, <1>4, FS_UNION

LEMMA FiniteSources ==
  ASSUME NEW code
  PROVE  IsFiniteSet(Sources(code))
<1> DEFINE D == {t \in Slot : IsSource(t[1], code)}
           f == [s \in D |-> Address(s)]
<1>1. IsFiniteSet(DOMAIN f)
  BY FiniteSlots, FS_Subset
<1>2. Sources(code) = {f[s] : s \in DOMAIN f}
  BY DEF Sources
<1> HIDE DEF f
<1>3. QED
  BY <1>1, <1>2, FiniteImage

EdgeType == [source : Nat, target : Nat, offset : Nat]

LEMMA MatchFacts ==
  ASSUME base \in Layouts, memory \in Memories, NEW opts \in Scans, NEW current
  PROVE  /\ IsFiniteSet(Matches(opts, current))
         /\ Matches(opts, current) \subseteq EdgeType
         /\ \A e \in Matches(opts, current) :
              /\ e.source \in Sources(opts.code) /\ e.offset \in Window(opts)
              /\ e.target = Pointer(e.source) + e.offset /\ e.target \in current
         /\ \A s \in Sources(opts.code), o \in Window(opts) :
              Pointer(s) # 0 /\ Pointer(s) + o \in current => Edge(s, o) \in Matches(opts, current)
<1> DEFINE D == Sources(opts.code) \X Window(opts)
           f == [p \in D |-> Edge(p[1], p[2])]
<1>1. opts.maxOffset \in Nat /\ Window(opts) \subseteq Nat /\ IsFiniteSet(Window(opts))
  <2>1. opts.maxOffset \in Nat
    BY PointerScanAssumption
  <2>2. IsFiniteSet(0..opts.maxOffset)
    BY <2>1, FS_Interval
  <2>3. Window(opts) \in SUBSET (0..opts.maxOffset)
    BY DEF Window
  <2>4. QED
    BY <2>1, <2>2, <2>3, FS_Subset
<1>2. IsFiniteSet(DOMAIN f)
  <2>1. IsFiniteSet(Sources(opts.code))
    BY FiniteSources
  <2>2. QED
    BY <1>1, <2>1, FS_Product
<1>3. ASSUME NEW e \in Matches(opts, current)
      PROVE  /\ e \in {f[p] : p \in DOMAIN f} /\ e \in EdgeType
             /\ e.source \in Sources(opts.code) /\ e.offset \in Window(opts)
             /\ e.target = Pointer(e.source) + e.offset /\ e.target \in current
  <2>1. PICK s \in Sources(opts.code), o \in Window(opts) : e = Edge(s, o)
    BY DEF Matches
  <2>2. e.target \in current
    BY DEF Matches
  <2>3. s \in Nat /\ o \in Nat /\ Pointer(s) \in Nat
    BY <1>1, SourceFacts
  <2>4. e.source = s /\ e.offset = o /\ e.target = Pointer(s) + o /\ e \in EdgeType
    BY <2>1, <2>3 DEF Edge, EdgeType
  <2>5. e = f[<<s, o>>] /\ <<s, o>> \in DOMAIN f
    BY <2>1
  <2>6. QED
    BY <2>2, <2>4, <2>5
<1>4. IsFiniteSet(Matches(opts, current))
  <2> HIDE DEF f
  <2>1. IsFiniteSet({f[p] : p \in DOMAIN f})
    BY <1>2, FiniteImage
  <2>2. Matches(opts, current) \in SUBSET {f[p] : p \in DOMAIN f}
    BY <1>3
  <2>3. QED
    BY <2>1, <2>2, FS_Subset
<1>5. ASSUME NEW s \in Sources(opts.code), NEW o \in Window(opts),
             Pointer(s) # 0, Pointer(s) + o \in current
      PROVE  Edge(s, o) \in Matches(opts, current)
  BY <1>5 DEF Matches, Edge
<1>6. QED
  BY <1>3, <1>4, <1>5

---------------------------------------------------------------------------
(* Paths through the memory of the target *)

\* A chain before its length and its root are looked at.
Path(nodes, opts, t) ==
  /\ nodes \in Seq(Nat) /\ Len(nodes) >= 1
  /\ nodes[Len(nodes)] = Address(t)
  /\ \A i, j \in 1..Len(nodes) : nodes[i] = nodes[j] => i = j
  /\ \A i \in 1..Len(nodes) - 1 :
       nodes[i] \in Sources(opts.code) /\ nodes[i + 1] - Pointer(nodes[i]) \in Window(opts)

Measured(c) ==
  /\ Len(c.offsets) = Len(c.nodes) - 1
  /\ \A k \in 1..Len(c.offsets) : Pointer(c.nodes[k]) + c.offsets[k] = c.nodes[k + 1]

Leads(c, opts, t) == c \in Chain /\ Path(c.nodes, opts, t) /\ Measured(c)

\* The end of a path is one.
LEMMA PathEnd ==
  ASSUME NEW p, NEW opts, NEW t, Path(p, opts, t), NEW k \in 1..Len(p)
  PROVE  /\ Path(SubSeq(p, k, Len(p)), opts, t)
         /\ Len(SubSeq(p, k, Len(p))) = Len(p) - k + 1
         /\ \A i \in 1..Len(p) - k + 1 : SubSeq(p, k, Len(p))[i] = p[k + i - 1]
<1> DEFINE n == Len(p)
           q == SubSeq(p, k, n)
<1>1. p \in Seq(Nat) /\ n \in Nat /\ n >= 1
  BY DEF Path
<1>2. \A i \in k..n : p[i] \in Nat
  BY <1>1
<1>3. q \in Seq(Nat) /\ Len(q) = n - k + 1
  BY <1>1, <1>2, SubSeqProperties
<1>4. \A i \in 1..n - k + 1 : q[i] = p[k + i - 1]
  <2>1. k \in Int /\ \A i \in 1..n - k + 1 : i \in 1..(n + 1 - k)
    BY <1>1
  <2> HIDE DEF n
  <2>2. QED
    BY <1>1, <1>2, <2>1, SubSeqProperties
<1> HIDE DEF q
<1>5. q[Len(q)] = Address(t)
  <2>1. p[n] = Address(t)
    BY DEF Path
  <2>2. Len(q) \in 1..n - k + 1 /\ k + Len(q) - 1 = n
    BY <1>1, <1>3
  <2>3. q[Len(q)] = p[k + Len(q) - 1]
    BY <1>4, <2>2
  <2>4. QED
    BY <2>1, <2>2, <2>3
<1>6. ASSUME NEW i \in 1..Len(q), NEW j \in 1..Len(q), q[i] = q[j]
      PROVE  i = j
  <2>1. k + i - 1 \in 1..n /\ k + j - 1 \in 1..n /\ p[k + i - 1] = p[k + j - 1]
    <3>1. i \in 1..n - k + 1 /\ j \in 1..n - k + 1
      BY <1>3
    <3>2. k + i - 1 \in 1..n /\ k + j - 1 \in 1..n
      BY <1>1, <3>1
    <3>3. q[i] = p[k + i - 1] /\ q[j] = p[k + j - 1]
      BY <1>4, <3>1
    <3>4. QED
      BY <1>6, <3>2, <3>3
  <2>2. k + i - 1 = k + j - 1
    BY <2>1 DEF Path
  <2>3. QED
    BY <2>2
<1>7. ASSUME NEW i \in 1..Len(q) - 1
      PROVE  q[i] \in Sources(opts.code) /\ q[i + 1] - Pointer(q[i]) \in Window(opts)
  <2>1. k + i - 1 \in 1..n - 1 /\ q[i] = p[k + i - 1]
    BY <1>1, <1>3, <1>4, <1>7
  <2>2. i + 1 \in 1..n - k + 1 /\ k + (i + 1) - 1 = (k + i - 1) + 1
    BY <1>1, <1>3, <1>7
  <2>3. q[i + 1] = p[(k + i - 1) + 1]
    BY <1>4, <2>2
  <2>4. QED
    BY <2>1, <2>3 DEF Path
<1>8. Len(q) >= 1
  BY <1>1, <1>3
<1>9. Path(q, opts, t)
  BY <1>3, <1>5, <1>6, <1>7, <1>8 DEF Path
<1>10. QED
  BY <1>3, <1>4, <1>9 DEF q

LEMMA AboveOffsets ==
  ASSUME base \in Layouts, memory \in Memories, NEW opts \in Scans, NEW t \in Slot,
         NEW p, Path(p, opts, t), NEW i \in 1..Len(p)
  PROVE  p[i] \in Nat /\ p[i] > opts.maxOffset /\ opts.maxOffset \in Nat
<1>1. opts.maxOffset \in Nat
  BY PointerScanAssumption
<1>2. ASSUME NEW s \in Slot PROVE Address(s) \in Nat /\ Address(s) > opts.maxOffset
  <2>1. s[1] \in Names /\ s[2] \in Nat /\ base[s[1]] \in Nat
    <3>1. s[1] \in Names /\ s[2] \in 0..Mappings[s[1]].size - 1
      BY Slots
    <3>2. Mappings[s[1]].size \in Nat /\ base[s[1]] \in Nat
      BY <3>1, PlacesDiffer
    <3>3. QED
      BY <3>1, <3>2
  <2>2. base[s[1]] > opts.maxOffset
    BY <2>1, PointerScanAssumption
  <2>3. QED
    BY <1>1, <2>1, <2>2 DEF Address
<1>3. CASE i = Len(p)
  BY <1>1, <1>2, <1>3 DEF Path
<1>4. CASE i # Len(p)
  <2>1. Len(p) \in Nat
    BY DEF Path
  <2>2. i \in 1..Len(p) - 1
    BY <1>4, <2>1
  <2>3. p[i] \in Sources(opts.code)
    BY <2>2 DEF Path
  <2>4. SlotAt(p[i]) \in Slot /\ Address(SlotAt(p[i])) = p[i]
    BY <2>3, SourceFacts
  <2>5. QED
    BY <1>1, <1>2, <2>4
<1>5. QED
  BY <1>3, <1>4

\* What one more edge makes of a chain.
LEMMA ExtendedLeads ==
  ASSUME base \in Layouts, memory \in Memories, NEW opts \in Scans, NEW current, NEW t,
         NEW c, Leads(c, opts, t), NEW e \in Matches(opts, current),
         e.target = c.nodes[1], e.source \notin Range(c.nodes)
  PROVE  /\ Leads(Extended(c, e), opts, t)
         /\ Len(Extended(c, e).nodes) = Len(c.nodes) + 1
         /\ Extended(c, e).nodes[1] = e.source
         /\ \A i \in 1..Len(c.nodes) : Extended(c, e).nodes[i + 1] = c.nodes[i]
<1> DEFINE n == Len(c.nodes)
           nodes == <<e.source>> \o c.nodes
           offsets == <<e.offset>> \o c.offsets
<1>1. /\ c.nodes \in Seq(Nat) /\ c.offsets \in Seq(Nat) /\ n \in Nat /\ n >= 1
      /\ Len(c.offsets) = n - 1 /\ DOMAIN c.nodes = 1..n
  BY DEF Leads, Path, Measured, Chain
<1>2. /\ e.source \in Sources(opts.code) /\ e.offset \in Window(opts)
      /\ e.target = Pointer(e.source) + e.offset
      /\ e.source \in Nat /\ e.offset \in Nat /\ Pointer(e.source) \in Nat
  <2>1. /\ e \in EdgeType /\ e.source \in Sources(opts.code) /\ e.offset \in Window(opts)
        /\ e.target = Pointer(e.source) + e.offset
    BY MatchFacts
  <2>2. e.source \in Nat /\ e.offset \in Nat
    BY <2>1 DEF EdgeType
  <2>3. QED
    BY <2>1, <2>2, SourceFacts
<1>3. Extended(c, e).nodes = nodes /\ Extended(c, e).offsets = offsets
      /\ Extended(c, e) = [nodes |-> nodes, offsets |-> offsets]
  BY DEF Extended
<1>4. /\ nodes \in Seq(Nat) /\ Len(nodes) = n + 1 /\ nodes[1] = e.source
      /\ \A i \in 1..n : nodes[i + 1] = c.nodes[i]
  <2>1. <<e.source>> \in Seq(Nat) /\ Len(<<e.source>>) = 1
    BY <1>2
  <2>2. /\ nodes \in Seq(Nat) /\ Len(nodes) = 1 + n
        /\ \A i \in 1..1 + n : nodes[i] = IF i <= 1 THEN <<e.source>>[i] ELSE c.nodes[i - 1]
    BY <1>1, <2>1, ConcatProperties
  <2> HIDE DEF nodes
  <2>3. \A i \in 1..n : i + 1 \in 1..1 + n /\ ~(i + 1 <= 1) /\ (i + 1) - 1 = i
    BY <1>1
  <2>4. nodes[1] = e.source
    BY <1>1, <2>2
  <2>5. QED
    BY <1>1, <2>2, <2>3, <2>4
<1>5. /\ offsets \in Seq(Nat) /\ Len(offsets) = n /\ offsets[1] = e.offset
      /\ \A i \in 1..n - 1 : offsets[i + 1] = c.offsets[i]
  <2>1. <<e.offset>> \in Seq(Nat) /\ Len(<<e.offset>>) = 1
    BY <1>2
  <2>2. /\ offsets \in Seq(Nat) /\ Len(offsets) = 1 + (n - 1)
        /\ \A i \in 1..1 + (n - 1) : offsets[i] = IF i <= 1 THEN <<e.offset>>[i] ELSE c.offsets[i - 1]
    BY <1>1, <2>1, ConcatProperties
  <2> HIDE DEF offsets
  <2>3. \A i \in 1..n - 1 : i + 1 \in 1..1 + (n - 1) /\ ~(i + 1 <= 1) /\ (i + 1) - 1 = i
    BY <1>1
  <2>4. offsets[1] = e.offset
    BY <1>1, <2>2
  <2>5. QED
    BY <1>1, <2>2, <2>3, <2>4
<1> HIDE DEF nodes, offsets
<1>6. nodes[2] = e.target
  BY <1>1, <1>4
<1>7. Path(nodes, opts, t)
  <2>1. nodes[Len(nodes)] = Address(t)
    <3>1. n \in 1..n /\ c.nodes[n] = Address(t)
      BY <1>1 DEF Leads, Path
    <3>2. nodes[n + 1] = c.nodes[n]
      BY <1>4, <3>1
    <3>3. QED
      BY <1>4, <3>1, <3>2
  <2>2. ASSUME NEW i \in 1..n, NEW j \in 1..n, c.nodes[i] = c.nodes[j] PROVE i = j
    BY <2>2 DEF Leads, Path
  <2>3. \A i \in 1..n : c.nodes[i] # e.source
    BY <1>1 DEF Range
  <2>4. ASSUME NEW i \in 1..n + 1
        PROVE  i = 1 \/ (i - 1 \in 1..n /\ nodes[i] = c.nodes[i - 1])
    <3>1. i # 1 => i - 1 \in 1..n /\ (i - 1) + 1 = i
      BY <1>1
    <3>2. QED
      BY <1>4, <3>1
  <2>5. ASSUME NEW i \in 1..n + 1, NEW j \in 1..n + 1, nodes[i] = nodes[j] PROVE i = j
    <3>1. CASE i = 1
      BY <1>4, <2>3, <2>4, <2>5, <3>1
    <3>2. CASE j = 1
      BY <1>4, <2>3, <2>4, <2>5, <3>2
    <3>3. CASE i # 1 /\ j # 1
      <4>1. i - 1 \in 1..n /\ j - 1 \in 1..n /\ c.nodes[i - 1] = c.nodes[j - 1]
        BY <2>4, <2>5, <3>3
      <4>2. i - 1 = j - 1
        BY <2>2, <4>1
      <4>3. QED
        BY <1>1, <4>2
    <3>4. QED
      BY <3>1, <3>2, <3>3
  <2>6. ASSUME NEW i \in 1..n
        PROVE  nodes[i] \in Sources(opts.code) /\ nodes[i + 1] - Pointer(nodes[i]) \in Window(opts)
    <3>1. CASE i = 1
      <4>1. e.target - Pointer(e.source) = e.offset
        BY <1>2
      <4>2. QED
        BY <1>2, <1>4, <1>6, <3>1, <4>1
    <3>2. CASE i # 1
      <4>1. i - 1 \in 1..n - 1 /\ i - 1 \in 1..n /\ (i - 1) + 1 = i /\ i \in 1..n
        BY <1>1, <3>2
      <4>2. nodes[i] = c.nodes[i - 1] /\ nodes[i + 1] = c.nodes[(i - 1) + 1]
        BY <1>4, <4>1
      <4>3. QED
        BY <4>1, <4>2 DEF Leads, Path
    <3>3. QED
      BY <3>1, <3>2
  <2>7. Len(nodes) - 1 = n /\ Len(nodes) >= 1
    BY <1>1, <1>4
  <2>8. QED
    BY <1>4, <2>1, <2>5, <2>6, <2>7 DEF Path
<1>8. ASSUME NEW k \in 1..n PROVE Pointer(nodes[k]) + offsets[k] = nodes[k + 1]
  <2>1. CASE k = 1
    BY <1>2, <1>4, <1>5, <1>6, <2>1
  <2>2. CASE k # 1
    <3>1. k - 1 \in 1..n - 1 /\ k - 1 \in 1..n /\ (k - 1) + 1 = k
      BY <1>1, <2>2
    <3>2. nodes[k] = c.nodes[k - 1] /\ nodes[k + 1] = c.nodes[(k - 1) + 1] /\ offsets[k] = c.offsets[k - 1]
      <4>1. nodes[(k - 1) + 1] = c.nodes[k - 1] /\ offsets[(k - 1) + 1] = c.offsets[k - 1]
        BY <1>4, <1>5, <3>1
      <4>2. nodes[k + 1] = c.nodes[k]
        BY <1>4
      <4>3. QED
        BY <3>1, <4>1, <4>2
    <3>3. Pointer(c.nodes[k - 1]) + c.offsets[k - 1] = c.nodes[(k - 1) + 1]
      BY <1>1, <3>1 DEF Leads, Measured
    <3>4. QED
      BY <3>2, <3>3
  <2>3. QED
    BY <2>1, <2>2
<1>9. Leads([nodes |-> nodes, offsets |-> offsets], opts, t)
  <2>1. [nodes |-> nodes, offsets |-> offsets] \in Chain
    BY <1>4, <1>5 DEF Chain
  <2>2. Len(offsets) = Len(nodes) - 1
    BY <1>1, <1>4, <1>5
  <2> DEFINE r == [nodes |-> nodes, offsets |-> offsets]
  <2>3. r.nodes = nodes /\ r.offsets = offsets
    OBVIOUS
  <2> HIDE DEF r
  <2>4. Measured(r)
    BY <1>5, <1>8, <2>2, <2>3 DEF Measured
  <2>5. r \in Chain
    BY <2>1 DEF r
  <2>6. Leads(r, opts, t)
    BY <1>7, <2>3, <2>4, <2>5 DEF Leads
  <2>7. QED
    BY <2>6 DEF r
<1>10. QED
  BY <1>3, <1>4, <1>9

\* A path is an edge that matches, before a path.
LEMMA PathBegins ==
  ASSUME base \in Layouts, memory \in Memories, NEW opts \in Scans, NEW t \in Slot, NEW current,
         NEW p, Path(p, opts, t), Len(p) >= 2, p[2] \in current
  PROVE  \E e \in Matches(opts, current) : e.source = p[1] /\ e.target = p[2]
<1> DEFINE o == p[2] - Pointer(p[1])
<1>1. Len(p) \in Nat /\ 1 \in 1..Len(p) - 1 /\ 2 \in 1..Len(p)
  BY DEF Path
<1>2. p[1] \in Sources(opts.code) /\ p[1 + 1] - Pointer(p[1]) \in Window(opts)
  BY <1>1 DEF Path
<1>3. p[2] \in Nat /\ p[2] > opts.maxOffset /\ opts.maxOffset \in Nat
  BY <1>1, AboveOffsets
<1>4. Pointer(p[1]) \in Nat
  BY <1>2, SourceFacts
<1>5. o \in Window(opts) /\ o <= opts.maxOffset /\ o \in Nat
  <2>1. o \in Window(opts)
    BY <1>2
  <2>2. QED
    BY <1>3, <2>1 DEF Window
<1>6. Pointer(p[1]) # 0 /\ Pointer(p[1]) + o = p[2]
  BY <1>3, <1>4, <1>5
<1>7. Edge(p[1], o) \in Matches(opts, current)
  BY <1>2, <1>5, <1>6, MatchFacts
<1>8. Edge(p[1], o).source = p[1] /\ Edge(p[1], o).target = p[2]
  BY <1>6 DEF Edge
<1>9. QED
  BY <1>7, <1>8

---------------------------------------------------------------------------
(* The extension of a frontier *)

AttemptType == [chain : Nat, edge : EdgeType]

LEMMA TurnsAreTotal ==
  ASSUME NEW S \in SUBSET AttemptType
  PROVE  OrdersTotally(InTurn(S), S)
<1> DEFINE Before(a, b) == a.chain < b.chain \/ (a.chain = b.chain /\ EdgeBefore(a.edge, b.edge))
<1>1. \A a \in S : a.chain \in Nat /\ a.edge \in EdgeType
  BY DEF AttemptType
<1>2. \A e \in EdgeType : e.source \in Nat /\ e.target \in Nat /\ e.offset \in Nat
  BY DEF EdgeType
<1>3. \A a, b \in S : <<a, b>> \in InTurn(S) <=> Before(a, b)
  BY DEF InTurn
<1>4. \A e, f \in EdgeType : EdgeBefore(e, f) => ~EdgeBefore(f, e)
  BY <1>2 DEF EdgeBefore
<1>5. ASSUME NEW e \in EdgeType, NEW f \in EdgeType, e # f
      PROVE  EdgeBefore(e, f) \/ EdgeBefore(f, e)
  <2>1. e.source # f.source \/ e.target # f.target \/ e.offset # f.offset
    BY <1>5 DEF EdgeType
  <2>2. QED
    BY <1>2, <2>1 DEF EdgeBefore
<1>6. \A e, f, g \in EdgeType : EdgeBefore(e, f) /\ EdgeBefore(f, g) => EdgeBefore(e, g)
  BY <1>2 DEF EdgeBefore
<1>7. \A a, b \in S : Before(a, b) => ~Before(b, a)
  <2>1. SUFFICES ASSUME NEW a \in S, NEW b \in S, Before(a, b), Before(b, a) PROVE FALSE
    OBVIOUS
  <2>2. a.chain = b.chain
    BY <1>1, <2>1
  <2>3. EdgeBefore(a.edge, b.edge) /\ EdgeBefore(b.edge, a.edge)
    BY <1>1, <2>1, <2>2
  <2>4. QED
    BY <1>1, <1>4, <2>3
<1>8. ASSUME NEW a \in S, NEW b \in S, a # b PROVE Before(a, b) \/ Before(b, a)
  <2>1. a.chain # b.chain \/ a.edge # b.edge
    BY <1>8 DEF AttemptType
  <2>2. QED
    BY <1>1, <1>5, <2>1
<1>9. \A a, b, c \in S : Before(a, b) /\ Before(b, c) => Before(a, c)
  <2>1. SUFFICES ASSUME NEW a \in S, NEW b \in S, NEW c \in S, Before(a, b), Before(b, c)
                 PROVE  Before(a, c)
    OBVIOUS
  <2>2. CASE a.chain < b.chain \/ b.chain < c.chain
    BY <1>1, <2>1, <2>2
  <2>3. CASE ~(a.chain < b.chain \/ b.chain < c.chain)
    <3>1. a.chain = b.chain /\ b.chain = c.chain /\ EdgeBefore(a.edge, b.edge) /\ EdgeBefore(b.edge, c.edge)
      BY <2>1, <2>3
    <3>2. EdgeBefore(a.edge, c.edge)
      BY <1>1, <1>6, <3>1
    <3>3. QED
      BY <3>1, <3>2
  <2>4. QED
    BY <2>2, <2>3
<1> HIDE DEF Before
<1>10. QED
  BY <1>3, <1>7, <1>8, <1>9 DEF OrdersTotally

Frontier(f) == f \in Seq(Chain) /\ \A i \in 1..Len(f) : Len(f[i].nodes) >= 1

LEMMA AttemptFacts ==
  ASSUME NEW frontier, Frontier(frontier), NEW edges, IsFiniteSet(edges), edges \subseteq EdgeType
  PROVE  /\ Attempts(frontier, edges) \in SUBSET AttemptType
         /\ Extensions(frontier, edges) \in SUBSET Attempts(frontier, edges)
         /\ IsFiniteSet(Extensions(frontier, edges))
         /\ \A a : a \in Extensions(frontier, edges) <=>
              /\ a \in [chain : 1..Len(frontier), edge : edges]
              /\ a.edge # NoEdge
              /\ a.edge.target = frontier[a.chain].nodes[1]
              /\ a.edge.source \notin Range(frontier[a.chain].nodes)
<1> DEFINE n == Len(frontier)
           all == edges \cup {NoEdge}
           D == (1..n) \X all
           f == [p \in D |-> [chain |-> p[1], edge |-> p[2]]]
<1>1. n \in Nat /\ DOMAIN frontier = 1..n
  BY DEF Frontier
<1>2. NoEdge \in EdgeType /\ all \subseteq EdgeType
  BY DEF NoEdge, EdgeType
<1>3. IsFiniteSet(DOMAIN f)
  <2>1. IsFiniteSet(1..n)
    BY <1>1, FS_Interval
  <2>2. IsFiniteSet(all)
    BY FS_AddElement
  <2> HIDE DEF all
  <2>3. QED
    BY <2>1, <2>2, FS_Product
<1>4. ASSUME NEW a \in [chain : 1..n, edge : all]
      PROVE  a \in {f[p] : p \in DOMAIN f} /\ a \in AttemptType
  <2>1. a = f[<<a.chain, a.edge>>] /\ <<a.chain, a.edge>> \in DOMAIN f
    BY <1>4
  <2>2. a \in AttemptType
    BY <1>1, <1>2, <1>4 DEF AttemptType
  <2>3. QED
    BY <2>1, <2>2
<1>5. Attempts(frontier, edges) \subseteq [chain : 1..n, edge : all]
  BY <1>1 DEF Attempts
<1>6. IsFiniteSet(Attempts(frontier, edges))
  <2> HIDE DEF f
  <2>1. IsFiniteSet({f[p] : p \in DOMAIN f})
    BY <1>3, FiniteImage
  <2>2. Attempts(frontier, edges) \in SUBSET {f[p] : p \in DOMAIN f}
    BY <1>4, <1>5
  <2>3. QED
    BY <2>1, <2>2, FS_Subset
<1>7. Extensions(frontier, edges) \in SUBSET Attempts(frontier, edges)
  BY DEF Extensions
<1>8. IsFiniteSet(Extensions(frontier, edges))
  BY <1>6, <1>7, FS_Subset
<1>9. ASSUME NEW a
      PROVE  a \in Extensions(frontier, edges) <=>
               /\ a \in [chain : 1..n, edge : edges]
               /\ a.edge # NoEdge
               /\ a.edge.target = frontier[a.chain].nodes[1]
               /\ a.edge.source \notin Range(frontier[a.chain].nodes)
  BY <1>1 DEF Extensions, Attempts
<1>10. QED
  BY <1>4, <1>5, <1>7, <1>8, <1>9

\* The new chains are those of the extensions in their turn, each once.
ExtendsBy(all, each, frontier, edges) ==
  /\ Len(all) = Cardinality(Extensions(frontier, edges)) /\ Len(all) \in Nat
  /\ DOMAIN all = 1..Len(all)
  /\ \A k \in 1..Len(all) : /\ each[k] \in Extensions(frontier, edges)
                            /\ all[k] = Extended(frontier[each[k].chain], each[k].edge)
  /\ \A a \in Extensions(frontier, edges) : \E k \in 1..Len(all) : each[k] = a
  /\ \A j, k \in 1..Len(all) : each[j] = each[k] => j = k

LEMMA AllExtendedFacts ==
  ASSUME NEW frontier, Frontier(frontier), NEW edges, IsFiniteSet(edges), edges \subseteq EdgeType
  PROVE  \E each : ExtendsBy(AllExtended(frontier, edges), each, frontier, edges)
<1> DEFINE some == Extensions(frontier, edges)
           n == Cardinality(some)
           each == Sorted(some, InTurn(some))
           all == AllExtended(frontier, edges)
<1>1. some \in SUBSET AttemptType /\ IsFiniteSet(some)
  BY AttemptFacts
<1>2. OrdersTotally(InTurn(some), some)
  BY <1>1, TurnsAreTotal
<1>3. all = [k \in DOMAIN each |-> Extended(frontier[each[k].chain], each[k].edge)]
  BY DEF AllExtended
<1> HIDE DEF some, each, all
<1>4. /\ each \in Seq(some) /\ Len(each) = n /\ n \in Nat
      /\ \A a \in some : \E k \in 1..n : each[k] = a
      /\ \A j, k \in 1..n : j < k => <<each[j], each[k]>> \in InTurn(some)
  BY <1>1, <1>2, SortedFacts DEF each
<1>5. DOMAIN each = 1..n /\ \A k \in 1..n : each[k] \in some
  BY <1>4
<1>6. ASSUME NEW j \in 1..n, NEW k \in 1..n, each[j] = each[k] PROVE j = k
  <2>1. \A a \in some : <<a, a>> \notin InTurn(some)
    BY <1>2 DEF OrdersTotally
  <2>2. ~(j < k) /\ ~(k < j)
    BY <1>4, <1>5, <1>6, <2>1
  <2>3. QED
    BY <1>4, <2>2
<1>7. DOMAIN all = 1..n /\ \A k \in 1..n : all[k] = Extended(frontier[each[k].chain], each[k].edge)
  BY <1>3, <1>5
<1>8. Len(all) = n
  BY <1>4, <1>7
<1>9. ExtendsBy(all, each, frontier, edges)
  BY <1>4, <1>5, <1>6, <1>7, <1>8 DEF ExtendsBy, some
<1>10. QED
  BY <1>9 DEF all

\* Without the flag the limit has cut nothing.
LEMMA UncutUnlessMet ==
  ASSUME NEW frontier, Frontier(frontier), NEW edges, IsFiniteSet(edges), edges \subseteq EdgeType,
         ~LimitMet(frontier, edges)
  PROVE  Cardinality(Extensions(frontier, edges)) <= MaxChains
<1> DEFINE some == Extensions(frontier, edges)
           all == Attempts(frontier, edges)
           n == Cardinality(some)
<1>1. all \in SUBSET AttemptType /\ some \in SUBSET all /\ IsFiniteSet(some)
  BY AttemptFacts
<1>2. OrdersTotally(InTurn(some), some)
  BY <1>1, TurnsAreTotal
<1>3. MaxChains \in Nat /\ n \in Nat
  BY <1>1, FS_CardinalityType, PointerScanAssumption
<1>4. SUFFICES ASSUME n > MaxChains PROVE FALSE
  BY <1>3
<1>5. n \in 1..n
  BY <1>3, <1>4
<1>6. PICK a \in some : Cardinality(Below(a, some, InTurn(some))) = n - 1
  <2> HIDE DEF some
  <2>1. \A i \in 1..n : /\ Sorted(some, InTurn(some))[i] \in some
                        /\ Cardinality(Below(Sorted(some, InTurn(some))[i], some, InTurn(some))) = i - 1
    BY <1>1, <1>2, SortedPlaces
  <2> HIDE DEF n
  <2>2. QED
    BY <1>5, <2>1
<1>7. Below(a, some, InTurn(some)) = Below(a, some, InTurn(all))
  <2>1. \A b \in some : <<b, a>> \in InTurn(some) <=> <<b, a>> \in InTurn(all)
    BY <1>1, <1>6 DEF InTurn
  <2>2. QED
    BY <2>1 DEF Below
<1>8. Cardinality(Below(a, some, InTurn(all))) >= MaxChains
  BY <1>3, <1>4, <1>6, <1>7
<1>9. QED
  BY <1>1, <1>6, <1>8 DEF LimitMet

---------------------------------------------------------------------------
(* The invariant *)

Once(chains) == \A i, j \in 1..Len(chains) : chains[i].nodes = chains[j].nodes => i = j

Lead(chains, opts, t, low, high) ==
  /\ chains \in Seq(Chain) /\ Once(chains)
  /\ \A i \in 1..Len(chains) : Leads(chains[i], opts, t) /\ Len(chains[i].nodes) \in low..high

Exhaust(chains, opts, t, low, high) ==
  \A p : Path(p, opts, t) /\ Len(p) \in low..high => \E i \in 1..Len(chains) : chains[i].nodes = p

TargetFits == base \in Layouts /\ memory \in Memories /\ cancel \in BOOLEAN /\ scans \in 0..MaxScans

IsReadable(t) == t \in Slot /\ "r" \in Mappings[t[1]].perms

ScanTyped ==
  /\ DOMAIN scan = {"at", "opts", "target", "level", "current", "frontier", "edges", "found"}
  /\ DOMAIN scan.found = {"chains", "edgesTruncated", "chainsTruncated"}
  /\ scan.at \in {"level", "traverse", "extend", "publish"}
  /\ scan.opts \in Scans /\ IsReadable(scan.target)
  /\ scan.level \in 1..scan.opts.depth
  /\ scan.edges \subseteq Matches(scan.opts, scan.current)
  /\ Cardinality(scan.edges) <= MaxEdges
  /\ scan.level > 1 => Len(scan.frontier) <= MaxChains
  /\ scan.found.edgesTruncated \in BOOLEAN /\ scan.found.chainsTruncated \in BOOLEAN

\* The frontier holds the chains of this level, what was found those of all
\* levels so far.
Reached == IF scan.at = "publish" THEN scan.level + 1 ELSE scan.level

ScanLeads ==
  /\ Lead(scan.frontier, scan.opts, scan.target, scan.level, scan.level)
  /\ scan.at # "publish" =>
       \A i \in 1..Len(scan.frontier) : scan.frontier[i].nodes[1] \in scan.current
  /\ Lead(scan.found.chains, scan.opts, scan.target, 2, Reached)

\* Without a flag they hold every one; after the last level no path is left.
ScanComplete ==
  /\ scan.at \in {"level", "traverse"} => ~scan.found.edgesTruncated
  /\ scan.at = "extend" /\ ~cancel /\ ~scan.found.edgesTruncated =>
       scan.edges = Matches(scan.opts, scan.current)
  /\ scan.at # "publish" /\ ~scan.found.chainsTruncated =>
       /\ Exhaust(scan.frontier, scan.opts, scan.target, scan.level, scan.level)
       /\ Exhaust(scan.found.chains, scan.opts, scan.target, 2, scan.level)
  /\ scan.at = "publish" /\ ~scan.found.edgesTruncated /\ ~scan.found.chainsTruncated =>
       Exhaust(scan.found.chains, scan.opts, scan.target, 2, scan.opts.depth + 1)

ScanFits == scan = Idle \/ (ScanTyped /\ ScanLeads /\ ScanComplete)

Kept(nodes, opts) == opts.moduleOnly => IsFile(SlotAt(nodes[1])[1])

ResultLeads ==
  /\ result.opts \in Scans /\ IsReadable(result.target)
  /\ Lead(result.chains, result.opts, result.target, 2, result.opts.depth + 1)
  /\ \A i \in 1..Len(result.chains) : Kept(result.chains[i].nodes, result.opts)
  /\ ~result.edgesTruncated /\ ~result.chainsTruncated =>
       \A p : /\ Path(p, result.opts, result.target)
              /\ Len(p) \in 2..(result.opts.depth + 1) /\ Kept(p, result.opts)
              => \E i \in 1..Len(result.chains) : result.chains[i].nodes = p

ResultFits == result = NoResult \/ ResultLeads

\* What is known of a chain of the table, whatever the layout is now.
RootUnder(l, s) ==
  IF IsFile(s[1])
  THEN [kind |-> "MODULE", module |-> Mappings[s[1]].path, at |-> Mappings[s[1]].offset + s[2]]
  ELSE [kind |-> "ABSOLUTE", module |-> "", at |-> Place(l, s)]

EntryFits(e) ==
  /\ e.layout \in Layouts /\ e.slots \in Seq(Slot) /\ e.offsets \in Seq(Nat)
  /\ Len(e.slots) >= 2 /\ Len(e.offsets) = Len(e.slots) - 1
  /\ e.root = RootUnder(e.layout, e.slots[1])
  /\ \A k \in 1..Len(e.slots) : IsReadable(e.slots[k])
  /\ \A k \in 1..Len(e.offsets) :
       /\ memory[e.slots[k]] \in Slot
       /\ Place(e.layout, memory[e.slots[k]]) + e.offsets[k] = Place(e.layout, e.slots[k + 1])

RootType ==
  [kind : {"MODULE", "ABSOLUTE"}, module : {""} \cup {Mappings[n].path : n \in Names}, at : Nat]

Entry == [root : RootType, offsets : Seq(Nat), layout : Layouts, slots : Seq(Slot)]

TableFits ==
  /\ table \in Seq(Entry) /\ Len(table) <= MaxTable
  /\ \A i \in 1..Len(table) : EntryFits(table[i])

IInv == TargetFits /\ ScanFits /\ ResultFits /\ TableFits

---------------------------------------------------------------------------
(* What only the target decides stays while it stays *)

LEMMA SameTarget ==
  ASSUME base' = base, memory' = memory
  PROVE  /\ \A a : SlotAt(a)' = SlotAt(a) /\ Pointer(a)' = Pointer(a)
         /\ \A t : Address(t)' = Address(t)
         /\ \A opts, current : Matches(opts, current)' = Matches(opts, current)
         /\ \A nodes, opts, t : Path(nodes, opts, t)' <=> Path(nodes, opts, t)
         /\ \A c, opts, t : Leads(c, opts, t)' <=> Leads(c, opts, t)
         /\ \A nodes, opts : Kept(nodes, opts)' <=> Kept(nodes, opts)
<1>1. \A a : SlotAt(a)' = SlotAt(a)
  BY DEF SlotAt, Inside
<1>2. \A t : Address(t)' = Address(t)
  BY DEF Address
<1>3. \A a : Pointer(a)' = Pointer(a)
  BY <1>1, <1>2 DEF Pointer
<1>4. \A code : Sources(code)' = Sources(code)
  BY <1>2 DEF Sources
<1>5. \A s, o : Edge(s, o)' = Edge(s, o)
  BY <1>3 DEF Edge
<1>6. \A opts, current : Matches(opts, current)' = Matches(opts, current)
  BY <1>3, <1>4, <1>5 DEF Matches
<1>7. \A nodes, opts, t : Path(nodes, opts, t)' <=> Path(nodes, opts, t)
  BY <1>2, <1>3, <1>4 DEF Path
<1>8. \A c : Measured(c)' <=> Measured(c)
  BY <1>3 DEF Measured
<1>9. \A c, opts, t : Leads(c, opts, t)' <=> Leads(c, opts, t)
  BY <1>7, <1>8 DEF Leads
<1>10. \A nodes, opts : Kept(nodes, opts)' <=> Kept(nodes, opts)
  BY <1>1 DEF Kept
<1>11. QED
  BY <1>1, <1>2, <1>3, <1>6, <1>7, <1>9, <1>10

LEMMA SameChains ==
  ASSUME base' = base, memory' = memory
  PROVE  /\ \A chains, opts, t, low, high :
              /\ Lead(chains, opts, t, low, high)' <=> Lead(chains, opts, t, low, high)
              /\ Exhaust(chains, opts, t, low, high)' <=> Exhaust(chains, opts, t, low, high)
         /\ \A e : EntryFits(e)' <=> EntryFits(e)
<1>1. \A chains, opts, t, low, high :
        Lead(chains, opts, t, low, high)' <=> Lead(chains, opts, t, low, high)
  BY SameTarget DEF Lead
<1>2. \A chains, opts, t, low, high :
        Exhaust(chains, opts, t, low, high)' <=> Exhaust(chains, opts, t, low, high)
  BY SameTarget DEF Exhaust
<1>3. \A e : EntryFits(e)' <=> EntryFits(e)
  BY DEF EntryFits
<1>4. QED
  BY <1>1, <1>2, <1>3

LEMMA ResultsSame ==
  ASSUME base' = base, memory' = memory, result' = result
  PROVE  ResultFits' <=> ResultFits
<1>1. ResultLeads' <=> ResultLeads
  BY SameTarget, SameChains DEF ResultLeads
<1>2. QED
  BY <1>1 DEF ResultFits

LEMMA TableSame ==
  ASSUME memory' = memory, table' = table
  PROVE  TableFits' <=> TableFits
<1>1. \A e : EntryFits(e)' <=> EntryFits(e)
  BY DEF EntryFits
<1>2. QED
  BY <1>1 DEF TableFits

---------------------------------------------------------------------------
(* The steps *)

LEMMA InitFits == Init => IInv
<1>1. SUFFICES ASSUME Init PROVE IInv
  OBVIOUS
<1>2. TargetFits
  <2>1. 0 \in 0..MaxScans
    BY PointerScanAssumption
  <2>2. QED
    BY <1>1, <2>1 DEF Init, TargetFits
<1>3. ScanFits /\ ResultFits
  BY <1>1 DEF Init, ScanFits, ResultFits
<1>4. TableFits
  <2>1. Len(table) = 0 /\ table \in Seq(Entry)
    BY <1>1 DEF Init
  <2>2. MaxTable \in Nat
    BY PointerScanAssumption
  <2>3. QED
    BY <2>1, <2>2 DEF TableFits
<1>5. QED
  BY <1>2, <1>3, <1>4 DEF IInv

\* The frontier of the first level is the target alone.
LEMMA FirstChain ==
  ASSUME base \in Layouts, NEW opts, NEW t \in Slot,
         NEW c, c = [nodes |-> <<Address(t)>>, offsets |-> <<>>]
  PROVE  /\ Lead(<<c>>, opts, t, 1, 1) /\ Exhaust(<<c>>, opts, t, 1, 1)
         /\ Lead(<<>>, opts, t, 2, 1) /\ Exhaust(<<>>, opts, t, 2, 1)
         /\ <<c>>[1].nodes[1] = Address(t) /\ Len(<<c>>) = 1
<1> DEFINE a == Address(t)
<1>1. a \in Nat
  BY Located
<1>2. c \in Chain /\ c.nodes = <<a>> /\ c.offsets = <<>>
  BY <1>1 DEF Chain
<1> HIDE DEF a
<1>3. Len(<<a>>) = 1 /\ <<a>>[1] = a /\ <<a>> \in Seq(Nat)
  BY <1>1
<1>4. Path(<<a>>, opts, t)
  BY <1>3 DEF Path, a
<1>5. Measured(c)
  <2>1. Len(c.offsets) = 0 /\ Len(c.nodes) = 1
    BY <1>2, <1>3
  <2>2. QED
    BY <2>1 DEF Measured
<1>6. Leads(c, opts, t) /\ Len(c.nodes) \in 1..1
  BY <1>2, <1>3, <1>4, <1>5 DEF Leads
<1>7. <<c>> \in Seq(Chain) /\ Len(<<c>>) = 1 /\ <<c>>[1] = c
  BY <1>2
<1>8. Lead(<<c>>, opts, t, 1, 1)
  <2> DEFINE f == <<c>>
  <2>1. f \in Seq(Chain) /\ Len(f) = 1 /\ f[1] = c
    BY <1>7
  <2> HIDE DEF f
  <2>2. \A i \in 1..Len(f) : i = 1
    BY <2>1
  <2>3. Once(f)
    BY <2>2 DEF Once
  <2>4. Lead(f, opts, t, 1, 1)
    BY <1>6, <2>1, <2>2, <2>3 DEF Lead
  <2>5. QED
    BY <2>4 DEF f
<1>9. Exhaust(<<c>>, opts, t, 1, 1)
  <2>1. ASSUME NEW p, Path(p, opts, t), Len(p) \in 1..1 PROVE p = <<a>>
    <3>1. p \in Seq(Nat) /\ Len(p) = 1 /\ p[1] = a
      <4>1. p \in Seq(Nat) /\ p[Len(p)] = a
        BY <2>1 DEF Path, a
      <4>2. Len(p) = 1
        BY <2>1
      <4>3. QED
        BY <4>1, <4>2
    <3>2. \A i \in 1..Len(p) : p[i] = <<a>>[i]
      BY <1>3, <3>1
    <3>3. QED
      BY <1>3, <3>1, <3>2, SeqEqual
  <2>2. 1 \in 1..Len(<<c>>) /\ <<c>>[1].nodes = <<a>>
    BY <1>2, <1>7
  <2>3. QED
    BY <2>1, <2>2 DEF Exhaust
<1>10. Lead(<<>>, opts, t, 2, 1)
  <2>1. <<>> \in Seq(Chain) /\ Len(<<>>) = 0
    OBVIOUS
  <2>2. QED
    BY <2>1 DEF Lead, Once
<1>11. Exhaust(<<>>, opts, t, 2, 1)
  BY DEF Exhaust
<1>12. QED
  BY <1>2, <1>3, <1>7, <1>8, <1>9, <1>10, <1>11 DEF a

LEMMA BeginFits ==
  ASSUME IInv, Begin
  PROVE  IInv'
<1>1. PICK t \in Slot, opts \in Scans :
        /\ "r" \in Mappings[t[1]].perms
        /\ scan' = [at |-> "level", opts |-> opts, target |-> t, level |-> 1,
                    current |-> {Address(t)},
                    frontier |-> <<[nodes |-> <<Address(t)>>, offsets |-> <<>>]>>,
                    edges |-> {}, found |-> NoResult]
  BY DEF Begin
<1>2. base' = base /\ memory' = memory /\ result' = result /\ table' = table
  BY DEF Begin
<1>3. base \in Layouts /\ memory \in Memories
  BY DEF IInv, TargetFits
<1>4. TargetFits'
  <2>1. scans' \in 0..MaxScans
    BY PointerScanAssumption DEF Begin, IInv, TargetFits
  <2>2. QED
    BY <1>2, <1>3, <2>1 DEF Begin, TargetFits
<1>5. ResultFits' /\ TableFits'
  BY <1>2, ResultsSame, TableSame DEF IInv
<1> DEFINE c == [nodes |-> <<Address(t)>>, offsets |-> <<>>]
<1>6. /\ DOMAIN scan' = {"at", "opts", "target", "level", "current", "frontier", "edges", "found"}
      /\ scan'.at = "level" /\ scan'.opts = opts /\ scan'.target = t /\ scan'.level = 1
      /\ scan'.current = {Address(t)} /\ scan'.frontier = <<c>> /\ scan'.edges = {}
      /\ scan'.found = NoResult
  BY <1>1
<1>7. /\ DOMAIN scan'.found = {"chains", "edgesTruncated", "chainsTruncated"}
      /\ scan'.found.chains = <<>> /\ scan'.found.edgesTruncated = FALSE
      /\ scan'.found.chainsTruncated = FALSE
  BY <1>6 DEF NoResult
<1>8. /\ Lead(<<c>>, opts, t, 1, 1) /\ Exhaust(<<c>>, opts, t, 1, 1)
      /\ Lead(<<>>, opts, t, 2, 1) /\ Exhaust(<<>>, opts, t, 2, 1)
      /\ <<c>>[1].nodes[1] = Address(t) /\ Len(<<c>>) = 1
  BY <1>3, FirstChain
<1> HIDE DEF c
<1>9. ScanTyped'
  <2>1. opts.depth \in Nat \ {0} /\ MaxEdges \in Nat /\ Cardinality({}) = 0
    BY PointerScanAssumption, FS_EmptySet
  <2>2. IsReadable(t)
    BY <1>1 DEF IsReadable
  <2>3. IsReadable(scan'.target)
    BY <1>6, <2>2
  <2>4. scan'.level \in 1..scan'.opts.depth /\ scan'.opts \in Scans
    BY <1>6, <2>1
  <2>5. Cardinality(scan'.edges) <= MaxEdges /\ scan'.edges \subseteq Matches(scan.opts, scan.current)'
    BY <1>6, <2>1
  <2>6. scan'.found.edgesTruncated \in BOOLEAN /\ scan'.found.chainsTruncated \in BOOLEAN
    BY <1>7
  <2>7. scan'.level > 1 => Len(scan'.frontier) <= MaxChains
    BY <1>6
  <2>8. QED
    BY <1>6, <1>7, <2>3, <2>4, <2>5, <2>6, <2>7 DEF ScanTyped, IsReadable
<1>10. ScanLeads'
  <2>1. Reached' = 1
    BY <1>6 DEF Reached
  <2>2. \A i \in 1..Len(scan'.frontier) : scan'.frontier[i].nodes[1] \in scan'.current
    BY <1>6, <1>8
  <2>3. Lead(scan'.frontier, opts, t, 1, 1) /\ Lead(scan'.found.chains, opts, t, 2, 1)
    BY <1>6, <1>7, <1>8
  <2>4. QED
    BY <1>2, <1>6, <1>7, <2>1, <2>2, <2>3, SameChains DEF ScanLeads
<1>11. ScanComplete'
  BY <1>2, <1>6, <1>7, <1>8, SameChains DEF ScanComplete
<1>12. QED
  BY <1>4, <1>5, <1>9, <1>10, <1>11 DEF IInv, ScanFits

LEMMA Running ==
  ASSUME IInv, scan.at # "idle"
  PROVE  /\ ScanTyped /\ ScanLeads /\ ScanComplete
         /\ base \in Layouts /\ memory \in Memories /\ cancel \in BOOLEAN
         /\ scan.opts \in Scans /\ scan.target \in Slot
         /\ scan.opts.depth \in Nat \ {0} /\ scan.level \in Nat \ {0} /\ scan.level <= scan.opts.depth
<1>1. scan # Idle
  BY DEF Idle
<1>2. ScanTyped /\ ScanLeads /\ ScanComplete
  BY <1>1 DEF IInv, ScanFits
<1>3. scan.opts \in Scans /\ scan.target \in Slot /\ scan.level \in 1..scan.opts.depth
  BY <1>2 DEF ScanTyped, IsReadable
<1>4. scan.opts.depth \in Nat \ {0}
  BY <1>3, PointerScanAssumption
<1>5. QED
  BY <1>2, <1>3, <1>4 DEF IInv, TargetFits

LEMMA StartLevelFits ==
  ASSUME IInv, StartLevel
  PROVE  IInv'
<1>1. /\ scan.at = "level" /\ scan' = [scan EXCEPT !.at = "traverse"]
      /\ base' = base /\ memory' = memory /\ result' = result /\ table' = table
      /\ cancel' = cancel /\ scans' = scans
  BY DEF StartLevel
<1>2. ScanTyped /\ ScanLeads /\ ScanComplete
  BY <1>1, Running
<1>3. /\ DOMAIN scan' = DOMAIN scan
      /\ scan'.at = "traverse" /\ scan'.opts = scan.opts /\ scan'.target = scan.target
      /\ scan'.level = scan.level /\ scan'.current = scan.current /\ scan'.frontier = scan.frontier
      /\ scan'.edges = scan.edges /\ scan'.found = scan.found
  BY <1>1, <1>2 DEF ScanTyped
<1>4. TargetFits' /\ ResultFits' /\ TableFits'
  BY <1>1, ResultsSame, TableSame DEF IInv, TargetFits
<1>5. ScanTyped'
  BY <1>1, <1>2, <1>3, SameTarget DEF ScanTyped, IsReadable
<1>6. ScanLeads'
  BY <1>1, <1>2, <1>3, SameChains DEF ScanLeads, Reached
<1>7. ScanComplete'
  BY <1>1, <1>2, <1>3, SameChains DEF ScanComplete
<1>8. QED
  BY <1>4, <1>5, <1>6, <1>7 DEF IInv, ScanFits

LEMMA CancelFits ==
  ASSUME IInv, RequestCancel \/ Cancelled
  PROVE  IInv'
<1>1. /\ base' = base /\ memory' = memory /\ result' = result /\ table' = table
      /\ scans' = scans /\ cancel' \in BOOLEAN
  BY DEF RequestCancel, Cancelled, IInv, TargetFits
<1>2. TargetFits' /\ ResultFits' /\ TableFits'
  BY <1>1, ResultsSame, TableSame DEF IInv, TargetFits
<1>3. ASSUME RequestCancel PROVE ScanFits'
  <2>1. scan' = scan /\ cancel' = TRUE /\ ScanTyped /\ ScanLeads /\ ScanComplete
    BY <1>3 DEF RequestCancel, IInv, ScanFits
  <2>2. ScanTyped' /\ ScanLeads'
    BY <1>1, <2>1, SameTarget, SameChains DEF ScanTyped, IsReadable, ScanLeads, Reached
  <2>3. ScanComplete'
    BY <1>1, <2>1, SameChains DEF ScanComplete
  <2>4. QED
    BY <2>2, <2>3 DEF ScanFits
<1>4. ASSUME Cancelled PROVE ScanFits'
  BY <1>4 DEF Cancelled, ScanFits
<1>5. QED
  BY <1>2, <1>3, <1>4 DEF IInv

\* The traversal keeps the first edges in the order it meets them.
LEMMA ReadInOrder ==
  ASSUME NEW S \in SUBSET EdgeType, \A e, f \in S : e.source = f.source /\ e.offset = f.offset => e = f
  PROVE  OrdersTotally(AsRead(S), S)
<1> DEFINE Before(e, f) == e.source < f.source \/ (e.source = f.source /\ e.offset < f.offset)
<1>1. \A e \in S : e.source \in Nat /\ e.offset \in Nat
  BY DEF EdgeType
<1>2. \A e, f \in S : <<e, f>> \in AsRead(S) <=> Before(e, f)
  BY DEF AsRead
<1>3. \A e, f \in S : Before(e, f) => ~Before(f, e)
  BY <1>1
<1>4. \A e, f \in S : e # f => Before(e, f) \/ Before(f, e)
  BY <1>1
<1>5. \A e, f, g \in S : Before(e, f) /\ Before(f, g) => Before(e, g)
  BY <1>1
<1> HIDE DEF Before
<1>6. QED
  BY <1>2, <1>3, <1>4, <1>5 DEF OrdersTotally

LEMMA TraverseFits ==
  ASSUME IInv, Traverse
  PROVE  IInv'
<1> DEFINE all == Matches(scan.opts, scan.current)
           m == Cardinality(all)
           inOrder == Sorted(all, AsRead(all))
           kept(k) == {inOrder[i] : i \in 1..k}
<1>1. /\ scan.at = "traverse"
      /\ base' = base /\ memory' = memory /\ result' = result /\ table' = table
      /\ cancel' = cancel /\ scans' = scans
  BY DEF Traverse
<1>2. /\ ScanTyped /\ ScanLeads /\ ScanComplete
      /\ base \in Layouts /\ memory \in Memories /\ scan.opts \in Scans
  BY <1>1, Running
<1>3. PICK k \in IF cancel THEN 0..EdgeLimit(m) ELSE {EdgeLimit(m)} :
        scan' = [scan EXCEPT !.at = "extend", !.edges = kept(k),
                             !.found.edgesTruncated = (k >= MaxEdges)]
  BY DEF Traverse
<1>4. IsFiniteSet(all) /\ all \subseteq EdgeType /\ m \in Nat
  BY <1>2, MatchFacts, FS_CardinalityType
<1>5. OrdersTotally(AsRead(all), all)
  <2>1. ASSUME NEW e \in all, NEW f \in all, e.source = f.source, e.offset = f.offset
        PROVE  e = f
    <3>1. e.target = Pointer(e.source) + e.offset /\ f.target = Pointer(f.source) + f.offset
      BY <1>2, MatchFacts
    <3>2. e \in EdgeType /\ f \in EdgeType /\ e.target = f.target
      BY <1>4, <2>1, <3>1
    <3> HIDE DEF all
    <3>3. QED
      BY <2>1, <3>2 DEF EdgeType
  <2> HIDE DEF all
  <2>2. QED
    BY <1>4, <2>1, ReadInOrder
<1>6. /\ \A i \in 1..m : inOrder[i] \in all
      /\ \A e \in all : \E i \in 1..m : inOrder[i] = e
  <2> HIDE DEF all
  <2>1. /\ inOrder \in Seq(all) /\ Len(inOrder) = m
        /\ \A e \in all : \E i \in 1..m : inOrder[i] = e
    BY <1>4, <1>5, SortedFacts
  <2> HIDE DEF inOrder, m
  <2>2. QED
    BY <2>1
<1> HIDE DEF all, m, inOrder
<1>7. MaxEdges \in Nat
  BY PointerScanAssumption
<1>8. EdgeLimit(m) \in Nat /\ EdgeLimit(m) <= MaxEdges /\ EdgeLimit(m) <= m
      /\ (EdgeLimit(m) < MaxEdges => EdgeLimit(m) = m)
  BY <1>4, <1>7 DEF EdgeLimit
<1>9. k \in Nat /\ k <= MaxEdges /\ k <= m /\ (~cancel /\ k < MaxEdges => k = m)
  <2> DEFINE limit == EdgeLimit(m)
  <2>1. cancel => k \in 0..limit
    BY <1>3
  <2>2. ~cancel => k = limit
    BY <1>3
  <2>3. limit \in Nat /\ limit <= MaxEdges /\ limit <= m /\ (limit < MaxEdges => limit = m)
    BY <1>8
  <2> HIDE DEF limit
  <2>4. QED
    BY <1>4, <1>7, <2>1, <2>2, <2>3
<1>10. kept(k) \subseteq all /\ (k = m => kept(k) = all)
  <2>1. \A i \in 1..k : i \in 1..m
    BY <1>4, <1>9
  <2>2. QED
    BY <1>6, <2>1
<1>11. Cardinality(kept(k)) <= MaxEdges
  <2> DEFINE f == [i \in 1..k |-> inOrder[i]]
  <2>1. DOMAIN f = 1..k /\ kept(k) = {f[i] : i \in DOMAIN f}
    OBVIOUS
  <2>2. IsFiniteSet(1..k) /\ Cardinality(1..k) = k
    BY <1>9, FS_Interval
  <2> HIDE DEF f, kept
  <2>3. IsFiniteSet(kept(k)) /\ Cardinality(kept(k)) <= k
    BY <2>1, <2>2, FiniteImage
  <2>4. Cardinality(kept(k)) \in Nat
    BY <2>3, FS_CardinalityType
  <2>5. QED
    BY <1>7, <1>9, <2>3, <2>4
<1> DEFINE met == k >= MaxEdges
           edges == kept(k)
<1>12. met \in BOOLEAN
  OBVIOUS
<1>13. scan' = [scan EXCEPT !.at = "extend", !.edges = edges, !.found.edgesTruncated = met]
  BY <1>3
<1>14. edges \subseteq Matches(scan.opts, scan.current)
       /\ (~cancel /\ ~met => edges = Matches(scan.opts, scan.current))
  BY <1>7, <1>9, <1>10 DEF all
<1>15. Cardinality(edges) <= MaxEdges
  BY <1>11
<1> HIDE DEF met, kept, edges
<1>16. /\ DOMAIN scan' = DOMAIN scan
       /\ scan'.at = "extend" /\ scan'.opts = scan.opts /\ scan'.target = scan.target
       /\ scan'.level = scan.level /\ scan'.current = scan.current /\ scan'.frontier = scan.frontier
       /\ scan'.edges = edges /\ scan'.found = [scan.found EXCEPT !.edgesTruncated = met]
  BY <1>2, <1>13 DEF ScanTyped
<1>17. /\ DOMAIN scan'.found = DOMAIN scan.found
       /\ scan'.found.chains = scan.found.chains
       /\ scan'.found.edgesTruncated = met
       /\ scan'.found.chainsTruncated = scan.found.chainsTruncated
  BY <1>2, <1>16 DEF ScanTyped
<1>18. TargetFits' /\ ResultFits' /\ TableFits'
  BY <1>1, ResultsSame, TableSame DEF IInv, TargetFits
<1>19. ScanTyped'
  <2>1. Matches(scan.opts, scan.current)' = Matches(scan.opts, scan.current)
    BY <1>1, <1>16, SameTarget
  <2>2. QED
    BY <1>2, <1>12, <1>14, <1>15, <1>16, <1>17, <2>1 DEF ScanTyped, IsReadable
<1>20. ScanLeads'
  BY <1>1, <1>2, <1>16, <1>17, SameChains DEF ScanLeads, Reached
<1>21. ScanComplete'
  <2>1. Matches(scan.opts, scan.current)' = Matches(scan.opts, scan.current)
    BY <1>1, <1>16, SameTarget
  <2>2. QED
    BY <1>1, <1>2, <1>14, <1>16, <1>17, <2>1, SameChains DEF ScanComplete
<1>22. QED
  BY <1>18, <1>19, <1>20, <1>21 DEF IInv, ScanFits

\* A level without a path is the last one.
LEMMA NoneLonger ==
  ASSUME NEW opts, NEW t, NEW n \in Nat, n >= 1, \A p : Path(p, opts, t) => Len(p) # n
  PROVE  \A p : Path(p, opts, t) => Len(p) < n
<1>1. SUFFICES ASSUME NEW p, Path(p, opts, t), ~(Len(p) < n) PROVE FALSE
  OBVIOUS
<1>2. Len(p) \in Nat
  BY <1>1 DEF Path
<1> DEFINE k == Len(p) - n + 1
<1>3. k \in 1..Len(p) /\ Len(p) - k + 1 = n
  BY <1>1, <1>2
<1>4. Path(SubSeq(p, k, Len(p)), opts, t) /\ Len(SubSeq(p, k, Len(p))) = n
  <2> HIDE DEF k
  <2>1. QED
    BY <1>1, <1>3, PathEnd
<1>5. QED
  BY <1>4

\* Every path of the next level is made by an extension.
LEMMA PathIsExtension ==
  ASSUME base \in Layouts, memory \in Memories, NEW opts \in Scans, NEW t \in Slot,
         NEW n \in Nat, n >= 1, NEW current, NEW frontier,
         Lead(frontier, opts, t, n, n), Exhaust(frontier, opts, t, n, n),
         \A i \in 1..Len(frontier) : frontier[i].nodes[1] \in current,
         NEW p, Path(p, opts, t), Len(p) = n + 1
  PROVE  /\ \E e \in Matches(opts, current) : TRUE
         /\ \E a \in Extensions(frontier, Matches(opts, current)) :
              Extended(frontier[a.chain], a.edge).nodes = p
<1> DEFINE q == SubSeq(p, 2, Len(p))
           edges == Matches(opts, current)
<1>1. /\ Path(q, opts, t) /\ Len(q) = n
      /\ \A i \in 1..n : q[i] = p[i + 1]
  <2>1. 2 \in 1..Len(p) /\ Len(p) - 2 + 1 = n
    OBVIOUS
  <2>2. /\ Path(q, opts, t) /\ Len(q) = n
        /\ \A i \in 1..n : q[i] = p[2 + i - 1]
    BY <2>1, PathEnd
  <2> HIDE DEF q
  <2>3. \A i \in 1..n : 2 + i - 1 = i + 1
    OBVIOUS
  <2>4. QED
    BY <2>2, <2>3
<1> HIDE DEF q
<1>2. PICK j \in 1..Len(frontier) : frontier[j].nodes = q
  BY <1>1 DEF Exhaust
<1>3. p[2] = q[1] /\ q[1] \in current
  BY <1>1, <1>2
<1>4. PICK e \in edges : e.source = p[1] /\ e.target = p[2]
  BY <1>3, PathBegins
<1>5. e \in EdgeType /\ e.source \in Sources(opts.code) /\ IsFiniteSet(edges) /\ edges \subseteq EdgeType
  BY MatchFacts
<1>6. e # NoEdge
  <2>1. e.source # 0
    BY <1>5, SourceFacts
  <2>2. QED
    BY <2>1 DEF NoEdge
<1>7. p \in Seq(Nat) /\ q \in Seq(Nat) /\ DOMAIN q = 1..n
  BY <1>1 DEF Path
<1>8. e.source \notin Range(q)
  <2>1. SUFFICES ASSUME NEW i \in 1..n, q[i] = e.source PROVE FALSE
    BY <1>7 DEF Range
  <2>2. p[i + 1] = p[1] /\ i + 1 \in 1..Len(p) /\ 1 \in 1..Len(p)
    BY <1>1, <1>4, <2>1
  <2>3. i + 1 = 1
    BY <2>2 DEF Path
  <2>4. QED
    BY <2>3
<1> DEFINE a == [chain |-> j, edge |-> e]
<1>9. a.chain = j /\ a.edge = e /\ a \in [chain : 1..Len(frontier), edge : edges]
  OBVIOUS
<1> HIDE DEF a
<1>10. a \in Extensions(frontier, edges)
  <2>1. Frontier(frontier)
    BY DEF Lead, Frontier
  <2> HIDE DEF edges
  <2>2. QED
    BY <1>2, <1>3, <1>4, <1>5, <1>6, <1>8, <1>9, <2>1, AttemptFacts
<1> DEFINE c == frontier[j]
           x == Extended(c, e).nodes
<1>11. /\ Leads(Extended(c, e), opts, t)
       /\ Len(x) = Len(c.nodes) + 1 /\ x[1] = e.source
       /\ \A i \in 1..Len(c.nodes) : x[i + 1] = c.nodes[i]
  <2>1. Leads(c, opts, t) /\ e.target = c.nodes[1] /\ e.source \notin Range(c.nodes)
    BY <1>2, <1>3, <1>4, <1>8 DEF Lead
  <2> HIDE DEF c
  <2>2. QED
    BY <2>1, ExtendedLeads
<1>12. x = p
  <2>1. x \in Seq(Nat) /\ Len(x) = n + 1 /\ x[1] = p[1] /\ \A i \in 1..n : x[i + 1] = p[i + 1]
    BY <1>1, <1>2, <1>4, <1>11 DEF Leads, Path
  <2> HIDE DEF x
  <2>2. ASSUME NEW i \in 1..Len(x) PROVE x[i] = p[i]
    <3>1. CASE i = 1
      BY <2>1, <3>1
    <3>2. CASE i # 1
      <4>1. i - 1 \in 1..n /\ (i - 1) + 1 = i
        BY <2>1, <3>2
      <4>2. x[(i - 1) + 1] = p[(i - 1) + 1]
        BY <2>1, <4>1
      <4>3. QED
        BY <4>1, <4>2
    <3>3. QED
      BY <3>1, <3>2
  <2>3. QED
    BY <1>7, <2>1, <2>2, SeqEqual
<1>13. QED
  BY <1>9, <1>10, <1>12

\* The extensions of a level's chains are chains of the next, each once.
Continue(all, frontier, edges, opts, t, n) ==
  /\ Lead(all, opts, t, n, n)
  /\ \A k \in 1..Len(all) : \E e \in edges : all[k].nodes[1] = e.source
  /\ \A a \in Extensions(frontier, edges) : \E k \in 1..Len(all) :
       all[k] = Extended(frontier[a.chain], a.edge)

LEMMA NextLeads ==
  ASSUME base \in Layouts, memory \in Memories, NEW opts \in Scans, NEW t \in Slot,
         NEW n \in Nat, n >= 1, NEW current, NEW frontier, Lead(frontier, opts, t, n, n),
         NEW edges \in SUBSET Matches(opts, current)
  PROVE  Continue(AllExtended(frontier, edges), frontier, edges, opts, t, n + 1)
<1> DEFINE all == AllExtended(frontier, edges)
           some == Extensions(frontier, edges)
<1>1. IsFiniteSet(edges) /\ edges \subseteq EdgeType /\ Frontier(frontier)
  <2>1. IsFiniteSet(Matches(opts, current)) /\ Matches(opts, current) \subseteq EdgeType
    BY MatchFacts
  <2>2. QED
    BY <2>1, FS_Subset DEF Lead, Frontier
<1>2. PICK each : ExtendsBy(all, each, frontier, edges)
  BY <1>1, AllExtendedFacts
<1>3. /\ Len(all) \in Nat /\ DOMAIN all = 1..Len(all)
      /\ \A k \in 1..Len(all) : /\ each[k] \in some
                                /\ all[k] = Extended(frontier[each[k].chain], each[k].edge)
      /\ \A a \in some : \E k \in 1..Len(all) : each[k] = a
      /\ \A j, k \in 1..Len(all) : each[j] = each[k] => j = k
  BY <1>2 DEF ExtendsBy
<1>4. all \in [1..Len(all) -> {all[k] : k \in 1..Len(all)}]
  BY <1>3 DEF AllExtended
<1> HIDE DEF all
<1>5. ASSUME NEW a \in some
      PROVE  /\ a.chain \in 1..Len(frontier) /\ a.edge \in edges
             /\ a.edge.target = frontier[a.chain].nodes[1]
             /\ Leads(Extended(frontier[a.chain], a.edge), opts, t)
             /\ Len(Extended(frontier[a.chain], a.edge).nodes) = n + 1
             /\ Extended(frontier[a.chain], a.edge).nodes[1] = a.edge.source
             /\ \A i \in 1..n : Extended(frontier[a.chain], a.edge).nodes[i + 1] = frontier[a.chain].nodes[i]
             /\ frontier[a.chain].nodes \in Seq(Nat) /\ Len(frontier[a.chain].nodes) = n
  <2>1. /\ a.chain \in 1..Len(frontier) /\ a.edge \in edges
        /\ a.edge.target = frontier[a.chain].nodes[1]
        /\ a.edge.source \notin Range(frontier[a.chain].nodes)
    BY <1>1, AttemptFacts
  <2> DEFINE c == frontier[a.chain]
             e == a.edge
  <2>2. Leads(c, opts, t) /\ Len(c.nodes) = n /\ e \in Matches(opts, current)
    BY <2>1 DEF Lead
  <2>3. c.nodes \in Seq(Nat)
    BY <2>2 DEF Leads, Path
  <2>4. e.target = c.nodes[1] /\ e.source \notin Range(c.nodes)
    BY <2>1
  <2> HIDE DEF c, e
  <2>5. /\ Leads(Extended(c, e), opts, t)
        /\ Len(Extended(c, e).nodes) = n + 1
        /\ Extended(c, e).nodes[1] = e.source
        /\ \A i \in 1..n : Extended(c, e).nodes[i + 1] = c.nodes[i]
    BY <2>2, <2>4, ExtendedLeads
  <2>6. QED
    BY <2>1, <2>2, <2>3, <2>5 DEF c, e
<1>6. ASSUME NEW k \in 1..Len(all)
      PROVE  /\ Leads(all[k], opts, t) /\ Len(all[k].nodes) = n + 1 /\ all[k] \in Chain
             /\ \E e \in edges : all[k].nodes[1] = e.source
  <2>1. each[k] \in some /\ all[k] = Extended(frontier[each[k].chain], each[k].edge)
    BY <1>3
  <2>2. QED
    BY <1>5, <2>1 DEF Leads
<1>7. all \in Seq(Chain)
  <2>1. all \in [1..Len(all) -> Chain]
    BY <1>4, <1>6
  <2>2. QED
    BY <1>3, <2>1
<1>8. ASSUME NEW j \in 1..Len(all), NEW k \in 1..Len(all), all[j].nodes = all[k].nodes
      PROVE  j = k
  <2> DEFINE a == each[j]
             b == each[k]
  <2>1. /\ a \in some /\ all[j] = Extended(frontier[a.chain], a.edge)
        /\ b \in some /\ all[k] = Extended(frontier[b.chain], b.edge)
    BY <1>3
  <2> HIDE DEF a, b
  <2>2. a.edge.source = b.edge.source
    BY <1>5, <1>8, <2>1
  <2>3. frontier[a.chain].nodes = frontier[b.chain].nodes
    <3> DEFINE x == frontier[a.chain].nodes
               y == frontier[b.chain].nodes
               z == all[j].nodes
    <3>1. x \in Seq(Nat) /\ Len(x) = n /\ \A i \in 1..n : z[i + 1] = x[i]
      BY <1>5, <2>1
    <3>2. y \in Seq(Nat) /\ Len(y) = n /\ \A i \in 1..n : all[k].nodes[i + 1] = y[i]
      BY <1>5, <2>1
    <3>3. all[k].nodes = z
      BY <1>8
    <3> HIDE DEF x, y, z
    <3>4. \A i \in 1..Len(x) : x[i] = y[i]
      BY <3>1, <3>2, <3>3
    <3>5. x = y
      BY <3>1, <3>2, <3>4, SeqEqual
    <3>6. QED
      BY <3>5 DEF x, y
  <2>4. a.chain = b.chain
    BY <1>5, <2>1, <2>3 DEF Lead, Once
  <2>5. a.edge.target = b.edge.target
    BY <1>5, <2>1, <2>4
  <2>6. a.edge = b.edge
    <3> DEFINE e == a.edge
               f == b.edge
    <3>1. e \in Matches(opts, current) /\ f \in Matches(opts, current) /\ e.source = f.source /\ e.target = f.target
      BY <1>5, <2>1, <2>2, <2>5
    <3> HIDE DEF e, f
    <3>2. /\ e \in EdgeType /\ f \in EdgeType /\ e.source \in Sources(opts.code)
          /\ e.target = Pointer(e.source) + e.offset /\ f.target = Pointer(f.source) + f.offset
      BY <3>1, MatchFacts
    <3>3. e.offset \in Nat /\ f.offset \in Nat /\ Pointer(e.source) \in Nat
      BY <3>2, SourceFacts DEF EdgeType
    <3>4. e.offset = f.offset
      <4> DEFINE v == Pointer(e.source)
      <4>1. v \in Nat /\ e.target = v + e.offset /\ f.target = v + f.offset
        BY <3>1, <3>2, <3>3
      <4>2. \A x, y, z \in Nat : x + y = x + z => y = z
        OBVIOUS
      <4>3. e.offset \in Nat /\ f.offset \in Nat /\ v + e.offset = v + f.offset
        BY <3>1, <3>3, <4>1
      <4> HIDE DEF v
      <4>4. QED
        BY <4>1, <4>2, <4>3
    <3>5. e = f
      BY <3>1, <3>2, <3>4 DEF EdgeType
    <3>6. QED
      BY <3>5 DEF e, f
  <2>7. a = b
    <3>1. a \in AttemptType /\ b \in AttemptType
      BY <1>1, <2>1, AttemptFacts
    <3>2. QED
      BY <2>4, <2>6, <3>1 DEF AttemptType
  <2>8. QED
    BY <1>3, <2>7 DEF a, b
<1>9. Lead(all, opts, t, n + 1, n + 1)
  <2>1. \A k \in 1..Len(all) : Leads(all[k], opts, t) /\ Len(all[k].nodes) \in (n + 1)..(n + 1)
    BY <1>6
  <2>2. Once(all)
    BY <1>8 DEF Once
  <2>3. QED
    BY <1>7, <2>1, <2>2 DEF Lead
<1>10. ASSUME NEW a \in some
       PROVE  \E k \in 1..Len(all) : all[k] = Extended(frontier[a.chain], a.edge)
  <2>1. PICK k \in 1..Len(all) : each[k] = a
    BY <1>3
  <2>2. QED
    BY <1>3, <2>1
<1>11. QED
  BY <1>6, <1>9, <1>10 DEF Continue, all

---------------------------------------------------------------------------
(* Sequences of chains *)

\* What max_chains keeps of them.
Cut(all) == IF Len(all) <= MaxChains THEN all ELSE SubSeq(all, 1, MaxChains)

CutOf(next, all) ==
  /\ Len(next) \in Nat /\ Len(next) <= MaxChains /\ Len(next) <= Len(all)
  /\ \A i \in 1..Len(next) : next[i] = all[i]

LEMMA LeadCut ==
  ASSUME NEW opts, NEW t, NEW n \in Nat, NEW all, Lead(all, opts, t, n, n),
         NEW next, next = Cut(all)
  PROVE  Lead(next, opts, t, n, n) /\ CutOf(next, all)
<1>1. all \in Seq(Chain) /\ Len(all) \in Nat /\ MaxChains \in Nat
  BY PointerScanAssumption DEF Lead
<1>2. CASE Len(all) <= MaxChains
  BY <1>1, <1>2 DEF Cut, CutOf
<1>3. CASE ~(Len(all) <= MaxChains)
  <2>1. next = SubSeq(all, 1, MaxChains)
    BY <1>3 DEF Cut
  <2>2. \A i \in 1..MaxChains : all[i] \in Chain
    BY <1>1, <1>3
  <2>3. /\ next \in Seq(Chain) /\ Len(next) = MaxChains
        /\ \A i \in 1..MaxChains : next[i] = all[1 + i - 1]
    <3>1. next \in Seq(Chain)
      BY <1>1, <2>1, <2>2, SubSeqProperties
    <3>2. Len(next) = MaxChains /\ \A i \in 1..MaxChains : next[i] = all[1 + i - 1]
      BY <1>1, <1>3, <2>1, SubSeqProperties
    <3>3. QED
      BY <3>1, <3>2
  <2>4. \A i \in 1..MaxChains : next[i] = all[i] /\ i \in 1..Len(all)
    <3>1. \A i \in 1..MaxChains : 1 + i - 1 = i /\ i \in 1..Len(all)
      BY <1>1, <1>3
    <3>2. QED
      BY <2>3, <3>1
  <2>5. Lead(next, opts, t, n, n)
    <3>1. Once(next)
      BY <2>3, <2>4 DEF Lead, Once
    <3>2. \A i \in 1..Len(next) : Leads(next[i], opts, t) /\ Len(next[i].nodes) \in n..n
      BY <2>3, <2>4 DEF Lead
    <3>3. QED
      BY <2>3, <3>1, <3>2 DEF Lead
  <2>6. QED
    BY <1>1, <1>3, <2>3, <2>4, <2>5 DEF CutOf
<1>4. QED
  BY <1>2, <1>3

\* What was found, and then the chains of the next level.
LEMMA LeadConcat ==
  ASSUME NEW opts, NEW t, NEW n \in Nat, n >= 1, NEW f, NEW g,
         Lead(f, opts, t, 2, n), Lead(g, opts, t, n + 1, n + 1)
  PROVE  /\ Lead(f \o g, opts, t, 2, n + 1)
         /\ Exhaust(f, opts, t, 2, n) /\ Exhaust(g, opts, t, n + 1, n + 1)
              => Exhaust(f \o g, opts, t, 2, n + 1)
<1> DEFINE h == f \o g
           l == Len(f)
           m == Len(g)
<1>1. f \in Seq(Chain) /\ g \in Seq(Chain) /\ l \in Nat /\ m \in Nat
  BY DEF Lead
<1>2. /\ h \in Seq(Chain) /\ Len(h) = l + m
      /\ \A i \in 1..l + m : h[i] = IF i <= l THEN f[i] ELSE g[i - l]
  BY <1>1, ConcatProperties
<1> HIDE DEF h
<1>3. ASSUME NEW i \in 1..l + m
      PROVE  \/ i \in 1..l /\ h[i] = f[i]
             \/ i - l \in 1..m /\ h[i] = g[i - l] /\ ~(i \in 1..l)
  <2>1. i <= l => i \in 1..l
    BY <1>1
  <2>2. ~(i <= l) => i - l \in 1..m /\ ~(i \in 1..l)
    BY <1>1
  <2>3. QED
    BY <1>2, <2>1, <2>2
<1>4. /\ \A i \in 1..l : Leads(f[i], opts, t) /\ Len(f[i].nodes) \in 2..n
      /\ \A i \in 1..m : Leads(g[i], opts, t) /\ Len(g[i].nodes) = n + 1
  <2>1. \A x : x \in (n + 1)..(n + 1) => x = n + 1
    OBVIOUS
  <2>2. QED
    BY <2>1 DEF Lead
<1>5. \A i \in 1..l + m : Leads(h[i], opts, t) /\ Len(h[i].nodes) \in 2..n + 1
  <2>1. SUFFICES ASSUME NEW i \in 1..l + m
                 PROVE  Leads(h[i], opts, t) /\ Len(h[i].nodes) \in 2..n + 1
    OBVIOUS
  <2>2. CASE i \in 1..l /\ h[i] = f[i]
    BY <1>4, <2>2
  <2>3. CASE i - l \in 1..m /\ h[i] = g[i - l]
    BY <1>4, <2>3
  <2>4. QED
    BY <1>3, <2>2, <2>3
<1>6. ASSUME NEW i \in 1..l + m, NEW j \in 1..l + m, h[i].nodes = h[j].nodes
      PROVE  i = j
  <2> DEFINE InF(x) == x \in 1..l /\ h[x] = f[x]
             InG(x) == x - l \in 1..m /\ h[x] = g[x - l]
  <2>1. (InF(i) \/ InG(i)) /\ (InF(j) \/ InG(j))
    BY <1>3
  <2>2. CASE InF(i) /\ InF(j)
    BY <1>6, <2>2 DEF Lead, Once
  <2>3. CASE InG(i) /\ InG(j)
    <3>1. i - l = j - l
      BY <1>6, <2>3 DEF Lead, Once
    <3>2. QED
      BY <1>1, <3>1
  <2>4. ASSUME NEW x \in 1..l + m, NEW y \in 1..l + m, InF(x), InG(y), h[x].nodes = h[y].nodes PROVE FALSE
    <3>1. Len(h[x].nodes) \in 2..n /\ Len(h[y].nodes) = n + 1
      BY <1>4, <2>4
    <3>2. QED
      BY <2>4, <3>1
  <2>5. QED
    BY <1>6, <2>1, <2>2, <2>3, <2>4
<1>7. Lead(h, opts, t, 2, n + 1)
  BY <1>2, <1>5, <1>6 DEF Lead, Once
<1>8. ASSUME Exhaust(f, opts, t, 2, n), Exhaust(g, opts, t, n + 1, n + 1)
      PROVE  Exhaust(h, opts, t, 2, n + 1)
  <2>1. SUFFICES ASSUME NEW p, Path(p, opts, t), Len(p) \in 2..n + 1
                 PROVE  \E i \in 1..Len(h) : h[i].nodes = p
    BY DEF Exhaust
  <2>2. CASE Len(p) \in 2..n
    <3>1. PICK i \in 1..l : f[i].nodes = p
      BY <1>8, <2>1, <2>2 DEF Exhaust
    <3>2. i \in 1..l + m /\ i <= l
      BY <1>1
    <3>3. QED
      BY <1>2, <3>1, <3>2
  <2>3. CASE Len(p) \in (n + 1)..(n + 1)
    <3>1. PICK i \in 1..m : g[i].nodes = p
      BY <1>8, <2>1, <2>3 DEF Exhaust
    <3>2. i + l \in 1..l + m /\ ~(i + l <= l) /\ (i + l) - l = i
      BY <1>1
    <3>3. h[i + l] = g[(i + l) - l]
      BY <1>2, <3>2
    <3>4. QED
      BY <1>2, <3>1, <3>2, <3>3
  <2>4. QED
    BY <2>1, <2>2, <2>3
<1>9. QED
  BY <1>7, <1>8 DEF h

\* A level whose edges and extensions are all kept has every path.
LEMMA NextExhausts ==
  ASSUME base \in Layouts, memory \in Memories, NEW opts \in Scans, NEW t \in Slot,
         NEW n \in Nat, n >= 1, NEW current, NEW frontier,
         Lead(frontier, opts, t, n, n), Exhaust(frontier, opts, t, n, n),
         \A i \in 1..Len(frontier) : frontier[i].nodes[1] \in current
  PROVE  Exhaust(AllExtended(frontier, Matches(opts, current)), opts, t, n + 1, n + 1)
<1> DEFINE edges == Matches(opts, current)
           all == AllExtended(frontier, edges)
<1>1. SUFFICES ASSUME NEW p, Path(p, opts, t), Len(p) \in (n + 1)..(n + 1)
               PROVE  \E k \in 1..Len(all) : all[k].nodes = p
  BY DEF Exhaust
<1>2. Len(p) = n + 1
  BY <1>1
<1>3. PICK a \in Extensions(frontier, edges) : Extended(frontier[a.chain], a.edge).nodes = p
  BY <1>1, <1>2, PathIsExtension
<1>4. \A b \in Extensions(frontier, edges) : \E k \in 1..Len(all) :
        all[k] = Extended(frontier[b.chain], b.edge)
  <2>1. edges \in SUBSET Matches(opts, current)
    OBVIOUS
  <2> HIDE DEF edges
  <2>2. Continue(AllExtended(frontier, edges), frontier, edges, opts, t, n + 1)
    BY <2>1, NextLeads
  <2>3. QED
    BY <2>2 DEF Continue
<1>5. QED
  BY <1>3, <1>4

LEMMA LeadWiden ==
  ASSUME NEW chains, NEW opts, NEW t, NEW n \in Nat, Lead(chains, opts, t, 2, n)
  PROVE  Lead(chains, opts, t, 2, n + 1)
<1>1. \A x \in 2..n : x \in 2..n + 1
  OBVIOUS
<1>2. QED
  BY <1>1 DEF Lead

\* The next level would be empty: what was found is all there is.
LEMMA NothingLeft ==
  ASSUME NEW opts, NEW t, NEW n \in Nat, n >= 1, NEW high, NEW chains, Exhaust(chains, opts, t, 2, n),
         \A p : Path(p, opts, t) => Len(p) # n + 1
  PROVE  Exhaust(chains, opts, t, 2, high)
<1>1. \A p : Path(p, opts, t) => Len(p) < n + 1
  <2> DEFINE m == n + 1
  <2>1. m \in Nat /\ m >= 1 /\ \A p : Path(p, opts, t) => Len(p) # m
    OBVIOUS
  <2> HIDE DEF m
  <2>2. \A p : Path(p, opts, t) => Len(p) < m
    BY <2>1, NoneLonger
  <2>3. QED
    BY <2>2 DEF m
<1>2. SUFFICES ASSUME NEW p, Path(p, opts, t), Len(p) \in 2..high
               PROVE  \E i \in 1..Len(chains) : chains[i].nodes = p
  BY DEF Exhaust
<1>3. Len(p) \in Nat /\ Len(p) < n + 1
  <2>1. Len(p) \in Nat
    BY <1>2 DEF Path
  <2>2. Len(p) < n + 1
    BY <1>1, <1>2
  <2>3. QED
    BY <2>1, <2>2
<1>4. Len(p) \in 2..n
  BY <1>2, <1>3
<1>5. QED
  BY <1>2, <1>4 DEF Exhaust

LEMMA NoEdgesFits ==
  ASSUME IInv, NoEdges
  PROVE  IInv'
<1>1. /\ scan.at = "extend" /\ ~cancel /\ scan.edges = {}
      /\ scan' = [scan EXCEPT !.at = "publish", !.found = scan.found]
      /\ base' = base /\ memory' = memory /\ result' = result /\ table' = table
      /\ cancel' = cancel /\ scans' = scans
  BY DEF NoEdges, Ends
<1>2. /\ ScanTyped /\ ScanLeads /\ ScanComplete
      /\ base \in Layouts /\ memory \in Memories
      /\ scan.opts \in Scans /\ scan.target \in Slot
      /\ scan.level \in Nat /\ scan.level >= 1
  BY <1>1, Running
<1>3. /\ DOMAIN scan' = DOMAIN scan
      /\ scan'.at = "publish" /\ scan'.opts = scan.opts /\ scan'.target = scan.target
      /\ scan'.level = scan.level /\ scan'.current = scan.current /\ scan'.frontier = scan.frontier
      /\ scan'.edges = scan.edges /\ scan'.found = scan.found
  BY <1>1, <1>2 DEF ScanTyped
<1>4. TargetFits' /\ ResultFits' /\ TableFits'
  BY <1>1, ResultsSame, TableSame DEF IInv, TargetFits
<1>5. ScanTyped'
  BY <1>1, <1>2, <1>3, SameTarget DEF ScanTyped, IsReadable
<1>6. ScanLeads'
  <2>1. Lead(scan.found.chains, scan.opts, scan.target, 2, scan.level + 1)
    BY <1>1, <1>2, LeadWiden DEF ScanLeads, Reached
  <2>2. Reached' = scan.level + 1
    BY <1>3 DEF Reached
  <2>3. QED
    BY <1>1, <1>2, <1>3, <2>1, <2>2, SameChains DEF ScanLeads
<1>7. ScanComplete'
  <2>1. ASSUME ~scan.found.edgesTruncated, ~scan.found.chainsTruncated
        PROVE  Exhaust(scan.found.chains, scan.opts, scan.target, 2, scan.opts.depth + 1)
    <3>1. /\ Matches(scan.opts, scan.current) = {}
          /\ Exhaust(scan.frontier, scan.opts, scan.target, scan.level, scan.level)
          /\ Exhaust(scan.found.chains, scan.opts, scan.target, 2, scan.level)
      BY <1>1, <1>2, <2>1 DEF ScanComplete
    <3>2. /\ Lead(scan.frontier, scan.opts, scan.target, scan.level, scan.level)
          /\ \A i \in 1..Len(scan.frontier) : scan.frontier[i].nodes[1] \in scan.current
      BY <1>1, <1>2 DEF ScanLeads
    <3>3. ASSUME NEW p, Path(p, scan.opts, scan.target), Len(p) = scan.level + 1
          PROVE  FALSE
      <4>1. \E e \in Matches(scan.opts, scan.current) : TRUE
        BY <1>2, <3>1, <3>2, <3>3, PathIsExtension
      <4>2. QED
        BY <3>1, <4>1
    <3>4. QED
      BY <1>2, <3>1, <3>3, NothingLeft
  <2>2. QED
    BY <1>1, <1>3, <2>1, SameChains DEF ScanComplete
<1>8. QED
  BY <1>4, <1>5, <1>6, <1>7 DEF IInv, ScanFits

\* What extend_chains leaves, whichever level follows.
Follows(next, met) ==
  LET n == scan.level
      found == scan.found.chains \o next
  IN  /\ met \in BOOLEAN /\ next \in Seq(Chain) /\ Len(next) <= MaxChains
      /\ Lead(next, scan.opts, scan.target, n + 1, n + 1)
      /\ Lead(found, scan.opts, scan.target, 2, n + 1)
      /\ \A i \in 1..Len(next) : \E e \in scan.edges : next[i].nodes[1] = e.source
      /\ ~scan.found.edgesTruncated /\ ~scan.found.chainsTruncated /\ ~met =>
           /\ Exhaust(next, scan.opts, scan.target, n + 1, n + 1)
           /\ Exhaust(found, scan.opts, scan.target, 2, n + 1)

LEMMA ExtendFacts ==
  ASSUME IInv, scan.at = "extend", ~cancel,
         NEW all, all = AllExtended(scan.frontier, scan.edges),
         NEW next, next = Cut(all),
         NEW met, met = LimitMet(scan.frontier, scan.edges)
  PROVE  Follows(next, met)
<1> DEFINE opts == scan.opts
           t == scan.target
           n == scan.level
           current == scan.current
           frontier == scan.frontier
           edges == scan.edges
           before == scan.found.chains
<1>1. /\ ScanTyped /\ ScanLeads /\ ScanComplete
      /\ base \in Layouts /\ memory \in Memories /\ opts \in Scans /\ t \in Slot
      /\ n \in Nat /\ n >= 1
  BY Running
<1>2. /\ Lead(frontier, opts, t, n, n) /\ Lead(before, opts, t, 2, n)
      /\ \A i \in 1..Len(frontier) : frontier[i].nodes[1] \in current
      /\ edges \in SUBSET Matches(opts, current)
  BY <1>1 DEF ScanLeads, ScanTyped, Reached
<1>3. ~scan.found.edgesTruncated => edges = Matches(opts, current)
  BY <1>1 DEF ScanComplete
<1>4. ~scan.found.chainsTruncated => Exhaust(frontier, opts, t, n, n) /\ Exhaust(before, opts, t, 2, n)
  BY <1>1 DEF ScanComplete
<1>5. all = AllExtended(frontier, edges) /\ met = LimitMet(frontier, edges)
  OBVIOUS
<1> HIDE DEF opts, t, n, current, frontier, edges, before
<1>6. /\ Lead(all, opts, t, n + 1, n + 1)
      /\ \A k \in 1..Len(all) : \E e \in edges : all[k].nodes[1] = e.source
  <2>1. Continue(AllExtended(frontier, edges), frontier, edges, opts, t, n + 1)
    BY <1>1, <1>2, NextLeads
  <2>2. QED
    BY <1>5, <2>1 DEF Continue
<1>7. /\ Lead(next, opts, t, n + 1, n + 1)
      /\ Len(next) \in Nat /\ Len(next) <= MaxChains /\ Len(next) <= Len(all)
      /\ \A i \in 1..Len(next) : next[i] = all[i]
  <2>1. n + 1 \in Nat
    BY <1>1
  <2>2. Lead(next, opts, t, n + 1, n + 1) /\ CutOf(next, all)
    BY <1>6, <2>1, LeadCut
  <2>3. QED
    BY <2>2 DEF CutOf
<1>8. \A i \in 1..Len(next) : \E e \in edges : next[i].nodes[1] = e.source
  <2>1. \A i \in 1..Len(next) : i \in 1..Len(all)
    BY <1>6, <1>7 DEF Lead
  <2>2. QED
    BY <1>6, <1>7, <2>1
<1>9. /\ Lead(before \o next, opts, t, 2, n + 1)
      /\ Exhaust(before, opts, t, 2, n) /\ Exhaust(next, opts, t, n + 1, n + 1)
           => Exhaust(before \o next, opts, t, 2, n + 1)
  BY <1>1, <1>2, <1>7, LeadConcat
<1>10. ASSUME ~scan.found.edgesTruncated, ~scan.found.chainsTruncated, ~met
       PROVE  Exhaust(next, opts, t, n + 1, n + 1)
  <2>1. edges = Matches(opts, current) /\ Exhaust(frontier, opts, t, n, n)
    BY <1>3, <1>4, <1>10
  <2>2. IsFiniteSet(edges) /\ edges \subseteq EdgeType /\ Frontier(frontier)
    <3>1. IsFiniteSet(Matches(opts, current)) /\ Matches(opts, current) \subseteq EdgeType
      BY <1>1, MatchFacts
    <3>2. Frontier(frontier)
      BY <1>1, <1>2 DEF Lead, Frontier
    <3>3. QED
      BY <2>1, <3>1, <3>2
  <2>3. Cardinality(Extensions(frontier, edges)) <= MaxChains
    BY <1>5, <1>10, <2>2, UncutUnlessMet
  <2>4. Len(all) = Cardinality(Extensions(frontier, edges))
    BY <1>5, <2>2, AllExtendedFacts DEF ExtendsBy
  <2>5. next = all
    BY <2>3, <2>4 DEF Cut
  <2>6. Exhaust(AllExtended(frontier, Matches(opts, current)), opts, t, n + 1, n + 1)
    BY <1>1, <1>2, <2>1, NextExhausts
  <2>7. QED
    BY <1>5, <2>1, <2>5, <2>6
<1>11. met \in BOOLEAN
  BY <1>5 DEF LimitMet
<1>12. next \in Seq(Chain)
  BY <1>7 DEF Lead
<1>13. QED
  BY <1>4, <1>7, <1>8, <1>9, <1>10, <1>11, <1>12 DEF Follows, opts, t, n, edges, before

LEMMA ExtendFits ==
  ASSUME IInv, Extend
  PROVE  IInv'
<1> DEFINE all == AllExtended(scan.frontier, scan.edges)
           next == IF Len(all) <= MaxChains THEN all ELSE SubSeq(all, 1, MaxChains)
           met == LimitMet(scan.frontier, scan.edges)
           chains == scan.found.chains \o next
           flag == scan.found.chainsTruncated \/ met
           found == [scan.found EXCEPT !.chains = chains, !.chainsTruncated = flag]
           sources == {e.source : e \in scan.edges}
           n == scan.level
<1>1. /\ scan.at = "extend" /\ ~cancel
      /\ base' = base /\ memory' = memory /\ result' = result /\ table' = table
      /\ cancel' = cancel /\ scans' = scans
  BY DEF Extend
<1>2. \/ /\ next = <<>> \/ scan.found.edgesTruncated \/ n = scan.opts.depth
         /\ scan' = [scan EXCEPT !.at = "publish", !.found = found]
      \/ /\ ~scan.found.edgesTruncated /\ n < scan.opts.depth
         /\ scan' = [scan EXCEPT
              !.at = "level", !.level = n + 1, !.found = found, !.frontier = next,
              !.current = sources, !.edges = {}]
  BY DEF Extend, Ends, Flag
<1>3. /\ ScanTyped /\ ScanLeads /\ ScanComplete
      /\ base \in Layouts /\ memory \in Memories
      /\ scan.opts \in Scans /\ scan.target \in Slot /\ scan.opts.depth \in Nat
      /\ n \in Nat /\ n >= 1 /\ n <= scan.opts.depth
  BY <1>1, Running
<1>4. /\ met \in BOOLEAN /\ next \in Seq(Chain) /\ Len(next) <= MaxChains
      /\ Lead(next, scan.opts, scan.target, n + 1, n + 1)
      /\ Lead(chains, scan.opts, scan.target, 2, n + 1)
      /\ \A i \in 1..Len(next) : next[i].nodes[1] \in sources
      /\ ~scan.found.edgesTruncated /\ ~scan.found.chainsTruncated /\ ~met =>
           /\ Exhaust(next, scan.opts, scan.target, n + 1, n + 1)
           /\ Exhaust(chains, scan.opts, scan.target, 2, n + 1)
  <2>1. /\ all = AllExtended(scan.frontier, scan.edges) /\ met = LimitMet(scan.frontier, scan.edges)
        /\ next = Cut(all)
    BY DEF Cut
  <2> HIDE DEF all, met, next, chains, n
  <2>2. Follows(next, met)
    BY <1>1, <2>1, ExtendFacts
  <2>3. QED
    BY <2>2 DEF Follows, chains, n
<1> HIDE DEF all, met, next, chains
<1>5. flag \in BOOLEAN /\ (~flag => ~scan.found.chainsTruncated /\ ~met)
  BY <1>3, <1>4 DEF ScanTyped
<1> HIDE DEF flag, sources
<1>6. /\ DOMAIN found = {"chains", "edgesTruncated", "chainsTruncated"}
      /\ found.chains = chains /\ found.chainsTruncated = flag
      /\ found.edgesTruncated = scan.found.edgesTruncated
  BY <1>3 DEF ScanTyped
<1> HIDE DEF found
<1>7. TargetFits' /\ ResultFits' /\ TableFits'
  BY <1>1, ResultsSame, TableSame DEF IInv, TargetFits
<1>8. ASSUME next = <<>> \/ scan.found.edgesTruncated \/ n = scan.opts.depth,
             scan' = [scan EXCEPT !.at = "publish", !.found = found]
      PROVE  ScanFits'
  <2>1. /\ DOMAIN scan' = DOMAIN scan
        /\ scan'.at = "publish" /\ scan'.opts = scan.opts /\ scan'.target = scan.target
        /\ scan'.level = n /\ scan'.current = scan.current /\ scan'.frontier = scan.frontier
        /\ scan'.edges = scan.edges /\ scan'.found = found
    BY <1>3, <1>8 DEF ScanTyped
  <2>2. ScanTyped'
    BY <1>1, <1>3, <1>5, <1>6, <2>1, SameTarget DEF ScanTyped, IsReadable
  <2>3. ScanLeads'
    <3>1. Reached' = n + 1
      BY <2>1 DEF Reached
    <3>2. Lead(scan.frontier, scan.opts, scan.target, n, n)
      BY <1>3 DEF ScanLeads
    <3>3. QED
      BY <1>1, <1>4, <1>6, <2>1, <3>1, <3>2, SameChains DEF ScanLeads
  <2>4. ASSUME ~found.edgesTruncated, ~found.chainsTruncated
        PROVE  Exhaust(chains, scan.opts, scan.target, 2, scan.opts.depth + 1)
    <3>1. /\ Exhaust(next, scan.opts, scan.target, n + 1, n + 1)
          /\ Exhaust(chains, scan.opts, scan.target, 2, n + 1)
      BY <1>4, <1>5, <1>6, <2>4
    <3>2. CASE n = scan.opts.depth
      BY <3>1, <3>2
    <3>3. CASE next = <<>>
      <4>1. \A p : Path(p, scan.opts, scan.target) => Len(p) # n + 1
        <5>1. SUFFICES ASSUME NEW p, Path(p, scan.opts, scan.target), Len(p) = n + 1 PROVE FALSE
          OBVIOUS
        <5>2. Len(p) \in (n + 1)..(n + 1) /\ Len(next) = 0
          BY <1>3, <3>3, <5>1
        <5>3. QED
          BY <3>1, <5>1, <5>2 DEF Exhaust
      <4>2. \A p : Path(p, scan.opts, scan.target) => Len(p) < n + 1
        <5>1. n + 1 \in Nat /\ n + 1 >= 1
          BY <1>3
        <5>2. QED
          BY <4>1, <5>1, NoneLonger
      <4>3. SUFFICES ASSUME NEW p, Path(p, scan.opts, scan.target), Len(p) \in 2..scan.opts.depth + 1
                     PROVE  \E i \in 1..Len(chains) : chains[i].nodes = p
        BY DEF Exhaust
      <4>4. Len(p) \in 2..n + 1
        BY <1>3, <4>2, <4>3
      <4>5. QED
        BY <3>1, <4>3, <4>4 DEF Exhaust
    <3>4. QED
      BY <1>6, <1>8, <2>4, <3>2, <3>3
  <2>5. ScanComplete'
    BY <1>1, <1>6, <2>1, <2>4, SameChains DEF ScanComplete
  <2>6. QED
    BY <2>2, <2>3, <2>5 DEF ScanFits
<1>9. ASSUME ~scan.found.edgesTruncated, n < scan.opts.depth,
             scan' = [scan EXCEPT
               !.at = "level", !.level = n + 1, !.found = found, !.frontier = next,
               !.current = sources, !.edges = {}]
      PROVE  ScanFits'
  <2>1. /\ DOMAIN scan' = DOMAIN scan
        /\ scan'.at = "level" /\ scan'.opts = scan.opts /\ scan'.target = scan.target
        /\ scan'.level = n + 1 /\ scan'.current = sources /\ scan'.frontier = next
        /\ scan'.edges = {} /\ scan'.found = found
    <3> HIDE DEF n
    <3>1. QED
      BY <1>3, <1>9 DEF ScanTyped
  <2>2. ScanTyped'
    <3>1. n + 1 \in 1..scan.opts.depth
      BY <1>3, <1>9
    <3>2. Cardinality({}) = 0 /\ MaxEdges \in Nat
      BY PointerScanAssumption, FS_EmptySet
    <3>3. /\ scan'.at \in {"level", "traverse", "extend", "publish"}
          /\ scan'.opts \in Scans /\ IsReadable(scan'.target)
          /\ scan'.level \in 1..scan'.opts.depth
          /\ DOMAIN scan' = {"at", "opts", "target", "level", "current", "frontier", "edges", "found"}
      BY <1>3, <2>1, <3>1 DEF ScanTyped
    <3>4. scan'.edges \subseteq Matches(scan.opts, scan.current)' /\ Cardinality(scan'.edges) <= MaxEdges
      BY <2>1, <3>2
    <3>5. /\ DOMAIN scan'.found = {"chains", "edgesTruncated", "chainsTruncated"}
          /\ scan'.found.edgesTruncated \in BOOLEAN /\ scan'.found.chainsTruncated \in BOOLEAN
      BY <1>3, <1>5, <1>6, <2>1 DEF ScanTyped
    <3>6. Len(scan'.frontier) <= MaxChains
      BY <1>4, <2>1
    <3>7. QED
      BY <3>3, <3>4, <3>5, <3>6 DEF ScanTyped, IsReadable
  <2>3. ScanLeads'
    <3>1. Reached' = n + 1
      BY <2>1 DEF Reached
    <3>2. QED
      BY <1>1, <1>4, <1>6, <2>1, <3>1, SameChains DEF ScanLeads
  <2>4. ScanComplete'
    <3>1. ~found.edgesTruncated
      BY <1>6, <1>9
    <3>2. ASSUME ~found.chainsTruncated
          PROVE  /\ Exhaust(next, scan.opts, scan.target, n + 1, n + 1)
                 /\ Exhaust(chains, scan.opts, scan.target, 2, n + 1)
      BY <1>4, <1>5, <1>6, <1>9, <3>2
    <3>3. QED
      BY <1>1, <1>6, <2>1, <3>1, <3>2, SameChains DEF ScanComplete
  <2>5. QED
    BY <2>2, <2>3, <2>4 DEF ScanFits
<1>10. QED
  BY <1>2, <1>7, <1>8, <1>9 DEF IInv

LEMMA PublishFits ==
  ASSUME IInv, Publish
  PROVE  IInv'
<1> DEFINE chains == scan.found.chains
           opts == scan.opts
           t == scan.target
           high == opts.depth + 1
           those == {i \in DOMAIN chains : opts.moduleOnly => IsFile(SlotAt(chains[i].nodes[1])[1])}
           kept == Ascending(those)
           published == [k \in DOMAIN kept |-> chains[kept[k]]]
           m == Cardinality(those)
<1>1. /\ scan.at = "publish" /\ scan' = Idle
      /\ base' = base /\ memory' = memory /\ table' = table
      /\ cancel' = cancel /\ scans' = scans
      /\ result' = [chains |-> published, edgesTruncated |-> scan.found.edgesTruncated,
                    chainsTruncated |-> scan.found.chainsTruncated, target |-> t, opts |-> opts]
  BY DEF Publish
<1>2. /\ ScanTyped /\ ScanLeads /\ ScanComplete
      /\ base \in Layouts /\ memory \in Memories
      /\ opts \in Scans /\ IsReadable(t) /\ opts.depth \in Nat
      /\ scan.level \in Nat /\ scan.level <= opts.depth
  BY <1>1, Running DEF ScanTyped
<1>3. Lead(chains, opts, t, 2, scan.level + 1)
  BY <1>1, <1>2 DEF ScanLeads, Reached
<1>4. /\ chains \in Seq(Chain) /\ DOMAIN chains = 1..Len(chains) /\ Len(chains) \in Nat
      /\ \A i, j \in 1..Len(chains) : chains[i].nodes = chains[j].nodes => i = j
      /\ \A i \in 1..Len(chains) : Leads(chains[i], opts, t) /\ Len(chains[i].nodes) \in 2..high
  <2>1. \A x \in 2..scan.level + 1 : x \in 2..high
    BY <1>2
  <2>2. chains \in Seq(Chain)
    BY <1>3 DEF Lead
  <2>3. DOMAIN chains = 1..Len(chains) /\ Len(chains) \in Nat
    <3> HIDE DEF chains
    <3>1. QED
      BY <2>2
  <2>4. QED
    BY <1>3, <2>1, <2>2, <2>3 DEF Lead, Once
<1>5. ~scan.found.edgesTruncated /\ ~scan.found.chainsTruncated => Exhaust(chains, opts, t, 2, high)
  BY <1>1, <1>2 DEF ScanComplete
<1> HIDE DEF chains, opts, t, high
<1>6. \A i : i \in those <=> i \in 1..Len(chains) /\ Kept(chains[i].nodes, opts)
  BY <1>4 DEF Kept
<1>7. those \in SUBSET Int /\ IsFiniteSet(those)
  <2>1. those \in SUBSET (1..Len(chains))
    BY <1>6
  <2>2. IsFiniteSet(1..Len(chains))
    BY <1>4, FS_Interval
  <2> HIDE DEF those
  <2>3. IsFiniteSet(those)
    BY <2>1, <2>2, FS_Subset
  <2>4. QED
    BY <1>4, <2>1, <2>3
<1> HIDE DEF those
<1>8. /\ kept \in Seq(those) /\ Len(kept) = m /\ m \in Nat
      /\ \A k \in 1..m : kept[k] \in those
      /\ \A i \in those : \E k \in 1..m : kept[k] = i
      /\ \A j, k \in 1..m : j < k => kept[j] < kept[k]
  BY <1>7, AscendingFacts
<1> HIDE DEF kept, m
<1>9. \A k \in 1..m : kept[k] \in 1..Len(chains) /\ Kept(chains[kept[k]].nodes, opts)
  BY <1>6, <1>8
<1>10. ASSUME NEW j \in 1..m, NEW k \in 1..m, kept[j] = kept[k] PROVE j = k
  <2>1. kept[j] \in Int /\ ~(j < k) /\ ~(k < j)
    BY <1>4, <1>8, <1>9, <1>10
  <2>2. QED
    BY <1>8, <2>1
<1>11. /\ published \in Seq(Chain) /\ Len(published) = m
       /\ \A k \in 1..m : published[k] = chains[kept[k]]
  <2>1. DOMAIN kept = 1..m
    BY <1>8
  <2>2. published \in [1..m -> Chain] /\ \A k \in 1..m : published[k] = chains[kept[k]]
    BY <1>4, <1>9, <2>1
  <2> HIDE DEF published
  <2>3. QED
    BY <1>8, <2>2
<1> HIDE DEF published
<1>12. /\ Lead(published, opts, t, 2, high)
       /\ \A k \in 1..Len(published) : Kept(published[k].nodes, opts)
  <2>1. Once(published)
    <3>1. ASSUME NEW j \in 1..m, NEW k \in 1..m, published[j].nodes = published[k].nodes
          PROVE  j = k
      <4>1. chains[kept[j]].nodes = chains[kept[k]].nodes
        BY <1>11, <3>1
      <4>2. kept[j] = kept[k]
        BY <1>4, <1>9, <4>1
      <4>3. QED
        BY <1>10, <4>2
    <3>2. QED
      BY <1>11, <3>1 DEF Once
  <2>2. \A k \in 1..Len(published) : Leads(published[k], opts, t) /\ Len(published[k].nodes) \in 2..high
    BY <1>4, <1>9, <1>11
  <2>3. QED
    BY <1>9, <1>11, <2>1, <2>2 DEF Lead
<1>13. ASSUME ~scan.found.edgesTruncated, ~scan.found.chainsTruncated,
              NEW p, Path(p, opts, t), Len(p) \in 2..high, Kept(p, opts)
       PROVE  \E k \in 1..Len(published) : published[k].nodes = p
  <2>1. PICK i \in 1..Len(chains) : chains[i].nodes = p
    BY <1>5, <1>13 DEF Exhaust
  <2>2. i \in those
    BY <1>6, <1>13, <2>1
  <2>3. PICK k \in 1..m : kept[k] = i
    BY <1>8, <2>2
  <2>4. QED
    BY <1>11, <2>1, <2>3
<1>14. /\ result'.chains = published /\ result'.edgesTruncated = scan.found.edgesTruncated
       /\ result'.chainsTruncated = scan.found.chainsTruncated
       /\ result'.target = t /\ result'.opts = opts
  BY <1>1
<1>15. ResultLeads'
  BY <1>1, <1>2, <1>12, <1>13, <1>14, SameTarget, SameChains DEF ResultLeads, IsReadable, high
<1>16. TargetFits' /\ TableFits' /\ ScanFits'
  BY <1>1, TableSame DEF IInv, TargetFits, ScanFits
<1>17. QED
  BY <1>15, <1>16 DEF IInv, ResultFits

\* The nodes of a chain as slots, for as long as the memory holds the same.
LEMMA NodesAreSlots ==
  ASSUME base \in Layouts, memory \in Memories, NEW opts \in Scans, NEW t, IsReadable(t),
         NEW c, Leads(c, opts, t)
  PROVE  /\ \A k \in 1..Len(c.nodes) :
              /\ IsReadable(SlotAt(c.nodes[k]))
              /\ Place(base, SlotAt(c.nodes[k])) = c.nodes[k]
         /\ \A k \in 1..Len(c.nodes) - 1 :
              /\ memory[SlotAt(c.nodes[k])] \in Slot
              /\ Place(base, memory[SlotAt(c.nodes[k])]) = Pointer(c.nodes[k])
<1> DEFINE n == Len(c.nodes)
<1>1. n \in Nat /\ Path(c.nodes, opts, t) /\ t \in Slot
  BY DEF Leads, Path, IsReadable
<1>2. ASSUME NEW k \in 1..n
      PROVE  /\ IsReadable(SlotAt(c.nodes[k]))
             /\ Place(base, SlotAt(c.nodes[k])) = c.nodes[k]
  <2>1. CASE k = n
    <3>1. c.nodes[k] = Address(t)
      BY <1>1, <2>1 DEF Path
    <3>2. SlotAt(Address(t)) = t /\ Address(t) = Place(base, t)
      BY <1>1, Located
    <3>3. QED
      BY <3>1, <3>2
  <2>2. CASE k # n
    <3>1. k \in 1..n - 1
      BY <1>1, <2>2
    <3>2. c.nodes[k] \in Sources(opts.code)
      BY <1>1, <3>1 DEF Path
    <3>3. /\ SlotAt(c.nodes[k]) \in Slot /\ Address(SlotAt(c.nodes[k])) = c.nodes[k]
          /\ "r" \in Mappings[SlotAt(c.nodes[k])[1]].perms
      BY <3>2, SourceFacts
    <3>4. QED
      BY <3>3, Located DEF IsReadable
  <2>3. QED
    BY <2>1, <2>2
<1>3. ASSUME NEW k \in 1..n - 1
      PROVE  /\ memory[SlotAt(c.nodes[k])] \in Slot
             /\ Place(base, memory[SlotAt(c.nodes[k])]) = Pointer(c.nodes[k])
  <2> DEFINE a == c.nodes[k]
             b == c.nodes[k + 1]
  <2>1. k + 1 \in 1..n
    BY <1>1
  <2>2. b \in Nat /\ b > opts.maxOffset /\ opts.maxOffset \in Nat
    BY <1>1, <2>1, AboveOffsets
  <2>3. a \in Sources(opts.code) /\ b - Pointer(a) \in Window(opts)
    BY <1>1 DEF Path
  <2>4. SlotAt(a) \in Slot /\ Pointer(a) \in Nat
    BY <2>3, SourceFacts
  <2> HIDE DEF a, b
  <2>5. Pointer(a) # 0
    <3>1. b - Pointer(a) <= opts.maxOffset
      BY <2>2, <2>3 DEF Window
    <3>2. QED
      BY <2>2, <2>4, <3>1
  <2>6. memory[SlotAt(a)] \in Slot \cup {Null} /\ memory[SlotAt(a)] # Null
    <3>1. memory[SlotAt(a)] \in Slot \cup {Null}
      BY <2>4, PointerScanAssumption
    <3>2. QED
      BY <2>5, <3>1 DEF Pointer
  <2>7. memory[SlotAt(a)] \in Slot /\ Address(memory[SlotAt(a)]) = Pointer(a)
    BY <2>6 DEF Pointer
  <2>8. QED
    BY <2>7, Located DEF a
<1>4. QED
  BY <1>2, <1>3

LEMMA RootFacts ==
  ASSUME base \in Layouts, memory \in Memories, NEW a \in Nat,
         SlotAt(a) \in Slot, Place(base, SlotAt(a)) = a
  PROVE  Root(a) = RootUnder(base, SlotAt(a)) /\ Root(a) \in RootType
<1> DEFINE s == SlotAt(a)
           path == Mappings[s[1]].path
           at == Mappings[s[1]].offset + s[2]
           paths == {""} \cup {Mappings[n].path : n \in Names}
           module == [kind |-> "MODULE", module |-> path, at |-> at]
           absolute == [kind |-> "ABSOLUTE", module |-> "", at |-> a]
<1>1. s[1] \in Names /\ s[2] \in 0..Mappings[s[1]].size - 1
  BY Slots
<1>2. Mappings[s[1]].offset \in Nat /\ Mappings[s[1]].size \in Nat
  BY <1>1, PointerScanAssumption
<1>3. at \in Nat
  BY <1>1, <1>2
<1>4. path \in paths /\ "" \in paths /\ RootType = [kind : {"MODULE", "ABSOLUTE"}, module : paths, at : Nat]
  BY <1>1 DEF RootType
<1>5. module \in RootType /\ absolute \in RootType
  <2> HIDE DEF path, paths, at
  <2>1. QED
    BY <1>3, <1>4
<1>6. CASE IsFile(s[1])
  <2>1. Root(a) = module
    BY <1>6 DEF Root
  <2>2. RootUnder(base, s) = module
    BY <1>6 DEF RootUnder
  <2> HIDE DEF module
  <2>3. QED
    BY <1>5, <2>1, <2>2
<1>7. CASE ~IsFile(s[1])
  <2>1. Root(a) = absolute
    BY <1>7 DEF Root
  <2>2. RootUnder(base, s) = [kind |-> "ABSOLUTE", module |-> "", at |-> Place(base, s)]
    BY <1>7 DEF RootUnder
  <2>3. RootUnder(base, s) = absolute
    BY <2>2
  <2> HIDE DEF absolute
  <2>4. QED
    BY <1>5, <2>1, <2>3
<1>8. QED
  BY <1>6, <1>7

LEMMA AddChainFits ==
  ASSUME IInv, AddChain
  PROVE  IInv'
<1>1. PICK i \in DOMAIN result.chains :
        table' = Append(table,
          [root |-> Root(result.chains[i].nodes[1]), offsets |-> result.chains[i].offsets, layout |-> base,
           slots |-> [k \in DOMAIN result.chains[i].nodes |-> SlotAt(result.chains[i].nodes[k])]])
  BY DEF AddChain
<1>2. /\ base' = base /\ memory' = memory /\ scan' = scan /\ scan = Idle /\ result' = result
      /\ cancel' = cancel /\ scans' = scans /\ Len(table) < MaxTable
  BY DEF AddChain
<1>3. base \in Layouts /\ memory \in Memories /\ table \in Seq(Entry)
      /\ \A j \in 1..Len(table) : EntryFits(table[j])
  BY DEF IInv, TargetFits, TableFits
<1> DEFINE c == result.chains[i]
           n == Len(c.nodes)
           slots == [k \in DOMAIN c.nodes |-> SlotAt(c.nodes[k])]
           e == [root |-> Root(c.nodes[1]), offsets |-> c.offsets, layout |-> base, slots |-> slots]
<1>4. ResultLeads
  <2>1. result # NoResult
    <3>1. CASE result = NoResult
      <4>1. DOMAIN result.chains = {}
        BY <3>1 DEF NoResult
      <4>2. QED
        BY <4>1
    <3>2. QED
      BY <3>1
  <2>2. QED
    BY <2>1 DEF IInv, ResultFits
<1>5. /\ result.opts \in Scans /\ IsReadable(result.target)
      /\ Leads(c, result.opts, result.target) /\ Len(c.nodes) >= 2
  <2>1. result.chains \in Seq(Chain)
    BY <1>4 DEF ResultLeads, Lead
  <2>2. i \in 1..Len(result.chains)
    BY <2>1
  <2>3. result.opts \in Scans /\ IsReadable(result.target) /\ result.opts.depth \in Nat
    BY <1>4, PointerScanAssumption DEF ResultLeads
  <2>4. Leads(c, result.opts, result.target) /\ Len(c.nodes) \in 2..(result.opts.depth + 1)
    BY <1>4, <2>2 DEF ResultLeads, Lead
  <2>5. QED
    BY <2>3, <2>4
<1> HIDE DEF c
<1>6. /\ c.nodes \in Seq(Nat) /\ c.offsets \in Seq(Nat) /\ n \in Nat /\ DOMAIN c.nodes = 1..n
      /\ Len(c.offsets) = n - 1 /\ Len(c.offsets) \in Nat
      /\ \A k \in 1..n - 1 : Pointer(c.nodes[k]) + c.offsets[k] = c.nodes[k + 1]
  BY <1>5 DEF Leads, Path, Measured, Chain
<1>7. /\ \A k \in 1..n : /\ IsReadable(SlotAt(c.nodes[k]))
                         /\ Place(base, SlotAt(c.nodes[k])) = c.nodes[k]
      /\ \A k \in 1..n - 1 : /\ memory[SlotAt(c.nodes[k])] \in Slot
                             /\ Place(base, memory[SlotAt(c.nodes[k])]) = Pointer(c.nodes[k])
  BY <1>3, <1>5, NodesAreSlots
<1>8. /\ slots \in Seq(Slot) /\ Len(slots) = n
      /\ \A k \in 1..n : slots[k] = SlotAt(c.nodes[k])
  <2>1. slots \in [1..n -> Slot] /\ \A k \in 1..n : slots[k] = SlotAt(c.nodes[k])
    BY <1>6, <1>7 DEF IsReadable
  <2> HIDE DEF slots, n
  <2>2. QED
    BY <1>6, <2>1
<1> HIDE DEF slots
<1>9. Root(c.nodes[1]) = RootUnder(base, slots[1]) /\ Root(c.nodes[1]) \in RootType
  <2>1. 1 \in 1..n /\ c.nodes[1] \in Nat
    BY <1>5, <1>6
  <2>2. SlotAt(c.nodes[1]) \in Slot /\ Place(base, SlotAt(c.nodes[1])) = c.nodes[1]
    BY <1>7, <2>1 DEF IsReadable
  <2>3. QED
    BY <1>3, <1>8, <2>1, <2>2, RootFacts
<1>10. /\ e.root = Root(c.nodes[1]) /\ e.offsets = c.offsets /\ e.layout = base /\ e.slots = slots
       /\ e \in Entry
  BY <1>3, <1>6, <1>8, <1>9 DEF Entry
<1>11. table' = Append(table, e)
  BY <1>1 DEF c, slots
<1> HIDE DEF e, n
<1>12. EntryFits(e)
  <2>1. \A k \in 1..Len(slots) : IsReadable(slots[k])
    BY <1>7, <1>8
  <2>2. ASSUME NEW k \in 1..n - 1
        PROVE  /\ memory[slots[k]] \in Slot
               /\ Place(base, memory[slots[k]]) + c.offsets[k] = Place(base, slots[k + 1])
    <3>1. k \in 1..n /\ k + 1 \in 1..n
      BY <1>6
    <3>2. slots[k] = SlotAt(c.nodes[k]) /\ slots[k + 1] = SlotAt(c.nodes[k + 1])
      BY <1>8, <3>1
    <3>3. Place(base, SlotAt(c.nodes[k + 1])) = c.nodes[k + 1]
      BY <1>7, <3>1
    <3>4. QED
      BY <1>6, <1>7, <3>2, <3>3
  <2>3. Len(e.slots) >= 2 /\ Len(e.offsets) = Len(e.slots) - 1
    BY <1>5, <1>6, <1>8, <1>10 DEF n
  <2>4. \A k \in 1..Len(e.offsets) :
          /\ memory[e.slots[k]] \in Slot
          /\ Place(e.layout, memory[e.slots[k]]) + e.offsets[k] = Place(e.layout, e.slots[k + 1])
    BY <1>6, <1>10, <2>2
  <2>5. e.layout \in Layouts /\ e.slots \in Seq(Slot) /\ e.offsets \in Seq(Nat)
    BY <1>3, <1>6, <1>8, <1>10
  <2>6. e.root = RootUnder(e.layout, e.slots[1])
    BY <1>9, <1>10
  <2>7. \A k \in 1..Len(e.slots) : IsReadable(e.slots[k])
    BY <1>10, <2>1
  <2>8. QED
    BY <2>3, <2>4, <2>5, <2>6, <2>7 DEF EntryFits
<1>13. TableFits'
  <2>1. /\ table' \in Seq(Entry) /\ Len(table') = Len(table) + 1
        /\ \A j \in 1..Len(table) : table'[j] = table[j]
        /\ table'[Len(table) + 1] = e
    <3> HIDE DEF Entry
    <3>1. QED
      BY <1>3, <1>10, <1>11
  <2>2. \A j \in 1..Len(table') : EntryFits(table'[j])
    <3>1. \A j \in 1..Len(table) + 1 : j \in 1..Len(table) \/ j = Len(table) + 1
      BY <1>3
    <3>2. QED
      BY <1>3, <1>12, <2>1, <3>1
  <2>3. \A j \in 1..Len(table') : EntryFits(table[j])'
    BY <1>2, <2>2, SameChains
  <2>4. Len(table') <= MaxTable
    BY <1>2, <1>3, <2>1, PointerScanAssumption
  <2>5. QED
    BY <2>1, <2>3, <2>4 DEF TableFits
<1>14. TargetFits' /\ ScanFits' /\ ResultFits'
  BY <1>2, ResultsSame DEF IInv, TargetFits, ScanFits
<1>15. QED
  BY <1>13, <1>14 DEF IInv

LEMMA RestartFits ==
  ASSUME IInv, Restart
  PROVE  IInv'
<1>1. /\ scan' = scan /\ scan = Idle /\ base' \in Layouts /\ memory' = memory
      /\ result' = NoResult /\ table' = table /\ cancel' = cancel /\ scans' = scans
  BY DEF Restart
<1>2. TargetFits' /\ ScanFits' /\ ResultFits'
  BY <1>1 DEF IInv, TargetFits, ScanFits, ResultFits
<1>3. TableFits'
  BY <1>1, TableSame DEF IInv
<1>4. QED
  BY <1>2, <1>3 DEF IInv

LEMMA StutterFits ==
  ASSUME IInv, UNCHANGED vars
  PROVE  IInv'
<1>1. /\ base' = base /\ memory' = memory /\ scan' = scan /\ cancel' = cancel
      /\ result' = result /\ table' = table /\ scans' = scans
  BY DEF vars
<1>2. TargetFits' /\ ResultFits' /\ TableFits'
  BY <1>1, ResultsSame, TableSame DEF IInv, TargetFits
<1>3. ScanFits'
  <2>1. CASE scan = Idle
    BY <1>1, <2>1 DEF ScanFits
  <2>2. CASE scan # Idle
    <3>1. ScanTyped /\ ScanLeads /\ ScanComplete
      BY <2>2 DEF IInv, ScanFits
    <3>2. ScanTyped' /\ ScanLeads'
      BY <1>1, <3>1, SameTarget, SameChains DEF ScanTyped, IsReadable, ScanLeads, Reached
    <3>3. ScanComplete'
      BY <1>1, <3>1, SameTarget, SameChains DEF ScanComplete
    <3>4. QED
      BY <3>2, <3>3 DEF ScanFits
  <2>3. QED
    BY <2>1, <2>2
<1>4. QED
  BY <1>2, <1>3 DEF IInv

\* The invariant holds in every state of a scan, a result and a table.
THEOREM Invariance == Spec => []IInv
<1>1. Init => IInv
  BY InitFits
<1>2. ASSUME IInv, [Next]_vars
      PROVE  IInv'
  <2>1. CASE ScanStep
    BY <1>2, <2>1, BeginFits, StartLevelFits, TraverseFits, NoEdgesFits, ExtendFits, PublishFits,
       CancelFits DEF ScanStep
  <2>2. CASE AddChain
    BY <1>2, <2>2, AddChainFits
  <2>3. CASE Restart
    BY <1>2, <2>3, RestartFits
  <2>4. CASE UNCHANGED vars
    BY <1>2, <2>4, StutterFits
  <2>5. QED
    BY <1>2, <2>1, <2>2, <2>3, <2>4 DEF Next
<1>3. QED
  BY <1>1, <1>2, PTL DEF Spec

---------------------------------------------------------------------------
(* The properties *)

\* Every variable has its type; no level keeps more edges, or extends to
\* more chains, than it may.
THEOREM TypeCorrect == Spec => []TypeOK
<1>1. ASSUME IInv PROVE TypeOK
  <2>1. base \in Layouts /\ memory \in Memories /\ cancel \in BOOLEAN /\ scans <= MaxScans
    BY <1>1, PointerScanAssumption DEF IInv, TargetFits
  <2>2. scan.at \in {"idle", "level", "traverse", "extend", "publish"}
    BY <1>1 DEF IInv, ScanFits, ScanTyped, Idle
  <2>3. ASSUME scan # Idle
        PROVE  /\ scan.level \in 1..scan.opts.depth
               /\ Cardinality(scan.edges) <= MaxEdges
               /\ scan.level > 1 => Len(scan.frontier) <= MaxChains
               /\ scan.found.chains \in Seq(Chain)
    BY <1>1, <2>3 DEF IInv, ScanFits, ScanTyped, ScanLeads, Lead
  <2>4. result.chains \in Seq(Chain)
    <3>1. CASE result = NoResult
      BY <3>1 DEF NoResult
    <3>2. CASE ResultLeads
      BY <3>2 DEF ResultLeads, Lead
    <3>3. QED
      BY <1>1, <3>1, <3>2 DEF IInv, ResultFits
  <2>5. Len(table) <= MaxTable
    BY <1>1 DEF IInv, TableFits
  <2>6. QED
    BY <2>1, <2>2, <2>3, <2>4, <2>5 DEF TypeOK
<1>2. QED
  BY <1>1, Invariance, PTL

\* Every chain of a result leads over sources to the target, within the
\* depth, no node twice and no chain twice, with the offsets it shows.
THEOREM ChainsCorrect == Spec => []ChainsLead
<1>1. ASSUME IInv PROVE ChainsLead
  <2> DEFINE chains == result.chains
             opts == result.opts
             t == result.target
  <2>1. CASE result = NoResult
    <3>1. DOMAIN chains = {}
      BY <2>1 DEF NoResult
    <3>2. QED
      BY <3>1 DEF ChainsLead, IsInjective
  <2>2. CASE ResultLeads
    <3>1. /\ chains \in Seq(Chain) /\ Once(chains)
          /\ \A i \in 1..Len(chains) : Leads(chains[i], opts, t) /\ Len(chains[i].nodes) \in 2..opts.depth + 1
          /\ \A i \in 1..Len(chains) : Kept(chains[i].nodes, opts)
      BY <2>2 DEF ResultLeads, Lead
    <3>2. DOMAIN chains = 1..Len(chains)
      <4> HIDE DEF chains
      <4>1. QED
        BY <3>1
    <3>3. ASSUME NEW i \in DOMAIN chains
          PROVE  /\ IsChain(chains[i].nodes, opts, t)
                 /\ Len(chains[i].offsets) = Len(chains[i].nodes) - 1
                 /\ \A k \in DOMAIN chains[i].offsets :
                      Pointer(chains[i].nodes[k]) + chains[i].offsets[k] = chains[i].nodes[k + 1]
      <4> DEFINE c == chains[i]
      <4>1. /\ c \in Chain /\ Path(c.nodes, opts, t) /\ Measured(c)
            /\ Len(c.nodes) \in 2..opts.depth + 1 /\ Kept(c.nodes, opts)
        BY <3>1, <3>2 DEF Leads
      <4> HIDE DEF chains, opts, t, c
      <4>2. /\ c.nodes \in Seq(Nat) /\ DOMAIN c.nodes = 1..Len(c.nodes)
            /\ c.offsets \in Seq(Nat) /\ DOMAIN c.offsets = 1..Len(c.offsets)
        BY <4>1 DEF Chain
      <4>3. IsInjective(c.nodes)
        BY <4>1, <4>2 DEF Path, IsInjective
      <4>4. IsChain(c.nodes, opts, t)
        BY <4>1, <4>3 DEF IsChain, Path, Kept
      <4>5. QED
        BY <4>1, <4>2, <4>4 DEF Measured, c
    <3>4. IsInjective([i \in DOMAIN chains |-> chains[i].nodes])
      BY <3>1, <3>2 DEF Once, IsInjective
    <3>5. QED
      BY <3>3, <3>4 DEF ChainsLead
  <2>3. QED
    BY <1>1, <2>1, <2>2 DEF IInv, ResultFits
<1>2. QED
  BY <1>1, Invariance, PTL

\* A result that shows neither flag holds every chain there is.
THEOREM Complete == Spec => []CompleteUnlessFlagged
<1>1. ASSUME IInv PROVE CompleteUnlessFlagged
  <2> DEFINE opts == result.opts
             t == result.target
             found == {c.nodes : c \in Range(result.chains)}
  <2>1. SUFFICES ASSUME result # NoResult, ~result.edgesTruncated, ~result.chainsTruncated,
                        NEW d \in 1..opts.depth, NEW p \in [1..d -> Sources(opts.code)],
                        IsChain(p \o <<Address(t)>>, opts, t)
                 PROVE  p \o <<Address(t)>> \in found
    BY DEF CompleteUnlessFlagged
  <2>2. ResultLeads /\ base \in Layouts /\ memory \in Memories
    BY <1>1, <2>1 DEF IInv, ResultFits, TargetFits
  <2>3. opts \in Scans /\ t \in Slot /\ opts.depth \in Nat /\ d \in Nat
    BY <2>2, PointerScanAssumption DEF ResultLeads, IsReadable
  <2>4. Address(t) \in Nat /\ Sources(opts.code) \subseteq Nat
    <3>1. Sources(opts.code) \subseteq Nat
      BY <2>2, SourceFacts
    <3>2. QED
      BY <2>2, <2>3, <3>1, Located
  <2> DEFINE nodes == p \o <<Address(t)>>
             n == Len(nodes)
  <2>5. nodes \in Seq(Nat) /\ n \in Nat /\ DOMAIN nodes = 1..n
    <3>1. p \in [1..d -> Nat]
      BY <2>1, <2>4
    <3>2. p \in Seq(Nat)
      BY <2>3, <3>1
    <3>3. <<Address(t)>> \in Seq(Nat)
      BY <2>4
    <3>4. nodes \in Seq(Nat)
      BY <3>2, <3>3
    <3> HIDE DEF nodes
    <3>5. QED
      BY <3>4
  <2>6. /\ n \in 2..opts.depth + 1 /\ nodes[n] = Address(t) /\ IsInjective(nodes)
        /\ \A i \in 1..n - 1 :
             nodes[i] \in Sources(opts.code) /\ nodes[i + 1] - Pointer(nodes[i]) \in Window(opts)
        /\ Kept(nodes, opts)
    <3>1. IsChain(nodes, opts, t)
      BY <2>1
    <3> HIDE DEF nodes, opts, t
    <3>2. QED
      BY <3>1 DEF IsChain, Kept
  <2> HIDE DEF nodes
  <2>7. Path(nodes, opts, t)
    <3>1. \A i, j \in 1..n : nodes[i] = nodes[j] => i = j
      BY <2>5, <2>6 DEF IsInjective
    <3>2. QED
      BY <2>5, <2>6, <3>1 DEF Path
  <2>8. PICK i \in 1..Len(result.chains) : result.chains[i].nodes = nodes
    BY <2>1, <2>2, <2>6, <2>7 DEF ResultLeads
  <2>9. result.chains[i] \in Range(result.chains)
    <3>1. result.chains \in Seq(Chain)
      BY <2>2 DEF ResultLeads, Lead
    <3>2. QED
      BY <3>1 DEF Range
  <2>10. nodes \in found
    BY <2>8, <2>9
  <2>11. QED
    BY <2>10 DEF nodes
<1>2. QED
  BY <1>1, Invariance, PTL

\* The walk of follow_chain.
Walk(entry, f) ==
  f = [k \in 0..Len(entry.offsets) |->
         IF k = 0 THEN RootAddress(entry.root) ELSE Hop(f[k - 1], entry.offsets[k])]

LEMMA WalkUnique ==
  ASSUME NEW entry, Len(entry.offsets) \in Nat, NEW g, Walk(entry, g)
  PROVE  Resolved(entry) = LET a == g[Len(entry.offsets)] IN IF Readable(a) THEN a ELSE 0
<1> DEFINE n == Len(entry.offsets)
           f == CHOOSE h : Walk(entry, h)
           step(h, k) == IF k = 0 THEN RootAddress(entry.root) ELSE Hop(h[k - 1], entry.offsets[k])
<1>1. Walk(entry, f)
  OBVIOUS
<1>2. Resolved(entry) = IF Readable(f[n]) THEN f[n] ELSE 0
  BY DEF Resolved, Walk
<1> HIDE DEF f
<1>3. \A k \in 0..n : f[k] = step(f, k) /\ g[k] = step(g, k)
  BY <1>1 DEF Walk
<1>4. f[n] = g[n]
  <2> DEFINE T == {k \in 0..n : f[k] # g[k]}
  <2>1. SUFFICES ASSUME T # {} PROVE FALSE
    BY DEF T
  <2>2. T \in SUBSET Nat
    OBVIOUS
  <2>3. PICK k \in T : \A m \in T : k <= m
    <3> HIDE DEF T
    <3>1. QED
      BY <2>1, <2>2, LeastNumber
  <2>4. k # 0
    <3>1. f[0] = g[0]
      BY <1>3
    <3>2. QED
      BY <3>1
  <2>5. k - 1 \in 0..n /\ ~(k <= k - 1)
    BY <2>4
  <2>6. f[k - 1] = g[k - 1]
    BY <2>3, <2>5
  <2>7. f[k] = Hop(f[k - 1], entry.offsets[k]) /\ g[k] = Hop(g[k - 1], entry.offsets[k])
    BY <1>3, <2>4
  <2>8. QED
    BY <2>6, <2>7
<1>5. QED
  BY <1>2, <1>4

\* The mapping of the root is the first at its file offset.
LEMMA RootFound ==
  ASSUME base \in Layouts, memory \in Memories, NEW l \in Layouts, NEW s \in Slot,
         NEW root, root = RootUnder(l, s),
         IsFile(s[1]) => FirstInFile(s),
         l = base \/ IsFile(s[1])
  PROVE  RootAddress(root) = Address(s)
<1>1. /\ s[1] \in Names /\ s[2] \in 0..Mappings[s[1]].size - 1
      /\ Mappings[s[1]].offset \in Nat /\ Mappings[s[1]].size \in Nat /\ base[s[1]] \in Nat
      /\ Address(s) = base[s[1]] + s[2]
  <2>1. s[1] \in Names /\ s[2] \in 0..Mappings[s[1]].size - 1
    BY Slots
  <2>2. Mappings[s[1]].offset \in Nat /\ Mappings[s[1]].size \in Nat /\ base[s[1]] \in Nat
    BY <2>1, PointerScanAssumption, PlacesDiffer
  <2>3. QED
    BY <2>1, <2>2 DEF Address
<1>2. CASE IsFile(s[1])
  <2>1. /\ root.kind = "MODULE" /\ root.module = Mappings[s[1]].path
        /\ root.at = Mappings[s[1]].offset + s[2]
    BY <1>2 DEF RootUnder
  <2>2. HoldsOffset(s[1], root)
    BY <1>1, <2>1 DEF HoldsOffset
  <2> DEFINE such == {n \in Names : HoldsOffset(n, root)}
             first == CHOOSE n \in such : \A m \in such : base[n] <= base[m]
  <2>3. s[1] \in such /\ \A m \in such : base[s[1]] <= base[m]
    BY <1>1, <1>2, <2>1, <2>2 DEF HoldsOffset, FirstInFile
  <2>4. first = s[1]
    <3>1. first \in such /\ \A m \in such : base[first] <= base[m]
      BY <2>3
    <3>2. /\ first \in Names /\ HoldsOffset(first, root)
          /\ base[first] <= base[s[1]] /\ base[s[1]] <= base[first]
      BY <2>3, <3>1
    <3> HIDE DEF first, such
    <3>3. /\ base[first] \in Nat /\ base[s[1]] <= base[first]
          /\ Mappings[first].size \in Nat /\ Mappings[first].offset \in Nat
      BY <2>1, <3>2, PlacesDiffer, PointerScanAssumption
    <3>4. base[first] = base[s[1]]
      BY <1>1, <3>2, <3>3
    <3>5. Mappings[first].size > 0 /\ Mappings[s[1]].size > 0
      BY <1>1, <3>2, <3>3 DEF HoldsOffset
    <3>6. QED
      BY <1>1, <3>2, <3>3, <3>4, <3>5, PlacesDiffer
  <2>5. RootAddress(root) = base[first] + (root.at - Mappings[first].offset)
    BY <2>1, <2>3 DEF RootAddress
  <2> HIDE DEF first, such
  <2>6. QED
    BY <1>1, <2>1, <2>4, <2>5
<1>3. CASE ~IsFile(s[1])
  <2>1. root.kind = "ABSOLUTE" /\ root.at = Place(l, s) /\ root.kind # "MODULE"
    BY <1>3 DEF RootUnder
  <2>2. Place(base, s) = Address(s)
    BY <1>1 DEF Place
  <2>3. QED
    BY <1>3, <2>1, <2>2 DEF RootAddress
<1>4. QED
  BY <1>2, <1>3

\* One hop leads from a node of the chain to the next.
LEMMA HopLeads ==
  ASSUME base \in Layouts, memory \in Memories, NEW e, EntryFits(e),
         e.layout = base \/ Relocatable(e.slots),
         NEW k \in 1..Len(e.offsets)
  PROVE  Hop(Address(e.slots[k]), e.offsets[k]) = Address(e.slots[k + 1])
<1> DEFINE s == e.slots[k]
           q == e.slots[k + 1]
           o == e.offsets[k]
           p == memory[s]
           l == e.layout
<1>1. /\ e.slots \in Seq(Slot) /\ e.offsets \in Seq(Nat) /\ Len(e.slots) \in Nat
      /\ Len(e.offsets) = Len(e.slots) - 1 /\ l \in Layouts
  BY DEF EntryFits
<1>2. k \in 1..Len(e.slots) - 1 /\ k \in 1..Len(e.slots) /\ k + 1 \in 1..Len(e.slots)
  BY <1>1
<1>3. /\ IsReadable(s) /\ s \in Slot /\ q \in Slot /\ p \in Slot
      /\ Place(l, p) + o = Place(l, q) /\ o \in Nat
  <2>1. IsReadable(s) /\ IsReadable(q)
    BY <1>2 DEF EntryFits
  <2>2. p \in Slot /\ Place(l, p) + o = Place(l, q)
    BY DEF EntryFits
  <2>3. o \in Nat
    BY <1>1
  <2> HIDE DEF s, q
  <2>4. s \in Slot /\ q \in Slot
    BY <2>1 DEF IsReadable
  <2>5. QED
    BY <2>1, <2>2, <2>3, <2>4
<1>4. base = l \/ p[1] = q[1]
  BY <1>2 DEF Relocatable
<1> HIDE DEF s, q, o, p, l
<1>5. /\ p[1] \in Names /\ p[2] \in Nat /\ q[1] \in Names /\ q[2] \in Nat
      /\ l[p[1]] \in Nat /\ base[p[1]] \in Nat
  <2>1. /\ p[1] \in Names /\ p[2] \in 0..Mappings[p[1]].size - 1
        /\ q[1] \in Names /\ q[2] \in 0..Mappings[q[1]].size - 1
    BY <1>3, Slots
  <2>2. \A n \in Names : l[n] \in Nat /\ base[n] \in Nat
    BY <1>1, PlacesDiffer
  <2>3. QED
    BY <2>1, <2>2
<1>6. Address(p) + o = Address(q)
  <2>1. CASE base = l
    BY <1>3, <2>1, Located
  <2>2. CASE p[1] = q[1]
    <3> DEFINE a == l[p[1]]
               b == base[p[1]]
               x == p[2]
               y == q[2]
    <3>1. a + x + o = a + y /\ Address(p) = b + x /\ Address(q) = b + y
      BY <1>3, <2>2 DEF Place, Address
    <3>2. a \in Nat /\ b \in Nat /\ x \in Nat /\ y \in Nat /\ o \in Nat
      BY <1>3, <1>5
    <3> HIDE DEF a, b, x, y
    <3>3. b + x + o = b + y
      BY <3>1, <3>2
    <3>4. QED
      BY <3>1, <3>3
  <2>3. QED
    BY <1>4, <2>1, <2>2
<1>7. Readable(Address(s)) /\ Pointer(Address(s)) = Address(p)
  <2>1. Inside(Address(s), s[1]) /\ SlotAt(Address(s)) = s
    BY <1>3, Located
  <2>2. s[1] \in Names /\ "r" \in Mappings[s[1]].perms
    BY <1>3, Slots DEF IsReadable
  <2>3. p # Null
    BY <1>3, PointerScanAssumption
  <2>4. QED
    BY <2>1, <2>2, <2>3 DEF Readable, Pointer, p
<1>8. QED
  BY <1>6, <1>7 DEF Hop, s, q, o

\* A chain of the table leads to its value as long as the mappings stay, and
\* from a module, over hops within mappings, in every later run, wherever the
\* mapping of a module's root is the first to hold its file offset.
THEOREM Resolves == Spec => []ResolvesToTarget
<1>1. ASSUME IInv PROVE ResolvesToTarget
  <2>1. SUFFICES ASSUME NEW i \in DOMAIN table, NEW e, e = table[i],
                        IsFile(e.slots[1][1]) => FirstInFile(e.slots[1]),
                        e.layout = base \/ (IsFile(e.slots[1][1]) /\ Relocatable(e.slots))
                 PROVE  Resolved(e) = Address(Last(e.slots))
    BY DEF ResolvesToTarget
  <2>2. base \in Layouts /\ memory \in Memories /\ EntryFits(e)
    <3>1. table \in Seq(Entry) /\ \A j \in 1..Len(table) : EntryFits(table[j])
      BY <1>1 DEF IInv, TableFits
    <3>2. i \in 1..Len(table)
      <4> HIDE DEF Entry
      <4>1. QED
        BY <2>1, <3>1
    <3>3. QED
      BY <1>1, <2>1, <3>1, <3>2 DEF IInv, TargetFits
  <2> DEFINE n == Len(e.offsets)
             g == [k \in 0..n |-> Address(e.slots[k + 1])]
  <2>3. /\ e.slots \in Seq(Slot) /\ n \in Nat /\ Len(e.slots) = n + 1
        /\ \A k \in 1..Len(e.slots) : IsReadable(e.slots[k]) /\ e.slots[k] \in Slot
    BY <2>2 DEF EntryFits, IsReadable
  <2>4. RootAddress(e.root) = Address(e.slots[1])
    <3>1. e.slots[1] \in Slot /\ e.layout \in Layouts /\ e.root = RootUnder(e.layout, e.slots[1])
      BY <2>2, <2>3 DEF EntryFits
    <3>2. QED
      BY <2>1, <2>2, <3>1, RootFound
  <2>5. \A k \in 1..n : Hop(Address(e.slots[k]), e.offsets[k]) = Address(e.slots[k + 1])
    BY <2>1, <2>2, HopLeads
  <2>6. Walk(e, g)
    <3>1. ASSUME NEW k \in 0..n
          PROVE  g[k] = IF k = 0 THEN RootAddress(e.root) ELSE Hop(g[k - 1], e.offsets[k])
      <4>1. CASE k = 0
        BY <2>4, <4>1
      <4>2. CASE k # 0
        <5>1. k \in 1..n /\ k - 1 \in 0..n /\ (k - 1) + 1 = k
          BY <2>3, <4>2
        <5>2. g[k - 1] = Address(e.slots[k])
          BY <5>1
        <5>3. QED
          BY <2>5, <4>2, <5>1, <5>2
      <4>3. QED
        BY <4>1, <4>2
    <3>2. g = [k \in 0..n |-> g[k]]
      OBVIOUS
    <3> HIDE DEF g
    <3>3. QED
      BY <3>1, <3>2 DEF Walk
  <2>7. g[n] = Address(e.slots[n + 1]) /\ Readable(g[n])
    <3>1. g[n] = Address(e.slots[n + 1])
      BY <2>3
    <3>2. n + 1 \in 1..Len(e.slots)
      BY <2>3
    <3>3. IsReadable(e.slots[n + 1]) /\ e.slots[n + 1] \in Slot
      BY <2>3, <3>2
    <3>4. Readable(Address(e.slots[n + 1]))
      BY <2>2, <3>3, Located, Slots DEF Readable, IsReadable
    <3>5. QED
      BY <3>1, <3>4
  <2> HIDE DEF g
  <2>8. Resolved(e) = g[n]
    BY <2>3, <2>6, <2>7, WalkUnique
  <2>9. Last(e.slots) = e.slots[n + 1]
    BY <2>3 DEF Last
  <2>10. QED
    BY <2>7, <2>8, <2>9
<1>2. QED
  BY <1>1, Invariance, PTL
=============================================================================
