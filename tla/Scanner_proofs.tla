--------------------------- MODULE Scanner_proofs ---------------------------
EXTENDS Scanner, Sorting_proofs, SequenceTheorems

---------------------------------------------------------------------------
(* The target's memory *)

RegionOf(r) == Regions[r].start..(Regions[r].end - 1)

LEMMA RegionFacts ==
  /\ \A r \in DOMAIN Regions : /\ Regions[r].start \in Nat /\ Regions[r].end \in Nat
                               /\ Regions[r].start < Regions[r].end
  /\ Addr \subseteq Nat
  /\ \A r \in DOMAIN Regions : RegionOf(r) \subseteq Addr
  /\ \A r, s \in DOMAIN Regions : r < s => Regions[r].end <= Regions[s].start
  /\ DOMAIN Regions \subseteq Nat
<1>1. /\ \A r \in DOMAIN Regions : Regions[r] \in [start : Nat, end : Nat]
      /\ DOMAIN Regions \subseteq Nat
  <2> DEFINE Segment == [start : Nat, end : Nat]
  <2>1. Regions \in Seq(Segment)
    BY ScannerAssumption
  <2> HIDE DEF Segment
  <2>2. DOMAIN Regions = 1..Len(Regions) /\ Len(Regions) \in Nat
    BY <2>1
  <2>3. \A r \in 1..Len(Regions) : Regions[r] \in Segment
    BY <2>1
  <2>4. QED
    BY <2>2, <2>3 DEF Segment
<1>2. Addr \subseteq Nat
  BY <1>1 DEF Addr
<1>3. \A r \in DOMAIN Regions : RegionOf(r) \subseteq Addr
  BY DEF RegionOf, Addr
<1>4. QED
  BY <1>1, <1>2, <1>3, ScannerAssumption

LEMMA AddrInts == Addr \subseteq Int
BY RegionFacts

LEMMA RegionsApart ==
  ASSUME NEW r \in DOMAIN Regions, NEW s \in DOMAIN Regions,
         NEW a \in RegionOf(r), a \in RegionOf(s)
  PROVE  r = s
BY RegionFacts DEF RegionOf

LEMMA ReadableIsMapped ==
  ASSUME mapped \subseteq DOMAIN Regions, NEW a \in Int, Readable(a)
  PROVE  /\ a \in Addr
         /\ \E r \in mapped \ Refused : a \in RegionOf(r)
<1>1. PICK r \in mapped \ Refused : Regions[r].start <= a /\ a < Regions[r].end
  BY DEF Readable
<1>2. a \in RegionOf(r)
  BY <1>1, RegionFacts DEF RegionOf
<1>3. QED
  BY <1>2, RegionFacts

\* A read returns the bytes up to the first that cannot be read.
LEMMA GotFacts ==
  ASSUME NEW a \in Int, NEW n \in Nat
  PROVE  /\ Got(a, n) \in 0..n
         /\ \A d \in 0..(Got(a, n) - 1) : Readable(a + d)
         /\ Got(a, n) < n => ~Readable(a + Got(a, n))
<1> DEFINE T == {k \in 0..n : k < n => ~Readable(a + k)}
           Right(k) == /\ \A d \in 0..(k - 1) : Readable(a + d)
                       /\ k < n => ~Readable(a + k)
<1>1. n \in T /\ T \in SUBSET Nat
  OBVIOUS
<1>2. PICK k \in T : \A m \in T : k <= m
  BY <1>1, LeastNumber
<1>3. k \in 0..n /\ Right(k)
  <2>1. ASSUME NEW d \in 0..(k - 1), ~Readable(a + d) PROVE FALSE
    <3>1. d \in T /\ d < k
      BY <2>1
    <3>2. QED
      BY <1>2, <3>1
  <2>2. QED
    BY <1>2, <2>1
<1>4. Got(a, n) = CHOOSE m \in 0..n : Right(m)
  BY DEF Got
<1> HIDE DEF Right
<1>5. Got(a, n) \in 0..n /\ Right(Got(a, n))
  BY <1>3, <1>4
<1>6. QED
  BY <1>5 DEF Right

\* What depends on the target alone stays as the target does.
LEMMA TargetStays ==
  ASSUME UNCHANGED target
  PROVE  /\ \A a : Readable(a)' = Readable(a)
         /\ \A a, w : Window(a, w)' = Window(a, w)
         /\ \A a, n : Got(a, n)' = Got(a, n)
BY DEF target, Readable, Window, Got
---------------------------------------------------------------------------
(* The inductive invariant *)

\* What a candidate is, whichever scan found it.
Prev == UNION {[D -> Byte] : D \in SUBSET (1..Chunk)}
Cand == [addr : Addr, prev : Prev]
Cands(cands) == cands \in Seq(Cand) /\ InOrder(cands)

TargetFits == mem \in [Addr -> Byte] /\ mapped \subseteq DOMAIN Regions

\* The results are those of one scan, numeric or dynamic.
ResultsFit ==
  /\ type \in Widths
  /\ dynSpec \in Patterns \cup {NoSpec}
  /\ Cands(candidates) /\ Cands(dynCandidates)
  /\ candidates = <<>> \/ dynSpec = NoSpec
  /\ dynCandidates = <<>> \/ dynSpec # NoSpec
  /\ \A i \in DOMAIN candidates : DOMAIN candidates[i].prev = 1..type
  /\ \A i \in DOMAIN dynCandidates : DOMAIN dynCandidates[i].prev \in {dynSpec.free, {}}
  /\ truncated \in BOOLEAN /\ warned \in BOOLEAN /\ cancel \in BOOLEAN

SpecOf(q) == [len |-> q.len, bytes |-> q.bytes, free |-> q.free]

QueryFits(q) ==
  /\ DOMAIN q = {"dyn", "len", "bytes", "free", "filter"}
  /\ q.dyn \in BOOLEAN
  /\ q.len \in 1..Chunk /\ q.free \in SUBSET (1..q.len)
  /\ q.dyn => SpecOf(q) \in Patterns
  /\ ~q.dyn => q.len \in Widths

\* A candidate that the scan has found: all of its window can be read, and
\* what it keeps are the bytes there.
FoundBy(q, c) ==
  /\ \A k \in 0..(q.len - 1) : Readable(c.addr + k)
  /\ c.prev = Captured(q, Window(c.addr, q.len))

Fields == {"op", "query", "todo", "found", "truncated", "before", "budget"}

\* The scan has found candidates, and has moved none of those it began with.
ScanFits ==
  scan # Idle =>
    /\ DOMAIN scan = Fields
    /\ scan.op \in {"first", "next"}
    /\ QueryFits(scan.query)
    /\ Cands(scan.found)
    /\ \A i \in DOMAIN scan.found : FoundBy(scan.query, scan.found[i])
    /\ scan.truncated \in BOOLEAN
    /\ scan.before \in Seq(Cand)
    /\ Len(Current) = Len(scan.before)
    /\ \A i \in 1..Len(Current) : Current[i].addr = scan.before[i].addr

\* What is left of the regions: pieces up to a region's end, apart and in order.
Pieces(todo) ==
  /\ todo \in Seq([start : Nat, end : Nat])
  /\ \A k \in 1..Len(todo) :
       /\ todo[k].start < todo[k].end
       /\ \E r \in mapped : Regions[r].start <= todo[k].start /\ todo[k].end = Regions[r].end
  /\ \A j, k \in 1..Len(todo) : j < k => todo[j].end <= todo[k].start

Wanted(q) == {a \in AllWindows(q.len) : Matches(q, Window(a, q.len))}

InPiece(a, w, p) == p.start <= a /\ a + w <= p.end

\* A first scan has found every window it wants, but for those still ahead;
\* truncated, it has found the first of them, and not all.
FirstFits ==
  scan # Idle /\ scan.op = "first" =>
    LET found == Addresses(scan.found)
        todo  == scan.todo
    IN  /\ Current = scan.before
        /\ Pieces(todo)
        /\ Remaining("first", todo, Current) <= scan.budget /\ scan.budget \in Int
        /\ Len(scan.found) <= MaxCandidates
        /\ found \subseteq Wanted(scan.query)
        /\ ~scan.truncated =>
             /\ \A a \in Wanted(scan.query) : a \in found \/
                  \E k \in 1..Len(todo) : InPiece(a, scan.query.len, todo[k])
             /\ \A a \in found, k \in 1..Len(todo) : a < todo[k].start
        /\ scan.truncated =>
             /\ todo = <<>> /\ Len(scan.found) = MaxCandidates
             /\ \A a \in found, b \in Wanted(scan.query) : b < a => b \in found
             /\ \E b \in Wanted(scan.query) : b \notin found

\* A next scan looks for what the results are of.
QueryRefines(q) ==
  /\ q.dyn <=> dynSpec # NoSpec
  /\ ~q.dyn => q.len = type /\ q.filter \in Filters
  /\ q.dyn => q.filter = "EXACT" \/ (q.filter \in DynamicFilters /\ SpecOf(q) = dynSpec)

Survives(q, c) ==
  /\ \A k \in 0..(q.len - 1) : Readable(c.addr + k)
  /\ Keeps(q, Window(c.addr, q.len), c.prev)

\* A next scan has kept exactly the candidates that survive, up to the one it
\* is at, and those ahead are as they were.
NextFits ==
  scan # Idle /\ scan.op = "next" =>
    /\ QueryRefines(scan.query)
    /\ scan.todo \in 1..(Len(Current) + 1)
    /\ Len(Current) + 1 - scan.todo <= scan.budget /\ scan.budget \in Int
    /\ \A i \in scan.todo..Len(Current) : Current[i] = scan.before[i]
    /\ Addresses(scan.found) =
         {scan.before[i].addr : i \in {j \in 1..(scan.todo - 1) : Survives(scan.query, scan.before[j])}}
    /\ \A i \in 1..Len(scan.found), j \in scan.todo..Len(Current) :
         scan.found[i].addr < Current[j].addr

IInv == TargetFits /\ ResultsFit /\ ScanFits /\ FirstFits /\ NextFits

---------------------------------------------------------------------------
(* Candidates *)

LEMMA CandsFacts ==
  ASSUME NEW cands, Cands(cands)
  PROVE  /\ Len(cands) \in Nat /\ DOMAIN cands = 1..Len(cands)
         /\ \A i \in 1..Len(cands) :
              /\ cands[i] \in Cand
              /\ cands[i].addr \in Addr /\ cands[i].addr \in Nat /\ cands[i].prev \in Prev
         /\ \A i, j \in 1..Len(cands) : i < j => cands[i].addr < cands[j].addr
         /\ Addresses(cands) = {cands[i].addr : i \in 1..Len(cands)}
<1>1. cands \in Seq(Cand) /\ InOrder(cands)
  BY DEF Cands
<1>2. Len(cands) \in Nat /\ DOMAIN cands = 1..Len(cands)
  BY <1>1
<1>3. \A i \in 1..Len(cands) : cands[i] \in Cand
  BY <1>1
<1>4. \A c \in Cand : c.addr \in Addr /\ c.addr \in Nat /\ c.prev \in Prev
  BY RegionFacts DEF Cand
<1>5. QED
  BY <1>1, <1>2, <1>3, <1>4 DEF InOrder, Addresses

\* A sequence of candidates, put together from its parts.
LEMMA CandsAre ==
  ASSUME NEW n \in Nat, NEW cands, cands = [i \in 1..n |-> cands[i]],
         \A i \in 1..n : cands[i] \in Cand,
         \A i, j \in 1..n : i < j => cands[i].addr < cands[j].addr
  PROVE  Cands(cands) /\ Len(cands) = n
<1>1. cands \in [1..n -> Cand]
  OBVIOUS
<1>2. cands \in Seq(Cand) /\ Len(cands) = n
  BY <1>1
<1>3. QED
  BY <1>2 DEF Cands, InOrder

LEMMA NoCands == Cands(<<>>) /\ Addresses(<<>>) = {} /\ Len(<<>>) = 0
<1>1. <<>> \in Seq(Cand) /\ DOMAIN <<>> = {} /\ Len(<<>>) = 0
  OBVIOUS
<1>2. QED
  BY <1>1 DEF Cands, InOrder, Addresses

\* New candidates after the old ones: the candidates of both, in order.
Follow(m, new, old) ==
  /\ Cands(old)
  /\ m \in Nat /\ new = [i \in 1..m |-> new[i]]
  /\ \A i \in 1..m : new[i] \in Cand
  /\ \A i, j \in 1..m : i < j => new[i].addr < new[j].addr
  /\ \A i \in 1..Len(old), j \in 1..m : old[i].addr < new[j].addr

Joined(all, old, m, new) ==
  /\ Cands(all) /\ Len(all) \in Nat
  /\ \A i \in 1..Len(all) : \/ \E j \in 1..Len(old) : all[i] = old[j]
                            \/ \E j \in 1..m : all[i] = new[j]
  /\ Addresses(all) = Addresses(old) \cup {new[i].addr : i \in 1..m}

LEMMA AppendFacts ==
  ASSUME NEW old, NEW m, NEW new, Follow(m, new, old)
  PROVE  Joined(old \o new, old, m, new)
<1> USE DEF Follow
<1>1. PICK n \in Nat : n = Len(old)
  BY CandsFacts
<1>2. /\ old \in Seq(Cand) /\ \A i \in 1..n : old[i] \in Cand
      /\ \A i, j \in 1..n : i < j => old[i].addr < old[j].addr
      /\ Addresses(old) = {old[i].addr : i \in 1..n}
  BY <1>1, CandsFacts DEF Cands
<1>3. new \in Seq(Cand) /\ Len(new) = m
  <2>1. new \in [1..m -> Cand]
    OBVIOUS
  <2>2. QED
    BY <2>1
<1> DEFINE all == old \o new
<1>4. /\ all \in Seq(Cand) /\ Len(all) = n + m
      /\ \A i \in 1..(n + m) : all[i] = IF i <= n THEN old[i] ELSE new[i - n]
  BY <1>1, <1>2, <1>3, ConcatProperties
<1> HIDE DEF all
<1>5. DOMAIN all = 1..(n + m)
  BY <1>4
<1>6. \A i \in 1..(n + m) : \/ i \in 1..n /\ all[i] = old[i]
                            \/ i - n \in 1..m /\ i > n /\ all[i] = new[i - n]
  <2>1. SUFFICES ASSUME NEW i \in 1..(n + m)
                 PROVE  \/ i \in 1..n /\ all[i] = old[i]
                        \/ i - n \in 1..m /\ i > n /\ all[i] = new[i - n]
    OBVIOUS
  <2>2. CASE i <= n
    <3>1. i \in 1..n
      BY <2>2
    <3>2. QED
      BY <1>4, <2>2, <3>1
  <2>3. CASE i > n
    <3>1. i - n \in 1..m /\ ~(i <= n)
      BY <2>3
    <3>2. QED
      BY <1>4, <2>3, <3>1
  <2>4. QED
    BY <2>2, <2>3
<1>7. /\ \A i \in 1..n : i \in 1..(n + m) /\ all[i] = old[i]
      /\ \A i \in 1..m : n + i \in 1..(n + m) /\ all[n + i] = new[i]
  <2>1. \A i \in 1..n : i \in 1..(n + m) /\ i <= n
    OBVIOUS
  <2>2. \A i \in 1..m : n + i \in 1..(n + m) /\ ~(n + i <= n) /\ (n + i) - n = i
    OBVIOUS
  <2>3. QED
    BY <1>4, <2>1, <2>2
<1>8. ASSUME NEW i \in 1..(n + m), NEW j \in 1..(n + m), i < j
      PROVE  all[i].addr < all[j].addr
  <2>1. CASE i \in 1..n /\ j \in 1..n
    BY <1>2, <1>7, <1>8, <2>1
  <2>2. CASE i \in 1..n /\ ~(j \in 1..n)
    BY <1>1, <1>6, <1>7, <2>2
  <2>3. CASE ~(i \in 1..n)
    <3>1. i - n \in 1..m /\ j - n \in 1..m /\ i - n < j - n
      BY <1>6, <1>8, <2>3
    <3>2. all[i] = new[i - n] /\ all[j] = new[j - n]
      <4>1. ~(i \in 1..n) /\ ~(j \in 1..n)
        BY <1>8, <2>3
      <4>2. QED
        BY <1>6, <4>1
    <3>3. QED
      BY <3>1, <3>2
  <2>4. QED
    BY <2>1, <2>2, <2>3
<1>9. Cands(all)
  BY <1>4, <1>5, <1>8 DEF Cands, InOrder
<1>10. Addresses(all) = Addresses(old) \cup {new[i].addr : i \in 1..m}
  <2>1. Addresses(all) = {all[i].addr : i \in 1..(n + m)}
    BY <1>5 DEF Addresses
  <2>2. ASSUME NEW i \in 1..(n + m) PROVE all[i].addr \in Addresses(old) \cup {new[k].addr : k \in 1..m}
    BY <1>2, <1>6
  <2>3. \A i \in 1..n : old[i].addr \in Addresses(all)
    BY <1>7, <2>1
  <2>4. \A i \in 1..m : new[i].addr \in Addresses(all)
    BY <1>7, <2>1
  <2>5. Addresses(all) \subseteq Addresses(old) \cup {new[i].addr : i \in 1..m}
    BY <2>1, <2>2
  <2>6. Addresses(old) \subseteq Addresses(all)
    BY <1>2, <2>3
  <2>7. {new[i].addr : i \in 1..m} \subseteq Addresses(all)
    BY <2>4
  <2>8. QED
    BY <2>5, <2>6, <2>7
<1>11. \A i \in 1..(n + m) : \/ \E j \in 1..n : all[i] = old[j]
                             \/ \E j \in 1..m : all[i] = new[j]
  BY <1>6
<1>12. Len(all) = n + m /\ Len(all) \in Nat
  BY <1>4
<1>13. QED
  BY <1>1, <1>9, <1>10, <1>11, <1>12 DEF all, Joined

\* What a scan keeps of a window it has read.
LEMMA CapturedFits ==
  ASSUME TargetFits, NEW q, QueryFits(q), NEW a \in Int,
         \A k \in 0..(q.len - 1) : Readable(a + k)
  PROVE  /\ a \in Addr
         /\ Window(a, q.len) \in [1..q.len -> Byte]
         /\ Captured(q, Window(a, q.len)) \in Prev
         /\ DOMAIN Captured(q, Window(a, q.len)) = IF q.dyn THEN q.free ELSE 1..q.len
<1>1. q.len \in 1..Chunk /\ q.free \in SUBSET (1..q.len) /\ Chunk \in Nat
  BY ScannerAssumption DEF QueryFits
<1>2. \A k \in 0..(q.len - 1) : a + k \in Addr
  <2>1. ASSUME NEW k \in 0..(q.len - 1) PROVE a + k \in Addr
    <3>1. a + k \in Int /\ Readable(a + k)
      BY <1>1
    <3>2. QED
      BY <3>1, ReadableIsMapped DEF TargetFits
  <2>2. QED
    BY <2>1
<1>3. a \in Addr
  <2>1. 0 \in 0..(q.len - 1) /\ a + 0 = a
    BY <1>1
  <2>2. QED
    BY <1>2, <2>1
<1>4. Window(a, q.len) \in [1..q.len -> Byte]
  <2>1. ASSUME NEW k \in 1..q.len PROVE mem[a + k - 1] \in Byte
    <3>1. k - 1 \in 0..(q.len - 1) /\ a + (k - 1) = a + k - 1
      BY <1>1
    <3>2. a + k - 1 \in Addr
      BY <1>2, <3>1
    <3>3. QED
      BY <3>2 DEF TargetFits
  <2>2. QED
    BY <2>1 DEF Window
<1>5. CASE q.dyn
  <2>1. Captured(q, Window(a, q.len)) = [k \in q.free |-> Window(a, q.len)[k]]
    BY <1>5 DEF Captured
  <2>2. Captured(q, Window(a, q.len)) \in [q.free -> Byte] /\ q.free \in SUBSET (1..Chunk)
    BY <1>1, <1>4, <2>1
  <2>3. QED
    BY <1>3, <1>4, <1>5, <2>2 DEF Prev
<1>6. CASE ~q.dyn
  <2>1. Captured(q, Window(a, q.len)) = Window(a, q.len)
    BY <1>6 DEF Captured
  <2>2. 1..q.len \in SUBSET (1..Chunk)
    BY <1>1
  <2>3. QED
    BY <1>3, <1>4, <1>6, <2>1, <2>2 DEF Prev
<1>7. QED
  BY <1>5, <1>6

---------------------------------------------------------------------------
(* One block of a first scan *)

Ahead == scan # Idle /\ scan.op = "first" /\ scan.todo # <<>>

Piece == Head(scan.todo)
Want == Smaller(Chunk, Piece.end - Piece.start)
Read == Got(Piece.start, Want)
Hits ==
  {a \in BlockWindows(Piece.start, Read, scan.query.len) :
     Matches(scan.query, Window(a, scan.query.len))}
Hit(i) ==
  [addr |-> Ascending(Hits)[i], prev |-> Captured(scan.query, Window(Ascending(Hits)[i], scan.query.len))]
All == scan.found \o [i \in DOMAIN Ascending(Hits) |-> Hit(i)]

LEMMA PieceFacts ==
  ASSUME IInv, Ahead
  PROVE  /\ scan.todo \in Seq([start : Nat, end : Nat]) /\ Len(scan.todo) \in Nat \ {0}
         /\ \A k \in 1..Len(scan.todo) :
              scan.todo[k].start \in Nat /\ scan.todo[k].end \in Nat
         /\ Piece = scan.todo[1]
         /\ Piece.start \in Nat /\ Piece.end \in Nat /\ Piece.start < Piece.end
         /\ \E r \in mapped : Regions[r].start <= Piece.start /\ Piece.end = Regions[r].end
         /\ QueryFits(scan.query) /\ scan.query.len \in 1..Chunk /\ Chunk \in Nat
         /\ Want \in 1..Chunk /\ Want <= Piece.end - Piece.start
         /\ Want = Chunk \/ Want = Piece.end - Piece.start
         /\ Read \in 0..Want
         /\ \A d \in 0..(Read - 1) : Readable(Piece.start + d)
         /\ Read < Want => ~Readable(Piece.start + Read)
         /\ ~scan.truncated
<1>1. Pieces(scan.todo) /\ QueryFits(scan.query) /\ ~scan.truncated
  BY DEF IInv, Ahead, FirstFits, ScanFits
<1>2. scan.todo \in Seq([start : Nat, end : Nat]) /\ scan.todo # <<>>
  BY <1>1 DEF Pieces, Ahead
<1>3. Len(scan.todo) \in Nat \ {0} /\ Piece = scan.todo[1]
  <2> DEFINE Segment == [start : Nat, end : Nat]
  <2> HIDE DEF Segment
  <2>1. QED
    BY <1>2 DEF Piece, Segment
<1>4. \A k \in 1..Len(scan.todo) : scan.todo[k].start \in Nat /\ scan.todo[k].end \in Nat
  <2> DEFINE Segment == [start : Nat, end : Nat]
  <2>1. \A s \in Segment : s.start \in Nat /\ s.end \in Nat
    OBVIOUS
  <2> HIDE DEF Segment
  <2>2. scan.todo \in Seq(Segment)
    BY <1>2 DEF Segment
  <2>3. QED
    BY <2>1, <2>2
<1>5. /\ Piece.start \in Nat /\ Piece.end \in Nat /\ Piece.start < Piece.end
      /\ \E r \in mapped : Regions[r].start <= Piece.start /\ Piece.end = Regions[r].end
  <2>1. 1 \in 1..Len(scan.todo)
    BY <1>3
  <2>2. QED
    BY <1>1, <1>3, <1>4, <2>1 DEF Pieces
<1>6. scan.query.len \in 1..Chunk /\ Chunk \in Nat \ {0}
  BY <1>1, ScannerAssumption DEF QueryFits
<1>7. /\ Want \in 1..Chunk /\ Want <= Piece.end - Piece.start
      /\ Want = Chunk \/ Want = Piece.end - Piece.start
  BY <1>5, <1>6 DEF Want, Smaller
<1>8. /\ Read \in 0..Want
      /\ \A d \in 0..(Read - 1) : Readable(Piece.start + d)
      /\ Read < Want => ~Readable(Piece.start + Read)
  <2>1. Piece.start \in Int /\ Want \in Nat
    BY <1>5, <1>6, <1>7
  <2>2. QED
    BY <2>1, GotFacts DEF Read
<1>9. QED
  BY <1>1, <1>2, <1>3, <1>4, <1>5, <1>6, <1>7, <1>8

\* The hits are windows the scan wants, and no wanted window in the piece is
\* lost: it is a hit or lies past the last window of the block.
LEMMA HitsFacts ==
  ASSUME IInv, Ahead
  PROVE  /\ Hits \in SUBSET Int /\ IsFiniteSet(Hits)
         /\ \A a \in Hits :
              /\ a \in Wanted(scan.query)
              /\ Piece.start <= a /\ a + scan.query.len <= Piece.start + Read
              /\ \A k \in 0..(scan.query.len - 1) : Readable(a + k)
         /\ \A a \in Wanted(scan.query) :
              InPiece(a, scan.query.len, Piece) /\ a \notin Hits =>
                Read >= scan.query.len /\ a > Piece.start + Read - scan.query.len
<1> DEFINE w == scan.query.len
           pos == Piece.start
<1>1. /\ pos \in Nat /\ Piece.end \in Nat /\ pos < Piece.end
      /\ w \in 1..Chunk /\ Chunk \in Nat /\ Want \in 1..Chunk /\ Want <= Piece.end - pos
      /\ Want = Chunk \/ Want = Piece.end - pos
      /\ Read \in 0..Want
  BY PieceFacts
<1>2. PICK r \in mapped : Regions[r].start <= pos /\ Piece.end = Regions[r].end
  BY PieceFacts
<1>3. mapped \subseteq DOMAIN Regions /\ r \in DOMAIN Regions
  BY <1>2 DEF IInv, TargetFits
<1>4. \A d \in 0..(Read - 1) : Readable(pos + d)
  BY PieceFacts
<1>5. Hits = {a \in pos..(pos + Read - w) : Matches(scan.query, Window(a, w))}
  BY DEF Hits, BlockWindows
<1>6. Hits \in SUBSET Int /\ IsFiniteSet(Hits)
  <2>1. IsFiniteSet(pos..(pos + Read - w)) /\ pos..(pos + Read - w) \in SUBSET Int
    <3>1. pos \in Int /\ pos + Read - w \in Int
      BY <1>1
    <3>2. QED
      BY <3>1, FS_Interval
  <2>2. Hits \in SUBSET (pos..(pos + Read - w))
    BY <1>5
  <2>3. QED
    BY <2>1, <2>2, FS_Subset
<1>7. ASSUME NEW a \in Hits
      PROVE  /\ a \in Wanted(scan.query)
             /\ pos <= a /\ a + w <= pos + Read
             /\ \A k \in 0..(w - 1) : Readable(a + k)
  <2>1. a \in Int /\ pos <= a /\ a + w <= pos + Read /\ Matches(scan.query, Window(a, w))
    BY <1>1, <1>5
  <2>2. ASSUME NEW k \in 0..(w - 1) PROVE Readable(a + k)
    <3>1. a + k - pos \in 0..(Read - 1) /\ pos + (a + k - pos) = a + k
      BY <1>1, <2>1
    <3>2. QED
      BY <1>4, <3>1
  <2>3. r \notin Refused
    <3>1. 0 \in 0..(Read - 1) /\ pos + 0 = pos
      BY <1>1, <2>1
    <3>2. Readable(pos)
      BY <1>4, <3>1
    <3>3. PICK s \in mapped \ Refused : pos \in RegionOf(s)
      BY <1>1, <1>3, <3>2, ReadableIsMapped
    <3>4. pos \in RegionOf(r)
      BY <1>1, <1>2, <1>3, RegionFacts DEF RegionOf
    <3>5. s = r
      BY <1>3, <3>3, <3>4, RegionsApart
    <3>6. QED
      BY <3>3, <3>5
  <2>4. Regions[r].start <= a /\ a + w <= Regions[r].end
    BY <1>1, <1>2, <1>3, <2>1, RegionFacts
  <2>5. a \in Addr
    <3>1. a \in RegionOf(r)
      BY <1>1, <1>3, <2>1, <2>4, RegionFacts DEF RegionOf
    <3>2. QED
      BY <1>3, <3>1, RegionFacts
  <2>6. QED
    BY <1>2, <2>1, <2>2, <2>3, <2>4, <2>5 DEF Wanted, AllWindows
<1>8. ASSUME NEW a \in Wanted(scan.query), InPiece(a, w, Piece), a \notin Hits
      PROVE  Read >= w /\ a > pos + Read - w
  <2>1. a \in Int /\ pos <= a /\ a + w <= Piece.end /\ Matches(scan.query, Window(a, w))
    <3>1. a \in Addr /\ Matches(scan.query, Window(a, w))
      BY <1>8 DEF Wanted, AllWindows
    <3>2. QED
      BY <1>8, <3>1, RegionFacts DEF InPiece
  <2>2. a > pos + Read - w
    BY <1>1, <1>5, <1>8, <2>1
  <2>3. Read = Want
    <3>1. PICK s \in mapped \ Refused : Regions[s].start <= a /\ a + w <= Regions[s].end
      BY <1>8 DEF Wanted, AllWindows
    <3>2. s \in DOMAIN Regions /\ a \in RegionOf(s) /\ a \in RegionOf(r)
      BY <1>1, <1>2, <1>3, <2>1, <3>1, RegionFacts DEF RegionOf
    <3>3. s = r
      BY <1>3, <3>2, RegionsApart
    <3>4. SUFFICES ASSUME Read < Want PROVE FALSE
      BY <1>1
    <3>5. pos + Read < Piece.end /\ pos + Read \in Int
      BY <1>1, <3>4
    <3>6. Readable(pos + Read)
      BY <1>1, <1>2, <1>3, <3>1, <3>3, <3>5, RegionFacts DEF Readable
    <3>7. QED
      BY <3>4, <3>6, PieceFacts
  <2>4. Want = Chunk
    BY <1>1, <2>1, <2>2, <2>3
  <2>5. QED
    BY <1>1, <2>2, <2>3, <2>4
<1>9. QED
  BY <1>6, <1>7, <1>8

\* What was found before, and then the hits.
LEMMA AllFacts ==
  ASSUME IInv, Ahead
  PROVE  /\ Cands(All) /\ Len(All) \in Nat
         /\ \A i \in 1..Len(All) : FoundBy(scan.query, All[i])
         /\ Addresses(All) = Addresses(scan.found) \cup Hits
         /\ \A a \in Addresses(scan.found) : a \in Nat /\ a < Piece.start
<1> DEFINE f == scan.found
           h == Ascending(Hits)
           n == Len(f)
           m == Cardinality(Hits)
           new == [i \in DOMAIN h |-> Hit(i)]
<1>1. /\ TargetFits /\ QueryFits(scan.query) /\ Cands(f) /\ ~scan.truncated
      /\ \A i \in DOMAIN f : FoundBy(scan.query, f[i])
  BY PieceFacts DEF IInv, ScanFits, Ahead
<1>2. /\ n \in Nat /\ DOMAIN f = 1..n /\ \A i \in 1..n : f[i] \in Cand /\ f[i].addr \in Nat
      /\ \A i, j \in 1..n : i < j => f[i].addr < f[j].addr
      /\ Addresses(f) = {f[i].addr : i \in 1..n}
  BY <1>1, CandsFacts
<1>3. /\ Len(h) = m /\ m \in Nat /\ DOMAIN h = 1..m
      /\ \A i \in 1..m : h[i] \in Hits
      /\ \A e \in Hits : \E i \in 1..m : h[i] = e
      /\ \A i, j \in 1..m : i < j => h[i] < h[j]
  <2>1. Hits \in SUBSET Int /\ IsFiniteSet(Hits)
    BY HitsFacts
  <2>2. /\ h \in Seq(Hits) /\ Len(h) = m /\ m \in Nat
        /\ \A i \in 1..m : h[i] \in Hits
        /\ \A e \in Hits : \E i \in 1..m : h[i] = e
        /\ \A i, j \in 1..m : i < j => h[i] < h[j]
    BY <2>1, AscendingFacts
  <2> HIDE DEF h
  <2>3. DOMAIN h = 1..m
    BY <2>2
  <2>4. QED
    BY <2>2, <2>3
<1>4. \A a \in Addresses(f) : a \in Nat /\ a < Piece.start
  <2>1. 1 \in 1..Len(scan.todo) /\ Piece = scan.todo[1]
    BY PieceFacts
  <2>2. \A a \in Addresses(f) : a < scan.todo[1].start
    BY <1>1, <2>1 DEF IInv, FirstFits, Ahead
  <2>3. QED
    BY <1>2, <2>1, <2>2
<1>5. ASSUME NEW i \in 1..m
      PROVE  /\ Hit(i) \in Cand /\ FoundBy(scan.query, Hit(i))
             /\ Hit(i).addr = h[i] /\ h[i] \in Int /\ Piece.start <= h[i]
  <2>1. /\ h[i] \in Int /\ h[i] \in Wanted(scan.query) /\ Piece.start <= h[i]
        /\ \A k \in 0..(scan.query.len - 1) : Readable(h[i] + k)
    BY <1>3, HitsFacts
  <2>2. Matches(scan.query, Window(h[i], scan.query.len))
    BY <2>1 DEF Wanted
  <2>3. h[i] \in Addr /\ Captured(scan.query, Window(h[i], scan.query.len)) \in Prev
    BY <1>1, <2>1, CapturedFits
  <2>4. Hit(i) = [addr |-> h[i], prev |-> Captured(scan.query, Window(h[i], scan.query.len))]
    BY DEF Hit
  <2> HIDE DEF h
  <2>5. Hit(i) \in Cand /\ Hit(i).addr = h[i]
        /\ Hit(i).prev = Captured(scan.query, Window(h[i], scan.query.len))
    BY <2>3, <2>4 DEF Cand
  <2>6. QED
    BY <2>1, <2>2, <2>5 DEF FoundBy
<1>6. All = f \o new /\ DOMAIN new = 1..m /\ \A i \in 1..m : new[i] = Hit(i)
  BY <1>3 DEF All
<1>7. /\ m \in Nat /\ new = [i \in 1..m |-> new[i]]
      /\ \A i \in 1..m : new[i] \in Cand /\ new[i].addr = h[i]
      /\ \A i, j \in 1..m : i < j => new[i].addr < new[j].addr
      /\ \A i \in 1..Len(f), j \in 1..m : f[i].addr < new[j].addr
  <2>1. \A i \in 1..m : new[i] \in Cand /\ new[i].addr = h[i]
    BY <1>5, <1>6
  <2>2. ASSUME NEW i \in 1..n, NEW j \in 1..m PROVE f[i].addr < new[j].addr
    <3>1. f[i].addr \in Nat /\ f[i].addr < Piece.start
      BY <1>2, <1>4
    <3>2. h[j] \in Int /\ Piece.start <= h[j] /\ new[j].addr = h[j]
      BY <1>5, <2>1
    <3>3. Piece.start \in Nat
      BY PieceFacts
    <3>4. QED
      BY <3>1, <3>2, <3>3
  <2>3. QED
    BY <1>3, <2>1, <2>2
<1> HIDE DEF new, h
<1>8. /\ Cands(All) /\ Len(All) \in Nat
      /\ \A i \in 1..Len(All) : \/ \E j \in 1..n : All[i] = f[j]
                                \/ \E j \in 1..m : All[i] = new[j]
      /\ Addresses(All) = Addresses(f) \cup {new[i].addr : i \in 1..m}
  <2>1. Cands(f) /\ \A i \in 1..m : new[i] \in Cand
    BY <1>1, <1>7
  <2>2. Follow(m, new, f)
    BY <1>7, <2>1 DEF Follow
  <2>3. Joined(f \o new, f, m, new)
    BY <2>2, AppendFacts
  <2>4. QED
    BY <1>6, <2>3 DEF Joined
<1>9. \A i \in 1..Len(All) : FoundBy(scan.query, All[i])
  <2>1. \A j \in 1..n : FoundBy(scan.query, f[j])
    BY <1>1, <1>2
  <2>2. \A j \in 1..m : FoundBy(scan.query, new[j])
    BY <1>5, <1>6
  <2>3. QED
    BY <1>8, <2>1, <2>2
<1>10. {new[i].addr : i \in 1..m} = Hits
  BY <1>3, <1>7
<1>11. QED
  BY <1>4, <1>8, <1>9, <1>10

\* The limit keeps the first of them.
LEMMA CutFacts ==
  ASSUME NEW cands, Cands(cands), NEW n \in Nat
  PROVE  LET cut == SubSeq(cands, 1, Smaller(Len(cands), n))
         IN  /\ Cands(cut) /\ Len(cut) = Smaller(Len(cands), n) /\ Len(cut) \in Nat
             /\ \A i \in 1..Len(cut) : i \in 1..Len(cands) /\ cut[i] = cands[i]
             /\ Len(cands) <= n => cut = cands
<1> DEFINE m == Smaller(Len(cands), n)
           cut == SubSeq(cands, 1, m)
<1>1. /\ Len(cands) \in Nat /\ DOMAIN cands = 1..Len(cands) /\ cands \in Seq(Cand)
      /\ \A i \in 1..Len(cands) : cands[i] \in Cand
      /\ \A i, j \in 1..Len(cands) : i < j => cands[i].addr < cands[j].addr
  BY CandsFacts DEF Cands
<1>2. m \in 0..Len(cands) /\ m <= n /\ (Len(cands) <= n => m = Len(cands))
  <2>1. Len(cands) \in Nat
    BY <1>1
  <2>2. QED
    BY <2>1 DEF Smaller
<1> HIDE DEF m
<1>3. cut \in Seq(Cand) /\ Len(cut) = m /\ \A i \in 1..m : cut[i] = cands[i]
  <2>1. m \in Int /\ 1 \in Int /\ \A i \in 1..m : cands[i] \in Cand
    <3>1. Len(cands) \in Nat /\ m \in Int /\ m <= Len(cands)
      <4>1. Len(cands) \in Nat
        BY <1>1
      <4>2. QED
        BY <4>1, <1>2
    <3>2. \A i \in 1..m : i \in 1..Len(cands)
      BY <3>1
    <3>3. QED
      BY <1>1, <3>1, <3>2
  <2>2. /\ cut \in Seq(Cand) /\ Len(cut) = IF 1 <= m THEN m - 1 + 1 ELSE 0
        /\ \A i \in 1..m - 1 + 1 : cut[i] = cands[1 + i - 1]
    BY <2>1, SubSeqProperties
  <2>3. m \in Nat /\ m - 1 + 1 = m /\ \A i \in 1..m : 1 + i - 1 = i
    <3>1. m \in Nat
      BY <1>2
    <3>2. QED
      BY <3>1
  <2>4. QED
    BY <2>2, <2>3
<1>4. \A i \in 1..m : i \in 1..Len(cands) /\ cut[i] = cands[i]
  BY <1>1, <1>2, <1>3
<1>5. Len(cands) <= n => cut = cands
  BY <1>1, <1>2, SubSeqFull
<1> HIDE DEF cut
<1>6. Cands(cut)
  <2>1. DOMAIN cut = 1..m
    BY <1>3
  <2>2. QED
    BY <1>1, <1>3, <1>4, <2>1 DEF Cands, InOrder
<1>7. QED
  BY <1>1, <1>2, <1>3, <1>4, <1>5, <1>6 DEF m, cut


\* The pieces left once a block has moved the start of the first one to pos.
LEMMA AdvanceFacts ==
  ASSUME IInv, Ahead, NEW pos \in Nat, Piece.start < pos
  PROVE  LET t    == Advance(scan.todo, pos)
             left == Len(scan.todo)
         IN  /\ Pieces(t)
             /\ Remaining("first", t, Current) < Remaining("first", scan.todo, Current)
             /\ \A a \in Int, w \in 1..Chunk, k \in 1..left :
                  InPiece(a, w, scan.todo[k]) /\ (k = 1 => pos <= a) =>
                    \E j \in 1..Len(t) : InPiece(a, w, t[j])
             /\ \A j \in 1..Len(t) : pos <= t[j].start \/ Piece.end <= t[j].start
<1> DEFINE Segment == [start : Nat, end : Nat]
           todo == scan.todo
           left == Len(todo)
           t == Advance(todo, pos)
           moved == [todo[1] EXCEPT !.start = pos]
<1>1. /\ todo \in Seq(Segment) /\ todo # <<>>
      /\ left \in Nat \ {0} /\ Piece = todo[1] /\ Head(todo) = todo[1]
      /\ \A k \in 1..left : todo[k].start \in Nat /\ todo[k].end \in Nat
      /\ Chunk \in Nat
  <2>1. /\ todo \in Seq(Segment) /\ Piece = todo[1] /\ left \in Nat \ {0} /\ Chunk \in Nat
        /\ \A k \in 1..left : todo[k].start \in Nat /\ todo[k].end \in Nat
    BY PieceFacts
  <2>2. todo # <<>> /\ Head(todo) = todo[1]
    BY <2>1 DEF Piece, Ahead
  <2>3. QED
    BY <2>1, <2>2
<1>2. /\ \A k \in 1..left : /\ todo[k].start < todo[k].end
                            /\ \E r \in mapped : Regions[r].start <= todo[k].start /\ todo[k].end = Regions[r].end
      /\ \A j, k \in 1..left : j < k => todo[j].end <= todo[k].start
  BY DEF IInv, FirstFits, Ahead, Pieces
<1>3. /\ Tail(todo) \in Seq(Segment) /\ Len(Tail(todo)) = left - 1
      /\ \A i \in 1..left - 1 : Tail(todo)[i] = todo[i + 1]
  <2> HIDE DEF Segment
  <2>1. QED
    BY <1>1, HeadTailProperties
<1>4. /\ moved \in Segment /\ moved.start = pos /\ moved.end = todo[1].end
      /\ todo[1] \in Segment
  <2>1. todo[1] \in Segment
    <3> HIDE DEF Segment
    <3>1. QED
      BY <1>1
  <2>2. QED
    BY <2>1
<1>5. 1 \in 1..left /\ todo[1].start < pos /\ \E r \in mapped : Regions[r].start <= todo[1].start /\ todo[1].end = Regions[r].end
  BY <1>1, <1>2
<1>6. Remaining("first", todo, Current) = todo[left].end - todo[1].start
  BY <1>1 DEF Remaining
<1>7. \A k \in 1..left : todo[1].end <= todo[k].end
  <2>1. ASSUME NEW k \in 1..left PROVE todo[1].end <= todo[k].end
    <3>1. k = 1 \/ 1 < k
      BY <1>1
    <3>2. QED
      <4>1. CASE k = 1
        BY <1>1, <1>5, <4>1
      <4>2. CASE 1 < k
        <5>1. todo[1].end <= todo[k].start /\ todo[k].start < todo[k].end
          BY <1>2, <1>5, <4>2
        <5>2. QED
          <6>1. todo[1].end \in Nat /\ todo[k].start \in Nat /\ todo[k].end \in Nat
            BY <1>1, <1>5
          <6>2. QED
            BY <5>1, <6>1
      <4>3. QED
        BY <3>1, <4>1, <4>2
  <2>2. QED
    BY <2>1
<1>8. CASE pos < todo[1].end
  <2>1. t = <<moved>> \o Tail(todo)
    BY <1>1, <1>8 DEF Advance
  <2>2. <<moved>> \in Seq(Segment) /\ Len(<<moved>>) = 1 /\ <<moved>>[1] = moved
    <3> HIDE DEF Segment, moved
    <3>1. QED
      BY <1>4
  <2> HIDE DEF Segment, moved, t
  <2>3. /\ t \in Seq(Segment) /\ Len(t) = left
        /\ t[1] = moved /\ \A i \in 2..left : t[i] = todo[i]
    <3>1. t \in Seq(Segment) /\ Len(t) = 1 + (left - 1)
      BY <1>3, <2>1, <2>2, ConcatProperties
    <3>2. 1 + (left - 1) = left
      BY <1>1
    <3>3. \A i \in 1..left : t[i] = IF i <= 1 THEN <<moved>>[i] ELSE Tail(todo)[i - 1]
      BY <1>3, <2>1, <2>2, <3>2, ConcatProperties
    <3>4. ASSUME NEW i \in 2..left PROVE t[i] = todo[i]
      <4>1. i \in 1..left /\ ~(i <= 1) /\ i - 1 \in 1..left - 1 /\ (i - 1) + 1 = i
        BY <1>1
      <4>2. QED
        BY <1>3, <3>3, <4>1
    <3>5. QED
      BY <1>5, <2>2, <3>1, <3>2, <3>3, <3>4
  <2>4. t[1].start = pos /\ t[1].end = todo[1].end
    BY <1>4, <2>3
  <2>5. \A k \in 1..left : /\ t[k].end = todo[k].end /\ todo[k].start <= t[k].start
                           /\ t[k].start < t[k].end
                           /\ t[k].start \in Nat
                           /\ k # 1 => t[k].start = todo[k].start
    <3>1. ASSUME NEW k \in 1..left
          PROVE  /\ t[k].end = todo[k].end /\ todo[k].start <= t[k].start
                 /\ t[k].start < t[k].end
                 /\ t[k].start \in Nat
                 /\ k # 1 => t[k].start = todo[k].start
      <4>1. k = 1 \/ k \in 2..left
        BY <1>1
      <4>2. CASE k = 1
        BY <1>1, <1>5, <1>8, <2>4, <4>2
      <4>3. CASE k \in 2..left
        BY <1>1, <1>2, <2>3, <4>3
      <4>4. QED
        BY <4>1, <4>2, <4>3
    <3>2. QED
      BY <3>1
  <2>6. \A k \in 1..left : \E r \in mapped : Regions[r].start <= t[k].start /\ t[k].end = Regions[r].end
    <3>1. ASSUME NEW k \in 1..left
          PROVE  \E r \in mapped : Regions[r].start <= t[k].start /\ t[k].end = Regions[r].end
      <4>1. PICK r \in mapped : Regions[r].start <= todo[k].start /\ todo[k].end = Regions[r].end
        BY <1>2
      <4>2. Regions[r].start \in Nat
        BY RegionFacts DEF IInv, TargetFits
      <4>3. todo[k].start \in Nat /\ t[k].start \in Nat /\ todo[k].start <= t[k].start /\ t[k].end = todo[k].end
        BY <1>1, <2>5
      <4>4. QED
        BY <4>1, <4>2, <4>3
    <3>2. QED
      BY <3>1
  <2>7. \A j, k \in 1..left : j < k => t[j].end <= t[k].start
    <3>1. ASSUME NEW j \in 1..left, NEW k \in 1..left, j < k PROVE t[j].end <= t[k].start
      <4>1. k # 1
        BY <1>1, <3>1
      <4>2. QED
        BY <1>2, <2>5, <3>1, <4>1
    <3>2. QED
      BY <3>1
  <2>8. Pieces(t)
    BY <2>3, <2>5, <2>6, <2>7 DEF Pieces, Segment
  <2>9. Remaining("first", t, Current) < Remaining("first", todo, Current)
    <3>1. t # <<>> /\ left \in 1..left
      BY <1>1, <2>3
    <3>2. Remaining("first", t, Current) = todo[left].end - pos
      BY <2>3, <2>4, <2>5, <3>1 DEF Remaining
    <3>3. QED
      BY <1>1, <1>5, <1>6, <3>1, <3>2
  <2>10. ASSUME NEW a \in Int, NEW w \in 1..Chunk, NEW k \in 1..left,
                InPiece(a, w, todo[k]), k = 1 => pos <= a
         PROVE  InPiece(a, w, t[k])
    BY <2>4, <2>5, <2>10 DEF InPiece
  <2>11. ASSUME NEW j \in 1..left PROVE pos <= t[j].start \/ todo[1].end <= t[j].start
    <3>1. CASE j = 1
      BY <2>4, <3>1
    <3>2. CASE j # 1
      <4>1. 1 < j
        BY <1>1, <3>2
      <4>2. QED
        BY <1>2, <1>5, <2>5, <3>2, <4>1
    <3>3. QED
      BY <3>1, <3>2
  <2>12. QED
    BY <1>1, <2>3, <2>8, <2>9, <2>10, <2>11 DEF t
<1>9. CASE ~(pos < todo[1].end)
  <2>1. t = Tail(todo)
    BY <1>1, <1>9 DEF Advance
  <2> HIDE DEF Segment, moved, t
  <2>2. /\ t \in Seq(Segment) /\ Len(t) = left - 1
        /\ \A k \in 1..left - 1 : t[k] = todo[k + 1] /\ k + 1 \in 1..left
    <3>1. \A k \in 1..left - 1 : k + 1 \in 1..left
      BY <1>1
    <3>2. QED
      BY <1>3, <2>1, <3>1
  <2>3. \A j, k \in 1..left - 1 : j < k => t[j].end <= t[k].start
    <3>1. ASSUME NEW j \in 1..left - 1, NEW k \in 1..left - 1, j < k PROVE t[j].end <= t[k].start
      <4>1. j + 1 < k + 1
        BY <1>1, <3>1
      <4>2. QED
        BY <1>2, <2>2, <4>1
    <3>2. QED
      BY <3>1
  <2>4. Pieces(t)
    <3>1. \A k \in 1..left - 1 :
            /\ t[k].start < t[k].end
            /\ \E r \in mapped : Regions[r].start <= t[k].start /\ t[k].end = Regions[r].end
      <4>1. SUFFICES ASSUME NEW k \in 1..left - 1
                     PROVE  /\ t[k].start < t[k].end
                            /\ \E r \in mapped : Regions[r].start <= t[k].start /\ t[k].end = Regions[r].end
        OBVIOUS
      <4>2. t[k] = todo[k + 1] /\ k + 1 \in 1..left
        BY <2>2
      <4>3. QED
        BY <1>2, <4>2
    <3>2. QED
      BY <2>2, <2>3, <3>1 DEF Pieces, Segment
  <2>5. \A j \in 1..left - 1 : todo[1].end <= t[j].start
    <3>1. ASSUME NEW j \in 1..left - 1 PROVE todo[1].end <= t[j].start
      <4>1. 1 < j + 1
        BY <1>1
      <4>2. QED
        BY <1>2, <1>5, <2>2, <4>1
    <3>2. QED
      BY <3>1
  <2>6. Remaining("first", t, Current) < Remaining("first", todo, Current)
    <3>1. CASE t = <<>>
      <4>1. Remaining("first", t, Current) = 0
        BY <3>1 DEF Remaining
      <4>2. left \in 1..left /\ todo[1].start < todo[1].end /\ todo[1].end <= todo[left].end
        BY <1>1, <1>2, <1>5, <1>7
      <4>3. QED
        BY <1>1, <1>5, <1>6, <4>1, <4>2
    <3>2. CASE t # <<>>
      <4>1. left - 1 \in 1..left - 1 /\ 1 \in 1..left - 1 /\ (left - 1) + 1 = left
        <5>1. Len(t) >= 1
          BY <2>2, <3>2
        <5>2. left \in Nat /\ left > 1
          <6>1. left \in Nat /\ left # 0 /\ Len(t) = left - 1
            BY <1>1, <2>2
          <6>2. QED
            BY <5>1, <6>1
        <5>3. QED
          BY <5>2
      <4>2. Remaining("first", t, Current) = t[left - 1].end - t[1].start
        BY <2>2, <3>2 DEF Remaining
      <4>3. t[left - 1].end = todo[left].end /\ t[1].start = todo[1 + 1].start /\ 1 + 1 \in 1..left
        BY <2>2, <4>1
      <4>4. todo[1].end <= t[1].start /\ todo[1].start < todo[1].end
        BY <1>2, <1>5, <2>5, <4>1
      <4>5. left \in 1..left
        BY <1>1
      <4>6. QED
        <5>1. Remaining("first", todo, Current) = todo[left].end - todo[1].start
          BY <1>6
        <5>2. /\ todo[left].end \in Nat /\ todo[1].start \in Nat /\ todo[1].end \in Nat
              /\ todo[1 + 1].start \in Nat
          BY <1>1, <1>5, <4>3, <4>5
        <5>3. t[1].start \in Nat /\ t[left - 1].end \in Nat
          BY <4>3, <5>2
        <5>4. todo[1].start < t[1].start
          BY <4>4, <5>2, <5>3
        <5>5. t[left - 1].end - t[1].start < todo[left].end - todo[1].start
          BY <4>3, <5>2, <5>3, <5>4
        <5>6. QED
          BY <4>2, <5>1, <5>5
    <3>3. QED
      BY <3>1, <3>2
  <2>7. ASSUME NEW a \in Int, NEW w \in 1..Chunk, NEW k \in 1..left,
               InPiece(a, w, todo[k]), k = 1 => pos <= a
        PROVE  \E j \in 1..left - 1 : InPiece(a, w, t[j])
    <3>1. k # 1
      <4>1. SUFFICES ASSUME k = 1 PROVE FALSE
        OBVIOUS
      <4>2. pos <= a /\ a + w <= todo[1].end
        BY <2>7, <4>1 DEF InPiece
      <4>3. QED
        BY <1>1, <1>5, <1>9, <4>2
    <3>2. k - 1 \in 1..left - 1 /\ (k - 1) + 1 = k
      BY <1>1, <3>1
    <3>3. t[k - 1] = todo[k]
      BY <2>2, <3>2
    <3>4. QED
      BY <2>7, <3>2, <3>3
  <2>8. QED
    BY <1>1, <2>2, <2>4, <2>5, <2>6, <2>7 DEF t
<1>10. QED
  BY <1>8, <1>9

Cut == SubSeq(All, 1, Smaller(Len(All), MaxCandidates))
Onward == NextPosition(Piece.start, Want, Read, scan.query.len)

LEMMA FirstBlockStep ==
  ASSUME IInv, FirstBlock
  PROVE  /\ Ahead /\ scan' # Idle /\ DOMAIN scan' = Fields /\ scan'.op = "first"
         /\ scan'.query = scan.query /\ scan'.before = scan.before
         /\ scan'.found = Cut /\ scan'.truncated = (Len(All) > MaxCandidates)
         /\ scan'.budget = scan.budget - 1
         /\ scan'.todo = IF Len(All) > MaxCandidates THEN <<>> ELSE Advance(scan.todo, Onward)
         /\ UNCHANGED <<mem, mapped, candidates, dynCandidates, dynSpec, type, truncated,
                        warned, cancel, seen>>
<1>1. scan # Idle /\ scan.op = "first" /\ scan.todo # <<>>
  BY DEF FirstBlock
<1>2. DOMAIN scan = Fields
  BY <1>1 DEF IInv, ScanFits
<1>3. Ahead
  BY <1>1 DEF Ahead
<1>4. scan' = [scan EXCEPT
           !.found = Cut,
           !.truncated = Len(All) > MaxCandidates,
           !.budget = @ - 1,
           !.todo = IF Len(All) > MaxCandidates THEN <<>> ELSE Advance(scan.todo, Onward)]
  BY DEF FirstBlock, Cut, Onward, All, Hit, Hits, Piece, Want, Read
<1>5. /\ DOMAIN scan' = Fields /\ scan'.op = "first"
      /\ scan'.query = scan.query /\ scan'.before = scan.before
      /\ scan'.found = Cut /\ scan'.truncated = (Len(All) > MaxCandidates)
      /\ scan'.budget = scan.budget - 1
      /\ scan'.todo = IF Len(All) > MaxCandidates THEN <<>> ELSE Advance(scan.todo, Onward)
  BY <1>1, <1>2, <1>4 DEF Fields
<1>6. scan' # Idle
  BY <1>5 DEF Idle
<1>7. UNCHANGED <<mem, mapped, candidates, dynCandidates, dynSpec, type, truncated,
                  warned, cancel, seen>>
  BY DEF FirstBlock, target, results
<1>8. QED
  BY <1>3, <1>5, <1>6, <1>7

\* The next block begins after every window that this one has looked at, and
\* not after any other.
LEMMA OnwardFacts ==
  ASSUME IInv, Ahead
  PROVE  /\ Onward \in Nat /\ Piece.start < Onward
         /\ \A a \in Hits : a < Onward /\ a < Piece.end
         /\ \A a \in Int : Read >= scan.query.len /\ a > Piece.start + Read - scan.query.len => Onward <= a
<1>1. /\ Piece.start \in Nat /\ Piece.end \in Nat
      /\ scan.query.len \in Nat /\ scan.query.len >= 1
      /\ Want \in Nat /\ Want >= 1 /\ Read \in Nat /\ Read <= Want /\ Want <= Piece.end - Piece.start
  <2>1. /\ Piece.start \in Nat /\ Piece.end \in Nat /\ Chunk \in Nat /\ scan.query.len \in 1..Chunk
        /\ Want \in 1..Chunk /\ Read \in 0..Want /\ Want <= Piece.end - Piece.start
    BY PieceFacts
  <2>2. QED
    BY <2>1
<1>2. /\ Onward \in Nat /\ Piece.start < Onward
      /\ Read >= scan.query.len => Onward = Piece.start + Read - scan.query.len + 1
  BY <1>1 DEF Onward, NextPosition
<1>3. ASSUME NEW a \in Hits PROVE a < Onward /\ a < Piece.end
  <2>1. a \in Int /\ Piece.start <= a /\ a + scan.query.len <= Piece.start + Read
    BY HitsFacts
  <2>2. QED
    BY <1>1, <1>2, <2>1
<1>4. ASSUME NEW a \in Int, Read >= scan.query.len, a > Piece.start + Read - scan.query.len
      PROVE  Onward <= a
  BY <1>1, <1>2, <1>4
<1>5. QED
  BY <1>2, <1>3, <1>4

---------------------------------------------------------------------------
(* Steps that leave the target alone *)

LEMMA TargetKept ==
  ASSUME mem' = mem, mapped' = mapped
  PROVE  /\ \A a : Readable(a)' = Readable(a)
         /\ \A a, w : Window(a, w)' = Window(a, w)
         /\ \A a, n : Got(a, n)' = Got(a, n)
         /\ \A q : Wanted(q)' = Wanted(q)
         /\ \A q, c : FoundBy(q, c)' = FoundBy(q, c)
         /\ \A q, c : Survives(q, c)' = Survives(q, c)
         /\ \A todo : Pieces(todo)' = Pieces(todo)
         /\ TargetFits => TargetFits'
<1>1. /\ \A a : Readable(a)' = Readable(a)
      /\ \A a, w : Window(a, w)' = Window(a, w)
  BY DEF Readable, Window
<1>2. \A a, n : Got(a, n)' = Got(a, n)
  BY DEF Got, Readable
<1>3. \A q : Wanted(q)' = Wanted(q)
  BY DEF Wanted, AllWindows, Window
<1>4. \A q, c : FoundBy(q, c)' = FoundBy(q, c)
  BY <1>1 DEF FoundBy
<1>5. \A q, c : Survives(q, c)' = Survives(q, c)
  BY <1>1 DEF Survives
<1>6. \A todo : Pieces(todo)' = Pieces(todo)
  BY DEF Pieces
<1>7. TargetFits => TargetFits'
  BY DEF TargetFits
<1>8. QED
  BY <1>1, <1>2, <1>3, <1>4, <1>5, <1>6, <1>7

LEMMA ResultsKept ==
  ASSUME UNCHANGED <<candidates, dynCandidates, dynSpec, type, truncated, warned>>
  PROVE  /\ Current' = Current
         /\ ResultsFit /\ cancel' \in BOOLEAN => ResultsFit'
         /\ \A q : QueryRefines(q)' = QueryRefines(q)
BY DEF Current, ResultsFit, QueryRefines

LEMMA PiecesAreNumbers ==
  ASSUME NEW todo, Pieces(todo)
  PROVE  \A k \in 1..Len(todo) : todo[k].start \in Nat /\ todo[k].end \in Nat
<1> DEFINE Segment == [start : Nat, end : Nat]
<1>1. todo \in Seq(Segment) /\ \A s \in Segment : s.start \in Nat /\ s.end \in Nat
  BY DEF Pieces
<1> HIDE DEF Segment
<1>2. QED
  BY <1>1

\* What is left of a first scan is a number of addresses, none when no piece is.
LEMMA RemainingFacts ==
  ASSUME NEW todo, Pieces(todo), NEW cands
  PROVE  /\ Remaining("first", todo, cands) \in Nat
         /\ todo # <<>> => Remaining("first", todo, cands) >= 1
<1> DEFINE Segment == [start : Nat, end : Nat]
<1>1. CASE todo = <<>>
  BY <1>1 DEF Remaining
<1>2. CASE todo # <<>>
  <2>1. todo \in Seq(Segment)
    BY DEF Pieces
  <2>2. \A s \in Segment : s.start \in Nat /\ s.end \in Nat
    OBVIOUS
  <2> HIDE DEF Segment
  <2>3. PICK n \in Nat : n = Len(todo) /\ n >= 1
    BY <1>2, <2>1
  <2>4. 1 \in 1..n /\ n \in 1..n /\ (n = 1 \/ 1 < n)
    BY <2>3
  <2>5. /\ todo[1].start \in Nat /\ todo[1].end \in Nat
        /\ todo[n].start \in Nat /\ todo[n].end \in Nat
    BY <2>1, <2>2, <2>3, <2>4
  <2>6. /\ todo[1].start < todo[1].end /\ todo[n].start < todo[n].end
        /\ 1 < n => todo[1].end <= todo[n].start
    BY <2>3, <2>4 DEF Pieces
  <2>7. Remaining("first", todo, cands) = todo[n].end - todo[1].start
    BY <1>2, <2>3 DEF Remaining
  <2>8. QED
    BY <1>2, <2>4, <2>5, <2>6, <2>7
<1>3. QED
  BY <1>1, <1>2

LEMMA FirstBlockFits ==
  ASSUME IInv, FirstBlock
  PROVE  IInv'
<1> DEFINE q == scan.query
           left == Len(scan.todo)
           full == Len(All) > MaxCandidates
           next == Advance(scan.todo, Onward)
<1>1. /\ Ahead /\ scan' # Idle /\ DOMAIN scan' = Fields /\ scan'.op = "first"
      /\ scan'.query = q /\ scan'.before = scan.before
      /\ scan'.found = Cut /\ scan'.truncated = full
      /\ scan'.budget = scan.budget - 1
      /\ scan'.todo = IF full THEN <<>> ELSE next
      /\ mem' = mem /\ mapped' = mapped /\ cancel' = cancel
      /\ UNCHANGED <<candidates, dynCandidates, dynSpec, type, truncated, warned>>
  BY FirstBlockStep
<1>2. /\ \A a : Readable(a)' = Readable(a)
      /\ Wanted(q)' = Wanted(q)
      /\ \A p, c : FoundBy(p, c)' = FoundBy(p, c)
      /\ \A todo : Pieces(todo)' = Pieces(todo)
      /\ TargetFits'
  BY <1>1, TargetKept DEF IInv
<1>3. Current' = Current /\ ResultsFit'
  <2>1. cancel' \in BOOLEAN
    BY <1>1 DEF IInv, ResultsFit
  <2>2. QED
    BY <1>1, <2>1, ResultsKept DEF IInv
<1>4. /\ QueryFits(q) /\ ~scan.truncated
      /\ Len(Current) = Len(scan.before) /\ Current = scan.before
      /\ \A i \in 1..Len(Current) : Current[i].addr = scan.before[i].addr
      /\ Pieces(scan.todo) /\ scan.budget \in Int
      /\ Remaining("first", scan.todo, Current) <= scan.budget
      /\ Addresses(scan.found) \subseteq Wanted(q)
      /\ \A a \in Wanted(q) : a \in Addresses(scan.found) \/
           \E k \in 1..left : InPiece(a, q.len, scan.todo[k])
  BY <1>1, PieceFacts DEF IInv, ScanFits, FirstFits, Ahead
<1>5. /\ Cands(All) /\ Len(All) \in Nat
      /\ \A i \in 1..Len(All) : FoundBy(q, All[i])
      /\ Addresses(All) = Addresses(scan.found) \cup Hits
      /\ \A a \in Addresses(scan.found) : a \in Nat /\ a < Piece.start
  BY <1>1, AllFacts
<1>6. MaxCandidates \in Nat \ {0}
  BY ScannerAssumption
<1>7. /\ Cands(Cut) /\ Len(Cut) = Smaller(Len(All), MaxCandidates) /\ Len(Cut) \in Nat
      /\ \A i \in 1..Len(Cut) : i \in 1..Len(All) /\ Cut[i] = All[i]
      /\ ~full => Cut = All
      /\ full => Len(Cut) = MaxCandidates
      /\ Len(Cut) <= MaxCandidates
  <2>1. MaxCandidates \in Nat
    BY <1>6
  <2>2. /\ Cands(Cut) /\ Len(Cut) = Smaller(Len(All), MaxCandidates) /\ Len(Cut) \in Nat
        /\ \A i \in 1..Len(Cut) : i \in 1..Len(All) /\ Cut[i] = All[i]
        /\ Len(All) <= MaxCandidates => Cut = All
    BY <1>5, <2>1, CutFacts DEF Cut
  <2>3. /\ ~full => Len(All) <= MaxCandidates
        /\ full => Smaller(Len(All), MaxCandidates) = MaxCandidates
        /\ Smaller(Len(All), MaxCandidates) <= MaxCandidates
    BY <1>5, <2>1 DEF Smaller
  <2>4. QED
    BY <2>2, <2>3
<1>8. DOMAIN Cut = 1..Len(Cut) /\ Addresses(Cut) \subseteq Addresses(All)
      /\ Addresses(Cut) = {Cut[i].addr : i \in 1..Len(Cut)}
      /\ Addresses(All) = {All[i].addr : i \in 1..Len(All)}
  <2>1. /\ DOMAIN Cut = 1..Len(Cut)
        /\ Addresses(Cut) = {Cut[i].addr : i \in 1..Len(Cut)}
        /\ Addresses(All) = {All[i].addr : i \in 1..Len(All)}
    BY <1>5, <1>7, CandsFacts
  <2>2. QED
    BY <1>7, <2>1
<1>9. ScanFits'
  <2>1. \A i \in DOMAIN Cut : FoundBy(q, Cut[i])
    BY <1>5, <1>7, <1>8
  <2>2. (\A i \in DOMAIN scan.found : FoundBy(scan.query, scan.found[i]))'
    BY <1>1, <1>2, <2>1
  <2>3. Cands(scan.found)' /\ QueryFits(scan.query)' /\ scan'.truncated \in BOOLEAN
    BY <1>1, <1>4, <1>7 DEF Cands, InOrder, QueryFits
  <2>4. (/\ Len(Current) = Len(scan.before)
         /\ \A i \in 1..Len(Current) : Current[i].addr = scan.before[i].addr)'
    BY <1>1, <1>3, <1>4
  <2>5. DOMAIN scan' = Fields /\ scan'.op \in {"first", "next"} /\ scan'.before \in Seq(Cand)
    BY <1>1 DEF IInv, ScanFits, Ahead
  <2>6. QED
    BY <2>2, <2>3, <2>4, <2>5 DEF ScanFits, Cand, Prev
<1>10. \A a \in Addresses(All) : a \in Wanted(q) /\ a \in Int /\ a < Onward /\ a < Piece.end
  <2>1. ASSUME NEW a \in Addresses(scan.found)
        PROVE  a \in Wanted(q) /\ a \in Int /\ a < Onward /\ a < Piece.end
    <3>1. /\ Onward \in Nat /\ Piece.start < Onward /\ Piece.start < Piece.end
          /\ Piece.start \in Nat /\ Piece.end \in Nat
      BY <1>1, OnwardFacts, PieceFacts
    <3>2. a \in Wanted(q) /\ a \in Nat /\ a < Piece.start
      BY <1>4, <1>5
    <3>3. QED
      BY <3>1, <3>2
  <2>2. ASSUME NEW a \in Hits PROVE a \in Wanted(q) /\ a \in Int /\ a < Onward /\ a < Piece.end
    BY <1>1, HitsFacts, OnwardFacts
  <2>3. QED
    BY <1>5, <2>1, <2>2
<1>11. \A b \in Wanted(q) :
          /\ b \in Int
          /\ \/ b \in Addresses(All)
             \/ \E k \in 1..left : InPiece(b, q.len, scan.todo[k]) /\ (k = 1 => Onward <= b)
  <2>1. \A b \in Wanted(q) : b \in Int
    <3>1. \A b \in Wanted(q) : b \in Addr
      BY DEF Wanted, AllWindows
    <3>2. QED
      BY <3>1, AddrInts
  <2>2. ASSUME NEW b \in Wanted(q), b \notin Addresses(All)
        PROVE  \E k \in 1..left : InPiece(b, q.len, scan.todo[k]) /\ (k = 1 => Onward <= b)
    <3>1. b \notin Addresses(scan.found) /\ b \notin Hits /\ b \in Int
      BY <1>5, <2>1, <2>2
    <3>2. PICK k \in 1..left : InPiece(b, q.len, scan.todo[k])
      BY <1>4, <3>1
    <3>3. k = 1 => Onward <= b
      <4>1. SUFFICES ASSUME k = 1 PROVE Onward <= b
        OBVIOUS
      <4>2. InPiece(b, q.len, Piece)
        BY <1>1, <3>2, <4>1, PieceFacts
      <4>3. Read >= q.len /\ b > Piece.start + Read - q.len
        BY <1>1, <2>2, <3>1, <4>2, HitsFacts
      <4>4. QED
        BY <1>1, <3>1, <4>3, OnwardFacts
    <3>4. QED
      BY <3>2, <3>3
  <2>3. QED
    BY <2>1, <2>2
<1>12. \A a \in Addresses(All), b \in Wanted(q) : b \notin Addresses(All) => a < b
  <2>1. SUFFICES ASSUME NEW a \in Addresses(All), NEW b \in Wanted(q), b \notin Addresses(All)
                 PROVE  a < b
    OBVIOUS
  <2>2. PICK k \in 1..left : InPiece(b, q.len, scan.todo[k]) /\ (k = 1 => Onward <= b)
    BY <1>11, <2>1
  <2>3. a \in Int /\ a < Onward /\ a < Piece.end /\ b \in Int /\ Onward \in Nat
    BY <1>1, <1>10, <1>11, OnwardFacts
  <2>4. CASE k = 1
    BY <2>2, <2>3, <2>4
  <2>5. CASE k # 1
    <3>1. 1 \in 1..left /\ 1 < k /\ Piece = scan.todo[1]
      BY <1>1, <2>5, PieceFacts
    <3>2. scan.todo[1].end <= scan.todo[k].start /\ scan.todo[k].start <= b
      BY <1>4, <2>2, <3>1 DEF Pieces, InPiece
    <3>3. scan.todo[1].end \in Nat /\ scan.todo[k].start \in Nat
      BY <1>1, <3>1, PieceFacts
    <3>4. QED
      BY <2>3, <3>1, <3>2, <3>3
  <2>6. QED
    BY <2>4, <2>5
<1>13. FirstFits'
  <2>1. CASE full
    <3>1. scan'.todo = <<>> /\ scan'.truncated /\ Len(Cut) = MaxCandidates
      BY <1>1, <1>7, <2>1
    <3>2. Pieces(<<>>)'
      <4>1. <<>> \in Seq([start : Nat, end : Nat]) /\ Len(<<>>) = 0
        OBVIOUS
      <4>2. QED
        BY <4>1 DEF Pieces
    <3>3. Remaining("first", <<>>, Current)' <= scan.budget - 1 /\ scan.budget - 1 \in Int
      <4>1. Remaining("first", <<>>, Current)' = 0
        BY DEF Remaining
      <4>2. Remaining("first", scan.todo, Current) \in Int /\ Remaining("first", scan.todo, Current) >= 1
        BY <1>1, <1>4, RemainingFacts DEF Ahead
      <4>3. QED
        BY <1>4, <4>1, <4>2
    <3>4. \A a \in Addresses(Cut), b \in Wanted(q) : b < a => b \in Addresses(Cut)
      <4>1. SUFFICES ASSUME NEW a \in Addresses(Cut), NEW b \in Wanted(q), b < a
                     PROVE  b \in Addresses(Cut)
        OBVIOUS
      <4>2. a \in Addresses(All) /\ a \in Int /\ b \in Int
        BY <1>8, <1>10, <1>11
      <4>3. b \in Addresses(All)
        BY <1>12, <4>1, <4>2
      <4>4. PICK i \in 1..Len(Cut) : a = Cut[i].addr
        BY <1>8
      <4>5. PICK j \in 1..Len(All) : b = All[j].addr
        BY <1>8, <4>3
      <4>6. i \in 1..Len(All) /\ a = All[i].addr
        BY <1>7, <4>4
      <4>7. j < i
        <5>1. CASE i < j
          <6>1. a < b
            BY <1>5, <4>5, <4>6, <5>1, CandsFacts
          <6>2. QED
            BY <4>1, <4>2, <6>1
        <5>2. CASE i = j
          BY <4>1, <4>2, <4>5, <4>6, <5>2
        <5>3. QED
          BY <5>1, <5>2
      <4>8. j \in 1..Len(Cut)
        BY <1>7, <4>4, <4>7
      <4>9. b = Cut[j].addr
        BY <1>7, <4>5, <4>8
      <4>10. QED
        BY <1>8, <4>8, <4>9
    <3>5. \E b \in Wanted(q) : b \notin Addresses(Cut)
      <4>1. MaxCandidates + 1 \in 1..Len(All)
        BY <1>5, <1>6, <2>1
      <4>2. All[MaxCandidates + 1].addr \in Wanted(q) /\ All[MaxCandidates + 1].addr \in Int
        BY <1>8, <1>10, <4>1
      <4>3. ASSUME NEW i \in 1..Len(Cut) PROVE Cut[i].addr # All[MaxCandidates + 1].addr
        <5>1. i \in 1..Len(All) /\ Cut[i] = All[i] /\ i < MaxCandidates + 1
          BY <1>6, <1>7
        <5>2. All[i].addr < All[MaxCandidates + 1].addr /\ All[i].addr \in Nat
          BY <1>5, <4>1, <5>1, CandsFacts
        <5>3. QED
          BY <4>2, <5>1, <5>2
      <4>4. QED
        BY <1>8, <4>2, <4>3
    <3>6. QED
      BY <1>1, <1>2, <1>3, <1>4, <1>7, <1>8, <1>10, <3>1, <3>2, <3>3, <3>4, <3>5 DEF FirstFits, Addresses
  <2>2. CASE ~full
    <3>1. scan'.todo = next /\ ~scan'.truncated /\ scan'.found = All
      BY <1>1, <1>7, <2>2
    <3>2. /\ Pieces(next)
          /\ Remaining("first", next, Current) < Remaining("first", scan.todo, Current)
          /\ \A a \in Int, w \in 1..Chunk, k \in 1..left :
               InPiece(a, w, scan.todo[k]) /\ (k = 1 => Onward <= a) =>
                 \E j \in 1..Len(next) : InPiece(a, w, next[j])
          /\ \A j \in 1..Len(next) : Onward <= next[j].start \/ Piece.end <= next[j].start
      BY <1>1, AdvanceFacts, OnwardFacts
    <3>3. Remaining("first", next, Current) <= scan.budget - 1 /\ scan.budget - 1 \in Int
      <4>1. /\ Remaining("first", next, Current) \in Nat
            /\ Remaining("first", scan.todo, Current) \in Nat
        BY <1>4, <3>2, RemainingFacts
      <4>2. QED
        BY <1>4, <3>2, <4>1
    <3>4. Len(All) <= MaxCandidates
      BY <1>5, <1>6, <2>2
    <3>5. Addresses(All) \subseteq Wanted(q)
      BY <1>10
    <3>6. \A a \in Wanted(q) : a \in Addresses(All) \/
            \E j \in 1..Len(next) : InPiece(a, q.len, next[j])
      <4>1. q.len \in 1..Chunk
        BY <1>1, PieceFacts
      <4>2. QED
        BY <1>11, <3>2, <4>1
    <3>7. \A a \in Addresses(All), j \in 1..Len(next) : a < next[j].start
      <4>1. SUFFICES ASSUME NEW a \in Addresses(All), NEW j \in 1..Len(next)
                     PROVE  a < next[j].start
        OBVIOUS
      <4>2. a \in Int /\ a < Onward /\ a < Piece.end
        BY <1>10
      <4>3. Onward \in Nat /\ Piece.end \in Nat
        BY <1>1, OnwardFacts, PieceFacts
      <4>4. next[j].start \in Nat
        BY <3>2, PiecesAreNumbers
      <4>5. QED
        BY <3>2, <4>2, <4>3, <4>4
    <3>8. /\ Pieces(scan.todo)'
          /\ Remaining("first", scan.todo, Current)' = Remaining("first", next, Current)
      BY <1>2, <1>3, <3>1, <3>2 DEF Remaining
    <3>9. /\ (Addresses(scan.found) \subseteq Wanted(scan.query))'
          /\ (\A a \in Wanted(scan.query) : a \in Addresses(scan.found) \/
                \E k \in 1..Len(scan.todo) : InPiece(a, scan.query.len, scan.todo[k]))'
          /\ (\A a \in Addresses(scan.found), k \in 1..Len(scan.todo) : a < scan.todo[k].start)'
      BY <1>1, <1>2, <3>1, <3>5, <3>6, <3>7 DEF Addresses, InPiece
    <3>10. QED
      BY <1>1, <1>2, <1>3, <1>4, <3>1, <3>2, <3>3, <3>4, <3>5, <3>6, <3>7, <3>8, <3>9 DEF FirstFits
  <2>3. QED
    BY <2>1, <2>2
<1>14. NextFits'
  BY <1>1 DEF NextFits
<1>15. QED
  BY <1>2, <1>3, <1>9, <1>13, <1>14 DEF IInv

---------------------------------------------------------------------------
(* One read of a next scan *)

Behind == scan # Idle /\ scan.op = "next" /\ scan.todo <= Len(Current)

Here == Current[scan.todo].addr
Reach == Got(Here, Chunk + scan.query.len - 1)
Limit == Here + Smaller(Chunk, Reach)
In(i) == i >= scan.todo /\ Current[i].addr < Limit
Kept(i) ==
  /\ In(i)
  /\ Current[i].addr + scan.query.len <= Here + Reach
  /\ Keeps(scan.query, Window(Current[i].addr, scan.query.len), Current[i].prev)
Updated(i) == Refreshed(scan.query, Current[i])
Keepers == {i \in DOMAIN Current : Kept(i)}
Rest == {i \in DOMAIN Current : i > scan.todo /\ Current[i].addr >= Limit}
Gathered == scan.found \o [i \in DOMAIN Ascending(Keepers) |-> Updated(Ascending(Keepers)[i])]
Further == IF Rest = {} THEN Len(Current) + 1 ELSE Ascending(Rest)[1]
After ==
  [i \in DOMAIN Current |->
     IF ~Kept(i) THEN Current[i]
     ELSE IF scan.query.dyn THEN [Current[i] EXCEPT !.prev = <<>>] ELSE Updated(i)]

LEMMA CurrentFacts ==
  ASSUME ResultsFit
  PROVE  /\ Cands(Current)
         /\ Len(Current) \in Nat /\ DOMAIN Current = 1..Len(Current)
         /\ \A i \in 1..Len(Current) : Current[i] \in Cand /\ Current[i].addr \in Nat
         /\ \A i, j \in 1..Len(Current) : i < j => Current[i].addr < Current[j].addr
         /\ Addresses(Current) = {Current[i].addr : i \in 1..Len(Current)}
<1>1. Cands(Current)
  BY DEF ResultsFit, Current
<1>2. QED
  BY <1>1, CandsFacts

LEMMA HereFacts ==
  ASSUME IInv, Behind
  PROVE  /\ QueryFits(scan.query) /\ scan.query.len \in Nat /\ scan.query.len >= 1
         /\ Chunk \in Nat /\ Chunk >= 1
         /\ scan.todo \in 1..Len(Current) /\ Here \in Nat
         /\ Reach \in 0..(Chunk + scan.query.len - 1)
         /\ \A d \in 0..(Reach - 1) : Readable(Here + d)
         /\ Reach < Chunk + scan.query.len - 1 => ~Readable(Here + Reach)
         /\ Limit \in Nat /\ Here <= Limit /\ Limit <= Here + Reach /\ Limit <= Here + Chunk
         /\ Reach >= 1 => Here < Limit
         /\ Reach = 0 => Here = Limit
         /\ Reach >= Chunk => Limit = Here + Chunk
         /\ Reach <= Chunk => Limit = Here + Reach
<1>1. /\ QueryFits(scan.query) /\ scan.query.len \in Nat /\ scan.query.len >= 1
      /\ Chunk \in Nat /\ Chunk >= 1
  <2>1. QueryFits(scan.query) /\ Chunk \in Nat \ {0}
    BY ScannerAssumption DEF IInv, ScanFits, Behind
  <2>2. QED
    BY <2>1 DEF QueryFits
<1>2. scan.todo \in 1..Len(Current) /\ Here \in Nat
  <2>1. Len(Current) \in Nat /\ \A i \in 1..Len(Current) : Current[i].addr \in Nat
    BY CurrentFacts DEF IInv
  <2>2. scan.todo \in 1..(Len(Current) + 1) /\ scan.todo <= Len(Current)
    BY DEF IInv, NextFits, Behind
  <2>3. scan.todo \in 1..Len(Current)
    BY <2>1, <2>2
  <2>4. QED
    BY <2>1, <2>3 DEF Here
<1>3. /\ Reach \in 0..(Chunk + scan.query.len - 1)
      /\ \A d \in 0..(Reach - 1) : Readable(Here + d)
      /\ Reach < Chunk + scan.query.len - 1 => ~Readable(Here + Reach)
  <2>1. Here \in Int /\ Chunk + scan.query.len - 1 \in Nat
    BY <1>1, <1>2
  <2>2. QED
    BY <2>1, GotFacts DEF Reach
<1>4. /\ Limit \in Nat /\ Here <= Limit /\ Limit <= Here + Reach /\ Limit <= Here + Chunk
      /\ Reach >= 1 => Here < Limit
      /\ Reach = 0 => Here = Limit
      /\ Reach >= Chunk => Limit = Here + Chunk
      /\ Reach <= Chunk => Limit = Here + Reach
  <2>1. Reach \in Nat
    BY <1>1, <1>3
  <2>2. QED
    BY <1>1, <1>2, <2>1 DEF Limit, Smaller
<1>5. QED
  BY <1>1, <1>2, <1>3, <1>4

\* Where the next read begins: past this candidate, and at the first that
\* this read does not reach.
LEMMA FurtherFacts ==
  ASSUME IInv, Behind
  PROVE  /\ Further \in (scan.todo + 1)..(Len(Current) + 1)
         /\ \A i \in Further..Len(Current) : Current[i].addr >= Limit
         /\ \A i \in (scan.todo + 1)..(Further - 1) : Current[i].addr < Limit
<1> DEFINE n == Len(Current)
<1>1. /\ n \in Nat /\ DOMAIN Current = 1..n /\ \A i \in 1..n : Current[i].addr \in Nat
      /\ \A i, j \in 1..n : i < j => Current[i].addr < Current[j].addr
  BY CurrentFacts DEF IInv
<1>2. scan.todo \in 1..n /\ Limit \in Nat
  BY HereFacts
<1>3. Rest \in SUBSET Int /\ Rest \subseteq 1..n /\ IsFiniteSet(Rest)
  <2>1. Rest \in SUBSET (1..n)
    BY <1>1 DEF Rest
  <2>2. IsFiniteSet(1..n) /\ 1..n \in SUBSET Int
    BY <1>1, FS_Interval
  <2>3. IsFiniteSet(Rest)
    BY <2>1, <2>2, FS_Subset
  <2>4. QED
    BY <2>1, <2>2, <2>3
<1>4. CASE Rest = {}
  <2>1. Further = n + 1
    BY <1>4 DEF Further
  <2>2. \A i \in (scan.todo + 1)..n : Current[i].addr < Limit
    BY <1>1, <1>2, <1>4 DEF Rest
  <2>3. QED
    BY <1>1, <1>2, <2>1, <2>2
<1>5. CASE Rest # {}
  <2> DEFINE m == Cardinality(Rest)
             a == Ascending(Rest)
  <2>1. /\ m \in Nat
        /\ \A i \in 1..m : a[i] \in Rest
        /\ \A e \in Rest : \E i \in 1..m : a[i] = e
        /\ \A i, j \in 1..m : i < j => a[i] < a[j]
    BY <1>3, AscendingFacts
  <2>2. Further = a[1]
    BY <1>5 DEF Further
  <2> HIDE DEF m, a
  <2>3. 1 \in 1..m
    BY <1>5, <2>1
  <2>4. a[1] \in Rest /\ \A e \in Rest : a[1] <= e
    <3>1. ASSUME NEW e \in Rest PROVE a[1] <= e
      <4>1. PICK i \in 1..m : a[i] = e
        BY <2>1
      <4>2. a[1] \in Int /\ a[i] \in Int /\ (i = 1 \/ 1 < i)
        <5>1. a[1] \in Rest /\ a[i] \in Rest
          BY <2>1, <2>3
        <5>2. i = 1 \/ 1 < i
          BY <2>1
        <5>3. QED
          BY <1>3, <5>1, <5>2
      <4>3. QED
        BY <2>1, <2>3, <4>1, <4>2
    <3>2. QED
      BY <2>1, <2>3, <3>1
  <2>5. Further \in 1..n /\ Further > scan.todo /\ Current[Further].addr >= Limit
    BY <1>1, <2>2, <2>4 DEF Rest
  <2>6. ASSUME NEW i \in Further..n PROVE Current[i].addr >= Limit
    <3>1. i \in 1..n /\ (i = Further \/ Further < i)
      BY <1>1, <2>5
    <3>2. Current[i].addr \in Nat /\ Current[Further].addr \in Nat
      BY <1>1, <2>5, <3>1
    <3>3. QED
      BY <1>1, <1>2, <2>5, <3>1, <3>2
  <2>7. ASSUME NEW i \in (scan.todo + 1)..(Further - 1) PROVE Current[i].addr < Limit
    <3>1. i \in 1..n /\ i > scan.todo /\ i < Further
      BY <1>1, <1>2, <2>5
    <3>2. i \notin Rest
      BY <1>2, <2>2, <2>4, <2>5, <3>1
    <3>3. Current[i].addr \in Nat
      BY <1>1, <3>1
    <3>4. QED
      BY <1>1, <1>2, <3>1, <3>2, <3>3 DEF Rest
  <2>8. Further \in (scan.todo + 1)..(n + 1)
    BY <1>1, <1>2, <2>5
  <2>9. QED
    BY <2>6, <2>7, <2>8
<1>6. QED
  BY <1>4, <1>5

\* The window of a candidate is inside what this read returned exactly when it
\* can be read.
LEMMA InReach ==
  ASSUME IInv, Behind, NEW a \in Nat, Here <= a, a < Limit \/ a = Here
  PROVE  a < Limit /\ a + scan.query.len <= Here + Reach
           <=> \A k \in 0..(scan.query.len - 1) : Readable(a + k)
<1>1. PICK h \in Nat, r \in Nat, l \in Nat, w \in Nat, n \in Nat :
        /\ h = Here /\ r = Reach /\ l = Limit /\ w = scan.query.len /\ n = Chunk
  <2>1. /\ Chunk \in Nat /\ scan.query.len \in Nat /\ Here \in Nat /\ Limit \in Nat
        /\ Reach \in 0..(Chunk + scan.query.len - 1) /\ scan.query.len >= 1 /\ Chunk >= 1
    BY HereFacts
  <2>2. Reach \in Nat
    BY <2>1
  <2>3. QED
    BY <2>1, <2>2
<1>2. /\ w >= 1 /\ n >= 1 /\ l <= h + r /\ l <= h + n /\ h <= a
      /\ r >= 1 => h < l
      /\ a < l \/ a = h
  BY <1>1, HereFacts
<1>3. /\ \A d \in 0..(r - 1) : Readable(h + d)
      /\ r < n + w - 1 => ~Readable(h + r)
  BY <1>1, HereFacts
<1>4. CASE a + w <= h + r
  <2>1. a < l
    BY <1>2, <1>4
  <2>2. ASSUME NEW k \in 0..(w - 1) PROVE Readable(a + k)
    <3>1. a + k - h \in 0..(r - 1) /\ h + (a + k - h) = a + k
      BY <1>2, <1>4
    <3>2. Readable(h + (a + k - h))
      BY <1>3, <3>1
    <3>3. QED
      BY <3>1, <3>2
  <2>3. QED
    BY <1>1, <1>4, <2>1, <2>2
<1>5. CASE a + w > h + r
  <2>1. r < n + w - 1 /\ h + r - a \in 0..(w - 1) /\ a + (h + r - a) = h + r
    BY <1>2, <1>5
  <2>2. ~Readable(a + (h + r - a))
    BY <1>3, <2>1
  <2>3. ~(a + w <= h + r)
    BY <1>5
  <2>4. QED
    BY <1>1, <2>1, <2>2, <2>3
<1>6. QED
  BY <1>4, <1>5

\* The candidates this read covers are kept exactly when they survive, and it
\* covers all those up to where the next one begins.
LEMMA KeptFacts ==
  ASSUME IInv, Behind
  PROVE  /\ Keepers \in SUBSET (scan.todo..(Further - 1))
         /\ \A i \in scan.todo..(Further - 1) : i \in Keepers <=> Survives(scan.query, Current[i])
<1> DEFINE n == Len(Current)
           w == scan.query.len
           c(i) == Current[i]
<1>1. /\ n \in Nat /\ DOMAIN Current = 1..n /\ \A i \in 1..n : c(i).addr \in Nat
      /\ \A i, j \in 1..n : i < j => c(i).addr < c(j).addr
  BY CurrentFacts DEF IInv
<1>2. /\ w \in Nat /\ w >= 1 /\ Chunk \in Nat /\ Chunk >= 1
      /\ scan.todo \in 1..n /\ Here \in Nat
      /\ Reach \in Nat /\ Reach <= Chunk + w - 1
      /\ Limit \in Nat /\ Here <= Limit /\ Limit <= Here + Reach /\ Limit <= Here + Chunk
      /\ Reach >= 1 => Here < Limit
      /\ Reach = 0 => Here = Limit
  <2>1. /\ w \in Nat /\ w >= 1 /\ Chunk \in Nat /\ Chunk >= 1
        /\ scan.todo \in 1..n /\ Here \in Nat
        /\ Reach \in 0..(Chunk + w - 1)
        /\ Limit \in Nat /\ Here <= Limit /\ Limit <= Here + Reach /\ Limit <= Here + Chunk
        /\ Reach >= 1 => Here < Limit
        /\ Reach = 0 => Here = Limit
    BY HereFacts
  <2>2. Reach \in Nat /\ Reach <= Chunk + w - 1
    BY <2>1
  <2>3. QED
    BY <2>1, <2>2
<1>3. /\ Further \in (scan.todo + 1)..(n + 1)
      /\ \A i \in Further..n : c(i).addr >= Limit
      /\ \A i \in (scan.todo + 1)..(Further - 1) : c(i).addr < Limit
  BY FurtherFacts
<1>4. \A i \in scan.todo..(Further - 1) : i \in 1..n
  <2>1. n \in Nat /\ scan.todo \in 1..n /\ Further \in (scan.todo + 1)..(n + 1)
    BY <1>1, <1>2, <1>3
  <2>2. QED
    BY <2>1
<1>5. \A i \in scan.todo..n : Here <= c(i).addr /\ i \in 1..n
  <2>1. ASSUME NEW i \in scan.todo..n PROVE Here <= c(i).addr /\ i \in 1..n
    <3>1. i \in 1..n /\ (i = scan.todo \/ scan.todo < i)
      BY <1>1, <1>2
    <3>2. c(i).addr \in Nat
      BY <1>1, <3>1
    <3>3. CASE i = scan.todo
      BY <1>2, <3>1, <3>3 DEF Here
    <3>4. CASE scan.todo < i
      <4>1. c(scan.todo).addr < c(i).addr
        BY <1>1, <1>2, <3>1, <3>4
      <4>2. QED
        BY <1>2, <3>1, <3>2, <4>1 DEF Here
    <3>5. QED
      BY <3>1, <3>3, <3>4
  <2>2. QED
    BY <2>1
<1>6. ASSUME NEW i \in Keepers PROVE i \in scan.todo..(Further - 1)
  <2>1. i \in 1..n /\ i >= scan.todo /\ c(i).addr < Limit
    BY <1>1 DEF Keepers, Kept, In
  <2>2. i \notin Further..n
    <3>1. SUFFICES ASSUME i \in Further..n PROVE FALSE
      OBVIOUS
    <3>2. c(i).addr >= Limit /\ c(i).addr \in Nat
      BY <1>1, <1>3, <2>1, <3>1
    <3>3. QED
      BY <1>2, <2>1, <3>2
  <2>3. QED
    BY <1>1, <1>2, <1>3, <2>1, <2>2
<1>7. ASSUME NEW i \in scan.todo..(Further - 1)
      PROVE  i \in Keepers <=> Survives(scan.query, c(i))
  <2>1. i \in 1..n /\ c(i).addr \in Nat /\ Here <= c(i).addr /\ i >= scan.todo
    <3>1. i \in scan.todo..n /\ i \in 1..n
      BY <1>1, <1>2, <1>3, <1>4
    <3>2. QED
      BY <1>1, <1>2, <1>5, <3>1
  <2>2. c(i).addr < Limit \/ c(i).addr = Here
    <3>1. CASE i = scan.todo
      BY <3>1 DEF Here
    <3>2. CASE i # scan.todo
      <4>1. i \in (scan.todo + 1)..(Further - 1)
        BY <1>2, <1>3, <3>2
      <4>2. QED
        BY <1>3, <4>1
    <3>3. QED
      BY <3>1, <3>2
  <2>3. c(i).addr < Limit /\ c(i).addr + w <= Here + Reach
          <=> \A k \in 0..(w - 1) : Readable(c(i).addr + k)
    BY <2>1, <2>2, InReach
  <2>4. i \in Keepers <=> /\ c(i).addr < Limit /\ c(i).addr + w <= Here + Reach
                          /\ Keeps(scan.query, Window(c(i).addr, w), c(i).prev)
    BY <1>1, <2>1 DEF Keepers, Kept, In
  <2>5. QED
    BY <2>3, <2>4 DEF Survives
<1>8. QED
  BY <1>6, <1>7

LEMMA UpdatedFacts ==
  ASSUME IInv, Behind, NEW i \in Keepers
  PROVE  /\ i \in 1..Len(Current) /\ Survives(scan.query, Current[i])
         /\ Updated(i) \in Cand /\ Updated(i).addr = Current[i].addr
         /\ DOMAIN Updated(i).prev = (IF scan.query.dyn THEN scan.query.free ELSE 1..scan.query.len)
         /\ FoundBy(scan.query, Updated(i))
<1> DEFINE q == scan.query
           a == Current[i].addr
           win == Window(a, q.len)
<1>1. /\ i \in 1..Len(Current) /\ Current[i] \in Cand /\ a \in Nat
  BY CurrentFacts DEF IInv, Keepers
<1>2. Survives(q, Current[i])
  BY KeptFacts
<1>3. TargetFits /\ QueryFits(q) /\ QueryRefines(q)
  BY DEF IInv, ScanFits, NextFits, Behind
<1>4. \A k \in 0..(q.len - 1) : Readable(a + k)
  BY <1>2 DEF Survives
<1>5. Keeps(q, win, Current[i].prev)
  BY <1>2 DEF Survives
<1>6. /\ a \in Addr /\ win \in [1..q.len -> Byte] /\ Captured(q, win) \in Prev
      /\ DOMAIN Captured(q, win) = IF q.dyn THEN q.free ELSE 1..q.len
  <2>1. a \in Int
    BY <1>1
  <2>2. QED
    BY <1>3, <1>4, <2>1, CapturedFits
<1>7. Updated(i) \in Cand /\ Updated(i).addr = a /\ Updated(i).prev = Captured(q, win)
  <2>1. Updated(i) = [Current[i] EXCEPT !.prev = Captured(q, win)]
    BY DEF Updated, Refreshed
  <2>2. QED
    BY <1>1, <1>6, <2>1 DEF Cand
<1>8. FoundBy(q, Updated(i))
  BY <1>4, <1>7 DEF FoundBy
<1>9. QED
  BY <1>1, <1>2, <1>6, <1>7, <1>8

\* What the scan has found after this read.
LEMMA GatheredFacts ==
  ASSUME IInv, Behind
  PROVE  /\ Cands(Gathered) /\ Len(Gathered) \in Nat
         /\ \A i \in 1..Len(Gathered) : FoundBy(scan.query, Gathered[i])
         /\ Addresses(Gathered) = Addresses(scan.found) \cup {Current[i].addr : i \in Keepers}
         /\ \A i \in 1..Len(Gathered), j \in Further..Len(Current) :
              Gathered[i].addr < Current[j].addr
<1> DEFINE f == scan.found
           h == Ascending(Keepers)
           m == Cardinality(Keepers)
           new == [i \in DOMAIN h |-> Updated(h[i])]
<1>1. /\ Len(Current) \in Nat /\ \A i \in 1..Len(Current) : Current[i].addr \in Nat
      /\ \A i, j \in 1..Len(Current) : i < j => Current[i].addr < Current[j].addr
  BY CurrentFacts DEF IInv
<1>2. /\ Further \in (scan.todo + 1)..(Len(Current) + 1) /\ scan.todo \in 1..Len(Current)
      /\ Keepers \in SUBSET (scan.todo..(Further - 1))
  BY FurtherFacts, HereFacts, KeptFacts
<1>3. Keepers \in SUBSET Int /\ IsFiniteSet(Keepers)
  <2>1. scan.todo \in Int /\ Further - 1 \in Int
    BY <1>1, <1>2
  <2>2. IsFiniteSet(scan.todo..(Further - 1)) /\ scan.todo..(Further - 1) \in SUBSET Int
    BY <2>1, FS_Interval
  <2>3. IsFiniteSet(Keepers)
    BY <1>2, <2>2, FS_Subset
  <2>4. QED
    BY <1>2, <2>2, <2>3
<1>4. /\ m \in Nat /\ DOMAIN h = 1..m
      /\ \A i \in 1..m : h[i] \in Keepers
      /\ \A e \in Keepers : \E i \in 1..m : h[i] = e
      /\ \A i, j \in 1..m : i < j => h[i] < h[j]
  <2>1. /\ h \in Seq(Keepers) /\ Len(h) = m /\ m \in Nat
        /\ \A i \in 1..m : h[i] \in Keepers
        /\ \A e \in Keepers : \E i \in 1..m : h[i] = e
        /\ \A i, j \in 1..m : i < j => h[i] < h[j]
    BY <1>3, AscendingFacts
  <2> HIDE DEF h
  <2>2. DOMAIN h = 1..m
    BY <2>1
  <2>3. QED
    BY <2>1, <2>2
<1>5. Cands(f) /\ \A i \in 1..Len(f) : FoundBy(scan.query, f[i])
  <2>1. Cands(f) /\ \A i \in DOMAIN f : FoundBy(scan.query, f[i])
    BY DEF IInv, ScanFits, Behind
  <2>2. QED
    BY <2>1, CandsFacts
<1>6. \A i \in 1..Len(f), j \in scan.todo..Len(Current) : f[i].addr < Current[j].addr
  BY DEF IInv, NextFits, Behind
<1>7. /\ new = [i \in 1..m |-> new[i]] /\ Gathered = f \o new
      /\ \A i \in 1..m : /\ new[i] = Updated(h[i])
                         /\ h[i] \in scan.todo..Len(Current)
                         /\ new[i] \in Cand /\ new[i].addr = Current[h[i]].addr
                         /\ FoundBy(scan.query, new[i])
  <2>1. new = [i \in 1..m |-> new[i]] /\ Gathered = f \o new /\ \A i \in 1..m : new[i] = Updated(h[i])
    BY <1>4 DEF Gathered
  <2>2. \A e \in Keepers : e \in scan.todo..Len(Current) /\ e \in 1..Len(Current)
    BY <1>1, <1>2
  <2> HIDE DEF new, h
  <2>3. QED
    BY <1>4, <2>1, <2>2, UpdatedFacts
<1> HIDE DEF new, h
<1>8. Follow(m, new, f)
  <2>1. ASSUME NEW i \in 1..m, NEW j \in 1..m, i < j PROVE new[i].addr < new[j].addr
    <3>1. h[i] < h[j] /\ h[i] \in 1..Len(Current) /\ h[j] \in 1..Len(Current)
      <4>1. h[i] \in scan.todo..Len(Current) /\ h[j] \in scan.todo..Len(Current) /\ h[i] < h[j]
        BY <1>4, <1>7, <2>1
      <4>2. QED
        BY <1>1, <1>2, <4>1
    <3>2. QED
      BY <1>1, <1>7, <3>1
  <2>2. \A i \in 1..Len(f), j \in 1..m : f[i].addr < new[j].addr
    BY <1>6, <1>7
  <2>3. QED
    BY <1>4, <1>5, <1>7, <2>1, <2>2 DEF Follow
<1>9. Joined(Gathered, f, m, new)
  BY <1>7, <1>8, AppendFacts
<1>10. {new[i].addr : i \in 1..m} = {Current[i].addr : i \in Keepers}
  <2>1. \A i \in 1..m : \E e \in Keepers : new[i].addr = Current[e].addr
    BY <1>4, <1>7
  <2>2. ASSUME NEW e \in Keepers PROVE \E i \in 1..m : new[i].addr = Current[e].addr
    <3>1. PICK i \in 1..m : h[i] = e
      BY <1>4
    <3>2. QED
      BY <1>7, <3>1
  <2>3. QED
    BY <2>1, <2>2
<1>11. \A i \in 1..Len(Gathered) : FoundBy(scan.query, Gathered[i])
  BY <1>5, <1>7, <1>9 DEF Joined
<1>12. ASSUME NEW i \in 1..Len(Gathered), NEW j \in Further..Len(Current)
       PROVE  Gathered[i].addr < Current[j].addr
  <2>1. j \in scan.todo..Len(Current) /\ j \in 1..Len(Current)
    BY <1>1, <1>2
  <2>2. ASSUME NEW k \in 1..m, Gathered[i] = new[k] PROVE Gathered[i].addr < Current[j].addr
    <3>1. h[k] \in Keepers /\ new[k].addr = Current[h[k]].addr
      BY <1>4, <1>7
    <3>2. h[k] \in 1..Len(Current) /\ h[k] < j
      <4>1. h[k] \in scan.todo..(Further - 1)
        BY <1>2, <3>1
      <4>2. /\ Len(Current) \in Nat /\ scan.todo \in 1..Len(Current)
            /\ Further \in (scan.todo + 1)..(Len(Current) + 1)
        BY <1>1, <1>2
      <4>3. QED
        BY <4>1, <4>2
    <3>3. QED
      BY <1>1, <2>1, <2>2, <3>1, <3>2
  <2>3. QED
    BY <1>6, <1>9, <2>1, <2>2 DEF Joined
<1>13. QED
  BY <1>9, <1>10, <1>11, <1>12 DEF Joined

\* The candidates that are scanned, once the kept ones are updated in place.
LEMMA AfterFacts ==
  ASSUME IInv, Behind
  PROVE  /\ Cands(After) /\ Len(After) = Len(Current)
         /\ \A i \in 1..Len(Current) : After[i].addr = Current[i].addr
         /\ \A i \in Further..Len(Current) : After[i] = Current[i]
         /\ \A i \in 1..Len(Current) :
              \/ After[i] = Current[i]
              \/ scan.query.dyn /\ DOMAIN After[i].prev = {}
              \/ ~scan.query.dyn /\ DOMAIN After[i].prev = 1..scan.query.len
<1> DEFINE n == Len(Current)
<1>1. /\ n \in Nat /\ DOMAIN Current = 1..n /\ \A i \in 1..n : Current[i] \in Cand
      /\ \A i, j \in 1..n : i < j => Current[i].addr < Current[j].addr
  BY CurrentFacts DEF IInv
<1>2. <<>> \in Prev /\ DOMAIN <<>> = {}
  <2>1. <<>> \in [{} -> Byte]
    OBVIOUS
  <2>2. {} \in SUBSET (1..Chunk)
    OBVIOUS
  <2>3. QED
    BY <2>1, <2>2 DEF Prev
<1>3. ASSUME NEW i \in 1..n
      PROVE  /\ After[i] \in Cand /\ After[i].addr = Current[i].addr
             /\ i \notin Keepers => After[i] = Current[i]
             /\ \/ After[i] = Current[i]
                \/ scan.query.dyn /\ DOMAIN After[i].prev = {}
                \/ ~scan.query.dyn /\ DOMAIN After[i].prev = 1..scan.query.len
  <2>1. Kept(i) <=> i \in Keepers
    BY <1>1 DEF Keepers
  <2>2. After[i] = IF ~Kept(i) THEN Current[i]
                   ELSE IF scan.query.dyn THEN [Current[i] EXCEPT !.prev = <<>>] ELSE Updated(i)
    BY <1>1 DEF After
  <2>3. CASE ~Kept(i)
    BY <1>1, <2>1, <2>2, <2>3
  <2>4. CASE Kept(i) /\ scan.query.dyn
    <3>1. After[i] = [Current[i] EXCEPT !.prev = <<>>] /\ Current[i] \in Cand
      BY <1>1, <2>2, <2>4
    <3>2. After[i] \in Cand /\ After[i].addr = Current[i].addr /\ After[i].prev = <<>>
      BY <1>2, <3>1 DEF Cand
    <3>3. QED
      BY <1>2, <2>1, <2>4, <3>2
  <2>5. CASE Kept(i) /\ ~scan.query.dyn
    <3>1. After[i] = Updated(i) /\ i \in Keepers
      BY <2>1, <2>2, <2>5
    <3>2. QED
      BY <2>5, <3>1, UpdatedFacts
  <2>6. QED
    BY <2>3, <2>4, <2>5
<1>4. After = [i \in 1..n |-> After[i]]
  BY <1>1 DEF After
<1>5. Cands(After) /\ Len(After) = n
  <2>1. /\ \A i \in 1..n : After[i] \in Cand
        /\ \A i, j \in 1..n : i < j => After[i].addr < After[j].addr
    BY <1>1, <1>3
  <2>2. QED
    BY <1>1, <1>4, <2>1, CandsAre
<1>6. ASSUME NEW i \in Further..n PROVE After[i] = Current[i]
  <2>1. i \in 1..n /\ i \notin scan.todo..(Further - 1)
    BY <1>1, FurtherFacts, HereFacts
  <2>2. i \notin Keepers
    BY <2>1, KeptFacts
  <2>3. QED
    BY <1>3, <2>1, <2>2
<1>7. QED
  BY <1>3, <1>5, <1>6

LEMMA NextBlockStep ==
  ASSUME IInv, NextBlock
  PROVE  /\ Behind /\ scan' # Idle /\ DOMAIN scan' = Fields /\ scan'.op = "next"
         /\ scan'.query = scan.query /\ scan'.before = scan.before
         /\ scan'.truncated = scan.truncated
         /\ scan'.found = Gathered /\ scan'.todo = Further
         /\ scan'.budget = scan.budget - 1
         /\ \/ scan.query.dyn /\ dynCandidates' = After /\ candidates' = candidates
            \/ ~scan.query.dyn /\ candidates' = After /\ dynCandidates' = dynCandidates
         /\ UNCHANGED <<mem, mapped, dynSpec, type, truncated, warned, cancel, seen>>
<1>1. Behind
  BY DEF NextBlock, Behind
<1>2. DOMAIN scan = Fields /\ scan.op = "next"
  BY <1>1 DEF IInv, ScanFits, Behind
<1>3. scan' = [scan EXCEPT !.found = Gathered, !.todo = Further, !.budget = @ - 1]
  BY DEF NextBlock, Gathered, Further, Keepers, Kept, In, Updated, Rest, Limit, Reach, Here
<1>4. /\ DOMAIN scan' = Fields /\ scan'.op = "next"
      /\ scan'.query = scan.query /\ scan'.before = scan.before
      /\ scan'.truncated = scan.truncated
      /\ scan'.found = Gathered /\ scan'.todo = Further
      /\ scan'.budget = scan.budget - 1
  BY <1>2, <1>3 DEF Fields
<1>5. scan' # Idle
  BY <1>4 DEF Idle
<1>6. \/ scan.query.dyn /\ dynCandidates' = After /\ candidates' = candidates
      \/ ~scan.query.dyn /\ candidates' = After /\ dynCandidates' = dynCandidates
  BY DEF NextBlock, After, Kept, In, Updated, Limit, Reach, Here
<1>7. UNCHANGED <<mem, mapped, dynSpec, type, truncated, warned, cancel, seen>>
  BY DEF NextBlock, target
<1>8. QED
  BY <1>1, <1>4, <1>5, <1>6, <1>7

LEMMA NextBlockFits ==
  ASSUME IInv, NextBlock
  PROVE  IInv'
<1> DEFINE q == scan.query
           n == Len(Current)
<1>1. /\ Behind /\ scan' # Idle /\ DOMAIN scan' = Fields /\ scan'.op = "next"
      /\ scan'.query = q /\ scan'.before = scan.before
      /\ scan'.truncated = scan.truncated
      /\ scan'.found = Gathered /\ scan'.todo = Further
      /\ scan'.budget = scan.budget - 1
      /\ mem' = mem /\ mapped' = mapped /\ cancel' = cancel
      /\ UNCHANGED <<dynSpec, type, truncated, warned>>
  BY NextBlockStep
<1>2. /\ \/ q.dyn /\ dynCandidates' = After /\ candidates' = candidates
         \/ ~q.dyn /\ candidates' = After /\ dynCandidates' = dynCandidates
  BY NextBlockStep
<1>3. /\ \A p, c : FoundBy(p, c)' = FoundBy(p, c)
      /\ \A p, c : Survives(p, c)' = Survives(p, c)
      /\ TargetFits'
  BY <1>1, TargetKept DEF IInv
<1>4. /\ ResultsFit /\ QueryFits(q) /\ QueryRefines(q)
      /\ scan.truncated \in BOOLEAN /\ scan.budget \in Int
      /\ n = Len(scan.before)
      /\ \A i \in 1..n : Current[i].addr = scan.before[i].addr
      /\ scan.todo \in 1..(n + 1) /\ n + 1 - scan.todo <= scan.budget
      /\ \A i \in scan.todo..n : Current[i] = scan.before[i]
      /\ Addresses(scan.found) =
           {scan.before[i].addr : i \in {j \in 1..(scan.todo - 1) : Survives(q, scan.before[j])}}
  BY <1>1 DEF IInv, ScanFits, NextFits, Behind
<1>5. /\ Cands(After) /\ Len(After) = n
      /\ \A i \in 1..n : After[i].addr = Current[i].addr
      /\ \A i \in Further..n : After[i] = Current[i]
      /\ \A i \in 1..n : \/ After[i] = Current[i]
                         \/ q.dyn /\ DOMAIN After[i].prev = {}
                         \/ ~q.dyn /\ DOMAIN After[i].prev = 1..q.len
  BY <1>1, AfterFacts
<1>6. Current' = After
  BY <1>1, <1>2, <1>4 DEF Current, QueryRefines
<1>7. /\ n \in Nat /\ DOMAIN Current = 1..n /\ DOMAIN After = 1..n
      /\ \A i \in 1..n : Current[i].addr \in Nat
  BY <1>4, <1>5, CurrentFacts, CandsFacts
<1>8. ResultsFit'
  <2>1. CASE q.dyn
    <3>1. dynSpec # NoSpec /\ Current = dynCandidates
      BY <1>4, <2>1 DEF QueryRefines, Current
    <3>2. dynCandidates' = After /\ candidates' = candidates
      BY <1>2, <2>1
    <3>3. \A i \in 1..n : DOMAIN After[i].prev \in {dynSpec.free, {}}
      BY <1>4, <1>5, <1>7, <2>1, <3>1 DEF ResultsFit
    <3>4. QED
      BY <1>1, <1>4, <1>5, <1>7, <3>1, <3>2, <3>3 DEF ResultsFit
  <2>2. CASE ~q.dyn
    <3>1. dynSpec = NoSpec /\ Current = candidates /\ q.len = type
      BY <1>4, <2>2 DEF QueryRefines, Current
    <3>2. candidates' = After /\ dynCandidates' = dynCandidates
      BY <1>2, <2>2
    <3>3. \A i \in 1..n : DOMAIN After[i].prev = 1..type
      BY <1>4, <1>5, <1>7, <2>2, <3>1 DEF ResultsFit
    <3>4. QED
      BY <1>1, <1>4, <1>5, <1>7, <3>1, <3>2, <3>3 DEF ResultsFit
  <2>3. QED
    BY <2>1, <2>2
<1>9. /\ Cands(Gathered) /\ Len(Gathered) \in Nat
      /\ \A i \in 1..Len(Gathered) : FoundBy(q, Gathered[i])
      /\ Addresses(Gathered) = Addresses(scan.found) \cup {Current[i].addr : i \in Keepers}
      /\ \A i \in 1..Len(Gathered), j \in Further..n : Gathered[i].addr < Current[j].addr
  BY <1>1, GatheredFacts
<1>10. ScanFits'
  <2>1. (\A i \in DOMAIN scan.found : FoundBy(scan.query, scan.found[i]))'
    <3>1. DOMAIN Gathered = 1..Len(Gathered)
      BY <1>9, CandsFacts
    <3>2. QED
      BY <1>1, <1>3, <1>9, <3>1
  <2>2. Cands(scan.found)' /\ QueryFits(scan.query)' /\ scan'.truncated \in BOOLEAN
    BY <1>1, <1>4, <1>9 DEF Cands, InOrder, QueryFits
  <2>3. (/\ Len(Current) = Len(scan.before)
         /\ \A i \in 1..Len(Current) : Current[i].addr = scan.before[i].addr)'
    BY <1>1, <1>4, <1>5, <1>6
  <2>4. DOMAIN scan' = Fields /\ scan'.op \in {"first", "next"} /\ scan'.before \in Seq(Cand)
    BY <1>1 DEF IInv, ScanFits, Behind
  <2>5. QED
    BY <2>1, <2>2, <2>3, <2>4 DEF ScanFits, Cand, Prev
<1>11. /\ Further \in (scan.todo + 1)..(n + 1) /\ scan.todo \in 1..n
  BY <1>1, FurtherFacts, HereFacts
<1>12. NextFits'
  <2>1. QueryRefines(scan.query)'
    BY <1>1, <1>4 DEF QueryRefines
  <2>2. Further \in 1..(n + 1) /\ n + 1 - Further <= scan.budget - 1 /\ scan.budget - 1 \in Int
    BY <1>4, <1>7, <1>11
  <2>3. \A i \in Further..n : After[i] = scan.before[i]
    <3>1. \A i \in Further..n : i \in scan.todo..n
      BY <1>7, <1>11
    <3>2. QED
      BY <1>4, <1>5, <3>1
  <2>4. Addresses(Gathered) =
          {scan.before[i].addr : i \in {j \in 1..(Further - 1) : Survives(q, scan.before[j])}}
    <3>1. \A i \in 1..(Further - 1) : i \in 1..(scan.todo - 1) \/ i \in scan.todo..(Further - 1)
      BY <1>7, <1>11
    <3>2. \A i \in 1..(scan.todo - 1) : i \in 1..(Further - 1)
      BY <1>7, <1>11
    <3>3. \A i \in scan.todo..(Further - 1) :
            /\ i \in 1..(Further - 1) /\ Current[i] = scan.before[i]
            /\ i \in Keepers <=> Survives(q, scan.before[i])
      <4>1. \A i \in scan.todo..(Further - 1) : i \in 1..(Further - 1) /\ i \in scan.todo..n
        BY <1>7, <1>11
      <4>2. \A i \in scan.todo..(Further - 1) : i \in Keepers <=> Survives(q, Current[i])
        BY <1>1, KeptFacts
      <4>3. QED
        BY <1>4, <4>1, <4>2
    <3>4. Keepers \in SUBSET (scan.todo..(Further - 1))
      BY <1>1, KeptFacts
    <3>5. {Current[i].addr : i \in Keepers} =
            {scan.before[i].addr : i \in {j \in scan.todo..(Further - 1) : Survives(q, scan.before[j])}}
      BY <3>3, <3>4
    <3>6. QED
      BY <1>4, <1>9, <3>1, <3>2, <3>3, <3>5
  <2>5. \A i \in 1..Len(Gathered), j \in Further..n : Gathered[i].addr < After[j].addr
    BY <1>5, <1>9
  <2>6. Addresses(Gathered) = Addresses(scan.found)'
    BY <1>1 DEF Addresses
  <2>7. QED
    BY <1>1, <1>3, <1>5, <1>6, <2>1, <2>2, <2>3, <2>4, <2>5, <2>6 DEF NextFits
<1>13. FirstFits'
  BY <1>1 DEF FirstFits
<1>14. QED
  BY <1>3, <1>8, <1>10, <1>12, <1>13 DEF IInv

---------------------------------------------------------------------------
(* The other steps *)

LEMMA InitFits ==
  ASSUME Init
  PROVE  IInv
<1>1. scan = Idle /\ candidates = <<>> /\ dynCandidates = <<>> /\ dynSpec = NoSpec
  BY DEF Init
<1>2. TargetFits
  BY ScannerAssumption DEF Init, TargetFits
<1>3. ResultsFit
  <2>1. DOMAIN <<>> = {}
    OBVIOUS
  <2>2. QED
    BY <1>1, <2>1, NoCands DEF Init, ResultsFit
<1>4. ScanFits /\ FirstFits /\ NextFits
  BY <1>1 DEF ScanFits, FirstFits, NextFits
<1>5. QED
  BY <1>2, <1>3, <1>4 DEF IInv

\* Between scans only the target and the results matter.
LEMMA IdleFits ==
  ASSUME scan' = Idle, TargetFits', ResultsFit'
  PROVE  IInv'
BY DEF IInv, ScanFits, FirstFits, NextFits

LEMMA ChangeFits ==
  ASSUME IInv, Change
  PROVE  IInv'
<1>1. UNCHANGED <<results, scan, cancel>> /\ scan' = Idle
  BY DEF Change
<1>2. TargetFits'
  <2>1. CASE \E a \in Addr, b \in Byte : mem' = [mem EXCEPT ![a] = b] /\ mapped' = mapped
    BY <2>1 DEF IInv, TargetFits
  <2>2. CASE \E r \in DOMAIN Regions : /\ mapped' = IF r \in mapped THEN mapped \ {r} ELSE mapped \cup {r}
                                      /\ mem' = mem
    BY <2>2 DEF IInv, TargetFits
  <2>3. QED
    BY <2>1, <2>2 DEF Change
<1>3. ResultsFit'
  <2>1. UNCHANGED <<candidates, dynCandidates, dynSpec, type, truncated, warned>> /\ cancel' \in BOOLEAN
    BY <1>1 DEF results, IInv, ResultsFit
  <2>2. QED
    BY <2>1, ResultsKept DEF IInv
<1>4. QED
  BY <1>1, <1>2, <1>3, IdleFits

\* The scan begins with nothing found.
LEMMA BeginStep ==
  ASSUME NEW op, NEW q, NEW todo, Begin(op, q, todo)
  PROVE  /\ scan' # Idle => DOMAIN scan' = Fields
         /\ scan'.op = op /\ scan'.query = q /\ scan'.todo = todo /\ scan'.found = <<>>
         /\ scan'.truncated = FALSE /\ scan'.before = Current
         /\ scan'.budget = Remaining(op, todo, Current)
         /\ cancel' = FALSE /\ scan = Idle
         /\ UNCHANGED <<mem, mapped, seen, candidates, dynCandidates, dynSpec, type,
                        truncated, warned>>
BY DEF Begin, target, results, Fields

LEMMA BeginFits ==
  ASSUME IInv, NEW op \in {"first", "next"}, NEW q, QueryFits(q), NEW todo, Begin(op, q, todo)
  PROVE  /\ TargetFits' /\ ResultsFit' /\ ScanFits' /\ Current' = Current
         /\ \A p : Wanted(p)' = Wanted(p)
         /\ \A t : Pieces(t)' = Pieces(t)
<1>1. /\ scan' # Idle => DOMAIN scan' = Fields
      /\ scan'.op = op /\ scan'.query = q /\ scan'.todo = todo /\ scan'.found = <<>>
      /\ scan'.truncated = FALSE /\ scan'.before = Current
      /\ cancel' = FALSE
      /\ UNCHANGED <<mem, mapped, candidates, dynCandidates, dynSpec, type, truncated, warned>>
  BY BeginStep
<1>2. /\ TargetFits' /\ \A p : Wanted(p)' = Wanted(p)
      /\ \A t : Pieces(t)' = Pieces(t)
  BY <1>1, TargetKept DEF IInv
<1>3. Current' = Current /\ ResultsFit'
  BY <1>1, ResultsKept DEF IInv
<1>4. ScanFits'
  <2>1. Cands(scan.found)' /\ DOMAIN scan'.found = {}
    <3>1. Cands(<<>>) /\ DOMAIN <<>> = {}
      BY NoCands
    <3>2. QED
      BY <1>1, <3>1 DEF Cands, InOrder
  <2>2. QueryFits(scan.query)' /\ scan'.truncated \in BOOLEAN /\ scan'.op \in {"first", "next"}
    BY <1>1 DEF QueryFits
  <2>3. (/\ Len(Current) = Len(scan.before)
         /\ \A i \in 1..Len(Current) : Current[i].addr = scan.before[i].addr)'
    BY <1>1, <1>3
  <2>4. scan'.before \in Seq(Cand)
    BY <1>1, CurrentFacts DEF IInv, Cands
  <2>5. QED
    BY <1>1, <2>1, <2>2, <2>3, <2>4 DEF ScanFits, Cand, Prev
<1>5. QED
  BY <1>2, <1>3, <1>4

LEMMA FirstQueriesFit ==
  ASSUME NEW q \in FirstQueries
  PROVE  QueryFits(q)
<1>1. CASE \E w \in Widths : q = Query(FALSE, Unknown(w), "EXACT")
  BY <1>1, ScannerAssumption DEF QueryFits, Query, Unknown
<1>2. CASE \E w \in Widths : \E b \in [1..w -> Byte] : q = Query(FALSE, Value(w, b), "EXACT")
  BY <1>2, ScannerAssumption DEF QueryFits, Query, Value
<1>3. CASE \E p \in Patterns : q = Query(TRUE, p, "EXACT")
  <2>1. PICK p \in Patterns : q = Query(TRUE, p, "EXACT")
    BY <1>3
  <2>2. p \in [len : 1..Chunk, bytes : [1..p.len -> Byte], free : SUBSET (1..p.len)]
    BY ScannerAssumption
  <2>3. SpecOf(q) = p
    BY <2>1, <2>2 DEF SpecOf, Query
  <2>4. QED
    BY <2>1, <2>2, <2>3 DEF QueryFits, Query
<1>4. QED
  <2> DEFINE numeric == UNION {NumericQueries(w) : w \in Widths}
             dynamic == {Query(TRUE, p, "EXACT") : p \in Patterns}
  <2>1. FirstQueries = numeric \cup dynamic
    BY DEF FirstQueries
  <2>2. /\ q \in dynamic => \E p \in Patterns : q = Query(TRUE, p, "EXACT")
        /\ q \in numeric => \E w \in Widths : q \in NumericQueries(w)
    OBVIOUS
  <2>3. \A w \in Widths : q \in NumericQueries(w) =>
          \/ q = Query(FALSE, Unknown(w), "EXACT")
          \/ \E b \in [1..w -> Byte] : q = Query(FALSE, Value(w, b), "EXACT")
    BY DEF NumericQueries, ValueQueries
  <2> HIDE DEF numeric, dynamic
  <2>4. QED
    BY <1>1, <1>2, <1>3, <2>1, <2>2, <2>3

LEMMA NextQueriesFit ==
  ASSUME ResultsFit, NEW q \in NextQueries
  PROVE  QueryFits(q) /\ QueryRefines(q)
<1>1. CASE dynSpec = NoSpec
  <2>1. type \in Widths /\ type \in 1..Chunk
    BY ScannerAssumption DEF ResultsFit
  <2>2. CASE \E b \in [1..type -> Byte], f \in Filters \cap NeedsValue : q = Query(FALSE, Value(type, b), f)
    BY <1>1, <2>1, <2>2 DEF QueryFits, QueryRefines, Query, Value
  <2>3. CASE \E f \in Filters \ NeedsValue : q = Query(FALSE, Unknown(type), f)
    BY <1>1, <2>1, <2>3 DEF QueryFits, QueryRefines, Query, Unknown
  <2>4. QED
    <3> DEFINE valued == UNION {ValueQueries(type, f) : f \in Filters \cap NeedsValue}
               others == {Query(FALSE, Unknown(type), f) : f \in Filters \ NeedsValue}
    <3>1. NextQueries = valued \cup others
      BY <1>1 DEF NextQueries
    <3>2. /\ q \in valued => \E f \in Filters \cap NeedsValue : q \in ValueQueries(type, f)
          /\ q \in others => \E f \in Filters \ NeedsValue : q = Query(FALSE, Unknown(type), f)
      OBVIOUS
    <3>3. \A f : q \in ValueQueries(type, f) =>
            \E b \in [1..type -> Byte] : q = Query(FALSE, Value(type, b), f)
      BY DEF ValueQueries
    <3> HIDE DEF valued, others
    <3>4. QED
      BY <2>2, <2>3, <3>1, <3>2, <3>3
<1>2. CASE dynSpec # NoSpec
  <2>1. dynSpec \in Patterns
    BY <1>2 DEF ResultsFit
  <2>2. ASSUME NEW p \in Patterns, NEW f, q = Query(TRUE, p, f)
        PROVE  QueryFits(q) /\ SpecOf(q) = p /\ q.dyn = TRUE /\ q.filter = f
    <3>1. p \in [len : 1..Chunk, bytes : [1..p.len -> Byte], free : SUBSET (1..p.len)]
      BY ScannerAssumption
    <3>2. SpecOf(q) = p
      BY <2>2, <3>1 DEF SpecOf, Query
    <3>3. QED
      BY <2>2, <3>1, <3>2 DEF QueryFits, Query
  <2>3. CASE \E p \in Patterns : q = Query(TRUE, p, "EXACT")
    BY <1>2, <2>2, <2>3 DEF QueryRefines
  <2>4. CASE \E f \in DynamicFilters : q = Query(TRUE, dynSpec, f)
    BY <1>2, <2>1, <2>2, <2>4 DEF QueryRefines
  <2>5. QED
    <3> DEFINE exact == {Query(TRUE, p, "EXACT") : p \in Patterns}
               compared == {Query(TRUE, dynSpec, f) : f \in DynamicFilters}
    <3>1. NextQueries = exact \cup compared
      BY <1>2 DEF NextQueries
    <3>2. /\ q \in exact => \E p \in Patterns : q = Query(TRUE, p, "EXACT")
          /\ q \in compared => \E f \in DynamicFilters : q = Query(TRUE, dynSpec, f)
      OBVIOUS
    <3> HIDE DEF exact, compared
    <3>3. QED
      BY <2>3, <2>4, <3>1, <3>2
<1>3. QED
  BY <1>1, <1>2

\* The regions in the order of the list are pieces, and every window that is
\* wanted is inside one of them.
LEMMA AllPieces ==
  ASSUME TargetFits
  PROVE  LET order == Ascending(mapped)
             todo  == [k \in DOMAIN order |-> Regions[order[k]]]
         IN  /\ Pieces(todo)
             /\ \A q : \A a \in Wanted(q) : \E k \in 1..Len(todo) : InPiece(a, q.len, todo[k])
<1> DEFINE h == Ascending(mapped)
           m == Cardinality(mapped)
           todo == [k \in DOMAIN h |-> Regions[h[k]]]
           Segment == [start : Nat, end : Nat]
<1>1. mapped \subseteq DOMAIN Regions /\ mapped \in SUBSET Int /\ IsFiniteSet(mapped)
  <2>1. mapped \subseteq DOMAIN Regions /\ mapped \in SUBSET Int
    BY RegionFacts DEF TargetFits
  <2>2. IsFiniteSet(DOMAIN Regions)
    <3>1. DOMAIN Regions = 1..Len(Regions) /\ Len(Regions) \in Nat
      <4> HIDE DEF Segment
      <4>1. QED
        BY ScannerAssumption DEF Segment
    <3>2. QED
      BY <3>1, FS_Interval
  <2>3. QED
    BY <2>1, <2>2, FS_Subset
<1>2. /\ m \in Nat /\ DOMAIN h = 1..m
      /\ \A i \in 1..m : h[i] \in mapped
      /\ \A e \in mapped : \E i \in 1..m : h[i] = e
      /\ \A i, j \in 1..m : i < j => h[i] < h[j]
  <2>1. /\ h \in Seq(mapped) /\ Len(h) = m /\ m \in Nat
        /\ \A i \in 1..m : h[i] \in mapped
        /\ \A e \in mapped : \E i \in 1..m : h[i] = e
        /\ \A i, j \in 1..m : i < j => h[i] < h[j]
    BY <1>1, AscendingFacts
  <2> HIDE DEF h
  <2>2. DOMAIN h = 1..m
    BY <2>1
  <2>3. QED
    BY <2>1, <2>2
<1>3. \A i \in 1..m : Regions[h[i]] \in Segment
  <2>1. \A r \in DOMAIN Regions : Regions[r] \in Segment
    <3> HIDE DEF Segment
    <3>1. Regions \in Seq(Segment)
      BY ScannerAssumption DEF Segment
    <3>2. QED
      BY <3>1
  <2>2. QED
    BY <1>1, <1>2, <2>1
<1>4. todo \in Seq(Segment) /\ Len(todo) = m /\ \A i \in 1..m : todo[i] = Regions[h[i]]
  <2>1. todo \in [1..m -> Segment]
    BY <1>2, <1>3
  <2>2. \A i \in 1..m : todo[i] = Regions[h[i]]
    BY <1>2
  <2> HIDE DEF todo, Segment
  <2>3. QED
    BY <1>2, <2>1, <2>2
<1> HIDE DEF h, todo
<1>5. Pieces(todo)
  <2>1. \A k \in 1..m : /\ todo[k].start < todo[k].end
                        /\ \E r \in mapped : Regions[r].start <= todo[k].start /\ todo[k].end = Regions[r].end
    <3>1. ASSUME NEW k \in 1..m
          PROVE  /\ todo[k].start < todo[k].end
                 /\ \E r \in mapped : Regions[r].start <= todo[k].start /\ todo[k].end = Regions[r].end
      <4>1. h[k] \in mapped /\ h[k] \in DOMAIN Regions /\ todo[k] = Regions[h[k]]
        BY <1>1, <1>2, <1>4
      <4>2. Regions[h[k]].start < Regions[h[k]].end /\ Regions[h[k]].start <= Regions[h[k]].start
        BY <4>1, RegionFacts
      <4>3. QED
        BY <4>1, <4>2
    <3>2. QED
      BY <3>1
  <2>2. \A j, k \in 1..m : j < k => todo[j].end <= todo[k].start
    <3>1. ASSUME NEW j \in 1..m, NEW k \in 1..m, j < k PROVE todo[j].end <= todo[k].start
      <4>1. h[j] \in DOMAIN Regions /\ h[k] \in DOMAIN Regions /\ h[j] < h[k]
        BY <1>1, <1>2, <3>1
      <4>2. Regions[h[j]].end <= Regions[h[k]].start
        BY <4>1, RegionFacts
      <4>3. QED
        BY <1>4, <4>2
    <3>2. QED
      BY <3>1
  <2>3. QED
    BY <1>4, <2>1, <2>2 DEF Pieces
<1>6. ASSUME NEW q, NEW a \in Wanted(q)
      PROVE  \E k \in 1..m : InPiece(a, q.len, todo[k])
  <2>1. PICK r \in mapped : Regions[r].start <= a /\ a + q.len <= Regions[r].end
    BY DEF Wanted, AllWindows
  <2>2. PICK k \in 1..m : h[k] = r
    BY <1>2
  <2>3. QED
    BY <1>4, <2>1, <2>2 DEF InPiece
<1>7. QED
  BY <1>4, <1>5, <1>6 DEF todo, h

LEMMA BeginFirstFits ==
  ASSUME IInv, BeginFirst
  PROVE  IInv'
<1> DEFINE order == Ascending(mapped)
           todo == [k \in DOMAIN order |-> Regions[order[k]]]
<1>1. PICK q \in FirstQueries : Begin("first", q, todo)
  BY DEF BeginFirst
<1>2. /\ Pieces(todo)
      /\ \A p : \A a \in Wanted(p) : \E k \in 1..Len(todo) : InPiece(a, p.len, todo[k])
  BY AllPieces DEF IInv
<1> HIDE DEF todo
<1>3. /\ scan'.op = "first" /\ scan'.query = q /\ scan'.todo = todo /\ scan'.found = <<>>
      /\ scan'.truncated = FALSE /\ scan'.before = Current
      /\ scan'.budget = Remaining("first", todo, Current)
  BY <1>1 DEF Begin
<1>4. /\ TargetFits' /\ ResultsFit' /\ ScanFits' /\ Current' = Current
      /\ \A p : Wanted(p)' = Wanted(p)
      /\ \A t : Pieces(t)' = Pieces(t)
  BY <1>1, BeginFits, FirstQueriesFit
<1>5. FirstFits'
  <2>1. Pieces(scan.todo)'
    BY <1>2, <1>3, <1>4
  <2>2. /\ Remaining("first", scan.todo, Current)' = Remaining("first", todo, Current)
        /\ Remaining("first", todo, Current) \in Int
        /\ Remaining("first", todo, Current) <= Remaining("first", todo, Current)
    <3>1. Remaining("first", todo, Current) \in Nat
      BY <1>2, RemainingFacts
    <3>2. QED
      BY <1>3, <1>4, <3>1 DEF Remaining
  <2>3. Addresses(scan'.found) = {} /\ Len(scan'.found) = 0 /\ 0 <= MaxCandidates
    BY <1>3, NoCands, ScannerAssumption
  <2>4. (\A a \in Wanted(scan.query) : \E k \in 1..Len(scan.todo) : InPiece(a, scan.query.len, scan.todo[k]))'
    BY <1>2, <1>3, <1>4 DEF InPiece
  <2>5. (\A a \in Addresses(scan.found), k \in 1..Len(scan.todo) : a < scan.todo[k].start)'
    BY <2>3 DEF Addresses
  <2>6. Addresses(scan.found)' = {} /\ Current' = scan'.before
    BY <1>3, <1>4, <2>3 DEF Addresses
  <2>7. QED
    BY <1>3, <2>1, <2>2, <2>3, <2>4, <2>5, <2>6 DEF FirstFits
<1>6. NextFits'
  BY <1>3 DEF NextFits
<1>7. QED
  BY <1>4, <1>5, <1>6 DEF IInv

LEMMA BeginNextFits ==
  ASSUME IInv, BeginNext
  PROVE  IInv'
<1>1. PICK q \in NextQueries : Begin("next", q, 1)
  BY DEF BeginNext
<1>2. QueryFits(q) /\ QueryRefines(q)
  BY NextQueriesFit DEF IInv
<1>3. /\ scan'.op = "next" /\ scan'.query = q /\ scan'.todo = 1 /\ scan'.found = <<>>
      /\ scan'.truncated = FALSE /\ scan'.before = Current
      /\ scan'.budget = Remaining("next", 1, Current)
      /\ UNCHANGED <<dynSpec, type>>
  BY <1>1 DEF Begin, results
<1>4. TargetFits' /\ ResultsFit' /\ ScanFits' /\ Current' = Current
  BY <1>1, <1>2, BeginFits
<1>5. NextFits'
  <2>1. QueryRefines(scan.query)'
    BY <1>2, <1>3 DEF QueryRefines
  <2>2. Len(Current) \in Nat
    BY CurrentFacts DEF IInv
  <2>3. Remaining("next", 1, Current) = Len(Current) + 1 - 1
    BY DEF Remaining
  <2>4. (/\ scan.todo \in 1..(Len(Current) + 1)
         /\ Len(Current) + 1 - scan.todo <= scan.budget /\ scan.budget \in Int)'
    BY <1>3, <1>4, <2>2, <2>3
  <2>5. (\A i \in scan.todo..Len(Current) : Current[i] = scan.before[i])'
    BY <1>3, <1>4
  <2>6. (Addresses(scan.found) =
          {scan.before[i].addr : i \in {j \in 1..(scan.todo - 1) : Survives(scan.query, scan.before[j])}})'
    <3>1. Addresses(scan.found)' = {}
      BY <1>3, NoCands DEF Addresses
    <3>2. 1..(scan'.todo - 1) = {}
      BY <1>3
    <3>3. QED
      BY <3>1, <3>2
  <2>7. (\A i \in 1..Len(scan.found), j \in scan.todo..Len(Current) :
           scan.found[i].addr < Current[j].addr)'
    BY <1>3, NoCands
  <2>8. QED
    BY <2>1, <2>4, <2>5, <2>6, <2>7 DEF NextFits
<1>6. FirstFits'
  BY <1>3 DEF FirstFits
<1>7. QED
  BY <1>4, <1>5, <1>6 DEF IInv

LEMMA RequestCancelFits ==
  ASSUME IInv, RequestCancel
  PROVE  IInv'
<1>1. /\ UNCHANGED <<mem, mapped, candidates, dynCandidates, dynSpec, type, truncated, warned>>
      /\ scan' = scan /\ cancel' = TRUE
  BY DEF RequestCancel, target, results
<1>2. TargetFits' /\ ResultsFit' /\ Current' = Current
  BY <1>1, TargetKept, ResultsKept DEF IInv
<1>3. /\ \A q, c : FoundBy(q, c)' = FoundBy(q, c)
      /\ \A q, c : Survives(q, c)' = Survives(q, c)
      /\ \A t : Pieces(t)' = Pieces(t)
      /\ \A q : Wanted(q)' = Wanted(q)
      /\ \A q : QueryRefines(q)' = QueryRefines(q)
  BY <1>1, TargetKept, ResultsKept
<1>4. ScanFits'
  BY <1>1, <1>2, <1>3 DEF IInv, ScanFits, QueryFits
<1>5. FirstFits'
  BY <1>1, <1>2, <1>3 DEF IInv, FirstFits
<1>6. NextFits'
  BY <1>1, <1>2, <1>3 DEF IInv, NextFits
<1>7. QED
  BY <1>2, <1>4, <1>5, <1>6 DEF IInv

LEMMA CancelledFits ==
  ASSUME IInv, Cancelled
  PROVE  IInv'
<1>1. /\ UNCHANGED <<mem, mapped, candidates, dynCandidates, dynSpec, type, truncated, warned>>
      /\ scan' = Idle /\ cancel' = cancel
  BY DEF Cancelled, target, results
<1>2. cancel' \in BOOLEAN
  BY <1>1 DEF IInv, ResultsFit
<1>3. TargetFits' /\ ResultsFit'
  BY <1>1, <1>2, TargetKept, ResultsKept DEF IInv
<1>4. QED
  BY <1>1, <1>3, IdleFits

\* What a scan that is done found: candidates with what the scan keeps of them.
LEMMA PublishedFacts ==
  ASSUME IInv, scan # Idle
  PROVE  /\ QueryFits(scan.query) /\ Cands(scan.found) /\ scan.truncated \in BOOLEAN
         /\ \A i \in DOMAIN scan.found :
              DOMAIN scan.found[i].prev = IF scan.query.dyn THEN scan.query.free ELSE 1..scan.query.len
         /\ scan.query.dyn => SpecOf(scan.query) \in Patterns /\ SpecOf(scan.query) # NoSpec
<1> DEFINE q == scan.query
<1>1. /\ TargetFits /\ QueryFits(q) /\ Cands(scan.found) /\ scan.truncated \in BOOLEAN
      /\ \A i \in DOMAIN scan.found : FoundBy(q, scan.found[i])
  BY DEF IInv, ScanFits
<1>2. ASSUME NEW i \in DOMAIN scan.found
      PROVE  DOMAIN scan.found[i].prev = IF q.dyn THEN q.free ELSE 1..q.len
  <2>1. scan.found[i].addr \in Int
    BY <1>1, CandsFacts
  <2>2. /\ \A k \in 0..(q.len - 1) : Readable(scan.found[i].addr + k)
        /\ scan.found[i].prev = Captured(q, Window(scan.found[i].addr, q.len))
    BY <1>1 DEF FoundBy
  <2>3. QED
    BY <1>1, <2>1, <2>2, CapturedFits
<1>3. q.dyn => SpecOf(q) \in Patterns /\ SpecOf(q) # NoSpec
  <2>1. q.len \in 1..Chunk /\ SpecOf(q).len = q.len /\ NoSpec.len = 0
    BY <1>1 DEF QueryFits, SpecOf, NoSpec
  <2>2. Chunk \in Nat
    BY ScannerAssumption
  <2>3. QED
    BY <1>1, <2>1, <2>2 DEF QueryFits
<1>4. QED
  BY <1>1, <1>2, <1>3

LEMMA FirstPublishStep ==
  ASSUME FirstPublish
  PROVE  /\ scan # Idle /\ scan.op = "first" /\ scan.todo = <<>> /\ ~cancel
         /\ scan' = Idle /\ cancel' = cancel /\ UNCHANGED target
         /\ truncated' = scan.truncated /\ warned' = (Len(scan.found) > WarnCandidates)
         /\ Remember(scan.found)
         /\ \/ /\ scan.query.dyn
               /\ dynCandidates' = scan.found /\ dynSpec' = SpecOf(scan.query)
               /\ candidates' = <<>> /\ type' = type
            \/ /\ ~scan.query.dyn
               /\ candidates' = scan.found /\ type' = scan.query.len
               /\ dynSpec' = NoSpec /\ dynCandidates' = <<>>
BY DEF FirstPublish, SpecOf

LEMMA NextPublishStep ==
  ASSUME NextPublish
  PROVE  /\ scan # Idle /\ scan.op = "next" /\ scan.todo > Len(Current) /\ ~cancel
         /\ scan' = Idle /\ cancel' = cancel /\ UNCHANGED target
         /\ UNCHANGED <<truncated, warned>>
         /\ Remember(scan.found)
         /\ \/ /\ scan.query.dyn
               /\ dynCandidates' = scan.found /\ dynSpec' = SpecOf(scan.query)
               /\ candidates' = candidates /\ type' = type
            \/ /\ ~scan.query.dyn
               /\ candidates' = scan.found /\ type' = scan.query.len
               /\ UNCHANGED <<dynSpec, dynCandidates>>
BY DEF NextPublish, SpecOf

LEMMA PublishFits ==
  ASSUME IInv, FirstPublish \/ NextPublish
  PROVE  IInv'
<1> DEFINE q == scan.query
<1>1. /\ scan # Idle /\ scan' = Idle /\ cancel' = cancel /\ UNCHANGED target
  BY FirstPublishStep, NextPublishStep
<1>2. /\ QueryFits(q) /\ Cands(scan.found) /\ scan.truncated \in BOOLEAN
      /\ \A i \in DOMAIN scan.found : DOMAIN scan.found[i].prev = IF q.dyn THEN q.free ELSE 1..q.len
      /\ q.dyn => SpecOf(q) \in Patterns /\ SpecOf(q) # NoSpec
  BY <1>1, PublishedFacts
<1>3. TargetFits'
  BY <1>1, TargetKept DEF IInv, target
<1>4. SpecOf(q).free = q.free
  BY DEF SpecOf
<1>5. Cands(<<>>) /\ DOMAIN <<>> = {}
  BY NoCands
<1>6. ResultsFit /\ (q.dyn => QueryFits(q)) /\ (~q.dyn => q.len \in Widths)
  BY <1>2 DEF IInv, QueryFits
<1>7. truncated' \in BOOLEAN /\ warned' \in BOOLEAN /\ cancel' \in BOOLEAN
  <2>1. truncated \in BOOLEAN /\ warned \in BOOLEAN /\ cancel \in BOOLEAN
    BY <1>6 DEF ResultsFit
  <2>2. CASE FirstPublish
    <3>1. truncated' = scan.truncated /\ warned' = (Len(scan.found) > WarnCandidates)
      BY <2>2, FirstPublishStep
    <3>2. QED
      BY <1>1, <1>2, <2>1, <3>1
  <2>3. CASE NextPublish
    BY <1>1, <2>1, <2>3, NextPublishStep
  <2>4. QED
    BY <2>2, <2>3
<1>8. CASE FirstPublish
  <2>1. CASE q.dyn
    <3>1. dynCandidates' = scan.found /\ dynSpec' = SpecOf(q) /\ candidates' = <<>> /\ type' = type
      BY <1>8, <2>1, FirstPublishStep
    <3>2. ResultsFit'
      BY <1>2, <1>4, <1>5, <1>6, <1>7, <2>1, <3>1 DEF ResultsFit, Cands, InOrder
    <3>3. QED
      BY <1>1, <1>3, <3>2, IdleFits
  <2>2. CASE ~q.dyn
    <3>1. candidates' = scan.found /\ type' = q.len /\ dynSpec' = NoSpec /\ dynCandidates' = <<>>
      BY <1>8, <2>2, FirstPublishStep
    <3>2. ResultsFit'
      BY <1>2, <1>5, <1>6, <1>7, <2>2, <3>1 DEF ResultsFit, Cands, InOrder
    <3>3. QED
      BY <1>1, <1>3, <3>2, IdleFits
  <2>3. QED
    BY <2>1, <2>2
<1>9. CASE NextPublish
  <2>1. QueryRefines(q)
    BY <1>1, <1>9, NextPublishStep DEF IInv, NextFits
  <2>2. CASE q.dyn
    <3>1. dynCandidates' = scan.found /\ dynSpec' = SpecOf(q) /\ candidates' = candidates /\ type' = type
      BY <1>9, <2>2, NextPublishStep
    <3>2. dynSpec # NoSpec /\ candidates = <<>>
      BY <1>6, <2>1, <2>2 DEF QueryRefines, ResultsFit
    <3>3. ResultsFit'
      BY <1>2, <1>4, <1>5, <1>6, <1>7, <2>2, <3>1, <3>2 DEF ResultsFit, Cands, InOrder
    <3>4. QED
      BY <1>1, <1>3, <3>3, IdleFits
  <2>3. CASE ~q.dyn
    <3>1. candidates' = scan.found /\ type' = q.len /\ dynSpec' = dynSpec /\ dynCandidates' = dynCandidates
      BY <1>9, <2>3, NextPublishStep
    <3>2. dynSpec = NoSpec /\ dynCandidates = <<>>
      BY <1>6, <2>1, <2>3 DEF QueryRefines, ResultsFit
    <3>3. ResultsFit'
      BY <1>2, <1>5, <1>6, <1>7, <2>3, <3>1, <3>2 DEF ResultsFit, Cands, InOrder
    <3>4. QED
      BY <1>1, <1>3, <3>3, IdleFits
  <2>4. QED
    BY <2>2, <2>3
<1>10. QED
  BY <1>8, <1>9

LEMMA StutterFits ==
  ASSUME IInv, UNCHANGED vars
  PROVE  IInv'
<1>1. /\ UNCHANGED <<mem, mapped, candidates, dynCandidates, dynSpec, type, truncated, warned>>
      /\ scan' = scan /\ cancel' = cancel
  BY DEF vars, target, results
<1>2. TargetFits' /\ ResultsFit' /\ Current' = Current
  <2>1. cancel' \in BOOLEAN
    BY <1>1 DEF IInv, ResultsFit
  <2>2. QED
    BY <1>1, <2>1, TargetKept, ResultsKept DEF IInv
<1>3. /\ \A q, c : FoundBy(q, c)' = FoundBy(q, c)
      /\ \A q, c : Survives(q, c)' = Survives(q, c)
      /\ \A t : Pieces(t)' = Pieces(t)
      /\ \A q : Wanted(q)' = Wanted(q)
      /\ \A q : QueryRefines(q)' = QueryRefines(q)
  BY <1>1, TargetKept, ResultsKept
<1>4. ScanFits'
  BY <1>1, <1>2, <1>3 DEF IInv, ScanFits, QueryFits
<1>5. FirstFits'
  BY <1>1, <1>2, <1>3 DEF IInv, FirstFits
<1>6. NextFits'
  BY <1>1, <1>2, <1>3 DEF IInv, NextFits
<1>7. QED
  BY <1>2, <1>4, <1>5, <1>6 DEF IInv

LEMMA NextFitsInv ==
  ASSUME IInv, [Next]_vars
  PROVE  IInv'
<1>1. CASE Change
  BY <1>1, ChangeFits
<1>2. CASE BeginFirst
  BY <1>2, BeginFirstFits
<1>3. CASE BeginNext
  BY <1>3, BeginNextFits
<1>4. CASE RequestCancel
  BY <1>4, RequestCancelFits
<1>5. CASE Cancelled
  BY <1>5, CancelledFits
<1>6. CASE FirstBlock
  BY <1>6, FirstBlockFits
<1>7. CASE NextBlock
  BY <1>7, NextBlockFits
<1>8. CASE FirstPublish \/ NextPublish
  BY <1>8, PublishFits
<1>9. CASE UNCHANGED vars
  BY <1>9, StutterFits
<1>10. QED
  BY <1>1, <1>2, <1>3, <1>4, <1>5, <1>6, <1>7, <1>8, <1>9 DEF Next, ScanStep

LEMMA Invariance == Spec => []IInv
<1>1. Init => IInv
  BY InitFits
<1>2. IInv /\ [Next]_vars => IInv'
  BY NextFitsInv
<1>3. QED
  BY <1>1, <1>2, PTL DEF Spec

---------------------------------------------------------------------------
(* Theorems *)

\* The scanner keeps numeric candidates with values of its type, or dynamic
\* ones with the bytes of its pattern, never both.
THEOREM TypeCorrect == Spec => []TypeOK
<1>1. ASSUME IInv PROVE TypeOK
  <2>1. TargetFits /\ ResultsFit
    BY <1>1 DEF IInv
  <2>2. ASSUME NEW i \in DOMAIN candidates
        PROVE  candidates[i].addr \in Addr /\ candidates[i].prev \in [1..type -> Byte]
    <3>1. /\ candidates[i].addr \in Addr /\ candidates[i].prev \in Prev
          /\ DOMAIN candidates[i].prev = 1..type
      BY <2>1, CandsFacts DEF ResultsFit
    <3>2. QED
      BY <3>1 DEF Prev
  <2>3. ASSUME NEW i \in DOMAIN dynCandidates
        PROVE  /\ dynCandidates[i].addr \in Addr
               /\ DOMAIN dynCandidates[i].prev \in {dynSpec.free, {}}
    BY <2>1, CandsFacts DEF ResultsFit
  <2>4. QED
    BY <2>1, <2>2, <2>3 DEF TypeOK, TargetFits, ResultsFit
<1>2. QED
  BY <1>1, Invariance, PTL

\* Every block of a scan leaves strictly less to do, whether the memory there
\* can be read or not.
THEOREM ScansAdvance == Spec => []BlocksAdvance
<1>1. ASSUME IInv PROVE BlocksAdvance
  <2>1. ASSUME scan # Idle PROVE Remaining(scan.op, scan.todo, Current) <= scan.budget
    <3>1. scan.op = "first" \/ scan.op = "next"
      BY <1>1, <2>1 DEF IInv, ScanFits
    <3>2. CASE scan.op = "first"
      BY <1>1, <2>1, <3>2 DEF IInv, FirstFits
    <3>3. CASE scan.op = "next"
      <4>1. Remaining("next", scan.todo, Current) = Len(Current) + 1 - scan.todo
        BY DEF Remaining
      <4>2. QED
        BY <1>1, <2>1, <3>3, <4>1 DEF IInv, NextFits
    <3>4. QED
      BY <3>1, <3>2, <3>3
  <2>2. QED
    BY <2>1 DEF BlocksAdvance
<1>2. QED
  BY <1>1, Invariance, PTL

\* A cancelled scan neither adds nor loses a candidate, and a cancelled first
\* scan changes nothing.
THEOREM CancelKeeps == Spec => CancelKeepsAddresses
<1>1. ASSUME IInv, [Next]_vars, Cancelling
      PROVE  /\ Addresses(Current') = Addresses(scan.before)
             /\ Len(Current') = Len(scan.before)
             /\ scan.op = "first" => Current' = scan.before
  <2>1. /\ \A i \in 1..Len(Current) : Current[i].addr = scan.before[i].addr
        /\ Len(Current) = Len(scan.before)
        /\ scan.op = "first" => Current = scan.before
    BY <1>1 DEF Cancelling, IInv, ScanFits, FirstFits
  <2>2. Current' = Current
    <3>1. Cancelled
      <4>1. scan # Idle /\ cancel /\ scan' = Idle
        BY <1>1 DEF Cancelling
      <4>2. ~FirstBlock /\ ~NextBlock /\ ~FirstPublish /\ ~NextPublish
        BY <4>1 DEF FirstBlock, NextBlock, FirstPublish, NextPublish
      <4>3. ~Change /\ ~BeginFirst /\ ~BeginNext /\ ~RequestCancel
        BY <4>1 DEF Change, BeginFirst, BeginNext, Begin, RequestCancel
      <4>4. ~UNCHANGED vars
        BY <4>1 DEF vars
      <4>5. QED
        BY <1>1, <4>2, <4>3, <4>4 DEF Next, ScanStep
    <3>2. QED
      BY <3>1 DEF Cancelled, results, Current
  <2>3. Addresses(Current) = Addresses(scan.before)
    <3>1. Len(Current) \in Nat /\ Addresses(Current) = {Current[i].addr : i \in 1..Len(Current)}
      BY <1>1, CurrentFacts DEF IInv
    <3>2. scan.before \in Seq(Cand) /\ DOMAIN scan.before = 1..Len(Current)
      BY <1>1, <2>1 DEF IInv, ScanFits, Cancelling
    <3>3. QED
      BY <2>1, <3>1, <3>2 DEF Addresses
  <2>4. QED
    BY <2>1, <2>2, <2>3
<1>2. IInv /\ [Next]_vars =>
        [Cancelling => /\ Addresses(Current') = Addresses(scan.before)
                       /\ Len(Current') = Len(scan.before)
                       /\ scan.op = "first" => Current' = scan.before]_vars
  BY <1>1
<1>3. QED
  BY <1>2, Invariance, PTL DEF Spec, CancelKeepsAddresses

\* As many candidates as addresses.
LEMMA CountAddresses ==
  ASSUME NEW cands, Cands(cands)
  PROVE  IsFiniteSet(Addresses(cands)) /\ Cardinality(Addresses(cands)) = Len(cands)
<1> DEFINE n == Len(cands)
           S == Addresses(cands)
           at == [i \in 1..n |-> cands[i].addr]
<1>1. /\ n \in Nat /\ S = {cands[i].addr : i \in 1..n}
      /\ \A i \in 1..n : cands[i].addr \in Nat
      /\ \A i, j \in 1..n : i < j => cands[i].addr < cands[j].addr
  BY CandsFacts
<1>2. at \in [1..n -> S]
  BY <1>1
<1>3. \A i, j \in 1..n : at[i] = at[j] => i = j
  <2>1. SUFFICES ASSUME NEW i \in 1..n, NEW j \in 1..n, cands[i].addr = cands[j].addr, i # j
                 PROVE  FALSE
    OBVIOUS
  <2>2. i < j \/ j < i
    BY <1>1, <2>1
  <2>3. QED
    BY <1>1, <2>1, <2>2
<1>4. \A a \in S : \E i \in 1..n : at[i] = a
  BY <1>1
<1>5. n \in Nat
  BY <1>1
<1> HIDE DEF at, S, n
<1>6. IsFiniteSet(1..n) /\ Cardinality(1..n) = n
  BY <1>5, FS_Interval
<1>7. at \in Bijection(1..n, S)
  BY <1>2, <1>3, <1>4, Fun_IsBij
<1>8. ExistsBijection(1..n, S)
  BY <1>7 DEF ExistsBijection
<1>9. IsFiniteSet(S) /\ Cardinality(S) = n
  BY <1>6, <1>8, FS_Bijection
<1>10. QED
  BY <1>9 DEF S, n

LEMMA WantedFinite ==
  ASSUME NEW q
  PROVE  Wanted(q) \in SUBSET Int /\ IsFiniteSet(Wanted(q))
<1> DEFINE Segment == [start : Nat, end : Nat]
<1>1. PICK n \in Nat : n = Len(Regions) /\ DOMAIN Regions = 1..n
  <2>1. Regions \in Seq(Segment)
    BY ScannerAssumption
  <2> HIDE DEF Segment
  <2>2. QED
    BY <2>1
<1>2. Wanted(q) \subseteq Addr
  BY DEF Wanted, AllWindows
<1>3. CASE n = 0
  <2>1. Addr = {}
    BY <1>1, <1>3 DEF Addr
  <2>2. QED
    BY <1>2, <2>1, FS_EmptySet
<1>4. CASE n # 0
  <2>1. n \in 1..n /\ Regions[n].end \in Nat
    BY <1>1, <1>4, RegionFacts
  <2>2. ASSUME NEW a \in Addr PROVE a \in 0..Regions[n].end
    <3>1. PICK r \in 1..n : a \in Regions[r].start..(Regions[r].end - 1)
      BY <1>1 DEF Addr
    <3>2. /\ Regions[r].start \in Nat /\ Regions[r].end \in Nat
          /\ Regions[n].start \in Nat /\ Regions[n].start < Regions[n].end
      BY <1>1, <2>1, RegionFacts
    <3>3. r = n \/ Regions[r].end <= Regions[n].start
      <4>1. r = n \/ r < n
        OBVIOUS
      <4>2. QED
        BY <1>1, <2>1, <4>1, RegionFacts
    <3>4. QED
      BY <2>1, <3>1, <3>2, <3>3
  <2>3. IsFiniteSet(0..Regions[n].end) /\ 0..Regions[n].end \in SUBSET Int
    <3> DEFINE last == Regions[n].end
    <3>1. last \in Nat
      BY <2>1
    <3> HIDE DEF last
    <3>2. IsFiniteSet(0..last)
      BY <3>1, FS_Interval
    <3>3. 0..last \in SUBSET Int
      BY <3>1
    <3>4. QED
      BY <3>2, <3>3 DEF last
  <2>4. Wanted(q) \in SUBSET (0..Regions[n].end)
    BY <1>2, <2>2
  <2>5. QED
    BY <2>3, <2>4, FS_Subset
<1>5. QED
  BY <1>3, <1>4

\* A first scan that is done has found the first windows it wants, and says
\* whether it left any out.
LEMMA FirstIsExact ==
  ASSUME IInv, scan # Idle, scan.op = "first", scan.todo = <<>>
  PROVE  /\ Addresses(scan.found) = FirstExpected.addresses
         /\ scan.truncated = FirstExpected.truncated
<1> DEFINE q == scan.query
           found == Addresses(scan.found)
           n == Cardinality(Wanted(q))
<1>1. /\ Cands(scan.found) /\ scan.truncated \in BOOLEAN
      /\ Len(scan.found) <= MaxCandidates /\ found \subseteq Wanted(q)
      /\ ~scan.truncated => Wanted(q) \subseteq found
      /\ scan.truncated => /\ Len(scan.found) = MaxCandidates
                           /\ \A a \in found, b \in Wanted(q) : b < a => b \in found
                           /\ found # Wanted(q)
  <2>1. Len(scan.todo) = 0 /\ 1..0 = {}
    OBVIOUS
  <2>2. QED
    BY <2>1 DEF IInv, ScanFits, FirstFits
<1>2. Cardinality(found) = Len(scan.found) /\ Len(scan.found) \in Nat
  BY <1>1, CountAddresses, CandsFacts
<1>3. Wanted(q) \in SUBSET Int /\ IsFiniteSet(Wanted(q)) /\ n \in Nat
  BY WantedFinite, FS_CardinalityType
<1>4. MaxCandidates \in Nat
  BY ScannerAssumption
<1>5. /\ FirstExpected.addresses = {Ascending(Wanted(q))[i] : i \in 1..Smaller(n, MaxCandidates)}
      /\ FirstExpected.truncated = (n > MaxCandidates)
  BY DEF FirstExpected, Wanted
<1> HIDE DEF q, n, found
<1>6. Cardinality(found) \in 0..n /\ {Ascending(Wanted(q))[i] : i \in 1..Cardinality(found)} = found
  <2>1. found \in SUBSET Wanted(q)
    BY <1>1
  <2>2. \A d \in found, e \in Wanted(q) : e < d => e \in found
    BY <1>1
  <2>3. QED
    BY <1>3, <2>1, <2>2, AscendingPrefix DEF n
<1>7. CASE ~scan.truncated
  <2>1. found = Wanted(q)
    BY <1>1, <1>7
  <2>2. n = Len(scan.found)
    BY <1>2, <2>1 DEF n
  <2>3. ~(n > MaxCandidates) /\ Smaller(n, MaxCandidates) = n
    BY <1>1, <1>2, <1>4, <2>2 DEF Smaller
  <2>4. QED
    BY <1>1, <1>2, <1>5, <1>6, <1>7, <2>2, <2>3 DEF found
<1>8. CASE scan.truncated
  <2>1. Cardinality(found) = MaxCandidates
    BY <1>1, <1>2, <1>8
  <2>2. Cardinality(found) # n
    BY <1>1, <1>3, <1>8, FS_Subset DEF n
  <2>3. n > MaxCandidates /\ Smaller(n, MaxCandidates) = MaxCandidates
    BY <1>3, <1>4, <1>6, <2>1, <2>2 DEF Smaller
  <2>4. QED
    BY <1>1, <1>5, <1>6, <1>8, <2>1, <2>3 DEF found
<1>9. QED
  BY <1>1, <1>7, <1>8

\* What a candidate is compared with, the scanner rebuilds from its pattern.
LEMMA ComparedAlike ==
  ASSUME NEW q, QueryFits(q), QueryRefines(q), NEW win, NEW prev
  PROVE  Keeps([q EXCEPT !.dyn = FALSE], win, Previous(Query(dynSpec # NoSpec, dynSpec, "EXACT"), prev))
           <=> Keeps(q, win, prev)
<1> DEFINE plain == [q EXCEPT !.dyn = FALSE]
           held == Query(dynSpec # NoSpec, dynSpec, "EXACT")
           old == Previous(held, prev)
<1>1. /\ plain.dyn = FALSE /\ plain.len = q.len /\ plain.bytes = q.bytes
      /\ plain.free = q.free /\ plain.filter = q.filter
  BY DEF QueryFits
<1>2. /\ held.dyn = (dynSpec # NoSpec) /\ held.len = dynSpec.len
      /\ held.bytes = dynSpec.bytes /\ held.free = dynSpec.free
  BY DEF Query
<1> HIDE DEF plain, held
<1>3. Matches(plain, win) <=> Matches(q, win)
  BY <1>1 DEF Matches
<1>4. Previous(plain, old) = old
  BY <1>1 DEF Previous
<1> HIDE DEF old
<1>5. CASE q.dyn = FALSE
  <2>1. dynSpec = NoSpec
    BY <1>5 DEF QueryRefines
  <2>2. old = prev /\ Previous(q, prev) = prev
    BY <1>2, <1>5, <2>1 DEF old, Previous
  <2>3. QED
    BY <1>1, <1>3, <1>4, <2>2 DEF Keeps, plain, old, held
<1>6. CASE q.dyn = TRUE /\ q.filter = "EXACT"
  <2>1. plain.filter = "EXACT"
    BY <1>1, <1>6
  <2>2. Keeps(plain, win, old) <=> Matches(plain, win)
    BY <2>1 DEF Keeps
  <2>3. Keeps(q, win, prev) <=> Matches(q, win)
    BY <1>6 DEF Keeps
  <2>4. QED
    BY <1>3, <2>2, <2>3 DEF plain, old, held
<1>7. CASE q.dyn = TRUE /\ q.filter \in DynamicFilters /\ SpecOf(q) = dynSpec
  <2>1. /\ dynSpec.len = q.len /\ dynSpec.bytes = q.bytes /\ dynSpec.free = q.free
        /\ dynSpec # NoSpec
    BY <1>7 DEF SpecOf, QueryRefines
  <2>2. old = Previous(q, prev)
    BY <1>2, <1>7, <2>1 DEF old, Previous
  <2>3. q.filter \in {"CHANGED", "UNCHANGED"}
    BY <1>7, ScannerAssumption
  <2>4. Keeps(plain, win, old) <=> \/ q.filter = "CHANGED" /\ win # old
                                   \/ q.filter = "UNCHANGED" /\ win = old
    BY <1>1, <1>4, <2>3 DEF Keeps
  <2>5. Keeps(q, win, prev) <=> \/ q.filter = "CHANGED" /\ win # Previous(q, prev)
                                \/ q.filter = "UNCHANGED" /\ win = Previous(q, prev)
    BY <2>3 DEF Keeps
  <2>6. QED
    BY <2>2, <2>4, <2>5 DEF plain, old, held
<1>8. QED
  BY <1>5, <1>6, <1>7 DEF QueryFits, QueryRefines

\* A next scan that is done has kept the candidates that survive, by what
\* they were last seen to be.
LEMMA NextIsExact ==
  ASSUME IInv, scan # Idle, scan.op = "next", scan.todo > Len(Current), Remembered(scan.before)
  PROVE  Addresses(scan.found) = NextExpected
<1> DEFINE q == scan.query
           plain == [q EXCEPT !.dyn = FALSE]
<1>1. PICK n \in Nat : n = Len(Current)
  BY CurrentFacts DEF IInv
<1>2. /\ QueryFits(q) /\ QueryRefines(q)
      /\ scan.before \in Seq(Cand) /\ Len(scan.before) = n
      /\ scan.todo \in 1..(n + 1)
      /\ Addresses(scan.found) =
           {scan.before[i].addr : i \in {j \in 1..(scan.todo - 1) : Survives(q, scan.before[j])}}
  BY <1>1 DEF IInv, ScanFits, NextFits
<1>3. scan.todo - 1 = n
  BY <1>1, <1>2
<1>4. DOMAIN scan.before = 1..n
  BY <1>2
<1>5. \A i \in 1..n : Survives(q, scan.before[i]) <=>
        /\ \A k \in 0..(q.len - 1) : Readable(scan.before[i].addr + k)
        /\ Keeps(plain, Window(scan.before[i].addr, q.len), Shown(seen[scan.before[i].addr]))
  <2>1. ASSUME NEW i \in 1..n
        PROVE  Keeps(plain, Window(scan.before[i].addr, q.len), Shown(seen[scan.before[i].addr]))
                 <=> Keeps(q, Window(scan.before[i].addr, q.len), scan.before[i].prev)
    <3>1. Previous(Query(dynSpec # NoSpec, dynSpec, "EXACT"), scan.before[i].prev)
            = Shown(seen[scan.before[i].addr])
      BY <1>4, <2>1 DEF Remembered
    <3>2. QED
      BY <1>2, <3>1, ComparedAlike
  <2>2. QED
    BY <2>1 DEF Survives
<1>6. Addresses(scan.before) = {scan.before[i].addr : i \in 1..n}
  BY <1>4 DEF Addresses
<1>7. NextExpected = {a \in Addresses(scan.before) :
         /\ \A k \in 0..(q.len - 1) : Readable(a + k)
         /\ Keeps(plain, Window(a, q.len), Shown(seen[a]))}
  BY DEF NextExpected
<1> HIDE DEF q, plain
<1>8. QED
  BY <1>2, <1>3, <1>5, <1>6, <1>7

\* Whatever the blocks, the gaps between regions and the scans before, a scan
\* finds what its filter asks for, each address once and in order.
THEOREM ScansExact == Spec => []FoundIsExact
<1>1. ASSUME IInv PROVE FoundIsExact
  <2>1. SUFFICES ASSUME Scanned
                 PROVE  /\ InOrder(scan.found)
                        /\ IF scan.op = "first"
                           THEN /\ Addresses(scan.found) = FirstExpected.addresses
                                /\ scan.truncated = FirstExpected.truncated
                           ELSE Remembered(scan.before) => Addresses(scan.found) = NextExpected
    BY DEF FoundIsExact
  <2>2. scan # Idle /\ scan.op \in {"first", "next"} /\ InOrder(scan.found)
    BY <1>1, <2>1 DEF Scanned, IInv, ScanFits, Cands
  <2>3. CASE scan.op = "first"
    BY <1>1, <2>1, <2>2, <2>3, FirstIsExact DEF Scanned
  <2>4. CASE scan.op = "next"
    BY <1>1, <2>1, <2>2, <2>4, NextIsExact DEF Scanned
  <2>5. QED
    BY <2>2, <2>3, <2>4
<1>2. QED
  BY <1>1, Invariance, PTL

\* The bytes read, with those of the pattern where it has them.
Rebuilt(q, win) ==
  IF q.dyn THEN [k \in 1..q.len |-> IF k \in q.free THEN win[k] ELSE q.bytes[k]] ELSE win

\* What a scan publishes shows what the scan read.
LEMMA FoundIsRemembered ==
  ASSUME IInv, scan # Idle, NEW i \in DOMAIN scan.found
  PROVE  /\ scan.found[i].addr \in Addr
         /\ Previous(Query(scan.query.dyn, SpecOf(scan.query), "EXACT"), scan.found[i].prev)
              = Rebuilt(scan.query, Window(scan.found[i].addr, scan.query.len))
<1> DEFINE q == scan.query
           a == scan.found[i].addr
           win == Window(a, q.len)
<1>1. TargetFits /\ QueryFits(q) /\ Cands(scan.found) /\ FoundBy(q, scan.found[i])
  BY DEF IInv, ScanFits
<1>2. a \in Addr
  BY <1>1, CandsFacts
<1>3. scan.found[i].prev = Captured(q, win)
  BY <1>1 DEF FoundBy
<1> HIDE DEF q, win
<1>4. CASE q.dyn = TRUE
  <2>1. scan.found[i].prev = [k \in q.free |-> win[k]]
    BY <1>3, <1>4 DEF Captured
  <2>2. Previous(Query(q.dyn, SpecOf(q), "EXACT"), scan.found[i].prev)
          = [k \in 1..q.len |-> IF k \notin q.free THEN q.bytes[k] ELSE win[k]]
    BY <1>4, <2>1 DEF Previous, Query, SpecOf
  <2>3. QED
    BY <1>2, <1>4, <2>2 DEF q, win, Rebuilt
<1>5. CASE q.dyn = FALSE
  <2>1. scan.found[i].prev = win
    BY <1>3, <1>5 DEF Captured
  <2>2. Previous(Query(q.dyn, SpecOf(q), "EXACT"), scan.found[i].prev) = scan.found[i].prev
    BY <1>5 DEF Previous, Query
  <2>3. QED
    BY <1>2, <1>5, <2>1, <2>2 DEF q, win, Rebuilt
<1>6. QED
  BY <1>1, <1>4, <1>5 DEF QueryFits

ShownWith(spec, win) ==
  IF spec = NoSpec THEN win
  ELSE [k \in 1..spec.len |-> IF k \in spec.free THEN win[k] ELSE spec.bytes[k]]

LEMMA PublishRemembers ==
  ASSUME IInv, FirstPublish \/ NextPublish
  PROVE  Remembered(Current)'
<1> DEFINE q == scan.query
<1>1. scan # Idle /\ Remember(scan.found)
  BY FirstPublishStep, NextPublishStep
<1>2. QueryFits(q) /\ (q.dyn => SpecOf(q) # NoSpec)
  BY <1>1, PublishedFacts
<1>3. Current' = scan.found /\ (q.dyn => dynSpec' = SpecOf(q)) /\ (~q.dyn => dynSpec' = NoSpec)
  <2>1. CASE FirstPublish
    BY <1>2, <2>1, FirstPublishStep DEF Current
  <2>2. CASE NextPublish
    <3>1. q.dyn <=> dynSpec # NoSpec
      BY <1>1, <2>2, NextPublishStep DEF IInv, NextFits, QueryRefines
    <3>2. QED
      BY <1>2, <2>2, <3>1, NextPublishStep DEF Current
  <2>3. QED
    BY <2>1, <2>2
<1>4. ASSUME NEW i \in DOMAIN scan.found
      PROVE  Previous(Query(dynSpec' # NoSpec, dynSpec', "EXACT"), scan.found[i].prev)
               = ShownWith(dynSpec', seen'[scan.found[i].addr])
  <2>1. /\ scan.found[i].addr \in Addr
        /\ Previous(Query(q.dyn, SpecOf(q), "EXACT"), scan.found[i].prev)
             = Rebuilt(q, Window(scan.found[i].addr, q.len))
    BY <1>1, FoundIsRemembered
  <2>2. seen'[scan.found[i].addr] = Window(scan.found[i].addr, q.len)
    BY <1>1, <2>1 DEF Remember
  <2>3. CASE q.dyn = TRUE
    <3>1. dynSpec' = SpecOf(q) /\ (dynSpec' # NoSpec) = TRUE
      BY <1>2, <1>3, <2>3
    <3>2. ShownWith(SpecOf(q), Window(scan.found[i].addr, q.len))
            = Rebuilt(q, Window(scan.found[i].addr, q.len))
      BY <1>2, <2>3 DEF ShownWith, Rebuilt, SpecOf
    <3>3. QED
      BY <2>1, <2>2, <2>3, <3>1, <3>2
  <2>4. CASE q.dyn = FALSE
    <3>1. Previous(Query(dynSpec' # NoSpec, dynSpec', "EXACT"), scan.found[i].prev) = scan.found[i].prev
      BY <1>3, <2>4 DEF Previous, Query
    <3>2. Previous(Query(q.dyn, SpecOf(q), "EXACT"), scan.found[i].prev) = scan.found[i].prev
      BY <2>4 DEF Previous, Query
    <3>3. ShownWith(dynSpec', Window(scan.found[i].addr, q.len))
            = Rebuilt(q, Window(scan.found[i].addr, q.len))
      BY <1>3, <2>4 DEF ShownWith, Rebuilt
    <3>4. QED
      BY <2>1, <2>2, <3>1, <3>2, <3>3
  <2>5. QED
    BY <1>2, <2>3, <2>4 DEF QueryFits
<1>5. QED
  BY <1>3, <1>4 DEF Remembered, Shown, ShownWith

\* A step that ends no scan.
LEMMA StillScanning ==
  ASSUME IInv, BeginFirst \/ BeginNext \/ FirstBlock \/ NextBlock
  PROVE  scan' # Idle
<1>1. DOMAIN Idle = {"op"} /\ Fields # {"op"}
  BY DEF Idle, Fields
<1>2. CASE BeginFirst \/ BeginNext
  <2>1. ASSUME NEW op, NEW q, NEW todo, Begin(op, q, todo) PROVE DOMAIN scan' = Fields
    BY <2>1 DEF Begin, Fields
  <2>2. QED
    BY <1>1, <1>2, <2>1 DEF BeginFirst, BeginNext
<1>3. CASE FirstBlock \/ NextBlock
  <2>1. DOMAIN scan = Fields
    BY <1>3 DEF IInv, ScanFits, FirstBlock, NextBlock
  <2>2. DOMAIN scan' = DOMAIN scan
    BY <1>3 DEF FirstBlock, NextBlock
  <2>3. QED
    BY <1>1, <2>1, <2>2
<1>4. QED
  BY <1>2, <1>3

\* A step that leaves the results and what was seen.
LEMMA StillRemembered ==
  ASSUME UNCHANGED <<candidates, dynCandidates, dynSpec, seen>>, Remembered(Current)
  PROVE  Remembered(Current)'
<1>1. Current' = Current
  BY DEF Current
<1> HIDE DEF Current
<1>2. Remembered(Current)' <=> Remembered(Current)
  BY <1>1 DEF Remembered, Shown, Previous, Query
<1>3. QED
  BY <1>2

\* Every candidate keeps, and is compared with, what the last completed scan
\* read there, at the wildcards of its pattern if it has one, for any patterns
\* and filters one after the other (scanner.cpp:155-169).
THEOREM ScansRemember == Spec => []RemembersLastScan
<1>1. Init => RemembersLastScan
  BY DEF Init, RemembersLastScan, Remembered, Current
<1>2. ASSUME IInv, RemembersLastScan, [Next]_vars PROVE RemembersLastScan'
  <2>1. CASE Change
    <3>1. UNCHANGED <<candidates, dynCandidates, dynSpec, scan, cancel, seen>>
      BY <2>1 DEF Change, results
    <3>2. QED
      BY <1>2, <3>1, StillRemembered DEF RemembersLastScan
  <2>2. CASE BeginFirst \/ BeginNext \/ FirstBlock \/ NextBlock
    BY <1>2, <2>2, StillScanning DEF RemembersLastScan
  <2>3. CASE RequestCancel
    BY <2>3 DEF RequestCancel, RemembersLastScan
  <2>4. CASE Cancelled
    BY <2>4 DEF Cancelled, RemembersLastScan
  <2>5. CASE FirstPublish \/ NextPublish
    BY <1>2, <2>5, PublishRemembers DEF RemembersLastScan
  <2>6. CASE UNCHANGED vars
    <3>1. UNCHANGED <<candidates, dynCandidates, dynSpec, scan, cancel, seen>>
      BY <2>6 DEF vars, results
    <3>2. QED
      BY <1>2, <3>1, StillRemembered DEF RemembersLastScan
  <2>7. QED
    BY <1>2, <2>1, <2>2, <2>3, <2>4, <2>5, <2>6 DEF Next, ScanStep
<1>3. QED
  BY <1>1, <1>2, Invariance, PTL DEF Spec

\* If next scans cannot be cancelled either, the candidates of a next scan
\* show what was seen all along.
RememberedThroughout ==
  /\ scan = Idle => Remembered(Current)
  /\ scan # Idle => Remembered(scan.before) /\ (scan.op = "next" => ~cancel)

LEMMA RememberedNext ==
  ASSUME "next" \notin Cancellable, IInv, RememberedThroughout, [Next]_vars
  PROVE  RememberedThroughout'
<1>1. CASE Change \/ UNCHANGED vars
  <2>1. UNCHANGED <<candidates, dynCandidates, dynSpec, scan, cancel, seen>>
    BY <1>1 DEF Change, results, vars
  <2>2. QED
    BY <2>1 DEF RememberedThroughout, Remembered, Shown, Current, Previous, Query
<1>2. ASSUME NEW op, NEW q, NEW todo, Begin(op, q, todo) PROVE RememberedThroughout'
  <2>1. /\ scan = Idle /\ cancel' = FALSE /\ scan'.before = Current
        /\ UNCHANGED <<dynSpec, seen>>
        /\ DOMAIN scan' = Fields
    BY <1>2 DEF Begin, results, target, Fields
  <2>2. scan' # Idle
    BY <2>1 DEF Fields, Idle
  <2>3. Remembered(scan.before)'
    BY <2>1 DEF RememberedThroughout, Remembered, Shown, Previous, Query
  <2>4. QED
    BY <2>1, <2>2, <2>3 DEF RememberedThroughout
<1>3. CASE FirstBlock \/ NextBlock
  <2>1. scan # Idle /\ scan' # Idle /\ UNCHANGED <<dynSpec, seen, cancel>>
    BY <1>3, StillScanning DEF FirstBlock, NextBlock, results
  <2>2. scan'.before = scan.before /\ scan'.op = scan.op
    <3>1. DOMAIN scan = Fields
      BY <2>1 DEF IInv, ScanFits
    <3>2. CASE FirstBlock
      BY <3>1, <3>2 DEF FirstBlock, Fields
    <3>3. CASE NextBlock
      BY <3>1, <3>3 DEF NextBlock, Fields
    <3>4. QED
      BY <1>3, <3>2, <3>3
  <2>3. QED
    BY <2>1, <2>2 DEF RememberedThroughout, Remembered, Shown, Previous, Query
<1>4. CASE RequestCancel
  <2>1. /\ scan' = scan /\ scan # Idle /\ scan.op \in Cancellable
        /\ UNCHANGED <<dynSpec, seen>>
    BY <1>4 DEF RequestCancel, results
  <2>2. QED
    BY <2>1 DEF RememberedThroughout, Remembered, Shown, Previous, Query
<1>5. CASE Cancelled
  <2>1. /\ scan # Idle /\ cancel /\ scan' = Idle
        /\ UNCHANGED <<candidates, dynCandidates, dynSpec, seen>>
    BY <1>5 DEF Cancelled, results
  <2>2. scan.op = "first"
    BY <2>1 DEF RememberedThroughout, IInv, ScanFits
  <2>3. Current = scan.before /\ Remembered(Current)
    BY <2>1, <2>2 DEF RememberedThroughout, IInv, FirstFits
  <2>4. QED
    BY <2>1, <2>3 DEF RememberedThroughout, Remembered, Shown, Current, Previous, Query
<1>6. CASE FirstPublish \/ NextPublish
  <2>1. scan' = Idle
    BY <1>6, FirstPublishStep, NextPublishStep
  <2>2. QED
    BY <1>6, <2>1, PublishRemembers DEF RememberedThroughout
<1>7. QED
  BY <1>1, <1>2, <1>3, <1>4, <1>5, <1>6 DEF Next, ScanStep, BeginFirst, BeginNext

\* Then a next scan keeps exactly the candidates whose bytes pass the filter
\* against what the last completed scan read (Shown; scanner.cpp:229-310).
THEOREM NextScansExact ==
  ASSUME "next" \notin Cancellable
  PROVE  Spec => [](Scanned /\ scan.op = "next" => Addresses(scan.found) = NextExpected)
<1>1. Init => RememberedThroughout
  BY DEF Init, RememberedThroughout, Remembered, Current
<1>2. IInv /\ RememberedThroughout /\ [Next]_vars => RememberedThroughout'
  BY RememberedNext
<1>3. ASSUME IInv, RememberedThroughout, Scanned, scan.op = "next"
      PROVE  Addresses(scan.found) = NextExpected
  BY <1>3, NextIsExact DEF Scanned, RememberedThroughout
<1>4. QED
  BY <1>1, <1>2, <1>3, Invariance, PTL DEF Spec
=============================================================================
