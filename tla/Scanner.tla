------------------------------ MODULE Scanner ------------------------------
(***************************************************************************)
(* Scanner (src/src/scanner.h, scanner.cpp) with the traversal by blocks   *)
(* of chunk.h: the first scan of a process and the next scans that refine  *)
(* it, numeric and dynamic (byte patterns with wildcards).                 *)
(*                                                                         *)
(* A scan reads the target block by block and looks at the cancel flag     *)
(* before each block and once more at the end, so a block is one step.     *)
(* The target's memory is a byte per address in regions that can be mapped *)
(* or not.  It is stopped by ptrace during a scan and runs between scans;  *)
(* other threads it may have, which ptrace does not stop, are left out.    *)
(*                                                                         *)
(* A numeric value is the bytes it occupies, compared as the unsigned      *)
(* number they spell; a first scan of an unknown value is a pattern of     *)
(* wildcards only.  Left out: the progress callback; the sort before a     *)
(* next scan, which finds the candidates in order (FoundIsExact).          *)
(***************************************************************************)
EXTENDS Integers, Sequences, Sorting

CONSTANTS
  Regions,         \* what /proc/PID/maps can list, as [start, end) records
  Refused,         \* indices of listed regions that no read succeeds in ([vvar])
  Base,            \* byte values are 0..Base-1
  Chunk,           \* kChunk: bytes per block
  Widths,          \* sizes of the numeric types in use
  Patterns,        \* dynamic patterns in use: [len, bytes, free] records
  Filters,         \* numeric filters in use
  DynamicFilters,  \* "CHANGED" and "UNCHANGED", as far as in use
  MaxCandidates,   \* kMaxCandidates
  WarnCandidates,  \* kWarnCandidates
  Cancellable,     \* scans that may be asked to cancel: subset of {"first", "next"}
  InitialMemory,   \* memory contents to begin with
  MaxScans,        \* bound on the scans
  MaxChanges       \* bound on what the target does to its memory

Byte == 0..(Base - 1)
Addr == UNION {r.start..(r.end - 1) : r \in {Regions[i] : i \in DOMAIN Regions}}

ASSUME ScannerAssumption ==
  /\ Base \in Nat \ {0} /\ Chunk \in Nat \ {0} /\ MaxCandidates \in Nat \ {0}
  /\ Regions \in Seq([start : Nat, end : Nat])
  /\ Refused \subseteq DOMAIN Regions
  /\ DynamicFilters \subseteq {"CHANGED", "UNCHANGED"}
  /\ \A i \in DOMAIN Regions : Regions[i].start < Regions[i].end
  /\ \A i, j \in DOMAIN Regions : i < j => Regions[i].end <= Regions[j].start
  /\ \A w \in Widths : w \in 1..Chunk
  /\ \A p \in Patterns :
       p \in [len : 1..Chunk, bytes : [1..p.len -> Byte], free : SUBSET (1..p.len)]
  /\ InitialMemory \subseteq [Addr -> Byte]

NoSpec == [len |-> 0, bytes |-> <<>>, free |-> {}]

VARIABLES
  mem,            \* the byte at each address
  mapped,         \* indices of the regions mapped now
  candidates,     \* candidates_: <<[addr, prev], ...>>
  dynCandidates,  \* dyn_candidates_
  dynSpec,        \* dyn_spec_, or NoSpec
  type,           \* type_, as its size
  truncated,      \* truncated_
  warned,         \* warned_
  scan,           \* the scan in progress, or Idle
  cancel,         \* the flag the scan looks at
  scans,          \* scans begun
  changes,        \* changes the target made
  seen            \* history: what the last completed scan read at each candidate

results == <<candidates, dynCandidates, dynSpec, type, truncated, warned>>
target == <<mem, mapped, changes>>
vars == <<target, results, scan, cancel, scans, seen>>

Idle == [op |-> "none"]

Init ==
  /\ mem \in InitialMemory
  /\ mapped = DOMAIN Regions
  /\ candidates = <<>> /\ dynCandidates = <<>>
  /\ dynSpec = NoSpec
  /\ type \in Widths
  /\ truncated = FALSE /\ warned = FALSE
  /\ scan = Idle
  /\ cancel = FALSE
  /\ scans = 0 /\ changes = 0
  /\ seen = [a \in Addr |-> <<>>]

---------------------------------------------------------------------------
(* The target *)

Readable(a) ==
  \E r \in mapped \ Refused : Regions[r].start <= a /\ a < Regions[r].end

\* Bytes a read of n bytes at a returns: up to the first unreadable one.
Got(a, n) ==
  CHOOSE k \in 0..n : /\ \A d \in 0..(k - 1) : Readable(a + d)
                      /\ k < n => ~Readable(a + k)

Window(a, w) == [k \in 1..w |-> mem[a + k - 1]]

\* The target writes a byte, unmaps or maps a region.
Change ==
  /\ changes < MaxChanges
  /\ changes' = changes + 1
  /\ scan = Idle
  /\ \/ \E a \in Addr, b \in Byte :
          /\ Readable(a) /\ mem[a] # b
          /\ mem' = [mem EXCEPT ![a] = b]
          /\ UNCHANGED mapped
     \/ \E r \in DOMAIN Regions :
          /\ mapped' = IF r \in mapped THEN mapped \ {r} ELSE mapped \cup {r}
          /\ UNCHANGED mem
  /\ UNCHANGED <<results, scan, cancel, scans, seen>>

---------------------------------------------------------------------------
(* What a scan looks for: q has the bytes of the target or pattern, the    *)
(* positions that match any byte, and the filter.                          *)

\* pattern_window_matches, and value_equal with the target.
Matches(q, win) == \A k \in (1..q.len) \ q.free : win[k] = q.bytes[k]

\* Variant: the bytes under the wildcards are not kept.
CapturedNothing(q, win) == IF q.dyn THEN <<>> ELSE win

\* What a candidate keeps of a window: a pattern can rebuild the rest.
Captured(q, win) == IF q.dyn THEN [k \in q.free |-> win[k]] ELSE win

\* Variant: a kept candidate keeps its old value.
RefreshedNot(q, c) == c

\* A kept candidate with the bytes just read.
Refreshed(q, c) == [c EXCEPT !.prev = Captured(q, Window(c.addr, q.len))]

\* The window a candidate is compared with.
Previous(q, prev) ==
  IF q.dyn
  THEN [k \in 1..q.len |-> IF k \notin q.free THEN q.bytes[k]
                           ELSE IF k \in DOMAIN prev THEN prev[k] ELSE 0]
  ELSE prev

\* value_from_bytes: the little-endian number the bytes spell.
Number(win) ==
  LET n[k \in 0..Len(win)] ==
        IF k = 0 THEN 0 ELSE win[Len(win) - k + 1] + Base * n[k - 1]
  IN  n[Len(win)]

\* The filter of a next scan on one window.
Keeps(q, win, prev) ==
  \/ q.filter = "EXACT" /\ Matches(q, win)
  \/ q.filter = "CHANGED" /\ win # Previous(q, prev)
  \/ q.filter = "UNCHANGED" /\ win = Previous(q, prev)
  \/ q.filter = "INCREASED" /\ Number(win) > Number(prev)
  \/ q.filter = "DECREASED" /\ Number(win) < Number(prev)
  \/ q.filter = "GREATER" /\ Number(win) > Number(q.bytes)
  \/ q.filter = "LESS" /\ Number(win) < Number(q.bytes)
  \/ q.filter = "GE" /\ Number(win) >= Number(q.bytes)
  \/ q.filter = "LE" /\ Number(win) <= Number(q.bytes)
  \/ q.filter = "NE" /\ win # q.bytes

Query(dyn, p, f) ==
  [dyn |-> dyn, len |-> p.len, bytes |-> p.bytes, free |-> p.free, filter |-> f]

\* Numeric targets of width w: a value, or unknown.
Value(w, bytes) == [len |-> w, bytes |-> bytes, free |-> {}]
Unknown(w) == [len |-> w, bytes |-> <<>>, free |-> 1..w]

Current == IF dynSpec = NoSpec THEN candidates ELSE dynCandidates

ValueQueries(w, f) == {Query(FALSE, Value(w, b), f) : b \in [1..w -> Byte]}

NumericQueries(w) == {Query(FALSE, Unknown(w), "EXACT")} \cup ValueQueries(w, "EXACT")

FirstQueries ==
  (UNION {NumericQueries(w) : w \in Widths}) \cup {Query(TRUE, p, "EXACT") : p \in Patterns}

\* What the callers let through: a next scan of the kind and type of the
\* first, with a value or pattern where the filter needs one.
NeedsValue == {"EXACT", "GREATER", "LESS", "GE", "LE", "NE"}

NextQueries ==
  IF dynSpec = NoSpec
  THEN (UNION {ValueQueries(type, f) : f \in Filters \cap NeedsValue})
         \cup {Query(FALSE, Unknown(type), f) : f \in Filters \ NeedsValue}
  ELSE {Query(TRUE, p, "EXACT") : p \in Patterns}
         \cup {Query(TRUE, dynSpec, f) : f \in DynamicFilters}

---------------------------------------------------------------------------
(* Scans *)

\* What is left to do before a scan can publish: addresses up to the end of
\* the last region, or candidates.
Remaining(op, todo, cands) ==
  IF op = "next" THEN Len(cands) + 1 - todo
  ELSE IF todo = <<>> THEN 0
  ELSE todo[Len(todo)].end - todo[1].start

\* budget is a history: the blocks the scan may still take to be sure to end.
Begin(op, q, todo) ==
  /\ scan = Idle
  /\ scans < MaxScans
  /\ scans' = scans + 1
  /\ cancel' = FALSE
  /\ scan' = [op |-> op, query |-> q, todo |-> todo, found |-> <<>>,
              truncated |-> FALSE, before |-> Current,
              budget |-> Remaining(op, todo, Current)]
  /\ UNCHANGED <<target, results, seen>>

\* first_scan, first_scan_dynamic: over the regions of parse_maps.
BeginFirst ==
  \E q \in FirstQueries :
    LET order == Ascending(mapped)
    IN  Begin("first", q, [k \in DOMAIN order |-> Regions[order[k]]])

\* next_scan, next_scan_dynamic: over the candidates, by index.
BeginNext ==
  /\ Current # <<>>
  /\ \E q \in NextQueries : Begin("next", q, 1)

RequestCancel ==
  /\ scan # Idle
  /\ scan.op \in Cancellable
  /\ ~cancel
  /\ cancel' = TRUE
  /\ UNCHANGED <<target, results, scan, scans, seen>>

\* Variant: the cancelled scan publishes what it had found.
CancelledPublishes ==
  /\ scan # Idle
  /\ cancel
  /\ scan' = Idle
  /\ candidates' = scan.found
  /\ UNCHANGED <<target, dynCandidates, dynSpec, type, truncated, warned>>
  /\ UNCHANGED <<cancel, scans, seen>>

\* Cancelled before a block or after the last: nothing is published.
Cancelled ==
  /\ scan # Idle
  /\ cancel
  /\ scan' = Idle
  /\ UNCHANGED <<target, results, cancel, scans, seen>>

Smaller(a, b) == IF a < b THEN a ELSE b

\* for_each_window on one block: the windows it visits.
BlockWindows(pos, got, w) == pos..(pos + got - w)

\* Variants: no overlap; one window of overlap too many; unreadable memory
\* does not advance.
NextPositionApart(pos, want, got, w) == IF got = 0 THEN pos + want ELSE pos + got

NextPositionTwice(pos, want, got, w) ==
  IF got = 0 THEN pos + want ELSE IF got > w THEN pos + got - w ELSE pos + got

NextPositionStuck(pos, want, got, w) ==
  IF got >= w THEN pos + got - w + 1 ELSE pos + got

\* Where the next block of the region starts: w-1 bytes before the end of
\* this one.
NextPosition(pos, want, got, w) ==
  IF got = 0 THEN pos + want ELSE IF got >= w THEN pos + got - w + 1 ELSE pos + got

\* The traversal's regions left, once this block of the first one is done.
Advance(todo, pos) ==
  IF pos < Head(todo).end
  THEN <<[Head(todo) EXCEPT !.start = pos]>> \o Tail(todo)
  ELSE Tail(todo)

FirstBlock ==
  /\ scan # Idle /\ scan.op = "first"
  /\ ~cancel
  /\ scan.todo # <<>>
  /\ LET q    == scan.query
         pos  == Head(scan.todo).start
         want == Smaller(Chunk, Head(scan.todo).end - pos)
         got  == Got(pos, want)
         hits == Ascending({a \in BlockWindows(pos, got, q.len) :
                              Matches(q, Window(a, q.len))})
         new  == [i \in DOMAIN hits |->
                    [addr |-> hits[i], prev |-> Captured(q, Window(hits[i], q.len))]]
         all  == scan.found \o new
     IN  scan' = [scan EXCEPT
           !.found = SubSeq(all, 1, Smaller(Len(all), MaxCandidates)),
           !.truncated = Len(all) > MaxCandidates,
           !.budget = @ - 1,
           !.todo = IF Len(all) > MaxCandidates THEN <<>>
                    ELSE Advance(scan.todo, NextPosition(pos, want, got, q.len))]
  /\ UNCHANGED <<target, results, cancel, scans, seen>>

\* What this scan read at the addresses it publishes.
Remember(found) ==
  seen' = [a \in Addr |->
             IF \E i \in DOMAIN found : found[i].addr = a
             THEN Window(a, scan.query.len) ELSE <<>>]

\* Variant: a dynamic scan leaves the numeric candidates there.
FirstPublishKeeps ==
  /\ scan # Idle /\ scan.op = "first"
  /\ ~cancel
  /\ scan.todo = <<>>
  /\ truncated' = scan.truncated
  /\ warned' = (Len(scan.found) > WarnCandidates)
  /\ dynCandidates' = scan.found
  /\ dynSpec' = [len |-> scan.query.len, bytes |-> scan.query.bytes, free |-> scan.query.free]
  /\ scan' = Idle
  /\ Remember(scan.found)
  /\ UNCHANGED <<target, candidates, type, cancel, scans>>

FirstPublish ==
  /\ scan # Idle /\ scan.op = "first"
  /\ ~cancel
  /\ scan.todo = <<>>
  /\ truncated' = scan.truncated
  /\ warned' = (Len(scan.found) > WarnCandidates)
  /\ LET q == scan.query
     IN  \/ /\ q.dyn
            /\ dynCandidates' = scan.found
            /\ dynSpec' = [len |-> q.len, bytes |-> q.bytes, free |-> q.free]
            /\ candidates' = <<>>
            /\ UNCHANGED type
         \/ /\ ~q.dyn
            /\ candidates' = scan.found
            /\ type' = q.len
            /\ dynSpec' = NoSpec
            /\ dynCandidates' = <<>>
  /\ scan' = Idle
  /\ Remember(scan.found)
  /\ UNCHANGED <<target, cancel, scans>>

\* One read of a next scan, at the candidate todo: the candidates the read
\* covers are kept or dropped.  A kept one is updated in place before it goes
\* to the new list: a numeric one to the value just read, a dynamic one to
\* the empty vector that std::move leaves.
NextBlock ==
  /\ scan # Idle /\ scan.op = "next"
  /\ ~cancel
  /\ scan.todo <= Len(Current)
  /\ LET q     == scan.query
         w     == q.len
         old   == Current
         start == old[scan.todo].addr
         got   == Got(start, Chunk + w - 1)
         limit == start + Smaller(Chunk, got)
         In(i) == i >= scan.todo /\ old[i].addr < limit
         Kept(i) == /\ In(i)
                    /\ old[i].addr + w <= start + got
                    /\ Keeps(q, Window(old[i].addr, w), old[i].prev)
         Updated(i) == Refreshed(q, old[i])
         kept  == Ascending({i \in DOMAIN old : Kept(i)})
         left  == {i \in DOMAIN old : i > scan.todo /\ old[i].addr >= limit}
         after == [i \in DOMAIN old |->
                     IF ~Kept(i) THEN old[i]
                     ELSE IF q.dyn THEN [old[i] EXCEPT !.prev = <<>>] ELSE Updated(i)]
     IN  /\ scan' = [scan EXCEPT
               !.found = @ \o [i \in DOMAIN kept |-> Updated(kept[i])],
               !.todo = IF left = {} THEN Len(old) + 1 ELSE Ascending(left)[1],
               !.budget = @ - 1]
         /\ \/ q.dyn /\ dynCandidates' = after /\ UNCHANGED candidates
            \/ ~q.dyn /\ candidates' = after /\ UNCHANGED dynCandidates
  /\ UNCHANGED <<target, dynSpec, type, truncated, warned, cancel, scans, seen>>

NextPublish ==
  /\ scan # Idle /\ scan.op = "next"
  /\ ~cancel
  /\ scan.todo > Len(Current)
  /\ LET q == scan.query
     IN  \/ /\ q.dyn
            /\ dynCandidates' = scan.found
            /\ dynSpec' = [len |-> q.len, bytes |-> q.bytes, free |-> q.free]
            /\ UNCHANGED <<candidates, type>>
         \/ /\ ~q.dyn
            /\ candidates' = scan.found
            /\ type' = q.len
            /\ UNCHANGED <<dynCandidates, dynSpec>>
  /\ scan' = Idle
  /\ Remember(scan.found)
  /\ UNCHANGED <<target, truncated, warned, cancel, scans>>

ScanStep == Cancelled \/ FirstBlock \/ FirstPublish \/ NextBlock \/ NextPublish

Next == Change \/ BeginFirst \/ BeginNext \/ RequestCancel \/ ScanStep

Spec == Init /\ [][Next]_vars

---------------------------------------------------------------------------
(* Properties *)

Addresses(cands) == {cands[i].addr : i \in DOMAIN cands}

TypeOK ==
  /\ mem \in [Addr -> Byte]
  /\ mapped \subseteq DOMAIN Regions
  /\ \A c \in {candidates[i] : i \in DOMAIN candidates} :
       c.addr \in Addr /\ c.prev \in [1..type -> Byte]
  /\ \A c \in {dynCandidates[i] : i \in DOMAIN dynCandidates} :
       c.addr \in Addr /\ DOMAIN c.prev \in {dynSpec.free, {}}
  /\ candidates = <<>> \/ dynSpec = NoSpec
  /\ truncated \in BOOLEAN /\ warned \in BOOLEAN /\ cancel \in BOOLEAN

InOrder(cands) == \A i, j \in DOMAIN cands : i < j => cands[i].addr < cands[j].addr

Scanned == scan # Idle /\ ~cancel /\
  IF scan.op = "first" THEN scan.todo = <<>> ELSE scan.todo > Len(Current)

\* Every window of w bytes inside one readable region.
AllWindows(w) ==
  {a \in Addr : \E r \in mapped \ Refused :
     Regions[r].start <= a /\ a + w <= Regions[r].end}

\* What a first scan has to find: the windows that match, up to the limit
\* of candidates, and whether it left any out.
FirstExpected ==
  LET q   == scan.query
      all == {a \in AllWindows(q.len) : Matches(q, Window(a, q.len))}
      n   == Cardinality(all)
  IN  [addresses |-> {Ascending(all)[i] : i \in 1..Smaller(n, MaxCandidates)},
       truncated |-> n > MaxCandidates]

\* What the last completed scan read at an address, as the results have it:
\* at its exact positions a dynamic candidate has the bytes of the pattern
\* (scanner.h:71-76), which are those that were read unless a CHANGED scan
\* has kept it.
Shown(win) ==
  IF dynSpec = NoSpec THEN win
  ELSE [k \in 1..dynSpec.len |-> IF k \in dynSpec.free THEN win[k] ELSE dynSpec.bytes[k]]

\* What a next scan has to keep: the candidates that can still be read and
\* whose bytes pass the filter against what the last completed scan read.
NextExpected ==
  LET q == scan.query
  IN  {a \in Addresses(scan.before) :
         /\ \A k \in 0..(q.len - 1) : Readable(a + k)
         /\ Keeps([q EXCEPT !.dyn = FALSE], Window(a, q.len), Shown(seen[a]))}

\* The value that each candidate keeps, and is compared with, is the one seen
\* there.
Remembered(cands) ==
  \A i \in DOMAIN cands :
    Previous(Query(dynSpec # NoSpec, dynSpec, "EXACT"), cands[i].prev)
      = Shown(seen[cands[i].addr])

\* A scan finds exactly what its filter asks for, whatever the blocks, the
\* gaps between regions and the earlier scans, each address once and in
\* order, which the next scan relies on (scanner.cpp:105, 237): chunk.h:46 "cada ventana ...
\* que cabe completamente dentro de una region", scanner.cpp:134 "no se
\* pierden candidatos", README.md:210 "comparan los bytes actuales con los
\* del escaneo anterior".  A next scan of candidates that do not keep what the
\* last one read is RemembersLastScan's concern.
FoundIsExact ==
  Scanned =>
    /\ InOrder(scan.found)
    /\ IF scan.op = "first"
       THEN /\ Addresses(scan.found) = FirstExpected.addresses
            /\ scan.truncated = FirstExpected.truncated
       ELSE Remembered(scan.before) => Addresses(scan.found) = NextExpected

\* The value a candidate keeps and is compared with is the one the last
\* completed scan read there, after any scans of both kinds and any patterns,
\* each with wildcards of its own (scanner.cpp:155-169, README.md:210), but for
\* the exact positions of a pattern (Shown) and until a next scan is cancelled:
\* CancelKeepsResults says what becomes of it then.
RemembersLastScan == scan = Idle /\ ~cancel => Remembered(Current)

Cancelling == scan # Idle /\ cancel /\ scan' = Idle

\* A cancelled scan leaves the previous results untouched (scanner.h:121).
CancelKeepsResults == [][Cancelling => Current' = scan.before]_vars

\* A cancelled scan, first or next, neither adds nor loses a candidate, and
\* a cancelled first scan leaves them as they were, previous values included.
CancelKeepsAddresses ==
  [][Cancelling => /\ Addresses(Current') = Addresses(scan.before)
                   /\ Len(Current') = Len(scan.before)
                   /\ scan.op = "first" => Current' = scan.before]_vars

\* A scan ends, over readable and unreadable memory alike: every block leaves
\* strictly less to do, so that what is left never needs more blocks than
\* there were addresses or candidates to begin with (chunk.h:92-118).
BlocksAdvance == scan # Idle => Remaining(scan.op, scan.todo, Current) <= scan.budget
===========================================================================
