---------------------------- MODULE PointerScan ----------------------------
(***************************************************************************)
(* The pointer scanner (src/src/pointer.h, pointer.cpp), the chains it     *)
(* leaves in the session, and their resolution (pointer_resolver.cpp)      *)
(* against this run of the target or a later one at other addresses.       *)
(*                                                                         *)
(* Addresses count words of 8 bytes.  A slot is a word of a mapping; what  *)
(* it holds is the slot it points at, so that the same program has the     *)
(* same memory in every layout, as a relocated program has.  The memory    *)
(* does not change during a scan: the target is stopped (PtraceMemory).    *)
(* Left out: min_addr and max_addr, which no caller sets, progress, the    *)
(* type of the value, and reads that fail although the mapping is there.   *)
(***************************************************************************)
EXTENDS Sorting, SequencesExt

CONSTANTS
  Mappings,    \* name -> [path, offset (in the file), size, perms]
  Layouts,     \* the places a run may have: name -> address
  Memories,    \* the memories the target may have: slot -> slot or Null
  Null,
  Scans,       \* [depth, maxOffset, step, moduleOnly, code] of the requests
  MaxEdges,    \* max_edges_per_level
  MaxChains,   \* max_chains
  MaxScans,    \* bound on the scans
  MaxTable     \* bound on the chains of the table

Names == DOMAIN Mappings
Slot == UNION {{n} \X (0..Mappings[n].size - 1) : n \in Names}

ASSUME PointerScanAssumption ==
  /\ IsFiniteSet(Names)
  /\ \A n \in Names : Mappings[n].offset \in Nat /\ Mappings[n].size \in Nat
  /\ Layouts \subseteq [Names -> Nat \ {0}]
  /\ \A l \in Layouts, m \in Names : \A n \in Names \ {m} :
       l[m] + Mappings[m].size <= l[n] \/ l[n] + Mappings[n].size <= l[m]
  /\ Null \notin Slot /\ Memories \subseteq [Slot -> Slot \cup {Null}]
  /\ \A s \in Scans : /\ s.depth \in Nat \ {0} /\ s.step \in Nat \ {0}
                      /\ s.maxOffset \in Nat /\ s.moduleOnly \in BOOLEAN
                      /\ \A l \in Layouts, n \in Names : l[n] > s.maxOffset
  /\ MaxEdges \in Nat \ {0} /\ MaxChains \in Nat /\ MaxScans \in Nat /\ MaxTable \in Nat

VARIABLES
  base,    \* where the mappings of the target are
  memory,  \* what its slots hold
  scan,    \* the running scan
  cancel,  \* the flag of its job
  result,  \* session_.pointer_result()
  table,   \* the chains of the address table
  scans    \* the number of scans begun

vars == <<base, memory, scan, cancel, result, table, scans>>

Idle == [at |-> "idle"]
NoResult == [chains |-> <<>>, edgesTruncated |-> FALSE, chainsTruncated |-> FALSE]

Init ==
  /\ base \in Layouts
  /\ memory \in Memories
  /\ scan = Idle
  /\ cancel = FALSE
  /\ result = NoResult
  /\ table = <<>>
  /\ scans = 0

---------------------------------------------------------------------------
(* The target's memory *)

Address(s) == base[s[1]] + s[2]

Inside(a, n) == base[n] <= a /\ a < base[n] + Mappings[n].size

Readable(a) == \E n \in Names : Inside(a, n) /\ "r" \in Mappings[n].perms

SlotAt(a) == LET n == CHOOSE m \in Names : Inside(a, m) IN <<n, a - base[n]>>

\* A pointer as the 8 bytes read at the address of a mapping.
Pointer(a) == LET s == memory[SlotAt(a)] IN IF s = Null THEN 0 ELSE Address(s)

---------------------------------------------------------------------------
(* The sources of a scan *)

InBrackets == {"[heap]", "[stack]", "[vdso]", "[anon]"}
IsFile(n) == Mappings[n].path \notin InBrackets \cup {""}

\* select_pointer_regions keeps HEAP, STACK, ANON_RW and DATA of
\* classify_region, and CODE when it is asked for.
IsSource(n, code) ==
  LET path == Mappings[n].path
      perms == Mappings[n].perms
  IN  /\ "r" \in perms
      /\ path # "[vdso]"
      /\ \/ path \in {"[heap]", "[stack]"}
         \/ path = "" /\ "w" \in perms
         \/ path # "" /\ "x" \notin perms /\ "w" \in perms
         \/ path # "" /\ "x" \in perms /\ code

Sources(code) == {Address(s) : s \in {t \in Slot : IsSource(t[1], code)}}

Window(opts) == {o \in 0..opts.maxOffset : o % opts.step = 0}

---------------------------------------------------------------------------
(* One level: the edges into the addresses of the level before *)

Edge(s, o) == [source |-> s, target |-> Pointer(s) + o, offset |-> o]

\* Zero is the mark of an empty place of FlatHashSet and is in no set.
Matches(opts, current) ==
  {e \in {Edge(s, o) : s \in Sources(opts.code), o \in Window(opts)} :
     e.target \in current /\ Pointer(e.source) # 0}

\* The order in which for_each_window meets the edges.
AsRead(edges) ==
  {p \in edges \X edges :
     \/ p[1].source < p[2].source
     \/ p[1].source = p[2].source /\ p[1].offset < p[2].offset}

\* Variant: one edge more than the limit.
EdgeLimitPlusOne(n) == IF n < MaxEdges + 1 THEN n ELSE MaxEdges + 1

EdgeLimit(n) == IF n < MaxEdges THEN n ELSE MaxEdges

---------------------------------------------------------------------------
(* extend_chains *)

NoEdge == [source |-> 0, target |-> 0, offset |-> 0]

\* At every chain of the frontier, and then at every edge into its head, the
\* limit is looked at.
Attempts(frontier, edges) ==
  {a \in [chain : DOMAIN frontier, edge : edges \cup {NoEdge}] :
     a.edge = NoEdge \/ a.edge.target = frontier[a.chain].nodes[1]}

\* The sort of the edges.
EdgeBefore(e, f) ==
  \/ e.target < f.target
  \/ e.target = f.target /\ e.offset < f.offset
  \/ e.target = f.target /\ e.offset = f.offset /\ e.source < f.source

InTurn(attempts) ==
  {p \in attempts \X attempts :
     \/ p[1].chain < p[2].chain
     \/ p[1].chain = p[2].chain /\ EdgeBefore(p[1].edge, p[2].edge)}

\* No node twice in one chain; there is no set of visited nodes.
Extensions(frontier, edges) ==
  {a \in Attempts(frontier, edges) :
     a.edge # NoEdge /\ a.edge.source \notin Range(frontier[a.chain].nodes)}

\* Variant: the offset goes to the end.
ExtendedAtEnd(chain, edge) ==
  [nodes |-> <<edge.source>> \o chain.nodes,
   offsets |-> chain.offsets \o <<edge.offset>>]

Extended(chain, edge) ==
  [nodes |-> <<edge.source>> \o chain.nodes,
   offsets |-> <<edge.offset>> \o chain.offsets]

AllExtended(frontier, edges) ==
  LET some == Extensions(frontier, edges)
      each == Sorted(some, InTurn(some))
  IN  [k \in DOMAIN each |-> Extended(frontier[each[k].chain], each[k].edge)]

\* The limit was met with an attempt left.
LimitMet(frontier, edges) ==
  LET all == Attempts(frontier, edges)
      order == InTurn(all)
      some == Extensions(frontier, edges)
  IN  \E a \in all : Cardinality(Below(a, some, order)) >= MaxChains

---------------------------------------------------------------------------
(* The scan *)

\* Application::pointer_scan: the address must be in a readable mapping.
Begin ==
  /\ scan = Idle
  /\ \E t \in Slot, opts \in Scans :
       /\ "r" \in Mappings[t[1]].perms
       /\ scan' = [at |-> "level", opts |-> opts, target |-> t, level |-> 1,
                   current |-> {Address(t)},
                   frontier |-> <<[nodes |-> <<Address(t)>>, offsets |-> <<>>]>>,
                   edges |-> {}, found |-> NoResult]
  /\ cancel' = FALSE
  /\ scans < MaxScans /\ scans' = scans + 1
  /\ UNCHANGED <<base, memory, result, table>>

StartLevel ==
  /\ scan.at = "level" /\ ~cancel
  /\ scan' = [scan EXCEPT !.at = "traverse"]
  /\ UNCHANGED <<base, memory, cancel, result, table, scans>>

\* for_each_window, which a cancel or the limit on edges ends early.
Traverse ==
  /\ scan.at = "traverse"
  /\ LET all == Matches(scan.opts, scan.current)
         inOrder == Sorted(all, AsRead(all))
         limit == EdgeLimit(Cardinality(all))
     IN  \E n \in IF cancel THEN 0..limit ELSE {limit} :
           scan' = [scan EXCEPT
             !.at = "extend",
             !.edges = {inOrder[i] : i \in 1..n},
             !.found.edgesTruncated = (n >= MaxEdges)]
  /\ UNCHANGED <<base, memory, cancel, result, table, scans>>

\* The last levels' chains are there; application.cpp:491-507 publishes them.
Ends(found) == scan' = [scan EXCEPT !.at = "publish", !.found = found]

NoEdges ==
  /\ scan.at = "extend" /\ ~cancel
  /\ scan.edges = {}
  /\ Ends(scan.found)
  /\ UNCHANGED <<base, memory, cancel, result, table, scans>>

\* Variant: each level writes the flag anew.
FlagOfLast(before, now) == now

Flag(before, now) == before \/ now

Extend ==
  /\ scan.at = "extend" /\ ~cancel
  /\ scan.edges # {}
  /\ LET all == AllExtended(scan.frontier, scan.edges)
         next == IF Len(all) <= MaxChains THEN all ELSE SubSeq(all, 1, MaxChains)
         found == [scan.found EXCEPT
                     !.chains = @ \o next,
                     !.chainsTruncated = Flag(@, LimitMet(scan.frontier, scan.edges))]
     IN  \/ /\ next = <<>> \/ scan.found.edgesTruncated \/ scan.level = scan.opts.depth
            /\ Ends(found)
         \/ /\ next # <<>> /\ ~scan.found.edgesTruncated /\ scan.level < scan.opts.depth
            /\ scan' = [scan EXCEPT
                 !.at = "level", !.level = @ + 1, !.found = found, !.frontier = next,
                 !.current = {e.source : e \in scan.edges}, !.edges = {}]
  /\ UNCHANGED <<base, memory, cancel, result, table, scans>>

Cancelled ==
  /\ scan.at \in {"level", "extend"} /\ cancel
  /\ scan' = Idle
  /\ UNCHANGED <<base, memory, cancel, result, table, scans>>

\* target and opts of a result are history.
Publish ==
  /\ scan.at = "publish"
  /\ LET chains == scan.found.chains
         kept == Ascending({i \in DOMAIN chains :
                   scan.opts.moduleOnly => IsFile(SlotAt(chains[i].nodes[1])[1])})
     IN  result' = [chains |-> [k \in DOMAIN kept |-> chains[kept[k]]],
                    edgesTruncated |-> scan.found.edgesTruncated,
                    chainsTruncated |-> scan.found.chainsTruncated,
                    target |-> scan.target, opts |-> scan.opts]
  /\ scan' = Idle
  /\ UNCHANGED <<base, memory, cancel, table, scans>>

RequestCancel ==
  /\ scan # Idle /\ ~cancel
  /\ cancel' = TRUE
  /\ UNCHANGED <<base, memory, scan, result, table, scans>>

---------------------------------------------------------------------------
(* Chains of the table *)

\* Variant: the offset in the mapping, not the one in the file.
RootInMapping(a) ==
  LET s == SlotAt(a) IN
  IF IsFile(s[1]) THEN [kind |-> "MODULE", module |-> Mappings[s[1]].path, at |-> s[2]]
                  ELSE [kind |-> "ABSOLUTE", module |-> "", at |-> a]

\* make_base_from_address.
Root(a) ==
  LET s == SlotAt(a) IN
  IF IsFile(s[1])
  THEN [kind |-> "MODULE", module |-> Mappings[s[1]].path,
        at |-> Mappings[s[1]].offset + s[2]]
  ELSE [kind |-> "ABSOLUTE", module |-> "", at |-> a]

\* add_pointer_chain.  layout and slots are history: where the mappings and
\* the nodes were.
AddChain ==
  /\ scan = Idle
  /\ Len(table) < MaxTable
  /\ \E i \in DOMAIN result.chains :
       LET c == result.chains[i] IN
       table' = Append(table,
         [root |-> Root(c.nodes[1]), offsets |-> c.offsets, layout |-> base,
          slots |-> [k \in DOMAIN c.nodes |-> SlotAt(c.nodes[k])]])
  /\ UNCHANGED <<base, memory, scan, cancel, result, scans>>

\* The program runs again, the session attaches to its new process: other
\* addresses, and the chains found before are forgotten.
Restart ==
  /\ scan = Idle
  /\ base' \in Layouts \ {base}
  /\ result' = NoResult
  /\ UNCHANGED <<memory, scan, cancel, table, scans>>

---------------------------------------------------------------------------
(* Resolution.  0 stands for a chain that does not resolve. *)

HoldsOffset(n, root) ==
  /\ Mappings[n].path = root.module
  /\ root.at \in Mappings[n].offset..Mappings[n].offset + Mappings[n].size - 1

\* resolve_root: the first such mapping in the order of addresses.
RootAddress(root) ==
  LET such == {n \in Names : HoldsOffset(n, root)}
      first == CHOOSE n \in such : \A m \in such : base[n] <= base[m]
  IN  IF root.kind = "ABSOLUTE" THEN root.at
      ELSE IF such = {} THEN 0
      ELSE base[first] + (root.at - Mappings[first].offset)

Hop(a, o) == IF Readable(a) THEN Pointer(a) + o ELSE 0

\* follow_chain and resolve_chain.
Resolved(entry) ==
  LET n == Len(entry.offsets)
      follow[k \in 0..n] ==
        IF k = 0 THEN RootAddress(entry.root) ELSE Hop(follow[k - 1], entry.offsets[k])
  IN  IF Readable(follow[n]) THEN follow[n] ELSE 0

---------------------------------------------------------------------------

ScanStep ==
  \/ Begin \/ StartLevel \/ Traverse \/ NoEdges \/ Extend \/ Publish
  \/ RequestCancel \/ Cancelled

Next == ScanStep \/ AddChain \/ Restart

Spec == Init /\ [][Next]_vars

---------------------------------------------------------------------------
(* Properties *)

Chain == [nodes : Seq(Nat), offsets : Seq(Nat)]

\* Types, with the limits: a level keeps no more edges, and extends to no
\* more chains, than it may (pointer.h:67-68, for each level).
TypeOK ==
  /\ base \in Layouts /\ memory \in Memories /\ cancel \in BOOLEAN
  /\ scan.at \in {"idle", "level", "traverse", "extend", "publish"}
  /\ scan # Idle =>
       /\ scan.level \in 1..scan.opts.depth
       /\ Cardinality(scan.edges) <= MaxEdges
       /\ scan.level > 1 => Len(scan.frontier) <= MaxChains
       /\ scan.found.chains \in Seq(Chain)
  /\ result.chains \in Seq(Chain)
  /\ Len(table) <= MaxTable /\ scans <= MaxScans

\* A chain as the target's memory has it: from a source over sources, each
\* with a pointer a little below the next node, to the target, no node twice.
IsChain(nodes, opts, t) ==
  LET n == Len(nodes) IN
  /\ n \in 2..opts.depth + 1
  /\ nodes[n] = Address(t)
  /\ IsInjective(nodes)
  /\ \A i \in 1..n - 1 :
       /\ nodes[i] \in Sources(opts.code)
       /\ nodes[i + 1] - Pointer(nodes[i]) \in Window(opts)
  /\ opts.moduleOnly => IsFile(SlotAt(nodes[1])[1])

\* Every chain of a result is one, with its offsets, and is there once
\* (pointer.h:15-17 "se descarta un source que ya este dentro de esa misma
\* cadena"), also when a limit was met.
ChainsLead ==
  LET chains == result.chains IN
  /\ \A i \in DOMAIN chains :
       /\ IsChain(chains[i].nodes, result.opts, result.target)
       /\ Len(chains[i].offsets) = Len(chains[i].nodes) - 1
       /\ \A k \in DOMAIN chains[i].offsets :
            Pointer(chains[i].nodes[k]) + chains[i].offsets[k] = chains[i].nodes[k + 1]
  /\ IsInjective([i \in DOMAIN chains |-> chains[i].nodes])

\* A result without a flag has every chain (pointer.h:15-17 "no perder
\* cadenas validas"; pointer.h:24 "nunca se publica un resultado parcial").
CompleteUnlessFlagged ==
  result # NoResult /\ ~result.edgesTruncated /\ ~result.chainsTruncated =>
    LET opts == result.opts
        found == {c.nodes : c \in Range(result.chains)}
    IN  \A d \in 1..opts.depth : \A p \in [1..d -> Sources(opts.code)] :
          LET nodes == p \o <<Address(result.target)>>
          IN  IsChain(nodes, opts, result.target) => nodes \in found

\* The mapping of s comes before any other in which the same place of the file
\* is mapped.
FirstInFile(s) ==
  LET at == Mappings[s[1]].offset + s[2]
  IN  \A n \in Names :
        /\ Mappings[n].path = Mappings[s[1]].path
        /\ at \in Mappings[n].offset..Mappings[n].offset + Mappings[n].size - 1
        => base[s[1]] <= base[n]

\* Every hop stays in the mapping its pointer leads into.
Relocatable(slots) ==
  \A i \in 1..Len(slots) - 1 : memory[slots[i]][1] = slots[i + 1][1]

\* When a chain of the table resolves to the value it was found for: always
\* while the mappings are where they were, and with a module as its root also
\* in a later run, if its hops stay in their mappings; in both cases only if
\* no mapping below that of a module's root holds the same file offset, the
\* first being the one resolve_root takes (pointer_resolver.cpp:23-75).
ResolvesToTarget ==
  \A i \in DOMAIN table :
    LET e == table[i]
        inFile == IsFile(e.slots[1][1])
    IN  /\ inFile => FirstInFile(e.slots[1])
        /\ e.layout = base \/ (inFile /\ Relocatable(e.slots))
        => Resolved(e) = Address(Last(e.slots))

\* What the documents say of it, without those conditions: entries with a
\* module as their root "sobreviven a un reinicio con ASLR (si el binario no
\* cambia)" (README.md:267-270, pointer.h:112-114).
SurvivesRestart ==
  \A i \in DOMAIN table :
    table[i].root.kind = "MODULE" => Resolved(table[i]) = Address(Last(table[i].slots))
===========================================================================
