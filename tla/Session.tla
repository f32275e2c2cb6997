------------------------------ MODULE Session ------------------------------
(***************************************************************************)
(* Session (src/src/session.cpp) with its AddressTable (address_table.cpp) *)
(* and the operations of application.cpp on it: the process under study,   *)
(* the results of the scans, the pointer chains, and the table of          *)
(* addresses the user keeps.  Both front ends act through these            *)
(* operations: WebApi from several threads, CommandLine from one.          *)
(*                                                                         *)
(* What a scan finds is any set of addresses here (Scanner says which);    *)
(* the target may refuse at any moment, because it ended or because ptrace *)
(* fails, so every operation on its memory may fail.  Writes to the target *)
(* matter for the table only.  Left out: descriptions, file names.         *)
(***************************************************************************)
EXTENDS Integers, SequencesExt, Sorting

CONSTANTS
  Pid, NoPid,      \* processes, and none
  Addr,            \* addresses
  NumericTypes,    \* the numeric data types in use
  DefaultType,     \* i32
  DynamicTypes,    \* string, bytes
  NoSpec,          \* no dynamic specification
  MaxTable         \* bound on the entries of the table

ASSUME SessionAssumption ==
  /\ NoPid \notin Pid
  /\ DefaultType \in NumericTypes
  /\ NoSpec \notin DynamicTypes \cup NumericTypes
  /\ NumericTypes \cap DynamicTypes = {}
  /\ MaxTable \in Nat

Types == NumericTypes \cup DynamicTypes

VARIABLES
  pid,       \* pid_
  scanner,   \* scanner_; from is history: the process the results are of
  scanType,  \* scan_type_
  pointers,  \* last_pointer_: [from, type, count], from = NoPid when empty
  table,     \* table_; owner is history: the process an address is known in
  file       \* the saved table: a sequence of lines

session == <<pid, scanner, scanType, pointers, table, file>>

NoPointers == [from |-> NoPid, type |-> DefaultType, count |-> 0]

Line == [addr : Addr, type : Types, chain : BOOLEAN, enabled : BOOLEAN]

Entry == [addr : Addr, type : Types, chain : BOOLEAN, enabled : BOOLEAN,
          stale : BOOLEAN, owner : Pid \cup {NoPid}]

SessionTypeOK ==
  /\ pid \in Pid \cup {NoPid}
  /\ scanner \in [numeric : SUBSET Addr, dynamic : SUBSET Addr,
                  spec : Types \cup {NoSpec}, type : NumericTypes,
                  from : Pid \cup {NoPid}]
  /\ scanType \in Types
  /\ pointers \in [from : Pid \cup {NoPid}, type : Types, count : Nat]
  /\ table \in Seq(Entry) /\ Len(table) <= MaxTable
  /\ file \in Seq(Line)

SessionInit ==
  /\ pid = NoPid
  /\ scanner = [numeric |-> {}, dynamic |-> {}, spec |-> NoSpec,
                type |-> DefaultType, from |-> NoPid]
  /\ scanType = DefaultType
  /\ pointers = NoPointers
  /\ table = <<>>
  /\ file = <<>>

HasResults == scanner.numeric # {} \/ scanner.dynamic # {}

---------------------------------------------------------------------------
(* Processes *)

\* Scanner::clear: type_ stays.
Cleared == [scanner EXCEPT !.numeric = {}, !.dynamic = {}, !.spec = NoSpec]

\* Variant: the table is left as it is.
MarkAllStaleNot(t) == t

MarkAllStale(t) == [i \in DOMAIN t |-> [t[i] EXCEPT !.stale = TRUE]]

\* Session::attach of a process that can be opened, when none is attached
\* and when another one is.  The same one again changes nothing.
AttachFirst(p) ==
  /\ pid = NoPid
  /\ pid' = p
  /\ UNCHANGED <<scanner, scanType, pointers, table, file>>

\* Variant: the pointer chains of the last process stay.
AttachOtherKeepsChains(p) ==
  /\ pid \in Pid \ {p}
  /\ pid' = p
  /\ scanner' = Cleared
  /\ table' = MarkAllStale(table)
  /\ UNCHANGED <<scanType, pointers, file>>

AttachOther(p) ==
  /\ pid \in Pid \ {p}
  /\ pid' = p
  /\ scanner' = Cleared
  /\ table' = MarkAllStale(table)
  /\ pointers' = NoPointers
  /\ UNCHANGED <<scanType, file>>

Attach(p) == AttachFirst(p) \/ AttachOther(p)

\* The code leaves the table alone; from here on its entries are of no
\* known process.
Detach ==
  /\ pid' = NoPid
  /\ scanner' = Cleared
  /\ pointers' = NoPointers
  /\ table' = [i \in DOMAIN table |-> [table[i] EXCEPT !.owner = NoPid]]
  /\ UNCHANGED <<scanType, file>>

---------------------------------------------------------------------------
(* Results of scans that ran to their end *)

FirstNumeric(t, found) ==
  scanner' = [numeric |-> found, dynamic |-> {}, spec |-> NoSpec, type |-> t, from |-> pid]

\* Variant: the numeric results stay.
FirstDynamicKeeps(d, found) ==
  scanner' = [scanner EXCEPT !.dynamic = found, !.spec = d, !.from = pid]

FirstDynamic(d, found) ==
  scanner' = [scanner EXCEPT !.dynamic = found, !.spec = d, !.numeric = {}, !.from = pid]

NextNumeric(t, kept) ==
  /\ kept \subseteq scanner.numeric
  /\ scanner' = [scanner EXCEPT !.numeric = kept, !.type = t]

\* Variant: a dynamic next scan does not need a dynamic first one.
NextDynamicAlways(d, kept) ==
  /\ kept \subseteq scanner.dynamic
  /\ scanner' = [scanner EXCEPT !.dynamic = kept, !.spec = IF d = NoSpec THEN @ ELSE d]

\* d is the type of the new pattern, or NoSpec when the old one stays.
NextDynamic(d, kept) ==
  /\ kept \subseteq scanner.dynamic
  /\ scanner' = [scanner EXCEPT
       !.dynamic = IF scanner.spec = NoSpec THEN @ ELSE kept,
       !.spec = IF d = NoSpec \/ scanner.spec = NoSpec THEN @ ELSE d]

PointersFound(t, n) ==
  pointers' = [from |-> pid, type |-> t, count |-> n]

---------------------------------------------------------------------------
(* The table *)

\* AddressTable::add: a new entry is enabled and fresh.
Added(addr, type, chain) ==
  Append(table, [addr |-> addr, type |-> type, chain |-> chain,
                 enabled |-> TRUE, stale |-> FALSE, owner |-> pid])

OnlyTable == UNCHANGED <<pid, scanner, scanType, pointers, file>>

AddEntry ==
  /\ Len(table) < MaxTable
  /\ \E a \in Addr, t \in NumericTypes : table' = Added(a, t, FALSE)
  /\ OnlyTable

\* The type is the session's, not the results'.
AddResultEntry ==
  /\ Len(table) < MaxTable
  /\ \E a \in scanner.numeric : table' = Added(a, scanType, FALSE)
  /\ OnlyTable

AddPointerChain ==
  /\ Len(table) < MaxTable
  /\ pointers.count > 0
  /\ \E a \in Addr : table' = Added(a, pointers.type, TRUE)
  /\ OnlyTable

RemoveEntry ==
  /\ \E i \in DOMAIN table : table' = RemoveAt(table, i)
  /\ OnlyTable

ClearEntries ==
  /\ table # <<>>
  /\ table' = <<>>
  /\ OnlyTable

ToggleEntry ==
  /\ \E i \in DOMAIN table : table' = [table EXCEPT ![i].enabled = ~@]
  /\ OnlyTable

\* Entries that were read or written with success are fresh again.
Verified(S) ==
  table' = [i \in DOMAIN table |->
              IF i \in S THEN [table[i] EXCEPT !.stale = FALSE, !.owner = pid]
              ELSE table[i]]

Enabled == {i \in DOMAIN table : table[i].enabled}

\* Variant: the entry is fresh before it has been read.
ReadEntryEarly ==
  /\ pid \in Pid
  /\ \E i \in Enabled :
       \/ Verified({i})
       \/ table' = [table EXCEPT ![i].stale = FALSE]
  /\ OnlyTable

\* read_entry and write_entry on one entry.
ReadEntry ==
  /\ pid \in Pid
  /\ \E i \in Enabled : Verified({i})
  /\ OnlyTable

\* read_all_entries: any of them may fail.
ReadAllEntries ==
  /\ pid \in Pid
  /\ \E S \in SUBSET Enabled : Verified(S)
  /\ OnlyTable

\* resolve_entry: of a chain, enabled or not.
ResolveEntry ==
  /\ pid \in Pid
  /\ \E i \in DOMAIN table : table[i].chain /\ Verified({i})
  /\ OnlyTable

\* AddressTable::save: staleness is not in the file.  A disk that fills up
\* leaves the lines written so far.
Save ==
  /\ \E n \in 0..Len(table) :
       file' = [i \in 1..n |-> [addr |-> table[i].addr, type |-> table[i].type,
                               chain |-> table[i].chain, enabled |-> table[i].enabled]]
  /\ UNCHANGED <<pid, scanner, scanType, pointers, table>>

\* An entry from a file is fresh, and of no known process.
Loaded(e) ==
  [addr |-> e.addr, type |-> e.type, chain |-> e.chain, enabled |-> e.enabled,
   stale |-> FALSE, owner |-> NoPid]

\* Variant: the lines go behind the entries that are there.
LoadAppends ==
  /\ table' = table \o [i \in DOMAIN file |-> Loaded(file[i])]
  /\ OnlyTable

\* AddressTable::load: a line with a type that parse_type does not know is
\* skipped.
Load ==
  /\ LET known == Ascending({i \in DOMAIN file : file[i].type \in NumericTypes})
     IN  table' = [k \in DOMAIN known |-> Loaded(file[known[k]])]
  /\ OnlyTable

EditTable ==
  \/ AddEntry \/ AddResultEntry \/ AddPointerChain
  \/ RemoveEntry \/ ClearEntries \/ ToggleEntry

VerifyTable == ReadEntry \/ ResolveEntry

MoveTable == Save \/ Load

---------------------------------------------------------------------------
(* Properties of the session that either front end has to keep *)

\* Scan results and pointer chains belong to the attached process: none
\* outlives a change of process (session.h:36 "descarta los
\* resultados del escaner (pertenecen al PID anterior)", session.h:65-66).
ResultsBelongToProcess ==
  /\ HasResults => scanner.from = pid
  /\ pointers.count > 0 => pointers.from = pid

\* Numeric and dynamic results exclude each other: callers that find a
\* specification take the dynamic ones and never look at the others.
OneKindOfResults ==
  /\ scanner.spec # NoSpec => scanner.numeric = {}
  /\ scanner.spec = NoSpec => scanner.dynamic = {}

\* No entry last added, resolved, read or written in one process is shown as
\* fresh in another that replaced it (README.md:244 "Al cambiar de proceso, las
\* entradas se marcan como (stale)", "una relectura exitosa las deja como
\* verificadas").  Nothing is said of an entry of no known process: one that
\* comes from a file, was added with no process attached, or was there through
\* a detach, and was not read or written since.
FreshEntriesBelong ==
  pid \in Pid =>
    \A i \in DOMAIN table :
      ~table[i].stale => table[i].owner \in {pid, NoPid}
===========================================================================
