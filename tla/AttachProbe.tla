---------------------------- MODULE AttachProbe ----------------------------
(***************************************************************************)
(* How functions get their probes: the tracee selects the function symbols *)
(* of the ELF file that pass its filter and collects them in a map         *)
(* (pkg/trace/tracee.go, getFuncSyms and loadFunctions), the tracer takes  *)
(* from it one slice of offsets and one of cookies and attaches them in    *)
(* batches (pkg/trace/tracer.go, attachProbe).  From then on the kernel    *)
(* answers an entry at an offset with the cookie attached there.           *)
(*                                                                         *)
(* The slices are filled by two separate iterations over a Go map, whose   *)
(* order is unspecified and may differ: each is any order of the keys.     *)
(***************************************************************************)
EXTENDS Naturals, FiniteSets, Functions

CONSTANTS
  Symbols,    \* the symbols of the ELF file
  FuncSyms,   \* those of type STT_FUNC
  Name,       \* Name[s]: the name of symbol s
  Bind,       \* Bind[s]: its binding
  Filters,    \* the filters a tracee may be created with
  NoFilter,   \* what stands in place of a list or pattern not given
  Hash,       \* Hash[n]: the cookie of name n (FNV-1a)
  Address,    \* Address[n]: the file offset of the function named n
  BatchSize   \* offsets per uprobe_multi attachment (128)

ASSUME SymbolsAssumption ==
  /\ IsFiniteSet(Symbols)
  /\ FuncSyms \subseteq Symbols
  /\ Name \in [Symbols -> DOMAIN Hash]
  /\ \A s \in Symbols : Bind[s] # NoFilter
  /\ DOMAIN Address = DOMAIN Hash
  /\ Range(Hash) \subseteq Nat \ {0}
  /\ Range(Address) \subseteq Nat \ {0}
  /\ BatchSize \in Nat \ {0}

VARIABLES
  filter,    \* the options of the tracee: two lists of binds, two patterns
  pc,        \* where Init and attachProbe are
  todo,      \* the symbols loadFunctions has not visited
  funcs,     \* UserTracee.funcs: cookie -> name and offset
  offsets,   \* the slice of offsets
  cookies,   \* the slice of cookies
  next,      \* the index attachProbe has reached, counted from 1
  probes,    \* the pairs of offset and cookie attached
  failed,    \* history: the batches whose attachment failed
  entered,   \* history: the offsets entered once every batch was tried
  acked      \* the cookies those entries reported

vars == <<filter, pc, todo, funcs, offsets, cookies, next, probes, failed, entered, acked>>

Init ==
  /\ filter \in Filters
  /\ pc = "init"
  /\ todo = {}
  /\ funcs = <<>>
  /\ offsets = <<>>
  /\ cookies = <<>>
  /\ next = 1
  /\ probes = {}
  /\ failed = 0
  /\ entered = {}
  /\ acked = {}

\* Fault: a name that matches the include pattern is not checked further.
IncludeWins(s) ==
  /\ Bind[s] \notin filter.bindExclude
  /\ \/ Bind[s] \in filter.bindInclude
     \/ Name[s] \in filter.include
     \/ filter.include = {NoFilter} /\ Name[s] \notin filter.exclude

\* A list of binds to include decides alone, before the patterns are looked at.
\* A pattern is the set of names it matches.
ShouldIncludeSymbol(s) ==
  /\ Bind[s] \notin filter.bindExclude
  /\ \/ Bind[s] \in filter.bindInclude
     \/ /\ filter.bindInclude = {NoFilter}
        /\ Name[s] \notin filter.exclude
        /\ filter.include = {NoFilter} \/ Name[s] \in filter.include

\* getFuncSyms: the symbols to load.  None at all, or an ELF file that cannot be
\* read, ends the run.
GetFuncSyms ==
  /\ pc = "init"
  /\ todo' \in {{}, {s \in FuncSyms : ShouldIncludeSymbol(s)}}
  /\ pc' = IF todo' = {} THEN "failed" ELSE "loading"
  /\ UNCHANGED <<filter, funcs, offsets, cookies, next, probes, failed, entered, acked>>

\* SymbolToOffset fails for some symbols; the function is kept, at offset 0.
Lookup(name) == {Address[name], 0}

\* One symbol of loadFunctions.  The key is the hash of the name, so symbols of
\* one name, and names of one hash, share an entry, and the last one wins.
LoadSymbol ==
  /\ pc = "loading"
  /\ \E s \in todo : \E offset \in Lookup(Name[s]) :
       LET key == Hash[Name[s]] IN
       /\ todo' = todo \ {s}
       /\ funcs' = [c \in DOMAIN funcs \cup {key} |->
                      IF c = key THEN [name |-> Name[s], offset |-> offset]
                                 ELSE funcs[c]]
  /\ UNCHANGED <<filter, pc, offsets, cookies, next, probes, failed, entered, acked>>

\* The number of functions, and the orders an iteration over funcs can take.
Count  == Cardinality(DOMAIN funcs)
Orders == Bijection(1 .. Count, DOMAIN funcs)

\* make([]uint64, n) followed by n appends: n zeros come first.
Padded(values) ==
  [i \in 1 .. 2 * Count |-> IF i <= Count THEN 0 ELSE values[i - Count]]

GetFuncOffsets ==
  /\ pc = "loading"
  /\ todo = {}
  /\ pc' = "offsets"
  /\ \E order \in Orders :
       offsets' = Padded([i \in 1 .. Count |-> funcs[order[i]].offset])
  /\ UNCHANGED <<filter, todo, funcs, cookies, next, probes, failed, entered, acked>>

\* Fault: only the offsets are padded.
GetFuncCookiesUnpadded ==
  /\ pc = "offsets"
  /\ pc' = "attaching"
  /\ \E order \in Orders : cookies' = order
  /\ UNCHANGED <<filter, todo, funcs, offsets, next, probes, failed, entered, acked>>

GetFuncCookies ==
  /\ pc = "offsets"
  /\ pc' = "attaching"
  /\ \E order \in Orders : cookies' = Padded(order)
  /\ UNCHANGED <<filter, todo, funcs, offsets, next, probes, failed, entered, acked>>

\* Fault: the end of a batch is one short.
BatchShort == {i \in DOMAIN offsets : next <= i /\ i < next + BatchSize - 1}

\* The indexes of the batch that starts at next, cut at the end of the slices.
Batch == {i \in DOMAIN offsets : next <= i /\ i < next + BatchSize}

\* Fault: batches overlap by one.
AttachBatchOverlap ==
  /\ pc = "attaching"
  /\ next <= 2 * Count
  /\ \/ /\ probes' = probes \cup {[offset |-> offsets[i], cookie |-> cookies[i]] :
                                    i \in Batch}
        /\ UNCHANGED failed
     \/ /\ failed' = failed + 1
        /\ UNCHANGED probes
  /\ next' = next + BatchSize - 1
  /\ UNCHANGED <<filter, pc, todo, funcs, offsets, cookies, entered, acked>>

\* One round of attachProbe.  A failed attachment is only logged.
AttachBatch ==
  /\ pc = "attaching"
  /\ next <= 2 * Count
  /\ \/ /\ probes' = probes \cup {[offset |-> offsets[i], cookie |-> cookies[i]] :
                                    i \in Batch}
        /\ UNCHANGED failed
     \/ /\ failed' = failed + 1
        /\ UNCHANGED probes
  /\ next' = next + BatchSize
  /\ UNCHANGED <<filter, pc, todo, funcs, offsets, cookies, entered, acked>>

\* Fault: the last, shorter batch is left out.
AttachedFullBatches ==
  /\ pc = "attaching"
  /\ next + BatchSize > 2 * Count + 1
  /\ pc' = "tracing"
  /\ UNCHANGED <<filter, todo, funcs, offsets, cookies, next, probes, failed, entered, acked>>

\* The end of the loop of attachProbe.
Attached ==
  /\ pc = "attaching"
  /\ next > 2 * Count
  /\ pc' = "tracing"
  /\ UNCHANGED <<filter, todo, funcs, offsets, cookies, next, probes, failed, entered, acked>>

\* The program enters the function at an address: each probe there reports its
\* cookie.
Execute ==
  /\ pc = "tracing"
  /\ \E address \in Range(Address) :
       /\ entered' = entered \cup {address}
       /\ acked' = acked \cup {p.cookie : p \in {q \in probes : q.offset = address}}
  /\ UNCHANGED <<filter, pc, todo, funcs, offsets, cookies, next, probes, failed>>

Next ==
  \/ GetFuncSyms
  \/ LoadSymbol
  \/ GetFuncOffsets
  \/ GetFuncCookies
  \/ AttachBatch
  \/ Attached
  \/ Execute

Spec == Init /\ [][Next]_vars

----------------------------------------------------------------------------
(* Properties.                                                             *)

\* The slice of offsets is made, and the slice of cookies.
OffsetsMade == pc \in {"offsets", "attaching", "tracing"}
CookiesMade == pc \in {"attaching", "tracing"}

Function == [name : DOMAIN Hash, offset : Range(Address) \cup {0}]

\* Type invariant.  The two slices have one length, so slicing cookies with the
\* bounds of offsets never goes out of range.
TypeOK ==
  /\ filter \in Filters
  /\ pc \in {"init", "failed", "loading", "offsets", "attaching", "tracing"}
  /\ todo \subseteq Symbols
  /\ DOMAIN funcs \subseteq Range(Hash)
  /\ \A c \in DOMAIN funcs : funcs[c] \in Function
  /\ OffsetsMade => offsets \in [1 .. 2 * Count -> Range(Address) \cup {0}]
  /\ CookiesMade => cookies \in [DOMAIN offsets -> Range(Hash) \cup {0}]
  /\ next \in Nat \ {0}
  /\ probes \subseteq [offset : Range(Address) \cup {0}, cookie : Range(Hash) \cup {0}]
  /\ failed \in Nat
  /\ entered \subseteq Range(Address)
  /\ acked \subseteq Range(Hash)

\* The functions the report should count: those whose offset was entered.
Due == {c \in DOMAIN funcs : funcs[c].offset \in entered}

\* The number of functions reported is the number of functions entered, less at
\* most BatchSize for each batch that could not be attached: every offset gets a
\* cookie of its own, across the zeros in front and the batch boundaries, and
\* the percentage of the report is right even where its names are not.
CountPreserved ==
  pc = "tracing" =>
    /\ Cardinality(acked) <= Cardinality(Due)
    /\ Cardinality(Due) <= Cardinality(acked) + failed * BatchSize

\* When no attachment fails, every function has a probe and every cookie is
\* attached, although the pairs are cut in batches that ignore where the zeros
\* end: the mispairing of offsets and cookies loses no function.
EveryFunctionProbed ==
  pc = "tracing" /\ failed = 0 =>
    \A c \in DOMAIN funcs :
      /\ \E p \in probes : p.cookie = c
      /\ \E p \in probes : p.offset = funcs[c].offset

\* The functions the user selects on the command line, which gives no binds: those
\* whose name matches the include pattern, if any, and not the exclude pattern.
Selected ==
  {Name[s] : s \in {u \in FuncSyms :
     /\ Name[u] \notin filter.exclude
     /\ filter.include # {NoFilter} => Name[u] \in filter.include}}

\* The filter of the command line is honoured to the end: the map has an entry
\* for every selected function and for no other, and no probe stands in a
\* function that was not selected, though names are deduplicated by their hash
\* and the slices are padded and permuted.
FilterHonoured ==
  filter.bindInclude = {NoFilter} /\ filter.bindExclude = {} /\ OffsetsMade =>
    /\ DOMAIN funcs = {Hash[n] : n \in Selected}
    /\ \A c \in DOMAIN funcs : funcs[c].name \in Selected
    /\ \A p \in probes : p.offset \in {0} \cup {Address[n] : n \in Selected}

\* The cookies of the batches to come.
Untried ==
  IF CookiesMade
    THEN {cookies[i] : i \in {j \in DOMAIN cookies : next <= j}} \ {0}
    ELSE {Hash[Name[s]] : s \in {u \in FuncSyms : ShouldIncludeSymbol(u)}}

Abstract == INSTANCE Attachment WITH
  Cookies  <- Range(Hash),
  untried  <- Untried,
  attached <- {p.cookie : p \in probes} \ {0},
  done     <- pc = "tracing"

\* Each function is tried in one batch and in no other, wherever the batches cut
\* the padded slices, and the tracer goes on only when all were tried: no
\* function is attached twice, which would double its events.
ImplementsAttachment == Abstract!Spec

\* "Cookie is a function identifier" (trace.bpf.c:8): a function named as
\* acknowledged is one whose offset was entered.
NamesExecuted == {funcs[c].name : c \in acked} \subseteq {funcs[c].name : c \in Due}
=============================================================================
