-------------------------- MODULE AttachProbeProofs --------------------------
(***************************************************************************)
(* Theorems about AttachProbe, for any symbols, names, hashes, addresses   *)
(* and batch size.                                                         *)
(*                                                                         *)
(*   TypeInvariant   Spec => []TypeOK                                      *)
(*   AllProbed       Spec => []EveryFunctionProbed                         *)
(*   OnlySelected    Spec => []FilterHonoured                              *)
(*   CountIsRight    Spec => []CountPreserved                              *)
(*   Implementation  Spec => ImplementsAttachment                          *)
(*                                                                         *)
(* AttachInv is the inductive invariant: both slices list every function   *)
(* (SlicesComplete), and as long as no attachment failed the pairs below   *)
(* next are attached (PrefixAttached).  LoadInv adds that what is loaded,  *)
(* listed and attached comes from the symbols the filter includes, and     *)
(* that no cookie is listed twice.  CountInv is what the count needs: each *)
(* function has an index of its own among the offsets (OffsetsListed), and *)
(* the pairs of failed batches are few (ProbesArePairs).                   *)
(***************************************************************************)
EXTENDS AttachProbe, FiniteSetTheorems, TLAPS

\* Each function has its offset in one slice and its cookie in the other.
SlicesComplete ==
  \A c \in DOMAIN funcs :
    /\ OffsetsMade => \E i \in DOMAIN offsets : offsets[i] = funcs[c].offset
    /\ CookiesMade => \E i \in DOMAIN cookies : cookies[i] = c

\* The pairs attachProbe has gone through.
PrefixAttached ==
  /\ failed = 0 =>
       \A i \in DOMAIN offsets :
         i < next => [offset |-> offsets[i], cookie |-> cookies[i]] \in probes
  /\ ~CookiesMade => next = 1
  /\ pc = "tracing" => next > 2 * Count

\* The zero cookies stand at zero offsets, which no function has.
ZerosAligned ==
  /\ OffsetsMade => \A i \in DOMAIN offsets : i <= Count => offsets[i] = 0
  /\ CookiesMade =>
       \A i \in DOMAIN offsets : cookies[i] = 0 => i <= Count
  /\ \A p \in probes : p.offset # 0 => p.cookie # 0

AttachInv ==
  /\ TypeOK
  /\ IsFiniteSet(DOMAIN funcs)
  /\ SlicesComplete
  /\ PrefixAttached
  /\ ZerosAligned

----------------------------------------------------------------------------
\* The number of functions is a number: the map funcs is finite.
LEMMA CountType ==
  ASSUME IsFiniteSet(DOMAIN funcs)
  PROVE  Count \in Nat
BY FS_CardinalityType DEF Count

\* The padded slice: its type, its zeros and its values.
LEMMA PaddedSlice ==
  ASSUME Count \in Nat, NEW V, NEW values \in [1 .. Count -> V]
  PROVE  /\ Padded(values) \in [1 .. 2 * Count -> V \cup {0}]
         /\ \A i \in 1 .. 2 * Count :
              Padded(values)[i] = IF i <= Count THEN 0 ELSE values[i - Count]
         /\ \A k \in 1 .. Count :
              k + Count \in 1 .. 2 * Count /\ Padded(values)[k + Count] = values[k]
BY DEF Padded

\* An order of iteration visits every key.
LEMMA OrderVisitsAll ==
  ASSUME NEW order \in Orders
  PROVE  /\ order \in [1 .. Count -> DOMAIN funcs]
         /\ \A c \in DOMAIN funcs : \E k \in 1 .. Count : order[k] = c
BY DEF Orders, Bijection, Injection, Surjection, Range

\* The invariant holds before the first symbol is loaded.
LEMMA InitAttach == Init => AttachInv
<1> SUFFICES ASSUME Init
             PROVE  AttachInv
  OBVIOUS
<1>1. DOMAIN funcs = {}
  BY DEF Init
<1>2. IsFiniteSet(DOMAIN funcs)
  BY <1>1, FS_EmptySet
<1> QED  BY <1>1, <1>2
         DEF Init, AttachInv, TypeOK, SlicesComplete, PrefixAttached,
             ZerosAligned, OffsetsMade, CookiesMade

\* Every step of the loading and of attachProbe keeps the invariant.
LEMMA NextAttach == AttachInv /\ [Next]_vars => AttachInv'
<1> SUFFICES ASSUME AttachInv, [Next]_vars
             PROVE  AttachInv'
  OBVIOUS
<1> USE DEF AttachInv, OffsetsMade, CookiesMade
<1>a. Count \in Nat /\ BatchSize \in Nat \ {0}
  BY CountType, SymbolsAssumption
<1>0. CASE GetFuncSyms
  <2>1. UNCHANGED <<funcs, probes, failed, next, Count>>
    BY <1>0 DEF GetFuncSyms, Count
  <2>2. todo' \subseteq Symbols /\ pc' \in {"failed", "loading"} /\ pc = "init"
    BY <1>0, SymbolsAssumption DEF GetFuncSyms
  <2> QED  BY <1>0, <2>1, <2>2
           DEF GetFuncSyms, TypeOK, SlicesComplete, PrefixAttached, ZerosAligned
<1>1. CASE LoadSymbol
  <2>a. PICK s \in todo : \E offset \in Lookup(Name[s]) :
          /\ todo' = todo \ {s}
          /\ funcs' = [c \in DOMAIN funcs \cup {Hash[Name[s]]} |->
                         IF c = Hash[Name[s]] THEN [name |-> Name[s], offset |-> offset]
                                              ELSE funcs[c]]
    BY <1>1 DEF LoadSymbol
  <2>1. PICK offset \in Lookup(Name[s]) :
          /\ todo' = todo \ {s}
          /\ funcs' = [c \in DOMAIN funcs \cup {Hash[Name[s]]} |->
                         IF c = Hash[Name[s]] THEN [name |-> Name[s], offset |-> offset]
                                              ELSE funcs[c]]
    BY <2>a
  <2>2. /\ Name[s] \in DOMAIN Hash
        /\ Hash[Name[s]] \in Range(Hash)
        /\ offset \in Range(Address) \cup {0}
    BY <2>1, SymbolsAssumption DEF TypeOK, Lookup, Range
  <2>3. IsFiniteSet(DOMAIN funcs')
    BY <2>1, FS_AddElement
  <2>4. TypeOK'
    BY <1>1, <2>1, <2>2 DEF TypeOK, LoadSymbol, Function
  <2> QED  BY <1>1, <2>3, <2>4
           DEF LoadSymbol, SlicesComplete, PrefixAttached, ZerosAligned, TypeOK
<1>2. CASE GetFuncOffsets
  <2>1. PICK order \in Orders :
          offsets' = Padded([i \in 1 .. Count |-> funcs[order[i]].offset])
    BY <1>2 DEF GetFuncOffsets
  <2> DEFINE values == [i \in 1 .. Count |-> funcs[order[i]].offset]
  <2>2. values \in [1 .. Count -> Range(Address) \cup {0}]
    BY <2>1, OrderVisitsAll DEF TypeOK, Function
  <2>3. UNCHANGED <<funcs, Count>>
    BY <1>2 DEF GetFuncOffsets, Count
  <2>a. offsets' = Padded(values)
    BY <2>1
  <2>5. \A c \in DOMAIN funcs : \E k \in 1 .. Count : values[k] = funcs[c].offset
    BY <2>1, OrderVisitsAll
  <2> HIDE DEF values
  <2>4. /\ offsets' \in [1 .. 2 * Count -> Range(Address) \cup {0}]
        /\ \A i \in 1 .. 2 * Count : i <= Count => offsets'[i] = 0
        /\ \A k \in 1 .. Count :
             k + Count \in 1 .. 2 * Count /\ offsets'[k + Count] = values[k]
    BY <1>a, <2>a, <2>2, PaddedSlice
  <2>6. SlicesComplete'
    <3>1. \A c \in DOMAIN funcs : \E i \in DOMAIN offsets' : offsets'[i] = funcs[c].offset
      <4> SUFFICES ASSUME NEW c \in DOMAIN funcs
                   PROVE  \E i \in DOMAIN offsets' : offsets'[i] = funcs[c].offset
        OBVIOUS
      <4>1. PICK k \in 1 .. Count : values[k] = funcs[c].offset
        BY <2>5
      <4>2. k + Count \in DOMAIN offsets' /\ offsets'[k + Count] = funcs[c].offset
        BY <2>4, <4>1
      <4> QED  BY <4>2
    <3> QED  BY <1>2, <2>3, <3>1 DEF SlicesComplete, GetFuncOffsets
  <2>7. TypeOK'
    BY <1>2, <2>3, <2>4 DEF TypeOK, GetFuncOffsets
  <2>8. PrefixAttached'
    <3>1. next' = 1 /\ pc' = "offsets"
      BY <1>2 DEF PrefixAttached, GetFuncOffsets
    <3>2. \A i \in DOMAIN offsets' : ~(i < next')
      BY <1>a, <2>4, <3>1
    <3> QED  BY <3>1, <3>2 DEF PrefixAttached
  <2>9. ZerosAligned'
    BY <1>2, <2>3, <2>4 DEF ZerosAligned, GetFuncOffsets
  <2> QED  BY <2>3, <2>6, <2>7, <2>8, <2>9
<1>3. CASE GetFuncCookies
  <2>1. PICK order \in Orders : cookies' = Padded(order)
    BY <1>3 DEF GetFuncCookies
  <2>2. /\ order \in [1 .. Count -> Range(Hash)]
        /\ \A c \in DOMAIN funcs : \E k \in 1 .. Count : order[k] = c
    BY <2>1, OrderVisitsAll DEF TypeOK
  <2>3. UNCHANGED <<funcs, offsets, Count>>
    BY <1>3 DEF GetFuncCookies, Count
  <2>4. /\ cookies' \in [1 .. 2 * Count -> Range(Hash) \cup {0}]
        /\ \A k \in 1 .. Count :
             k + Count \in 1 .. 2 * Count /\ cookies'[k + Count] = order[k]
        /\ \A i \in 1 .. 2 * Count :
             cookies'[i] = IF i <= Count THEN 0 ELSE order[i - Count]
    BY <1>a, <2>1, <2>2, PaddedSlice
  <2>5. DOMAIN offsets = 1 .. 2 * Count
    BY <1>3 DEF TypeOK, GetFuncCookies
  <2>6. SlicesComplete'
    <3>1. \A c \in DOMAIN funcs : \E i \in DOMAIN cookies' : cookies'[i] = c
      <4> SUFFICES ASSUME NEW c \in DOMAIN funcs
                   PROVE  \E i \in DOMAIN cookies' : cookies'[i] = c
        OBVIOUS
      <4>1. PICK k \in 1 .. Count : order[k] = c
        BY <2>2
      <4>2. k + Count \in DOMAIN cookies' /\ cookies'[k + Count] = c
        BY <2>4, <4>1
      <4> QED  BY <4>2
    <3> QED  BY <1>3, <2>3, <3>1 DEF SlicesComplete, GetFuncCookies
  <2>7. TypeOK'
    BY <1>3, <2>3, <2>4, <2>5 DEF TypeOK, GetFuncCookies
  <2>8. PrefixAttached'
    BY <1>a, <1>3, <2>3, <2>5 DEF PrefixAttached, GetFuncCookies
  <2>9. ZerosAligned'
    <3>1. \A i \in 1 .. 2 * Count : i > Count => cookies'[i] # 0
      <4> SUFFICES ASSUME NEW i \in 1 .. 2 * Count, i > Count
                   PROVE  cookies'[i] # 0
        OBVIOUS
      <4>1. i - Count \in 1 .. Count
        BY <1>a
      <4>2. cookies'[i] = order[i - Count] /\ order[i - Count] \in Range(Hash)
        BY <1>a, <2>2, <2>4, <4>1
      <4> QED  BY <4>2, SymbolsAssumption
    <3>2. \A i \in DOMAIN offsets' : cookies'[i] = 0 => i <= Count'
      BY <1>a, <2>3, <2>5, <3>1
    <3> QED  BY <1>3, <2>3, <3>2 DEF ZerosAligned, GetFuncCookies
  <2> QED  BY <1>3, <2>3, <2>6, <2>7, <2>8, <2>9
<1>4. CASE AttachBatch
  <2>1. DOMAIN offsets = 1 .. 2 * Count /\ DOMAIN cookies = 1 .. 2 * Count
    BY <1>4 DEF TypeOK, AttachBatch
  <2>2. UNCHANGED <<pc, funcs, offsets, cookies, Count>>
    BY <1>4 DEF AttachBatch, Count
  <2> DEFINE pair(i) == [offset |-> offsets[i], cookie |-> cookies[i]]
  <2>3. \A p \in probes' : p \in probes \/ \E i \in 1 .. 2 * Count : p = pair(i)
    BY <1>4, <2>1 DEF AttachBatch, Batch
  <2>4. \A i \in 1 .. 2 * Count :
          pair(i) \in [offset : Range(Address) \cup {0}, cookie : Range(Hash) \cup {0}]
    BY <1>4, <2>1 DEF TypeOK, AttachBatch
  <2>5. TypeOK'
    BY <1>a, <1>4, <2>2, <2>3, <2>4 DEF TypeOK, AttachBatch
  <2>6. ZerosAligned'
    BY <1>4, <2>1, <2>2, <2>3 DEF ZerosAligned, AttachBatch
  <2>7. PrefixAttached'
    <3>1. CASE failed' = failed + 1
      BY <1>4, <2>2, <3>1 DEF PrefixAttached, AttachBatch, TypeOK
    <3>2. CASE probes' = probes \cup {pair(i) : i \in Batch}
      <4>1. \A i \in DOMAIN offsets : i < next' => i < next \/ i \in Batch
        BY <1>4, <1>a, <2>1 DEF AttachBatch, Batch, TypeOK
      <4>2. ASSUME failed' = 0, NEW i \in DOMAIN offsets, i < next'
            PROVE  pair(i) \in probes'
        <5>1. failed = 0
          BY <1>4, <4>2 DEF AttachBatch, TypeOK
        <5>2. CASE i < next
          BY <3>2, <5>1, <5>2 DEF PrefixAttached
        <5>3. CASE i \in Batch
          BY <3>2, <5>3
        <5> QED  BY <4>1, <4>2, <5>2, <5>3
      <4>3. pc' = "attaching"
        BY <1>4 DEF AttachBatch
      <4> QED  BY <2>2, <4>2, <4>3 DEF PrefixAttached
    <3> QED  BY <1>4, <3>1, <3>2 DEF AttachBatch
  <2>8. SlicesComplete'
    BY <2>2 DEF SlicesComplete
  <2> QED  BY <2>2, <2>5, <2>6, <2>7, <2>8
<1>5. CASE Attached
  <2>1. UNCHANGED <<funcs, offsets, cookies, probes, failed, next, Count>>
    BY <1>5 DEF Attached, Count
  <2> QED  BY <1>5, <2>1
           DEF Attached, TypeOK, SlicesComplete, PrefixAttached, ZerosAligned
<1>6. CASE Execute
  <2>1. UNCHANGED <<pc, funcs, offsets, cookies, probes, failed, next, Count>>
    BY <1>6 DEF Execute, Count
  <2>2. PICK address \in Range(Address) :
          /\ entered' = entered \cup {address}
          /\ acked' = acked \cup {p.cookie : p \in {q \in probes : q.offset = address}}
    BY <1>6 DEF Execute
  <2>3. address # 0
    BY SymbolsAssumption
  <2>4. acked' \subseteq Range(Hash)
    BY <2>2, <2>3 DEF TypeOK, ZerosAligned
  <2> QED  BY <1>6, <2>1, <2>2, <2>4
           DEF Execute, TypeOK, SlicesComplete, PrefixAttached, ZerosAligned
<1>7. CASE UNCHANGED vars
  <2>1. Count' = Count
    BY <1>7 DEF vars, Count
  <2> QED  BY <1>7, <2>1
           DEF vars, TypeOK, SlicesComplete, PrefixAttached, ZerosAligned
<1> QED  BY <1>0, <1>1, <1>2, <1>3, <1>4, <1>5, <1>6, <1>7 DEF Next

\* The slices hold every function and the batches tried so far cover a prefix of
\* them, whatever the orders of iteration, at every point of attachProbe.
THEOREM AttachInvariant == Spec => []AttachInv
BY InitAttach, NextAttach, PTL DEF Spec

\* The maps, slices and probes keep their types; in particular the slice of
\* cookies is as long as that of offsets, and no entry reports the cookie 0.
THEOREM TypeInvariant == Spec => []TypeOK
<1>1. AttachInv => TypeOK
  BY DEF AttachInv
<1> QED  BY <1>1, AttachInvariant, PTL

\* Whatever the orders of the two iterations and the batch size, if no batch
\* fails every function has a probe and every cookie is attached.
THEOREM AllProbed == Spec => []EveryFunctionProbed
<1>1. AttachInv => EveryFunctionProbed
  <2> SUFFICES ASSUME AttachInv, pc = "tracing", failed = 0, NEW c \in DOMAIN funcs
               PROVE  /\ \E p \in probes : p.cookie = c
                      /\ \E p \in probes : p.offset = funcs[c].offset
    BY DEF EveryFunctionProbed
  <2>1. Count \in Nat
    BY CountType DEF AttachInv
  <2>2. DOMAIN offsets = 1 .. 2 * Count /\ DOMAIN cookies = 1 .. 2 * Count
    BY DEF AttachInv, TypeOK, OffsetsMade, CookiesMade
  <2>3. \A i \in 1 .. 2 * Count :
          [offset |-> offsets[i], cookie |-> cookies[i]] \in probes
    BY <2>1, <2>2 DEF AttachInv, TypeOK, PrefixAttached
  <2>4. PICK i \in 1 .. 2 * Count : offsets[i] = funcs[c].offset
    BY <2>2 DEF AttachInv, SlicesComplete, OffsetsMade, CookiesMade
  <2>5. PICK j \in 1 .. 2 * Count : cookies[j] = c
    BY <2>2 DEF AttachInv, SlicesComplete, OffsetsMade, CookiesMade
  <2>6. [offset |-> offsets[i], cookie |-> cookies[i]].offset = funcs[c].offset
    BY <2>4
  <2>7. [offset |-> offsets[j], cookie |-> cookies[j]].cookie = c
    BY <2>5
  <2> QED  BY <2>3, <2>6, <2>7
<1> QED  BY <1>1, AttachInvariant, PTL

----------------------------------------------------------------------------
(* The filter, and the batches as steps of Attachment.                     *)

Included == {s \in FuncSyms : ShouldIncludeSymbol(s)}

\* The cookies of the included symbols, and where their functions may be.
IncludedCookies == {Hash[Name[s]] : s \in Included}
IncludedOffsets == {0} \cup {Address[Name[s]] : s \in Included}

\* The map has, or will have, an entry for each included symbol and no other.
FuncsIncluded ==
  /\ todo \subseteq Included
  /\ pc \in {"init", "failed"} => DOMAIN funcs = {}
  /\ pc \notin {"init", "failed"} =>
       DOMAIN funcs \cup {Hash[Name[s]] : s \in todo} = IncludedCookies
  /\ OffsetsMade => todo = {}
  /\ \A c \in DOMAIN funcs :
       /\ \E s \in Included : funcs[c].name = Name[s]
       /\ funcs[c].offset \in IncludedOffsets

\* So has the slice of offsets, and so have the probes.
OffsetsIncluded ==
  /\ OffsetsMade => \A i \in DOMAIN offsets : offsets[i] \in IncludedOffsets
  /\ \A p \in probes : p.offset \in IncludedOffsets

\* The slice of cookies has each function once, behind the zeros.
CookiesDistinct ==
  CookiesMade =>
    /\ \A i, j \in DOMAIN cookies : cookies[i] = cookies[j] /\ cookies[i] # 0 => i = j
    /\ {cookies[i] : i \in DOMAIN cookies} \ {0} = DOMAIN funcs

LoadInv == FuncsIncluded /\ OffsetsIncluded /\ CookiesDistinct

\* A padded order of the keys has each key once, and zeros else.
LEMMA PaddedOrder ==
  ASSUME Count \in Nat, NEW order \in Orders, 0 \notin DOMAIN funcs
  PROVE  /\ DOMAIN Padded(order) = 1 .. 2 * Count
         /\ \A i, j \in 1 .. 2 * Count :
              Padded(order)[i] = Padded(order)[j] /\ Padded(order)[i] # 0 => i = j
         /\ {Padded(order)[i] : i \in 1 .. 2 * Count} \ {0} = DOMAIN funcs
<1>1. /\ order \in [1 .. Count -> DOMAIN funcs]
      /\ \A c \in DOMAIN funcs : \E k \in 1 .. Count : order[k] = c
  BY OrderVisitsAll
<1>2. \A k, l \in 1 .. Count : order[k] = order[l] => k = l
  BY DEF Orders, Bijection, Injection, IsInjective
<1>3. /\ Padded(order) \in [1 .. 2 * Count -> DOMAIN funcs \cup {0}]
      /\ \A i \in 1 .. 2 * Count :
           Padded(order)[i] = IF i <= Count THEN 0 ELSE order[i - Count]
      /\ \A k \in 1 .. Count :
           k + Count \in 1 .. 2 * Count /\ Padded(order)[k + Count] = order[k]
  BY <1>1, PaddedSlice
<1>4. ASSUME NEW i \in 1 .. 2 * Count, NEW j \in 1 .. 2 * Count,
             Padded(order)[i] = Padded(order)[j], Padded(order)[i] # 0
      PROVE  i = j
  <2>1. ~(i <= Count) /\ ~(j <= Count)
    BY <1>3, <1>4
  <2>2. i - Count \in 1 .. Count /\ j - Count \in 1 .. Count
    BY <2>1
  <2>3. order[i - Count] = order[j - Count]
    BY <1>3, <1>4, <2>1
  <2> QED  BY <1>2, <2>2, <2>3
<1>5. {Padded(order)[i] : i \in 1 .. 2 * Count} \ {0} \subseteq DOMAIN funcs
  BY <1>3
<1>6. DOMAIN funcs \subseteq {Padded(order)[i] : i \in 1 .. 2 * Count} \ {0}
  <2> SUFFICES ASSUME NEW c \in DOMAIN funcs
               PROVE  \E i \in 1 .. 2 * Count : Padded(order)[i] = c
    OBVIOUS
  <2>1. PICK k \in 1 .. Count : order[k] = c
    BY <1>1
  <2> QED  BY <1>3, <2>1
<1> QED  BY <1>3, <1>4, <1>5, <1>6

\* Every step keeps the invariant; the filter never changes.
LEMMA NextLoad == AttachInv /\ LoadInv /\ [Next]_vars => LoadInv'
<1> SUFFICES ASSUME AttachInv, LoadInv, [Next]_vars
             PROVE  LoadInv'
  OBVIOUS
<1> USE DEF LoadInv, OffsetsMade, CookiesMade
<1>a. /\ Included' = Included
      /\ IncludedCookies' = IncludedCookies
      /\ IncludedOffsets' = IncludedOffsets
  <2>1. filter' = filter
    BY DEF Next, GetFuncSyms, LoadSymbol, GetFuncOffsets, GetFuncCookies, AttachBatch,
           Attached, Execute, vars
  <2> QED  BY <2>1 DEF Included, IncludedCookies, IncludedOffsets, ShouldIncludeSymbol
<1>0. CASE GetFuncSyms
  <2>1. /\ pc = "init"
        /\ UNCHANGED <<funcs, probes>>
        /\ \/ pc' = "failed" /\ todo' = {}
           \/ pc' = "loading" /\ todo' = Included
    BY <1>0 DEF GetFuncSyms, Included
  <2>2. FuncsIncluded'
    BY <1>a, <2>1 DEF FuncsIncluded, IncludedCookies
  <2> QED  BY <1>a, <2>1, <2>2 DEF OffsetsIncluded, CookiesDistinct
<1>1. CASE LoadSymbol
  <2>a. PICK s \in todo : \E offset \in Lookup(Name[s]) :
          /\ todo' = todo \ {s}
          /\ funcs' = [c \in DOMAIN funcs \cup {Hash[Name[s]]} |->
                         IF c = Hash[Name[s]] THEN [name |-> Name[s], offset |-> offset]
                                              ELSE funcs[c]]
    BY <1>1 DEF LoadSymbol
  <2>1. PICK offset \in Lookup(Name[s]) :
          /\ todo' = todo \ {s}
          /\ funcs' = [c \in DOMAIN funcs \cup {Hash[Name[s]]} |->
                         IF c = Hash[Name[s]] THEN [name |-> Name[s], offset |-> offset]
                                              ELSE funcs[c]]
    BY <2>a
  <2>2. /\ s \in Included
        /\ offset \in IncludedOffsets
        /\ pc = "loading" /\ pc' = "loading" /\ probes' = probes
    BY <1>1, <2>1 DEF LoadSymbol, Lookup, FuncsIncluded, IncludedOffsets
  <2>3. DOMAIN funcs' \cup {Hash[Name[u]] : u \in todo'}
          = DOMAIN funcs \cup {Hash[Name[u]] : u \in todo}
    BY <2>1
  <2>4. \A c \in DOMAIN funcs' :
          /\ \E u \in Included : funcs'[c].name = Name[u]
          /\ funcs'[c].offset \in IncludedOffsets
    BY <2>1, <2>2 DEF FuncsIncluded
  <2>5. FuncsIncluded'
    BY <1>a, <2>1, <2>2, <2>3, <2>4 DEF FuncsIncluded
  <2> QED  BY <1>a, <2>2, <2>5 DEF OffsetsIncluded, CookiesDistinct
<1>2. CASE GetFuncOffsets
  <2>1. PICK order \in Orders :
          offsets' = Padded([i \in 1 .. Count |-> funcs[order[i]].offset])
    BY <1>2 DEF GetFuncOffsets
  <2> DEFINE values == [i \in 1 .. Count |-> funcs[order[i]].offset]
  <2>2. values \in [1 .. Count -> IncludedOffsets]
    BY <2>1, OrderVisitsAll DEF FuncsIncluded
  <2>3. Count \in Nat
    BY CountType DEF AttachInv
  <2>a. offsets' = Padded(values)
    BY <2>1
  <2> HIDE DEF values
  <2>4. offsets' \in [1 .. 2 * Count -> IncludedOffsets \cup {0}]
    BY <2>a, <2>2, <2>3, PaddedSlice
  <2>5. \A i \in DOMAIN offsets' : offsets'[i] \in IncludedOffsets
    BY <2>4 DEF IncludedOffsets
  <2> QED  BY <1>2, <1>a, <2>5
           DEF GetFuncOffsets, FuncsIncluded, OffsetsIncluded, CookiesDistinct
<1>3. CASE GetFuncCookies
  <2>1. PICK order \in Orders : cookies' = Padded(order)
    BY <1>3 DEF GetFuncCookies
  <2>2. Count \in Nat /\ 0 \notin DOMAIN funcs
    BY CountType, SymbolsAssumption DEF AttachInv, TypeOK
  <2>3. CookiesDistinct'
    <3>1. /\ DOMAIN cookies' = 1 .. 2 * Count
          /\ \A i, j \in 1 .. 2 * Count : cookies'[i] = cookies'[j] /\ cookies'[i] # 0 => i = j
          /\ {cookies'[i] : i \in 1 .. 2 * Count} \ {0} = DOMAIN funcs
      BY <2>1, <2>2, PaddedOrder
    <3>2. funcs' = funcs
      BY <1>3 DEF GetFuncCookies
    <3> QED  BY <3>1, <3>2 DEF CookiesDistinct
  <2> QED  BY <1>3, <1>a, <2>3 DEF GetFuncCookies, FuncsIncluded, OffsetsIncluded
<1>4. CASE AttachBatch
  <2>1. \A p \in probes' : p \in probes \/ \E i \in DOMAIN offsets : p.offset = offsets[i]
    BY <1>4 DEF AttachBatch, Batch
  <2>2. OffsetsIncluded'
    BY <1>4, <1>a, <2>1 DEF AttachBatch, OffsetsIncluded
  <2> QED  BY <1>4, <1>a, <2>2 DEF AttachBatch, FuncsIncluded, CookiesDistinct
<1>5. CASE Attached
  BY <1>5, <1>a DEF Attached, FuncsIncluded, OffsetsIncluded, CookiesDistinct
<1>6. CASE Execute
  BY <1>6, <1>a DEF Execute, FuncsIncluded, OffsetsIncluded, CookiesDistinct
<1>7. CASE UNCHANGED vars
  BY <1>7, <1>a DEF vars, FuncsIncluded, OffsetsIncluded, CookiesDistinct
<1> QED  BY <1>0, <1>1, <1>2, <1>3, <1>4, <1>5, <1>6, <1>7 DEF Next

\* What is loaded, listed and attached is what the filter includes, each function
\* once, at every point of Init and attachProbe.
THEOREM LoadInvariant == Spec => []LoadInv
<1>1. Init => LoadInv
  BY DEF Init, LoadInv, FuncsIncluded, OffsetsIncluded, CookiesDistinct, OffsetsMade,
         CookiesMade
<1> QED  BY <1>1, NextLoad, AttachInvariant, PTL DEF Spec

\* For any patterns given on the command line: the map has an entry for every
\* selected function and no other, and no probe stands in another function.
THEOREM OnlySelected == Spec => []FilterHonoured
<1>1. LoadInv => FilterHonoured
  <2> SUFFICES ASSUME LoadInv, OffsetsMade,
                      filter.bindInclude = {NoFilter}, filter.bindExclude = {}
               PROVE  /\ DOMAIN funcs = {Hash[n] : n \in Selected}
                      /\ \A c \in DOMAIN funcs : funcs[c].name \in Selected
                      /\ \A p \in probes :
                           p.offset \in {0} \cup {Address[n] : n \in Selected}
    BY DEF FilterHonoured
  <2>1. Included = {s \in FuncSyms :
                      /\ Name[s] \notin filter.exclude
                      /\ filter.include # {NoFilter} => Name[s] \in filter.include}
    BY SymbolsAssumption DEF Included, ShouldIncludeSymbol
  <2>2. Selected = {Name[s] : s \in Included}
    BY <2>1 DEF Selected
  <2>3. DOMAIN funcs = IncludedCookies
    BY DEF LoadInv, FuncsIncluded, OffsetsMade
  <2> QED  BY <2>2, <2>3
           DEF LoadInv, FuncsIncluded, OffsetsIncluded, IncludedCookies, IncludedOffsets
<1> QED  BY <1>1, LoadInvariant, PTL

----------------------------------------------------------------------------
(* The refinement.                                                         *)

\* What attachProbe has attached, in the terms of Attachment.
AttachedCookies == {p.cookie : p \in probes} \ {0}

\* The batch of one round, without the zeros.
BatchCookies == {cookies[i] : i \in Batch} \ {0}

\* A round tries the cookies of its batch, and leaves those of the others.
LEMMA RoundUntried ==
  ASSUME AttachInv, LoadInv, AttachBatch
  PROVE  BatchCookies \subseteq Untried /\ Untried' = Untried \ BatchCookies
<1>1. DOMAIN cookies = 1 .. 2 * Count /\ DOMAIN offsets = DOMAIN cookies
  BY DEF AttachInv, TypeOK, AttachBatch, OffsetsMade, CookiesMade
<1>2. /\ Untried = {cookies[i] : i \in {j \in DOMAIN cookies : next <= j}} \ {0}
      /\ Untried' = {cookies[i] : i \in {j \in DOMAIN cookies : next + BatchSize <= j}} \ {0}
  BY DEF Untried, AttachBatch, CookiesMade
<1>3. Batch = {j \in DOMAIN cookies : next <= j /\ j < next + BatchSize}
  BY <1>1 DEF Batch
<1>4. next \in Nat /\ BatchSize \in Nat /\ Count \in Nat
  BY SymbolsAssumption, CountType DEF AttachInv, TypeOK
<1>5. \A i, j \in DOMAIN cookies : cookies[i] = cookies[j] /\ cookies[i] # 0 => i = j
  BY DEF LoadInv, CookiesDistinct, AttachBatch, CookiesMade
<1>6. \A j \in DOMAIN cookies :
        /\ next <= j <=> j \in Batch \/ next + BatchSize <= j
        /\ ~(j \in Batch /\ next + BatchSize <= j)
  BY <1>1, <1>3, <1>4
<1>7. BatchCookies \subseteq Untried
  BY <1>2, <1>3 DEF BatchCookies
<1>8. Untried' \subseteq Untried \ BatchCookies
  BY <1>2, <1>3, <1>5, <1>6 DEF BatchCookies
<1>9. Untried \ BatchCookies \subseteq Untried'
  BY <1>2, <1>3, <1>6 DEF BatchCookies
<1> QED  BY <1>7, <1>8, <1>9

\* Each step is a step of Attachment or leaves its variables alone.
LEMMA StepSimulation ==
  AttachInv /\ LoadInv /\ LoadInv' /\ [Next]_vars => [Abstract!Next]_(Abstract!vars)
<1> SUFFICES ASSUME AttachInv, LoadInv, LoadInv', [Next]_vars
             PROVE  [Abstract!Next]_(Abstract!vars)
  OBVIOUS
<1> USE DEF Abstract!vars
<1>a. filter' = filter => IncludedCookies' = IncludedCookies
  BY DEF IncludedCookies, Included, ShouldIncludeSymbol
<1>b. ~CookiesMade => Untried = IncludedCookies
  BY DEF Untried, IncludedCookies, Included
<1>c. ~CookiesMade' => Untried' = IncludedCookies'
  BY DEF Untried, IncludedCookies, Included
<1>d. (pc = "tracing")' <=> pc' = "tracing"
  OBVIOUS
<1>1. CASE GetFuncSyms \/ LoadSymbol \/ GetFuncOffsets
  <2>1. filter' = filter /\ ~CookiesMade /\ ~CookiesMade' /\ probes' = probes
    BY <1>1 DEF GetFuncSyms, LoadSymbol, GetFuncOffsets, CookiesMade
  <2>2. Untried' = Untried
    BY <1>a, <1>b, <1>c, <2>1
  <2> QED  BY <2>1, <2>2 DEF CookiesMade
<1>2. CASE GetFuncCookies
  <2>1. /\ pc = "offsets" /\ pc' = "attaching" /\ next' = next
        /\ UNCHANGED <<filter, funcs, todo, probes>>
    BY <1>2 DEF GetFuncCookies
  <2>2. Untried = DOMAIN funcs
    BY <1>b, <2>1 DEF LoadInv, FuncsIncluded, OffsetsMade, CookiesMade
  <2>3. next' = 1 /\ cookies' \in [1 .. 2 * Count' -> Range(Hash) \cup {0}]
    BY <2>1, NextAttach DEF AttachInv, PrefixAttached, TypeOK, OffsetsMade, CookiesMade
  <2>4. {j \in DOMAIN cookies' : next' <= j} = DOMAIN cookies'
    BY <2>3
  <2>5. Untried' = {cookies'[i] : i \in DOMAIN cookies'} \ {0}
    BY <2>1, <2>4 DEF Untried, CookiesMade
  <2>6. Untried' = DOMAIN funcs
    BY <2>1, <2>5 DEF LoadInv, CookiesDistinct, CookiesMade
  <2> QED  BY <2>1, <2>2, <2>6
<1>3. CASE AttachBatch
  <2>1. pc = "attaching" /\ pc' = "attaching"
    BY <1>3 DEF AttachBatch
  <2>2. BatchCookies \in SUBSET Untried /\ Untried' = Untried \ BatchCookies
    BY <1>3, RoundUntried
  <2>3. AttachedCookies' \in {AttachedCookies, AttachedCookies \cup BatchCookies}
    <3> DEFINE pair(i) == [offset |-> offsets[i], cookie |-> cookies[i]]
    <3>1. \/ probes' = probes
          \/ probes' = probes \cup {pair(i) : i \in Batch}
      BY <1>3 DEF AttachBatch
    <3>2. \A i : pair(i).cookie = cookies[i]
      OBVIOUS
    <3> HIDE DEF pair
    <3>3. {p.cookie : p \in probes \cup {pair(i) : i \in Batch}}
            = {p.cookie : p \in probes} \cup {cookies[i] : i \in Batch}
      BY <3>2
    <3> QED  BY <3>1, <3>3 DEF AttachedCookies, BatchCookies
  <2>4. Abstract!Attach
    BY <2>1, <2>2, <2>3 DEF Abstract!Attach, AttachedCookies
  <2> QED  BY <2>4 DEF Abstract!Next
<1>4. CASE Attached
  <2>1. /\ pc = "attaching" /\ pc' = "tracing" /\ next > 2 * Count
        /\ UNCHANGED <<filter, cookies, next, probes>>
    BY <1>4 DEF Attached
  <2>2. Untried' = Untried
    BY <2>1 DEF Untried, CookiesMade
  <2>3. DOMAIN cookies = 1 .. 2 * Count /\ Count \in Nat /\ next \in Nat
    BY <2>1, CountType DEF AttachInv, TypeOK, OffsetsMade, CookiesMade
  <2>4. Untried = {}
    BY <2>1, <2>3 DEF Untried, CookiesMade
  <2>5. Abstract!Finish
    BY <2>1, <2>2, <2>4 DEF Abstract!Finish
  <2> QED  BY <2>5 DEF Abstract!Next
<1>5. CASE Execute \/ UNCHANGED vars
  <2>1. UNCHANGED <<filter, pc, cookies, next, probes>>
    BY <1>5 DEF Execute, vars
  <2>2. Untried' = Untried
    BY <2>1 DEF Untried, CookiesMade, ShouldIncludeSymbol
  <2> QED  BY <2>1, <2>2
<1> QED  BY <1>1, <1>2, <1>3, <1>4, <1>5 DEF Next

\* attachProbe does what Attachment promises: each selected function is tried in
\* one batch and no other, a batch gets its probes as a whole or not at all, and
\* the loop ends when all were tried, for any batch size and any orders.
THEOREM Implementation == Spec => ImplementsAttachment
<1>1. Init => Abstract!Init
  <2> SUFFICES ASSUME Init
               PROVE  Abstract!Init
    OBVIOUS
  <2>1. Untried = IncludedCookies /\ IncludedCookies \subseteq Range(Hash)
    BY SymbolsAssumption
       DEF Init, Untried, CookiesMade, IncludedCookies, Included, Range
  <2> QED  BY <2>1 DEF Init, Abstract!Init
<1> QED  BY <1>1, StepSimulation, AttachInvariant, LoadInvariant, PTL
         DEF Spec, ImplementsAttachment, Abstract!Spec

----------------------------------------------------------------------------
(* The number of functions reported.                                       *)

\* What attachProbe attaches at one index of the two slices.
Pair(i) == [offset |-> offsets[i], cookie |-> cookies[i]]

\* The indexes whose pair was due in a batch and is not attached.
Missing == {i \in DOMAIN offsets : i < next /\ Pair(i) \notin probes}

\* Each function has an index of its own in the slice of offsets, and an index
\* of no function is one of the zeros in front.
OffsetsListed ==
  OffsetsMade =>
    \E at \in [DOMAIN funcs -> DOMAIN offsets] :
      /\ \A c, d \in DOMAIN funcs : at[c] = at[d] => c = d
      /\ \A c \in DOMAIN funcs : offsets[at[c]] = funcs[c].offset
      /\ \A i \in DOMAIN offsets : offsets[i] # 0 => \E c \in DOMAIN funcs : at[c] = i

\* Only pairs are attached, and a failed batch misses at most BatchSize of them.
ProbesArePairs ==
  /\ ~CookiesMade => probes = {} /\ failed = 0
  /\ CookiesMade =>
       /\ \A p \in probes : \E i \in DOMAIN offsets : p = Pair(i)
       /\ Cardinality(Missing) <= failed * BatchSize

\* The cookies reported are those attached at the offsets entered.
AckedOfProbes ==
  /\ acked = {p.cookie : p \in {q \in probes : q.offset \in entered}}
  /\ pc # "tracing" => entered = {}

CountInv == OffsetsListed /\ ProbesArePairs /\ AckedOfProbes

\* The slice of offsets lists what its order of iteration visits.
LEMMA OffsetsMadeListed ==
  ASSUME AttachInv, GetFuncOffsets
  PROVE  OffsetsListed'
<1>a. Count \in Nat
  BY CountType DEF AttachInv
<1>1. PICK order \in Orders :
        offsets' = Padded([i \in 1 .. Count |-> funcs[order[i]].offset])
  BY DEF GetFuncOffsets
<1> DEFINE values == [i \in 1 .. Count |-> funcs[order[i]].offset]
<1>2. /\ order \in [1 .. Count -> DOMAIN funcs]
      /\ \A c \in DOMAIN funcs : \E k \in 1 .. Count : order[k] = c
  BY <1>1, OrderVisitsAll
<1>3. values \in [1 .. Count -> Range(Address) \cup {0}]
  BY <1>2 DEF AttachInv, TypeOK, Function
<1>4. \A k \in 1 .. Count : values[k] = funcs[order[k]].offset
  OBVIOUS
<1>5. offsets' = Padded(values)
  BY <1>1
<1> HIDE DEF values
<1>6. /\ offsets' \in [1 .. 2 * Count -> Range(Address) \cup {0}]
      /\ \A i \in 1 .. 2 * Count :
           offsets'[i] = IF i <= Count THEN 0 ELSE values[i - Count]
      /\ \A k \in 1 .. Count :
           k + Count \in 1 .. 2 * Count /\ offsets'[k + Count] = values[k]
  <2>1. Range(Address) \cup {0} = (Range(Address) \cup {0}) \cup {0}
    OBVIOUS
  <2> QED  BY <1>a, <1>3, <1>5, <2>1, PaddedSlice
<1>7. DOMAIN offsets' = 1 .. 2 * Count /\ funcs' = funcs
  BY <1>6 DEF GetFuncOffsets
<1> PICK place : place = [c \in DOMAIN funcs |-> CHOOSE k \in 1 .. Count : order[k] = c]
  OBVIOUS
<1>8. \A c \in DOMAIN funcs : place[c] \in 1 .. Count /\ order[place[c]] = c
  BY <1>2
<1> PICK at : at = [c \in DOMAIN funcs |-> place[c] + Count]
  OBVIOUS
<1>9. \A c \in DOMAIN funcs : at[c] = place[c] + Count
  OBVIOUS
<1>10. at \in [DOMAIN funcs -> 1 .. 2 * Count]
  BY <1>6, <1>8
<1>11. \A c, d \in DOMAIN funcs : at[c] = at[d] => c = d
  BY <1>a, <1>8, <1>9
<1>12. \A c \in DOMAIN funcs : offsets'[at[c]] = funcs[c].offset
  BY <1>4, <1>6, <1>8, <1>9
<1>13. ASSUME NEW i \in 1 .. 2 * Count, offsets'[i] # 0
       PROVE  \E c \in DOMAIN funcs : at[c] = i
  <2>1. i > Count
    BY <1>a, <1>6, <1>13
  <2>2. i - Count \in 1 .. Count
    BY <1>a, <2>1
  <2> DEFINE c == order[i - Count]
  <2>3. c \in DOMAIN funcs
    BY <1>2, <2>2
  <2>4. order[place[c]] = order[i - Count] /\ place[c] \in 1 .. Count
    BY <1>8, <2>3
  <2>5. \A k, l \in 1 .. Count : order[k] = order[l] => k = l
    BY DEF Orders, Bijection, Injection, IsInjective
  <2>6. place[c] = i - Count
    BY <2>2, <2>4, <2>5
  <2> HIDE DEF c
  <2>7. at[c] = place[c] + Count
    BY <1>9, <2>3
  <2>8. at[c] = i
    BY <1>a, <2>6, <2>7
  <2> QED  BY <2>3, <2>8
<1>14. /\ at \in [DOMAIN funcs' -> DOMAIN offsets']
       /\ \A c, d \in DOMAIN funcs' : at[c] = at[d] => c = d
       /\ \A c \in DOMAIN funcs' : offsets'[at[c]] = funcs'[c].offset
       /\ \A i \in DOMAIN offsets' : offsets'[i] # 0 => \E c \in DOMAIN funcs' : at[c] = i
  BY <1>7, <1>10, <1>11, <1>12, <1>13
<1> QED  BY <1>14 DEF OffsetsListed

\* The size of a batch.
LEMMA BatchBound ==
  ASSUME AttachInv, OffsetsMade
  PROVE  /\ IsFiniteSet(Batch) /\ Cardinality(Batch) \in Nat
         /\ Cardinality(Batch) <= BatchSize
<1>1. next \in Nat /\ BatchSize \in Nat \ {0}
  BY SymbolsAssumption DEF AttachInv, TypeOK
<1>2. DOMAIN offsets = 1 .. 2 * Count /\ Count \in Nat
  BY CountType DEF AttachInv, TypeOK
<1> DEFINE window == next .. (next + BatchSize - 1)
<1>3. IsFiniteSet(window) /\ Cardinality(window) = BatchSize
  BY <1>1, FS_Interval
<1>4. Batch \in SUBSET window
  BY <1>1, <1>2 DEF Batch
<1> HIDE DEF window
<1> QED  BY <1>3, <1>4, FS_Subset, FS_CardinalityType

\* A round of attachProbe adds its batch to the missing pairs at most.
LEMMA RoundMissing ==
  ASSUME AttachInv, CountInv, AttachBatch
  PROVE  ProbesArePairs'
<1>1. /\ pc = "attaching" /\ pc' = "attaching"
      /\ UNCHANGED <<funcs, offsets, cookies>>
      /\ next' = next + BatchSize
      /\ \/ probes' = probes \cup {Pair(i) : i \in Batch} /\ failed' = failed
         \/ probes' = probes /\ failed' = failed + 1
  BY DEF AttachBatch, Pair
<1>2. CookiesMade /\ CookiesMade' /\ OffsetsMade
  BY <1>1 DEF CookiesMade, OffsetsMade
<1>3. \A i \in DOMAIN offsets : Pair(i)' = Pair(i)
  BY <1>1 DEF Pair
<1>4. \A p \in probes' : \E i \in DOMAIN offsets' : p = Pair(i)'
  <2>1. Batch \subseteq DOMAIN offsets
    BY DEF Batch
  <2>2. \A p \in probes' : \E i \in DOMAIN offsets : p = Pair(i)
    BY <1>1, <1>2, <2>1 DEF CountInv, ProbesArePairs
  <2> QED  BY <1>1, <1>3, <2>2
<1>5. /\ next \in Nat /\ BatchSize \in Nat /\ failed \in Nat /\ Count \in Nat
      /\ DOMAIN offsets = 1 .. 2 * Count
  BY <1>2, SymbolsAssumption, CountType DEF AttachInv, TypeOK
<1>6. \A i \in DOMAIN offsets : i < next' => i < next \/ i \in Batch
  BY <1>1, <1>5 DEF Batch
<1>7. Missing' = {i \in DOMAIN offsets : i < next' /\ Pair(i) \notin probes'}
  BY <1>1, <1>3 DEF Missing
<1>8. IsFiniteSet(Missing) /\ Cardinality(Missing) \in Nat
  <2>1. IsFiniteSet(1 .. 2 * Count)
    BY <1>5, FS_Interval
  <2>2. Missing \in SUBSET (1 .. 2 * Count)
    BY <1>5 DEF Missing
  <2> QED  BY <2>1, <2>2, FS_Subset, FS_CardinalityType
<1>9. Cardinality(Missing) <= failed * BatchSize
  BY <1>2 DEF CountInv, ProbesArePairs
<1>10. Cardinality(Missing') <= failed' * BatchSize
  <2>1. CASE probes' = probes \cup {Pair(i) : i \in Batch} /\ failed' = failed
    <3>1. Missing' \in SUBSET Missing
      BY <1>6, <1>7, <2>1 DEF Missing
    <3>2. Cardinality(Missing') <= Cardinality(Missing) /\ Cardinality(Missing') \in Nat
      BY <1>8, <3>1, FS_Subset, FS_CardinalityType
    <3>3. failed * BatchSize \in Nat /\ failed' * BatchSize = failed * BatchSize
      BY <1>5, <2>1
    <3> QED  BY <1>8, <1>9, <3>2, <3>3
  <2>2. CASE probes' = probes /\ failed' = failed + 1
    <3>1. Missing' \in SUBSET (Missing \cup Batch)
      BY <1>6, <1>7, <2>2 DEF Missing
    <3>2. IsFiniteSet(Batch) /\ Cardinality(Batch) \in Nat /\ Cardinality(Batch) <= BatchSize
      BY <1>2, BatchBound
    <3>3. /\ IsFiniteSet(Missing \cup Batch)
          /\ Cardinality(Missing \cup Batch)
               = Cardinality(Missing) + Cardinality(Batch) - Cardinality(Missing \cap Batch)
      BY <1>8, <3>2, FS_Union
    <3>4. Cardinality(Missing \cap Batch) \in Nat /\ Cardinality(Missing \cup Batch) \in Nat
      BY <1>8, <3>3, FS_Intersection, FS_CardinalityType
    <3>5. Cardinality(Missing') <= Cardinality(Missing \cup Batch)
          /\ Cardinality(Missing') \in Nat
      BY <3>1, <3>3, FS_Subset, FS_CardinalityType
    <3>6. failed * BatchSize \in Nat /\ failed' * BatchSize = failed * BatchSize + BatchSize
      BY <1>5, <2>2
    <3> QED  BY <1>5, <1>8, <1>9, <3>2, <3>3, <3>4, <3>5, <3>6
  <2> QED  BY <1>1, <2>1, <2>2
<1> QED  BY <1>2, <1>4, <1>10 DEF ProbesArePairs

\* Every step keeps the invariant.
LEMMA NextCount == AttachInv /\ CountInv /\ [Next]_vars => CountInv'
<1> SUFFICES ASSUME AttachInv, CountInv, [Next]_vars
             PROVE  CountInv'
  OBVIOUS
<1>1. CASE GetFuncSyms \/ LoadSymbol
  <2>1. /\ ~OffsetsMade' /\ ~CookiesMade' /\ ~CookiesMade /\ pc' # "tracing"
        /\ pc # "tracing"
        /\ UNCHANGED <<probes, failed, acked, entered>>
    BY <1>1 DEF GetFuncSyms, LoadSymbol, OffsetsMade, CookiesMade
  <2> QED  BY <2>1 DEF CountInv, OffsetsListed, ProbesArePairs, AckedOfProbes
<1>2. CASE GetFuncOffsets
  <2>1. /\ ~CookiesMade' /\ ~CookiesMade /\ pc' # "tracing" /\ pc # "tracing"
        /\ UNCHANGED <<probes, failed, acked, entered>>
    BY <1>2 DEF GetFuncOffsets, CookiesMade
  <2>2. OffsetsListed'
    BY <1>2, OffsetsMadeListed
  <2> QED  BY <2>1, <2>2 DEF CountInv, ProbesArePairs, AckedOfProbes
<1>3. CASE GetFuncCookies
  <2>1. /\ ~CookiesMade /\ OffsetsMade /\ OffsetsMade' /\ pc' # "tracing"
        /\ pc # "tracing"
        /\ UNCHANGED <<funcs, offsets, next, probes, failed, acked, entered>>
    BY <1>3 DEF GetFuncCookies, CookiesMade, OffsetsMade
  <2>2. next = 1 /\ probes = {} /\ failed = 0
    BY <2>1 DEF AttachInv, PrefixAttached, CountInv, ProbesArePairs
  <2>3. DOMAIN offsets = 1 .. 2 * Count
    BY <2>1 DEF AttachInv, TypeOK
  <2>4. Missing' = {}
    BY <2>1, <2>2, <2>3 DEF Missing
  <2>5. Cardinality(Missing') <= failed' * BatchSize
    BY <2>1, <2>2, <2>4, FS_EmptySet, SymbolsAssumption
  <2>6. ProbesArePairs'
    BY <2>1, <2>2, <2>5 DEF ProbesArePairs
  <2> QED  BY <2>1, <2>6 DEF CountInv, OffsetsListed, AckedOfProbes
<1>4. CASE AttachBatch
  <2>1. /\ OffsetsMade /\ OffsetsMade' /\ pc' # "tracing" /\ pc # "tracing"
        /\ UNCHANGED <<funcs, offsets, acked, entered>>
    BY <1>4 DEF AttachBatch, OffsetsMade
  <2>2. entered = {} /\ acked = {}
    BY <2>1 DEF CountInv, AckedOfProbes
  <2>3. AckedOfProbes'
    BY <2>1, <2>2 DEF AckedOfProbes
  <2> QED  BY <1>4, <2>1, <2>3, RoundMissing DEF CountInv, OffsetsListed
<1>5. CASE Attached
  <2>1. /\ OffsetsMade /\ OffsetsMade' /\ CookiesMade /\ CookiesMade' /\ pc # "tracing"
        /\ UNCHANGED <<funcs, offsets, cookies, next, probes, failed, acked, entered>>
    BY <1>5 DEF Attached, OffsetsMade, CookiesMade
  <2>2. Missing' = Missing
    BY <2>1 DEF Missing, Pair
  <2> QED  BY <2>1, <2>2 DEF CountInv, OffsetsListed, ProbesArePairs, AckedOfProbes, Pair
<1>6. CASE Execute
  <2>1. /\ OffsetsMade /\ OffsetsMade' /\ CookiesMade /\ CookiesMade' /\ pc' = "tracing"
        /\ UNCHANGED <<funcs, offsets, cookies, next, probes, failed>>
    BY <1>6 DEF Execute, OffsetsMade, CookiesMade
  <2>2. Missing' = Missing
    BY <2>1 DEF Missing, Pair
  <2>3. PICK address \in Range(Address) :
          /\ entered' = entered \cup {address}
          /\ acked' = acked \cup {p.cookie : p \in {q \in probes : q.offset = address}}
    BY <1>6 DEF Execute
  <2>4. acked' = {p.cookie : p \in {q \in probes' : q.offset \in entered'}}
    BY <2>1, <2>3 DEF CountInv, AckedOfProbes
  <2> QED  BY <2>1, <2>2, <2>4
           DEF CountInv, OffsetsListed, ProbesArePairs, AckedOfProbes, Pair
<1>7. CASE UNCHANGED vars
  <2>1. UNCHANGED <<pc, funcs, offsets, cookies, next, probes, failed, acked, entered>>
    BY <1>7 DEF vars
  <2>2. Missing' = Missing
    BY <2>1 DEF Missing, Pair
  <2> QED  BY <2>1, <2>2 DEF CountInv, OffsetsListed, ProbesArePairs, AckedOfProbes,
                             Pair, OffsetsMade, CookiesMade
<1> QED  BY <1>1, <1>2, <1>3, <1>4, <1>5, <1>6, <1>7 DEF Next


\* The invariant behind the number of functions the report gives.
LEMMA CountInvariant == Spec => []CountInv
<1>1. Init => CountInv
  BY DEF Init, CountInv, OffsetsListed, ProbesArePairs, AckedOfProbes, OffsetsMade,
         CookiesMade
<1> QED  BY <1>1, NextCount, AttachInvariant, PTL DEF Spec

\* The indexes of the slice of offsets whose offset was entered.
EnteredAt == {i \in DOMAIN offsets : offsets[i] \in entered}

\* As many as functions are due: the zeros were not entered, since no function
\* is at the offset 0.
LEMMA DueByIndex ==
  ASSUME AttachInv, CountInv, pc = "tracing"
  PROVE  /\ IsFiniteSet(EnteredAt) /\ IsFiniteSet(Due)
         /\ Cardinality(Due) = Cardinality(EnteredAt)
<1>1. OffsetsMade /\ DOMAIN offsets = 1 .. 2 * Count /\ Count \in Nat
  BY CountType DEF AttachInv, TypeOK, OffsetsMade
<1>2. \A a \in entered : a # 0
  BY SymbolsAssumption DEF AttachInv, TypeOK
<1>3. IsFiniteSet(Due)
  <2>1. Due \in SUBSET DOMAIN funcs
    BY DEF Due
  <2> QED  BY <2>1, FS_Subset DEF AttachInv
<1>4. PICK at \in [DOMAIN funcs -> DOMAIN offsets] :
        /\ \A c, d \in DOMAIN funcs : at[c] = at[d] => c = d
        /\ \A c \in DOMAIN funcs : offsets[at[c]] = funcs[c].offset
        /\ \A i \in DOMAIN offsets : offsets[i] # 0 => \E c \in DOMAIN funcs : at[c] = i
  BY <1>1 DEF CountInv, OffsetsListed
<1> DEFINE f == [c \in Due |-> at[c]]
<1>5. f \in [Due -> EnteredAt]
  BY <1>4 DEF Due, EnteredAt
<1>6. \A c, d \in Due : f[c] = f[d] => c = d
  BY <1>4 DEF Due
<1>7. \A i \in EnteredAt : \E c \in Due : f[c] = i
  <2> SUFFICES ASSUME NEW i \in EnteredAt
               PROVE  \E c \in Due : f[c] = i
    OBVIOUS
  <2>1. i \in DOMAIN offsets /\ offsets[i] \in entered /\ offsets[i] # 0
    BY <1>2 DEF EnteredAt
  <2>2. PICK c \in DOMAIN funcs : at[c] = i
    BY <1>4, <2>1
  <2>3. c \in Due
    BY <1>4, <2>1, <2>2 DEF Due
  <2> QED  BY <2>2, <2>3
<1>8. f \in Bijection(Due, EnteredAt)
  <2> HIDE DEF f
  <2> QED  BY <1>5, <1>6, <1>7
           DEF Bijection, Injection, Surjection, IsInjective, Range
<1> HIDE DEF f
<1>9. ExistsBijection(Due, EnteredAt)
  BY <1>8 DEF ExistsBijection
<1> QED  BY <1>3, <1>9, FS_Bijection

\* As many functions are acknowledged as entered indexes have their pair attached:
\* no two of them report one cookie.
LEMMA AckedByIndex ==
  ASSUME AttachInv, LoadInv, CountInv, pc = "tracing"
  PROVE  /\ IsFiniteSet(EnteredAt \ Missing)
         /\ Cardinality(acked) = Cardinality(EnteredAt \ Missing)
<1>1. /\ OffsetsMade /\ CookiesMade /\ Count \in Nat /\ next \in Nat
      /\ DOMAIN offsets = 1 .. 2 * Count /\ DOMAIN cookies = 1 .. 2 * Count
      /\ next > 2 * Count
  BY CountType DEF AttachInv, TypeOK, OffsetsMade, CookiesMade, PrefixAttached
<1>2. \A i \in DOMAIN offsets : i < next
  BY <1>1
<1>3. IsFiniteSet(EnteredAt \ Missing)
  BY DueByIndex, FS_Difference
<1> DEFINE live == EnteredAt \ Missing
<1>4. \A i \in live : /\ i \in DOMAIN offsets
                      /\ offsets[i] \in entered
                      /\ Pair(i) \in probes
  BY <1>2 DEF EnteredAt, Missing
<1>5. \A i : Pair(i).offset = offsets[i] /\ Pair(i).cookie = cookies[i]
  BY DEF Pair
<1>6. acked = {p.cookie : p \in {q \in probes : q.offset \in entered}}
  BY DEF CountInv, AckedOfProbes
<1>7. \A i \in live : cookies[i] \in acked /\ cookies[i] # 0
  <2> SUFFICES ASSUME NEW i \in live
               PROVE  cookies[i] \in acked /\ cookies[i] # 0
    OBVIOUS
  <2>1. Pair(i) \in probes /\ Pair(i).offset \in entered /\ Pair(i).cookie = cookies[i]
    BY <1>4, <1>5
  <2>2. cookies[i] \in acked
    BY <1>6, <2>1
  <2>3. 0 \notin acked
    BY SymbolsAssumption DEF AttachInv, TypeOK
  <2> QED  BY <2>2, <2>3
<1>8. \A c \in acked : \E i \in live : cookies[i] = c
  <2> SUFFICES ASSUME NEW c \in acked
               PROVE  \E i \in live : cookies[i] = c
    OBVIOUS
  <2>1. PICK p \in probes : p.offset \in entered /\ p.cookie = c
    BY <1>6
  <2>2. PICK i \in DOMAIN offsets : p = Pair(i)
    BY <1>1, <2>1 DEF CountInv, ProbesArePairs
  <2>3. i \in live
    BY <1>5, <2>1, <2>2 DEF EnteredAt, Missing
  <2> QED  BY <1>5, <2>1, <2>2, <2>3
<1>9. \A i, j \in live : cookies[i] = cookies[j] => i = j
  BY <1>1, <1>4, <1>7 DEF LoadInv, CookiesDistinct
<1> DEFINE f == [i \in live |-> cookies[i]]
<1> HIDE DEF live
<1>10. /\ f \in [live -> acked]
       /\ \A i, j \in live : f[i] = f[j] => i = j
       /\ \A c \in acked : \E i \in live : f[i] = c
  BY <1>7, <1>8, <1>9
<1> HIDE DEF f
<1>11. f \in Bijection(live, acked)
  BY <1>10 DEF Bijection, Injection, Surjection, IsInjective, Range
<1>12. ExistsBijection(live, acked)
  BY <1>11 DEF ExistsBijection
<1> QED  BY <1>3, <1>12, FS_Bijection DEF live

\* The number of functions the report gives is the number of functions entered,
\* less at most BatchSize for each failed batch, for any symbols, hashes that may
\* collide, aliases, orders of iteration and batch size: offsets and cookies are
\* paired wrongly, but one to one.
THEOREM CountIsRight == Spec => []CountPreserved
<1>1. AttachInv /\ LoadInv /\ CountInv => CountPreserved
  <2> SUFFICES ASSUME AttachInv, LoadInv, CountInv, pc = "tracing"
               PROVE  /\ Cardinality(acked) <= Cardinality(Due)
                      /\ Cardinality(Due) <= Cardinality(acked) + failed * BatchSize
    BY DEF CountPreserved
  <2>1. /\ IsFiniteSet(EnteredAt) /\ Cardinality(EnteredAt) \in Nat
        /\ Cardinality(Due) = Cardinality(EnteredAt)
    BY DueByIndex, FS_CardinalityType
  <2>2. Cardinality(acked) = Cardinality(EnteredAt \ Missing)
    BY AckedByIndex
  <2>3. /\ Cardinality(EnteredAt \ Missing)
             = Cardinality(EnteredAt) - Cardinality(EnteredAt \cap Missing)
        /\ Cardinality(EnteredAt \cap Missing) \in Nat
    BY <2>1, FS_Difference, FS_Intersection, FS_CardinalityType
  <2>4. CookiesMade /\ DOMAIN offsets = 1 .. 2 * Count /\ Count \in Nat
    BY CountType DEF AttachInv, TypeOK, OffsetsMade, CookiesMade
  <2>5. IsFiniteSet(Missing) /\ Cardinality(Missing) \in Nat
    <3>1. IsFiniteSet(1 .. 2 * Count)
      BY <2>4, FS_Interval
    <3>2. Missing \in SUBSET (1 .. 2 * Count)
      BY <2>4 DEF Missing
    <3> QED  BY <3>1, <3>2, FS_Subset, FS_CardinalityType
  <2>6. Cardinality(EnteredAt \cap Missing) <= Cardinality(Missing)
    <3>1. EnteredAt \cap Missing \in SUBSET Missing
      OBVIOUS
    <3> QED  BY <2>5, <3>1, FS_Subset
  <2>7. Cardinality(Missing) <= failed * BatchSize /\ failed * BatchSize \in Nat
    BY <2>4, SymbolsAssumption DEF CountInv, ProbesArePairs, AttachInv, TypeOK
  <2> QED  BY <2>1, <2>2, <2>3, <2>5, <2>6, <2>7
<1> QED  BY <1>1, AttachInvariant, LoadInvariant, CountInvariant, PTL

=============================================================================
