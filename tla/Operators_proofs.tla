-------------------------- MODULE Operators_proofs --------------------------
(***************************************************************************)
(* Proofs about the pure functions, for catalogues, snapshots and payloads *)
(* of any size.  The library's induction theorems take operators, which    *)
(* the provers cannot instantiate: induction is done on sets of numbers    *)
(* instead (NatSetInduction), and the recursive functions of the models    *)
(* are shown to exist before anything is said about them.                  *)
(***************************************************************************)
EXTENDS Operators, FiniteSetTheorems, SequenceTheorems, WellFoundedInduction, TLAPS

-----------------------------------------------------------------------------
(* Numbers.                                                                *)

\* A non-empty set of natural numbers has a least element.
LEMMA LeastExists ==
    ASSUME NEW S \in SUBSET Nat, S # {}
    PROVE  \E x \in S : \A y \in S : x <= y
<1> DEFINE Less == {ss \in Nat \X Nat : ss[1] < ss[2]}
<1>1. IsWellFoundedOn(Less, Nat)
  BY NatLessThanWellFounded, Zenon DEF OpToRel
<1>2. \A x, y \in Nat : ~(<<y, x>> \in Less) => x <= y
  OBVIOUS
<1> HIDE DEF Less
<1>3. \E x \in S : \A y \in S : ~(<<y, x>> \in Less)
  BY <1>1, WFMin
<1> QED
  BY <1>2, <1>3

\* Induction over the natural numbers, for a set.
LEMMA NatSetInduction ==
    ASSUME NEW T, 0 \in T, \A n \in Nat : n \in T => n + 1 \in T
    PROVE  Nat \subseteq T
<1> SUFFICES ASSUME Nat \ T # {} PROVE FALSE
  OBVIOUS
<1>1. PICK m \in Nat \ T : \A k \in Nat \ T : m <= k
  BY LeastExists
<1>2. m # 0 /\ m - 1 \in Nat /\ m - 1 \in T
  BY <1>1
<1> QED
  BY <1>1, <1>2

\* Min of a set of natural numbers is its least element.
LEMMA MinIsLeast ==
    ASSUME NEW S \in SUBSET Nat, S # {}
    PROVE  Min(S) \in S /\ \A y \in S : Min(S) <= y
  BY LeastExists DEF Min

\* Max of a bounded set of natural numbers is its greatest element.
LEMMA MaxIsGreatest ==
    ASSUME NEW u \in Nat, NEW S \in SUBSET (0 .. u), S # {}
    PROVE  Max(S) \in S /\ \A y \in S : Max(S) >= y
<1> DEFINE R == {z \in Nat : u - z \in S}
<1>1. \A y \in S : u - y \in R
  <2> SUFFICES ASSUME NEW y \in S PROVE u - y \in R
    OBVIOUS
  <2>1. y \in 0 .. u /\ u - y \in Nat /\ u - (u - y) = y
    OBVIOUS
  <2> QED
    BY <2>1
<1>2. R # {}
  BY <1>1
<1>3. PICK z \in R : \A y \in R : z <= y
  BY <1>2, LeastExists
<1>4. u - z \in S /\ \A y \in S : u - z >= y
  BY <1>1, <1>3
<1> QED
  BY <1>4 DEF Max

\* Min and Max of two numbers.
LEMMA MinOfTwo ==
    ASSUME NEW a \in Int, NEW b \in Int
    PROVE  Min({a, b}) = IF a <= b THEN a ELSE b
  BY DEF Min

LEMMA MaxOfTwo ==
    ASSUME NEW a \in Int, NEW b \in Int
    PROVE  Max({a, b}) = IF a >= b THEN a ELSE b
  BY DEF Max

-----------------------------------------------------------------------------
(* The direct reads.                                                       *)

\* What a chunk is: a part of the range, of at most n indices.
IsChunk(r, lo, hi, n) ==
    /\ r \in [start : Int, end : Int]
    /\ lo <= r.start /\ r.start <= r.end /\ r.end <= hi
    /\ r.end - r.start < n

\* The recursive function behind _direct_fill_range_chunked exists: it can be extended
\* downwards from the end of the range.
LEMMA ChunksExist ==
    ASSUME NEW lo \in Nat, NEW hi \in Nat, NEW n \in Nat \ {0}
    PROVE  \E chunks : chunks = [a \in lo .. hi + 1 |->
              IF a > hi THEN {}
              ELSE LET b == Min({a + n - 1, hi}) IN {Request(a, b)} \cup chunks[b + 1]]
<1> DEFINE End(a) == Min({a + n - 1, hi})
           Body(f, a) == IF a > hi THEN {} ELSE {Request(a, End(a))} \cup f[End(a) + 1]
           T == {m \in Nat : \E f : \A a \in (hi + 1 - m) .. (hi + 1) : f[a] = Body(f, a)}
<1>1. \A a \in Int : a <= hi => End(a) \in a .. hi
  BY MinOfTwo
<1> HIDE DEF End
<1>2. 0 \in T
  <2> DEFINE f == [a \in (hi + 1) .. (hi + 1) |-> {}]
  <2>1. \A a \in (hi + 1 - 0) .. (hi + 1) : f[a] = Body(f, a)
    OBVIOUS
  <2> HIDE DEF f, Body
  <2> QED
    BY <2>1
<1>3. ASSUME NEW m \in Nat, m \in T PROVE m + 1 \in T
  <2>1. PICK f : \A a \in (hi + 1 - m) .. (hi + 1) : f[a] = Body(f, a)
    BY <1>3
  <2> DEFINE g == [a \in (hi - m) .. (hi + 1) |-> IF a = hi - m THEN Body(f, a) ELSE f[a]]
  <2>2. \A a \in (hi - m) .. (hi + 1) : Body(g, a) = Body(f, a)
    <3>1. \A a \in (hi + 1 - m) .. (hi + 1) : g[a] = f[a]
      OBVIOUS
    <3>2. \A a \in (hi - m) .. hi : End(a) + 1 \in (hi + 1 - m) .. (hi + 1)
      BY <1>1
    <3>3. \A a \in (hi - m) .. hi : g[End(a) + 1] = f[End(a) + 1]
      BY <3>1, <3>2
    <3> HIDE DEF g
    <3>4. ASSUME NEW a \in (hi - m) .. (hi + 1) PROVE Body(g, a) = Body(f, a)
      <4>1. CASE a > hi
        BY <4>1
      <4>2. CASE ~(a > hi)
        BY <3>3, <4>2
      <4> QED
        BY <4>1, <4>2
    <3> QED
      BY <3>4
  <2>3. \A a \in (hi - m) .. (hi + 1) : g[a] = Body(f, a)
    <3> HIDE DEF Body
    <3> QED
      BY <2>1
  <2>4. \A a \in (hi + 1 - (m + 1)) .. (hi + 1) : g[a] = Body(g, a)
    <3> HIDE DEF g, Body
    <3> QED
      BY <2>2, <2>3
  <2> HIDE DEF g, Body
  <2> QED
    BY <2>4
<1>4. Nat \subseteq T
  <2> HIDE DEF T
  <2> QED
    BY <1>2, <1>3, NatSetInduction
<1>5. PICK f : \A a \in lo .. (hi + 1) : f[a] = Body(f, a)
  <2>1. CASE lo <= hi + 1
    <3>1. hi + 1 - lo \in Nat /\ hi + 1 - (hi + 1 - lo) = lo
      BY <2>1
    <3>2. hi + 1 - lo \in T
      BY <1>4, <3>1
    <3> HIDE DEF Body
    <3> QED
      BY <3>1, <3>2
  <2>2. CASE ~(lo <= hi + 1)
    BY <2>2
  <2> QED
    BY <2>1, <2>2
<1> DEFINE g == [a \in lo .. (hi + 1) |-> f[a]]
<1>6. \A a \in lo .. (hi + 1) : Body(g, a) = Body(f, a)
  <2>1. \A a \in lo .. hi : End(a) + 1 \in lo .. (hi + 1)
    BY <1>1
  <2>2. \A a \in lo .. hi : g[End(a) + 1] = f[End(a) + 1]
    BY <2>1
  <2> HIDE DEF g
  <2>3. ASSUME NEW a \in lo .. (hi + 1) PROVE Body(g, a) = Body(f, a)
    <3>1. CASE a > hi
      BY <3>1
    <3>2. CASE ~(a > hi)
      BY <2>2, <3>2
    <3> QED
      BY <3>1, <3>2
  <2> QED
    BY <2>3
<1>7. g = [a \in lo .. (hi + 1) |-> Body(g, a)]
  <2> HIDE DEF Body
  <2> QED
    BY <1>5, <1>6
<1> QED
  BY <1>7 DEF End

\* The chunks lie in the range, none is longer than n, and together they cover the range.
LEMMA ChunksCover ==
    ASSUME NEW lo \in Nat, NEW hi \in Nat, lo <= hi, NEW n \in Nat \ {0}
    PROVE  /\ \A r \in _direct_fill_range_chunked(lo, hi, n) : IsChunk(r, lo, hi, n)
           /\ \A x \in lo .. hi :
                 \E r \in _direct_fill_range_chunked(lo, hi, n) : x \in Asked(r)
<1> DEFINE End(a) == Min({a + n - 1, hi})
           chunks == CHOOSE f : f = [a \in lo .. hi + 1 |->
              IF a > hi THEN {}
              ELSE LET b == Min({a + n - 1, hi}) IN {Request(a, b)} \cup f[b + 1]]
           Good(a) == /\ \A r \in chunks[a] : IsChunk(r, a, hi, n)
                      /\ \A x \in a .. hi : \E r \in chunks[a] : x \in Asked(r)
           T == {m \in Nat : \A a \in lo .. (hi + 1) : hi + 1 - a <= m => Good(a)}
<1>1. chunks = [a \in lo .. hi + 1 |->
              IF a > hi THEN {}
              ELSE LET b == Min({a + n - 1, hi}) IN {Request(a, b)} \cup chunks[b + 1]]
  BY ChunksExist
<1>2. _direct_fill_range_chunked(lo, hi, n) = chunks[lo]
  BY DEF _direct_fill_range_chunked
<1> HIDE DEF chunks
<1>3. \A a \in lo .. hi : End(a) \in a .. hi /\ End(a) - a < n
  BY MinOfTwo
<1>4. /\ chunks[hi + 1] = {}
      /\ \A a \in lo .. hi : chunks[a] = {Request(a, End(a))} \cup chunks[End(a) + 1]
  <2>1. chunks[hi + 1] = {}
    BY <1>1
  <2>2. ASSUME NEW a \in lo .. hi
        PROVE  chunks[a] = {Request(a, End(a))} \cup chunks[End(a) + 1]
    <3>1. a \in lo .. hi + 1 /\ ~(a > hi)
      OBVIOUS
    <3> QED
      BY <1>1, <3>1
  <2> QED
    BY <2>1, <2>2
<1> HIDE DEF End
<1>5. Good(hi + 1)
  BY <1>4
<1>6. ASSUME NEW a \in lo .. hi, Good(End(a) + 1) PROVE Good(a)
  <2> DEFINE r0 == Request(a, End(a))
  <2>1. IsChunk(r0, a, hi, n) /\ Asked(r0) = a .. End(a)
    BY <1>3 DEF Request, IsChunk, Asked
  <2>2. \A r \in chunks[End(a) + 1] : IsChunk(r, a, hi, n)
    BY <1>3, <1>6 DEF IsChunk
  <2>3. \A x \in a .. hi : x \in a .. End(a) \/ x \in (End(a) + 1) .. hi
    BY <1>3
  <2>4. chunks[a] = {r0} \cup chunks[End(a) + 1]
    BY <1>4
  <2> HIDE DEF r0
  <2>5. \A x \in a .. hi : \E r \in chunks[a] : x \in Asked(r)
    BY <1>6, <2>1, <2>3, <2>4
  <2> QED
    BY <2>1, <2>2, <2>4, <2>5
<1> HIDE DEF Good
<1>7. 0 \in T
  BY <1>5
<1>8. ASSUME NEW m \in Nat, m \in T PROVE m + 1 \in T
  <2> SUFFICES ASSUME NEW a \in lo .. (hi + 1), hi + 1 - a <= m + 1 PROVE Good(a)
    OBVIOUS
  <2>1. CASE a = hi + 1
    BY <1>5, <2>1
  <2>2. CASE a # hi + 1
    <3>1. a \in lo .. hi /\ End(a) + 1 \in lo .. (hi + 1) /\ hi + 1 - (End(a) + 1) <= m
      BY <1>3, <2>2
    <3> QED
      BY <1>6, <1>8, <3>1
  <2> QED
    BY <2>1, <2>2
<1>9. Nat \subseteq T
  <2> HIDE DEF T
  <2> QED
    BY <1>7, <1>8, NatSetInduction
<1>10. Good(lo)
  <2>1. hi + 1 - lo \in T
    <3> HIDE DEF T
    <3> QED
      BY <1>9
  <2> QED
    BY <2>1
<1> QED
  BY <1>2, <1>10 DEF Good

\* The size of a chunk is positive and no larger than the setting.
LEMMA ChunkSize ==
    ASSUME NEW group, NEW base_max \in Nat \ {0}
    PROVE  _effective_read_chunk_size(base_max, group) \in 1 .. base_max
  BY MinOfTwo DEF _effective_read_chunk_size, AnalogMaxChunk

\* A catalogue is finite and lies between its least and its greatest index.
LEMMA Catalogue ==
    ASSUME NEW u \in Nat, NEW idxs \in SUBSET (0 .. u), idxs # {}
    PROVE  /\ IsFiniteSet(idxs) /\ Cardinality(idxs) \in Nat
           /\ Min(idxs) \in Nat /\ Max(idxs) \in Nat /\ Min(idxs) <= Max(idxs)
           /\ Min(idxs) \in idxs /\ Max(idxs) \in idxs
           /\ idxs \subseteq Min(idxs) .. Max(idxs)
<1>1. IsFiniteSet(idxs) /\ Cardinality(idxs) \in Nat
  <2>1. IsFiniteSet(0 .. u)
    BY FS_Interval
  <2>2. IsFiniteSet(idxs)
    BY <2>1, FS_Subset
  <2> QED
    BY <2>2, FS_CardinalityType
<1>2. idxs \in SUBSET Nat
  OBVIOUS
<1>3. Min(idxs) \in idxs /\ \A y \in idxs : Min(idxs) <= y
  BY <1>2, MinIsLeast
<1>4. Max(idxs) \in idxs /\ \A y \in idxs : Max(idxs) >= y
  BY MaxIsGreatest
<1>5. Min(idxs) \in Nat /\ Max(idxs) \in Nat /\ Min(idxs) <= Max(idxs)
  BY <1>2, <1>3, <1>4
<1>6. idxs \subseteq Min(idxs) .. Max(idxs)
  BY <1>2, <1>3, <1>4, <1>5
<1> QED
  BY <1>1, <1>3, <1>4, <1>5, <1>6

\* The requests for a catalogue: none is too long, every index is asked for, and either
\* the catalogue is sparse and nothing else is asked for, or its span is bounded.
LEMMA RequestsSound ==
    ASSUME NEW group \in RangeGroups, NEW u \in Nat, NEW idxs \in SUBSET (0 .. u), idxs # {},
           NEW base_max \in Nat \ {0}, NEW ratio \in Nat \ {0, 1}
    PROVE  LET requests == Requests(group, idxs, base_max, ratio)
           IN  /\ \A r \in requests : IsChunk(r, Min(idxs), Max(idxs),
                                              _effective_read_chunk_size(base_max, group))
               /\ \A x \in idxs : \E r \in requests : x \in Asked(r)
               /\ \/ \A r \in requests : Asked(r) \subseteq idxs
                  \/ Span(idxs) <= Cardinality(idxs) * ratio
<1> DEFINE lo == Min(idxs)
           hi == Max(idxs)
           eff == _effective_read_chunk_size(base_max, group)
           requests == Requests(group, idxs, base_max, ratio)
<1>1. lo \in Nat /\ hi \in Nat /\ lo <= hi /\ idxs \subseteq lo .. hi
  BY Catalogue
<1>2. eff \in Nat \ {0}
  BY ChunkSize
<1>3. requests = IF IsSparse(idxs, ratio) THEN Singles(idxs)
                 ELSE IF Span(idxs) <= eff THEN {Request(lo, hi)}
                 ELSE _direct_fill_range_chunked(lo, hi, eff)
  BY DEF Requests
<1>4. \A i, j \in Int : Request(i, j).start = i /\ Request(i, j).end = j
                          /\ Asked(Request(i, j)) = i .. j /\ Request(i, j) \in [start : Int, end : Int]
  BY DEF Request, Asked
<1>5. Span(idxs) = hi - lo + 1 /\ Cardinality(idxs) \in Nat
  BY Catalogue DEF Span
<1> HIDE DEF lo, hi, eff, requests
<1>6. CASE IsSparse(idxs, ratio)
  <2>1. requests = {Request(i, i) : i \in idxs}
    BY <1>3, <1>6 DEF Singles
  <2>2. \A i \in idxs : i \in Int /\ Asked(Request(i, i)) = {i} /\ IsChunk(Request(i, i), lo, hi, eff)
    BY <1>1, <1>2, <1>4 DEF IsChunk
  <2> QED
    BY <2>1, <2>2 DEF lo, hi, eff, requests
<1>7. CASE ~IsSparse(idxs, ratio)
  <2>1. Span(idxs) <= Cardinality(idxs) * ratio
    <3>1. Cardinality(idxs) * ratio \in Nat
      BY <1>5
    <3> QED
      BY <1>1, <1>5, <1>7, <3>1 DEF IsSparse
  <2>2. CASE Span(idxs) <= eff
    <3>1. requests = {Request(lo, hi)}
      BY <1>3, <1>7, <2>2
    <3>2. IsChunk(Request(lo, hi), lo, hi, eff) /\ Asked(Request(lo, hi)) = lo .. hi
      BY <1>1, <1>2, <1>4, <1>5, <2>2 DEF IsChunk
    <3> QED
      BY <1>1, <2>1, <3>1, <3>2 DEF lo, hi, eff, requests
  <2>3. CASE ~(Span(idxs) <= eff)
    <3>1. requests = _direct_fill_range_chunked(lo, hi, eff)
      BY <1>3, <1>7, <2>3
    <3>2. /\ \A r \in requests : IsChunk(r, lo, hi, eff)
          /\ \A x \in lo .. hi : \E r \in requests : x \in Asked(r)
      BY <1>1, <1>2, <3>1, ChunksCover
    <3> QED
      BY <1>1, <2>1, <3>2 DEF lo, hi, eff, requests
  <2> QED
    BY <2>2, <2>3
<1> QED
  BY <1>6, <1>7

\* A set of chunks asks for as many points as the range has, at most.
LEMMA AskedInSpan ==
    ASSUME NEW requests, NEW lo \in Nat, NEW hi \in Nat, lo <= hi, NEW n \in Nat,
           \A r \in requests : IsChunk(r, lo, hi, n)
    PROVE  /\ UNION {Asked(r) : r \in requests} \subseteq lo .. hi
           /\ \A r \in requests : Cardinality(Asked(r)) <= n
<1>1. ASSUME NEW r \in requests
      PROVE  Asked(r) \subseteq lo .. hi /\ Cardinality(Asked(r)) <= n
  <2>1. r.start \in Int /\ r.end \in Int /\ lo <= r.start /\ r.end <= hi
        /\ r.start <= r.end /\ r.end - r.start < n
    BY DEF IsChunk
  <2>2. Cardinality(r.start .. r.end) = r.end - r.start + 1
    BY <2>1, FS_Interval
  <2> QED
    BY <2>1, <2>2 DEF Asked
<1> QED
  BY <1>1

\* What is read in the end, for any catalogue and any outstation.
LEMMA FilledIs ==
    ASSUME NEW group, NEW u \in Nat, NEW idxs \in SUBSET (0 .. u), idxs # {},
           NEW base_max \in Nat \ {0}, NEW ratio \in Nat \ {0, 1}, NEW absent
    PROVE  Filled(group, idxs, base_max, ratio, absent)
             = IF group \in RangeGroups THEN idxs \ absent ELSE {}
<1> DEFINE first == Requests(group, idxs, base_max, ratio)
           failed == {r \in first : ~Answered(r, absent)}
           again == UNION {Fallback(r, idxs) : r \in failed}
           answered == {r \in first \cup again : Answered(r, absent)}
           filled == (UNION {Asked(r) : r \in answered}) \cap idxs
<1>1. Filled(group, idxs, base_max, ratio, absent) = filled
  BY Zenon DEF Filled
<1> HIDE DEF first
<1>2. \A r : r \in failed <=> r \in first /\ ~Answered(r, absent)
  OBVIOUS
<1> HIDE DEF failed
<1>3. \A q : q \in again <=> \E r \in failed : q \in Fallback(r, idxs)
  OBVIOUS
<1> HIDE DEF again
<1>4. \A r : r \in answered <=> r \in first \cup again /\ Answered(r, absent)
  OBVIOUS
<1> HIDE DEF answered
<1>5. \A x : x \in filled <=> x \in idxs /\ \E r \in answered : x \in Asked(r)
  OBVIOUS
<1> HIDE DEF filled
<1>6. CASE group \notin RangeGroups
  <2>1. first = {}
    BY <1>6 DEF Requests, first
  <2>2. filled = {}
    BY <1>2, <1>3, <1>4, <1>5, <2>1
  <2> QED
    BY <1>1, <1>6, <2>2
<1>7. CASE group \in RangeGroups
  <2>1. \A x \in idxs : \E r \in first : x \in Asked(r)
    BY <1>7, RequestsSound DEF first
  <2>2. ASSUME NEW x \in filled PROVE x \in idxs \ absent
    <3>1. PICK r \in answered : x \in Asked(r)
      BY <1>5
    <3> QED
      BY <1>4, <1>5, <3>1 DEF Answered
  <2>3. ASSUME NEW x \in idxs, x \notin absent PROVE x \in filled
    <3>1. PICK r \in first : x \in Asked(r)
      BY <2>1
    <3>2. CASE Answered(r, absent)
      BY <1>4, <1>5, <3>1, <3>2
    <3>3. CASE ~Answered(r, absent)
      <4>1. Request(x, x) \in Fallback(r, idxs)
        BY <3>1 DEF Fallback, Singles
      <4>2. Request(x, x) \in again
        BY <1>2, <1>3, <3>3, <4>1
      <4>3. Asked(Request(x, x)) = {x}
        BY DEF Request, Asked
      <4>4. Request(x, x) \in answered
        BY <1>4, <2>3, <4>2, <4>3 DEF Answered
      <4> QED
        BY <1>5, <4>3, <4>4
    <3> QED
      BY <3>2, <3>3
  <2>4. filled = idxs \ absent
    BY <1>5, <2>2, <2>3
  <2> QED
    BY <1>1, <1>7, <2>4
<1> QED
  BY <1>6, <1>7

\* All requests for a catalogue together ask for at most ratio points per index.
LEMMA RequestsTotal ==
    ASSUME NEW group, NEW u \in Nat, NEW idxs \in SUBSET (0 .. u), idxs # {},
           NEW base_max \in Nat \ {0}, NEW ratio \in Nat \ {0, 1}
    PROVE  LET requests == Requests(group, idxs, base_max, ratio)
           IN  /\ \A r \in requests : Cardinality(Asked(r)) <=
                        _effective_read_chunk_size(base_max, group)
               /\ Cardinality(UNION {Asked(r) : r \in requests})
                        <= Cardinality(idxs) * ratio
<1> DEFINE requests == Requests(group, idxs, base_max, ratio)
           all == UNION {Asked(r) : r \in requests}
           eff == _effective_read_chunk_size(base_max, group)
           lo == Min(idxs)
           hi == Max(idxs)
<1>1. /\ IsFiniteSet(idxs) /\ Cardinality(idxs) \in Nat
      /\ lo \in Nat /\ hi \in Nat /\ lo <= hi
  BY Catalogue
<1>2. eff \in Nat
  BY ChunkSize
<1>3. Cardinality(idxs) * ratio \in Nat /\ Cardinality(idxs) <= Cardinality(idxs) * ratio
  <2> DEFINE c == Cardinality(idxs)
  <2>1. c \in Nat
    BY <1>1
  <2> HIDE DEF c
  <2>2. c * ratio \in Nat /\ c <= c * ratio
    BY <2>1
  <2> QED
    BY <2>2 DEF c
<1> SUFFICES /\ \A r \in requests : Cardinality(Asked(r)) <= eff
             /\ Cardinality(all) <= Cardinality(idxs) * ratio
  OBVIOUS
<1>4. CASE group \notin RangeGroups
  <2>1. requests = {}
    BY <1>4 DEF Requests
  <2> HIDE DEF requests
  <2>2. all = {}
    BY <2>1
  <2> QED
    BY <1>3, <2>1, <2>2, FS_EmptySet
<1>5. CASE group \in RangeGroups
  <2>1. /\ \A r \in requests : IsChunk(r, lo, hi, eff)
        /\ \/ \A r \in requests : Asked(r) \subseteq idxs
           \/ Span(idxs) <= Cardinality(idxs) * ratio
    BY <1>5, RequestsSound
  <2>2. Span(idxs) = hi - lo + 1
    BY DEF Span
  <2> HIDE DEF requests, lo, hi, eff
  <2>3. all \subseteq lo .. hi /\ \A r \in requests : Cardinality(Asked(r)) <= eff
    BY <1>1, <1>2, <2>1, AskedInSpan
  <2>4. CASE \A r \in requests : Asked(r) \subseteq idxs
    <3>1. all \subseteq idxs
      BY <2>4
    <3> HIDE DEF all
    <3>2. Cardinality(all) \in Nat /\ Cardinality(all) <= Cardinality(idxs)
      BY <1>1, <3>1, FS_Subset, FS_CardinalityType
    <3> QED
      BY <1>1, <1>3, <2>3, <3>2
  <2>5. CASE Span(idxs) <= Cardinality(idxs) * ratio
    <3> HIDE DEF all
    <3>1. IsFiniteSet(lo .. hi) /\ Cardinality(lo .. hi) = hi - lo + 1
      BY <1>1, FS_Interval
    <3>2. Cardinality(all) \in Nat /\ Cardinality(all) <= hi - lo + 1
      BY <1>1, <2>3, <3>1, FS_Subset, FS_CardinalityType
    <3> QED
      BY <1>1, <1>3, <2>2, <2>3, <2>5, <3>2
  <2> QED
    BY <2>1, <2>4, <2>5
<1> QED
  BY <1>4, <1>5

\* Every catalogue a run or the program can have is one the lemmas speak of.
LEMMA PlanInput ==
    ASSUME NEW p \in PlanInputs
    PROVE  /\ MaxIndex \in Nat /\ p.idxs \in SUBSET (0 .. MaxIndex) /\ p.idxs # {}
           /\ p.base_max \in Nat \ {0} /\ p.ratio \in Nat \ {0, 1}
<1>1. p.idxs \subseteq Indices /\ p.idxs # {} /\ p.base_max \in ChunkSizes /\ p.ratio \in Ratios
  BY DEF PlanInputs
<1>2. p.idxs \subseteq 0 .. MaxIndex
  BY <1>1, OperatorsAssumption
<1>3. MaxIndex \in Nat
  BY DEF MaxIndex
<1> QED
  BY <1>1, <1>2, <1>3, OperatorsAssumption

-----------------------------------------------------------------------------
(* The health status.                                                      *)

\* The fields of a snapshot that the status depends on have their types: more states than
\* Snapshots, so that a worse snapshot is one too.
SnapshotOK(s) ==
    /\ s.config_ready \in BOOLEAN /\ s.cache_stale \in BOOLEAN /\ s.refresh_error \in BOOLEAN
    /\ s.outbox_full \in BOOLEAN /\ s.active \in BOOLEAN
    /\ s.pending \in Nat /\ s.max_pending \in Nat /\ s.dead_letter \in Nat
    /\ s.since_ok \in Int /\ s.poll_cycles \in Nat /\ s.uptime \in Nat

\* An issue that degrades without making the gateway unhealthy.
Degrading(s) ==
    \/ s.cache_stale
    \/ RefreshFailing(s)
    \/ NearCapacity(s)
    \/ s.dead_letter > 0
    \/ NoCycles(s)

\* A full outbox decides the severity, then any other issue: the order in which the code
\* looks for them does not matter.
LEMMA SeverityIs ==
    ASSUME NEW s, SnapshotOK(s)
    PROVE  /\ s.outbox_full => Severity(s) = 2
           /\ ~s.outbox_full /\ Degrading(s) => Severity(s) = 1
           /\ ~s.outbox_full /\ ~Degrading(s) => Severity(s) = 0
<1> DEFINE sev == {0} \cup {Findings(s)[i].severity : i \in Issues(s)}
<1>1. /\ DOMAIN Findings(s) = 1 .. 6
      /\ Findings(s)[3].severity = 2
      /\ \A i \in {1, 2, 4, 5, 6} : Findings(s)[i].severity = 1
  BY DEF Findings
<1>2. /\ 1 \in Issues(s) <=> s.cache_stale
      /\ 2 \in Issues(s) <=> RefreshFailing(s)
      /\ 3 \in Issues(s) <=> s.outbox_full
      /\ 4 \in Issues(s) <=> NearCapacity(s)
      /\ 5 \in Issues(s) <=> s.dead_letter > 0
      /\ 6 \in Issues(s) <=> NoCycles(s)
  <2>1. /\ Findings(s)[1].holds = s.cache_stale
        /\ Findings(s)[2].holds = RefreshFailing(s)
        /\ Findings(s)[3].holds = s.outbox_full
        /\ Findings(s)[4].holds = NearCapacity(s)
        /\ Findings(s)[5].holds = (s.dead_letter > 0)
        /\ Findings(s)[6].holds = NoCycles(s)
    BY DEF Findings
  <2>2. s.cache_stale \in BOOLEAN /\ s.outbox_full \in BOOLEAN
    BY DEF SnapshotOK
  <2>3. \A i \in 1 .. 6 : i \in Issues(s) <=> Findings(s)[i].holds
    BY <1>1 DEF Issues
  <2>4. 1 \in 1 .. 6 /\ 2 \in 1 .. 6 /\ 3 \in 1 .. 6 /\ 4 \in 1 .. 6 /\ 5 \in 1 .. 6 /\ 6 \in 1 .. 6
    OBVIOUS
  <2> QED
    BY <2>1, <2>2, <2>3, <2>4, Zenon
<1>3. Issues(s) \subseteq 1 .. 6
  BY <1>1 DEF Issues
<1>4. 2 \in sev <=> s.outbox_full
  BY <1>1, <1>2, <1>3
<1>5. 1 \in sev <=> Degrading(s)
  BY <1>1, <1>2, <1>3 DEF Degrading
<1>6. 0 \in sev /\ sev \subseteq 0 .. 2
  BY <1>1, <1>3
<1>7. Severity(s) = Max(sev)
  BY DEF Severity
<1> HIDE DEF sev
<1>8. Max(sev) \in sev /\ \A y \in sev : Max(sev) >= y
  BY <1>6, MaxIsGreatest
<1> QED
  <2>1. CASE Max(sev) = 0
    BY <1>4, <1>5, <1>6, <1>7, <1>8, <2>1
  <2>2. CASE Max(sev) = 1
    BY <1>4, <1>5, <1>6, <1>7, <1>8, <2>2
  <2>3. CASE Max(sev) = 2
    BY <1>4, <1>5, <1>6, <1>7, <1>8, <2>3
  <2>4. Max(sev) \in 0 .. 2
    BY <1>6, <1>8, Zenon
  <2>5. \A y \in 0 .. 2 : y = 0 \/ y = 1 \/ y = 2
    OBVIOUS
  <2> QED
    BY <2>1, <2>2, <2>3, <2>4, <2>5, Zenon

\* One more problem takes none away.
LEMMA WorseKeepsIssues ==
    ASSUME NEW s \in Snapshots, NEW t \in Worse(s)
    PROVE  /\ SnapshotOK(s) /\ SnapshotOK(t)
           /\ t.config_ready = s.config_ready
           /\ s.outbox_full => t.outbox_full
           /\ Degrading(s) => Degrading(t)
<1>1. SnapshotOK(s)
  <2>1. /\ s.config_ready \in BOOLEAN /\ s.cache_stale \in BOOLEAN
        /\ s.refresh_error \in BOOLEAN /\ s.outbox_full \in BOOLEAN /\ s.active \in BOOLEAN
        /\ s.pending \in Fills /\ s.max_pending \in Capacities /\ s.dead_letter \in {0, 1}
        /\ s.since_ok \in Ages /\ s.poll_cycles \in {0, 1} /\ s.uptime \in Uptimes
    BY DEF Snapshots
  <2>2. /\ s.pending \in Nat /\ s.max_pending \in Nat
        /\ s.since_ok \in Int /\ s.uptime \in Nat
    BY <2>1, OperatorsAssumption
  <2> QED
    BY <2>1, <2>2 DEF SnapshotOK
<1>2. DOMAIN s = {"config_ready", "cache_stale", "refresh_error", "since_ok", "outbox_full",
                  "pending", "max_pending", "dead_letter", "active", "poll_cycles", "uptime"}
  BY DEF Snapshots
<1> DEFINE p == Max({s.pending, s.max_pending})
<1>3. p \in Nat /\ p >= s.pending /\ p >= s.max_pending
  BY <1>1, MaxOfTwo DEF SnapshotOK
<1> HIDE DEF p
<1>4. CASE t = [s EXCEPT !.cache_stale = TRUE]
  BY <1>1, <1>2, <1>4 DEF SnapshotOK, Degrading, RefreshFailing, NearCapacity, NoCycles
<1>5. CASE t = [s EXCEPT !.refresh_error = TRUE]
  BY <1>1, <1>2, <1>5 DEF SnapshotOK, Degrading, RefreshFailing, NearCapacity, NoCycles
<1>6. CASE t = [s EXCEPT !.outbox_full = TRUE]
  BY <1>1, <1>2, <1>6 DEF SnapshotOK, Degrading, RefreshFailing, NearCapacity, NoCycles
<1>7. CASE t = [s EXCEPT !.dead_letter = 1]
  BY <1>1, <1>2, <1>7 DEF SnapshotOK, Degrading, RefreshFailing, NearCapacity, NoCycles
<1>8. CASE t = [s EXCEPT !.pending = p]
  <2>1. /\ t.cache_stale = s.cache_stale /\ t.refresh_error = s.refresh_error
        /\ t.since_ok = s.since_ok /\ t.outbox_full = s.outbox_full /\ t.pending = p
        /\ t.max_pending = s.max_pending /\ t.dead_letter = s.dead_letter
        /\ t.active = s.active /\ t.poll_cycles = s.poll_cycles /\ t.uptime = s.uptime
        /\ t.config_ready = s.config_ready
    BY <1>2, <1>8
  <2>2. SnapshotOK(t)
    BY <1>1, <1>3, <2>1 DEF SnapshotOK
  <2>3. NearCapacity(s) => NearCapacity(t)
    BY <1>1, <1>3, <2>1 DEF NearCapacity, SnapshotOK
  <2> QED
    BY <1>1, <2>1, <2>2, <2>3 DEF Degrading, RefreshFailing, NoCycles
<1>9. CASE t = [s EXCEPT !.active = TRUE, !.poll_cycles = 0]
  BY <1>1, <1>2, <1>9 DEF SnapshotOK, Degrading, RefreshFailing, NearCapacity, NoCycles
<1> QED
  BY <1>4, <1>5, <1>6, <1>7, <1>8, <1>9 DEF Worse, p

\* The status gets no better, and neither does the HTTP code.
LEMMA WorseStatus ==
    ASSUME NEW s \in Snapshots, NEW t \in Worse(s)
    PROVE  Rank[Status(t)] >= Rank[Status(s)] /\ HttpCode(t) >= HttpCode(s)
<1>1. /\ SnapshotOK(s) /\ SnapshotOK(t)
      /\ t.config_ready = s.config_ready
      /\ s.outbox_full => t.outbox_full
      /\ Degrading(s) => Degrading(t)
  BY WorseKeepsIssues
<1>2. Severity(s) \in 0 .. 2 /\ Severity(t) \in 0 .. 2 /\ Severity(s) <= Severity(t)
  <2>1. CASE s.outbox_full
    BY <1>1, <2>1, SeverityIs
  <2>2. CASE ~s.outbox_full /\ Degrading(s)
    BY <1>1, <2>2, SeverityIs
  <2>3. CASE ~s.outbox_full /\ ~Degrading(s)
    BY <1>1, <2>3, SeverityIs
  <2> QED
    BY <2>1, <2>2, <2>3
<1>3. s.config_ready \in BOOLEAN
  BY <1>1 DEF SnapshotOK
<1> QED
  BY <1>1, <1>2, <1>3 DEF Rank, Status, HttpCode

-----------------------------------------------------------------------------
(* The configuration parser.                                               *)

\* The ends of the ranges: what the lemmas need to know of them.
LEMMA RangeEnds ==
    /\ MaxAddress \in Nat /\ MaxAddress >= 1
    /\ MaxPort \in Nat /\ MaxPort >= 1
    /\ MaxIndex \in Nat
    /\ MaxGroup \in Nat /\ MaxGroup >= 30
    /\ MaxInterval \in Nat /\ MaxInterval >= 5
    /\ MaxTimeout \in Nat /\ MaxTimeout >= 3000
    /\ MaxRetries \in Nat /\ MaxRetries >= 2
  BY DEF MaxAddress, MaxPort, MaxIndex, MaxGroup, MaxInterval, MaxTimeout, MaxRetries

\* Whatever the field holds, _safe_int returns a number of the range or the default, and
\* overflows exactly on an infinite number.
LEMMA SafeIntCases ==
    ASSUME NEW raw, NEW lo \in Int, NEW hi \in Int, NEW default
    PROVE  /\ raw = Infinite => _safe_int(raw, default, lo, hi) = OverflowError
           /\ raw # Infinite => _safe_int(raw, default, lo, hi) \in {default} \cup (lo .. hi)
<1>1. CASE raw = Infinite
  BY <1>1 DEF _safe_int
<1>2. CASE raw # Infinite /\ InRange(raw, lo, hi)
  BY <1>2 DEF _safe_int, InRange
<1>3. CASE raw # Infinite /\ ~InRange(raw, lo, hi)
  BY <1>3 DEF _safe_int
<1> QED
  BY <1>1, <1>2, <1>3

\* The first usable of several fields is in the range, or there is none; it overflows only
\* if one of them is infinite.
LEMMA FirstIsInRange ==
    ASSUME NEW raws, DOMAIN raws \subseteq Nat, NEW lo \in Int, NEW hi \in Int
    PROVE  /\ FirstInRange(raws, lo, hi) \in {NoPort, OverflowError} \cup (lo .. hi)
           /\ Infinite \notin Range(raws) =>
                 FirstInRange(raws, lo, hi) \in {NoPort} \cup (lo .. hi)
<1> DEFINE decisive == {i \in DOMAIN raws : raws[i] = Infinite \/ InRange(raws[i], lo, hi)}
           first == raws[Min(decisive)]
<1>1. decisive \in SUBSET Nat /\ decisive \subseteq DOMAIN raws
  OBVIOUS
<1>2. FirstInRange(raws, lo, hi)
        = IF decisive = {} THEN NoPort ELSE _safe_int(first, NoPort, lo, hi)
  BY DEF FirstInRange
<1> HIDE DEF decisive
<1>3. CASE decisive = {}
  BY <1>2, <1>3
<1>4. CASE decisive # {}
  <2>1. Min(decisive) \in decisive
    BY <1>1, <1>4, MinIsLeast
  <2>2. first \in Range(raws)
    BY <1>1, <2>1 DEF Range
  <2> HIDE DEF first
  <2>3. FirstInRange(raws, lo, hi) = _safe_int(first, NoPort, lo, hi)
    BY <1>2, <1>4
  <2>4. /\ first = Infinite => _safe_int(first, NoPort, lo, hi) = OverflowError
        /\ first # Infinite => _safe_int(first, NoPort, lo, hi) \in {NoPort} \cup (lo .. hi)
    BY SafeIntCases
  <2> QED
    BY <2>2, <2>3, <2>4
<1> QED
  BY <1>3, <1>4

\* The lists of an item are sequences of raw fields.
IsItem(item) == DOMAIN item.tcp_ports \subseteq Nat /\ DOMAIN item.master_addresses \subseteq Nat

\* A value that _safe_int, FirstInRange or the address and port parsers return is a number
\* of its range, the default, or an error.
LEMMA ParsedNumbers ==
    ASSUME NEW item, IsItem(item)
    PROVE  LET d == ParseDevice(item)
           IN  /\ d.dnp3_address \in (0 .. MaxAddress) \cup Errors
               /\ d.dnp3_tcp_port \in ({NoPort} \cup (1 .. MaxPort)) \cup Errors
               /\ d.master_address \in ({NoPort} \cup (0 .. MaxAddress)) \cup Errors
               /\ d.master_ip_port \in ({NoPort} \cup (1 .. MaxPort)) \cup Errors
               /\ d.poll_interval_sec \in (1 .. MaxInterval) \cup Errors
               /\ d.timeout_ms \in (100 .. MaxTimeout) \cup Errors
               /\ d.retry_count \in (0 .. MaxRetries) \cup Errors
               /\ Infinite \notin RawNumbersOf(item) =>
                     /\ d.dnp3_address = ValueError <=> item.dnp3_address = Garbage
                     /\ d.master_ip_port = ValueError <=> item.master_ip_port \in {Garbage, Falsy}
                     /\ OverflowError \notin {d.dnp3_address, d.master_ip_port}
                     /\ d.dnp3_tcp_port \notin Errors
                     /\ d.master_address \notin Errors
                     /\ d.poll_interval_sec \notin Errors
                     /\ d.timeout_ms \notin Errors
                     /\ d.retry_count \notin Errors
<1> DEFINE d == ParseDevice(item)
           Finite == Infinite \notin RawNumbersOf(item)
<1>1. /\ d.dnp3_address = ParseAddress(item.dnp3_address)
      /\ d.dnp3_tcp_port = FirstInRange(item.tcp_ports, 1, MaxPort)
      /\ d.master_address = FirstInRange(item.master_addresses, 0, MaxAddress)
      /\ d.master_ip_port = ParseMasterPort(item.master_ip_port)
      /\ d.poll_interval_sec = _safe_int(item.poll_interval_sec, 5, 1, MaxInterval)
      /\ d.timeout_ms = _safe_int(item.timeout_ms, 3000, 100, MaxTimeout)
      /\ d.retry_count = _safe_int(item.retry_count, 2, 0, MaxRetries)
  BY DEF ParseDevice, _parse_optional_dnp3_tcp_port, _parse_optional_master_address
<1>2. Finite => /\ item.dnp3_address # Infinite /\ item.master_ip_port # Infinite
                /\ item.poll_interval_sec # Infinite /\ item.timeout_ms # Infinite
                /\ item.retry_count # Infinite
                /\ Infinite \notin Range(item.tcp_ports)
                /\ Infinite \notin Range(item.master_addresses)
  BY DEF RawNumbersOf
<1> HIDE DEF d, Finite
<1>3. /\ 1 \in 0 .. MaxAddress /\ 5 \in 1 .. MaxInterval
      /\ 3000 \in 100 .. MaxTimeout /\ 2 \in 0 .. MaxRetries
  BY RangeEnds
<1>4. /\ ValueError \in Errors /\ OverflowError \in Errors /\ ValueError # OverflowError
      /\ NoPort \notin Errors
      /\ \A x \in Int : x \notin Errors
  BY ParseAssumption DEF Errors
<1>5. /\ d.poll_interval_sec \in (1 .. MaxInterval) \cup Errors
      /\ Finite => d.poll_interval_sec \notin Errors
  <2>1. /\ item.poll_interval_sec = Infinite => d.poll_interval_sec = OverflowError
        /\ item.poll_interval_sec # Infinite => d.poll_interval_sec \in {5} \cup (1 .. MaxInterval)
    BY <1>1, SafeIntCases, RangeEnds
  <2> QED
    BY <1>2, <1>3, <1>4, <2>1
<1>6. /\ d.timeout_ms \in (100 .. MaxTimeout) \cup Errors
      /\ Finite => d.timeout_ms \notin Errors
  <2>1. /\ item.timeout_ms = Infinite => d.timeout_ms = OverflowError
        /\ item.timeout_ms # Infinite => d.timeout_ms \in {3000} \cup (100 .. MaxTimeout)
    BY <1>1, SafeIntCases, RangeEnds
  <2> QED
    BY <1>2, <1>3, <1>4, <2>1
<1>7. /\ d.retry_count \in (0 .. MaxRetries) \cup Errors
      /\ Finite => d.retry_count \notin Errors
  <2>1. /\ item.retry_count = Infinite => d.retry_count = OverflowError
        /\ item.retry_count # Infinite => d.retry_count \in {2} \cup (0 .. MaxRetries)
    BY <1>1, SafeIntCases, RangeEnds
  <2> QED
    BY <1>2, <1>3, <1>4, <2>1
<1>8. /\ d.dnp3_tcp_port \in ({NoPort} \cup (1 .. MaxPort)) \cup Errors
      /\ Finite => d.dnp3_tcp_port \notin Errors
  <2>1. /\ d.dnp3_tcp_port \in {NoPort, OverflowError} \cup (1 .. MaxPort)
        /\ Finite => d.dnp3_tcp_port \in {NoPort} \cup (1 .. MaxPort)
    BY <1>1, <1>2, FirstIsInRange, RangeEnds DEF IsItem
  <2> QED
    BY <1>4, <2>1
<1>9. /\ d.master_address \in ({NoPort} \cup (0 .. MaxAddress)) \cup Errors
      /\ Finite => d.master_address \notin Errors
  <2>1. /\ d.master_address \in {NoPort, OverflowError} \cup (0 .. MaxAddress)
        /\ Finite => d.master_address \in {NoPort} \cup (0 .. MaxAddress)
    BY <1>1, <1>2, FirstIsInRange, RangeEnds DEF IsItem
  <2> QED
    BY <1>4, <2>1
<1>10. /\ d.dnp3_address \in (0 .. MaxAddress) \cup Errors
       /\ Finite => /\ d.dnp3_address = ValueError <=> item.dnp3_address = Garbage
                    /\ d.dnp3_address # OverflowError
  <2>1. CASE item.dnp3_address = Garbage
    BY <1>1, <1>4, <2>1 DEF ParseAddress
  <2>2. CASE item.dnp3_address # Garbage
    <3>1. /\ item.dnp3_address = Infinite => d.dnp3_address = OverflowError
          /\ item.dnp3_address # Infinite => d.dnp3_address \in {1} \cup (0 .. MaxAddress)
      BY <1>1, <2>2, SafeIntCases, RangeEnds DEF ParseAddress
    <3> QED
      BY <1>2, <1>3, <1>4, <2>2, <3>1
  <2> QED
    BY <2>1, <2>2
<1>11. /\ d.master_ip_port \in ({NoPort} \cup (1 .. MaxPort)) \cup Errors
       /\ Finite => /\ d.master_ip_port = ValueError <=> item.master_ip_port \in {Garbage, Falsy}
                    /\ d.master_ip_port # OverflowError
  <2>1. CASE item.master_ip_port \in {Garbage, Falsy}
    BY <1>1, <1>4, <2>1 DEF ParseMasterPort
  <2>2. CASE item.master_ip_port \notin {Garbage, Falsy}
    <3>1. /\ item.master_ip_port = Infinite => d.master_ip_port = OverflowError
          /\ item.master_ip_port # Infinite => d.master_ip_port \in {NoPort} \cup (1 .. MaxPort)
      BY <1>1, <2>2, SafeIntCases, RangeEnds DEF ParseMasterPort
    <3> QED
      BY <1>2, <1>4, <2>2, <3>1
  <2> QED
    BY <2>1, <2>2
<1> QED
  BY <1>5, <1>6, <1>7, <1>8, <1>9, <1>10, <1>11, Zenon DEF d, Finite

\* Seven values of which none is the first error to be raised contain no error.
LEMMA NoErrorLeft ==
    ASSUME NEW v, DOMAIN v = 1 .. 7, ~Raises(v, ValueError), ~Raises(v, OverflowError)
    PROVE  \A i \in 1 .. 7 : v[i] \notin Errors
<1> SUFFICES ASSUME {i \in 1 .. 7 : v[i] \in Errors} # {} PROVE FALSE
  OBVIOUS
<1>1. PICK i \in {k \in 1 .. 7 : v[k] \in Errors} :
         \A j \in {k \in 1 .. 7 : v[k] \in Errors} : i <= j
  <2>1. {k \in 1 .. 7 : v[k] \in Errors} \in SUBSET Nat
    OBVIOUS
  <2> QED
    BY <2>1, LeastExists
<1>2. \A j \in 1 .. i - 1 : v[j] \notin Errors
  BY <1>1
<1> QED
  BY <1>1, <1>2 DEF Raises, Errors

\* A device that comes out of the loop has usable numbers only, whatever its item holds.
LEMMA ParsedDeviceUsable ==
    ASSUME NEW item, IsItem(item), ~Skipped(item), ~DeviceOverflows(item)
    PROVE  UsableDevice(ParseDevice(item))
<1> DEFINE d == ParseDevice(item)
           v == DeviceNumbers(item)
<1>1. ~Raises(v, ValueError) /\ ~Raises(v, OverflowError)
  BY DEF Skipped, DeviceOverflows
<1>2. v = <<d.dnp3_address, d.dnp3_tcp_port, d.master_address, d.master_ip_port,
            d.poll_interval_sec, d.timeout_ms, d.retry_count>>
  BY DEF DeviceNumbers
<1> HIDE DEF d, v
<1>3. DOMAIN v = 1 .. 7
  BY <1>2
<1>4. \A i \in 1 .. 7 : v[i] \notin Errors
  BY <1>1, <1>3, NoErrorLeft
<1>5. /\ d.dnp3_address \notin Errors /\ d.dnp3_tcp_port \notin Errors
      /\ d.master_address \notin Errors /\ d.master_ip_port \notin Errors
      /\ d.poll_interval_sec \notin Errors /\ d.timeout_ms \notin Errors
      /\ d.retry_count \notin Errors
  <2>1. /\ v[1] \notin Errors /\ v[2] \notin Errors /\ v[3] \notin Errors /\ v[4] \notin Errors
        /\ v[5] \notin Errors /\ v[6] \notin Errors /\ v[7] \notin Errors
    BY <1>4
  <2> QED
    BY <1>2, <2>1
<1>6. /\ d.dnp3_address \in (0 .. MaxAddress) \cup Errors
      /\ d.dnp3_tcp_port \in ({NoPort} \cup (1 .. MaxPort)) \cup Errors
      /\ d.master_address \in ({NoPort} \cup (0 .. MaxAddress)) \cup Errors
      /\ d.master_ip_port \in ({NoPort} \cup (1 .. MaxPort)) \cup Errors
      /\ d.poll_interval_sec \in (1 .. MaxInterval) \cup Errors
      /\ d.timeout_ms \in (100 .. MaxTimeout) \cup Errors
      /\ d.retry_count \in (0 .. MaxRetries) \cup Errors
  BY ParsedNumbers, Zenon DEF d
<1>7. UsableDevice(d)
  BY <1>5, <1>6, Zenon DEF UsableDevice
<1> QED
  BY <1>7 DEF d

\* What the raw fields say decides: an item that is not too large never overflows, and is
\* skipped exactly when it is not sound.
LEMMA SoundDeviceIsKept ==
    ASSUME NEW item, IsItem(item), ~DeviceTooLarge(item)
    PROVE  ~DeviceOverflows(item) /\ (Skipped(item) <=> ~SoundDevice(item))
<1>1. CASE PassedOver(item)
  BY <1>1 DEF PassedOver, DeviceOverflows, Skipped, SoundDevice
<1>2. CASE ~PassedOver(item)
  <2> DEFINE d == ParseDevice(item)
             v == DeviceNumbers(item)
  <2>1. Infinite \notin RawNumbersOf(item) /\ item.code # Missing /\ item.safe_ip
    BY <1>2 DEF PassedOver, DeviceTooLarge
  <2>2. v = <<d.dnp3_address, d.dnp3_tcp_port, d.master_address, d.master_ip_port,
              d.poll_interval_sec, d.timeout_ms, d.retry_count>>
    BY DEF DeviceNumbers
  <2>3. /\ d.dnp3_address = ValueError <=> item.dnp3_address = Garbage
        /\ d.master_ip_port = ValueError <=> item.master_ip_port \in {Garbage, Falsy}
        /\ OverflowError \notin {d.dnp3_address, d.master_ip_port}
        /\ d.dnp3_tcp_port \notin Errors
        /\ d.master_address \notin Errors
        /\ d.poll_interval_sec \notin Errors
        /\ d.timeout_ms \notin Errors
        /\ d.retry_count \notin Errors
    BY <2>1, ParsedNumbers, Zenon
  <2> HIDE DEF d, v
  <2>4. DOMAIN v = 1 .. 7
    BY <2>2
  <2>5. /\ v[1] # OverflowError /\ v[4] # OverflowError
        /\ v[2] \notin Errors /\ v[3] \notin Errors /\ v[5] \notin Errors
        /\ v[6] \notin Errors /\ v[7] \notin Errors
        /\ v[1] = ValueError <=> item.dnp3_address = Garbage
        /\ v[4] = ValueError <=> item.master_ip_port \in {Garbage, Falsy}
    <3>1. /\ v[1] = d.dnp3_address /\ v[2] = d.dnp3_tcp_port /\ v[3] = d.master_address
          /\ v[4] = d.master_ip_port /\ v[5] = d.poll_interval_sec /\ v[6] = d.timeout_ms
          /\ v[7] = d.retry_count
      BY <2>2
    <3> QED
      BY <2>3, <3>1
  <2>6. ~Raises(v, OverflowError)
    <3>1. \A i \in 1 .. 7 : v[i] # OverflowError
      BY <2>5 DEF Errors
    <3> QED
      BY <2>4, <3>1 DEF Raises
  <2>7. CASE v[1] = ValueError
    <3>1. Raises(v, ValueError)
      <4>1. 1 \in DOMAIN v /\ \A j \in 1 .. 1 - 1 : v[j] \notin Errors
        BY <2>4
      <4> QED
        BY <2>7, <4>1 DEF Raises
    <3> QED
      BY <2>1, <2>5, <2>6, <2>7, <3>1 DEF v, DeviceOverflows, Skipped, SoundDevice
  <2>8. CASE v[1] # ValueError /\ v[4] = ValueError
    <3>1. Raises(v, ValueError)
      <4>1. 4 \in DOMAIN v /\ \A j \in 1 .. 4 - 1 : v[j] \notin Errors
        BY <2>4, <2>5, <2>8 DEF Errors
      <4> QED
        BY <2>8, <4>1 DEF Raises
    <3> QED
      BY <2>1, <2>5, <2>6, <2>8, <3>1 DEF v, DeviceOverflows, Skipped, SoundDevice
  <2>9. CASE v[1] # ValueError /\ v[4] # ValueError
    <3>1. ~Raises(v, ValueError)
      <4>1. \A i \in 1 .. 7 : v[i] # ValueError
        BY <2>5, <2>9 DEF Errors
      <4> QED
        BY <2>4, <4>1 DEF Raises
    <3> QED
      BY <1>2, <2>1, <2>5, <2>6, <2>9, <3>1 DEF v, DeviceOverflows, Skipped, SoundDevice
  <2> QED
    BY <2>7, <2>8, <2>9
<1> QED
  BY <1>1, <1>2

\* The same for a signal: if it is not too large, it does not overflow, and its numbers
\* are usable.
LEMMA SoundSignalIsKept ==
    ASSUME NEW item, ~SignalTooLarge(item)
    PROVE  /\ ~SignalOverflows(item)
           /\ item.key # Missing => UsableSignal(ParseSignal(item))
<1> DEFINE s == ParseSignal(item)
<1>1. /\ s.dnp3_object_group = _safe_int(item.dnp3_object_group, 30, 0, MaxGroup)
      /\ s.dnp3_index = _safe_int(item.dnp3_index, 0, 0, MaxIndex)
      /\ s.scale = _safe_finite_float(item.scale, 1)
      /\ s.offset = _safe_finite_float(item.offset, 0)
  BY DEF ParseSignal
<1> HIDE DEF s
<1>2. CASE item.key = Missing
  BY <1>2 DEF SignalOverflows
<1>3. CASE item.key # Missing
  <2>1. 30 \in 0 .. MaxGroup /\ 0 \in 0 .. MaxIndex
    BY RangeEnds
  <2>2. item.dnp3_object_group # Infinite /\ item.dnp3_index # Infinite
    BY <1>3 DEF SignalTooLarge
  <2>3. s.dnp3_object_group \in 0 .. MaxGroup
    BY <1>1, <2>1, <2>2, RangeEnds, SafeIntCases
  <2>4. s.dnp3_index \in 0 .. MaxIndex
    BY <1>1, <2>1, <2>2, RangeEnds, SafeIntCases
  <2>5. \A raw \in {item.scale, item.offset} : IsNumber(raw) => raw \in -MaxFloat .. MaxFloat
    BY <1>3 DEF SignalTooLarge
  <2>6. s.scale \in -MaxFloat .. MaxFloat
    <3>1. 1 \in -MaxFloat .. MaxFloat
      BY ParseAssumption
    <3> QED
      BY <1>1, <2>5, <3>1 DEF _safe_finite_float
  <2>7. s.offset \in -MaxFloat .. MaxFloat
    <3>1. 0 \in -MaxFloat .. MaxFloat
      BY ParseAssumption
    <3> QED
      BY <1>1, <2>5, <3>1 DEF _safe_finite_float
  <2>8. OverflowError \notin Int
    BY ParseAssumption DEF Errors
  <2>9. OverflowError \notin {s.scale, s.offset, s.dnp3_object_group, s.dnp3_index}
    BY <2>3, <2>4, <2>6, <2>7, <2>8, RangeEnds, ParseAssumption
  <2> QED
    BY <2>3, <2>4, <2>6, <2>7, <2>9 DEF s, SignalOverflows, UsableSignal
<1> QED
  BY <1>2, <1>3

\* The recursive function behind FlattenSeq exists.
LEMMA FlattenExists ==
    ASSUME NEW seqs, NEW n \in Nat
    PROVE  \E fl : fl = [i \in 1 .. n |-> IF i = 1 THEN seqs[i] ELSE fl[i - 1] \o seqs[i]]
<1> DEFINE Body(f, i) == IF i = 1 THEN seqs[i] ELSE f[i - 1] \o seqs[i]
           T == {m \in Nat : \E f : \A i \in 1 .. m : f[i] = Body(f, i)}
<1>1. 0 \in T
  <2> HIDE DEF Body
  <2>1. \A f : \A i \in 1 .. 0 : f[i] = Body(f, i)
    OBVIOUS
  <2> QED
    BY <2>1
<1>2. ASSUME NEW m \in Nat, m \in T PROVE m + 1 \in T
  <2>1. PICK f : \A i \in 1 .. m : f[i] = Body(f, i)
    BY <1>2
  <2> DEFINE g == [i \in 1 .. (m + 1) |-> IF i = m + 1 THEN Body(f, i) ELSE f[i]]
  <2>2. \A i \in 1 .. (m + 1) : Body(g, i) = Body(f, i)
    <3>1. \A i \in 1 .. m : g[i] = f[i]
      OBVIOUS
    <3>2. \A i \in 1 .. (m + 1) : i # 1 => i - 1 \in 1 .. m
      OBVIOUS
    <3> HIDE DEF g
    <3>3. ASSUME NEW i \in 1 .. (m + 1) PROVE Body(g, i) = Body(f, i)
      <4>1. CASE i = 1
        BY <4>1
      <4>2. CASE i # 1
        BY <3>1, <3>2, <4>2
      <4> QED
        BY <4>1, <4>2
    <3> QED
      BY <3>3
  <2>3. \A i \in 1 .. (m + 1) : g[i] = Body(f, i)
    <3> HIDE DEF Body
    <3> QED
      BY <2>1
  <2>4. \A i \in 1 .. (m + 1) : g[i] = Body(g, i)
    <3> HIDE DEF g, Body
    <3> QED
      BY <2>2, <2>3
  <2> HIDE DEF g, Body
  <2> QED
    BY <2>4
<1>3. Nat \subseteq T
  <2> HIDE DEF T
  <2> QED
    BY <1>1, <1>2, NatSetInduction
<1>4. PICK f : \A i \in 1 .. n : f[i] = Body(f, i)
  <2>1. n \in T
    BY <1>3
  <2> HIDE DEF Body
  <2> QED
    BY <2>1
<1> DEFINE g == [i \in 1 .. n |-> f[i]]
<1>5. \A i \in 1 .. n : Body(g, i) = Body(f, i)
  <2>1. \A i \in 1 .. n : g[i] = f[i] /\ (i # 1 => i - 1 \in 1 .. n)
    OBVIOUS
  <2> HIDE DEF g
  <2>2. ASSUME NEW i \in 1 .. n PROVE Body(g, i) = Body(f, i)
    <3>1. CASE i = 1
      BY <3>1
    <3>2. CASE i # 1
      BY <2>1, <3>2
    <3> QED
      BY <3>1, <3>2
  <2> QED
    BY <2>2
<1>6. g = [i \in 1 .. n |-> Body(g, i)]
  <2> HIDE DEF Body
  <2> QED
    BY <1>4, <1>5
<1> QED
  BY <1>6

\* f holds what the sequences up to each place make together.
FlatPrefixes(f, seqs, S) ==
    /\ f \in [0 .. Len(seqs) -> Seq(S)]
    /\ f[0] = <<>>
    /\ \A i \in 1 .. Len(seqs) : f[i] = f[i - 1] \o seqs[i]

\* FlattenSeq is the last of those prefixes.
LEMMA FlattenPrefixes ==
    ASSUME NEW S, NEW seqs \in Seq(Seq(S))
    PROVE  \E f : FlatPrefixes(f, seqs, S) /\ FlattenSeq(seqs) = f[Len(seqs)]
<1>1. Len(seqs) \in Nat /\ \A i \in 1 .. Len(seqs) : seqs[i] \in Seq(S)
  BY LenProperties, ElementOfSeq
<1>2. CASE Len(seqs) = 0
  <2> DEFINE f == [i \in 0 .. 0 |-> <<>>]
  <2>1. <<>> \in Seq(S) /\ seqs = <<>>
    BY <1>2, EmptySeq
  <2>2. FlattenSeq(seqs) = f[Len(seqs)]
    BY <1>2, <2>1 DEF FlattenSeq
  <2>3. FlatPrefixes(f, seqs, S)
    BY <1>2, <2>1 DEF FlatPrefixes
  <2> QED
    BY <2>2, <2>3
<1>3. CASE Len(seqs) # 0
  <2> DEFINE n == Len(seqs)
             fl == CHOOSE flatten : flatten = [i \in 1 .. Len(seqs) |->
                     IF i = 1 THEN seqs[i] ELSE flatten[i - 1] \o seqs[i]]
             f == [i \in 0 .. n |-> IF i = 0 THEN <<>> ELSE fl[i]]
             T == {m \in Nat : m < n => fl[m + 1] \in Seq(S)}
  <2>1. fl = [i \in 1 .. Len(seqs) |-> IF i = 1 THEN seqs[i] ELSE fl[i - 1] \o seqs[i]]
    BY <1>1, FlattenExists
  <2>2. FlattenSeq(seqs) = fl[n]
    BY <1>3 DEF FlattenSeq
  <2> HIDE DEF fl
  <2>3. n \in Nat \ {0}
    BY <1>1, <1>3
  <2>4. fl[1] = seqs[1] /\ \A i \in 2 .. n : fl[i] = fl[i - 1] \o seqs[i]
    <3>1. fl[1] = seqs[1]
      BY <2>1, <2>3
    <3>2. ASSUME NEW i \in 2 .. n PROVE fl[i] = fl[i - 1] \o seqs[i]
      <4>1. i \in 1 .. Len(seqs) /\ i # 1
        BY <2>3
      <4> QED
        BY <2>1, <4>1
    <3> QED
      BY <3>1, <3>2
  <2> HIDE DEF n
  <2>5. \A i \in 1 .. n : seqs[i] \in Seq(S)
    BY <1>1 DEF n
  <2>6. 0 \in T
    BY <2>3, <2>4, <2>5
  <2>7. ASSUME NEW m \in Nat, m \in T PROVE m + 1 \in T
    <3> SUFFICES ASSUME m + 1 < n PROVE fl[m + 2] \in Seq(S)
      BY <2>3
    <3>1. fl[m + 1] \in Seq(S) /\ m + 2 \in 2 .. n /\ m + 2 \in 1 .. n /\ (m + 2) - 1 = m + 1
      BY <2>3, <2>7
    <3>2. fl[m + 2] = fl[m + 1] \o seqs[m + 2] /\ seqs[m + 2] \in Seq(S)
      BY <2>4, <2>5, <3>1
    <3> QED
      BY <3>1, <3>2, ConcatProperties
  <2>8. Nat \subseteq T
    <3> HIDE DEF T
    <3> QED
      BY <2>6, <2>7, NatSetInduction
  <2>9. \A i \in 1 .. n : fl[i] \in Seq(S)
    <3> SUFFICES ASSUME NEW i \in 1 .. n PROVE fl[i] \in Seq(S)
      OBVIOUS
    <3>1. i - 1 \in Nat /\ i - 1 < n /\ (i - 1) + 1 = i
      BY <2>3
    <3>2. i - 1 \in T
      BY <2>8, <3>1
    <3> QED
      BY <3>1, <3>2
  <2>10. f \in [0 .. n -> Seq(S)]
    <3>1. <<>> \in Seq(S)
      BY EmptySeq
    <3> QED
      BY <2>3, <2>9, <3>1
  <2>11. f[0] = <<>> /\ \A i \in 1 .. n : f[i] = fl[i]
    BY <2>3
  <2> HIDE DEF f
  <2>12. ASSUME NEW i \in 1 .. n PROVE f[i] = f[i - 1] \o seqs[i]
    <3>1. CASE i = 1
      <4>1. <<>> \o seqs[1] = seqs[1]
        BY <2>5, <3>1, ConcatEmptySeq
      <4> QED
        <5>1. f[i - 1] = <<>> /\ f[i] = seqs[1]
          BY <2>4, <2>11, <3>1
        <5> QED
          BY <3>1, <4>1, <5>1
    <3>2. CASE i # 1
      <4>1. i \in 2 .. n /\ i - 1 \in 1 .. n
        BY <2>3, <3>2
      <4> QED
        BY <2>4, <2>11, <4>1
    <3> QED
      BY <3>1, <3>2
  <2>13. FlatPrefixes(f, seqs, S)
    BY <2>10, <2>11, <2>12 DEF FlatPrefixes, n
  <2>14. FlattenSeq(seqs) = f[Len(seqs)]
    BY <2>2, <2>3, <2>11 DEF n
  <2> QED
    BY <2>13, <2>14
<1> QED
  BY <1>2, <1>3

\* The places up to m.
UpTo(kept, m) == {j \in kept : j <= m}

\* How the places up to m grow with m, and that they can be counted.
LEMMA UpToGrows ==
    ASSUME NEW n \in Nat, NEW kept \in SUBSET (1 .. n)
    PROVE  /\ UpTo(kept, 0) = {} /\ UpTo(kept, n) = kept
           /\ \A m \in Nat :
                 /\ IsFiniteSet(UpTo(kept, m)) /\ Cardinality(UpTo(kept, m)) \in Nat
                 /\ m + 1 \notin UpTo(kept, m)
                 /\ UpTo(kept, m + 1)
                      = IF m + 1 \in kept THEN UpTo(kept, m) \cup {m + 1} ELSE UpTo(kept, m)
                 /\ \A i \in UpTo(kept, m) :
                       Cardinality(UpTo(kept, i)) \in 1 .. Cardinality(UpTo(kept, m))
<1>1. \A j \in kept : j \in Nat /\ 1 <= j /\ j <= n
  OBVIOUS
<1>2. UpTo(kept, 0) = {} /\ UpTo(kept, n) = kept
  <2>1. \A j \in kept : j <= n /\ ~(j <= 0)
    BY <1>1
  <2> QED
    BY <2>1, Zenon DEF UpTo
<1>3. ASSUME NEW m \in Nat PROVE IsFiniteSet(UpTo(kept, m)) /\ Cardinality(UpTo(kept, m)) \in Nat
  <2>1. IsFiniteSet(1 .. n)
    BY FS_Interval
  <2>2. UpTo(kept, m) \in SUBSET (1 .. n)
    BY DEF UpTo
  <2>3. IsFiniteSet(UpTo(kept, m))
    BY <2>1, <2>2, FS_Subset
  <2> QED
    BY <2>3, FS_CardinalityType
<1>4. ASSUME NEW m \in Nat
      PROVE  /\ m + 1 \notin UpTo(kept, m)
             /\ m + 1 \in kept => UpTo(kept, m + 1) = UpTo(kept, m) \cup {m + 1}
             /\ m + 1 \notin kept => UpTo(kept, m + 1) = UpTo(kept, m)
  <2>1. \A j \in kept : j <= m + 1 <=> j <= m \/ j = m + 1
    BY <1>1
  <2>2. ~(m + 1 <= m)
    OBVIOUS
  <2> QED
    BY <2>1, <2>2, Zenon DEF UpTo
<1>5. ASSUME NEW m \in Nat, NEW i \in UpTo(kept, m)
      PROVE  Cardinality(UpTo(kept, i)) \in 1 .. Cardinality(UpTo(kept, m))
  <2>1. i \in kept /\ i <= m /\ i \in Nat
    BY <1>1 DEF UpTo
  <2>2. i \in UpTo(kept, i)
    BY <2>1 DEF UpTo
  <2>3. \A j \in kept : j <= i => j <= m
    BY <1>1, <2>1
  <2>4. UpTo(kept, i) \in SUBSET UpTo(kept, m)
    BY <2>3, Zenon DEF UpTo
  <2>5. /\ IsFiniteSet(UpTo(kept, m)) /\ Cardinality(UpTo(kept, m)) \in Nat
        /\ IsFiniteSet(UpTo(kept, i)) /\ Cardinality(UpTo(kept, i)) \in Nat
    BY <1>3, <2>1
  <2>6. Cardinality(UpTo(kept, i)) <= Cardinality(UpTo(kept, m))
    BY <2>4, <2>5, FS_Subset
  <2>7. Cardinality(UpTo(kept, i)) # 0
    BY <2>2, <2>5, FS_EmptySet
  <2> QED
    BY <2>5, <2>6, <2>7
<1> QED
  BY <1>2, <1>3, <1>4, <1>5

\* Sequences of at most one element flatten to the elements there are, in their order.
LEMMA FlattenInOrder ==
    ASSUME NEW S, NEW n \in Nat, NEW made, NEW kept \in SUBSET (1 .. n), NEW seqs,
           seqs = [i \in 1 .. n |-> IF i \in kept THEN <<made[i]>> ELSE <<>>],
           \A i \in kept : made[i] \in S
    PROVE  FlattenSeq(seqs) \in Seq(S) /\ InOrder(FlattenSeq(seqs), made, kept)
<1> DEFINE K(m) == UpTo(kept, m)
<1>1. ASSUME NEW i \in 1 .. n
      PROVE  /\ seqs[i] \in Seq(S)
             /\ i \in kept => seqs[i] = <<made[i]>>
             /\ i \notin kept => seqs[i] = <<>>
  <2>1. CASE i \in kept
    <3>1. seqs[i] = <<made[i]>> /\ made[i] \in S
      BY <2>1
    <3> QED
      BY <2>1, <3>1
  <2>2. CASE i \notin kept
    BY <2>2
  <2> QED
    BY <2>1, <2>2
<1>2. seqs \in Seq(Seq(S)) /\ Len(seqs) = n
  <2>1. seqs \in [1 .. n -> Seq(S)]
    BY <1>1
  <2> QED
    BY <2>1
<1>3. PICK f : FlatPrefixes(f, seqs, S) /\ FlattenSeq(seqs) = f[n]
  BY <1>2, FlattenPrefixes
<1>4. /\ f \in [0 .. n -> Seq(S)] /\ f[0] = <<>>
      /\ \A i \in 1 .. n : f[i] = f[i - 1] \o seqs[i]
  BY <1>2, <1>3 DEF FlatPrefixes
<1>5. /\ K(0) = {} /\ K(n) = kept
      /\ \A m \in Nat :
            /\ IsFiniteSet(K(m)) /\ Cardinality(K(m)) \in Nat
            /\ m + 1 \notin K(m)
            /\ K(m + 1) = IF m + 1 \in kept THEN K(m) \cup {m + 1} ELSE K(m)
            /\ \A i \in K(m) : Cardinality(K(i)) \in 1 .. Cardinality(K(m))
  BY UpToGrows
<1> HIDE DEF K
<1> DEFINE P(m) == /\ Len(f[m]) = Cardinality(K(m))
                   /\ \A i \in K(m) : f[m][Cardinality(K(i))] = made[i]
           T == {m \in Nat : m <= n => P(m)}
<1>6. 0 \in T
  BY <1>4, <1>5, FS_EmptySet
<1>7. ASSUME NEW m \in Nat, m \in T PROVE m + 1 \in T
  <2> SUFFICES ASSUME m + 1 <= n PROVE P(m + 1)
    OBVIOUS
  <2>1. P(m) /\ m + 1 \in 1 .. n /\ m \in 0 .. n /\ (m + 1) - 1 = m
    BY <1>7
  <2>2. f[m + 1] = f[m] \o seqs[m + 1] /\ f[m] \in Seq(S)
    BY <1>4, <2>1
  <2>3. CASE m + 1 \notin kept
    <3>1. K(m + 1) = K(m)
      BY <1>5, <2>3
    <3>2. seqs[m + 1] = <<>>
      BY <1>1, <2>1, <2>3
    <3>3. f[m + 1] = f[m]
      BY <2>2, <3>2, ConcatEmptySeq
    <3> QED
      BY <2>1, <3>1, <3>3
  <2>4. CASE m + 1 \in kept
    <3> DEFINE c == Cardinality(K(m))
               x == made[m + 1]
    <3>1. K(m + 1) = K(m) \cup {m + 1} /\ m + 1 \notin K(m)
      BY <1>5, <2>4
    <3>2. seqs[m + 1] = <<x>> /\ x \in S
      BY <1>1, <2>1, <2>4
    <3>3. c \in Nat /\ IsFiniteSet(K(m)) /\ \A i \in K(m) : Cardinality(K(i)) \in 1 .. c
      BY <1>5
    <3>4. Cardinality(K(m + 1)) = c + 1
      BY <3>1, <3>3, FS_AddElement
    <3>5. Len(f[m]) = c /\ \A i \in K(m) : f[m][Cardinality(K(i))] = made[i]
      BY <2>1
    <3> HIDE DEF c, x
    <3>6. <<x>> \in Seq(S) /\ Len(<<x>>) = 1 /\ <<x>>[1] = x
      BY <3>2
    <3>7. /\ Len(f[m] \o <<x>>) = Len(f[m]) + Len(<<x>>)
          /\ \A i \in 1 .. Len(f[m]) + Len(<<x>>) :
                (f[m] \o <<x>>)[i] = IF i <= Len(f[m]) THEN f[m][i] ELSE <<x>>[i - Len(f[m])]
      BY <2>2, <3>6, ConcatProperties
    <3>8. f[m + 1] = f[m] \o <<x>>
      BY <2>2, <3>2
    <3> DEFINE g == f[m]
               h == f[m + 1]
               one == <<x>>
    <3>9. /\ Len(h) = c + 1
          /\ \A i \in 1 .. c + 1 : h[i] = IF i <= c THEN g[i] ELSE one[i - c]
          /\ one[1] = x
      BY <3>5, <3>6, <3>7, <3>8
    <3> HIDE DEF g, h, one
    <3>10. /\ Len(h) = c + 1
           /\ h[c + 1] = x
           /\ \A p \in 1 .. c : h[p] = g[p]
      <4>1. c + 1 \in 1 .. c + 1 /\ ~(c + 1 <= c) /\ (c + 1) - c = 1
        BY <3>3
      <4>2. \A p \in 1 .. c : p \in 1 .. c + 1 /\ p <= c
        BY <3>3
      <4> QED
        BY <3>9, <4>1, <4>2
    <3>11. ASSUME NEW i \in K(m + 1) PROVE f[m + 1][Cardinality(K(i))] = made[i]
      <4>1. CASE i = m + 1
        BY <3>4, <3>10, <4>1 DEF x, h
      <4>2. CASE i \in K(m)
        BY <3>3, <3>5, <3>10, <4>2 DEF g, h
      <4> QED
        BY <3>1, <4>1, <4>2
    <3> QED
      BY <3>4, <3>10, <3>11 DEF h
  <2> QED
    BY <2>3, <2>4
<1>8. Nat \subseteq T
  <2> HIDE DEF T
  <2> QED
    BY <1>6, <1>7, NatSetInduction
<1>9. P(n)
  <2> HIDE DEF P
  <2> QED
    BY <1>8
<1>10. FlattenSeq(seqs) \in Seq(S)
  BY <1>3, <1>4
<1>11. InOrder(f[n], made, kept)
  <2>1. Len(f[n]) = Cardinality(kept) /\ \A i \in kept : f[n][Cardinality(K(i))] = made[i]
    BY <1>5, <1>9
  <2> QED
    BY <2>1, Zenon DEF InOrder, K, UpTo
<1> QED
  BY <1>3, <1>10, <1>11

\* What is left of a list when it is cut at the limit.
LEMMA LimitedIsSeq ==
    ASSUME NEW I, NEW items \in Seq(I), NEW limit \in Nat
    PROVE  /\ Limited(items, limit) \in Seq(I)
           /\ \A i \in DOMAIN Limited(items, limit) : Limited(items, limit)[i] \in I
<1>1. Len(items) \in Nat /\ \A i \in 1 .. Len(items) : items[i] \in I
  BY LenProperties, ElementOfSeq
<1> DEFINE k == Min({limit, Len(items)})
<1>2. k \in Nat /\ k <= Len(items)
  BY <1>1, MinOfTwo
<1> HIDE DEF k
<1>3. \A i \in 1 .. k : items[i] \in I
  BY <1>1, <1>2
<1>4. SubSeq(items, 1, k) \in Seq(I)
  BY <1>2, <1>3, SubSeqProperties
<1>5. Limited(items, limit) \in Seq(I)
  BY <1>4 DEF Limited, k
<1> QED
  BY <1>5, LenProperties, ElementOfSeq

\* Whatever the items of a list are, however many: if no number of those within the limit
\* is too large, the loop over the devices ends, every sound device comes out in its
\* place, and nothing else does.
THEOREM SoundDevicesComeOut ==
    ASSUME NEW I, NEW items \in Seq(I), \A x \in I : IsItem(x),
           \A i \in DOMAIN Limited(items, MaxDevices) :
              ~DeviceTooLarge(Limited(items, MaxDevices)[i])
    PROVE  LET raw == Limited(items, MaxDevices)
           IN  /\ ~DevicesAbort(items)
               /\ InOrder(ParseDevices(items), [i \in DOMAIN raw |-> ParseDevice(raw[i])],
                          {i \in DOMAIN raw : SoundDevice(raw[i])})
               /\ \A i \in DOMAIN ParseDevices(items) : UsableDevice(ParseDevices(items)[i])
<1> DEFINE raw == Limited(items, MaxDevices)
           n == Len(raw)
           made == [i \in DOMAIN raw |-> ParseDevice(raw[i])]
           kept == {i \in DOMAIN raw : SoundDevice(raw[i])}
           S == {made[i] : i \in kept}
           seqs == [i \in DOMAIN raw |-> DeviceOf(raw[i])]
<1>1. raw \in Seq(I) /\ \A i \in DOMAIN raw : raw[i] \in I
  BY LimitedIsSeq, ParseAssumption
<1>2. n \in Nat /\ DOMAIN raw = 1 .. n
  BY <1>1, LenProperties
<1>3. ASSUME NEW i \in DOMAIN raw
      PROVE  /\ IsItem(raw[i]) /\ ~DeviceOverflows(raw[i])
             /\ Skipped(raw[i]) <=> i \notin kept
  <2>1. IsItem(raw[i]) /\ ~DeviceTooLarge(raw[i])
    BY <1>1
  <2> QED
    BY <2>1, SoundDeviceIsKept
<1>4. ~DevicesAbort(items)
  BY <1>3 DEF DevicesAbort
<1>5. ParseDevices(items) = FlattenSeq(seqs)
  BY <1>4 DEF ParseDevices
<1>6. seqs = [i \in 1 .. n |-> IF i \in kept THEN <<made[i]>> ELSE <<>>]
  <2>1. \A i \in DOMAIN raw : DeviceOf(raw[i]) = IF i \in kept THEN <<made[i]>> ELSE <<>>
    <3> SUFFICES ASSUME NEW i \in DOMAIN raw
                 PROVE  DeviceOf(raw[i]) = IF i \in kept THEN <<made[i]>> ELSE <<>>
      OBVIOUS
    <3>1. made[i] = ParseDevice(raw[i]) /\ (Skipped(raw[i]) <=> i \notin kept)
      BY <1>3
    <3> HIDE DEF made, kept, raw
    <3> QED
      BY <3>1 DEF DeviceOf
  <2> HIDE DEF made, kept, raw, n
  <2> QED
    BY <1>2, <2>1
<1>7. kept \in SUBSET (1 .. n) /\ \A i \in kept : made[i] \in S
  BY <1>2
<1>8. \A d \in S : UsableDevice(d)
  <2> SUFFICES ASSUME NEW i \in kept PROVE UsableDevice(made[i])
    OBVIOUS
  <2>1. i \in DOMAIN raw /\ made[i] = ParseDevice(raw[i])
    OBVIOUS
  <2>2. IsItem(raw[i]) /\ ~DeviceOverflows(raw[i]) /\ ~Skipped(raw[i])
    BY <1>3, <2>1
  <2> QED
    BY <2>1, <2>2, ParsedDeviceUsable
<1> HIDE DEF S, made, kept, n, seqs
<1>9. FlattenSeq(seqs) \in Seq(S) /\ InOrder(FlattenSeq(seqs), made, kept)
  BY <1>2, <1>6, <1>7, FlattenInOrder
<1>10. \A i \in DOMAIN FlattenSeq(seqs) : UsableDevice(FlattenSeq(seqs)[i])
  BY <1>8, <1>9, LenProperties, ElementOfSeq
<1> QED
  BY <1>4, <1>5, <1>9, <1>10, Zenon DEF made, kept

\* The same for the signals: every one with a key comes out in its place.
THEOREM SoundSignalsComeOut ==
    ASSUME NEW I, NEW items \in Seq(I),
           \A i \in DOMAIN Limited(items, MaxSignals) :
              ~SignalTooLarge(Limited(items, MaxSignals)[i])
    PROVE  LET raw == Limited(items, MaxSignals)
           IN  /\ ~SignalsAbort(items)
               /\ InOrder(ParseSignals(items), [i \in DOMAIN raw |-> ParseSignal(raw[i])],
                          {i \in DOMAIN raw : raw[i].key # Missing})
               /\ \A i \in DOMAIN ParseSignals(items) : UsableSignal(ParseSignals(items)[i])
<1> DEFINE raw == Limited(items, MaxSignals)
           n == Len(raw)
           made == [i \in DOMAIN raw |-> ParseSignal(raw[i])]
           kept == {i \in DOMAIN raw : raw[i].key # Missing}
           S == {made[i] : i \in kept}
           seqs == [i \in DOMAIN raw |-> SignalOf(raw[i])]
<1>1. raw \in Seq(I)
  BY LimitedIsSeq, ParseAssumption
<1>2. n \in Nat /\ DOMAIN raw = 1 .. n
  BY <1>1, LenProperties
<1>3. ASSUME NEW i \in DOMAIN raw
      PROVE  /\ ~SignalOverflows(raw[i])
             /\ i \in kept => UsableSignal(ParseSignal(raw[i]))
  BY SoundSignalIsKept
<1>4. ~SignalsAbort(items)
  BY <1>3 DEF SignalsAbort
<1>5. ParseSignals(items) = FlattenSeq(seqs)
  BY <1>4 DEF ParseSignals
<1>6. seqs = [i \in 1 .. n |-> IF i \in kept THEN <<made[i]>> ELSE <<>>]
  <2>1. \A i \in DOMAIN raw : SignalOf(raw[i]) = IF i \in kept THEN <<made[i]>> ELSE <<>>
    <3> SUFFICES ASSUME NEW i \in DOMAIN raw
                 PROVE  SignalOf(raw[i]) = IF i \in kept THEN <<made[i]>> ELSE <<>>
      OBVIOUS
    <3>1. made[i] = ParseSignal(raw[i]) /\ (raw[i].key = Missing <=> i \notin kept)
      OBVIOUS
    <3> HIDE DEF made, kept, raw
    <3> QED
      BY <3>1 DEF SignalOf
  <2> HIDE DEF made, kept, raw, n
  <2> QED
    BY <1>2, <2>1
<1>7. kept \in SUBSET (1 .. n) /\ \A i \in kept : made[i] \in S
  BY <1>2
<1>8. \A s \in S : UsableSignal(s)
  <2> SUFFICES ASSUME NEW i \in kept PROVE UsableSignal(made[i])
    OBVIOUS
  <2>1. i \in DOMAIN raw /\ made[i] = ParseSignal(raw[i])
    OBVIOUS
  <2> QED
    BY <1>3, <2>1
<1> HIDE DEF S, made, kept, n, seqs
<1>9. FlattenSeq(seqs) \in Seq(S) /\ InOrder(FlattenSeq(seqs), made, kept)
  BY <1>2, <1>6, <1>7, FlattenInOrder
<1>10. \A i \in DOMAIN FlattenSeq(seqs) : UsableSignal(FlattenSeq(seqs)[i])
  BY <1>8, <1>9, LenProperties, ElementOfSeq
<1> QED
  BY <1>4, <1>5, <1>9, <1>10, Zenon DEF made, kept

-----------------------------------------------------------------------------
(* The theorems.                                                           *)

\* A function is under test with an input of its own.
LEMMA TypeCorrect == Spec => []TypeOK
<1>1. Init => TypeOK
  BY DEF Init, TypeOK
<1>2. TypeOK /\ [Next]_vars => TypeOK'
  <2> SUFFICES ASSUME TypeOK, [Next]_vars PROVE TypeOK'
    OBVIOUS
  <2>1. CASE Choose("plan", PlanInputs)
    BY <2>1 DEF Choose, TypeOK
  <2>2. CASE Choose("health", Snapshots)
    BY <2>2 DEF Choose, TypeOK
  <2>3. CASE Choose("device", Items)
    BY <2>3 DEF Choose, TypeOK
  <2>4. CASE Choose("payload", Payloads)
    BY <2>4 DEF Choose, TypeOK
  <2>5. CASE UNCHANGED vars
    BY <2>5 DEF vars, TypeOK
  <2> QED
    BY <2>1, <2>2, <2>3, <2>4, <2>5 DEF Next
<1> QED
  BY <1>1, <1>2, PTL DEF Spec

\* Every index of a catalogue that the outstation has ends up in the cache: for any
\* catalogue, chunk size and ratio, and whatever indices the outstation lacks.
THEOREM EveryAnswerIsCached == Spec => []FillsWhatAnswers
<1>1. TypeOK => FillsWhatAnswers
  <2> SUFFICES ASSUME TypeOK, what = "plan"
               PROVE  Filled(input.group, input.idxs, input.base_max, input.ratio, input.absent)
                        = IF input.group \in RangeGroups THEN input.idxs \ input.absent ELSE {}
    BY DEF FillsWhatAnswers
  <2>1. input \in PlanInputs
    BY DEF TypeOK
  <2> QED
    BY <2>1, PlanInput, FilledIs
<1> QED
  BY <1>1, TypeCorrect, PTL

\* No request is longer than an outstation answers, and all of them together ask for at
\* most direct_sparse_ratio points per index: for any catalogue.
THEOREM RequestsStayBounded == Spec => []RequestsBounded
<1>1. TypeOK => RequestsBounded
  <2> SUFFICES ASSUME TypeOK, what = "plan" PROVE RequestsBounded
    BY DEF RequestsBounded
  <2>1. input \in PlanInputs
    BY DEF TypeOK
  <2> QED
    BY <2>1, PlanInput, RequestsTotal DEF RequestsBounded
<1> QED
  BY <1>1, TypeCorrect, PTL

\* One more problem never improves the status or the HTTP code: for any fills, ages and
\* uptimes.
THEOREM NoIssueHidesAnother == Spec => []WorseNeverBetter
<1>1. TypeOK => WorseNeverBetter
  <2> SUFFICES ASSUME TypeOK, what = "health", NEW t \in Worse(input)
               PROVE  Rank[Status(t)] >= Rank[Status(input)] /\ HttpCode(t) >= HttpCode(input)
    BY DEF WorseNeverBetter
  <2>1. input \in Snapshots
    BY DEF TypeOK
  <2> QED
    BY <2>1, WorseStatus
<1> QED
  BY <1>1, TypeCorrect, PTL

\* Whatever the numbers of a device item are, the device that comes out is one the
\* adapters can use.
THEOREM DevicesAreUsable == Spec => []DeviceUsable
<1>1. TypeOK => DeviceUsable
  <2> SUFFICES ASSUME TypeOK, what = "device" PROVE DeviceUsable
    BY DEF DeviceUsable
  <2>1. PICK c, s, r, p : input = Item(c, s, r, p)
    BY DEF TypeOK, Items
  <2>2. input.tcp_ports = <<Missing, p, r>> /\ input.master_addresses = <<p, r, Missing>>
    BY <2>1 DEF Item
  <2>3. IsItem(input)
    BY <2>2 DEF IsItem
  <2> QED
    BY <2>3, ParsedDeviceUsable DEF DeviceUsable
<1> QED
  BY <1>1, TypeCorrect, PTL

\* The lists of a payload are sequences of items, unless they are no lists.
LEMMA PayloadInput ==
    ASSUME NEW d \in Payloads, NotList \notin {d.devices, d.signals}
    PROVE  /\ d.devices \in Seq(DeviceItems) /\ \A x \in DeviceItems : IsItem(x)
           /\ d.signals \in Seq(SignalItems)
           /\ d.batch_interval_sec \in {Missing, Garbage} /\ d.max_devices = 200
           /\ d.refresh_nonce \in {Garbage, Infinite, 3}
<1>1. /\ d.devices \in Lists(DeviceItems, MaxLength)
      /\ d.signals \in Lists(SignalItems, MaxLength - 1)
      /\ d.batch_interval_sec \in {Missing, Garbage} /\ d.max_devices = 200
      /\ d.refresh_nonce \in {Garbage, Infinite, 3}
  BY DEF Payloads
<1>2. ASSUME NEW S, NEW k \in Int, NEW l \in Lists(S, k), l # NotList PROVE l \in Seq(S)
  <2>1. PICK n \in 0 .. k : l \in [1 .. n -> S]
    BY <1>2 DEF Lists
  <2> QED
    BY <2>1
<1>3. MaxLength \in Int /\ MaxLength - 1 \in Int
  BY OperatorsAssumption
<1>4. ASSUME NEW c, NEW s, NEW r, NEW p PROVE IsItem(Item(c, s, r, p))
  <2>1. /\ Item(c, s, r, p).tcp_ports = <<Missing, p, r>>
        /\ Item(c, s, r, p).master_addresses = <<p, r, Missing>>
    BY DEF Item
  <2> QED
    BY <2>1 DEF IsItem
<1>5. \A x \in DeviceItems : IsItem(x)
  BY <1>4 DEF DeviceItems
<1> QED
  BY <1>1, <1>2, <1>3, <1>5

\* A damaged item costs nothing but itself, for payloads with lists of any length: unless
\* a number overflows, every sound device and signal within the limits comes out, usable
\* and in its place.
THEOREM DamageStaysLocal == Spec => []DamageIsLocal
<1>1. TypeOK => DamageIsLocal
  <2> DEFINE devices == Limited(input.devices, MaxDevices)
             signals == Limited(input.signals, MaxSignals)
             parsed == _parse_gateway_config(input)
  <2> SUFFICES ASSUME TypeOK, what = "payload",
                      NotList \notin {input.devices, input.signals},
                      input.batch_interval_sec # Garbage, input.refresh_nonce # Infinite,
                      \A i \in DOMAIN devices : ~DeviceTooLarge(devices[i]),
                      \A i \in DOMAIN signals : ~SignalTooLarge(signals[i])
               PROVE  /\ ~Rejected(input)
                      /\ InOrder(parsed.devices, [i \in DOMAIN devices |-> ParseDevice(devices[i])],
                                 {i \in DOMAIN devices : SoundDevice(devices[i])})
                      /\ InOrder(parsed.signals, [i \in DOMAIN signals |-> ParseSignal(signals[i])],
                                 {i \in DOMAIN signals : signals[i].key # Missing})
                      /\ \A i \in DOMAIN parsed.devices : UsableDevice(parsed.devices[i])
                      /\ \A i \in DOMAIN parsed.signals : UsableSignal(parsed.signals[i])
                      /\ parsed.batch_interval_sec # 0 /\ parsed.refresh_nonce \in Nat
    BY Zenon DEF DamageIsLocal
  <2>1. input \in Payloads
    BY DEF TypeOK
  <2>2. /\ input.devices \in Seq(DeviceItems) /\ \A x \in DeviceItems : IsItem(x)
        /\ input.signals \in Seq(SignalItems)
        /\ input.batch_interval_sec = Missing /\ input.max_devices = 200
        /\ input.refresh_nonce \in {Garbage, 3}
    BY <2>1, PayloadInput
  <2>3. /\ ~DevicesAbort(input.devices)
        /\ InOrder(ParseDevices(input.devices),
                   [i \in DOMAIN devices |-> ParseDevice(devices[i])],
                   {i \in DOMAIN devices : SoundDevice(devices[i])})
        /\ \A i \in DOMAIN ParseDevices(input.devices) :
              UsableDevice(ParseDevices(input.devices)[i])
    BY <2>2, SoundDevicesComeOut, Zenon
  <2>4. /\ ~SignalsAbort(input.signals)
        /\ InOrder(ParseSignals(input.signals),
                   [i \in DOMAIN signals |-> ParseSignal(signals[i])],
                   {i \in DOMAIN signals : signals[i].key # Missing})
        /\ \A i \in DOMAIN ParseSignals(input.signals) :
              UsableSignal(ParseSignals(input.signals)[i])
    BY <2>2, SoundSignalsComeOut, Zenon
  <2>5. ~Rejected(input)
    <3>1. Missing \notin {Garbage, Infinite} /\ 200 \notin {Garbage, Infinite}
      BY ParseAssumption
    <3> QED
      BY <2>2, <2>3, <2>4, <3>1 DEF Rejected
  <2>6. /\ parsed.devices = ParseDevices(input.devices)
        /\ parsed.signals = ParseSignals(input.signals)
        /\ parsed.batch_interval_sec = OrDefault(input.batch_interval_sec, 5)
        /\ parsed.refresh_nonce = IF input.refresh_nonce = Garbage THEN 0
                                  ELSE OrDefault(input.refresh_nonce, 0)
    BY <2>5 DEF _parse_gateway_config
  <2>7. parsed.batch_interval_sec # 0 /\ parsed.refresh_nonce \in Nat
    BY <2>2, <2>6 DEF OrDefault
  <2> HIDE DEF devices, signals, parsed
  <2> QED
    BY <2>3, <2>4, <2>5, <2>6, <2>7, Zenon
<1> QED
  BY <1>1, TypeCorrect, PTL
=============================================================================
