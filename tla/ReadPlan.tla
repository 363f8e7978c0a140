------------------------------ MODULE ReadPlan ------------------------------
(***************************************************************************)
(* How the dnp3py adapter reads the indices of one object group directly:  *)
(* one by one when they are sparse, in one range, or in chunks, with a     *)
(* fallback to single reads where a range fails.                           *)
(***************************************************************************)
EXTENDS Integers, FiniteSets, FiniteSetsExt

AnalogInput == 30
RangeGroups == {1, 10, 20, 30, 40}
AnalogMaxChunk == 12        \* _ANALOG_GROUPS_MAX_CHUNK

_effective_read_chunk_size(base_max, group) ==
    IF group = AnalogInput THEN Min({base_max, AnalogMaxChunk}) ELSE base_max

\* A request asks for a closed range of indices.
Request(a, b) == [start |-> a, end |-> b]
Asked(r) == r.start .. r.end

\* The chunks of the loop in _direct_fill_range_chunked.
_direct_fill_range_chunked(lo, hi, nmax) ==
    LET chunks[a \in lo .. hi + 1] ==
            IF a > hi THEN {}
            ELSE LET b == Min({a + nmax - 1, hi})
                 IN  {Request(a, b)} \cup chunks[b + 1]
    IN  chunks[lo]

Singles(idxs) == {Request(i, i) : i \in idxs}
Span(idxs) == Max(idxs) - Min(idxs) + 1

\* Mutant of IsSparse: the test is left out.
NeverSparse(idxs, ratio) == FALSE

IsSparse(idxs, ratio) == Cardinality(idxs) * ratio < Span(idxs)

\* The requests of _read_batch_direct and _absorb_signals_via_direct for a group, before
\* any fails.  Groups that cannot be read in ranges cannot be read at all.
Requests(group, idxs, base_max, ratio) ==
    LET eff == _effective_read_chunk_size(base_max, group)
        lo == Min(idxs)
        hi == Max(idxs)
    IN  IF group \notin RangeGroups THEN {}
        ELSE IF IsSparse(idxs, ratio) THEN Singles(idxs)
        ELSE IF Span(idxs) <= eff THEN {Request(lo, hi)}
        ELSE _direct_fill_range_chunked(lo, hi, eff)

\* Mutant of Fallback: a range that fails is given up.
NoFallback(r, idxs) == {}

\* _direct_fill_sequential_indices on the needed indices of a range that failed.
Fallback(r, idxs) == Singles(idxs \cap Asked(r))

\* An outstation refuses a request that touches an index it does not have.
Answered(r, absent) == Asked(r) \cap absent = {}

\* The indices that end up in the cache.
Filled(group, idxs, base_max, ratio, absent) ==
    LET first == Requests(group, idxs, base_max, ratio)
        failed == {r \in first : ~Answered(r, absent)}
        again == UNION {Fallback(r, idxs) : r \in failed}
        answered == {r \in first \cup again : Answered(r, absent)}
    IN  (UNION {Asked(r) : r \in answered}) \cap idxs
=============================================================================
