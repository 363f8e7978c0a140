----------------------------- MODULE Operators ------------------------------
(***************************************************************************)
(* The pure functions of the gateway, applied to every member of a set of  *)
(* inputs: the direct reads of the dnp3py adapter, the health status, and  *)
(* the configuration parser.                                               *)
(***************************************************************************)
EXTENDS ReadPlan, Health, ConfigParse

CONSTANTS
    \* ReadPlan: object groups, indices of a catalogue, indices that an outstation may
    \* lack, direct_max_points_per_read, direct_sparse_ratio
    Groups, Indices, MayLack, ChunkSizes, Ratios,
    \* Health: fills and sizes of the outbox, seconds since a refresh, uptimes
    Fills, Capacities, Ages, Uptimes,
    \* ConfigParse: raw codes, raw numbers, the longest list of devices
    RawCodes, RawNumbers, MaxLength

\* Indices are those the parser lets through, and the two settings have their least value;
\* sizes are counted.
ASSUME OperatorsAssumption ==
    /\ Indices \subseteq 0 .. MaxIndex
    /\ ChunkSizes \subseteq Nat \ {0}
    /\ Ratios \subseteq Nat \ {0, 1}
    /\ Fills \subseteq Nat /\ Capacities \subseteq Nat
    /\ Ages \subseteq Int /\ Uptimes \subseteq Nat
    /\ RawCodes # {} /\ Missing \notin RawCodes /\ MaxLength \in Nat

VARIABLES
    what,           \* the function under test
    input

vars == <<what, input>>

Init == what = "none" /\ input = <<>>

PlanInputs ==
    [group : Groups, idxs : (SUBSET Indices) \ {{}}, base_max : ChunkSizes, ratio : Ratios,
     absent : SUBSET MayLack]

Snapshots ==
    [config_ready : BOOLEAN, cache_stale : BOOLEAN, refresh_error : BOOLEAN, since_ok : Ages,
     outbox_full : BOOLEAN, pending : Fills, max_pending : Capacities, dead_letter : {0, 1},
     active : BOOLEAN, poll_cycles : {0, 1}, uptime : Uptimes]

\* The same raw value in every number of an item but one: a damaged device.
Item(code, safe, raw, port) ==
    [code |-> code, safe_ip |-> safe, dnp3_address |-> raw, master_ip_port |-> port,
     tcp_ports |-> <<Missing, port, raw>>, master_addresses |-> <<port, raw, Missing>>,
     poll_interval_sec |-> raw, timeout_ms |-> raw, retry_count |-> raw]

Items == {Item(c, s, r, p) : c \in RawCodes \cup {Missing}, s \in BOOLEAN,
                             r \in RawNumbers, p \in RawNumbers}

SignalItem(key, raw) ==
    [key |-> key, dnp3_object_group |-> raw, dnp3_index |-> raw, scale |-> raw, offset |-> raw]

SomeCode == CHOOSE c \in RawCodes : TRUE

\* A sound device, one with a number out of range, one that raises a ValueError, one that
\* is passed over before its numbers matter, and one that overflows.
DeviceItems == {Item(SomeCode, TRUE, 1, 1), Item(SomeCode, TRUE, -1, 1),
                Item(SomeCode, TRUE, Garbage, 1), Item(Missing, TRUE, Infinite, 1),
                Item(SomeCode, TRUE, 1, Infinite)}

\* The same for signals, which overflow in a whole number or in a factor.
SignalItems == {SignalItem(SomeCode, 1), SignalItem(SomeCode, Garbage),
                SignalItem(Missing, Infinite), SignalItem(SomeCode, Infinite),
                SignalItem(SomeCode, MaxFloat + 1)}

Lists(items, length) == (UNION {[1 .. n -> items] : n \in 0 .. length}) \cup {NotList}

Payloads ==
    [devices : Lists(DeviceItems, MaxLength), signals : Lists(SignalItems, MaxLength - 1),
     batch_interval_sec : {Missing, Garbage}, max_devices : {200},
     refresh_nonce : {Garbage, Infinite, 3}]

Choose(w, inputs) ==
    /\ what = "none"
    /\ what' = w
    /\ input' \in inputs

Next ==
    \/ Choose("plan", PlanInputs)
    \/ Choose("health", Snapshots)
    \/ Choose("device", Items)
    \/ Choose("payload", Payloads)

Spec == Init /\ [][Next]_vars

-----------------------------------------------------------------------------
(* Properties.                                                             *)

\* A function is under test with an input of its own.
TypeOK ==
    \/ what = "none"
    \/ what = "plan" /\ input \in PlanInputs
    \/ what = "health" /\ input \in Snapshots
    \/ what = "device" /\ input \in Items
    \/ what = "payload" /\ input \in Payloads

\* Every index of the catalogue that the outstation has ends up in the cache, whatever
\* the others do to the ranges and chunks it is read in.
FillsWhatAnswers ==
    what = "plan" =>
        Filled(input.group, input.idxs, input.base_max, input.ratio, input.absent)
            = IF input.group \in RangeGroups THEN input.idxs \ input.absent ELSE {}

\* No request exceeds the size an outstation answers in time, and all of them together
\* ask for at most direct_sparse_ratio points per point that is needed.
RequestsBounded ==
    what = "plan" =>
        LET requests == Requests(input.group, input.idxs, input.base_max, input.ratio)
        IN  /\ \A r \in requests : Cardinality(Asked(r)) <=
                    _effective_read_chunk_size(input.base_max, input.group)
            /\ Cardinality(UNION {Asked(r) : r \in requests})
                    <= Cardinality(input.idxs) * input.ratio

Rank == [ok |-> 0, starting |-> 0, degraded |-> 1, unhealthy |-> 2]

\* One more problem in a snapshot.
Worse(s) ==
    {[s EXCEPT !.cache_stale = TRUE], [s EXCEPT !.refresh_error = TRUE],
     [s EXCEPT !.outbox_full = TRUE], [s EXCEPT !.dead_letter = 1],
     [s EXCEPT !.pending = Max({@, s.max_pending})], [s EXCEPT !.active = TRUE, !.poll_cycles = 0]}

\* One more problem never makes the status better, and an HTTP probe never sees 200
\* for a snapshot that is worse than one with 503: no issue hides a graver one.
WorseNeverBetter ==
    what = "health" =>
        \A t \in Worse(input) :
            /\ Rank[Status(t)] >= Rank[Status(input)]
            /\ HttpCode(t) >= HttpCode(input)

\* Numbers that DNP3 and the poll loop can take.
UsableDevice(d) ==
    /\ d.dnp3_address \in 0 .. MaxAddress
    /\ d.master_address \in {NoPort} \cup 0 .. MaxAddress
    /\ {d.dnp3_tcp_port, d.master_ip_port} \subseteq {NoPort} \cup 1 .. MaxPort
    /\ d.poll_interval_sec \in 1 .. MaxInterval
    /\ d.timeout_ms \in 100 .. MaxTimeout
    /\ d.retry_count \in 0 .. MaxRetries

UsableSignal(s) ==
    /\ s.dnp3_object_group \in 0 .. MaxGroup
    /\ s.dnp3_index \in 0 .. MaxIndex
    /\ {s.scale, s.offset} \subseteq -MaxFloat .. MaxFloat

\* Whatever the payload says, the adapters get numbers that DNP3 and the poll loop can
\* take: no interval below a second, no reserved link address, no port 0.
DeviceUsable ==
    what = "device" /\ ~Skipped(input) /\ ~DeviceOverflows(input) =>
        UsableDevice(ParseDevice(input))

\* What the raw fields of an item say about it.  An item that overflows has an infinite
\* number somewhere, or a factor that no float can hold; a sound one has a code, a proper
\* address, and something int() takes where the parser does not shield it.
RawNumbersOf(item) ==
    {item.dnp3_address, item.master_ip_port, item.poll_interval_sec, item.timeout_ms,
     item.retry_count} \cup Range(item.tcp_ports) \cup Range(item.master_addresses)

DeviceTooLarge(item) == item.code # Missing /\ item.safe_ip /\ Infinite \in RawNumbersOf(item)
SignalTooLarge(item) ==
    /\ item.key # Missing
    /\ \/ Infinite \in {item.dnp3_object_group, item.dnp3_index}
       \/ \E raw \in {item.scale, item.offset} :
              IsNumber(raw) /\ raw \notin -MaxFloat .. MaxFloat

SoundDevice(item) ==
    /\ item.code # Missing /\ item.safe_ip
    /\ item.dnp3_address # Garbage
    /\ item.master_ip_port \notin {Garbage, Falsy}

\* out holds what was made at the places in kept, in order and without a gap.
InOrder(out, made, kept) ==
    /\ Len(out) = Cardinality(kept)
    /\ \A i \in kept : out[Cardinality({j \in kept : j <= i})] = made[i]

\* A damaged device or signal costs nothing but itself, wherever it stands: the sound ones
\* within the limit all come out, usable and in their order.  The one kind of damage that
\* reaches further is a number that overflows: it costs the whole configuration, and the
\* gateway stays with the one it has.
DamageIsLocal ==
    what = "payload" =>
        LET devices == Limited(input.devices, MaxDevices)
            signals == Limited(input.signals, MaxSignals)
            parsed == _parse_gateway_config(input)
        IN  \/ NotList \in {input.devices, input.signals}
            \/ input.batch_interval_sec = Garbage \/ input.refresh_nonce = Infinite
            \/ \E i \in DOMAIN devices : DeviceTooLarge(devices[i])
            \/ \E i \in DOMAIN signals : SignalTooLarge(signals[i])
            \/ /\ ~Rejected(input)
               /\ InOrder(parsed.devices, [i \in DOMAIN devices |-> ParseDevice(devices[i])],
                          {i \in DOMAIN devices : SoundDevice(devices[i])})
               /\ InOrder(parsed.signals, [i \in DOMAIN signals |-> ParseSignal(signals[i])],
                          {i \in DOMAIN signals : signals[i].key # Missing})
               /\ \A i \in DOMAIN parsed.devices : UsableDevice(parsed.devices[i])
               /\ \A i \in DOMAIN parsed.signals : UsableSignal(parsed.signals[i])
               /\ parsed.batch_interval_sec # 0 /\ parsed.refresh_nonce \in Nat
=============================================================================
