---------------------------- MODULE ConfigParse -----------------------------
(***************************************************************************)
(* _parse_gateway_config: what the gateway makes of a payload, the damaged *)
(* ones included.  A raw field is a number, Missing (absent, null or an    *)
(* empty string), Garbage or Falsy (int() raises a TypeError or ValueError *)
(* on it; an empty list, which is Falsy, also gives way to the default     *)
(* after "or"), or Infinite (1e999 in JSON: int() raises an OverflowError, *)
(* which no except clause of the parser names).  A raw code is a pair: the *)
(* part _truncate keeps and the rest.                                      *)
(***************************************************************************)
EXTENDS Integers, SequencesExt, FiniteSetsExt

CONSTANTS
    Missing, Garbage, Falsy, Infinite,  \* raw fields that are no numbers
    NoPort,                 \* the default port or address of the gateway is used
    ValueError,             \* a TypeError or ValueError: the item is skipped
    OverflowError,          \* passes every except clause of the parser
    Refused,                \* an exception in place of a configuration
    NotList,                \* a devices or signals field that is no list
    MaxFloat,               \* the largest whole number float() takes
    MaxDevices,             \* _MAX_DEVICES_HARD_LIMIT
    MaxSignals              \* _MAX_SIGNALS_HARD_LIMIT

Errors == {ValueError, OverflowError}

ASSUME ParseAssumption ==
    /\ MaxDevices \in Nat \ {0} /\ MaxSignals \in Nat \ {0} /\ MaxFloat \in Nat \ {0}
    /\ \A e \in Errors : e \notin Int /\ e # NoPort
    /\ ValueError # OverflowError
    /\ \A raw \in {Missing, Garbage, Falsy, Infinite} : raw \notin Int
    /\ Infinite \notin {Missing, Garbage, Falsy} /\ Garbage \notin {Missing, Falsy}

\* The upper ends of the ranges a number is taken from.
MaxAddress == 65519
MaxPort == 65535
MaxIndex == 65535
MaxGroup == 255
MaxInterval == 3600
MaxTimeout == 60000
MaxRetries == 20

IsNumber(raw) == raw \notin {Missing, Garbage, Falsy, Infinite}
InRange(raw, lo, hi) == IsNumber(raw) /\ raw \in lo .. hi

\* Mutant of _safe_int: the lower end is not looked at.
SafeIntUpperOnly(raw, default, lo, hi) ==
    IF raw = Infinite THEN OverflowError
    ELSE IF IsNumber(raw) /\ raw <= hi THEN raw ELSE default

\* Out of range means the default, not the nearer end.
_safe_int(raw, default, lo, hi) ==
    IF raw = Infinite THEN OverflowError
    ELSE IF InRange(raw, lo, hi) THEN raw ELSE default

\* float() of a whole number too large for it overflows, while infinity is only not finite.
_safe_finite_float(raw, default) ==
    IF ~IsNumber(raw) THEN default
    ELSE IF raw \in -MaxFloat .. MaxFloat THEN raw ELSE OverflowError

\* The first of several field names that holds a usable number, unless an infinite one
\* comes before it.
FirstInRange(raws, lo, hi) ==
    LET decisive == {i \in DOMAIN raws : raws[i] = Infinite \/ InRange(raws[i], lo, hi)}
    IN  IF decisive = {} THEN NoPort ELSE _safe_int(raws[Min(decisive)], NoPort, lo, hi)

_parse_optional_dnp3_tcp_port(item) == FirstInRange(item.tcp_ports, 1, MaxPort)
_parse_optional_master_address(item) == FirstInRange(item.master_addresses, 0, MaxAddress)

_truncate(code) == code[1]

\* The address goes through int() once more, as "raw or 0", for the warning about a range.
ParseAddress(raw) == IF raw = Garbage THEN ValueError ELSE _safe_int(raw, 1, 0, MaxAddress)

\* int() without _safe_int around it.
ParseMasterPort(raw) ==
    IF raw \in {Garbage, Falsy} THEN ValueError ELSE _safe_int(raw, NoPort, 1, MaxPort)

ParseDevice(item) ==
    [code |-> _truncate(item.code),
     dnp3_address |-> ParseAddress(item.dnp3_address),
     dnp3_tcp_port |-> _parse_optional_dnp3_tcp_port(item),
     master_address |-> _parse_optional_master_address(item),
     master_ip_port |-> ParseMasterPort(item.master_ip_port),
     poll_interval_sec |-> _safe_int(item.poll_interval_sec, 5, 1, MaxInterval),
     timeout_ms |-> _safe_int(item.timeout_ms, 3000, 100, MaxTimeout),
     retry_count |-> _safe_int(item.retry_count, 2, 0, MaxRetries)]

ParseSignal(item) ==
    [key |-> _truncate(item.key),
     dnp3_object_group |-> _safe_int(item.dnp3_object_group, 30, 0, MaxGroup),
     dnp3_index |-> _safe_int(item.dnp3_index, 0, 0, MaxIndex),
     scale |-> _safe_finite_float(item.scale, 1),
     offset |-> _safe_finite_float(item.offset, 0)]

\* The numbers of a device in the order they are evaluated in.
DeviceNumbers(item) ==
    LET d == ParseDevice(item)
    IN  <<d.dnp3_address, d.dnp3_tcp_port, d.master_address, d.master_ip_port,
          d.poll_interval_sec, d.timeout_ms, d.retry_count>>

\* The first value that is an error is the one that is raised.
Raises(values, error) ==
    \E i \in DOMAIN values :
        values[i] = error /\ \A j \in 1 .. i - 1 : values[j] \notin Errors

\* An item is passed over without a code or with an address that looks like a URL or a
\* path, before any number of it is read.
PassedOver(item) == item.code = Missing \/ ~item.safe_ip

\* The except clause takes a TypeError or ValueError for the end of the item ...
Skipped(item) == PassedOver(item) \/ Raises(DeviceNumbers(item), ValueError)

\* ... and lets an OverflowError end the loop, and with it the parser.  No number of a
\* signal raises anything else.
DeviceOverflows(item) == ~PassedOver(item) /\ Raises(DeviceNumbers(item), OverflowError)
SignalOverflows(item) ==
    /\ item.key # Missing
    /\ LET s == ParseSignal(item)
       IN  OverflowError \in {s.scale, s.offset, s.dnp3_object_group, s.dnp3_index}

\* The list is cut at the limit before the items are looked at.
Limited(items, limit) == SubSeq(items, 1, Min({limit, Len(items)}))

\* The loops that an OverflowError ends.
DevicesAbort(items) ==
    LET raw == Limited(items, MaxDevices) IN \E i \in DOMAIN raw : DeviceOverflows(raw[i])
SignalsAbort(items) ==
    LET raw == Limited(items, MaxSignals) IN \E i \in DOMAIN raw : SignalOverflows(raw[i])

\* Mutant of ParseDevices: the first item that is skipped ends the loop.
ParseUntilSkipped(items) ==
    LET raw == Limited(items, MaxDevices)
        bad == {i \in DOMAIN raw : Skipped(raw[i])}
        good == IF bad = {} THEN raw ELSE SubSeq(raw, 1, Min(bad) - 1)
    IN  IF DevicesAbort(items) THEN OverflowError
        ELSE [i \in DOMAIN good |-> ParseDevice(good[i])]

\* What an item adds to the result: one device or none.
DeviceOf(item) == IF Skipped(item) THEN <<>> ELSE <<ParseDevice(item)>>
SignalOf(item) == IF item.key = Missing THEN <<>> ELSE <<ParseSignal(item)>>

ParseDevices(items) ==
    LET raw == Limited(items, MaxDevices)
    IN  IF DevicesAbort(items) THEN OverflowError
        ELSE FlattenSeq([i \in DOMAIN raw |-> DeviceOf(raw[i])])

ParseSignals(items) ==
    LET raw == Limited(items, MaxSignals)
    IN  IF SignalsAbort(items) THEN OverflowError
        ELSE FlattenSeq([i \in DOMAIN raw |-> SignalOf(raw[i])])

\* int(data.get(...) or default): 0 is the default too.
OrDefault(raw, default) == IF raw \in {Missing, Falsy, 0} THEN default ELSE raw

\* Damage that no default hides: a GatewayConfigError, or a ValueError or OverflowError
\* that fetch_config passes on.
Rejected(data) ==
    \/ NotList \in {data.devices, data.signals}
    \/ DevicesAbort(data.devices) \/ SignalsAbort(data.signals)
    \/ data.refresh_nonce = Infinite
    \/ \E raw \in {data.batch_interval_sec, data.max_devices} : raw \in {Garbage, Infinite}

_parse_gateway_config(data) ==
    IF Rejected(data) THEN Refused
    ELSE [devices |-> ParseDevices(data.devices),
          signals |-> ParseSignals(data.signals),
          batch_interval_sec |-> OrDefault(data.batch_interval_sec, 5),
          max_devices |-> OrDefault(data.max_devices, 200),
          refresh_nonce |-> IF data.refresh_nonce = Garbage THEN 0
                            ELSE OrDefault(data.refresh_nonce, 0)]
=============================================================================
