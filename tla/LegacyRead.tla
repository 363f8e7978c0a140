----------------------------- MODULE LegacyRead -----------------------------
(***************************************************************************)
(* What read_device of the dnp3py adapter returns for one device, poll     *)
(* after poll: the four read strategies of Dnp3DeviceSession and the value *)
(* cache of the event-driven one, which outlives its session.              *)
(*                                                                         *)
(* One poll at a time; LegacySessions has the threads and locks.  A read   *)
(* brings any part of the points: requests fail one by one, and groups     *)
(* that come after a lost link are not asked for at all.                   *)
(***************************************************************************)
EXTENDS Naturals

CONSTANTS
    Points,         \* group and index
    Values,         \* raw values
    Addresses,      \* what _fingerprint may be
    None,           \* no value, no address
    Invalid,        \* the quality invalid
    NoChange        \* the quality no_change, which poll_device does not publish

ASSUME LegacyReadAssumption ==
    /\ {None, Invalid, NoChange} \cap Values = {}
    /\ Invalid # NoChange /\ None \notin {Invalid, NoChange}
    /\ None \notin Addresses

VARIABLES
    strategy,       \* _read_strategy
    config,         \* the configured address, or None while the device is removed
    signals,        \* the points of the configured signals
    value,          \* what the outstation at the configured address would answer
    registered,     \* the address of the session in _sessions, or None
    cache,          \* the device's entry of _device_event_cache
    due,            \* the baseline interval has passed since _device_baseline_at
    reported,       \* the last reading of each point that publish took
    \* history
    hidden          \* points whose cached value no reading has told: see CacheIsReported

configVars == <<strategy, config, signals, value>>
vars == <<configVars, registered, cache, due, reported, hidden>>

Strategies == {"integrity", "class0", "direct", "event_driven"}
Empty == [p \in Points |-> None]
Cached == {p \in Points : cache[p] # None}

\* Dnp3TelemetryReader.__init__.  A fresh _device_baseline_at is 0.0, which is less than
\* an interval ago on a host that has just been started.
Init ==
    /\ strategy \in Strategies
    /\ config \in Addresses
    /\ signals \in (SUBSET Points) \ {{}}
    /\ value \in [Points -> Values]
    /\ registered = None
    /\ cache = Empty
    /\ due \in BOOLEAN
    /\ reported = Empty
    /\ hidden = {}

-----------------------------------------------------------------------------
(* The surroundings.                                                       *)

PointChanges(p, v) ==
    /\ value' = [value EXCEPT ![p] = v]
    /\ UNCHANGED <<strategy, config, signals, registered, cache, due, reported, hidden>>

\* The backend knows nothing of a removed device when it is added again.
RemoveDevice ==
    /\ config # None
    /\ config' = None
    /\ reported' = Empty
    /\ hidden' = Cached
    /\ UNCHANGED <<strategy, signals, value, registered, cache, due>>

\* The device is added, or another outstation takes its place.
SetAddress(a) ==
    /\ config # a
    /\ config' = a
    /\ value' \in [Points -> Values]
    /\ UNCHANGED <<strategy, signals, registered, cache, due, reported, hidden>>

\* A signal that leaves the catalogue takes its reading with it.
SetSignals(s) ==
    /\ signals' = s
    /\ reported' = [p \in Points |-> IF p \in s THEN reported[p] ELSE None]
    /\ hidden' = hidden \cup (Cached \ s)
    /\ UNCHANGED <<strategy, config, value, registered, cache, due>>

IntervalPasses ==
    /\ ~due
    /\ due' = TRUE
    /\ UNCHANGED <<configVars, registered, cache, reported, hidden>>

\* forget_devices looks at the sessions only: the cache of a removed device whose
\* session was evicted stays.
ForgetDevice ==
    /\ config = None
    /\ registered # None
    /\ registered' = None
    /\ cache' = Empty
    /\ due' \in BOOLEAN
    /\ hidden' = {}
    /\ UNCHANGED <<configVars, reported>>

-----------------------------------------------------------------------------
(* read_batch, one action per strategy and outcome.                        *)

\* _get_session has a session for this address, or makes one and ends the one there was.
Polled == config # None

\* poll_device publishes what is not no_change.  publish may raise: an error loses that
\* reading, OutboxFullError the rest as well, so that any part of them is kept.  A value
\* absorbed before, refused now, or outside the catalogue, is told to nobody.
Publish(readings, absorbed, kept) ==
    LET sent == {p \in signals : readings[p] # NoChange}
    IN  /\ kept \subseteq sent
        /\ reported' = [p \in Points |-> IF p \in kept THEN readings[p] ELSE reported[p]]
        /\ hidden' = (hidden \cup (absorbed \ signals) \cup (absorbed \cap sent)) \ kept

\* What a read of the points in got leaves in a cache.
Absorb(old, got) == [p \in Points |-> IF p \in got THEN value[p] ELSE old[p]]

\* The session stays, or its link is found down and it is evicted.
KeepOrEvict == registered' \in {config, None}

\* connect fails: the poll ends there, without a session.
ConnectFails ==
    /\ Polled
    /\ registered # config
    /\ registered' = None
    /\ UNCHANGED <<configVars, cache, due, reported, hidden>>

\* Mutant of BaselineDue: there is one baseline, the first.
FirstBaselineOnly == cache = Empty

BaselineDue == cache = Empty \/ due

\* _materialize_from_cache; with force_good every point counts as changed.
Materialize(c, good) ==
    [p \in Points |-> IF c[p] = None THEN Invalid
                      ELSE IF p \in good THEN c[p] ELSE NoChange]

\* A baseline: all signals are read directly, which brings also points between them, and
\* every cached value is published as good, those not read this time included.
Baseline(got, kept) ==
    /\ strategy = "event_driven"
    /\ Polled
    /\ BaselineDue
    /\ cache' = Absorb(cache, got)
    /\ cache' # Empty
    /\ due' = FALSE
    /\ Publish(Materialize(cache', Points), got, kept)
    /\ KeepOrEvict
    /\ UNCHANGED configVars

\* The first baseline brings nothing: no_change for all, and the session is given up.
BaselineFails ==
    /\ strategy = "event_driven"
    /\ Polled
    /\ cache = Empty
    /\ registered' = None
    /\ UNCHANGED <<configVars, cache, due, reported, hidden>>

\* An error the sequential reads let through: what was read stays in the cache, nothing
\* is published, and the session stays in the table.
BaselineRaises(got) ==
    /\ strategy = "event_driven"
    /\ Polled
    /\ BaselineDue
    /\ cache' = Absorb(cache, got)
    /\ hidden' = hidden \cup got
    /\ registered' = config
    /\ UNCHANGED <<configVars, due, reported>>

\* Mutant of Changed: a point not yet in the cache is not a change.
ChangedKnown(got) == {p \in got : cache[p] # None /\ cache[p] # value[p]}

\* _absorb_poll_into_cache
Changed(got) == {p \in got : cache[p] # value[p]}

\* The polls of classes 1, 2 and 3, each tried twice, bring any points, also ones that
\* are not in the catalogue.
Events(got, kept) ==
    /\ strategy = "event_driven"
    /\ Polled
    /\ ~BaselineDue
    /\ cache' = Absorb(cache, got)
    /\ Publish(Materialize(cache', Changed(got)), got, kept)
    /\ KeepOrEvict
    /\ UNCHANGED <<configVars, due>>

\* Mutant of Readings: the raw value that stands for "not read" is good.
ReadingsOrDefault(got) ==
    [p \in Points |-> IF p \in got THEN value[p] ELSE CHOOSE v \in Values : TRUE]

\* Mutant of Readings: what could not be read is invalid.
ReadingsOrInvalid(got) == [p \in Points |-> IF p \in got THEN value[p] ELSE Invalid]

\* What is read is good, the rest is no_change.
Readings(got) == [p \in Points |-> IF p \in got THEN value[p] ELSE NoChange]

Direct(got, kept) ==
    /\ strategy = "direct"
    /\ Polled
    /\ got \subseteq signals
    /\ Publish(Readings(got), {}, kept)
    /\ KeepOrEvict
    /\ UNCHANGED <<configVars, cache, due>>

\* One poll in two attempts; a point it does not bring is read directly.  The connection
\* is given up whatever they bring.
ClassPoll(got, kept) ==
    /\ strategy \in {"class0", "integrity"}
    /\ Polled
    /\ got \subseteq signals
    /\ Publish(Readings(got), {}, kept)
    /\ registered' = None
    /\ UNCHANGED <<configVars, cache, due>>

\* A single read lets an error through that is no DNP3Error: nothing is published, and
\* the session stays in the table with its connection.
ReadRaises ==
    /\ strategy # "event_driven"
    /\ Polled
    /\ registered' = config
    /\ UNCHANGED <<configVars, cache, due, reported, hidden>>

Read(got, kept) ==
    \/ Baseline(got, kept)
    \/ Events(got, kept)
    \/ Direct(got, kept)
    \/ ClassPoll(got, kept)

Next ==
    \/ \E p \in Points, v \in Values : PointChanges(p, v)
    \/ RemoveDevice
    \/ \E a \in Addresses : SetAddress(a)
    \/ \E s \in (SUBSET Points) \ {{}} : SetSignals(s)
    \/ IntervalPasses
    \/ ForgetDevice
    \/ ConnectFails
    \/ \E got, kept \in SUBSET Points : Read(got, kept)
    \/ \E got \in SUBSET Points : BaselineRaises(got)
    \/ BaselineFails
    \/ ReadRaises

Spec == Init /\ [][Next]_vars

\* Time passes, cycles forget removed devices, and a device polled again and again
\* answers completely in the end, in a poll whose readings are all published.
Fairness ==
    /\ WF_vars(IntervalPasses)
    /\ WF_vars(ForgetDevice)
    /\ SF_vars(Read(signals, signals) /\ strategy # "event_driven")
    /\ SF_vars(Baseline(signals, signals))

LiveSpec == Spec /\ Fairness

-----------------------------------------------------------------------------
(* Properties.                                                             *)

\* The types of the state.  Only the event-driven strategy uses the cache.
TypeOK ==
    /\ strategy \in Strategies
    /\ config \in Addresses \cup {None}
    /\ signals \in (SUBSET Points) \ {{}}
    /\ value \in [Points -> Values]
    /\ registered \in Addresses \cup {None}
    /\ cache \in [Points -> Values \cup {None}]
    /\ due \in BOOLEAN
    /\ reported \in [Points -> Values \cup {None, Invalid}]
    /\ hidden \subseteq Cached
    /\ strategy # "event_driven" => cache = Empty

\* What poll_device is told not to publish is known already: a cached value is the one
\* that was reported last.  The exceptions, until the point is published again: one
\* absorbed by a baseline that raised, or while it was not in the catalogue, or whose
\* reading publish refused, or kept for a removed device whose session had been evicted.
CacheIsReported ==
    \A p \in Points : cache[p] # None /\ p \notin hidden => reported[p] = cache[p]

\* A reading that changes what the backend knows tells what the outstation has at that
\* moment: the cached values a baseline publishes as good without having read them are
\* not news, but for the same exceptions.
NewsIsTrue ==
    [][\A p \in Points : reported'[p] \in Values \ {reported[p]}
                             => reported'[p] = value[p] \/ p \in hidden]_vars

\* A point whose value is known does not become invalid because later reads fail
\* ("son iyi degeri korusun").
GoodIsKept ==
    [][\A p \in Points : reported[p] \in Values => reported'[p] # Invalid]_vars

\* What the three rest on: only the cache of a configured device is reported from, and it
\* has every point whose value was reported.
LegacyReadInv ==
    /\ TypeOK
    /\ CacheIsReported
    /\ config = None => reported = Empty
    /\ strategy = "event_driven" =>
          \A p \in Points : reported[p] \in Values => cache[p] # None

\* Whatever failed before, whichever outstation the cache was filled from: once the
\* value of a signal stays, it is what was reported last.
Converges ==
    \A p \in Points :
        /\ <>[](config # None /\ p \in signals)
        /\ <>[][UNCHANGED <<config, signals, value>>]_vars
        => <>[](reported[p] = value[p])
=============================================================================
