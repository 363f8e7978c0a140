-------------------------- MODULE LegacyRead_proofs -------------------------
(***************************************************************************)
(* Proofs about LegacyRead for any points, values and addresses: the       *)
(* inductive invariant LegacyReadInv, and what the steps of a read may do  *)
(* to the readings the backend has.                                        *)
(***************************************************************************)
EXTENDS LegacyRead, TLAPS

\* An adapter that has just been made satisfies the invariant.
LEMMA InitInv == Init => LegacyReadInv
  BY LegacyReadAssumption
     DEF Init, LegacyReadInv, TypeOK, CacheIsReported, Empty, Cached, Strategies

\* What a read leaves in the cache: the points it brought, the others as they were.
LEMMA AbsorbFacts ==
    ASSUME TypeOK, NEW got \in SUBSET Points
    PROVE  /\ Absorb(cache, got) \in [Points -> Values \cup {None}]
           /\ \A p \in got : Absorb(cache, got)[p] = value[p] /\ value[p] \in Values
           /\ \A p \in Points \ got : Absorb(cache, got)[p] = cache[p]
  BY DEF TypeOK, Absorb

\* Publishing readings of the right type keeps the types of what was reported, and
\* touches only what was kept, which is part of the catalogue.
LEMMA PublishFacts ==
    ASSUME TypeOK, NEW readings \in [Points -> Values \cup {Invalid, NoChange}],
           NEW absorbed \in SUBSET Points, NEW kept \in SUBSET Points,
           Publish(readings, absorbed, kept)
    PROVE  /\ reported' \in [Points -> Values \cup {None, Invalid}]
           /\ \A p \in kept : /\ p \in signals /\ readings[p] # NoChange
                              /\ reported'[p] = readings[p] /\ p \notin hidden'
           /\ \A p \in Points \ kept :
                /\ reported'[p] = reported[p]
                /\ p \in hidden' <=> \/ p \in hidden
                                     \/ p \in absorbed /\ p \notin signals
                                     \/ p \in absorbed /\ readings[p] # NoChange
  BY DEF TypeOK, Publish

\* What _materialize_from_cache returns.
LEMMA MaterializeFacts ==
    ASSUME NEW c \in [Points -> Values \cup {None}], NEW good \in SUBSET Points
    PROVE  /\ Materialize(c, good) \in [Points -> Values \cup {Invalid, NoChange}]
           /\ \A p \in Points : c[p] = None => Materialize(c, good)[p] = Invalid
           /\ \A p \in Points : c[p] # None /\ p \in good
                => Materialize(c, good)[p] = c[p] /\ c[p] \in Values
           /\ \A p \in Points : c[p] # None /\ p \notin good
                => Materialize(c, good)[p] = NoChange
  BY DEF Materialize

\* What read_batch returns for the other strategies.
LEMMA ReadingsFacts ==
    ASSUME TypeOK, NEW got \in SUBSET Points
    PROVE  /\ Readings(got) \in [Points -> Values \cup {Invalid, NoChange}]
           /\ \A p \in Points : Readings(got)[p] \in {value[p], NoChange}
  BY DEF TypeOK, Readings

\* What any read does to the readings of a point in the catalogue.
LEMMA ReadStep ==
    ASSUME LegacyReadInv, NEW got \in SUBSET Points, NEW kept \in SUBSET Points,
           Read(got, kept)
    PROVE  /\ LegacyReadInv'
           /\ \A p \in Points : reported'[p] \in Values \ {reported[p]}
                => reported'[p] = value[p] \/ p \in hidden
           /\ \A p \in Points : reported[p] \in Values => reported'[p] # Invalid
<1> DEFINE new == Absorb(cache, got)
<1>a. TypeOK
  BY DEF LegacyReadInv
<1>b. /\ new \in [Points -> Values \cup {None}]
      /\ \A p \in got : new[p] = value[p] /\ value[p] \in Values
      /\ \A p \in Points \ got : new[p] = cache[p]
  BY <1>a, AbsorbFacts
<1> HIDE DEF new
<1> USE LegacyReadAssumption
<1>1. CASE Baseline(got, kept)
  <2>1. /\ cache' = new /\ Publish(Materialize(new, Points), got, kept)
        /\ strategy = "event_driven" /\ UNCHANGED configVars /\ config # None
        /\ due' = FALSE /\ registered' \in {config, None}
    BY <1>1 DEF Baseline, Polled, KeepOrEvict, new
  <2>2. /\ reported' \in [Points -> Values \cup {None, Invalid}]
        /\ \A p \in kept : /\ p \notin hidden'
                           /\ reported'[p] = IF new[p] = None THEN Invalid ELSE new[p]
        /\ \A p \in Points \ kept :
              /\ reported'[p] = reported[p]
              /\ p \in hidden' <=> p \in hidden \/ p \in got
    <3>1. /\ Materialize(new, Points) \in [Points -> Values \cup {Invalid, NoChange}]
          /\ \A p \in Points : Materialize(new, Points)[p]
                                 = IF new[p] = None THEN Invalid ELSE new[p]
          /\ \A p \in Points : Materialize(new, Points)[p] # NoChange
      BY <1>b, MaterializeFacts
    <3> QED
      BY <1>a, <2>1, <3>1, PublishFacts
  <2>3. hidden' \subseteq Points
    BY <1>a, <2>1 DEF TypeOK, Publish, Cached
  <2>4. /\ TypeOK' /\ CacheIsReported'
    BY <1>b, <2>1, <2>2, <2>3
       DEF LegacyReadInv, TypeOK, CacheIsReported, configVars, Cached, Empty
  <2>5. \A p \in Points : reported'[p] \in Values => cache'[p] # None
    BY <1>b, <2>1, <2>2 DEF LegacyReadInv
  <2>6. \A p \in Points : reported'[p] \in Values \ {reported[p]}
                            => reported'[p] = value[p] \/ p \in hidden
    BY <1>b, <2>1, <2>2 DEF LegacyReadInv, CacheIsReported
  <2>7. \A p \in Points : reported[p] \in Values => reported'[p] # Invalid
    BY <1>b, <2>1, <2>2 DEF LegacyReadInv
  <2> QED
    BY <2>1, <2>4, <2>5, <2>6, <2>7 DEF LegacyReadInv, configVars
<1>2. CASE Events(got, kept)
  <2>1. /\ cache' = new /\ Publish(Materialize(new, Changed(got)), got, kept)
        /\ strategy = "event_driven" /\ UNCHANGED <<configVars, due>> /\ config # None
        /\ registered' \in {config, None}
    BY <1>2 DEF Events, Polled, KeepOrEvict, new
  <2>2. Changed(got) = {p \in got : cache[p] # value[p]}
    BY DEF Changed
  <2>3. /\ reported' \in [Points -> Values \cup {None, Invalid}]
        /\ \A p \in kept :
              /\ p \notin hidden'
              /\ \/ new[p] = None /\ reported'[p] = Invalid
                 \/ new[p] # None /\ p \in Changed(got) /\ reported'[p] = new[p]
        /\ \A p \in Points \ kept :
              /\ reported'[p] = reported[p]
              /\ p \in hidden => p \in hidden'
              /\ p \in Changed(got) \/ (p \in got /\ p \notin signals) => p \in hidden'
              /\ p \in hidden' => p \in hidden \/ p \in got
    <3>1. Changed(got) \subseteq Points
      BY <2>2
    <3>2. /\ Materialize(new, Changed(got)) \in [Points -> Values \cup {Invalid, NoChange}]
          /\ \A p \in Points :
                \/ new[p] = None /\ Materialize(new, Changed(got))[p] = Invalid
                \/ /\ new[p] # None /\ p \in Changed(got)
                   /\ Materialize(new, Changed(got))[p] = new[p]
                \/ /\ p \notin Changed(got)
                   /\ Materialize(new, Changed(got))[p] = NoChange
          /\ \A p \in Changed(got) : Materialize(new, Changed(got))[p] # NoChange
      BY <1>b, <2>2, <3>1, MaterializeFacts
    <3> QED
      BY <1>a, <2>1, <2>2, <3>2, PublishFacts
  <2>4. hidden' \subseteq Points
    BY <1>a, <2>1 DEF TypeOK, Publish, Cached
  <2> QED
    BY <1>b, <2>1, <2>2, <2>3, <2>4
       DEF LegacyReadInv, TypeOK, CacheIsReported, configVars, Cached, Empty
<1>3. CASE Direct(got, kept) \/ ClassPoll(got, kept)
  <2>1. /\ Publish(Readings(got), {}, kept) /\ strategy # "event_driven" /\ config # None
        /\ UNCHANGED <<configVars, cache, due>> /\ registered' \in {config, None}
    BY <1>3 DEF Direct, ClassPoll, Polled, KeepOrEvict
  <2>2. /\ reported' \in [Points -> Values \cup {None, Invalid}]
        /\ \A p \in Points : reported'[p] \in {reported[p], value[p]}
        /\ \A p \in Points : p \in hidden' => p \in hidden
    <3>1. /\ Readings(got) \in [Points -> Values \cup {Invalid, NoChange}]
          /\ \A p \in Points : Readings(got)[p] \in {value[p], NoChange}
      BY <1>a, ReadingsFacts
    <3>2. /\ reported' \in [Points -> Values \cup {None, Invalid}]
          /\ \A p \in kept : /\ Readings(got)[p] # NoChange /\ p \notin hidden'
                             /\ reported'[p] = Readings(got)[p]
          /\ \A p \in Points \ kept : reported'[p] = reported[p]
          /\ \A p \in Points \ kept : p \in hidden' => p \in hidden
      BY <1>a, <2>1, <3>1 DEF Publish, TypeOK
    <3> QED
      BY <3>1, <3>2
  <2>3. hidden' \subseteq Points
    BY <1>a, <2>1 DEF TypeOK, Publish, Cached
  <2> QED
    BY <2>1, <2>2, <2>3
       DEF LegacyReadInv, TypeOK, CacheIsReported, configVars, Cached, Empty
<1> QED
  BY <1>1, <1>2, <1>3 DEF Read

\* The other steps tell the backend nothing new and make nothing invalid.
LEMMA OtherStep ==
    ASSUME LegacyReadInv,
           \/ \E p \in Points, v \in Values : PointChanges(p, v)
           \/ RemoveDevice
           \/ \E a \in Addresses : SetAddress(a)
           \/ \E s \in (SUBSET Points) \ {{}} : SetSignals(s)
           \/ IntervalPasses
           \/ ForgetDevice
           \/ ConnectFails
           \/ \E got \in SUBSET Points : BaselineRaises(got)
           \/ BaselineFails
           \/ ReadRaises
           \/ UNCHANGED vars
    PROVE  LegacyReadInv' /\ \A p \in Points : reported'[p] \in {reported[p], None}
<1> USE LegacyReadAssumption
        DEF LegacyReadInv, TypeOK, CacheIsReported, Cached, Empty, configVars
<1>1. ASSUME NEW p \in Points, NEW v \in Values, PointChanges(p, v)
      PROVE  LegacyReadInv' /\ reported' = reported
  BY <1>1 DEF PointChanges
<1>2. CASE RemoveDevice
  BY <1>2 DEF RemoveDevice
<1>3. ASSUME NEW a \in Addresses, SetAddress(a)
      PROVE  LegacyReadInv' /\ reported' = reported
  BY <1>3 DEF SetAddress
<1>4. ASSUME NEW s \in (SUBSET Points) \ {{}}, SetSignals(s)
      PROVE  LegacyReadInv' /\ \A p \in Points : reported'[p] \in {reported[p], None}
  BY <1>4 DEF SetSignals
<1>5. CASE IntervalPasses
  BY <1>5 DEF IntervalPasses
<1>6. CASE ForgetDevice
  BY <1>6 DEF ForgetDevice
<1>7. CASE ConnectFails
  BY <1>7 DEF ConnectFails
<1>8. ASSUME NEW got \in SUBSET Points, BaselineRaises(got)
      PROVE  LegacyReadInv' /\ reported' = reported
  <2>1. TypeOK
    OBVIOUS
  <2> QED
    BY <1>8, <2>1, AbsorbFacts DEF BaselineRaises, Polled
<1>9. CASE BaselineFails
  BY <1>9 DEF BaselineFails
<1>10. CASE ReadRaises
  BY <1>10 DEF ReadRaises, Polled
<1>11. CASE UNCHANGED vars
  BY <1>11 DEF vars
<1> QED
  BY <1>1, <1>2, <1>3, <1>4, <1>5, <1>6, <1>7, <1>8, <1>9, <1>10, <1>11

\* The invariant of the adapter's cache holds in every reachable state.
THEOREM LegacyReadInvariance == Spec => []LegacyReadInv
<1>1. LegacyReadInv /\ [Next]_vars => LegacyReadInv'
  BY ReadStep, OtherStep DEF Next
<1> QED
  BY InitInv, <1>1, PTL DEF Spec

\* The adapter keeps its types, and only the event-driven strategy uses the cache.
THEOREM LegacyReadTypeCorrect == Spec => []TypeOK
<1>1. LegacyReadInv => TypeOK
  BY DEF LegacyReadInv
<1> QED
  BY <1>1, LegacyReadInvariance, PTL

\* What an event poll does not repeat is known: a cached value that is not hidden is the
\* one reported last.
THEOREM CacheReported == Spec => []CacheIsReported
<1>1. LegacyReadInv => CacheIsReported
  BY DEF LegacyReadInv
<1> QED
  BY <1>1, LegacyReadInvariance, PTL

\* A reading that is new to the backend is what the outstation has, but for the cached
\* values nobody was told of.
THEOREM OnlyTrueNews == Spec => NewsIsTrue
<1>1. LegacyReadInv /\ [Next]_vars =>
        [\A p \in Points : reported'[p] \in Values \ {reported[p]}
                              => reported'[p] = value[p] \/ p \in hidden]_vars
  BY ReadStep, OtherStep, LegacyReadAssumption DEF Next
<1> QED
  BY <1>1, LegacyReadInvariance, PTL DEF Spec, NewsIsTrue

\* A point whose value the backend knows is never reported invalid, in any strategy.
THEOREM GoodStays == Spec => GoodIsKept
<1>1. LegacyReadInv /\ [Next]_vars =>
        [\A p \in Points : reported[p] \in Values => reported'[p] # Invalid]_vars
  BY ReadStep, OtherStep, LegacyReadAssumption DEF Next
<1> QED
  BY <1>1, LegacyReadInvariance, PTL DEF Spec, GoodIsKept
=============================================================================
