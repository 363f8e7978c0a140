---------------------------- MODULE DeviceCache -----------------------------
(***************************************************************************)
(* One device of the yadnp3 adapter: its _DeviceCache, the OpenDNP3        *)
(* callbacks that write it (OnOpen, OnClose and the SOE handler's Process) *)
(* and the poll task that reads it (Yadnp3TelemetryReader.read_device) and *)
(* publishes what it read (poller.poll_device).                            *)
(*                                                                         *)
(* Every method of _DeviceCache holds the cache's lock, so one method call *)
(* is one step, and the callbacks of a channel come one after the other.   *)
(* read_device makes many such calls, with callbacks between any two.      *)
(*                                                                         *)
(* Time is what the code compares: whether the last frame is older than    *)
(* the stale threshold, and whether the recovery grace period is over.     *)
(* The clock does not run backwards, so a frame is never earlier than the  *)
(* _recovery_anchor_at that set() compares it with.                        *)
(***************************************************************************)
EXTENDS FiniteSets

CONSTANTS
    Points,         \* the (group, index) keys of the device's signals
    Values,         \* what a point may read
    Absent,         \* no entry in _values
    CommLost,       \* a reading of quality comm_lost
    NoChange        \* a reading of quality no_change

ASSUME DeviceCacheAssumption ==
    /\ Absent \notin Values \cup Points
    /\ CommLost \notin Values
    /\ NoChange \notin Values
    /\ NoChange # CommLost

VARIABLES
    values,       \* _values
    dirty,        \* _dirty
    connected,    \* _connected
    last_update,  \* _last_update_at: "never", "recent", "old" (over the threshold)
    announced,    \* _stale_announced
    state,        \* _state
    grace,        \* recovery_age(): "off" unless recovering, "running", "expired"
    pending,      \* _pending_recovery_publish
    opening,      \* OnOpen has set _connected and not begun the recovery
    pc,           \* where the poll task is
    was_connected,\* read_device's local connected
    stale,        \* read_device's local stale
    cache_state,  \* read_device's local cache_state
    todo,         \* signals read_device has not built a reading for
    sig,          \* the signal it is at, Absent if none
    entry,        \* read_device's local entry
    readings,     \* the readings built
    published,    \* what SCADA was last told of each point
    overwritten,  \* history: points cleared while holding a newer value than was read
    dropped,      \* history: points whose last reading publish refused
    raced         \* history: a confirmed recovery was cancelled under a running read

cacheVars == <<values, dirty, connected, last_update, state, grace, pending>>
readVars == <<was_connected, stale, cache_state, todo, sig, entry, readings>>
historyVars == <<overwritten, dropped, raced>>
vars == <<cacheVars, announced, opening, pc, readVars, published, historyVars>>

Known == {p \in Points : values[p] # Absent}
Pc == {"idle", "last", "state", "edge", "grace", "fail", "announce",
       "consume", "mark", "signals", "entry", "clear", "publish"}

Init ==
    /\ values = [p \in Points |-> Absent]
    /\ dirty = {}
    /\ connected = FALSE
    /\ last_update = "never"
    /\ announced = FALSE
    /\ state = "lost"
    /\ grace = "off"
    /\ pending = FALSE
    /\ opening = FALSE
    /\ pc = "idle"
    /\ was_connected = FALSE
    /\ stale = FALSE
    /\ cache_state = "lost"
    /\ todo = {}
    /\ sig = Absent
    /\ entry = Absent
    /\ readings = [p \in Points |-> NoChange]
    /\ published = [p \in Points |-> NoChange]
    /\ overwritten = {}
    /\ dropped = {}
    /\ raced = FALSE

-----------------------------------------------------------------------------
(* _DeviceCache, the methods with an effect.                               *)

\* Mutant of set: only the first write of a point marks it.
SetMarksFirstOnly(p, v) ==
    /\ values' = [values EXCEPT ![p] = v]
    /\ last_update' = "recent"
    /\ IF state = "recovering"
         THEN state' = "online" /\ grace' = "off" /\ pending' = TRUE
         ELSE UNCHANGED <<state, grace, pending>>
    /\ dirty' = IF values[p] = Absent \/ state = "recovering"
                  THEN Known \cup {p} ELSE dirty
    /\ UNCHANGED connected

\* A write that changes the value marks the point; the first frame of a recovery
\* confirms it and marks every point.
set(p, v) ==
    /\ values' = [values EXCEPT ![p] = v]
    /\ last_update' = "recent"
    /\ IF state = "recovering"
         THEN /\ state' = "online"
              /\ grace' = "off"
              /\ pending' = TRUE
              /\ dirty' = Known \cup {p}
         ELSE /\ dirty' = IF values[p] # v THEN dirty \cup {p} ELSE dirty
              /\ UNCHANGED <<state, grace, pending>>
    /\ UNCHANGED connected

set_connected(ok) ==
    /\ connected' = ok
    /\ IF ok THEN UNCHANGED <<state, grace, pending>>
             ELSE state' = "lost" /\ grace' = "off" /\ pending' = FALSE
    /\ UNCHANGED <<values, dirty, last_update>>

begin_recovery ==
    /\ IF state = "recovering"
         THEN UNCHANGED <<state, grace, pending>>
         ELSE state' = "recovering" /\ grace' = "running" /\ pending' = FALSE
    /\ UNCHANGED <<values, dirty, connected, last_update>>

fail_recovery ==
    /\ IF state = "recovering"
         THEN state' = "lost" /\ grace' = "off" /\ pending' = FALSE
         ELSE UNCHANGED <<state, grace, pending>>
    /\ UNCHANGED <<values, dirty, connected, last_update>>

clear_dirty(p) ==
    /\ dirty' = dirty \ {p}
    /\ UNCHANGED <<values, connected, last_update, state, grace, pending>>

mark_all_dirty ==
    /\ dirty' = dirty \cup Known
    /\ UNCHANGED <<values, connected, last_update, state, grace, pending>>

-----------------------------------------------------------------------------
(* The OpenDNP3 callbacks of the channel.                                  *)

\* A recovery SCADA has not been told of is cancelled after read_device found
\* the device online and before it asked consume_recovery_publish.
Cancels ==
    pending /\ announced /\ cache_state = "online" /\ pc \in {"edge", "consume"}

OnOpenConnected ==
    /\ ~opening
    /\ set_connected(TRUE)
    /\ opening' = TRUE
    /\ UNCHANGED <<announced, pc, readVars, published, historyVars>>

\* The link may have dropped and come back with no OnClose in between.
OnOpenRecover ==
    /\ opening
    /\ begin_recovery
    /\ opening' = FALSE
    /\ raced' = (raced \/ Cancels)
    /\ UNCHANGED <<announced, pc, readVars, published, overwritten, dropped>>

OnClose ==
    /\ ~opening
    /\ connected
    /\ set_connected(FALSE)
    /\ raced' = (raced \/ Cancels)
    /\ UNCHANGED <<announced, opening, pc, readVars, published, overwritten, dropped>>

\* Process: each measurement of a frame is one set; frames come over an open link.
Process(p, v) ==
    /\ ~opening
    /\ connected
    /\ set(p, v)
    /\ UNCHANGED <<announced, opening, pc, readVars, published, historyVars>>

\* No frame for longer than the stale threshold.
DataAges ==
    /\ last_update = "recent"
    /\ last_update' = "old"
    /\ UNCHANGED <<values, dirty, connected, state, grace, pending, announced,
                   opening, pc, readVars, published, historyVars>>

\* _RECOVERY_GRACE_SEC have passed since the recovery began.
GraceExpires ==
    /\ grace = "running"
    /\ grace' = "expired"
    /\ UNCHANGED <<values, dirty, connected, last_update, state, pending, announced,
                   opening, pc, readVars, published, historyVars>>

Callback ==
    \/ OnOpenConnected
    \/ OnOpenRecover
    \/ OnClose
    \/ \E p \in Points, v \in Values : Process(p, v)
    \/ DataAges
    \/ GraceExpires

-----------------------------------------------------------------------------
(* read_device, one step for each call it makes on the cache.  A local is  *)
(* put back to its initial value where the code uses it no more.           *)

IsConnected ==
    /\ pc = "idle"
    /\ was_connected' = connected
    /\ pc' = "last"
    /\ UNCHANGED <<cacheVars, announced, opening, stale, cache_state, todo, sig,
                   entry, readings, published, historyVars>>

LastUpdateAt ==
    /\ pc = "last"
    /\ stale' = (last_update # "recent")
    /\ pc' = "state"
    /\ UNCHANGED <<cacheVars, announced, opening, was_connected, cache_state, todo,
                   sig, entry, readings, published, historyVars>>

State ==
    /\ pc = "state"
    /\ cache_state' = state
    /\ pc' = "edge"
    /\ UNCHANGED <<cacheVars, announced, opening, was_connected, stale, todo, sig,
                   entry, readings, published, historyVars>>

\* Mutant of IsStaleEdge: a link that looks up is taken for fresh data.
StaleOnlyWhenClosed == ~was_connected /\ stale /\ cache_state = "online"

IsStaleEdge == was_connected /\ stale /\ cache_state = "online"

\* The link looks up but the data is old: recover.  The integrity poll asked for
\* makes the device send frames, which Process may do at any time.
StaleEdge ==
    /\ pc = "edge"
    /\ IsStaleEdge
    /\ begin_recovery
    /\ cache_state' = "recovering"
    /\ pc' = "grace"
    /\ was_connected' = FALSE
    /\ stale' = FALSE
    /\ UNCHANGED <<announced, opening, todo, sig, entry, readings, published,
                   historyVars>>

NoStaleEdge ==
    /\ pc = "edge"
    /\ ~IsStaleEdge
    /\ pc' = CASE cache_state = "recovering" -> "grace"
               [] cache_state = "lost" -> "announce"
               [] cache_state = "online" -> "consume"
    /\ was_connected' = FALSE
    /\ stale' = FALSE
    /\ UNCHANGED <<cacheVars, announced, opening, cache_state, todo, sig, entry,
                   readings, published, historyVars>>

RecoveryAge ==
    /\ pc = "grace"
    /\ pc' = IF state = "recovering" /\ grace = "expired" THEN "fail" ELSE "announce"
    /\ UNCHANGED <<cacheVars, announced, opening, readVars, published, historyVars>>

FailRecovery ==
    /\ pc = "fail"
    /\ fail_recovery
    /\ cache_state' = "lost"
    /\ pc' = "announce"
    /\ UNCHANGED <<announced, opening, was_connected, stale, todo, sig, entry,
                   readings, published, historyVars>>

\* Not online: comm_lost for every signal the first time, then no_change.
Announce ==
    /\ pc = "announce"
    /\ announced' = TRUE
    /\ readings' = [p \in Points |-> IF announced THEN NoChange ELSE CommLost]
    /\ pc' = "publish"
    /\ UNCHANGED <<cacheVars, opening, was_connected, stale, cache_state, todo, sig,
                   entry, published, historyVars>>

\* Mutant of ConsumeRecovery: the announcement of the next loss is not re-armed.
ConsumeKeepsAnnounced ==
    /\ pc = "consume"
    /\ pending
    /\ pending' = FALSE
    /\ raced' = FALSE
    /\ pc' = "mark"
    /\ UNCHANGED <<values, dirty, connected, last_update, announced, state, grace,
                   opening, readVars, published, overwritten, dropped>>

\* consume_recovery_publish returns True; the next loss is to be announced.
ConsumeRecovery ==
    /\ pc = "consume"
    /\ pending
    /\ pending' = FALSE
    /\ announced' = FALSE
    /\ raced' = FALSE
    /\ pc' = "mark"
    /\ UNCHANGED <<values, dirty, connected, last_update, state, grace, opening,
                   readVars, published, overwritten, dropped>>

\* Mutant of NothingToConsume: without a recovery there is nothing to publish.
NothingToPublish ==
    /\ pc = "consume"
    /\ ~pending
    /\ pc' = "publish"
    /\ UNCHANGED <<cacheVars, announced, opening, readVars, published, historyVars>>

NothingToConsume ==
    /\ pc = "consume"
    /\ ~pending
    /\ pc' = "signals"
    /\ todo' = Points
    /\ readings' = [p \in Points |-> NoChange]
    /\ UNCHANGED <<cacheVars, announced, opening, was_connected, stale, cache_state,
                   sig, entry, published, historyVars>>

MarkAllDirty ==
    /\ pc = "mark"
    /\ mark_all_dirty
    /\ pc' = "signals"
    /\ todo' = Points
    /\ readings' = [p \in Points |-> NoChange]
    /\ UNCHANGED <<announced, opening, was_connected, stale, cache_state, sig,
                   entry, published, historyVars>>

\* cache.get of the next signal; a point never received reads no_change.
Get(p) ==
    /\ pc = "signals"
    /\ p \in todo
    /\ todo' = todo \ {p}
    /\ IF values[p] = Absent
         THEN UNCHANGED <<pc, sig, entry>>
         ELSE pc' = "entry" /\ sig' = p /\ entry' = values[p]
    /\ UNCHANGED <<cacheVars, announced, opening, was_connected, stale, cache_state,
                   readings, published, historyVars>>

\* cache.is_dirty: a point that did not change reads no_change.
IsDirty ==
    /\ pc = "entry"
    /\ IF sig \in dirty
         THEN /\ readings' = [readings EXCEPT ![sig] = entry]
              /\ pc' = "clear"
              /\ UNCHANGED <<sig, entry>>
         ELSE /\ pc' = "signals"
              /\ sig' = Absent
              /\ entry' = Absent
              /\ UNCHANGED readings
    /\ UNCHANGED <<cacheVars, announced, opening, was_connected, stale, cache_state,
                   todo, published, historyVars>>

ClearDirty ==
    /\ pc = "clear"
    /\ clear_dirty(sig)
    /\ overwritten' = IF entry # values[sig] THEN overwritten \cup {sig}
                                             ELSE overwritten \ {sig}
    /\ pc' = "signals"
    /\ sig' = Absent
    /\ entry' = Absent
    /\ UNCHANGED <<announced, opening, was_connected, stale, cache_state, todo,
                   readings, published, dropped, raced>>

Return ==
    /\ pc = "signals"
    /\ todo = {}
    /\ pc' = "publish"
    /\ UNCHANGED <<cacheVars, announced, opening, readVars, published, historyVars>>

Sent == {p \in Points : readings[p] # NoChange}

\* poll_device: publishes every reading but the no_change ones.  An error loses
\* that reading, OutboxFullError the rest as well.
Publish(kept) ==
    /\ pc = "publish"
    /\ kept \subseteq Sent
    /\ published' = [p \in Points |-> IF p \in kept THEN readings[p] ELSE published[p]]
    /\ dropped' = (dropped \ kept) \cup (Sent \ kept)
    /\ readings' = [p \in Points |-> NoChange]
    /\ pc' = "idle"
    /\ UNCHANGED <<cacheVars, announced, opening, was_connected, stale, cache_state,
                   todo, sig, entry, overwritten, raced>>

Poll ==
    \/ IsConnected
    \/ LastUpdateAt
    \/ State
    \/ StaleEdge
    \/ NoStaleEdge
    \/ RecoveryAge
    \/ FailRecovery
    \/ Announce
    \/ ConsumeRecovery
    \/ NothingToConsume
    \/ MarkAllDirty
    \/ \E p \in Points : Get(p)
    \/ IsDirty
    \/ ClearDirty
    \/ Return
    \/ \E kept \in SUBSET Points : Publish(kept)

Next == Callback \/ Poll
Spec == Init /\ [][Next]_vars

\* The poll loop keeps polling the device, an OnOpen that has begun ends, and
\* time passes.
Fairness ==
    /\ WF_vars(Poll)
    /\ WF_vars(OnOpenRecover)
    /\ WF_vars(DataAges)
    /\ WF_vars(GraceExpires)
LiveSpec == Spec /\ Fairness

-----------------------------------------------------------------------------
(* Properties.                                                             *)

CacheTypes ==
    /\ values \in [Points -> Values \cup {Absent}]
    /\ dirty \subseteq Known
    /\ connected \in BOOLEAN
    /\ last_update \in {"never", "recent", "old"}
    /\ state \in {"lost", "recovering", "online"}
    /\ grace \in {"off", "running", "expired"}
    /\ pending \in BOOLEAN

ReadTypes ==
    /\ announced \in BOOLEAN
    /\ opening \in BOOLEAN
    /\ pc \in Pc
    /\ was_connected \in BOOLEAN
    /\ stale \in BOOLEAN
    /\ cache_state \in {"lost", "recovering", "online"}
    /\ todo \subseteq Points
    /\ sig \in Points \cup {Absent}
    /\ entry \in Values \cup {Absent}

PublishTypes ==
    /\ readings \in [Points -> Values \cup {CommLost, NoChange}]
    /\ published \in [Points -> Values \cup {CommLost, NoChange}]
    /\ overwritten \subseteq Points
    /\ dropped \subseteq Points
    /\ raced \in BOOLEAN

\* The types of the state; only points with a value are marked dirty.
TypeOK == CacheTypes /\ ReadTypes /\ PublishTypes

\* A reading of p that publish has still to be called for says what the cache says.
InFlight(p) == readings[p] = values[p]

\* A device the gateway holds for online: what SCADA was last told of a point
\* (comm_lost included) differs from the cache only if the point is dirty or its
\* reading is on the way; or else the value was overwritten between get() and
\* clear_dirty(), or publish refused the reading.
OnlineIsCurrent ==
    state = "online" =>
        \A p \in Known :
            published[p] # values[p] =>
                p \in dirty \/ InFlight(p) \/ p \in overwritten \/ p \in dropped

\* _pending_recovery_publish is only up while the device is online over an open
\* link: no close or new recovery leaves it behind for a later read to consume.
RecoveryConfirmed ==
    /\ pending => state = "online"
    /\ state = "online" => connected

\* After a read that found the device not online, SCADA has been told comm_lost
\* of every point; unless the announcement itself was refused, or a recovery
\* was cancelled while read_device was at work.
LossAnnounced ==
    pc = "idle" /\ announced /\ cache_state # "online" =>
        \A p \in Points : published[p] = CommLost \/ p \in dropped \/ raced

\* No reading of the point is to come: its value was overwritten between get() and
\* clear_dirty(), or publish refused it, and it has not been marked again.
Lost(p) == p \in overwritten \cup dropped /\ p \notin dirty /\ ~InFlight(p)

\* SCADA is told the value an online device holds, unless it changes again or the device
\* goes down first, or it gets lost in one of the two windows of OnlineIsCurrent.  What
\* was lost before does not count: a new value is published again.
ValueIsPublished ==
    \A p \in Points, v \in Values :
        (state = "online" /\ values[p] = v)
            ~> (published[p] = v \/ state # "online" \/ values[p] # v \/ Lost(p))

\* Once no frame comes, whether the link looks up or not, SCADA is told comm_lost
\* for good (the exceptions of LossAnnounced apart).
SilenceIsAnnounced ==
    <>[][~\E p \in Points, v \in Values : Process(p, v)]_vars =>
        <>[](\A p \in Points : published[p] = CommLost \/ p \in dropped \/ raced)

-----------------------------------------------------------------------------
(* The inductive invariant behind the safety properties.                   *)

NotOnlineBranch == cache_state # "online" /\ pc \in {"edge", "grace", "fail",
                                                     "announce", "publish"}

\* The branch read_device takes agrees with the state it saw.
BranchInv ==
    /\ pc \in {"grace", "fail", "announce"} => cache_state # "online"
    /\ pc \in {"consume", "mark", "signals", "entry", "clear"}
            => cache_state = "online"
    /\ pc \in {"entry", "clear"} => sig \in Points /\ entry \in Values
    /\ pc \notin {"signals", "entry", "clear", "publish"}
            => \A p \in Points : readings[p] = NoChange
    /\ pc = "clear" => readings[sig] = entry
    /\ \A p \in Points : readings[p] = CommLost => cache_state # "online" /\ pc = "publish"
    /\ pc = "publish" /\ cache_state # "online"
            => \A p \in Points : readings[p] \in {CommLost, NoChange}

\* A read that takes the device for lost while a frame confirms its recovery finds
\* every point dirty afterwards; a reading that no longer says what the cache
\* says belongs to a point that is dirty, or was overwritten.
DirtyInv ==
    /\ NotOnlineBranch /\ state = "online" => Known \subseteq dirty
    /\ \A p \in Points :
            readings[p] \in Values /\ readings[p] # values[p]
                => p \in dirty \cup overwritten \/ (pc = "clear" /\ p = sig)

\* While SCADA has been told comm_lost, an online device has its recovery still to
\* be consumed, so no good reading goes out before announced is reset.
AnnounceInv ==
    /\ state = "online" /\ announced /\ ~raced => pending
    /\ NotOnlineBranch /\ pc # "publish" /\ state = "online" => pending
    /\ pc \in {"edge", "consume"} /\ cache_state = "online" /\ announced /\ ~raced
            => pending
    /\ pc \in {"mark", "signals", "entry", "clear"} => ~announced \/ raced
    /\ pc = "publish" /\ cache_state = "online" => ~announced \/ raced
    /\ announced => \A p \in Points : \/ published[p] = CommLost
                                      \/ readings[p] = CommLost
                                      \/ p \in dropped
                                      \/ raced

CacheInv ==
    /\ TypeOK
    /\ RecoveryConfirmed
    /\ BranchInv
    /\ DirtyInv
    /\ OnlineIsCurrent
    /\ AnnounceInv
=============================================================================
