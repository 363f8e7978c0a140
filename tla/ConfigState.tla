---------------------------- MODULE ConfigState -----------------------------
(***************************************************************************)
(* The gateway's configuration: the config-refresh thread of main.py       *)
(* (_run_config_refresh), the part of GatewayState it writes, the disk     *)
(* cache a restart starts from, and the operator's "refresh all" counter   *)
(* the main loop serves.                                                   *)
(*                                                                         *)
(* A configuration is its config_version: the devices, the signals and     *)
(* is_active are replaced together with it under the state's lock.  The    *)
(* disk is written after the lock is released.                             *)
(***************************************************************************)
EXTENDS Integers

CONSTANTS
    Versions,       \* the config_versions of the backend
    MaxNonce,       \* bound on the backend's refresh counter
    MaxTime,        \* bound on the clock
    MaxFailures,    \* bound on consecutive_failures, which only sets the backoff
    DiskMayFail,    \* whether writing the disk cache may fail
    None            \* no version, no file, no time

ASSUME ConfigStateAssumption ==
    /\ MaxNonce \in Nat
    /\ MaxTime \in Nat
    /\ MaxFailures \in Nat \ {0}
    /\ DiskMayFail \in BOOLEAN
    /\ None \notin Versions \cup Nat
    /\ None \notin [version : Versions, cached_at : 0 .. MaxTime]

VARIABLES
    backend,          \* the configuration the backend would answer with
    clock,            \* time.time()
    disk,             \* the cache file: version and cached_at_unix, or None
    config_version,   \* _config_version
    refresh_nonce,    \* _refresh_nonce
    refresh_pending,  \* _refresh_pending
    loaded_at,        \* _config_loaded_at_unix
    refresh_error,    \* whether _last_refresh_error is set
    config_ready,     \* the Event config_ready
    pc,               \* where _run_config_refresh is
    reply,            \* the configuration it fetched
    failures,         \* consecutive_failures
    ok_at,            \* history: time of the last update(), restarts included
    served,           \* history: highest counter an integrity poll was sent for
    sent,             \* history: refreshes of all devices this process has sent
    unwritten,        \* history: the last attempt to write the cache file failed
    was_reset         \* history: the backend has put its counter back to 0

stateVars == <<config_version, refresh_nonce, refresh_pending, loaded_at, refresh_error>>
threadVars == <<config_ready, pc, reply, failures>>
historyVars == <<ok_at, served, sent, unwritten, was_reset>>
vars == <<backend, clock, disk, stateVars, threadVars, historyVars>>

Reply == [version : Versions, nonce : 0 .. MaxNonce]
Time == 0 .. MaxTime
Pc == {"fetch", "update", "persist", "ready", "failed"}

\* A counter that stops at its bound.
CountedTo(n, bound) == IF n < bound THEN n + 1 ELSE n

Init ==
    /\ backend \in [version : Versions, nonce : {0}]
    /\ clock = 0
    /\ disk = None
    /\ config_version = None
    /\ refresh_nonce = 0
    /\ refresh_pending = FALSE
    /\ loaded_at = None
    /\ refresh_error = FALSE
    /\ config_ready = FALSE
    /\ pc = "fetch"
    /\ reply = backend
    /\ failures = 0
    /\ ok_at = None
    /\ served = 0
    /\ sent = 0
    /\ unwritten = FALSE
    /\ was_reset = FALSE

-----------------------------------------------------------------------------
(* The backend, seen through fetch_config.                                 *)

\* The engineer saves another configuration.
BackendChanges(v) ==
    /\ backend.version # v
    /\ backend' = [backend EXCEPT !.version = v]
    /\ UNCHANGED <<clock, disk, stateVars, threadVars, historyVars>>

\* The operator asks for a query of all devices.
OperatorAsks ==
    /\ backend.nonce < MaxNonce
    /\ backend' = [backend EXCEPT !.nonce = @ + 1]
    /\ UNCHANGED <<clock, disk, stateVars, threadVars, historyVars>>

\* "backend reset yapmis olabilir": the counter starts again.
BackendResets ==
    /\ backend.nonce > 0
    /\ backend' = [backend EXCEPT !.nonce = 0]
    /\ served' = 0
    /\ was_reset' = TRUE
    /\ UNCHANGED <<clock, disk, stateVars, threadVars, ok_at, sent, unwritten>>

Tick ==
    /\ clock < MaxTime
    /\ clock' = clock + 1
    /\ UNCHANGED <<backend, disk, stateVars, threadVars, historyVars>>

-----------------------------------------------------------------------------
(* _run_config_refresh.                                                    *)

\* fetch_config returns what the backend held when it answered.
FetchConfig ==
    /\ pc = "fetch"
    /\ reply' = backend
    /\ pc' = "update"
    /\ UNCHANGED <<backend, clock, disk, stateVars, config_ready, failures, historyVars>>

\* fetch_config raises: no connection, a status other than 200, a bad body.
FetchFails ==
    /\ pc = "fetch"
    /\ pc' = "failed"
    /\ UNCHANGED <<backend, clock, disk, stateVars, config_ready, reply, failures,
                   historyVars>>

\* Mutant of IsChanged: compared after the version has been replaced.
IsChangedAfterwards == reply.version # reply.version

IsChanged == reply.version # config_version

\* Mutant of PendingAfter: an equal counter takes a request back.
PendingOnlyIfRaised == reply.nonce > refresh_nonce

\* A raised counter is a request; an equal or lower one leaves the request there is.
PendingAfter == refresh_pending \/ reply.nonce > refresh_nonce

\* GatewayState.update up to the release of the lock.
Update ==
    /\ pc = "update"
    /\ config_version' = reply.version
    /\ loaded_at' = clock
    /\ refresh_error' = FALSE
    /\ refresh_pending' = PendingAfter
    /\ refresh_nonce' = reply.nonce
    /\ pc' = IF IsChanged THEN "persist" ELSE "ready"
    /\ ok_at' = clock
    /\ UNCHANGED <<backend, clock, disk, config_ready, reply, failures, served, sent,
                   unwritten, was_reset>>

\* _persist_unsafe: a temporary file, then os.replace.  loaded_at is update's
\* now_unix, which only update sets.
Persist ==
    /\ pc = "persist"
    /\ disk' = [version |-> reply.version, cached_at |-> loaded_at]
    /\ pc' = "ready"
    /\ unwritten' = FALSE
    /\ UNCHANGED <<backend, clock, stateVars, config_ready, reply, failures, ok_at,
                   served, sent, was_reset>>

\* An OSError is logged and forgotten.
PersistFails ==
    /\ pc = "persist"
    /\ DiskMayFail
    /\ unwritten' = TRUE
    /\ pc' = "ready"
    /\ UNCHANGED <<backend, clock, disk, stateVars, config_ready, reply, failures,
                   ok_at, served, sent, was_reset>>

\* Any other exception leaves update() for the handler of _run_config_refresh.
PersistRaises ==
    /\ pc = "persist"
    /\ DiskMayFail
    /\ unwritten' = TRUE
    /\ pc' = "failed"
    /\ UNCHANGED <<backend, clock, disk, stateVars, config_ready, reply, failures,
                   ok_at, served, sent, was_reset>>

RefreshEnds ==
    /\ pc = "ready"
    /\ config_ready' = TRUE
    /\ failures' = 0
    /\ pc' = "fetch"
    /\ UNCHANGED <<backend, clock, disk, stateVars, reply, historyVars>>

\* Mutant of RefreshFails: an exception ends the thread.
RefreshFailsForGood ==
    /\ pc = "failed"
    /\ refresh_error' = TRUE
    /\ failures' = CountedTo(failures, MaxFailures)
    /\ pc' = "stopped"
    /\ UNCHANGED <<backend, clock, disk, config_version, refresh_nonce, refresh_pending,
                   loaded_at, config_ready, reply, historyVars>>

\* record_refresh_error, and the wait of the backoff.
RefreshFails ==
    /\ pc = "failed"
    /\ refresh_error' = TRUE
    /\ failures' = CountedTo(failures, MaxFailures)
    /\ pc' = "fetch"
    /\ UNCHANGED <<backend, clock, disk, config_version, refresh_nonce, refresh_pending,
                   loaded_at, config_ready, reply, historyVars>>

Refresh ==
    \/ FetchConfig
    \/ FetchFails
    \/ Update
    \/ Persist
    \/ PersistFails
    \/ PersistRaises
    \/ RefreshEnds
    \/ RefreshFails

-----------------------------------------------------------------------------
(* The main loop, and a restart.                                           *)

\* Mutant of TakeRefreshRequest: the flag is not taken back.
PeekRefreshRequest ==
    /\ refresh_pending
    /\ served' = IF refresh_nonce > served THEN refresh_nonce ELSE served
    /\ sent' = CountedTo(sent, MaxNonce + 1)
    /\ UNCHANGED <<backend, clock, disk, stateVars, threadVars, ok_at, unwritten, was_reset>>

\* take_refresh_request returns True; refresh_all_devices sends the polls, and keeps the
\* errors of a device to itself.  (The dnp3py adapter, which has no refresh_all_devices,
\* lets the request go by.)
TakeRefreshRequest ==
    /\ refresh_pending
    /\ refresh_pending' = FALSE
    /\ served' = IF refresh_nonce > served THEN refresh_nonce ELSE served
    /\ sent' = CountedTo(sent, MaxNonce + 1)
    /\ UNCHANGED <<backend, clock, disk, config_version, refresh_nonce, loaded_at,
                   refresh_error, threadVars, ok_at, unwritten, was_reset>>

\* Mutant of CachedAt: the age of the cache starts again at the restart.
CachedAtRestart == IF disk = None THEN None ELSE clock

CachedAt == IF disk = None THEN None ELSE disk.cached_at

\* The process ends, at any point, and starts again: GatewayState.__init__,
\* load_from_cache, config_ready, a new refresh thread.
Restart ==
    /\ config_version' = IF disk = None THEN None ELSE disk.version
    /\ loaded_at' = CachedAt
    /\ config_ready' = (disk # None)
    /\ refresh_nonce' = 0
    /\ refresh_pending' = FALSE
    /\ refresh_error' = FALSE
    /\ pc' = "fetch"
    /\ failures' = 0
    /\ unwritten' = FALSE
    /\ sent' = 0
    /\ UNCHANGED <<backend, clock, disk, reply, ok_at, served, was_reset>>

Next ==
    \/ \E v \in Versions : BackendChanges(v)
    \/ OperatorAsks
    \/ BackendResets
    \/ Tick
    \/ Refresh
    \/ TakeRefreshRequest
    \/ Restart

Spec == Init /\ [][Next]_vars

\* Both threads run; a backend that is asked again and again answers in the end.
Fairness ==
    /\ WF_vars(Refresh)
    /\ SF_vars(FetchConfig)
    /\ WF_vars(TakeRefreshRequest)

\* The process is not restarted for ever.
LiveSpec == Spec /\ Fairness /\ <>[][~Restart]_vars

-----------------------------------------------------------------------------
(* Properties.                                                             *)

ConfigTypes ==
    /\ backend \in Reply
    /\ reply \in Reply
    /\ disk \in [version : Versions, cached_at : Time] \cup {None}
    /\ config_version \in Versions \cup {None}
    /\ clock \in Time
    /\ loaded_at \in Time \cup {None}
    /\ ok_at \in Time \cup {None}

FlagTypes ==
    /\ refresh_pending \in BOOLEAN
    /\ refresh_error \in BOOLEAN
    /\ config_ready \in BOOLEAN
    /\ unwritten \in BOOLEAN
    /\ was_reset \in BOOLEAN
    /\ pc \in Pc

CounterTypes ==
    /\ refresh_nonce \in 0 .. MaxNonce
    /\ served \in 0 .. MaxNonce
    /\ sent \in 0 .. MaxNonce + 1
    /\ failures \in 0 .. MaxFailures

\* The types of the state; the refresh thread is always somewhere in its loop.
TypeOK == ConfigTypes /\ FlagTypes /\ CounterTypes

\* Between two refreshes the disk holds the configuration in force, so a restart
\* continues with it; unless writing that very configuration failed, in which case
\* no later refresh of the same version writes it.
DiskFollows ==
    pc = "fetch" /\ config_version # None /\ ~unwritten =>
        disk # None /\ disk.version = config_version

\* /health never reports a configuration as fresher than its last refresh.
AgeNeverUnderstated ==
    loaded_at # None => ok_at # None /\ loaded_at <= ok_at

\* While the thread waits, /health's refresh error and the backoff agree: both
\* tell of the last attempt.
ErrorMatchesBackoff == pc = "fetch" => (refresh_error <=> failures > 0)

\* A raised counter the gateway has seen is served or still pending: no later
\* refresh, failed or not, takes an operator's request back.
RequestKept ==
    ~was_reset => (refresh_nonce > served => refresh_pending)

\* An integrity poll is sent for a request that none was sent for.
NewRequest == refresh_nonce > served \/ was_reset

\* A request is served once, whatever refreshes come between two turns of the main loop;
\* only the first poll of a process may repeat one, which a restart before it has
\* forgotten.
ServedOnce == [][TakeRefreshRequest => NewRequest \/ sent = 0]_vars

\* What the comment of GatewayState.update says of a restart from the cache file
\* ("gereksiz tetik olmaz"): no poll is sent for a request that was served before.
NoNeedlessRefresh == [][TakeRefreshRequest => NewRequest]_vars

\* A configuration that stays at the backend comes into force.
Converges ==
    \A v \in Versions : <>[](backend.version = v) => <>[](config_version = v)

\* Every request of the operator leads to an integrity poll, across restarts too.
RequestServed ==
    \A n \in 1 .. MaxNonce : (backend.nonce >= n) ~> (served >= n \/ was_reset)

-----------------------------------------------------------------------------
(* The inductive invariant behind the safety properties.                   *)

\* What was fetched is not older than what is in force, as to the counter.
NonceInv ==
    ~was_reset => /\ refresh_nonce <= backend.nonce
                  /\ pc = "update" => /\ refresh_nonce <= reply.nonce
                                      /\ reply.nonce <= backend.nonce
                  /\ RequestKept
                  /\ served <= backend.nonce
                  /\ refresh_nonce > 0 => served <= refresh_nonce
                  /\ pc = "update" => served <= reply.nonce
                  /\ sent > 0 \/ refresh_pending => refresh_nonce > 0
                  /\ sent > 0 /\ refresh_pending => served < refresh_nonce

\* The disk lags behind the configuration in force only while it is being written,
\* or after it could not be.
DiskInv ==
    /\ pc = "persist" => config_version = reply.version /\ loaded_at # None
    /\ pc # "persist" /\ config_version # None /\ ~unwritten
            => disk # None /\ disk.version = config_version

\* Every recorded time is that of some refresh.
AgeInv ==
    /\ AgeNeverUnderstated
    /\ ok_at # None => ok_at <= clock
    /\ disk # None => ok_at # None /\ disk.cached_at <= ok_at

\* The error and the backoff move together.
ErrorInv ==
    /\ pc \in {"fetch", "update"} => (refresh_error <=> failures > 0)
    /\ pc \in {"persist", "ready"} => ~refresh_error

ConfigInv == TypeOK /\ NonceInv /\ DiskInv /\ AgeInv /\ ErrorInv

=============================================================================
