------------------------------- MODULE Health -------------------------------
(***************************************************************************)
(* The status /health reports: _build_health_body as a function of the     *)
(* snapshots it takes of the state, the outbox and the metrics.            *)
(***************************************************************************)
EXTENDS Integers, FiniteSets, FiniteSetsExt

DegradedThreshold == 150    \* DEFAULT_REFRESH_DEGRADED_THRESHOLD_SEC
FirstCycleGrace == 60       \* seconds of uptime without a poll cycle

\* config_refresh_failing: the last attempt failed, and none has succeeded lately; an
\* age of -1 stands for a process that has had no success yet.
RefreshFailing(s) ==
    s.refresh_error /\ (s.since_ok = -1 \/ s.since_ok > DegradedThreshold)

\* 80 per cent of the outbox, rounded down, are in use.
NearCapacity(s) ==
    s.pending # 0 /\ s.max_pending > 0 /\ s.pending >= (s.max_pending * 8) \div 10

NoCycles(s) == s.active /\ s.poll_cycles = 0 /\ s.uptime > FirstCycleGrace

\* The issues in the order the code looks for them, each with its severity.
Findings(s) == <<
    [holds |-> s.cache_stale, severity |-> 1],
    [holds |-> RefreshFailing(s), severity |-> 1],
    [holds |-> s.outbox_full, severity |-> 2],
    [holds |-> NearCapacity(s), severity |-> 1],
    [holds |-> s.dead_letter > 0, severity |-> 1],
    [holds |-> NoCycles(s), severity |-> 1] >>

Issues(s) == {i \in DOMAIN Findings(s) : Findings(s)[i].holds}

\* Mutant of Severity: the last issue decides.
LastSeverity(s) == IF Issues(s) = {} THEN 0 ELSE Findings(s)[Max(Issues(s))].severity

Severity(s) == Max({0} \cup {Findings(s)[i].severity : i \in Issues(s)})

Status(s) ==
    IF ~s.config_ready THEN "starting"
    ELSE IF Severity(s) >= 2 THEN "unhealthy"
    ELSE IF Severity(s) >= 1 THEN "degraded"
    ELSE "ok"

HttpCode(s) == IF Status(s) = "unhealthy" THEN 503 ELSE 200
=============================================================================
