------------------------------- MODULE Dashboard -------------------------------
(***************************************************************************)
(* What the panel shows of the WAF's verdicts: a transaction in Coraza     *)
(* (external), its audit event mapped by the shipper, ingested with a      *)
(* severity relative to the policy's threshold (routers/logs.py,           *)
(* log_severity.py), purged after the retention time, and counted in the   *)
(* dashboard (stats_service.py).                                           *)
(*                                                                         *)
(* Times are in half seconds.  The shipper's delivery is LogShipper.tla's; *)
(* here each event arrives once, at any later time.  Left out: the lists,  *)
(* the top-N tables, the counts of vhosts and policies, and custom rules   *)
(* that switch the engine of their own transaction.                        *)
(***************************************************************************)
EXTENDS AuditMapping

CONSTANTS
    Mode,           \* [threshold, detect]: inbound thresholds and modes of a policy
    Transactions,   \* [score, rules, denied, echo, summary, structured, variable,
                    \*  flagged, timed, host]
    Vhosts,         \* domains with the policy; all others have none
    DefaultThreshold,
    BucketSeconds, BucketCount, RetentionSeconds,   \* of the window shown
    FirstTick, LastTick, MaxEvents                  \* bounds

ASSUME DashboardAssumption ==
    /\ BucketSeconds \in Nat \ {0} /\ BucketCount \in Nat \ {0}
    /\ Mode \subseteq [threshold : Nat \ {0}, detect : BOOLEAN]
    /\ RetentionSeconds \in Nat /\ RetentionSeconds >= BucketSeconds * BucketCount
    /\ DefaultThreshold \in Nat \ {0} /\ FirstTick \in Nat
    /\ \A t \in Transactions :
          /\ t.score \in Nat /\ t.rules \in Seq(Nat \ EvaluationRules) /\ t.rules # <<>>
          /\ {t.denied, t.summary, t.structured, t.variable, t.flagged, t.timed} \subseteq BOOLEAN

VARIABLES
    policy,         \* row: threshold and whether it only detects; None: deleted
    enforced,       \* the same of the running configuration
    now,
    transit,        \* events written and not yet ingested, with what happened
    logs            \* rows, with what happened

dashboard == <<policy, enforced, now, transit, logs>>

Second == 2

-----------------------------------------------------------------------------
\* External: Coraza.  The messages of the matched rules, which echo the request,
\* and that of the evaluation rule once the score reaches the threshold.  A rule
\* may also deny by itself, whatever the score (200002 of coraza.conf, a custom
\* rule); unless the policy only detects, nothing is evaluated after it.
RuleMessage(t, id) ==
    [data |-> None,
     error |-> <<[tag |-> "narration", value |-> None], [tag |-> "id", value |-> id],
                 [tag |-> "data", value |-> t.echo], [tag |-> "severity", value |-> "critical"]>>]

EvaluationMessage(t) ==
    IF t.structured
    THEN [data |-> [id |-> 949110, msg |-> t.score, severity |-> "emergency"], error |-> <<>>]
    ELSE [data |-> None,
          error |-> <<[tag |-> "narration", value |-> IF t.summary THEN t.score ELSE None],
                      [tag |-> "id", value |-> 949110],
                      [tag |-> "msg", value |-> IF t.summary THEN None ELSE t.score],
                      [tag |-> "uri", value |-> t.echo]>>]

Reached(t, mode) == t.score >= mode.threshold
Blocked(t, mode) == ~mode.detect /\ (t.denied \/ Reached(t, mode))
Evaluated(t, mode) == Reached(t, mode) /\ (mode.detect \/ ~t.denied)

AuditEvent(t, mode, at) ==
    LET matched == [i \in DOMAIN t.rules |-> RuleMessage(t, t.rules[i])]
    IN  [usable |-> TRUE, host |-> t.host, variable |-> IF t.variable THEN t.score ELSE None,
         timestamp |-> IF t.timed THEN (at \div Second) * Second ELSE None,
         interrupted |-> IF t.flagged THEN Blocked(t, mode) ELSE None,
         messages |-> IF Evaluated(t, mode) THEN Append(matched, EvaluationMessage(t)) ELSE matched]

Transact(t) ==
    /\ Cardinality(transit) + Cardinality(logs) < MaxEvents
    /\ LET mode == IF t.host \in Vhosts THEN enforced
                   ELSE [threshold |-> DefaultThreshold, detect |-> FALSE]
       IN  transit' = transit \cup
               {[id |-> Cardinality(transit) + Cardinality(logs), event |-> AuditEvent(t, mode, now),
                 score |-> t.score, threshold |-> mode.threshold, flagged |-> t.flagged,
                 reached |-> Reached(t, mode), blocked |-> Blocked(t, mode),
                 scored |-> t.variable \/ Evaluated(t, mode)]}
    /\ UNCHANGED <<policy, enforced, now, logs>>

\* update_policy and delete_policy; apply() has Coraza enforce the row, a vhost
\* without one is inspected by the default application.
EditPolicy(row) == policy' = row /\ UNCHANGED <<enforced, now, transit, logs>>

Apply ==
    /\ enforced' = IF policy = None THEN [threshold |-> DefaultThreshold, detect |-> FALSE] ELSE policy
    /\ UNCHANGED <<policy, now, transit, logs>>

-----------------------------------------------------------------------------
\* Ingest

\* classify_severity
ClassifySeverity(action, score, threshold) ==
    IF score # None /\ score >= 2 * threshold THEN "high"
    ELSE IF action # "allow" \/ (score # None /\ score >= threshold) THEN "medium"
    ELSE "low"

\* _resolve_vhost_refs and inbound_threshold_for
InboundThresholdFor(vhost) ==
    IF vhost \in Vhosts /\ policy # None THEN policy.threshold ELSE DefaultThreshold

\* ingest_log_event
IngestLogEvent(e) ==
    /\ e \in transit
    /\ transit' = transit \ {e}
    /\ LET p == Payload(e.event, now)
           threshold == InboundThresholdFor(p.vhost)
       IN  logs' = logs \cup
               {[id |-> e.id, at |-> p.event_at, action |-> p.action, score |-> e.score,
                 severity |-> ClassifySeverity(p.action, p.anomaly_score, threshold),
                 same |-> threshold = e.threshold /\ e.flagged,
                 threshold |-> e.threshold, reached |-> e.reached,
                 blocked |-> e.blocked, scored |-> e.scored]}
    /\ UNCHANGED <<policy, enforced, now>>

\* purge_logs_older_than
Purge ==
    /\ logs' = {r \in logs : r.at >= now - RetentionSeconds * Second}
    /\ UNCHANGED <<policy, enforced, now, transit>>

Tick == now < LastTick /\ now' = now + 1 /\ UNCHANGED <<policy, enforced, transit, logs>>

-----------------------------------------------------------------------------
\* Dashboard

Span == BucketSeconds * BucketCount * Second

\* resolve_window
Start == now - Span
InWindow(from, to) == {r \in logs : from <= r.at /\ r.at < to}

\* A count is here the set of the rows it counts.
\* overview: the counters of the window and of the one before.
Overview(which) ==
    [current |-> {r \in InWindow(Start, now) : r.action \in which},
     previous |-> {r \in InWindow(Start - Span, Start) : r.action \in which}]

\* bucket_index_expression: floors whole seconds.
BucketIndex(at) == ((at \div Second) - (Start \div Second)) \div BucketSeconds

\* Mutant: no clamp.
SlotUnclamped(r) == BucketIndex(r.at)

\* timeseries: the bucket a row is counted in.
Slot(r) == IF BucketIndex(r.at) < BucketCount THEN BucketIndex(r.at) ELSE BucketCount - 1

Bucket == 0 .. (BucketCount - 1)
Action == {"allow", "deny", "monitor"}

Timeseries ==
    [i \in Bucket |-> [action \in Action |->
        {r \in InWindow(Start, now) : Slot(r) = i /\ r.action = action}]]

-----------------------------------------------------------------------------
DashboardInit ==
    /\ policy \in Mode /\ enforced = policy
    /\ now = FirstTick
    /\ transit = {} /\ logs = {}

DashboardNext ==
    \/ \E t \in Transactions : Transact(t)
    \/ \E row \in Mode \cup {None} : EditPolicy(row)
    \/ Apply \/ Purge \/ Tick
    \/ \E e \in transit : IngestLogEvent(e)

DashboardSpec == DashboardInit /\ [][DashboardNext]_dashboard

-----------------------------------------------------------------------------
\* Properties

\* The chart and the counters above it agree: an event of a counter is in one
\* bar, and a bar begins at most a second after the events it counts.
ChartsAgree ==
    /\ Overview(Action).current = InWindow(Start, now)
    /\ \A action \in Action :
          Overview({action}).current = UNION {Timeseries[i][action] : i \in Bucket}
    /\ \A r \in InWindow(Start, now) :
          /\ Start + Slot(r) * BucketSeconds * Second < r.at + Second
          /\ r.at < Start + (Slot(r) + 1) * BucketSeconds * Second

\* "how far the transaction's anomaly score got relative to the inbound
\* threshold" (log_severity.py:5): whatever the request echoes and wherever the
\* score is written, the row says "deny" of what Coraza stopped, for its score or
\* for a rule of its own, "monitor" of what the score would have stopped, and
\* "high" of a score that the event states and that is twice the threshold.
VerdictIsTrue ==
    \A r \in logs : r.same =>
        /\ r.action = IF r.blocked THEN "deny" ELSE IF r.reached THEN "monitor" ELSE "allow"
        /\ r.severity = IF r.scored /\ r.score >= 2 * r.threshold THEN "high"
                        ELSE IF r.blocked \/ r.reached THEN "medium" ELSE "low"
================================================================================
