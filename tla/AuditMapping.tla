----------------------------- MODULE AuditMapping -----------------------------
(***************************************************************************)
(* The payload the shipper makes of one Coraza audit event (log-shipper    *)
(* mapping.py).                                                            *)
(*                                                                         *)
(* A text is the score its "(Total Score: N)" states, or None: nothing     *)
(* else of a text matters here.  An error_message is the sequence of its   *)
(* bracket fields and of the narration that follows [client]; a regex      *)
(* search is the first field with the tag.  Left out: URI and method.      *)
(***************************************************************************)
EXTENDS Integers, FiniteSets, Sequences, SequencesExt

CONSTANT None

\* The first element that is a value.
FirstOf(seq) ==
    LET i == SelectInSeq(seq, LAMBDA x : x # None) IN IF i = 0 THEN None ELSE seq[i]

FieldOf(error, tag) ==
    LET i == SelectInSeq(error, LAMBDA f : f.tag = tag) IN IF i = 0 THEN None ELSE error[i].value

\* _ANOMALY_EVALUATION_RULE_IDS, _DENY_SEVERITY_STRINGS
EvaluationRules == {949110, 949111, 959100, 959101}
DenySeverities == {"emergency", "alert", "critical"}

ASSUME MappingAssumption ==
    None \notin Nat \cup BOOLEAN
              \cup [id : Nat, msg : Nat \cup {None}, severity : DenySeverities]

\* _message_rule_id
MessageRuleId(m) ==
    IF m.data # None /\ m.data.id # None THEN m.data.id ELSE FieldOf(m.error, "id")

\* _anomaly_threshold_exceeded
ThresholdExceeded(messages) == \E i \in DOMAIN messages : MessageRuleId(messages[i]) \in EvaluationRules

\* _primary_rule_data: of the first message with rule information, structured
\* or in brackets.
RuleData(m) ==
    LET brackets == [id |-> FieldOf(m.error, "id"), msg |-> FieldOf(m.error, "msg"),
                     severity |-> FieldOf(m.error, "severity")]
    IN  IF m.data # None THEN m.data
        ELSE IF \A col \in DOMAIN brackets : brackets[col] = None THEN None
        ELSE brackets

PrimaryRuleData(messages) == FirstOf([i \in DOMAIN messages |-> RuleData(messages[i])])

\* _action
ActionOf(event) ==
    LET primary == PrimaryRuleData(event.messages)
    IN  CASE event.interrupted = TRUE -> "deny"
          [] event.interrupted = FALSE ->
                IF ThresholdExceeded(event.messages) THEN "monitor" ELSE "allow"
          [] OTHER ->
                IF primary # None /\ primary.severity \in DenySeverities THEN "deny" ELSE "allow"

\* Mutant: the score is read from whatever text states one.
AnomalyScoreAnywhere(event) ==
    FirstOf([i \in DOMAIN event.messages |->
                FirstOf([j \in DOMAIN event.messages[i].error |->
                            IF event.messages[i].error[j].tag \in {"id", "severity"} THEN None
                            ELSE event.messages[i].error[j].value])])

\* _anomaly_score_from_messages: of the evaluation rules' messages alone, the
\* structured text, the [msg] or the narration.
ScoreText(m) ==
    IF MessageRuleId(m) \notin EvaluationRules THEN None
    ELSE FirstOf(<<IF m.data = None THEN None ELSE m.data.msg,
                   FieldOf(m.error, "msg"), FieldOf(m.error, "narration")>>)

ScoreFromMessages(messages) == FirstOf([i \in DOMAIN messages |-> ScoreText(messages[i])])

\* _anomaly_score: the transaction's variable, if the event has it.
AnomalyScore(event) ==
    IF event.variable # None THEN event.variable ELSE ScoreFromMessages(event.messages)

\* _rule_id
RuleId(event) ==
    LET primary == PrimaryRuleData(event.messages)
    IN  IF primary # None /\ primary.id # None /\ primary.id > 0 THEN primary.id ELSE None

\* _vhost: the host without its port.
VhostOf(event) == IF event.host \in {None, ""} THEN "unknown" ELSE event.host

\* coraza_event_to_ingest; an event without a timestamp is given the time at
\* which it is mapped.
Payload(event, now) ==
    IF ~event.usable THEN None
    ELSE [event_at |-> IF event.timestamp = None THEN now ELSE event.timestamp,
          vhost |-> VhostOf(event), action |-> ActionOf(event),
          rule_id |-> RuleId(event), anomaly_score |-> AnomalyScore(event)]
===============================================================================
