-------------------------------- MODULE Config --------------------------------
(***************************************************************************)
(* internal/config: which environments are accepted, and what the process  *)
(* is given.  A value of an environment variable is what the parser of     *)
(* that variable makes of it: nothing, no value of its type, or a number.  *)
(* Durations, integers and the failure rate (in hundredths) are integers;  *)
(* a list of brokers is the number of its non-blank parts.  KAFKA_TOPIC    *)
(* and KAFKA_CLIENT_ID default when blank, so they are never rejected.     *)
(***************************************************************************)
EXTENDS Integers

CONSTANT MaxInt32  \* the largest connection count ParseInt(.., 32) accepts

Unset == [kind |-> "unset", n |-> 0]
Malformed == [kind |-> "malformed", n |-> 0]
NotANumber == [kind |-> "NaN", n |-> 0]
Number(n) == [kind |-> "number", n |-> n]

Connections == {"DB_MAX_CONNS", "DB_MIN_CONNS"}
Lifetimes == {"DB_MAX_CONN_LIFETIME", "DB_MAX_CONN_IDLE_TIME"}
Outbox == {"OUTBOX_WORKERS", "OUTBOX_BATCH_SIZE", "OUTBOX_INTERVAL", "OUTBOX_STALE_TIMEOUT"}
KafkaWrites == {"KAFKA_WRITE_TIMEOUT", "KAFKA_MAX_ATTEMPTS", "KAFKA_BATCH_TIMEOUT"}
Defaulted == Outbox \union KafkaWrites \union {"SHUTDOWN_TIMEOUT"}
Variables ==
    Connections \union Lifetimes \union Defaulted
    \union {"DATABASE_URL", "PUBLISH_FAILURE_RATE", "OUTBOX_PUBLISHER", "KAFKA_BROKERS"}

\* Of OUTBOX_PUBLISHER: kafka is 1, log is 2, and 3 is any other text.
Publishers == {1, 2}

-----------------------------------------------------------------------------
(* Load: parse, default, bound *)

\* The defaults differ, but each is positive and valid: 1 stands for them.
\* (That of the failure rate is 0; its value is not asked for.)
Default == 1

\* What the process is given for v, once the environment is accepted
Setting(env, v) == IF env[v].kind = "unset" THEN Default ELSE env[v].n

\* getInt32, getDuration: the variable is required, and only its type checked.
IsInt32(raw) == raw.kind = "number" /\ raw.n \in -MaxInt32 - 1..MaxInt32
IsDuration(raw) == raw.kind = "number"

\* getIntWithDefault, getDurationWithDefault
IsPositiveOrUnset(raw) == raw.kind = "unset" \/ (raw.kind = "number" /\ raw.n > 0)

\* getFloatWithDefault and the check after it, as it is written: NaN is
\* neither below 0 nor at least 1.
RateAccepted(raw) ==
    /\ raw.kind # "malformed"
    /\ raw.kind = "number" => ~(raw.n < 0 \/ raw.n >= 100)

Loads(env) ==
    /\ env["DATABASE_URL"].kind # "unset"
    /\ \A v \in Connections : IsInt32(env[v])
    /\ \A v \in Lifetimes : IsDuration(env[v])
    /\ \A v \in Defaulted : IsPositiveOrUnset(env[v])
    /\ RateAccepted(env["PUBLISH_FAILURE_RATE"])

\* A list of nothing but commas and blanks has no broker.
PublisherAccepted(env) == Setting(env, "OUTBOX_PUBLISHER") \in Publishers
BrokersAccepted(env) == Setting(env, "KAFKA_BROKERS") > 0

-----------------------------------------------------------------------------
(* Validate, called by Load for Outbox and Kafka and by main for all three *)

DatabaseValid(env) ==
    LET max == Setting(env, "DB_MAX_CONNS")
        min == Setting(env, "DB_MIN_CONNS")
    IN  /\ max > 0
        /\ min >= 0
        /\ min <= max
        /\ \A v \in Lifetimes : Setting(env, v) > 0

OutboxValid(env) ==
    /\ PublisherAccepted(env)
    /\ \A v \in Outbox : Setting(env, v) > 0
    /\ RateAccepted(env["PUBLISH_FAILURE_RATE"])

KafkaValid(env) ==
    /\ BrokersAccepted(env)
    /\ \A v \in KafkaWrites : Setting(env, v) > 0

Accepted(env) == Loads(env) /\ OutboxValid(env) /\ KafkaValid(env) /\ DatabaseValid(env)

\* pgxpool.ParseConfig, in NewDB
UrlParses(env) == env["DATABASE_URL"].kind = "number"
=============================================================================
