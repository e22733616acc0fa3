---------------------------- MODULE KafkaConsumer ----------------------------
(***************************************************************************)
(* The consumer loop every service uses (libs/kafka/consumer.go): one      *)
(* goroutine runs ConsumeClaim over one partition, calls HandleMessage,    *)
(* sends what cannot be handled to the dead-letter topic and marks what is *)
(* done.  The broker keeps the committed offset; a new session starts      *)
(* there.                                                                  *)
(***************************************************************************)
EXTENDS Integers

CONSTANTS
    N,            \* messages in the partition, at offsets 0 .. N-1
    Poison,       \* offsets whose handler always returns a DLQError
    MaxAttempts,  \* retryTracker.maxAttempts
    MaxFaults     \* bound: transient errors, failed publishes, rebalances, crashes

Msg == 0 .. N - 1

ASSUME ConsumerAssumption ==
    /\ N \in Nat
    /\ Poison \subseteq Msg
    /\ MaxAttempts \in Nat \ {0}
    /\ MaxFaults \in Nat

VARIABLES
    next,        \* offset of the next message of claim.Messages()
    pc,          \* "poll", or what is left to do for message next: "publish", "mark"
    marked,      \* offset after the last marked message
    committed,   \* the group's offset at the broker
    attempts,    \* retryTracker.attempts (0: no entry)
    handled,     \* messages HandleMessage returned nil for
    failures,    \* how often HandleMessage returned an error
    dlq,         \* messages on the dead-letter topic
    faults       \* faults so far

vars == <<next, pc, marked, committed, attempts, handled, failures, dlq, faults>>

Init ==
    /\ next = 0 /\ marked = 0 /\ committed = 0
    /\ pc = "poll"
    /\ attempts = [m \in Msg |-> 0]
    /\ handled = {}
    /\ failures = [m \in Msg |-> 0]
    /\ dlq = {}
    /\ faults = 0

Fault == faults < MaxFaults /\ faults' = faults + 1

-----------------------------------------------------------------------------
(***************************************************************************)
(* ConsumeClaim.  Bump starts again at 1 when the entry is older than the  *)
(* TTL, which may happen between any two attempts; sweepLocked only drops  *)
(* entries that are as old.                                                *)
(***************************************************************************)
HandleOk ==
    /\ pc = "poll"
    /\ next \in Msg \ Poison
    /\ handled' = handled \cup {next}
    /\ pc' = "mark"
    /\ UNCHANGED <<next, marked, committed, attempts, failures, dlq, faults>>

Bump(m) == {1, attempts[m] + 1}

ShouldSendToDLQ(m, n) == m \in Poison \/ n >= MaxAttempts

HandleError ==
    /\ pc = "poll"
    /\ next \in Msg
    /\ IF next \in Poison THEN UNCHANGED faults ELSE Fault
    /\ failures' = [failures EXCEPT ![next] = @ + 1]
    /\ \E n \in Bump(next) :
        /\ attempts' = [attempts EXCEPT ![next] = n]
        /\ IF ShouldSendToDLQ(next, n)
           THEN pc' = "publish" /\ UNCHANGED next
           ELSE next' = next + 1 /\ UNCHANGED pc
    /\ UNCHANGED <<marked, committed, handled, dlq>>

PublishDLQ ==
    /\ pc = "publish"
    /\ dlq' = dlq \cup {next}
    /\ pc' = "mark"
    /\ UNCHANGED <<next, marked, committed, attempts, handled, failures, faults>>

\* An error of PublishJSON does not say whether the broker has the message.
PublishDLQFails ==
    /\ pc = "publish"
    /\ Fault
    /\ dlq' \in {dlq, dlq \cup {next}}
    /\ next' = next + 1
    /\ pc' = "poll"
    /\ UNCHANGED <<marked, committed, attempts, handled, failures>>

MarkNothing ==
    /\ pc = "mark"
    /\ attempts' = [attempts EXCEPT ![next] = 0]
    /\ next' = next + 1
    /\ pc' = "poll"
    /\ UNCHANGED <<marked, committed, handled, failures, dlq, faults>>

MarkAhead ==
    /\ pc = "mark"
    /\ marked' = IF next + 1 \in Msg THEN next + 2 ELSE next + 1
    /\ attempts' = [attempts EXCEPT ![next] = 0]
    /\ next' = next + 1
    /\ pc' = "poll"
    /\ UNCHANGED <<committed, handled, failures, dlq, faults>>

MarkMessage ==
    /\ pc = "mark"
    /\ marked' = next + 1
    /\ attempts' = [attempts EXCEPT ![next] = 0]
    /\ next' = next + 1
    /\ pc' = "poll"
    /\ UNCHANGED <<committed, handled, failures, dlq, faults>>

-----------------------------------------------------------------------------
(***************************************************************************)
(* sarama and the broker: the marked offset is committed from time to      *)
(* time.  A rebalance lets the handler finish its message and commits, or  *)
(* fails to; the next session starts at the committed offset, with the     *)
(* same retryTracker.  A crash also loses the tracker.                     *)
(***************************************************************************)
Commit ==
    /\ committed # marked
    /\ committed' = marked
    /\ UNCHANGED <<next, pc, marked, attempts, handled, failures, dlq, faults>>

StartSession(offset) ==
    /\ committed' = offset
    /\ marked' = offset
    /\ next' = offset
    /\ pc' = "poll"

Rebalance ==
    /\ pc = "poll"
    /\ Fault
    /\ \E offset \in {committed, marked} : StartSession(offset)
    /\ UNCHANGED <<attempts, handled, failures, dlq>>

Crash ==
    /\ Fault
    /\ StartSession(committed)
    /\ attempts' = [m \in Msg |-> 0]
    /\ UNCHANGED <<handled, failures, dlq>>

-----------------------------------------------------------------------------
ConsumeClaim ==
    \/ HandleOk \/ HandleError \/ PublishDLQ \/ PublishDLQFails \/ MarkMessage

Next == ConsumeClaim \/ Commit \/ Rebalance \/ Crash

\* The loop runs while there are messages, and sarama commits periodically.
Spec == Init /\ [][Next]_vars /\ WF_vars(ConsumeClaim) /\ WF_vars(Commit)

-----------------------------------------------------------------------------
\* No message is passed over unseen: below the committed offset every message
\* was given to HandleMessage, whatever rebalances and crashes happened.
NoneUnseen ==
    \A m \in Msg : m < committed => m \in handled \/ failures[m] > 0

\* A message that is not poison goes to the dead-letter topic only after the
\* handler failed on it MaxAttempts times (shouldSendToDLQ).
RetryBudget ==
    \A m \in dlq \ Poison : failures[m] >= MaxAttempts
=============================================================================
