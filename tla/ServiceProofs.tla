---------------------------- MODULE ServiceProofs ----------------------------
(***************************************************************************)
(* Proofs about the consumer loop (KafkaConsumer), the life of a service   *)
(* around it (Service), the ledger's consumer (SettlementConsumer) and the *)
(* user service's lists and API keys (Listing, UserService), each in a     *)
(* section of its own.                                                     *)
(***************************************************************************)
EXTENDS Service, SettlementConsumer, UserService, FiniteSetTheorems, TLAPS

-----------------------------------------------------------------------------
(***************************************************************************)
(* For any partition, any set of poison messages, any retry budget and any *)
(* number of faults: ConsumeClaim passes over no message unseen and        *)
(* dead-letters nothing before its retry budget is spent.                  *)
(***************************************************************************)
\* The committed offset is never ahead of the marks, and those never ahead of
\* the messages handed to the loop.
TypeOK ==
    /\ next \in 0 .. N /\ marked \in 0 .. N /\ committed \in 0 .. N
    /\ committed <= marked /\ marked <= next
    /\ pc \in {"poll", "publish", "mark"} /\ (pc # "poll" => next \in Msg)
    /\ attempts \in [Msg -> Nat] /\ failures \in [Msg -> Nat]
    /\ handled \subseteq Msg /\ dlq \subseteq Msg
    /\ faults \in 0 .. MaxFaults

(***************************************************************************)
(* The handler was called with m: it succeeded or it returned an error.    *)
(***************************************************************************)
Seen(m) == m \in handled \/ failures[m] > 0

(***************************************************************************)
(* NoneUnseen speaks of the committed offset only.  To be inductive it is  *)
(* strengthened to everything below next, since a mark may reach next at   *)
(* any time, and to the message in hand.  RetryBudget needs the tracker    *)
(* never to count more than the failures there were.                       *)
(***************************************************************************)
SeenBelowNext ==
    /\ \A m \in Msg : m < next => Seen(m)
    /\ pc # "poll" => Seen(next)

CountsFailures ==
    /\ \A m \in Msg : attempts[m] <= failures[m]
    /\ pc = "publish" => next \in Poison \/ attempts[next] >= MaxAttempts

ConsumerInv == TypeOK /\ SeenBelowNext /\ CountsFailures /\ RetryBudget

(***************************************************************************)
(* A consumer that has just joined the group satisfies the invariant.      *)
(***************************************************************************)
LEMMA InitInv == Init => ConsumerInv
BY ConsumerAssumption
   DEF Init, ConsumerInv, TypeOK, SeenBelowNext, CountsFailures, RetryBudget, Seen, Msg

(***************************************************************************)
(* Every step of ConsumeClaim, every commit, rebalance and crash keeps it. *)
(***************************************************************************)
LEMMA NextInv == ConsumerInv /\ [Next]_vars => ConsumerInv'
<1> SUFFICES ASSUME ConsumerInv, [Next]_vars PROVE ConsumerInv'
    BY Zenon
<1> USE ConsumerAssumption
<1> USE DEF ConsumerInv, TypeOK, SeenBelowNext, CountsFailures, RetryBudget, Seen, Msg
<1>1. CASE HandleOk
    BY <1>1, Zenon DEF HandleOk
<1>2. CASE HandleError
    <2>1. PICK n \in Bump(next) :
            /\ attempts' = [attempts EXCEPT ![next] = n]
            /\ IF ShouldSendToDLQ(next, n)
               THEN pc' = "publish" /\ UNCHANGED next
               ELSE next' = next + 1 /\ UNCHANGED pc
        BY <1>2, Zenon DEF HandleError
    <2>2. /\ pc = "poll" /\ next \in Msg
          /\ failures' = [failures EXCEPT ![next] = @ + 1]
          /\ UNCHANGED <<marked, committed, handled, dlq>>
        BY <1>2, Zenon DEF HandleError
    <2>3. faults' \in 0 .. MaxFaults
        BY <1>2 DEF HandleError, Fault
    <2>4. /\ n \in Nat /\ n <= failures[next] + 1
          /\ failures'[next] = failures[next] + 1
          /\ failures[next] \in Nat
        BY <2>1, <2>2 DEF Bump
    <2>5. /\ next' \in 0 .. N /\ next <= next'
          /\ pc' \in {"poll", "publish", "mark"} /\ (pc' # "poll" => next' \in Msg)
        BY <2>1, <2>2
    <2>6. attempts' \in [Msg -> Nat] /\ failures' \in [Msg -> Nat]
        BY <2>1, <2>2, <2>4
    <2>7. TypeOK'
        <3>1. marked' <= next'
            BY <2>2, <2>5
        <3> QED
            BY <2>2, <2>3, <2>5, <2>6, <3>1, Zenon
    <2>8. SeenBelowNext'
        <3>1. \A m \in Msg : m < next' => m < next \/ m = next
            BY <2>1, <2>2
        <3>2. \A m \in Msg : m # next => failures'[m] = failures[m]
            BY <2>2
        <3>3. \A m \in Msg : m = next \/ Seen(m) => Seen(m)'
            <4>1. handled' = handled /\ failures'[next] > 0
                BY <2>2, <2>4
            <4> QED
                BY ONLY <3>2, <4>1, Zenon DEF Seen
        <3>4. pc' # "poll" => next' = next
            BY <2>1, <2>2, Zenon
        <3> QED
            BY ONLY ConsumerInv, <2>2, <2>5, <3>1, <3>3, <3>4, Zenon DEF ConsumerInv, SeenBelowNext
    <2>9. CountsFailures'
        BY <2>1, <2>2, <2>4, Zenon DEF ShouldSendToDLQ
    <2>10. RetryBudget'
        BY <2>2
    <2> QED
        BY <2>7, <2>8, <2>9, <2>10, Zenon
<1>3. CASE PublishDLQ
    BY <1>3 DEF PublishDLQ
<1>4. CASE PublishDLQFails
    BY <1>4 DEF PublishDLQFails, Fault
<1>5. CASE MarkMessage
    BY <1>5 DEF MarkMessage
<1>6. CASE Commit
    BY <1>6 DEF Commit
<1>7. CASE Rebalance
    BY <1>7 DEF Rebalance, Fault, StartSession
<1>8. CASE Crash
    BY <1>8 DEF Crash, Fault, StartSession
<1>9. CASE UNCHANGED vars
    BY <1>9, Zenon DEF vars
<1> QED
    BY <1>1, <1>2, <1>3, <1>4, <1>5, <1>6, <1>7, <1>8, <1>9, Zenon DEF Next, ConsumeClaim

(***************************************************************************)
(* The invariant holds of every behaviour of the consumer group.           *)
(***************************************************************************)
LEMMA AlwaysConsumerInv == Spec => []ConsumerInv
BY InitInv, NextInv, PTL DEF Spec

(***************************************************************************)
(* The offset the group commits never passes a message that HandleMessage  *)
(* has not been called with.                                               *)
(***************************************************************************)
THEOREM NothingUnseen == Spec => []NoneUnseen
<1>1. ConsumerInv => NoneUnseen
    BY ConsumerAssumption DEF ConsumerInv, TypeOK, SeenBelowNext, Seen, NoneUnseen, Msg
<1> QED
    BY <1>1, AlwaysConsumerInv, PTL

(***************************************************************************)
(* A message the handler could retry reaches the dead-letter topic only    *)
(* after MaxAttempts errors.                                               *)
(***************************************************************************)
THEOREM RetriesBeforeDLQ == Spec => []RetryBudget
BY AlwaysConsumerInv, PTL DEF ConsumerInv

-----------------------------------------------------------------------------
(***************************************************************************)
(* What is proved of the consumer holds of it inside a service, however    *)
(* main starts it, a signal stops it, and sessions and processes end.      *)
(***************************************************************************)
\* A step of the service that leaves the topic alone may still be a fault.
LEMMA TopicUnchanged ==
    ASSUME ConsumerInv, UNCHANGED topic, faults' \in 0 .. MaxFaults
    PROVE  ConsumerInv'
<1>1. UNCHANGED <<next, pc, marked, committed, attempts, handled, failures, dlq>>
  BY Zenon DEF topic
<1>2. TypeOK'
  BY <1>1, Zenon DEF ConsumerInv, TypeOK
<1>3. SeenBelowNext'
  BY <1>1, Zenon DEF ConsumerInv, SeenBelowNext, Seen
<1>4. CountsFailures' /\ RetryBudget'
  BY <1>1, Zenon DEF ConsumerInv, CountsFailures, RetryBudget
<1> QED  BY <1>2, <1>3, <1>4, Zenon DEF ConsumerInv

\* To the consumer every step of the service is one of its own, or none.
LEMMA ServiceStep ==
    ASSUME faults \in 0 .. MaxFaults, [ServiceNext]_serviceVars
    PROVE  \/ [Next]_vars
           \/ UNCHANGED topic /\ faults' \in 0 .. MaxFaults
<1>1. Injected => faults' \in 0 .. MaxFaults
  BY ServiceAssumption, ConsumerAssumption DEF Injected, Injectable
<1>2. CASE BootStep
  BY <1>1, <1>2, Zenon DEF BootStep
<1>3. CASE Die \/ MainReturns
  BY <1>3, Zenon DEF Die, MainReturns, Exit, Next
<1>4. CASE Restart \/ Signal
  BY <1>1, <1>4, Zenon DEF Restart, Signal
<1>5. CASE StopStep \/ CloseStep \/ Expire
  BY <1>5 DEF StopStep, CloseStep, Expire
<1>6. CASE Join \/ Return
  BY <1>6, Zenon DEF Join, Return
<1>7. CASE Claim \/ AutoCommit
  BY <1>7, Zenon DEF Claim, AutoCommit, Next
<1>8. CASE SessionEnds
  <2>1. CASE Rebalance
    BY <2>1, Zenon DEF Next
  <2>2. CASE ~ Rebalance
    <3>1. /\ committed' \in {committed, marked}
          /\ UNCHANGED <<next, pc, marked, attempts, handled, failures, dlq, faults>>
      BY <1>8, <2>2, Zenon DEF SessionEnds
    <3>2. CASE committed' = committed
      BY <3>1, <3>2, Zenon DEF topic
    <3>3. CASE committed' # committed
      BY <3>1, <3>3, Zenon DEF Next, Commit
    <3> QED  BY <3>2, <3>3, Zenon
  <2> QED  BY <2>1, <2>2, Zenon
<1>9. CASE \E s \in Server : CallBegins(s) \/ CallEnds(s)
  BY <1>9, Zenon DEF CallBegins, CallEnds
<1>10. CASE UNCHANGED serviceVars
  BY <1>10 DEF serviceVars
<1> QED
  BY <1>2, <1>3, <1>4, <1>5, <1>6, <1>7, <1>8, <1>9, <1>10, Zenon DEF ServiceNext, Stop, Consume

\* The invariant of the consumer is one of the service.
LEMMA AlwaysServiceInv == ServiceSpec => []ConsumerInv
<1>1. ServiceInit => ConsumerInv
  BY InitInv, Zenon DEF ServiceInit
<1>2. ConsumerInv /\ [ServiceNext]_serviceVars => ConsumerInv'
  <2> SUFFICES ASSUME ConsumerInv, [ServiceNext]_serviceVars  PROVE ConsumerInv'
    BY Zenon
  <2>1. faults \in 0 .. MaxFaults
    BY DEF ConsumerInv, TypeOK
  <2> QED  BY <2>1, ServiceStep, NextInv, TopicUnchanged, Zenon
<1> QED  BY <1>1, <1>2, PTL DEF ServiceSpec

(***************************************************************************)
(* No restart, signal, rebalance or cancelled session makes a service      *)
(* commit past a message its handler was not given.                        *)
(***************************************************************************)
THEOREM ServicesPassNothingUnseen == ServiceSpec => []NoneUnseen
<1>1. ConsumerInv => NoneUnseen
  BY ConsumerAssumption DEF ConsumerInv, TypeOK, SeenBelowNext, Seen, NoneUnseen, Msg
<1> QED  BY <1>1, AlwaysServiceInv, PTL

(***************************************************************************)
(* Nor does it make one dead-letter a message before its retries are used  *)
(* up, though a crash forgets how often it was tried.                      *)
(***************************************************************************)
THEOREM ServicesRetryBeforeDLQ == ServiceSpec => []RetryBudget
BY AlwaysServiceInv, PTL DEF ConsumerInv

-----------------------------------------------------------------------------
(***************************************************************************)
(* ConsumesWithResources, for every order in which the mains could open    *)
(* their resources that has the consumer last and the group after the pool *)
(* and the producer (WellOrdered).  The closes are deferred newest first,  *)
(* so the consumer's context is cancelled before the group is left, and    *)
(* the group is left, which waits for its session, before the others go.   *)
(***************************************************************************)
Needed == {"pool", "producer", "group"}

BootSteps == Deferring \cup {"ready", "cache", "grpc", "http"}

\* The consumer is started last, and only with what it needs; the group is
\* opened after the others.
WellOrdered(steps, opened) ==
    /\ \A i \in 1 .. Len(steps) : steps[i] = "consumer" => i = Len(steps)
    /\ "consumer" \in Steps(steps) => Needed \subseteq opened \cup Steps(steps)
    /\ \A i, j \in 1 .. Len(steps) :
          steps[i] = "group" /\ steps[j] \in {"pool", "producer"} => j < i
    /\ "group" \in opened => Steps(steps) \cap {"pool", "producer"} = {}

\* The closes, newest first.
DefersInOrder ==
    /\ \A i \in 1 .. Len(defers) : defers[i] = "consumer" => i = 1
    /\ \A i, j \in 1 .. Len(defers) :
          defers[i] = "group" /\ defers[j] \in {"pool", "producer"} => i < j

Booting ==
    /\ consumer = "off"
    /\ "consumer" \notin Open
    /\ todo \in Seq(BootSteps) /\ todo # <<>>
    /\ WellOrdered(todo, Open)

\* A consumer that was started can run, or can no longer join the group.
Consuming ==
    /\ Needed \subseteq Open \/ (cancelled /\ consumer # "session")
    /\ "consumer" \in Open \/ cancelled
    /\ phase \in {"up", "stop", "close"}

ResourceInv ==
    /\ program \in Programs
    /\ defers \in Seq(BootSteps)
    /\ DefersInOrder
    /\ phase = "boot" => Booting
    /\ phase = "close" => todo = defers \o <<"exit">>
    /\ phase = "exited" => defers = <<>>
    /\ consumer # "off" => Consuming

\* The first step of a sequence and the others.
LEMMA FirstStep ==
    ASSUME NEW q \in Seq(BootSteps), q # <<>>
    PROVE  /\ Head(q) = q[1] /\ Tail(q) \in Seq(BootSteps) /\ Len(Tail(q)) = Len(q) - 1
           /\ Len(q) \in Nat /\ Len(q) > 0 /\ Head(q) \in BootSteps
           /\ \A i \in 1 .. Len(Tail(q)) : Tail(q)[i] = q[i + 1]
           /\ Steps(q) = {Head(q)} \cup Steps(Tail(q))
           /\ Tail(q) = <<>> <=> Len(q) = 1
<1>1. /\ Head(q) = q[1] /\ Tail(q) \in Seq(BootSteps) /\ Len(Tail(q)) = Len(q) - 1
      /\ Len(q) \in Nat /\ Len(q) > 0 /\ q[1] \in BootSteps
      /\ \A i \in 1 .. Len(Tail(q)) : Tail(q)[i] = q[i + 1]
  OBVIOUS
<1>2. DOMAIN q = 1 .. Len(q) /\ DOMAIN Tail(q) = 1 .. Len(Tail(q))
  BY <1>1
<1>3. ASSUME NEW x \in Steps(q)  PROVE x \in {Head(q)} \cup Steps(Tail(q))
  <2>1. PICK i \in 1 .. Len(q) : x = q[i]
    BY <1>2, <1>3, Zenon DEF Steps
  <2>2. CASE i = 1
    BY <1>1, <2>1, <2>2, Zenon
  <2>3. CASE i # 1
    <3>1. i - 1 \in 1 .. Len(Tail(q)) /\ i = (i - 1) + 1
      BY <1>1, <2>1, <2>3
    <3>2. Tail(q)[i - 1] = x
      BY <1>1, <2>1, <3>1, Zenon
    <3> QED  BY <1>2, <3>1, <3>2, Zenon DEF Steps
  <2> QED  BY <2>2, <2>3, Zenon
<1>4. ASSUME NEW x \in Steps(Tail(q))  PROVE x \in Steps(q)
  <2>1. PICK i \in 1 .. Len(Tail(q)) : x = Tail(q)[i]
    BY <1>2, <1>4, Zenon DEF Steps
  <2>2. i + 1 \in 1 .. Len(q) /\ x = q[i + 1]
    BY <1>1, <2>1
  <2> QED  BY <1>2, <2>2, Zenon DEF Steps
<1>5. Head(q) \in Steps(q)
  <2>1. 1 \in 1 .. Len(q)
    BY <1>1
  <2> QED  BY <1>1, <1>2, <2>1, Zenon DEF Steps
<1>6. Steps(q) = {Head(q)} \cup Steps(Tail(q))
  BY <1>3, <1>4, <1>5, Zenon
<1>7. Tail(q) = <<>> <=> Len(q) = 1
  <2>1. \A t \in Seq(BootSteps) : t = <<>> <=> Len(t) = 0
    OBVIOUS
  <2>2. Tail(q) = <<>> <=> Len(Tail(q)) = 0
    BY <1>1, <2>1, Zenon
  <2> QED  BY <1>1, <2>2
<1> QED  BY <1>1, <1>6, <1>7, Zenon

\* What a deferred close does to the list.
LEMMA Deferred ==
    ASSUME NEW q \in Seq(BootSteps), NEW s \in BootSteps
    PROVE  /\ <<s>> \o q \in Seq(BootSteps) /\ Len(<<s>> \o q) = Len(q) + 1
           /\ (<<s>> \o q)[1] = s
           /\ \A i \in 2 .. Len(q) + 1 : (<<s>> \o q)[i] = q[i - 1] /\ i - 1 \in 1 .. Len(q)
           /\ Steps(<<s>> \o q) = {s} \cup Steps(q)
<1> DEFINE d == <<s>> \o q
<1>1. /\ d \in Seq(BootSteps) /\ Len(d) = Len(q) + 1 /\ d[1] = s /\ d # <<>> /\ Len(q) \in Nat
  OBVIOUS
<1>2. \A i \in 2 .. Len(q) + 1 : d[i] = q[i - 1] /\ i - 1 \in 1 .. Len(q)
  BY <1>1
<1>3. Head(d) = s /\ Tail(d) = q
  OBVIOUS
<1>4. Steps(d) = {Head(d)} \cup Steps(Tail(d))
  BY <1>1, FirstStep, Zenon
<1> QED  BY <1>1, <1>2, <1>3, <1>4, Zenon

\* A main without a consumer group, and one that opens it as the step g.
LEMMA WithoutGroup ==
    ASSUME NEW m \in Seq(BootSteps),
           \A i \in 1 .. Len(m) : m[i] \notin {"group", "consumer"}
    PROVE  WellOrdered(m, {})
<1>1. "consumer" \notin Steps(m)
  <2>1. DOMAIN m = 1 .. Len(m)
    OBVIOUS
  <2> QED  BY <2>1 DEF Steps
<1> QED  BY <1>1, Zenon DEF WellOrdered

LEMMA WithGroup ==
    ASSUME NEW m \in Seq(BootSteps), NEW g \in 1 .. Len(m), m[g] = "group",
           \A i \in 1 .. Len(m) :
              /\ m[i] = "group" => i = g
              /\ m[i] = "consumer" => i = Len(m)
              /\ m[i] \in {"pool", "producer"} => i < g,
           \E i \in 1 .. Len(m) : m[i] = "pool",
           \E i \in 1 .. Len(m) : m[i] = "producer"
    PROVE  WellOrdered(m, {})
<1>1. DOMAIN m = 1 .. Len(m)
  OBVIOUS
<1>2. Needed \subseteq Steps(m)
  BY <1>1, Zenon DEF Needed, Steps
<1>3. \A i, j \in 1 .. Len(m) :
        m[i] = "group" /\ m[j] \in {"pool", "producer"} => j < i
  BY Zenon
<1> QED  BY <1>2, <1>3, Zenon DEF WellOrdered

\* Every main starts its consumer, if it has one, with all it needs.
LEMMA MainsWellOrdered ==
    ASSUME NEW p \in Programs
    PROVE  Main[p] \in Seq(BootSteps) /\ Main[p] # <<>> /\ WellOrdered(Main[p], {})
<1>1. p \in {"ledger", "orderingest", "matching", "risk", "fee", "auth", "user", "template"}
  BY ServiceAssumption, Zenon DEF Main
<1>2. CASE p = "ledger"
  <2> DEFINE m == LedgerMain
  <2>1. Main[p] = m
    BY <1>2, Zenon DEF Main
  <2>2. m \in Seq(BootSteps) /\ Len(m) = 8 /\ m # <<>>
    BY DEF LedgerMain, BootSteps, Deferring
  <2>3. /\ m[1] = "pool" /\ m[2] = "conn" /\ m[3] = "producer" /\ m[4] = "group"
        /\ m[5] = "ready" /\ m[6] = "grpc" /\ m[7] = "http" /\ m[8] = "consumer"
    BY Zenon DEF LedgerMain
  <2> HIDE DEF m
  <2>4. \A i \in 1 .. 8 : i \in {1, 2, 3, 4, 5, 6, 7, 8}
    OBVIOUS
  <2>5. \A i \in 1 .. 8 :
          /\ m[i] = "group" => i = 4
          /\ m[i] = "consumer" => i = 8
          /\ m[i] \in {"pool", "producer"} => i < 4
    BY <2>3, <2>4
  <2>6. {1, 3, 4} \subseteq 1 .. 8
    OBVIOUS
  <2>7. WellOrdered(m, {})
    BY <2>2, <2>3, <2>5, <2>6, WithGroup, Zenon
  <2> QED  BY <2>1, <2>2, <2>7, Zenon
<1>3. CASE p = "orderingest"
  <2> DEFINE m == OrderIngestMain
  <2>1. Main[p] = m
    BY <1>3 DEF Main
  <2>2. m \in Seq(BootSteps) /\ Len(m) = 8 /\ m # <<>>
    BY DEF OrderIngestMain, BootSteps, Deferring
  <2>3. /\ m[1] = "pool" /\ m[2] = "conn" /\ m[3] = "conn" /\ m[4] = "producer"
        /\ m[5] = "group" /\ m[6] = "ready" /\ m[7] = "http" /\ m[8] = "consumer"
    BY Zenon DEF OrderIngestMain
  <2> HIDE DEF m
  <2>4. \A i \in 1 .. 8 : i \in {1, 2, 3, 4, 5, 6, 7, 8}
    OBVIOUS
  <2>5. \A i \in 1 .. 8 :
          /\ m[i] = "group" => i = 5
          /\ m[i] = "consumer" => i = 8
          /\ m[i] \in {"pool", "producer"} => i < 5
    BY <2>3, <2>4
  <2>6. {1, 4, 5} \subseteq 1 .. 8
    OBVIOUS
  <2>7. WellOrdered(m, {})
    BY <2>2, <2>3, <2>5, <2>6, WithGroup, Zenon
  <2> QED  BY <2>1, <2>2, <2>7, Zenon
<1>4. CASE p = "matching"
  <2> DEFINE m == MatchingMain
  <2>1. Main[p] = m
    BY <1>4 DEF Main
  <2>2. m \in Seq(BootSteps) /\ Len(m) = 7 /\ m # <<>>
    BY DEF MatchingMain, BootSteps, Deferring
  <2>3. /\ m[1] = "pool" /\ m[2] = "producer" /\ m[3] = "group" /\ m[4] = "ready"
        /\ m[5] = "grpc" /\ m[6] = "http" /\ m[7] = "consumer"
    BY DEF MatchingMain
  <2> HIDE DEF m
  <2>4. \A i \in 1 .. 7 : i \in {1, 2, 3, 4, 5, 6, 7}
    OBVIOUS
  <2>5. \A i \in 1 .. 7 :
          /\ m[i] = "group" => i = 3
          /\ m[i] = "consumer" => i = 7
          /\ m[i] \in {"pool", "producer"} => i < 3
    BY <2>3, <2>4
  <2>6. {1, 2, 3} \subseteq 1 .. 7
    OBVIOUS
  <2>7. WellOrdered(m, {})
    BY <2>2, <2>3, <2>5, <2>6, WithGroup, Zenon
  <2> QED  BY <2>1, <2>2, <2>7, Zenon
<1>5. CASE p = "risk"
  <2> DEFINE m == RiskMain
  <2>1. Main[p] = m
    BY <1>5 DEF Main
  <2>2. m \in Seq(BootSteps) /\ Len(m) = 7 /\ m # <<>>
    BY DEF RiskMain, BootSteps, Deferring
  <2>3. /\ m[1] = "pool" /\ m[2] = "conn" /\ m[3] = "cache" /\ m[4] = "refresh"
        /\ m[5] = "ready" /\ m[6] = "grpc" /\ m[7] = "http"
    BY Zenon DEF RiskMain
  <2> HIDE DEF m
  <2>4. \A i \in 1 .. 7 : i \in {1, 2, 3, 4, 5, 6, 7}
    OBVIOUS
  <2>5. \A i \in 1 .. 7 : m[i] \notin {"group", "consumer"}
    BY <2>3, <2>4, Zenon
  <2> QED  BY <2>1, <2>2, <2>5, WithoutGroup, Zenon
<1>6. CASE p = "fee"
  <2> DEFINE m == FeeMain
  <2>1. Main[p] = m
    BY <1>6, Zenon DEF Main
  <2>2. m \in Seq(BootSteps) /\ Len(m) = 6 /\ m # <<>>
    BY DEF FeeMain, BootSteps, Deferring
  <2>3. /\ m[1] = "pool" /\ m[2] = "cache" /\ m[3] = "refresh" /\ m[4] = "ready"
        /\ m[5] = "grpc" /\ m[6] = "http"
    BY Zenon DEF FeeMain
  <2> HIDE DEF m
  <2>4. \A i \in 1 .. 6 : i \in {1, 2, 3, 4, 5, 6}
    OBVIOUS
  <2>5. \A i \in 1 .. 6 : m[i] \notin {"group", "consumer"}
    BY <2>3, <2>4, Zenon
  <2> QED  BY <2>1, <2>2, <2>5, WithoutGroup, Zenon
<1>7. CASE p = "auth"
  <2> DEFINE m == AuthMain
  <2>1. Main[p] = m
    BY <1>7, Zenon DEF Main
  <2>2. m \in Seq(BootSteps) /\ Len(m) = 4 /\ m # <<>>
    BY DEF AuthMain, BootSteps, Deferring
  <2>3. m[1] = "ready" /\ m[2] = "pool" /\ m[3] = "limiter" /\ m[4] = "http"
    BY DEF AuthMain
  <2> HIDE DEF m
  <2>4. \A i \in 1 .. 4 : i \in {1, 2, 3, 4}
    OBVIOUS
  <2>5. \A i \in 1 .. 4 : m[i] \notin {"group", "consumer"}
    BY <2>3, <2>4, Zenon
  <2> QED  BY <2>1, <2>2, <2>5, WithoutGroup, Zenon
<1>8. CASE p = "user"
  <2> DEFINE m == UserMain
  <2>1. Main[p] = m
    BY <1>8, Zenon DEF Main
  <2>2. m \in Seq(BootSteps) /\ Len(m) = 3 /\ m # <<>>
    BY DEF UserMain, BootSteps, Deferring
  <2>3. m[1] = "ready" /\ m[2] = "pool" /\ m[3] = "http"
    BY Zenon DEF UserMain
  <2> HIDE DEF m
  <2>4. \A i \in 1 .. 3 : i \in {1, 2, 3}
    OBVIOUS
  <2>5. \A i \in 1 .. 3 : m[i] \notin {"group", "consumer"}
    BY <2>3, <2>4, Zenon
  <2> QED  BY <2>1, <2>2, <2>5, WithoutGroup, Zenon
<1>9. CASE p = "template"
  <2> DEFINE m == TemplateMain
  <2>1. Main[p] = m
    BY <1>9, Zenon DEF Main
  <2>2. m \in Seq(BootSteps) /\ Len(m) = 2 /\ m # <<>>
    BY DEF TemplateMain, BootSteps, Deferring
  <2>3. m[1] = "ready" /\ m[2] = "http"
    BY Zenon DEF TemplateMain
  <2> HIDE DEF m
  <2>4. \A i \in 1 .. 2 : i \in {1, 2}
    OBVIOUS
  <2>5. \A i \in 1 .. 2 : m[i] \notin {"group", "consumer"}
    BY <2>3, <2>4, Zenon
  <2> QED  BY <2>1, <2>2, <2>5, WithoutGroup, Zenon
<1> QED  BY <1>1, <1>2, <1>3, <1>4, <1>5, <1>6, <1>7, <1>8, <1>9, Zenon

-----------------------------------------------------------------------------
\* A service starts with a main that is in order.
LEMMA InitResources == ServiceInit => ResourceInv
<1> SUFFICES ASSUME ServiceInit  PROVE ResourceInv
  BY Zenon
<1>1. defers = <<>> /\ todo = Main[program] /\ program \in Programs
      /\ phase = "boot" /\ consumer = "off"
  BY Zenon DEF ServiceInit
<1>2. Open = {} /\ defers \in Seq(BootSteps) /\ DefersInOrder
  BY <1>1 DEF Open, Steps, DefersInOrder
<1>3. Booting
  BY <1>1, <1>2, MainsWellOrdered, Zenon DEF Booting
<1> QED  BY <1>1, <1>2, <1>3, Zenon DEF ResourceInv

\* A step of main keeps the rest of it in order, and adds its close in front.
LEMMA BootResources ==
    ASSUME ResourceInv, BootStep
    PROVE  ResourceInv'
<1> DEFINE s == Head(todo)
           rest1 == Tail(todo)
<1>1. /\ phase = "boot" /\ Booting /\ program' = program /\ cancelled' = cancelled
      /\ defers' = IF s \in Deferring THEN <<s>> \o defers ELSE defers
      /\ consumer' = IF s = "consumer" THEN "join" ELSE consumer
      /\ IF rest1 = <<>> THEN phase' = "up" /\ todo' = <<>>
                        ELSE phase' = phase /\ todo' = rest1
  BY Zenon DEF ResourceInv, BootStep, Then
<1>2. /\ s = todo[1] /\ rest1 \in Seq(BootSteps) /\ Len(rest1) = Len(todo) - 1
      /\ Len(todo) \in Nat /\ Len(todo) > 0 /\ s \in BootSteps
      /\ \A i \in 1 .. Len(rest1) : rest1[i] = todo[i + 1]
      /\ Steps(todo) = {s} \cup Steps(rest1)
      /\ rest1 = <<>> <=> Len(todo) = 1
  BY <1>1, FirstStep, Zenon DEF Booting
<1>3. /\ <<s>> \o defers \in Seq(BootSteps) /\ Len(<<s>> \o defers) = Len(defers) + 1
      /\ (<<s>> \o defers)[1] = s
      /\ \A i \in 2 .. Len(defers) + 1 :
            (<<s>> \o defers)[i] = defers[i - 1] /\ i - 1 \in 1 .. Len(defers)
      /\ Steps(<<s>> \o defers) = {s} \cup Open
  BY <1>2, Deferred, Zenon DEF ResourceInv, Open
<1> DEFINE d == <<s>> \o defers
<1> HIDE DEF s, rest1, d
<1>4. defers' \in Seq(BootSteps) /\ Open' = IF s \in Deferring THEN {s} \cup Open ELSE Open
  BY <1>1, <1>3, Zenon DEF ResourceInv, Open, d
<1>5. WellOrdered(todo, Open) /\ "consumer" \notin Open /\ consumer = "off"
  BY <1>1 DEF Booting
<1>6. DOMAIN defers = 1 .. Len(defers) /\ Len(defers) \in Nat
  BY DEF ResourceInv
<1>7. DefersInOrder'
  <2>1. CASE s \in Deferring
    <3>1. defers' = d /\ Len(d) = Len(defers) + 1 /\ d[1] = s
          /\ \A i \in 2 .. Len(defers) + 1 :
                d[i] = defers[i - 1] /\ i - 1 \in 1 .. Len(defers)
      BY <1>1, <1>3, <2>1 DEF d
    <3>2. \A i \in 1 .. Len(d) : i = 1 \/ i \in 2 .. Len(defers) + 1
      BY <1>6, <3>1
    <3>3. \A i \in 1 .. Len(d) : d[i] = "consumer" => i = 1
      <4>1. \A i \in 1 .. Len(defers) : defers[i] # "consumer"
        BY <1>5, <1>6, Zenon DEF Open, Steps
      <4> QED  BY <3>1, <3>2, <4>1, Zenon
    <3>4. ASSUME NEW i \in 1 .. Len(d), NEW j \in 1 .. Len(d),
                 d[i] = "group", d[j] \in {"pool", "producer"}
          PROVE  i < j
      <4>1. CASE i = 1
        BY <1>6, <3>1, <3>4, <4>1
      <4>2. CASE i # 1
        <5>1. defers[i - 1] = "group" /\ i - 1 \in 1 .. Len(defers)
          BY <3>1, <3>2, <3>4, <4>2, Zenon
        <5>2. "group" \in Open
          BY <1>6, <5>1, Zenon DEF Open, Steps
        <5>3. j # 1
          BY <1>2, <1>5, <3>1, <3>4, <5>2, Zenon DEF WellOrdered
        <5>4. defers[j - 1] \in {"pool", "producer"} /\ j - 1 \in 1 .. Len(defers)
          BY <3>1, <3>2, <3>4, <5>3, Zenon
        <5>5. i - 1 < j - 1
          BY <5>1, <5>4, Zenon DEF ResourceInv, DefersInOrder
        <5> QED  BY <5>5
      <4> QED  BY <4>1, <4>2, Zenon
    <3> QED  BY <3>1, <3>3, <3>4, Zenon DEF DefersInOrder
  <2>2. CASE s \notin Deferring
    BY <1>1, <2>2, Zenon DEF ResourceInv, DefersInOrder
  <2> QED  BY <2>1, <2>2
<1>8. CASE s = "consumer"
  <2>1. Len(todo) = 1
    <3>1. 1 \in 1 .. Len(todo) /\ todo[1] = "consumer"
      BY <1>2, <1>8
    <3> QED  BY <1>5, <3>1, Zenon DEF WellOrdered
  <2>2. phase' = "up" /\ consumer' = "join" /\ rest1 = <<>>
    BY <1>1, <1>2, <1>8, <2>1, Zenon
  <2>3. Steps(rest1) = {}
    BY <2>2 DEF Steps
  <2>4. Needed \subseteq Open
    BY <1>2, <1>5, <1>8, <2>3, Zenon DEF WellOrdered, Needed
  <2>5. Needed \subseteq Open' /\ "consumer" \in Open'
    BY <1>4, <1>8, <2>4, Zenon DEF Deferring
  <2> QED  BY <1>1, <1>4, <1>7, <2>2, <2>5, Zenon DEF ResourceInv, Consuming
<1>9. CASE s # "consumer"
  <2>1. consumer' = "off"
    BY <1>1, <1>5, <1>9, Zenon
  <2>2. ASSUME phase' = "boot"  PROVE Booting'
    <3>1. todo' = rest1 /\ rest1 # <<>>
      BY <1>1, <2>2, Zenon
    <3>2. "consumer" \notin Open'
      BY <1>4, <1>5, <1>9, Zenon
    <3>3. \A i \in 1 .. Len(rest1) : i + 1 \in 1 .. Len(todo) /\ rest1[i] = todo[i + 1]
      BY <1>2
    <3>4. \A i \in 1 .. Len(rest1) : rest1[i] = "consumer" => i = Len(rest1)
      BY <1>2, <1>5, <3>3 DEF WellOrdered
    <3>5. "consumer" \in Steps(rest1) => Needed \subseteq Open' \cup Steps(rest1)
      BY <1>2, <1>4, <1>5, Zenon DEF WellOrdered, Needed, Deferring
    <3>6. \A i, j \in 1 .. Len(rest1) :
            rest1[i] = "group" /\ rest1[j] \in {"pool", "producer"} => j < i
      BY <1>2, <1>5, <3>3 DEF WellOrdered
    <3>7. "group" \in Open' => Steps(rest1) \cap {"pool", "producer"} = {}
      <4>1. CASE s = "group"
        <5>1. 1 \in 1 .. Len(todo) /\ todo[1] = "group"
          BY <1>2, <4>1
        <5>2. \A j \in 1 .. Len(rest1) : ~ (j + 1 < 1)
          OBVIOUS
        <5>3. \A j \in 1 .. Len(rest1) : rest1[j] \notin {"pool", "producer"}
          BY <1>5, <3>3, <5>1, <5>2, Zenon DEF WellOrdered
        <5>4. DOMAIN rest1 = 1 .. Len(rest1)
          BY <1>2
        <5> QED  BY <5>3, <5>4, Zenon DEF Steps
      <4>2. CASE s # "group"
        BY <1>2, <1>4, <1>5, <4>2, Zenon DEF WellOrdered
      <4> QED  BY <4>1, <4>2
    <3>8. WellOrdered(todo, Open)'
      BY <3>1, <3>4, <3>5, <3>6, <3>7, Zenon DEF WellOrdered
    <3> QED  BY <1>2, <2>1, <3>1, <3>2, <3>8, Zenon DEF Booting
  <2> QED  BY <1>1, <1>4, <1>7, <2>1, <2>2, Zenon DEF ResourceInv
<1> QED  BY <1>8, <1>9, Zenon

\* A deferred close: the consumer's cancels its context, the group's waits for
\* the session, and the others come after it.
LEMMA CloseResources ==
    ASSUME ResourceInv, CloseStep
    PROVE  ResourceInv'
<1>1. /\ phase = "close" /\ todo = defers \o <<"exit">> /\ Head(todo) # "exit"
      /\ Head(todo) = "group" => consumer # "session"
      /\ cancelled' = (cancelled \/ Head(todo) \in {"consumer", "refresh"})
      /\ defers' = Tail(defers) /\ todo' = Tail(todo)
      /\ UNCHANGED <<program, phase, consumer>>
  BY DEF ResourceInv, CloseStep
<1>2. defers \in Seq(BootSteps) /\ DefersInOrder
  BY Zenon DEF ResourceInv
<1>3. defers # <<>>
  <2>1. Head(<<>> \o <<"exit">>) = "exit"
    OBVIOUS
  <2> QED  BY <1>1, <2>1, Zenon
<1>4. Head(todo) = Head(defers) /\ Tail(todo) = Tail(defers) \o <<"exit">>
  <2>1. \A q \in Seq(BootSteps) : q # <<>> =>
          /\ Head(q \o <<"exit">>) = Head(q)
          /\ Tail(q \o <<"exit">>) = Tail(q) \o <<"exit">>
    OBVIOUS
  <2> QED  BY <1>1, <1>2, <1>3, <2>1, Zenon
<1> DEFINE h == Head(defers)
           d == Tail(defers)
<1>5. /\ h = defers[1] /\ d \in Seq(BootSteps) /\ Len(d) = Len(defers) - 1
      /\ Len(defers) \in Nat /\ Len(defers) > 0
      /\ \A i \in 1 .. Len(d) : d[i] = defers[i + 1]
      /\ Open = {h} \cup Steps(d)
  BY <1>2, <1>3, FirstStep, Zenon DEF Open
<1> HIDE DEF h, d
<1>6. defers' = d /\ Open' = Steps(d) /\ DOMAIN defers = 1 .. Len(defers)
  BY <1>1, <1>2 DEF d, Open
<1>7. DefersInOrder'
  <2>1. \A i \in 1 .. Len(d) : i + 1 \in 1 .. Len(defers) /\ d[i] = defers[i + 1] /\ i + 1 # 1
    BY <1>5
  <2>2. \A i \in 1 .. Len(d) : d[i] = "consumer" => i = 1
    BY <1>2, <2>1, Zenon DEF DefersInOrder
  <2>3. ASSUME NEW i \in 1 .. Len(d), NEW j \in 1 .. Len(d),
               d[i] = "group", d[j] \in {"pool", "producer"}
        PROVE  i < j
    <3>1. i + 1 < j + 1
      BY <1>2, <2>1, <2>3, Zenon DEF DefersInOrder
    <3> QED  BY <3>1
  <2> QED  BY <1>6, <2>2, <2>3, Zenon DEF DefersInOrder
<1>8. ASSUME consumer # "off"  PROVE Consuming'
  <2>1. /\ Needed \subseteq Open \/ (cancelled /\ consumer # "session")
        /\ "consumer" \in Open \/ cancelled
    BY <1>8, Zenon DEF ResourceInv, Consuming
  <2>2. "consumer" \in Open' \/ cancelled'
    BY <1>1, <1>4, <1>5, <1>6, <2>1, Zenon DEF h
  <2>3. "consumer" \in Open => h = "consumer"
    <3>1. ASSUME "consumer" \in Open  PROVE h = "consumer"
      <4>1. PICK i \in 1 .. Len(defers) : defers[i] = "consumer"
        BY <1>6, <3>1, Zenon DEF Open, Steps
      <4>2. i = 1
        BY <1>2, <4>1, Zenon DEF DefersInOrder
      <4> QED  BY <1>5, <4>1, <4>2
    <3> QED  BY <3>1
  <2>4. CASE h = "consumer"
    <3>1. Needed \subseteq Open => Needed \subseteq Open'
      BY <1>5, <1>6, <2>4, Zenon DEF Needed
    <3> QED  BY <1>1, <2>1, <2>2, <3>1, Zenon DEF Consuming
  <2>5. CASE h # "consumer"
    <3>1. cancelled
      BY <2>1, <2>3, <2>5, Zenon
    <3>2. ASSUME consumer = "session"  PROVE Needed \subseteq Open'
      <4>1. h # "group" /\ Needed \subseteq Open
        BY <1>1, <1>4, <2>1, <3>2, Zenon DEF h
      <4>2. PICK i \in 1 .. Len(defers) : defers[i] = "group"
        BY <1>6, <4>1, Zenon DEF Open, Steps, Needed
      <4>3. h \notin {"pool", "producer"}
        <5>1. 1 \in 1 .. Len(defers) /\ ~ (i < 1)
          BY <1>5, <4>2
        <5> QED  BY <1>2, <1>5, <4>2, <5>1, Zenon DEF DefersInOrder
      <4> QED  BY <1>5, <1>6, <4>1, <4>3, Zenon DEF Needed
    <3> QED  BY <1>1, <2>2, <3>1, <3>2, Zenon DEF Consuming
  <2> QED  BY <2>4, <2>5, Zenon
<1> QED  BY <1>1, <1>4, <1>5, <1>6, <1>7, <1>8, Zenon DEF ResourceInv, d

\* The other steps leave what is open alone.
LEMMA SameDefers ==
    ASSUME ResourceInv, UNCHANGED <<program, defers>>, cancelled => cancelled',
           \/ phase' = phase /\ (todo' = todo \/ phase = "stop")
           \/ phase = "up" /\ phase' = "stop"
           \/ phase = "stop" /\ phase' = "close" /\ todo' = defers \o <<"exit">>,
           \/ consumer' = consumer
           \/ consumer # "off" /\ consumer' # "session"
           \/ consumer # "off" /\ ~ cancelled,
           phase = "boot" => consumer' = consumer
    PROVE  ResourceInv'
<1>1. Open' = Open /\ DefersInOrder' /\ defers' \in Seq(BootSteps)
  BY Zenon DEF Open, DefersInOrder, ResourceInv
<1>2. phase' = "boot" => Booting'
  BY <1>1, Zenon DEF ResourceInv, Booting
<1>3. consumer' # "off" => Consuming'
  BY <1>1, Zenon DEF ResourceInv, Consuming
<1> QED  BY <1>1, <1>2, <1>3, Zenon DEF ResourceInv

\* The end of the process, and the next one.
LEMMA ExitResources == ResourceInv /\ Exit => ResourceInv'
<1> SUFFICES ASSUME ResourceInv, Exit  PROVE ResourceInv'
  BY Zenon
<1>1. /\ defers' = <<>> /\ phase' = "exited" /\ consumer' = "off" /\ program' = program
  BY Zenon DEF Exit
<1>2. defers' \in Seq(BootSteps) /\ DefersInOrder'
  BY <1>1 DEF DefersInOrder
<1> QED  BY <1>1, <1>2, Zenon DEF ResourceInv

LEMMA RestartResources == ResourceInv /\ Restart => ResourceInv'
<1> SUFFICES ASSUME ResourceInv, Restart  PROVE ResourceInv'
  OBVIOUS
<1>1. /\ defers = <<>> /\ phase' = "boot" /\ program \in Programs /\ consumer = "off"
      /\ todo' = Main[program]
      /\ UNCHANGED <<program, defers, consumer>>
  BY Zenon DEF Restart, ResourceInv, Consuming
<1>2. Open' = {} /\ defers' \in Seq(BootSteps) /\ DefersInOrder'
  BY <1>1 DEF Open, Steps, DefersInOrder
<1>3. Booting'
  BY <1>1, <1>2, MainsWellOrdered, Zenon DEF Booting
<1> QED  BY <1>1, <1>2, <1>3, Zenon DEF ResourceInv

LEMMA NextResources == ResourceInv /\ [ServiceNext]_serviceVars => ResourceInv'
<1> SUFFICES ASSUME ResourceInv, [ServiceNext]_serviceVars  PROVE ResourceInv'
  OBVIOUS
<1>1. CASE BootStep
  BY <1>1, BootResources, Zenon
<1>2. CASE Die \/ MainReturns
  BY <1>2, ExitResources, Zenon DEF Die, MainReturns
<1>3. CASE Restart
  BY <1>3, RestartResources, Zenon
<1>4. CASE Signal
  BY <1>4, SameDefers, Zenon DEF Signal
<1>5. CASE StopStep
  <2>1. /\ phase = "stop" /\ UNCHANGED <<program, defers, consumer>>
        /\ cancelled => cancelled'
        /\ \/ phase' = "close" /\ todo' = defers \o <<"exit">>
           \/ phase' = phase
    BY <1>5 DEF StopStep, Then
  <2> QED  BY <2>1, SameDefers, Zenon
<1>6. CASE CloseStep
  BY <1>6, CloseResources, Zenon
<1>7. CASE Expire
  BY <1>7, SameDefers, Zenon DEF Expire
<1>8. CASE Join \/ Return \/ Claim \/ AutoCommit \/ SessionEnds
  <2>1. /\ UNCHANGED rest /\ consumer # "off"
        /\ consumer' = consumer \/ consumer' # "session" \/ ~ cancelled
    BY <1>8, Zenon DEF Join, Return, Claim, AutoCommit, SessionEnds
  <2>2. UNCHANGED <<program, phase, todo, defers, cancelled>>
    BY <2>1, Zenon DEF rest
  <2>3. phase # "boot"
    BY <2>1, Zenon DEF ResourceInv, Booting
  <2> QED  BY <2>1, <2>2, <2>3, SameDefers, Zenon
<1>9. CASE \E s \in Server : CallBegins(s) \/ CallEnds(s)
  <2>1. UNCHANGED <<program, phase, todo, defers, cancelled, consumer>>
    BY <1>9, Zenon DEF CallBegins, CallEnds
  <2> QED  BY <2>1, SameDefers, Zenon
<1>10. CASE UNCHANGED serviceVars
  <2>1. UNCHANGED <<program, phase, todo, defers, cancelled, consumer>>
    BY <1>10, Zenon DEF serviceVars, process
  <2> QED  BY <2>1, SameDefers, Zenon
<1> QED
  BY <1>1, <1>2, <1>3, <1>4, <1>5, <1>6, <1>7, <1>8, <1>9, <1>10, Zenon
     DEF ServiceNext, Stop, Consume

(***************************************************************************)
(* A handler runs with the pool, the producer and the group it uses: every *)
(* main starts its consumer after opening them, and its deferred closes,   *)
(* which run newest first, end the session before they close any of them.  *)
(***************************************************************************)
THEOREM HandlersHaveResources == ServiceSpec => []ConsumesWithResources
<1>1. ResourceInv => ConsumesWithResources
  BY DEF ResourceInv, Consuming, ConsumesWithResources, Needed
<1> QED  BY <1>1, InitResources, NextResources, PTL DEF ServiceSpec

-----------------------------------------------------------------------------
(***************************************************************************)
(* For any partitions, trades and accounts, and any failures, redeliveries *)
(* and changes of balances in between: the ledger's consumer publishes no  *)
(* balance from before the trade it publishes it for.                      *)
(***************************************************************************)
\* A balance of account a that includes trade t.
Includes(t, a, v) ==
    v \in Nat /\ settledAt[t][1][a] <= v /\ v <= version[a]

Recorded(t) ==
    Settled(t) => \A a \in Accounts[t] : Includes(t, a, settledAt[t][1][a])

\* What a handler holds: the balances it is going to publish are from after the
\* settlement, which is done.
Holds(p) ==
    stage[p] # "settle" =>
        /\ Pending(p) /\ Settled(Current(p))
        /\ stage[p] # "read" =>
              /\ toSend[p] \subseteq Accounts[Current(p)]
              /\ \A a \in Accounts[Current(p)] : Includes(Current(p), a, copy[p][a])

EventRight(e) ==
    /\ e.trade \in Trade /\ Settled(e.trade)
    /\ e.account \in Accounts[e.trade]
    /\ Includes(e.trade, e.account, e.version)

Types ==
    /\ version \in [Account -> Nat]
    /\ settledAt = [t \in Trade |-> settledAt[t]]
    /\ position \in [Partition -> Nat \ {0}]
    /\ stage \in [Partition -> {"settle", "read", "entries", "balances"}]
    /\ toSend \in [Partition -> SUBSET Account]
    /\ copy = [p \in Partition |-> copy[p]]

SettlementInv ==
    /\ Types
    /\ \A t \in Trade : Recorded(t)
    /\ \A p \in Partition : Holds(p)
    /\ \A e \in balanceEvents : EventRight(e)

-----------------------------------------------------------------------------
\* What every step does to the ledger: balances go on, settlements stay.
LedgerGoesOn ==
    /\ version' \in [Account -> Nat]
    /\ \A a \in Account : version[a] <= version'[a]
    /\ \A t \in Trade : Settled(t) => settledAt'[t] = settledAt[t]

\* A message that is pending is a trade of the log.
LEMMA PendingIsTrade ==
    ASSUME Types, NEW p \in Partition, Pending(p)
    PROVE  Current(p) \in Trade
<1>1. PICK s \in Seq(Trade) : s = Log[p]
  BY SettlementAssumption, Zenon
<1>2. PICK i \in Nat \ {0} : i = position[p]
  BY Zenon DEF Types
<1>3. i <= Len(s)
  BY <1>1, <1>2, Zenon DEF Pending
<1>4. s[i] \in Trade
  BY <1>3
<1> QED  BY <1>1, <1>2, <1>4, Zenon DEF Current

\* A trade touches some accounts.
LEMMA AccountsAreAccounts == \A t \in Trade : Accounts[t] \subseteq Account /\ Accounts[t] # {}
BY SettlementAssumption, Zenon

\* A balance that includes a trade goes on including it.
LEMMA StillIncludes ==
    ASSUME Types, LedgerGoesOn, NEW t \in Trade, Settled(t),
           NEW a \in Accounts[t], NEW v, settledAt[t][1][a] \in Nat, Includes(t, a, v)
    PROVE  Settled(t)' /\ settledAt'[t] = settledAt[t] /\ Includes(t, a, v)'
<1>1. a \in Account
  BY AccountsAreAccounts, Zenon
<1>2. settledAt'[t] = settledAt[t]
  BY Zenon DEF LedgerGoesOn
<1>3. version[a] \in Nat /\ version'[a] \in Nat /\ version[a] <= version'[a]
  BY <1>1, Zenon DEF Types, LedgerGoesOn
<1>4. Settled(t)'
  BY <1>2, Zenon DEF Settled
<1>5. Includes(t, a, v)'
  BY <1>2, <1>3 DEF Includes
<1> QED  BY <1>2, <1>4, <1>5, Zenon

\* A handler that does nothing keeps what it holds.
LEMMA StillHolds ==
    ASSUME SettlementInv, LedgerGoesOn, NEW p \in Partition,
           position'[p] = position[p], stage'[p] = stage[p], toSend'[p] = toSend[p], copy'[p] = copy[p]
    PROVE  Holds(p)'
<1>1. Current(p)' = Current(p) /\ Pending(p)' = Pending(p)
  BY Zenon DEF Current, Pending
<1>2. CASE stage[p] = "settle"
  BY <1>2, Zenon DEF Holds
<1>3. CASE stage[p] # "settle"
  <2>1. Holds(p) /\ Pending(p) /\ Settled(Current(p))
    BY <1>3, Zenon DEF SettlementInv, Holds
  <2>2. Current(p) \in Trade
    BY <2>1, PendingIsTrade, Zenon DEF SettlementInv
  <2>3. settledAt'[Current(p)] = settledAt[Current(p)]
    BY <2>1, <2>2, Zenon DEF LedgerGoesOn
  <2>4. Settled(Current(p))'
    BY <1>1, <2>1, <2>3, Zenon DEF Settled
  <2>5. ASSUME stage[p] # "read", NEW a \in Accounts[Current(p)]
        PROVE  Includes(Current(p), a, copy[p][a])'
    <3>1. Includes(Current(p), a, copy[p][a])
      BY <1>3, <2>1, <2>5, Zenon DEF Holds
    <3>2. settledAt[Current(p)][1][a] \in Nat
      BY <2>1, <2>2, <2>5, Zenon DEF SettlementInv, Recorded, Includes
    <3>3. PICK u \in Trade : u = Current(p)
      BY <2>2, Zenon
    <3>4. PICK w : w = copy[p][a]
      BY Zenon
    <3>5. Includes(u, a, w)'
      BY <2>1, <2>5, <3>1, <3>2, <3>3, <3>4, StillIncludes, Zenon DEF SettlementInv
    <3>6. u = Current(p)' /\ w = copy'[p][a]
      BY <1>1, <3>3, <3>4, Zenon
    <3> QED  BY <3>5, <3>6, Zenon DEF Includes
  <2> QED  BY <1>1, <1>3, <2>1, <2>4, <2>5, Zenon DEF Holds
<1> QED  BY <1>2, <1>3, Zenon

\* So do the records of settled trades, and events published before.
LEMMA StillRecorded ==
    ASSUME SettlementInv, LedgerGoesOn, NEW t \in Trade, Settled(t)
    PROVE  Recorded(t)'
<1>1. settledAt'[t] = settledAt[t]
  BY Zenon DEF LedgerGoesOn
<1>2. ASSUME NEW a \in Accounts[t]  PROVE Includes(t, a, settledAt[t][1][a])'
  <2>1. PICK w : w = settledAt[t][1][a]
    BY Zenon
  <2>2. Includes(t, a, w) /\ w \in Nat
    BY <2>1, Zenon DEF SettlementInv, Recorded, Includes
  <2>3. Includes(t, a, w)'
    BY <2>1, <2>2, StillIncludes, Zenon DEF SettlementInv
  <2> QED  BY <1>1, <2>1, <2>3, Zenon DEF Includes
<1> QED  BY <1>2, Zenon DEF Recorded

LEMMA StillRight ==
    ASSUME SettlementInv, LedgerGoesOn, NEW e, EventRight(e)
    PROVE  EventRight(e)'
<1>1. settledAt[e.trade][1][e.account] \in Nat
  BY Zenon DEF SettlementInv, EventRight, Recorded, Includes
<1>2. Settled(e.trade)' /\ Includes(e.trade, e.account, e.version)'
  BY <1>1, StillIncludes, Zenon DEF SettlementInv, EventRight
<1> QED  BY <1>2, Zenon DEF EventRight

Stays(p) ==
    position'[p] = position[p] /\ stage'[p] = stage[p] /\ toSend'[p] = toSend[p] /\ copy'[p] = copy[p]

\* It is enough to look at what a step changes.
LEMMA InvKept ==
    ASSUME SettlementInv, LedgerGoesOn, Types',
           \A t \in Trade : ~ Settled(t) => Recorded(t)',
           \A p \in Partition : Stays(p) \/ Holds(p)',
           \A e \in balanceEvents' : e \in balanceEvents \/ EventRight(e)'
    PROVE  SettlementInv'
<1>1. \A t \in Trade : Recorded(t)'
  BY StillRecorded, Zenon
<1>2. \A p \in Partition : Holds(p)'
  BY StillHolds, Zenon DEF Stays
<1>3. \A e \in balanceEvents' : EventRight(e)'
  BY StillRight, Zenon DEF SettlementInv
<1> QED  BY <1>1, <1>2, <1>3, Zenon DEF SettlementInv

\* A step that leaves the ledger's tables alone.
LEMMA LedgerUntouched ==
    ASSUME SettlementInv, UNCHANGED <<version, settledAt>>
    PROVE  LedgerGoesOn /\ \A t \in Trade : ~ Settled(t) => Recorded(t)'
<1>1. \A a \in Account : version[a] \in Nat
  BY Zenon DEF SettlementInv, Types
<1>2. LedgerGoesOn
  BY <1>1 DEF SettlementInv, Types, LedgerGoesOn
<1>3. \A t \in Trade : ~ Settled(t) => ~ Settled(t)'
  BY Zenon DEF Settled
<1> QED  BY <1>2, <1>3, Zenon DEF Recorded

\* Settle leaves a handler with balances that include its trade.
LEMMA SettleInv ==
    ASSUME SettlementInv, NEW p \in Partition, Settle(p)
    PROVE  SettlementInv'
<1>1. PICK t \in Trade : t = Current(p)
  BY PendingIsTrade, Zenon DEF SettlementInv, Settle
<1>2. /\ version' = [a \in Account |-> IF a \in Accounts[t] THEN version[a] + 1 ELSE version[a]]
      /\ settledAt' = [settledAt EXCEPT ![t] = <<BalancesOf(t, version')>>]
      /\ copy' = [copy EXCEPT ![p] = BalancesOf(t, version')]
      /\ stage' = [stage EXCEPT ![p] = "entries"] /\ toSend' = [toSend EXCEPT ![p] = Accounts[t]]
      /\ ~ Settled(t) /\ Pending(p) /\ position' = position /\ balanceEvents' = balanceEvents
  BY <1>1, Zenon DEF Settle, Goto, Returned, topics
<1>3. Types /\ Accounts[t] \subseteq Account
  BY AccountsAreAccounts, Zenon DEF SettlementInv
<1>4. /\ version' \in [Account -> Nat]
      /\ \A a \in Account : version[a] <= version'[a]
  BY <1>2, <1>3 DEF Types
<1>5. \A u \in Trade : Settled(u) => settledAt'[u] = settledAt[u]
  BY <1>2, <1>3, Zenon DEF Types
<1>6. LedgerGoesOn
  BY <1>4, <1>5, Zenon DEF LedgerGoesOn
<1>7. Types'
  BY <1>2, <1>3, <1>4, Zenon DEF Types
<1>8. settledAt'[t] = <<BalancesOf(t, version')>>
  BY <1>2, <1>3, Zenon DEF Types
<1>9. \A a \in Accounts[t] : settledAt'[t][1][a] = version'[a] /\ version'[a] \in Nat
  BY <1>3, <1>4, <1>8 DEF BalancesOf
<1>10. Settled(t)' /\ Recorded(t)'
  BY <1>8, <1>9 DEF Settled, Recorded, Includes
<1>11. ASSUME NEW u \in Trade, ~ Settled(u)  PROVE Recorded(u)'
  <2>1. CASE u = t
    BY <1>10, <2>1, Zenon
  <2>2. CASE u # t
    <3>1. settledAt'[u] = settledAt[u]
      BY <1>2, <1>3, <2>2, Zenon DEF Types
    <3> QED  BY <1>11, <3>1, Zenon DEF Recorded, Settled
  <2> QED  BY <2>1, <2>2, Zenon
<1>12. Holds(p)'
  <2>1. Current(p)' = t /\ Pending(p)'
    BY <1>1, <1>2, Zenon DEF Current, Pending
  <2>2. toSend'[p] = Accounts[t] /\ \A a \in Accounts[t] : copy'[p][a] = version'[a]
    BY <1>2, <1>3, Zenon DEF Types, BalancesOf
  <2>3. \A a \in Accounts[t] : version'[a] <= version'[a]
    BY <1>9
  <2>4. \A a \in Accounts[t] : Includes(t, a, copy[p][a])'
    BY <1>9, <2>2, <2>3, Zenon DEF Includes
  <2> QED  BY <1>10, <2>1, <2>2, <2>4, Zenon DEF Holds
<1>13. \A q \in Partition : Stays(q) \/ q = p
  BY <1>2, <1>3, Zenon DEF Types, Stays
<1> QED  BY <1>2, <1>6, <1>7, <1>11, <1>12, <1>13, InvKept, Zenon

\* ReadEntries finds the trade settled.
LEMMA ReadEntriesInv ==
    ASSUME SettlementInv, NEW p \in Partition, ReadEntries(p)
    PROVE  SettlementInv'
<1>1. /\ Pending(p) /\ Settled(Current(p))
      /\ stage' = [stage EXCEPT ![p] = "read"] /\ toSend' = [toSend EXCEPT ![p] = {}]
      /\ UNCHANGED <<version, settledAt, position, copy, balanceEvents>>
  BY Zenon DEF ReadEntries, Goto, topics
<1>2. Types'
  BY <1>1, Zenon DEF SettlementInv, Types
<1>3. Pending(p)' /\ Settled(Current(p))' /\ stage'[p] = "read"
  BY <1>1, Zenon DEF Pending, Settled, Current, SettlementInv, Types
<1>4. Holds(p)'
  BY <1>3, Zenon DEF Holds
<1>5. \A q \in Partition : Stays(q) \/ q = p
  BY <1>1, Zenon DEF SettlementInv, Types, Stays
<1> QED  BY <1>1, <1>2, <1>4, <1>5, LedgerUntouched, InvKept, Zenon

\* ReadBalances reads balances from after the settlement.
LEMMA ReadBalancesInv ==
    ASSUME SettlementInv, NEW p \in Partition, ReadBalances(p)
    PROVE  SettlementInv'
<1>1. Pending(p) /\ Settled(Current(p))
  BY Zenon DEF ReadBalances, SettlementInv, Holds
<1>2. PICK t \in Trade : t = Current(p)
  BY <1>1, PendingIsTrade, Zenon DEF SettlementInv
<1>3. /\ copy' = [copy EXCEPT ![p] = BalancesOf(t, version)]
      /\ stage' = [stage EXCEPT ![p] = "entries"] /\ toSend' = [toSend EXCEPT ![p] = Accounts[t]]
      /\ UNCHANGED <<version, settledAt, position, balanceEvents>>
  BY <1>2, Zenon DEF ReadBalances, Goto, topics
<1>4. Types /\ Accounts[t] \subseteq Account
  BY AccountsAreAccounts, Zenon DEF SettlementInv
<1>5. Types'
  BY <1>3, <1>4, Zenon DEF Types
<1>6. Current(p)' = t /\ Pending(p)' /\ Settled(t)'
  BY <1>1, <1>2, <1>3, Zenon DEF Pending, Settled, Current
<1>7. toSend'[p] = Accounts[t] /\ \A a \in Accounts[t] : copy'[p][a] = version[a]
  BY <1>3, <1>4, Zenon DEF Types, BalancesOf
<1>8. \A a \in Accounts[t] : settledAt[t][1][a] <= version[a] /\ version[a] \in Nat
  BY <1>1, <1>2, <1>4, Zenon DEF SettlementInv, Recorded, Includes, Types
<1>9. \A a \in Accounts[t] : Includes(t, a, copy[p][a])'
  BY <1>3, <1>7, <1>8 DEF Includes
<1>10. Holds(p)'
  BY <1>6, <1>7, <1>9, Zenon DEF Holds
<1>11. \A q \in Partition : Stays(q) \/ q = p
  BY <1>3, <1>4, Zenon DEF Types, Stays
<1> QED  BY <1>3, <1>5, <1>10, <1>11, LedgerUntouched, InvKept, Zenon

\* A handler that publishes goes on holding what it has left.
LEMMA PublishingHolds ==
    ASSUME SettlementInv, NEW p \in Partition, stage[p] \in {"entries", "balances"},
           UNCHANGED <<version, settledAt>>,
           position'[p] = position[p], copy'[p] = copy[p],
           stage'[p] \in {"entries", "balances"}, toSend'[p] \subseteq Accounts[Current(p)]
    PROVE  Holds(p)'
<1>1. Holds(p) /\ stage[p] # "settle" /\ stage[p] # "read"
  BY Zenon DEF SettlementInv
<1>2. Current(p)' = Current(p) /\ Pending(p)' = Pending(p)
  BY Zenon DEF Current, Pending
<1>3. Pending(p)' /\ Settled(Current(p))'
  BY <1>1, <1>2, Zenon DEF Holds, Settled
<1>4. \A a \in Accounts[Current(p)] : Includes(Current(p), a, copy[p][a])
  BY <1>1, Zenon DEF Holds
<1>5. \A a \in Accounts[Current(p)] : Includes(Current(p), a, copy[p][a])'
  BY <1>2, <1>4, Zenon DEF Includes
<1> QED  BY <1>2, <1>3, <1>5, Zenon DEF Holds

\* PublishEntries changes no balance.
LEMMA PublishEntriesInv ==
    ASSUME SettlementInv, NEW p \in Partition, NEW a \in Account, PublishEntries(p, a)
    PROVE  SettlementInv'
<1>1. /\ stage[p] = "entries" /\ UNCHANGED <<version, settledAt, position, copy, balanceEvents>>
      /\ Goto(p, "balances", Accounts[Current(p)]) \/ Goto(p, "entries", toSend[p] \ {a})
  BY Zenon DEF PublishEntries
<1>2. Types /\ Current(p) \in Trade /\ toSend[p] \subseteq Accounts[Current(p)]
  BY <1>1, PendingIsTrade, Zenon DEF SettlementInv, Holds
<1>3. Accounts[Current(p)] \subseteq Account
  BY <1>2, AccountsAreAccounts, Zenon
<1>4. PICK st \in {"entries", "balances"}, left \in SUBSET Accounts[Current(p)] :
        stage' = [stage EXCEPT ![p] = st] /\ toSend' = [toSend EXCEPT ![p] = left]
  BY <1>1, <1>2, Zenon DEF Goto
<1>5. Types'
  BY <1>1, <1>2, <1>3, <1>4, Zenon DEF Types
<1>6. stage'[p] = st /\ toSend'[p] = left /\ position'[p] = position[p] /\ copy'[p] = copy[p]
  BY <1>1, <1>2, <1>4, Zenon DEF Types
<1>7. Holds(p)'
  BY <1>1, <1>4, <1>6, PublishingHolds, Zenon
<1>8. \A q \in Partition : Stays(q) \/ q = p
  BY <1>1, <1>2, <1>4, Zenon DEF Types, Stays
<1> QED  BY <1>1, <1>5, <1>7, <1>8, LedgerUntouched, InvKept, Zenon

\* The handler is done with a message.
LEMMA BeginsAnew ==
    ASSUME Types, NEW p \in Partition, UNCHANGED <<version, settledAt>>,
           position' = position \/ position' = [position EXCEPT ![p] = @ + 1],
           stage' = [stage EXCEPT ![p] = "settle"], toSend' = [toSend EXCEPT ![p] = {}],
           copy' = [copy EXCEPT ![p] = <<>>]
    PROVE  Types'
<1>1. \A n \in Nat \ {0} : n + 1 \in Nat \ {0}
  OBVIOUS
<1>2. position' \in [Partition -> Nat \ {0}]
  <2>1. position \in [Partition -> Nat \ {0}]
    BY Zenon DEF Types
  <2>2. CASE position' = [position EXCEPT ![p] = @ + 1]
    <3>1. position[p] + 1 \in Nat \ {0}
      BY <1>1, <2>1, Zenon
    <3> QED  BY <2>1, <2>2, <3>1, Zenon
  <2> QED  BY <2>1, <2>2, Zenon
<1>3. copy' = [q \in Partition |-> copy'[q]]
  BY Zenon DEF Types
<1>4. /\ stage' \in [Partition -> {"settle", "read", "entries", "balances"}]
      /\ toSend' \in [Partition -> SUBSET Account]
  BY Zenon DEF Types
<1> QED  BY <1>2, <1>3, <1>4, Zenon DEF Types

\* PublishBalances publishes what its handler holds.
LEMMA PublishBalancesInv ==
    ASSUME SettlementInv, NEW p \in Partition, NEW a \in Account, PublishBalances(p, a)
    PROVE  SettlementInv'
<1>1. /\ stage[p] = "balances" /\ a \in toSend[p] /\ UNCHANGED <<version, settledAt>>
      /\ balanceEvents' = balanceEvents \cup {BalanceEvent(p, a)}
  BY Zenon DEF PublishBalances
<1>2. /\ Types /\ Current(p) \in Trade /\ Settled(Current(p))
      /\ toSend[p] \subseteq Accounts[Current(p)] /\ Includes(Current(p), a, copy[p][a])
  BY <1>1, PendingIsTrade, Zenon DEF SettlementInv, Holds
<1>3. EventRight(BalanceEvent(p, a))
  BY <1>1, <1>2, Zenon DEF EventRight, BalanceEvent
<1>4. PICK e : e = BalanceEvent(p, a)
  BY Zenon
<1>5. EventRight(e)'
  BY <1>1, <1>3, <1>4, LedgerUntouched, StillRight, Zenon
<1>6. \A f \in balanceEvents' : f \in balanceEvents \/ EventRight(f)'
  BY <1>1, <1>4, <1>5, Zenon
<1>7. CASE toSend[p] = {a}
  <2>1. /\ stage' = [stage EXCEPT ![p] = "settle"] /\ toSend' = [toSend EXCEPT ![p] = {}]
        /\ position' = [position EXCEPT ![p] = @ + 1] /\ copy' = [copy EXCEPT ![p] = <<>>]
    BY <1>7, Zenon DEF PublishBalances, Goto
  <2>2. Types'
    BY <1>1, <1>2, <2>1, BeginsAnew, Zenon
  <2>3. Holds(p)'
    BY <1>2, <2>1, Zenon DEF Holds, Types
  <2>4. \A q \in Partition : Stays(q) \/ q = p
    BY <1>2, <2>1, Zenon DEF Types, Stays
  <2> QED  BY <1>1, <1>6, <2>2, <2>3, <2>4, LedgerUntouched, InvKept, Zenon
<1>8. CASE toSend[p] # {a}
  <2>1. /\ stage' = [stage EXCEPT ![p] = "balances"] /\ toSend' = [toSend EXCEPT ![p] = toSend[p] \ {a}]
        /\ UNCHANGED <<position, copy>>
    BY <1>8, Zenon DEF PublishBalances, Goto
  <2>2. Types'
    BY <1>1, <1>2, <2>1, Zenon DEF Types
  <2>3. stage'[p] = "balances" /\ toSend'[p] \subseteq Accounts[Current(p)]
    BY <1>2, <2>1, Zenon DEF Types
  <2>4. Holds(p)'
    BY <1>1, <2>1, <2>3, PublishingHolds, Zenon
  <2>5. \A q \in Partition : Stays(q) \/ q = p
    BY <1>2, <2>1, Zenon DEF Types, Stays
  <2> QED  BY <1>1, <1>6, <2>2, <2>4, <2>5, LedgerUntouched, InvKept, Zenon
<1> QED  BY <1>7, <1>8, Zenon

\* After an error the handler begins anew.
LEMMA FailInv ==
    ASSUME SettlementInv, NEW p \in Partition, HandleFails(p)
    PROVE  SettlementInv'
<1>1. /\ position' = position \/ position' = [position EXCEPT ![p] = @ + 1]
      /\ stage' = [stage EXCEPT ![p] = "settle"] /\ toSend' = [toSend EXCEPT ![p] = {}]
      /\ copy' = [copy EXCEPT ![p] = <<>>]
      /\ UNCHANGED <<version, settledAt, balanceEvents>>
  BY Zenon DEF HandleFails, Goto, topics
<1>2. Types
  BY Zenon DEF SettlementInv
<1>3. Types'
  BY <1>1, <1>2, BeginsAnew, Zenon
<1>4. Holds(p)'
  BY <1>1, <1>2, Zenon DEF Holds, Types
<1>5. \A q \in Partition : Stays(q) \/ q = p
  BY <1>1, <1>2, Zenon DEF Types, Stays
<1> QED  BY <1>1, <1>3, <1>4, <1>5, LedgerUntouched, InvKept, Zenon

\* A redelivered message is handled anew.
LEMMA RedeliverInv ==
    ASSUME SettlementInv, NEW p \in Partition, Redeliver(p)
    PROVE  SettlementInv'
<1>1. /\ stage[p] = "settle" /\ position[p] > 1 /\ position' = [position EXCEPT ![p] = @ - 1]
      /\ UNCHANGED <<version, settledAt, stage, toSend, copy, balanceEvents>>
  BY Zenon DEF Redeliver, handlers, topics
<1>2. Types
  BY Zenon DEF SettlementInv
<1>3. Types'
  BY <1>1, <1>2 DEF Types
<1>4. Holds(p)'
  BY <1>1, Zenon DEF Holds
<1>5. \A q \in Partition : Stays(q) \/ q = p
  BY <1>1, <1>2, Zenon DEF Types, Stays
<1> QED  BY <1>1, <1>3, <1>4, <1>5, LedgerUntouched, InvKept, Zenon

\* A reservation or a release only moves balances on.
LEMMA MoveInv ==
    ASSUME SettlementInv, NEW a \in Account, ReserveOrRelease(a)
    PROVE  SettlementInv'
<1>1. /\ version' = [version EXCEPT ![a] = @ + 1]
      /\ UNCHANGED <<settledAt, position, stage, toSend, copy, balanceEvents>>
  BY Zenon DEF ReserveOrRelease, handlers, topics
<1>2. Types
  BY Zenon DEF SettlementInv
<1>3. Types' /\ \A b \in Account : version[b] <= version'[b]
  BY <1>1, <1>2 DEF Types
<1>4. LedgerGoesOn
  BY <1>1, <1>3, Zenon DEF LedgerGoesOn, Types
<1>5. \A t \in Trade : ~ Settled(t) => Recorded(t)'
  BY <1>1, Zenon DEF Settled, Recorded
<1>6. \A q \in Partition : Stays(q)
  BY <1>1, Zenon DEF Stays
<1> QED  BY <1>1, <1>3, <1>4, <1>5, <1>6, InvKept, Zenon

-----------------------------------------------------------------------------
\* The initial state satisfies the invariant.
LEMMA InitSettlementInv == SettlementInit => SettlementInv
<1> SUFFICES ASSUME SettlementInit  PROVE SettlementInv
  BY Zenon
<1>1. Types
  BY DEF SettlementInit, Types
<1>2. \A t \in Trade : ~ Settled(t)
  BY Zenon DEF SettlementInit, Settled
<1>3. \A p \in Partition : stage[p] = "settle"
  BY Zenon DEF SettlementInit
<1>4. balanceEvents = {}
  BY Zenon DEF SettlementInit
<1> QED  BY <1>1, <1>2, <1>3, <1>4, Zenon DEF SettlementInv, Recorded, Holds

\* Every step keeps the invariant.
LEMMA NextSettlementInv == SettlementInv /\ [SettlementNext]_settlementVars => SettlementInv'
<1> SUFFICES ASSUME SettlementInv, [SettlementNext]_settlementVars  PROVE SettlementInv'
  OBVIOUS
<1>1. CASE SettlementNext
  <2>1. ASSUME NEW p \in Partition, HandleMessage(p)  PROVE SettlementInv'
    BY <2>1, SettleInv, ReadEntriesInv, ReadBalancesInv, PublishEntriesInv,
       PublishBalancesInv, Zenon DEF HandleMessage
  <2> QED  BY <1>1, <2>1, FailInv, RedeliverInv, MoveInv, Zenon DEF SettlementNext
<1>2. CASE UNCHANGED settlementVars
  <2>1. UNCHANGED <<version, settledAt, position, stage, toSend, copy, balanceEvents>>
    BY <1>2, Zenon DEF settlementVars, handlers, topics
  <2>2. Types' /\ \A p \in Partition : Stays(p)
    BY <2>1, Zenon DEF SettlementInv, Types, Stays
  <2> QED  BY <2>1, <2>2, LedgerUntouched, InvKept, Zenon
<1> QED  BY <1>1, <1>2, Zenon

(***************************************************************************)
(* No balances.updated event carries a balance from before its trade, or   *)
(* one the account never had, although HandleMessage publishes what it     *)
(* read earlier, other partitions settle meanwhile, and a redelivered      *)
(* trade reads the balances again.                                         *)
(***************************************************************************)
THEOREM UpdatesIncludeTrades == SettlementSpec => []UpdateIncludesTrade
<1>1. SettlementInv => UpdateIncludesTrade
  BY Zenon DEF SettlementInv, EventRight, Includes, UpdateIncludesTrade
<1> QED  BY <1>1, InitSettlementInv, NextSettlementInv, PTL DEF SettlementSpec

-----------------------------------------------------------------------------
(***************************************************************************)
(* For any rows, page size and interleaving of requests: a walk through a  *)
(* list misses none of the rows that were there when it began but those    *)
(* that had the key of a cursor.  MissesOnlyCursors speaks of the end of   *)
(* the walk; before it, a row that was neither returned nor skipped is     *)
(* still ahead of the cursor, also if it moves.                            *)
(***************************************************************************)
Covered(r) == r \in Range(seen) \/ r \in skipped

WalkInv ==
    /\ now \in Nat \ {0} /\ stamp \in [Row -> Nat]
    /\ state \in {"first", "more", "end"}
    /\ state = "first" => cursor = NoCursor
    /\ state = "more" => cursor \in (Nat \ {0}) \X Nat
    /\ seen \in Seq(Row)
    /\ first \subseteq Rows
    /\ state = "more" => \A r \in first : Covered(r) \/ Precedes(cursor, Key(r))
    /\ MissesOnlyCursors

\* Keys are ordered.
LEMMA KeysOrdered ==
    ASSUME NEW k \in Nat \X Nat, NEW l \in Nat \X Nat, ~ Precedes(l, k)
    PROVE  k = l \/ Precedes(k, l)
BY DEF Precedes

\* A page has the rows before the cursor's, or all of them.
LEMMA PageRange ==
    ASSUME NEW rows \in Seq(Row), NEW i \in 1 .. Len(rows), ~ HasMore(rows) \/ i <= Limit
    PROVE  Page(rows) \in Seq(Row) /\ rows[i] \in Range(Page(rows))
<1>1. CASE HasMore(rows)
  <2>1. /\ SubSeq(rows, 1, Limit) \in Seq(Row) /\ i \in 1 .. Limit
        /\ DOMAIN SubSeq(rows, 1, Limit) = 1 .. Limit
        /\ SubSeq(rows, 1, Limit)[i] = rows[i]
    BY <1>1, ListingAssumption DEF HasMore
  <2> QED  BY <1>1, <2>1, Zenon DEF Page, Range
<1>2. CASE ~ HasMore(rows)
  <2>1. DOMAIN rows = 1 .. Len(rows)
    OBVIOUS
  <2> QED  BY <1>2, <2>1, Zenon DEF Page, Range
<1> QED  BY <1>1, <1>2, Zenon

\* What was returned stays returned.
LEMMA ConcatRange ==
    ASSUME NEW p \in Seq(Row), NEW q \in Seq(Row)
    PROVE  p \o q \in Seq(Row) /\ Range(p \o q) = Range(p) \cup Range(q)
<1>1. /\ p \o q \in Seq(Row) /\ Len(p \o q) = Len(p) + Len(q)
      /\ Len(p) \in Nat /\ Len(q) \in Nat
      /\ DOMAIN (p \o q) = 1 .. Len(p) + Len(q)
      /\ DOMAIN p = 1 .. Len(p) /\ DOMAIN q = 1 .. Len(q)
  OBVIOUS
<1>2. /\ \A i \in 1 .. Len(p) : (p \o q)[i] = p[i] /\ i \in 1 .. Len(p) + Len(q)
      /\ \A i \in 1 .. Len(q) :
            (p \o q)[Len(p) + i] = q[i] /\ Len(p) + i \in 1 .. Len(p) + Len(q)
  BY <1>1
<1>3. \A i \in 1 .. Len(p) + Len(q) :
        \/ i \in 1 .. Len(p)
        \/ \E j \in 1 .. Len(q) : i = Len(p) + j
  <2> SUFFICES ASSUME NEW i \in 1 .. Len(p) + Len(q), i \notin 1 .. Len(p)
               PROVE  \E j \in 1 .. Len(q) : i = Len(p) + j
    BY Zenon
  <2>1. i - Len(p) \in 1 .. Len(q) /\ i = Len(p) + (i - Len(p))
    BY <1>1
  <2> QED  BY <2>1, Zenon
<1>4. Range(p \o q) \subseteq Range(p) \cup Range(q)
  <2> SUFFICES ASSUME NEW x \in Range(p \o q)  PROVE x \in Range(p) \cup Range(q)
    BY Zenon
  <2>1. PICK i \in 1 .. Len(p) + Len(q) : x = (p \o q)[i]
    BY <1>1, Zenon DEF Range
  <2>2. \/ i \in 1 .. Len(p) /\ x = p[i]
        \/ \E j \in 1 .. Len(q) : x = q[j]
    BY <1>2, <1>3, <2>1, Zenon
  <2> QED  BY <1>1, <2>2, Zenon DEF Range
<1>5. Range(p) \subseteq Range(p \o q) /\ Range(q) \subseteq Range(p \o q)
  BY <1>1, <1>2, Zenon DEF Range
<1> QED  BY <1>1, <1>4, <1>5, Zenon

\* The rows of a query: a sequence of all of them, in order.
LEMMA QueryRows ==
    ASSUME NEW S \in SUBSET Row, NEW rows \in Ordered(S)
    PROVE  /\ rows \in Seq(Row) /\ \A i \in 1 .. Len(rows) : rows[i] \in S
           /\ \A r \in S : \E i \in 1 .. Len(rows) : rows[i] = r
           /\ \A i, j \in 1 .. Len(rows) : i < j => ~ Precedes(Key(rows[j]), Key(rows[i]))
<1> DEFINE n == Cardinality(S)
<1>1. n \in Nat
  BY ListingAssumption, FS_Subset, FS_CardinalityType, Zenon
<1>2. rows \in [1 .. n -> S] /\ \A r \in S : \E i \in 1 .. n : rows[i] = r
  BY Zenon DEF Ordered, Bijection, Surjection
<1> HIDE DEF n
<1>3. rows \in Seq(S) /\ Len(rows) = n
  <2>1. rows = [i \in 1 .. n |-> rows[i]] /\ \A i \in 1 .. n : rows[i] \in S
    BY <1>2, Zenon
  <2> QED  BY <1>1, <2>1
<1>4. rows \in Seq(Row)
  BY <1>3
<1>5. \A i, j \in 1 .. Len(rows) : i < j => ~ Precedes(Key(rows[j]), Key(rows[i]))
  BY Zenon DEF Ordered
<1> QED  BY <1>2, <1>3, <1>4, <1>5

\* A page, and its cursor.
LEMMA ListKeepsWalk ==
    ASSUME WalkInv, List
    PROVE  WalkInv'
<1> DEFINE S == {r \in Rows : After(r)}
<1>1. PICK rows \in Ordered(S) :
        /\ seen' = seen \o Page(rows)
        /\ IF HasMore(rows)
           THEN /\ state' = "more" /\ cursor' = Key(rows[Limit + 1])
                /\ skipped' = skipped \cup {r \in Rows : Key(r) = cursor'}
           ELSE state' = "end" /\ UNCHANGED <<cursor, skipped>>
  BY Zenon DEF List
<1>2. /\ state # "end" /\ first' = (IF state = "first" THEN Rows ELSE first)
      /\ UNCHANGED <<stamp, now>>
  BY DEF List
<1>3. /\ now \in Nat \ {0} /\ stamp \in [Row -> Nat] /\ seen \in Seq(Row) /\ Rows \subseteq Row
      /\ \A r \in Row : Key(r) \in Nat \X Nat
      /\ \A r \in Rows : Key(r) \in (Nat \ {0}) \X Nat
  BY ListingAssumption DEF WalkInv, Rows, Key
<1>4. /\ rows \in Seq(Row) /\ \A i \in 1 .. Len(rows) : rows[i] \in S
      /\ \A r \in S : \E i \in 1 .. Len(rows) : rows[i] = r
      /\ \A i, j \in 1 .. Len(rows) : i < j => ~ Precedes(Key(rows[j]), Key(rows[i]))
  <2>1. S \in SUBSET Row
    BY <1>3
  <2> QED  BY <2>1, QueryRows, Zenon
<1>5. Len(rows) \in Nat /\ Limit \in Nat \ {0}
  BY <1>4, ListingAssumption
<1>6. Page(rows) \in Seq(Row)
  BY <1>4, <1>5 DEF Page, HasMore
<1>7. seen' \in Seq(Row) /\ Range(seen') = Range(seen) \cup Range(Page(rows))
  BY <1>1, <1>3, <1>6, ConcatRange, Zenon
<1>8. \A r : Key(r)' = Key(r)
  BY <1>2, Zenon DEF Key
<1>9. Rows' = Rows
  BY <1>2, Zenon DEF Rows
<1>10. first' \subseteq Rows'
  BY <1>2, <1>9, Zenon DEF WalkInv
<1>11. ASSUME NEW r \in first'  PROVE Covered(r) \/ r \in S
  <2>1. r \in Rows
    BY <1>9, <1>10, Zenon
  <2>2. CASE state = "first"
    BY <2>1, <2>2, Zenon DEF WalkInv, After
  <2>3. CASE state = "more"
    BY <1>2, <2>1, <2>3, Zenon DEF WalkInv, After
  <2> QED  BY <1>2, <2>2, <2>3, Zenon DEF WalkInv
<1>12. \A r : Covered(r) => Covered(r)'
  BY <1>1, <1>7, Zenon DEF Covered
<1>13. CASE HasMore(rows)
  <2>1. Limit + 1 \in 1 .. Len(rows)
    BY <1>5, <1>13 DEF HasMore
  <2>2. cursor' \in (Nat \ {0}) \X Nat /\ cursor' = Key(rows[Limit + 1])
    BY <1>1, <1>3, <1>4, <1>13, <2>1, Zenon
  <2>3. ASSUME NEW r \in S  PROVE Covered(r)' \/ Precedes(cursor', Key(r))
    <3>1. PICK i \in 1 .. Len(rows) : rows[i] = r
      BY <1>4, Zenon
    <3>2. CASE i <= Limit
      <4>1. r \in Range(Page(rows))
        BY <1>4, <3>1, <3>2, PageRange, Zenon
      <4> QED  BY <1>7, <4>1, Zenon DEF Covered
    <3>3. CASE ~ (i <= Limit)
      <4>1. i = Limit + 1 \/ Limit + 1 < i
        BY <1>5, <3>1, <3>3
      <4>2. Key(r) = cursor' \/ Precedes(cursor', Key(r))
        <5>1. CASE i = Limit + 1
          BY <2>2, <3>1, <5>1, Zenon
        <5>2. CASE Limit + 1 < i
          <6>1. ~ Precedes(Key(r), cursor')
            BY <1>4, <2>1, <2>2, <3>1, <5>2, Zenon
          <6>2. Key(r) \in Nat \X Nat /\ cursor' \in Nat \X Nat
            BY <1>3, <2>2, Zenon
          <6> QED  BY <6>1, <6>2, KeysOrdered, Zenon
        <5> QED  BY <4>1, <5>1, <5>2, Zenon
      <4> QED  BY <1>1, <1>13, <4>2, Zenon DEF Covered
    <3> QED  BY <3>2, <3>3, Zenon
  <2>4. \A r \in first' : Covered(r)' \/ Precedes(cursor', Key(r)')
    BY <1>8, <1>11, <1>12, <2>3, Zenon
  <2>5. state' = "more" /\ now' \in Nat \ {0} /\ stamp' \in [Row -> Nat]
    BY <1>1, <1>2, <1>3, <1>13, Zenon
  <2>6. MissesOnlyCursors'
    BY <2>5, Zenon DEF MissesOnlyCursors
  <2> QED  BY <1>7, <1>10, <2>2, <2>4, <2>5, <2>6, Zenon DEF WalkInv
<1>14. CASE ~ HasMore(rows)
  <2>1. ASSUME NEW r \in S  PROVE r \in Range(seen')
    <3>1. PICK i \in 1 .. Len(rows) : rows[i] = r
      BY <1>4, Zenon
    <3>2. r \in Range(Page(rows))
      BY <1>4, <1>14, <3>1, PageRange, Zenon
    <3> QED  BY <1>7, <3>2, Zenon
  <2>2. state' = "end" /\ now' \in Nat \ {0} /\ stamp' \in [Row -> Nat]
    BY <1>1, <1>2, <1>3, <1>14, Zenon
  <2>3. MissesOnlyCursors'
    BY <1>11, <1>12, <2>1, Zenon DEF MissesOnlyCursors, Covered
  <2> QED  BY <1>7, <1>10, <2>2, <2>3, Zenon DEF WalkInv
<1> QED  BY <1>13, <1>14, Zenon

\* Rows come, and balances move towards the end of the list.
LEMMA WriteKeepsWalk ==
    ASSUME WalkInv, NEW r \in Row, Write(r)
    PROVE  WalkInv'
<1>1. /\ state # "end" /\ UNCHANGED <<now, cursor, state, seen, first, skipped>>
      /\ Insert(r) \/ Update(r)
  BY Zenon DEF Write, Insert, Update
<1>2. /\ now \in Nat \ {0} /\ stamp \in [Row -> Nat] /\ first \subseteq Rows
      /\ state = "more" => cursor \in (Nat \ {0}) \X Nat
  BY Zenon DEF WalkInv
<1>3. PICK t \in Nat \ {0} :
        /\ stamp' = [stamp EXCEPT ![r] = t]
        /\ r \in Rows => stamp[r] < t
  <2>1. CASE Insert(r)
    <3>1. PICK t \in {now, now - 1} \ {0} : stamp' = [stamp EXCEPT ![r] = t]
      BY <2>1, Zenon DEF Insert
    <3>2. t \in Nat \ {0}
      BY <1>2
    <3>3. r \notin Rows
      BY <2>1 DEF Insert
    <3> QED  BY <3>1, <3>2, <3>3, Zenon
  <2>2. CASE Update(r)
    <3>1. now \in Nat \ {0} /\ stamp[r] < now /\ stamp' = [stamp EXCEPT ![r] = now]
      BY <1>2, <2>2 DEF Update, Rows
    <3> QED  BY <3>1, Zenon
  <2> QED  BY <1>1, <2>1, <2>2, Zenon
<1>4. /\ stamp' \in [Row -> Nat] /\ stamp'[r] = t
      /\ \A q \in Row \ {r} : stamp'[q] = stamp[q]
  BY <1>2, <1>3, Zenon
<1>5. Rows \subseteq Rows'
  BY <1>2, <1>3, <1>4 DEF Rows
<1>6. ASSUME state = "more", NEW q \in first
      PROVE  Covered(q)' \/ Precedes(cursor', Key(q)')
  <2>1. Covered(q) \/ Precedes(cursor, Key(q))
    BY <1>6, Zenon DEF WalkInv
  <2>2. Covered(q) => Covered(q)'
    BY <1>1, Zenon DEF Covered
  <2>3. ASSUME Precedes(cursor, Key(q))  PROVE Precedes(cursor, Key(q)')
    <3>1. q \in Rows /\ q \in Row
      BY <1>2, Zenon DEF Rows
    <3>2. CASE q # r
      BY <1>4, <2>3, <3>1, <3>2, Zenon DEF Key
    <3>3. CASE q = r
      <4>1. stamp[r] < stamp'[r] /\ stamp[r] \in Nat /\ stamp'[r] \in Nat
        BY <1>2, <1>3, <1>4, <3>1, <3>3, Zenon
      <4>2. cursor[1] \in Nat
        BY <1>2, <1>6, Zenon
      <4>3. cursor[1] < stamp'[r]
        BY <2>3, <3>3, <4>1, <4>2 DEF Precedes, Key
      <4> QED  BY <3>3, <4>3, Zenon DEF Precedes, Key
    <3> QED  BY <3>2, <3>3, Zenon
  <2> QED  BY <1>1, <2>1, <2>2, <2>3, Zenon
<1>7. MissesOnlyCursors'
  BY <1>1, Zenon DEF MissesOnlyCursors
<1> QED  BY <1>1, <1>4, <1>5, <1>6, <1>7, Zenon DEF WalkInv

\* Nothing of a walk changes.
LEMMA SameWalk ==
    ASSUME WalkInv, UNCHANGED <<stamp, cursor, state, seen, first, skipped>>, now' \in Nat \ {0}
    PROVE  WalkInv'
<1>1. Rows' = Rows /\ \A r : Key(r)' = Key(r) /\ Covered(r)' = Covered(r)
  BY Zenon DEF Rows, Key, Covered
<1>2. MissesOnlyCursors'
  BY Zenon DEF WalkInv, MissesOnlyCursors
<1> QED  BY <1>1, <1>2, Zenon DEF WalkInv

LEMMA NextKeepsWalk == WalkInv /\ [UserNext]_userVars => WalkInv'
<1> SUFFICES ASSUME WalkInv, [UserNext]_userVars  PROVE WalkInv'
  OBVIOUS
<1>1. now \in Nat \ {0}
  BY Zenon DEF WalkInv
<1>2. UNCHANGED listVars => WalkInv'
  BY <1>1, SameWalk, Zenon DEF listVars
<1>3. CASE ListPage
  BY <1>3, ListKeepsWalk, Zenon DEF ListPage
<1>4. CASE Tick
  BY <1>1, <1>4, SameWalk DEF Tick
<1>5. CASE \E r \in Row : Write(r)
  BY <1>5, WriteKeepsWalk, Zenon
<1>6. CASE \E r \in Request :
             \/ Fail(r) \/ Me(r) \/ ListAPIKeys(r) \/ CreateAPIKey(r) \/ RevokeAPIKey(r)
             \/ InsertAudit(r)
  <2>1. UNCHANGED listVars
    BY <1>6, Zenon DEF Fail, Me, ListAPIKeys, Read, CreateAPIKey, RevokeAPIKey, InsertAudit,
                Done, Move
  <2> QED  BY <1>2, <2>1, Zenon
<1>7. CASE \E v \in Verifier : GetAPIKeyByPrefix(v) \/ VerifyAPIKey(v) \/ MarkAPIKeyUsed(v)
  <2>1. UNCHANGED listVars
    BY <1>7, Zenon DEF GetAPIKeyByPrefix, VerifyAPIKey, MarkAPIKeyUsed, Checking
  <2> QED  BY <1>2, <2>1, Zenon
<1>8. CASE UNCHANGED userVars
  BY <1>2, <1>8, Zenon DEF userVars
<1> QED  BY <1>3, <1>4, <1>5, <1>6, <1>7, <1>8, Zenon DEF UserNext

(***************************************************************************)
(* Whatever is inserted, settled or requested in between, a client that    *)
(* follows next_cursor through GET /accounts, /balances or /orders misses  *)
(* only rows that shared the cursor's key when a page was read: the row    *)
(* read too many and its ties.                                             *)
(***************************************************************************)
THEOREM WalksMissOnlyCursors == UserSpec => []MissesOnlyCursors
<1>1. UserInit => WalkInv
  <2> SUFFICES ASSUME UserInit  PROVE WalkInv
    OBVIOUS
  <2>1. /\ stamp \in [Row -> 0 .. 1] /\ now = 1 /\ cursor = NoCursor /\ state = "first"
        /\ seen = <<>> /\ first = {}
    BY Zenon DEF UserInit, ListInit
  <2> QED  BY <2>1 DEF WalkInv, MissesOnlyCursors
<1>2. WalkInv => MissesOnlyCursors
  BY Zenon DEF WalkInv
<1> QED  BY <1>1, <1>2, NextKeepsWalk, PTL DEF UserSpec

-----------------------------------------------------------------------------
(***************************************************************************)
(* For any requests, keys and verifications: an API key is accepted after  *)
(* it was revoked only by a verification that had read it before.          *)
(***************************************************************************)
KeyRow ==
    [user : {UserOf[r] : r \in Request}, prefix : Prefix, lastUsedAt : Int, revokedAt : Int]

\* A verification without, and with, the copy of the revocation it has read.
Checked == [step : {"new", "accepted", "refused", "used"}, key : Request \cup {NoKey}, at : Int]

Verifying == [step : {"verify"}, key : Request, at : Int, revokedAt : Int]

KeysRight ==
    /\ DOMAIN keys \subseteq Request
    /\ keys = [k \in DOMAIN keys |-> keys[k]]
    /\ \A k \in DOMAIN keys : keys[k] \in KeyRow /\ keys[k].revokedAt <= now

\* Among keys ks, the key was not revoked before it was read.
ReadInTime(ks, c) ==
    ks[c.key].revokedAt = Never \/ c.at <= ks[c.key].revokedAt

\* To be inductive the property is extended to the verifications that have the
\* copy and have not judged it.
InTime(ks, c) ==
    \/ /\ c \in Checked
       /\ c.step \in {"accepted", "used"} => c.key \in DOMAIN ks /\ ReadInTime(ks, c)
    \/ /\ c \in Verifying /\ c.key \in DOMAIN ks
       /\ c.revokedAt = Never => ReadInTime(ks, c)

UserInv ==
    /\ now \in Nat
    /\ KeysRight
    /\ check = [v \in Verifier |-> check[v]]
    /\ \A v \in Verifier : check[v].at <= now /\ InTime(keys, check[v])

-----------------------------------------------------------------------------
\* What a step may do to the keys: one is added, used, or revoked now if it was
\* not before.
KeyStep ==
    /\ KeysRight'
    /\ \A k \in DOMAIN keys :
          /\ k \in DOMAIN keys'
          /\ \/ keys'[k].revokedAt = keys[k].revokedAt
             \/ keys[k].revokedAt = Never /\ keys'[k].revokedAt = now

\* A verification stays in time whatever happens to the keys.
LEMMA StaysInTime ==
    ASSUME NEW c, UserInv, KeyStep, c.at <= now, InTime(keys, c)
    PROVE  InTime(keys', c)
<1>1. c.at \in Int /\ now \in Nat
  BY Zenon DEF InTime, Checked, Verifying, UserInv
<1>2. ASSUME c.key \in DOMAIN keys, ReadInTime(keys, c)
      PROVE  c.key \in DOMAIN keys' /\ ReadInTime(keys', c)
  BY <1>1, <1>2, Zenon DEF KeyStep, ReadInTime
<1>3. c.key \in DOMAIN keys => c.key \in DOMAIN keys'
  BY Zenon DEF KeyStep
<1> QED  BY <1>2, <1>3, Zenon DEF InTime

\* Steps in which at most one verification goes on.
LEMMA StepKeepsInv ==
    ASSUME UserInv, KeyStep, now' \in Nat, now <= now',
           check' = [v \in Verifier |-> check'[v]],
           \A v \in Verifier :
              check'[v] = check[v] \/ (check'[v].at <= now /\ InTime(keys', check'[v]))
    PROVE  UserInv'
<1>1. ASSUME NEW v \in Verifier  PROVE check'[v].at <= now' /\ InTime(keys', check'[v])
  <2>1. check[v].at <= now /\ InTime(keys, check[v])
    BY Zenon DEF UserInv
  <2>2. InTime(keys', check[v])
    BY <2>1, StaysInTime, Zenon
  <2>3. check'[v].at <= now /\ InTime(keys', check'[v])
    BY <2>1, <2>2, Zenon
  <2>4. check'[v].at \in Int /\ now \in Nat
    BY <2>3, Zenon DEF InTime, Checked, Verifying, UserInv
  <2> QED  BY <2>3, <2>4
<1> QED  BY <1>1, Zenon DEF UserInv, KeyStep

\* Steps that leave the keys alone.
LEMMA KeptKeys ==
    ASSUME UserInv, keys' = keys, now' \in Nat, now <= now'
    PROVE  KeyStep
<1>1. \A k \in DOMAIN keys : keys[k].revokedAt \in Int /\ keys[k].revokedAt <= now
  BY Zenon DEF UserInv, KeysRight, KeyRow
<1>2. KeysRight'
  BY <1>1 DEF UserInv, KeysRight, KeyRow
<1> QED  BY <1>2, Zenon DEF KeyStep

\* CreateAPIKey adds a key that is not revoked.
LEMMA CreatedKey ==
    ASSUME UserInv, NEW r \in Request, NEW prefix \in Prefix, InsertKey(r, prefix), now' = now
    PROVE  KeyStep
<1> DEFINE x == [user |-> UserOf[r], prefix |-> prefix, lastUsedAt |-> Never, revokedAt |-> Never]
<1>1. x \in KeyRow /\ x.revokedAt <= now
  BY DEF KeyRow, Never, UserInv
<1>2. /\ keys' = [k \in DOMAIN keys \cup {r} |-> IF k \in DOMAIN keys THEN keys[k] ELSE x]
      /\ KeysRight
  BY Zenon DEF InsertKey, UserInv
<1> HIDE DEF x
<1>3. DOMAIN keys' = DOMAIN keys \cup {r} /\ keys' = [k \in DOMAIN keys' |-> keys'[k]]
  BY <1>2, Zenon
<1>4. \A k \in DOMAIN keys : keys'[k] = keys[k]
  BY <1>2, Zenon
<1>5. \A k \in DOMAIN keys' : keys'[k] \in KeyRow /\ keys'[k].revokedAt <= now
  BY <1>1, <1>2, <1>3, Zenon DEF KeysRight
<1>6. KeysRight'
  BY <1>2, <1>3, <1>5, Zenon DEF KeysRight
<1> QED  BY <1>3, <1>4, <1>6, Zenon DEF KeyStep

\* RevokeAPIKey and MarkAPIKeyUsed write one column of one row.
LEMMA WrittenKey ==
    ASSUME UserInv, NEW k \in DOMAIN keys, now' = now,
           \/ keys[k].revokedAt = Never /\ keys' = [keys EXCEPT ![k].revokedAt = now]
           \/ keys' = [keys EXCEPT ![k].lastUsedAt = now]
    PROVE  KeyStep
<1>1. KeysRight /\ now \in Nat
  BY Zenon DEF UserInv
<1>2. /\ DOMAIN keys' = DOMAIN keys /\ keys' = [y \in DOMAIN keys' |-> keys'[y]]
      /\ \A y \in DOMAIN keys \ {k} : keys'[y] = keys[y]
      /\ \/ keys[k].revokedAt = Never /\ keys'[k] = [keys[k] EXCEPT !.revokedAt = now]
         \/ keys'[k] = [keys[k] EXCEPT !.lastUsedAt = now]
  BY <1>1, Zenon DEF KeysRight
<1>3. /\ keys'[k] \in KeyRow /\ keys'[k].revokedAt <= now
      /\ \/ keys'[k].revokedAt = keys[k].revokedAt
         \/ keys[k].revokedAt = Never /\ keys'[k].revokedAt = now
  BY <1>1, <1>2 DEF KeysRight, KeyRow
<1>4. KeysRight'
  BY <1>1, <1>2, <1>3, Zenon DEF KeysRight
<1> QED  BY <1>2, <1>3, <1>4, Zenon DEF KeyStep

-----------------------------------------------------------------------------
\* GetAPIKeyByPrefix copies the revocation as it is.
LEMMA GetAPIKeyByPrefixInv ==
    ASSUME UserInv, NEW v \in Verifier, GetAPIKeyByPrefix(v)
    PROVE  UserInv'
<1>1. PICK k \in DOMAIN keys :
        Checking(v, [step |-> "verify", key |-> k, at |-> now, revokedAt |-> keys[k].revokedAt])
  BY Zenon DEF GetAPIKeyByPrefix
<1> DEFINE c == [step |-> "verify", key |-> k, at |-> now, revokedAt |-> keys[k].revokedAt]
<1>2. /\ keys' = keys /\ now' = now /\ now \in Nat /\ check' = [check EXCEPT ![v] = c]
      /\ k \in Request /\ keys[k].revokedAt \in Int
  BY <1>1, Zenon DEF GetAPIKeyByPrefix, Checking, listVars, UserInv, KeysRight, KeyRow
<1>3. c.at <= now /\ InTime(keys, c)
  <2>1. now \in Int /\ now <= now
    BY <1>2
  <2>2. c \in Verifying
    BY <1>2, <2>1, Zenon DEF Verifying
  <2>3. c.revokedAt = Never => ReadInTime(keys, c)
    BY Zenon DEF ReadInTime
  <2> QED  BY <2>1, <2>2, <2>3, Zenon DEF InTime
<1> HIDE DEF c
<1>4. /\ check' = [w \in Verifier |-> check'[w]]
      /\ \A w \in Verifier : check'[w] = check[w] \/ check'[w] = c
  BY <1>2, Zenon DEF UserInv
<1> QED  BY <1>2, <1>3, <1>4, KeptKeys, StepKeepsInv

\* VerifyAPIKey accepts only a key whose copy is not revoked.
LEMMA VerifyAPIKeyInv ==
    ASSUME UserInv, NEW v \in Verifier, VerifyAPIKey(v)
    PROVE  UserInv'
<1> DEFINE b == check[v]
<1>1. PICK result \in Verify(b) :
        Checking(v, [step |-> result, key |-> b.key, at |-> b.at])
  BY Zenon DEF VerifyAPIKey
<1> DEFINE c == [step |-> result, key |-> b.key, at |-> b.at]
<1>2. /\ keys' = keys /\ now' = now /\ now \in Nat /\ check' = [check EXCEPT ![v] = c]
      /\ b.step = "verify" /\ InTime(keys, b) /\ b.at <= now
  BY <1>1, Zenon DEF VerifyAPIKey, Checking, listVars, UserInv
<1>3. /\ b \in Verifying /\ b.key \in DOMAIN keys
      /\ b.revokedAt = Never => ReadInTime(keys, b)
  BY <1>2, Zenon DEF InTime, Checked
<1>4. result \in {"accepted", "refused"} /\ (result = "accepted" => b.revokedAt = Never)
  BY <1>1, Zenon DEF Verify
<1>5. c.at <= now /\ InTime(keys, c)
  <2>1. c \in Checked
    BY <1>3, <1>4, Zenon DEF Checked, Verifying
  <2>2. c.step = "accepted" => ReadInTime(keys, c) /\ c.key \in DOMAIN keys
    BY <1>3, <1>4, Zenon DEF ReadInTime
  <2>3. c.step # "used"
    BY <1>4, Zenon
  <2> QED  BY <1>2, <2>1, <2>2, <2>3, Zenon DEF InTime
<1> HIDE DEF c
<1>6. /\ check' = [w \in Verifier |-> check'[w]]
      /\ \A w \in Verifier : check'[w] = check[w] \/ check'[w] = c
  BY <1>2, Zenon DEF UserInv
<1> QED  BY <1>2, <1>5, <1>6, KeptKeys, StepKeepsInv

\* MarkAPIKeyUsed writes the key it has verified.
LEMMA MarkAPIKeyUsedInv ==
    ASSUME UserInv, NEW v \in Verifier, MarkAPIKeyUsed(v)
    PROVE  UserInv'
<1>1. PICK k : k = check[v].key
  BY Zenon
<1>2. PICK c : c = [check[v] EXCEPT !.step = "used"]
  BY Zenon
<1>3. /\ now' = now /\ now \in Nat /\ check' = [check EXCEPT ![v] = c]
      /\ keys' = [keys EXCEPT ![k].lastUsedAt = now]
      /\ check[v].step = "accepted" /\ InTime(keys, check[v]) /\ check[v].at <= now
  BY <1>1, <1>2, Zenon DEF MarkAPIKeyUsed, Checking, listVars, UserInv
<1>4. /\ check[v] \in Checked /\ k \in DOMAIN keys /\ ReadInTime(keys, check[v])
  BY <1>1, <1>3, Zenon DEF InTime, Verifying
<1>5. c \in Checked /\ c.key = k /\ c.at = check[v].at
  BY <1>1, <1>2, <1>4, Zenon DEF Checked
<1>6. c.at <= now /\ InTime(keys, c)
  BY <1>1, <1>3, <1>4, <1>5, Zenon DEF InTime, ReadInTime
<1>7. KeyStep
  BY <1>3, <1>4, WrittenKey, Zenon
<1>8. InTime(keys', c)
  BY <1>6, <1>7, StaysInTime, Zenon
<1>9. /\ check' = [w \in Verifier |-> check'[w]]
      /\ \A w \in Verifier : check'[w] = check[w] \/ check'[w] = c
  BY <1>3, Zenon DEF UserInv
<1>10. now' \in Nat /\ now <= now'
  BY <1>3
<1>11. \A w \in Verifier :
         check'[w] = check[w] \/ (check'[w].at <= now /\ InTime(keys', check'[w]))
  BY <1>6, <1>8, <1>9, Zenon
<1> QED  BY <1>7, <1>9, <1>10, <1>11, StepKeepsInv, Zenon

\* Steps that leave the verifications alone.
LEMMA RequestInv ==
    ASSUME UserInv, KeyStep, now' = now \/ now' = now + 1, check' = check
    PROVE  UserInv'
<1>1. now \in Nat /\ now' \in Nat /\ now <= now'
  BY DEF UserInv
<1>2. check' = [v \in Verifier |-> check'[v]]
  BY Zenon DEF UserInv
<1> QED  BY <1>1, <1>2, StepKeepsInv, Zenon

\* Every step of the service keeps the invariant.
LEMMA UserNextInv == UserInv /\ [UserNext]_userVars => UserInv'
<1> SUFFICES ASSUME UserInv, [UserNext]_userVars  PROVE UserInv'
  OBVIOUS
<1>1. ASSUME keys' = keys, check' = check, now' = now \/ now' = now + 1
      PROVE  UserInv'
  <2>1. now' \in Nat /\ now <= now'
    BY <1>1 DEF UserInv
  <2> QED  BY <1>1, <2>1, KeptKeys, RequestInv, Zenon
<1>2. CASE UNCHANGED userVars
  BY <1>1, <1>2, Zenon DEF userVars, listVars, keyVars
<1>3. CASE ListPage
  BY <1>1, <1>3, Zenon DEF ListPage, List
<1>4. CASE (Tick \/ \E r \in Row : Write(r)) /\ UNCHANGED keyVars
  BY <1>1, <1>4, Zenon DEF Tick, Write, Insert, Update, keyVars
<1>5. ASSUME NEW r \in Request,
             Fail(r) \/ Me(r) \/ ListAPIKeys(r) \/ InsertAudit(r)
      PROVE  UserInv'
  BY <1>1, <1>5, Zenon DEF Fail, Me, ListAPIKeys, Read, InsertAudit, Move, listVars
<1>6. ASSUME NEW r \in Request, CreateAPIKey(r)  PROVE UserInv'
  <2>1. now' = now /\ check' = check
    BY <1>6, Zenon DEF CreateAPIKey, Done, Move, listVars
  <2>2. KeyStep
    BY <1>6, <2>1, CreatedKey, Zenon DEF CreateAPIKey
  <2> QED  BY <2>1, <2>2, RequestInv, Zenon
<1>7. ASSUME NEW r \in Request, RevokeAPIKey(r)  PROVE UserInv'
  <2>1. now' = now /\ check' = check
    BY <1>7, Zenon DEF RevokeAPIKey, Done, Move, listVars
  <2>2. PICK k \in DOMAIN keys :
           \/ keys[k].revokedAt = Never /\ keys' = [keys EXCEPT ![k].revokedAt = now]
           \/ keys' = keys
    BY <1>7, Zenon DEF RevokeAPIKey, Revocable
  <2>3. CASE keys' = keys
    BY <1>1, <2>1, <2>3, Zenon
  <2>4. CASE keys[k].revokedAt = Never /\ keys' = [keys EXCEPT ![k].revokedAt = now]
    BY <2>1, <2>4, WrittenKey, RequestInv, Zenon
  <2> QED  BY <2>2, <2>3, <2>4, Zenon
<1>8. ASSUME NEW v \in Verifier, GetAPIKeyByPrefix(v) \/ VerifyAPIKey(v) \/ MarkAPIKeyUsed(v)
      PROVE  UserInv'
  BY <1>8, GetAPIKeyByPrefixInv, VerifyAPIKeyInv, MarkAPIKeyUsedInv, Zenon
<1> QED  BY <1>2, <1>3, <1>4, <1>5, <1>6, <1>7, <1>8, Zenon DEF UserNext

\* There are no keys at first, and no verification has begun.
LEMMA UserInitInv == UserInit => UserInv
<1> SUFFICES ASSUME UserInit  PROVE UserInv
  OBVIOUS
<1>1. now = 1 /\ DOMAIN keys = {} /\ keys = [k \in DOMAIN keys |-> keys[k]]
  BY DEF UserInit, ListInit
<1>2. KeysRight
  BY <1>1, Zenon DEF KeysRight
<1>3. Unchecked \in Checked /\ Unchecked.at <= now /\ Unchecked.step = "new"
  BY <1>1 DEF Unchecked, Checked, Never
<1>4. InTime(keys, Unchecked)
  BY <1>3, Zenon DEF InTime
<1>5. check = [v \in Verifier |-> check[v]] /\ \A v \in Verifier : check[v] = Unchecked
  BY Zenon DEF UserInit
<1> QED  BY <1>1, <1>2, <1>3, <1>4, <1>5, Zenon DEF UserInv

(***************************************************************************)
(* A key that was revoked is accepted, and marked as used, only by a       *)
(* verification that read it before RevokeAPIKey: VerifyAPIKey judges the  *)
(* copy it was given.                                                      *)
(***************************************************************************)
THEOREM RevokedKeysRefused == UserSpec => []LateUseWasLookedUpBefore
<1>1. UserInv => LateUseWasLookedUpBefore
  <2> SUFFICES ASSUME UserInv, NEW v \in Verifier, check[v].step \in {"accepted", "used"}
               PROVE  ReadInTime(keys, check[v])
    BY DEF LateUseWasLookedUpBefore, ReadInTime
  <2> QED  BY Zenon DEF UserInv, InTime, Verifying
<1> QED  BY <1>1, UserInitInv, UserNextInv, PTL DEF UserSpec
=============================================================================
