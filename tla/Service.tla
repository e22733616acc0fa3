------------------------------- MODULE Service -------------------------------
(***************************************************************************)
(* The life of a service process: main opens its resources one by one,     *)
(* defers their closing and starts its servers and its consumer;           *)
(* waitForShutdown stops them when a signal comes; the deferred closes run *)
(* last, newest first.  os.Exit, a crash or an early signal run none.      *)
(*                                                                         *)
(* The consumer of a service is KafkaConsumer, in a session of the         *)
(* consumer group.  Broker and topics outlive the process.                 *)
(***************************************************************************)
EXTENDS KafkaConsumer, Sequences

CONSTANTS
    Programs,     \* services to consider
    MaxInjected   \* bound: signals, crashes, failing calls; MaxFaults is out of reach

VARIABLES
    program,    \* which service this is
    phase,      \* "boot", "up", "stop", "close", "exited"
    todo,       \* steps left of the phase
    defers,     \* deferred closes, newest first
    ready,      \* health.Manager
    accepting,  \* servers that accept calls
    cancelled,  \* consumerCtx (refreshCtx) is cancelled
    timer,      \* the 10 s of waitForShutdown: "off", "running", "expired"
    consumer,   \* Consume: "off", "join", "session", "returned"
    call        \* of each server: "none", "running", "stuck" in the database

topic == <<next, pc, marked, committed, attempts, handled, failures, dlq>>
process == <<phase, todo, defers, ready, accepting, cancelled, timer, consumer, call>>
serviceVars == <<topic, faults, program, process>>

Server == {"grpc", "http"}

-----------------------------------------------------------------------------
(***************************************************************************)
(* What the mains do, in order.                                            *)
(***************************************************************************)
LedgerMain ==
    <<"pool", "conn", "producer", "group", "ready", "grpc", "http", "consumer">>

OrderIngestMain ==
    <<"pool", "conn", "conn", "producer", "group", "ready", "http", "consumer">>

MatchingMainGroupFirst ==
    <<"pool", "group", "producer", "ready", "grpc", "http", "consumer">>

MatchingMain ==
    <<"pool", "producer", "group", "ready", "grpc", "http", "consumer">>

RiskMain == <<"pool", "conn", "cache", "refresh", "ready", "grpc", "http">>

FeeMain == <<"pool", "cache", "refresh", "ready", "grpc", "http">>

AuthMain == <<"ready", "pool", "limiter", "http">>

UserMain == <<"ready", "pool", "http">>

TemplateMain == <<"ready", "http">>

Main ==
    [ledger |-> LedgerMain, orderingest |-> OrderIngestMain, matching |-> MatchingMain,
     risk |-> RiskMain, fee |-> FeeMain, auth |-> AuthMain, user |-> UserMain,
     template |-> TemplateMain]

\* Steps that defer a close, or a cancel.
Deferring == {"pool", "conn", "producer", "group", "limiter", "refresh", "consumer"}

(***************************************************************************)
(* waitForShutdown, once the signal is there.  GracefulStop and Shutdown   *)
(* accept no more calls and wait for those that run; "await" gives up when *)
(* the timer expires, "drain" does not.                                    *)
(***************************************************************************)
LedgerShutdownDrains ==
    <<"unready", "cancel", "timer", "close grpc", "drain grpc", "close http", "await http">>

LedgerShutdown ==
    <<"unready", "cancel", "timer", "close grpc", "await grpc", "close http", "await http">>

RiskShutdown == LedgerShutdown

FeeShutdown == LedgerShutdown

MatchingShutdown ==
    <<"unready", "cancel", "timer", "close grpc", "drain grpc", "close http", "await http">>

OrderIngestShutdown == <<"unready", "cancel", "timer", "close http", "await http">>

AuthShutdown == <<"timer", "close http", "await http">>

UserShutdown == AuthShutdown

TemplateShutdown == AuthShutdown

Shutdown ==
    [ledger |-> LedgerShutdown, orderingest |-> OrderIngestShutdown,
     matching |-> MatchingShutdown, risk |-> RiskShutdown, fee |-> FeeShutdown,
     auth |-> AuthShutdown, user |-> UserShutdown, template |-> TemplateShutdown]

ASSUME ServiceAssumption == Programs \subseteq DOMAIN Main /\ MaxInjected \in 0 .. MaxFaults

-----------------------------------------------------------------------------
Injectable == faults < MaxInjected

Injected == Injectable /\ faults' = faults + 1

ServiceInit ==
    /\ Init
    /\ program \in Programs
    /\ phase = "boot" /\ todo = Main[program] /\ defers = <<>>
    /\ ready = FALSE /\ accepting = {} /\ cancelled = FALSE /\ timer = "off"
    /\ consumer = "off" /\ call = [s \in Server |-> "none"]

Then(p, steps) ==
    IF Tail(todo) = <<>> THEN phase' = p /\ todo' = steps
                         ELSE phase' = phase /\ todo' = Tail(todo)

\* A server whose ListenAndServe fails is logged and missed.
BootStep ==
    /\ phase = "boot"
    /\ LET s == Head(todo)
       IN  /\ defers' = IF s \in Deferring THEN <<s>> \o defers ELSE defers
           /\ ready' = (ready \/ s = "ready")
           /\ consumer' = IF s = "consumer" THEN "join" ELSE consumer
           /\ \/ accepting' = accepting \cup ({s} \cap Server) /\ UNCHANGED faults
              \/ s = "http" /\ UNCHANGED accepting /\ Injected
    /\ Then("up", <<>>)
    /\ UNCHANGED <<topic, program, cancelled, timer, call>>

\* The process is gone; for its consumer that is a crash.
Exit ==
    /\ Crash
    /\ phase' = "exited" /\ todo' = <<>> /\ defers' = <<>>
    /\ ready' = FALSE /\ accepting' = {} /\ cancelled' = FALSE /\ timer' = "off"
    /\ consumer' = "off" /\ call' = [s \in Server |-> "none"]
    /\ UNCHANGED program

\* At any time; also os.Exit(1), when a step of main returns an error, and a
\* signal before signal.Notify: none of them runs a deferred close.
Die ==
    /\ phase # "exited" /\ Injectable
    /\ Exit

Restart ==
    /\ phase = "exited"
    /\ phase' = "boot" /\ todo' = Main[program]
    /\ UNCHANGED <<topic, faults, program, defers, ready, accepting, cancelled, timer,
                   consumer, call>>

Signal ==
    /\ phase = "up"
    /\ Injected
    /\ phase' = "stop" /\ todo' = Shutdown[program]
    /\ UNCHANGED <<topic, program, defers, ready, accepting, cancelled, timer, consumer, call>>

-----------------------------------------------------------------------------
(***************************************************************************)
(* Stopping.                                                               *)
(***************************************************************************)
\* Whether the call of waitForShutdown returns.
Returns(s) ==
    CASE s = "await grpc" -> call["grpc"] = "none" \/ timer = "expired"
      [] s = "drain grpc" -> call["grpc"] = "none"
      [] s = "await http" -> call["http"] = "none" \/ timer = "expired"
      [] OTHER            -> TRUE

StopStep ==
    /\ phase = "stop"
    /\ LET s == Head(todo)
       IN  /\ Returns(s)
           /\ ready' = (ready /\ s # "unready")
           /\ cancelled' = (cancelled \/ s = "cancel")
           /\ timer' = IF s = "timer" THEN "running" ELSE timer
           /\ accepting' = accepting \ (IF s = "close grpc" THEN {"grpc"}
                                        ELSE IF s = "close http" THEN {"http"} ELSE {})
    /\ Then("close", defers \o <<"exit">>)
    /\ UNCHANGED <<topic, faults, program, defers, consumer, call>>

Expire ==
    /\ timer = "running"
    /\ timer' = "expired"
    /\ UNCHANGED <<topic, faults, program, phase, todo, defers, ready, accepting, cancelled,
                   consumer, call>>

\* The group is left when its session is over; the pool is closed when every
\* connection is back.
CloseStep ==
    /\ phase = "close" /\ Head(todo) # "exit"
    /\ Head(todo) = "group" => consumer # "session"
    /\ Head(todo) = "pool" => \A s \in Server : call[s] # "stuck"
    /\ cancelled' = (cancelled \/ Head(todo) \in {"consumer", "refresh"})
    /\ defers' = Tail(defers) /\ todo' = Tail(todo)
    /\ UNCHANGED <<topic, faults, program, phase, ready, accepting, timer, consumer, call>>

MainReturns ==
    /\ phase = "close" /\ Head(todo) = "exit"
    /\ Exit

-----------------------------------------------------------------------------
(***************************************************************************)
(* Calls.  The HTTP server of a service with gRPC has only its health and  *)
(* metrics pages, which do not touch the database.  grpcServer.Stop        *)
(* cancels the context of a call, Shutdown of the HTTP server does not.    *)
(***************************************************************************)
HasGrpc == program \in {"ledger", "matching", "risk", "fee"}

CallBegins(s) ==
    /\ s \in accepting /\ call[s] = "none"
    /\ \E c \in {"running", "stuck"} :
        /\ c = "stuck" => (s = "grpc") = HasGrpc /\ program # "template"
        /\ call' = [call EXCEPT ![s] = c]
    /\ UNCHANGED <<topic, faults, program, phase, todo, defers, ready, accepting, cancelled,
                   timer, consumer>>

Steps(seq) == {seq[i] : i \in DOMAIN seq}

Stopped(s) ==
    /\ s = "grpc" /\ timer = "expired"
    /\ "await grpc" \in Steps(Shutdown[program]) \ Steps(todo)

CallEnds(s) ==
    /\ call[s] = "running" \/ (call[s] = "stuck" /\ Stopped(s))
    /\ call' = [call EXCEPT ![s] = "none"]
    /\ UNCHANGED <<topic, faults, program, phase, todo, defers, ready, accepting, cancelled,
                   timer, consumer>>

-----------------------------------------------------------------------------
(***************************************************************************)
(* Consume: it joins the group again after every session and every error,  *)
(* until its context is cancelled.  A session whose context is cancelled   *)
(* ends after the message at hand; messages already fetched may still be   *)
(* given to the handler, whose calls then fail.                            *)
(***************************************************************************)
rest == <<program, phase, todo, defers, ready, accepting, cancelled, timer, call>>

Join ==
    /\ consumer = "join" /\ ~ cancelled
    /\ consumer' = "session"
    /\ UNCHANGED <<topic, faults, rest>>

Return ==
    /\ consumer = "join" /\ cancelled
    /\ consumer' = "returned"
    /\ UNCHANGED <<topic, faults, rest>>

Claim ==
    /\ consumer = "session"
    /\ ConsumeClaim
    /\ faults' # faults => Injectable \/ cancelled
    /\ UNCHANGED <<consumer, rest>>

AutoCommit ==
    /\ consumer = "session"
    /\ Commit
    /\ UNCHANGED <<consumer, rest>>

\* A rebalance or a lost connection ends the session, and so does the cancelled
\* context, with a last commit that may fail.
SessionEnds ==
    /\ consumer = "session"
    /\ \/ /\ ~ cancelled /\ Injectable /\ Rebalance
          /\ consumer' = "join"
       \/ /\ cancelled /\ pc = "poll"
          /\ committed' \in {committed, marked}
          /\ consumer' = "returned"
          /\ UNCHANGED <<next, pc, marked, attempts, handled, failures, dlq, faults>>
    /\ UNCHANGED rest

Consume == Join \/ Return \/ Claim \/ AutoCommit \/ SessionEnds

-----------------------------------------------------------------------------
Stop == StopStep \/ CloseStep \/ MainReturns

ServiceNext ==
    \/ BootStep \/ Die \/ Restart \/ Signal
    \/ Stop \/ Expire \/ Consume
    \/ \E s \in Server : CallBegins(s) \/ CallEnds(s)

\* Goroutines run, timers expire, calls that are not stuck end, sessions whose
\* context is cancelled end.
ServiceSpec ==
    /\ ServiceInit /\ [][ServiceNext]_serviceVars
    /\ WF_serviceVars(BootStep) /\ WF_serviceVars(Stop) /\ WF_serviceVars(Expire)
    /\ WF_serviceVars(Join \/ Return) /\ WF_serviceVars(Claim) /\ WF_serviceVars(AutoCommit)
    /\ WF_serviceVars(cancelled /\ SessionEnds)
    /\ \A s \in Server : WF_serviceVars(CallEnds(s))

-----------------------------------------------------------------------------
Resource == {"pool", "conn", "producer", "group", "limiter"}

Open == Steps(defers)

\* A handler never runs without its resources: from the first message of a
\* session to the last the group, the producer and the pool are open.
ConsumesWithResources ==
    consumer = "session" => {"pool", "producer", "group"} \subseteq Open

\* A signal ends the process, unless a call is stuck in the database that
\* nothing cancels: an HTTP request, or a call of matching, whose GracefulStop
\* has no deadline.
ShutdownEnds ==
    phase = "stop" ~>
        \/ phase = "exited"
        \/ call["http"] = "stuck"
        \/ call["grpc"] = "stuck" /\ program = "matching"

\* A consumer that stays up keeps no lag but messages that failed.
OnlyFailuresLag ==
    <>[](phase = "up" /\ consumer # "off") =>
        <>[](\A m \in Msg : m >= committed => failures[m] > 0)
=============================================================================
