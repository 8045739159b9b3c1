------------------------------- MODULE Shutdown -------------------------------
(***************************************************************************)
(* Taking an instance out of service: the signal handlers of src/main.ts,  *)
(* GracefulShutdownService.beginDrain and the readiness probe              *)
(* (src/health/), behind a load balancer.                                  *)
(*                                                                         *)
(* The handlers are registered with process.once, one per signal, and both *)
(* run: beginDrain() makes the first wait for the grace window and lets    *)
(* the second pass.  A signal that comes a second time finds no handler    *)
(* and ends the process (external: Node's default).                        *)
(*                                                                         *)
(* A probe reads the shutdown flag when it comes in and is answered when   *)
(* Postgres and Redis have been, or their two seconds are over: a signal   *)
(* may come in between.                                                    *)
(*                                                                         *)
(* A promise that rejects with nobody to handle it ends the process        *)
(* (external: Node's default): app.close() whose redis.quit() fails, and a *)
(* sweep of the list cache (JobsService.invalidateCache) that finds Redis  *)
(* failing or already quit.                                                *)
(***************************************************************************)
EXTENDS Integers, FiniteSets

CONSTANTS
  Instances,
  Signals,        \* SIGTERM and SIGINT
  Graceful,       \* those whose SHUTDOWN_GRACE_MS outlasts the probe under way and
                  \* the next; 0 for the others
  MaxSignals,     \* bound: signals sent
  MaxRequests     \* bound: requests in progress at one instance

ASSUME ShutdownAssumption ==
  Graceful \subseteq Instances /\ MaxSignals \in Nat /\ MaxRequests \in Nat

VARIABLES
  process,        \* instance -> "up", "closing" (Redis has been quit), "closed"
                  \* (the HTTP server takes no connections) or "gone"
  shuttingDown,   \* instance -> the flag of GracefulShutdownService
  handler,        \* instance, signal -> the call its handler makes next
  probe,          \* instance -> what the flag told the probe under way, or "none"
  routed,         \* instances the load balancer sends requests to
  requests,       \* instance -> requests in progress
  sweeping,       \* instances with a sweep of the list cache under way
  signals,        \* signals still to come
  \* What has happened to the process at hand, read by the properties only:
  hurried,        \* instances sent another signal while they were shutting down
  rejected,       \* instances ended by a promise that rejects
  refused,        \* instances sent a request when they were not up
  lost            \* instances that ended with requests in progress

history == <<signals, hurried, rejected, refused, lost>>
balancer == <<probe, routed>>
vars == <<process, shuttingDown, handler, balancer, requests, sweeping, history>>

Running(i) == process[i] # "gone"
Listening(i) == process[i] \in {"up", "closing"}

\* The process of i ends, whatever it is doing.
Dies(i) ==
  /\ process' = [process EXCEPT ![i] = "gone"]
  /\ lost' = IF requests[i] > 0 THEN lost \cup {i} ELSE lost
  /\ requests' = [requests EXCEPT ![i] = 0]
  /\ sweeping' = sweeping \ {i}

\* A promise rejects in i, and nobody handles it.
Rejects(i) ==
  /\ Dies(i)
  /\ rejected' = rejected \cup {i}
  /\ UNCHANGED <<shuttingDown, handler, balancer, signals, hurried, refused>>

Received(i) ==
  /\ Running(i) /\ signals > 0
  /\ signals' = signals - 1
  /\ hurried' = IF shuttingDown[i] THEN hurried \cup {i} ELSE hurried

-----------------------------------------------------------------------------
\* beginDrain(): nothing to wait for if a shutdown is under way; otherwise
\* readiness fails from now on, for the grace window.
BeginDrain(i, s) ==
  LET waits == i \in Graceful /\ ~shuttingDown[i] IN
  /\ handler' = [handler EXCEPT ![i][s] = IF waits THEN "drain" ELSE "close"]
  /\ shuttingDown' = [shuttingDown EXCEPT ![i] = TRUE]

Signal(i, s) ==
  /\ Received(i) /\ handler[i][s] = "armed"
  /\ BeginDrain(i, s)
  /\ UNCHANGED <<process, balancer, requests, sweeping, rejected, refused, lost>>

\* The same signal again: process.once has taken its handler away.
SignalAgain(i, s) ==
  /\ Received(i) /\ handler[i][s] # "armed"
  /\ Dies(i)
  /\ UNCHANGED <<shuttingDown, handler, balancer, rejected, refused>>

\* The grace window is over.  It is set to outlast the probe that was under way
\* when the signal came, and one more.
GraceOver(i, s) ==
  /\ Running(i) /\ handler[i][s] = "drain" /\ i \notin routed /\ probe[i] # "ready"
  /\ handler' = [handler EXCEPT ![i][s] = "close"]
  /\ UNCHANGED <<process, shuttingDown, balancer, requests, sweeping, history>>

\* app.close(): the destroy hooks quit Redis while the HTTP server still listens.
Close(i, s) ==
  /\ Running(i) /\ handler[i][s] = "close"
  /\ process' = [process EXCEPT ![i] = IF @ = "up" THEN "closing" ELSE @]
  /\ handler' = [handler EXCEPT ![i][s] = "dispose"]
  /\ UNCHANGED <<shuttingDown, balancer, requests, sweeping, history>>

\* quit() rejects, because Redis fails or the client has quit before, and with it
\* app.close(), in an async function nobody awaits.
CloseRejects(i, s) ==
  /\ Running(i) /\ handler[i][s] = "close"
  /\ Rejects(i)

\* app.close() goes on: the HTTP server takes no more connections.
Dispose(i, s) ==
  /\ Running(i) /\ handler[i][s] = "dispose"
  /\ process' = [process EXCEPT ![i] = "closed"]
  /\ handler' = [handler EXCEPT ![i][s] = "exit"]
  /\ UNCHANGED <<shuttingDown, balancer, requests, sweeping, history>>

\* Mutation of Exit: app.close() is not awaited.
ExitAtOnce(i, s) ==
  /\ Running(i) /\ handler[i][s] = "exit"
  /\ Dies(i)
  /\ UNCHANGED <<shuttingDown, handler, balancer, signals, hurried, rejected, refused>>

\* Mutation of Exit: process.exit(0) is left out, and an open socket keeps the
\* process.
ExitForgets(i, s) ==
  /\ Running(i) /\ handler[i][s] = "exit" /\ requests[i] = 0 /\ probe[i] = "none"
  /\ UNCHANGED vars

\* The requests in progress are answered, app.close() returns, process.exit(0).
Exit(i, s) ==
  /\ Running(i) /\ handler[i][s] = "exit" /\ requests[i] = 0 /\ probe[i] = "none"
  /\ process' = [process EXCEPT ![i] = "gone"]
  /\ sweeping' = sweeping \ {i}
  /\ UNCHANGED <<shuttingDown, handler, balancer, requests, history>>

\* Mutation of ProbeStart: the lifecycle check is left out.
ProbeStartBlind(i) ==
  /\ probe[i] = "none"
  /\ IF Listening(i)
     THEN probe' = [probe EXCEPT ![i] = "ready"] /\ UNCHANGED routed
     ELSE routed' = routed \ {i} /\ UNCHANGED probe
  /\ UNCHANGED <<process, shuttingDown, handler, requests, sweeping, history>>

\* GET /health/ready reaches i: the lifecycle flag is read at once, the pings of
\* Postgres and Redis begin.  Where nobody listens, the probe fails.
ProbeStart(i) ==
  /\ probe[i] = "none"
  /\ IF Listening(i)
     THEN /\ probe' = [probe EXCEPT ![i] = IF shuttingDown[i] THEN "draining" ELSE "ready"]
          /\ UNCHANGED routed
     ELSE routed' = routed \ {i} /\ UNCHANGED probe
  /\ UNCHANGED <<process, shuttingDown, handler, requests, sweeping, history>>

\* The probe's answer, when its checks have settled.
Settle(i, up) ==
  /\ probe[i] # "none" /\ Running(i)
  /\ routed' = IF up /\ probe[i] = "ready" THEN routed \cup {i} ELSE routed \ {i}
  /\ probe' = [probe EXCEPT ![i] = "none"]
  /\ UNCHANGED <<process, shuttingDown, handler, requests, sweeping, history>>

\* Postgres and Redis answer, or one of them refuses.
PingAnswers(i) == process[i] = "up" /\ \E up \in BOOLEAN : Settle(i, up)

\* Mutation of PingTimesOut: a ping waits for the reconnection.
PingTimesOutNever(i) == FALSE /\ Settle(i, FALSE)

\* Redis does not answer, and the two seconds of withTimeout() are over; or it
\* has been quit, and rejects.
PingTimesOut(i) == Settle(i, FALSE)

\* The connection of a probe ends with its process.
ProbeCut(i) ==
  /\ probe[i] # "none" /\ ~Running(i)
  /\ probe' = [probe EXCEPT ![i] = "none"] /\ routed' = routed \ {i}
  /\ UNCHANGED <<process, shuttingDown, handler, requests, sweeping, history>>

\* The load balancer sends a request to an instance it takes for ready.
Arrive(i) ==
  /\ i \in routed /\ requests[i] < MaxRequests
  /\ requests' = [requests EXCEPT ![i] = IF Listening(i) THEN @ + 1 ELSE @]
  /\ refused' = IF process[i] = "up" THEN refused ELSE refused \cup {i}
  /\ UNCHANGED <<process, shuttingDown, handler, balancer, sweeping, signals, hurried, rejected, lost>>

Answer(i) ==
  /\ requests[i] > 0
  /\ requests' = [requests EXCEPT ![i] = @ - 1]
  /\ UNCHANGED <<process, shuttingDown, handler, balancer, sweeping, history>>

\* A message on INVALIDATE_JOBS_CACHE starts a sweep, which nobody awaits.  The
\* destroy hooks end the subscription, before or after they quit Redis.
SweepStart(i) ==
  /\ Listening(i)
  /\ sweeping' = sweeping \cup {i}
  /\ UNCHANGED <<process, shuttingDown, handler, balancer, requests, history>>

\* Its last SCAN and DEL are answered.
SweepEnds(i) ==
  /\ process[i] = "up" /\ i \in sweeping
  /\ sweeping' = sweeping \ {i}
  /\ UNCHANGED <<process, shuttingDown, handler, balancer, requests, history>>

\* A SCAN or DEL fails: Redis does, or it has been quit.
SweepRejects(i) ==
  /\ i \in sweeping
  /\ Rejects(i)

\* Another process takes the place of one that is gone.
Restart(i) ==
  /\ ~Running(i) /\ probe[i] = "none"
  /\ process' = [process EXCEPT ![i] = "up"]
  /\ shuttingDown' = [shuttingDown EXCEPT ![i] = FALSE]
  /\ handler' = [handler EXCEPT ![i] = [s \in Signals |-> "armed"]]
  /\ hurried' = hurried \ {i} /\ rejected' = rejected \ {i}
  /\ refused' = refused \ {i} /\ lost' = lost \ {i}
  /\ UNCHANGED <<balancer, requests, sweeping, signals>>

Init ==
  /\ process = [i \in Instances |-> "up"]
  /\ shuttingDown = [i \in Instances |-> FALSE]
  /\ handler = [i \in Instances |-> [s \in Signals |-> "armed"]]
  /\ probe = [i \in Instances |-> "none"]
  /\ routed = Instances /\ requests = [i \in Instances |-> 0] /\ sweeping = {}
  /\ signals = MaxSignals
  /\ hurried = {} /\ rejected = {} /\ refused = {} /\ lost = {}

Next ==
  \E i \in Instances :
    \/ \E s \in Signals :
         \/ Signal(i, s) \/ SignalAgain(i, s) \/ GraceOver(i, s)
         \/ Close(i, s) \/ CloseRejects(i, s) \/ Dispose(i, s) \/ Exit(i, s)
    \/ ProbeStart(i) \/ PingAnswers(i) \/ PingTimesOut(i) \/ ProbeCut(i)
    \/ Arrive(i) \/ Answer(i) \/ Restart(i)
    \/ SweepStart(i) \/ SweepEnds(i) \/ SweepRejects(i)

Spec == Init /\ [][Next]_vars

\* The timer fires, app.close() goes on, requests are answered, the load
\* balancer probes.  Nobody has to send a signal or to start a process, no
\* ping has to be answered, no sweep to end.
Fairness ==
  \A i \in Instances :
    /\ \A s \in Signals :
         /\ WF_vars(GraceOver(i, s)) /\ WF_vars(Close(i, s))
         /\ WF_vars(Dispose(i, s)) /\ WF_vars(Exit(i, s))
    /\ WF_vars(ProbeStart(i)) /\ WF_vars(PingTimesOut(i)) /\ WF_vars(ProbeCut(i))
    /\ WF_vars(Answer(i))

FairSpec == Spec /\ Fairness

-----------------------------------------------------------------------------
\* The type of the state: an instance closes only from a handler, and a handler
\* that has left beginDrain() has set the flag.
TypeOK ==
  /\ process \in [Instances -> {"up", "closing", "closed", "gone"}]
  /\ shuttingDown \in [Instances -> BOOLEAN]
  /\ handler \in [Instances -> [Signals -> {"armed", "drain", "close", "dispose", "exit"}]]
  /\ probe \in [Instances -> {"none", "ready", "draining"}]
  /\ routed \subseteq Instances /\ requests \in [Instances -> 0..MaxRequests]
  /\ sweeping \subseteq Instances /\ signals \in 0..MaxSignals
  /\ hurried \subseteq Instances /\ rejected \subseteq Instances
  /\ refused \subseteq Instances /\ lost \subseteq Instances
  /\ \A i \in Instances :
       /\ (\E s \in Signals : handler[i][s] # "armed") => shuttingDown[i]
       /\ process[i] \in {"closing", "closed"} =>
            \E s \in Signals : handler[i][s] \in {"dispose", "exit"}

\* The instances whose process was cut short.
Cut == hurried \cup rejected

\* With a grace window, an instance whose app.close() has begun is sent no request
\* (readiness fails first, main.ts:13-17), unless another signal or a rejection
\* cut it short.
DrainedUnlessCut == refused \cap Graceful \subseteq Cut

\* A process that ends answers what it has accepted, whatever the window, because
\* app.close() is awaited before process.exit (main.ts:23-24), unless another
\* signal or a rejection cut it short.
AnsweredUnlessCut == lost \subseteq Cut

\* A signal ends the process: the window, the requests that keep coming and a
\* second handler cannot hold it (main.ts:20-25).
SignalEndsProcess ==
  \A i \in Instances : (Running(i) /\ shuttingDown[i]) ~> ~Running(i)

\* "Without this the probe would hang instead of failing fast": a probe is
\* answered though Redis never is.
ProbesAreAnswered == \A i \in Instances : probe[i] # "none" ~> probe[i] = "none"
=============================================================================
