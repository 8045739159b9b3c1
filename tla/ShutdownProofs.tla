---------------------------- MODULE ShutdownProofs ----------------------------
(***************************************************************************)
(* Proofs about Shutdown, for any instances, signals and requests and any  *)
(* choice of the instances that have a grace window.                       *)
(***************************************************************************)
EXTENDS Shutdown, TLAPS

\* Where the shutdown of i may stand: two handlers run only after haste; with a
\* window and without haste, app.close() begins when the load balancer has let
\* go of i and no answer under way can bring it back.
ShutdownOf(i) ==
  /\ \A s, t \in Signals : s # t /\ handler[i][s] # "armed" /\ handler[i][t] # "armed" => i \in hurried
  /\ process[i] = "gone" => i \in Cut \/ \E s \in Signals : handler[i][s] = "exit"
  /\ i \in Graceful \ hurried /\ (\E s \in Signals : handler[i][s] \in {"close", "dispose", "exit"})
       => i \notin routed /\ probe[i] # "ready"

\* The inductive invariant.
IInv == TypeOK /\ (\A i \in Instances : ShutdownOf(i)) /\ DrainedUnlessCut /\ AnsweredUnlessCut

Handlers == {"armed", "drain", "close", "dispose", "exit"}

-----------------------------------------------------------------------------
\* The handler of s in i makes its next call, c.
LEMMA HandlerChanges ==
  ASSUME TypeOK, NEW i \in Instances, NEW s \in Signals, NEW c \in Handlers,
         handler' = [handler EXCEPT ![i][s] = c]
  PROVE  /\ handler' \in [Instances -> [Signals -> Handlers]]
         /\ handler'[i][s] = c
         /\ \A j \in Instances, t \in Signals : j # i \/ t # s => handler'[j][t] = handler[j][t]
BY DEF TypeOK, Handlers

\* The first signal starts the drain; another one is haste.
LEMMA SignalIsSafe ==
  ASSUME IInv, NEW i \in Instances, NEW s \in Signals, Signal(i, s)
  PROVE  IInv'
<1> DEFINE c == IF i \in Graceful /\ ~shuttingDown[i] THEN "drain" ELSE "close"
<1>1. c \in Handlers /\ c # "armed" /\ (i \in Graceful /\ ~shuttingDown[i] => c = "drain")
  BY DEF Handlers
<1>2. /\ handler' = [handler EXCEPT ![i][s] = c]
      /\ shuttingDown' = [shuttingDown EXCEPT ![i] = TRUE]
      /\ UNCHANGED <<process, probe, routed, requests, sweeping, rejected, refused, lost>>
      /\ signals > 0 /\ signals' = signals - 1 /\ handler[i][s] = "armed" /\ process[i] # "gone"
      /\ hurried' = IF shuttingDown[i] THEN hurried \cup {i} ELSE hurried
  BY DEF Signal, Received, BeginDrain, balancer, Running
<1> HIDE DEF c
<1>3. /\ handler' \in [Instances -> [Signals -> Handlers]] /\ handler'[i][s] = c
      /\ \A j \in Instances, t \in Signals : j # i \/ t # s => handler'[j][t] = handler[j][t]
  BY <1>1, <1>2, HandlerChanges DEF IInv
<1>4. /\ shuttingDown' \in [Instances -> BOOLEAN] /\ shuttingDown'[i]
      /\ \A j \in Instances : j # i => shuttingDown'[j] = shuttingDown[j]
      /\ hurried \subseteq hurried' /\ hurried' \subseteq Instances /\ hurried' \subseteq hurried \cup {i}
      /\ signals' \in 0..MaxSignals
  BY <1>2, ShutdownAssumption DEF IInv, TypeOK
<1>5. TypeOK'
  <2>1. ASSUME NEW j \in Instances
        PROVE  /\ (\E t \in Signals : handler'[j][t] # "armed") => shuttingDown'[j]
               /\ process'[j] \in {"closing", "closed"} =>
                    \E t \in Signals : handler'[j][t] \in {"dispose", "exit"}
    BY <1>2, <1>3, <1>4 DEF IInv, TypeOK
  <2> QED BY <1>2, <1>3, <1>4, <2>1 DEF IInv, TypeOK, Handlers
<1>6. ASSUME NEW j \in Instances PROVE ShutdownOf(j)'
  <2>1. CASE j # i
    BY <1>2, <1>3, <1>4, <2>1 DEF IInv, ShutdownOf, Cut
  <2>2. CASE j = i /\ ~shuttingDown[i]
    <3>1. \A t \in Signals : handler[i][t] = "armed"
      BY <2>2 DEF IInv, TypeOK
    <3>2. \A t \in Signals : t # s => handler'[i][t] = "armed"
      BY <1>3, <3>1
    <3> QED BY <1>1, <1>2, <1>3, <2>2, <3>2 DEF ShutdownOf, Cut
  <2>3. CASE j = i /\ shuttingDown[i]
    BY <1>2, <2>3 DEF ShutdownOf, Cut
  <2> QED BY <2>1, <2>2, <2>3
<1>7. DrainedUnlessCut' /\ AnsweredUnlessCut'
  BY <1>2, <1>4 DEF IInv, DrainedUnlessCut, AnsweredUnlessCut, Cut
<1> QED BY <1>5, <1>6, <1>7 DEF IInv

\* A process that is ended was cut short.
LEMMA DyingIsSafe ==
  ASSUME IInv, NEW i \in Instances, Dies(i), i \in hurried' \cup rejected',
         hurried \subseteq hurried', hurried' \subseteq Instances,
         rejected \subseteq rejected', rejected' \subseteq Instances, signals' \in 0..MaxSignals,
         UNCHANGED <<shuttingDown, handler, probe, routed, refused>>
  PROVE  IInv'
<1>1. /\ process' = [process EXCEPT ![i] = "gone"]
      /\ lost' \subseteq lost \cup {i}
      /\ requests' = [requests EXCEPT ![i] = 0] /\ sweeping' \subseteq sweeping
  BY DEF Dies
<1>2. /\ process' \in [Instances -> {"up", "closing", "closed", "gone"}] /\ process'[i] = "gone"
      /\ \A j \in Instances : j # i => process'[j] = process[j]
      /\ requests' \in [Instances -> 0..MaxRequests]
  BY <1>1, ShutdownAssumption DEF IInv, TypeOK
<1>3. TypeOK'
  BY <1>1, <1>2 DEF IInv, TypeOK
<1>4. ASSUME NEW j \in Instances PROVE ShutdownOf(j)'
  BY <1>2 DEF IInv, ShutdownOf, Cut
<1>5. DrainedUnlessCut' /\ AnsweredUnlessCut'
  BY <1>1 DEF IInv, DrainedUnlessCut, AnsweredUnlessCut, Cut
<1> QED BY <1>3, <1>4, <1>5 DEF IInv

\* A rejection nobody handles cuts the process short.
LEMMA RejectingIsSafe ==
  ASSUME IInv, NEW i \in Instances, Rejects(i)
  PROVE  IInv'
<1>1. /\ Dies(i) /\ rejected' = rejected \cup {i}
      /\ UNCHANGED <<shuttingDown, handler, probe, routed, signals, hurried, refused>>
  BY DEF Rejects, balancer
<1>2. hurried' \subseteq Instances /\ rejected' \subseteq Instances /\ signals' \in 0..MaxSignals
  BY <1>1 DEF IInv, TypeOK
<1> QED BY <1>1, <1>2, DyingIsSafe

\* A sweep that starts or ends changes nothing else.
LEMMA SweepingIsSafe ==
  ASSUME IInv, sweeping' \subseteq Instances,
         UNCHANGED <<process, shuttingDown, handler, probe, routed, requests, history>>
  PROVE  IInv'
<1>1. TypeOK'
  BY DEF IInv, TypeOK, history
<1>2. (\A j \in Instances : ShutdownOf(j)') /\ DrainedUnlessCut' /\ AnsweredUnlessCut'
  BY DEF IInv, ShutdownOf, DrainedUnlessCut, AnsweredUnlessCut, Cut, history
<1> QED BY <1>1, <1>2 DEF IInv

\* A handler that has left beginDrain() goes on.
LEMMA GoesOn ==
  ASSUME IInv, NEW i \in Instances, NEW s \in Signals, NEW c \in {"close", "dispose", "exit"},
         handler' = [handler EXCEPT ![i][s] = c], handler[i][s] # "armed",
         UNCHANGED <<shuttingDown, probe, routed, requests, sweeping, history>>,
         NEW p \in {"up", "closing", "closed"}, process[i] # "gone",
         process' = [process EXCEPT ![i] = p],
         p \in {"closing", "closed"} =>
           c \in {"dispose", "exit"} \/ (p = process[i] /\ handler[i][s] \notin {"dispose", "exit"}),
         handler[i][s] = "drain" => i \notin routed /\ probe[i] # "ready",
         handler[i][s] # "exit"
  PROVE  IInv'
<1>1. /\ handler' \in [Instances -> [Signals -> Handlers]] /\ handler'[i][s] = c
      /\ \A j \in Instances, t \in Signals : j # i \/ t # s => handler'[j][t] = handler[j][t]
  <2>1. c \in Handlers
    BY DEF Handlers
  <2>2. TypeOK
    BY DEF IInv
  <2>3. handler \in [Instances -> [Signals -> Handlers]]
    BY <2>2 DEF TypeOK, Handlers
  <2>4. handler' = [handler EXCEPT ![i][s] = c]
    OBVIOUS
  <2> HIDE DEF Handlers
  <2> QED BY <2>1, <2>3, <2>4
<1>2. /\ process' \in [Instances -> {"up", "closing", "closed", "gone"}] /\ process'[i] = p
      /\ \A j \in Instances : j # i => process'[j] = process[j]
  BY DEF IInv, TypeOK
<1>3. TypeOK'
  <2>1. ASSUME NEW j \in Instances
        PROVE  /\ (\E t \in Signals : handler'[j][t] # "armed") => shuttingDown[j]
               /\ process'[j] \in {"closing", "closed"} =>
                    \E t \in Signals : handler'[j][t] \in {"dispose", "exit"}
    <3>1. CASE j # i
      BY <1>1, <1>2, <3>1 DEF IInv, TypeOK
    <3>2. CASE j = i
      <4>1. shuttingDown[i]
        BY DEF IInv, TypeOK
      <4>2. CASE c \in {"dispose", "exit"}
        BY <1>1, <3>2, <4>1, <4>2
      <4>3. CASE c = "close" /\ p = process[i] /\ handler[i][s] \notin {"dispose", "exit"}
        BY <1>1, <1>2, <3>2, <4>1, <4>3 DEF IInv, TypeOK
      <4>4. CASE p = "up"
        BY <1>2, <3>2, <4>1, <4>4
      <4> QED BY <4>2, <4>3, <4>4
    <3> QED BY <3>1, <3>2
  <2> QED BY <1>1, <1>2, <2>1 DEF IInv, TypeOK, Handlers, history
<1>4. ASSUME NEW j \in Instances PROVE ShutdownOf(j)'
  <2>1. CASE j # i
    BY <1>1, <1>2, <2>1 DEF IInv, ShutdownOf, Cut, history
  <2>2. CASE j = i
    <3>1. \A t \in Signals : handler'[i][t] # "armed" <=> handler[i][t] # "armed"
      BY <1>1
    <3>2. i \in Graceful \ hurried => i \notin routed /\ probe[i] # "ready"
      <4>1. handler[i][s] \in {"drain", "close", "dispose"}
        BY DEF IInv, TypeOK
      <4> QED BY <4>1 DEF IInv, ShutdownOf
    <3> QED BY <1>2, <2>2, <3>1, <3>2 DEF IInv, ShutdownOf, Cut, history
  <2> QED BY <2>1, <2>2
<1>5. DrainedUnlessCut' /\ AnsweredUnlessCut'
  BY DEF IInv, DrainedUnlessCut, AnsweredUnlessCut, Cut, history
<1> QED BY <1>3, <1>4, <1>5 DEF IInv

\* A probe or its answer: an instance that drains is never taken for ready again.
LEMMA ProbingIsSafe ==
  ASSUME IInv, NEW i \in Instances, NEW a \in {"none", "ready", "draining"},
         probe' = [probe EXCEPT ![i] = a],
         UNCHANGED <<process, shuttingDown, handler, requests, sweeping, history>>,
         a = "ready" => ~shuttingDown[i],
         routed' \in {routed, routed \cup {i}, routed \ {i}},
         routed' = routed \cup {i} => i \in routed \/ probe[i] = "ready"
  PROVE  IInv'
<1>1. /\ probe' \in [Instances -> {"none", "ready", "draining"}] /\ probe'[i] = a
      /\ \A j \in Instances : j # i => probe'[j] = probe[j] /\ (j \in routed' <=> j \in routed)
      /\ routed' \subseteq Instances
  BY DEF IInv, TypeOK
<1>2. TypeOK'
  BY <1>1 DEF IInv, TypeOK, history
<1>3. ASSUME NEW j \in Instances PROVE ShutdownOf(j)'
  <2>1. CASE j # i
    BY <1>1, <2>1 DEF IInv, ShutdownOf, Cut, history
  <2>2. CASE j = i
    <3>1. (\E s \in Signals : handler[i][s] \in {"close", "dispose", "exit"}) => shuttingDown[i]
      BY DEF IInv, TypeOK
    <3>2. i \in routed' => i \in routed \/ probe[i] = "ready"
      OBVIOUS
    <3> QED BY <1>1, <2>2, <3>1, <3>2 DEF IInv, ShutdownOf, Cut, history
  <2> QED BY <2>1, <2>2
<1>4. DrainedUnlessCut' /\ AnsweredUnlessCut'
  BY DEF IInv, DrainedUnlessCut, AnsweredUnlessCut, Cut, history
<1> QED BY <1>2, <1>3, <1>4 DEF IInv

-----------------------------------------------------------------------------
\* The invariant holds at the start.
LEMMA InitIsSafe == Init => IInv
BY ShutdownAssumption DEF Init, IInv, TypeOK, ShutdownOf, DrainedUnlessCut, AnsweredUnlessCut

\* Every step keeps the invariant.
LEMMA NextIsSafe == IInv /\ [Next]_vars => IInv'
<1> SUFFICES ASSUME IInv, [Next]_vars PROVE IInv'
  OBVIOUS
<1>1. ASSUME NEW i \in Instances, NEW s \in Signals, Signal(i, s) PROVE IInv'
  BY <1>1, SignalIsSafe
<1>2. ASSUME NEW i \in Instances, NEW s \in Signals, SignalAgain(i, s) PROVE IInv'
  <2>1. shuttingDown[i]
    BY <1>2 DEF SignalAgain, IInv, TypeOK
  <2>2. /\ hurried' = hurried \cup {i} /\ signals' = signals - 1 /\ signals > 0
        /\ Dies(i) /\ UNCHANGED <<shuttingDown, handler, probe, routed, rejected, refused>>
    BY <1>2, <2>1 DEF SignalAgain, Received, balancer
  <2>3. hurried' \subseteq Instances /\ rejected' \subseteq Instances /\ signals' \in 0..MaxSignals
    BY <2>2, ShutdownAssumption DEF IInv, TypeOK
  <2> QED BY <2>2, <2>3, DyingIsSafe
<1>3. ASSUME NEW i \in Instances, NEW s \in Signals, GraceOver(i, s) PROVE IInv'
  <2>1. process' = [process EXCEPT ![i] = process[i]]
        /\ process[i] \in {"up", "closing", "closed"}
    BY <1>3 DEF GraceOver, Running, IInv, TypeOK
  <2> QED BY <1>3, <2>1, GoesOn DEF GraceOver, Running, balancer
<1>4. ASSUME NEW i \in Instances, NEW s \in Signals, Close(i, s) PROVE IInv'
  <2>1. PICK p \in {"up", "closing", "closed"} : process' = [process EXCEPT ![i] = p]
    BY <1>4 DEF Close, Running, IInv, TypeOK
  <2> QED BY <1>4, <2>1, GoesOn DEF Close, Running, balancer
<1>5. ASSUME NEW i \in Instances, NEW s \in Signals, CloseRejects(i, s) PROVE IInv'
  BY <1>5, RejectingIsSafe DEF CloseRejects
<1>6. ASSUME NEW i \in Instances, NEW s \in Signals, Dispose(i, s) PROVE IInv'
  BY <1>6, GoesOn DEF Dispose, Running, balancer
<1>7. ASSUME NEW i \in Instances, NEW s \in Signals, Exit(i, s) PROVE IInv'
  <2>1. /\ process' = [process EXCEPT ![i] = "gone"] /\ handler[i][s] = "exit"
        /\ UNCHANGED <<shuttingDown, handler, probe, routed, requests, history>>
        /\ sweeping' = sweeping \ {i}
    BY <1>7 DEF Exit, balancer
  <2>2. TypeOK'
    BY <2>1 DEF IInv, TypeOK, history
  <2>3. ASSUME NEW j \in Instances PROVE ShutdownOf(j)'
    BY <2>1 DEF IInv, TypeOK, ShutdownOf, Cut, history
  <2>4. DrainedUnlessCut' /\ AnsweredUnlessCut'
    BY <2>1 DEF IInv, DrainedUnlessCut, AnsweredUnlessCut, Cut, history
  <2> QED BY <2>2, <2>3, <2>4 DEF IInv
<1>8. ASSUME NEW i \in Instances, ProbeStart(i) PROVE IInv'
  <2>1. PICK a \in {"none", "ready", "draining"} :
          /\ probe' = [probe EXCEPT ![i] = a] /\ (a = "ready" => ~shuttingDown[i])
          /\ routed' \in {routed, routed \ {i}}
    <3>1. CASE Listening(i)
      BY <1>8, <3>1 DEF ProbeStart
    <3>2. CASE ~Listening(i)
      <4>1. probe' = [probe EXCEPT ![i] = "none"]
        BY <1>8, <3>2 DEF ProbeStart, IInv, TypeOK
      <4> QED BY <1>8, <3>2, <4>1 DEF ProbeStart
    <3> QED BY <3>1, <3>2
  <2> QED BY <1>8, <2>1, ProbingIsSafe DEF ProbeStart
<1>9. ASSUME NEW i \in Instances, PingAnswers(i) \/ PingTimesOut(i) \/ ProbeCut(i) PROVE IInv'
  <2>1. /\ probe' = [probe EXCEPT ![i] = "none"]
        /\ UNCHANGED <<process, shuttingDown, handler, requests, sweeping, history>>
        /\ routed' = routed \ {i} \/ (routed' = routed \cup {i} /\ probe[i] = "ready")
    BY <1>9 DEF PingAnswers, PingTimesOut, ProbeCut, Settle
  <2> QED BY <2>1, ProbingIsSafe
<1>10. ASSUME NEW i \in Instances, Arrive(i) PROVE IInv'
  <2>1. /\ i \in routed /\ requests[i] < MaxRequests
        /\ requests' = [requests EXCEPT ![i] = IF Listening(i) THEN requests[i] + 1 ELSE requests[i]]
        /\ refused' = IF process[i] = "up" THEN refused ELSE refused \cup {i}
        /\ UNCHANGED <<process, shuttingDown, handler, probe, routed, sweeping, signals, hurried,
                       rejected, lost>>
    BY <1>10 DEF Arrive, balancer
  <2>2. requests' \in [Instances -> 0..MaxRequests]
    BY <2>1, ShutdownAssumption DEF IInv, TypeOK
  <2>3. TypeOK'
    BY <2>1, <2>2 DEF IInv, TypeOK
  <2>4. ASSUME NEW j \in Instances PROVE ShutdownOf(j)'
    BY <2>1 DEF IInv, ShutdownOf, Cut
  <2>5. process[i] # "up" => i \in Cut \/ i \notin Graceful
    <3>1. process[i] # "up" => i \in Cut \/ \E s \in Signals : handler[i][s] \in {"dispose", "exit"}
      BY DEF IInv, TypeOK, ShutdownOf
    <3> QED BY <2>1, <3>1 DEF IInv, ShutdownOf, Cut
  <2>6. DrainedUnlessCut' /\ AnsweredUnlessCut'
    BY <2>1, <2>5 DEF IInv, DrainedUnlessCut, AnsweredUnlessCut, Cut
  <2> QED BY <2>3, <2>4, <2>6 DEF IInv
<1>11. ASSUME NEW i \in Instances, Answer(i) PROVE IInv'
  <2>1. /\ requests[i] > 0 /\ requests' = [requests EXCEPT ![i] = requests[i] - 1]
        /\ UNCHANGED <<process, shuttingDown, handler, probe, routed, sweeping, history>>
    BY <1>11 DEF Answer, balancer
  <2>2. requests' \in [Instances -> 0..MaxRequests]
    BY <2>1, ShutdownAssumption DEF IInv, TypeOK
  <2>3. TypeOK'
    BY <2>1, <2>2 DEF IInv, TypeOK, history
  <2>4. (\A j \in Instances : ShutdownOf(j)') /\ DrainedUnlessCut' /\ AnsweredUnlessCut'
    BY <2>1 DEF IInv, ShutdownOf, DrainedUnlessCut, AnsweredUnlessCut, Cut, history
  <2> QED BY <2>3, <2>4 DEF IInv
<1>12. ASSUME NEW i \in Instances, Restart(i) PROVE IInv'
  <2>1. /\ process' = [process EXCEPT ![i] = "up"]
        /\ shuttingDown' = [shuttingDown EXCEPT ![i] = FALSE]
        /\ handler' = [handler EXCEPT ![i] = [s \in Signals |-> "armed"]]
        /\ hurried' = hurried \ {i} /\ rejected' = rejected \ {i}
        /\ refused' = refused \ {i} /\ lost' = lost \ {i}
        /\ UNCHANGED <<probe, routed, requests, sweeping, signals>>
    BY <1>12 DEF Restart, balancer
  <2>2. TypeOK'
    BY <2>1 DEF IInv, TypeOK
  <2>3. ASSUME NEW j \in Instances PROVE ShutdownOf(j)'
    BY <2>1 DEF IInv, TypeOK, ShutdownOf, Cut, history
  <2>4. DrainedUnlessCut' /\ AnsweredUnlessCut'
    BY <2>1 DEF IInv, DrainedUnlessCut, AnsweredUnlessCut, Cut, history
  <2> QED BY <2>2, <2>3, <2>4 DEF IInv
<1>13. ASSUME NEW i \in Instances, SweepStart(i) \/ SweepEnds(i) PROVE IInv'
  <2>1. sweeping' \in {sweeping \cup {i}, sweeping \ {i}}
        /\ UNCHANGED <<process, shuttingDown, handler, probe, routed, requests, history>>
    BY <1>13 DEF SweepStart, SweepEnds, balancer
  <2>2. sweeping' \subseteq Instances
    BY <2>1 DEF IInv, TypeOK
  <2> QED BY <2>1, <2>2, SweepingIsSafe
<1>14. ASSUME NEW i \in Instances, SweepRejects(i) PROVE IInv'
  BY <1>14, RejectingIsSafe DEF SweepRejects
<1>15. CASE UNCHANGED vars
  BY <1>15 DEF vars, balancer, history, IInv, TypeOK, ShutdownOf, DrainedUnlessCut, AnsweredUnlessCut,
       Cut
<1> QED BY <1>1, <1>2, <1>3, <1>4, <1>5, <1>6, <1>7, <1>8, <1>9, <1>10, <1>11, <1>12, <1>13, <1>14,
           <1>15 DEF Next

\* The inductive invariant of the shutdown holds in every state.
THEOREM Safety == Spec => []IInv
<1> QED BY InitIsSafe, NextIsSafe, PTL DEF Spec

\* The state keeps its type; an instance closes only from a handler.
THEOREM TypeCorrect == Spec => []TypeOK
BY Safety, PTL DEF IInv

\* With a grace window, requests stop before app.close() begins, unless another
\* signal or a rejection cut the shutdown short.
THEOREM DrainComesFirst == Spec => []DrainedUnlessCut
BY Safety, PTL DEF IInv

\* Accepted requests are answered before the process ends, with a window or
\* without, unless another signal or a rejection nobody handles cut it short.
THEOREM AcceptedAreAnswered == Spec => []AnsweredUnlessCut
BY Safety, PTL DEF IInv
=============================================================================
