-------------------------- MODULE HttpServerProofs --------------------------
(***************************************************************************)
(* Safety of a server's shutdown, for any set of requests.  Both proofs    *)
(* rest on the phases of Run: what is over once Run has passed a phase.    *)
(***************************************************************************)
EXTENDS HttpServer, TLAPS

\* Nothing is accepted after the select, no request is active after Shutdown,
\* and the work is cancelled last.
Phases ==
  /\ listening => main = "select"
  /\ main \in {"wait", "join", "returned"} => Active = {}
  /\ workCancelled => main \in {"join", "returned"}

PhaseInv == Phases /\ TypeOK

\* Run starts in its first phase.
LEMMA PhaseInit == Init => PhaseInv
<1> SUFFICES ASSUME Init PROVE PhaseInv
  OBVIOUS
<1>1. work \in {"none", "running"}
  BY HasWorkAssumption DEF Init
<1> QED BY <1>1 DEF Init, PhaseInv, Phases, TypeOK

\* No step opens a phase that is over.
LEMMA PhaseStep == PhaseInv /\ [Next]_vars => PhaseInv'
<1> SUFFICES ASSUME PhaseInv, [Next]_vars PROVE PhaseInv'
  OBVIOUS
<1> USE DEF PhaseInv, Phases, TypeOK, Active
<1>1. CASE CancelContext
  BY <1>1 DEF CancelContext
<1>2. ASSUME NEW r \in Requests, Accept(r) PROVE PhaseInv'
  BY <1>2 DEF Accept
<1>3. ASSUME NEW r \in Requests, Finish(r) PROVE PhaseInv'
  <2>1. \A q \in Requests : requests'[q] = "active" => requests[q] = "active"
    BY <1>3 DEF Finish
  <2> QED BY <1>3, <2>1 DEF Finish
<1>4. CASE ServeFails
  BY <1>4 DEF ServeFails
<1>14. CASE ServeReturns
  BY <1>14 DEF ServeReturns
<1>12. CASE WorkReturns
  BY <1>12 DEF WorkReturns
<1>13. CASE Expire
  BY <1>13 DEF Expire
<1>5. CASE BeginShutdown
  BY <1>5 DEF BeginShutdown
<1>6. CASE Drained
  BY <1>6 DEF Drained
<1>7. CASE TimedOut
  BY <1>7 DEF TimedOut
<1>8. CASE Close
  <2>1. \A q \in Requests : requests'[q] # "active"
    BY <1>8 DEF Close
  <2>2. requests' \in [Requests -> {"none", "active", "cut", "done"}]
    BY <1>8 DEF Close
  <2> QED BY <1>8, <2>1, <2>2 DEF Close
<1>9. CASE StopWork
  BY <1>9 DEF StopWork
<1>10. CASE Join
  BY <1>10 DEF Join
<1>11. CASE UNCHANGED vars
  BY <1>11 DEF vars
<1> QED BY <1>1, <1>2, <1>3, <1>4, <1>5, <1>6, <1>7, <1>8, <1>9, <1>10, <1>11,
           <1>12, <1>13, <1>14 DEF Next

\* For every set of requests: the work is cancelled only after the last request
\* that was not cut has been answered.
THEOREM WorkOutlives == Spec => []WorkOutlivesRequests
<1>1. PhaseInv => WorkOutlivesRequests
  BY DEF PhaseInv, Phases, WorkOutlivesRequests
<1> QED BY <1>1, PhaseInit, PhaseStep, PTL DEF Spec

-----------------------------------------------------------------------------
\* What the failures joined so far say, phase by phase.
Accounted ==
  /\ "serve" \in result <=> main \in {"join", "returned"} /\ serving = "failed"
  /\ "work" \in result <=> main = "returned" /\ work = "failed"
  /\ main \in {"join", "returned"} => serving # "running"
  /\ main = "returned" => work # "running"
  /\ main = "close" \/ (\E r \in Requests : requests[r] = "cut") => "shutdown" \in result

\* A new run has failed in nothing.
LEMMA AccountedInit == Init => Accounted
BY DEF Init, Accounted

\* Each failure is joined in the phase that observes it, and none appears later.
LEMMA AccountedStep == PhaseInv /\ Accounted /\ [Next]_vars => Accounted'
<1> SUFFICES ASSUME PhaseInv, Accounted, [Next]_vars PROVE Accounted'
  OBVIOUS
<1> USE DEF PhaseInv, Phases, TypeOK, Accounted
<1>1. CASE CancelContext \/ Expire
  BY <1>1 DEF CancelContext, Expire
<1>2. ASSUME NEW r \in Requests, Accept(r) \/ Finish(r) PROVE Accounted'
  <2>1. \A q \in Requests : requests'[q] = "cut" => requests[q] = "cut"
    BY <1>2 DEF Accept, Finish
  <2> QED BY <1>2, <2>1 DEF Accept, Finish
<1>3. CASE ServeFails \/ ServeReturns \/ WorkReturns
  BY <1>3 DEF ServeFails, ServeReturns, WorkReturns
<1>4. CASE BeginShutdown \/ Drained \/ TimedOut
  BY <1>4 DEF BeginShutdown, Drained, TimedOut
<1>5. CASE Close
  BY <1>5 DEF Close
<1>6. CASE StopWork
  BY <1>6 DEF StopWork, Over
<1>7. CASE Join
  BY <1>7 DEF Join, Over
<1>8. CASE UNCHANGED vars
  BY <1>8 DEF vars
<1> QED BY <1>1, <1>2, <1>3, <1>4, <1>5, <1>6, <1>7, <1>8 DEF Next

\* For every set of requests: when Run returns, nothing is left running and its
\* result names every failure.
THEOREM ResultCorrect == Spec => []ResultComplete
<1>1. Accounted => ResultComplete
  BY DEF Accounted, ResultComplete
<1> QED BY <1>1, PhaseInit, PhaseStep, AccountedInit, AccountedStep, PTL DEF Spec
=============================================================================
