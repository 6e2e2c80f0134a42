----------------------------- MODULE HttpServer -----------------------------
(***************************************************************************)
(* One server process (package internal/httpserver): Run serves a listener *)
(* next to work, which is the pacing loop of the simulator, and shuts both *)
(* down in order.  Requests use the work, so it must outlive them.         *)
(*                                                                         *)
(* net/http is external: Serve returns ErrServerClosed once the listener   *)
(* is closed, Shutdown waits for active requests until its deadline, Close *)
(* cuts the connections that are left.                                     *)
(***************************************************************************)
EXTENDS FiniteSets

CONSTANTS
  Requests,   \* connections that clients may open
  HasWork     \* FALSE for the display, which runs nothing beside its server

ASSUME HasWorkAssumption == HasWork \in BOOLEAN

VARIABLES
  main,           \* where Run is
  ctxDone,        \* the context of Run is cancelled
  listening,      \* the listener accepts connections
  serving,        \* the goroutine of Serve: "running", "closed" or "failed"
  work,           \* the work goroutine: "none", "running", "ended" or "failed"
  workCancelled,  \* stopWork was called
  expired,        \* ShutdownTimeout has passed since Shutdown was called
  requests,       \* request -> "none", "active", "cut" or "done"
  result          \* the failures joined so far into the result of Run

vars == <<main, ctxDone, listening, serving, work, workCancelled, expired,
          requests, result>>

Init ==
  /\ main = "select"
  /\ ctxDone = FALSE
  /\ listening = TRUE
  /\ serving = "running"
  /\ work = IF HasWork THEN "running" ELSE "none"
  /\ workCancelled = FALSE
  /\ expired = FALSE
  /\ requests = [r \in Requests |-> "none"]
  /\ result = {}

Active == {r \in Requests : requests[r] = "active"}

-----------------------------------------------------------------------------
\* The environment of Run.
CancelContext ==
  /\ ~ctxDone
  /\ ctxDone' = TRUE
  /\ UNCHANGED <<main, listening, serving, work, workCancelled, expired, requests, result>>

Accept(r) ==
  /\ listening /\ serving = "running"
  /\ requests[r] = "none"
  /\ requests' = [requests EXCEPT ![r] = "active"]
  /\ UNCHANGED <<main, ctxDone, listening, serving, work, workCancelled, expired, result>>

\* A handler ends; the handler of a cut connection also runs to its end.
Finish(r) ==
  /\ requests[r] \in {"active", "cut"}
  /\ requests' = [requests EXCEPT ![r] = "done"]
  /\ UNCHANGED <<main, ctxDone, listening, serving, work, workCancelled, expired, result>>

ServeFails ==
  /\ listening /\ serving = "running"
  /\ serving' = "failed"
  /\ listening' = FALSE
  /\ UNCHANGED <<main, ctxDone, work, workCancelled, expired, requests, result>>

ServeReturns ==
  /\ ~listening /\ serving = "running"
  /\ serving' = "closed"
  /\ UNCHANGED <<main, ctxDone, listening, work, workCancelled, expired, requests, result>>

\* Work returns when it is cancelled, or fails on its own.
WorkReturns ==
  /\ work = "running"
  /\ work' \in {"ended", "failed"}
  /\ UNCHANGED <<main, ctxDone, listening, serving, workCancelled, expired, requests, result>>

\* Mutant: shutdown without a deadline.
ExpireNever == FALSE /\ UNCHANGED vars

Expire ==
  /\ main = "draining"
  /\ ~expired
  /\ expired' = TRUE
  /\ UNCHANGED <<main, ctxDone, listening, serving, work, workCancelled, requests, result>>

-----------------------------------------------------------------------------
\* Run, one step per point where it can block.
Over(goroutine) == goroutine \in {"closed", "ended", "failed"}

\* Mutant: the work is stopped with the listener.
StopTogether ==
  /\ main = "select"
  /\ Over(serving) \/ Over(work) \/ ctxDone
  /\ main' = "draining"
  /\ listening' = FALSE
  /\ workCancelled' = TRUE
  /\ UNCHANGED <<ctxDone, serving, work, expired, requests, result>>

\* The select of Run, then http.Server.Shutdown closes the listener.
BeginShutdown ==
  /\ main = "select"
  /\ Over(serving) \/ Over(work) \/ ctxDone
  /\ main' = "draining"
  /\ listening' = FALSE
  /\ UNCHANGED <<ctxDone, serving, work, workCancelled, expired, requests, result>>

Drained ==
  /\ main = "draining"
  /\ Active = {}
  /\ main' = "wait"
  /\ UNCHANGED <<ctxDone, listening, serving, work, workCancelled, expired, requests, result>>

TimedOut ==
  /\ main = "draining"
  /\ expired
  /\ main' = "close"
  /\ result' = result \cup {"shutdown"}
  /\ UNCHANGED <<ctxDone, listening, serving, work, workCancelled, expired, requests>>

Close ==
  /\ main = "close"
  /\ requests' = [r \in Requests |-> IF r \in Active THEN "cut" ELSE requests[r]]
  /\ main' = "wait"
  /\ UNCHANGED <<ctxDone, listening, serving, work, workCancelled, expired, result>>

\* The rest of Shutdown, then stopWork.
StopWork ==
  /\ main = "wait"
  /\ Over(serving)
  /\ result' = IF serving = "failed" THEN result \cup {"serve"} ELSE result
  /\ workCancelled' = TRUE
  /\ main' = "join"
  /\ UNCHANGED <<ctxDone, listening, serving, work, expired, requests>>

\* Mutant: the result of the work is read without waiting for it.
JoinEarly ==
  /\ main = "join"
  /\ result' = IF work = "failed" THEN result \cup {"work"} ELSE result
  /\ main' = "returned"
  /\ UNCHANGED <<ctxDone, listening, serving, work, workCancelled, expired, requests>>

Join ==
  /\ main = "join"
  /\ work = "none" \/ Over(work)
  /\ result' = IF work = "failed" THEN result \cup {"work"} ELSE result
  /\ main' = "returned"
  /\ UNCHANGED <<ctxDone, listening, serving, work, workCancelled, expired, requests>>

-----------------------------------------------------------------------------
RunStep == BeginShutdown \/ Drained \/ TimedOut \/ Close \/ StopWork \/ Join

Next ==
  \/ CancelContext
  \/ \E r \in Requests : Accept(r) \/ Finish(r)
  \/ ServeFails
  \/ ServeReturns
  \/ WorkReturns
  \/ Expire
  \/ BeginShutdown
  \/ Drained
  \/ TimedOut
  \/ Close
  \/ StopWork
  \/ Join

Spec == Init /\ [][Next]_vars

\* Goroutines run, the timer fires, and cancelled work returns.  Nothing is
\* assumed of requests: a handler may never end.
Fairness ==
  /\ WF_vars(RunStep)
  /\ WF_vars(ServeReturns)
  /\ WF_vars(Expire)
  /\ WF_vars(workCancelled /\ WorkReturns)

FairSpec == Spec /\ Fairness

-----------------------------------------------------------------------------
(***************************************************************************)
(* Properties                                                              *)
(***************************************************************************)

\* Every variable keeps the type of its Go declaration.
TypeOK ==
  /\ main \in {"select", "draining", "close", "wait", "join", "returned"}
  /\ {ctxDone, listening, workCancelled, expired} \subseteq BOOLEAN
  /\ serving \in {"running", "closed", "failed"}
  /\ work \in {"none", "running", "ended", "failed"}
  /\ requests \in [Requests -> {"none", "active", "cut", "done"}]
  /\ result \subseteq {"shutdown", "serve", "work"}

\* "It then drains in-flight requests within ShutdownTimeout of real time while
\* work keeps running": a request that was not cut never meets work that Run
\* has cancelled, whatever made Run stop.
WorkOutlivesRequests == workCancelled => Active = {}

\* Run returns with nothing left running and exactly the failures that happened,
\* whichever of them came first or while another was handled.
ResultComplete ==
  main = "returned" =>
    /\ serving # "running" /\ work # "running"
    /\ "serve" \in result <=> serving = "failed"
    /\ "work" \in result <=> work = "failed"
    /\ (\E r \in Requests : requests[r] = "cut") => "shutdown" \in result

\* Run returns after any of its three reasons to stop, also when a request hangs.
RunReturns == ctxDone \/ Over(serving) \/ Over(work) ~> main = "returned"
=============================================================================
