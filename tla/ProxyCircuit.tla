----------------------------- MODULE ProxyCircuit -----------------------------
(***************************************************************************)
(* The circuit breaker in front of one out-of-process plugin               *)
(* (_register_proxy_route in gateway/gateway/plugin_loader.py).            *)
(*                                                                         *)
(* The proxy handlers run on one event loop: a handler runs undisturbed    *)
(* from one await to the next.  It looks at the circuit once, before it    *)
(* awaits the request's body and the upstream, and writes the circuit when *)
(* the upstream's answer is back, whatever happened to it in between.      *)
(*                                                                         *)
(* Time is counted in ticks.  open_for is circuit_open_until - now, or 0   *)
(* when that is past, so open_for > 0 is the code's circuit_open_until >   *)
(* now.  The code compares failure_count with the threshold only; the      *)
(* model's count stops at MaxFailures, at or above the threshold.          *)
(***************************************************************************)
EXTENDS Naturals, FiniteSets

CONSTANTS
    Requests,     \* the proxied requests that may be in progress together
    Threshold,    \* circuit_failure_threshold
    OpenSeconds,  \* circuit_open_seconds, in ticks
    MaxFailures,  \* where the model stops counting failures
    MaxOutage     \* where the history stops counting the ticks of an outage

(* activate_plugin_descriptors refuses other values of the two options. *)
ASSUME CircuitAssumption ==
    /\ IsFiniteSet(Requests)
    /\ Threshold \in Nat \ {0}
    /\ OpenSeconds \in Nat \ {0}
    /\ MaxFailures \in Nat /\ MaxFailures >= Threshold
    /\ MaxOutage \in Nat /\ MaxOutage > OpenSeconds * Cardinality(Requests)

VARIABLES
    failure_count,
    open_for,
    pc,        \* where each request's handler is
    reply,     \* the last response each request got
    upstream,  \* is the plugin's process answering?
    outage     \* history: ticks since the circuit was last not open

vars == <<failure_count, open_for, pc, reply, upstream, outage>>

(* idle: no handler; reading: awaiting request.body(); sent: awaiting the   *)
(* upstream; the others: the upstream's answer, not looked at yet.          *)
Results == {"ok", "server_error", "exception"}
Places  == {"idle", "reading", "sent"} \cup Results
Replies == {"none", "circuit_open", "unavailable", "upstream"}

Init ==
    /\ failure_count = 0
    /\ open_for = 0
    /\ pc = [r \in Requests |-> "idle"]
    /\ reply = [r \in Requests |-> "none"]
    /\ upstream = "up"
    /\ outage = 0

Move(r, from, to) == pc[r] = from /\ pc' = [pc EXCEPT ![r] = to]
Respond(r, what)  == reply' = [reply EXCEPT ![r] = what]

circuit == <<failure_count, open_for, outage>>

(* The first step of proxy() is Reject or Admit: reject, or go on to await  *)
(* the body.                                                                *)
Reject(r) ==
    /\ pc[r] = "idle"
    /\ open_for > 0
    /\ Respond(r, "circuit_open")
    /\ UNCHANGED <<circuit, pc, upstream>>

(* Mutant: the circuit is not consulted before a request is let in. *)
AdmitAlways(r) ==
    /\ Move(r, "idle", "reading")
    /\ UNCHANGED <<circuit, reply, upstream>>

Admit(r) ==
    /\ Move(r, "idle", "reading")
    /\ open_for = 0
    /\ UNCHANGED <<circuit, reply, upstream>>

(* The client goes away before its body is complete: request.body() raises *)
(* outside the try, the circuit is not touched.                            *)
Disconnect(r) ==
    /\ Move(r, "reading", "idle")
    /\ UNCHANGED <<circuit, reply, upstream>>

(* The body is there; client.request is called without a second look at    *)
(* the circuit.                                                            *)
Send(r) ==
    /\ Move(r, "reading", "sent")
    /\ UNCHANGED <<circuit, reply, upstream>>

(* External: the plugin's process, or the loss of it, settles the call.    *)
Settle(r) ==
    /\ \E result \in Results :
          /\ (result = "ok") = (upstream = "up")
          /\ Move(r, "sent", result)
    /\ UNCHANGED <<circuit, reply, upstream>>

(* Mutant: one failure too early. *)
OpensEarly == failure_count + 2 >= Threshold

(* _record_circuit_failure: count, and open at the threshold. *)
Opens == failure_count + 1 >= Threshold

(* Mutant: the threshold is reached but no window is set. *)
RecordFailureUnset ==
    /\ failure_count' = IF failure_count < MaxFailures THEN failure_count + 1 ELSE failure_count
    /\ UNCHANGED <<open_for, outage>>

RecordFailure ==
    /\ failure_count' = IF failure_count < MaxFailures THEN failure_count + 1 ELSE failure_count
    /\ open_for' = IF Opens THEN OpenSeconds ELSE open_for
    /\ UNCHANGED outage

(* Mutant: a success closes the circuit but the count is kept. *)
ResetWindowOnly ==
    /\ open_for' = 0
    /\ outage' = 0
    /\ UNCHANGED failure_count

(* _reset_circuit *)
Reset ==
    /\ failure_count' = 0
    /\ open_for' = 0
    /\ outage' = 0

ReceiveOk(r) ==
    /\ Move(r, "ok", "idle")
    /\ Reset
    /\ Respond(r, "upstream")
    /\ UNCHANGED upstream

(* A response with status >= 500 is recorded and passed on as it is. *)
ReceiveServerError(r) ==
    /\ Move(r, "server_error", "idle")
    /\ RecordFailure
    /\ Respond(r, "upstream")
    /\ UNCHANGED upstream

CatchException(r) ==
    /\ Move(r, "exception", "idle")
    /\ RecordFailure
    /\ Respond(r, IF Opens THEN "circuit_open" ELSE "unavailable")
    /\ UNCHANGED upstream

(* External: the plugin's process stops answering, or answers again.       *)
UpstreamChanges ==
    /\ upstream' \in {"up", "down"} \ {upstream}
    /\ UNCHANGED <<circuit, pc, reply>>

Tick ==
    /\ open_for > 0
    /\ open_for' = open_for - 1
    /\ outage' = IF open_for = 1 THEN 0
                 ELSE IF outage < MaxOutage THEN outage + 1 ELSE outage
    /\ UNCHANGED <<failure_count, pc, reply, upstream>>

Proceed(r) == Send(r) \/ Disconnect(r)
Receive(r) == ReceiveOk(r) \/ ReceiveServerError(r) \/ CatchException(r)

Next ==
    \/ \E r \in Requests :
          Reject(r) \/ Admit(r) \/ Disconnect(r) \/ Send(r) \/ Settle(r) \/ Receive(r)
    \/ UpstreamChanges
    \/ Tick

Spec == Init /\ [][Next]_vars

(* Time passes; the event loop resumes every handler whose await is over;  *)
(* the upstream call is given a timeout, so it settles.                    *)
FairSpec ==
    /\ Spec
    /\ WF_vars(Tick)
    /\ \A r \in Requests :
          WF_vars(Proceed(r)) /\ WF_vars(Settle(r)) /\ WF_vars(Receive(r))

(* Clients keep asking, and do not always go away before they have asked.  *)
Busy == \A r \in Requests : WF_vars(Admit(r)) /\ SF_vars(Send(r))

-------------------------------------------------------------------------------
TypeOK ==
    /\ failure_count \in 0 .. MaxFailures
    /\ open_for \in 0 .. OpenSeconds
    /\ pc \in [Requests -> Places]
    /\ reply \in [Requests -> Replies]
    /\ upstream \in {"up", "down"}
    /\ outage \in 0 .. MaxOutage

(* The circuit is open only after the threshold number of failures with no *)
(* success received in between, whichever requests they belong to.         *)
OpenOnlyAtThreshold == open_for > 0 => failure_count >= Threshold

(* Failures that arrive while the circuit is open extend it, but only the  *)
(* requests that were let in before it opened can: an uninterrupted outage *)
(* lasts at most one window per request that can be in progress.           *)
OutageBounded == outage + open_for <= OpenSeconds * Cardinality(Requests)

(* A client that is told that the circuit is open is told so when it is,   *)
(* also by the handler whose own failure opened it.                        *)
ToldOpenWhenOpen ==
    [][\A r \in Requests :
          reply'[r] = "circuit_open" /\ reply'[r] # reply[r]
             => open_for' > 0 /\ failure_count' >= Threshold]_vars

(* An open circuit lets traffic through again, however many failures are   *)
(* still on their way when it opens.                                       *)
OpenCircuitRecovers == open_for > 0 ~> open_for = 0

(* Once the plugin answers for good and clients keep asking, the circuit   *)
(* is eventually closed, with nothing counted, for good.                   *)
HealthyUpstreamCloses ==
    Busy /\ <>[](upstream = "up") => <>[](failure_count = 0 /\ open_for = 0)
===============================================================================
