----------------------------- MODULE TokenRefresh -----------------------------
(***************************************************************************)
(* The UI's requests to the gateway and the renewal of its access token    *)
(* (frontend/src/api/client.ts), with the host that issues the tokens      *)
(* (src-tauri/src/gateway.rs) and the gateway that checks them             *)
(* (gateway/gateway/auth.py, create_app in main.py).                       *)
(*                                                                         *)
(* The requests share window.__GATEWAY__ and run interleaved: each reads   *)
(* it once, awaits the gateway's answer, and renews it when the answer     *)
(* tells that the token has expired.                                       *)
(*                                                                         *)
(* A token is represented by its ticks left; 0 is expired.  All tokens of  *)
(* the UI have the gateway's scope and a good signature.                   *)
(***************************************************************************)
EXTENDS Naturals, SequencesExt

CONSTANTS
    Requests,    \* the requests that may be in progress together
    Ttl,         \* the tokens' time to live, in ticks
    NoToken,     \* window.__GATEWAY__ is not set
    MaxElapsed   \* where the history stops counting the ticks of a request

ASSUME TokenAssumption ==
    /\ Ttl \in Nat \ {0}
    /\ NoToken \notin Nat
    /\ MaxElapsed \in Nat /\ MaxElapsed >= Ttl

VARIABLES
    managed,   \* did the host start a gateway? It stays so
    enforced,  \* does the webview hide answers without a CORS header? It stays so
    startup,   \* the token issued when the gateway was started
    window,    \* the token in window.__GATEWAY__, or NoToken
    promise,   \* configPromise
    stream,    \* is the request made by streamGatewaySse, or by request()?
    pc,        \* where each request is
    token,     \* the token it carries
    retried,   \* hasRetriedAfterRefresh
    outcome,   \* how its last call ended
    expired,   \* history: the gateway's last answer to it was auth_token_expired
    executed,  \* history: how often its call reached the route
    asked,     \* history: the route has answered it 401 auth_token_expired itself
    elapsed    \* history: the ticks since its call began

fixed   == <<managed, enforced>>
history == <<expired, executed, asked, elapsed>>
vars    == <<managed, enforced, startup, window, promise, stream, pc, token, retried, outcome, history>>

(* The answers a request may be looking at: a 401 auth_token_expired, of    *)
(* the auth layer or of the route; the route's own 2xx, other 401 or other  *)
(* error; a fetch that has rejected.                                        *)
Answers  == {"expired", "ok", "denied", "error", "rejected"}
Places   == {"idle", "resolving", "sent", "refreshing", "issued"} \cup Answers
Promises == {"none", "pending", "resolved", "rejected"}
Outcomes == {"none", "resolved", "failed"}

Init ==
    /\ managed \in BOOLEAN
    /\ enforced \in BOOLEAN
    /\ startup = Ttl
    /\ window = NoToken
    /\ promise = "none"
    /\ stream = [r \in Requests |-> FALSE]
    /\ pc = [r \in Requests |-> "idle"]
    /\ token = [r \in Requests |-> 0]
    /\ retried = [r \in Requests |-> FALSE]
    /\ outcome = [r \in Requests |-> "none"]
    /\ expired = [r \in Requests |-> FALSE]
    /\ executed = [r \in Requests |-> 0]
    /\ asked = [r \in Requests |-> FALSE]
    /\ elapsed = [r \in Requests |-> 0]

Move(r, to) == pc' = [pc EXCEPT ![r] = to]

End(r, how) ==
    /\ Move(r, "idle")
    /\ outcome' = [outcome EXCEPT ![r] = how]
    /\ token' = [token EXCEPT ![r] = 0]

-------------------------------------------------------------------------------
(* A call: resolveGatewayConfig, then fetch with the token.                 *)
Begin(r) ==
    /\ pc[r] = "idle"
    /\ \E streaming \in BOOLEAN : stream' = [stream EXCEPT ![r] = streaming]
    /\ retried' = [retried EXCEPT ![r] = FALSE]
    /\ expired' = [expired EXCEPT ![r] = FALSE]
    /\ executed' = [executed EXCEPT ![r] = 0]
    /\ asked' = [asked EXCEPT ![r] = FALSE]
    /\ elapsed' = [elapsed EXCEPT ![r] = 0]
    /\ UNCHANGED <<fixed, startup, window>>

CallWithConfig(r) ==
    /\ window # NoToken
    /\ Begin(r)
    /\ Move(r, "sent")
    /\ token' = [token EXCEPT ![r] = window]
    /\ outcome' = [outcome EXCEPT ![r] = "none"]
    /\ UNCHANGED promise

(* The first request asks the host, others wait for the same answer.        *)
CallWithoutConfig(r) ==
    /\ window = NoToken /\ promise \in {"none", "pending"}
    /\ Begin(r)
    /\ Move(r, "resolving")
    /\ promise' = "pending"
    /\ outcome' = [outcome EXCEPT ![r] = "none"]
    /\ UNCHANGED token

(* A rejected configPromise is kept.                                        *)
CallAfterRejection(r) ==
    /\ window = NoToken /\ promise = "rejected"
    /\ Begin(r)
    /\ outcome' = [outcome EXCEPT ![r] = "failed"]
    /\ UNCHANGED <<promise, pc, token>>

(* get_gateway_info answers with the startup token, whatever its age.       *)
Resolve ==
    /\ promise = "pending" /\ managed
    /\ promise' = "resolved"
    /\ window' = startup
    /\ pc' = [r \in Requests |-> IF pc[r] = "resolving" THEN "sent" ELSE pc[r]]
    /\ token' = [r \in Requests |-> IF pc[r] = "resolving" THEN startup ELSE token[r]]
    /\ UNCHANGED <<fixed, stream, startup, retried, outcome, history>>

Reject ==
    /\ promise = "pending" /\ ~ managed
    /\ promise' = "rejected"
    /\ pc' = [r \in Requests |-> IF pc[r] = "resolving" THEN "idle" ELSE pc[r]]
    /\ outcome' = [r \in Requests |-> IF pc[r] = "resolving" THEN "failed" ELSE outcome[r]]
    /\ UNCHANGED <<fixed, stream, startup, window, token, retried, history>>

-------------------------------------------------------------------------------
(* The gateway.  Each add_middleware puts a layer around the ones before:   *)
(* what a layer answers itself goes through the layers outside it only.     *)
Added == <<"routes", "cors", "auth", "lazy_activation">>

Inside(a, b) == \E i, j \in 1 .. Len(Added) : Added[i] = a /\ Added[j] = b /\ i < j

(* External: the page has another origin than the gateway; the webview lets *)
(* it see only answers to which the CORS layer has added its header.        *)
Readable(layer) == enforced => Inside(layer, "cors")

(* now >= issued_at + ttl: the auth layer answers 401 auth_token_expired.   *)
Refuse(r) ==
    /\ pc[r] = "sent" /\ token[r] = 0
    /\ Move(r, IF Readable("auth") THEN "expired" ELSE "rejected")
    /\ expired' = [expired EXCEPT ![r] = TRUE]
    /\ UNCHANGED <<fixed, stream, startup, window, promise, token, retried, outcome, executed, asked, elapsed>>

(* Otherwise the request reaches its route, which answers what it likes: a  *)
(* plugin may answer the gateway's own 401 auth_token_expired.              *)
Execute(r) ==
    /\ pc[r] = "sent" /\ token[r] > 0
    /\ \E answer \in {"ok", "denied", "error", "expired"} :
          /\ Move(r, answer)
          /\ asked' = [asked EXCEPT ![r] = @ \/ answer = "expired"]
    /\ executed' = [executed EXCEPT ![r] = @ + 1]
    /\ expired' = [expired EXCEPT ![r] = FALSE]
    /\ UNCHANGED <<fixed, stream, startup, window, promise, token, retried, outcome, elapsed>>

(* The connection fails, before the route has run or after.  A 503 of the   *)
(* lazy-activation layer is no different to the UI.                         *)
Lose(r) ==
    /\ pc[r] = "sent"
    /\ Move(r, "rejected")
    /\ \E times \in {0, 1} :
          /\ times = 1 => token[r] > 0
          /\ executed' = [executed EXCEPT ![r] = @ + times]
    /\ expired' = [expired EXCEPT ![r] = FALSE]
    /\ UNCHANGED <<fixed, stream, startup, window, promise, token, retried, outcome, asked, elapsed>>

-------------------------------------------------------------------------------
(* Mutant: the error code of a 401 is not looked at. *)
RenewableAny401(r) == pc[r] \in {"expired", "denied"} /\ ~ retried[r] /\ ~ stream[r]

(* The answer.  Only a 401 auth_token_expired, to request(), and only once, *)
(* makes the UI ask for another token.  It cannot tell who answered so.     *)
Renewable(r) == pc[r] = "expired" /\ ~ retried[r] /\ ~ stream[r]

Succeed(r) ==
    /\ pc[r] = "ok"
    /\ End(r, "resolved")
    /\ UNCHANGED <<fixed, stream, startup, window, promise, retried, history>>

Fail(r) ==
    /\ pc[r] \in {"expired", "denied", "error", "rejected"} /\ ~ Renewable(r)
    /\ End(r, "failed")
    /\ UNCHANGED <<fixed, stream, startup, window, promise, retried, history>>

Renew(r) ==
    /\ Renewable(r)
    /\ Move(r, "refreshing")
    /\ UNCHANGED <<fixed, stream, startup, window, promise, token, retried, outcome, history>>

(* Mutant: the host hands out the token it has. *)
IssueStartup(r) ==
    /\ pc[r] = "refreshing"
    /\ Move(r, "issued")
    /\ token' = [token EXCEPT ![r] = startup]
    /\ UNCHANGED <<fixed, stream, startup, window, promise, retried, outcome, history>>

(* refresh_gateway_auth_token: every call of it issues a token of its own.  *)
Issue(r) ==
    /\ pc[r] = "refreshing"
    /\ Move(r, "issued")
    /\ token' = [token EXCEPT ![r] = Ttl]
    /\ UNCHANGED <<fixed, stream, startup, window, promise, retried, outcome, history>>

(* Mutant: the retry is not marked as one. *)
RetryUnmarked(r) ==
    /\ pc[r] = "issued"
    /\ Move(r, "sent")
    /\ window' = token[r]
    /\ promise' = "resolved"
    /\ UNCHANGED <<fixed, stream, startup, token, retried, outcome, history>>

(* The new token is there: share it, also if another request has shared a   *)
(* younger one since, and send the request again with it.                   *)
Retry(r) ==
    /\ pc[r] = "issued"
    /\ Move(r, "sent")
    /\ window' = token[r]
    /\ promise' = "resolved"
    /\ retried' = [retried EXCEPT ![r] = TRUE]
    /\ UNCHANGED <<fixed, stream, startup, token, outcome, history>>

-------------------------------------------------------------------------------
Older(n) == IF n > 0 THEN n - 1 ELSE 0

Tick ==
    /\ startup' = Older(startup)
    /\ window' = IF window = NoToken THEN NoToken ELSE Older(window)
    /\ token' = [r \in Requests |-> Older(token[r])]
    /\ elapsed' = [r \in Requests |->
                     IF pc[r] # "idle" /\ elapsed[r] < MaxElapsed THEN elapsed[r] + 1 ELSE elapsed[r]]
    /\ UNCHANGED <<fixed, stream, promise, pc, retried, outcome, expired, executed, asked>>

Call(r)    == CallWithConfig(r) \/ CallWithoutConfig(r) \/ CallAfterRejection(r)
Serve(r)   == Refuse(r) \/ Execute(r) \/ Lose(r)
Receive(r) == Succeed(r) \/ Fail(r) \/ Renew(r) \/ Issue(r) \/ Retry(r)

Next ==
    \/ \E r \in Requests : Call(r) \/ Serve(r) \/ Receive(r)
    \/ Resolve \/ Reject
    \/ Tick

Spec == Init /\ [][Next]_vars

(* The host and the gateway answer, or the connection fails, and the UI's   *)
(* event loop gets to every answer.                                         *)
FairSpec ==
    /\ Spec
    /\ WF_vars(Resolve \/ Reject)
    /\ \A r \in Requests : WF_vars(Serve(r)) /\ WF_vars(Receive(r))

-------------------------------------------------------------------------------
TypeOK ==
    /\ managed \in BOOLEAN
    /\ enforced \in BOOLEAN
    /\ startup \in 0 .. Ttl
    /\ window \in 0 .. Ttl \cup {NoToken}
    /\ promise \in Promises
    /\ stream \in [Requests -> BOOLEAN]
    /\ pc \in [Requests -> Places]
    /\ token \in [Requests -> 0 .. Ttl]
    /\ retried \in [Requests -> BOOLEAN]
    /\ outcome \in [Requests -> Outcomes]
    /\ expired \in [Requests -> BOOLEAN]
    /\ executed \in [Requests -> Nat]
    /\ asked \in [Requests -> BOOLEAN]
    /\ elapsed \in [Requests -> 0 .. MaxElapsed]

(* A call is executed a second time only if its route has answered it with  *)
(* the gateway's 401 auth_token_expired, and never a third time: nothing    *)
(* else a route answers, no refusal by the gateway, no lost connection and  *)
(* no other request makes a call run again.                                 *)
ExecutedAgainOnlyIfAsked ==
    \A r \in Requests : executed[r] <= 2 /\ (executed[r] = 2 => asked[r])

(* Where the webview shows the UI the refusal, a call fails because of an   *)
(* expired token only if it takes longer than a token lives, however old    *)
(* the token it began with and whatever tokens the other requests share.    *)
SurvivesExpiry ==
    \A r \in Requests :
        ~ enforced /\ ~ stream[r] /\ outcome[r] = "failed" /\ expired[r] => elapsed[r] >= Ttl

(* Every call ends, also when the token of its retry expires too.           *)
EveryCallSettles == \A r \in Requests : pc[r] # "idle" ~> pc[r] = "idle"

(* "The frontend automatically refreshes the token once when it receives    *)
(* `401` with `auth_token_expired`" (docs/en/quick-start.md:66).            *)
RefreshesOnExpiry ==
    \A r \in Requests :
        ~ stream[r] /\ outcome[r] = "failed" /\ expired[r] => retried[r]
===============================================================================
