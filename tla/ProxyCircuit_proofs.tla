-------------------------- MODULE ProxyCircuit_proofs --------------------------
(***************************************************************************)
(* Proofs about the proxy circuit for any finite number of requests in     *)
(* progress, any threshold and any window: it opens only at the threshold, *)
(* nobody is told that it is open when it is not, and an outage lasts at   *)
(* most one window per request.                                            *)
(***************************************************************************)
EXTENDS ProxyCircuit, FiniteSetTheorems, TLAPS

Idle == {r \in Requests : pc[r] = "idle"}

(* Every failure counted during an outage has made its request idle, and   *)
(* no request leaves idle while the circuit is open: so an outage is paid  *)
(* for, one window each, by requests that are idle now.                    *)
OutagePaidFor ==
    /\ open_for = 0 => outage = 0
    /\ open_for > 0 => outage + open_for <= OpenSeconds * Cardinality(Idle)

IInv == TypeOK /\ OpenOnlyAtThreshold /\ OutagePaidFor

LEMMA InitIInv == Init => IInv
BY CircuitAssumption DEF Init, IInv, TypeOK, Places, Results, Replies, OpenOnlyAtThreshold, OutagePaidFor

(* Multiplication by a window is monotone, and one more request is worth   *)
(* one more window.                                                        *)
LEMMA Windows ==
    ASSUME NEW k \in Nat, NEW m \in Nat, NEW n \in Nat
    PROVE  /\ k * n \in Nat
           /\ k * (n + 1) = k * n + k
           /\ m <= n => k * m <= k * n
<1>1. k * n \in Nat /\ k * (n + 1) = k * n + k
  OBVIOUS
<1>2. ASSUME m <= n PROVE k * m <= k * n
  <2>1. PICK d \in Nat : n = m + d
    <3>1. n - m \in Nat /\ n = m + (n - m)
      BY <1>2
    <3> QED BY <3>1
  <2>2. k * n = k * m + k * d /\ k * d >= 0
    BY <2>1
  <2> QED BY <2>2
<1> QED BY <1>1, <1>2

LEMMA IdleFinite ==
    /\ IsFiniteSet(Idle)
    /\ Cardinality(Idle) \in Nat
    /\ Cardinality(Idle) <= Cardinality(Requests)
    /\ Cardinality(Requests) \in Nat
BY CircuitAssumption, FS_Subset, FS_CardinalityType DEF Idle

(* A request that becomes idle adds one to the idle ones.                  *)
LEMMA OneMoreIdle ==
    ASSUME TypeOK, NEW r \in Requests, pc[r] # "idle", pc' = [pc EXCEPT ![r] = "idle"]
    PROVE  Cardinality(Idle') = Cardinality(Idle) + 1
<1>1. Idle' = Idle \cup {r} /\ r \notin Idle
  BY DEF Idle, TypeOK
<1> QED BY <1>1, IdleFinite, FS_AddElement

(* Counting a failure keeps the account: the failing request pays.         *)
LEMMA FailureKeepsIInv ==
    ASSUME IInv, NEW r \in Requests, pc[r] # "idle", pc' = [pc EXCEPT ![r] = "idle"],
           RecordFailure, UNCHANGED upstream, reply' \in [Requests -> Replies]
    PROVE  IInv'
<1> USE CircuitAssumption DEF IInv, RecordFailure, Opens
<1>1. TypeOK'
  <2>1. failure_count' \in 0 .. MaxFailures /\ open_for' \in 0 .. OpenSeconds
    BY DEF TypeOK
  <2>2. pc' \in [Requests -> Places]
    BY DEF TypeOK, Places
  <2> QED BY <2>1, <2>2 DEF TypeOK
<1>2. OpenOnlyAtThreshold'
  BY DEF OpenOnlyAtThreshold, TypeOK
<1>3. OutagePaidFor'
  <2> DEFINE n == Cardinality(Idle)
  <2> HIDE DEF n
  <2>1. n \in Nat /\ Cardinality(Idle') = n + 1
    BY OneMoreIdle, IdleFinite DEF n
  <2>2. OpenSeconds * (n + 1) = OpenSeconds * n + OpenSeconds /\ OpenSeconds * n \in Nat
    BY <2>1, Windows
  <2>3. CASE Opens
    <3>1. open_for' = OpenSeconds /\ outage' = outage
      BY <2>3
    <3>2. outage <= OpenSeconds * n
      BY <2>2 DEF OutagePaidFor, TypeOK, n
    <3> QED BY <2>1, <2>2, <3>1, <3>2 DEF OutagePaidFor, TypeOK
  <2>4. CASE ~ Opens
    <3>1. open_for' = 0 /\ open_for = 0 /\ outage' = 0
      BY <2>4 DEF OpenOnlyAtThreshold, TypeOK, OutagePaidFor
    <3> QED BY <3>1 DEF OutagePaidFor
  <2> QED BY <2>3, <2>4
<1> QED BY <1>1, <1>2, <1>3

(* A step that leaves the circuit alone and makes no request busy while it *)
(* is open keeps the account.                                              *)
LEMMA QuietStepKeepsIInv ==
    ASSUME IInv, TypeOK', UNCHANGED circuit, open_for = 0 \/ Idle \subseteq Idle'
    PROVE  IInv'
<1> USE CircuitAssumption DEF IInv, circuit
<1>1. OpenOnlyAtThreshold'
  BY DEF OpenOnlyAtThreshold
<1>2. OutagePaidFor'
  <2>1. CASE open_for = 0
    BY <2>1 DEF OutagePaidFor
  <2>2. CASE Idle \subseteq Idle'
    <3>1. IsFiniteSet(Idle') /\ Cardinality(Idle') \in Nat
      BY CircuitAssumption, FS_Subset, FS_CardinalityType DEF Idle
    <3>2. Cardinality(Idle) <= Cardinality(Idle') /\ Cardinality(Idle) \in Nat
      BY <2>2, <3>1, IdleFinite, FS_Subset
    <3>3. /\ OpenSeconds * Cardinality(Idle) <= OpenSeconds * Cardinality(Idle')
          /\ OpenSeconds * Cardinality(Idle) \in Nat /\ OpenSeconds * Cardinality(Idle') \in Nat
      BY <3>1, <3>2, Windows
    <3> QED BY <3>3 DEF OutagePaidFor, TypeOK
  <2> QED BY <2>1, <2>2
<1> QED BY <1>1, <1>2

LEMMA NextKeepsIInv == IInv /\ [Next]_vars => IInv'
<1> SUFFICES ASSUME IInv, [Next]_vars PROVE IInv'
  OBVIOUS
<1> USE DEF Move, Respond
<1>1. ASSUME NEW r \in Requests, Reject(r) PROVE IInv'
  <2>1. TypeOK' /\ Idle' = Idle /\ UNCHANGED circuit
    BY <1>1 DEF Reject, IInv, TypeOK, Replies, Idle, circuit
  <2> QED BY <2>1, QuietStepKeepsIInv
<1>2. ASSUME NEW r \in Requests, Admit(r) PROVE IInv'
  <2>1. TypeOK' /\ open_for = 0 /\ UNCHANGED circuit
    BY <1>2 DEF Admit, IInv, TypeOK, Places, circuit
  <2> QED BY <2>1, QuietStepKeepsIInv
<1>3. ASSUME NEW r \in Requests, Proceed(r) \/ Settle(r) PROVE IInv'
  <2>1. TypeOK' /\ Idle \subseteq Idle' /\ UNCHANGED circuit
    BY <1>3 DEF Proceed, Send, Disconnect, Settle, IInv, TypeOK, Places, Results, Idle, circuit
  <2> QED BY <2>1, QuietStepKeepsIInv
<1>4. ASSUME NEW r \in Requests, ReceiveOk(r) PROVE IInv'
  BY <1>4, CircuitAssumption
  DEF ReceiveOk, Reset, IInv, TypeOK, Places, Replies, OpenOnlyAtThreshold, OutagePaidFor
<1>5. ASSUME NEW r \in Requests, ReceiveServerError(r) \/ CatchException(r) PROVE IInv'
  <2>1. /\ pc[r] # "idle" /\ pc' = [pc EXCEPT ![r] = "idle"]
        /\ RecordFailure /\ UNCHANGED upstream /\ reply' \in [Requests -> Replies]
    BY <1>5 DEF ReceiveServerError, CatchException, IInv, TypeOK, Replies
  <2> QED BY <2>1, FailureKeepsIInv
<1>6. CASE UpstreamChanges \/ UNCHANGED vars
  <2>1. TypeOK' /\ Idle' = Idle /\ UNCHANGED circuit
    BY <1>6 DEF UpstreamChanges, vars, IInv, TypeOK, Idle, circuit
  <2> QED BY <2>1, QuietStepKeepsIInv
<1>7. CASE Tick
  <2>1. TypeOK' /\ OpenOnlyAtThreshold'
    BY <1>7, CircuitAssumption DEF Tick, IInv, TypeOK, OpenOnlyAtThreshold
  <2>2. Cardinality(Idle') = Cardinality(Idle)
    BY <1>7 DEF Tick, Idle
  <2>3. OutagePaidFor'
    <3> DEFINE bound == OpenSeconds * Cardinality(Idle)
    <3>1. bound' = bound /\ bound \in Nat
      BY <2>2, IdleFinite, Windows, CircuitAssumption
    <3>2. outage + open_for <= bound
      BY <1>7 DEF Tick, IInv, OutagePaidFor
    <3> HIDE DEF bound
    <3>3. open_for' > 0 => outage' + open_for' <= bound
      <4> SUFFICES ASSUME open_for' > 0 PROVE outage' + open_for' <= bound
        OBVIOUS
      <4>1. /\ outage \in Nat /\ open_for \in Nat /\ bound \in Nat
            /\ open_for' = open_for - 1 /\ open_for # 1
        BY <1>7, <3>1, CircuitAssumption DEF Tick, IInv, TypeOK
      <4>2. outage' = outage + 1 \/ outage' = outage
        BY <1>7, <4>1 DEF Tick
      <4>3. CASE outage' = outage + 1
        BY <3>2, <4>1, <4>3
      <4>4. CASE outage' = outage
        BY <3>2, <4>1, <4>4
      <4> QED BY <4>2, <4>3, <4>4
    <3>4. open_for' = 0 => outage' = 0
      BY <1>7 DEF Tick, IInv, TypeOK
    <3> QED BY <3>1, <3>3, <3>4 DEF OutagePaidFor, bound
  <2> QED BY <2>1, <2>3 DEF IInv
<1> QED BY <1>1, <1>2, <1>3, <1>4, <1>5, <1>6, <1>7 DEF Next, Proceed, Receive

(* The account holds in every reachable state.                             *)
THEOREM Invariance == Spec => []IInv
<1>1. Init => IInv
  BY InitIInv
<1>2. IInv /\ [Next]_vars => IInv'
  BY NextKeepsIInv
<1> QED BY <1>1, <1>2, PTL DEF Spec

(* The circuit's counters and the handlers' places stay within their       *)
(* ranges; in particular it never stays open longer than one window from   *)
(* now.                                                                    *)
THEOREM TypeCorrect == Spec => []TypeOK
<1>1. IInv => TypeOK
  BY DEF IInv
<1> QED BY <1>1, Invariance, PTL

(* An open circuit has counted the threshold number of failures since the  *)
(* last success it was told of.                                            *)
THEOREM OpensOnlyAtThreshold == Spec => []OpenOnlyAtThreshold
<1>1. IInv => OpenOnlyAtThreshold
  BY DEF IInv
<1> QED BY <1>1, Invariance, PTL

(* An outage lasts at most one window per request that can be in progress. *)
THEOREM OutageIsBounded == Spec => []OutageBounded
<1>1. IInv => OutageBounded
  <2> SUFFICES ASSUME IInv PROVE OutageBounded
    OBVIOUS
  <2>1. /\ OpenSeconds * Cardinality(Idle) <= OpenSeconds * Cardinality(Requests)
        /\ OpenSeconds * Cardinality(Idle) \in Nat
        /\ OpenSeconds * Cardinality(Requests) \in Nat
    BY IdleFinite, Windows, CircuitAssumption
  <2> QED BY <2>1 DEF IInv, TypeOK, OutagePaidFor, OutageBounded
<1> QED BY <1>1, Invariance, PTL

(* A client that is told that the circuit is open is told the truth.       *)
THEOREM ToldTheTruth == Spec => ToldOpenWhenOpen
<1>1. IInv /\ [Next]_vars =>
        [\A r \in Requests :
            reply'[r] = "circuit_open" /\ reply'[r] # reply[r]
               => open_for' > 0 /\ failure_count' >= Threshold]_vars
  <2> SUFFICES ASSUME IInv, [Next]_vars, NEW r \in Requests,
                      reply'[r] = "circuit_open", reply'[r] # reply[r]
               PROVE  open_for' > 0 /\ failure_count' >= Threshold
    OBVIOUS
  <2> USE DEF IInv, TypeOK, Respond
  <2>1. ASSUME Reject(r) PROVE open_for' > 0 /\ failure_count' >= Threshold
    BY <2>1 DEF Reject, circuit, OpenOnlyAtThreshold
  <2>2. ASSUME CatchException(r) PROVE open_for' > 0 /\ failure_count' >= Threshold
    BY <2>2, CircuitAssumption DEF CatchException, RecordFailure, Opens
  <2>3. Reject(r) \/ CatchException(r)
    BY DEF Next, vars, Reject, Admit, Disconnect, Send, Settle, Receive, ReceiveOk,
           ReceiveServerError, CatchException, UpstreamChanges, Tick
  <2> QED BY <2>1, <2>2, <2>3
<1> QED BY <1>1, Invariance, PTL DEF Spec, ToldOpenWhenOpen
===============================================================================
