------------------------- MODULE ProcessManager_proofs -------------------------
(***************************************************************************)
(* Proofs, for any number of processes, callers and any timeout, that      *)
(* terminate_all leaves behind it only processes that have ended or were   *)
(* killed, that no started process is forgotten, and that a call takes at  *)
(* most one timeout per process on the list.                               *)
(***************************************************************************)
EXTENDS ProcessManager, TLAPS

(* What a call has waited so far has been spent on the processes it has    *)
(* gone past and on the one it is at.                                      *)
CallOK(t) ==
    /\ index[t] <= Len(processes) + 1
    /\ loop[t] = "term" => elapsed[t] = 0
    /\ loop[t] = "wait" => elapsed[t] <= Timeout * (index[t] - 1) + (Timeout - left[t])
    /\ loop[t] = "wait" /\ ~ More(t) => left[t] = Timeout

IInv ==
    /\ PMTypeOK
    /\ NothingForgotten
    /\ PassedAreDoomed
    /\ \A t \in Callers : CallOK(t)

(* Killed processes end and ended ones stay so; a step that only does that *)
(* to the states and only lengthens the list keeps what was passed doomed. *)
LEMMA DoomedForGood ==
    ASSUME PMTypeOK, NEW c \in Children, Doomed(c),
           \/ UNCHANGED state
           \/ \E d \in Children : Popen(d) \/ Exit(d)
           \/ \E t \in Callers : Terminate(t) \/ Kill(t)
    PROVE  Doomed(c)'
<1> USE DEF PMTypeOK, Doomed, States
<1>1. CASE UNCHANGED state
  BY <1>1
<1>2. ASSUME NEW d \in Children, Popen(d) \/ Exit(d) PROVE Doomed(c)'
  BY <1>2 DEF Popen, Exit
<1>3. ASSUME NEW t \in Callers, Terminate(t) \/ Kill(t) PROVE Doomed(c)'
  BY <1>3 DEF Terminate, Kill
<1> QED BY <1>1, <1>2, <1>3

LEMMA InitIInv == PMInit => IInv
BY ProcessManagerAssumption
DEF PMInit, IInv, PMTypeOK, States, Loops, NothingForgotten, ToSet, PassedAreDoomed, CallOK,
    InCall, More

(* What the list looks like, in terms the provers use directly.            *)
LEMMA ListFacts ==
    ASSUME PMTypeOK
    PROVE  /\ Len(processes) \in Nat
           /\ DOMAIN processes = 1 .. Len(processes)
           /\ \A i \in 1 .. Len(processes) : processes[i] \in Children
           /\ \A t \in Callers : More(t) => index[t] \in 1 .. Len(processes)
                                         /\ Current(t) \in Children
BY DEF PMTypeOK, More, Current

(* Steps that change neither the list nor what is being spawned, and start *)
(* no process, forget none.                                                *)
LEMMA NothingForgottenKept ==
    ASSUME NothingForgotten, UNCHANGED <<spawning, processes>>,
           \A c \in Children : state'[c] = "unborn" <=> state[c] = "unborn"
    PROVE  NothingForgotten'
BY DEF NothingForgotten

LEMMA PopenKeepsIInv ==
    ASSUME IInv, NEW c \in Children, Popen(c) PROVE IInv'
<1> USE DEF IInv
<1>1. PMTypeOK'
  BY DEF PMTypeOK, States, Popen, callVars
<1>2. NothingForgotten'
  BY DEF NothingForgotten, Popen, PMTypeOK
<1>3. PassedAreDoomed'
  BY ListFacts, DoomedForGood DEF PassedAreDoomed, Popen, callVars
<1>4. (\A t \in Callers : CallOK(t))'
  BY DEF CallOK, InCall, More, Popen, callVars
<1> QED BY <1>1, <1>2, <1>3, <1>4

LEMMA TrackKeepsIInv ==
    ASSUME IInv, NEW c \in Children, Track(c) PROVE IInv'
<1> USE DEF IInv
<1>1. PMTypeOK'
  BY DEF PMTypeOK, Track, callVars
<1>2. /\ Len(processes') = Len(processes) + 1
      /\ \A i \in 1 .. Len(processes) : processes'[i] = processes[i]
      /\ processes'[Len(processes) + 1] = c
      /\ Len(processes) \in Nat
  BY ListFacts DEF PMTypeOK, Track
<1>3. ToSet(processes') = ToSet(processes) \cup {c}
  <2>1. DOMAIN processes' = 1 .. Len(processes) + 1 /\ DOMAIN processes = 1 .. Len(processes)
    BY <1>1, <1>2, ListFacts DEF PMTypeOK
  <2> QED BY <2>1, <1>2 DEF ToSet
<1>4. NothingForgotten'
  <2>1. c \notin ToSet(processes) /\ c \in spawning
    BY DEF NothingForgotten, Track
  <2>2. \A i \in 1 .. Len(processes) : processes[i] # c
    BY <2>1, ListFacts DEF ToSet
  <2>3. \A i, j \in 1 .. Len(processes') : processes'[i] = processes'[j] => i = j
    BY <1>2, <2>2 DEF NothingForgotten
  <2>4. spawning' = spawning \ {c} /\ state' = state
    BY DEF Track
  <2> QED BY <1>3, <2>1, <2>3, <2>4 DEF NothingForgotten
<1>5. PassedAreDoomed'
  <2>1. /\ loop' = loop /\ index' = index /\ state' = state
        /\ \A t \in Callers : index[t] \in Nat /\ index[t] <= Len(processes) + 1
    BY DEF Track, callVars, CallOK, PMTypeOK
  <2>2. ASSUME NEW t \in Callers, loop'[t] \in {"wait", "done"},
               NEW i \in 1 .. Len(processes'), i < index'[t]
        PROVE  state'[processes'[i]] \in {"killed", "exited"}
    <3>1. i \in 1 .. Len(processes) /\ i < index[t] /\ loop[t] \in {"wait", "done"}
      BY <1>2, <2>1, <2>2
    <3> QED BY <1>2, <2>1, <3>1 DEF PassedAreDoomed, Doomed
  <2> QED BY <2>2 DEF PassedAreDoomed, Doomed
<1>6. (\A t \in Callers : CallOK(t))'
  BY <1>2 DEF CallOK, InCall, More, Track, callVars, PMTypeOK
<1> QED BY <1>1, <1>4, <1>5, <1>6

LEMMA ExitKeepsIInv ==
    ASSUME IInv, NEW c \in Children, Exit(c) PROVE IInv'
<1> USE DEF IInv
<1>1. PMTypeOK'
  BY DEF PMTypeOK, States, Exit, callVars
<1>2. NothingForgotten'
  <2>1. UNCHANGED <<spawning, processes>>
        /\ \A d \in Children : state'[d] = "unborn" <=> state[d] = "unborn"
    BY DEF Exit, Live, PMTypeOK
  <2> QED BY <2>1, NothingForgottenKept
<1>3. PassedAreDoomed'
  BY ListFacts, DoomedForGood DEF PassedAreDoomed, Exit, callVars
<1>4. (\A t \in Callers : CallOK(t))'
  BY DEF CallOK, InCall, More, Exit, callVars
<1> QED BY <1>1, <1>2, <1>3, <1>4

(* The account of a wait that ends: the process it is at may have cost the *)
(* whole timeout.                                                          *)
LEMMA OneTimeoutMore ==
    ASSUME NEW k \in Nat, NEW l \in 0 .. Timeout
    PROVE  /\ Timeout * k \in Nat
           /\ Timeout * k + (Timeout - l) <= Timeout * (k + 1)
           /\ Timeout * 0 = 0
<1>1. Timeout * k \in Nat /\ Timeout * (k + 1) = Timeout * k + Timeout
  BY ProcessManagerAssumption
<1> QED BY <1>1, ProcessManagerAssumption

LEMMA MoreProcessesMoreTime ==
    ASSUME NEW m \in Nat, NEW n \in Nat, m <= n
    PROVE  Timeout * m <= Timeout * n
<1>1. PICK d \in Nat : n = m + d
  <2>1. n - m \in Nat /\ n = m + (n - m)
    OBVIOUS
  <2> QED BY <2>1
<1>2. Timeout * n = Timeout * m + Timeout * d /\ Timeout * d >= 0 /\ Timeout * m \in Nat
  BY <1>1, ProcessManagerAssumption
<1> QED BY <1>2, ProcessManagerAssumption

(* A caller at a process goes past it, in either loop, and may leave the   *)
(* process doomed: the shape of Terminate, SeeExit and Kill.               *)
LEMMA AdvanceKeepsIInv ==
    ASSUME IInv, NEW t \in Callers, InCall(t), More(t), Advance(t),
           state' \in [Children -> States],
           \A c \in Children : /\ state'[c] = "unborn" <=> state[c] = "unborn"
                               /\ Doomed(c) => Doomed(c)',
           loop[t] = "wait" => state'[Current(t)] \in {"killed", "exited"}
    PROVE  IInv'
<1> USE DEF IInv
<1> DEFINE i == index[t]
<1>1. PMTypeOK'
  BY ProcessManagerAssumption DEF PMTypeOK, Advance
<1>2. NothingForgotten'
  BY NothingForgottenKept DEF Advance
<1>3. /\ loop' = loop /\ processes' = processes
      /\ index' = [index EXCEPT ![t] = i + 1] /\ i \in 1 .. Len(processes)
      /\ index \in [Callers -> Nat \ {0}]
  BY ListFacts DEF Advance, PMTypeOK
<1>4. PassedAreDoomed'
  <2>1. ASSUME NEW u \in Callers, loop'[u] \in {"wait", "done"},
               NEW j \in 1 .. Len(processes'), j < index'[u]
        PROVE  state'[processes[j]] \in {"killed", "exited"}
    <3>1. processes[j] \in Children /\ j \in 1 .. Len(processes)
      BY <1>3, ListFacts
    <3>2. CASE j < index[u]
      <4>1. Doomed(processes[j])
        BY <1>3, <2>1, <3>1, <3>2 DEF PassedAreDoomed
      <4> QED BY <3>1, <4>1 DEF Doomed
    <3>3. CASE ~ (j < index[u])
      <4>1. u = t /\ j = i /\ loop[t] = "wait"
        BY <1>3, <2>1, <3>3 DEF InCall
      <4>2. processes[j] = Current(t)
        BY <4>1 DEF Current
      <4> QED BY <4>1, <4>2
    <3> QED BY <3>2, <3>3
  <2> QED BY <1>3, <2>1 DEF PassedAreDoomed, Doomed
<1>5. (\A u \in Callers : CallOK(u))'
  <2> SUFFICES ASSUME NEW u \in Callers PROVE CallOK(u)'
    OBVIOUS
  <2>1. CASE u # t
    BY <1>3, <2>1 DEF CallOK, InCall, More, Advance, PMTypeOK
  <2>2. CASE u = t
    <3>1. /\ index'[t] = i + 1 /\ left'[t] = Timeout /\ elapsed'[t] = elapsed[t]
          /\ i \in Nat \ {0} /\ i <= Len(processes) /\ Len(processes) \in Nat
      BY <1>3, ListFacts DEF Advance, PMTypeOK
    <3>2. loop[t] = "wait" => elapsed[t] <= Timeout * i
      <4>1. /\ i - 1 \in Nat /\ left[t] \in 0 .. Timeout /\ elapsed[t] \in Nat
        BY <3>1 DEF PMTypeOK
      <4>2. Timeout * (i - 1) + (Timeout - left[t]) <= Timeout * ((i - 1) + 1)
            /\ Timeout * (i - 1) \in Nat
        BY <4>1, OneTimeoutMore
      <4>3. (i - 1) + 1 = i
        BY <3>1
      <4>4. Timeout * i \in Nat
        BY <3>1, ProcessManagerAssumption
      <4>5. loop[t] = "wait" => elapsed[t] <= Timeout * (i - 1) + (Timeout - left[t])
        BY DEF CallOK
      <4> HIDE DEF i
      <4> QED BY <4>1, <4>2, <4>3, <4>4, <4>5, ProcessManagerAssumption
    <3>3. Timeout * i \in Nat /\ (i + 1) - 1 = i /\ Timeout - Timeout = 0 /\ Timeout * i + 0 = Timeout * i
      BY <3>1, ProcessManagerAssumption
    <3> QED BY <1>3, <2>2, <3>1, <3>2, <3>3 DEF CallOK, InCall, More
  <2> QED BY <2>1, <2>2
<1> QED BY <1>1, <1>2, <1>4, <1>5

LEMMA CallStepKeepsIInv ==
    ASSUME IInv, NEW t \in Callers, CallStep(t) PROVE IInv'
<1> USE DEF IInv
<1>0. More(t) => Current(t) \in Children
  BY ListFacts
<1>1. CASE Terminate(t)
  <2>1. \A c \in Children : /\ state'[c] = "unborn" <=> state[c] = "unborn"
                            /\ Doomed(c) => Doomed(c)'
    BY <1>1, DoomedForGood DEF Terminate, PMTypeOK
  <2>2. state' \in [Children -> States]
    BY <1>1 DEF Terminate, PMTypeOK, States
  <2> QED BY <1>1, <2>1, <2>2, AdvanceKeepsIInv DEF Terminate, InCall
<1>2. CASE SeeExit(t)
  <2>1. state[Current(t)] # "unborn"
    <3>1. Current(t) \in ToSet(processes)
      BY <1>2, ListFacts DEF SeeExit, Current, ToSet
    <3> QED BY <1>0, <1>2, <3>1 DEF SeeExit, NothingForgotten
  <2>2. state[Current(t)] = "exited"
    BY <1>0, <1>2, <2>1 DEF SeeExit, Live, PMTypeOK, States
  <2>3. /\ InCall(t) /\ More(t) /\ Advance(t) /\ state' = state
        /\ state \in [Children -> States]
    BY <1>2 DEF SeeExit, InCall, PMTypeOK
  <2>4. \A c \in Children : Doomed(c) => Doomed(c)'
    BY <2>3 DEF Doomed
  <2> QED BY <2>2, <2>3, <2>4, AdvanceKeepsIInv
<1>3. CASE Kill(t)
  <2>1. \A c \in Children : /\ state'[c] = "unborn" <=> state[c] = "unborn"
                            /\ Doomed(c) => Doomed(c)'
    BY <1>3, DoomedForGood DEF Kill, PMTypeOK, Live
  <2>2. state' \in [Children -> States] /\ state'[Current(t)] = "killed"
    BY <1>0, <1>3 DEF Kill, PMTypeOK, States
  <2> QED BY <1>3, <2>1, <2>2, AdvanceKeepsIInv DEF Kill, InCall
<1>4. CASE StartWaiting(t)
  <2>1. PMTypeOK'
    BY <1>4, ProcessManagerAssumption DEF StartWaiting, StartLoop, PMTypeOK, Loops
  <2>2. NothingForgotten'
    BY <1>4, NothingForgottenKept DEF StartWaiting
  <2>3. PassedAreDoomed'
    BY <1>4, ListFacts DEF StartWaiting, StartLoop, PassedAreDoomed, Doomed, PMTypeOK
  <2>4. (\A u \in Callers : CallOK(u))'
    <3> SUFFICES ASSUME NEW u \in Callers PROVE CallOK(u)'
      OBVIOUS
    <3>1. CASE u # t
      BY <1>4, <3>1 DEF StartWaiting, StartLoop, CallOK, InCall, More, PMTypeOK
    <3>2. CASE u = t
      <4>1. /\ loop'[t] = "wait" /\ index'[t] = 1 /\ left'[t] = Timeout /\ elapsed'[t] = 0
            /\ Len(processes') \in Nat
        BY <1>4, ListFacts DEF StartWaiting, StartLoop, CallOK, PMTypeOK
      <4>2. 0 <= Timeout * (1 - 1) + (Timeout - Timeout)
        BY ProcessManagerAssumption
      <4> QED BY <3>2, <4>1, <4>2 DEF CallOK, More
    <3> QED BY <3>1, <3>2
  <2> QED BY <2>1, <2>2, <2>3, <2>4
<1>5. CASE Finish(t)
  <2>1. PMTypeOK'
    BY <1>5 DEF Finish, PMTypeOK, Loops
  <2>2. NothingForgotten'
    BY <1>5, NothingForgottenKept DEF Finish
  <2>3. PassedAreDoomed'
    BY <1>5 DEF Finish, PassedAreDoomed, Doomed, PMTypeOK
  <2>4. (\A u \in Callers : CallOK(u))'
    BY <1>5 DEF Finish, CallOK, InCall, More, PMTypeOK
  <2> QED BY <2>1, <2>2, <2>3, <2>4
<1> QED BY <1>1, <1>2, <1>3, <1>4, <1>5 DEF CallStep

LEMMA TerminateAllKeepsIInv ==
    ASSUME IInv, NEW t \in Callers, TerminateAll(t) PROVE IInv'
<1> USE DEF IInv
<1>1. PMTypeOK'
  BY ProcessManagerAssumption DEF TerminateAll, StartLoop, PMTypeOK, Loops
<1>2. NothingForgotten'
  BY NothingForgottenKept DEF TerminateAll
<1>3. PassedAreDoomed'
  BY DEF TerminateAll, StartLoop, PassedAreDoomed, Doomed, PMTypeOK
<1>4. (\A u \in Callers : CallOK(u))'
  BY ListFacts DEF TerminateAll, StartLoop, CallOK, InCall, More, PMTypeOK
<1> QED BY <1>1, <1>2, <1>3, <1>4

LEMMA TickKeepsIInv ==
    ASSUME IInv, Tick PROVE IInv'
<1> USE DEF IInv
<1>1. PMTypeOK'
  BY ProcessManagerAssumption DEF Tick, PMTick, PMTypeOK, Waiting
<1>2. NothingForgotten'
  BY NothingForgottenKept DEF Tick, PMTick
<1>3. PassedAreDoomed'
  BY DEF Tick, PMTick, PassedAreDoomed, Doomed
<1>4. (\A u \in Callers : CallOK(u))'
  <2> SUFFICES ASSUME NEW u \in Callers PROVE CallOK(u)'
    OBVIOUS
  <2>1. UNCHANGED <<loop, index, processes>>
    BY DEF Tick, PMTick
  <2>2. CASE ~ InCall(u)
    <3>1. loop[u] \notin {"term", "wait"} /\ loop'[u] = loop[u]
      BY <2>1, <2>2 DEF InCall
    <3> QED BY <2>1, <3>1 DEF CallOK
  <2>3. CASE InCall(u)
    <3>1. Waiting(u) /\ loop[u] = "wait" /\ More(u) /\ left[u] > 0
      BY <2>3 DEF Tick, Waiting
    <3>2. left'[u] = left[u] - 1 /\ elapsed'[u] <= elapsed[u] + 1
      BY <3>1, <2>3 DEF Tick, PMTick, PMTypeOK
    <3>3. elapsed[u] <= Timeout * (index[u] - 1) + (Timeout - left[u])
      BY <3>1 DEF CallOK
    <3>4. /\ left[u] \in Nat /\ elapsed[u] \in Nat /\ elapsed'[u] \in Nat
          /\ index[u] - 1 \in Nat
      BY <1>1, ProcessManagerAssumption DEF PMTypeOK
    <3>5. Timeout * (index[u] - 1) \in Nat
      BY <3>4, ProcessManagerAssumption
    <3>6. elapsed'[u] <= Timeout * (index[u] - 1) + (Timeout - left'[u])
      BY <3>2, <3>3, <3>4, <3>5, ProcessManagerAssumption
    <3> QED BY <2>1, <3>1, <3>6 DEF CallOK, More
  <2> QED BY <2>2, <2>3
<1> QED BY <1>1, <1>2, <1>3, <1>4

LEMMA NextKeepsIInv == IInv /\ [PMNext]_pmVars => IInv'
<1>1. ASSUME IInv, UNCHANGED pmVars PROVE IInv'
  BY <1>1 DEF pmVars, IInv, PMTypeOK, NothingForgotten, PassedAreDoomed, Doomed, CallOK, InCall,
              More
<1> QED
  BY <1>1, PopenKeepsIInv, TrackKeepsIInv, ExitKeepsIInv, CallStepKeepsIInv,
     TerminateAllKeepsIInv, TickKeepsIInv
  DEF PMNext

(* The strengthened invariant holds in every reachable state, for any      *)
(* processes, callers and timeout.                                         *)
THEOREM Invariance == PMSpec => []IInv
<1>1. PMInit => IInv
  BY InitIInv
<1>2. IInv /\ [PMNext]_pmVars => IInv'
  BY NextKeepsIInv
<1> QED BY <1>1, <1>2, PTL DEF PMSpec

(* Type correctness of the process manager's state.                        *)
THEOREM TypeCorrect == PMSpec => []PMTypeOK
<1>1. IInv => PMTypeOK
  BY DEF IInv
<1> QED BY <1>1, Invariance, PTL

(* terminate_all leaves only ended or killed processes behind it, however  *)
(* many threads are in it and whatever is spawned meanwhile.               *)
THEOREM LeavesOnlyDoomed == PMSpec => []PassedAreDoomed
<1>1. IInv => PassedAreDoomed
  BY DEF IInv
<1> QED BY <1>1, Invariance, PTL

(* Every started process is on the list, once, or about to be put there.   *)
THEOREM ForgetsNothing == PMSpec => []NothingForgotten
<1>1. IInv => NothingForgotten
  BY DEF IInv
<1> QED BY <1>1, Invariance, PTL

(* A call of terminate_all takes at most one timeout per listed process.   *)
THEOREM CallIsBounded == PMSpec => []CallBounded
<1>1. IInv => CallBounded
  <2> SUFFICES ASSUME IInv, NEW t \in Callers, InCall(t)
               PROVE  elapsed[t] <= Timeout * Len(processes)
    BY DEF CallBounded
  <2> USE DEF IInv
  <2>1. /\ index[t] \in Nat \ {0} /\ Len(processes) \in Nat /\ left[t] \in 0 .. Timeout
        /\ elapsed[t] \in Nat /\ index[t] <= Len(processes) + 1 /\ index[t] - 1 \in Nat
    BY ListFacts DEF PMTypeOK, CallOK
  <2>2. Timeout * Len(processes) \in Nat /\ Timeout * (index[t] - 1) \in Nat
    BY <2>1, ProcessManagerAssumption
  <2>3. CASE loop[t] = "term"
    BY <2>1, <2>2, <2>3 DEF CallOK
  <2>4. CASE loop[t] = "wait"
    <3>1. elapsed[t] <= Timeout * (index[t] - 1) + (Timeout - left[t])
      BY <2>4 DEF CallOK
    <3>2. CASE index[t] = Len(processes) + 1
      <4>1. left[t] = Timeout
        BY <2>1, <2>4, <3>2 DEF CallOK, More
      <4>2. index[t] - 1 = Len(processes)
        BY <2>1, <3>2
      <4> QED BY <2>1, <2>2, <3>1, <4>1, <4>2, ProcessManagerAssumption
    <3>3. CASE index[t] <= Len(processes)
      <4> DEFINE k == index[t] - 1
      <4>1. k \in Nat /\ k + 1 <= Len(processes) /\ k + 1 \in Nat
        BY <2>1, <3>3
      <4>2. elapsed[t] <= Timeout * k + (Timeout - left[t])
        BY <3>1
      <4> HIDE DEF k
      <4>3. /\ Timeout * k + (Timeout - left[t]) <= Timeout * (k + 1)
            /\ Timeout * (k + 1) <= Timeout * Len(processes)
            /\ Timeout * k \in Nat /\ Timeout * (k + 1) \in Nat
        BY <2>1, <4>1, OneTimeoutMore, MoreProcessesMoreTime
      <4> QED BY <2>1, <2>2, <4>2, <4>3, ProcessManagerAssumption
    <3> QED BY <2>1, <3>2, <3>3
  <2> QED BY <2>3, <2>4 DEF InCall
<1> QED BY <1>1, Invariance, PTL
===============================================================================
