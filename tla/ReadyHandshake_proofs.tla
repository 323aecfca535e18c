------------------------- MODULE ReadyHandshake_proofs -------------------------
(***************************************************************************)
(* Proofs, for any number of app instances, any number of polls and any    *)
(* output, that a start only ever uses its own gateway, that no start reads *)
(* half a file, that a closed window leaves neither gateway nor file, that  *)
(* the status tells what became of the start, and that the diagnostic ring *)
(* holds the newest events that fit into it.                               *)
(***************************************************************************)
EXTENDS ReadyHandshake, SequenceTheorems, WellFoundedInduction, TLAPS

(* A gateway publishes once; what is at the path was published.            *)
FileOK ==
    /\ file # Torn
    /\ file \in Apps => file \in published
    /\ \A r \in Apps :
          gateway[r] \in {"none", "booting", "starting", "watching", "replacing"} =>
              r \notin published
    /\ \A r \in Apps : host[r] \in {"off", "preparing"} => gateway[r] = "none"

HInv ==
    /\ TypeOK
    /\ FileOK
    /\ NeverInvalid
    /\ CloseLeavesNothing
    /\ StatusTellsTheStart

LEMMA InitHInv == Init => HInv
BY HandshakeAssumption
DEF Init, HInv, TypeOK, FileOK, NeverInvalid, CloseLeavesNothing, StatusTellsTheStart, Running,
    Unused

(* The steps of the host that change neither the file nor the gateway.     *)
QuietHostStep(r) ==
    \/ PrepareFails(r) \/ SeeExit(r) \/ SeeRunning(r) \/ ReadReady(r) \/ ReadOther(r)
    \/ PollAgain(r) \/ GiveUp(r) \/ Close(r) \/ CloseDegraded(r) \/ Crash(r)

LEMMA HostTypeKept ==
    ASSUME TypeOK, NEW r \in Apps, HostStep(r) PROVE TypeOK'
<1> USE DEF TypeOK, HostAt, GatewayAt, ReportStart, diagVars, fileVars
<1>1. CASE RemoveStale(r)
  BY <1>1 DEF RemoveStale
<1>2. CASE Spawn(r)
  BY <1>2 DEF Spawn
<1>3. CASE SpawnFails(r)
  BY <1>3 DEF SpawnFails
<1>4. CASE SeeExit(r)
  BY <1>4 DEF SeeExit
<1>5. CASE SeeRunning(r)
  BY <1>5 DEF SeeRunning
<1>6. CASE ReadReady(r)
  BY <1>6 DEF ReadReady
<1>7. CASE PollAgain(r)
  <2>1. left[r] - 1 \in 1 .. Polls
    BY <1>7, HandshakeAssumption DEF PollAgain
  <2> QED BY <1>7, <2>1 DEF PollAgain
<1>8. CASE PrepareFails(r) \/ ReadOther(r) \/ GiveUp(r)
  <2>1. CASE PrepareFails(r)
    BY <2>1 DEF PrepareFails
  <2>2. CASE ReadOther(r) /\ file = Torn
    <3>1. /\ HostAt(r, "degraded") /\ ReportStart(r, FALSE, "invalid")
          /\ UNCHANGED <<file, uses, published, left, gateway, told>>
      BY <2>2 DEF ReadOther
    <3>2. host' \in [Apps -> {"off", "preparing", "waiting", "reading", "sleeping", "open",
                              "degraded", "closing", "closed", "gone"}]
      BY <3>1
    <3> QED BY <3>1, <3>2
  <2>3. CASE ReadOther(r) /\ file # Torn
    BY <2>3 DEF ReadOther
  <2>4. CASE GiveUp(r)
    BY <2>4 DEF GiveUp
  <2> QED BY <1>8, <2>1, <2>2, <2>3, <2>4
<1>9. CASE Close(r) \/ Kill(r)
  BY <1>9 DEF Close, Kill
<1>10. CASE RemoveOwn(r)
  BY <1>10 DEF RemoveOwn
<1>11. CASE CloseDegraded(r) \/ Crash(r)
  BY <1>11 DEF CloseDegraded, Crash
<1> QED BY <1>1, <1>2, <1>3, <1>4, <1>5, <1>6, <1>7, <1>8, <1>9, <1>10, <1>11
        DEF HostStep, StartStep

LEMMA GatewayTypeKept ==
    ASSUME TypeOK, NEW r \in Apps, GatewayStep(r) \/ Line(r) PROVE TypeOK'
<1> USE DEF TypeOK, GatewayAt, diagVars, fileVars
<1>1. CASE UnlinkOld(r) \/ StartWatch(r) \/ WriteTemp(r) \/ Replace(r)
  BY <1>1 DEF UnlinkOld, StartWatch, WriteTemp, Replace
<1>2. CASE HandleShutdown(r) \/ NoticeHostGone(r)
  BY <1>2 DEF HandleShutdown, NoticeHostGone, OnShutdown
<1>3. CASE StopServing(r) \/ Finish(r) \/ Die(r)
  BY <1>3 DEF StopServing, Finish, Die
<1>4. CASE Line(r)
  BY <1>4 DEF Line
<1> QED BY <1>1, <1>2, <1>3, <1>4 DEF GatewayStep

LEMMA HostFileKept ==
    ASSUME HInv, NEW r \in Apps, HostStep(r) PROVE FileOK'
<1> USE DEF HInv, FileOK, TypeOK, fileVars, HostAt, GatewayAt
<1>1. CASE RemoveStale(r) \/ RemoveOwn(r)
  BY <1>1, HandshakeAssumption DEF RemoveStale, RemoveOwn
<1>2. CASE Spawn(r)
  BY <1>2 DEF Spawn
<1>3. CASE SpawnFails(r)
  BY <1>3 DEF SpawnFails
<1>4. CASE QuietHostStep(r)
  BY <1>4 DEF QuietHostStep, PrepareFails, SeeExit, SeeRunning, ReadReady, ReadOther, PollAgain,
              GiveUp, Close, CloseDegraded, Crash
<1>5. CASE Kill(r)
  BY <1>5 DEF Kill
<1> QED BY <1>1, <1>2, <1>3, <1>4, <1>5 DEF HostStep, StartStep, QuietHostStep

(* Only its own gateway puts an app's file at the path, and none is left to *)
(* do so when the window has closed.                                       *)
LEMMA HostCloseKept ==
    ASSUME HInv, NEW r \in Apps, HostStep(r) PROVE CloseLeavesNothing'
<1> USE DEF HInv, CloseLeavesNothing, Running, TypeOK, fileVars, HostAt, GatewayAt
<1>1. CASE RemoveStale(r) \/ RemoveOwn(r)
  BY <1>1, HandshakeAssumption DEF RemoveStale, RemoveOwn
<1>2. CASE Spawn(r) \/ SpawnFails(r)
  BY <1>2 DEF Spawn, SpawnFails
<1>3. CASE QuietHostStep(r)
  BY <1>3 DEF QuietHostStep, PrepareFails, SeeExit, SeeRunning, ReadReady, ReadOther, PollAgain,
              GiveUp, Close, CloseDegraded, Crash
<1>4. CASE Kill(r)
  BY <1>4 DEF Kill
<1> QED BY <1>1, <1>2, <1>3, <1>4 DEF HostStep, StartStep, QuietHostStep

LEMMA ReportKept ==
    ASSUME HInv, NEW r \in Apps, NEW healthy \in BOOLEAN,
           NEW summary \in {"none", "spawn", "exited", "timeout"},
           NEW place \in {"open", "degraded"},
           healthy <=> place = "open", place = "degraded" => summary # "none",
           healthy => r \in published,
           summary # "none" => place = "degraded",
           summary = "exited" => gateway'[r] = "dead",
           \A q \in Apps \ {r} : gateway'[q] = gateway[q],
           HostAt(r, place), ReportStart(r, healthy, summary), UNCHANGED published
    PROVE  NeverInvalid' /\ StatusTellsTheStart'
<1>1. /\ host' = [host EXCEPT ![r] = place]
      /\ status' = [status EXCEPT ![r] = [healthy |-> healthy, summary |-> summary]]
  BY DEF HostAt, ReportStart
<1>2. /\ host'[r] = place
      /\ status'[r].healthy <=> healthy
      /\ status'[r].summary = summary
      /\ \A q \in Apps \ {r} : host'[q] = host[q] /\ status'[q] = status[q]
  BY <1>1 DEF HInv, TypeOK
<1> QED BY <1>2 DEF HInv, NeverInvalid, StatusTellsTheStart

LEMMA HostStatusKept ==
    ASSUME HInv, NEW r \in Apps, HostStep(r) PROVE NeverInvalid' /\ StatusTellsTheStart'
<1>1. CASE SpawnFails(r)
  <2>1. \A q \in Apps \ {r} : gateway'[q] = gateway[q]
    BY <1>1 DEF SpawnFails, GatewayAt, HInv, TypeOK
  <2> QED BY <1>1, <2>1, ReportKept DEF SpawnFails, fileVars
<1>2. CASE SeeExit(r)
  BY <1>2, ReportKept DEF SeeExit, fileVars
<1>3. CASE ReadReady(r)
  <2>1. r \in published
    BY <1>3 DEF ReadReady, HInv, FileOK
  <2> QED BY <1>3, <2>1, ReportKept DEF ReadReady
<1>4. CASE GiveUp(r)
  BY <1>4, ReportKept DEF GiveUp, fileVars
<1>5. CASE RemoveOwn(r)
  <2>1. /\ host[r] = "closing" /\ host'[r] = "closed" /\ published' = published
        /\ gateway' = gateway
        /\ ~ status'[r].healthy
        /\ status'[r].summary = status[r].summary
        /\ \A q \in Apps \ {r} : host'[q] = host[q] /\ status'[q] = status[q]
    BY <1>5 DEF RemoveOwn, HostAt, HInv, TypeOK
  <2> QED BY <2>1 DEF HInv, NeverInvalid, StatusTellsTheStart
<1>6. CASE \/ RemoveStale(r) \/ PrepareFails(r) \/ Spawn(r) \/ SeeRunning(r) \/ ReadOther(r)
           \/ PollAgain(r) \/ Close(r) \/ Kill(r) \/ CloseDegraded(r) \/ Crash(r)
  <2>1. status' = status /\ published' = published
    <3>1. file # Torn
      BY DEF HInv, FileOK
    <3> QED BY <1>6, <3>1 DEF RemoveStale, PrepareFails, Spawn, SeeRunning, ReadOther, PollAgain,
                Close, Kill, CloseDegraded, Crash, fileVars, diagVars
  <2>2. /\ \A q \in Apps \ {r} : host'[q] = host[q] /\ gateway'[q] = gateway[q]
        /\ gateway[r] = "dead" => gateway'[r] = "dead"
        /\ \/ host'[r] = "gone"
           \/ /\ host'[r] \in {"open", "closing"} <=> host[r] \in {"open", "closing"}
              /\ host'[r] = "degraded" => gateway'[r] = "none"
              /\ host[r] \notin {"degraded", "gone"}
    <3> USE DEF HInv, TypeOK, HostAt, GatewayAt
    <3>1. CASE RemoveStale(r) \/ SeeRunning(r) \/ PollAgain(r)
      BY <1>6, <3>1 DEF RemoveStale, SeeRunning, PollAgain
    <3>2. CASE PrepareFails(r)
      BY <3>2 DEF PrepareFails, FileOK
    <3>3. CASE Spawn(r)
      BY <3>3 DEF Spawn, FileOK
    <3>4. CASE ReadOther(r)
      BY <3>4 DEF ReadOther, FileOK
    <3>5. CASE Close(r)
      BY <3>5 DEF Close
    <3>6. CASE Kill(r)
      BY <3>6 DEF Kill
    <3>7. CASE CloseDegraded(r) \/ Crash(r)
      BY <3>7 DEF CloseDegraded, Crash
    <3> QED BY <1>6, <3>1, <3>2, <3>3, <3>4, <3>5, <3>6, <3>7
  <2> QED BY <2>1, <2>2 DEF HInv, TypeOK, NeverInvalid, StatusTellsTheStart
<1> QED BY <1>1, <1>2, <1>3, <1>4, <1>5, <1>6 DEF HostStep, StartStep

(* The gateway's steps. *)
LEMMA GatewayFileKept ==
    ASSUME HInv, NEW r \in Apps, GatewayStep(r) \/ Line(r) PROVE FileOK' /\ CloseLeavesNothing'
<1> USE DEF HInv, FileOK, CloseLeavesNothing, Running, TypeOK, fileVars, GatewayAt
<1>1. CASE UnlinkOld(r) \/ Finish(r)
  BY <1>1, HandshakeAssumption DEF UnlinkOld, Finish
<1>2. CASE StartWatch(r) \/ WriteTemp(r) \/ StopServing(r) \/ Die(r)
  BY <1>2 DEF StartWatch, WriteTemp, StopServing, Die
<1>3. CASE Replace(r)
  BY <1>3, HandshakeAssumption DEF Replace
<1>4. CASE HandleShutdown(r) \/ NoticeHostGone(r)
  BY <1>4, HandshakeAssumption DEF HandleShutdown, NoticeHostGone, OnShutdown
<1>5. CASE Line(r)
  BY <1>5 DEF Line
<1> QED BY <1>1, <1>2, <1>3, <1>4, <1>5 DEF GatewayStep

LEMMA GatewayStatusKept ==
    ASSUME HInv, NEW r \in Apps, GatewayStep(r) \/ Line(r)
    PROVE  NeverInvalid' /\ StatusTellsTheStart'
<1>1. /\ status' = status /\ host' = host /\ published \subseteq published'
      /\ \A q \in Apps : gateway[q] # gateway'[q] => gateway[q] \notin {"none", "dead"}
  BY DEF HInv, TypeOK, GatewayAt, Running, GatewayStep, UnlinkOld, StartWatch, WriteTemp, Replace, HandleShutdown, NoticeHostGone,
         OnShutdown, StopServing, Finish, Die, Line, fileVars, diagVars
<1> QED BY <1>1 DEF HInv, NeverInvalid, StatusTellsTheStart

LEMMA NextKeepsHInv == HInv /\ [Next]_vars => HInv'
<1> SUFFICES ASSUME HInv, [Next]_vars PROVE HInv'
  OBVIOUS
<1>1. ASSUME NEW r \in Apps, HostStep(r) PROVE HInv'
  BY <1>1, HostTypeKept, HostFileKept, HostCloseKept, HostStatusKept DEF HInv
<1>2. ASSUME NEW r \in Apps, GatewayStep(r) \/ Line(r) PROVE HInv'
  BY <1>2, GatewayTypeKept, GatewayFileKept, GatewayStatusKept DEF HInv
<1>3. CASE UNCHANGED vars
  BY <1>3 DEF vars, fileVars, diagVars, HInv, TypeOK, FileOK, NeverInvalid, CloseLeavesNothing,
              Running, StatusTellsTheStart
<1> QED BY <1>1, <1>2, <1>3 DEF Next

THEOREM HandshakeInvariance == Spec => []HInv
BY InitHInv, NextKeepsHInv, PTL DEF Spec

-------------------------------------------------------------------------------
(* Type correctness of the apps, the gateways and the file they share.      *)
THEOREM HandshakeTypeCorrect == Spec => []TypeOK
<1>1. HInv => TypeOK
  BY DEF HInv
<1> QED BY <1>1, HandshakeInvariance, PTL

(* No start fails on a half-written ready file, however the writes of any   *)
(* number of gateways fall between the reads of any number of apps.         *)
THEOREM NeverReadsHalf == Spec => []NeverInvalid
<1>1. HInv => NeverInvalid
  BY DEF HInv
<1> QED BY <1>1, HandshakeInvariance, PTL

(* A window that was closed leaves neither its gateway nor its file.        *)
THEOREM CloseIsClean == Spec => []CloseLeavesNothing
<1>1. HInv => CloseLeavesNothing
  BY DEF HInv
<1> QED BY <1>1, HandshakeInvariance, PTL

(* The status the UI asks for is what became of the start: healthy only of a *)
(* gateway that has come up, and with a reason, a true one if it is that the *)
(* gateway has ended, when a process was started and the start failed.      *)
THEOREM StatusIsTrue == Spec => []StatusTellsTheStart
<1>1. HInv => StatusTellsTheStart
  BY DEF HInv
<1> QED BY <1>1, HandshakeInvariance, PTL

(* The handshake implements Launch: a start succeeds only with the gateway  *)
(* that was started for it, after it has come up, and is decided once.      *)
THEOREM LaunchRefinement == Spec => ImplementsLaunch
<1> DEFINE outcomes == [r \in Apps |-> Outcome(host[r])]
<1>1. Init => Start!Init
  BY DEF Init, Start!Init, Outcome
<1>2. HInv /\ [Next]_vars => [Start!Next]_Start!vars
  <2> SUFFICES ASSUME HInv, [Next]_vars PROVE [Start!Next]_Start!vars
    OBVIOUS
  <2>0. ASSUME NEW r \in Apps, NEW place, HostAt(r, place)
        PROVE  outcomes' = [outcomes EXCEPT ![r] = Outcome(place)]
    <3>1. host' = [host EXCEPT ![r] = place] /\ host \in [Apps -> {"off", "preparing", "waiting",
              "reading", "sleeping", "open", "degraded", "closing", "closed", "gone"}]
      BY <2>0 DEF HostAt, HInv, TypeOK
    <3>2. outcomes' = [q \in Apps |-> Outcome(host'[q])]
      BY DEF Outcome
    <3> QED BY <3>1, <3>2
  <2>1. ASSUME NEW r \in Apps, NEW place, HostAt(r, place), Outcome(place) = Outcome(host[r]),
               UNCHANGED <<uses, published>>
        PROVE  UNCHANGED Start!vars
    BY <2>0, <2>1 DEF Start!vars
  <2>2. ASSUME UNCHANGED <<uses, published, host>> PROVE UNCHANGED Start!vars
    BY <2>2 DEF Start!vars
  <2>3. ASSUME NEW r \in Apps, ReadReady(r) PROVE Start!Succeed(r)
    <3>1. /\ HostAt(r, "open") /\ uses' = [uses EXCEPT ![r] = r] /\ published' = published
          /\ r \in published /\ outcomes[r] = "none"
      BY <2>3 DEF ReadReady, HInv, FileOK, Outcome
    <3>2. outcomes' = [outcomes EXCEPT ![r] = "open"]
      BY <2>0, <3>1 DEF Outcome
    <3> QED BY <3>1, <3>2 DEF Start!Succeed
  <2>4. ASSUME NEW r \in Apps, PrepareFails(r) \/ SpawnFails(r) \/ SeeExit(r) \/ GiveUp(r)
        PROVE  Start!Fail(r)
    <3>1. HostAt(r, "degraded") /\ UNCHANGED <<uses, published>> /\ outcomes[r] = "none"
      BY <2>4 DEF PrepareFails, SpawnFails, SeeExit, GiveUp, fileVars, Outcome
    <3>2. outcomes' = [outcomes EXCEPT ![r] = "failed"]
      BY <2>0, <3>1 DEF Outcome
    <3> QED BY <3>1, <3>2 DEF Start!Fail
  <2>5. ASSUME NEW r \in Apps, RemoveOwn(r) \/ CloseDegraded(r) \/ Crash(r) PROVE Start!End(r)
    <3>1. PICK place \in {"closed", "gone"} : HostAt(r, place)
      BY <2>5 DEF RemoveOwn, CloseDegraded, Crash
    <3>2. UNCHANGED <<uses, published>> /\ outcomes[r] # "over"
      BY <2>5 DEF RemoveOwn, CloseDegraded, Crash, Over, fileVars, Outcome
    <3>3. outcomes' = [outcomes EXCEPT ![r] = "over"]
      BY <2>0, <3>1 DEF Outcome
    <3> QED BY <3>2, <3>3 DEF Start!End
  <2>6. ASSUME NEW r \in Apps, \/ RemoveStale(r) \/ Spawn(r) \/ SeeRunning(r)
                                \/ ReadOther(r) \/ PollAgain(r) \/ Close(r)
        PROVE  UNCHANGED Start!vars
    <3>1. UNCHANGED <<uses, published>>
      BY <2>6 DEF RemoveStale, Spawn, SeeRunning, ReadOther, PollAgain, Close, fileVars
    <3>2. PICK place : HostAt(r, place) /\ Outcome(place) = Outcome(host[r])
      BY <2>6 DEF RemoveStale, Spawn, SeeRunning, ReadOther, PollAgain, Close, Outcome, HInv, FileOK
    <3> QED BY <2>1, <3>1, <3>2
  <2>7. ASSUME NEW r \in Apps, Replace(r) PROVE Start!ComeUp(r)
    BY <2>7 DEF Replace, HInv, FileOK, Start!ComeUp
  <2>8. ASSUME NEW r \in Apps, GatewayStep(r) \/ Line(r) \/ Kill(r), ~ Replace(r)
        PROVE  UNCHANGED Start!vars
    <3>1. UNCHANGED <<uses, published, host>>
      BY <2>8 DEF GatewayStep, UnlinkOld, StartWatch, WriteTemp, HandleShutdown, NoticeHostGone,
                  OnShutdown, StopServing, Finish, Die, Line, Kill, fileVars
    <3> QED BY <2>2, <3>1
  <2>9. CASE UNCHANGED vars
    BY <2>2, <2>9 DEF vars, fileVars
  <2> QED BY <2>3, <2>4, <2>5, <2>6, <2>7, <2>8, <2>9
          DEF Next, HostStep, StartStep, Start!Next
<1> QED BY <1>1, <1>2, HandshakeInvariance, PTL DEF Spec, ImplementsLaunch, Start!Spec

-------------------------------------------------------------------------------
(* The ring.  What is left of a sequence of events without its first n is  *)
(* what n times pop_front leaves, and its bytes are the total; the sums of *)
(* the lengths are a recursive function, and what is said of them is       *)
(* proved by induction over its arguments.                                 *)

(* Induction over an initial piece of the naturals, for a set.             *)
LEMMA UpTo ==
    ASSUME NEW N \in Nat, NEW S,
           0 \in S, \A n \in 0 .. N : n # N /\ n \in S => n + 1 \in S
    PROVE  \A n \in 0 .. N : n \in S
<1> DEFINE Bad == {n \in 0 .. N : n \notin S}
<1> SUFFICES ASSUME Bad # {} PROVE FALSE
  OBVIOUS
<1>1. Bad \subseteq Nat
  OBVIOUS
<1>2. PICK m \in Bad : \A k \in Bad : ~ (<<k, m>> \in OpToRel(<, Nat))
  <2> HIDE DEF Bad
  <2> QED BY <1>1, NatLessThanWellFounded, WFMin
<1>3. \A k \in Bad : ~ (k < m)
  BY <1>1, <1>2 DEF OpToRel
<1>4. m # 0 /\ m \in 1 .. N /\ m - 1 \in 0 .. N /\ m - 1 # N /\ (m - 1) + 1 = m /\ m - 1 < m
  OBVIOUS
<1>5. m - 1 \in S
  BY <1>3, <1>4
<1>6. m \in S
  BY <1>4, <1>5
<1> QED BY <1>6

LEMMA SumsDef ==
    ASSUME NEW s
    PROVE  Sums(s) = CHOOSE f : f = [n \in 0 .. Len(s) |-> IF n = 0 THEN 0 ELSE f[n - 1] + s[n]]
BY DEF Sums

LEMMA SumsExist ==
    ASSUME NEW s \in Seq(Nat)
    PROVE  \E f \in [0 .. Len(s) -> Nat] :
              f = [n \in 0 .. Len(s) |-> IF n = 0 THEN 0 ELSE f[n - 1] + s[n]]
<1> DEFINE Piece(n, f) == /\ f \in [0 .. n -> Nat]
                          /\ f[0] = 0
                          /\ \A i \in 1 .. n : f[i] = f[i - 1] + s[i]
<1> DEFINE S == {n \in 0 .. Len(s) : \E f : Piece(n, f)}
<1>0. Len(s) \in Nat /\ \A n \in 1 .. Len(s) : s[n] \in Nat
  BY LenProperties
<1>1. 0 \in S
  <2> DEFINE z == [n \in 0 .. 0 |-> 0]
  <2>1. z \in [0 .. 0 -> Nat] /\ z[0] = 0 /\ \A i \in 1 .. 0 : FALSE
    OBVIOUS
  <2>2. Piece(0, z)
    BY <2>1
  <2> HIDE DEF Piece, z
  <2> QED BY <1>0, <2>2
<1>2. ASSUME NEW n \in 0 .. Len(s), n # Len(s), n \in S PROVE n + 1 \in S
  <2>1. PICK f : Piece(n, f)
    BY <1>2
  <2> DEFINE g == [i \in 0 .. n + 1 |-> IF i = n + 1 THEN f[n] + s[n + 1] ELSE f[i]]
  <2>2. n + 1 \in 1 .. Len(s) /\ s[n + 1] \in Nat /\ f[n] \in Nat
    BY <1>0, <1>2, <2>1
  <2>3. g \in [0 .. n + 1 -> Nat] /\ g[0] = 0
    BY <2>1, <2>2
  <2>4. ASSUME NEW i \in 1 .. n + 1 PROVE g[i] = g[i - 1] + s[i]
    <3>1. CASE i = n + 1
      BY <1>2, <3>1
    <3>2. CASE i # n + 1
      BY <1>2, <2>1, <3>2
    <3> QED BY <3>1, <3>2
  <2>5. Piece(n + 1, g)
    BY <2>3, <2>4
  <2> HIDE DEF Piece, g
  <2> QED BY <1>0, <2>2, <2>5
<1>3. Len(s) \in S
  <2> HIDE DEF S
  <2>1. \A n \in 0 .. Len(s) : n \in S
    BY <1>0, <1>1, <1>2, UpTo
  <2> QED BY <1>0, <2>1
<1>4. PICK f : Piece(Len(s), f)
  BY <1>3
<1>5. f = [n \in 0 .. Len(s) |-> IF n = 0 THEN 0 ELSE f[n - 1] + s[n]]
  BY <1>0, <1>4
<1> QED BY <1>4, <1>5

(* What the sums of a sequence are. *)
LEMMA SumsFacts ==
    ASSUME NEW s \in Seq(Nat)
    PROVE  /\ Sums(s)[0] = 0
           /\ \A n \in 1 .. Len(s) : Sums(s)[n] = Sums(s)[n - 1] + s[n]
           /\ \A n \in 0 .. Len(s) : Sums(s)[n] \in Nat
<1> DEFINE F == Sums(s)
<1>0. Len(s) \in Nat /\ \A n \in 1 .. Len(s) : s[n] \in Nat
  BY LenProperties
<1>1. F = [n \in 0 .. Len(s) |-> IF n = 0 THEN 0 ELSE F[n - 1] + s[n]]
  BY SumsDef, SumsExist
<1> HIDE DEF F
<1>2. F[0] = 0 /\ \A n \in 1 .. Len(s) : F[n] = F[n - 1] + s[n]
  BY <1>0, <1>1
<1> DEFINE S == {n \in 0 .. Len(s) : F[n] \in Nat}
<1>3. 0 \in S
  BY <1>0, <1>2
<1>4. ASSUME NEW n \in 0 .. Len(s), n # Len(s), n \in S PROVE n + 1 \in S
  <2>1. n + 1 \in 1 .. Len(s) /\ (n + 1) - 1 = n
    BY <1>0, <1>4
  <2>2. F[n + 1] = F[n] + s[n + 1] /\ F[n] \in Nat /\ s[n + 1] \in Nat
    BY <1>0, <1>2, <1>4, <2>1
  <2> QED BY <2>1, <2>2
<1>5. \A n \in 0 .. Len(s) : n \in S
  <2> HIDE DEF S
  <2> QED BY <1>0, <1>3, <1>4, UpTo
<1> QED BY <1>2, <1>5 DEF F

(* Equal pieces of two sequences have equal sums.                          *)
LEMMA SumsOfPiece ==
    ASSUME NEW s \in Seq(Nat), NEW t \in Seq(Nat), NEW d \in Nat, NEW k \in Nat,
           k <= Len(t), d + k <= Len(s),
           \A i \in 1 .. k : t[i] = s[d + i]
    PROVE  \A n \in 0 .. k : Sums(s)[d + n] = Sums(s)[d] + Sums(t)[n]
<1> DEFINE S == {n \in 0 .. k : Sums(s)[d + n] = Sums(s)[d] + Sums(t)[n]}
<1>0. Len(s) \in Nat /\ Len(t) \in Nat
  BY LenProperties
<1>1. 0 \in S
  <2>1. Sums(t)[0] = 0 /\ Sums(s)[d] \in Nat
    BY <1>0, SumsFacts
  <2> QED BY <2>1
<1>2. ASSUME NEW n \in 0 .. k, n # k, n \in S PROVE n + 1 \in S
  <2>1. /\ n + 1 \in 1 .. Len(t) /\ d + (n + 1) \in 1 .. Len(s) /\ n + 1 \in 1 .. k
        /\ (d + (n + 1)) - 1 = d + n /\ (n + 1) - 1 = n
        /\ d + n \in 0 .. Len(s) /\ d \in 0 .. Len(s) /\ n \in 0 .. Len(t)
    BY <1>0, <1>2
  <2>2. Sums(s)[d + (n + 1)] = Sums(s)[d + n] + s[d + (n + 1)]
    BY <2>1, SumsFacts
  <2>3. Sums(t)[n + 1] = Sums(t)[n] + t[n + 1]
    BY <2>1, SumsFacts
  <2>4. t[n + 1] = s[d + (n + 1)] /\ t[n + 1] \in Nat
    BY <2>1, LenProperties
  <2>5. Sums(s)[d + n] \in Nat /\ Sums(s)[d] \in Nat /\ Sums(t)[n] \in Nat
    BY <2>1, SumsFacts
  <2>6. Sums(s)[d + n] = Sums(s)[d] + Sums(t)[n]
    BY <1>2
  <2>7. Sums(s)[d + (n + 1)] = Sums(s)[d] + Sums(t)[n + 1]
    <3>1. Sums(s)[d + (n + 1)] = (Sums(s)[d] + Sums(t)[n]) + t[n + 1]
      BY <2>2, <2>4, <2>6
    <3>2. (Sums(s)[d] + Sums(t)[n]) + t[n + 1] = Sums(s)[d] + (Sums(t)[n] + t[n + 1])
      BY <2>4, <2>5
    <3> QED BY <2>3, <3>1, <3>2
  <2> QED BY <2>1, <2>7
<1>3. \A n \in 0 .. k : n \in S
  <2> HIDE DEF S
  <2> QED BY <1>1, <1>2, UpTo
<1> QED BY <1>3

LEMMA SumsGrow ==
    ASSUME NEW s \in Seq(Nat), NEW i \in 0 .. Len(s)
    PROVE  Sums(s)[i] <= Sums(s)[Len(s)]
<1> DEFINE k == Len(s) - i
           S == {n \in 0 .. k : Sums(s)[i] <= Sums(s)[i + n]}
<1>0. Len(s) \in Nat /\ k \in Nat /\ i \in Nat /\ Len(s) = i + k
  BY LenProperties
<1>1. 0 \in S
  <2>1. Sums(s)[i] \in Nat /\ i + 0 = i /\ 0 \in 0 .. k
    BY <1>0, SumsFacts
  <2> QED BY <2>1
<1>2. ASSUME NEW n \in 0 .. k, n # k, n \in S PROVE n + 1 \in S
  <2>1. /\ i + (n + 1) \in 1 .. Len(s) /\ (i + (n + 1)) - 1 = i + n
        /\ i + n \in 0 .. Len(s) /\ n + 1 \in 0 .. k
    <3> HIDE DEF k
    <3> QED BY <1>0, <1>2
  <2>2. Sums(s)[i + (n + 1)] = Sums(s)[i + n] + s[i + (n + 1)]
    BY <2>1, SumsFacts
  <2>3. s[i + (n + 1)] \in Nat
    BY <2>1, LenProperties
  <2>4. Sums(s)[i + n] \in Nat /\ Sums(s)[i] \in Nat
    BY <2>1, SumsFacts
  <2>5. Sums(s)[i] <= Sums(s)[i + (n + 1)]
    BY <1>2, <2>2, <2>3, <2>4
  <2> QED BY <2>1, <2>5
<1>3. \A n \in 0 .. k : n \in S
  <2> HIDE DEF S, k
  <2> QED BY <1>0, <1>1, <1>2, UpTo
<1>4. k \in S
  <2> HIDE DEF S
  <2> QED BY <1>0, <1>3
<1> QED BY <1>0, <1>4

(* What is left of a sequence without its first n elements.                *)
Rest(s, n) == SubSeq(s, n + 1, Len(s))

LEMMA RestFacts ==
    ASSUME NEW s \in Seq(Nat), NEW n \in 0 .. Len(s)
    PROVE  /\ Rest(s, n) \in Seq(Nat)
           /\ Len(Rest(s, n)) = Len(s) - n
           /\ \A i \in 1 .. Len(s) - n : Rest(s, n)[i] = s[n + i]
<1>0. Len(s) \in Nat /\ n \in Nat /\ \A i \in 1 .. Len(s) : s[i] \in Nat
  BY LenProperties
<1>1. n + 1 \in Int /\ Len(s) \in Int /\ \A i \in n + 1 .. Len(s) : s[i] \in Nat
  BY <1>0
<1>2. /\ Rest(s, n) \in Seq(Nat)
      /\ Len(Rest(s, n)) = IF n + 1 <= Len(s) THEN Len(s) - (n + 1) + 1 ELSE 0
      /\ \A i \in 1 .. Len(s) - (n + 1) + 1 : Rest(s, n)[i] = s[(n + 1) + i - 1]
  BY <1>1, SubSeqProperties DEF Rest
<1>3. Len(s) - (n + 1) + 1 = Len(s) - n
  BY <1>0
<1>4. ASSUME NEW i \in 1 .. Len(s) - n PROVE Rest(s, n)[i] = s[n + i]
  <2>1. (n + 1) + i - 1 = n + i
    BY <1>0
  <2>2. Rest(s, n)[i] = s[(n + 1) + i - 1]
    BY <1>2, <1>3
  <2> QED BY <2>1, <2>2
<1>5. Len(Rest(s, n)) = Len(s) - n
  <2>1. CASE n + 1 <= Len(s)
    BY <1>2, <1>3, <2>1
  <2>2. CASE ~ (n + 1 <= Len(s))
    <3>1. Len(s) - n = 0
      BY <1>0, <2>2
    <3> QED BY <1>2, <2>2, <3>1
  <2> QED BY <2>1, <2>2
<1> QED BY <1>2, <1>4, <1>5

LEMMA BytesOfRest ==
    ASSUME NEW s \in Seq(Nat), NEW n \in 0 .. Len(s)
    PROVE  /\ Bytes(Rest(s, n)) \in Nat
           /\ Sums(s)[Len(s)] = Sums(s)[n] + Bytes(Rest(s, n))
<1> DEFINE t == Rest(s, n)
           k == Len(s) - n
<1>0. Len(s) \in Nat /\ n \in Nat /\ k \in Nat /\ n + k = Len(s)
  BY LenProperties
<1>1. t \in Seq(Nat) /\ Len(t) = k /\ \A i \in 1 .. k : t[i] = s[n + i]
  BY RestFacts
<1> HIDE DEF t, k
<1>2. \A j \in 0 .. k : Sums(s)[n + j] = Sums(s)[n] + Sums(t)[j]
  <2>1. k <= Len(t) /\ n + k <= Len(s)
    BY <1>0, <1>1
  <2> QED BY <1>0, <1>1, <2>1, SumsOfPiece
<1>3. k \in 0 .. k
  BY <1>0
<1>4. Sums(s)[n + k] = Sums(s)[n] + Sums(t)[k]
  BY <1>2, <1>3
<1>5. Sums(t)[Len(t)] \in Nat
  BY <1>0, <1>1, SumsFacts
<1> QED BY <1>0, <1>1, <1>4, <1>5 DEF Bytes, t

LEMMA RestOfRest ==
    ASSUME NEW s \in Seq(Nat), NEW l \in 0 .. Len(s), NEW n \in 0 .. Len(s) - l
    PROVE  Rest(Rest(s, l), n) = Rest(s, l + n)
<1> DEFINE t == Rest(s, l)
<1>0. /\ Len(s) \in Nat /\ l \in Nat /\ n \in Nat /\ l + n <= Len(s) /\ l + n \in 0 .. Len(s)
  BY LenProperties
<1>1. t \in Seq(Nat) /\ Len(t) = Len(s) - l /\ \A i \in 1 .. Len(s) - l : t[i] = s[l + i]
  BY RestFacts
<1> HIDE DEF t
<1>2. /\ Rest(t, n) \in Seq(Nat) /\ Len(Rest(t, n)) = Len(t) - n
      /\ \A i \in 1 .. Len(t) - n : Rest(t, n)[i] = t[n + i]
  <2>1. n \in 0 .. Len(t)
    BY <1>1
  <2> QED BY <1>1, <2>1, RestFacts
<1>3. /\ Rest(s, l + n) \in Seq(Nat) /\ Len(Rest(s, l + n)) = Len(s) - (l + n)
      /\ \A i \in 1 .. Len(s) - (l + n) : Rest(s, l + n)[i] = s[(l + n) + i]
  BY <1>0, RestFacts
<1>4. Len(Rest(t, n)) = Len(Rest(s, l + n))
  <2>1. (Len(s) - l) - n = Len(s) - (l + n)
    BY <1>0
  <2> QED BY <1>1, <1>2, <1>3, <2>1
<1>5. ASSUME NEW i \in 1 .. Len(Rest(t, n)) PROVE Rest(t, n)[i] = Rest(s, l + n)[i]
  <2>1. /\ i \in 1 .. Len(t) - n /\ n + i \in 1 .. Len(s) - l /\ i \in 1 .. Len(s) - (l + n)
        /\ l + (n + i) = (l + n) + i
    BY <1>0, <1>1, <1>2
  <2> QED BY <1>1, <1>2, <1>3, <2>1
<1>6. Rest(t, n) = Rest(s, l + n)
  BY <1>2, <1>3, <1>4, <1>5, SeqEqual
<1> QED BY <1>6 DEF t

LEMMA RestOfAppend ==
    ASSUME NEW s \in Seq(Nat), NEW m \in Nat, NEW l \in 0 .. Len(s)
    PROVE  /\ Append(s, m) \in Seq(Nat) /\ Len(Append(s, m)) = Len(s) + 1
           /\ Append(Rest(s, l), m) = Rest(Append(s, m), l)
           /\ Bytes(Rest(Append(s, m), l)) = Bytes(Rest(s, l)) + m
<1> DEFINE t == Append(s, m)
           u == Rest(s, l)
           v == Append(u, m)
<1>0. Len(s) \in Nat /\ l \in Nat /\ l <= Len(s)
  BY LenProperties
<1>1. /\ t \in Seq(Nat) /\ Len(t) = Len(s) + 1 /\ t[Len(s) + 1] = m
      /\ \A i \in 1 .. Len(s) : t[i] = s[i]
  BY AppendProperties
<1>2. u \in Seq(Nat) /\ Len(u) = Len(s) - l /\ \A i \in 1 .. Len(s) - l : u[i] = s[l + i]
  BY RestFacts
<1>3. /\ v \in Seq(Nat) /\ Len(v) = Len(u) + 1 /\ v[Len(u) + 1] = m
      /\ \A i \in 1 .. Len(u) : v[i] = u[i]
  <2> HIDE DEF u
  <2> QED BY <1>2, AppendProperties
<1> HIDE DEF t, u, v
<1>4. /\ Rest(t, l) \in Seq(Nat) /\ Len(Rest(t, l)) = Len(t) - l
      /\ \A i \in 1 .. Len(t) - l : Rest(t, l)[i] = t[l + i]
  <2>1. l \in 0 .. Len(t)
    BY <1>0, <1>1
  <2> QED BY <1>1, <2>1, RestFacts
<1>5. v = Rest(t, l)
  <2>1. Len(v) = Len(Rest(t, l))
    BY <1>0, <1>1, <1>2, <1>3, <1>4
  <2>2. ASSUME NEW i \in 1 .. Len(v) PROVE v[i] = Rest(t, l)[i]
    <3>1. CASE i = Len(u) + 1
      <4>1. l + i = Len(s) + 1 /\ i \in 1 .. Len(t) - l
        BY <1>0, <1>1, <1>2, <3>1
      <4> QED BY <1>1, <1>3, <1>4, <3>1, <4>1
    <3>2. CASE i # Len(u) + 1
      <4>1. i \in 1 .. Len(u) /\ l + i \in 1 .. Len(s) /\ i \in 1 .. Len(t) - l
        <5>1. Len(v) = Len(u) + 1 /\ Len(u) = Len(s) - l /\ Len(t) = Len(s) + 1
          BY <1>1, <1>2, <1>3
        <5> QED BY <1>0, <3>2, <5>1
      <4> QED BY <1>1, <1>2, <1>3, <1>4, <4>1
    <3> QED BY <3>1, <3>2
  <2> QED BY <1>3, <1>4, <2>1, <2>2, SeqEqual
<1>6. Bytes(v) = Bytes(u) + m
  <2>1. \A n \in 0 .. Len(u) : Sums(v)[0 + n] = Sums(v)[0] + Sums(u)[n]
    <3> DEFINE z == 0
               k == Len(u)
    <3>1. z \in Nat /\ k \in Nat /\ k <= Len(u) /\ z + k <= Len(v) /\ u \in Seq(Nat) /\ v \in Seq(Nat)
      BY <1>0, <1>2, <1>3
    <3>2. ASSUME NEW i \in 1 .. k PROVE u[i] = v[z + i]
      <4>1. z + i = i
        BY <3>1
      <4> QED BY <1>3, <4>1
    <3> HIDE DEF z, k
    <3>3. \A n \in 0 .. k : Sums(v)[z + n] = Sums(v)[z] + Sums(u)[n]
      BY <3>1, <3>2, SumsOfPiece
    <3> QED BY <3>3 DEF z, k
  <2>2. /\ Len(u) \in 0 .. Len(u) /\ Len(v) \in 1 .. Len(v) /\ Len(v) - 1 = Len(u)
        /\ 0 + Len(u) = Len(u) /\ Len(u) \in 0 .. Len(v)
    BY <1>0, <1>2, <1>3
  <2>3. Sums(v)[Len(v)] = Sums(v)[Len(u)] + v[Len(v)] /\ Sums(v)[0] = 0
    BY <1>3, <2>2, SumsFacts
  <2>4. Sums(u)[Len(u)] \in Nat
    BY <1>2, <2>2, SumsFacts
  <2>5. Sums(v)[Len(u)] = Sums(u)[Len(u)]
    BY <2>1, <2>2, <2>3, <2>4
  <2> QED BY <1>3, <2>3, <2>5 DEF Bytes
<1> QED BY <1>1, <1>5, <1>6 DEF t, u, v

(* The ring that holds what is left without the first n of s.              *)
RingOf(s, n) == [events |-> Rest(s, n), total |-> Bytes(Rest(s, n))]

(* The last events from a position on are what can be kept of s.           *)
IsNewest(s, n) ==
    /\ n \in 0 .. Len(s)
    /\ Fits(Rest(s, n))
    /\ \A m \in 0 .. n - 1 : ~ Fits(Rest(s, m))

LEMMA ExceedsIsNotFits ==
    ASSUME NEW s \in Seq(Nat), NEW n \in 0 .. Len(s)
    PROVE  Exceeds(RingOf(s, n)) <=> ~ Fits(Rest(s, n))
<1> DEFINE t == Rest(s, n)
<1>1. Len(t) \in Nat /\ Bytes(t) \in Nat
  BY RestFacts, BytesOfRest, LenProperties
<1>2. MaxLines \in Nat \ {0} /\ MaxBytes \in Nat
  BY DiagnosticsAssumption
<1> HIDE DEF t
<1>3. (Len(t) > MaxLines \/ (Bytes(t) > MaxBytes /\ Len(t) > 1)) <=> ~ Fits(t)
  BY <1>1, <1>2 DEF Fits
<1> QED BY <1>3 DEF t, RingOf, Exceeds

LEMMA PopFrontOfRing ==
    ASSUME NEW s \in Seq(Nat), NEW n \in 0 .. Len(s), n # Len(s)
    PROVE  PopFront(RingOf(s, n)) = RingOf(s, n + 1)
<1>0. Len(s) \in Nat /\ n + 1 \in 1 .. Len(s) /\ Len(s) \in n + 1 .. Len(s) /\ n + 1 \in 0 .. Len(s)
      /\ (n + 1) - 1 = n
  BY LenProperties
<1>1. Head(Rest(s, n)) = s[n + 1] /\ Tail(Rest(s, n)) = Rest(s, n + 1)
  BY <1>0, HeadTailOfSubSeq DEF Rest
<1>2. /\ Bytes(Rest(s, n)) \in Nat /\ Sums(s)[Len(s)] = Sums(s)[n] + Bytes(Rest(s, n))
      /\ Bytes(Rest(s, n + 1)) \in Nat
      /\ Sums(s)[Len(s)] = Sums(s)[n + 1] + Bytes(Rest(s, n + 1))
  BY <1>0, BytesOfRest
<1>3. Sums(s)[n + 1] = Sums(s)[n] + s[n + 1] /\ Sums(s)[n] \in Nat /\ s[n + 1] \in Nat
  BY <1>0, SumsFacts, LenProperties
<1>4. SaturatingSub(Bytes(Rest(s, n)), s[n + 1]) = Bytes(Rest(s, n + 1))
  <2>1. ASSUME NEW a \in Nat, NEW b \in Nat, NEW c \in Nat, NEW p \in Nat, p + a = (p + b) + c
        PROVE  SaturatingSub(a, b) = c
    BY <2>1 DEF SaturatingSub
  <2>2. Sums(s)[n] + Bytes(Rest(s, n)) = (Sums(s)[n] + s[n + 1]) + Bytes(Rest(s, n + 1))
    BY <1>2, <1>3
  <2> QED BY <1>2, <1>3, <2>1, <2>2
<1> QED BY <1>1, <1>4 DEF PopFront, RingOf

LEMMA PoppedDef ==
    ASSUME NEW s \in Seq(Nat)
    PROVE  Popped(RingOf(s, 0)) =
             CHOOSE f : f = [n \in 0 .. Len(s) |->
                                IF n = 0 THEN RingOf(s, 0) ELSE PopFront(f[n - 1])]
<1>1. RingOf(s, 0).events = s
  BY SubSeqFull DEF RingOf, Rest
<1>2. Len(RingOf(s, 0).events) = Len(s)
  BY <1>1
<1> QED BY <1>2 DEF Popped

LEMMA PoppedFacts ==
    ASSUME NEW s \in Seq(Nat), NEW n \in 0 .. Len(s)
    PROVE  Popped(RingOf(s, 0))[n] = RingOf(s, n)
<1> DEFINE F == Popped(RingOf(s, 0))
<1>0. Len(s) \in Nat
  BY LenProperties
<1>1. \E f : f = [k \in 0 .. Len(s) |-> IF k = 0 THEN RingOf(s, 0) ELSE PopFront(f[k - 1])]
  <2> DEFINE g == [k \in 0 .. Len(s) |-> RingOf(s, k)]
  <2>1. ASSUME NEW k \in 0 .. Len(s)
        PROVE  g[k] = IF k = 0 THEN RingOf(s, 0) ELSE PopFront(g[k - 1])
    <3>1. CASE k = 0
      BY <3>1
    <3>2. CASE k # 0
      <4>1. k - 1 \in 0 .. Len(s) /\ k - 1 # Len(s) /\ (k - 1) + 1 = k
        BY <1>0, <3>2
      <4>2. PopFront(RingOf(s, k - 1)) = RingOf(s, k)
        BY <4>1, PopFrontOfRing
      <4> QED BY <3>2, <4>1, <4>2
    <3> QED BY <3>1, <3>2
  <2>2. g = [k \in 0 .. Len(s) |-> g[k]]
    OBVIOUS
  <2> HIDE DEF g
  <2>3. g = [k \in 0 .. Len(s) |-> IF k = 0 THEN RingOf(s, 0) ELSE PopFront(g[k - 1])]
    BY <2>1, <2>2
  <2> QED BY <2>3
<1>2. F = [k \in 0 .. Len(s) |-> IF k = 0 THEN RingOf(s, 0) ELSE PopFront(F[k - 1])]
  BY <1>1, PoppedDef
<1> HIDE DEF F
<1> DEFINE S == {k \in 0 .. Len(s) : F[k] = RingOf(s, k)}
<1>3. 0 \in S
  BY <1>0, <1>2
<1>4. ASSUME NEW k \in 0 .. Len(s), k # Len(s), k \in S PROVE k + 1 \in S
  <2>1. k + 1 \in 0 .. Len(s) /\ k + 1 # 0 /\ (k + 1) - 1 = k
    BY <1>0, <1>4
  <2>2. F[k + 1] = PopFront(F[k])
    BY <1>2, <2>1
  <2>3. F[k + 1] = RingOf(s, k + 1)
    BY <1>4, <2>2, PopFrontOfRing
  <2> QED BY <2>1, <2>3
<1>5. \A k \in 0 .. Len(s) : k \in S
  <2> HIDE DEF S
  <2> QED BY <1>0, <1>3, <1>4, UpTo
<1> QED BY <1>5 DEF F

(* Something of every sequence fits, at the latest nothing of it.          *)
LEMMA NewestExists ==
    ASSUME NEW s \in Seq(Nat) PROVE \E n : IsNewest(s, n)
<1> DEFINE S == {n \in 0 .. Len(s) : \E m \in 0 .. n : Fits(Rest(s, m))}
           T == {n \in 0 .. Len(s) : \A m \in 0 .. n : ~ Fits(Rest(s, m))}
<1>0. Len(s) \in Nat
  BY LenProperties
<1>1. Fits(Rest(s, Len(s)))
  <2>1. Len(Rest(s, Len(s))) = 0
    BY <1>0, RestFacts
  <2> QED BY <2>1 DEF Fits
<1> SUFFICES ASSUME \A n : ~ IsNewest(s, n) PROVE FALSE
  OBVIOUS
<1>2. 0 \in T
  <2>1. ~ Fits(Rest(s, 0))
    BY <1>0 DEF IsNewest
  <2> QED BY <1>0, <2>1
<1>3. ASSUME NEW n \in 0 .. Len(s), n # Len(s), n \in T PROVE n + 1 \in T
  <2>1. n + 1 \in 0 .. Len(s) /\ (n + 1) - 1 = n
    BY <1>0, <1>3
  <2>2. ~ Fits(Rest(s, n + 1))
    BY <1>3, <2>1 DEF IsNewest
  <2>3. \A m \in 0 .. n + 1 : m = n + 1 \/ m \in 0 .. n
    BY <1>0
  <2> QED BY <1>3, <2>1, <2>2, <2>3
<1>4. \A n \in 0 .. Len(s) : n \in T
  <2> HIDE DEF T
  <2> QED BY <1>0, <1>2, <1>3, UpTo
<1> QED BY <1>0, <1>1, <1>4

(* trim_to_capacity keeps the newest that fit, and counts their bytes.     *)
LEMMA TrimKeepsTheNewest ==
    ASSUME NEW s \in Seq(Nat)
    PROVE  \E n : IsNewest(s, n) /\ TrimToCapacity(RingOf(s, 0)) = RingOf(s, n)
<1> DEFINE Enough(n) == /\ ~ Exceeds(Popped(RingOf(s, 0))[n])
                        /\ \A m \in 0 .. n - 1 : Exceeds(Popped(RingOf(s, 0))[m])
<1>0. Len(s) \in Nat /\ RingOf(s, 0).events = s
  BY LenProperties, SubSeqFull DEF RingOf, Rest
<1>1. ASSUME NEW n \in 0 .. Len(s) PROVE Enough(n) <=> IsNewest(s, n)
  <2>1. ASSUME NEW m \in 0 .. Len(s)
        PROVE  Exceeds(Popped(RingOf(s, 0))[m]) <=> ~ Fits(Rest(s, m))
    BY PoppedFacts, ExceedsIsNotFits
  <2>2. 0 .. n - 1 \subseteq 0 .. Len(s)
    BY <1>0
  <2> QED BY <2>1, <2>2 DEF IsNewest
<1> DEFINE enough == CHOOSE n \in 0 .. Len(s) : Enough(n)
<1>2. enough \in 0 .. Len(s) /\ Enough(enough)
  <2>1. \E n \in 0 .. Len(s) : Enough(n)
    BY <1>1, NewestExists DEF IsNewest
  <2> HIDE DEF Enough
  <2> QED BY <2>1
<1>3. TrimToCapacity(RingOf(s, 0)) = Popped(RingOf(s, 0))[enough]
  BY <1>0 DEF TrimToCapacity
<1> HIDE DEF enough, Enough
<1> QED BY <1>1, <1>2, <1>3, PoppedFacts

LEMMA SuffixesAreRests ==
    ASSUME NEW s \in Seq(Nat)
    PROVE  Suffixes(s) = {Rest(s, n) : n \in 0 .. Len(s)}
<1>0. Len(s) \in Nat
  BY LenProperties
<1>1. Rest(s, Len(s)) = <<>>
  BY <1>0, SubSeqEmpty DEF Rest
<1>2. ASSUME NEW l \in 1 .. Len(s) PROVE l - 1 \in 0 .. Len(s) /\ SubSeq(s, l, Len(s)) = Rest(s, l - 1)
  <2>1. (l - 1) + 1 = l
    BY <1>0
  <2> QED BY <1>0, <2>1 DEF Rest
<1>3. ASSUME NEW n \in 0 .. Len(s), n # Len(s)
      PROVE  n + 1 \in 1 .. Len(s) /\ Rest(s, n) = SubSeq(s, n + 1, Len(s))
  BY <1>0, <1>3 DEF Rest
<1>4. ASSUME NEW x \in Suffixes(s) PROVE \E n \in 0 .. Len(s) : x = Rest(s, n)
  <2>1. CASE x = <<>>
    BY <1>0, <1>1, <2>1
  <2>2. ASSUME NEW l \in 1 .. Len(s), x = SubSeq(s, l, Len(s)) PROVE \E n \in 0 .. Len(s) : x = Rest(s, n)
    BY <1>2, <2>2
  <2> QED BY <2>1, <2>2 DEF Suffixes
<1>5. ASSUME NEW n \in 0 .. Len(s) PROVE Rest(s, n) \in Suffixes(s)
  <2>1. CASE n = Len(s)
    BY <1>1, <2>1 DEF Suffixes
  <2>2. CASE n # Len(s)
    BY <1>3, <2>2 DEF Suffixes
  <2> QED BY <2>1, <2>2
<1> QED BY <1>4, <1>5

LEMMA NewestIs ==
    ASSUME NEW s \in Seq(Nat), NEW n, IsNewest(s, n)
    PROVE  Newest(s) = Rest(s, n)
<1> DEFINE Longest(kept) == /\ Fits(kept)
                            /\ \A other \in Suffixes(s) : Fits(other) => Len(other) <= Len(kept)
<1>0. Len(s) \in Nat /\ n \in 0 .. Len(s)
  BY LenProperties DEF IsNewest
<1>1. ASSUME NEW m \in 0 .. Len(s) PROVE Rest(s, m) \in Suffixes(s) /\ Len(Rest(s, m)) = Len(s) - m
  BY SuffixesAreRests, RestFacts
<1>2. ASSUME NEW m \in 0 .. Len(s), Fits(Rest(s, m)) PROVE n <= m
  <2>1. m \notin 0 .. n - 1
    BY <1>2 DEF IsNewest
  <2> QED BY <1>0, <2>1
<1>3. Longest(Rest(s, n))
  <2>1. Fits(Rest(s, n))
    BY DEF IsNewest
  <2>2. ASSUME NEW other \in Suffixes(s), Fits(other) PROVE Len(other) <= Len(Rest(s, n))
    <3>1. PICK m \in 0 .. Len(s) : other = Rest(s, m)
      BY SuffixesAreRests
    <3>2. n <= m
      BY <1>2, <2>2, <3>1
    <3>3. Len(other) = Len(s) - m /\ Len(Rest(s, n)) = Len(s) - n
      BY <1>0, <1>1, <3>1
    <3> QED BY <1>0, <3>2, <3>3
  <2> QED BY <2>1, <2>2
<1>4. ASSUME NEW kept \in Suffixes(s), Longest(kept) PROVE kept = Rest(s, n)
  <2>1. PICK m \in 0 .. Len(s) : kept = Rest(s, m)
    BY SuffixesAreRests
  <2>2. n <= m
    BY <1>2, <1>4, <2>1
  <2>3. Len(Rest(s, n)) <= Len(kept)
    BY <1>0, <1>1, <1>4 DEF IsNewest
  <2>4. Len(kept) = Len(s) - m /\ Len(Rest(s, n)) = Len(s) - n
    BY <1>0, <1>1, <2>1
  <2>5. m = n
    BY <1>0, <2>2, <2>3, <2>4
  <2> QED BY <2>1, <2>5
<1>5. Newest(s) = CHOOSE kept \in Suffixes(s) : Longest(kept)
  BY DEF Newest
<1>6. Rest(s, n) \in Suffixes(s)
  BY <1>0, <1>1
<1> HIDE DEF Longest
<1> QED BY <1>3, <1>4, <1>5, <1>6

(* Trimming after each event is as good as trimming all of them at once:   *)
(* what once did not fit does not fit with another event behind it.        *)
LEMMA NewestGrows ==
    ASSUME NEW s \in Seq(Nat), NEW m \in Nat, NEW l, IsNewest(s, l)
    PROVE  \E n : IsNewest(Append(s, m), n)
                  /\ AppendEvent(RingOf(s, l), m) = RingOf(Append(s, m), n)
<1> DEFINE t == Append(s, m)
           u == Rest(t, l)
<1>0. Len(s) \in Nat /\ l \in 0 .. Len(s) /\ l \in Nat /\ 0 .. Len(s) \subseteq 0 .. Len(s) + 1
  BY LenProperties DEF IsNewest
<1>1. /\ t \in Seq(Nat) /\ Len(t) = Len(s) + 1
      /\ \A k \in 0 .. Len(s) : /\ Append(Rest(s, k), m) = Rest(t, k)
                                /\ Bytes(Rest(t, k)) = Bytes(Rest(s, k)) + m
  BY <1>0, RestOfAppend
<1> HIDE DEF t
<1>2. u \in Seq(Nat) /\ Len(u) = Len(t) - l
  BY <1>0, <1>1, RestFacts
<1>3. AppendEvent(RingOf(s, l), m) = TrimToCapacity(RingOf(u, 0))
  <2>1. Rest(u, 0) = u
    BY <1>2, SubSeqFull DEF Rest
  <2>2. Append(Rest(s, l), m) = u /\ Bytes(Rest(s, l)) + m = Bytes(u)
    BY <1>0, <1>1
  <2> QED BY <2>1, <2>2 DEF AppendEvent, RingOf
<1>4. PICK n : IsNewest(u, n) /\ TrimToCapacity(RingOf(u, 0)) = RingOf(u, n)
  BY <1>2, TrimKeepsTheNewest
<1>5. n \in 0 .. Len(t) - l /\ n \in Nat /\ l + n \in 0 .. Len(t) /\ l \in 0 .. Len(t)
  <2>1. n \in 0 .. Len(u)
    BY <1>4 DEF IsNewest
  <2> QED BY <1>0, <1>1, <1>2, <2>1
<1>6. ASSUME NEW k \in 0 .. Len(t) - l PROVE Rest(u, k) = Rest(t, l + k)
  BY <1>1, <1>5, RestOfRest
<1>7. RingOf(u, n) = RingOf(t, l + n)
  BY <1>5, <1>6 DEF RingOf
<1>8. ASSUME NEW k \in 0 .. (l + n) - 1 PROVE ~ Fits(Rest(t, k))
  <2>1. CASE k < l
    <3>1. k \in 0 .. l - 1 /\ k \in 0 .. Len(s) /\ k \in 0 .. Len(t)
      BY <1>0, <1>1, <2>1
    <3>2. ~ Fits(Rest(s, k))
      BY <3>1 DEF IsNewest
    <3>3. /\ Len(Rest(s, k)) = Len(s) - k /\ Len(Rest(t, k)) = Len(t) - k
          /\ Bytes(Rest(t, k)) = Bytes(Rest(s, k)) + m /\ Bytes(Rest(s, k)) \in Nat
      BY <1>1, <3>1, RestFacts, BytesOfRest
    <3>4. Len(Rest(t, k)) = Len(Rest(s, k)) + 1 /\ Len(Rest(s, k)) \in Nat
      BY <1>0, <1>1, <3>1, <3>3
    <3> QED BY <3>2, <3>3, <3>4, DiagnosticsAssumption DEF Fits
  <2>2. CASE ~ (k < l)
    <3>1. k - l \in 0 .. n - 1 /\ k - l \in 0 .. Len(t) - l /\ l + (k - l) = k
      BY <1>0, <1>1, <1>5, <2>2
    <3>2. ~ Fits(Rest(u, k - l))
      BY <1>4, <3>1 DEF IsNewest
    <3>3. Rest(u, k - l) = Rest(t, k)
      BY <1>6, <3>1
    <3> QED BY <3>2, <3>3
  <2> QED BY <2>1, <2>2
<1>9. IsNewest(t, l + n)
  <2>1. Fits(Rest(t, l + n))
    BY <1>4, <1>5, <1>6 DEF IsNewest
  <2> QED BY <1>5, <1>8, <2>1 DEF IsNewest
<1> QED BY <1>3, <1>4, <1>7, <1>9 DEF t

-------------------------------------------------------------------------------
(* The ring of every app holds the newest of what was said.                *)
RingInv ==
    /\ said \in [Apps -> Seq(Nat)]
    /\ DOMAIN ring = Apps /\ ring = [r \in Apps |-> ring[r]]
    /\ \A r \in Apps : \E n : IsNewest(said[r], n) /\ ring[r] = RingOf(said[r], n)

LEMMA InitRingInv == Init => RingInv
<1> SUFFICES ASSUME Init PROVE RingInv
  OBVIOUS
<1>1. <<>> \in Seq(Nat) /\ Len(<<>>) = 0
  BY EmptySeq
<1>2. Rest(<<>>, 0) = <<>>
  BY <1>1, SubSeqEmpty DEF Rest
<1>3. IsNewest(<<>>, 0)
  BY <1>1, <1>2 DEF IsNewest, Fits
<1>4. RingOf(<<>>, 0) = NewRing
  BY <1>1, <1>2, SumsFacts DEF RingOf, NewRing, Bytes
<1> QED BY <1>1, <1>3, <1>4 DEF Init, RingInv

LEMMA SayKeepsRingInv ==
    ASSUME RingInv, NEW r \in Apps, NEW size \in Nat, Say(r, size) PROVE RingInv'
<1> USE DEF RingInv
<1>1. /\ ring' = [ring EXCEPT ![r] = AppendEvent(ring[r], size)]
      /\ said' = [said EXCEPT ![r] = Append(said[r], size)]
  BY DEF Say
<1>2. PICK l : IsNewest(said[r], l) /\ ring[r] = RingOf(said[r], l)
  OBVIOUS
<1>3. said[r] \in Seq(Nat) /\ Append(said[r], size) \in Seq(Nat)
  BY AppendProperties
<1>4. \E n : /\ IsNewest(Append(said[r], size), n)
             /\ AppendEvent(ring[r], size) = RingOf(Append(said[r], size), n)
  BY <1>2, <1>3, NewestGrows
<1>5. said' \in [Apps -> Seq(Nat)] /\ DOMAIN ring' = Apps /\ ring' = [q \in Apps |-> ring'[q]]
  BY <1>1, <1>3
<1>6. ASSUME NEW q \in Apps PROVE \E n : IsNewest(said'[q], n) /\ ring'[q] = RingOf(said'[q], n)
  <2>1. CASE q = r
    BY <1>1, <1>4, <2>1
  <2>2. CASE q # r
    BY <1>1, <2>2
  <2> QED BY <2>1, <2>2
<1> QED BY <1>5, <1>6

(* Every step appends one event to one ring, or none to any.               *)
LEMMA StepSays ==
    ASSUME [Next]_vars
    PROVE  \/ UNCHANGED <<ring, said>>
           \/ \E r \in Apps, size \in Nat : Say(r, size)
<1>1. CASE UNCHANGED vars
  BY <1>1 DEF vars, diagVars
<1>2. ASSUME NEW r \in Apps, SpawnFails(r) \/ SeeExit(r) \/ ReadReady(r) \/ GiveUp(r) \/ RemoveOwn(r)
      PROVE  \E size \in Nat : Say(r, size)
  BY <1>2, HandshakeAssumption
     DEF SpawnFails, SeeExit, ReadReady, GiveUp, RemoveOwn, ReportStart
<1>3. ASSUME NEW r \in Apps, Line(r) PROVE \E size \in Nat : Say(r, size)
  BY <1>3, HandshakeAssumption DEF Line
<1>4. ASSUME NEW r \in Apps,
             \/ RemoveStale(r) \/ PrepareFails(r) \/ Spawn(r) \/ SeeRunning(r) \/ PollAgain(r)
             \/ Close(r) \/ Kill(r) \/ CloseDegraded(r) \/ Crash(r) \/ GatewayStep(r)
      PROVE  UNCHANGED <<ring, said>>
  BY <1>4 DEF RemoveStale, PrepareFails, Spawn, SeeRunning, PollAgain, Close, Kill, CloseDegraded, Crash,
     GatewayStep, UnlinkOld, StartWatch, WriteTemp, Replace, HandleShutdown, NoticeHostGone,
     OnShutdown, StopServing, Finish, Die, diagVars
<1>5. ASSUME NEW r \in Apps, ReadOther(r)
      PROVE  UNCHANGED <<ring, said>> \/ \E size \in Nat : Say(r, size)
  BY <1>5, HandshakeAssumption DEF ReadOther, ReportStart, diagVars
<1> QED BY <1>1, <1>2, <1>3, <1>4, <1>5 DEF Next, HostStep, StartStep

LEMMA NextRingInv == RingInv /\ [Next]_vars => RingInv'
<1> SUFFICES ASSUME RingInv, [Next]_vars PROVE RingInv'
  OBVIOUS
<1>1. CASE UNCHANGED <<ring, said>>
  BY <1>1 DEF RingInv
<1> QED BY <1>1, StepSays, SayKeepsRingInv

(* The ring holds the newest of all that was ever said, as much of it as   *)
(* fits, for any limits and any messages, and counts the bytes it holds.   *)
THEOREM RingIsNewest == Spec => []RingKeepsTheNewest
<1>1. RingInv => RingKeepsTheNewest
  <2> SUFFICES ASSUME RingInv, NEW r \in Apps
               PROVE  ring[r].events = Newest(said[r]) /\ ring[r].total = Bytes(ring[r].events)
    BY DEF RingKeepsTheNewest
  <2>1. PICK n : IsNewest(said[r], n) /\ ring[r] = RingOf(said[r], n)
    BY DEF RingInv
  <2>2. Newest(said[r]) = Rest(said[r], n)
    BY <2>1, NewestIs DEF RingInv
  <2> QED BY <2>1, <2>2 DEF RingOf
<1> QED BY <1>1, InitRingInv, NextRingInv, PTL DEF Spec
===============================================================================
