----------------------------- MODULE Client_proofs -----------------------------
(***************************************************************************)
(* Proofs about the two halves of the UI's gateway client                  *)
(* (frontend/src/api/client.ts): for any requests and any time to live,    *)
(* that a call is executed again only if its route asked for it, and that  *)
(* it survives the expiry of its token; for any streams and texts, that it *)
(* makes no difference where the chunks of a stream end, what the view     *)
(* shows of each stream, that the parser reads a text with one kind of     *)
(* line end line by line, which on conventional lines is what the standard *)
(* of event streams says, and that the demo's events arrive.               *)
(***************************************************************************)
EXTENDS TokenRefresh, SseStream, SequenceTheorems, WellFoundedInduction, TLAPS

(* What a request has behind it, by the place it is at.  The age of the    *)
(* token of a retry is no more than the time its call has taken.           *)
RequestOK(r) ==
    /\ executed[r] <= 2 /\ (executed[r] = 2 => asked[r])
    /\ pc[r] \in {"refreshing", "issued"} => ~ retried[r]
    /\ pc[r] \in {"resolving", "sent", "expired", "refreshing", "issued"} /\ (retried[r] => pc[r] = "sent")
         => executed[r] <= 1 /\ (executed[r] = 1 => asked[r])
    /\ pc[r] # "idle" => outcome[r] = "none"
    /\ pc[r] = "resolving" => ~ expired[r] /\ ~ retried[r]
    /\ pc[r] \in {"resolving", "sent"} /\ ~ retried[r] => executed[r] = 0
    /\ ~ enforced /\ pc[r] \in {"ok", "denied", "error", "rejected"} => ~ expired[r]
    /\ pc[r] = "issued" \/ (pc[r] = "sent" /\ retried[r]) => token[r] + elapsed[r] >= Ttl
    /\ pc[r] = "expired" /\ retried[r] /\ expired[r] => elapsed[r] >= Ttl
    /\ ~ enforced /\ ~ stream[r] /\ outcome[r] = "failed" /\ expired[r] => elapsed[r] >= Ttl

TInv ==
    /\ TypeOK
    /\ \A r \in Requests : RequestOK(r)

LEMMA TokenFacts ==
    /\ Ttl \in Nat /\ Ttl > 0 /\ MaxElapsed \in Nat /\ MaxElapsed >= Ttl
    /\ NoToken \notin 0 .. Ttl
    /\ Ttl \in 0 .. Ttl /\ 0 \in 0 .. Ttl /\ 0 \in 0 .. MaxElapsed
BY TokenAssumption

(* A tick takes nothing from the sum of a token and the time of its call.  *)
LEMMA OlderFacts ==
    ASSUME NEW n \in 0 .. Ttl
    PROVE  /\ Older(n) \in 0 .. Ttl
           /\ n > 0 => Older(n) = n - 1
           /\ n = 0 => Older(n) = 0
BY TokenFacts DEF Older

LEMMA InitTInv == Init => TInv
BY TokenFacts DEF Init, TInv, TypeOK, RequestOK, Promises, Places, Outcomes

(* A step that leaves a request as it is.                                  *)
Same(q) ==
    /\ enforced' = enforced /\ stream'[q] = stream[q] /\ pc'[q] = pc[q] /\ token'[q] = token[q]
    /\ retried'[q] = retried[q] /\ outcome'[q] = outcome[q] /\ expired'[q] = expired[q]
    /\ executed'[q] = executed[q] /\ asked'[q] = asked[q] /\ elapsed'[q] = elapsed[q]

LEMMA SameKeepsRequest ==
    ASSUME NEW q \in Requests, RequestOK(q), Same(q)
    PROVE  RequestOK(q)'
BY DEF Same, RequestOK

LEMMA OthersAreSame ==
    ASSUME TypeOK, NEW r \in Requests, Call(r) \/ Serve(r) \/ Receive(r),
           NEW q \in Requests, q # r
    PROVE  Same(q)
<1> USE DEF TypeOK, Same, Move, fixed, history
<1>1. ASSUME Call(r) PROVE Same(q)
  BY <1>1 DEF Call, CallWithConfig, CallWithoutConfig, CallAfterRejection, Begin
<1>2. ASSUME Serve(r) PROVE Same(q)
  BY <1>2 DEF Serve, Refuse, Execute, Lose
<1>3. ASSUME Receive(r) PROVE Same(q)
  BY <1>3 DEF Receive, Succeed, Fail, Renew, Issue, Retry, End
<1> QED BY <1>1, <1>2, <1>3

LEMMA CallKeepsTInv ==
    ASSUME TInv, NEW r \in Requests, Call(r)
    PROVE  TInv'
<1> USE TokenFacts DEF TInv, TypeOK, Begin, Move, fixed
<1>1. TypeOK'
  <2>1. CASE CallWithConfig(r)
    <3>1. window \in 0 .. Ttl
      BY <2>1 DEF CallWithConfig
    <3> QED BY <2>1, <3>1 DEF CallWithConfig, Places, Outcomes
  <2>2. CASE CallWithoutConfig(r)
    BY <2>2 DEF CallWithoutConfig, Places, Promises, Outcomes
  <2>3. CASE CallAfterRejection(r)
    BY <2>3 DEF CallAfterRejection, Outcomes
  <2> QED BY <2>1, <2>2, <2>3 DEF Call
<1>2. ASSUME NEW q \in Requests, q # r PROVE RequestOK(q)'
  BY <1>2, OthersAreSame, SameKeepsRequest
<1>3. /\ ~ expired'[r] /\ executed'[r] = 0 /\ ~ retried'[r] /\ pc'[r] \in {"idle", "sent", "resolving"}
      /\ pc'[r] # "idle" => outcome'[r] = "none"
  BY DEF Call, CallWithConfig, CallWithoutConfig, CallAfterRejection
<1>4. RequestOK(r)'
  BY <1>3 DEF RequestOK
<1> QED BY <1>1, <1>2, <1>4

LEMMA AnswerKeepsTInv ==
    ASSUME TInv, Resolve \/ Reject
    PROVE  TInv'
<1> USE TokenFacts DEF TInv, TypeOK, Resolve, Reject, fixed, history
<1>1. TypeOK'
  BY DEF Places, Promises, Outcomes
<1>2. ASSUME NEW q \in Requests, Resolve PROVE RequestOK(q)'
  <2>1. CASE pc[q] = "resolving"
    <3>1. /\ pc'[q] = "sent" /\ ~ expired'[q] /\ outcome'[q] = "none"
          /\ executed'[q] = executed[q] /\ asked'[q] = asked[q]
          /\ retried'[q] = retried[q] /\ token'[q] = startup /\ elapsed'[q] = elapsed[q]
      BY <1>2, <2>1 DEF RequestOK
    <3> QED BY <2>1, <3>1 DEF RequestOK
  <2>2. CASE pc[q] # "resolving"
    BY <1>2, <2>2, SameKeepsRequest DEF Same
  <2> QED BY <2>1, <2>2
<1>3. ASSUME NEW q \in Requests, Reject PROVE RequestOK(q)'
  BY <1>3 DEF RequestOK
<1> QED BY <1>1, <1>2, <1>3

LEMMA ServeKeepsTInv ==
    ASSUME TInv, NEW r \in Requests, Serve(r)
    PROVE  TInv'
<1> USE TokenFacts DEF TInv, TypeOK, Serve, Refuse, Execute, Lose, Move, fixed
<1>0. /\ pc[r] = "sent" /\ outcome[r] = "none"
      /\ executed[r] \in {0, 1} /\ (executed[r] = 1 => asked[r] /\ retried[r])
  BY DEF RequestOK
<1>1. TypeOK'
  <2>1. CASE Refuse(r)
    BY <2>1 DEF Places, Answers
  <2>2. CASE Execute(r)
    BY <2>2 DEF Places, Answers
  <2>3. CASE Lose(r)
    <3>1. PICK times \in {0, 1} : executed' = [executed EXCEPT ![r] = @ + times]
      BY <2>3
    <3>2. executed' \in [Requests -> Nat]
      BY <3>1
    <3> QED BY <2>3, <3>2 DEF Places, Answers
  <2> QED BY <2>1, <2>2, <2>3
<1>2. ASSUME NEW q \in Requests, q # r PROVE RequestOK(q)'
  BY <1>2, OthersAreSame, SameKeepsRequest
<1>3. ASSUME Refuse(r) PROVE RequestOK(r)'
  <2>1. ~ enforced => pc'[r] = "expired"
    BY <1>3 DEF Readable
  <2> QED BY <1>3, <2>1 DEF RequestOK
<1>4. ASSUME Execute(r) PROVE RequestOK(r)'
  <2>1. PICK answer \in {"ok", "denied", "error", "expired"} :
            pc'[r] = answer /\ asked'[r] = (asked[r] \/ answer = "expired")
    BY <1>4
  <2>2. executed'[r] = executed[r] + 1
    BY <1>4
  <2>3. ~ expired'[r] /\ UNCHANGED <<enforced, stream, retried, outcome, elapsed>>
    BY <1>4
  <2>4. executed'[r] <= 2 /\ (executed'[r] = 2 => executed[r] = 1)
    BY <1>0, <2>2
  <2>6. asked[r] \/ answer = "expired" => asked'[r]
    BY <2>1
  <2>5. pc'[r] = "expired" /\ ~ retried[r] => executed'[r] <= 1
    BY <1>0, <2>1, <2>2
  <2> QED BY <1>0, <2>1, <2>3, <2>4, <2>5, <2>6 DEF RequestOK
<1>5. ASSUME Lose(r) PROVE RequestOK(r)'
  <2>1. PICK times \in {0, 1} : executed'[r] = executed[r] + times
    BY <1>5
  <2>2. executed'[r] <= 2 /\ (executed'[r] = 2 => asked[r])
    BY <1>0, <2>1
  <2>3. /\ pc'[r] = "rejected" /\ ~ expired'[r]
        /\ UNCHANGED <<enforced, stream, retried, outcome, asked, elapsed>>
    BY <1>5
  <2> QED BY <1>0, <2>2, <2>3 DEF RequestOK
<1> QED BY <1>1, <1>2, <1>3, <1>4, <1>5

LEMMA ReceiveKeepsTInv ==
    ASSUME TInv, NEW r \in Requests, Receive(r)
    PROVE  TInv'
<1> USE TokenFacts DEF TInv, TypeOK, Move, fixed, history
<1>1. TypeOK'
  <2>1. CASE Succeed(r) \/ Fail(r)
    BY <2>1 DEF Succeed, Fail, End, Places, Outcomes
  <2>2. CASE Renew(r) \/ Issue(r)
    BY <2>2 DEF Renew, Issue, Places
  <2>3. CASE Retry(r)
    BY <2>3 DEF Retry, Places, Promises
  <2> QED BY <2>1, <2>2, <2>3 DEF Receive
<1>2. ASSUME NEW q \in Requests, q # r PROVE RequestOK(q)'
  BY <1>2, OthersAreSame, SameKeepsRequest
<1>3. ASSUME Succeed(r) PROVE RequestOK(r)'
  BY <1>3 DEF RequestOK, Succeed, End
<1>4. ASSUME Fail(r) PROVE RequestOK(r)'
  <2>1. /\ pc'[r] = "idle" /\ outcome'[r] = "failed" /\ enforced' = enforced
        /\ UNCHANGED <<stream, retried, expired, executed, asked, elapsed>>
    BY <1>4 DEF Fail, End
  <2>2. ~ enforced /\ ~ stream[r] /\ expired[r] => elapsed[r] >= Ttl
    <3>1. CASE pc[r] = "expired"
      BY <1>4, <3>1 DEF Fail, Renewable, RequestOK
    <3>2. CASE pc[r] # "expired"
      BY <1>4, <3>2 DEF Fail, RequestOK
    <3> QED BY <3>1, <3>2
  <2> QED BY <2>1, <2>2 DEF RequestOK
<1>5. ASSUME Renew(r) PROVE RequestOK(r)'
  BY <1>5 DEF RequestOK, Renew, Renewable
<1>6. ASSUME Issue(r) PROVE RequestOK(r)'
  BY <1>6 DEF RequestOK, Issue
<1>7. ASSUME Retry(r) PROVE RequestOK(r)'
  BY <1>7 DEF RequestOK, Retry
<1> QED BY <1>1, <1>2, <1>3, <1>4, <1>5, <1>6, <1>7 DEF Receive

LEMMA TickKeepsTInv ==
    ASSUME TInv, Tick
    PROVE  TInv'
<1> USE TokenFacts DEF TInv, TypeOK, Tick, fixed
<1>1. TypeOK'
  <2>1. startup' \in 0 .. Ttl /\ window' \in 0 .. Ttl \cup {NoToken}
    BY OlderFacts
  <2>2. token' \in [Requests -> 0 .. Ttl]
    BY OlderFacts
  <2> QED BY <2>1, <2>2
<1>2. ASSUME NEW q \in Requests PROVE RequestOK(q)'
  <2>1. /\ token'[q] = Older(token[q]) /\ token[q] \in 0 .. Ttl
        /\ elapsed[q] \in 0 .. MaxElapsed
        /\ elapsed'[q] >= elapsed[q]
        /\ pc[q] # "idle" => elapsed'[q] = elapsed[q] + 1 \/ elapsed'[q] >= Ttl
    OBVIOUS
  <2>2. token'[q] \in 0 .. Ttl /\ token'[q] >= token[q] - 1
    BY <2>1, OlderFacts
  <2>3. elapsed'[q] \in 0 .. MaxElapsed
    BY <1>1
  <2>4. pc[q] # "idle" /\ token[q] + elapsed[q] >= Ttl => token'[q] + elapsed'[q] >= Ttl
    BY <2>1, <2>2, <2>3
  <2>5. elapsed[q] >= Ttl => elapsed'[q] >= Ttl
    BY <2>1, <2>3
  <2> QED BY <2>4, <2>5 DEF RequestOK
<1> QED BY <1>1, <1>2

LEMMA NextTInv == TInv /\ [Next]_vars => TInv'
<1> SUFFICES ASSUME TInv, [Next]_vars PROVE TInv'
  OBVIOUS
<1>1. CASE UNCHANGED vars
  BY <1>1 DEF vars, history, TInv, TypeOK, RequestOK
<1> QED
  BY <1>1, CallKeepsTInv, AnswerKeepsTInv, ServeKeepsTInv, ReceiveKeepsTInv, TickKeepsTInv
  DEF Next

THEOREM TokenInvariance == Spec => []TInv
BY InitTInv, NextTInv, PTL DEF Spec

(* Type correctness of the UI's requests and tokens.                        *)
THEOREM TypeCorrect == Spec => []TypeOK
<1>1. TInv => TypeOK
  BY DEF TInv
<1> QED BY <1>1, TokenInvariance, PTL

(* A call is executed again only if its route has answered it as the        *)
(* gateway answers for an expired token, and at most once more.             *)
THEOREM NoUnaskedExecution == Spec => []ExecutedAgainOnlyIfAsked
<1>1. TInv => ExecutedAgainOnlyIfAsked
  BY DEF TInv, RequestOK, ExecutedAgainOnlyIfAsked
<1> QED BY <1>1, TokenInvariance, PTL

(* A readable refusal makes a call fail only if the call takes longer than  *)
(* a token lives.                                                           *)
THEOREM ExpiryIsSurvived == Spec => []SurvivesExpiry
<1>1. TInv => SurvivesExpiry
  BY DEF TInv, RequestOK, SurvivesExpiry
<1> QED BY <1>1, TokenInvariance, PTL

-------------------------------------------------------------------------------
(* Induction over the numbers up to N, for a set of them: of those outside  *)
(* it, one would be the least.                                              *)
LEMMA UpTo ==
    ASSUME NEW N \in Nat, NEW S,
           0 \in S, \A n \in 0 .. N : n # N /\ n \in S => n + 1 \in S
    PROVE  \A n \in 0 .. N : n \in S
<1> DEFINE Bad == {n \in 0 .. N : n \notin S}
<1> SUFFICES ASSUME Bad # {} PROVE FALSE
  OBVIOUS
<1>1. Bad \subseteq Nat
  OBVIOUS
<1>2. PICK m \in Bad : \A k \in Bad : ~ (<<k, m>> \in OpToRel(<, Nat))
  <2> HIDE DEF Bad
  <2> QED BY <1>1, NatLessThanWellFounded, WFMin
<1>3. \A k \in Bad : ~ (k < m)
  BY <1>1, <1>2 DEF OpToRel
<1>4. m # 0 /\ m \in 1 .. N /\ m - 1 \in 0 .. N /\ m - 1 # N /\ (m - 1) + 1 = m /\ m - 1 < m
  OBVIOUS
<1>5. m - 1 \in S
  BY <1>3, <1>4
<1>6. m \in S
  BY <1>4, <1>5
<1> QED BY <1>6

(* f is what the steps, N of them, make of base.                            *)
IsRun(f, N, A, base, step) ==
    /\ f \in [0 .. N -> A]
    /\ f[0] = base
    /\ \A n \in 1 .. N : f[n] = step[n][f[n - 1]]

(* A function that is given by its first value and by the step from each to *)
(* the next exists.                                                        *)
LEMMA StepsExist ==
    ASSUME NEW N \in Nat, NEW A, NEW base \in A, NEW step \in [1 .. N -> [A -> A]]
    PROVE  \E f : IsRun(f, N, A, base, step)
<1> DEFINE Piece(n, f) == /\ f \in [0 .. n -> A]
                          /\ f[0] = base
                          /\ \A i \in 1 .. n : f[i] = step[i][f[i - 1]]
           S == {n \in 0 .. N : \E f : Piece(n, f)}
<1>1. 0 \in S
  <2> DEFINE z == [n \in 0 .. 0 |-> base]
  <2>1. z \in [0 .. 0 -> A] /\ z[0] = base /\ \A i \in 1 .. 0 : FALSE
    OBVIOUS
  <2>2. Piece(0, z)
    BY <2>1
  <2> HIDE DEF z, Piece
  <2> QED BY <2>2
<1>2. ASSUME NEW n \in 0 .. N, n # N, n \in S PROVE n + 1 \in S
  <2>1. PICK f : Piece(n, f)
    BY <1>2
  <2>2. n + 1 \in 1 .. N /\ n \in 0 .. n /\ (n + 1) - 1 = n
    BY <1>2
  <2>3. f[n] \in A
    BY <2>1, <2>2
  <2> DEFINE v == step[n + 1][f[n]]
             g == [i \in 0 .. n + 1 |-> IF i = n + 1 THEN v ELSE f[i]]
  <2>4. v \in A
    BY <2>2, <2>3
  <2> HIDE DEF v
  <2>5. g \in [0 .. n + 1 -> A]
    BY <2>1, <2>4
  <2>6. g[0] = base
    BY <2>1, <2>2
  <2>7. ASSUME NEW i \in 1 .. n + 1 PROVE g[i] = step[i][g[i - 1]]
    <3>1. CASE i = n + 1
      <4>1. i - 1 = n /\ i \in 0 .. n + 1 /\ n \in 0 .. n + 1 /\ n # n + 1
        BY <2>2, <3>1
      <4>2. g[i] = v /\ g[i - 1] = f[n]
        BY <3>1, <4>1
      <4> QED BY <3>1, <4>2 DEF v
    <3>2. CASE i # n + 1
      <4>1. i \in 1 .. n /\ i \in 0 .. n + 1 /\ i - 1 \in 0 .. n + 1 /\ i - 1 # n + 1
        BY <1>2, <3>2
      <4> QED BY <2>1, <3>2, <4>1
    <3> QED BY <3>1, <3>2
  <2>8. Piece(n + 1, g)
    BY <2>5, <2>6, <2>7
  <2>9. n + 1 \in 0 .. N
    BY <2>2
  <2> HIDE DEF g, Piece
  <2> QED BY <2>8, <2>9
<1> HIDE DEF S
<1>3. N \in S
  <2>1. N \in 0 .. N
    OBVIOUS
  <2> QED BY <1>1, <1>2, <2>1, UpTo
<1> QED BY <1>3 DEF S, IsRun

(* Decoding. *)
Bytes == {LF, CR, Space, Tab, High, Low, Event, Data, EventName, DataName,
          "chunk", "chunk-1", "chunk-2", "chunk-3", "complete", "done", "e", "d", "v"}
Chars == Bytes \cup {Char, Replacement}
Carries == {<<>>, <<High>>}
Decodings == [carry : Carries, out : Seq(Chars)]

LEMMA DecodeByteType ==
    ASSUME NEW state \in Decodings, NEW byte \in Bytes PROVE DecodeByte(state, byte) \in Decodings
<1>1. state.carry \in Carries /\ state.out \in Seq(Chars)
  BY DEF Decodings
<1>2. <<>> \in Seq(Chars) /\ <<Char>> \in Seq(Chars) /\ <<Replacement>> \in Seq(Chars) /\ <<byte>> \in Seq(Chars)
  BY DEF Chars
<1>3. Append(state.out, Char) \in Seq(Chars)
  BY <1>1 DEF Chars
<1>4. \A x, y \in Seq(Chars) : (state.out \o x) \o y \in Seq(Chars)
  BY <1>1
<1> HIDE DEF Chars
<1> QED BY <1>1, <1>2, <1>3, <1>4 DEF DecodeByte, Decodings, Carries

DecodedUpTo(first, bytes) ==
    CHOOSE f : f = [n \in 0 .. Len(bytes) |-> IF n = 0 THEN [carry |-> first, out |-> <<>>]
                                              ELSE DecodeByte(f[n - 1], bytes[n])]

LEMMA DecodeBytesDef ==
    ASSUME NEW first, NEW bytes
    PROVE  DecodeBytes(first, bytes) = DecodedUpTo(first, bytes)[Len(bytes)]
BY DEF DecodeBytes, Fold, DecodedUpTo

LEMMA DecodedFacts ==
    ASSUME NEW first \in Carries, NEW bytes \in Seq(Bytes)
    PROVE  /\ DecodedUpTo(first, bytes) \in [0 .. Len(bytes) -> Decodings]
           /\ DecodedUpTo(first, bytes)[0] = [carry |-> first, out |-> <<>>]
           /\ \A n \in 1 .. Len(bytes) :
                 DecodedUpTo(first, bytes)[n] = DecodeByte(DecodedUpTo(first, bytes)[n - 1], bytes[n])
<1> DEFINE base == [carry |-> first, out |-> <<>>]
           N == Len(bytes)
           step == [n \in 1 .. N |-> [state \in Decodings |-> DecodeByte(state, bytes[n])]]
           F == DecodedUpTo(first, bytes)
<1>1. base \in Decodings
  BY DEF Decodings
<1>2. N \in Nat /\ \A n \in 1 .. N : bytes[n] \in Bytes
  BY LenProperties
<1> HIDE DEF N, base
<1>3. step \in [1 .. N -> [Decodings -> Decodings]]
  BY <1>2, DecodeByteType
<1>4. PICK f : IsRun(f, N, Decodings, base, step)
  <2> HIDE DEF step, F
  <2>1. N \in Nat
    BY <1>2
  <2> QED BY ONLY <1>1, <1>3, <2>1, StepsExist
<1>5. ASSUME NEW n \in 1 .. N PROVE f[n] = DecodeByte(f[n - 1], bytes[n])
  <2>1. f[n - 1] \in Decodings
    BY <1>2, <1>4 DEF IsRun
  <2> QED BY <1>4, <2>1 DEF IsRun
<1>6. f = [n \in 0 .. N |-> IF n = 0 THEN base ELSE DecodeByte(f[n - 1], bytes[n])]
  BY <1>2, <1>4, <1>5 DEF IsRun
<1>7. F = [n \in 0 .. N |-> IF n = 0 THEN base ELSE DecodeByte(F[n - 1], bytes[n])]
  BY <1>6 DEF DecodedUpTo, N, base
<1> HIDE DEF F
<1>8. F[0] = base /\ \A n \in 1 .. N : F[n] = DecodeByte(F[n - 1], bytes[n])
  BY <1>2, <1>7
<1> DEFINE S == {n \in 0 .. N : F[n] \in Decodings}
<1>9. 0 \in S
  BY <1>1, <1>2, <1>8
<1>10. ASSUME NEW n \in 0 .. N, n # N, n \in S PROVE n + 1 \in S
  <2>1. n + 1 \in 1 .. N /\ (n + 1) - 1 = n
    BY <1>2, <1>10
  <2>2. F[n + 1] \in Decodings
    BY <1>2, <1>8, <1>10, <2>1, DecodeByteType
  <2> QED BY <2>1, <2>2
<1>11. \A n \in 0 .. N : F[n] \in Decodings
  <2>1. \A n \in 0 .. N : n \in S
    <3> HIDE DEF S
    <3> QED BY <1>2, <1>9, <1>10, UpTo
  <2> QED BY <2>1
<1>12. F \in [0 .. N -> Decodings]
  BY <1>7, <1>11
<1> QED BY <1>8, <1>12 DEF F, N, base

LEMMA DecodeBytesType ==
    ASSUME NEW first \in Carries, NEW bytes \in Seq(Bytes)
    PROVE  DecodeBytes(first, bytes) \in Decodings
<1>1. Len(bytes) \in 0 .. Len(bytes)
  BY LenProperties
<1> QED BY <1>1, DecodedFacts, DecodeBytesDef

(* Output joined in front of what was decoded. *)
After(out, state) == [carry |-> state.carry, out |-> out \o state.out]

LEMMA DecodeByteAfter ==
    ASSUME NEW out \in Seq(Chars), NEW state \in Decodings, NEW byte \in Bytes
    PROVE  DecodeByte(After(out, state), byte) = After(out, DecodeByte(state, byte))
<1>1. state.carry \in Carries /\ state.out \in Seq(Chars)
  BY DEF Decodings
<1>2. <<>> \in Seq(Chars) /\ <<Replacement>> \in Seq(Chars) /\ <<byte>> \in Seq(Chars)
  BY DEF Chars
<1>3. Char \in Chars
  BY DEF Chars
<1> HIDE DEF Chars
<1> DEFINE p == state.out
<1> HIDE DEF p
<1>0. p \in Seq(Chars)
  BY <1>1 DEF p
<1>4. Append(out \o p, Char) = out \o Append(p, Char)
  <2>1. /\ out \o p \in Seq(Chars) /\ <<Char>> \in Seq(Chars)
        /\ Append(p, Char) = p \o <<Char>>
        /\ Append(out \o p, Char) = (out \o p) \o <<Char>>
    BY <1>0, <1>3, AppendIsConcat, ConcatProperties
  <2> QED BY <1>0, <2>1, ConcatAssociative
<1>5. ASSUME NEW x \in Seq(Chars), NEW y \in Seq(Chars)
      PROVE  ((out \o p) \o x) \o y = out \o ((p \o x) \o y)
  <2> DEFINE z == p \o x
  <2>1. z \in Seq(Chars)
    BY <1>0, ConcatProperties
  <2>2. (out \o p) \o x = out \o z
    BY <1>0, ConcatAssociative
  <2> HIDE DEF z
  <2>3. (out \o z) \o y = out \o (z \o y)
    BY <2>1, ConcatAssociative
  <2> QED BY <2>2, <2>3 DEF z
<1>6. CASE byte = Low /\ state.carry # <<>>
  BY <1>4, <1>6 DEF After, DecodeByte, p
<1>7. CASE ~ (byte = Low /\ state.carry # <<>>)
  <2> DEFINE broken == IF state.carry = <<>> THEN <<>> ELSE <<Replacement>>
             added == IF byte = High THEN <<>> ELSE IF byte = Low THEN <<Replacement>> ELSE <<byte>>
  <2>1. broken \in Seq(Chars) /\ added \in Seq(Chars)
    BY <1>2
  <2>2. DecodeByte(state, byte) = [carry |-> IF byte = High THEN <<High>> ELSE <<>>,
                                   out |-> (state.out \o broken) \o added]
    BY <1>7 DEF DecodeByte
  <2>3. DecodeByte(After(out, state), byte) =
            [carry |-> IF byte = High THEN <<High>> ELSE <<>>,
             out |-> ((out \o state.out) \o broken) \o added]
    BY <1>7 DEF DecodeByte, After
  <2> HIDE DEF broken, added
  <2>4. ((out \o p) \o broken) \o added = out \o ((p \o broken) \o added)
    BY <1>5, <2>1
  <2> QED BY <2>2, <2>3, <2>4 DEF After, p
<1> QED BY <1>6, <1>7

(* To decode in two pieces is to decode the whole.                         *)
LEMMA DecodeInPieces ==
    ASSUME NEW first \in Carries, NEW a \in Seq(Bytes), NEW b \in Seq(Bytes)
    PROVE  DecodeBytes(first, a \o b)
             = After(DecodeBytes(first, a).out, DecodeBytes(DecodeBytes(first, a).carry, b))
<1> DEFINE x == DecodeBytes(first, a)
           F == DecodedUpTo(first, a \o b)
           G == DecodedUpTo(first, a)
           H == DecodedUpTo(x.carry, b)
           M == Len(a)
           N == Len(b)
<1>1. /\ M \in Nat /\ N \in Nat
      /\ \A i \in 1 .. M : a[i] \in Bytes
      /\ \A i \in 1 .. N : b[i] \in Bytes
  BY LenProperties
<1>2. /\ a \o b \in Seq(Bytes) /\ Len(a \o b) = M + N
      /\ \A i \in 1 .. M + N : (a \o b)[i] = IF i <= M THEN a[i] ELSE b[i - M]
  BY ConcatProperties
<1>3. x \in Decodings /\ x.carry \in Carries /\ x.out \in Seq(Chars)
  BY DecodeBytesType DEF Decodings
<1>4. /\ G \in [0 .. M -> Decodings] /\ G[0] = [carry |-> first, out |-> <<>>]
      /\ \A n \in 1 .. M : G[n] = DecodeByte(G[n - 1], a[n])
  BY DecodedFacts
<1>5. /\ F[0] = [carry |-> first, out |-> <<>>]
      /\ \A n \in 1 .. M + N : F[n] = DecodeByte(F[n - 1], (a \o b)[n])
  BY <1>2, DecodedFacts
<1> HIDE DEF x
<1>6. /\ H \in [0 .. N -> Decodings] /\ H[0] = [carry |-> x.carry, out |-> <<>>]
      /\ \A n \in 1 .. N : H[n] = DecodeByte(H[n - 1], b[n])
  BY <1>3, DecodedFacts
<1>7. G[M] = x /\ F[M + N] = DecodeBytes(first, a \o b) /\ H[N] = DecodeBytes(x.carry, b)
  BY <1>2, DecodeBytesDef DEF x
<1> HIDE DEF F, G, H, M, N
<1> DEFINE S == {n \in 0 .. M : F[n] = G[n]}
           T == {n \in 0 .. N : F[M + n] = After(x.out, H[n])}
<1>8. 0 \in S
  BY <1>1, <1>4, <1>5
<1>9. ASSUME NEW n \in 0 .. M, n # M, n \in S PROVE n + 1 \in S
  <2>1. n + 1 \in 1 .. M /\ n + 1 \in 0 .. M /\ n + 1 \in 1 .. M + N /\ n + 1 <= M /\ (n + 1) - 1 = n
    BY <1>1, <1>9
  <2>2. F[n + 1] = G[n + 1]
    BY <1>2, <1>4, <1>5, <1>9, <2>1
  <2> QED BY <2>1, <2>2
<1>10. M \in S
  <2>1. M \in 0 .. M
    BY <1>1
  <2> HIDE DEF S
  <2> QED BY <1>1, <1>8, <1>9, <2>1, UpTo
<1>11. 0 \in T
  <2>1. F[M] = x /\ M + 0 = M /\ 0 \in 0 .. N
    BY <1>1, <1>7, <1>10
  <2>2. x = [carry |-> x.carry, out |-> x.out]
    BY <1>3 DEF Decodings
  <2> DEFINE p == x.out
  <2>3. p \in Seq(Chars)
    BY <1>3
  <2> HIDE DEF p
  <2>4. p \o <<>> = p
    BY <2>3, ConcatEmptySeq
  <2>5. After(x.out, H[0]) = [carry |-> x.carry, out |-> x.out \o <<>>]
    BY <1>6 DEF After
  <2>6. F[M + 0] = After(x.out, H[0])
    BY <2>1, <2>2, <2>4, <2>5 DEF p
  <2> QED BY <2>1, <2>6
<1>12. ASSUME NEW n \in 0 .. N, n # N, n \in T PROVE n + 1 \in T
  <2>1. /\ n + 1 \in 1 .. N /\ n + 1 \in 0 .. N /\ (n + 1) - 1 = n
        /\ M + (n + 1) \in 1 .. M + N /\ ~ (M + (n + 1) <= M)
        /\ (M + (n + 1)) - 1 = M + n /\ (M + (n + 1)) - M = n + 1
    BY <1>1, <1>12
  <2>2. F[M + (n + 1)] = DecodeByte(F[M + n], b[n + 1])
    BY <1>2, <1>5, <2>1
  <2>3. H[n + 1] = DecodeByte(H[n], b[n + 1]) /\ H[n] \in Decodings /\ b[n + 1] \in Bytes
    BY <1>1, <1>6, <2>1
  <2>4. F[M + n] = After(x.out, H[n])
    BY <1>12
  <2>5. F[M + (n + 1)] = After(x.out, H[n + 1])
    BY <1>3, <2>2, <2>3, <2>4, DecodeByteAfter
  <2> QED BY <2>1, <2>5
<1>13. N \in T
  <2>1. N \in 0 .. N
    BY <1>1
  <2> HIDE DEF T
  <2> QED BY <1>1, <1>11, <1>12, <2>1, UpTo
<1>14. F[M + N] = After(x.out, H[N])
  BY <1>13
<1> QED BY <1>7, <1>14 DEF x

LEMMA FlushedFacts ==
    ASSUME NEW state \in Decodings
    PROVE  /\ Flushed(state).carry = <<>>
           /\ Flushed(state) \in Decodings
           /\ \A out \in Seq(Chars) : Flushed(After(out, state)) = After(out, Flushed(state))
<1>1. state.carry \in Carries /\ state.out \in Seq(Chars) /\ Replacement \in Chars
  BY DEF Decodings, Chars
<1> DEFINE p == state.out
<1> HIDE DEF p
<1>2. p \in Seq(Chars) /\ Append(p, Replacement) \in Seq(Chars)
  BY <1>1, AppendProperties DEF p
<1>3. ASSUME NEW out \in Seq(Chars)
      PROVE  Append(out \o p, Replacement) = out \o Append(p, Replacement)
  <2>1. /\ out \o p \in Seq(Chars) /\ <<Replacement>> \in Seq(Chars)
        /\ Append(p, Replacement) = p \o <<Replacement>>
        /\ Append(out \o p, Replacement) = (out \o p) \o <<Replacement>>
    BY <1>1, <1>2, AppendIsConcat, ConcatProperties
  <2> QED BY <1>2, <2>1, ConcatAssociative
<1> QED BY <1>1, <1>2, <1>3 DEF Flushed, After, Decodings, Carries, p

(* Induction from the end. *)
LEMMA FromTheEnd ==
    ASSUME NEW N \in Nat, NEW S, \A n \in 1 .. N : (\A m \in n + 1 .. N : m \in S) => n \in S
    PROVE  \A n \in 1 .. N : n \in S
<1> DEFINE T == {k \in 0 .. N : \A m \in (N - k) + 1 .. N : m \in S}
<1>1. 0 \in T
  OBVIOUS
<1>2. ASSUME NEW k \in 0 .. N, k # N, k \in T PROVE k + 1 \in T
  <2>1. N - k \in 1 .. N /\ k + 1 \in 0 .. N /\ (N - (k + 1)) + 1 = N - k
    BY <1>2
  <2>2. N - k \in S
    BY <1>2, <2>1
  <2>3. ASSUME NEW m \in N - k .. N PROVE m \in S
    <3>1. m = N - k \/ m \in (N - k) + 1 .. N
      BY <2>1
    <3> QED BY <1>2, <2>2, <3>1
  <2> QED BY <2>1, <2>3
<1>3. N \in 0 .. N /\ (N - N) + 1 = 1
  OBVIOUS
<1>4. N \in T
  <2> HIDE DEF T
  <2> QED BY <1>1, <1>2, <1>3, UpTo
<1> QED BY <1>3, <1>4

(* Delimiters. *)
IsLF(string, i) ==
    i \in 1 .. Len(string) - 1 /\ string[i] = LF /\ string[i + 1] = LF

IsCRLF(string, i) ==
    /\ i \in 1 .. Len(string) - 3
    /\ string[i] = CR /\ string[i + 1] = LF /\ string[i + 2] = CR /\ string[i + 3] = LF

Delimits(string, b) ==
    \E i \in 1 .. Len(string) :
        \/ b = [index |-> i, length |-> 2] /\ IsLF(string, i)
        \/ b = [index |-> i, length |-> 4] /\ IsCRLF(string, i)

LEMMA BoundariesAre ==
    ASSUME NEW string \in Seq(Chars)
    PROVE  \A b : b \in Boundaries(string) <=> Delimits(string, b)
<1>1. Len(string) \in Nat
  BY LenProperties
<1>2. \A i : i \in At(<<LF, LF>>, string) <=> IsLF(string, i)
  BY <1>1 DEF At, IsLF
<1>3. \A i : i \in At(<<CR, LF, CR, LF>>, string) <=> IsCRLF(string, i)
  <2> DEFINE d == <<CR, LF, CR, LF>>
  <2>1. Len(d) = 4 /\ DOMAIN d = 1 .. 4 /\ d[1] = CR /\ d[2] = LF /\ d[3] = CR /\ d[4] = LF
    OBVIOUS
  <2> HIDE DEF d
  <2>2. \A i : i \in At(d, string) <=> /\ i \in 1 .. (Len(string) - 4) + 1
                                      /\ \A k \in 1 .. 4 : string[(i + k) - 1] = d[k]
    BY <2>1 DEF At
  <2>3. ASSUME NEW i \in 1 .. (Len(string) - 4) + 1
        PROVE  (\A k \in 1 .. 4 : string[(i + k) - 1] = d[k]) <=> IsCRLF(string, i)
    <3>1. (i + 1) - 1 = i /\ (i + 2) - 1 = i + 1 /\ (i + 3) - 1 = i + 2 /\ (i + 4) - 1 = i + 3
      BY <1>1
    <3>2. (\A k \in 1 .. 4 : string[(i + k) - 1] = d[k])
             <=> /\ string[(i + 1) - 1] = d[1] /\ string[(i + 2) - 1] = d[2]
                 /\ string[(i + 3) - 1] = d[3] /\ string[(i + 4) - 1] = d[4]
      <4>1. \A k \in 1 .. 4 : k = 1 \/ k = 2 \/ k = 3 \/ k = 4
        OBVIOUS
      <4> QED BY <4>1
    <3>3. i \in 1 .. Len(string) - 3
      BY <1>1
    <3> QED BY <2>1, <3>1, <3>2, <3>3 DEF IsCRLF
  <2>4. 1 .. (Len(string) - 4) + 1 = 1 .. Len(string) - 3
    BY <1>1
  <2>5. \A i : i \in At(d, string) <=> IsCRLF(string, i)
    BY <2>2, <2>3, <2>4 DEF IsCRLF
  <2> QED BY <2>5 DEF d
<1>4. Len(<<LF, LF>>) = 2 /\ Len(<<CR, LF, CR, LF>>) = 4
  OBVIOUS
<1>5. Boundaries(string) = {[index |-> i, length |-> 2] : i \in At(<<LF, LF>>, string)}
                             \cup {[index |-> i, length |-> 4] : i \in At(<<CR, LF, CR, LF>>, string)}
  BY <1>4 DEF Boundaries
<1>6. \A i : IsLF(string, i) \/ IsCRLF(string, i) => i \in 1 .. Len(string)
  BY <1>1 DEF IsLF, IsCRLF
<1> QED BY <1>2, <1>3, <1>5, <1>6 DEF Delimits

LEMMA BoundaryType ==
    ASSUME NEW string \in Seq(Chars), NEW b \in Boundaries(string)
    PROVE  /\ b.index \in 1 .. Len(string)
           /\ b.length \in {2, 4}
           /\ b.index + b.length \in 1 .. Len(string) + 1
           /\ b.index < b.index + b.length
           /\ b.index + b.length <= Len(string) + 1
           /\ b = [index |-> b.index, length |-> b.length]
           /\ b.length = 2 => IsLF(string, b.index)
           /\ b.length = 4 => IsCRLF(string, b.index)
<1>1. Len(string) \in Nat
  BY LenProperties
<1>2. PICK i \in 1 .. Len(string) :
          \/ b = [index |-> i, length |-> 2] /\ IsLF(string, i)
          \/ b = [index |-> i, length |-> 4] /\ IsCRLF(string, i)
  <2>1. b \in Boundaries(string)
    OBVIOUS
  <2>2. Delimits(string, b)
    BY <2>1, BoundariesAre
  <2> QED BY <2>2 DEF Delimits
<1>3. CASE b = [index |-> i, length |-> 2] /\ IsLF(string, i)
  BY <1>1, <1>3 DEF IsLF
<1>4. CASE b = [index |-> i, length |-> 4] /\ IsCRLF(string, i)
  BY <1>1, <1>4 DEF IsCRLF
<1> QED BY <1>2, <1>3, <1>4

LEMMA OneBoundaryAnIndex ==
    ASSUME NEW string \in Seq(Chars), NEW b \in Boundaries(string), NEW c \in Boundaries(string),
           b.index = c.index
    PROVE  b = c
<1>1. b.length = c.length
  BY BoundaryType DEF IsLF, IsCRLF, LF, CR
<1> QED BY <1>1, BoundaryType

(* The boundaries from a position on, and the first of them.               *)
FromOn(string, n) == {b \in Boundaries(string) : b.index >= n}

IsNext(string, n, b) ==
    /\ b \in FromOn(string, n)
    /\ \A c \in FromOn(string, n) : b.index <= c.index

LEMMA NextExists ==
    ASSUME NEW string \in Seq(Chars), NEW n \in Nat, FromOn(string, n) # {}
    PROVE  IsNext(string, n, FindNextBoundary(FromOn(string, n)))
<1> DEFINE I == {b.index : b \in FromOn(string, n)}
<1>1. I \subseteq Nat /\ I # {}
  <2>1. ASSUME NEW b \in FromOn(string, n) PROVE b.index \in Nat
    <3>1. b \in Boundaries(string)
      BY DEF FromOn
    <3>2. b.index \in 1 .. Len(string)
      BY <3>1, BoundaryType
    <3> QED BY <3>2
  <2> QED BY <2>1
<1>2. PICK m \in I : \A k \in I : ~ (<<k, m>> \in OpToRel(<, Nat))
  <2> HIDE DEF I
  <2> QED BY <1>1, NatLessThanWellFounded, WFMin
<1>3. \A k \in I : m <= k
  <2> HIDE DEF I
  <2>1. \A k \in I : ~ (k < m)
    BY <1>1, <1>2 DEF OpToRel
  <2> QED BY <1>1, <2>1
<1>4. \E b \in FromOn(string, n) : \A c \in FromOn(string, n) : b.index <= c.index
  BY <1>2, <1>3
<1> QED BY <1>4 DEF FindNextBoundary, IsNext

LEMMA NextIsFound ==
    ASSUME NEW string \in Seq(Chars), NEW n \in Nat, NEW b, IsNext(string, n, b)
    PROVE  FindNextBoundary(FromOn(string, n)) = b
<1>1. IsNext(string, n, FindNextBoundary(FromOn(string, n)))
  BY NextExists DEF IsNext
<1>2. FindNextBoundary(FromOn(string, n)).index = b.index
  <2>1. /\ FindNextBoundary(FromOn(string, n)) \in Boundaries(string) /\ b \in Boundaries(string)
        /\ FindNextBoundary(FromOn(string, n)).index <= b.index
        /\ b.index <= FindNextBoundary(FromOn(string, n)).index
    BY <1>1 DEF IsNext, FromOn
  <2>2. FindNextBoundary(FromOn(string, n)).index \in Nat /\ b.index \in Nat
    BY <2>1, BoundaryType
  <2> QED BY <2>1, <2>2
<1> QED BY <1>1, <1>2, OneBoundaryAnIndex DEF IsNext, FromOn

(* The inner loop. *)
Chunks == {Parse(frame)[1] : frame \in Seq(Chars)}
ExtractOutcomes == [chunks : Seq(Chunks), rest : Seq(Chars)]

LEMMA ParseType == \A frame \in Seq(Chars) : Parse(frame) \in Seq(Chunks)
<1> SUFFICES ASSUME NEW frame \in Seq(Chars) PROVE Parse(frame) \in Seq(Chunks)
  OBVIOUS
<1>1. PICK e : Parse(frame) = <<>> \/ Parse(frame) = <<e>>
  BY DEF Parse
<1>2. CASE Parse(frame) = <<>>
  BY <1>2
<1>3. CASE Parse(frame) = <<e>>
  <2>1. e = Parse(frame)[1]
    BY <1>3
  <2>2. e \in Chunks
    BY <2>1 DEF Chunks
  <2> QED BY <1>3, <2>2
<1> QED BY <1>1, <1>2, <1>3

Turn(string, n, f) ==
    LET b == FindNextBoundary(FromOn(string, n))
        others == f[b.index + b.length]
    IN  IF FromOn(string, n) = {}
        THEN [chunks |-> <<>>, rest |-> SubSeq(string, n, Len(string))]
        ELSE [chunks |-> Parse(SubSeq(string, n, b.index - 1)) \o others.chunks,
              rest |-> others.rest]

Extracted(string) == CHOOSE f : f = [n \in 1 .. Len(string) + 1 |-> Turn(string, n, f)]

LEMMA ExtractDef == ASSUME NEW string PROVE Extract(string) = Extracted(string)[1]
BY DEF Extract, Extracted, Turn, FromOn

LEMMA NextType ==
    ASSUME NEW string \in Seq(Chars), NEW n \in 1 .. Len(string) + 1, NEW b, IsNext(string, n, b)
    PROVE  /\ b \in Boundaries(string)
           /\ b.index \in n .. Len(string)
           /\ b.index + b.length \in n + 1 .. Len(string) + 1
           /\ b.index - 1 \in 0 .. Len(string)
<1>1. b \in Boundaries(string) /\ b.index >= n
  BY DEF IsNext, FromOn
<1>2. /\ b.index \in 1 .. Len(string) /\ b.length \in {2, 4}
      /\ b.index + b.length <= Len(string) + 1
  BY <1>1, BoundaryType
<1> QED BY <1>1, <1>2, LenProperties

LEMMA TurnSame ==
    ASSUME NEW string \in Seq(Chars), NEW n \in 1 .. Len(string) + 1, NEW f, NEW g,
           \A m \in n + 1 .. Len(string) + 1 : f[m] = g[m]
    PROVE  Turn(string, n, f) = Turn(string, n, g)
<1> DEFINE b == FindNextBoundary(FromOn(string, n))
<1>1. n \in Nat
  BY LenProperties
<1>2. CASE FromOn(string, n) = {}
  BY <1>2 DEF Turn
<1>3. CASE FromOn(string, n) # {}
  <2>1. IsNext(string, n, b)
    BY <1>1, <1>3, NextExists
  <2> HIDE DEF b
  <2>2. f[b.index + b.length] = g[b.index + b.length]
    BY <2>1, NextType
  <2> QED BY <1>3, <2>2 DEF Turn, b
<1> QED BY <1>2, <1>3

LEMMA ExtractedFacts ==
    ASSUME NEW string \in Seq(Chars)
    PROVE  \A n \in 1 .. Len(string) + 1 : Extracted(string)[n] = Turn(string, n, Extracted(string))
<1> DEFINE N == Len(string) + 1
           F == Extracted(string)
           Piece(n, f) == f = [i \in n .. N |-> Turn(string, i, f)]
           S == {n \in 1 .. N : \E f : Piece(n, f)}
<1>1. N \in Nat \ {0}
  BY LenProperties
<1> HIDE DEF N
<1>2. ASSUME NEW n \in 1 .. N, \A m \in n + 1 .. N : m \in S PROVE n \in S
  <2>1. PICK f : n = N \/ Piece(n + 1, f)
    <3>1. CASE n = N
      BY <3>1
    <3>2. CASE n # N
      <4>1. n + 1 \in n + 1 .. N
        BY <1>1, <3>2
      <4> QED BY <1>2, <4>1
    <3> QED BY <3>1, <3>2
  <2> DEFINE v == Turn(string, n, f)
             g == [i \in n .. N |-> IF i = n THEN v ELSE f[i]]
  <2>2. ASSUME NEW i \in n .. N PROVE g[i] = Turn(string, i, g)
    <3> HIDE DEF v
    <3>1. \A m \in i + 1 .. N : f[m] = g[m]
      BY <1>1
    <3>2. Turn(string, i, f) = Turn(string, i, g)
      <4>1. i \in 1 .. Len(string) + 1
        BY <1>1 DEF N
      <4>2. \A m \in i + 1 .. Len(string) + 1 : f[m] = g[m]
        BY <3>1 DEF N
      <4> HIDE DEF g
      <4> QED BY <4>1, <4>2, TurnSame
    <3>3. CASE i = n
      <4>1. g[i] = v
        BY <3>3
      <4> HIDE DEF g
      <4> QED BY <3>2, <3>3, <4>1 DEF v
    <3>4. CASE i # n
      <4>1. g[i] = f[i] /\ i \in n + 1 .. N /\ n # N
        BY <1>1, <3>4
      <4>2. f[i] = Turn(string, i, f)
        <5>1. f = [j \in n + 1 .. N |-> Turn(string, j, f)]
          BY <2>1, <4>1
        <5> QED BY <4>1, <5>1
      <4> HIDE DEF g
      <4> QED BY <3>2, <4>1, <4>2
    <3> QED BY <3>3, <3>4
  <2>3. g = [i \in n .. N |-> g[i]]
    OBVIOUS
  <2> HIDE DEF g
  <2>4. g = [i \in n .. N |-> Turn(string, i, g)]
    BY <2>2, <2>3
  <2> QED BY <2>4
<1>3. 1 \in S
  <2> HIDE DEF S
  <2>1. 1 \in 1 .. N /\ N \in Nat
    BY <1>1
  <2> QED BY <1>2, <2>1, FromTheEnd
<1>4. F = [n \in 1 .. N |-> Turn(string, n, F)]
  BY <1>3 DEF N, Extracted
<1> HIDE DEF F
<1>5. \A n \in 1 .. N : F[n] = Turn(string, n, F)
  BY <1>4
<1> QED BY <1>5 DEF F, N

LEMMA NoneLeft ==
    ASSUME NEW string \in Seq(Chars), NEW n \in 1 .. Len(string) + 1, FromOn(string, n) = {}
    PROVE  Extracted(string)[n] = [chunks |-> <<>>, rest |-> SubSeq(string, n, Len(string))]
BY ExtractedFacts DEF Turn

Before(frame, result) == [chunks |-> Parse(frame) \o result.chunks, rest |-> result.rest]

LEMMA OneMore ==
    ASSUME NEW string \in Seq(Chars), NEW n \in 1 .. Len(string) + 1, NEW b, IsNext(string, n, b)
    PROVE  Extracted(string)[n]
             = Before(SubSeq(string, n, b.index - 1), Extracted(string)[b.index + b.length])
<1>1. FromOn(string, n) # {} /\ n \in Nat
  BY LenProperties DEF IsNext
<1>2. FindNextBoundary(FromOn(string, n)) = b
  BY <1>1, NextIsFound
<1>3. Extracted(string)[n] = Turn(string, n, Extracted(string))
  BY ExtractedFacts
<1> QED BY <1>1, <1>2, <1>3 DEF Turn, Before

LEMMA NextOrNone ==
    ASSUME NEW string \in Seq(Chars), NEW n \in Nat
    PROVE  FromOn(string, n) = {} \/ \E b : IsNext(string, n, b)
BY NextExists

LEMMA PieceType ==
    ASSUME NEW string \in Seq(Chars), NEW m \in 1 .. Len(string) + 1, NEW n \in 0 .. Len(string)
    PROVE  /\ SubSeq(string, m, n) \in Seq(Chars)
           /\ Len(SubSeq(string, m, n)) = IF m <= n THEN (n - m) + 1 ELSE 0
           /\ \A i \in 1 .. (n - m) + 1 : SubSeq(string, m, n)[i] = string[(m + i) - 1]
<1>1. Len(string) \in Nat /\ \A i \in m .. n : string[i] \in Chars
  BY LenProperties
<1>2. m \in Int /\ n \in Int
  BY <1>1
<1> QED BY <1>1, <1>2, SubSeqProperties

(* What is left, and that no delimiter is in it. *)
LEMMA SuffixBoundaries ==
    ASSUME NEW string \in Seq(Chars), NEW k \in 0 .. Len(string), NEW i \in Nat
    PROVE  /\ IsLF(SubSeq(string, k + 1, Len(string)), i) <=> i >= 1 /\ IsLF(string, k + i)
           /\ IsCRLF(SubSeq(string, k + 1, Len(string)), i) <=> i >= 1 /\ IsCRLF(string, k + i)
<1> DEFINE r == SubSeq(string, k + 1, Len(string))
<1>1. Len(string) \in Nat /\ Len(string) \in 0 .. Len(string) /\ k + 1 \in 1 .. Len(string) + 1
  BY LenProperties
<1>2. /\ Len(r) = Len(string) - k
      /\ \A j \in 1 .. Len(string) - k : r[j] = string[k + j]
  <2>1. /\ Len(r) = IF k + 1 <= Len(string) THEN (Len(string) - (k + 1)) + 1 ELSE 0
        /\ \A j \in 1 .. (Len(string) - (k + 1)) + 1 : r[j] = string[((k + 1) + j) - 1]
    BY <1>1, PieceType
  <2>2. (Len(string) - (k + 1)) + 1 = Len(string) - k /\ \A j \in Nat : ((k + 1) + j) - 1 = k + j
    BY <1>1
  <2>3. k + 1 <= Len(string) \/ Len(string) - k = 0
    BY <1>1
  <2> HIDE DEF r
  <2>4. Len(r) = Len(string) - k
    BY <1>1, <2>1, <2>2, <2>3
  <2>5. ASSUME NEW j \in 1 .. Len(string) - k PROVE r[j] = string[k + j]
    <3>1. j \in Nat
      BY <1>1
    <3> QED BY <2>1, <2>2, <3>1
  <2> QED BY <2>4, <2>5
<1> HIDE DEF r
<1> DEFINE L == Len(string)
<1>3. L \in Nat /\ k \in Nat /\ k <= L
  BY <1>1
<1> HIDE DEF L
<1>4. CASE i \in 1 .. (L - k) - 1
  <2>1. r[i] = string[k + i] /\ r[i + 1] = string[k + (i + 1)]
    BY <1>2, <1>3, <1>4 DEF L
  <2>2. k + (i + 1) = (k + i) + 1 /\ k + i \in 1 .. L - 1
    BY <1>3, <1>4
  <2>3. IsLF(r, i) <=> i >= 1 /\ IsLF(string, k + i)
    BY <1>2, <1>4, <2>1, <2>2 DEF IsLF, L
  <2>4. CASE i \in 1 .. (L - k) - 3
    <3>1. /\ i \in 1 .. L - k /\ i + 1 \in 1 .. L - k /\ i + 2 \in 1 .. L - k /\ i + 3 \in 1 .. L - k
          /\ k + (i + 2) = (k + i) + 2 /\ k + (i + 3) = (k + i) + 3 /\ k + i \in 1 .. L - 3
      BY <1>3, <2>4
    <3>2. r[i + 2] = string[(k + i) + 2] /\ r[i + 3] = string[(k + i) + 3]
      BY <1>2, <3>1 DEF L
    <3>3. IsCRLF(r, i) <=> i >= 1 /\ IsCRLF(string, k + i)
      BY <1>2, <2>1, <2>2, <2>4, <3>1, <3>2 DEF IsCRLF, L
    <3> QED BY <2>3, <3>3 DEF r
  <2>5. CASE i \notin 1 .. (L - k) - 3
    <3>1. i >= 1 => k + i \notin 1 .. L - 3
      BY <1>3, <2>5
    <3>2. ~ IsCRLF(r, i) /\ (i >= 1 => ~ IsCRLF(string, k + i))
      BY <1>2, <2>5, <3>1 DEF IsCRLF, L
    <3> QED BY <2>3, <3>2 DEF r
  <2> QED BY <2>4, <2>5
<1>5. CASE i \notin 1 .. (L - k) - 1
  <2>1. i >= 1 => k + i \notin 1 .. L - 1 /\ k + i \notin 1 .. L - 3
    BY <1>3, <1>5
  <2>2. i \notin 1 .. (L - k) - 3
    BY <1>3, <1>5
  <2>3. ~ IsLF(r, i) /\ (i >= 1 => ~ IsLF(string, k + i))
    BY <1>2, <1>5, <2>1 DEF IsLF, L
  <2>4. ~ IsCRLF(r, i) /\ (i >= 1 => ~ IsCRLF(string, k + i))
    BY <1>2, <2>1, <2>2 DEF IsCRLF, L
  <2> QED BY <2>3, <2>4 DEF r
<1> QED BY <1>4, <1>5

Rest(string, k) == SubSeq(string, k + 1, Len(string))
Moved(b, k) == [index |-> k + b.index, length |-> b.length]

LEMMA RestFacts ==
    ASSUME NEW string \in Seq(Chars), NEW k \in 0 .. Len(string)
    PROVE  /\ Rest(string, k) \in Seq(Chars)
           /\ Len(Rest(string, k)) = Len(string) - k
           /\ \A i \in 1 .. Len(string) - k : Rest(string, k)[i] = string[k + i]
<1>1. Len(string) \in Nat /\ k + 1 \in 1 .. Len(string) + 1 /\ Len(string) \in 0 .. Len(string)
  BY LenProperties
<1>2. /\ Rest(string, k) \in Seq(Chars)
      /\ Len(Rest(string, k)) = IF k + 1 <= Len(string) THEN (Len(string) - (k + 1)) + 1 ELSE 0
      /\ \A i \in 1 .. (Len(string) - (k + 1)) + 1 : Rest(string, k)[i] = string[((k + 1) + i) - 1]
  BY <1>1, PieceType DEF Rest
<1>3. Len(Rest(string, k)) = Len(string) - k
  BY <1>1, <1>2
<1>4. ASSUME NEW i \in 1 .. Len(string) - k PROVE Rest(string, k)[i] = string[k + i]
  <2>1. i \in 1 .. (Len(string) - (k + 1)) + 1 /\ ((k + 1) + i) - 1 = k + i
    BY <1>1
  <2> QED BY <1>2, <2>1
<1> QED BY <1>2, <1>3, <1>4

LEMMA BoundaryMoved ==
    ASSUME NEW string \in Seq(Chars), NEW k \in 0 .. Len(string), NEW b \in Boundaries(Rest(string, k))
    PROVE  Moved(b, k) \in Boundaries(string)
<1> DEFINE r == Rest(string, k)
           i == b.index
<1>1. Len(string) \in Nat /\ r \in Seq(Chars) /\ Len(r) = Len(string) - k
  BY RestFacts, LenProperties
<1> HIDE DEF r
<1>2. /\ i \in 1 .. Len(r) /\ b.length \in {2, 4}
      /\ b.length = 2 => IsLF(r, i)
      /\ b.length = 4 => IsCRLF(r, i)
  BY <1>1, BoundaryType DEF r
<1>3. i \in Nat /\ k + i \in 1 .. Len(string)
  BY <1>1, <1>2
<1>4. /\ b.length = 2 => IsLF(string, k + i)
      /\ b.length = 4 => IsCRLF(string, k + i)
  BY <1>2, <1>3, SuffixBoundaries DEF r, Rest
<1>5. Delimits(string, Moved(b, k))
  BY <1>2, <1>3, <1>4 DEF Delimits, Moved
<1> QED BY <1>5, BoundariesAre

LEMMA BoundaryMovedBack ==
    ASSUME NEW string \in Seq(Chars), NEW k \in 0 .. Len(string), NEW c \in Boundaries(string), c.index > k
    PROVE  [index |-> c.index - k, length |-> c.length] \in Boundaries(Rest(string, k))
<1> DEFINE r == Rest(string, k)
           i == c.index - k
           b == [index |-> i, length |-> c.length]
<1>1. Len(string) \in Nat /\ r \in Seq(Chars) /\ Len(r) = Len(string) - k
  BY RestFacts, LenProperties
<1> HIDE DEF r
<1>2. /\ c.index \in 1 .. Len(string) /\ c.length \in {2, 4}
      /\ c.length = 2 => IsLF(string, c.index)
      /\ c.length = 4 => IsCRLF(string, c.index)
  BY BoundaryType
<1>3. i \in Nat /\ i >= 1 /\ i \in 1 .. Len(r) /\ k + i = c.index
  BY <1>1, <1>2
<1> HIDE DEF i
<1>4. /\ c.length = 2 => IsLF(r, i)
      /\ c.length = 4 => IsCRLF(r, i)
  BY <1>2, <1>3, SuffixBoundaries DEF r, Rest
<1>5. Delimits(r, b)
  BY <1>2, <1>3, <1>4 DEF Delimits
<1> HIDE DEF b
<1>6. b \in Boundaries(r)
  BY <1>1, <1>5, BoundariesAre
<1> QED BY <1>6 DEF b, r, i

LEMMA NextMoved ==
    ASSUME NEW string \in Seq(Chars), NEW k \in 0 .. Len(string), NEW n \in 1 .. (Len(string) - k) + 1
    PROVE  /\ FromOn(Rest(string, k), n) = {} => FromOn(string, k + n) = {}
           /\ \A b : IsNext(Rest(string, k), n, b) => IsNext(string, k + n, Moved(b, k))
<1> DEFINE r == Rest(string, k)
           Back(c) == [index |-> c.index - k, length |-> c.length]
<1>1. /\ Len(string) \in Nat /\ r \in Seq(Chars) /\ Len(r) = Len(string) - k
      /\ k \in Nat /\ n \in Nat /\ n >= 1
  BY RestFacts, LenProperties
<1>2. ASSUME NEW c \in FromOn(string, k + n)
      PROVE  Back(c) \in FromOn(r, n) /\ c.index \in Nat
  <2>1. c \in Boundaries(string) /\ c.index >= k + n
    BY DEF FromOn
  <2>2. c.index \in 1 .. Len(string)
    BY <2>1, BoundaryType
  <2>3. c.index > k /\ c.index - k >= n
    BY <1>1, <2>1, <2>2
  <2>4. Back(c) \in Boundaries(r)
    BY <2>1, <2>3, BoundaryMovedBack
  <2> QED BY <2>2, <2>3, <2>4 DEF FromOn
<1>3. ASSUME NEW b, IsNext(r, n, b) PROVE IsNext(string, k + n, Moved(b, k))
  <2>1. b \in Boundaries(r) /\ b.index >= n /\ \A c \in FromOn(r, n) : b.index <= c.index
    BY <1>3 DEF IsNext, FromOn
  <2>2. b.index \in Nat
    <3> HIDE DEF r
    <3>1. b.index \in 1 .. Len(r)
      BY <1>1, <2>1, BoundaryType
    <3> QED BY <3>1
  <2>3. Moved(b, k) \in Boundaries(string)
    BY <2>1, BoundaryMoved
  <2>4. Moved(b, k).index = k + b.index
    BY DEF Moved
  <2>5. k + b.index >= k + n
    BY <1>1, <2>1, <2>2
  <2>6. ASSUME NEW c \in FromOn(string, k + n) PROVE k + b.index <= c.index
    <3>1. Back(c) \in FromOn(r, n) /\ c.index \in Nat
      BY <1>2
    <3>2. b.index <= Back(c).index
      BY <2>1, <3>1
    <3>3. Back(c).index = c.index - k
      OBVIOUS
    <3>4. b.index <= c.index - k
      BY <3>2, <3>3
    <3> QED BY <1>1, <2>2, <3>1, <3>4
  <2>7. Moved(b, k) \in FromOn(string, k + n)
    BY <2>3, <2>4, <2>5 DEF FromOn
  <2> QED BY <2>4, <2>6, <2>7 DEF IsNext
<1> QED BY <1>2, <1>3

(* The loop goes on with the rest of the string as with a string.          *)
LEMMA ExtractedOfRest ==
    ASSUME NEW string \in Seq(Chars), NEW k \in 0 .. Len(string)
    PROVE  \A n \in 1 .. (Len(string) - k) + 1 : Extracted(Rest(string, k))[n] = Extracted(string)[k + n]
<1> DEFINE r == Rest(string, k)
           N == (Len(string) - k) + 1
           S == {n \in 1 .. N : Extracted(r)[n] = Extracted(string)[k + n]}
<1>1. /\ Len(string) \in Nat /\ r \in Seq(Chars) /\ Len(r) = Len(string) - k /\ N = Len(r) + 1
      /\ \A i \in 1 .. Len(string) - k : r[i] = string[k + i]
      /\ k \in Nat /\ N \in Nat
  BY RestFacts, LenProperties
<1> HIDE DEF r
<1>2. ASSUME NEW n \in 1 .. N, NEW m \in 0 .. Len(r)
      PROVE  SubSeq(string, k + n, k + m) = SubSeq(r, n, m)
  <2>1. /\ n \in 1 .. Len(r) + 1 /\ k + n \in 1 .. Len(string) + 1 /\ k + m \in 0 .. Len(string)
        /\ n \in Nat /\ m \in Nat
        /\ ((k + m) - (k + n)) + 1 = (m - n) + 1 /\ (k + n <= k + m <=> n <= m)
    BY <1>1
  <2>2. /\ SubSeq(r, n, m) \in Seq(Chars)
        /\ Len(SubSeq(r, n, m)) = IF n <= m THEN (m - n) + 1 ELSE 0
        /\ \A i \in 1 .. (m - n) + 1 : SubSeq(r, n, m)[i] = r[(n + i) - 1]
    BY <1>1, <2>1, PieceType
  <2> DEFINE p == k + n
             q == k + m
  <2>3. p \in 1 .. Len(string) + 1 /\ q \in 0 .. Len(string)
    BY <2>1
  <2> HIDE DEF p, q
  <2>4. /\ SubSeq(string, p, q) \in Seq(Chars)
        /\ Len(SubSeq(string, p, q)) = IF p <= q THEN (q - p) + 1 ELSE 0
        /\ \A i \in 1 .. (q - p) + 1 : SubSeq(string, p, q)[i] = string[(p + i) - 1]
    BY <2>3, PieceType
  <2>5. (q - p) + 1 = (m - n) + 1 /\ (p <= q <=> n <= m) /\ p = k + n
    BY <2>1 DEF p, q
  <2>6. Len(SubSeq(string, p, q)) = Len(SubSeq(r, n, m))
    BY <2>2, <2>4, <2>5
  <2>7. ASSUME NEW i \in 1 .. Len(SubSeq(r, n, m)) PROVE SubSeq(string, p, q)[i] = SubSeq(r, n, m)[i]
    <3>1. n <= m /\ i \in 1 .. (m - n) + 1
      BY <2>1, <2>2
    <3>2. (n + i) - 1 \in 1 .. Len(string) - k /\ (p + i) - 1 = k + ((n + i) - 1)
      BY <1>1, <2>1, <2>5, <3>1
    <3>3. SubSeq(r, n, m)[i] = r[(n + i) - 1]
      BY <2>2, <3>1
    <3>4. SubSeq(string, p, q)[i] = string[(p + i) - 1]
      BY <2>4, <2>5, <3>1
    <3> QED BY <1>1, <3>2, <3>3, <3>4
  <2>8. SubSeq(string, p, q) = SubSeq(r, n, m)
    BY <2>2, <2>4, <2>6, <2>7, SeqEqual
  <2> QED BY <2>8 DEF p, q
<1>3. ASSUME NEW n \in 1 .. N, \A m \in n + 1 .. N : m \in S PROVE n \in S
  <2>1. /\ n \in 1 .. Len(r) + 1 /\ n \in Nat /\ k + n \in 1 .. Len(string) + 1
        /\ Len(r) \in 0 .. Len(r) /\ k + Len(r) = Len(string)
    BY <1>1
  <2>2. CASE FromOn(r, n) = {}
    <3>1. FromOn(string, k + n) = {}
      BY <2>2, NextMoved DEF r
    <3>2. SubSeq(string, k + n, Len(string)) = SubSeq(r, n, Len(r))
      BY <1>2, <2>1
    <3>3. Extracted(r)[n] = [chunks |-> <<>>, rest |-> SubSeq(r, n, Len(r))]
      BY <1>1, <2>1, <2>2, NoneLeft
    <3>4. Extracted(string)[k + n] = [chunks |-> <<>>, rest |-> SubSeq(string, k + n, Len(string))]
      <4> DEFINE p == k + n
      <4>1. p \in 1 .. Len(string) + 1 /\ FromOn(string, p) = {}
        BY <2>1, <3>1
      <4> HIDE DEF p
      <4>2. Extracted(string)[p] = [chunks |-> <<>>, rest |-> SubSeq(string, p, Len(string))]
        BY <4>1, NoneLeft
      <4> QED BY <4>2 DEF p
    <3> QED BY <3>2, <3>3, <3>4
  <2>3. ASSUME NEW b, IsNext(r, n, b) PROVE n \in S
    <3> DEFINE c == Moved(b, k)
               p == k + n
               m == b.index + b.length
               e == b.index - 1
    <3>1. IsNext(string, p, c)
      BY <2>3, NextMoved DEF r
    <3>2. /\ b \in Boundaries(r) /\ m \in n + 1 .. N /\ e \in 0 .. Len(r) /\ b.index \in 1 .. Len(r)
      BY <1>1, <2>1, <2>3, NextType
    <3>3. b.length \in Nat /\ b.index \in Nat
      <4>1. b.length \in {2, 4}
        BY ONLY <1>1, <3>2, BoundaryType
      <4> QED BY <3>2, <4>1
    <3>4. c.index + c.length = k + m /\ c.index - 1 = k + e
      <4>1. c.index = k + b.index /\ c.length = b.length
        BY DEF Moved
      <4> HIDE DEF c
      <4> QED BY <1>1, <3>3, <4>1
    <3>5. m \in S
      BY <1>3, <3>2
    <3>6. Extracted(r)[n] = Before(SubSeq(r, n, e), Extracted(r)[m])
      BY <1>1, <2>1, <2>3, OneMore
    <3>7. p \in 1 .. Len(string) + 1
      BY <2>1
    <3> HIDE DEF c, p
    <3>8. Extracted(string)[p] = Before(SubSeq(string, p, c.index - 1), Extracted(string)[c.index + c.length])
      BY <3>1, <3>7, OneMore
    <3>9. SubSeq(string, p, k + e) = SubSeq(r, n, e)
      BY <1>2, <3>2 DEF p
    <3>10. Extracted(r)[m] = Extracted(string)[k + m]
      BY <3>5
    <3> HIDE DEF m, e
    <3>11. Extracted(string)[p] = Extracted(r)[n]
      BY <3>4, <3>6, <3>8, <3>9, <3>10
    <3> QED BY <3>11 DEF p
  <2> QED BY <1>1, <2>1, <2>2, <2>3, NextOrNone
<1>4. \A n \in 1 .. N : n \in S
  <2> HIDE DEF S, N
  <2> QED BY <1>1, <1>3, FromTheEnd
<1> QED BY <1>4 DEF r

LEMMA ExtractedType ==
    ASSUME NEW string \in Seq(Chars)
    PROVE  \A n \in 1 .. Len(string) + 1 :
              /\ Extracted(string)[n] \in ExtractOutcomes
              /\ Boundaries(Extracted(string)[n].rest) = {}
<1> DEFINE N == Len(string) + 1
           Fine(o) == o \in ExtractOutcomes /\ Boundaries(o.rest) = {}
           S == {n \in 1 .. N : Fine(Extracted(string)[n])}
<1>1. Len(string) \in Nat /\ N \in Nat
  BY LenProperties
<1>2. ASSUME NEW n \in 1 .. N, \A m \in n + 1 .. N : m \in S PROVE n \in S
  <2>1. CASE FromOn(string, n) = {}
    <3> DEFINE k == n - 1
    <3>0. k \in 0 .. Len(string) /\ k \in Nat /\ k + 1 = n
      BY <1>1
    <3> HIDE DEF k
    <3>1. Extracted(string)[n] = [chunks |-> <<>>, rest |-> Rest(string, k)]
      BY <2>1, <3>0, NoneLeft DEF Rest
    <3>2. Rest(string, k) \in Seq(Chars)
      BY <3>0, RestFacts
    <3>3. ASSUME NEW b \in Boundaries(Rest(string, k)) PROVE FALSE
      <4>1. Moved(b, k) \in Boundaries(string)
        BY <3>0, BoundaryMoved
      <4>2. b.index \in 1 .. Len(Rest(string, k))
        BY <3>2, BoundaryType
      <4>3. Moved(b, k).index >= n
        <5>1. Moved(b, k).index = k + b.index
          BY DEF Moved
        <5> QED BY <3>0, <4>2, <5>1
      <4> QED BY <2>1, <4>1, <4>3 DEF FromOn
    <3>4. Boundaries(Rest(string, k)) = {}
      BY <3>3
    <3>5. <<>> \in Seq(Chunks)
      OBVIOUS
    <3>6. Fine([chunks |-> <<>>, rest |-> Rest(string, k)])
      BY <3>2, <3>4, <3>5 DEF ExtractOutcomes
    <3> QED BY <3>1, <3>6
  <2>2. ASSUME NEW b, IsNext(string, n, b) PROVE n \in S
    <3> DEFINE m == b.index + b.length
               e == b.index - 1
               o == Extracted(string)[m]
               f == Parse(SubSeq(string, n, e))
    <3>1. Extracted(string)[n] = Before(SubSeq(string, n, e), o)
      BY <2>2, OneMore
    <3>2. m \in n + 1 .. N /\ e \in 0 .. Len(string)
      BY <2>2, NextType
    <3>3. Fine(o)
      BY <1>2, <3>2
    <3>4. f \in Seq(Chunks)
      <4> HIDE DEF e
      <4>1. SubSeq(string, n, e) \in Seq(Chars)
        BY <3>2, PieceType
      <4> QED BY <4>1, ParseType
    <3>5. Before(SubSeq(string, n, e), o) = [chunks |-> f \o o.chunks, rest |-> o.rest]
      BY DEF Before
    <3> HIDE DEF o, f, e, m
    <3>6. o.chunks \in Seq(Chunks) /\ o.rest \in Seq(Chars)
      BY <3>3 DEF ExtractOutcomes
    <3>7. f \o o.chunks \in Seq(Chunks)
      BY <3>4, <3>6
    <3>8. Fine([chunks |-> f \o o.chunks, rest |-> o.rest])
      BY <3>3, <3>6, <3>7 DEF ExtractOutcomes
    <3> HIDE DEF Fine
    <3> QED BY <3>1, <3>5, <3>8
  <2>3. n \in Nat
    BY <1>1
  <2> QED BY <2>1, <2>2, <2>3, NextOrNone DEF N
<1>3. \A n \in 1 .. N : n \in S
  <2> HIDE DEF S, N
  <2> QED BY <1>1, <1>2, FromTheEnd
<1> QED BY <1>3

LEMMA ExtractType ==
    ASSUME NEW string \in Seq(Chars)
    PROVE  Extract(string) \in ExtractOutcomes /\ Boundaries(Extract(string).rest) = {}
<1>1. 1 \in 1 .. Len(string) + 1
  BY LenProperties
<1> QED BY <1>1, ExtractedType, ExtractDef

(* What comes later does not change which delimiter is the next one.        *)
LEMMA NextOfConcat ==
    ASSUME NEW a \in Seq(Chars), NEW b \in Seq(Chars), NEW n \in 1 .. Len(a) + 1, NEW c, IsNext(a, n, c)
    PROVE  IsNext(a \o b, n, c)
<1> DEFINE x == a \o b
           M == Len(a)
           i == c.index
<1>1. /\ M \in Nat /\ Len(b) \in Nat /\ x \in Seq(Chars) /\ Len(x) = M + Len(b)
      /\ \A j \in 1 .. M : x[j] = a[j]
  BY ConcatProperties, LenProperties
<1>2. /\ c \in Boundaries(a) /\ i >= n /\ \A d \in FromOn(a, n) : i <= d.index
  BY DEF IsNext, FromOn
<1>3. /\ i \in 1 .. M /\ c.length \in {2, 4} /\ i + c.length <= M + 1
      /\ c = [index |-> i, length |-> c.length]
      /\ c.length = 2 => IsLF(a, i)
      /\ c.length = 4 => IsCRLF(a, i)
  BY <1>2, BoundaryType
<1> HIDE DEF x
<1>4. ASSUME NEW j \in Nat PROVE /\ j + 1 <= M => (IsLF(a, j) <=> IsLF(x, j))
                                 /\ j + 3 <= M => (IsCRLF(a, j) <=> IsCRLF(x, j))
  <2>1. CASE j = 0
    BY <2>1 DEF IsLF, IsCRLF
  <2>2. CASE j # 0
    <3>1. ASSUME j + 1 <= M PROVE IsLF(a, j) <=> IsLF(x, j)
      <4>1. j \in 1 .. M /\ j + 1 \in 1 .. M /\ j \in 1 .. Len(x) - 1 /\ j \in 1 .. Len(a) - 1
        BY <1>1, <2>2, <3>1
      <4> QED BY <1>1, <4>1 DEF IsLF
    <3>2. ASSUME j + 3 <= M PROVE IsCRLF(a, j) <=> IsCRLF(x, j)
      <4>1. /\ j \in 1 .. M /\ j + 1 \in 1 .. M /\ j + 2 \in 1 .. M /\ j + 3 \in 1 .. M
            /\ j \in 1 .. Len(x) - 3 /\ j \in 1 .. Len(a) - 3
        BY <1>1, <2>2, <3>2
      <4> QED BY <1>1, <4>1 DEF IsCRLF
    <3> QED BY <3>1, <3>2
  <2> QED BY <2>1, <2>2
<1>5. c \in Boundaries(x)
  <2>1. i \in Nat /\ i \in 1 .. Len(x) /\ (c.length = 2 => i + 1 <= M) /\ (c.length = 4 => i + 3 <= M)
    BY <1>1, <1>3
  <2> HIDE DEF i
  <2>2. (c.length = 2 => IsLF(x, i)) /\ (c.length = 4 => IsCRLF(x, i))
    BY <1>3, <1>4, <2>1
  <2>3. Delimits(x, c)
    BY <1>3, <2>1, <2>2 DEF Delimits
  <2> QED BY <1>1, <2>3, BoundariesAre
<1>6. ASSUME NEW d \in FromOn(x, n) PROVE i <= d.index
  <2> DEFINE j == d.index
  <2>1. d \in Boundaries(x) /\ j >= n
    BY DEF FromOn
  <2>2. /\ j \in 1 .. Len(x) /\ d.length \in {2, 4}
        /\ d = [index |-> j, length |-> d.length]
        /\ d.length = 2 => IsLF(x, j)
        /\ d.length = 4 => IsCRLF(x, j)
    BY <1>1, <2>1, BoundaryType
  <2>3. i \in Nat /\ j \in Nat
    BY <1>3, <2>2
  <2> HIDE DEF i, j
  <2> SUFFICES ASSUME j < i PROVE FALSE
    BY <2>3 DEF j
  <2>4. CASE j + d.length <= M + 1
    <3>1. j \in 1 .. M /\ (d.length = 2 => j + 1 <= M) /\ (d.length = 4 => j + 3 <= M)
      BY <1>1, <2>2, <2>3, <2>4
    <3>2. (d.length = 2 => IsLF(a, j)) /\ (d.length = 4 => IsCRLF(a, j))
      BY <1>4, <2>2, <2>3, <3>1
    <3>3. Delimits(a, d)
      BY <2>2, <3>1, <3>2 DEF Delimits
    <3>4. d \in Boundaries(a)
      BY <3>3, BoundariesAre
    <3>5. d \in FromOn(a, n)
      BY <2>1, <3>4 DEF FromOn, j
    <3> QED BY <1>2, <2>3, <3>5 DEF j
  <2>5. CASE ~ (j + d.length <= M + 1)
    <3>1. c.length = 2 /\ d.length = 4 /\ i = j + 1 /\ i + 1 <= M
      BY <1>1, <1>3, <2>2, <2>3, <2>5
    <3>2. IsLF(x, i) /\ IsCRLF(x, j)
      BY <1>3, <1>4, <2>2, <2>3, <3>1
    <3>3. i + 1 = j + 2
      BY <2>3, <3>1
    <3> QED BY <3>2, <3>3 DEF IsLF, IsCRLF, LF, CR
  <2> QED BY <2>4, <2>5
<1>7. c \in FromOn(x, n)
  BY <1>2, <1>5 DEF FromOn
<1> QED BY <1>6, <1>7 DEF IsNext, x

Join(result, string) ==
    LET others == Extract(result.rest \o string)
    IN  [chunks |-> result.chunks \o others.chunks, rest |-> others.rest]

LEMMA RestOfConcat ==
    ASSUME NEW a \in Seq(Chars), NEW b \in Seq(Chars), NEW k \in 0 .. Len(a)
    PROVE  Rest(a \o b, k) = Rest(a, k) \o b
<1> DEFINE x == a \o b
           r == Rest(a, k)
<1>1. /\ Len(a) \in Nat /\ Len(b) \in Nat /\ x \in Seq(Chars) /\ Len(x) = Len(a) + Len(b)
      /\ \A i \in 1 .. Len(a) + Len(b) : x[i] = IF i <= Len(a) THEN a[i] ELSE b[i - Len(a)]
  BY ConcatProperties, LenProperties
<1>2. /\ r \in Seq(Chars) /\ Len(r) = Len(a) - k /\ \A i \in 1 .. Len(a) - k : r[i] = a[k + i]
  BY RestFacts
<1> HIDE DEF x, r
<1>3. k \in 0 .. Len(x)
  BY <1>1
<1>4. /\ Rest(x, k) \in Seq(Chars) /\ Len(Rest(x, k)) = Len(x) - k
      /\ \A i \in 1 .. Len(x) - k : Rest(x, k)[i] = x[k + i]
  BY <1>1, <1>3, RestFacts
<1>5. /\ r \o b \in Seq(Chars) /\ Len(r \o b) = Len(r) + Len(b)
      /\ \A i \in 1 .. Len(r) + Len(b) : (r \o b)[i] = IF i <= Len(r) THEN r[i] ELSE b[i - Len(r)]
  BY <1>2, ConcatProperties
<1>6. Len(Rest(x, k)) = Len(r \o b)
  BY <1>1, <1>2, <1>4, <1>5
<1>7. ASSUME NEW i \in 1 .. Len(Rest(x, k)) PROVE Rest(x, k)[i] = (r \o b)[i]
  <2>1. i \in 1 .. Len(x) - k /\ i \in 1 .. Len(r) + Len(b) /\ k + i \in 1 .. Len(a) + Len(b)
    BY <1>1, <1>2, <1>4
  <2>2. CASE i <= Len(r)
    <3>1. i \in 1 .. Len(a) - k /\ k + i <= Len(a)
      BY <1>1, <1>2, <2>1, <2>2
    <3> QED BY <1>1, <1>2, <1>4, <1>5, <2>1, <2>2, <3>1
  <2>3. CASE ~ (i <= Len(r))
    <3>1. ~ (k + i <= Len(a)) /\ (k + i) - Len(a) = i - Len(r)
      BY <1>1, <1>2, <2>1, <2>3
    <3> QED BY <1>1, <1>4, <1>5, <2>1, <2>3, <3>1
  <2> QED BY <2>2, <2>3
<1>8. Rest(x, k) = r \o b
  BY <1>4, <1>5, <1>6, <1>7, SeqEqual
<1> QED BY <1>8 DEF x, r

LEMMA JoinType ==
    ASSUME NEW o \in ExtractOutcomes, NEW b \in Seq(Chars)
    PROVE  Join(o, b) \in ExtractOutcomes
<1> DEFINE y == Extract(o.rest \o b)
           p == o.rest
           q == o.chunks
<1>1. p \in Seq(Chars) /\ q \in Seq(Chunks)
  BY DEF ExtractOutcomes
<1> HIDE DEF p
<1>2. p \o b \in Seq(Chars)
  BY <1>1
<1>3. y \in ExtractOutcomes
  BY <1>2, ExtractType DEF p
<1> DEFINE z == y.chunks
           w == y.rest
<1>4. z \in Seq(Chunks) /\ w \in Seq(Chars)
  BY <1>3 DEF ExtractOutcomes
<1>5. Join(o, b) = [chunks |-> q \o z, rest |-> w]
  BY DEF Join
<1> HIDE DEF q, z, w
<1>6. q \o z \in Seq(Chunks)
  BY <1>1, <1>4
<1> QED BY <1>4, <1>5, <1>6 DEF ExtractOutcomes

LEMMA BeforeJoin ==
    ASSUME NEW frame \in Seq(Chars), NEW o \in ExtractOutcomes, NEW b \in Seq(Chars)
    PROVE  Before(frame, Join(o, b)) = Join(Before(frame, o), b)
<1> DEFINE y == Extract(o.rest \o b)
           p == Parse(frame)
           q == o.chunks
           z == y.chunks
<1>1. p \in Seq(Chunks) /\ q \in Seq(Chunks)
  BY ParseType DEF ExtractOutcomes
<1>2. z \in Seq(Chunks)
  <2> DEFINE r == o.rest
  <2>1. r \in Seq(Chars)
    BY DEF ExtractOutcomes
  <2> HIDE DEF r
  <2>2. r \o b \in Seq(Chars)
    BY <2>1
  <2>3. Extract(r \o b) \in ExtractOutcomes
    BY <2>2, ExtractType
  <2> QED BY <2>3 DEF ExtractOutcomes, r
<1>3. Join(o, b) = [chunks |-> q \o z, rest |-> y.rest]
  BY DEF Join
<1>4. Before(frame, o) = [chunks |-> p \o q, rest |-> o.rest]
  BY DEF Before
<1>5. Join(Before(frame, o), b) = [chunks |-> (p \o q) \o z, rest |-> y.rest]
  <2> HIDE DEF p, q
  <2> QED BY <1>4 DEF Join
<1>6. Before(frame, Join(o, b)) = [chunks |-> p \o (q \o z), rest |-> y.rest]
  <2> HIDE DEF z, q, y
  <2> QED BY <1>3 DEF Before
<1> HIDE DEF p, q, z, y
<1>7. (p \o q) \o z = p \o (q \o z)
  BY <1>1, <1>2, ConcatAssociative
<1> QED BY <1>5, <1>6, <1>7

(* To take the frames from the first piece and then from its rest with the  *)
(* second piece is to take the frames from the whole.                      *)
LEMMA ExtractedOfConcat ==
    ASSUME NEW a \in Seq(Chars), NEW b \in Seq(Chars)
    PROVE  \A n \in 1 .. Len(a) + 1 : Extracted(a \o b)[n] = Join(Extracted(a)[n], b)
<1> DEFINE x == a \o b
           N == Len(a) + 1
           S == {n \in 1 .. N : Extracted(x)[n] = Join(Extracted(a)[n], b)}
<1>1. /\ Len(a) \in Nat /\ Len(b) \in Nat /\ x \in Seq(Chars) /\ Len(x) = Len(a) + Len(b)
      /\ \A i \in 1 .. Len(a) : x[i] = a[i]
      /\ N \in Nat
  BY ConcatProperties, LenProperties
<1> HIDE DEF x
<1>2. ASSUME NEW n \in 1 .. N, \A m \in n + 1 .. N : m \in S PROVE n \in S
  <2>1. n \in 1 .. Len(x) + 1 /\ n \in Nat
    BY <1>1
  <2>2. CASE FromOn(a, n) = {}
    <3> DEFINE k == n - 1
    <3>0. k \in 0 .. Len(a) /\ k \in Nat /\ k + 1 = n /\ k \in 0 .. Len(x) /\ 1 \in 1 .. (Len(x) - k) + 1
      BY <1>1
    <3> HIDE DEF k
    <3>1. Extracted(a)[n] = [chunks |-> <<>>, rest |-> Rest(a, k)]
      BY <2>2, <3>0, NoneLeft DEF Rest
    <3>2. Rest(x, k) = Rest(a, k) \o b
      BY <3>0, RestOfConcat DEF x
    <3>3. Extracted(Rest(x, k))[1] = Extracted(x)[n]
      BY <1>1, <3>0, ExtractedOfRest
    <3>4. Extract(Rest(a, k) \o b) = Extracted(x)[n]
      BY <3>2, <3>3, ExtractDef
    <3> DEFINE o == Extracted(x)[n]
               c == o.chunks
    <3>5. o \in ExtractOutcomes
      BY <1>1, <2>1, ExtractedType
    <3> HIDE DEF o
    <3>6. c \in Seq(Chunks) /\ o = [chunks |-> c, rest |-> o.rest]
      BY <3>5 DEF ExtractOutcomes
    <3>7. Join(Extracted(a)[n], b) = [chunks |-> <<>> \o c, rest |-> o.rest]
      BY <3>1, <3>4 DEF Join, o
    <3> HIDE DEF c
    <3>8. <<>> \o c = c
      BY <3>6, ConcatEmptySeq
    <3>9. Join(Extracted(a)[n], b) = o
      BY <3>6, <3>7, <3>8
    <3> QED BY <3>9 DEF o
  <2>3. ASSUME NEW c, IsNext(a, n, c) PROVE n \in S
    <3> DEFINE m == c.index + c.length
               e == c.index - 1
    <3>1. IsNext(x, n, c)
      BY <2>3, NextOfConcat DEF x
    <3>2. m \in n + 1 .. N /\ e \in 0 .. Len(a)
      BY <2>3, NextType
    <3>3. Extracted(a)[n] = Before(SubSeq(a, n, e), Extracted(a)[m])
      BY <2>3, OneMore
    <3>4. Extracted(x)[n] = Before(SubSeq(x, n, e), Extracted(x)[m])
      BY <1>1, <2>1, <3>1, OneMore
    <3> HIDE DEF m, e
    <3>5. SubSeq(a, n, e) \in Seq(Chars) /\ SubSeq(x, n, e) = SubSeq(a, n, e)
      <4>0. e \in Nat /\ e \in 0 .. Len(x)
        BY <1>1, <3>2
      <4>1. /\ SubSeq(a, n, e) \in Seq(Chars)
            /\ Len(SubSeq(a, n, e)) = IF n <= e THEN (e - n) + 1 ELSE 0
            /\ \A i \in 1 .. (e - n) + 1 : SubSeq(a, n, e)[i] = a[(n + i) - 1]
        BY <3>2, PieceType
      <4>2. /\ SubSeq(x, n, e) \in Seq(Chars)
            /\ Len(SubSeq(x, n, e)) = IF n <= e THEN (e - n) + 1 ELSE 0
            /\ \A i \in 1 .. (e - n) + 1 : SubSeq(x, n, e)[i] = x[(n + i) - 1]
        BY <1>1, <2>1, <4>0, PieceType
      <4>3. ASSUME NEW i \in 1 .. Len(SubSeq(a, n, e)) PROVE SubSeq(a, n, e)[i] = SubSeq(x, n, e)[i]
        <5>1. n <= e /\ i \in 1 .. (e - n) + 1
          BY <2>1, <4>0, <4>1
        <5>2. (n + i) - 1 \in 1 .. Len(a)
          BY <1>1, <2>1, <3>2, <4>0, <5>1
        <5> QED BY <1>1, <4>1, <4>2, <5>1, <5>2
      <4>4. Len(SubSeq(a, n, e)) = Len(SubSeq(x, n, e))
        BY <4>1, <4>2
      <4>5. SubSeq(a, n, e) = SubSeq(x, n, e)
        BY <4>1, <4>2, <4>3, <4>4, SeqEqual
      <4> QED BY <4>1, <4>5
    <3>6. Extracted(x)[m] = Join(Extracted(a)[m], b)
      BY <1>2, <3>2
    <3>7. Extracted(a)[m] \in ExtractOutcomes
      <4>1. m \in 1 .. Len(a) + 1
        BY <1>1, <3>2
      <4> QED BY <4>1, ExtractedType
    <3>8. Before(SubSeq(a, n, e), Join(Extracted(a)[m], b)) = Join(Before(SubSeq(a, n, e), Extracted(a)[m]), b)
      BY <3>5, <3>7, BeforeJoin
    <3>9. Extracted(x)[n] = Join(Extracted(a)[n], b)
      BY <3>3, <3>4, <3>5, <3>6, <3>8
    <3> QED BY <3>9
  <2> QED BY <2>1, <2>2, <2>3, NextOrNone
<1>3. \A n \in 1 .. N : n \in S
  <2> HIDE DEF S, N
  <2> QED BY <1>1, <1>2, FromTheEnd
<1> QED BY <1>3 DEF x

LEMMA ExtractInPieces ==
    ASSUME NEW a \in Seq(Chars), NEW b \in Seq(Chars)
    PROVE  Extract(a \o b) = Join(Extract(a), b)
<1>1. 1 \in 1 .. Len(a) + 1
  BY LenProperties
<1> QED BY <1>1, ExtractedOfConcat, ExtractDef

(* The texts. *)
LEMMA FlattenType ==
    ASSUME NEW seqs \in Seq(Seq(Bytes)) PROVE FlattenSeq(seqs) \in Seq(Bytes)
<1> DEFINE N == Len(seqs)
           A == Seq(Bytes)
           F == CHOOSE f : f = [i \in 1 .. N |-> IF i = 1 THEN seqs[i] ELSE f[i - 1] \o seqs[i]]
           step == [n \in 1 .. N |-> [x \in A |-> x \o seqs[n]]]
<1>1. N \in Nat /\ \A n \in 1 .. N : seqs[n] \in A
  BY LenProperties
<1>2. CASE N = 0
  <2>1. seqs = <<>>
    BY <1>2, EmptySeq
  <2> QED BY <1>2, <2>1 DEF FlattenSeq
<1>3. CASE N # 0
  <2>1. FlattenSeq(seqs) = F[N]
    BY <1>3 DEF FlattenSeq
  <2>2. step \in [1 .. N -> [A -> A]] /\ <<>> \in A
    BY <1>1
  <2> HIDE DEF step
  <2>3. PICK f : IsRun(f, N, A, <<>>, step)
    <3> HIDE DEF A, N
    <3> QED BY <1>1, <2>2, StepsExist
  <2>4. /\ f \in [0 .. N -> A] /\ f[0] = <<>>
        /\ \A n \in 1 .. N : f[n] = step[n][f[n - 1]]
    BY <2>3 DEF IsRun
  <2>5. ASSUME NEW n \in 1 .. N PROVE f[n] = f[n - 1] \o seqs[n] /\ f[n] \in A
    <3>1. n - 1 \in 0 .. N /\ n \in 0 .. N
      BY <1>1
    <3>2. f[n - 1] \in A
      BY <2>4, <3>1
    <3> QED BY <2>4, <3>1, <3>2 DEF step
  <2> DEFINE g == [n \in 1 .. N |-> f[n]]
  <2>6. ASSUME NEW n \in 1 .. N PROVE g[n] = IF n = 1 THEN seqs[n] ELSE g[n - 1] \o seqs[n]
    <3>1. CASE n = 1
      <4>1. f[1] = <<>> \o seqs[1] /\ seqs[1] \in A
        <5>1. 1 \in 1 .. N /\ 1 - 1 = 0
          BY <3>1
        <5>2. f[1] = f[1 - 1] \o seqs[1]
          BY <2>5, <5>1
        <5> QED BY <1>1, <2>4, <5>1, <5>2
      <4>2. f[1] = seqs[1]
        BY <4>1, ConcatEmptySeq
      <4> QED BY <3>1, <4>2
    <3>2. CASE n # 1
      <4>1. n - 1 \in 1 .. N
        BY <1>1, <3>2
      <4> QED BY <2>5, <3>2, <4>1
    <3> QED BY <3>1, <3>2
  <2>7. g = [n \in 1 .. N |-> g[n]]
    OBVIOUS
  <2> HIDE DEF g
  <2>8. g = [n \in 1 .. N |-> IF n = 1 THEN seqs[n] ELSE g[n - 1] \o seqs[n]]
    BY <2>6, <2>7
  <2>9. F = [n \in 1 .. N |-> IF n = 1 THEN seqs[n] ELSE F[n - 1] \o seqs[n]]
    BY <2>8
  <2> HIDE DEF F
  <2> DEFINE S == {n \in 0 .. N : n = 0 \/ F[n] \in A}
  <2>10. 0 \in S
    BY <1>1
  <2>11. ASSUME NEW n \in 0 .. N, n # N, n \in S PROVE n + 1 \in S
    <3>1. n + 1 \in 1 .. N /\ n + 1 \in 0 .. N /\ (n + 1) - 1 = n
      BY <1>1, <2>11
    <3>2. F[n + 1] = IF n + 1 = 1 THEN seqs[n + 1] ELSE F[n] \o seqs[n + 1]
      BY <2>9, <3>1
    <3>3. seqs[n + 1] \in A
      BY <1>1, <3>1
    <3>4. F[n + 1] \in A
      <4>1. CASE n = 0
        BY <3>2, <3>3, <4>1
      <4>2. CASE n # 0
        <5>1. F[n] \in A /\ n + 1 # 1
          BY <1>1, <2>11, <4>2
        <5> QED BY <3>2, <3>3, <5>1
      <4> QED BY <4>1, <4>2
    <3> QED BY <3>1, <3>4
  <2>12. N \in S
    <3>1. N \in 0 .. N
      BY <1>1
    <3> HIDE DEF S
    <3> QED BY <1>1, <2>10, <2>11, <3>1, UpTo
  <2> QED BY <1>3, <2>1, <2>12
<1> QED BY <1>2, <1>3

LEMMA DemoFrames ==
    [i \in DOMAIN DemoEvents |-> FormatSseEvent(DemoEvents[i][1], DemoEvents[i][2])] \in Seq(Seq(Bytes))
<1> DEFINE events == [i \in DOMAIN DemoEvents |-> FormatSseEvent(DemoEvents[i][1], DemoEvents[i][2])]
           n == 4
<1>1. DOMAIN DemoEvents = 1 .. 4
  BY DEF DemoEvents
<1>2. \A i \in 1 .. 4 : DemoEvents[i][1] \in Bytes /\ DemoEvents[i][2] \in Bytes
  BY DEF DemoEvents, Bytes
<1>3. \A e, d \in Bytes : FormatSseEvent(e, d) \in Seq(Bytes)
  <2> SUFFICES ASSUME NEW e \in Bytes, NEW d \in Bytes PROVE FormatSseEvent(e, d) \in Seq(Bytes)
    OBVIOUS
  <2>1. Event \in Bytes /\ LF \in Bytes /\ Data \in Bytes /\ Space \in Bytes
    BY DEF Bytes
  <2> QED BY <2>1 DEF FormatSseEvent
<1>4. n \in Nat /\ events \in [1 .. n -> Seq(Bytes)]
  BY <1>1, <1>2, <1>3
<1>5. events \in Seq(Seq(Bytes))
  <2> HIDE DEF events, n
  <2> QED BY <1>4, SeqDef
<1> QED BY <1>5

LEMMA TextType == StreamInit => text \in Seq(Bytes)
<1>1. Pieces \subseteq Seq(Bytes)
  <2>1. LF \in Bytes /\ CR \in Bytes /\ Event \in Bytes /\ Data \in Bytes /\ High \in Bytes /\ Low \in Bytes
        /\ "e" \in Bytes /\ "d" \in Bytes
    BY DEF Bytes
  <2> QED BY <2>1 DEF Pieces
<1>2. ASSUME NEW t \in CutOff PROVE t \in Seq(Bytes)
  <2>1. PICK pieces \in BoundedSeq(Pieces, MaxPieces), end \in {<<>>, <<High>>} : t = FlattenSeq(pieces) \o end
    BY DEF CutOff
  <2>2. PICK m \in 0 .. MaxPieces : pieces \in [1 .. m -> Pieces]
    BY DEF BoundedSeq, SeqOf
  <2>3. m \in Nat
    OBVIOUS
  <2>4. pieces \in Seq(Seq(Bytes))
    BY <1>1, <2>2, <2>3
  <2>5. FlattenSeq(pieces) \in Seq(Bytes)
    BY <2>4, FlattenType
  <2>6. end \in Seq(Bytes)
    <3>1. High \in Bytes
      BY DEF Bytes
    <3>2. <<>> \in Seq(Bytes) /\ <<High>> \in Seq(Bytes)
      BY <3>1
    <3> QED BY <3>2
  <2> DEFINE p == FlattenSeq(pieces)
  <2> HIDE DEF p
  <2>7. p \in Seq(Bytes)
    BY <2>5 DEF p
  <2>8. p \o end \in Seq(Bytes)
    BY <2>6, <2>7
  <2> QED BY <2>1, <2>8 DEF p
<1>3. StreamDemoEvents \in Seq(Bytes)
  BY DemoFrames, FlattenType DEF StreamDemoEvents
<1>4. ASSUME NEW p \in Labels, NEW q \in Labels, NEW v \in Written, NEW w \in Written
      PROVE  Block(p, v, q, w) \in Seq(Bytes)
  <2>1. p \in Bytes /\ q \in Bytes /\ LF \in Bytes
    BY DEF Labels, Bytes
  <2>2. Written \subseteq Seq(Bytes)
    <3>1. Space \in Bytes /\ Tab \in Bytes /\ "v" \in Bytes
      BY DEF Bytes
    <3> QED BY <3>1 DEF Written
  <2>3. v \in Seq(Bytes) /\ w \in Seq(Bytes)
    BY <2>2
  <2>4. <<p>> \in Seq(Bytes) /\ <<LF, q>> \in Seq(Bytes) /\ <<LF, LF>> \in Seq(Bytes)
    BY <2>1
  <2>5. \A x, y \in Seq(Bytes) : x \o y \in Seq(Bytes)
    OBVIOUS
  <2>6. <<p>> \o v \in Seq(Bytes)
    BY <2>3, <2>4, <2>5
  <2>7. <<p>> \o v \o <<LF, q>> \in Seq(Bytes)
    BY <2>4, <2>5, <2>6
  <2>8. <<p>> \o v \o <<LF, q>> \o w \in Seq(Bytes)
    BY <2>3, <2>5, <2>7
  <2> QED BY <2>4, <2>5, <2>8 DEF Block
<1>5. ASSUME NEW t \in Texts, t \notin CutOff PROVE t \in Seq(Bytes)
  <2>1. \E p, q \in Labels, v, w \in Written : t = Block(p, v, q, w)
    BY <1>5 DEF Texts
  <2> QED BY <1>4, <2>1
<1>6. ASSUME NEW t \in Texts PROVE t \in Seq(Bytes)
  BY <1>2, <1>5
<1> QED BY <1>3, <1>6 DEF StreamInit

(* What the view shows. *)
Entries == Chunks \cup {"error"}
Output == Seq(Streams \X Entries)
Tagged(s, lines) == [i \in DOMAIN lines |-> <<s, lines[i]>>]

Collect(s, lines, line) == IF line[1] = s THEN Append(lines, line[2]) ELSE lines

ShownUpTo(s, out) ==
    CHOOSE f : f = [n \in 0 .. Len(out) |-> IF n = 0 THEN <<>> ELSE Collect(s, f[n - 1], out[n])]

ShownOf(s, out) == ShownUpTo(s, out)[Len(out)]

LEMMA ShownDef == ASSUME NEW s PROVE Shown(s) = ShownOf(s, output)
BY DEF Shown, Fold, ShownOf, ShownUpTo, Collect

LEMMA CollectType ==
    ASSUME NEW s, NEW lines \in Seq(Entries), NEW line \in Streams \X Entries
    PROVE  Collect(s, lines, line) \in Seq(Entries)
<1>1. line[2] \in Entries
  OBVIOUS
<1>2. Append(lines, line[2]) \in Seq(Entries)
  BY <1>1
<1> QED BY <1>2 DEF Collect

LEMMA ShownFacts ==
    ASSUME NEW s, NEW out \in Output
    PROVE  /\ ShownUpTo(s, out) \in [0 .. Len(out) -> Seq(Entries)]
           /\ ShownUpTo(s, out)[0] = <<>>
           /\ \A n \in 1 .. Len(out) :
                 ShownUpTo(s, out)[n] = Collect(s, ShownUpTo(s, out)[n - 1], out[n])
<1> DEFINE N == Len(out)
           A == Seq(Entries)
           step == [n \in 1 .. N |-> [lines \in A |-> Collect(s, lines, out[n])]]
           F == ShownUpTo(s, out)
<1>1. N \in Nat /\ \A n \in 1 .. N : out[n] \in Streams \X Entries
  BY LenProperties DEF Output
<1>2. <<>> \in A
  OBVIOUS
<1> HIDE DEF N
<1>3. step \in [1 .. N -> [A -> A]]
  BY <1>1, CollectType
<1> HIDE DEF A
<1>4. PICK f : IsRun(f, N, A, <<>>, step)
  <2> HIDE DEF step
  <2>1. N \in Nat
    BY <1>1
  <2> QED BY <1>2, <1>3, <2>1, StepsExist
<1>5. ASSUME NEW n \in 1 .. N PROVE f[n] = Collect(s, f[n - 1], out[n])
  <2>1. f[n - 1] \in A
    BY <1>1, <1>4 DEF IsRun
  <2> QED BY <1>4, <2>1 DEF IsRun
<1>6. f = [n \in 0 .. N |-> IF n = 0 THEN <<>> ELSE Collect(s, f[n - 1], out[n])]
  BY <1>1, <1>4, <1>5 DEF IsRun
<1>7. F = [n \in 0 .. N |-> IF n = 0 THEN <<>> ELSE Collect(s, F[n - 1], out[n])]
  BY <1>6 DEF ShownUpTo, N
<1> HIDE DEF F
<1>8. F[0] = <<>> /\ \A n \in 1 .. N : F[n] = Collect(s, F[n - 1], out[n])
  BY <1>1, <1>7
<1> DEFINE S == {n \in 0 .. N : F[n] \in A}
<1>9. 0 \in S
  BY <1>1, <1>2, <1>8
<1>10. ASSUME NEW n \in 0 .. N, n # N, n \in S PROVE n + 1 \in S
  <2>1. n + 1 \in 1 .. N /\ (n + 1) - 1 = n /\ n + 1 \in 0 .. N
    BY <1>1, <1>10
  <2>2. F[n + 1] \in A
    BY <1>1, <1>8, <1>10, <2>1, CollectType DEF A
  <2> QED BY <2>1, <2>2
<1>11. \A n \in 0 .. N : n \in S
  <2> HIDE DEF S
  <2> QED BY <1>1, <1>9, <1>10, UpTo
<1>12. F \in [0 .. N -> A]
  BY <1>7, <1>11
<1> QED BY <1>8, <1>12 DEF F, N, A

LEMMA TaggedFacts ==
    ASSUME NEW q \in Streams, NEW lines \in Seq(Entries)
    PROVE  /\ Tagged(q, lines) \in Output
           /\ Len(Tagged(q, lines)) = Len(lines)
           /\ \A i \in 1 .. Len(lines) : Tagged(q, lines)[i] = <<q, lines[i]>>
<1>1. Len(lines) \in Nat /\ DOMAIN lines = 1 .. Len(lines) /\ \A i \in 1 .. Len(lines) : lines[i] \in Entries
  BY LenProperties
<1>2. Tagged(q, lines) \in [1 .. Len(lines) -> Streams \X Entries]
  BY <1>1 DEF Tagged
<1> DEFINE n == Len(lines)
           T == Streams \X Entries
<1>3. n \in Nat /\ Tagged(q, lines) \in [1 .. n -> T]
  BY <1>1, <1>2
<1> HIDE DEF n, T
<1>4. Tagged(q, lines) \in Seq(T)
  BY <1>3, SeqDef
<1>5. Len(Tagged(q, lines)) = n
  BY <1>3, <1>4, LenProperties
<1> QED BY <1>1, <1>4, <1>5 DEF n, T, Output, Tagged

(* Lines that are added are shown after those of their stream.             *)
LEMMA ShownAfter ==
    ASSUME NEW s, NEW out \in Output, NEW q \in Streams, NEW lines \in Seq(Entries)
    PROVE  /\ out \o Tagged(q, lines) \in Output
           /\ ShownOf(s, out) \in Seq(Entries)
           /\ ShownOf(s, out \o Tagged(q, lines))
                = IF q = s THEN ShownOf(s, out) \o lines ELSE ShownOf(s, out)
<1> DEFINE t == Tagged(q, lines)
           x == out \o t
           M == Len(out)
           N == Len(lines)
           F == ShownUpTo(s, x)
           G == ShownUpTo(s, out)
           P(n) == IF q = s THEN G[M] \o SubSeq(lines, 1, n) ELSE G[M]
<1>1. /\ t \in Output /\ Len(t) = N /\ N \in Nat /\ M \in Nat
      /\ \A i \in 1 .. N : t[i] = <<q, lines[i]>>
      /\ \A i \in 1 .. N : lines[i] \in Entries
  BY TaggedFacts, LenProperties DEF Output
<1> HIDE DEF t
<1>2. /\ x \in Output /\ Len(x) = M + N
      /\ \A i \in 1 .. M + N : x[i] = IF i <= M THEN out[i] ELSE t[i - M]
  <2> DEFINE D == Streams \X Entries
  <2>1. out \in Seq(D) /\ t \in Seq(D)
    BY <1>1 DEF Output
  <2> HIDE DEF D, M, N
  <2>2. /\ x \in Seq(D) /\ Len(x) = Len(out) + Len(t)
        /\ \A i \in 1 .. Len(out) + Len(t) : x[i] = IF i <= Len(out) THEN out[i] ELSE t[i - Len(out)]
    BY <2>1, ConcatProperties
  <2> QED BY <1>1, <2>2 DEF M, N, Output, D
<1> HIDE DEF x
<1>3. /\ G \in [0 .. M -> Seq(Entries)] /\ G[0] = <<>>
      /\ \A n \in 1 .. M : G[n] = Collect(s, G[n - 1], out[n])
  BY ShownFacts
<1>4. /\ F \in [0 .. M + N -> Seq(Entries)] /\ F[0] = <<>>
      /\ \A n \in 1 .. M + N : F[n] = Collect(s, F[n - 1], x[n])
  BY <1>2, ShownFacts
<1>5. ShownOf(s, out) = G[M] /\ ShownOf(s, x) = F[M + N]
  BY <1>2 DEF ShownOf
<1> HIDE DEF F, G, M, N
<1>6. G[M] \in Seq(Entries)
  BY <1>1, <1>3
<1> DEFINE S == {n \in 0 .. M : F[n] = G[n]}
           T == {n \in 0 .. N : F[M + n] = P(n)}
<1>8. 0 \in S
  BY <1>1, <1>3, <1>4
<1>9. ASSUME NEW n \in 0 .. M, n # M, n \in S PROVE n + 1 \in S
  <2>1. n + 1 \in 1 .. M /\ n + 1 \in 0 .. M /\ n + 1 \in 1 .. M + N /\ n + 1 <= M /\ (n + 1) - 1 = n
    BY <1>1, <1>9
  <2>2. F[n + 1] = G[n + 1]
    BY <1>2, <1>3, <1>4, <1>9, <2>1
  <2> QED BY <2>1, <2>2
<1>10. F[M] = G[M]
  <2>1. M \in 0 .. M
    BY <1>1
  <2>2. M \in S
    <3> HIDE DEF S
    <3> QED BY <1>1, <1>8, <1>9, <2>1, UpTo
  <2> QED BY <2>2
<1> DEFINE g == G[M]
<1> HIDE DEF g
<1>0. g \in Seq(Entries) /\ \A n : P(n) = IF q = s THEN g \o SubSeq(lines, 1, n) ELSE g
  BY <1>6 DEF g
<1>11. 0 \in T
  <2>1. M + 0 = M /\ 0 \in 0 .. N /\ SubSeq(lines, 1, 0) = <<>>
    BY <1>1, SubSeqEmpty
  <2>2. g \o <<>> = g
    BY <1>0, ConcatEmptySeq
  <2>3. P(0) = g
    BY <1>0, <2>1, <2>2
  <2> HIDE DEF P
  <2> QED BY <1>10, <2>1, <2>3 DEF g
<1>12. ASSUME NEW n \in 0 .. N, n # N, n \in T PROVE n + 1 \in T
  <2>1. /\ n + 1 \in 1 .. N /\ n + 1 \in 0 .. N /\ n \in 0 .. N /\ (n + 1) - 1 = n
        /\ M + (n + 1) \in 1 .. M + N /\ ~ (M + (n + 1) <= M)
        /\ (M + (n + 1)) - 1 = M + n /\ (M + (n + 1)) - M = n + 1
    BY <1>1, <1>12
  <2>2. F[M + (n + 1)] = Collect(s, F[M + n], t[n + 1])
    BY <1>2, <1>4, <2>1
  <2>3. F[M + n] = P(n)
    BY <1>12
  <2>4. t[n + 1] = <<q, lines[n + 1]>> /\ lines[n + 1] \in Entries
    BY <1>1, <2>1
  <2>5. F[M + (n + 1)] = IF q = s THEN Append(P(n), lines[n + 1]) ELSE P(n)
    <3> HIDE DEF P
    <3> QED BY <2>2, <2>3, <2>4 DEF Collect
  <2>6. Append(g \o SubSeq(lines, 1, n), lines[n + 1]) = g \o SubSeq(lines, 1, n + 1)
    <3> DEFINE u == SubSeq(lines, 1, n)
               e == lines[n + 1]
    <3>1. u \in Seq(Entries)
      <4>1. 1 \in Int /\ n \in Int /\ \A i \in 1 .. n : lines[i] \in Entries
        BY <1>1
      <4> QED BY <4>1, SubSeqProperties
    <3>2. SubSeq(lines, 1, n + 1) = u \o <<e>>
      <4>1. 1 \in 1 .. Len(lines) /\ n + 1 \in 1 .. Len(lines)
        BY <1>1, <2>1 DEF N
      <4>2. SubSeq(lines, 1, n + 1) = SubSeq(lines, 1, (n + 1) - 1) \o <<lines[n + 1]>>
        BY <4>1, SubSeqRecursiveSecond
      <4> QED BY <2>1, <4>2
    <3>3. e \in Entries
      BY <2>4
    <3> HIDE DEF u, e
    <3>4. g \o u \in Seq(Entries) /\ <<e>> \in Seq(Entries)
      BY <1>0, <3>1, <3>3
    <3>5. Append(g \o u, e) = (g \o u) \o <<e>>
      BY <3>3, <3>4, AppendIsConcat
    <3>6. (g \o u) \o <<e>> = g \o (u \o <<e>>)
      BY <1>0, <3>1, <3>4, ConcatAssociative
    <3> QED BY <3>2, <3>5, <3>6 DEF u, e
  <2>7. F[M + (n + 1)] = P(n + 1)
    <3>1. CASE q = s
      BY <1>0, <2>5, <2>6, <3>1
    <3>2. CASE q # s
      BY <1>0, <2>5, <3>2
    <3> QED BY <3>1, <3>2
  <2> HIDE DEF P
  <2> QED BY <2>1, <2>7
<1>13. F[M + N] = P(N)
  <2>1. N \in 0 .. N
    BY <1>1
  <2>2. N \in T
    <3> HIDE DEF T
    <3> QED BY <1>1, <1>11, <1>12, <2>1, UpTo
  <2> QED BY <2>2
<1>14. SubSeq(lines, 1, N) = lines
  BY SubSeqFull DEF N
<1>15. ShownOf(s, x) = IF q = s THEN g \o lines ELSE g
  BY <1>0, <1>5, <1>13, <1>14
<1> QED BY <1>2, <1>5, <1>6, <1>15 DEF x, t, g

LEMMA ShownOfNothing == \A s : ShownOf(s, <<>>) = <<>>
<1> SUFFICES ASSUME NEW s PROVE ShownOf(s, <<>>) = <<>>
  OBVIOUS
<1>1. <<>> \in Output /\ Len(<<>>) = 0
  BY DEF Output
<1> QED BY <1>1, ShownFacts DEF ShownOf

(* Suffixes. *)
Ends(x, y) ==
    /\ Len(x) <= Len(y)
    /\ \A i \in 1 .. Len(x) : x[(Len(x) - i) + 1] = y[(Len(y) - i) + 1]

LEMMA SuffixIs ==
    ASSUME NEW A, NEW x \in Seq(A), NEW y \in Seq(A)
    PROVE  IsSuffix(x, y) <=> Ends(x, y)
<1> DEFINE m == Len(x)
           n == Len(y)
           u == Reverse(x)
           v == Reverse(y)
<1>1. m \in Nat /\ n \in Nat /\ (\A i \in 1 .. m : x[i] \in A) /\ (\A i \in 1 .. n : y[i] \in A)
  BY LenProperties
<1>2. /\ u = [i \in 1 .. m |-> x[(m - i) + 1]] /\ v = [i \in 1 .. n |-> y[(n - i) + 1]]
  BY DEF Reverse
<1> HIDE DEF m, n
<1>3. u \in [1 .. m -> A] /\ v \in [1 .. n -> A]
  BY <1>1, <1>2
<1> HIDE DEF u, v
<1>4. u \in Seq(A) /\ v \in Seq(A) /\ Len(u) = m /\ Len(v) = n
  <2>1. u \in Seq(A) /\ v \in Seq(A)
    BY <1>1, <1>3, SeqDef
  <2> QED BY <1>1, <1>3, <2>1, LenProperties
<1>5. IsSuffix(x, y) <=> m <= n /\ SubSeq(u, 1, m) = SubSeq(v, 1, m)
  BY <1>4 DEF IsSuffix, IsPrefix, u, v
<1>6. ASSUME m <= n
      PROVE  SubSeq(u, 1, m) = SubSeq(v, 1, m) <=> \A i \in 1 .. m : x[(m - i) + 1] = y[(n - i) + 1]
  <2>1. /\ SubSeq(u, 1, m) \in Seq(A) /\ Len(SubSeq(u, 1, m)) = m
        /\ \A i \in 1 .. m : SubSeq(u, 1, m)[i] = u[i]
    <3>1. SubSeq(u, 1, m) = u
      BY <1>4, SubSeqFull
    <3> QED BY <1>4, <3>1
  <2>2. /\ SubSeq(v, 1, m) \in Seq(A) /\ Len(SubSeq(v, 1, m)) = m
        /\ \A i \in 1 .. m : SubSeq(v, 1, m)[i] = v[i]
    <3>1. 1 \in Int /\ m \in Int /\ (\A i \in 1 .. m : v[i] \in A) /\ (m - 1) + 1 = m
          /\ (\A i \in Nat : (1 + i) - 1 = i)
      BY <1>1, <1>3, <1>6
    <3>2. /\ SubSeq(v, 1, m) \in Seq(A)
          /\ Len(SubSeq(v, 1, m)) = IF 1 <= m THEN (m - 1) + 1 ELSE 0
          /\ \A i \in 1 .. (m - 1) + 1 : SubSeq(v, 1, m)[i] = v[(1 + i) - 1]
      BY <3>1, SubSeqProperties
    <3> QED BY <1>1, <3>1, <3>2
  <2>3. SubSeq(u, 1, m) = SubSeq(v, 1, m) <=> \A i \in 1 .. m : u[i] = v[i]
    <3>1. ASSUME \A i \in 1 .. m : u[i] = v[i] PROVE SubSeq(u, 1, m) = SubSeq(v, 1, m)
      <4>1. \A i \in 1 .. Len(SubSeq(u, 1, m)) : SubSeq(u, 1, m)[i] = SubSeq(v, 1, m)[i]
        BY <2>1, <2>2, <3>1
      <4> QED BY <2>1, <2>2, <4>1, SeqEqual
    <3>2. ASSUME SubSeq(u, 1, m) = SubSeq(v, 1, m) PROVE \A i \in 1 .. m : u[i] = v[i]
      BY <2>1, <2>2, <3>2
    <3> QED BY <3>1, <3>2
  <2>4. \A i \in 1 .. m : i \in 1 .. n /\ u[i] = x[(m - i) + 1] /\ v[i] = y[(n - i) + 1]
    BY <1>1, <1>2, <1>6
  <2>5. (\A i \in 1 .. m : u[i] = v[i]) <=> (\A i \in 1 .. m : x[(m - i) + 1] = y[(n - i) + 1])
    <3>1. \A i \in 1 .. m : u[i] = v[i] <=> x[(m - i) + 1] = y[(n - i) + 1]
      BY <2>4
    <3> QED BY <3>1
  <2> QED BY <2>3, <2>5
<1> QED BY <1>5, <1>6 DEF m, n, Ends

LEMMA SuffixGrows ==
    ASSUME NEW A, NEW x \in Seq(A), NEW y \in Seq(A), NEW z \in Seq(A), IsSuffix(x, y)
    PROVE  IsSuffix(x \o z, y \o z)
<1> DEFINE m == Len(x)
           n == Len(y)
           k == Len(z)
           u == x \o z
           v == y \o z
<1>1. m \in Nat /\ n \in Nat /\ k \in Nat
  BY LenProperties
<1>2. /\ u \in Seq(A) /\ Len(u) = m + k
      /\ \A i \in 1 .. m + k : u[i] = IF i <= m THEN x[i] ELSE z[i - m]
  BY ConcatProperties
<1>3. /\ v \in Seq(A) /\ Len(v) = n + k
      /\ \A i \in 1 .. n + k : v[i] = IF i <= n THEN y[i] ELSE z[i - n]
  BY ConcatProperties
<1>4. m <= n /\ \A i \in 1 .. m : x[(m - i) + 1] = y[(n - i) + 1]
  BY SuffixIs DEF Ends
<1> HIDE DEF m, n, k, u, v
<1>5. ASSUME NEW i \in 1 .. m + k PROVE u[((m + k) - i) + 1] = v[((n + k) - i) + 1]
  <2> DEFINE a == ((m + k) - i) + 1
             b == ((n + k) - i) + 1
  <2>1. a \in 1 .. m + k /\ b \in 1 .. n + k
    BY <1>1, <1>4
  <2>2. CASE i <= k
    <3>1. ~ (a <= m) /\ ~ (b <= n) /\ a - m = b - n
      BY <1>1, <2>2
    <3> HIDE DEF a, b
    <3>2. u[a] = v[b]
      BY <1>2, <1>3, <2>1, <3>1
    <3> QED BY <3>2 DEF a, b
  <2>3. CASE ~ (i <= k)
    <3> DEFINE j == i - k
    <3>1. a <= m /\ b <= n /\ j \in 1 .. m /\ a = (m - j) + 1 /\ b = (n - j) + 1
      BY <1>1, <1>4, <2>3
    <3> HIDE DEF a, b, j
    <3>2. u[a] = v[b]
      BY <1>2, <1>3, <1>4, <2>1, <3>1
    <3> QED BY <3>2 DEF a, b
  <2> QED BY <2>2, <2>3
<1>6. m + k <= n + k
  BY <1>1, <1>4
<1>7. IsSuffix(u, v)
  <2>1. Len(u) = m + k /\ Len(v) = n + k
    BY <1>2, <1>3
  <2>2. Ends(u, v)
    BY <1>5, <1>6, <2>1 DEF Ends
  <2> QED BY <1>2, <1>3, <2>2, SuffixIs
<1> QED BY <1>7 DEF u, v

LEMMA SuffixOfAll ==
    ASSUME NEW A, NEW y \in Seq(A)
    PROVE  IsSuffix(<<>>, y) /\ IsSuffix(y, y)
<1>1. <<>> \in Seq(A) /\ Len(<<>>) = 0 /\ Len(y) \in Nat
  BY LenProperties
<1>2. IsSuffix(y, y)
  <2>1. Ends(y, y)
    BY <1>1 DEF Ends
  <2> QED BY <2>1, SuffixIs
<1>3. IsSuffix(<<>>, y)
  <2> DEFINE x == <<>>
  <2>1. x \in Seq(A) /\ Len(x) = 0
    BY <1>1
  <2> HIDE DEF x
  <2>2. Ends(x, y)
    BY <1>1, <2>1 DEF Ends
  <2>3. IsSuffix(x, y)
    BY <2>1, <2>2, SuffixIs
  <2> QED BY <2>3 DEF x
<1> QED BY <1>2, <1>3

(* One turn of the loop, and the last one, on what was read before.         *)
LEMMA NothingRead ==
    /\ DecodeBytes(<<>>, <<>>) = [carry |-> <<>>, out |-> <<>>]
    /\ Extract(<<>>) = [chunks |-> <<>>, rest |-> <<>>]
    /\ \A first \in Carries : DecodeBytes(first, <<>>) = [carry |-> first, out |-> <<>>]
<1>1. <<>> \in Seq(Bytes) /\ <<>> \in Seq(Chars) /\ Len(<<>>) = 0 /\ <<>> \in Carries
  BY DEF Carries
<1>2. \A first \in Carries : DecodeBytes(first, <<>>) = [carry |-> first, out |-> <<>>]
  BY <1>1, DecodedFacts, DecodeBytesDef
<1>3. Extract(<<>>) = [chunks |-> <<>>, rest |-> <<>>]
  <2> DEFINE e == <<>>
  <2>1. e \in Seq(Chars) /\ Len(e) = 0 /\ 1 \in 1 .. Len(e) + 1 /\ SubSeq(e, 1, Len(e)) = e
    BY <1>1
  <2> HIDE DEF e
  <2>2. FromOn(e, 1) = {}
    <3>1. ASSUME NEW b \in Boundaries(e) PROVE FALSE
      <4>1. b.index \in 1 .. Len(e)
        BY <2>1, BoundaryType
      <4> QED BY <2>1, <4>1
    <3> QED BY <3>1 DEF FromOn
  <2>3. Extracted(e)[1] = [chunks |-> <<>>, rest |-> e]
    BY <2>1, <2>2, NoneLeft
  <2> QED BY <2>3, ExtractDef DEF e
<1> QED BY <1>1, <1>2, <1>3

LEMMA ReadMore ==
    ASSUME NEW a \in Seq(Bytes), NEW b \in Seq(Bytes)
    PROVE  LET d == DecodeBytes(<<>>, a)
               e == DecodeBytes(d.carry, b)
               o == Extract(d.out)
               f == Extract(o.rest \o e.out)
           IN  /\ DecodeBytes(<<>>, a \o b).carry = e.carry
               /\ Extract(DecodeBytes(<<>>, a \o b).out) = [chunks |-> o.chunks \o f.chunks, rest |-> f.rest]
<1> DEFINE d == DecodeBytes(<<>>, a)
           e == DecodeBytes(d.carry, b)
           p == d.out
           q == e.out
<1>1. <<>> \in Carries
  BY DEF Carries
<1>2. d \in Decodings
  BY <1>1, DecodeBytesType
<1>3. d.carry \in Carries /\ p \in Seq(Chars)
  BY <1>2 DEF Decodings
<1>4. e \in Decodings
  <2> HIDE DEF d
  <2> QED BY <1>3, DecodeBytesType
<1>5. q \in Seq(Chars)
  BY <1>4 DEF Decodings
<1>6. DecodeBytes(<<>>, a \o b) = After(d.out, e)
  BY <1>1, DecodeInPieces
<1>7. DecodeBytes(<<>>, a \o b).out = p \o q /\ DecodeBytes(<<>>, a \o b).carry = e.carry
  <2>1. DecodeBytes(<<>>, a \o b) = [carry |-> e.carry, out |-> p \o q]
    <3> HIDE DEF d, e
    <3> QED BY <1>6 DEF After
  <2> HIDE DEF d, e, p, q
  <2> QED BY <2>1
<1> HIDE DEF p, q
<1>8. Extract(p \o q) = Join(Extract(p), q)
  BY <1>3, <1>5, ExtractInPieces
<1> QED BY <1>7, <1>8 DEF Join, p, q

LEMMA ReadEnd ==
    ASSUME NEW a \in Seq(Bytes)
    PROVE  LET d == DecodeBytes(<<>>, a)
               e == Decode(d.carry, <<>>, FALSE)
               o == Extract(d.out)
               f == Extract(o.rest \o e.out)
           IN  /\ e.carry = <<>>
               /\ Extract(Flushed(d).out) = [chunks |-> o.chunks \o f.chunks, rest |-> f.rest]
<1> DEFINE d == DecodeBytes(<<>>, a)
           s == [carry |-> d.carry, out |-> <<>>]
           e == Decode(d.carry, <<>>, FALSE)
           p == d.out
           q == e.out
<1>1. <<>> \in Carries
  BY DEF Carries
<1>2. d \in Decodings
  BY <1>1, DecodeBytesType
<1>3. d.carry \in Carries /\ p \in Seq(Chars)
  BY <1>2 DEF Decodings
<1>4. s \in Decodings
  BY <1>3 DEF Decodings
<1>5. e = Flushed(s)
  <2> DEFINE c == d.carry
  <2> HIDE DEF c
  <2>1. DecodeBytes(c, <<>>) = [carry |-> c, out |-> <<>>]
    BY <1>3, NothingRead DEF c
  <2> QED BY <2>1 DEF Decode, c
<1>6. d = After(d.out, s)
  <2> HIDE DEF p
  <2>1. p \o <<>> = p
    BY <1>3, ConcatEmptySeq
  <2>2. d = [carry |-> d.carry, out |-> d.out]
    BY <1>2 DEF Decodings
  <2> HIDE DEF d
  <2> QED BY <2>1, <2>2 DEF After, p
<1>7. e.carry = <<>> /\ q \in Seq(Chars) /\ Flushed(d) = After(d.out, e)
  <2> HIDE DEF s, d
  <2>1. Flushed(s).carry = <<>> /\ Flushed(s) \in Decodings
    BY <1>4, FlushedFacts
  <2>2. Flushed(After(p, s)) = After(p, Flushed(s))
    <3> HIDE DEF p
    <3> QED BY <1>3, <1>4, FlushedFacts
  <2> HIDE DEF e
  <2>3. Flushed(d) = After(d.out, e)
    BY <1>5, <1>6, <2>2
  <2>4. e.out \in Seq(Chars)
    BY <1>5, <2>1 DEF Decodings
  <2> QED BY <1>5, <2>1, <2>3, <2>4
<1>8. Flushed(d).out = p \o q
  <2>1. Flushed(d) = [carry |-> e.carry, out |-> p \o q]
    <3> HIDE DEF d, e
    <3> QED BY <1>7 DEF After
  <2> HIDE DEF d, e, p, q
  <2> QED BY <2>1
<1> HIDE DEF p, q
<1>9. Extract(p \o q) = Join(Extract(p), q)
  BY <1>3, <1>7, ExtractInPieces
<1> QED BY <1>7, <1>8, <1>9 DEF Join, p, q

LEMMA FinalType ==
    ASSUME NEW rest \in Seq(Chars) PROVE Final(rest) \in Seq(Chunks)
<1>1. Final(rest) = <<>> \/ Final(rest) = Parse(rest)
  BY DEF Final
<1>2. <<>> \in Seq(Chunks) /\ Parse(rest) \in Seq(Chunks)
  BY ParseType
<1> QED BY <1>1, <1>2

(* The state: what a stream has delivered and what it keeps for later is    *)
(* what the parser makes of all the bytes read so far, taken as one chunk.  *)
SoFar(s) == DecodeBytes(<<>>, SubSeq(text, 1, count[s]))

StreamType ==
    /\ text \in Seq(Bytes)
    /\ phase \in [Streams -> {"idle", "opening", "reading", "done", "failed"}]
    /\ count \in [Streams -> 0 .. Len(text)]
    /\ carry \in [Streams -> Carries]
    /\ pending \in [Streams -> Seq(Chars)]
    /\ delivered \in [Streams -> Seq(Chunks)]
    /\ output \in Output
    /\ newest \in Streams

NotBegun(s) == phase[s] \in {"idle", "opening"} => count[s] = 0 /\ delivered[s] = <<>>

InTheMiddle(s) ==
    phase[s] # "done" =>
        /\ carry[s] = SoFar(s).carry
        /\ Extract(SoFar(s).out) = [chunks |-> delivered[s], rest |-> pending[s]]

AtTheEnd(s) ==
    phase[s] = "done" =>
        LET frames == Extract(Flushed(SoFar(s)).out)
        IN  /\ count[s] = Len(text)
            /\ carry[s] = <<>>
            /\ pending[s] = frames.rest
            /\ delivered[s] = frames.chunks \o Final(frames.rest)

All(s) == delivered[s] \o (IF phase[s] = "failed" THEN <<"error">> ELSE <<>>)

OnScreen(s) ==
    /\ IsSuffix(ShownOf(s, output), All(s))
    /\ s = newest => ShownOf(s, output) = All(s)

StreamInv ==
    /\ StreamType
    /\ \A s \in Streams : NotBegun(s) /\ InTheMiddle(s) /\ AtTheEnd(s) /\ OnScreen(s)

LEMMA SoFarType ==
    ASSUME StreamType, NEW s \in Streams
    PROVE  SubSeq(text, 1, count[s]) \in Seq(Bytes) /\ SoFar(s) \in Decodings
<1>1. /\ text \in Seq(Bytes) /\ count[s] \in 0 .. Len(text) /\ Len(text) \in Nat
      /\ \A i \in 1 .. Len(text) : text[i] \in Bytes
  BY LenProperties DEF StreamType
<1> DEFINE n == count[s]
<1>2. 1 \in Int /\ n \in Int /\ \A i \in 1 .. n : text[i] \in Bytes
  BY <1>1
<1> HIDE DEF n
<1>3. SubSeq(text, 1, n) \in Seq(Bytes)
  BY <1>2, SubSeqProperties
<1>4. <<>> \in Carries
  BY DEF Carries
<1> QED BY <1>3, <1>4, DecodeBytesType DEF SoFar, n

LEMMA AllType ==
    ASSUME StreamType, NEW s \in Streams
    PROVE  All(s) \in Seq(Entries)
<1> DEFINE d == delivered[s]
           e == IF phase[s] = "failed" THEN <<"error">> ELSE <<>>
<1>1. d \in Seq(Entries)
  BY DEF StreamType, Entries
<1>2. e \in Seq(Entries)
  <2>1. "error" \in Entries
    BY DEF Entries
  <2>2. <<"error">> \in Seq(Entries) /\ <<>> \in Seq(Entries)
    BY <2>1
  <2> QED BY <2>2
<1> HIDE DEF d, e
<1>3. d \o e \in Seq(Entries)
  BY <1>1, <1>2
<1> QED BY <1>3 DEF All, d, e

LEMMA AllTypeNow == StreamType => \A s \in Streams : All(s) \in Seq(Entries)
BY AllType

LEMMA AllTypeNext == StreamType' => (\A s \in Streams : All(s) \in Seq(Entries))'
BY AllTypeNow, PTL

LEMMA StreamBegins == StreamInit => StreamInv
<1> SUFFICES ASSUME StreamInit PROVE StreamInv
  OBVIOUS
<1>1. /\ text \in Seq(Bytes) /\ Len(text) \in Nat
      /\ \A s \in Streams : /\ phase[s] = "idle" /\ count[s] = 0 /\ carry[s] = <<>>
                            /\ pending[s] = <<>> /\ delivered[s] = <<>>
      /\ output = <<>>
  BY TextType, LenProperties DEF StreamInit
<1>2. StreamType
  <2>1. <<>> \in Carries /\ <<>> \in Seq(Chars) /\ <<>> \in Seq(Chunks) /\ <<>> \in Output
    BY DEF Carries, Output
  <2>2. 0 \in 0 .. Len(text)
    BY <1>1
  <2> QED BY <1>1, <2>1, <2>2 DEF StreamInit, StreamType
<1>3. ASSUME NEW s \in Streams PROVE NotBegun(s) /\ InTheMiddle(s) /\ AtTheEnd(s) /\ OnScreen(s)
  <2>1. NotBegun(s) /\ AtTheEnd(s)
    BY <1>1 DEF NotBegun, AtTheEnd
  <2>2. SoFar(s) = [carry |-> <<>>, out |-> <<>>]
    <3>1. SubSeq(text, 1, count[s]) = <<>>
      BY <1>1, SubSeqEmpty
    <3> QED BY <3>1, NothingRead DEF SoFar
  <2>3. InTheMiddle(s)
    BY <1>1, <2>2, NothingRead DEF InTheMiddle
  <2>4. All(s) = <<>>
    <3>1. <<>> \in Seq(Chunks) /\ <<>> \o <<>> = <<>>
      OBVIOUS
    <3> QED BY <1>1, <3>1 DEF All
  <2>5. ShownOf(s, output) = <<>>
    BY <1>1, ShownOfNothing
  <2>6. IsSuffix(<<>>, <<>>)
    <3>1. <<>> \in Seq(Entries)
      OBVIOUS
    <3> QED BY <3>1, SuffixOfAll
  <2> QED BY <2>1, <2>3, <2>4, <2>5, <2>6 DEF OnScreen
<1> QED BY <1>2, <1>3 DEF StreamInv

(* A step of s that shows lines at the end of what it has delivered.        *)
LEMMA ShowKeepsOnScreen ==
    ASSUME StreamInv, StreamType', NEW s \in Streams, NEW lines \in Seq(Entries),
           output' = output \o Tagged(s, lines), newest' = newest,
           All(s)' = All(s) \o lines,
           \A q \in Streams : q # s => All(q)' = All(q)
    PROVE  \A q \in Streams : OnScreen(q)'
<1> SUFFICES ASSUME NEW q \in Streams PROVE OnScreen(q)'
  OBVIOUS
<1>1. output \in Output /\ StreamType /\ OnScreen(q)
  BY DEF StreamInv, StreamType
<1> DEFINE shown == ShownOf(q, output)
           all == All(q)
<1>2. /\ shown \in Seq(Entries)
      /\ ShownOf(q, output') = IF s = q THEN shown \o lines ELSE shown
  BY <1>1, ShownAfter
<1>3. all \in Seq(Entries) /\ IsSuffix(shown, all) /\ (q = newest => shown = all)
  BY <1>1, AllType DEF OnScreen
<1> HIDE DEF shown, all
<1>4. IsSuffix(shown \o lines, all \o lines)
  BY <1>2, <1>3, SuffixGrows
<1>5. CASE s = q
  <2>1. All(q)' = all \o lines /\ ShownOf(q, output') = shown \o lines
    BY <1>2, <1>5 DEF all
  <2> QED BY <1>3, <1>4, <2>1 DEF OnScreen
<1>6. CASE s # q
  <2>1. All(q)' = all /\ ShownOf(q, output') = shown
    BY <1>2, <1>6 DEF all
  <2> QED BY <1>3, <2>1 DEF OnScreen
<1> QED BY <1>5, <1>6

(* What of the invariant does not depend on the view. *)
ParserInv(s) == NotBegun(s) /\ InTheMiddle(s) /\ AtTheEnd(s)

LEMMA OthersKept ==
    ASSUME StreamInv, NEW q \in Streams, text' = text, phase'[q] = phase[q], count'[q] = count[q],
           carry'[q] = carry[q], pending'[q] = pending[q], delivered'[q] = delivered[q]
    PROVE  ParserInv(q)' /\ All(q)' = All(q)
<1>1. SoFar(q)' = SoFar(q)
  BY DEF SoFar
<1>2. All(q)' = All(q)
  BY DEF All
<1> QED BY <1>1, <1>2 DEF StreamInv, ParserInv, NotBegun, InTheMiddle, AtTheEnd

(* The steps that read nothing. *)
LEMMA WaitingKept ==
    ASSUME StreamInv, NEW s \in Streams, NEW p, p \in {"opening", "reading", "failed"},
           phase[s] \in {"idle", "opening", "reading"}, p = "opening" => phase[s] = "idle",
           phase' = [phase EXCEPT ![s] = p],
           UNCHANGED <<text, count, carry, pending, delivered>>
    PROVE  /\ phase' \in [Streams -> {"idle", "opening", "reading", "done", "failed"}]
           /\ \A q \in Streams : ParserInv(q)'
           /\ \A q \in Streams : q # s => All(q)' = All(q)
<1>1. phase \in [Streams -> {"idle", "opening", "reading", "done", "failed"}]
  BY DEF StreamInv, StreamType
<1>2. ASSUME NEW q \in Streams, q # s PROVE ParserInv(q)' /\ All(q)' = All(q)
  <2>1. phase'[q] = phase[q]
    BY <1>1, <1>2
  <2> QED BY <2>1, OthersKept
<1>3. ParserInv(s)'
  <2>1. phase'[s] = p /\ SoFar(s)' = SoFar(s)
    BY <1>1 DEF SoFar
  <2>2. NotBegun(s) /\ InTheMiddle(s)
    BY DEF StreamInv
  <2> QED BY <2>1, <2>2 DEF ParserInv, NotBegun, InTheMiddle, AtTheEnd
<1> QED BY <1>1, <1>2, <1>3

LEMMA ClickKept ==
    ASSUME StreamInv, NEW s \in Streams, Click(s)
    PROVE  StreamInv'
<1>1. /\ phase[s] = "idle" /\ phase' = [phase EXCEPT ![s] = "opening"] /\ output' = <<>> /\ newest' = s
      /\ UNCHANGED <<text, count, carry, pending, delivered>>
  BY DEF Click
<1>2. /\ phase' \in [Streams -> {"idle", "opening", "reading", "done", "failed"}]
      /\ \A q \in Streams : ParserInv(q)'
  BY <1>1, WaitingKept
<1>3. StreamType'
  <2>1. <<>> \in Output
    BY DEF Output
  <2> QED BY <1>1, <1>2, <2>1 DEF StreamInv, StreamType
<1>4. ASSUME NEW q \in Streams PROVE OnScreen(q)'
  <2>1. All(q)' \in Seq(Entries)
    BY <1>3, AllTypeNext
  <2>2. ShownOf(q, output') = <<>>
    BY <1>1, ShownOfNothing
  <2>3. IsSuffix(<<>>, All(q)')
    <3> DEFINE y == All(q)'
    <3> HIDE DEF y
    <3>1. y \in Seq(Entries)
      BY <2>1 DEF y
    <3>2. IsSuffix(<<>>, y)
      BY <3>1, SuffixOfAll
    <3> QED BY <3>2 DEF y
  <2>4. q = s => All(q)' = <<>>
    <3>1. delivered[s] = <<>> /\ phase'[s] = "opening" /\ delivered' = delivered
      BY <1>1 DEF StreamInv, StreamType, NotBegun
    <3>2. <<>> \o <<>> = <<>>
      <4>1. <<>> \in Seq(Chunks)
        OBVIOUS
      <4> QED BY <4>1
    <3> QED BY <3>1, <3>2 DEF All
  <2> QED BY <1>1, <2>2, <2>3, <2>4 DEF OnScreen
<1> QED BY <1>2, <1>3, <1>4 DEF StreamInv, ParserInv

LEMMA OpenKept ==
    ASSUME StreamInv, NEW s \in Streams, Open(s)
    PROVE  StreamInv'
<1>1. /\ phase[s] = "opening" /\ phase' = [phase EXCEPT ![s] = "reading"]
      /\ UNCHANGED <<text, count, carry, pending, delivered, output, newest>>
  BY DEF Open
<1>2. /\ phase' \in [Streams -> {"idle", "opening", "reading", "done", "failed"}]
      /\ \A q \in Streams : ParserInv(q)'
      /\ \A q \in Streams : q # s => All(q)' = All(q)
  BY <1>1, WaitingKept
<1>3. StreamType'
  BY <1>1, <1>2 DEF StreamInv, StreamType
<1>4. All(s)' = All(s)
  <2>1. phase'[s] = "reading"
    BY <1>1 DEF StreamInv, StreamType
  <2> QED BY <1>1, <2>1 DEF All
<1>5. ASSUME NEW q \in Streams PROVE OnScreen(q)'
  <2>1. All(q)' = All(q)
    BY <1>2, <1>4
  <2>2. OnScreen(q)
    BY DEF StreamInv
  <2> QED BY <1>1, <2>1, <2>2 DEF OnScreen
<1> QED BY <1>2, <1>3, <1>5 DEF StreamInv, ParserInv

LEMMA BreakOffKept ==
    ASSUME StreamInv, NEW s \in Streams, BreakOff(s)
    PROVE  StreamInv'
<1> DEFINE lines == <<"error">>
<1>1. /\ phase[s] \in {"opening", "reading"} /\ phase' = [phase EXCEPT ![s] = "failed"]
      /\ output' = output \o Tagged(s, lines)
      /\ UNCHANGED <<text, count, carry, pending, delivered, newest>>
  BY DEF BreakOff, Show, Tagged
<1>2. /\ phase' \in [Streams -> {"idle", "opening", "reading", "done", "failed"}]
      /\ \A q \in Streams : ParserInv(q)'
      /\ \A q \in Streams : q # s => All(q)' = All(q)
  BY <1>1, WaitingKept
<1>3. lines \in Seq(Entries)
  <2>1. "error" \in Entries
    BY DEF Entries
  <2> QED BY <2>1
<1>4. StreamType'
  <2>1. output \in Output
    BY DEF StreamInv, StreamType
  <2> HIDE DEF lines
  <2>2. output' \in Output
    BY <1>1, <1>3, <2>1, ShownAfter
  <2> QED BY <1>1, <1>2, <2>2 DEF StreamInv, StreamType
<1>5. All(s)' = All(s) \o lines
  <2> DEFINE d == delivered[s]
  <2>1. d \in Seq(Chunks)
    BY DEF StreamInv, StreamType
  <2>2. phase'[s] = "failed" /\ phase[s] # "failed"
    BY <1>1 DEF StreamInv, StreamType
  <2>3. delivered' = delivered
    BY <1>1
  <2>4. All(s) = d \o <<>> /\ All(s)' = d \o lines
    BY <2>2, <2>3 DEF All
  <2> HIDE DEF d
  <2>5. d \o <<>> = d
    BY <2>1, ConcatEmptySeq
  <2> QED BY <2>4, <2>5
<1> HIDE DEF lines
<1>6. \A q \in Streams : OnScreen(q)'
  BY <1>1, <1>2, <1>3, <1>4, <1>5, ShowKeepsOnScreen
<1> QED BY <1>2, <1>4, <1>6 DEF StreamInv, ParserInv

LEMMA ReadKept ==
    ASSUME StreamInv, NEW s \in Streams, Read(s)
    PROVE  StreamInv'
<1>1. PICK end \in count[s] + 1 .. Len(text) :
         LET decoded == Decode(carry[s], SubSeq(text, count[s] + 1, end), TRUE)
             frames == Extract(pending[s] \o decoded.out)
         IN  /\ count' = [count EXCEPT ![s] = end]
             /\ carry' = [carry EXCEPT ![s] = decoded.carry]
             /\ pending' = [pending EXCEPT ![s] = frames.rest]
             /\ delivered' = [delivered EXCEPT ![s] = @ \o frames.chunks]
             /\ Show(s, frames.chunks)
  BY DEF Read
<1>2. phase[s] = "reading" /\ UNCHANGED <<text, phase, newest>>
  BY DEF Read
<1>3. StreamType /\ NotBegun(s) /\ InTheMiddle(s) /\ AtTheEnd(s)
  BY DEF StreamInv
<1> DEFINE n == count[s]
           a == SubSeq(text, 1, n)
           b == SubSeq(text, n + 1, end)
           d == DecodeBytes(<<>>, a)
           e == DecodeBytes(d.carry, b)
           o == Extract(d.out)
           f == Extract(o.rest \o e.out)
<1>4. /\ text \in Seq(Bytes) /\ Len(text) \in Nat /\ n \in 0 .. Len(text) /\ end \in n + 1 .. Len(text)
      /\ \A i \in 1 .. Len(text) : text[i] \in Bytes
  BY <1>3, LenProperties DEF StreamType
<1>5. end \in 0 .. Len(text) /\ end \in Nat
  BY <1>4
<1>6. a \in Seq(Bytes) /\ b \in Seq(Bytes) /\ SubSeq(text, 1, end) = a \o b
  <2> HIDE DEF n
  <2>1. /\ 1 \in Int /\ n \in Int /\ n + 1 \in Int /\ end \in Int
        /\ (\A i \in 1 .. n : text[i] \in Bytes) /\ (\A i \in n + 1 .. end : text[i] \in Bytes)
    BY <1>4
  <2>2. a \in Seq(Bytes) /\ b \in Seq(Bytes)
    BY <2>1, SubSeqProperties
  <2>3. 1 \in 1 .. Len(text) + 1 /\ n \in 1 - 1 .. Len(text) /\ end \in n .. Len(text)
    BY <1>4
  <2>4. SubSeq(text, 1, n) \o SubSeq(text, n + 1, end) = SubSeq(text, 1, end)
    BY <1>4, <2>3, ConcatAdjacentSubSeq
  <2> QED BY <2>2, <2>4
<1>7. carry[s] = d.carry /\ o = [chunks |-> delivered[s], rest |-> pending[s]]
  BY <1>2, <1>3 DEF InTheMiddle, SoFar
<1>8. /\ count' = [count EXCEPT ![s] = end]
      /\ carry' = [carry EXCEPT ![s] = e.carry]
      /\ pending' = [pending EXCEPT ![s] = f.rest]
      /\ delivered' = [delivered EXCEPT ![s] = @ \o f.chunks]
      /\ Show(s, f.chunks)
  <2>1. Decode(carry[s], SubSeq(text, count[s] + 1, end), TRUE) = e
    BY <1>7 DEF Decode
  <2>2. pending[s] = o.rest
    BY <1>7
  <2> HIDE DEF o, e
  <2> QED BY <1>1, <2>1, <2>2
<1>9. /\ DecodeBytes(<<>>, a \o b).carry = e.carry
      /\ Extract(DecodeBytes(<<>>, a \o b).out) = [chunks |-> o.chunks \o f.chunks, rest |-> f.rest]
  <2> HIDE DEF a, b
  <2> QED BY <1>6, ReadMore
<1>10. o.chunks = delivered[s] /\ o.rest = pending[s]
  BY <1>7
<1>11. e.carry \in Carries /\ f.chunks \in Seq(Chunks) /\ f.rest \in Seq(Chars)
  <2> DEFINE c == d.carry
             r == o.rest
             q == e.out
  <2>1. c \in Carries /\ r \in Seq(Chars)
    BY <1>3, <1>7 DEF StreamType
  <2> HIDE DEF c, b, r
  <2>2. e \in Decodings
    BY <1>6, <2>1, DecodeBytesType DEF c
  <2> HIDE DEF e
  <2>3. e.carry \in Carries /\ q \in Seq(Chars)
    BY <2>2 DEF Decodings
  <2> HIDE DEF q
  <2>4. r \o q \in Seq(Chars)
    BY <2>1, <2>3
  <2>5. Extract(r \o q) \in ExtractOutcomes
    BY <2>4, ExtractType
  <2>6. f \in ExtractOutcomes
    BY <2>5 DEF r, q
  <2> HIDE DEF f
  <2> QED BY <2>3, <2>6 DEF ExtractOutcomes
<1> HIDE DEF a, b, d, e, o, f
<1>12. f.chunks \in Seq(Entries) /\ output' = output \o Tagged(s, f.chunks)
  <2> DEFINE c == f.chunks
  <2>1. c \in Seq(Chunks)
    BY <1>11
  <2> HIDE DEF c
  <2>2. c \in Seq(Entries)
    BY <2>1 DEF Entries
  <2>3. output' = output \o Tagged(s, c)
    BY <1>8 DEF Show, Tagged, c
  <2> QED BY <2>2, <2>3 DEF c
<1>13. /\ count'[s] = end /\ carry'[s] = e.carry /\ pending'[s] = f.rest
       /\ delivered'[s] = delivered[s] \o f.chunks
  BY <1>3, <1>8 DEF StreamType
<1>14. StreamType'
  <2> DEFINE c == f.chunks
             p == delivered[s]
  <2>1. p \in Seq(Chunks) /\ c \in Seq(Chunks)
    BY <1>3, <1>11 DEF StreamType
  <2>2. delivered' = [delivered EXCEPT ![s] = p \o c]
    BY <1>8
  <2> HIDE DEF c, p
  <2>3. p \o c \in Seq(Chunks)
    BY <2>1
  <2>4. delivered' \in [Streams -> Seq(Chunks)]
    BY <1>3, <2>2, <2>3 DEF StreamType
  <2>5. output' \in Output
    BY <1>3, <1>12, ShownAfter DEF StreamType
  <2>6. count' \in [Streams -> 0 .. Len(text)]
    BY <1>3, <1>5, <1>8 DEF StreamType
  <2>7. carry' \in [Streams -> Carries]
    BY <1>3, <1>8, <1>11 DEF StreamType
  <2>8. pending' \in [Streams -> Seq(Chars)]
    BY <1>3, <1>8, <1>11 DEF StreamType
  <2> QED BY <1>2, <1>3, <2>4, <2>5, <2>6, <2>7, <2>8 DEF StreamType
<1>15. ASSUME NEW q \in Streams, q # s PROVE ParserInv(q)' /\ All(q)' = All(q)
  <2>1. /\ count'[q] = count[q] /\ carry'[q] = carry[q] /\ pending'[q] = pending[q]
        /\ delivered'[q] = delivered[q]
    BY <1>3, <1>8, <1>15 DEF StreamType
  <2> QED BY <1>2, <2>1, OthersKept
<1>16. ParserInv(s)'
  <2>1. SoFar(s)' = DecodeBytes(<<>>, a \o b)
    BY <1>2, <1>6, <1>13 DEF SoFar
  <2>2. /\ carry'[s] = SoFar(s)'.carry
        /\ Extract(SoFar(s)'.out) = [chunks |-> delivered'[s], rest |-> pending'[s]]
    BY <1>9, <1>10, <1>13, <2>1
  <2>3. phase'[s] = "reading"
    BY <1>2
  <2> QED BY <2>2, <2>3 DEF ParserInv, NotBegun, InTheMiddle, AtTheEnd
<1>17. All(s)' = All(s) \o f.chunks
  <2> DEFINE c == f.chunks
             p == delivered[s]
  <2>1. p \in Seq(Chunks) /\ c \in Seq(Chunks)
    BY <1>3, <1>11 DEF StreamType
  <2>2. All(s) = p \o <<>> /\ All(s)' = (p \o c) \o <<>>
    BY <1>2, <1>13 DEF All
  <2> HIDE DEF c, p
  <2>3. p \o c \in Seq(Chunks)
    BY <2>1
  <2> DEFINE z == p \o c
  <2>4. z \o <<>> = z /\ p \o <<>> = p
    <3> HIDE DEF z
    <3> QED BY <2>1, <2>3, ConcatEmptySeq DEF z
  <2>5. All(s)' = All(s) \o c
    BY <2>2, <2>4
  <2> QED BY <2>5 DEF c
<1>18. \A q \in Streams : OnScreen(q)'
  <2> DEFINE c == f.chunks
  <2>1. /\ c \in Seq(Entries) /\ output' = output \o Tagged(s, c) /\ newest' = newest
        /\ All(s)' = All(s) \o c
    BY <1>2, <1>12, <1>17
  <2> HIDE DEF c
  <2> QED BY <1>14, <1>15, <2>1, ShowKeepsOnScreen
<1> QED BY <1>14, <1>15, <1>16, <1>18 DEF StreamInv, ParserInv

LEMMA FinishKept ==
    ASSUME StreamInv, NEW s \in Streams, Finish(s)
    PROVE  StreamInv'
<1> DEFINE a == SubSeq(text, 1, count[s])
           d == DecodeBytes(<<>>, a)
           e == Decode(d.carry, <<>>, FALSE)
           o == Extract(d.out)
           f == Extract(o.rest \o e.out)
           l == Final(f.rest)
           c == f.chunks \o l
           p == delivered[s]
<1>1. /\ phase[s] = "reading" /\ count[s] = Len(text)
      /\ phase' = [phase EXCEPT ![s] = "done"]
      /\ UNCHANGED <<text, count, newest>>
  BY DEF Finish
<1>2. StreamType /\ InTheMiddle(s)
  BY DEF StreamInv
<1>3. carry[s] = d.carry /\ o = [chunks |-> p, rest |-> pending[s]] /\ d = SoFar(s)
  BY <1>1, <1>2 DEF InTheMiddle, SoFar
<1>4. /\ carry' = [carry EXCEPT ![s] = e.carry]
      /\ pending' = [pending EXCEPT ![s] = f.rest]
      /\ delivered' = [delivered EXCEPT ![s] = @ \o c]
      /\ Show(s, c)
  <2>1. Decode(carry[s], <<>>, FALSE) = e /\ pending[s] = o.rest
    BY <1>3
  <2> HIDE DEF o, e
  <2> QED BY <2>1 DEF Finish
<1>5. a \in Seq(Bytes) /\ d \in Decodings
  BY <1>2, <1>3, SoFarType
<1>6. /\ e.carry = <<>>
      /\ Extract(Flushed(d).out) = [chunks |-> o.chunks \o f.chunks, rest |-> f.rest]
  <2> HIDE DEF a
  <2> QED BY <1>5, ReadEnd
<1>7. f.chunks \in Seq(Chunks) /\ f.rest \in Seq(Chars) /\ o.chunks = p /\ p \in Seq(Chunks)
  <2> DEFINE k == d.carry
             r == o.rest
             q == e.out
  <2>1. k \in Carries /\ r \in Seq(Chars) /\ p \in Seq(Chunks)
    BY <1>2, <1>3 DEF StreamType
  <2>2. q \in Seq(Chars)
    <3> HIDE DEF k
    <3>1. DecodeBytes(k, <<>>) \in Decodings
      <4>1. <<>> \in Seq(Bytes)
        OBVIOUS
      <4> QED BY <2>1, <4>1, DecodeBytesType
    <3>2. e = Flushed(DecodeBytes(k, <<>>))
      BY DEF Decode, k
    <3>3. e \in Decodings
      BY <3>1, <3>2, FlushedFacts
    <3> HIDE DEF e
    <3> QED BY <3>3 DEF Decodings
  <2>3. o.chunks = p
    BY <1>3
  <2> HIDE DEF r, q
  <2>4. r \o q \in Seq(Chars)
    BY <2>1, <2>2
  <2>5. Extract(r \o q) \in ExtractOutcomes
    BY <2>4, ExtractType
  <2>6. f \in ExtractOutcomes
    BY <2>5 DEF r, q
  <2> HIDE DEF f, o
  <2> QED BY <2>1, <2>3, <2>6 DEF ExtractOutcomes
<1> HIDE DEF a, d, e, o, f
<1> DEFINE g == f.chunks
<1>8. l \in Seq(Chunks) /\ g \in Seq(Chunks) /\ p \in Seq(Chunks)
  <2> DEFINE r == f.rest
  <2>1. r \in Seq(Chars)
    BY <1>7
  <2> HIDE DEF r
  <2>2. Final(r) \in Seq(Chunks)
    BY <2>1, FinalType
  <2> QED BY <1>7, <2>2 DEF r
<1>9. c = g \o l
  OBVIOUS
<1> HIDE DEF l, c, g, p
<1>10. c \in Seq(Chunks) /\ c \in Seq(Entries) /\ p \o c \in Seq(Chunks) /\ p \o c = (p \o g) \o l
  <2>1. c \in Seq(Chunks)
    BY <1>8, <1>9
  <2>2. p \o (g \o l) = (p \o g) \o l
    BY <1>8, ConcatAssociative
  <2>3. p \o c \in Seq(Chunks)
    BY <1>8, <2>1
  <2>4. c \in Seq(Entries)
    BY <2>1 DEF Entries
  <2> QED BY <1>9, <2>1, <2>2, <2>3, <2>4
<1>11. output' = output \o Tagged(s, c)
  BY <1>4 DEF Show, Tagged
<1>12. /\ carry'[s] = <<>> /\ pending'[s] = f.rest /\ delivered'[s] = p \o c /\ phase'[s] = "done"
  BY <1>1, <1>2, <1>4, <1>6 DEF StreamType, p
<1>13. StreamType'
  <2>1. delivered' \in [Streams -> Seq(Chunks)]
    <3>1. delivered' = [delivered EXCEPT ![s] = p \o c]
      BY <1>4 DEF p
    <3> QED BY <1>2, <1>10, <3>1 DEF StreamType
  <2>2. output' \in Output
    BY <1>2, <1>10, <1>11, ShownAfter DEF StreamType
  <2>3. carry' \in [Streams -> Carries]
    <3>1. e.carry \in Carries
      BY <1>6 DEF Carries
    <3> QED BY <1>2, <1>4, <3>1 DEF StreamType
  <2>4. pending' \in [Streams -> Seq(Chars)]
    BY <1>2, <1>4, <1>7 DEF StreamType
  <2>5. phase' \in [Streams -> {"idle", "opening", "reading", "done", "failed"}]
    BY <1>1, <1>2 DEF StreamType
  <2> QED BY <1>1, <1>2, <2>1, <2>2, <2>3, <2>4, <2>5 DEF StreamType
<1>14. ASSUME NEW q \in Streams, q # s PROVE ParserInv(q)' /\ All(q)' = All(q)
  <2>1. /\ phase'[q] = phase[q] /\ carry'[q] = carry[q] /\ pending'[q] = pending[q]
        /\ delivered'[q] = delivered[q]
    BY <1>1, <1>2, <1>4, <1>14 DEF StreamType
  <2> QED BY <1>1, <2>1, OthersKept
<1>15. ParserInv(s)'
  <2>1. SoFar(s)' = d
    <3>1. SoFar(s)' = SoFar(s)
      BY <1>1 DEF SoFar
    <3> QED BY <1>3, <3>1
  <2>2. Extract(Flushed(d).out) = [chunks |-> p \o g, rest |-> f.rest]
    BY <1>6, <1>7 DEF p, g
  <2>3. /\ pending'[s] = Extract(Flushed(d).out).rest
        /\ delivered'[s] = Extract(Flushed(d).out).chunks \o Final(Extract(Flushed(d).out).rest)
    BY <1>10, <1>12, <2>2 DEF l
  <2>4. (count[s] = Len(text))'
    BY <1>1
  <2> QED BY <1>12, <2>1, <2>3, <2>4 DEF ParserInv, NotBegun, InTheMiddle, AtTheEnd
<1>16. All(s)' = All(s) \o c
  <2> DEFINE z == p \o c
  <2>1. All(s) = p \o <<>> /\ All(s)' = z \o <<>>
    BY <1>1, <1>12 DEF All, p
  <2>2. z \in Seq(Chunks)
    BY <1>10
  <2>3. z \o <<>> = z /\ p \o <<>> = p
    <3> HIDE DEF z
    <3> QED BY <1>8, <2>2, ConcatEmptySeq
  <2> QED BY <2>1, <2>3
<1>17. \A q \in Streams : OnScreen(q)'
  <2>1. newest' = newest
    BY <1>1
  <2> QED BY <1>10, <1>11, <1>13, <1>14, <1>16, <2>1, ShowKeepsOnScreen
<1> QED BY <1>13, <1>14, <1>15, <1>17 DEF StreamInv, ParserInv

LEMMA StreamGoesOn == StreamInv /\ [StreamNext]_streamVars => StreamInv'
<1> SUFFICES ASSUME StreamInv, [StreamNext]_streamVars PROVE StreamInv'
  OBVIOUS
<1>1. CASE UNCHANGED streamVars
  <2>1. \A s \in Streams : SoFar(s)' = SoFar(s) /\ All(s)' = All(s)
    BY <1>1 DEF streamVars, SoFar, All
  <2>2. StreamType'
    BY <1>1 DEF streamVars, StreamInv, StreamType
  <2>3. \A s \in Streams : ParserInv(s)'
    BY <1>1, OthersKept DEF streamVars
  <2>4. \A s \in Streams : OnScreen(s)'
    BY <1>1, <2>1 DEF streamVars, StreamInv, OnScreen
  <2> QED BY <2>2, <2>3, <2>4 DEF StreamInv, ParserInv
<1>2. ASSUME NEW s \in Streams, Click(s) \/ Open(s) \/ Read(s) \/ Finish(s) \/ BreakOff(s) PROVE StreamInv'
  BY <1>2, ClickKept, OpenKept, ReadKept, FinishKept, BreakOffKept
<1> QED BY <1>1, <1>2 DEF StreamNext

LEMMA StreamInvariant == StreamSpec => []StreamInv
BY StreamBegins, StreamGoesOn, PTL DEF StreamSpec

(* The types of the state, and that no complete frame is kept waiting for   *)
(* the next chunk (the inner loop of streamGatewaySse).                     *)
THEOREM StreamTypeCorrect == StreamSpec => []StreamTypeOK
<1>1. StreamInv => StreamTypeOK
  <2> SUFFICES ASSUME StreamInv PROVE StreamTypeOK
    OBVIOUS
  <2>1. ASSUME NEW s \in Streams PROVE Boundaries(pending[s]) = {}
    <3>1. SoFar(s) \in Decodings
      BY SoFarType DEF StreamInv
    <3> DEFINE d == SoFar(s)
               p == d.out
               q == Flushed(d).out
    <3> HIDE DEF d
    <3>2. p \in Seq(Chars) /\ q \in Seq(Chars)
      <4>1. Flushed(d) \in Decodings
        BY <3>1, FlushedFacts DEF d
      <4> QED BY <3>1, <4>1 DEF Decodings, d
    <3> HIDE DEF p, q
    <3>3. Boundaries(Extract(p).rest) = {} /\ Boundaries(Extract(q).rest) = {}
      BY <3>2, ExtractType
    <3>4. pending[s] = Extract(p).rest \/ pending[s] = Extract(q).rest
      <4>1. phase[s] # "done" => Extract(p) = [chunks |-> delivered[s], rest |-> pending[s]]
        BY DEF StreamInv, InTheMiddle, p, d
      <4>2. phase[s] = "done" => pending[s] = Extract(q).rest
        BY DEF StreamInv, AtTheEnd, q, d
      <4> QED BY <4>1, <4>2
    <3> QED BY <3>3, <3>4
  <2> QED BY <2>1 DEF StreamInv, StreamType, StreamTypeOK, Carries
<1> QED BY <1>1, StreamInvariant, PTL

(* Wherever the chunks of a text end, the events that a stream has          *)
(* delivered are those of the bytes read so far, taken as one chunk.        *)
THEOREM ChunksDoNotMatter == StreamSpec => []ChunkingInvisible
<1>1. StreamInv => ChunkingInvisible
  <2> SUFFICES ASSUME StreamInv, NEW s \in Streams
               PROVE  LET ended == phase[s] = "done"
                          frames == Extract(Decode(<<>>, SubSeq(text, 1, count[s]), ~ ended).out)
                      IN  delivered[s] = frames.chunks \o (IF ended THEN Final(frames.rest) ELSE <<>>)
    BY DEF ChunkingInvisible
  <2>1. CASE phase[s] = "done"
    BY <2>1 DEF StreamInv, AtTheEnd, SoFar, Decode
  <2>2. CASE phase[s] # "done"
    <3> DEFINE p == delivered[s]
    <3>1. p \o <<>> = p
      <4>1. p \in Seq(Chunks)
        BY DEF StreamInv, StreamType
      <4> HIDE DEF p
      <4> QED BY <4>1, ConcatEmptySeq
    <3>2. Extract(Decode(<<>>, SubSeq(text, 1, count[s]), TRUE).out) = [chunks |-> p, rest |-> pending[s]]
      BY <2>2 DEF StreamInv, InTheMiddle, SoFar, Decode
    <3> DEFINE frames(ended) == Extract(Decode(<<>>, SubSeq(text, 1, count[s]), ~ ended).out)
    <3>3. frames(phase[s] = "done") = frames(FALSE) /\ frames(FALSE).chunks = p
      <4>1. (phase[s] = "done") = FALSE /\ (~ FALSE) = TRUE
        BY <2>2
      <4>2. frames(FALSE) = [chunks |-> p, rest |-> pending[s]]
        BY <3>2, <4>1
      <4> QED BY <4>1, <4>2
    <3> HIDE DEF frames
    <3>4. p = frames(phase[s] = "done").chunks \o <<>>
      BY <3>1, <3>3
    <3> QED BY <2>2, <3>4 DEF frames
  <2> QED BY <2>1, <2>2
<1> QED BY <1>1, StreamInvariant, PTL

(* However many streams run, the view shows all that the newest one has     *)
(* delivered, and of every other one the end of it (handleStreamDemo).      *)
THEOREM ViewInOrder == StreamSpec => []OutputInOrder
<1>1. StreamInv => OutputInOrder
  BY ShownDef DEF StreamInv, OnScreen, All, OutputInOrder
<1> QED BY <1>1, StreamInvariant, PTL

-------------------------------------------------------------------------------
(* The parser and the reader by lines.  Both are folds: f is the values of   *)
(* the fold of a string, up to each of its items.                          *)
IsFold(f, A, base, step, s) ==
    /\ f \in [0 .. Len(s) -> A]
    /\ f[0] = base
    /\ \A n \in 1 .. Len(s) : f[n] = step[<<f[n - 1], s[n]>>]

LEMMA FollowerExists ==
    ASSUME NEW A, NEW C, NEW base \in A, NEW step \in [A \X C -> A], NEW s \in Seq(C)
    PROVE  \E f : IsFold(f, A, base, step, s)
<1> DEFINE N == Len(s)
           steps == [n \in 1 .. N |-> [a \in A |-> step[<<a, s[n]>>]]]
<1>1. N \in Nat /\ \A n \in 1 .. N : s[n] \in C
  BY LenProperties
<1> HIDE DEF N
<1>2. steps \in [1 .. N -> [A -> A]]
  BY <1>1
<1>3. PICK f : IsRun(f, N, A, base, steps)
  <2> HIDE DEF steps
  <2> QED BY <1>1, <1>2, StepsExist
<1>4. ASSUME NEW n \in 1 .. N PROVE f[n] = step[<<f[n - 1], s[n]>>]
  <2>1. f[n - 1] \in A
    BY <1>1, <1>3 DEF IsRun
  <2> QED BY <1>3, <2>1 DEF IsRun
<1> QED BY <1>3, <1>4 DEF IsRun, IsFold, N

(* Two functions that begin alike and go on alike are alike.                *)
GoOnAlike(N, f, g) == f[0] = g[0] /\ \A n \in 1 .. N : f[n - 1] = g[n - 1] => f[n] = g[n]

LEMMA SameRuns ==
    ASSUME NEW N \in Nat, NEW f, NEW g, GoOnAlike(N, f, g)
    PROVE  \A n \in 0 .. N : f[n] = g[n]
<1> USE DEF GoOnAlike
<1> DEFINE S == {n \in 0 .. N : f[n] = g[n]}
<1>1. 0 \in S
  OBVIOUS
<1>2. ASSUME NEW n \in 0 .. N, n # N, n \in S PROVE n + 1 \in S
  <2>1. n + 1 \in 1 .. N /\ n + 1 \in 0 .. N /\ (n + 1) - 1 = n
    BY <1>2
  <2> QED BY <1>2, <2>1
<1>3. \A n \in 0 .. N : n \in S
  <2> HIDE DEF S
  <2> QED BY <1>1, <1>2, UpTo
<1> QED BY <1>3

FoldOf(A, base, step, s) == (CHOOSE f : IsFold(f, A, base, step, s))[Len(s)]

LEMMA FoldOfIs ==
    ASSUME NEW A, NEW C, NEW base \in A, NEW step \in [A \X C -> A], NEW s \in Seq(C),
           NEW f, IsFold(f, A, base, step, s)
    PROVE  f[Len(s)] = FoldOf(A, base, step, s)
<1> DEFINE g == CHOOSE h : IsFold(h, A, base, step, s)
<1>1. IsFold(g, A, base, step, s)
  OBVIOUS
<1> HIDE DEF g
<1>2. Len(s) \in Nat
  BY LenProperties
<1>3. \A n \in 1 .. Len(s) : f[n - 1] = g[n - 1] => f[n] = g[n]
  BY <1>1 DEF IsFold
<1>4. f[0] = g[0]
  BY <1>1 DEF IsFold
<1>5. \A n \in 0 .. Len(s) : f[n] = g[n]
  <2> DEFINE N == Len(s)
  <2>1. N \in Nat /\ f[0] = g[0] /\ \A n \in 1 .. N : f[n - 1] = g[n - 1] => f[n] = g[n]
    BY <1>2, <1>3, <1>4
  <2> HIDE DEF N
  <2>2. \A n \in 0 .. N : f[n] = g[n]
    <3>1. GoOnAlike(N, f, g)
      BY <2>1 DEF GoOnAlike
    <3> QED BY <2>1, <3>1, SameRuns
  <2> QED BY <2>2 DEF N
<1> QED BY <1>2, <1>5 DEF FoldOf, g

(* One item more is one step more.                                          *)
OneByOne(A, C, base, step) ==
    /\ FoldOf(A, base, step, <<>>) = base
    /\ \A s \in Seq(C) : FoldOf(A, base, step, s) \in A
    /\ \A s \in Seq(C) : \A c \in C :
          FoldOf(A, base, step, Append(s, c)) = step[<<FoldOf(A, base, step, s), c>>]

LEMMA FoldOfAppend ==
    ASSUME NEW A, NEW C, NEW base \in A, NEW step \in [A \X C -> A]
    PROVE  OneByOne(A, C, base, step)
<1>1. FoldOf(A, base, step, <<>>) = base
  <2>1. <<>> \in Seq(C) /\ Len(<<>>) = 0
    OBVIOUS
  <2>2. PICK f : IsFold(f, A, base, step, <<>>)
    BY <2>1, FollowerExists
  <2>3. f[Len(<<>>)] = FoldOf(A, base, step, <<>>)
    BY <2>1, <2>2, FoldOfIs
  <2> QED BY <2>1, <2>2, <2>3 DEF IsFold
<1>2. ASSUME NEW s \in Seq(C) PROVE FoldOf(A, base, step, s) \in A
  <2>1. PICK f : IsFold(f, A, base, step, s)
    BY FollowerExists
  <2>2. Len(s) \in 0 .. Len(s)
    BY LenProperties
  <2>3. f[Len(s)] = FoldOf(A, base, step, s)
    BY <2>1, FoldOfIs
  <2> QED BY <2>1, <2>2, <2>3 DEF IsFold
<1>3. ASSUME NEW s \in Seq(C), NEW c \in C
      PROVE  FoldOf(A, base, step, Append(s, c)) = step[<<FoldOf(A, base, step, s), c>>]
  <2> DEFINE t == Append(s, c)
             N == Len(s)
  <2>1. /\ t \in Seq(C) /\ N \in Nat /\ Len(t) = N + 1 /\ t[N + 1] = c
        /\ \A n \in 1 .. N : t[n] = s[n]
    BY AppendProperties, LenProperties
  <2>0. N \in Nat
    BY <2>1
  <2> HIDE DEF t
  <2>2. PICK f : IsFold(f, A, base, step, t)
    BY <2>1, FollowerExists
  <2>3. PICK g : IsFold(g, A, base, step, s)
    BY FollowerExists
  <2>4. f[N + 1] = FoldOf(A, base, step, t)
    <3>1. f[Len(t)] = FoldOf(A, base, step, t)
      BY <2>1, <2>2, FoldOfIs
    <3> QED BY <2>1, <3>1
  <2>5. g[N] = FoldOf(A, base, step, s)
    BY <2>3, FoldOfIs
  <2> HIDE DEF N
  <2>6. \A n \in 1 .. N : f[n - 1] = g[n - 1] => f[n] = g[n]
    <3>1. \A n \in 1 .. N + 1 : f[n] = step[<<f[n - 1], t[n]>>]
      BY <2>1, <2>2 DEF IsFold
    <3>2. \A n \in 1 .. N : g[n] = step[<<g[n - 1], s[n]>>]
      BY <2>3 DEF IsFold, N
    <3>3. \A n \in 1 .. N : n \in 1 .. N + 1
      BY <2>1
    <3> QED BY <2>1, <3>1, <3>2, <3>3
  <2>7. f[0] = g[0]
    BY <2>2, <2>3 DEF IsFold
  <2>8. \A n \in 0 .. N : f[n] = g[n]
    <3>1. GoOnAlike(N, f, g)
      BY <2>6, <2>7 DEF GoOnAlike
    <3> QED BY <2>0, <3>1, SameRuns
  <2>9. f[N] = g[N]
    BY <2>1, <2>8
  <2>10. f[N + 1] = step[<<f[N], c>>]
    <3>1. N + 1 \in 1 .. N + 1 /\ (N + 1) - 1 = N
      BY <2>0
    <3>2. \A n \in 1 .. N + 1 : f[n] = step[<<f[n - 1], t[n]>>]
      BY <2>1, <2>2 DEF IsFold
    <3> QED BY <2>1, <3>1, <3>2
  <2> QED BY <2>4, <2>5, <2>9, <2>10 DEF t
<1> QED BY <1>1, <1>2, <1>3 DEF OneByOne

(* The folds of the parser and of the reader by lines, one item more.       *)
Line == Seq(Chars)
SomeLines == {lines \in Seq(Line) : lines # <<>>}

LineStep(lines, c) ==
    IF c = LF THEN Append(lines, <<>>) ELSE [lines EXCEPT ![Len(lines)] = Append(@, c)]

LEMMA LineStepType ==
    ASSUME NEW lines \in SomeLines, NEW c \in Chars PROVE LineStep(lines, c) \in SomeLines
<1>1. lines \in Seq(Line) /\ lines # <<>> /\ Len(lines) \in Nat /\ <<>> \in Line
  BY LenProperties DEF SomeLines, Line
<1>2. Len(lines) \in 1 .. Len(lines)
  <2>1. Len(lines) # 0
    BY <1>1, EmptySeq
  <2> QED BY <1>1, <2>1
<1>3. CASE c = LF
  <2>1. Append(lines, <<>>) \in Seq(Line) /\ Append(lines, <<>>) # <<>>
    BY <1>1, AppendProperties
  <2> QED BY <1>3, <2>1 DEF LineStep, SomeLines
<1>4. CASE c # LF
  <2> DEFINE n == Len(lines)
             last == Append(lines[n], c)
             new == [lines EXCEPT ![n] = last]
  <2>1. lines[n] \in Line
    BY <1>1, <1>2, ElementOfSeq
  <2>2. last \in Line
    BY <2>1, AppendProperties DEF Line
  <2> HIDE DEF last
  <2>3. new \in Seq(Line) /\ Len(new) = Len(lines)
    BY <1>1, <1>2, <2>2, ExceptSeq
  <2>4. new # <<>>
    BY <1>1, <1>2, <2>3, EmptySeq
  <2> QED BY <1>4, <2>3, <2>4 DEF LineStep, SomeLines, last
<1> QED BY <1>3, <1>4

LEMMA LinesFacts ==
    /\ Lines(<<>>) = << <<>> >>
    /\ \A s \in Seq(Chars) : Lines(s) \in SomeLines
    /\ \A s \in Seq(Chars) : \A c \in Chars : Lines(Append(s, c)) = LineStep(Lines(s), c)
<1> DEFINE A == SomeLines
           base == << <<>> >>
           step == [p \in A \X Chars |-> LineStep(p[1], p[2])]
<1>1. base \in A
  BY DEF SomeLines, Line
<1>2. step \in [A \X Chars -> A]
  BY LineStepType
<1>3. \A a \in A : \A c \in Chars : step[<<a, c>>] = LineStep(a, c)
  OBVIOUS
<1> HIDE DEF A, base, step
<1>4. ASSUME NEW s \in Seq(Chars) PROVE Lines(s) = FoldOf(A, base, step, s)
  <2> DEFINE N == Len(s)
             U == CHOOSE f : f = [n \in 0 .. N |-> IF n = 0 THEN base ELSE LineStep(f[n - 1], s[n])]
  <2>1. N \in Nat /\ \A n \in 1 .. N : s[n] \in Chars
    BY LenProperties
  <2>2. Lines(s) = U[N]
    BY DEF Lines, Fold, LineStep, base
  <2> HIDE DEF N
  <2>3. PICK f : IsFold(f, A, base, step, s)
    BY <1>1, <1>2, FollowerExists
  <2>4. /\ f \in [0 .. N -> A] /\ f[0] = base
        /\ \A n \in 1 .. N : f[n] = LineStep(f[n - 1], s[n])
    <3>1. f \in [0 .. N -> A] /\ f[0] = base /\ \A n \in 1 .. N : f[n] = step[<<f[n - 1], s[n]>>]
      BY <2>3 DEF IsFold, N
    <3>2. ASSUME NEW n \in 1 .. N PROVE f[n - 1] \in A
      BY <2>1, <3>1
    <3> QED BY <1>3, <2>1, <3>1, <3>2
  <2>5. f = [n \in 0 .. N |-> IF n = 0 THEN base ELSE LineStep(f[n - 1], s[n])]
    BY <2>1, <2>4
  <2>6. U = [n \in 0 .. N |-> IF n = 0 THEN base ELSE LineStep(U[n - 1], s[n])]
    BY <2>5
  <2> HIDE DEF U
  <2>7. U[0] = base /\ \A n \in 1 .. N : U[n] = LineStep(U[n - 1], s[n])
    BY <2>1, <2>6
  <2>8. GoOnAlike(N, f, U)
    BY <2>4, <2>7 DEF GoOnAlike
  <2>9. f[N] = U[N]
    BY <2>1, <2>8, SameRuns
  <2>10. f[N] = FoldOf(A, base, step, s)
    BY <1>1, <1>2, <2>3, FoldOfIs DEF N
  <2> QED BY <2>2, <2>9, <2>10
<1>5. OneByOne(A, Chars, base, step)
  BY <1>1, <1>2, FoldOfAppend
<1>6. Lines(<<>>) = base
  <2>1. <<>> \in Seq(Chars)
    OBVIOUS
  <2> QED BY <1>4, <1>5, <2>1 DEF OneByOne
<1>7. ASSUME NEW s \in Seq(Chars) PROVE Lines(s) \in A
  BY <1>4, <1>5 DEF OneByOne
<1>8. ASSUME NEW s \in Seq(Chars), NEW c \in Chars
      PROVE  Lines(Append(s, c)) = LineStep(Lines(s), c)
  <2>1. Append(s, c) \in Seq(Chars)
    BY AppendProperties
  <2>2. Lines(Append(s, c)) = step[<<Lines(s), c>>]
    BY <1>4, <1>5, <2>1 DEF OneByOne
  <2> QED BY <1>3, <1>7, <2>2
<1> QED BY <1>6, <1>7, <1>8 DEF A, base

(* White space taken off.                                                  *)
LEMMA TrimStartIs ==
    ASSUME NEW v \in Line, NEW k \in 1 .. Len(v), v[k] \notin White,
           \A i \in 1 .. k - 1 : v[i] \in White
    PROVE  TrimStart(v) = SubSeq(v, k, Len(v))
<1> DEFINE black == {i \in DOMAIN v : v[i] \notin White}
<1>1. DOMAIN v = 1 .. Len(v) /\ Len(v) \in Nat
  BY LenProperties DEF Line
<1>2. k \in black /\ \A i \in black : k =< i
  <2>1. ASSUME NEW i \in black PROVE k =< i
    <3>1. i \in 1 .. Len(v) /\ v[i] \notin White
      BY <1>1
    <3>2. i \notin 1 .. k - 1
      BY <3>1
    <3> QED BY <1>1, <3>1, <3>2
  <2> QED BY <1>1, <2>1
<1>3. black \subseteq Nat
  BY <1>1
<1> HIDE DEF black
<1>4. Min(black) = k
  <2>1. \A x \in black : (\A y \in black : x =< y) => x = k
    BY <1>1, <1>2, <1>3
  <2> QED BY <1>2, <2>1 DEF Min
<1> QED BY <1>2, <1>4 DEF TrimStart, black

LEMMA TrimStartOfBlank ==
    ASSUME NEW v \in Line, \A i \in 1 .. Len(v) : v[i] \in White
    PROVE  TrimStart(v) = <<>>
<1>1. DOMAIN v = 1 .. Len(v)
  BY LenProperties DEF Line
<1>2. {i \in DOMAIN v : v[i] \notin White} = {}
  BY <1>1
<1> QED BY <1>2 DEF TrimStart

LEMMA TrimEndIs ==
    ASSUME NEW v \in Line, NEW k \in 1 .. Len(v), v[k] \notin White,
           \A i \in k + 1 .. Len(v) : v[i] \in White
    PROVE  TrimEnd(v) = SubSeq(v, 1, k)
<1> DEFINE black == {i \in DOMAIN v : v[i] \notin White}
<1>1. DOMAIN v = 1 .. Len(v) /\ Len(v) \in Nat
  BY LenProperties DEF Line
<1>2. k \in black /\ \A i \in black : k >= i
  <2>1. ASSUME NEW i \in black PROVE k >= i
    <3>1. i \in 1 .. Len(v) /\ v[i] \notin White
      BY <1>1
    <3>2. i \notin k + 1 .. Len(v)
      BY <3>1
    <3> QED BY <1>1, <3>1, <3>2
  <2> QED BY <1>1, <2>1
<1>3. black \subseteq Nat
  BY <1>1
<1> HIDE DEF black
<1>4. Max(black) = k
  <2>1. \A x \in black : (\A y \in black : x >= y) => x = k
    BY <1>1, <1>2, <1>3
  <2> QED BY <1>2, <2>1 DEF Max
<1> QED BY <1>2, <1>4 DEF TrimEnd, black

LEMMA TrimEndOfBlank ==
    ASSUME NEW v \in Line, \A i \in 1 .. Len(v) : v[i] \in White
    PROVE  TrimEnd(v) = <<>>
<1>1. DOMAIN v = 1 .. Len(v)
  BY LenProperties DEF Line
<1>2. {i \in DOMAIN v : v[i] \notin White} = {}
  BY <1>1
<1> QED BY <1>2 DEF TrimEnd

(* A string is blank, or there is a first and a last character that is not. *)
LEMMA FirstAndLast ==
    ASSUME NEW v \in Line, NEW i0 \in 1 .. Len(v), v[i0] \notin White
    PROVE  /\ \E k \in 1 .. Len(v) : v[k] \notin White /\ \A i \in 1 .. k - 1 : v[i] \in White
           /\ \E k \in 1 .. Len(v) : v[k] \notin White /\ \A i \in k + 1 .. Len(v) : v[i] \in White
<1> DEFINE N == Len(v)
           First(n) == \E k \in 1 .. n : v[k] \notin White /\ \A i \in 1 .. k - 1 : v[i] \in White
           S == {n \in 0 .. N : First(n) \/ \A i \in 1 .. n : v[i] \in White}
           T == {n \in 1 .. N : \/ \E k \in n .. N : v[k] \notin White /\ \A i \in k + 1 .. N : v[i] \in White
                                \/ \A i \in n .. N : v[i] \in White}
<1>1. N \in Nat
  BY LenProperties DEF Line
<1> HIDE DEF N
<1>2. 0 \in S
  BY <1>1
<1>3. ASSUME NEW n \in 0 .. N, n # N, n \in S PROVE n + 1 \in S
  <2>1. /\ n + 1 \in 0 .. N /\ n + 1 \in 1 .. n + 1 /\ (n + 1) - 1 = n
        /\ 1 .. n \subseteq 1 .. n + 1
        /\ \A i \in 1 .. n + 1 : i \in 1 .. n \/ i = n + 1
    BY <1>1, <1>3
  <2>2. CASE First(n)
    BY <2>1, <2>2
  <2>3. CASE (\A i \in 1 .. n : v[i] \in White) /\ v[n + 1] \in White
    BY <2>1, <2>3
  <2>4. CASE (\A i \in 1 .. n : v[i] \in White) /\ v[n + 1] \notin White
    <3>1. First(n + 1)
      BY <2>1, <2>4
    <3> QED BY <2>1, <3>1
  <2> QED BY <1>3, <2>2, <2>3, <2>4
<1>4. ASSUME NEW n \in 1 .. N, \A m \in n + 1 .. N : m \in T PROVE n \in T
  <2>1. /\ n \in n .. N /\ \A i \in n .. N : i = n \/ i \in n + 1 .. N
        /\ n + 1 .. N \subseteq n .. N /\ (n # N => n + 1 \in n + 1 .. N)
        /\ (n = N => \A i \in n + 1 .. N : FALSE)
    BY <1>1
  <2>2. n = N \/ n + 1 \in T
    BY <1>4, <2>1
  <2>3. CASE \E k \in n + 1 .. N : v[k] \notin White /\ \A i \in k + 1 .. N : v[i] \in White
    BY <2>1, <2>3
  <2>4. CASE (\A i \in n + 1 .. N : v[i] \in White) /\ v[n] \in White
    BY <2>1, <2>4
  <2>5. CASE (\A i \in n + 1 .. N : v[i] \in White) /\ v[n] \notin White
    BY <2>1, <2>5
  <2> QED BY <2>1, <2>2, <2>3, <2>4, <2>5
<1>5. N \in S
  <2>1. N \in 0 .. N
    BY <1>1
  <2> HIDE DEF S
  <2> QED BY <1>1, <1>2, <1>3, <2>1, UpTo
<1>6. 1 \in T
  <2>1. 1 \in 1 .. N
    BY <1>1 DEF N
  <2> HIDE DEF T
  <2> QED BY <1>1, <1>4, <2>1, FromTheEnd
<1> QED BY <1>5, <1>6 DEF N

LEMMA TrimType ==
    ASSUME NEW v \in Line PROVE TrimStart(v) \in Line /\ TrimEnd(v) \in Line
<1>1. <<>> \in Line
  BY DEF Line
<1>2. CASE \A i \in 1 .. Len(v) : v[i] \in White
  BY <1>1, <1>2, TrimStartOfBlank, TrimEndOfBlank
<1>3. CASE \E i \in 1 .. Len(v) : v[i] \notin White
  <2>1. PICK k \in 1 .. Len(v) : v[k] \notin White /\ \A i \in 1 .. k - 1 : v[i] \in White
    BY <1>3, FirstAndLast
  <2>2. PICK m \in 1 .. Len(v) : v[m] \notin White /\ \A i \in m + 1 .. Len(v) : v[i] \in White
    BY <1>3, FirstAndLast
  <2>3. TrimStart(v) = SubSeq(v, k, Len(v)) /\ TrimEnd(v) = SubSeq(v, 1, m)
    BY <2>1, <2>2, TrimStartIs, TrimEndIs
  <2>4. /\ k \in 1 .. Len(v) + 1 /\ Len(v) \in 0 .. Len(v)
        /\ 1 \in 1 .. Len(v) + 1 /\ m \in 0 .. Len(v)
    BY LenProperties DEF Line
  <2> QED BY <2>3, <2>4, PieceType DEF Line
<1> QED BY <1>2, <1>3

LEMMA TrimmedType ==
    ASSUME NEW field, NEW v \in Line PROVE Trimmed(field, v) \in Line
BY TrimType DEF Trimmed

ValueStep(field, values, line) ==
    IF line # <<>> /\ Head(line) = field THEN Append(values, Trimmed(field, Tail(line))) ELSE values

LEMMA TailOfLine ==
    ASSUME NEW line \in Line, line # <<>>
    PROVE  Tail(line) \in Line /\ Head(line) \in Chars
BY HeadTailProperties DEF Line

LEMMA ValueStepType ==
    ASSUME NEW field, NEW values \in Seq(Line), NEW line \in Line
    PROVE  ValueStep(field, values, line) \in Seq(Line)
<1>1. CASE line # <<>> /\ Head(line) = field
  <2>1. Trimmed(field, Tail(line)) \in Line
    BY <1>1, TailOfLine, TrimmedType
  <2> QED BY <1>1, <2>1, AppendProperties DEF ValueStep
<1>2. CASE ~ (line # <<>> /\ Head(line) = field)
  BY <1>2 DEF ValueStep
<1> QED BY <1>1, <1>2

LEMMA ValuesFacts ==
    ASSUME NEW field
    PROVE  /\ ValuesOf(field, <<>>) = <<>>
           /\ \A s \in Seq(Line) : ValuesOf(field, s) \in Seq(Line)
           /\ \A s \in Seq(Line) : \A c \in Line : ValuesOf(field, Append(s, c)) = ValueStep(field, ValuesOf(field, s), c)
<1> DEFINE A == Seq(Line)
           base == <<>>
           step == [p \in A \X Line |-> ValueStep(field, p[1], p[2])]
<1>1. base \in A
  OBVIOUS
<1>2. step \in [A \X Line -> A]
  BY ValueStepType
<1>3. \A a \in A : \A c \in Line : step[<<a, c>>] = ValueStep(field, a, c)
  OBVIOUS
<1> HIDE DEF A, base, step
<1>4. ASSUME NEW s \in Seq(Line) PROVE ValuesOf(field, s) = FoldOf(A, base, step, s)
  <2> DEFINE N == Len(s)
             U == CHOOSE f : f = [n \in 0 .. N |-> IF n = 0 THEN base ELSE ValueStep(field, f[n - 1], s[n])]
  <2>1. N \in Nat /\ \A n \in 1 .. N : s[n] \in Line
    BY LenProperties
  <2>2. ValuesOf(field, s) = U[N]
    BY DEF ValuesOf, Fold, ValueStep, base
  <2> HIDE DEF N
  <2>3. PICK f : IsFold(f, A, base, step, s)
    BY <1>1, <1>2, FollowerExists
  <2>4. /\ f \in [0 .. N -> A] /\ f[0] = base
        /\ \A n \in 1 .. N : f[n] = ValueStep(field, f[n - 1], s[n])
    <3>1. f \in [0 .. N -> A] /\ f[0] = base /\ \A n \in 1 .. N : f[n] = step[<<f[n - 1], s[n]>>]
      BY <2>3 DEF IsFold, N
    <3>2. ASSUME NEW n \in 1 .. N PROVE f[n - 1] \in A
      BY <2>1, <3>1
    <3> QED BY <1>3, <2>1, <3>1, <3>2
  <2>5. f = [n \in 0 .. N |-> IF n = 0 THEN base ELSE ValueStep(field, f[n - 1], s[n])]
    BY <2>1, <2>4
  <2>6. U = [n \in 0 .. N |-> IF n = 0 THEN base ELSE ValueStep(field, U[n - 1], s[n])]
    BY <2>5
  <2> HIDE DEF U
  <2>7. U[0] = base /\ \A n \in 1 .. N : U[n] = ValueStep(field, U[n - 1], s[n])
    BY <2>1, <2>6
  <2>8. GoOnAlike(N, f, U)
    BY <2>4, <2>7 DEF GoOnAlike
  <2>9. f[N] = U[N]
    BY <2>1, <2>8, SameRuns
  <2>10. f[N] = FoldOf(A, base, step, s)
    BY <1>1, <1>2, <2>3, FoldOfIs DEF N
  <2> QED BY <2>2, <2>9, <2>10
<1>5. OneByOne(A, Line, base, step)
  BY <1>1, <1>2, FoldOfAppend
<1>6. ValuesOf(field, <<>>) = base
  <2>1. <<>> \in Seq(Line)
    OBVIOUS
  <2> QED BY <1>4, <1>5, <2>1 DEF OneByOne
<1>7. ASSUME NEW s \in Seq(Line) PROVE ValuesOf(field, s) \in A
  BY <1>4, <1>5 DEF OneByOne
<1>8. ASSUME NEW s \in Seq(Line), NEW c \in Line
      PROVE  ValuesOf(field, Append(s, c)) = ValueStep(field, ValuesOf(field, s), c)
  <2>1. Append(s, c) \in Seq(Line)
    BY AppendProperties
  <2>2. ValuesOf(field, Append(s, c)) = step[<<ValuesOf(field, s), c>>]
    BY <1>4, <1>5, <2>1 DEF OneByOne
  <2> QED BY <1>3, <1>7, <2>2
<1> QED BY <1>6, <1>7, <1>8 DEF A, base

(* A reader that goes line by line, character after character: it keeps the *)
(* block it collects and what it dispatched, ignores carriage returns, and   *)
(* takes the white space off the values as the parser does.                 *)
LineBlock == [line |-> <<>>, event |-> <<"message">>, data |-> <<>>]

LineField(block) ==
    IF block.line = <<>> THEN block
    ELSE [block EXCEPT !.event = IF Head(block.line) = Event THEN Trimmed(Event, Tail(block.line)) ELSE @,
                       !.data = IF Head(block.line) = Data
                                THEN Append(@, Trimmed(Data, Tail(block.line))) ELSE @,
                       !.line = <<>>]

LineDispatched(block) ==
    IF block.data = <<>> THEN <<>> ELSE << [event |-> block.event, data |-> block.data] >>

LineTake(state, c) ==
    IF c = CR THEN state
    ELSE IF c # LF THEN [state EXCEPT !.block.line = Append(@, c)]
    ELSE IF state.block.line # <<>> THEN [state EXCEPT !.block = LineField(@)]
    ELSE [block |-> LineBlock, out |-> state.out \o LineDispatched(state.block)]

Names == Seq(Chars \cup {"message"})
Blocks == [line : Line, event : Names, data : Seq(Line)]
Readings == [block : Blocks, out : Seq([event : Names, data : Seq(Line)])]
Nothing == [block |-> LineBlock, out |-> <<>>]

LineRead(string) == Fold(LineTake, Nothing, string)

LEMMA LineBlockType == LineBlock \in Blocks /\ Nothing \in Readings
<1>1. <<>> \in Line /\ <<"message">> \in Names /\ <<>> \in Seq(Line)
  BY DEF Line, Names
<1> QED BY <1>1 DEF LineBlock, Nothing, Blocks, Readings

LEMMA LineFieldType ==
    ASSUME NEW block \in Blocks PROVE LineField(block) \in Blocks /\ LineField(block).line = <<>>
<1>1. block.line \in Line /\ block.event \in Names /\ block.data \in Seq(Line) /\ <<>> \in Line
  BY DEF Blocks, Line
<1>2. CASE block.line = <<>>
  BY <1>2 DEF LineField
<1>3. CASE block.line # <<>>
  <2> DEFINE name == Trimmed(Event, Tail(block.line))
             value == Trimmed(Data, Tail(block.line))
             event == IF Head(block.line) = Event THEN name ELSE block.event
             data == IF Head(block.line) = Data THEN Append(block.data, value) ELSE block.data
  <2>1. name \in Names /\ value \in Line
    <3>1. name \in Line /\ value \in Line
      BY <1>1, <1>3, TailOfLine, TrimmedType
    <3>2. Line \subseteq Names
      BY DEF Line, Names
    <3> QED BY <3>1, <3>2
  <2>2. event \in Names /\ data \in Seq(Line)
    <3> HIDE DEF name, value
    <3> QED BY <1>1, <2>1, AppendProperties
  <2>3. LineField(block) = [line |-> <<>>, event |-> event, data |-> data]
    BY <1>3 DEF LineField, Blocks
  <2> HIDE DEF event, data
  <2> QED BY <1>1, <2>2, <2>3 DEF Blocks
<1> QED BY <1>2, <1>3

LEMMA LineTakeType ==
    ASSUME NEW state \in Readings, NEW c \in Chars PROVE LineTake(state, c) \in Readings
<1> DEFINE M == [event : Names, data : Seq(Line)]
<1>1. state.block \in Blocks /\ state.out \in Seq(M) /\ state = [block |-> state.block, out |-> state.out]
  BY DEF Readings
<1>2. state.block.line \in Line /\ state.block.event \in Names /\ state.block.data \in Seq(Line)
  BY <1>1 DEF Blocks
<1>3. CASE c = CR
  BY <1>3 DEF LineTake
<1>4. CASE c # CR /\ c # LF
  <2> DEFINE line == Append(state.block.line, c)
  <2>1. line \in Line
    BY <1>2, AppendProperties DEF Line
  <2>2. LineTake(state, c) = [state EXCEPT !.block = [state.block EXCEPT !.line = line]]
    BY <1>1, <1>4 DEF LineTake, Readings
  <2> HIDE DEF line
  <2> QED BY <1>1, <2>1, <2>2 DEF Readings, Blocks
<1>5. CASE c = LF /\ state.block.line # <<>>
  <2>1. LineTake(state, c) = [state EXCEPT !.block = LineField(state.block)]
    BY <1>1, <1>5 DEF LineTake, Readings, LF, CR
  <2> QED BY <1>1, <2>1, LineFieldType DEF Readings
<1>6. CASE c = LF /\ state.block.line = <<>>
  <2> DEFINE out == state.out
             more == LineDispatched(state.block)
  <2>1. LineTake(state, c) = [block |-> LineBlock, out |-> out \o more]
    BY <1>6 DEF LineTake, LF, CR
  <2>2. more \in Seq(M)
    <3> DEFINE m == [event |-> state.block.event, data |-> state.block.data]
    <3>1. m \in M
      BY <1>2
    <3>2. more = <<>> \/ more = <<m>>
      BY DEF LineDispatched
    <3>3. <<>> \in Seq(M)
      OBVIOUS
    <3>4. <<m>> \in Seq(M)
      <4> HIDE DEF m, M
      <4> QED BY <3>1
    <3> QED BY <3>2, <3>3, <3>4
  <2>3. out \in Seq(M)
    BY <1>1
  <2> HIDE DEF out, more, M
  <2>4. out \o more \in Seq(M)
    BY <2>2, <2>3, ConcatProperties
  <2> QED BY <2>1, <2>4, LineBlockType DEF Readings, M
<1> QED BY <1>3, <1>4, <1>5, <1>6

LEMMA LineReadFacts ==
    /\ LineRead(<<>>) = Nothing
    /\ \A s \in Seq(Chars) : LineRead(s) \in Readings
    /\ \A s \in Seq(Chars) : \A c \in Chars : LineRead(Append(s, c)) = LineTake(LineRead(s), c)
<1> DEFINE A == Readings
           base == Nothing
           step == [p \in A \X Chars |-> LineTake(p[1], p[2])]
<1>1. base \in A
  BY LineBlockType
<1>2. step \in [A \X Chars -> A]
  BY LineTakeType
<1>3. \A a \in A : \A c \in Chars : step[<<a, c>>] = LineTake(a, c)
  OBVIOUS
<1> HIDE DEF A, base, step
<1>4. ASSUME NEW s \in Seq(Chars) PROVE LineRead(s) = FoldOf(A, base, step, s)
  <2> DEFINE N == Len(s)
             U == CHOOSE f : f = [n \in 0 .. N |-> IF n = 0 THEN base ELSE LineTake(f[n - 1], s[n])]
  <2>1. N \in Nat /\ \A n \in 1 .. N : s[n] \in Chars
    BY LenProperties
  <2>2. LineRead(s) = U[N]
    BY DEF LineRead, Fold, base
  <2> HIDE DEF N
  <2>3. PICK f : IsFold(f, A, base, step, s)
    BY <1>1, <1>2, FollowerExists
  <2>4. /\ f \in [0 .. N -> A] /\ f[0] = base
        /\ \A n \in 1 .. N : f[n] = LineTake(f[n - 1], s[n])
    <3>1. f \in [0 .. N -> A] /\ f[0] = base /\ \A n \in 1 .. N : f[n] = step[<<f[n - 1], s[n]>>]
      BY <2>3 DEF IsFold, N
    <3>2. ASSUME NEW n \in 1 .. N PROVE f[n - 1] \in A
      BY <2>1, <3>1
    <3> QED BY <1>3, <2>1, <3>1, <3>2
  <2>5. f = [n \in 0 .. N |-> IF n = 0 THEN base ELSE LineTake(f[n - 1], s[n])]
    BY <2>1, <2>4
  <2>6. U = [n \in 0 .. N |-> IF n = 0 THEN base ELSE LineTake(U[n - 1], s[n])]
    BY <2>5
  <2> HIDE DEF U
  <2>7. U[0] = base /\ \A n \in 1 .. N : U[n] = LineTake(U[n - 1], s[n])
    BY <2>1, <2>6
  <2>8. GoOnAlike(N, f, U)
    BY <2>4, <2>7 DEF GoOnAlike
  <2>9. f[N] = U[N]
    BY <2>1, <2>8, SameRuns
  <2>10. f[N] = FoldOf(A, base, step, s)
    BY <1>1, <1>2, <2>3, FoldOfIs DEF N
  <2> QED BY <2>2, <2>9, <2>10
<1>5. OneByOne(A, Chars, base, step)
  BY <1>1, <1>2, FoldOfAppend
<1>6. LineRead(<<>>) = base
  <2>1. <<>> \in Seq(Chars)
    OBVIOUS
  <2> QED BY <1>4, <1>5, <2>1 DEF OneByOne
<1>7. ASSUME NEW s \in Seq(Chars) PROVE LineRead(s) \in A
  BY <1>4, <1>5 DEF OneByOne
<1>8. ASSUME NEW s \in Seq(Chars), NEW c \in Chars
      PROVE  LineRead(Append(s, c)) = LineTake(LineRead(s), c)
  <2>1. Append(s, c) \in Seq(Chars)
    BY AppendProperties
  <2>2. LineRead(Append(s, c)) = step[<<LineRead(s), c>>]
    BY <1>4, <1>5, <2>1 DEF OneByOne
  <2> QED BY <1>3, <1>7, <2>2
<1> QED BY <1>6, <1>7, <1>8 DEF A, base

(* Line ends, index by index.                                               *)
NormalStep(frame, out, i) ==
    IF frame[i] = LF /\ i > 1 /\ frame[i - 1] = CR THEN out
    ELSE Append(out, IF frame[i] = CR THEN LF ELSE frame[i])

Normalizes(f, frame) ==
    /\ f \in [0 .. Len(frame) -> Seq(Chars)]
    /\ f[0] = <<>>
    /\ \A n \in 1 .. Len(frame) : f[n] = NormalStep(frame, f[n - 1], n)
    /\ Normalized(frame) = f[Len(frame)]

LEMMA NormalizedFacts ==
    ASSUME NEW frame \in Seq(Chars) PROVE \E f : Normalizes(f, frame)
<1> DEFINE N == Len(frame)
           A == Seq(Chars)
           index == [i \in DOMAIN frame |-> i]
           step == [p \in A \X (1 .. N) |-> NormalStep(frame, p[1], p[2])]
           U == CHOOSE f : f = [n \in 0 .. Len(index) |->
                                  IF n = 0 THEN <<>> ELSE NormalStep(frame, f[n - 1], index[n])]
<1>1. N \in Nat /\ DOMAIN frame = 1 .. N /\ \A n \in 1 .. N : frame[n] \in Chars
  BY LenProperties
<1>2. /\ index \in Seq(1 .. N) /\ Len(index) = N
      /\ \A n \in 1 .. N : index[n] = n
  <2>1. index \in [1 .. N -> 1 .. N] /\ \A n \in 1 .. N : index[n] = n
    BY <1>1
  <2> HIDE DEF index, N
  <2>2. index \in Seq(1 .. N)
    BY <1>1, <2>1, SeqDef
  <2>3. Len(index) = N
    BY <1>1, <2>1, <2>2, LenProperties
  <2> QED BY <2>1, <2>2, <2>3
<1>3. Normalized(frame) = U[N]
  <2>1. Normalized(frame) = U[Len(index)]
    BY DEF Normalized, Fold, NormalStep
  <2> QED BY <1>2, <2>1
<1> HIDE DEF index, N
<1>4. step \in [A \X (1 .. N) -> A]
  <2> SUFFICES ASSUME NEW out \in A, NEW i \in 1 .. N PROVE NormalStep(frame, out, i) \in A
    OBVIOUS
  <2>1. (IF frame[i] = CR THEN LF ELSE frame[i]) \in Chars
    BY <1>1 DEF Chars, Bytes
  <2> QED BY <2>1, AppendProperties DEF NormalStep
<1>5. \A a \in A : \A i \in 1 .. N : step[<<a, i>>] = NormalStep(frame, a, i)
  OBVIOUS
<1> HIDE DEF A, step
<1>6. <<>> \in A
  BY DEF A
<1>7. PICK f : IsFold(f, A, <<>>, step, index)
  BY <1>2, <1>4, <1>6, FollowerExists
<1>8. /\ f \in [0 .. N -> A] /\ f[0] = <<>>
      /\ \A n \in 1 .. N : f[n] = NormalStep(frame, f[n - 1], n)
  <2>1. /\ f \in [0 .. N -> A] /\ f[0] = <<>>
        /\ \A n \in 1 .. N : f[n] = step[<<f[n - 1], n>>]
    BY <1>2, <1>7 DEF IsFold
  <2>2. ASSUME NEW n \in 1 .. N PROVE f[n - 1] \in A
    BY <1>1, <2>1
  <2> QED BY <1>5, <2>1, <2>2
<1>9. f = [n \in 0 .. N |-> IF n = 0 THEN <<>> ELSE NormalStep(frame, f[n - 1], index[n])]
  BY <1>1, <1>2, <1>8
<1>10. U = [n \in 0 .. N |-> IF n = 0 THEN <<>> ELSE NormalStep(frame, U[n - 1], index[n])]
  BY <1>2, <1>9
<1> HIDE DEF U
<1>11. U[0] = <<>> /\ \A n \in 1 .. N : U[n] = NormalStep(frame, U[n - 1], n)
  BY <1>1, <1>2, <1>10
<1>12. GoOnAlike(N, f, U)
  BY <1>8, <1>11 DEF GoOnAlike
<1>13. f[N] = U[N]
  BY <1>1, <1>12, SameRuns
<1> QED BY <1>3, <1>8, <1>13 DEF Normalizes, A, N

LEMMA TakeCases ==
    ASSUME NEW state \in Readings, NEW c \in Chars
    PROVE  /\ c = CR => LineTake(state, c) = state
           /\ c # CR /\ c # LF =>
                LineTake(state, c) = [block |-> [line |-> Append(state.block.line, c),
                                             event |-> state.block.event, data |-> state.block.data],
                                  out |-> state.out]
           /\ c = LF /\ state.block.line # <<>> =>
                LineTake(state, c) = [block |-> LineField(state.block), out |-> state.out]
           /\ c = LF /\ state.block.line = <<>> =>
                LineTake(state, c) = [block |-> LineBlock, out |-> state.out \o LineDispatched(state.block)]
<1> USE DEF LineTake, LF, CR
<1>1. /\ state.block \in Blocks /\ state = [block |-> state.block, out |-> state.out]
      /\ state.block = [line |-> state.block.line, event |-> state.block.event,
                        data |-> state.block.data]
  BY DEF Readings, Blocks
<1>2. CASE c = CR
  BY <1>2
<1>3. CASE c # CR /\ c # LF
  BY <1>1, <1>3 DEF Readings, Blocks
<1>4. CASE c = LF /\ state.block.line # <<>>
  BY <1>1, <1>4 DEF Readings
<1>5. CASE c = LF /\ state.block.line = <<>>
  BY <1>5
<1> QED BY <1>2, <1>3, <1>4, <1>5

(* A text with one kind of line end, or a beginning of one.                 *)
InMode(crlf, x) ==
    \A i \in 1 .. Len(x) :
        IF crlf THEN x[i] = LF <=> (i > 1 /\ x[i - 1] = CR) ELSE x[i] # CR

EndsInCR(x) == x # <<>> /\ x[Len(x)] = CR

ReadTo(x, n) == LineRead(SubSeq(x, 1, n))

LEMMA ReadToFacts ==
    ASSUME NEW x \in Seq(Chars)
    PROVE  /\ \A n \in 0 .. Len(x) : ReadTo(x, n) \in Readings
           /\ ReadTo(x, 0) = Nothing
           /\ ReadTo(x, Len(x)) = LineRead(x)
           /\ \A n \in 1 .. Len(x) : ReadTo(x, n) = LineTake(ReadTo(x, n - 1), x[n])
<1>1. Len(x) \in Nat
  BY LenProperties
<1>2. ASSUME NEW n \in 0 .. Len(x) PROVE SubSeq(x, 1, n) \in Seq(Chars)
  <2>1. 1 \in 1 .. Len(x) + 1
    BY <1>1
  <2> QED BY <2>1, PieceType
<1>3. ASSUME NEW n \in 1 .. Len(x) PROVE ReadTo(x, n) = LineTake(ReadTo(x, n - 1), x[n])
  <2>1. 1 \in 1 .. Len(x) /\ n - 1 \in 0 .. Len(x) /\ 1 <= n
    BY <1>1
  <2>2. SubSeq(x, 1, n) = SubSeq(x, 1, n - 1) \o <<x[n]>>
    BY <2>1, SubSeqRecursiveSecond
  <2> DEFINE p == SubSeq(x, 1, n - 1)
  <2>3. p \in Seq(Chars) /\ x[n] \in Chars
    BY <1>2, <2>1, ElementOfSeq
  <2>4. SubSeq(x, 1, n) = Append(p, x[n])
    BY <2>2, <2>3, AppendIsConcat
  <2> QED BY <2>3, <2>4, LineReadFacts DEF ReadTo
<1>4. ReadTo(x, 0) = Nothing
  <2>1. SubSeq(x, 1, 0) = <<>>
    BY SubSeqEmpty
  <2> QED BY <2>1, LineReadFacts DEF ReadTo
<1>5. ReadTo(x, Len(x)) = LineRead(x)
  BY SubSeqFull DEF ReadTo
<1> QED BY <1>2, <1>3, <1>4, <1>5, LineReadFacts DEF ReadTo

LEMMA NothingToDispatch ==
    /\ LineField(LineBlock) = LineBlock /\ LineDispatched(LineBlock) = <<>>
    /\ LineBlock.line = <<>> /\ <<>> \o <<>> = <<>>
    /\ Nothing.block = LineBlock /\ Nothing.out = <<>>
BY DEF LineBlock, LineField, LineDispatched, Nothing

(* Where there is no delimiter the reader dispatches nothing: its line is *)
(* empty only before the first field and after a line end.                  *)
AfterLine(x, n) == n > 0 /\ (x[n] = LF \/ (n > 1 /\ x[n] = CR /\ x[n - 1] = LF))

Quiet(x, n) ==
    /\ ReadTo(x, n).out = <<>>
    /\ ReadTo(x, n).block.line = <<>> => ReadTo(x, n).block = LineBlock \/ AfterLine(x, n)
    /\ n > 0 /\ x[n] = LF => ReadTo(x, n).block = LineField(ReadTo(x, n - 1).block)

LEMMA NoDelimiterAfterLine ==
    ASSUME NEW crlf \in BOOLEAN, NEW x \in Seq(Chars), InMode(crlf, x), Boundaries(x) = {},
           NEW n \in 0 .. Len(x), n # Len(x), AfterLine(x, n)
    PROVE  x[n + 1] # LF
<1> SUFFICES ASSUME x[n + 1] = LF PROVE FALSE
  OBVIOUS
<1>1. Len(x) \in Nat /\ n \in 1 .. Len(x) /\ n + 1 \in 1 .. Len(x) /\ (n + 1) - 1 = n
  BY LenProperties DEF AfterLine
<1>2. \A b : ~ Delimits(x, b)
  BY BoundariesAre
<1>3. CASE x[n] = LF
  <2>1. ~ crlf
    <3> SUFFICES ASSUME crlf PROVE FALSE
      OBVIOUS
    <3>1. x[n] = CR
      BY <1>1 DEF InMode
    <3> QED BY <1>3, <3>1 DEF LF, CR
  <2>2. IsLF(x, n)
    BY <1>1, <1>3 DEF IsLF
  <2> QED BY <1>1, <1>2, <2>2 DEF Delimits
<1>4. CASE n > 1 /\ x[n] = CR /\ x[n - 1] = LF
  <2>1. crlf /\ n - 1 \in 1 .. Len(x)
    BY <1>1, <1>4 DEF InMode
  <2>2. n - 1 > 1 /\ x[(n - 1) - 1] = CR
    BY <1>4, <2>1 DEF InMode
  <2> DEFINE i == (n - 1) - 1
  <2>3. i \in 1 .. Len(x) - 3 /\ i \in 1 .. Len(x) /\ i + 1 = n - 1 /\ i + 2 = n /\ i + 3 = n + 1
    BY <1>1, <2>2
  <2> HIDE DEF i
  <2>4. IsCRLF(x, i)
    BY <1>4, <2>2, <2>3 DEF IsCRLF, i
  <2> QED BY <1>2, <2>3, <2>4 DEF Delimits
<1> QED BY <1>3, <1>4 DEF AfterLine

LEMMA QuietWithoutDelimiter ==
    ASSUME NEW crlf \in BOOLEAN, NEW x \in Seq(Chars), InMode(crlf, x), Boundaries(x) = {}
    PROVE  \A n \in 0 .. Len(x) : Quiet(x, n)
<1> DEFINE N == Len(x)
           S == {n \in 0 .. N : Quiet(x, n)}
<1>1. N \in Nat /\ \A n \in 1 .. N : x[n] \in Chars
  BY LenProperties
<1>2. 0 \in S
  BY <1>1, ReadToFacts, NothingToDispatch DEF Quiet
<1>3. ASSUME NEW n \in 0 .. N, n # N, n \in S PROVE n + 1 \in S
  <2> DEFINE m == n + 1
             p == ReadTo(x, n)
             q == ReadTo(x, m)
             c == x[m]
  <2>1. m \in 1 .. N /\ m \in 0 .. N /\ m - 1 = n /\ m > 0
    BY <1>1, <1>3
  <2>2. p \in Readings /\ q = LineTake(p, c) /\ c \in Chars
    BY <1>1, <2>1, ReadToFacts
  <2>3. p.out = <<>> /\ (p.block.line = <<>> => p.block = LineBlock \/ AfterLine(x, n))
    BY <1>3 DEF Quiet
  <2>4. (p.block.line = <<>> /\ c = LF) => p.block = LineBlock
    BY <1>3, <2>3, NoDelimiterAfterLine
  <2>5. q.out = <<>> /\ (c = LF => q.block = LineField(p.block))
    <3> HIDE DEF p, q, c
    <3>1. CASE c = LF /\ p.block.line # <<>>
      <4>1. LineTake(p, c) = [block |-> LineField(p.block), out |-> p.out]
        BY <2>2, <3>1, TakeCases
      <4> QED BY <2>2, <2>3, <4>1
    <3>2. CASE c = LF /\ p.block.line = <<>>
      <4>1. LineTake(p, c) = [block |-> LineBlock, out |-> p.out \o LineDispatched(p.block)]
        BY <2>2, <3>2, TakeCases
      <4>2. p.block = LineBlock
        BY <2>4, <3>2
      <4>3. p.out \o LineDispatched(p.block) = <<>>
        BY <2>3, <4>2, NothingToDispatch
      <4> QED BY <2>2, <4>1, <4>2, <4>3, NothingToDispatch
    <3>3. CASE c = CR
      <4>1. LineTake(p, c) = p /\ c # LF
        BY <2>2, <3>3, TakeCases DEF LF, CR
      <4> QED BY <2>2, <2>3, <4>1
    <3>4. CASE c # LF /\ c # CR
      <4>1. LineTake(p, c).out = p.out
        <5>1. LineTake(p, c) = [block |-> [line |-> Append(p.block.line, c), event |-> p.block.event,
                                       data |-> p.block.data], out |-> p.out]
          BY <2>2, <3>4, TakeCases
        <5> QED BY <5>1
      <4> QED BY <2>2, <2>3, <3>4, <4>1
    <3> QED BY <3>1, <3>2, <3>3, <3>4
  <2>6. q.block.line = <<>> => q.block = LineBlock \/ AfterLine(x, m)
    <3>1. CASE c = LF
      BY <2>1, <3>1 DEF AfterLine
    <3>2. CASE c = CR
      <4>1. q = p
        BY <2>2, <3>2, TakeCases
      <4>2. crlf
        BY <2>1, <3>2 DEF InMode
      <4>3. AfterLine(x, n) => AfterLine(x, m)
        <5> SUFFICES ASSUME AfterLine(x, n) PROVE AfterLine(x, m)
          OBVIOUS
        <5>1. m > 1 /\ n \in 1 .. N
          BY <1>1, <2>1 DEF AfterLine
        <5>2. x[n] # CR
          BY <2>1, <3>2, <4>2, <5>1 DEF InMode, LF, CR
        <5>3. x[n] = LF
          BY <5>2 DEF AfterLine
        <5> QED BY <2>1, <3>2, <5>1, <5>3 DEF AfterLine
      <4> QED BY <2>3, <4>1, <4>3
    <3>3. CASE c # LF /\ c # CR
      <4>1. q.block.line = Append(p.block.line, c)
        <5> HIDE DEF p, q, c
        <5>1. LineTake(p, c) = [block |-> [line |-> Append(p.block.line, c), event |-> p.block.event,
                                       data |-> p.block.data], out |-> p.out]
          BY <2>2, <3>3, TakeCases
        <5> QED BY <2>2, <5>1
      <4>2. p.block.line \in Seq(Chars)
        BY <2>2 DEF Readings, Blocks, Line
      <4> DEFINE l == p.block.line
      <4> HIDE DEF l, c, q
      <4>3. Append(l, c) # <<>>
        BY <2>2, <4>2, AppendProperties DEF l
      <4> QED BY <4>1, <4>3 DEF l
    <3> QED BY <3>1, <3>2, <3>3
  <2>7. Quiet(x, m)
    BY <2>1, <2>5, <2>6 DEF Quiet
  <2> QED BY <2>1, <2>7
<1> HIDE DEF S
<1>4. \A n \in 0 .. N : n \in S
  BY <1>1, <1>2, <1>3, UpTo
<1> QED BY <1>4 DEF S, N

(* The parser has the same lines, and the same values of its fields, as the *)
(* reader has collected in its block.                                      *)
NameOf(events) == IF events = <<>> THEN <<"message">> ELSE Last(events)

Collected(lines, block) ==
    \E before \in Seq(Line) :
        /\ lines = Append(before, block.line)
        /\ NameOf(ValuesOf(Event, before)) = block.event
        /\ ValuesOf(Data, before) = block.data

LEMMA LastOfAppend ==
    ASSUME NEW S, NEW s \in Seq(S), NEW e \in S
    PROVE  Last(Append(s, e)) = e /\ Append(s, e) # <<>>
BY AppendProperties DEF Last

LEMMA FieldCollects ==
    ASSUME NEW before \in Seq(Line), NEW block \in Blocks,
           NameOf(ValuesOf(Event, before)) = block.event, ValuesOf(Data, before) = block.data
    PROVE  /\ NameOf(ValuesOf(Event, Append(before, block.line))) = LineField(block).event
           /\ ValuesOf(Data, Append(before, block.line)) = LineField(block).data
<1> DEFINE line == block.line
           e == ValuesOf(Event, before)
           d == ValuesOf(Data, before)
           name == Trimmed(Event, Tail(line))
           value == Trimmed(Data, Tail(line))
<1>1. line \in Line /\ e \in Seq(Line) /\ d \in Seq(Line)
  BY ValuesFacts DEF Blocks
<1>2. /\ ValuesOf(Event, Append(before, line)) = ValueStep(Event, e, line)
      /\ ValuesOf(Data, Append(before, line)) = ValueStep(Data, d, line)
  BY <1>1, ValuesFacts
<1>3. CASE line = <<>>
  BY <1>2, <1>3 DEF ValueStep, LineField
<1>4. CASE line # <<>>
  <2>1. name \in Line /\ value \in Line
    BY <1>1, <1>4, TailOfLine, TrimmedType
  <2>2. /\ LineField(block).event = IF Head(line) = Event THEN name ELSE block.event
        /\ LineField(block).data = IF Head(line) = Data THEN Append(block.data, value) ELSE block.data
    BY <1>4 DEF LineField, Blocks
  <2> HIDE DEF e, d, line, name, value
  <2>3. NameOf(Append(e, name)) = name
    BY <1>1, <2>1, LastOfAppend DEF NameOf
  <2>4. NameOf(ValueStep(Event, e, line)) = LineField(block).event
    BY <1>4, <2>2, <2>3 DEF ValueStep, name, e
  <2>5. ValueStep(Data, d, line) = LineField(block).data
    BY <1>4, <2>2 DEF ValueStep, value, d
  <2> QED BY <1>2, <2>4, <2>5 DEF line
<1> QED BY <1>3, <1>4

(* The end of a line.                                                      *)
LEMMA LineIsOver ==
    ASSUME NEW lines, NEW block \in Blocks, Collected(lines, block)
    PROVE  Collected(Append(lines, <<>>), LineField(block))
<1>1. PICK before \in Seq(Line) : /\ lines = Append(before, block.line)
                                  /\ NameOf(ValuesOf(Event, before)) = block.event
                                  /\ ValuesOf(Data, before) = block.data
  BY DEF Collected
<1>2. lines \in Seq(Line)
  BY <1>1, AppendProperties DEF Blocks
<1>3. /\ NameOf(ValuesOf(Event, lines)) = LineField(block).event
      /\ ValuesOf(Data, lines) = LineField(block).data
  BY <1>1, FieldCollects
<1> QED BY <1>2, <1>3, LineFieldType DEF Collected

LEMMA LineGrows ==
    ASSUME NEW lines \in SomeLines, NEW block \in Blocks, Collected(lines, block), NEW c \in Chars,
           c # LF
    PROVE  Collected(LineStep(lines, c),
                     [line |-> Append(block.line, c), event |-> block.event, data |-> block.data])
<1>1. PICK before \in Seq(Line) : /\ lines = Append(before, block.line)
                                  /\ NameOf(ValuesOf(Event, before)) = block.event
                                  /\ ValuesOf(Data, before) = block.data
  BY DEF Collected
<1> DEFINE line == block.line
           new == Append(line, c)
           n == Len(before)
           now == Append(before, line)
<1>2. line \in Line /\ new \in Line /\ n \in Nat
  BY AppendProperties, LenProperties DEF Blocks, Line
<1> HIDE DEF line, new
<1>3. /\ now \in Seq(Line) /\ Len(now) = n + 1 /\ now[n + 1] = line
      /\ \A i \in 1 .. n : now[i] = before[i]
  BY <1>2, AppendProperties
<1>4. /\ Append(before, new) \in Seq(Line) /\ Len(Append(before, new)) = n + 1
      /\ Append(before, new)[n + 1] = new
      /\ \A i \in 1 .. n : Append(before, new)[i] = before[i]
  BY <1>2, AppendProperties
<1> HIDE DEF n, now
<1> DEFINE then == [now EXCEPT ![n + 1] = new]
           other == Append(before, new)
<1>5. then = other
  <2>1. n + 1 \in 1 .. Len(now)
    BY <1>2, <1>3
  <2>2. then \in Seq(Line) /\ Len(then) = n + 1
    BY <1>2, <1>3, <2>1, ExceptSeq
  <2>3. DOMAIN now = 1 .. n + 1
    BY <1>2, <1>3, LenProperties
  <2>4. \A i \in 1 .. n + 1 : then[i] = other[i]
    <3> HIDE DEF other
    <3>1. \A i \in 1 .. n + 1 : i = n + 1 \/ i \in 1 .. n
      BY <1>2
    <3> QED BY <1>2, <1>3, <1>4, <2>3, <3>1 DEF other
  <2> HIDE DEF then, other
  <2>5. other \in Seq(Line) /\ Len(other) = n + 1
    BY <1>4 DEF other
  <2> QED BY <1>2, <2>2, <2>4, <2>5, SeqEqual
<1>6. LineStep(lines, c) = other
  <2>1. lines = now
    BY <1>1 DEF now, line
  <2>2. LineStep(now, c) = [now EXCEPT ![n + 1] = Append(now[n + 1], c)]
    BY <1>3 DEF LineStep
  <2>3. Append(now[n + 1], c) = new
    BY <1>3 DEF new
  <2> QED BY <1>5, <2>1, <2>2, <2>3
<1> QED BY <1>1, <1>6 DEF Collected, new, line, other

BlockAt(x, n) ==
    IF n > 0 /\ x[n] = CR THEN LineField(ReadTo(x, n).block) ELSE ReadTo(x, n).block

LEMMA LinesCollect ==
    ASSUME NEW crlf \in BOOLEAN, NEW x \in Seq(Chars), InMode(crlf, x), Boundaries(x) = {},
           NEW f, Normalizes(f, x)
    PROVE  \A n \in 0 .. Len(x) : Collected(Lines(f[n]), BlockAt(x, n))
<1> DEFINE N == Len(x)
           S == {n \in 0 .. N : Collected(Lines(f[n]), BlockAt(x, n))}
<1>1. N \in Nat /\ \A n \in 1 .. N : x[n] \in Chars
  BY LenProperties
<1>2. /\ f \in [0 .. N -> Seq(Chars)] /\ f[0] = <<>>
      /\ \A n \in 1 .. N : f[n] = NormalStep(x, f[n - 1], n)
  BY DEF Normalizes
<1>3. 0 \in S
  <2>1. Lines(f[0]) = Append(<<>>, <<>>)
    <3>1. << <<>> >> = Append(<<>>, <<>>)
      OBVIOUS
    <3> QED BY <1>2, <3>1, LinesFacts
  <2>2. BlockAt(x, 0) = LineBlock
    BY ReadToFacts, NothingToDispatch DEF BlockAt
  <2>3. <<>> \in Seq(Line) /\ \A field : ValuesOf(field, <<>>) = <<>>
    BY ValuesFacts
  <2>4. Collected(Append(<<>>, <<>>), LineBlock)
    <3>1. LineBlock.line = <<>> /\ LineBlock.event = <<"message">> /\ LineBlock.data = <<>>
      BY DEF LineBlock
    <3>2. NameOf(ValuesOf(Event, <<>>)) = LineBlock.event /\ ValuesOf(Data, <<>>) = LineBlock.data
      BY <2>3, <3>1 DEF NameOf
    <3>3. Append(<<>>, <<>>) = Append(<<>>, LineBlock.line)
      BY <3>1
    <3> HIDE DEF NameOf
    <3> QED BY <2>3, <3>2, <3>3 DEF Collected
  <2> QED BY <1>1, <2>1, <2>2, <2>4
<1>4. ASSUME NEW n \in 0 .. N, n # N, n \in S PROVE n + 1 \in S
  <2> DEFINE m == n + 1
             p == ReadTo(x, n)
             q == ReadTo(x, m)
             c == x[m]
             w == f[n]
             before == n > 0 /\ x[n] = CR
  <2>1. m \in 1 .. N /\ m \in 0 .. N /\ m - 1 = n /\ m > 0 /\ (n > 0 => m > 1 /\ n \in 1 .. N)
    BY <1>1, <1>4
  <2>2. p \in Readings /\ q = LineTake(p, c) /\ c \in Chars /\ p.block \in Blocks
    BY <1>1, <2>1, ReadToFacts DEF Readings
  <2>3. w \in Seq(Chars) /\ f[m] = NormalStep(x, w, m)
    BY <1>2, <2>1
  <2>4. c = LF => q.block = LineField(p.block)
    BY <2>1, QuietWithoutDelimiter DEF Quiet
  <2>5. before => c = LF /\ crlf
    <3> SUFFICES ASSUME before PROVE c = LF /\ crlf
      OBVIOUS
    <3> QED BY <2>1 DEF InMode
  <2>6. c = CR => crlf
    BY <2>1 DEF InMode
  <2>7. BlockAt(x, n) = IF before THEN LineField(p.block) ELSE p.block
    BY DEF BlockAt
  <2>8. BlockAt(x, m) = IF c = CR THEN LineField(q.block) ELSE q.block
    BY <2>1 DEF BlockAt
  <2>9. Collected(Lines(w), BlockAt(x, n)) /\ Lines(w) \in SomeLines
    BY <1>4, <2>3, LinesFacts
  <2>10. LF \in Chars
    BY DEF Chars, Bytes
  <2>11. Lines(Append(w, LF)) = Append(Lines(w), <<>>)
    BY <2>3, <2>10, LinesFacts DEF LineStep
  <2>12. CASE c = LF /\ before
    <3>1. f[m] = w
      BY <2>1, <2>3, <2>12 DEF NormalStep
    <3>2. BlockAt(x, m) = BlockAt(x, n)
      BY <2>4, <2>7, <2>8, <2>12 DEF LF, CR
    <3> QED BY <2>1, <2>9, <3>1, <3>2
  <2>13. CASE c = LF /\ ~ before
    <3>1. f[m] = Append(w, LF)
      BY <2>1, <2>3, <2>13 DEF NormalStep, LF, CR
    <3>2. BlockAt(x, m) = LineField(p.block) /\ BlockAt(x, n) = p.block
      BY <2>4, <2>7, <2>8, <2>13 DEF LF, CR
    <3>3. Collected(Append(Lines(w), <<>>), LineField(p.block))
      BY <2>2, <2>9, <3>2, LineIsOver
    <3> QED BY <2>1, <2>11, <3>1, <3>2, <3>3
  <2>14. CASE c = CR
    <3>1. ~ before
      BY <2>5, <2>14 DEF LF, CR
    <3>2. f[m] = Append(w, LF)
      BY <2>1, <2>3, <2>14 DEF NormalStep, LF, CR
    <3>3. q = p
      <4> HIDE DEF p, q, c
      <4> QED BY <2>2, <2>14, TakeCases
    <3>4. BlockAt(x, m) = LineField(p.block) /\ BlockAt(x, n) = p.block
      BY <2>7, <2>8, <2>14, <3>1, <3>3
    <3>5. Collected(Append(Lines(w), <<>>), LineField(p.block))
      BY <2>2, <2>9, <3>4, LineIsOver
    <3> QED BY <2>1, <2>11, <3>2, <3>4, <3>5
  <2>15. CASE c # LF /\ c # CR
    <3> DEFINE block == [line |-> Append(p.block.line, c), event |-> p.block.event,
                         data |-> p.block.data]
    <3>1. f[m] = Append(w, c)
      BY <2>1, <2>3, <2>15 DEF NormalStep
    <3>2. q.block = block
      <4> HIDE DEF p, q, c
      <4>1. LineTake(p, c) = [block |-> block, out |-> p.out]
        BY <2>2, <2>15, TakeCases
      <4> HIDE DEF block
      <4> QED BY <2>2, <4>1
    <3>3. BlockAt(x, m) = block /\ BlockAt(x, n) = p.block
      BY <2>5, <2>7, <2>8, <2>15, <3>2
    <3>4. Lines(Append(w, c)) = LineStep(Lines(w), c)
      BY <2>2, <2>3, LinesFacts
    <3>5. Collected(LineStep(Lines(w), c), block)
      BY <2>2, <2>9, <2>15, <3>3, LineGrows
    <3> QED BY <2>1, <3>1, <3>3, <3>4, <3>5
  <2> QED BY <2>12, <2>13, <2>14, <2>15
<1> HIDE DEF S
<1>5. \A n \in 0 .. N : n \in S
  BY <1>1, <1>3, <1>4, UpTo
<1> QED BY <1>5 DEF S, N

LEMMA ParseCollects ==
    ASSUME NEW crlf \in BOOLEAN, NEW x \in Seq(Chars), InMode(crlf, x), Boundaries(x) = {},
           ~ EndsInCR(x)
    PROVE  Parse(x) = LineDispatched(LineField(LineRead(x).block))
<1> DEFINE lines == Lines(Normalized(x))
           block == LineRead(x).block
<1>1. PICK f : Normalizes(f, x)
  BY NormalizedFacts
<1>2. Len(x) \in 0 .. Len(x)
  BY LenProperties
<1>3. Collected(lines, BlockAt(x, Len(x)))
  BY <1>1, <1>2, LinesCollect DEF Normalizes
<1>4. BlockAt(x, Len(x)) = block /\ block \in Blocks
  <2>1. Len(x) > 0 => x # <<>>
    BY EmptySeq
  <2>2. ReadTo(x, Len(x)) = LineRead(x) /\ LineRead(x) \in Readings
    BY <1>2, ReadToFacts
  <2> QED BY <2>1, <2>2 DEF BlockAt, EndsInCR, Readings
<1> HIDE DEF block
<1>5. PICK before \in Seq(Line) : /\ lines = Append(before, block.line)
                                  /\ NameOf(ValuesOf(Event, before)) = block.event
                                  /\ ValuesOf(Data, before) = block.data
  BY <1>3, <1>4 DEF Collected
<1>6. /\ NameOf(ValuesOf(Event, lines)) = LineField(block).event
      /\ ValuesOf(Data, lines) = LineField(block).data
  BY <1>4, <1>5, FieldCollects
<1>7. Parse(x) = IF ValuesOf(Data, lines) = <<>> THEN <<>>
                 ELSE << [event |-> NameOf(ValuesOf(Event, lines)), data |-> ValuesOf(Data, lines)] >>
  BY DEF Parse, NameOf
<1> HIDE DEF lines
<1> QED BY <1>6, <1>7 DEF LineDispatched, block

LEMMA PrefixIs ==
    ASSUME NEW x \in Seq(Chars), NEW k \in 0 .. Len(x)
    PROVE  /\ SubSeq(x, 1, k) \in Seq(Chars) /\ Len(SubSeq(x, 1, k)) = k
           /\ \A i \in 1 .. k : SubSeq(x, 1, k)[i] = x[i]
<1>1. Len(x) \in Nat /\ 1 \in 1 .. Len(x) + 1 /\ k \in Nat
  BY LenProperties
<1>2. /\ SubSeq(x, 1, k) \in Seq(Chars)
      /\ Len(SubSeq(x, 1, k)) = IF 1 <= k THEN (k - 1) + 1 ELSE 0
      /\ \A i \in 1 .. (k - 1) + 1 : SubSeq(x, 1, k)[i] = x[(1 + i) - 1]
  BY <1>1, PieceType
<1>3. (k - 1) + 1 = k /\ (~ (1 <= k) => k = 0) /\ \A i \in 1 .. k : (1 + i) - 1 = i
  BY <1>1
<1> QED BY <1>2, <1>3

(* A beginning of a text with one kind of line end and no delimiter.        *)
LEMMA PrefixIsPlain ==
    ASSUME NEW crlf \in BOOLEAN, NEW x \in Seq(Chars), InMode(crlf, x), NEW k \in 0 .. Len(x)
    PROVE  /\ InMode(crlf, SubSeq(x, 1, k))
           /\ Boundaries(x) = {} => Boundaries(SubSeq(x, 1, k)) = {}
<1> DEFINE h == SubSeq(x, 1, k)
<1>1. /\ h \in Seq(Chars) /\ Len(h) = k /\ \A i \in 1 .. k : h[i] = x[i]
      /\ Len(x) \in Nat /\ k \in Nat /\ k <= Len(x)
  BY PrefixIs, LenProperties
<1> HIDE DEF h
<1>2. InMode(crlf, h)
  <2>1. \A i \in 1 .. k : i \in 1 .. Len(x) /\ (i > 1 => i - 1 \in 1 .. k)
    BY <1>1
  <2> QED BY <1>1, <2>1 DEF InMode
<1>3. ASSUME NEW b \in Boundaries(h) PROVE b \in Boundaries(x)
  <2>1. Delimits(h, b)
    BY <1>1, <1>3, BoundariesAre
  <2>2. PICK i \in 1 .. Len(h) : \/ b = [index |-> i, length |-> 2] /\ IsLF(h, i)
                                 \/ b = [index |-> i, length |-> 4] /\ IsCRLF(h, i)
    BY <2>1 DEF Delimits
  <2>3. IsLF(h, i) => IsLF(x, i)
    BY <1>1 DEF IsLF
  <2>4. IsCRLF(h, i) => IsCRLF(x, i)
    <3> SUFFICES ASSUME IsCRLF(h, i) PROVE IsCRLF(x, i)
      OBVIOUS
    <3>1. i \in 1 .. k /\ i + 1 \in 1 .. k /\ i + 2 \in 1 .. k /\ i + 3 \in 1 .. k /\ i \in 1 .. Len(x) - 3
      BY <1>1 DEF IsCRLF
    <3> QED BY <1>1, <3>1 DEF IsCRLF
  <2>5. i \in 1 .. Len(x)
    BY <1>1
  <2>6. Delimits(x, b)
    BY <2>2, <2>3, <2>4, <2>5 DEF Delimits
  <2> QED BY <2>6, BoundariesAre
<1> QED BY <1>2, <1>3 DEF h

(* Where a character completes a delimiter, the block of the reader is      *)
(* that of the frame in front of the delimiter, with its last line.        *)
Completes(crlf, r, c, b) ==
    LET h == SubSeq(r, 1, b.index - 1)
    IN  /\ c = LF
        /\ b.index \in 1 .. Len(r)
        /\ b.index + b.length = Len(r) + 2
        /\ ~ EndsInCR(h)
        /\ LineRead(r).block = LineField(LineRead(h).block)

LEMMA CompletesDelimiter ==
    ASSUME NEW crlf \in BOOLEAN, NEW r \in Seq(Chars), Boundaries(r) = {}, NEW c \in Chars,
           InMode(crlf, r), InMode(crlf, Append(r, c)), NEW b \in Boundaries(Append(r, c))
    PROVE  Completes(crlf, r, c, b)
<1> DEFINE y == Append(r, c)
           N == Len(r)
<1>1. /\ y \in Seq(Chars) /\ N \in Nat /\ Len(y) = N + 1 /\ y[N + 1] = c
      /\ \A i \in 1 .. N : y[i] = r[i]
  BY AppendProperties, LenProperties
<1>2. \A d : ~ Delimits(r, d)
  BY BoundariesAre
<1>3. Delimits(y, b)
  BY <1>1, BoundariesAre
<1> HIDE DEF y
<1>4. PICK i \in 1 .. Len(y) : \/ b = [index |-> i, length |-> 2] /\ IsLF(y, i)
                               \/ b = [index |-> i, length |-> 4] /\ IsCRLF(y, i)
  BY <1>3 DEF Delimits
<1> DEFINE h == SubSeq(r, 1, i - 1)
<1>5. InMode(crlf, y)
  BY DEF y
<1>6. ASSUME i \in 1 .. N
      PROVE  /\ h \in Seq(Chars) /\ Len(h) = i - 1 /\ i - 1 \in 0 .. N
             /\ LineRead(h) = ReadTo(r, i - 1)
             /\ EndsInCR(h) => i - 1 \in 1 .. N /\ r[i - 1] = CR
  <2>1. i - 1 \in 0 .. N /\ i - 1 \in Nat
    BY <1>1, <1>6
  <2>2. h \in Seq(Chars) /\ Len(h) = i - 1 /\ \A j \in 1 .. i - 1 : h[j] = r[j]
    BY <2>1, PrefixIs
  <2>3. EndsInCR(h) => i - 1 \in 1 .. N /\ r[i - 1] = CR
    <3> HIDE DEF h
    <3>1. EndsInCR(h) => Len(h) # 0
      BY <2>2, EmptySeq DEF EndsInCR
    <3>2. i - 1 # 0 => i - 1 \in 1 .. i - 1 /\ i - 1 \in 1 .. N
      BY <1>1, <2>1
    <3> QED BY <2>2, <3>1, <3>2 DEF EndsInCR
  <2> QED BY <2>1, <2>2, <2>3 DEF ReadTo
<1>7. CASE b = [index |-> i, length |-> 2] /\ IsLF(y, i)
  <2>1. i \in 1 .. N /\ y[i] = LF /\ y[i + 1] = LF /\ i + 1 \in 1 .. Len(y) /\ r[i] = LF
    BY <1>1, <1>7 DEF IsLF
  <2>2. i = N
    <3> SUFFICES ASSUME i # N PROVE FALSE
      OBVIOUS
    <3>1. i \in 1 .. N - 1 /\ i + 1 \in 1 .. N
      BY <1>1, <2>1
    <3>2. IsLF(r, i)
      BY <1>1, <2>1, <3>1 DEF IsLF
    <3> QED BY <1>2, <2>1, <3>2 DEF Delimits
  <2>3. c = LF /\ b.index = i /\ b.length = 2 /\ i + 2 = N + 2
    BY <1>1, <1>7, <2>1, <2>2
  <2>4. ~ crlf
    <3> SUFFICES ASSUME crlf PROVE FALSE
      OBVIOUS
    <3>1. y[(i + 1) - 1] = CR /\ (i + 1) - 1 = i
      BY <1>1, <1>5, <2>1 DEF InMode
    <3> QED BY <2>1, <3>1 DEF LF, CR
  <2>5. ~ EndsInCR(h)
    BY <1>6, <2>1, <2>4 DEF InMode
  <2>6. LineRead(r).block = LineField(LineRead(h).block)
    <3>1. Quiet(r, i) /\ i > 0
      BY <1>1, <2>1, QuietWithoutDelimiter
    <3>2. ReadTo(r, i).block = LineField(ReadTo(r, i - 1).block)
      BY <2>1, <3>1 DEF Quiet
    <3>3. ReadTo(r, i) = LineRead(r)
      BY <2>2, ReadToFacts
    <3> QED BY <1>6, <2>1, <3>2, <3>3
  <2> QED BY <2>1, <2>3, <2>5, <2>6 DEF Completes
<1>8. CASE b = [index |-> i, length |-> 4] /\ IsCRLF(y, i)
  <2>1. /\ i \in 1 .. N - 2 /\ i \in 1 .. N /\ i + 1 \in 1 .. N /\ i + 2 \in 1 .. N
        /\ i + 1 \in 1 .. N + 1 /\ i + 2 \in 1 .. N + 1 /\ i + 3 \in 1 .. N + 1
        /\ (i + 2) - 1 = i + 1 /\ (i + 1) - 1 = i
    BY <1>1, <1>8 DEF IsCRLF
  <2>2. /\ r[i] = CR /\ r[i + 1] = LF /\ r[i + 2] = CR /\ y[i + 3] = LF
    BY <1>1, <1>8, <2>1 DEF IsCRLF
  <2>3. i + 2 = N
    <3> SUFFICES ASSUME i + 2 # N PROVE FALSE
      OBVIOUS
    <3>1. i \in 1 .. N - 3 /\ i + 3 \in 1 .. N
      BY <1>1, <2>1
    <3>2. IsCRLF(r, i)
      BY <1>1, <2>2, <3>1 DEF IsCRLF
    <3> QED BY <1>2, <2>1, <3>2 DEF Delimits
  <2>4. c = LF /\ b.index = i /\ b.length = 4 /\ i + 4 = N + 2
    <3>1. i + 3 = N + 1
      BY <1>1, <2>3
    <3> QED BY <1>1, <1>8, <2>2, <3>1
  <2>5. crlf
    BY <2>1, <2>2 DEF InMode
  <2>6. ~ EndsInCR(h)
    <3> SUFFICES ASSUME EndsInCR(h) PROVE FALSE
      OBVIOUS
    <3>1. r[i - 1] = CR /\ i - 1 \in 1 .. N
      BY <1>6, <2>1
    <3>2. i > 1
      BY <2>1, <3>1
    <3>3. r[i] = LF
      BY <2>1, <2>5, <3>1, <3>2 DEF InMode
    <3> QED BY <2>2, <3>3 DEF LF, CR
  <2>7. LineRead(r).block = LineField(LineRead(h).block)
    <3>1. i + 1 \in 0 .. N /\ i + 1 > 0 /\ i - 1 \in 0 .. N
      BY <1>1, <2>1
    <3>2. Quiet(r, i + 1)
      BY <3>1, QuietWithoutDelimiter
    <3>3. ReadTo(r, i + 1).block = LineField(ReadTo(r, i).block)
      BY <2>1, <2>2, <3>1, <3>2 DEF Quiet
    <3>4. ReadTo(r, i + 2) = ReadTo(r, i + 1)
      <4>1. ReadTo(r, i + 2) = LineTake(ReadTo(r, i + 1), CR) /\ ReadTo(r, i + 1) \in Readings
        BY <2>1, <2>2, <3>1, ReadToFacts
      <4>2. CR \in Chars
        BY DEF Chars, Bytes
      <4> QED BY <4>1, <4>2, TakeCases
    <3>5. ReadTo(r, i) = ReadTo(r, i - 1)
      <4>1. ReadTo(r, i) = LineTake(ReadTo(r, i - 1), CR) /\ ReadTo(r, i - 1) \in Readings
        BY <2>1, <2>2, <3>1, ReadToFacts
      <4>2. CR \in Chars
        BY DEF Chars, Bytes
      <4> QED BY <4>1, <4>2, TakeCases
    <3>6. ReadTo(r, i + 2) = LineRead(r)
      BY <2>3, ReadToFacts
    <3> QED BY <1>6, <2>1, <3>3, <3>4, <3>5, <3>6
  <2> QED BY <2>1, <2>4, <2>6, <2>7 DEF Completes
<1> QED BY <1>4, <1>7, <1>8

(* What a character adds to what is left over: the chunks of the frame that *)
(* it completes, if it does, are what the reader dispatches at it.         *)
LEMMA CharacterRead ==
    ASSUME NEW crlf \in BOOLEAN, NEW r \in Seq(Chars), Boundaries(r) = {}, NEW c \in Chars,
           InMode(crlf, r), InMode(crlf, Append(r, c))
    PROVE  LET o == Extract(Append(r, c))
           IN  /\ LineTake([block |-> LineRead(r).block, out |-> <<>>], c)
                    = [block |-> LineRead(o.rest).block, out |-> o.chunks]
               /\ InMode(crlf, o.rest)
               /\ EndsInCR(o.rest) <=> c = CR
<1> DEFINE y == Append(r, c)
           o == Extract(y)
           state == [block |-> LineRead(r).block, out |-> <<>>]
<1>1. /\ y \in Seq(Chars) /\ Len(r) \in Nat /\ Len(y) = Len(r) + 1 /\ y[Len(r) + 1] = c
      /\ \A i \in 1 .. Len(r) : y[i] = r[i]
      /\ y # <<>>
  BY AppendProperties, LenProperties
<1>2. LineRead(y) = LineTake(LineRead(r), c)
  BY LineReadFacts
<1>3. LineRead(r) = state /\ state \in Readings
  <2>1. LineRead(r) \in Readings /\ LineRead(r).out = <<>>
    <3>1. Len(r) \in 0 .. Len(r)
      BY <1>1
    <3>2. Quiet(r, Len(r)) /\ ReadTo(r, Len(r)) = LineRead(r) /\ LineRead(r) \in Readings
      BY <3>1, QuietWithoutDelimiter, ReadToFacts
    <3> QED BY <3>2 DEF Quiet
  <2>2. LineRead(r) = state
    BY <2>1 DEF Readings
  <2> QED BY <2>1, <2>2
<1>4. o = Extracted(y)[1]
  BY ExtractDef
<1>5. 1 \in 1 .. Len(y) + 1 /\ InMode(crlf, y)
  BY <1>1
<1> HIDE DEF y, state, o
<1>6. CASE Boundaries(y) = {}
  <2>1. FromOn(y, 1) = {}
    BY <1>6 DEF FromOn
  <2>2. o = [chunks |-> <<>>, rest |-> SubSeq(y, 1, Len(y))]
    BY <1>1, <1>4, <1>5, <2>1, NoneLeft
  <2>3. SubSeq(y, 1, Len(y)) = y
    BY <1>1, SubSeqFull
  <2>4. o.chunks = <<>> /\ o.rest = y
    BY <2>2, <2>3
  <2>5. LineRead(y) \in Readings /\ LineRead(y).out = <<>>
    <3>1. Len(y) \in 0 .. Len(y)
      BY <1>1
    <3>2. Quiet(y, Len(y)) /\ ReadTo(y, Len(y)) = LineRead(y) /\ LineRead(y) \in Readings
      BY <1>1, <1>5, <1>6, <3>1, QuietWithoutDelimiter, ReadToFacts
    <3> QED BY <3>2 DEF Quiet
  <2>6. LineRead(y) = [block |-> LineRead(y).block, out |-> <<>>]
    BY <2>5 DEF Readings
  <2>7. LineTake(state, c) = [block |-> LineRead(o.rest).block, out |-> o.chunks]
    BY <1>2, <1>3, <2>4, <2>6
  <2>8. EndsInCR(y) <=> c = CR
    BY <1>1 DEF EndsInCR
  <2> QED BY <1>5, <2>4, <2>7, <2>8 DEF state, o, y
<1>7. CASE Boundaries(y) # {}
  <2>1. PICK b : IsNext(y, 1, b)
    <3>1. FromOn(y, 1) # {}
      BY <1>1, <1>7, BoundaryType DEF FromOn
    <3> QED BY <1>1, <3>1, NextOrNone
  <2>2. b \in Boundaries(y) /\ b.index - 1 \in 0 .. Len(y) /\ b.index + b.length \in 1 .. Len(y) + 1
    BY <1>1, <1>5, <2>1, NextType
  <2>3. Completes(crlf, r, c, b)
    BY <2>2, CompletesDelimiter DEF y
  <2> DEFINE k == b.index - 1
             h == SubSeq(r, 1, k)
             n == b.index + b.length
  <2>4. k \in 0 .. Len(r) /\ n = Len(y) + 1 /\ b.index \in 1 .. Len(r)
    BY <1>1, <2>3 DEF Completes
  <2>5. /\ h \in Seq(Chars) /\ InMode(crlf, h) /\ Boundaries(h) = {}
    BY <2>4, PrefixIs, PrefixIsPlain
  <2>6. SubSeq(y, 1, k) = h
    <3> DEFINE g == SubSeq(y, 1, k)
    <3>1. k \in Nat /\ k \in 0 .. Len(y) /\ \A i \in 1 .. k : i \in 1 .. Len(r)
      BY <1>1, <2>4
    <3>2. /\ g \in Seq(Chars) /\ Len(g) = k /\ \A i \in 1 .. k : g[i] = y[i]
      BY <1>1, <3>1, PrefixIs
    <3>3. Len(h) = k /\ \A i \in 1 .. k : h[i] = r[i]
      BY <2>4, PrefixIs
    <3> HIDE DEF g, h, k
    <3>4. \A i \in 1 .. Len(g) : g[i] = h[i]
      BY <1>1, <3>1, <3>2, <3>3
    <3> QED BY <2>5, <3>2, <3>3, <3>4, SeqEqual DEF g
  <2>7. o = Before(h, Extracted(y)[n])
    <3>1. Extracted(y)[1] = Before(SubSeq(y, 1, b.index - 1), Extracted(y)[b.index + b.length])
      BY <1>1, <1>5, <2>1, OneMore
    <3> HIDE DEF h
    <3>2. SubSeq(y, 1, b.index - 1) = h
      BY <2>6
    <3> QED BY <1>4, <3>1, <3>2
  <2>8. Extracted(y)[n] = [chunks |-> <<>>, rest |-> <<>>]
    <3>1. n \in 1 .. Len(y) + 1 /\ Len(y) \in Nat
      BY <1>1, <2>4
    <3>2. FromOn(y, n) = {}
      <4> SUFFICES ASSUME NEW d \in Boundaries(y), d.index >= n PROVE FALSE
        BY DEF FromOn
      <4>1. d.index \in 1 .. Len(y)
        BY <1>1, BoundaryType
      <4> HIDE DEF n
      <4> QED BY <1>1, <2>4, <4>1
    <3>3. SubSeq(y, n, Len(y)) = <<>>
      <4> HIDE DEF n
      <4>1. Len(y) < n /\ n \in Int /\ Len(y) \in Int
        BY <2>4, <3>1
      <4> QED BY <4>1, SubSeqEmpty
    <3> HIDE DEF n
    <3> QED BY <1>1, <3>1, <3>2, <3>3, NoneLeft
  <2> DEFINE block == LineRead(r).block
             more == LineDispatched(block)
  <2>9. Parse(h) = more
    <3>1. ~ EndsInCR(h) /\ block = LineField(LineRead(h).block)
      BY <2>3 DEF Completes
    <3> QED BY <2>5, <3>1, ParseCollects
  <2>10. Parse(h) \o <<>> = Parse(h) /\ <<>> \o Parse(h) = Parse(h)
    <3>1. Parse(h) \in Seq(Chunks)
      BY <2>5, ParseType
    <3> DEFINE e == Parse(h)
    <3> HIDE DEF e
    <3> QED BY <3>1, ConcatEmptySeq DEF e
  <2>11. o = [chunks |-> more, rest |-> <<>>]
    BY <2>7, <2>8, <2>9, <2>10 DEF Before
  <2>12. LineTake(state, c) = [block |-> LineBlock, out |-> more]
    <3>1. c = LF /\ state.block = block /\ state.out = <<>>
      BY <2>3 DEF Completes, state
    <3>2. block.line = <<>>
      <4>1. block = LineField(LineRead(h).block)
        BY <2>3 DEF Completes
      <4>2. LineRead(h).block \in Blocks
        BY <2>5, LineReadFacts DEF Readings
      <4> QED BY <4>1, <4>2, LineFieldType
    <3> HIDE DEF block
    <3>3. LineTake(state, c) = [block |-> LineBlock, out |-> state.out \o LineDispatched(state.block)]
      BY <1>3, <3>1, <3>2, TakeCases
    <3> QED BY <2>9, <2>10, <3>1, <3>3
  <2>13. LineRead(<<>>).block = LineBlock
    BY LineReadFacts, NothingToDispatch
  <2>14. InMode(crlf, <<>>) /\ ~ EndsInCR(<<>>) /\ c # CR
    BY <2>3 DEF InMode, EndsInCR, Completes, LF, CR
  <2> HIDE DEF more
  <2>15. o.chunks = more /\ o.rest = <<>>
    BY <2>11
  <2> QED BY <2>12, <2>13, <2>14, <2>15 DEF state, o, y
<1> QED BY <1>6, <1>7

(* What was dispatched before is in front of what is dispatched now.        *)
LEMMA TakeAfter ==
    ASSUME NEW state \in Readings, NEW c \in Chars
    PROVE  LET fresh == LineTake([block |-> state.block, out |-> <<>>], c)
           IN  LineTake(state, c) = [block |-> fresh.block, out |-> state.out \o fresh.out]
<1> DEFINE M == [event : Names, data : Seq(Line)]
           block == state.block
           out == state.out
<1>1. block \in Blocks /\ out \in Seq(M) /\ state = [block |-> block, out |-> out]
  BY DEF Readings
<1>2. [block |-> block, out |-> <<>>] \in Readings
  BY <1>1 DEF Readings
<1>3. out \o <<>> = out
  <2> HIDE DEF out, M
  <2> QED BY <1>1, ConcatEmptySeq
<1> HIDE DEF block, out
<1>4. PICK begun \in Readings : begun = [block |-> block, out |-> <<>>]
  BY <1>2
<1>5. /\ state.block = block /\ state.out = out
      /\ begun.block = block /\ begun.out = <<>>
  BY <1>4 DEF block, out
<1> DEFINE fresh == LineTake(begun, c)
<1> SUFFICES LineTake(state, c) = [block |-> fresh.block, out |-> out \o fresh.out]
  BY <1>4 DEF block, out
<1>6. CASE c = CR
  <2>1. LineTake(state, c) = state /\ fresh = begun
    BY <1>6, TakeCases
  <2> QED BY <1>1, <1>3, <1>5, <2>1
<1>7. CASE c # CR /\ c # LF
  <2> DEFINE With(b) == [line |-> Append(b.line, c), event |-> b.event, data |-> b.data]
             new == With(block)
  <2>1. LineTake(state, c) = [block |-> new, out |-> out]
    <3>1. LineTake(state, c) = [block |-> With(state.block), out |-> state.out]
      BY <1>7, TakeCases
    <3> HIDE DEF With
    <3> QED BY <1>5, <3>1
  <2>2. fresh = [block |-> new, out |-> <<>>]
    <3>1. fresh = [block |-> With(begun.block), out |-> begun.out]
      BY <1>7, TakeCases
    <3> HIDE DEF With
    <3> QED BY <1>5, <3>1
  <2> HIDE DEF new, fresh
  <2>3. fresh.block = new /\ fresh.out = <<>>
    BY <2>2
  <2> QED BY <1>3, <2>1, <2>3 DEF fresh
<1>8. CASE c = LF /\ block.line # <<>>
  <2>1. LineTake(state, c) = [block |-> LineField(block), out |-> out]
    BY <1>5, <1>8, TakeCases
  <2>2. fresh = [block |-> LineField(block), out |-> <<>>]
    BY <1>5, <1>8, TakeCases
  <2> HIDE DEF fresh
  <2>3. fresh.block = LineField(block) /\ fresh.out = <<>>
    BY <2>2
  <2> QED BY <1>3, <2>1, <2>3 DEF fresh
<1>9. CASE c = LF /\ block.line = <<>>
  <2> DEFINE more == LineDispatched(block)
  <2>1. LineTake(state, c) = [block |-> LineBlock, out |-> out \o more]
    BY <1>5, <1>9, TakeCases
  <2>2. fresh = [block |-> LineBlock, out |-> <<>> \o more]
    <3>1. begun.block.line = <<>>
      BY <1>5, <1>9
    <3>2. fresh = [block |-> LineBlock, out |-> begun.out \o LineDispatched(begun.block)]
      BY <1>9, <3>1, TakeCases
    <3> QED BY <1>5, <3>2
  <2>3. <<>> \o more = more
    <3>1. PICK m : more = <<>> \/ more = <<m>>
      BY DEF LineDispatched
    <3>2. <<>> \o <<m>> = <<m>> /\ <<>> \o <<>> = <<>>
      OBVIOUS
    <3> HIDE DEF more
    <3> QED BY <3>1, <3>2
  <2> HIDE DEF fresh, more
  <2>4. fresh.block = LineBlock /\ fresh.out = more
    BY <2>2, <2>3
  <2> QED BY <2>1, <2>4 DEF fresh
<1> QED BY <1>6, <1>7, <1>8, <1>9

(* The parser has read a text as the reader does, up to what is left.      *)
ByLines(crlf, x) ==
    LET o == Extract(x)
    IN  /\ LineRead(x) = [block |-> LineRead(o.rest).block, out |-> o.chunks]
        /\ InMode(crlf, o.rest)
        /\ crlf => (EndsInCR(o.rest) <=> EndsInCR(x))

LEMMA AppendInMode ==
    ASSUME NEW crlf \in BOOLEAN, NEW s \in Seq(Chars), NEW c \in Chars
    PROVE  /\ InMode(crlf, Append(s, c)) <=> /\ InMode(crlf, s)
                                             /\ IF crlf THEN c = LF <=> EndsInCR(s) ELSE c # CR
           /\ EndsInCR(Append(s, c)) <=> c = CR
<1> DEFINE t == Append(s, c)
           N == Len(s)
<1>1. /\ N \in Nat /\ Len(t) = N + 1 /\ t[N + 1] = c
      /\ \A i \in 1 .. N : t[i] = s[i]
  BY AppendProperties, LenProperties
<1>2. EndsInCR(s) <=> N + 1 > 1 /\ s[N] = CR
  <2>1. s # <<>> <=> N # 0
    BY EmptySeq
  <2>2. N # 0 <=> N + 1 > 1
    BY <1>1
  <2> QED BY <2>1, <2>2 DEF EndsInCR
<1>0. EndsInCR(t) <=> c = CR
  BY <1>1, AppendProperties DEF EndsInCR
<1> HIDE DEF t, N
<1>3. ASSUME NEW i \in 1 .. N
      PROVE  /\ i \in 1 .. N + 1 /\ t[i] = s[i]
             /\ i > 1 => t[i - 1] = s[i - 1]
  BY <1>1
<1>4. (N + 1) - 1 = N /\ N + 1 \in 1 .. N + 1 /\ (N + 1 > 1 => t[N] = s[N])
  BY <1>1
<1>5. \A i \in 1 .. N + 1 : i \in 1 .. N \/ i = N + 1
  BY <1>1
<1> DEFINE Fine(u, i) == IF crlf THEN u[i] = LF <=> (i > 1 /\ u[i - 1] = CR) ELSE u[i] # CR
<1>6. \A i \in 1 .. N : Fine(t, i) <=> Fine(s, i)
  BY <1>3
<1>7. Fine(t, N + 1) <=> (IF crlf THEN c = LF <=> EndsInCR(s) ELSE c # CR)
  BY <1>1, <1>2, <1>4
<1>8. InMode(crlf, t) <=> \A i \in 1 .. N + 1 : Fine(t, i)
  BY <1>1 DEF InMode
<1>9. InMode(crlf, s) <=> \A i \in 1 .. N : Fine(s, i)
  BY DEF InMode, N
<1> HIDE DEF Fine
<1> QED BY <1>0, <1>3, <1>4, <1>5, <1>6, <1>7, <1>8, <1>9 DEF t

(* When a text goes on in its mode, so does what is left of it.            *)
LEMMA RestGoesOn ==
    ASSUME NEW crlf \in BOOLEAN, NEW x \in Seq(Chars), NEW r \in Seq(Chars), NEW c \in Chars,
           InMode(crlf, Append(x, c)), InMode(crlf, r), crlf => (EndsInCR(r) <=> EndsInCR(x))
    PROVE  InMode(crlf, Append(r, c))
BY AppendInMode

LEMMA OneCharacterMore ==
    ASSUME NEW crlf \in BOOLEAN, NEW x \in Seq(Chars), NEW c \in Chars,
           InMode(crlf, Append(x, c)), ByLines(crlf, x)
    PROVE  ByLines(crlf, Append(x, c))
<1> DEFINE e == Extract(x)
           r == e.rest
           chunks == e.chunks
           y == Append(r, c)
           o == Extract(y)
           state == LineRead(x)
           fresh == LineTake([block |-> state.block, out |-> <<>>], c)
<1>1. r \in Seq(Chars) /\ chunks \in Seq(Chunks) /\ Boundaries(r) = {}
  BY ExtractType DEF ExtractOutcomes
<1>2. /\ state = [block |-> LineRead(r).block, out |-> chunks]
      /\ InMode(crlf, r) /\ (crlf => (EndsInCR(r) <=> EndsInCR(x)))
  BY DEF ByLines
<1>3. InMode(crlf, y)
  BY <1>1, <1>2, RestGoesOn
<1>4. Extract(Append(x, c)) = [chunks |-> chunks \o o.chunks, rest |-> o.rest]
  <2>1. <<c>> \in Seq(Chars) /\ Append(x, c) = x \o <<c>>
    BY AppendIsConcat
  <2>2. r \o <<c>> = y
    <3> HIDE DEF r
    <3> QED BY <1>1, AppendIsConcat
  <2>3. Extract(x \o <<c>>) = Join(e, <<c>>)
    BY <2>1, ExtractInPieces
  <2> QED BY <2>1, <2>2, <2>3 DEF Join
<1>5. state \in Readings /\ LineRead(Append(x, c)) = LineTake(state, c)
  BY LineReadFacts
<1> HIDE DEF e, r, chunks, o, state, fresh
<1>6. state.block = LineRead(r).block /\ state.out = chunks
  BY <1>2
<1>7. /\ fresh = [block |-> LineRead(o.rest).block, out |-> o.chunks]
      /\ InMode(crlf, o.rest) /\ (EndsInCR(o.rest) <=> c = CR)
  <2> HIDE DEF y
  <2>1. LineTake([block |-> LineRead(r).block, out |-> <<>>], c)
          = [block |-> LineRead(o.rest).block, out |-> o.chunks]
        /\ InMode(crlf, o.rest) /\ (EndsInCR(o.rest) <=> c = CR)
    BY <1>1, <1>2, <1>3, CharacterRead DEF y, o
  <2> QED BY <1>6, <2>1 DEF fresh
<1>8. LineTake(state, c) = [block |-> fresh.block, out |-> state.out \o fresh.out]
  BY <1>5, TakeAfter DEF fresh
<1>9. fresh.block = LineRead(o.rest).block /\ fresh.out = o.chunks
  BY <1>7
<1>10. EndsInCR(Append(x, c)) <=> c = CR
  BY AppendInMode
<1>11. LineRead(Append(x, c)) = [block |-> LineRead(o.rest).block, out |-> chunks \o o.chunks]
  BY <1>5, <1>6, <1>8, <1>9
<1>12. Extract(Append(x, c)).rest = o.rest /\ Extract(Append(x, c)).chunks = chunks \o o.chunks
  BY <1>4
<1> QED BY <1>7, <1>10, <1>11, <1>12 DEF ByLines

LEMMA ReadByLines ==
    ASSUME NEW crlf \in BOOLEAN, NEW x \in Seq(Chars), InMode(crlf, x)
    PROVE  ByLines(crlf, x)
<1> DEFINE N == Len(x)
           S == {n \in 0 .. N : ByLines(crlf, SubSeq(x, 1, n))}
<1>1. N \in Nat
  BY LenProperties
<1>2. 0 \in S
  <2>1. SubSeq(x, 1, 0) = <<>> /\ 0 \in 0 .. N
    BY <1>1, SubSeqEmpty
  <2>2. Extract(<<>>) = [chunks |-> <<>>, rest |-> <<>>]
    <3>1. /\ <<>> \in Seq(Chars) /\ Len(<<>>) = 0 /\ 1 \in 1 .. Len(<<>>) + 1
          /\ SubSeq(<<>>, 1, Len(<<>>)) = <<>>
      BY SubSeqEmpty
    <3>2. \A b : ~ Delimits(<<>>, b)
      BY <3>1 DEF Delimits
    <3>3. FromOn(<<>>, 1) = {}
      BY <3>1, <3>2, BoundariesAre DEF FromOn
    <3> QED BY <3>1, <3>3, NoneLeft, ExtractDef
  <2>3. LineRead(<<>>) = [block |-> LineRead(<<>>).block, out |-> <<>>]
    BY LineReadFacts DEF Nothing
  <2>4. InMode(crlf, <<>>)
    BY DEF InMode
  <2>5. ByLines(crlf, <<>>)
    BY <2>2, <2>3, <2>4 DEF ByLines
  <2> QED BY <2>1, <2>5
<1>3. ASSUME NEW n \in 0 .. N, n # N, n \in S PROVE n + 1 \in S
  <2> DEFINE p == SubSeq(x, 1, n)
             c == x[n + 1]
  <2>1. /\ n + 1 \in 1 .. N /\ n + 1 \in 0 .. N /\ (n + 1) - 1 = n
        /\ 1 \in 1 .. N /\ 1 <= n + 1
    BY <1>1, <1>3
  <2>2. p \in Seq(Chars) /\ c \in Chars
    BY <2>1, PrefixIs, ElementOfSeq
  <2>3. SubSeq(x, 1, n + 1) = Append(p, c)
    <3>1. SubSeq(x, 1, n + 1) = SubSeq(x, 1, (n + 1) - 1) \o <<x[n + 1]>>
      BY <2>1, SubSeqRecursiveSecond
    <3> QED BY <2>1, <2>2, <3>1, AppendIsConcat
  <2>4. InMode(crlf, SubSeq(x, 1, n + 1))
    BY <2>1, PrefixIsPlain
  <2>5. ByLines(crlf, p)
    BY <1>3
  <2> HIDE DEF p, c
  <2>6. ByLines(crlf, Append(p, c))
    BY <2>2, <2>3, <2>4, <2>5, OneCharacterMore
  <2> QED BY <2>1, <2>3, <2>6
<1>4. N \in S
  <2>1. N \in 0 .. N
    BY <1>1
  <2> HIDE DEF S
  <2> QED BY <1>1, <1>2, <1>3, <2>1, UpTo
<1>5. SubSeq(x, 1, N) = x
  BY SubSeqFull
<1> QED BY <1>4, <1>5

(* Decoding does not change the line ends.                                 *)
LEMMA ByteCases ==
    ASSUME NEW state \in Decodings, NEW byte \in Bytes
    PROVE  LET p == state.out
               next == DecodeByte(state, byte)
           IN  /\ byte = High /\ state.carry = <<>> => next.out = p
               /\ byte = High /\ state.carry # <<>> => next.out = Append(p, Replacement)
               /\ byte = Low /\ state.carry = <<>> => next.out = Append(p, Replacement)
               /\ byte = Low /\ state.carry # <<>> => next.out = Append(p, Char)
               /\ byte # High /\ byte # Low /\ state.carry = <<>> => next.out = Append(p, byte)
               /\ byte # High /\ byte # Low /\ state.carry # <<>> =>
                    next.out = Append(Append(p, Replacement), byte)
               /\ next.carry # <<>> => byte = High
<1> DEFINE p == state.out
           next == DecodeByte(state, byte)
<1>1. p \in Seq(Chars) /\ Replacement \in Chars /\ byte \in Chars
  BY DEF Decodings, Chars
<1> HIDE DEF p
<1>2. /\ p \o <<>> = p
      /\ \A c \in Chars : p \o <<c>> = Append(p, c)
      /\ Append(p, Replacement) \in Seq(Chars)
  BY <1>1, ConcatEmptySeq, AppendIsConcat, AppendProperties
<1>3. \A c \in Chars : Append(p, Replacement) \o <<c>> = Append(Append(p, Replacement), c)
  BY <1>2, AppendIsConcat
<1>4. Append(p, Replacement) \o <<>> = Append(p, Replacement)
  BY <1>2, ConcatEmptySeq
<1>5. next.carry # <<>> => byte = High
  BY DEF DecodeByte
<1>6. CASE byte = Low /\ state.carry # <<>>
  <2>1. next.out = Append(p, Char)
    BY <1>6 DEF DecodeByte, p
  <2> QED BY <1>5, <1>6, <2>1 DEF High, Low, p
<1>7. CASE ~ (byte = Low /\ state.carry # <<>>)
  <2> DEFINE broken == IF state.carry = <<>> THEN <<>> ELSE <<Replacement>>
             added == IF byte = High THEN <<>> ELSE IF byte = Low THEN <<Replacement>> ELSE <<byte>>
  <2>1. next.out = p \o broken \o added
    BY <1>7 DEF DecodeByte, p
  <2>2. p \o broken = IF state.carry = <<>> THEN p ELSE Append(p, Replacement)
    BY <1>1, <1>2
  <2> DEFINE q == p \o broken
  <2>3. q \o <<>> = q /\ \A c \in Chars : q \o <<c>> = Append(q, c)
    BY <1>1, <1>2, <1>3, <1>4, <2>2
  <2> HIDE DEF q, next
  <2>4. next.out = q \o added
    BY <2>1 DEF q
  <2>5. /\ byte = High => next.out = q
        /\ byte = Low => next.out = Append(q, Replacement)
        /\ byte # High /\ byte # Low => next.out = Append(q, byte)
    BY <1>1, <2>3, <2>4 DEF High, Low
  <2>6. q = IF state.carry = <<>> THEN p ELSE Append(p, Replacement)
    BY <2>2 DEF q
  <2>7. /\ byte = High /\ state.carry = <<>> => next.out = p
        /\ byte = High /\ state.carry # <<>> => next.out = Append(p, Replacement)
        /\ byte = Low /\ state.carry = <<>> => next.out = Append(p, Replacement)
        /\ byte # High /\ byte # Low /\ state.carry = <<>> => next.out = Append(p, byte)
        /\ byte # High /\ byte # Low /\ state.carry # <<>> =>
             next.out = Append(Append(p, Replacement), byte)
    BY <2>5, <2>6
  <2> QED BY <1>5, <1>7, <2>7 DEF p, next
<1> QED BY <1>6, <1>7

Tidy(crlf, bytes, n, state) ==
    /\ InMode(crlf, state.out)
    /\ crlf => (EndsInCR(state.out) <=> (n > 0 /\ bytes[n] = CR))
    /\ state.carry # <<>> => n > 0 /\ bytes[n] = High

LEMMA ByteKeepsTidy ==
    ASSUME NEW crlf \in BOOLEAN, NEW bytes \in Seq(Bytes), InMode(crlf, bytes),
           NEW n \in 0 .. Len(bytes), n # Len(bytes),
           NEW state \in Decodings, Tidy(crlf, bytes, n, state)
    PROVE  Tidy(crlf, bytes, n + 1, DecodeByte(state, bytes[n + 1]))
<1> DEFINE p == state.out
           b == bytes[n + 1]
           next == DecodeByte(state, b)
<1>1. /\ n \in Nat /\ n + 1 \in 1 .. Len(bytes) /\ (n + 1) - 1 = n /\ n + 1 > 0 /\ (n + 1 > 1 <=> n > 0)
      /\ b \in Bytes
  BY LenProperties, ElementOfSeq
<1>2. p \in Seq(Chars) /\ b \in Chars /\ Replacement \in Chars /\ Char \in Chars
  BY <1>1 DEF Decodings, Chars
<1>3. /\ LF # CR /\ High # LF /\ High # CR /\ Low # LF /\ Low # CR /\ High # Low
      /\ Replacement # LF /\ Replacement # CR /\ Char # LF /\ Char # CR
  BY DEF LF, CR, High, Low, Replacement, Char
<1>4. IF crlf THEN b = LF <=> EndsInCR(p) ELSE b # CR
  <2>1. IF crlf THEN b = LF <=> (n > 0 /\ bytes[n] = CR) ELSE b # CR
    BY <1>1 DEF InMode
  <2> QED BY <2>1 DEF Tidy
<1>5. state.carry # <<>> /\ crlf => b # LF /\ ~ EndsInCR(p)
  BY <1>3, <1>4 DEF Tidy
<1>6. InMode(crlf, p)
  BY DEF Tidy
<1> HIDE DEF p, b, next
<1>7. ASSUME NEW c \in Chars, c # LF, c # CR, crlf => ~ EndsInCR(p)
      PROVE  InMode(crlf, Append(p, c)) /\ ~ EndsInCR(Append(p, c)) /\ Append(p, c) \in Seq(Chars)
  BY <1>2, <1>6, <1>7, AppendInMode, AppendProperties
<1>8. /\ InMode(crlf, Append(p, b)) /\ (EndsInCR(Append(p, b)) <=> b = CR)
  BY <1>2, <1>4, <1>6, AppendInMode
<1>9. /\ next.carry # <<>> => b = High
      /\ b = High /\ state.carry = <<>> => next.out = p
      /\ b = High /\ state.carry # <<>> => next.out = Append(p, Replacement)
      /\ b = Low /\ state.carry = <<>> => next.out = Append(p, Replacement)
      /\ b = Low /\ state.carry # <<>> => next.out = Append(p, Char)
      /\ b # High /\ b # Low /\ state.carry = <<>> => next.out = Append(p, b)
      /\ b # High /\ b # Low /\ state.carry # <<>> =>
           next.out = Append(Append(p, Replacement), b)
  BY <1>1, ByteCases DEF p, b, next
<1>10. InMode(crlf, next.out) /\ (crlf => (EndsInCR(next.out) <=> b = CR))
  <2>1. CASE b = High /\ state.carry = <<>>
    BY <1>3, <1>4, <1>6, <1>9, <2>1
  <2>2. CASE (b = High /\ state.carry # <<>>) \/ (b = Low /\ state.carry = <<>>)
    <3>1. crlf => ~ EndsInCR(p)
      BY <1>3, <1>4, <2>2
    <3> QED BY <1>2, <1>3, <1>7, <1>9, <2>2, <3>1
  <2>3. CASE b = Low /\ state.carry # <<>>
    <3>1. crlf => ~ EndsInCR(p)
      BY <1>3, <1>4, <2>3
    <3> QED BY <1>2, <1>3, <1>7, <1>9, <2>3, <3>1
  <2>4. CASE b # High /\ b # Low /\ state.carry = <<>>
    BY <1>8, <1>9, <2>4
  <2>5. CASE b # High /\ b # Low /\ state.carry # <<>>
    <3> DEFINE q == Append(p, Replacement)
    <3>1. InMode(crlf, q) /\ ~ EndsInCR(q) /\ q \in Seq(Chars)
      BY <1>2, <1>3, <1>5, <1>7, <2>5
    <3> HIDE DEF q
    <3>2. InMode(crlf, Append(q, b)) /\ (EndsInCR(Append(q, b)) <=> b = CR)
      BY <1>2, <1>4, <1>5, <2>5, <3>1, AppendInMode
    <3> QED BY <1>9, <2>5, <3>2 DEF q
  <2> QED BY <2>1, <2>2, <2>3, <2>4, <2>5
<1> QED BY <1>1, <1>9, <1>10 DEF Tidy, b, next

LEMMA DecodedIsTidy ==
    ASSUME NEW crlf \in BOOLEAN, NEW bytes \in Seq(Bytes), InMode(crlf, bytes)
    PROVE  /\ Tidy(crlf, bytes, Len(bytes), DecodeBytes(<<>>, bytes))
           /\ InMode(crlf, Flushed(DecodeBytes(<<>>, bytes)).out)
           /\ EndsInCR(Flushed(DecodeBytes(<<>>, bytes)).out) => EndsInCR(bytes)
<1> DEFINE N == Len(bytes)
           D == DecodedUpTo(<<>>, bytes)
           S == {n \in 0 .. N : Tidy(crlf, bytes, n, D[n])}
           d == DecodeBytes(<<>>, bytes)
<1>1. N \in Nat /\ <<>> \in Carries
  BY LenProperties DEF Carries
<1>2. /\ D \in [0 .. N -> Decodings] /\ D[0] = [carry |-> <<>>, out |-> <<>>]
      /\ \A n \in 1 .. N : D[n] = DecodeByte(D[n - 1], bytes[n])
  BY <1>1, DecodedFacts
<1> HIDE DEF D
<1>3. 0 \in S
  BY <1>1, <1>2 DEF Tidy, InMode, EndsInCR
<1>4. ASSUME NEW n \in 0 .. N, n # N, n \in S PROVE n + 1 \in S
  <2>1. n + 1 \in 1 .. N /\ n + 1 \in 0 .. N /\ (n + 1) - 1 = n
    BY <1>1, <1>4
  <2>2. D[n] \in Decodings /\ D[n + 1] = DecodeByte(D[n], bytes[n + 1])
    BY <1>2, <2>1
  <2>3. Tidy(crlf, bytes, n + 1, D[n + 1])
    BY <1>4, <2>2, ByteKeepsTidy
  <2> QED BY <2>1, <2>3
<1>5. N \in S
  <2>1. N \in 0 .. N
    BY <1>1
  <2> HIDE DEF S
  <2> QED BY <1>1, <1>3, <1>4, <2>1, UpTo
<1>6. d = D[N] /\ d \in Decodings
  <2>1. d = D[N]
    BY <1>1, DecodeBytesDef DEF D
  <2>2. N \in 0 .. N
    BY <1>1
  <2> QED BY <1>2, <2>1, <2>2
<1>7. Tidy(crlf, bytes, N, d)
  BY <1>5, <1>6
<1> HIDE DEF d, S
<1>8. InMode(crlf, Flushed(d).out) /\ (EndsInCR(Flushed(d).out) => EndsInCR(bytes))
  <2>1. d.out \in Seq(Chars) /\ Replacement \in Chars
    BY <1>6 DEF Decodings, Chars
  <2>2. CASE d.carry = <<>>
    <3>1. Flushed(d).out = d.out
      BY <2>2 DEF Flushed
    <3>2. EndsInCR(d.out) => EndsInCR(bytes)
      <4>1. CASE crlf
        BY <1>1, <1>7, <4>1, EmptySeq DEF Tidy, EndsInCR
      <4>2. CASE ~ crlf
        <5>1. ~ EndsInCR(d.out)
          <6> DEFINE p == d.out
          <6>1. InMode(crlf, p) /\ p \in Seq(Chars)
            BY <1>7, <2>1 DEF Tidy
          <6> HIDE DEF p
          <6>2. p # <<>> => Len(p) \in 1 .. Len(p)
            BY <6>1, LenProperties, EmptySeq
          <6>3. ~ EndsInCR(p)
            BY <4>2, <6>1, <6>2 DEF InMode, EndsInCR
          <6> QED BY <6>3 DEF p
        <5> QED BY <5>1
      <4> QED BY <4>1, <4>2
    <3> QED BY <1>7, <3>1, <3>2 DEF Tidy
  <2>3. CASE d.carry # <<>>
    <3>1. Flushed(d).out = Append(d.out, Replacement)
      BY <2>3 DEF Flushed
    <3>2. crlf => ~ EndsInCR(d.out)
      BY <1>7, <2>3 DEF Tidy, High, CR
    <3>3. Replacement # LF /\ Replacement # CR
      BY DEF Replacement, LF, CR
    <3>4. InMode(crlf, d.out)
      BY <1>7 DEF Tidy
    <3> DEFINE p == d.out
    <3> HIDE DEF p
    <3>5. InMode(crlf, Append(p, Replacement)) /\ ~ EndsInCR(Append(p, Replacement))
      BY <2>1, <3>2, <3>3, <3>4, AppendInMode DEF p
    <3> QED BY <3>1, <3>5 DEF p
  <2> QED BY <2>2, <2>3
<1> QED BY <1>7, <1>8 DEF d, N

(* What the end of the stream cuts off.                                    *)
Blank(block) == block.data = <<>> /\ \A i \in 1 .. Len(block.line) : block.line[i] \in White

LEMMA BlankDispatchesNothing ==
    ASSUME NEW block \in Blocks, Blank(block)
    PROVE  Blank(LineField(block)) /\ LineDispatched(LineField(block)) = <<>>
<1>1. block.line \in Line /\ <<>> \in Line /\ Len(<<>>) = 0
  BY DEF Blocks, Line
<1>2. CASE block.line = <<>>
  BY <1>2 DEF Blank, LineField, LineDispatched
<1>3. CASE block.line # <<>>
  <2>1. Head(block.line) \in White
    <3> DEFINE l == block.line
    <3>1. l \in Seq(Chars) /\ l # <<>>
      BY <1>1, <1>3 DEF Line
    <3> HIDE DEF l
    <3>2. Head(l) = l[1] /\ 1 \in 1 .. Len(l)
      BY <3>1, HeadTailProperties, LenProperties, EmptySeq
    <3> QED BY <3>2 DEF Blank, l
  <2>2. Head(block.line) # Data
    BY <2>1 DEF White, Space, Tab, Data
  <2>3. LineField(block).data = <<>> /\ LineField(block).line = <<>>
    BY <1>3, <2>2 DEF LineField, Blocks, Blank
  <2> QED BY <1>1, <2>3 DEF Blank, LineDispatched
<1> QED BY <1>2, <1>3

LEMMA BlankBlock ==
    ASSUME NEW r \in Seq(Chars), \A i \in DOMAIN r : r[i] \in White \cup {LF, CR}
    PROVE  Blank(LineRead(r).block)
<1> DEFINE N == Len(r)
           S == {n \in 0 .. N : Blank(ReadTo(r, n).block)}
<1>1. N \in Nat /\ DOMAIN r = 1 .. N
  BY LenProperties
<1> HIDE DEF N
<1>2. Blank(LineBlock)
  <2>1. LineBlock.line = <<>> /\ LineBlock.data = <<>> /\ Len(<<>>) = 0
    BY DEF LineBlock
  <2> QED BY <2>1 DEF Blank
<1>3. 0 \in S
  BY <1>1, <1>2, ReadToFacts, NothingToDispatch DEF N
<1>4. ASSUME NEW n \in 0 .. N, n # N, n \in S PROVE n + 1 \in S
  <2> DEFINE p == ReadTo(r, n)
             c == r[n + 1]
  <2>1. n + 1 \in 1 .. N /\ n + 1 \in 0 .. N /\ (n + 1) - 1 = n
    BY <1>1, <1>4
  <2>2. p \in Readings /\ ReadTo(r, n + 1) = LineTake(p, c) /\ c \in White \cup {LF, CR} /\ c \in Chars
    BY <1>1, <2>1, ReadToFacts, ElementOfSeq DEF N
  <2>3. Blank(p.block) /\ p.block \in Blocks
    BY <1>4, <2>2 DEF Readings
  <2> HIDE DEF p, c
  <2>4. CASE c = CR
    BY <2>1, <2>2, <2>3, <2>4, TakeCases
  <2>5. CASE c = LF /\ p.block.line # <<>>
    <3>1. LineTake(p, c) = [block |-> LineField(p.block), out |-> p.out]
      BY <2>2, <2>5, TakeCases
    <3>2. LineTake(p, c).block = LineField(p.block)
      BY <3>1
    <3> QED BY <2>1, <2>2, <2>3, <3>2, BlankDispatchesNothing
  <2>6. CASE c = LF /\ p.block.line = <<>>
    <3>1. LineTake(p, c) = [block |-> LineBlock, out |-> p.out \o LineDispatched(p.block)]
      BY <2>2, <2>6, TakeCases
    <3>2. LineTake(p, c).block = LineBlock
      BY <3>1
    <3> QED BY <1>2, <2>1, <2>2, <3>2
  <2>7. CASE c # CR /\ c # LF
    <3> DEFINE l == p.block.line
               block == [line |-> Append(l, c), event |-> p.block.event, data |-> p.block.data]
    <3>1. LineTake(p, c) = [block |-> block, out |-> p.out]
      BY <2>2, <2>7, TakeCases
    <3>2. l \in Seq(Chars)
      BY <2>3 DEF Blocks, Line
    <3>3. block.line = Append(l, c) /\ block.data = <<>>
      BY <2>3 DEF Blank
    <3>4. \A i \in 1 .. Len(l) : l[i] \in White
      BY <2>3 DEF Blank
    <3> HIDE DEF l, block
    <3>5. /\ Len(l) \in Nat /\ Len(Append(l, c)) = Len(l) + 1 /\ Append(l, c)[Len(l) + 1] = c
          /\ \A i \in 1 .. Len(l) : Append(l, c)[i] = l[i]
      BY <2>2, <3>2, AppendProperties, LenProperties
    <3>6. ASSUME NEW i \in 1 .. Len(l) + 1 PROVE Append(l, c)[i] \in White
      <4>1. i \in 1 .. Len(l) \/ i = Len(l) + 1
        BY <3>5
      <4> QED BY <2>2, <2>7, <3>4, <3>5, <4>1
    <3>7. Blank(block)
      BY <3>3, <3>5, <3>6 DEF Blank
    <3>8. LineTake(p, c).block = block
      BY <3>1
    <3> QED BY <2>1, <2>2, <3>7, <3>8
  <2> QED BY <2>4, <2>5, <2>6, <2>7
<1>5. N \in S
  <2>1. N \in 0 .. N
    BY <1>1
  <2> HIDE DEF S
  <2> QED BY <1>1, <1>3, <1>4, <2>1, UpTo
<1> QED BY <1>5, ReadToFacts DEF N

LEMMA FinalIs ==
    ASSUME NEW crlf \in BOOLEAN, NEW r \in Seq(Chars), InMode(crlf, r), Boundaries(r) = {},
           ~ EndsInCR(r)
    PROVE  Final(r) = LineDispatched(LineField(LineRead(r).block))
<1>1. CASE \A i \in DOMAIN r : r[i] \in White \cup {LF, CR}
  <2>1. LineRead(r).block \in Blocks
    BY LineReadFacts DEF Readings
  <2> QED BY <1>1, <2>1, BlankBlock, BlankDispatchesNothing DEF Final
<1>2. CASE ~ \A i \in DOMAIN r : r[i] \in White \cup {LF, CR}
  <2>1. Final(r) = Parse(r)
    BY <1>2 DEF Final
  <2> QED BY <2>1, ParseCollects
<1> QED BY <1>1, <1>2

LineStandard(string, ended) ==
    LineRead(string).out
      \o (IF ended THEN LineDispatched(LineField(LineRead(string).block)) ELSE <<>>)

LEMMA ExtractIsByLines ==
    ASSUME NEW crlf \in BOOLEAN, NEW x \in Seq(Chars), InMode(crlf, x)
    PROVE  /\ LineStandard(x, FALSE) = Extract(x).chunks
           /\ ~ EndsInCR(x) =>
                LineStandard(x, TRUE) = Extract(x).chunks \o Final(Extract(x).rest)
<1> DEFINE o == Extract(x)
           r == o.rest
           chunks == o.chunks
<1>1. r \in Seq(Chars) /\ chunks \in Seq(Chunks) /\ Boundaries(r) = {}
  BY ExtractType DEF ExtractOutcomes
<1>2. /\ LineRead(x) = [block |-> LineRead(r).block, out |-> chunks]
      /\ InMode(crlf, r) /\ (crlf => (EndsInCR(r) <=> EndsInCR(x)))
  BY ReadByLines DEF ByLines
<1> HIDE DEF o, r, chunks
<1>3. LineRead(x).out = chunks /\ LineRead(x).block = LineRead(r).block
  BY <1>2
<1>4. LineStandard(x, FALSE) = chunks
  <2>1. chunks \o <<>> = chunks
    BY <1>1, ConcatEmptySeq
  <2> QED BY <1>3, <2>1 DEF LineStandard
<1>5. ASSUME ~ EndsInCR(x) PROVE LineStandard(x, TRUE) = chunks \o Final(r)
  <2>1. ~ EndsInCR(r)
    <3>1. CASE crlf
      BY <1>2, <1>5, <3>1
    <3>2. CASE ~ crlf
      <4>1. r # <<>> => Len(r) \in 1 .. Len(r)
        BY <1>1, LenProperties, EmptySeq
      <4> QED BY <1>2, <3>2, <4>1 DEF InMode, EndsInCR
    <3> QED BY <3>1, <3>2
  <2>2. Final(r) = LineDispatched(LineField(LineRead(r).block))
    BY <1>1, <1>2, <2>1, FinalIs
  <2> QED BY <1>3, <2>2 DEF LineStandard
<1> QED BY <1>4, <1>5 DEF chunks, r, o

LEMMA UniformIsOneMode ==
    ASSUME text \in Seq(Bytes), Uniform(text)
    PROVE  \E crlf \in BOOLEAN : InMode(crlf, text) /\ ~ EndsInCR(text)
<1>1. /\ Len(text) \in Nat /\ DOMAIN text = 1 .. Len(text) /\ LF # CR
      /\ text # <<>> => Len(text) \in 1 .. Len(text)
  BY LenProperties, EmptySeq DEF LF, CR
<1>2. CASE \A i \in DOMAIN text : text[i] # CR
  <2>1. InMode(FALSE, text) /\ ~ EndsInCR(text)
    BY <1>1, <1>2 DEF InMode, EndsInCR
  <2> QED BY <2>1
<1>3. CASE \A i \in DOMAIN text : /\ text[i] = LF => i > 1 /\ text[i - 1] = CR
                                  /\ text[i] = CR => i < Len(text) /\ text[i + 1] = LF
  <2>1. ASSUME NEW i \in 1 .. Len(text), i > 1, text[i - 1] = CR PROVE text[i] = LF
    <3>1. i - 1 \in 1 .. Len(text) /\ (i - 1) + 1 = i
      BY <1>1, <2>1
    <3> QED BY <1>1, <1>3, <2>1, <3>1
  <2>2. InMode(TRUE, text)
    BY <1>1, <1>3, <2>1 DEF InMode
  <2>3. ~ EndsInCR(text)
    <3> SUFFICES ASSUME EndsInCR(text) PROVE FALSE
      OBVIOUS
    <3>1. text # <<>> /\ text[Len(text)] = CR
      BY DEF EndsInCR
    <3>2. Len(text) < Len(text)
      BY <1>1, <1>3, <3>1
    <3> QED BY <1>1, <3>2
  <2> QED BY <2>2, <2>3
<1> QED BY <1>2, <1>3 DEF Uniform

(* The reader of the standard.                                             *)
Chunk == [event : Names, data : Seq(Line)]
States == [block : Blocks, out : Seq(Chunk), cr : BOOLEAN]
AtStart == [block |-> NewBlock, out |-> <<>>, cr |-> FALSE]

LEMMA AtStartType == NewBlock \in Blocks /\ AtStart \in States
<1>1. <<>> \in Line /\ <<>> \in Names /\ <<>> \in Seq(Line) /\ <<>> \in Seq(Chunk)
  BY DEF Line, Names
<1> QED BY <1>1 DEF NewBlock, AtStart, Blocks, States

LEMMA FieldValueType ==
    ASSUME NEW line \in Line, line # <<>>
    PROVE  FieldValue(line) \in Line
<1>1. Tail(line) \in Line
  BY TailOfLine
<1>2. Tail(line) # <<>> => Tail(Tail(line)) \in Line
  <2> DEFINE v == Tail(line)
  <2> HIDE DEF v
  <2>1. v \in Line /\ v # <<>> => Tail(v) \in Line
    BY TailOfLine
  <2> QED BY <1>1, <2>1 DEF v
<1> QED BY <1>1, <1>2 DEF FieldValue, WithoutSpace

LEMMA FieldType ==
    ASSUME NEW block \in Blocks PROVE Field(block) \in Blocks
<1>1. block.line \in Line /\ block.event \in Names /\ block.data \in Seq(Line) /\ <<>> \in Line
  BY DEF Blocks, Line
<1> DEFINE value == FieldValue(block.line)
           event == IF IsField(block.line, Event, EventName) THEN value ELSE block.event
           data == IF IsField(block.line, Data, DataName) THEN Append(block.data, value) ELSE block.data
<1>2. block.line # <<>> => value \in Line /\ value \in Names
  <2>1. Line \subseteq Names
    BY DEF Line, Names
  <2> QED BY <1>1, <2>1, FieldValueType
<1>3. \A field, name : IsField(block.line, field, name) => block.line # <<>>
  BY DEF IsField
<1>4. event \in Names /\ data \in Seq(Line)
  <2> HIDE DEF value
  <2> QED BY <1>1, <1>2, <1>3, AppendProperties
<1>5. Field(block) = [line |-> <<>>, event |-> event, data |-> data]
  BY DEF Field
<1> HIDE DEF event, data
<1> QED BY <1>1, <1>4, <1>5 DEF Blocks

LEMMA DispatchedType ==
    ASSUME NEW block \in Blocks PROVE Dispatched(block) \in Seq(Chunk)
<1> DEFINE m == [event |-> IF block.event = <<>> THEN <<"message">> ELSE block.event,
                 data |-> block.data]
<1>1. block.event \in Names /\ block.data \in Seq(Line) /\ <<"message">> \in Names
  BY DEF Blocks, Names
<1>2. m \in Chunk
  BY <1>1 DEF Chunk
<1>3. Dispatched(block) = <<>> \/ Dispatched(block) = <<m>>
  BY DEF Dispatched
<1> HIDE DEF m
<1>4. <<>> \in Seq(Chunk) /\ <<m>> \in Seq(Chunk)
  BY <1>2
<1> QED BY <1>3, <1>4

LEMMA LineEndsType ==
    ASSUME NEW state \in States
    PROVE  /\ LineEnds(state) \in States
           /\ LineEnds(state) =
                IF state.block.line # <<>>
                THEN [block |-> Field(state.block), out |-> state.out, cr |-> FALSE]
                ELSE [block |-> NewBlock, out |-> state.out \o Dispatched(state.block), cr |-> FALSE]
<1>1. state.block \in Blocks /\ state.out \in Seq(Chunk)
  BY DEF States
<1>2. Field(state.block) \in Blocks /\ NewBlock \in Blocks /\ Dispatched(state.block) \in Seq(Chunk)
  BY <1>1, FieldType, AtStartType, DispatchedType
<1>3. state.out \o Dispatched(state.block) \in Seq(Chunk)
  BY <1>1, <1>2, ConcatProperties
<1> QED BY <1>1, <1>2, <1>3 DEF LineEnds, States

LEMMA TakeOf ==
    ASSUME NEW state \in States, NEW c \in Chars
    PROVE  \E known \in States :
              /\ known = IF state.cr /\ c # LF THEN LineEnds(state) ELSE state
              /\ c = LF => Take(state, c) = LineEnds(known)
              /\ c = CR => Take(state, c) = [block |-> known.block, out |-> known.out, cr |-> TRUE]
              /\ c # LF /\ c # CR =>
                   Take(state, c) = [block |-> [line |-> Append(known.block.line, c),
                                                event |-> known.block.event, data |-> known.block.data],
                                     out |-> known.out, cr |-> FALSE]
<1> DEFINE known == IF state.cr /\ c # LF THEN LineEnds(state) ELSE state
           block == [known.block EXCEPT !.line = Append(@, c)]
<1>1. known \in States
  BY LineEndsType
<1>2. Take(state, c) = IF c = LF THEN LineEnds(known)
                       ELSE IF c = CR THEN [block |-> known.block, out |-> known.out, cr |-> TRUE]
                       ELSE [block |-> block, out |-> known.out, cr |-> FALSE]
  BY DEF Take
<1>7. known = IF state.cr /\ c # LF THEN LineEnds(state) ELSE state
  OBVIOUS
<1> HIDE DEF known
<1>3. LF # CR
  BY DEF LF, CR
<1>4. known.block \in Blocks
  BY <1>1 DEF States
<1>5. block = [line |-> Append(known.block.line, c),
               event |-> known.block.event, data |-> known.block.data]
  <2> DEFINE b == known.block
             line == Append(b.line, c)
  <2> HIDE DEF b
  <2>1. b \in Blocks
    BY <1>4 DEF b
  <2> HIDE DEF line
  <2>2. [b EXCEPT !.line = line] = [line |-> line, event |-> b.event, data |-> b.data]
    BY <2>1 DEF Blocks
  <2> QED BY <2>2 DEF b, line
<1> HIDE DEF block
<1> QED BY <1>1, <1>2, <1>3, <1>5, <1>7

LEMMA TakeType ==
    ASSUME NEW state \in States, NEW c \in Chars PROVE Take(state, c) \in States
<1>1. PICK known \in States :
              /\ c = LF => Take(state, c) = LineEnds(known)
              /\ c = CR => Take(state, c) = [block |-> known.block, out |-> known.out, cr |-> TRUE]
              /\ c # LF /\ c # CR =>
                   Take(state, c) = [block |-> [line |-> Append(known.block.line, c),
                                                event |-> known.block.event, data |-> known.block.data],
                                     out |-> known.out, cr |-> FALSE]
  BY TakeOf, Zenon
<1>2. /\ known.block \in Blocks /\ known.out \in Seq(Chunk) /\ known.cr \in BOOLEAN
  BY DEF States
<1>3. CASE c = LF
  BY <1>1, <1>3, LineEndsType
<1>4. CASE c = CR /\ c # LF
  <2>1. [block |-> known.block, out |-> known.out, cr |-> TRUE] \in States
    BY <1>2, Zenon DEF States
  <2> QED BY <1>1, <1>4, <2>1
<1>5. CASE c # LF /\ c # CR
  <2> DEFINE line == Append(known.block.line, c)
  <2>1. known.block.line \in Seq(Chars) /\ known.block.event \in Names /\ known.block.data \in Seq(Line)
    BY <1>2 DEF Blocks, Line
  <2>2. line \in Line
    BY <2>1, AppendProperties DEF Line
  <2> HIDE DEF line
  <2>3. [line |-> line, event |-> known.block.event, data |-> known.block.data] \in Blocks
    BY <2>1, <2>2 DEF Blocks
  <2>4. Take(state, c) = [block |-> [line |-> line, event |-> known.block.event, data |-> known.block.data],
                          out |-> known.out, cr |-> FALSE]
    BY <1>1, <1>5 DEF line
  <2> DEFINE block == [line |-> line, event |-> known.block.event, data |-> known.block.data]
  <2> HIDE DEF block
  <2>5. [block |-> block, out |-> known.out, cr |-> FALSE] \in States
    BY <1>2, <2>3, Zenon DEF States, block
  <2> QED BY <2>4, <2>5 DEF block
<1> QED BY <1>3, <1>4, <1>5

LEMMA ReadingFacts ==
    /\ Reading(<<>>) = AtStart
    /\ \A s \in Seq(Chars) : Reading(s) \in States
    /\ \A s \in Seq(Chars) : \A c \in Chars : Reading(Append(s, c)) = Take(Reading(s), c)
<1> DEFINE A == States
           base == AtStart
           step == [p \in A \X Chars |-> Take(p[1], p[2])]
<1>1. base \in A
  BY AtStartType
<1>2. step \in [A \X Chars -> A]
  BY TakeType
<1>3. \A a \in A : \A c \in Chars : step[<<a, c>>] = Take(a, c)
  OBVIOUS
<1> HIDE DEF A, base, step
<1>4. ASSUME NEW s \in Seq(Chars) PROVE Reading(s) = FoldOf(A, base, step, s)
  <2> DEFINE N == Len(s)
             U == CHOOSE f : f = [n \in 0 .. N |-> IF n = 0 THEN base ELSE Take(f[n - 1], s[n])]
  <2>1. N \in Nat /\ \A n \in 1 .. N : s[n] \in Chars
    BY LenProperties
  <2>2. Reading(s) = U[N]
    BY DEF Reading, Fold, base, AtStart
  <2> HIDE DEF N
  <2>3. PICK f : IsFold(f, A, base, step, s)
    BY <1>1, <1>2, FollowerExists
  <2>4. /\ f \in [0 .. N -> A] /\ f[0] = base
        /\ \A n \in 1 .. N : f[n] = Take(f[n - 1], s[n])
    <3>1. f \in [0 .. N -> A] /\ f[0] = base /\ \A n \in 1 .. N : f[n] = step[<<f[n - 1], s[n]>>]
      BY <2>3 DEF IsFold, N
    <3>2. ASSUME NEW n \in 1 .. N PROVE f[n - 1] \in A
      BY <2>1, <3>1
    <3> QED BY <1>3, <2>1, <3>1, <3>2
  <2>5. f = [n \in 0 .. N |-> IF n = 0 THEN base ELSE Take(f[n - 1], s[n])]
    BY <2>1, <2>4
  <2>6. U = [n \in 0 .. N |-> IF n = 0 THEN base ELSE Take(U[n - 1], s[n])]
    BY <2>5
  <2> HIDE DEF U
  <2>7. U[0] = base /\ \A n \in 1 .. N : U[n] = Take(U[n - 1], s[n])
    BY <2>1, <2>6
  <2>8. GoOnAlike(N, f, U)
    BY <2>4, <2>7 DEF GoOnAlike
  <2>9. f[N] = U[N]
    BY <2>1, <2>8, SameRuns
  <2>10. f[N] = FoldOf(A, base, step, s)
    BY <1>1, <1>2, <2>3, FoldOfIs DEF N
  <2> QED BY <2>2, <2>9, <2>10
<1>5. OneByOne(A, Chars, base, step)
  BY <1>1, <1>2, FoldOfAppend
<1>6. Reading(<<>>) = base
  <2>1. <<>> \in Seq(Chars)
    OBVIOUS
  <2> QED BY <1>4, <1>5, <2>1 DEF OneByOne
<1>7. ASSUME NEW s \in Seq(Chars) PROVE Reading(s) \in A
  BY <1>4, <1>5 DEF OneByOne
<1>8. ASSUME NEW s \in Seq(Chars), NEW c \in Chars
      PROVE  Reading(Append(s, c)) = Take(Reading(s), c)
  <2>1. Append(s, c) \in Seq(Chars)
    BY AppendProperties
  <2>2. Reading(Append(s, c)) = step[<<Reading(s), c>>]
    BY <1>4, <1>5, <2>1 DEF OneByOne
  <2> QED BY <1>3, <1>7, <2>2
<1> QED BY <1>6, <1>7, <1>8 DEF A, base

(* The values of a conventional line: to take off one space is to take off   *)
(* all white space.                                                        *)
LEMMA OnlyOneSpace ==
    ASSUME NEW v \in Line, WithoutSpace(v) # <<>> => Head(WithoutSpace(v)) \notin White
    PROVE  TrimStart(v) = WithoutSpace(v) /\ WithoutSpace(v) \in Line
<1>1. v \in Seq(Chars) /\ Len(v) \in Nat /\ (v = <<>> <=> Len(v) = 0)
  BY LenProperties, EmptySeq DEF Line
<1>2. CASE v = <<>>
  <2>1. WithoutSpace(v) = v
    BY <1>2 DEF WithoutSpace
  <2>2. TrimStart(v) = <<>>
    BY <1>1, <1>2, TrimStartOfBlank
  <2> QED BY <1>2, <2>1, <2>2
<1>3. CASE v # <<>> /\ Head(v) = Space
  <2>1. WithoutSpace(v) = Tail(v)
    BY <1>3 DEF WithoutSpace
  <2>2. /\ Tail(v) \in Seq(Chars) /\ Len(Tail(v)) = Len(v) - 1 /\ v[1] = Space
        /\ \A i \in 1 .. Len(v) - 1 : Tail(v)[i] = v[i + 1]
    BY <1>1, <1>3, HeadTailProperties
  <2>3. Space \in White
    BY DEF White
  <2>4. CASE Tail(v) = <<>>
    <3>1. Len(v) - 1 = 0
      BY <2>2, <2>4, EmptySeq
    <3>2. \A i \in 1 .. Len(v) : v[i] \in White
      <4>1. \A i \in 1 .. Len(v) : i = 1
        <5> DEFINE n == Len(v)
        <5>1. n \in Nat /\ n - 1 = 0
          BY <1>1, <3>1
        <5> HIDE DEF n
        <5>2. \A i \in 1 .. n : i = 1
          BY <5>1
        <5> QED BY <5>2 DEF n
      <4> QED BY <2>2, <2>3, <4>1
    <3> QED BY <2>1, <2>2, <2>4, <3>2, TrimStartOfBlank DEF Line
  <2>5. CASE Tail(v) # <<>>
    <3>1. Len(v) - 1 # 0
      BY <2>2, <2>5, EmptySeq
    <3>2. 2 \in 1 .. Len(v) /\ 1 \in 1 .. Len(v) - 1 /\ 1 + 1 = 2 /\ \A i \in 1 .. 2 - 1 : i = 1
      <4> DEFINE n == Len(v)
      <4>1. n \in Nat /\ n - 1 # 0 /\ n # 0
        BY <1>1, <1>3, <3>1
      <4> HIDE DEF n
      <4>2. 2 \in 1 .. n /\ 1 \in 1 .. n - 1
        BY <4>1
      <4>3. 1 + 1 = 2 /\ \A i \in 1 .. 2 - 1 : i = 1
        OBVIOUS
      <4> QED BY <4>2, <4>3 DEF n
    <3> DEFINE w == Tail(v)
    <3> HIDE DEF w
    <3>3. Head(w) = w[1]
      BY <2>2, <2>5, HeadTailProperties DEF w
    <3>4. v[2] \notin White
      BY <2>1, <2>2, <2>5, <3>2, <3>3 DEF w
    <3>5. TrimStart(v) = SubSeq(v, 2, Len(v))
      BY <2>2, <2>3, <3>2, <3>4, TrimStartIs
    <3>6. SubSeq(v, 2, Len(v)) = w
      <4> DEFINE u == SubSeq(v, 2, Len(v))
      <4>1. 2 \in 1 .. Len(v) + 1 /\ Len(v) \in 0 .. Len(v) /\ 2 <= Len(v) /\ (Len(v) - 2) + 1 = Len(v) - 1
            /\ \A i \in 1 .. Len(v) - 1 : (2 + i) - 1 = i + 1
        BY <1>1, <3>2
      <4>2. u \in Seq(Chars) /\ Len(u) = Len(v) - 1 /\ \A i \in 1 .. Len(v) - 1 : u[i] = v[i + 1]
        BY <1>1, <4>1, PieceType
      <4> HIDE DEF u
      <4> QED BY <1>1, <2>2, <4>2, SeqEqual DEF u, w
    <3> QED BY <2>1, <2>2, <3>5, <3>6 DEF w, Line
  <2> QED BY <2>4, <2>5
<1>4. CASE v # <<>> /\ Head(v) # Space
  <2>1. WithoutSpace(v) = v
    BY <1>4 DEF WithoutSpace
  <2>2. 1 \in 1 .. Len(v) /\ Head(v) = v[1] /\ \A i \in 1 .. 1 - 1 : FALSE
    <3>1. Len(v) # 0
      BY <1>1, <1>4
    <3> QED BY <1>1, <1>4, <3>1, HeadTailProperties
  <2>3. v[1] \notin White
    BY <1>4, <2>1, <2>2
  <2>4. TrimStart(v) = SubSeq(v, 1, Len(v))
    BY <2>2, <2>3, TrimStartIs
  <2> QED BY <1>1, <2>1, <2>4, SubSeqFull
<1> QED BY <1>2, <1>3, <1>4

LEMMA BlackAtTheEnd ==
    ASSUME NEW w \in Line, w # <<>>, Last(w) \notin White
    PROVE  TrimEnd(w) = w
<1>1. w \in Seq(Chars) /\ Len(w) \in Nat /\ Len(w) # 0
  BY LenProperties, EmptySeq DEF Line
<1>2. Len(w) \in 1 .. Len(w) /\ \A i \in Len(w) + 1 .. Len(w) : FALSE
  BY <1>1
<1>3. w[Len(w)] \notin White
  BY DEF Last
<1>4. TrimEnd(w) = SubSeq(w, 1, Len(w))
  BY <1>2, <1>3, TrimEndIs
<1> QED BY <1>1, <1>4, SubSeqFull

LEMMA ConventionalValues ==
    ASSUME NEW line \in Line, line # <<>>, Conventional(line)
    PROVE  /\ line # <<EventName>> /\ line # <<DataName>>
           /\ Head(line) = Data => Trimmed(Data, Tail(line)) = FieldValue(line)
           /\ Head(line) = Event => /\ Trimmed(Event, Tail(line)) = FieldValue(line)
                                    /\ FieldValue(line) # <<>>
<1> DEFINE v == Tail(line)
           w == WithoutSpace(v)
<1>1. v \in Line /\ FieldValue(line) = w
  BY TailOfLine DEF FieldValue
<1>2. /\ line # <<EventName>> /\ line # <<DataName>>
      /\ Head(line) = Data /\ w # <<>> => Head(w) \notin White
      /\ Head(line) = Event => w # <<>> /\ Head(w) \notin White /\ Last(w) \notin White
  BY DEF Conventional, FieldValue
<1> HIDE DEF v
<1>3. ASSUME Head(line) = Data PROVE Trimmed(Data, v) = w
  <2>1. TrimStart(v) = w
    BY <1>1, <1>2, <1>3, OnlyOneSpace
  <2> QED BY <2>1 DEF Trimmed, Data, Event
<1>4. ASSUME Head(line) = Event PROVE Trimmed(Event, v) = w /\ w # <<>>
  <2>1. TrimStart(v) = w /\ w \in Line
    BY <1>1, <1>2, <1>4, OnlyOneSpace
  <2> HIDE DEF w
  <2>2. TrimEnd(w) = w
    BY <1>2, <1>4, <2>1, BlackAtTheEnd
  <2> QED BY <1>2, <1>4, <2>1, <2>2 DEF Trimmed
<1> QED BY <1>1, <1>2, <1>3, <1>4 DEF v

(* The two readers' blocks agree, but for the name of an event that has none. *)
SameBlock(b, l) ==
    /\ b.line = l.line
    /\ b.data = l.data
    /\ l.event = IF b.event = <<>> THEN <<"message">> ELSE b.event

LEMMA DispatchAgrees ==
    ASSUME NEW b, NEW l, SameBlock(b, l) PROVE Dispatched(b) = LineDispatched(l)
BY DEF SameBlock, Dispatched, LineDispatched

LEMMA FieldAgrees ==
    ASSUME NEW b \in Blocks, NEW l \in Blocks, SameBlock(b, l), Conventional(b.line)
    PROVE  SameBlock(Field(b), LineField(l))
<1> DEFINE line == b.line
<1>1. line \in Line /\ l.line = line /\ b.data = l.data
  BY DEF Blocks, SameBlock
<1>2. CASE line = <<>>
  <2>1. ~ IsField(line, Event, EventName) /\ ~ IsField(line, Data, DataName)
    BY <1>2 DEF IsField
  <2>2. Field(b).line = <<>> /\ Field(b).event = b.event /\ Field(b).data = b.data
    BY <2>1 DEF Field
  <2>3. LineField(l) = l
    BY <1>1, <1>2 DEF LineField
  <2> QED BY <1>1, <1>2, <2>2, <2>3 DEF SameBlock
<1>3. CASE line # <<>>
  <2> DEFINE w == FieldValue(line)
  <2>1. /\ IsField(line, Event, EventName) <=> Head(line) = Event
        /\ IsField(line, Data, DataName) <=> Head(line) = Data
    BY <1>1, <1>3, ConventionalValues DEF IsField
  <2>2. /\ Head(line) = Data => Trimmed(Data, Tail(line)) = w
        /\ Head(line) = Event => Trimmed(Event, Tail(line)) = w /\ w # <<>>
    BY <1>1, <1>3, ConventionalValues
  <2>3. /\ Field(b).line = <<>>
        /\ Field(b).event = IF Head(line) = Event THEN w ELSE b.event
        /\ Field(b).data = IF Head(line) = Data THEN Append(b.data, w) ELSE b.data
    BY <2>1 DEF Field
  <2>4. /\ LineField(l).line = <<>>
        /\ LineField(l).event = IF Head(line) = Event THEN Trimmed(Event, Tail(line)) ELSE l.event
        /\ LineField(l).data = IF Head(line) = Data THEN Append(l.data, Trimmed(Data, Tail(line))) ELSE l.data
    BY <1>1, <1>3 DEF LineField, Blocks
  <2> HIDE DEF w, line
  <2> QED BY <1>1, <2>2, <2>3, <2>4 DEF SameBlock
<1> QED BY <1>2, <1>3

Agree(b, l) == b.out = l.out /\ SameBlock(b.block, l.block)

LEMMA LineEndsAgrees ==
    ASSUME NEW b \in States, NEW l \in Readings, Agree(b, l), Conventional(b.block.line)
    PROVE  Agree(LineEnds(b), LineTake(l, LF)) /\ LineEnds(b).cr = FALSE
<1>1. LF \in Chars
  BY DEF Chars, Bytes
<1>2. b.block \in Blocks /\ l.block \in Blocks /\ b.block.line = l.block.line /\ b.out = l.out
      /\ SameBlock(b.block, l.block)
  BY DEF States, Readings, Agree, SameBlock
<1>3. CASE b.block.line # <<>>
  <2>1. LineEnds(b) = [block |-> Field(b.block), out |-> b.out, cr |-> FALSE]
    BY <1>3, LineEndsType
  <2>2. LineTake(l, LF) = [block |-> LineField(l.block), out |-> l.out]
    BY <1>1, <1>2, <1>3, TakeCases
  <2>3. SameBlock(Field(b.block), LineField(l.block))
    BY <1>2, FieldAgrees
  <2> QED BY <1>2, <2>1, <2>2, <2>3 DEF Agree
<1>4. CASE b.block.line = <<>>
  <2> DEFINE more == b.out \o Dispatched(b.block)
             end == LineEnds(b)
             next == LineTake(l, LF)
  <2>1. end = [block |-> NewBlock, out |-> more, cr |-> FALSE]
    BY <1>4, LineEndsType
  <2>2. next = [block |-> LineBlock, out |-> l.out \o LineDispatched(l.block)]
    BY <1>1, <1>2, <1>4, TakeCases
  <2>3. SameBlock(NewBlock, LineBlock)
    BY DEF SameBlock, NewBlock, LineBlock
  <2>4. l.out \o LineDispatched(l.block) = more
    BY <1>2, DispatchAgrees
  <2> HIDE DEF more, end, next
  <2>5. next = [block |-> LineBlock, out |-> more]
    BY <2>2, <2>4
  <2>6. end.block = NewBlock /\ end.out = more /\ end.cr = FALSE
    BY <2>1
  <2>7. next.block = LineBlock /\ next.out = more
    BY <2>5
  <2>8. Agree(end, next) /\ end.cr = FALSE
    BY <2>3, <2>6, <2>7, Zenon DEF Agree
  <2> QED BY <2>8 DEF end, next
<1> QED BY <1>3, <1>4

(* The state of the standard's reader, after n characters.                  *)
StateAt(x, n) == Reading(SubSeq(x, 1, n))

LEMMA StateAtFacts ==
    ASSUME NEW x \in Seq(Chars)
    PROVE  /\ \A n \in 0 .. Len(x) : StateAt(x, n) \in States
           /\ StateAt(x, 0) = AtStart
           /\ StateAt(x, Len(x)) = Reading(x)
           /\ \A n \in 1 .. Len(x) : StateAt(x, n) = Take(StateAt(x, n - 1), x[n])
<1>1. Len(x) \in Nat
  BY LenProperties
<1>2. ASSUME NEW n \in 0 .. Len(x) PROVE SubSeq(x, 1, n) \in Seq(Chars)
  BY PrefixIs
<1>3. ASSUME NEW n \in 1 .. Len(x) PROVE StateAt(x, n) = Take(StateAt(x, n - 1), x[n])
  <2>1. 1 \in 1 .. Len(x) /\ n - 1 \in 0 .. Len(x) /\ 1 <= n
    BY <1>1
  <2>2. SubSeq(x, 1, n) = SubSeq(x, 1, n - 1) \o <<x[n]>>
    BY <2>1, SubSeqRecursiveSecond
  <2> DEFINE p == SubSeq(x, 1, n - 1)
  <2>3. p \in Seq(Chars) /\ x[n] \in Chars
    BY <1>2, <2>1, ElementOfSeq
  <2>4. SubSeq(x, 1, n) = Append(p, x[n])
    BY <2>2, <2>3, AppendIsConcat
  <2> QED BY <2>3, <2>4, ReadingFacts DEF StateAt
<1>4. StateAt(x, 0) = AtStart
  <2>1. SubSeq(x, 1, 0) = <<>>
    BY SubSeqEmpty
  <2> QED BY <2>1, ReadingFacts DEF StateAt
<1>5. StateAt(x, Len(x)) = Reading(x)
  BY SubSeqFull DEF StateAt
<1> QED BY <1>2, <1>3, <1>4, <1>5, ReadingFacts DEF StateAt

AllConventional(x, ended) == \A line \in LinesRead(x, ended) : Conventional(line)

LEMMA ConventionalLines ==
    ASSUME NEW x \in Seq(Chars), NEW ended \in BOOLEAN, AllConventional(x, ended)
    PROVE  /\ \A n \in 1 .. Len(x) : x[n] = LF => Conventional(StateAt(x, n - 1).block.line)
           /\ ended => Conventional(Reading(x).block.line)
<1> DEFINE ends == {i \in DOMAIN x : x[i] \in {LF, CR}} \cup (IF ended THEN {Len(x) + 1} ELSE {})
<1>1. LinesRead(x, ended) = {StateAt(x, n - 1).block.line : n \in ends}
  BY DEF LinesRead, StateAt
<1>2. DOMAIN x = 1 .. Len(x) /\ Len(x) \in Nat
  BY LenProperties
<1>3. \A n \in ends : Conventional(StateAt(x, n - 1).block.line)
  <2> HIDE DEF ends
  <2> QED BY <1>1 DEF AllConventional
<1>4. \A n \in 1 .. Len(x) : x[n] = LF => n \in ends
  BY <1>2
<1>5. ended => Len(x) + 1 \in ends
  OBVIOUS
<1> HIDE DEF ends
<1>6. ended => Conventional(StateAt(x, Len(x)).block.line)
  <2>1. (Len(x) + 1) - 1 = Len(x)
    BY <1>2
  <2> QED BY <1>3, <1>5, <2>1
<1> QED BY <1>3, <1>4, <1>6, StateAtFacts

LEMMA CharacterAgrees ==
    ASSUME NEW b \in States, NEW l \in Readings, Agree(b, l), NEW c \in Chars,
           b.cr => c = LF, c = LF => Conventional(b.block.line)
    PROVE  /\ Agree(Take(b, c), LineTake(l, c))
           /\ Take(b, c).cr <=> c = CR
<1>1. PICK known \in States :
              /\ known = IF b.cr /\ c # LF THEN LineEnds(b) ELSE b
              /\ c = LF => Take(b, c) = LineEnds(known)
              /\ c = CR => Take(b, c) = [block |-> known.block, out |-> known.out, cr |-> TRUE]
              /\ c # LF /\ c # CR =>
                   Take(b, c) = [block |-> [line |-> Append(known.block.line, c),
                                            event |-> known.block.event, data |-> known.block.data],
                                 out |-> known.out, cr |-> FALSE]
  BY TakeOf, Zenon
<1>2. known = b
  BY <1>1, Zenon
<1>3. LF # CR
  BY DEF LF, CR
<1>4. b.out = l.out /\ SameBlock(b.block, l.block)
  BY DEF Agree
<1>5. CASE c = LF
  <2>1. Take(b, c) = LineEnds(b)
    BY <1>1, <1>2, <1>5
  <2>2. Agree(LineEnds(b), LineTake(l, LF)) /\ LineEnds(b).cr = FALSE
    BY <1>5, LineEndsAgrees
  <2> QED BY <1>3, <1>5, <2>1, <2>2
<1>6. CASE c = CR
  <2> DEFINE next == Take(b, c)
             block == b.block
             out == b.out
  <2>1. next = [block |-> block, out |-> out, cr |-> TRUE] /\ LineTake(l, c) = l
    BY <1>1, <1>2, <1>6, TakeCases
  <2> HIDE DEF next, block, out
  <2>2. next.block = block /\ next.out = out /\ next.cr = TRUE
    BY <2>1
  <2> QED BY <1>4, <1>6, <2>1, <2>2, Zenon DEF Agree, next, block, out
<1>7. CASE c # LF /\ c # CR
  <2> DEFINE next == Take(b, c)
             then == LineTake(l, c)
             line == Append(b.block.line, c)
             event == b.block.event
             name == l.block.event
             data == b.block.data
             out == b.out
  <2>1. next = [block |-> [line |-> line, event |-> event, data |-> data], out |-> out, cr |-> FALSE]
    BY <1>1, <1>2, <1>7
  <2>2. b.block.line = l.block.line /\ b.block.data = l.block.data
        /\ name = IF event = <<>> THEN <<"message">> ELSE event
    BY <1>4 DEF SameBlock
  <2>3. then = [block |-> [line |-> Append(l.block.line, c), event |-> name, data |-> l.block.data],
                out |-> l.out]
    BY <1>7, TakeCases
  <2>4. then = [block |-> [line |-> line, event |-> name, data |-> data], out |-> out]
    BY <1>4, <2>2, <2>3
  <2> HIDE DEF next, then, line, event, name, data, out
  <2>5. /\ next.block = [line |-> line, event |-> event, data |-> data]
        /\ next.out = out /\ next.cr = FALSE
    BY <2>1
  <2>6. then.block = [line |-> line, event |-> name, data |-> data] /\ then.out = out
    BY <2>4
  <2>7. /\ next.block.line = line /\ next.block.event = event /\ next.block.data = data
        /\ then.block.line = line /\ then.block.event = name /\ then.block.data = data
    BY <2>5, <2>6
  <2>8. SameBlock(next.block, then.block)
    BY <2>2, <2>7 DEF SameBlock
  <2>9. Agree(next, then) /\ next.cr = FALSE
    BY <2>5, <2>6, <2>8, Zenon DEF Agree
  <2> QED BY <1>7, <2>9 DEF next, then
<1> QED BY <1>5, <1>6, <1>7

AgreeAt(x, n) ==
    /\ Agree(StateAt(x, n), ReadTo(x, n))
    /\ StateAt(x, n).cr <=> n > 0 /\ x[n] = CR

LEMMA ReadersAgree ==
    ASSUME NEW crlf \in BOOLEAN, NEW x \in Seq(Chars), InMode(crlf, x),
           NEW ended \in BOOLEAN, AllConventional(x, ended)
    PROVE  \A n \in 0 .. Len(x) : AgreeAt(x, n)
<1> DEFINE N == Len(x)
           S == {n \in 0 .. N : AgreeAt(x, n)}
<1>1. N \in Nat /\ \A n \in 1 .. N : x[n] \in Chars
  BY LenProperties
<1>2. 0 \in S
  <2>1. StateAt(x, 0) = AtStart /\ ReadTo(x, 0) = Nothing
    BY StateAtFacts, ReadToFacts
  <2>2. AtStart.out = Nothing.out /\ SameBlock(AtStart.block, Nothing.block) /\ AtStart.cr = FALSE
    BY DEF AtStart, Nothing, SameBlock, NewBlock, LineBlock
  <2>3. ~ (0 > 0) /\ 0 \in 0 .. N
    BY <1>1
  <2> HIDE DEF N
  <2>4. AgreeAt(x, 0)
    BY <2>1, <2>2, <2>3, Zenon DEF AgreeAt, Agree
  <2> QED BY <2>3, <2>4
<1>3. ASSUME NEW n \in 0 .. N, n # N, n \in S PROVE n + 1 \in S
  <2> DEFINE m == n + 1
             c == x[m]
             b == StateAt(x, n)
             l == ReadTo(x, n)
  <2>1. /\ m \in 1 .. N /\ m \in 0 .. N /\ m - 1 = n /\ m > 0
        /\ (n > 0 => m > 1 /\ n \in 1 .. N)
    BY <1>1, <1>3
  <2>2. b \in States /\ l \in Readings /\ c \in Chars
    BY <1>1, <2>1, StateAtFacts, ReadToFacts
  <2>3. StateAt(x, m) = Take(b, c) /\ ReadTo(x, m) = LineTake(l, c)
    BY <2>1, StateAtFacts, ReadToFacts
  <2>4. Agree(b, l) /\ (b.cr <=> n > 0 /\ x[n] = CR)
    BY <1>3 DEF AgreeAt
  <2>5. n > 0 /\ x[n] = CR => c = LF
    <3> SUFFICES ASSUME n > 0, x[n] = CR PROVE c = LF
      OBVIOUS
    <3>1. n \in 1 .. N /\ m > 1
      BY <2>1
    <3>2. crlf
      BY <3>1 DEF InMode
    <3> QED BY <2>1, <3>1, <3>2 DEF InMode
  <2>6. c = LF => Conventional(b.block.line)
    <3>1. x[m] = LF => Conventional(StateAt(x, m - 1).block.line)
      BY <2>1, ConventionalLines
    <3> QED BY <2>1, <3>1
  <2> HIDE DEF c, b, l, m
  <2>7. b.cr => c = LF
    BY <2>4, <2>5, Zenon
  <2>8. Agree(Take(b, c), LineTake(l, c)) /\ (Take(b, c).cr <=> c = CR)
    BY <2>2, <2>4, <2>6, <2>7, CharacterAgrees
  <2>9. AgreeAt(x, m)
    BY <2>1, <2>3, <2>8, Zenon DEF AgreeAt, c
  <2> QED BY <2>1, <2>9 DEF m
<1> HIDE DEF S
<1>4. \A n \in 0 .. N : n \in S
  BY <1>1, <1>2, <1>3, UpTo
<1> QED BY <1>4 DEF S, N

(* Conventional lines, all ended in one way: line by line is as the standard  *)
(* says.                                                                   *)
LEMMA LineByLineIsStandard ==
    ASSUME NEW crlf \in BOOLEAN, NEW x \in Seq(Chars), InMode(crlf, x),
           NEW ended \in BOOLEAN, ended => ~ EndsInCR(x), AllConventional(x, ended)
    PROVE  LineStandard(x, ended) = Standard(x, ended)
<1> DEFINE b == Reading(x)
           l == LineRead(x)
<1>1. Len(x) \in 0 .. Len(x) /\ (Len(x) > 0 => x # <<>>)
  BY LenProperties, EmptySeq
<1>2. b \in States /\ l \in Readings
  BY ReadingFacts, LineReadFacts
<1>3. Agree(b, l) /\ (b.cr <=> Len(x) > 0 /\ x[Len(x)] = CR)
  <2>1. AgreeAt(x, Len(x))
    BY <1>1, ReadersAgree
  <2>2. StateAt(x, Len(x)) = b /\ ReadTo(x, Len(x)) = l
    BY StateAtFacts, ReadToFacts
  <2> QED BY <2>1, <2>2, Zenon DEF AgreeAt
<1>4. b.out = l.out /\ SameBlock(b.block, l.block) /\ b.block \in Blocks /\ l.block \in Blocks
      /\ l.out \in Seq(Chunk)
  BY <1>2, <1>3 DEF Agree, States, Readings, Chunk
<1>5. ended => ~ b.cr
  BY <1>1, <1>3, Zenon DEF EndsInCR
<1>6. ended => Conventional(b.block.line)
  BY ConventionalLines
<1>7. CASE ended
  <2>1. Standard(x, ended) = b.out \o Dispatched(Field(b.block))
    BY <1>5, <1>7, Zenon DEF Standard
  <2>2. SameBlock(Field(b.block), LineField(l.block))
    BY <1>4, <1>6, <1>7, FieldAgrees
  <2>3. Dispatched(Field(b.block)) = LineDispatched(LineField(l.block))
    BY <2>2, DispatchAgrees
  <2>4. LineStandard(x, ended) = l.out \o LineDispatched(LineField(l.block))
    BY <1>7 DEF LineStandard
  <2> HIDE DEF b, l
  <2> QED BY <1>4, <2>1, <2>3, <2>4
<1>8. CASE ~ ended
  <2>1. Standard(x, ended) = b.out
    BY <1>8, Zenon DEF Standard
  <2>2. LineStandard(x, ended) = l.out \o <<>>
    BY <1>8 DEF LineStandard
  <2> HIDE DEF b, l
  <2>3. l.out \o <<>> = l.out
    BY <1>4, ConcatEmptySeq
  <2> QED BY <1>4, <2>1, <2>2, <2>3
<1> QED BY <1>7, <1>8

(* What has been delivered is what a reader that goes line by line makes of  *)
(* the bytes, in both modes of the line ends and wherever the chunks end.   *)
DeliversLines(s) ==
    LET ended == phase[s] = "done"
        read == Decode(<<>>, SubSeq(text, 1, count[s]), ~ ended).out
    IN  /\ delivered[s] = LineStandard(read, ended)
        /\ \E crlf \in BOOLEAN : InMode(crlf, read)
        /\ read \in Seq(Chars)
        /\ ended => ~ EndsInCR(read)

LEMMA ReadsLineByLine ==
    ASSUME StreamInv, Uniform(text), NEW s \in Streams PROVE DeliversLines(s)
<1> DEFINE bytes == SubSeq(text, 1, count[s])
           d == DecodeBytes(<<>>, bytes)
<1>1. /\ text \in Seq(Bytes) /\ text \in Seq(Chars) /\ count[s] \in 0 .. Len(text)
      /\ bytes \in Seq(Bytes) /\ SoFar(s) = d /\ d \in Decodings
  BY SoFarType DEF StreamInv, StreamType, SoFar, Chars
<1>2. PICK crlf \in BOOLEAN : InMode(crlf, text) /\ ~ EndsInCR(text)
  BY <1>1, UniformIsOneMode
<1>3. InMode(crlf, bytes)
  BY <1>1, <1>2, PrefixIsPlain
<1>4. count[s] = Len(text) => bytes = text
  <2>1. SubSeq(text, 1, Len(text)) = text
    BY <1>1, SubSeqFull
  <2> QED BY <2>1
<1> HIDE DEF bytes
<1>5. /\ InMode(crlf, d.out) /\ InMode(crlf, Flushed(d).out)
      /\ EndsInCR(Flushed(d).out) => EndsInCR(bytes)
  BY <1>1, <1>3, DecodedIsTidy DEF Tidy
<1> HIDE DEF d
<1>6. d.out \in Seq(Chars) /\ Flushed(d).out \in Seq(Chars)
  BY <1>1, FlushedFacts DEF Decodings
<1>7. CASE phase[s] = "done"
  <2> DEFINE x == Flushed(d).out
  <2>1. count[s] = Len(text) /\ delivered[s] = Extract(x).chunks \o Final(Extract(x).rest)
    BY <1>1, <1>7 DEF StreamInv, AtTheEnd
  <2>2. Decode(<<>>, bytes, FALSE).out = x
    BY DEF Decode, d
  <2> HIDE DEF x
  <2>3. x \in Seq(Chars) /\ InMode(crlf, x) /\ ~ EndsInCR(x)
    BY <1>2, <1>4, <1>5, <1>6, <2>1 DEF x
  <2>4. delivered[s] = LineStandard(x, TRUE)
    <3>1. LineStandard(x, TRUE) = Extract(x).chunks \o Final(Extract(x).rest)
      BY <2>3, ExtractIsByLines
    <3>2. delivered[s] = Extract(x).chunks \o Final(Extract(x).rest)
      BY <2>1 DEF x
    <3> QED BY <3>1, <3>2
  <2>5. Decode(<<>>, bytes, ~ (phase[s] = "done")).out = x
    BY <1>7, <2>2
  <2> QED BY <1>7, <2>3, <2>4, <2>5 DEF bytes, DeliversLines
<1>8. CASE phase[s] # "done"
  <2> DEFINE x == d.out
  <2>1. Extract(x) = [chunks |-> delivered[s], rest |-> pending[s]]
    BY <1>1, <1>8 DEF StreamInv, InTheMiddle
  <2>2. Decode(<<>>, bytes, TRUE).out = x
    BY DEF Decode, d
  <2> HIDE DEF x
  <2>3. x \in Seq(Chars) /\ InMode(crlf, x)
    BY <1>5, <1>6 DEF x
  <2>4. delivered[s] = LineStandard(x, FALSE)
    <3>1. LineStandard(x, FALSE) = Extract(x).chunks
      BY <2>3, ExtractIsByLines
    <3>2. Extract(x).chunks = delivered[s]
      BY <2>1
    <3> QED BY <3>1, <3>2
  <2>5. Decode(<<>>, bytes, ~ (phase[s] = "done")).out = x
    BY <1>8, <2>2
  <2> QED BY <1>8, <2>3, <2>4, <2>5 DEF bytes, DeliversLines
<1> QED BY <1>7, <1>8

(* In a text that is uniform and conventional, every event is delivered as   *)
(* the standard of event streams says, as soon as its blank line is read    *)
(* (sse.ts, and the loop of streamGatewaySse).                              *)
THEOREM ConventionalTextIsRead == StreamSpec => []ReadsConventionalText
<1>1. StreamInv => ReadsConventionalText
  <2> SUFFICES ASSUME StreamInv, Uniform(text), NEW s \in Streams
               PROVE  LET ended == phase[s] = "done"
                          read == Decode(<<>>, SubSeq(text, 1, count[s]), ~ ended).out
                      IN  AllConventional(read, ended) => delivered[s] = Standard(read, ended)
    BY Zenon DEF ReadsConventionalText, AllConventional
  <2> DEFINE ended == phase[s] = "done"
             read == Decode(<<>>, SubSeq(text, 1, count[s]), ~ ended).out
  <2>1. /\ delivered[s] = LineStandard(read, ended) /\ read \in Seq(Chars)
        /\ \E crlf \in BOOLEAN : InMode(crlf, read)
        /\ ended => ~ EndsInCR(read)
    BY ReadsLineByLine, Zenon DEF DeliversLines
  <2>2. ended \in BOOLEAN
    OBVIOUS
  <2> HIDE DEF ended, read
  <2>3. AllConventional(read, ended) => LineStandard(read, ended) = Standard(read, ended)
    BY <2>1, <2>2, LineByLineIsStandard
  <2>4. AllConventional(read, ended) => delivered[s] = Standard(read, ended)
    BY <2>1, <2>3
  <2> QED BY <2>4 DEF ended, read
<1> QED BY <1>1, StreamInvariant, PTL

-------------------------------------------------------------------------------
(* The demo: plain characters, and four frames of nine.                     *)
LEMMA PlainDecode ==
    ASSUME NEW b \in Seq(Bytes), \A i \in 1 .. Len(b) : b[i] # High /\ b[i] # Low
    PROVE  DecodeBytes(<<>>, b) = [carry |-> <<>>, out |-> b]
<1> DEFINE N == Len(b)
           F == DecodedUpTo(<<>>, b)
           S == {n \in 0 .. N : F[n] = [carry |-> <<>>, out |-> SubSeq(b, 1, n)]}
<1>1. N \in Nat /\ \A i \in 1 .. N : b[i] \in Bytes
  BY LenProperties
<1>2. /\ F[0] = [carry |-> <<>>, out |-> <<>>]
      /\ \A n \in 1 .. N : F[n] = DecodeByte(F[n - 1], b[n])
  <2>1. <<>> \in Carries
    BY DEF Carries
  <2> QED BY <2>1, DecodedFacts
<1> HIDE DEF F, N
<1>3. 0 \in S
  <2>1. SubSeq(b, 1, 0) = <<>>
    BY SubSeqEmpty
  <2> QED BY <1>1, <1>2, <2>1
<1>4. ASSUME NEW n \in 0 .. N, n # N, n \in S PROVE n + 1 \in S
  <2> DEFINE p == SubSeq(b, 1, n)
             c == b[n + 1]
  <2>1. n + 1 \in 1 .. N /\ n + 1 \in 0 .. N /\ (n + 1) - 1 = n /\ 1 \in 1 .. N /\ 1 <= n + 1
    BY <1>1, <1>4
  <2>2. SubSeq(b, 1, n + 1) = p \o <<c>>
    BY <2>1, SubSeqRecursiveSecond DEF N
  <2>3. p \in Seq(Bytes)
    BY <1>1, <2>1, SubSeqProperties DEF N
  <2>4. F[n + 1] = DecodeByte([carry |-> <<>>, out |-> p], c)
    BY <1>2, <1>4, <2>1
  <2>5. c # High /\ c # Low
    BY <2>1 DEF N
  <2> HIDE DEF p, c
  <2>6. p \o <<>> = p
    BY <2>3, ConcatEmptySeq
  <2>7. DecodeByte([carry |-> <<>>, out |-> p], c) = [carry |-> <<>>, out |-> p \o <<c>>]
    BY <2>5, <2>6 DEF DecodeByte
  <2> QED BY <2>1, <2>2, <2>4, <2>7
<1>5. N \in S
  <2>1. N \in 0 .. N
    BY <1>1
  <2> HIDE DEF S
  <2> QED BY <1>1, <1>3, <1>4, <2>1, UpTo
<1>6. SubSeq(b, 1, N) = b
  BY SubSeqFull DEF N
<1> QED BY <1>5, <1>6, DecodeBytesDef DEF F, N

LEMMA Pair == ASSUME NEW a, NEW b PROVE Append(<<a>>, b) = <<a, b>>
<1> DEFINE s == Append(<<a>>, b)
           t == <<a, b>>
<1>1. <<a>> \in Seq({a, b}) /\ b \in {a, b} /\ t \in Seq({a, b}) /\ Len(<<a>>) = 1
  OBVIOUS
<1>2. s \in Seq({a, b}) /\ Len(s) = 2 /\ s[1] = a /\ s[2] = b
  BY <1>1, AppendProperties
<1>3. t \in Seq({a, b}) /\ Len(t) = 2 /\ t[1] = a /\ t[2] = b
  BY <1>1
<1>4. \A i \in 1 .. 2 : i = 1 \/ i = 2
  OBVIOUS
<1> HIDE DEF s, t
<1>5. s = t
  BY <1>2, <1>3, <1>4, SeqEqual
<1> QED BY <1>5 DEF s, t

LEMMA BytesAreChars == ASSUME NEW x \in Seq(Bytes) PROVE x \in Seq(Chars)
BY DEF Chars

LEMMA Within == ASSUME NEW m \in Nat, NEW n \in 0 .. m, NEW i \in 1 .. n PROVE i \in 1 .. m
OBVIOUS

LEMMA InFrame ==
    ASSUME NEW n \in Nat, NEW m \in Nat, n + 9 <= m, NEW k \in 1 .. 9
    PROVE  n + k \in 1 .. m /\ (n + k) - 1 = n + (k - 1) /\ n + (k - 1) \in 0 .. m
OBVIOUS

LEMMA Triple == ASSUME NEW a, NEW b, NEW c PROVE Append(<<a, b>>, c) = <<a, b, c>>
<1> DEFINE M == {a, b, c}
           s == Append(<<a, b>>, c)
           t == <<a, b, c>>
<1>1. <<a, b>> \in Seq(M) /\ c \in M /\ t \in Seq(M) /\ Len(<<a, b>>) = 2
  OBVIOUS
<1>2. s \in Seq(M) /\ Len(s) = 3 /\ s[1] = a /\ s[2] = b /\ s[3] = c
  BY <1>1, AppendProperties
<1>3. t \in Seq(M) /\ Len(t) = 3 /\ t[1] = a /\ t[2] = b /\ t[3] = c
  BY <1>1
<1>4. \A i \in 1 .. 3 : i = 1 \/ i = 2 \/ i = 3
  OBVIOUS
<1> HIDE DEF s, t, M
<1>5. s = t
  BY <1>2, <1>3, <1>4, SeqEqual
<1> QED BY <1>5 DEF s, t

(* What becomes of one frame of the demo.                                   *)
Sent(e, d) == [event |-> <<e>>, data |-> << <<d>> >>]

ReadingOf(line, event, data, out) ==
    [block |-> [line |-> line, event |-> event, data |-> data], out |-> out]

LEMMA OutOfReading ==
    ASSUME NEW line, NEW event, NEW data, NEW out PROVE ReadingOf(line, event, data, out).out = out
BY DEF ReadingOf

LEMMA LineBegins ==
    ASSUME NEW event, NEW data, NEW out, NEW c \in Chars \ {LF, CR},
           NEW r \in Readings, r = ReadingOf(<<>>, event, data, out)
    PROVE  LineTake(r, c) = ReadingOf(<<c>>, event, data, out)
<1> DEFINE b == r.block
<1>1. b = [line |-> <<>>, event |-> event, data |-> data] /\ r.out = out
  BY DEF ReadingOf
<1>2. LineTake(r, c) = [block |-> [line |-> Append(b.line, c), event |-> b.event, data |-> b.data],
                   out |-> r.out]
  BY TakeCases
<1> HIDE DEF b
<1>3. Append(b.line, c) = <<c>> /\ b.event = event /\ b.data = data
  BY <1>1
<1> QED BY <1>1, <1>2, <1>3 DEF ReadingOf

LEMMA LineGoesOn ==
    ASSUME NEW name, NEW event, NEW data, NEW out, NEW c \in Chars \ {LF, CR},
           NEW r \in Readings, r = ReadingOf(<<name>>, event, data, out)
    PROVE  LineTake(r, c) = ReadingOf(<<name, c>>, event, data, out)
<1> DEFINE b == r.block
<1>1. b = [line |-> <<name>>, event |-> event, data |-> data] /\ r.out = out
  BY DEF ReadingOf
<1>2. LineTake(r, c) = [block |-> [line |-> Append(b.line, c), event |-> b.event, data |-> b.data],
                   out |-> r.out]
  BY TakeCases
<1> HIDE DEF b
<1>3. Append(b.line, c) = <<name, c>> /\ b.event = event /\ b.data = data
  BY <1>1, Pair
<1> QED BY <1>1, <1>2, <1>3 DEF ReadingOf

LEMMA ValueComes ==
    ASSUME NEW name, NEW event, NEW data, NEW out, NEW c \in Chars \ {LF, CR},
           NEW r \in Readings, r = ReadingOf(<<name, Space>>, event, data, out)
    PROVE  LineTake(r, c) = ReadingOf(<<name, Space, c>>, event, data, out)
<1> DEFINE b == r.block
<1>1. b = [line |-> <<name, Space>>, event |-> event, data |-> data] /\ r.out = out
  BY DEF ReadingOf
<1>2. LineTake(r, c) = [block |-> [line |-> Append(b.line, c), event |-> b.event, data |-> b.data],
                   out |-> r.out]
  BY TakeCases
<1> HIDE DEF b
<1>3. Append(b.line, c) = <<name, Space, c>> /\ b.event = event /\ b.data = data
  BY <1>1, Triple
<1> QED BY <1>1, <1>2, <1>3 DEF ReadingOf

LEMMA SpaceGoes ==
    ASSUME NEW value \in Chars \ White, NEW field \in {Event, Data}
    PROVE  Trimmed(field, <<Space, value>>) = <<value>>
<1> DEFINE v == <<Space, value>>
           w == <<value>>
<1>1. Space \in Chars /\ v \in Line /\ w \in Line
  BY DEF Chars, Bytes, Line
<1>2. v # <<>> /\ Head(v) = Space /\ Tail(v) = w /\ w # <<>> /\ Head(w) = value /\ Last(w) = value
  BY DEF Last
<1> HIDE DEF v, w
<1>3. WithoutSpace(v) = w
  BY <1>2 DEF WithoutSpace
<1>4. TrimStart(v) = w
  BY <1>1, <1>2, <1>3, OnlyOneSpace
<1>5. TrimEnd(w) = w
  BY <1>1, <1>2, BlackAtTheEnd
<1> QED BY <1>4, <1>5 DEF Trimmed, v, w

LEMMA EventIsOver ==
    ASSUME NEW value \in Chars \ White, NEW event, NEW data, NEW out,
           NEW r \in Readings, r = ReadingOf(<<Event, Space, value>>, event, data, out)
    PROVE  LineTake(r, LF) = ReadingOf(<<>>, <<value>>, data, out)
<1> DEFINE b == r.block
<1>1. b = [line |-> <<Event, Space, value>>, event |-> event, data |-> data] /\ r.out = out
  BY DEF ReadingOf
<1>2. b.line # <<>> /\ LF \in Chars => LineTake(r, LF) = [block |-> LineField(b), out |-> r.out]
  BY TakeCases
<1> HIDE DEF b
<1>3. LF \in Chars /\ Event # Data
  BY DEF Chars, Bytes, Event, Data
<1>4. /\ b.event = event /\ b.data = data
      /\ b.line # <<>> /\ Head(b.line) = Event /\ Tail(b.line) = <<Space, value>>
  BY <1>1
<1>5. Trimmed(Event, Tail(b.line)) = <<value>>
  BY <1>4, SpaceGoes
<1>6. LineField(b) = [line |-> <<>>, event |-> <<value>>, data |-> data]
  BY <1>1, <1>3, <1>4, <1>5 DEF LineField
<1> QED BY <1>1, <1>2, <1>3, <1>4, <1>6 DEF ReadingOf

LEMMA DataIsOver ==
    ASSUME NEW value \in Chars \ White, NEW event, NEW out,
           NEW r \in Readings, r = ReadingOf(<<Data, Space, value>>, event, <<>>, out)
    PROVE  LineTake(r, LF) = ReadingOf(<<>>, event, << <<value>> >>, out)
<1> DEFINE b == r.block
<1>1. b = [line |-> <<Data, Space, value>>, event |-> event, data |-> <<>>] /\ r.out = out
  BY DEF ReadingOf
<1>2. b.line # <<>> /\ LF \in Chars => LineTake(r, LF) = [block |-> LineField(b), out |-> r.out]
  BY TakeCases
<1> HIDE DEF b
<1>3. LF \in Chars /\ Event # Data
  BY DEF Chars, Bytes, Event, Data
<1>4. /\ b.event = event /\ b.data = <<>>
      /\ b.line # <<>> /\ Head(b.line) = Data /\ Tail(b.line) = <<Space, value>>
  BY <1>1
<1>5. Trimmed(Data, Tail(b.line)) = <<value>>
  BY <1>4, SpaceGoes
<1>6. Append(b.data, <<value>>) = << <<value>> >>
  BY <1>4
<1>7. LineField(b) = [line |-> <<>>, event |-> event, data |-> << <<value>> >>]
  BY <1>1, <1>3, <1>4, <1>5, <1>6 DEF LineField
<1> QED BY <1>1, <1>2, <1>3, <1>4, <1>7 DEF ReadingOf

LEMMA BlockIsOver ==
    ASSUME NEW event, NEW data, NEW out, data # <<>>, ReadingOf(<<>>, event, data, out) \in Readings
    PROVE  LineTake(ReadingOf(<<>>, event, data, out), LF)
             = [block |-> LineBlock, out |-> out \o << [event |-> event, data |-> data] >>]
<1> DEFINE r == ReadingOf(<<>>, event, data, out)
<1>1. r.block = [line |-> <<>>, event |-> event, data |-> data] /\ r.block.line = <<>> /\ r.out = out
      /\ LF \in Chars
  BY DEF ReadingOf, Chars, Bytes
<1>2. LineDispatched(r.block) = << [event |-> event, data |-> data] >>
  BY <1>1 DEF LineDispatched
<1> HIDE DEF r
<1>3. LineTake(r, LF) = [block |-> LineBlock, out |-> r.out \o LineDispatched(r.block)]
  BY <1>1, TakeCases DEF r
<1> QED BY <1>1, <1>2, <1>3 DEF r

LEMMA EventRead ==
    ASSUME NEW x \in Seq(Chars), NEW n \in Nat, n + 9 <= Len(x),
           NEW e \in Chars \ ({LF, CR} \cup White), NEW d \in Chars \ ({LF, CR} \cup White),
           \A k \in 1 .. 9 : x[n + k] = FormatSseEvent(e, d)[k],
           ReadTo(x, n).block = LineBlock
    PROVE  /\ \A k \in 0 .. 8 : ReadTo(x, n + k).out = ReadTo(x, n).out
           /\ ReadTo(x, n + 9) = [block |-> LineBlock,
                                  out |-> Append(ReadTo(x, n).out, Sent(e, d))]
<1> DEFINE R(k) == ReadTo(x, n + k)
           out == ReadTo(x, n).out
           message == <<"message">>
<1>1. Len(x) \in Nat /\ n \in 0 .. Len(x)
  BY LenProperties
<1>2. /\ x[n + 1] = Event /\ x[n + 2] = Space /\ x[n + 3] = e /\ x[n + 4] = LF
      /\ x[n + 5] = Data /\ x[n + 6] = Space /\ x[n + 7] = d /\ x[n + 8] = LF /\ x[n + 9] = LF
  BY DEF FormatSseEvent
<1>3. \A k \in 1 .. 9 : R(k - 1) \in Readings /\ R(k) = LineTake(R(k - 1), x[n + k])
  <2> SUFFICES ASSUME NEW k \in 1 .. 9
               PROVE  R(k - 1) \in Readings /\ R(k) = LineTake(R(k - 1), x[n + k])
    OBVIOUS
  <2>1. n + k \in 1 .. Len(x) /\ (n + k) - 1 = n + (k - 1) /\ n + (k - 1) \in 0 .. Len(x)
    BY <1>1, InFrame
  <2> QED BY <2>1, ReadToFacts
<1>4. Event \in Chars /\ Data \in Chars /\ LF \in Chars /\ Space \in Chars
  BY DEF Chars, Bytes
<1>5. /\ Event \in Chars \ {LF, CR} /\ Data \in Chars \ {LF, CR} /\ Space \in Chars \ {LF, CR}
      /\ e \in Chars \ {LF, CR} /\ d \in Chars \ {LF, CR} /\ e \in Chars \ White /\ d \in Chars \ White
  BY <1>4 DEF Event, Data, LF, CR, Space
<1>6. R(0) = ReadingOf(<<>>, message, <<>>, out)
  <2>1. ReadTo(x, n) \in Readings
    BY <1>1, ReadToFacts
  <2>2. ReadTo(x, n) = [block |-> LineBlock, out |-> out]
    BY <2>1 DEF Readings
  <2>3. n + 0 = n
    OBVIOUS
  <2> QED BY <2>2, <2>3 DEF LineBlock, ReadingOf
<1>7. /\ R(0) \in Readings /\ R(1) = LineTake(R(0), Event)
      /\ R(1) \in Readings /\ R(2) = LineTake(R(1), Space)
      /\ R(2) \in Readings /\ R(3) = LineTake(R(2), e)
      /\ R(3) \in Readings /\ R(4) = LineTake(R(3), LF)
      /\ R(4) \in Readings /\ R(5) = LineTake(R(4), Data)
      /\ R(5) \in Readings /\ R(6) = LineTake(R(5), Space)
      /\ R(6) \in Readings /\ R(7) = LineTake(R(6), d)
      /\ R(7) \in Readings /\ R(8) = LineTake(R(7), LF)
      /\ R(8) \in Readings /\ R(9) = LineTake(R(8), LF)
  <2>1. \A k \in 0 .. 8 : R(k) \in Readings /\ R(k + 1) = LineTake(R(k), x[n + (k + 1)])
    <3> SUFFICES ASSUME NEW k \in 0 .. 8
                 PROVE  R(k) \in Readings /\ R(k + 1) = LineTake(R(k), x[n + (k + 1)])
      OBVIOUS
    <3>1. k + 1 \in 1 .. 9 /\ (k + 1) - 1 = k
      OBVIOUS
    <3> HIDE DEF R
    <3> QED BY <1>3, <3>1
  <2> HIDE DEF R
  <2>2. R(0) \in Readings /\ R(1) = LineTake(R(0), x[n + 1])
    <3>1. 0 \in 0 .. 8 /\ 0 + 1 = 1
      OBVIOUS
    <3> QED BY <2>1, <3>1
  <2>3. R(1) \in Readings /\ R(2) = LineTake(R(1), x[n + 2])
    <3>1. 1 \in 0 .. 8 /\ 1 + 1 = 2
      OBVIOUS
    <3> QED BY <2>1, <3>1
  <2>4. R(2) \in Readings /\ R(3) = LineTake(R(2), x[n + 3])
    <3>1. 2 \in 0 .. 8 /\ 2 + 1 = 3
      OBVIOUS
    <3> QED BY <2>1, <3>1
  <2>5. R(3) \in Readings /\ R(4) = LineTake(R(3), x[n + 4])
    <3>1. 3 \in 0 .. 8 /\ 3 + 1 = 4
      OBVIOUS
    <3> QED BY <2>1, <3>1
  <2>6. R(4) \in Readings /\ R(5) = LineTake(R(4), x[n + 5])
    <3>1. 4 \in 0 .. 8 /\ 4 + 1 = 5
      OBVIOUS
    <3> QED BY <2>1, <3>1
  <2>7. R(5) \in Readings /\ R(6) = LineTake(R(5), x[n + 6])
    <3>1. 5 \in 0 .. 8 /\ 5 + 1 = 6
      OBVIOUS
    <3> QED BY <2>1, <3>1
  <2>8. R(6) \in Readings /\ R(7) = LineTake(R(6), x[n + 7])
    <3>1. 6 \in 0 .. 8 /\ 6 + 1 = 7
      OBVIOUS
    <3> QED BY <2>1, <3>1
  <2>9. R(7) \in Readings /\ R(8) = LineTake(R(7), x[n + 8])
    <3>1. 7 \in 0 .. 8 /\ 7 + 1 = 8
      OBVIOUS
    <3> QED BY <2>1, <3>1
  <2>10. R(8) \in Readings /\ R(9) = LineTake(R(8), x[n + 9])
    <3>1. 8 \in 0 .. 8 /\ 8 + 1 = 9
      OBVIOUS
    <3> QED BY <2>1, <3>1
  <2> QED BY <1>2, <2>2, <2>3, <2>4, <2>5, <2>6, <2>7, <2>8, <2>9, <2>10
<1> HIDE DEF R, out
<1>8. R(1) = ReadingOf(<<Event>>, message, <<>>, out)
  BY <1>5, <1>6, <1>7, LineBegins
<1>9. R(2) = ReadingOf(<<Event, Space>>, message, <<>>, out)
  BY <1>5, <1>7, <1>8, LineGoesOn
<1>10. R(3) = ReadingOf(<<Event, Space, e>>, message, <<>>, out)
  BY <1>5, <1>7, <1>9, ValueComes
<1>11. R(4) = ReadingOf(<<>>, <<e>>, <<>>, out)
  BY <1>5, <1>7, <1>10, EventIsOver
<1>12. R(5) = ReadingOf(<<Data>>, <<e>>, <<>>, out)
  BY <1>5, <1>7, <1>11, LineBegins
<1>13. R(6) = ReadingOf(<<Data, Space>>, <<e>>, <<>>, out)
  BY <1>5, <1>7, <1>12, LineGoesOn
<1>14. R(7) = ReadingOf(<<Data, Space, d>>, <<e>>, <<>>, out)
  BY <1>5, <1>7, <1>13, ValueComes
<1>15. R(8) = ReadingOf(<<>>, <<e>>, << <<d>> >>, out)
  BY <1>5, <1>7, <1>14, DataIsOver
<1>16. R(9) = [block |-> LineBlock, out |-> Append(out, Sent(e, d))]
  <2>1. << <<d>> >> # <<>>
    OBVIOUS
  <2>2. R(9) = [block |-> LineBlock, out |-> out \o <<Sent(e, d)>>]
    BY <1>7, <1>15, <2>1, BlockIsOver DEF Sent
  <2>3. PICK M : out \in Seq(M) /\ Sent(e, d) \in M
    <3>1. R(0).out \in Seq([event : Names, data : Seq(Line)])
      BY <1>7 DEF Readings
    <3>2. R(0).out = out
      BY <1>6 DEF ReadingOf
    <3>3. Sent(e, d) \in [event : Names, data : Seq(Line)]
      <4>1. <<e>> \in Names /\ <<d>> \in Line
        BY DEF Names, Line
      <4>2. << <<d>> >> \in Seq(Line)
        BY <4>1
      <4> QED BY <4>1, <4>2 DEF Sent
    <3> QED BY <3>1, <3>2, <3>3
  <2>4. out \o <<Sent(e, d)>> = Append(out, Sent(e, d))
    BY <2>3, AppendIsConcat
  <2> QED BY <2>2, <2>4
<1>17. \A k \in 0 .. 8 : R(k).out = out
  <2>1. \A k \in 0 .. 8 : k \in {0, 1, 2, 3, 4, 5, 6, 7, 8}
    OBVIOUS
  <2>2. /\ R(0).out = out /\ R(1).out = out /\ R(2).out = out /\ R(3).out = out
        /\ R(4).out = out /\ R(5).out = out /\ R(6).out = out /\ R(7).out = out /\ R(8).out = out
    BY <1>6, <1>8, <1>9, <1>10, <1>11, <1>12, <1>13, <1>14, <1>15, OutOfReading
  <2> QED BY <2>1, <2>2
<1> QED BY <1>16, <1>17 DEF R, out

Frame(i) == FormatSseEvent(DemoEvents[i][1], DemoEvents[i][2])

LEMMA DemoIs == StreamDemoEvents = ((Frame(1) \o Frame(2)) \o Frame(3)) \o Frame(4)
<1> DEFINE events == [i \in DOMAIN DemoEvents |-> FormatSseEvent(DemoEvents[i][1], DemoEvents[i][2])]
           F == CHOOSE f : f = [i \in 1 .. 4 |-> IF i = 1 THEN events[i] ELSE f[i - 1] \o events[i]]
           two == Frame(1) \o Frame(2)
           three == two \o Frame(3)
           g == [i \in 1 .. 4 |-> IF i = 1 THEN Frame(1) ELSE IF i = 2 THEN two
                                  ELSE IF i = 3 THEN three ELSE three \o Frame(4)]
<1>1. DOMAIN DemoEvents = 1 .. 4
  BY DEF DemoEvents
<1>2. /\ events[1] = Frame(1) /\ events[2] = Frame(2) /\ events[3] = Frame(3) /\ events[4] = Frame(4)
      /\ Len(events) = 4
  <2>1. \A i \in 1 .. 4 : events[i] = Frame(i)
    BY <1>1 DEF Frame
  <2>2. DOMAIN events = 1 .. 4
    BY <1>1
  <2>3. Len(events) = 4
    <3>1. events \in Seq(Seq(Bytes))
      BY DemoFrames
    <3>2. Len(events) \in Nat /\ DOMAIN events = 1 .. Len(events)
      BY <3>1, LenProperties
    <3> HIDE DEF events
    <3>3. 1 .. Len(events) = 1 .. 4
      BY <2>2, <3>2
    <3> QED BY <3>2, <3>3
  <2> HIDE DEF events
  <2> QED BY <2>1, <2>3
<1>3. StreamDemoEvents = F[4]
  <2>1. StreamDemoEvents = FlattenSeq(events)
    BY DEF StreamDemoEvents
  <2> HIDE DEF events
  <2> QED BY <1>2, <2>1 DEF FlattenSeq
<1> HIDE DEF events
<1>4. g = [i \in 1 .. 4 |-> IF i = 1 THEN events[i] ELSE g[i - 1] \o events[i]]
  <2>1. /\ g[1] = Frame(1) /\ g[2] = two /\ g[3] = three /\ g[4] = three \o Frame(4)
        /\ g = [i \in 1 .. 4 |-> g[i]]
    OBVIOUS
  <2> HIDE DEF g
  <2>2. g[2] = g[1] \o events[2] /\ g[3] = g[2] \o events[3] /\ g[4] = g[3] \o events[4]
    BY <1>2, <2>1
  <2>3. \A i \in 1 .. 4 : g[i] = IF i = 1 THEN events[i] ELSE g[i - 1] \o events[i]
    <3>1. \A i \in 1 .. 4 : i \in {1, 2, 3, 4}
      OBVIOUS
    <3>2. 2 - 1 = 1 /\ 3 - 1 = 2 /\ 4 - 1 = 3 /\ 2 # 1 /\ 3 # 1 /\ 4 # 1
      OBVIOUS
    <3> QED BY <1>2, <2>1, <2>2, <3>1, <3>2
  <2> QED BY <2>1, <2>3
<1> HIDE DEF g
<1>5. F = [i \in 1 .. 4 |-> IF i = 1 THEN events[i] ELSE F[i - 1] \o events[i]]
  BY <1>4
<1> HIDE DEF F
<1>6. F[1] = events[1] /\ F[2] = F[1] \o events[2] /\ F[3] = F[2] \o events[3] /\ F[4] = F[3] \o events[4]
  <2>1. \A i \in 1 .. 4 : F[i] = IF i = 1 THEN events[i] ELSE F[i - 1] \o events[i]
    BY <1>5
  <2>2. 2 - 1 = 1 /\ 3 - 1 = 2 /\ 4 - 1 = 3 /\ 1 \in 1 .. 4
    OBVIOUS
  <2>3. F[2] = F[2 - 1] \o events[2] /\ F[3] = F[3 - 1] \o events[3] /\ F[4] = F[4 - 1] \o events[4]
    <3> 1 \in 1 .. 4 /\ 2 \in 1 .. 4 /\ 3 \in 1 .. 4 /\ 4 \in 1 .. 4 /\ 2 # 1 /\ 3 # 1 /\ 4 # 1
      OBVIOUS
    <3>1. F[2] = F[2 - 1] \o events[2]
      BY <2>1
    <3>2. F[3] = F[3 - 1] \o events[3]
      BY <2>1
    <3>3. F[4] = F[4 - 1] \o events[4]
      BY <2>1
    <3> QED BY <3>1, <3>2, <3>3
  <2> QED BY <2>1, <2>2, <2>3
<1> QED BY <1>2, <1>3, <1>6

(* w is u followed by a frame v.                                            *)
Followed(w, u, v, n) ==
    /\ w \in Seq(Bytes) /\ Len(w) = n + 9
    /\ \A k \in 1 .. 9 : w[n + k] = v[k]
    /\ \A k \in 1 .. n : w[k] = u[k]

LEMMA NineMore ==
    ASSUME NEW u \in Seq(Bytes), NEW v \in Seq(Bytes), NEW n \in Nat, Len(u) = n, Len(v) = 9
    PROVE  Followed(u \o v, u, v, n)
<1>1. /\ u \o v \in Seq(Bytes) /\ Len(u \o v) = Len(u) + Len(v)
      /\ \A i \in 1 .. Len(u) + Len(v) : (u \o v)[i] = IF i <= Len(u) THEN u[i] ELSE v[i - Len(u)]
  BY ConcatProperties
<1>2. \A i \in 1 .. n + 9 : (u \o v)[i] = IF i <= n THEN u[i] ELSE v[i - n]
  BY <1>1
<1>3. ASSUME NEW k \in 1 .. 9 PROVE (u \o v)[n + k] = v[k]
  <2>1. n + k \in 1 .. n + 9 /\ ~ (n + k <= n) /\ (n + k) - n = k
    OBVIOUS
  <2> QED BY <1>2, <2>1
<1>4. ASSUME NEW k \in 1 .. n PROVE (u \o v)[k] = u[k]
  <2>1. k \in 1 .. n + 9 /\ k <= n
    OBVIOUS
  <2> QED BY <1>2, <2>1
<1> QED BY <1>1, <1>3, <1>4 DEF Followed

LEMMA FrameFacts ==
    ASSUME NEW i \in 1 .. 4
    PROVE  /\ Frame(i) \in Seq(Bytes) /\ Len(Frame(i)) = 9
           /\ DemoEvents[i][1] \in Chars \ ({LF, CR} \cup White)
           /\ DemoEvents[i][2] \in Chars \ ({LF, CR} \cup White)
           /\ \A k \in 1 .. 9 : Frame(i)[k] \in Bytes \ {CR, High, Low}
<1> DEFINE e == DemoEvents[i][1]
           d == DemoEvents[i][2]
           Plain == Bytes \ {CR, High, Low}
<1>1. e \in Plain \ ({LF} \cup White) /\ d \in Plain \ ({LF} \cup White)
  <2>1. e \in {"chunk", "complete"} /\ d \in {"chunk-1", "chunk-2", "chunk-3", "done"}
    <3>1. i = 1 \/ i = 2 \/ i = 3 \/ i = 4
      OBVIOUS
    <3> QED BY <3>1 DEF DemoEvents
  <2> HIDE DEF e, d
  <2>2. {"chunk", "complete", "chunk-1", "chunk-2", "chunk-3", "done"} \subseteq Plain \ ({LF} \cup White)
    BY DEF Bytes, CR, High, Low, LF, White, Space, Tab
  <2> QED BY <2>1, <2>2
<1>2. Event \in Plain /\ Data \in Plain /\ LF \in Plain /\ Space \in Plain
  BY DEF Bytes, Event, Data, CR, High, Low, LF, Space
<1> HIDE DEF e, d, Plain
<1>3. Frame(i) = <<Event, Space, e, LF, Data, Space, d, LF, LF>>
  BY DEF Frame, FormatSseEvent, e, d
<1>4. Frame(i) \in Seq(Plain) /\ Len(Frame(i)) = 9
  BY <1>1, <1>2, <1>3
<1>5. \A k \in 1 .. 9 : Frame(i)[k] \in Plain
  BY <1>4, ElementOfSeq
<1>6. Frame(i) \in Seq(Bytes)
  <2>1. Plain \subseteq Bytes
    BY DEF Plain
  <2> QED BY <1>4, <2>1
<1> QED BY <1>1, <1>4, <1>5, <1>6 DEF Plain, e, d, Chars

LEMMA DemoFacts ==
    /\ StreamDemoEvents \in Seq(Bytes) /\ Len(StreamDemoEvents) = 36
    /\ \A k \in 1 .. 9 : /\ StreamDemoEvents[0 + k] = Frame(1)[k]
                         /\ StreamDemoEvents[9 + k] = Frame(2)[k]
                         /\ StreamDemoEvents[18 + k] = Frame(3)[k]
                         /\ StreamDemoEvents[27 + k] = Frame(4)[k]
    /\ \A j \in 1 .. 36 : StreamDemoEvents[j] \in Bytes \ {CR, High, Low}
<1> DEFINE x1 == Frame(1)
           x2 == x1 \o Frame(2)
           x3 == x2 \o Frame(3)
           x4 == x3 \o Frame(4)
<1>1. /\ Frame(1) \in Seq(Bytes) /\ Len(Frame(1)) = 9 /\ Frame(2) \in Seq(Bytes) /\ Len(Frame(2)) = 9
      /\ Frame(3) \in Seq(Bytes) /\ Len(Frame(3)) = 9 /\ Frame(4) \in Seq(Bytes) /\ Len(Frame(4)) = 9
  <2>1. 1 \in 1 .. 4 /\ 2 \in 1 .. 4 /\ 3 \in 1 .. 4 /\ 4 \in 1 .. 4
    OBVIOUS
  <2> QED BY <2>1, FrameFacts
<1>2. Followed(x2, x1, Frame(2), 9)
  BY <1>1, NineMore
<1>3. Followed(x3, x2, Frame(3), 18)
  <2>1. x2 \in Seq(Bytes) /\ Len(x2) = 18
    BY <1>2 DEF Followed
  <2> HIDE DEF x2
  <2> QED BY <1>1, <2>1, NineMore
<1>4. Followed(x4, x3, Frame(4), 27)
  <2>1. x3 \in Seq(Bytes) /\ Len(x3) = 27
    BY <1>3 DEF Followed
  <2> HIDE DEF x3
  <2> QED BY <1>1, <2>1, NineMore
<1> HIDE DEF x1, x2, x3, x4
<1>5. ASSUME NEW k \in 1 .. 9
      PROVE  /\ x4[0 + k] = x1[k] /\ x4[9 + k] = Frame(2)[k]
             /\ x4[18 + k] = Frame(3)[k] /\ x4[27 + k] = Frame(4)[k]
  <2>1. /\ 0 + k = k /\ k \in 1 .. 18 /\ k \in 1 .. 27 /\ 9 + k \in 1 .. 18 /\ 9 + k \in 1 .. 27
        /\ 18 + k \in 1 .. 27
    OBVIOUS
  <2>2. x4[27 + k] = Frame(4)[k] /\ \A j \in 1 .. 27 : x4[j] = x3[j]
    BY <1>4 DEF Followed
  <2>3. x3[18 + k] = Frame(3)[k] /\ \A j \in 1 .. 18 : x3[j] = x2[j]
    BY <1>3 DEF Followed
  <2>4. x2[9 + k] = Frame(2)[k] /\ \A j \in 1 .. 9 : x2[j] = x1[j]
    BY <1>2 DEF Followed
  <2>5. x4[0 + k] = x1[k]
    BY <2>1, <2>2, <2>3, <2>4
  <2>6. x4[9 + k] = Frame(2)[k]
    BY <2>1, <2>2, <2>3, <2>4
  <2>7. x4[18 + k] = Frame(3)[k]
    BY <2>1, <2>2, <2>3
  <2> QED BY <2>2, <2>5, <2>6, <2>7
<1>6. \A j \in 1 .. 36 : x4[j] \in Bytes \ {CR, High, Low}
  <2> SUFFICES ASSUME NEW j \in 1 .. 36 PROVE x4[j] \in Bytes \ {CR, High, Low}
    OBVIOUS
  <2>1. PICK k \in 1 .. 9 : j = 0 + k \/ j = 9 + k \/ j = 18 + k \/ j = 27 + k
    <3>1. \E k \in 1 .. 9 : j = 0 + k \/ j = 9 + k \/ j = 18 + k \/ j = 27 + k
      <4>1. j \in 1 .. 9 \/ j - 9 \in 1 .. 9 \/ j - 18 \in 1 .. 9 \/ j - 27 \in 1 .. 9
        OBVIOUS
      <4>2. j = 0 + j /\ j = 9 + (j - 9) /\ j = 18 + (j - 18) /\ j = 27 + (j - 27)
        OBVIOUS
      <4> QED BY <4>1, <4>2
    <3> QED BY <3>1
  <2>2. 1 \in 1 .. 4 /\ 2 \in 1 .. 4 /\ 3 \in 1 .. 4 /\ 4 \in 1 .. 4
    OBVIOUS
  <2>3. /\ Frame(1)[k] \in Bytes \ {CR, High, Low} /\ Frame(2)[k] \in Bytes \ {CR, High, Low}
        /\ Frame(3)[k] \in Bytes \ {CR, High, Low} /\ Frame(4)[k] \in Bytes \ {CR, High, Low}
    BY <2>2, FrameFacts
  <2>4. x4[j] \in {Frame(1)[k], Frame(2)[k], Frame(3)[k], Frame(4)[k]}
    BY <1>5, <2>1 DEF x1
  <2> QED BY <2>3, <2>4
<1>7. StreamDemoEvents = x4
  BY DemoIs DEF x1, x2, x3, x4
<1>8. x4 \in Seq(Bytes) /\ Len(x4) = 36
  BY <1>4 DEF Followed
<1> QED BY <1>5, <1>6, <1>7, <1>8 DEF x1

AllSent ==
    [i \in DOMAIN DemoEvents |-> [event |-> <<DemoEvents[i][1]>>, data |-> << <<DemoEvents[i][2]>> >>]]

LEMMA AllSentType ==
    /\ AllSent \in Seq([event : Names, data : Seq(Line)]) /\ Len(AllSent) = 4
    /\ \A i \in 1 .. 4 : AllSent[i] = Sent(DemoEvents[i][1], DemoEvents[i][2])
<1> DEFINE M == [event : Names, data : Seq(Line)]
           n == 4
<1>1. DOMAIN DemoEvents = 1 .. n
  BY DEF DemoEvents
<1>2. ASSUME NEW i \in 1 .. 4 PROVE Sent(DemoEvents[i][1], DemoEvents[i][2]) \in M
  <2> DEFINE e == DemoEvents[i][1]
             d == DemoEvents[i][2]
  <2>1. e \in Chars /\ d \in Chars
    BY FrameFacts
  <2> HIDE DEF e, d
  <2>2. <<e>> \in Names /\ <<d>> \in Line
    BY <2>1 DEF Names, Line
  <2>3. << <<d>> >> \in Seq(Line)
    BY <2>2
  <2>4. Sent(e, d) \in M
    BY <2>2, <2>3 DEF Sent
  <2> QED BY <2>4 DEF e, d
<1>3. \A i \in 1 .. 4 : AllSent[i] = Sent(DemoEvents[i][1], DemoEvents[i][2])
  BY <1>1 DEF AllSent, Sent
<1>4. n \in Nat /\ AllSent \in [1 .. n -> M] /\ DOMAIN AllSent = 1 .. n
  <2>1. AllSent = [i \in 1 .. n |-> AllSent[i]]
    BY <1>1 DEF AllSent
  <2>2. n \in Nat
    OBVIOUS
  <2> QED BY <1>2, <1>3, <2>1, <2>2
<1> HIDE DEF M, n
<1>5. AllSent \in Seq(M) /\ Len(AllSent) = n
  <2>1. AllSent \in Seq(M)
    BY <1>4, SeqDef
  <2>2. Len(AllSent) \in Nat /\ DOMAIN AllSent = 1 .. Len(AllSent)
    BY <2>1, LenProperties
  <2>3. Len(AllSent) = n
    BY <1>4, <2>2
  <2> QED BY <2>1, <2>3
<1> QED BY <1>3, <1>5 DEF M, n

(* After i events: nothing is left of them, and they are dispatched.        *)
AtEvent(i, n) ==
    ReadTo(StreamDemoEvents, n) = [block |-> LineBlock, out |-> SubSeq(AllSent, 1, i)]

LEMMA DemoGoesOn ==
    ASSUME NEW i \in 1 .. 4, NEW n \in 0 .. 27, AtEvent(i - 1, n),
           \A k \in 1 .. 9 : StreamDemoEvents[n + k] = Frame(i)[k]
    PROVE  /\ AtEvent(i, n + 9)
           /\ \A k \in 0 .. 8 : ReadTo(StreamDemoEvents, n + k).out = SubSeq(AllSent, 1, i - 1)
<1> DEFINE x == StreamDemoEvents
           e == DemoEvents[i][1]
           d == DemoEvents[i][2]
           sent == SubSeq(AllSent, 1, i - 1)
<1>1. x \in Seq(Chars) /\ n \in Nat /\ n + 9 <= Len(x)
  <2>1. x \in Seq(Bytes) /\ Len(x) = 36
    BY DemoFacts
  <2>2. x \in Seq(Chars)
    BY <2>1 DEF Chars
  <2> QED BY <2>1, <2>2
<1>2. /\ e \in Chars \ ({LF, CR} \cup White) /\ d \in Chars \ ({LF, CR} \cup White)
      /\ \A k \in 1 .. 9 : x[n + k] = FormatSseEvent(e, d)[k]
  BY FrameFacts DEF Frame
<1>3. ReadTo(x, n).block = LineBlock /\ ReadTo(x, n).out = sent
  BY DEF AtEvent
<1> HIDE DEF x, e, d
<1>4. /\ \A k \in 0 .. 8 : ReadTo(x, n + k).out = ReadTo(x, n).out
      /\ ReadTo(x, n + 9) = [block |-> LineBlock, out |-> Append(ReadTo(x, n).out, Sent(e, d))]
  BY <1>1, <1>2, <1>3, EventRead
<1>5. Append(sent, Sent(e, d)) = SubSeq(AllSent, 1, i)
  <2>1. AllSent \in Seq([event : Names, data : Seq(Line)]) /\ Len(AllSent) = 4
        /\ AllSent[i] = Sent(e, d)
    BY AllSentType DEF e, d
  <2> DEFINE M == [event : Names, data : Seq(Line)]
  <2> HIDE DEF M
  <2>2. SubSeq(AllSent, 1, i) = sent \o <<AllSent[i]>>
    <3>1. 1 \in 1 .. Len(AllSent) /\ i \in 1 .. Len(AllSent) /\ 1 <= i
      BY <2>1
    <3>2. AllSent \in Seq(M)
      BY <2>1 DEF M
    <3> QED BY <3>1, <3>2, SubSeqRecursiveSecond
  <2>3. sent \in Seq(M) /\ AllSent[i] \in M
    <3>1. AllSent \in Seq(M) /\ i \in 1 .. Len(AllSent)
      BY <2>1 DEF M
    <3>2. \A j \in 1 .. i - 1 : AllSent[j] \in M
      <4>1. \A j \in 1 .. i - 1 : j \in 1 .. Len(AllSent)
        <5>1. i - 1 \in 0 .. 4 /\ 4 \in Nat
          OBVIOUS
        <5> QED BY <2>1, <5>1, Within
      <4> QED BY <3>1, <4>1, ElementOfSeq
    <3>3. AllSent[i] \in M
      BY <3>1, ElementOfSeq
    <3>4. sent \in Seq(M)
      BY <3>1, <3>2, SubSeqProperties
    <3> QED BY <3>3, <3>4
  <2> HIDE DEF sent
  <2>4. sent \o <<AllSent[i]>> = Append(sent, AllSent[i])
    BY <2>3, AppendIsConcat
  <2> QED BY <2>1, <2>2, <2>4
<1> QED BY <1>3, <1>4, <1>5 DEF AtEvent, x

LEMMA DemoRead ==
    /\ \A n \in 0 .. 36 : \E i \in 0 .. 4 : ReadTo(StreamDemoEvents, n).out = SubSeq(AllSent, 1, i)
    /\ ReadTo(StreamDemoEvents, 36) = [block |-> LineBlock, out |-> AllSent]
<1> DEFINE out(n) == ReadTo(StreamDemoEvents, n).out
<1>1. AtEvent(0, 0)
  <2>1. StreamDemoEvents \in Seq(Chars)
    BY DemoFacts, BytesAreChars
  <2>2. SubSeq(AllSent, 1, 0) = <<>>
    BY SubSeqEmpty
  <2> QED BY <2>1, <2>2, ReadToFacts DEF AtEvent, Nothing
<1>2. AtEvent(1, 9) /\ \A k \in 0 .. 8 : out(0 + k) = SubSeq(AllSent, 1, 0)
  <2>1. 1 \in 1 .. 4 /\ 0 \in 0 .. 27 /\ 1 - 1 = 0 /\ 0 + 9 = 9
    OBVIOUS
  <2>2. \A k \in 1 .. 9 : StreamDemoEvents[0 + k] = Frame(1)[k]
    BY DemoFacts
  <2>3. AtEvent(1 - 1, 0)
    BY <1>1, <2>1
  <2>4. AtEvent(1, 0 + 9) /\ \A k \in 0 .. 8 : out(0 + k) = SubSeq(AllSent, 1, 1 - 1)
    BY <2>1, <2>2, <2>3, DemoGoesOn
  <2> HIDE DEF out
  <2> QED BY <2>1, <2>4
<1>3. AtEvent(2, 18) /\ \A k \in 0 .. 8 : out(9 + k) = SubSeq(AllSent, 1, 1)
  <2>1. 2 \in 1 .. 4 /\ 9 \in 0 .. 27 /\ 2 - 1 = 1 /\ 9 + 9 = 18
    OBVIOUS
  <2>2. \A k \in 1 .. 9 : StreamDemoEvents[9 + k] = Frame(2)[k]
    BY DemoFacts
  <2>3. AtEvent(2 - 1, 9)
    BY <1>2, <2>1
  <2>4. AtEvent(2, 9 + 9) /\ \A k \in 0 .. 8 : out(9 + k) = SubSeq(AllSent, 1, 2 - 1)
    BY <2>1, <2>2, <2>3, DemoGoesOn
  <2> HIDE DEF out
  <2> QED BY <2>1, <2>4
<1>4. AtEvent(3, 27) /\ \A k \in 0 .. 8 : out(18 + k) = SubSeq(AllSent, 1, 2)
  <2>1. 3 \in 1 .. 4 /\ 18 \in 0 .. 27 /\ 3 - 1 = 2 /\ 18 + 9 = 27
    OBVIOUS
  <2>2. \A k \in 1 .. 9 : StreamDemoEvents[18 + k] = Frame(3)[k]
    BY DemoFacts
  <2>3. AtEvent(3 - 1, 18)
    BY <1>3, <2>1
  <2>4. AtEvent(3, 18 + 9) /\ \A k \in 0 .. 8 : out(18 + k) = SubSeq(AllSent, 1, 3 - 1)
    BY <2>1, <2>2, <2>3, DemoGoesOn
  <2> HIDE DEF out
  <2> QED BY <2>1, <2>4
<1>5. AtEvent(4, 36) /\ \A k \in 0 .. 8 : out(27 + k) = SubSeq(AllSent, 1, 3)
  <2>1. 4 \in 1 .. 4 /\ 27 \in 0 .. 27 /\ 4 - 1 = 3 /\ 27 + 9 = 36
    OBVIOUS
  <2>2. \A k \in 1 .. 9 : StreamDemoEvents[27 + k] = Frame(4)[k]
    BY DemoFacts
  <2>3. AtEvent(4 - 1, 27)
    BY <1>4, <2>1
  <2>4. AtEvent(4, 27 + 9) /\ \A k \in 0 .. 8 : out(27 + k) = SubSeq(AllSent, 1, 4 - 1)
    BY <2>1, <2>2, <2>3, DemoGoesOn
  <2> HIDE DEF out
  <2> QED BY <2>1, <2>4
<1>6. out(36) = SubSeq(AllSent, 1, 4) /\ SubSeq(AllSent, 1, 4) = AllSent
  <2>1. SubSeq(AllSent, 1, Len(AllSent)) = AllSent /\ Len(AllSent) = 4
    BY AllSentType, SubSeqFull
  <2> QED BY <1>5, <2>1 DEF AtEvent
<1>7. ReadTo(StreamDemoEvents, 36) = [block |-> LineBlock, out |-> AllSent]
  BY <1>5, <1>6 DEF AtEvent
<1> HIDE DEF out
<1>8. ASSUME NEW n \in 0 .. 36 PROVE \E i \in 0 .. 4 : out(n) = SubSeq(AllSent, 1, i)
  <2>1. n \in 0 .. 8 \/ n - 9 \in 0 .. 8 \/ n - 18 \in 0 .. 8 \/ n - 27 \in 0 .. 8 \/ n = 36
    OBVIOUS
  <2>2. n = 0 + n /\ n = 9 + (n - 9) /\ n = 18 + (n - 18) /\ n = 27 + (n - 27)
    OBVIOUS
  <2>3. 0 \in 0 .. 4 /\ 1 \in 0 .. 4 /\ 2 \in 0 .. 4 /\ 3 \in 0 .. 4 /\ 4 \in 0 .. 4
    OBVIOUS
  <2> QED BY <1>2, <1>3, <1>4, <1>5, <1>6, <2>1, <2>2, <2>3
<1> QED BY <1>7, <1>8 DEF out

(* The events of the demo arrive as they are, in their order: what the      *)
(* gateway's format_sse_event writes is what the UI's parser reads.         *)
THEOREM DemoIsRead == StreamSpec => []DemoArrives
<1>1. StreamInv => DemoArrives
  <2> SUFFICES ASSUME StreamInv, text = StreamDemoEvents, NEW s \in Streams
               PROVE  /\ IsPrefix(delivered[s], AllSent)
                      /\ phase[s] = "done" => delivered[s] = AllSent
    BY DEF DemoArrives, AllSent
  <2> DEFINE n == count[s]
             bytes == SubSeq(text, 1, n)
             ended == phase[s] = "done"
             read == LineRead(bytes)
  <2>1. /\ Len(text) = 36 /\ n \in 0 .. 36
        /\ bytes \in Seq(Bytes) /\ bytes \in Seq(Chars) /\ Len(bytes) = n
        /\ \A j \in 1 .. 36 : text[j] \in Bytes \ {CR, High, Low}
        /\ \A j \in 1 .. n : bytes[j] = text[j]
    <3>1. /\ Len(text) = 36 /\ text \in Seq(Bytes)
          /\ \A j \in 1 .. 36 : text[j] \in Bytes \ {CR, High, Low}
      BY DemoFacts
    <3>2. n \in 0 .. Len(text) /\ text \in Seq(Chars)
      <4>1. text \in Seq(Chars)
        BY <3>1, BytesAreChars
      <4>2. count[s] \in 0 .. Len(text)
        BY DEF StreamInv, StreamType
      <4> QED BY <4>1, <4>2
    <3>3. bytes \in Seq(Bytes)
      BY SoFarType DEF StreamInv
    <3>4. bytes \in Seq(Chars) /\ Len(bytes) = n /\ \A j \in 1 .. n : bytes[j] = text[j]
      <4> HIDE DEF n
      <4> QED BY <3>2, PrefixIs
    <3> QED BY <3>1, <3>2, <3>3, <3>4
  <2>2. Uniform(text)
    <3>1. DOMAIN text = 1 .. 36
      BY <2>1, DemoFacts, LenProperties
    <3> QED BY <2>1, <3>1 DEF Uniform
  <2>3. \A more \in BOOLEAN : Decode(<<>>, bytes, more).out = bytes
    <3>1. ASSUME NEW i \in 1 .. Len(bytes) PROVE bytes[i] # High /\ bytes[i] # Low
      <4> HIDE DEF n, bytes
      <4>1. i \in 1 .. n /\ 36 \in Nat
        BY <2>1
      <4>2. i \in 1 .. 36
        BY <2>1, <4>1, Within
      <4> QED BY <2>1, <4>1, <4>2
    <3> HIDE DEF bytes
    <3>2. DecodeBytes(<<>>, bytes) = [carry |-> <<>>, out |-> bytes]
      BY <2>1, <3>1, PlainDecode
    <3> QED BY <3>2 DEF Decode, Flushed
  <2>4. delivered[s] = LineStandard(bytes, ended)
    <3>1. delivered[s] = LineStandard(Decode(<<>>, bytes, ~ ended).out, ended)
      BY <2>2, ReadsLineByLine DEF DeliversLines
    <3>2. (~ ended) \in BOOLEAN
      OBVIOUS
    <3>3. Decode(<<>>, bytes, ~ ended).out = bytes
      BY <2>3, <3>2
    <3> HIDE DEF bytes, ended
    <3> QED BY <3>1, <3>3
  <2>5. read = ReadTo(StreamDemoEvents, n)
    BY DEF ReadTo
  <2>6. LineStandard(bytes, ended) = read.out \o (IF ended THEN LineDispatched(LineField(read.block)) ELSE <<>>)
    BY DEF LineStandard
  <2>7. PICK i \in 0 .. 4 : read.out = SubSeq(AllSent, 1, i)
    BY <2>1, <2>5, DemoRead
  <2>8. read.out \in Seq([event : Names, data : Seq(Line)])
    <3>1. read \in Readings
      BY <2>1, LineReadFacts
    <3> QED BY <3>1 DEF Readings
  <2>9. read.out \o <<>> = read.out
    BY <2>8, ConcatEmptySeq
  <2>10. ended => read.block = LineBlock /\ read.out = AllSent
    <3>1. ended => n = 36
      BY <2>1 DEF StreamInv, AtTheEnd
    <3> HIDE DEF read, n, ended
    <3>2. n = 36 => read = [block |-> LineBlock, out |-> AllSent]
      BY <2>5, DemoRead
    <3> QED BY <3>1, <3>2
  <2> HIDE DEF read, ended, bytes
  <2>11. delivered[s] = read.out
    <3>1. CASE ended
      <4>1. LineDispatched(LineField(read.block)) = <<>>
        BY <2>10, <3>1, NothingToDispatch
      <4> QED BY <2>4, <2>6, <2>9, <3>1, <4>1
    <3>2. CASE ~ ended
      BY <2>4, <2>6, <2>9, <3>2
    <3> QED BY <3>1, <3>2
  <2>12. IsPrefix(read.out, AllSent)
    <3>1. /\ AllSent \in Seq([event : Names, data : Seq(Line)]) /\ Len(AllSent) = 4
          /\ Len(SubSeq(AllSent, 1, i)) = i
      BY AllSentType, SubSeqProperties
    <3>2. i <= 4 /\ Len(read.out) = i
      BY <2>7, <3>1
    <3> QED BY <2>7, <3>1, <3>2 DEF IsPrefix
  <2> QED BY <2>10, <2>11, <2>12 DEF ended
<1> QED BY <1>1, StreamInvariant, PTL
===============================================================================
