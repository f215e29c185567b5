--------------------------- MODULE TokenCacheProofs ---------------------------
(***************************************************************************)
(* Proofs about TokenCache, for any number of callers and tokens and every *)
(* TTL, margin, life and latency that TokenAssumption allows.              *)
(***************************************************************************)
EXTENDS TokenCache, TLAPS

\* What a caller holds where it needs a token.
Holding == {"issued", "store", "send", "sent401", "sentOk", "drop"}

HoldsToken == \A c \in Callers : pc[c] \in Holding => tok[c] \in Tokens

\* Nobody believes in a token for longer than it lives, and a request or a mint
\* under way has as much of the token's life ahead as it may still take.
Covered ==
    /\ cache.tok # NoToken => life[cache.tok] >= cache.left
    /\ \A c \in Callers :
         /\ pc[c] = "issued" => life[tok[c]] + Latency >= Life + wait[c]
         /\ pc[c] = "store" => life[tok[c]] >= left[c] /\ life[tok[c]] >= TTL
         /\ pc[c] = "send" => life[tok[c]] > wait[c]

\* A refusal is about a token that is dead and stays so while it is held.
RefusedDead ==
    \A c \in Callers : pc[c] \in {"sent401", "drop"} => ~Alive(tok[c])

TokenInv == TypeOK /\ HoldsToken /\ (~slept => Covered) /\ RefusedDead
-----------------------------------------------------------------------------
\* A fresh token is one that nobody mentions.
LEMMA IssuedUnused ==
    ASSUME Tokens \ InUse # {},
           NEW k, k = CHOOSE x \in Tokens : x \notin InUse
    PROVE  /\ k \in Tokens /\ k \notin InUse
           /\ k # cache.tok
           /\ \A c \in Callers : k # tok[c]
<1>1. \E x \in Tokens : x \notin InUse
  OBVIOUS
<1>2. k \in Tokens /\ k \notin InUse
  BY <1>1
<1> QED
  BY <1>2 DEF InUse

\* The constants are naturals, in the order the proofs need.
LEMMA Constants ==
    /\ TTL \in Nat /\ Margin \in Nat /\ Life \in Nat /\ Latency \in Nat
    /\ MaxFaults \in Nat
    /\ Latency <= Margin /\ Margin < TTL /\ TTL + Latency <= Life
    /\ NoToken \notin Tokens
BY TokenAssumption DEF TokenAssumption

LEMMA InitInv == Init => TokenInv
<1> SUFFICES ASSUME Init PROVE TokenInv
  OBVIOUS
<1> USE Constants DEF Init
<1>1. TypeOK
  <2>1. retry \in [Callers -> BOOLEAN] /\ slept \in BOOLEAN
    BY Zenon
  <2> QED
    BY <2>1 DEF TypeOK, NoEntry, Phases
<1>2. HoldsToken /\ RefusedDead
  BY DEF HoldsToken, Holding, RefusedDead
<1>3. Covered
  BY DEF Covered, NoEntry
<1> QED
  BY <1>1, <1>2, <1>3 DEF TokenInv

\* What the end of a request leaves of the caller's locals.
LEMMA EndType ==
    ASSUME TypeOK, NEW c \in Callers, NEW p \in Phases, End(c, p)
    PROVE  /\ pc' \in [Callers -> Phases]
           /\ tok' \in [Callers -> Tokens \cup {NoToken}]
           /\ left' \in [Callers -> 0..TTL]
           /\ retry' \in [Callers -> BOOLEAN]
           /\ wait' \in [Callers -> 0..Latency]
<1> USE DEF End
<1>1. pc' \in [Callers -> Phases] /\ tok' \in [Callers -> Tokens \cup {NoToken}]
  BY DEF TypeOK, Goto, Hold
<1>2. left' \in [Callers -> 0..TTL] /\ wait' \in [Callers -> 0..Latency]
  BY Constants DEF TypeOK
<1>3. retry' \in [Callers -> BOOLEAN]
  BY Zenon DEF TypeOK
<1> QED
  BY <1>1, <1>2, <1>3

\* Type correctness of one step.
LEMMA StepType ==
    ASSUME TypeOK, HoldsToken, [Next]_vars
    PROVE  TypeOK'
<1> USE Constants DEF TypeOK
<1>1. CASE Tick
  BY <1>1 DEF Tick, Passes, Less
<1>2. CASE Sleep
  BY <1>2 DEF Sleep, Fault, Passes, Less
<1>3. CASE Revoke
  BY <1>3 DEF Revoke, Fault
<1>4. ASSUME NEW c \in Callers, CallerStep(c) \/ CallFails(c)
      PROVE  TypeOK'
  <2> USE DEF Phases, Local, Calls, Goto, Call, Hold, github
  <2>1. CASE Begin(c)
    BY <2>1 DEF Begin
  <2>2. CASE InstallationId(c)
    BY <2>2 DEF InstallationId
  <2>3. CASE IdAnswered(c)
    BY <2>3 DEF IdAnswered
  <2>4. CASE ScopedToken(c)
    <3>1. CASE End(c, "idle")
      BY <2>4, <3>1, EndType DEF ScopedToken
    <3>2. CASE ~End(c, "idle")
      BY <2>4, <3>2 DEF ScopedToken
    <3> QED
      BY <3>1, <3>2
  <2>5. CASE ReadCache(c)
    BY <2>5 DEF ReadCache
  <2>6. CASE Issue(c)
    <3> DEFINE k == CHOOSE x \in Tokens : x \notin InUse
    <3>1. k \in Tokens
      BY <2>6, IssuedUnused DEF Issue
    <3> QED
      BY <2>6, <3>1 DEF Issue
  <2>7. CASE TokenAnswered(c)
    BY <2>7 DEF TokenAnswered
  <2>8. CASE StoreToken(c)
    BY <2>8 DEF StoreToken, HoldsToken, Holding
  <2>9. CASE Judge(c)
    BY <2>9 DEF Judge
  <2>10. CASE Answered(c)
    <3>1. CASE End(c, "idle") \/ End(c, "refused")
      BY <2>10, <3>1, EndType DEF Answered
    <3>2. CASE ~(End(c, "idle") \/ End(c, "refused"))
      BY <2>10, <3>2 DEF Answered
    <3> QED
      BY <3>1, <3>2
  <2>11. CASE Invalidate(c)
    BY <2>11 DEF Invalidate, Invalidated, NoEntry
  <2>12. CASE CallFails(c)
    BY <2>12, EndType DEF CallFails, Fault
  <2> QED
    BY <1>4, <2>1, <2>2, <2>3, <2>4, <2>5, <2>6, <2>7, <2>8, <2>9, <2>10,
       <2>11, <2>12 DEF CallerStep
<1>5. CASE UNCHANGED vars
  BY <1>5 DEF vars
<1> QED
  BY <1>1, <1>2, <1>3, <1>4, <1>5 DEF Next

\* The part of the invariant about the token a caller holds, the time it has
\* left, and refusals, kept by one step of one caller.
LEMMA CallerKeeps ==
    ASSUME TokenInv, NEW c \in Callers, CallerStep(c) \/ CallFails(c)
    PROVE  HoldsToken' /\ (~slept' => Covered') /\ RefusedDead'
<1> USE Constants DEF TokenInv, TypeOK, HoldsToken, Holding, Covered, RefusedDead,
    Alive, Goto, Call, Hold, github
<1>1. CASE Begin(c)
  BY <1>1 DEF Begin
<1>2. CASE InstallationId(c)
  BY <1>2 DEF InstallationId
<1>3. CASE IdAnswered(c)
  BY <1>3 DEF IdAnswered
<1>4. CASE ScopedToken(c)
  BY <1>4 DEF ScopedToken, End
<1>5. CASE ReadCache(c)
  BY <1>5 DEF ReadCache, IsFresh
<1>6. CASE Issue(c)
  <2> DEFINE k == CHOOSE x \in Tokens : x \notin InUse
  <2>1. k \in Tokens /\ k # cache.tok /\ \A d \in Callers : k # tok[d]
    BY <1>6, IssuedUnused DEF Issue
  <2>2. /\ life' = [life EXCEPT ![k] = Life]
        /\ revoked' = revoked \ {k}
        /\ tok' = [tok EXCEPT ![c] = k]
        /\ pc' = [pc EXCEPT ![c] = "issued"]
        /\ UNCHANGED <<cache, left, wait, slept>>
    BY <1>6 DEF Issue
  <2> HIDE DEF k
  <2> QED
    BY <2>1, <2>2
<1>7. CASE TokenAnswered(c)
  BY <1>7 DEF TokenAnswered
<1>8. CASE StoreToken(c)
  BY <1>8 DEF StoreToken
<1>9. CASE Judge(c)
  BY <1>9 DEF Judge
<1>10. CASE Answered(c)
  BY <1>10 DEF Answered, End
<1>11. CASE Invalidate(c)
  BY <1>11 DEF Invalidate, Invalidated, NoEntry
<1>12. CASE CallFails(c)
  BY <1>12 DEF CallFails, End
<1> QED
  BY <1>1, <1>2, <1>3, <1>4, <1>5, <1>6, <1>7, <1>8, <1>9, <1>10, <1>11, <1>12
     DEF CallerStep

\* The same for time.
LEMMA TimeKeeps ==
    ASSUME TokenInv, Passes
    PROVE  /\ HoldsToken' /\ RefusedDead'
           /\ Tick /\ ~slept => Covered'
<1> USE Constants DEF TokenInv, TypeOK, Passes, Less
<1>1. HoldsToken'
  BY DEF HoldsToken
<1>2. RefusedDead'
  BY DEF HoldsToken, Holding, RefusedDead, Alive, InUse
<1>3. ASSUME Tick, ~slept PROVE Covered'
  <2>1. cache'.tok # NoToken => life'[cache'.tok] >= cache'.left
    BY <1>3 DEF Covered, InUse
  <2>2. ASSUME NEW c \in Callers
        PROVE  /\ pc'[c] = "issued" => life'[tok'[c]] + Latency >= Life + wait'[c]
               /\ pc'[c] = "store" => life'[tok'[c]] >= left'[c] /\ life'[tok'[c]] >= TTL
               /\ pc'[c] = "send" => life'[tok'[c]] > wait'[c]
    <3>1. CASE pc[c] = "issued" \/ pc[c] = "send"
      <4>1. wait[c] > 0 /\ tok[c] \in Tokens /\ tok[c] \in InUse
        BY <1>3, <3>1 DEF Tick, Calls, HoldsToken, Holding, InUse
      <4> QED
        BY <1>3, <3>1, <4>1 DEF Covered
    <3>2. CASE ~(pc[c] = "issued" \/ pc[c] = "send")
      BY <1>3, <3>2 DEF Tick, Local
    <3> QED
      BY <3>1, <3>2
  <2> QED
    BY <2>1, <2>2 DEF Covered
<1> QED
  BY <1>1, <1>2, <1>3

LEMMA StepInv ==
    ASSUME TokenInv, [Next]_vars
    PROVE  TokenInv'
<1>1. TypeOK'
  BY StepType DEF TokenInv
<1>2. HoldsToken' /\ (~slept' => Covered') /\ RefusedDead'
  <2>1. CASE Tick
    BY <2>1, TimeKeeps DEF Tick
  <2>2. CASE Sleep
    BY <2>2, TimeKeeps DEF Sleep
  <2>3. CASE Revoke
    <3>1. HoldsToken' /\ (~slept' => Covered')
      BY <2>3 DEF Revoke, TokenInv, HoldsToken, Covered
    <3>2. RefusedDead'
      BY <2>3 DEF Revoke, TokenInv, RefusedDead, HoldsToken, Holding, Alive, InUse
    <3> QED
      BY <3>1, <3>2
  <2>4. CASE \E c \in Callers : CallerStep(c) \/ CallFails(c)
    BY <2>4, CallerKeeps
  <2>5. CASE UNCHANGED vars
    BY <2>5 DEF vars, TokenInv, HoldsToken, Covered, RefusedDead, Alive
  <2> QED
    BY <2>1, <2>2, <2>3, <2>4, <2>5 DEF Next
<1> QED
  BY <1>1, <1>2 DEF TokenInv

LEMMA TokenInvariant == Spec => []TokenInv
BY InitInv, StepInv, PTL DEF Spec
-----------------------------------------------------------------------------
(* The cache, every caller of token() and send_authed, and every token keep
   their types. *)
THEOREM TokenTypeCorrect == Spec => []TypeOK
<1>1. TokenInv => TypeOK
  BY DEF TokenInv
<1> QED
  BY TokenInvariant, <1>1, PTL

(* REFRESH_MARGIN does what installation.rs says it is for: while the host does
   not sleep in a call, no token expires between is_fresh_at and the moment
   GitHub sees it, for every latency up to the margin and however many callers
   mint at once. *)
THEOREM TokenInFlightAlive == Spec => []InFlightAlive
<1>1. TokenInv => InFlightAlive
  BY Constants DEF TokenInv, TypeOK, HoldsToken, Holding, Covered, InFlightAlive
<1> QED
  BY TokenInvariant, <1>1, PTL

(* invalidate only ever removes a token that GitHub no longer accepts, also when
   several callers are refused at once and one has already minted anew. *)
THEOREM TokenDropsOnlyDead == Spec => DropsOnlyDead
<1>1. ASSUME TokenInv, [Next]_vars
      PROVE  [cache.tok # NoToken /\ cache'.tok = NoToken => ~Alive(cache.tok)]_vars
  <2> SUFFICES ASSUME Next, cache.tok # NoToken, cache'.tok = NoToken
               PROVE  ~Alive(cache.tok)
    BY <1>1 DEF vars
  <2>1. cache'.tok # cache.tok
    OBVIOUS
  <2>2. ~Tick /\ ~Sleep /\ ~Revoke
    BY <2>1, <1>1 DEF Tick, Sleep, Revoke, Passes, TokenInv, TypeOK
  <2>3. PICK c \in Callers : CallerStep(c) \/ CallFails(c)
    BY <2>2 DEF Next
  <2>4. ~StoreToken(c)
    BY <1>1, Constants DEF StoreToken, TokenInv, HoldsToken, Holding
  <2>5. Invalidate(c)
    BY <2>1, <2>3, <2>4 DEF CallerStep, CallFails, Begin, InstallationId, IdAnswered,
       ScopedToken, ReadCache, Issue, TokenAnswered, Judge, Answered
  <2> QED
    BY <1>1, <2>1, <2>5 DEF Invalidate, Invalidated, TokenInv, RefusedDead
<1> QED
  BY TokenInvariant, <1>1, PTL DEF Spec, DropsOnlyDead
=============================================================================
