------------------------- MODULE TokenSourceProofs -------------------------
(* The safety of TokenSource for any callers, tokens and threshold.         *)
EXTENDS TokenSource, TLAPS

(* While a caller is asking Keycloak no valid token is cached; a caller     *)
(* about to invalidate holds a token that is bad for good.                  *)
AsksWithoutToken ==
    \A c \in Callers :
        call[c].pc \in {"login", "refresh", "relogin"} => token = NoToken \/ token \in expired

ReportsBadTokens ==
    \A c \in Callers : call[c].pc = "invalidate" => call[c].tok \in rejected \cup expired

(* The only usable token is the cached one.                                 *)
GoodIsCached == compares => \A t \in Tokens : Good(t) => t = token

(* What a retry has to avoid is an issued token that is not cached any more.*)
RetryMovedOn ==
    /\ token \in issued \cup {NoToken}
    /\ \A c \in Callers :
        /\ call[c].first \in issued \cup {NoToken}
        /\ call[c].pc \in {"send", "invalidate"} => call[c].tok \in issued /\ call[c].tok # call[c].first
        /\ call[c].first # NoToken => token # call[c].first

CacheInv ==
    /\ TypeOK
    /\ AsksWithoutToken
    /\ ReportsBadTokens
    /\ GoodIsCached
    /\ RetryMovedOn
    /\ SuppressionEarned

-----------------------------------------------------------------------------

LEMMA InitCache == Init => CacheInv
<1> SUFFICES ASSUME Init PROVE CacheInv
  OBVIOUS
<1>1. \A c \in Callers : call[c] = Idle
  BY DEF Init
<1>2. TypeOK
  <2>1. Idle \in Call
    BY DEF Idle, Call
  <2>2. 0 \in 0 .. MaxFailures
    BY TokenSourceAssumption
  <2>3. \A c \in Callers : call[c].pc \in Locked <=> holder = c
    BY TokenSourceAssumption, <1>1 DEF Init, Idle, Locked
  <2>. QED  BY <2>1, <2>2, <2>3 DEF Init, TypeOK
<1>3. AsksWithoutToken /\ ReportsBadTokens
  BY <1>1 DEF AsksWithoutToken, ReportsBadTokens, Idle
<1>4. GoodIsCached /\ RetryMovedOn
  BY <1>1 DEF Init, GoodIsCached, Good, RetryMovedOn, Idle
<1>5. SuppressionEarned
  BY DEF Init, SuppressionEarned
<1>. QED  BY <1>2, <1>3, <1>4, <1>5 DEF CacheInv

(* The steps of a caller that leave the client's fields alone but for the   *)
(* mutex.                                                                   *)
LEMMA QuietSteps ==
    ASSUME CacheInv, NEW c \in Callers,
           StartCall(c) \/ Lock(c) \/ CachedToken(c) \/ BacksOff(c) \/ AsksKeycloak(c)
             \/ RefreshFails(c) \/ CallEnds(c) \/ Unauthorized(c)
    PROVE  CacheInv'
<1> USE TokenSourceAssumption DEF CacheInv, TypeOK, AsksWithoutToken, ReportsBadTokens, GoodIsCached,
        Good, RetryMovedOn, SuppressionEarned, Idle, Call, Locked, Goto, client
<1>1. CASE StartCall(c)  BY <1>1 DEF StartCall
<1>2. CASE Lock(c)  BY <1>2 DEF Lock
<1>3. CASE CachedToken(c)
  <2>1. /\ token \in issued /\ token # call[c].first
        /\ call' = [call EXCEPT ![c].pc = "send", ![c].tok = token]
        /\ call[c] \in Call
    BY <1>3 DEF CachedToken, Returns, Valid
  <2>2. TypeOK'
    <3>1. call' \in [Callers -> Call]
      BY <2>1
    <3>2. \A d \in Callers : call'[d].pc \in Locked <=> holder' = d
      BY <1>3, <2>1 DEF CachedToken, Returns
    <3>. QED  BY <1>3, <3>1, <3>2 DEF CachedToken, Returns
  <2>3. RetryMovedOn'
    BY <1>3, <2>1 DEF CachedToken, Returns
  <2>4. (AsksWithoutToken /\ ReportsBadTokens /\ GoodIsCached /\ SuppressionEarned)'
    BY <1>3, <2>1 DEF CachedToken, Returns
  <2>. QED  BY <2>2, <2>3, <2>4
<1>4. CASE BacksOff(c)  BY <1>4 DEF BacksOff, ReturnsNone
<1>5. CASE AsksKeycloak(c)  BY <1>5 DEF AsksKeycloak, Valid
<1>6. CASE RefreshFails(c)  BY <1>6 DEF RefreshFails
<1>7. CASE CallEnds(c)  BY <1>7 DEF CallEnds
<1>8. CASE Unauthorized(c)  BY <1>8 DEF Unauthorized, Refused
<1>. QED  BY <1>1, <1>2, <1>3, <1>4, <1>5, <1>6, <1>7, <1>8

(* Keycloak's answers: the new token is not one anybody has seen, and until *)
(* it came no usable token was left to the callers that compare.            *)
LEMMA KeycloakSteps ==
    ASSUME CacheInv, NEW c \in Callers, NEW t \in Tokens,
           KeycloakGrants(c, t) \/ KeycloakGrantsInvalid(c, t) \/ ReloginInvalid(c, t)
    PROVE  CacheInv'
<1> USE TokenSourceAssumption DEF CacheInv, TypeOK, AsksWithoutToken, ReportsBadTokens, GoodIsCached,
        Good, RetryMovedOn, SuppressionEarned, Idle, Call, Locked, Goto
<1>1. CASE KeycloakGrants(c, t)
  <2> USE <1>1 DEF KeycloakGrants, Issues, clearFailures, Returns
  <2>1. /\ t \notin issued /\ t # NoToken /\ token' = t /\ issued' = issued \cup {t}
        /\ expired' = expired /\ rejected' = rejected /\ failures' = 0 /\ streak' = 0
        /\ call' = [call EXCEPT ![c].pc = "send", ![c].tok = t]
    OBVIOUS
  <2>2. 0 \in 0 .. MaxFailures
    OBVIOUS
  <2>3. TypeOK'
    <3>1. call' \in [Callers -> Call]
      <4>1. call[c] \in Call /\ t \in Tokens
        OBVIOUS
      <4>2. [call[c] EXCEPT !.pc = "send", !.tok = t] \in Call
        BY <4>1
      <4>3. call' = [call EXCEPT ![c] = [call[c] EXCEPT !.pc = "send", !.tok = t]]
        BY <2>1
      <4>. QED  BY <4>2, <4>3
    <3>2. \A d \in Callers : call'[d].pc \in Locked <=> holder' = d
      BY <2>1
    <3>3. holder' \in Callers \cup {Nobody} /\ recent' \in BOOLEAN
      OBVIOUS
    <3>. QED  BY <2>1, <2>2, <3>1, <3>2, <3>3
  <2>4. RetryMovedOn'
    BY <2>1
  <2>5. (AsksWithoutToken /\ ReportsBadTokens)'
    BY <2>1
  <2>6. GoodIsCached'
    BY <2>1
  <2>. QED  BY <2>1, <2>3, <2>4, <2>5, <2>6
<1>2. CASE KeycloakGrantsInvalid(c, t)
  <2> USE <1>2 DEF KeycloakGrantsInvalid, Issues, clearFailures
  <2>1. /\ t \notin issued /\ t # NoToken /\ token' = t /\ issued' = issued \cup {t}
        /\ expired' = expired \cup {t} /\ rejected' = rejected /\ failures' = 0 /\ streak' = streak
        /\ holder' = holder
        /\ \E pc \in {"refresh", "relogin"} : call' = [call EXCEPT ![c].pc = pc]
    OBVIOUS
  <2>2. 0 \in 0 .. MaxFailures /\ streak \in Nat
    OBVIOUS
  <2>3. TypeOK'
    <3>1. call' \in [Callers -> Call]
      BY <2>1
    <3>2. \A d \in Callers : call'[d].pc \in Locked <=> holder' = d
      BY <2>1
    <3>3. holder' \in Callers \cup {Nobody} /\ recent' \in BOOLEAN
      OBVIOUS
    <3>. QED  BY <2>1, <2>2, <3>1, <3>2, <3>3
  <2>4. RetryMovedOn'
    BY <2>1
  <2>5. (AsksWithoutToken /\ ReportsBadTokens)'
    BY <2>1
  <2>6. GoodIsCached'
    BY <2>1
  <2>7. SuppressionEarned'
    BY <2>1, <2>2
  <2>. QED  BY <2>3, <2>4, <2>5, <2>6, <2>7
<1>3. CASE ReloginInvalid(c, t)
  BY <1>3 DEF ReloginInvalid, Issues, ReturnsNone, OneMore
<1>. QED  BY <1>1, <1>2, <1>3

(* An invalidation drops the cached token and sends the caller round again: *)
(* it keeps the invariant when the token it drops is bad or, like the one   *)
(* of Invalidate, when the callers compare nothing.                         *)
LEMMA DropSteps ==
    ASSUME CacheInv, NEW c \in Callers, call[c].pc = "invalidate", holder = Nobody,
           Drops, Retries(c), UNCHANGED <<compares, holder, issued, expired, rejected>>,
           token = call[c].tok \/ ~compares
    PROVE  CacheInv'
<1> USE TokenSourceAssumption DEF CacheInv, TypeOK, AsksWithoutToken, ReportsBadTokens, GoodIsCached,
        Good, RetryMovedOn, SuppressionEarned, Call, Locked, Retries, Drops, clearFailures
<1>1. /\ token' = NoToken /\ failures' = 0 /\ streak' = 0 /\ recent' = FALSE
      /\ call[c].tok \in issued /\ call[c].tok # NoToken /\ call[c].tok \in rejected \cup expired
      /\ call' = [call EXCEPT ![c] = [pc |-> "acquire", tok |-> NoToken, first |-> call[c].tok]]
  OBVIOUS
<1>2. TypeOK'
  <2>1. 0 \in 0 .. MaxFailures
    OBVIOUS
  <2>2. call' \in [Callers -> Call]
    BY <1>1
  <2>3. \A d \in Callers : call'[d].pc \in Locked <=> holder' = d
    BY <1>1
  <2>. QED  BY <1>1, <2>1, <2>2, <2>3
<1>3. RetryMovedOn'
  BY <1>1
<1>4. (AsksWithoutToken /\ ReportsBadTokens)'
  BY <1>1
<1>5. GoodIsCached'
  BY <1>1
<1>6. SuppressionEarned'
  BY <1>1
<1>. QED  BY <1>2, <1>3, <1>4, <1>5, <1>6

LEMMA InvalidationSteps ==
    ASSUME CacheInv, NEW c \in Callers, InvalidateToken(c) \/ Invalidate(c)
    PROVE  CacheInv'
<1>1. CASE InvalidateToken(c) /\ token = call[c].tok
  BY <1>1, DropSteps DEF InvalidateToken
<1>2. CASE InvalidateToken(c) /\ token # call[c].tok
  BY <1>2, TokenSourceAssumption
     DEF CacheInv, TypeOK, AsksWithoutToken, ReportsBadTokens, GoodIsCached, Good, RetryMovedOn,
         SuppressionEarned, Call, Locked, Retries, InvalidateToken
<1>3. CASE Invalidate(c)
  BY <1>3, DropSteps DEF Invalidate
<1>. QED  BY <1>1, <1>2, <1>3

LEMMA WorldSteps ==
    ASSUME CacheInv, \/ \E t \in Tokens : Expires(t) \/ Rejects(t)
                     \/ BackoffPasses
    PROVE  CacheInv'
<1> USE DEF CacheInv, TypeOK, AsksWithoutToken, ReportsBadTokens, GoodIsCached, Good, RetryMovedOn,
        SuppressionEarned, client, Locked
<1>1. ASSUME NEW t \in Tokens, Expires(t) PROVE CacheInv'
  BY <1>1 DEF Expires
<1>2. ASSUME NEW t \in Tokens, Rejects(t) PROVE CacheInv'
  BY <1>2 DEF Rejects
<1>3. CASE BackoffPasses
  BY <1>3 DEF BackoffPasses
<1>. QED  BY <1>1, <1>2, <1>3

LEMMA StepCache == CacheInv /\ [Next]_vars => CacheInv'
<1> SUFFICES ASSUME CacheInv, [Next]_vars PROVE CacheInv'
  OBVIOUS
<1>1. CASE UNCHANGED vars
  BY <1>1 DEF vars, CacheInv, TypeOK, AsksWithoutToken, ReportsBadTokens, GoodIsCached, Good,
              RetryMovedOn, SuppressionEarned, Locked
<1>2. ASSUME NEW c \in Callers, StartCall(c) \/ Step(c) PROVE CacheInv'
  <2>1. CASE StartCall(c) \/ Lock(c) \/ CachedToken(c) \/ BacksOff(c) \/ AsksKeycloak(c)
               \/ RefreshFails(c) \/ CallEnds(c) \/ Unauthorized(c)
    BY <2>1, QuietSteps
  <2>2. CASE \E t \in Tokens : KeycloakGrants(c, t) \/ KeycloakGrantsInvalid(c, t) \/ ReloginInvalid(c, t)
    BY <2>2, KeycloakSteps
  <2>3. CASE LoginFails(c)
    BY <2>3, TokenSourceAssumption
       DEF CacheInv, TypeOK, AsksWithoutToken, ReportsBadTokens, GoodIsCached, Good, RetryMovedOn,
           SuppressionEarned, Idle, Call, Locked, LoginFails, recordFailure, ReturnsNone, OneMore
  <2>4. CASE InvalidateToken(c) \/ Invalidate(c)  BY <2>4, InvalidationSteps
  <2>. QED  BY <1>2, <2>1, <2>2, <2>3, <2>4 DEF Step
<1>3. CASE (\E t \in Tokens : Expires(t) \/ Rejects(t)) \/ BackoffPasses  BY <1>3, WorldSteps
<1>. QED  BY <1>1, <1>2, <1>3 DEF Next

THEOREM CacheSound == Spec => []CacheInv
<1>1. CacheInv /\ [Next]_vars => CacheInv'  BY StepCache
<1>. QED  BY InitCache, <1>1, PTL DEF Spec

(* The state is well typed and exactly the holder of the mutex is between   *)
(* Lock and Unlock, in every reachable state.                               *)
THEOREM TokenSourceTypeCorrect == Spec => []TypeOK
<1>1. CacheInv => TypeOK  BY DEF CacheInv
<1>. QED  BY <1>1, CacheSound, PTL

(* For any number of workers: where all name the token they invalidate, at  *)
(* most one usable token exists.                                            *)
THEOREM OneTokenInUse == Spec => []OneGoodToken
<1>1. CacheInv => OneGoodToken  BY DEF CacheInv, GoodIsCached, OneGoodToken
<1>. QED  BY <1>1, CacheSound, PTL

(* The retry after a 401 never shows the refused token again, whichever of  *)
(* the two invalidations the other callers use.                             *)
THEOREM RetriesUseAnotherToken == Spec => []RetryUsesAnotherToken
<1>1. CacheInv => RetryUsesAnotherToken  BY DEF CacheInv, RetryMovedOn, RetryUsesAnotherToken
<1>. QED  BY <1>1, CacheSound, PTL

(* The counter never runs ahead of the failures in a row.                   *)
THEOREM SuppressionIsEarned == Spec => []SuppressionEarned
<1>1. CacheInv => SuppressionEarned  BY DEF CacheInv
<1>. QED  BY <1>1, CacheSound, PTL

=============================================================================
