---------------------------- MODULE TokenSource ----------------------------
(* The Keycloak credential the service's clients share (pkg/keycloak/       *)
(* client.go), and the loop every one of them runs around it: get a token,  *)
(* send the request, and on a 401 invalidate and send once more             *)
(* (sendAuthorized of pkg/pelecard, executeWithRetry of pkg/profiles and    *)
(* pkg/accounting).                                                         *)
(*                                                                          *)
(* One client is shared by many goroutines, here the callers; pelecard,     *)
(* profiles and accounting have one each, and a client is invalidated in    *)
(* only one of the two ways. Its mutex is held across logins and refreshes. *)
(* A token stops being valid when its claims say so (expired) or when the   *)
(* service it is shown to refuses it (rejected); its life may also end      *)
(* between the decoding, which looks at the claims, and the caller's look   *)
(* at them. Requests to Keycloak fail as they please.                       *)
EXTENDS Naturals, FiniteSets

CONSTANTS Callers,      \* goroutines that share the client
          Tokens,       \* what Keycloak can issue
          NoToken,      \* nil
          Nobody,       \* the mutex is free
          Threshold,    \* loginFailureThreshold
          MaxFailures   \* the counts stop here; only Threshold is ever looked at

ASSUME TokenSourceAssumption ==
    /\ NoToken \notin Tokens
    /\ Nobody \notin Callers
    /\ Threshold \in Nat \ {0}
    /\ MaxFailures \in Nat
    /\ MaxFailures >= Threshold

VARIABLES
    compares,   \* constant in a behaviour: the callers name the token they
                \* invalidate (pelecard's client) or do not (the others')
    holder,     \* mu: who holds it
    token,      \* token and claims, always of the same token
    failures,   \* failures
    recent,     \* lastFailure is less than loginFailureBackoff ago
    issued,     \* Keycloak: the tokens it has issued
    expired,    \* the tokens whose claims are not valid now
    rejected,   \* the tokens the services refuse
    call,       \* each caller's request
    streak      \* history: failed attempts since the last one that gave a
                \* token, or the last invalidation

client == <<compares, holder, token, failures, recent>>
vars == <<compares, holder, token, failures, recent, issued, expired, rejected, call, streak>>

(* acquire: waiting for the mutex in AccessToken; check: holding it; login, *)
(* refresh, relogin: the request to Keycloak it makes with the mutex held;  *)
(* send: the request with the token; invalidate: it was answered 401.       *)
Call == [pc : {"idle", "acquire", "check", "login", "refresh", "relogin", "send", "invalidate"},
         tok : Tokens \cup {NoToken},      \* the token of this send
         first : Tokens \cup {NoToken}]    \* on the retry: the token that was answered 401

(* The steps of a call between Lock and Unlock.                             *)
Locked == {"check", "login", "refresh", "relogin"}

Idle == [pc |-> "idle", tok |-> NoToken, first |-> NoToken]

TypeOK ==
    /\ compares \in BOOLEAN
    /\ holder \in Callers \cup {Nobody}
    /\ token \in Tokens \cup {NoToken}
    /\ failures \in 0 .. MaxFailures
    /\ recent \in BOOLEAN
    /\ issued \subseteq Tokens
    /\ expired \subseteq issued
    /\ rejected \subseteq issued
    /\ call \in [Callers -> Call]
    /\ streak \in 0 .. MaxFailures
    /\ \A c \in Callers : call[c].pc \in Locked <=> holder = c

Init ==
    /\ compares \in BOOLEAN
    /\ holder = Nobody
    /\ token = NoToken
    /\ failures = 0
    /\ recent = FALSE
    /\ issued = {}
    /\ expired = {}
    /\ rejected = {}
    /\ call = [c \in Callers |-> Idle]
    /\ streak = 0

-----------------------------------------------------------------------------
(* AccessToken.                                                             *)

Valid == token # NoToken /\ token \notin expired

BackingOff == failures >= Threshold /\ recent

Goto(c, pc) == call' = [call EXCEPT ![c].pc = pc]

(* The caller leaves AccessToken with t.                                    *)
Returns(c, t) ==
    /\ holder' = Nobody
    /\ call' = [call EXCEPT ![c].pc = "send", ![c].tok = t]

(* It leaves without one: its request ends with ErrNoCredential.            *)
ReturnsNone(c) ==
    /\ holder' = Nobody
    /\ call' = [call EXCEPT ![c] = Idle]

StartCall(c) ==
    /\ call[c].pc = "idle"
    /\ Goto(c, "acquire")
    /\ UNCHANGED <<client, issued, expired, rejected, streak>>

Lock(c) ==
    /\ call[c].pc = "acquire"
    /\ holder = Nobody
    /\ holder' = c
    /\ Goto(c, "check")
    /\ UNCHANGED <<compares, token, failures, recent, issued, expired, rejected, streak>>

CachedToken(c) ==
    /\ call[c].pc = "check"
    /\ Valid
    /\ Returns(c, token)
    /\ UNCHANGED <<compares, token, failures, recent, issued, expired, rejected, streak>>

BacksOff(c) ==
    /\ call[c].pc = "check"
    /\ ~Valid
    /\ BackingOff
    /\ ReturnsNone(c)
    /\ UNCHANGED <<compares, token, failures, recent, issued, expired, rejected, streak>>

AsksKeycloak(c) ==
    /\ call[c].pc = "check"
    /\ ~Valid
    /\ ~BackingOff
    /\ Goto(c, IF token = NoToken THEN "login" ELSE "refresh")
    /\ UNCHANGED <<client, issued, expired, rejected, streak>>

OneMore(n) == IF n < MaxFailures THEN n + 1 ELSE n

recordFailure ==
    /\ failures' = OneMore(failures)
    /\ recent' = TRUE

clearFailures_KeepsCount ==
    /\ failures' = failures
    /\ recent' = FALSE

clearFailures ==
    /\ failures' = 0
    /\ recent' = FALSE

(* A login or a refresh that Keycloak answers and that can be decoded. The  *)
(* new token is still valid when its claims are looked at, or is not.       *)
Issues(t, valid) ==
    /\ t \in Tokens \ issued
    /\ issued' = issued \cup {t}
    /\ expired' = IF valid THEN expired ELSE expired \cup {t}
    /\ token' = t
    /\ UNCHANGED <<compares, rejected>>

KeycloakGrants(c, t) ==
    /\ call[c].pc \in {"login", "refresh", "relogin"}
    /\ Issues(t, TRUE)
    /\ clearFailures
    /\ streak' = 0
    /\ Returns(c, t)

(* Not valid: after the first login a refresh is tried, after that a login, *)
(* and after that the attempt has failed.                                   *)
KeycloakGrantsInvalid(c, t) ==
    /\ call[c].pc \in {"login", "refresh"}
    /\ Issues(t, FALSE)
    /\ clearFailures
    /\ Goto(c, IF call[c].pc = "login" THEN "refresh" ELSE "relogin")
    /\ UNCHANGED <<holder, streak>>

(* The login's clearFailures runs before the claims are looked at.          *)
ReloginInvalid(c, t) ==
    /\ call[c].pc = "relogin"
    /\ Issues(t, FALSE)
    /\ failures' = 1
    /\ recent' = TRUE
    /\ streak' = OneMore(streak)
    /\ ReturnsNone(c)

RefreshFails_AsksAgain(c) ==
    /\ call[c].pc = "refresh"
    /\ UNCHANGED vars

RefreshFails(c) ==
    /\ call[c].pc = "refresh"
    /\ Goto(c, "relogin")
    /\ UNCHANGED <<client, issued, expired, rejected, streak>>

LoginFails(c) ==
    /\ call[c].pc \in {"login", "relogin"}
    /\ recordFailure
    /\ streak' = OneMore(streak)
    /\ ReturnsNone(c)
    /\ UNCHANGED <<compares, token, issued, expired, rejected>>

-----------------------------------------------------------------------------
(* The request with the token, and what a 401 does.                         *)

Refused(c) == call[c].tok \in rejected \cup expired

(* Answered with something else than 401, or not at all, or with a second   *)
(* 401 (ErrUnauthorized): what the token is does not force a first 401.     *)
CallEnds(c) ==
    /\ call[c].pc = "send"
    /\ call' = [call EXCEPT ![c] = Idle]
    /\ UNCHANGED <<client, issued, expired, rejected, streak>>

Unauthorized(c) ==
    /\ call[c].pc = "send"
    /\ Refused(c)
    /\ call[c].first = NoToken
    /\ Goto(c, "invalidate")
    /\ UNCHANGED <<client, issued, expired, rejected, streak>>

Retries(c) ==
    call' = [call EXCEPT ![c] = [pc |-> "acquire", tok |-> NoToken, first |-> call[c].tok]]

Drops_KeepsToken ==
    /\ UNCHANGED token
    /\ clearFailures
    /\ streak' = 0

(* The token is dropped, and an explicit "this token is bad" outranks the   *)
(* backoff.                                                                 *)
Drops ==
    /\ token' = NoToken
    /\ clearFailures
    /\ streak' = 0

InvalidateToken_Unnamed(c) ==
    /\ compares
    /\ call[c].pc = "invalidate"
    /\ holder = Nobody
    /\ Drops
    /\ Retries(c)
    /\ UNCHANGED <<compares, holder, issued, expired, rejected>>

InvalidateToken(c) ==
    /\ compares
    /\ call[c].pc = "invalidate"
    /\ holder = Nobody
    /\ IF token = call[c].tok THEN Drops
                              ELSE UNCHANGED <<token, failures, recent, streak>>
    /\ Retries(c)
    /\ UNCHANGED <<compares, holder, issued, expired, rejected>>

(* Invalidate of the profiles and accounting clients names no token.        *)
Invalidate(c) ==
    /\ ~compares
    /\ call[c].pc = "invalidate"
    /\ holder = Nobody
    /\ Drops
    /\ Retries(c)
    /\ UNCHANGED <<compares, holder, issued, expired, rejected>>

-----------------------------------------------------------------------------
(* Time and the services.                                                   *)

Expires(t) ==
    /\ t \in issued \ expired
    /\ expired' = expired \cup {t}
    /\ UNCHANGED <<client, issued, rejected, call, streak>>

Rejects(t) ==
    /\ t \in issued \ rejected
    /\ rejected' = rejected \cup {t}
    /\ UNCHANGED <<client, issued, expired, call, streak>>

(* loginFailureBackoff has gone by since the last failure.                  *)
BackoffPasses ==
    /\ recent
    /\ recent' = FALSE
    /\ UNCHANGED <<compares, holder, token, failures, issued, expired, rejected, call, streak>>

(* What a caller does by itself once its call has started.                  *)
Step(c) ==
    \/ Lock(c)
    \/ CachedToken(c)
    \/ BacksOff(c)
    \/ AsksKeycloak(c)
    \/ \E t \in Tokens : \/ KeycloakGrants(c, t)
                         \/ KeycloakGrantsInvalid(c, t)
                         \/ ReloginInvalid(c, t)
    \/ RefreshFails(c)
    \/ LoginFails(c)
    \/ CallEnds(c)
    \/ Unauthorized(c)
    \/ InvalidateToken(c)
    \/ Invalidate(c)

Next ==
    \/ \E c \in Callers : StartCall(c) \/ Step(c)
    \/ \E t \in Tokens : Expires(t) \/ Rejects(t)
    \/ BackoffPasses

Spec == Init /\ [][Next]_vars

(* Every request to Keycloak and to a service is bounded by a timeout, and  *)
(* Go's mutex hands itself to a goroutine that has waited (its starvation   *)
(* mode): a step that is possible again and again is taken.                 *)
FairSpec == Spec /\ \A c \in Callers : SF_vars(Step(c))

-----------------------------------------------------------------------------
Good(t) == t \in issued \ (expired \cup rejected)

(* Where the callers name the token they invalidate, at most one usable     *)
(* token exists: a caller that reacts to a 401 never throws away the token  *)
(* another one has just obtained, so one expiry costs one login, not one a  *)
(* worker (client.go, InvalidateToken).                                     *)
OneGoodToken ==
    compares => \A s, t \in Tokens : Good(s) /\ Good(t) => s = t

(* The retry after a 401 never shows the refused token again, whoever has   *)
(* invalidated, refreshed or logged in meanwhile; a second 401 is therefore *)
(* about another token (ErrUnauthorized, pelecard/api.go).                  *)
RetryUsesAnotherToken ==
    \A c \in Callers : call[c].pc = "send" => call[c].tok # call[c].first

(* No attempt is suppressed before as many have failed in a row, with no    *)
(* token obtained and none reported bad between them (client.go,            *)
(* loginFailureThreshold).                                                  *)
SuppressionEarned == failures <= streak

(* Whatever Keycloak and the services answer, and however often tokens go   *)
(* bad, a request gets its answer.                                          *)
CallsEnd == \A c \in Callers : call[c].pc # "idle" ~> call[c].pc = "idle"

=============================================================================
