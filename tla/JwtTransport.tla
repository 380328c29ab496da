----------------------------- MODULE JwtTransport -----------------------------
(***************************************************************************)
(* The authenticated HTTP transport that the agent and the central API     *)
(* client share between their goroutines (pkg/apiclient/auth_jwt.go):      *)
(* requests carry one token, which whoever finds it missing or about to    *)
(* expire renews under a mutex, and which a 401 or a network error throws  *)
(* away.                                                                   *)
(*                                                                         *)
(* Tokens are numbered as the server gives them out; 0 is the empty token. *)
(* A token is fresh, then aging (its last minute, which the client         *)
(* knows), then expired; the server may also revoke it, which the client   *)
(* learns from a 401 only.                                                 *)
(*                                                                         *)
(* The model starts once the transport is shared.  Before that its owner   *)
(* may have sent one login through it, alone: that request is retried like *)
(* the others but prepareRequest refreshes nothing for it, so that it      *)
(* carries the empty token each time.                                      *)
(***************************************************************************)
EXTENDS Integers, FiniteSets

CONSTANTS
    Requests,    \* concurrent calls of RoundTrip
    Denials,     \* the codes that throw the token away: 401 and 403
    Overloads,   \* the codes that only delay: 429, 503 and 504
    MaxAttempts, \* retries after each code (RetryConfig: 2 and 5)
    MaxTokens, MaxBad, MaxBusy, MaxErrors    \* bounds

Codes == Denials \cup Overloads
Free  == "free"
Going == {"start", "prepare", "sent", "reset", "drop"}
Ended == {"ok", "failed"} \cup Codes

\* What the constants must satisfy.
JwtAssumption ==
    /\ MaxAttempts \in [Codes -> Nat]
    /\ Denials \cap Overloads = {}
    /\ Codes \cap (Going \cup {"ok", "failed"}) = {}
    /\ Free \notin Requests
    /\ MaxTokens \in Nat

VARIABLES
    life,        \* what became of each token; "none" for one not given out
    given,       \* how many tokens the server has given out
    token,       \* t.Token
    holder,      \* who holds refreshTokenMutex
    pc,
    bearer,      \* the token of each request under way
    attempts,    \* attemptsCount, for each code
    rejected,    \* observer: tokens each request was denied for
    bad, busy, errors          \* faults so far

vars == <<life, given, token, holder, pc, bearer, attempts, rejected,
          bad, busy, errors>>

Tokens == 1..MaxTokens

(* What the owner leaves behind: no token, the one of its login, or one it   *)
(* read back from the database, which may be in its last minute or revoked.  *)
Authenticate ==
    \/ given = 0 /\ life = [n \in 0..MaxTokens |-> "none"]
    \/ /\ given = 1 /\ MaxTokens >= 1
       /\ \E s \in {"fresh", "aging", "revoked"} :
            life = [n \in 0..MaxTokens |-> IF n = 1 THEN s ELSE "none"]

Init ==
    /\ Authenticate
    /\ token = given
    /\ holder = Free
    /\ pc = [r \in Requests |-> "start"]
    /\ bearer = [r \in Requests |-> 0]
    /\ attempts = [r \in Requests |-> [c \in Codes |-> 0]]
    /\ rejected = [r \in Requests |-> {}]
    /\ bad = 0
    /\ busy = 0
    /\ errors = 0

-----------------------------------------------------------------------------
(* The server's side of a token's life. *)

Age ==
    /\ \E n \in Tokens :
         \/ life[n] = "fresh" /\ life' = [life EXCEPT ![n] = "aging"] /\ bad' = bad + 1
         \/ /\ life[n] \in {"aging", "revoked"}
            /\ life' = [life EXCEPT ![n] = "expired"]
            /\ bad' = bad
         \/ life[n] = "fresh" /\ life' = [life EXCEPT ![n] = "revoked"] /\ bad' = bad + 1
    /\ bad' <= MaxBad
    /\ UNCHANGED <<given, token, holder, pc, bearer, attempts, rejected, busy, errors>>

-----------------------------------------------------------------------------
(* RoundTrip. *)

(* prepareRequest takes the mutex for as long as it runs. *)
Lock(r) ==
    /\ pc[r] = "start"
    /\ holder = Free
    /\ holder' = r
    /\ pc' = [pc EXCEPT ![r] = "prepare"]
    /\ UNCHANGED <<life, given, token, bearer, attempts, rejected, bad, busy, errors>>

needsTokenRefresh == life[token] \in {"none", "aging", "expired"}

LoginFailed(r) ==
    /\ pc' = [pc EXCEPT ![r] = "failed"]
    /\ holder' = Free

(* refreshJwtToken, retries of its own included; with the new token the      *)
(* header is set and the mutex released.                                     *)
RefreshToken(r) ==
    /\ pc[r] = "prepare"
    /\ holder = r
    /\ needsTokenRefresh
    /\ \/ /\ given < MaxTokens
          /\ given' = given + 1
          /\ life' = [life EXCEPT ![given + 1] = "fresh"]
          /\ token' = given + 1
          /\ bearer' = [bearer EXCEPT ![r] = given + 1]
          /\ holder' = Free
          /\ pc' = [pc EXCEPT ![r] = "sent"]
          /\ UNCHANGED errors
       \/ /\ errors < MaxErrors
          /\ errors' = errors + 1
          /\ LoginFailed(r)
          /\ UNCHANGED <<life, given, token, bearer>>
    /\ UNCHANGED <<attempts, rejected, bad, busy>>

(* The token at hand is good. *)
Send(r) ==
    /\ pc[r] = "prepare"
    /\ holder = r
    /\ ~needsTokenRefresh
    /\ bearer' = [bearer EXCEPT ![r] = token]
    /\ holder' = Free
    /\ pc' = [pc EXCEPT ![r] = "sent"]
    /\ UNCHANGED <<life, given, token, attempts, rejected, bad, busy, errors>>

Accepts(n) == life[n] \in {"fresh", "aging"}

(* The answer: success, an overloaded server, a refused token or no answer. *)
AnswerOK(r) ==
    /\ pc[r] = "sent"
    /\ Accepts(bearer[r])
    /\ pc' = [pc EXCEPT ![r] = "ok"]
    /\ UNCHANGED <<life, given, token, holder, bearer, attempts, rejected, bad, busy, errors>>

(* Each code has its own count; the request that reached the last retry      *)
(* returns the answer it has.                                                *)
Retry(r, c, to) ==
    IF attempts[r][c] >= MaxAttempts[c]
      THEN pc' = [pc EXCEPT ![r] = c] /\ UNCHANGED attempts
      ELSE /\ pc' = [pc EXCEPT ![r] = to]
           /\ attempts' = [attempts EXCEPT ![r][c] = @ + 1]

AnswerBusy(r, c) ==
    /\ pc[r] = "sent"
    /\ busy < MaxBusy
    /\ busy' = busy + 1
    /\ Retry(r, c, "start")
    /\ UNCHANGED <<life, given, token, holder, bearer, rejected, bad, errors>>

(* A server may also deny what it asks for to a token that is good. *)
AnswerDenied(r, c) ==
    /\ pc[r] = "sent"
    /\ bad' = IF Accepts(bearer[r]) THEN bad + 1 ELSE bad
    /\ bad' <= MaxBad
    /\ rejected' = [rejected EXCEPT ![r] = @ \cup {bearer[r]}]
    /\ Retry(r, c, "reset")
    /\ UNCHANGED <<life, given, token, holder, bearer, busy, errors>>

NoAnswer(r) ==
    /\ pc[r] = "sent"
    /\ errors < MaxErrors
    /\ errors' = errors + 1
    /\ pc' = [pc EXCEPT ![r] = "drop"]
    /\ UNCHANGED <<life, given, token, holder, bearer, attempts, rejected, bad, busy>>

(* ResetToken, under the mutex: whatever token is there now. *)
DropToken == token' = 0

ResetToken(r) ==
    /\ pc[r] \in {"reset", "drop"}
    /\ holder = Free
    /\ DropToken
    /\ pc' = [pc EXCEPT ![r] = IF @ = "reset" THEN "start" ELSE "failed"]
    /\ UNCHANGED <<life, given, holder, bearer, attempts, rejected, bad, busy, errors>>

Step(r) ==
    \/ Lock(r) \/ RefreshToken(r) \/ Send(r) \/ ResetToken(r)
    \/ AnswerOK(r) \/ NoAnswer(r)
    \/ \E c \in Overloads : AnswerBusy(r, c)
    \/ \E c \in Denials : AnswerDenied(r, c)

Next == Age \/ \E r \in Requests : Step(r)

Spec == Init /\ [][Next]_vars

(* Goroutines run, every request is answered in the end or fails, and a     *)
(* mutex that is free again and again is granted in the end (Go's mutexes   *)
(* do not starve a waiter).                                                 *)
FairSpec ==
    /\ Spec
    /\ \A r \in Requests : WF_vars(Step(r)) /\ SF_vars(Lock(r)) /\ SF_vars(ResetToken(r))

-----------------------------------------------------------------------------
(* Every variable has its type; who prepares a request holds the mutex. *)
TypeOK ==
    /\ JwtAssumption
    /\ life \in [0..MaxTokens -> {"none", "fresh", "aging", "expired", "revoked"}]
    /\ given \in 0..MaxTokens
    /\ token \in 0..given
    /\ holder \in Requests \cup {Free}
    /\ pc \in [Requests -> Going \cup Ended]
    /\ bearer \in [Requests -> 0..given]
    /\ \A r \in Requests : pc[r] = "prepare" <=> holder = r
    /\ attempts \in [Requests -> [Codes -> Nat]]

(* A retry after a 401 or 403 never presents a token that the same request     *)
(* saw refused, although other requests renew and throw away the token         *)
(* between the answer and the retry, and between a 401 and a 503.  A request   *)
(* that gives up with 401 has therefore had more tokens refused than the       *)
(* retries allowed for 401.                                                    *)
RetryWithNewToken ==
    \A r \in Requests :
      /\ pc[r] = "sent" => bearer[r] \notin rejected[r]
      /\ \A c \in Denials : pc[r] = c => Cardinality(rejected[r]) > MaxAttempts[c]

(* A token is not sent in its last minute: one the server does not accept was   *)
(* revoked, or its last minute passed while the request was on its way.         *)
NotSentLate == [][\A r \in Requests : pc[r] = "prepare" /\ pc'[r] = "sent"
                                        => life'[bearer'[r]] \in {"fresh", "revoked"}]_vars

(* Every request ends, whoever fails with the mutex in hand. *)
RequestsEnd == \A r \in Requests : <>(pc[r] \in Ended)

-----------------------------------------------------------------------------
(* What the repository says and the code does not keep: TLC finds a        *)
(* behaviour against each of these, which the README describes.            *)

(* prepareRequest: renewing the token in several goroutines "is useless and    *)
(* will cause overload on CAPI. We use a mutex to avoid this": nobody logs in  *)
(* while the last token given out is as good as new.                           *)
NoUselessLogin == [][given' # given => given = 0 \/ life[given] # "fresh"]_vars

(* transport: the round tripper "retries once when the status is               *)
(* unauthorized".                                                              *)
RetriesOnce == \A r \in Requests : attempts[r]["401"] <= 1
=============================================================================
