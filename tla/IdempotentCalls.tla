-------------------------- MODULE IdempotentCalls --------------------------
(***************************************************************************)
(* Callers of the public API that pass an idempotency key: the retry loop  *)
(* of the SDK, packages/sdk/src/client.ts, on top of Idempotency.          *)
(*                                                                         *)
(* An attempt times out, or its connection breaks, whatever the server is  *)
(* doing with it, so several attempts of a call may be at work there.      *)
(***************************************************************************)
EXTENDS Idempotency

CONSTANTS
  Calls,      \* calls that share the key
  MaxAttempts \* 1 + maxRetries

ASSUME AttemptsAssumption == MaxAttempts \in Nat \ {0}
ASSUME RequestsAssumption == Requests = Calls \X (1..MaxAttempts)
\* A call sends the same bytes at every attempt.
ASSUME SameBytesAssumption ==
  \A c \in Calls, m, n \in 1..MaxAttempts : Asks[<<c, m>>] = Asks[<<c, n>>]

VARIABLES
  tries, \* attempts made
  call,  \* "ready" for an attempt, "waiting" for its answer, "done"
  answer \* what the caller was told

callVars == <<tries, call, answer>>
allVars == <<vars, callVars>>

CallTypeOK ==
  /\ TypeOK
  /\ tries \in [Calls -> 0..MaxAttempts]
  /\ call \in [Calls -> {"ready", "waiting", "done"}]
  /\ answer \in [Calls -> {"none", "unknown"} \cup Replies]

CallInit ==
  /\ Init
  /\ tries = [c \in Calls |-> 0]
  /\ call = [c \in Calls |-> "ready"]
  /\ answer = [c \in Calls |-> "none"]

Latest(c) == <<c, tries[c]>>
Attempts(c) == {c} \X (1..tries[c])

Attempt(c) ==
  /\ call[c] = "ready" /\ tries[c] < MaxAttempts
  /\ tries' = [tries EXCEPT ![c] = @ + 1]
  /\ call' = [call EXCEPT ![c] = "waiting"]
  /\ Arrive(<<c, tries[c] + 1>>)
  /\ UNCHANGED answer

Return(c, a) ==
  /\ call' = [call EXCEPT ![c] = "done"]
  /\ answer' = [answer EXCEPT ![c] = a]

\* Another attempt, or the last error is thrown.
RetryOrElse(c, a) ==
  \/ tries[c] < MaxAttempts /\ call' = [call EXCEPT ![c] = "ready"] /\ UNCHANGED answer
  \/ tries[c] = MaxAttempts /\ Return(c, a)

\* KaneraApiError.isRetryable
Retryable == {"limited", "failed"}

Receive(c) ==
  /\ call[c] = "waiting" /\ stage[Latest(c)] = "answered"
  /\ LET a == reply[Latest(c)] IN
       \/ a \in Retryable /\ RetryOrElse(c, a)
       \/ a \notin Retryable /\ Return(c, a)
  /\ UNCHANGED <<vars, tries>>

\* KaneraConnectionError: a time-out, a broken connection, a dead server.
ConnectionFails(c) ==
  /\ call[c] = "waiting"
  /\ RetryOrElse(c, "unknown")
  /\ UNCHANGED <<vars, tries>>

\* The caller's own signal, also between two attempts, or an answer whose body
\* breaks off: thrown as it is.
Abort(c) ==
  /\ call[c] # "done" /\ tries[c] > 0
  /\ Return(c, "unknown")
  /\ UNCHANGED <<vars, tries>>

CallNext ==
  \/ \E c \in Calls : Attempt(c) \/ Receive(c) \/ ConnectionFails(c) \/ Abort(c)
  \/ (\E r \in Requests : Serve(r)) /\ UNCHANGED callVars
  \/ Expire /\ UNCHANGED callVars

CallSpec == CallInit /\ [][CallNext]_allVars

-----------------------------------------------------------------------------
(* Properties. *)

\* A caller that is told of success has its mutation, as it sent it, in the
\* database, whichever attempt, or whichever other call, did it.
SuccessIsOurs ==
  \A c \in Calls : answer[c] = "ok" => \E q \in committed : Asks[q] = Asks[<<c, 1>>]

\* Two calls that both succeed before the key runs out share one mutation,
\* unless some request reported a server failure for what it had done.
SuccessIsShared ==
  \A c, d \in Calls :
    ~lapsed /\ Spoiled = {} /\ answer[c] = "ok" /\ answer[d] = "ok"
      => \E r \in Requests : committed = {r} /\ Asks[r] = Asks[<<c, 1>>]
                                             /\ Asks[r] = Asks[<<d, 1>>]

\* The next two are what the documentation says; the code does otherwise.

\* SDK: the key makes a mutation safe to retry, the API "retains the first
\* outcome for 24 hours and replays it rather than performing the write twice".
RetriesWriteOnce ==
  \A c \in Calls : ~lapsed =>
    \A q, r \in committed \cap Attempts(c) : q = r

\* API: a rate-limited caller is told to "Retry shortly", and the hook means not
\* to "pin a transient failure to the key": a retry under the key is served, or
\* limited afresh, but never answered with the recorded 429 of an earlier attempt.
LimitIsNotReplayed ==
  [][\A c \in Calls, n \in 1..MaxAttempts :
       stage[<<c, n>>] = "read" => reply'[<<c, n>>] # "limited"]_allVars
=============================================================================
