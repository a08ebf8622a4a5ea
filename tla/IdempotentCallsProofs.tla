----------------------- MODULE IdempotentCallsProofs -----------------------
(***************************************************************************)
(* Theorems about Idempotency and IdempotentCalls, for every set of        *)
(* requests and calls, every assignment of fingerprints, every number of   *)
(* attempts and every bound on faults: what the server guarantees, and how *)
(* it reaches the callers.                                                 *)
(***************************************************************************)
EXTENDS IdempotentCalls, TLAPS

-----------------------------------------------------------------------------
(* The inductive invariant. *)

\* The record belongs to a request that came past the claim, and a request in
\* its handler, or about to write after its GET, owns the pending one.
Held ==
  /\ record # "none" => owner \in Requests
  /\ \A r \in Requests :
       /\ stage[r] \in {"handle", "store", "drop"} => record = "pending" /\ owner = r
       /\ stage[r] \in {"unsent", "claim", "read", "reclaim"} => owner # r

\* Only a request that is through its handler has a reply of its own or a
\* committed mutation; a success means one, its own or the owner's.
Earned ==
  /\ \A r \in Requests :
       stage[r] \in {"unsent", "claim", "read", "reclaim", "handle"} =>
         reply[r] = "none" /\ r \notin committed
  /\ \A r \in Requests : stage[r] \in {"settle", "store", "drop"} => reply[r] \in Kept \cup {"failed"}
  /\ \A r \in Requests : stage[r] = "store" => reply[r] # "failed"
  /\ \A r \in Requests : stage[r] = "drop" => reply[r] = "failed"
  /\ SuccessIsReal
  /\ record = "ok" => \E q \in committed : Asks[q] = Asks[owner]

\* Until the record runs out, whoever committed without reporting a failure
\* still has it.
Once == ~lapsed => \A r \in committed \ Spoiled : record # "none" /\ owner = r

IInv == TypeOK /\ Held /\ Earned /\ Once /\ LockHasCause

-----------------------------------------------------------------------------
(* One lemma per action. *)

\* A request that comes in changes nothing but its stage.
LEMMA ArriveStep ==
  ASSUME IInv, NEW r \in Requests, Arrive(r)
  PROVE  IInv'
<1> USE NoRequestAssumption, FaultsAssumption, AsksAssumption DEF IInv
<1>1. TypeOK'
  BY DEF TypeOK, Arrive, Goto, Reply, Kept, Replies, Working
<1>2. Held'
  BY DEF TypeOK, Held, Arrive, Goto, Reply, Kept, Replies, Working
<1>3. Earned'
  BY DEF TypeOK, Held, Earned, SuccessIsReal, Arrive, Goto, Reply, Kept, Replies, Working
<1>4. Once'
  BY DEF TypeOK, Held, Earned, Once, Spoiled, Arrive, Goto, Reply, Kept, Replies, Working
<1>5. LockHasCause'
  BY DEF TypeOK, Held, Earned, LockHasCause, Arrive, Goto, Reply, Kept, Replies, Working
<1> QED
  BY <1>1, <1>2, <1>3, <1>4, <1>5

\* A request turned away never wrote a record.
LEMMA TurnAwayStep ==
  ASSUME IInv, NEW r \in Requests, TurnAway(r)
  PROVE  IInv'
<1> USE NoRequestAssumption, FaultsAssumption, AsksAssumption DEF IInv
<1>1. TypeOK'
  BY DEF TypeOK, TurnAway, Goto, Reply, Kept, Replies, Working
<1>2. Held'
  BY DEF TypeOK, Held, TurnAway, Goto, Reply, Kept, Replies, Working
<1>3. Earned'
  BY DEF TypeOK, Held, Earned, SuccessIsReal, TurnAway, Goto, Reply, Kept, Replies, Working
<1>4. Once'
  BY DEF TypeOK, Held, Earned, Once, Spoiled, TurnAway, Goto, Reply, Kept, Replies, Working
<1>5. LockHasCause'
  BY DEF TypeOK, Held, Earned, LockHasCause, TurnAway, Goto, Reply, Kept, Replies, Working
<1> QED
  BY <1>1, <1>2, <1>3, <1>4, <1>5

\* SET NX gives the record to a request only when nobody has it.
LEMMA ClaimStep ==
  ASSUME IInv, NEW r \in Requests, Claim(r)
  PROVE  IInv'
<1> USE NoRequestAssumption, FaultsAssumption, AsksAssumption DEF IInv
<1>1. TypeOK'
  BY DEF TypeOK, Claim, Take, Goto, Reply, Kept, Replies, Working
<1>2. Held'
  BY DEF TypeOK, Held, Claim, Take, Goto, Reply, Kept, Replies, Working
<1>3. Earned'
  BY DEF TypeOK, Held, Earned, SuccessIsReal, Claim, Take, Goto, Reply, Kept, Replies, Working
<1>4. Once'
  BY DEF TypeOK, Held, Earned, Once, Spoiled, Claim, Take, Goto, Reply, Kept, Replies, Working
<1>5. LockHasCause'
  BY DEF TypeOK, Held, Earned, LockHasCause, Claim, Take, Goto, Reply, Kept, Replies, Working
<1> QED
  BY <1>1, <1>2, <1>3, <1>4, <1>5

\* A replay has the fingerprint of the owner, whose success was earned.
LEMMA ReadStep ==
  ASSUME IInv, NEW r \in Requests, Read(r)
  PROVE  IInv'
<1> USE NoRequestAssumption, FaultsAssumption, AsksAssumption DEF IInv
<1>1. TypeOK'
  BY DEF TypeOK, Read, Answer, Goto, Reply, Kept, Replies, Working
<1>2. Held'
  BY DEF TypeOK, Held, Read, Answer, Goto, Reply, Kept, Replies, Working
<1>3. Earned'
  BY DEF TypeOK, Held, Earned, SuccessIsReal, Read, Answer, Goto, Reply, Kept, Replies, Working
<1>4. Once'
  BY DEF TypeOK, Held, Earned, Once, Spoiled, Read, Answer, Goto, Reply, Kept, Replies, Working
<1>5. LockHasCause'
  BY DEF TypeOK, Held, Earned, LockHasCause, Read, Answer, Goto, Reply, Kept, Replies, Working
<1> QED
  BY <1>1, <1>2, <1>3, <1>4, <1>5

\* The second SET NX excludes like the first.
LEMMA ReclaimStep ==
  ASSUME IInv, NEW r \in Requests, Reclaim(r)
  PROVE  IInv'
<1> USE NoRequestAssumption, FaultsAssumption, AsksAssumption DEF IInv
<1>1. TypeOK'
  BY DEF TypeOK, Reclaim, Take, Answer, Goto, Reply, Kept, Replies, Working
<1>2. Held'
  BY DEF TypeOK, Held, Reclaim, Take, Answer, Goto, Reply, Kept, Replies, Working
<1>3. Earned'
  BY DEF TypeOK, Held, Earned, SuccessIsReal, Reclaim, Take, Answer, Goto, Reply, Kept, Replies, Working
<1>4. Once'
  BY DEF TypeOK, Held, Earned, Once, Spoiled, Reclaim, Take, Answer, Goto, Reply, Kept, Replies, Working
<1>5. LockHasCause'
  BY DEF TypeOK, Held, Earned, LockHasCause, Reclaim, Take, Answer, Goto, Reply, Kept, Replies, Working
<1> QED
  BY <1>1, <1>2, <1>3, <1>4, <1>5

\* A SET carried out for a request that failed locks the key, with a cause.
LEMMA ClaimFailsStep ==
  ASSUME IInv, NEW r \in Requests, ClaimFails(r)
  PROVE  IInv'
<1> USE NoRequestAssumption, FaultsAssumption, AsksAssumption DEF IInv
<1>1. TypeOK'
  BY DEF TypeOK, ClaimFails, Answer, Fault, Goto, Reply, Kept, Replies, Working
<1>2. Held'
  BY DEF TypeOK, Held, ClaimFails, Answer, Fault, Goto, Reply, Kept, Replies, Working
<1>3. Earned'
  BY DEF TypeOK, Held, Earned, SuccessIsReal, ClaimFails, Answer, Fault, Goto, Reply, Kept, Replies, Working
<1>4. Once'
  BY DEF TypeOK, Held, Earned, Once, Spoiled, ClaimFails, Answer, Fault, Goto, Reply, Kept, Replies, Working
<1>5. LockHasCause'
  BY DEF TypeOK, Held, Earned, LockHasCause, ClaimFails, Answer, Fault, Goto, Reply, Kept, Replies, Working
<1> QED
  BY <1>1, <1>2, <1>3, <1>4, <1>5

\* The handler runs under the request's own pending record.
LEMMA HandleStep ==
  ASSUME IInv, NEW r \in Requests, Handle(r)
  PROVE  IInv'
<1> USE NoRequestAssumption, FaultsAssumption, AsksAssumption DEF IInv
<1>1. TypeOK'
  BY DEF TypeOK, Handle, Fault, Goto, Reply, Kept, Replies, Working
<1>2. Held'
  BY DEF TypeOK, Held, Handle, Fault, Goto, Reply, Kept, Replies, Working
<1>3. Earned'
  BY DEF TypeOK, Held, Earned, SuccessIsReal, Handle, Fault, Goto, Reply, Kept, Replies, Working
<1>4. Once'
  BY DEF TypeOK, Held, Earned, Once, Spoiled, Handle, Fault, Goto, Reply, Kept, Replies, Working
<1>5. LockHasCause'
  BY DEF TypeOK, Held, Earned, LockHasCause, Handle, Fault, Goto, Reply, Kept, Replies, Working
<1> QED
  BY <1>1, <1>2, <1>3, <1>4, <1>5

\* The GET decides by the record as it is; nothing can change it before the write.
LEMMA SettleStep ==
  ASSUME IInv, NEW r \in Requests, Settle(r)
  PROVE  IInv'
<1> USE NoRequestAssumption, FaultsAssumption, AsksAssumption DEF IInv
<1>1. TypeOK'
  BY DEF TypeOK, Settle, OwnPending, Goto, Reply, Kept, Replies, Working
<1>2. Held'
  BY DEF TypeOK, Held, Settle, OwnPending, Goto, Reply, Kept, Replies, Working
<1>3. Earned'
  BY DEF TypeOK, Held, Earned, SuccessIsReal, Settle, OwnPending, Goto, Reply, Kept, Replies, Working
<1>4. Once'
  BY DEF TypeOK, Held, Earned, Once, Spoiled, Settle, OwnPending, Goto, Reply, Kept, Replies, Working
<1>5. LockHasCause'
  BY DEF TypeOK, Held, Earned, LockHasCause, Settle, OwnPending, Goto, Reply, Kept, Replies, Working
<1> QED
  BY <1>1, <1>2, <1>3, <1>4, <1>5

\* The owner completes its own pending record.
LEMMA StoreStep ==
  ASSUME IInv, NEW r \in Requests, Store(r)
  PROVE  IInv'
<1> USE NoRequestAssumption, FaultsAssumption, AsksAssumption DEF IInv
<1>1. TypeOK'
  BY DEF TypeOK, Earned, Store, Complete, Goto, Reply, Kept, Replies, Working
<1>2. Held'
  BY DEF TypeOK, Held, Store, Complete, Goto, Reply, Kept, Replies, Working
<1>3. Earned'
  BY DEF TypeOK, Held, Earned, SuccessIsReal, Store, Complete, Goto, Reply, Kept, Replies, Working
<1>4. Once'
  BY DEF TypeOK, Held, Earned, Once, Spoiled, Store, Complete, Goto, Reply, Kept, Replies, Working
<1>5. LockHasCause'
  BY DEF TypeOK, Held, Earned, LockHasCause, Store, Complete, Goto, Reply, Kept, Replies, Working
<1> QED
  BY <1>1, <1>2, <1>3, <1>4, <1>5

\* The owner removes its own pending record, having reported a failure.
LEMMA DropStep ==
  ASSUME IInv, NEW r \in Requests, Drop(r)
  PROVE  IInv'
<1> USE NoRequestAssumption, FaultsAssumption, AsksAssumption DEF IInv
<1>1. TypeOK'
  BY DEF TypeOK, Drop, Remove, Goto, Reply, Kept, Replies, Working
<1>2. Held'
  BY DEF TypeOK, Held, Drop, Remove, Goto, Reply, Kept, Replies, Working
<1>3. Earned'
  BY DEF TypeOK, Held, Earned, SuccessIsReal, Drop, Remove, Goto, Reply, Kept, Replies, Working
<1>4. Once'
  BY DEF TypeOK, Held, Earned, Once, Spoiled, Drop, Remove, Goto, Reply, Kept, Replies, Working
<1>5. LockHasCause'
  BY DEF TypeOK, Held, Earned, LockHasCause, Drop, Remove, Goto, Reply, Kept, Replies, Working
<1> QED
  BY <1>1, <1>2, <1>3, <1>4, <1>5

\* Whatever a failed command did, the reply is a failure from now on.
LEMMA SettleFailsStep ==
  ASSUME IInv, NEW r \in Requests, SettleFails(r)
  PROVE  IInv'
<1> USE NoRequestAssumption, FaultsAssumption, AsksAssumption DEF IInv
<1>1. TypeOK'
  BY DEF TypeOK, Earned, SettleFails, Complete, Remove, Fault, Goto, Reply, Kept, Replies, Working
<1>2. Held'
  BY DEF TypeOK, Held, SettleFails, Complete, Remove, Fault, Goto, Reply, Kept, Replies, Working
<1>3. Earned'
  BY DEF TypeOK, Held, Earned, SuccessIsReal, SettleFails, Complete, Remove, Fault, Goto, Reply, Kept, Replies, Working
<1>4. Once'
  BY DEF TypeOK, Held, Earned, Once, Spoiled, SettleFails, Complete, Remove, Fault, Goto, Reply, Kept, Replies, Working
<1>5. LockHasCause'
  BY DEF TypeOK, Held, Earned, LockHasCause, SettleFails, Complete, Remove, Fault, Goto, Reply, Kept, Replies, Working
<1> QED
  BY <1>1, <1>2, <1>3, <1>4, <1>5

\* A dead request keeps the record it had.
LEMMA CrashStep ==
  ASSUME IInv, NEW r \in Requests, Crash(r)
  PROVE  IInv'
<1> USE NoRequestAssumption, FaultsAssumption, AsksAssumption DEF IInv
<1>1. TypeOK'
  BY DEF TypeOK, Crash, Fault, Goto, Reply, Kept, Replies, Working
<1>2. Held'
  BY DEF TypeOK, Held, Crash, Fault, Goto, Reply, Kept, Replies, Working
<1>3. Earned'
  BY DEF TypeOK, Held, Earned, SuccessIsReal, Crash, Fault, Goto, Reply, Kept, Replies, Working
<1>4. Once'
  BY DEF TypeOK, Held, Earned, Once, Spoiled, Crash, Fault, Goto, Reply, Kept, Replies, Working
<1>5. LockHasCause'
  BY DEF TypeOK, Held, Earned, LockHasCause, Crash, Fault, Goto, Reply, Kept, Replies, Working
<1> QED
  BY <1>1, <1>2, <1>3, <1>4, <1>5

\* Time removes a record that no request at work owns.
LEMMA ExpireStep ==
  ASSUME IInv, Expire
  PROVE  IInv'
<1> USE NoRequestAssumption DEF IInv
<1>1. TypeOK' /\ Held'
  BY DEF TypeOK, Held, Expire, Remove, Working
<1>2. Earned'
  BY DEF TypeOK, Earned, SuccessIsReal, Expire, Remove
<1>3. Once' /\ LockHasCause'
  BY DEF Once, LockHasCause, Expire, Remove
<1> QED
  BY <1>1, <1>2, <1>3

\* No record, no request, nothing committed.
LEMMA InitHolds == Init => IInv
<1> SUFFICES ASSUME Init
             PROVE  IInv
  OBVIOUS
<1>1. TypeOK
  BY DEF Init, TypeOK, Kept, Replies, Working
<1>2. Held /\ Earned
  BY NoRequestAssumption DEF Init, Held, Earned, SuccessIsReal
<1>3. Once /\ LockHasCause
  BY DEF Init, Once, Spoiled, LockHasCause
<1> QED
  BY <1>1, <1>2, <1>3 DEF IInv

\* Every step keeps the strengthened invariant, each action by its lemma.
LEMMA StepKeeps == IInv /\ [Next]_vars => IInv'
<1> SUFFICES ASSUME IInv, [Next]_vars
             PROVE  IInv'
  OBVIOUS
<1>1. ASSUME NEW r \in Requests, Arrive(r) \/ Serve(r)
      PROVE  IInv'
  BY <1>1, ArriveStep, TurnAwayStep, ClaimStep, ReadStep, ReclaimStep,
     ClaimFailsStep, HandleStep, SettleStep, StoreStep, DropStep,
     SettleFailsStep, CrashStep DEF Serve
<1>2. CASE Expire
  BY <1>2, ExpireStep
<1>3. CASE UNCHANGED vars
  BY <1>3 DEF vars, IInv, TypeOK, Held, Earned, Once, Spoiled, LockHasCause,
              SuccessIsReal
<1> QED
  BY <1>1, <1>2, <1>3 DEF Next

-----------------------------------------------------------------------------
(* The theorems. *)

\* The strengthened invariant holds throughout.
THEOREM Invariance == Spec => []IInv
  BY InitHolds, StepKeeps, PTL DEF Spec

\* A SET NX, its retry and the removal after a failure exclude two handlers of
\* one key, for any number of requests and faults.
THEOREM HandlersExclude == Spec => []OneHandler
<1>1. IInv => OneHandler
  BY DEF IInv, Held, OneHandler
<1> QED
  BY <1>1, Invariance, PTL

\* Until a record runs out, only a reported failure makes room for a second
\* mutation under the key.
THEOREM MutationIsDoneOnce == Spec => []DoneOnce
<1>1. IInv => DoneOnce
  BY DEF IInv, Once, DoneOnce
<1> QED
  BY <1>1, Invariance, PTL

\* Whoever is told of success, directly or by a replay, has its mutation.
THEOREM SuccessIsEarned == Spec => []SuccessIsReal
<1>1. IInv => SuccessIsReal
  BY DEF IInv, Earned
<1> QED
  BY <1>1, Invariance, PTL

\* Only work in progress, a death or a failure keeps the key locked.
THEOREM LocksHaveCauses == Spec => []LockHasCause
<1>1. IInv => LockHasCause
  BY DEF IInv
<1> QED
  BY <1>1, Invariance, PTL

\* No step of a request replaces or removes a complete record.
THEOREM FirstOutcomeIsKept == Spec => FirstOutcomeStays
<1>1. IInv /\ [Next]_vars => [(record \in Kept) =>
        \/ record' = record /\ owner' = owner
        \/ record' = "none" /\ UNCHANGED stage]_vars
  <2> SUFFICES ASSUME IInv, Next, record \in Kept
               PROVE  \/ record' = record /\ owner' = owner
                      \/ record' = "none" /\ UNCHANGED stage
    OBVIOUS
  <2>1. record # "none" /\ record # "pending"
    BY DEF Kept
  <2>2. ASSUME NEW r \in Requests, Arrive(r) \/ Serve(r)
        PROVE  record' = record /\ owner' = owner
    <3>1. stage[r] \notin {"handle", "store", "drop"}
      BY <2>1 DEF IInv, Held
    <3> QED
      BY <2>1, <2>2, <3>1
         DEF Serve, Arrive, TurnAway, Claim, Take, Read, Reclaim, ClaimFails,
             Handle, Settle, Store, Drop, SettleFails, Crash
  <2>3. CASE Expire
    BY <2>3 DEF Expire, Remove
  <2> QED
    BY <2>2, <2>3 DEF Next
<1> QED
  BY <1>1, Invariance, PTL DEF Spec, FirstOutcomeStays

-----------------------------------------------------------------------------
(* The callers. *)

\* A waiting call has made an attempt, and its success is in the database.
CallInv ==
  /\ tries \in [Calls -> 0..MaxAttempts]
  /\ call \in [Calls -> {"ready", "waiting", "done"}]
  /\ answer \in [Calls -> {"none", "unknown"} \cup Replies]
  /\ \A c \in Calls : call[c] = "waiting" => tries[c] \in 1..MaxAttempts
  /\ SuccessIsOurs

AllInv == IInv /\ CallInv

\* The callers only decide when requests arrive: beneath them runs Idempotency.
LEMMA CallStepIsServerStep ==
  ASSUME CallInv, [CallNext]_allVars
  PROVE  [Next]_vars
<1>1. ASSUME NEW c \in Calls, Attempt(c)
      PROVE  Next
  <2>1. <<c, tries[c] + 1>> \in Requests
    BY <1>1, AttemptsAssumption, RequestsAssumption DEF CallInv, Attempt
  <2> QED
    BY <1>1, <2>1 DEF Attempt, Next
<1>2. ASSUME NEW c \in Calls, Receive(c) \/ ConnectionFails(c) \/ Abort(c)
      PROVE  UNCHANGED vars
  BY <1>2 DEF Receive, ConnectionFails, Abort, vars
<1> QED
  BY <1>1, <1>2 DEF CallNext, allVars, Next

\* Mutations are never taken back.
LEMMA CommitsStay ==
  ASSUME [Next]_vars
  PROVE  committed \subseteq committed'
<1>1. ASSUME NEW r \in Requests, Arrive(r) \/ Serve(r)
      PROVE  committed \subseteq committed'
  BY <1>1 DEF Serve, Arrive, TurnAway, Claim, Read, Reclaim, ClaimFails, Handle,
              Settle, Store, Drop, SettleFails, Crash
<1> QED
  BY <1>1 DEF Next, Expire, vars

\* Another attempt or the last error: neither reports a success.
LEMMA RetryKeeps ==
  ASSUME CallInv, NEW c \in Calls, call[c] = "waiting",
         NEW a \in {"unknown"} \cup Replies, a # "ok", RetryOrElse(c, a),
         UNCHANGED tries, committed \subseteq committed'
  PROVE  CallInv'
  BY DEF CallInv, SuccessIsOurs, RetryOrElse, Return

\* What the callers know follows from what the server guarantees.
LEMMA CallStepKeeps ==
  ASSUME AllInv, [CallNext]_allVars
  PROVE  AllInv'
<1> USE DEF AllInv
<1>1. [Next]_vars
  BY CallStepIsServerStep
<1>2. IInv' /\ committed \subseteq committed'
  BY <1>1, StepKeeps, CommitsStay
<1>3. ASSUME NEW c \in Calls, Attempt(c)
      PROVE  CallInv'
  BY <1>2, <1>3, AttemptsAssumption DEF CallInv, SuccessIsOurs, Attempt
<1>4. ASSUME NEW c \in Calls, Receive(c)
      PROVE  CallInv'
  <2> DEFINE a == reply[Latest(c)]
  <2>1. call[c] = "waiting" /\ stage[Latest(c)] = "answered" /\ UNCHANGED <<tries, committed>>
    BY <1>4 DEF Receive, vars
  <2>2. tries[c] \in 1..MaxAttempts /\ Latest(c) \in Requests
    BY <2>1, RequestsAssumption DEF CallInv, Latest
  <2>3. a \in {"none"} \cup Replies
    BY <2>2 DEF IInv, TypeOK
  <2>4. CASE a \in Retryable /\ RetryOrElse(c, a)
    <3>1. a \in Replies /\ a # "ok"
      BY <2>4 DEF Retryable, Replies, Kept
    <3> QED
      BY <2>1, <2>4, <3>1, RetryKeeps
  <2>5. CASE Return(c, a)
    <3>1. a = "ok" => \E q \in committed : Asks[q] = Asks[<<c, 1>>]
      <4> HAVE a = "ok"
      <4>1. PICK q \in committed : Asks[q] = Asks[Latest(c)]
        BY <2>2 DEF IInv, Earned, SuccessIsReal
      <4>2. Asks[Latest(c)] = Asks[<<c, 1>>]
        BY <2>2, SameBytesAssumption, AttemptsAssumption DEF Latest
      <4> QED
        BY <4>1, <4>2
    <3> QED
      BY <2>1, <2>3, <2>5, <3>1 DEF CallInv, SuccessIsOurs, Return
  <2> QED
    BY <1>4, <2>4, <2>5 DEF Receive
<1>5. ASSUME NEW c \in Calls, ConnectionFails(c)
      PROVE  CallInv'
  BY <1>2, <1>5, RetryKeeps DEF ConnectionFails
<1>6. ASSUME NEW c \in Calls, Abort(c)
      PROVE  CallInv'
  BY <1>2, <1>6 DEF CallInv, SuccessIsOurs, Abort, Return
<1>7. CASE UNCHANGED callVars
  BY <1>2, <1>7 DEF CallInv, SuccessIsOurs, callVars
<1> QED
  BY <1>2, <1>3, <1>4, <1>5, <1>6, <1>7 DEF CallNext, allVars
-----------------------------------------------------------------------------
(* The theorems. *)

\* The server's invariant and the callers' hold together.
THEOREM CallInvariance == CallSpec => []AllInv
<1>1. CallInit => AllInv
  <2> SUFFICES ASSUME CallInit
               PROVE  AllInv
    OBVIOUS
  <2>1. IInv
    BY InitHolds DEF CallInit
  <2>2. CallInv
    BY AttemptsAssumption DEF CallInit, CallInv, SuccessIsOurs
  <2> QED
    BY <2>1, <2>2 DEF AllInv
<1>2. AllInv /\ [CallNext]_allVars => AllInv'
  BY CallStepKeeps
<1> QED
  BY <1>1, <1>2, PTL DEF CallSpec

\* Attempts stay within the budget of the SDK, and a caller holds one of
\* the answers it may get.
THEOREM CallsAreTyped == CallSpec => []CallTypeOK
<1>1. AllInv => CallTypeOK
  BY DEF AllInv, CallInv, IInv, CallTypeOK
<1> QED
  BY <1>1, CallInvariance, PTL

\* Whatever the callers do, the server beneath behaves as Idempotency says, so
\* that all that is proved of it holds here.
THEOREM ServerBeneath == CallSpec => Spec
<1>1. CallInit => Init
  BY DEF CallInit
<1>2. AllInv /\ [CallNext]_allVars => [Next]_vars
  BY CallStepIsServerStep DEF AllInv
<1> QED
  BY <1>1, <1>2, CallInvariance, PTL DEF CallSpec, Spec

\* A caller told of success has its mutation in the database, across retries,
\* lost answers, crashes and other calls with the key.
THEOREM CallersAreToldTheTruth == CallSpec => []SuccessIsOurs
<1>1. AllInv => SuccessIsOurs
  BY DEF AllInv, CallInv
<1> QED
  BY <1>1, CallInvariance, PTL

\* Two successes under one key are one mutation, until the key runs out and
\* failures after a commit aside.
THEOREM CallersShareSuccess == CallSpec => []SuccessIsShared
<1>1. AllInv => SuccessIsShared
  <2> SUFFICES ASSUME AllInv, NEW c \in Calls, NEW d \in Calls,
                      ~lapsed, Spoiled = {}, answer[c] = "ok", answer[d] = "ok"
               PROVE  \E r \in Requests : committed = {r} /\ Asks[r] = Asks[<<c, 1>>]
                                                          /\ Asks[r] = Asks[<<d, 1>>]
    BY DEF SuccessIsShared
  <2>1. PICK r \in committed : Asks[r] = Asks[<<c, 1>>]
    BY DEF AllInv, CallInv, SuccessIsOurs
  <2>2. PICK q \in committed : Asks[q] = Asks[<<d, 1>>]
    BY DEF AllInv, CallInv, SuccessIsOurs
  <2>3. \A p \in committed : p = r
    BY DEF AllInv, IInv, Once
  <2>4. r \in Requests
    BY DEF AllInv, IInv, TypeOK
  <2> QED
    BY <2>1, <2>2, <2>3, <2>4
<1> QED
  BY <1>1, CallInvariance, PTL
=============================================================================
