---------------------------- MODULE Idempotency ----------------------------
(***************************************************************************)
(* Idempotency keys of the public API:                                     *)
(* apps/api/src/lib/public-api-idempotency.ts.                             *)
(*                                                                         *)
(* The preHandler hook claims a record in Redis with SET NX, or replays or *)
(* refuses; the onSend hook stores the reply or, after a server failure,   *)
(* removes the record.  Keys share nothing, so one key of one principal is *)
(* modelled, and every Redis command of a request is a step of its own.    *)
(* The fingerprint in a record is always that of the request that wrote    *)
(* it, so the record names that request instead; in a complete record the  *)
(* writer is known to the model only.                                      *)
(***************************************************************************)
EXTENDS Naturals

CONSTANTS
  Requests,  \* mutations that carry the key
  Payloads,  \* their fingerprints
  Asks,      \* the fingerprint of each
  NoRequest,
  MaxFaults  \* bound on crashes, failed Redis commands and failures after a commit

ASSUME AsksAssumption == Asks \in [Requests -> Payloads]
ASSUME NoRequestAssumption == NoRequest \notin Requests
ASSUME FaultsAssumption == MaxFaults \in Nat

VARIABLES
  record,    \* "none", "pending", or the reply a complete record keeps
  owner,     \* the request that wrote it
  stage,     \* how far each request is
  reply,     \* what it answers
  committed, \* requests whose mutation is in the database
  lapsed,    \* history: a record ran out
  faults

vars == <<record, owner, stage, reply, committed, lapsed, faults>>

\* A reply the record may keep: 2xx; 4xx; 429, which a client retries.
Kept == {"ok", "refused", "limited"}
Replies == Kept \cup {"failed", "mismatch", "busy"}
Working == {"claim", "read", "reclaim", "handle", "settle", "store", "drop"}

TypeOK ==
  /\ record \in {"none", "pending"} \cup Kept
  /\ owner \in Requests \cup {NoRequest}
  /\ stage \in [Requests -> {"unsent", "answered", "dead"} \cup Working]
  /\ reply \in [Requests -> {"none"} \cup Replies]
  /\ committed \subseteq Requests
  /\ lapsed \in BOOLEAN
  /\ faults \in Nat

Init ==
  /\ record = "none" /\ owner = NoRequest
  /\ stage = [r \in Requests |-> "unsent"]
  /\ reply = [r \in Requests |-> "none"]
  /\ committed = {} /\ lapsed = FALSE /\ faults = 0

Fault == faults < MaxFaults /\ faults' = faults + 1
Goto(r, s) == stage' = [stage EXCEPT ![r] = s]
Reply(r, a) == reply' = [reply EXCEPT ![r] = a]

-----------------------------------------------------------------------------
(* Before the handler. *)

Arrive(r) ==
  /\ stage[r] = "unsent"
  /\ Goto(r, "claim")
  /\ UNCHANGED <<record, owner, reply, committed, lapsed, faults>>

\* Authentication and rate limits come first and touch no record.
TurnAway(r) ==
  /\ stage[r] = "claim"
  /\ \E a \in {"refused", "limited"} : Reply(r, a)
  /\ Goto(r, "answered")
  /\ UNCHANGED <<record, owner, committed, lapsed, faults>>

\* SET NX stored the pending record.
Take(r) ==
  /\ record = "none"
  /\ record' = "pending" /\ owner' = r
  /\ Goto(r, "handle")

Claim(r) ==
  /\ stage[r] = "claim"
  /\ \/ Take(r)
     \/ record # "none" /\ Goto(r, "read") /\ UNCHANGED <<record, owner>>
  /\ UNCHANGED <<reply, committed, lapsed, faults>>

\* What GET finds decides.
Answer(r, a) == Goto(r, "answered") /\ Reply(r, a)

\* Slip: the fingerprint is not compared.
ReadAnyPayload(r) ==
  /\ stage[r] = "read"
  /\ \/ record = "none" /\ Goto(r, "reclaim") /\ UNCHANGED reply
     \/ record = "pending" /\ Answer(r, "busy")
     \/ record \in Kept /\ Answer(r, record)
  /\ UNCHANGED <<record, owner, committed, lapsed, faults>>

Read(r) ==
  /\ stage[r] = "read"
  /\ \/ record = "none" /\ Goto(r, "reclaim") /\ UNCHANGED reply
     \/ record # "none" /\ Asks[owner] # Asks[r] /\ Answer(r, "mismatch")
     \/ record = "pending" /\ Asks[owner] = Asks[r] /\ Answer(r, "busy")
     \/ record \in Kept /\ Asks[owner] = Asks[r] /\ Answer(r, record)
  /\ UNCHANGED <<record, owner, committed, lapsed, faults>>

\* Slip: the second SET goes without NX.
ReclaimAnyway(r) ==
  /\ stage[r] = "reclaim"
  /\ record' = "pending" /\ owner' = r
  /\ Goto(r, "handle")
  /\ UNCHANGED <<reply, committed, lapsed, faults>>

\* The record vanished between SET and GET: one more SET NX.
Reclaim(r) ==
  /\ stage[r] = "reclaim"
  /\ \/ Take(r) /\ UNCHANGED reply
     \/ record # "none" /\ Answer(r, "busy") /\ UNCHANGED <<record, owner>>
  /\ UNCHANGED <<committed, lapsed, faults>>

\* A Redis command fails before the handler ran: the request ends in a 500.  The
\* SET may have been carried out all the same, for an owner that does not know.
ClaimFails(r) ==
  /\ stage[r] \in {"claim", "read", "reclaim"}
  /\ Fault
  /\ \/ UNCHANGED <<record, owner>>
     \/ /\ stage[r] # "read" /\ record = "none"
        /\ record' = "pending" /\ owner' = r
  /\ Answer(r, "failed")
  /\ UNCHANGED <<committed, lapsed>>

-----------------------------------------------------------------------------
(* The handler and what follows. *)

\* The mutation commits, is refused, limited (the organisation whose board it
\* touches is metered inside the handler), or fails; the code after the commit
\* may still fail.
Handle(r) ==
  /\ stage[r] = "handle"
  /\ \/ Reply(r, "ok") /\ committed' = committed \cup {r} /\ UNCHANGED faults
     \/ /\ \E a \in {"refused", "limited", "failed"} : Reply(r, a)
        /\ UNCHANGED <<committed, faults>>
     \/ Reply(r, "failed") /\ committed' = committed \cup {r} /\ Fault
  /\ Goto(r, "settle")
  /\ UNCHANGED <<record, owner, lapsed>>

\* Slips: whose record it is, or that it is still pending, is not looked at.
PendingAnyone(r) == record = "pending"
AnyRecord(r) == record # "none"

OwnPending(r) == record = "pending" /\ owner = r

\* Slip: only a success is stored.
SettleSuccess(r) ==
  /\ stage[r] = "settle"
  /\ \/ OwnPending(r) /\ reply[r] = "failed" /\ Goto(r, "drop")
     \/ OwnPending(r) /\ reply[r] = "ok" /\ Goto(r, "store")
     \/ (~OwnPending(r) \/ reply[r] \in {"refused", "limited"}) /\ Goto(r, "answered")
  /\ UNCHANGED <<record, owner, reply, committed, lapsed, faults>>

\* onSend: GET.
Settle(r) ==
  /\ stage[r] = "settle"
  /\ \/ OwnPending(r) /\ reply[r] = "failed" /\ Goto(r, "drop")
     \/ OwnPending(r) /\ reply[r] # "failed" /\ Goto(r, "store")
     \/ ~OwnPending(r) /\ Goto(r, "answered")
  /\ UNCHANGED <<record, owner, reply, committed, lapsed, faults>>

Complete(r) == record' = reply[r] /\ owner' = r
Remove == record' = "none" /\ owner' = NoRequest

Store(r) ==
  /\ stage[r] = "store"
  /\ Complete(r)
  /\ Goto(r, "answered")
  /\ UNCHANGED <<reply, committed, lapsed, faults>>

Drop(r) ==
  /\ stage[r] = "drop"
  /\ Remove
  /\ Goto(r, "answered")
  /\ UNCHANGED <<reply, committed, lapsed, faults>>

\* A Redis command fails, carried out or not: the reply becomes a 500, which
\* passes the hook again unless the framework gives up on hooks.
SettleFails(r) ==
  /\ stage[r] \in {"settle", "store", "drop"}
  /\ Fault
  /\ \/ UNCHANGED <<record, owner>>
     \/ stage[r] = "store" /\ Complete(r)
     \/ stage[r] = "drop" /\ Remove
  /\ Reply(r, "failed")
  /\ Goto(r, "settle") \/ Goto(r, "answered")
  /\ UNCHANGED <<committed, lapsed>>

\* The process dies under the request.
Crash(r) ==
  /\ stage[r] \in Working
  /\ Fault
  /\ Goto(r, "dead")
  /\ UNCHANGED <<record, owner, reply, committed, lapsed>>

\* A day passes; no request works that long.
Expire ==
  /\ record # "none"
  /\ record = "pending" => stage[owner] \notin Working
  /\ Remove
  /\ lapsed' = TRUE
  /\ UNCHANGED <<stage, reply, committed, faults>>

-----------------------------------------------------------------------------
\* What the server does once a request has come in.
Serve(r) ==
  \/ TurnAway(r) \/ Claim(r) \/ Read(r) \/ Reclaim(r) \/ ClaimFails(r)
  \/ Handle(r) \/ Settle(r) \/ Store(r) \/ Drop(r) \/ SettleFails(r) \/ Crash(r)

Next == (\E r \in Requests : Arrive(r) \/ Serve(r)) \/ Expire

Spec == Init /\ [][Next]_vars

-----------------------------------------------------------------------------
(* Properties. *)

\* The key excludes: whatever fails, dies or runs out, two requests are never
\* in their handlers together.
OneHandler ==
  \A q, r \in Requests : stage[q] = "handle" /\ stage[r] = "handle" => q = r

\* Until a record runs out the mutation is done once.  A crash after the commit,
\* a lost answer and a late retry never repeat it; only a request that committed
\* and yet reported a server failure makes room for another.
Spoiled == {r \in committed : reply[r] = "failed"}

DoneOnce ==
  ~lapsed => \A q, r \in committed \ Spoiled : q = r

\* A success that is replayed was earned: its caller's very mutation is in the
\* database, by this request or by one with the same fingerprint.
SuccessIsReal ==
  \A r \in Requests : reply[r] = "ok" => \E q \in committed : Asks[q] = Asks[r]

\* A key is locked only by a request at work, one that died, or one that Redis
\* failed: refusals and failures of the handler leave it complete or free.
LockHasCause ==
  record = "pending" => \/ stage[owner] \in Working \cup {"dead"}
                        \/ reply[owner] = "failed"

\* The first outcome is kept: no request, slow, repeated or failed, replaces or
\* removes a complete record, only time does.
FirstOutcomeStays ==
  [][(record \in Kept) => \/ record' = record /\ owner' = owner
                          \/ record' = "none" /\ UNCHANGED stage]_vars
=============================================================================
