------------------------- MODULE EventOutboxProofs -------------------------
(* Theorems about EventOutbox for every set of events, every number of     *)
(* dispatchers, every batch limit and every bound on faults; and about the *)
(* composition of all that a write to a board goes through.                *)
EXTENDS MCBoard, DependencyProofs, CardProofs, WellFoundedInduction, TLAPS

-----------------------------------------------------------------------------
(* The inductive invariant. *)

\* A run that will broadcast e when it reaches it.
Intends(w, e) ==
  /\ e \in todo[w]
  /\ e \notin seenDispatched[w]
  /\ e = Current(w) => stage[w] = "broadcast"

\* A run between the broadcast of e and the write of its flag.
AtFlag(w, e) ==
  e \in todo[w] /\ e = Current(w) /\ stage[w] = "flag"

\* Rows and runs hold stored events only; flags, once set, stay set, so a
\* snapshot of the flags never claims more than the flags themselves.
Shape ==
  /\ \A e \in Events : e \in rows => pub[e] = "stored" /\ e \notin dropped
  /\ \A e \in Events : e \in dropped \cup cancelled => pub[e] = "stored"
  /\ \A e \in Events : pub[e] \in {"new", "sent"} =>
       lease[e] = "free" /\ e \notin dispatched
  /\ \A e \in Events : pub[e] = "new" => broadcasts[e] = 0
  /\ \A e \in Events : pub[e] = "sent" => broadcasts[e] > 0
  /\ \A e \in Events : pub[e] = "stored" /\ e \notin rows =>
       e \in dropped \/ (e \in dispatched /\ e \in enqueued)
  /\ \A w \in Workers :
       /\ \A e \in todo[w] \cup completed[w] : pub[e] = "stored"
       /\ seenDispatched[w] \subseteq dispatched
       /\ pc[w] = "idle" =>
            todo[w] = {} /\ completed[w] = {} /\ stage[w] = "broadcast"

\* What each flag and each stage of a run stands for; a copied flag never comes
\* from a cancellation, for no cancelled row is claimed.
Truth ==
  /\ enqueued \subseteq dispatched /\ cancelled \subseteq enqueued
  /\ \A e \in Events : e \in dispatched => WasTold(e) \/ e \in cancelled
  /\ \A e \in Events : e \in enqueued => Delivered(e) \/ e \in cancelled
  /\ \A c \in Consumers, e \in Events : deliveries[c][e] > 0 => WasTold(e)
  /\ \A w \in Workers, e \in Events : AtFlag(w, e) => broadcasts[e] > 0
  /\ \A w \in Workers : \A e \in seenDispatched[w] : WasTold(e)
  /\ \A w \in Workers, e \in Events : PastFlag(w, e) =>
       WasTold(e) /\ (e \in rows => e \in dispatched)
  /\ \A w \in Workers : \A e \in completed[w] : Delivered(e)
  /\ \A w \in Workers : At(w, "webhook") => deliveries["mcp"][Current(w)] > 0

\* An inline event enters the table dispatched, and every claim sees it so; so
\* does a quiet one, which is never broadcast.
Inline ==
  /\ \A e \in inline :
       /\ broadcasts[e] = 1
       /\ pub[e] # "new"
       /\ pub[e] = "stored" => e \in dispatched
       /\ \A w \in Workers : e \in todo[w] => e \in seenDispatched[w]
  /\ \A e \in quiet :
       /\ broadcasts[e] = 0
       /\ pub[e] = "stored"
       /\ e \in dispatched
       /\ \A w \in Workers : e \in todo[w] => e \in seenDispatched[w]

\* While no lease of e ran out or was freed and no flag write failed, at most one
\* run is on its way to or past the broadcast of e, and it holds the lease, unless
\* the row was cancelled, and then no other run takes it.
Exclusive ==
  \A e \in Events \ late :
    /\ broadcasts[e] <= 1
    /\ lease[e] # "expired"
    /\ e \in rows /\ e \notin dispatched /\ lease[e] = "free" => broadcasts[e] = 0
    /\ \A w \in Workers :
         /\ Intends(w, e) => broadcasts[e] = 0
         /\ AtFlag(w, e) => (e \in rows \ cancelled => e \notin dispatched)
         /\ Intends(w, e) \/ AtFlag(w, e) =>
              /\ e \in rows \ cancelled => lease[e] = "held"
              /\ \A v \in Workers : Intends(v, e) \/ AtFlag(v, e) => v = w

IInv == TypeOK /\ Shape /\ Truth /\ Inline /\ Exclusive
-----------------------------------------------------------------------------
\* The event a run is at belongs to its batch.
LEMMA CurrentInTodo ==
  ASSUME TypeOK, NEW w \in Workers, todo[w] # {}
  PROVE  Current(w) \in todo[w]
<1>1. todo[w] \subseteq Nat
  BY EventsAssumption DEF TypeOK
<1>2. PICK x \in todo[w] :
        \A y \in todo[w] : ~ (<<y, x>> \in OpToRel(<, Nat))
  BY <1>1, NatLessThanWellFounded, WFMin, Zenon
<1>3. \A y \in todo[w] : x <= y
  <2> TAKE y \in todo[w]
  <2>1. ~ (y < x)
    <3> SUFFICES ASSUME y < x PROVE FALSE
      OBVIOUS
    <3>1. <<y, x>> \in OpToRel(<, Nat)
      BY <1>1, Zenon DEF OpToRel
    <3> QED
      BY <1>2, <3>1, Zenon
  <2> QED
    BY <1>1, <2>1
<1> QED
  BY <1>3 DEF Current, Oldest

\* An inline broadcast comes before the row exists, so it counts as the event's
\* only one.
LEMMA BroadcastInlineStep ==
  ASSUME IInv, NEW e \in Events, BroadcastInline(e)
  PROVE  IInv'
<1> USE DEF IInv
<1>2. \A v \in Workers : Current(v)' = Current(v)
  BY DEF BroadcastInline, runVars, Current
<1>4. TypeOK'
  BY <1>2 DEF BroadcastInline, TypeOK, tableVars, pubVars, adminVars, outsideVars, runVars, Stages, Consumers
<1>5. Shape'
  BY <1>2 DEF BroadcastInline, TypeOK, tableVars, pubVars, adminVars, outsideVars, runVars, Shape
<1>6. Truth'
  BY <1>2 DEF BroadcastInline, TypeOK, tableVars, pubVars, adminVars, outsideVars, runVars, Truth, Shape, Delivered, WasTold, AtFlag, PastFlag, At, Consumers
<1>7. Inline'
  BY <1>2 DEF BroadcastInline, TypeOK, tableVars, pubVars, adminVars, outsideVars, runVars, Inline, Shape, Truth
<1>8. Exclusive'
  BY <1>2 DEF BroadcastInline, TypeOK, tableVars, pubVars, adminVars, outsideVars, runVars, Exclusive, Inline, WasTold, Delivered, Truth, Shape, Intends, AtFlag, PastFlag, At
<1> QED
  BY <1>4, <1>5, <1>6, <1>7, <1>8

\* The row enters with the flag that tells whether the inline broadcast happened.
LEMMA InsertRowStep ==
  ASSUME IInv, NEW e \in Events, InsertRow(e)
  PROVE  IInv'
<1> USE DEF IInv
<1>2. \A v \in Workers : Current(v)' = Current(v)
  BY DEF InsertRow, runVars, Current
<1>4. TypeOK'
  BY <1>2 DEF InsertRow, TypeOK, tableVars, pubVars, adminVars, outsideVars, runVars, Stages, Consumers
<1>5. Shape'
  BY <1>2 DEF InsertRow, TypeOK, tableVars, pubVars, adminVars, outsideVars, runVars, Shape
<1>6. Truth'
  <2>1. /\ UNCHANGED <<quiet, cancelled, enqueued, deliveries, broadcasts, completed, seenDispatched>>
        /\ dispatched \subseteq dispatched' /\ rows' = rows \cup {e}
        /\ \A f \in dispatched' \ dispatched : WasTold(f)
        /\ pub[e] # "stored"
    BY DEF InsertRow, adminVars, runVars, Shape, WasTold, TypeOK
  <2>2. \A f \in Events : /\ WasTold(f)' <=> WasTold(f)
                          /\ Delivered(f)' <=> Delivered(f)
    BY <2>1 DEF WasTold, Delivered
  <2>3. /\ UNCHANGED <<todo, stage>>
        /\ \A v \in Workers, f \in Events : AtFlag(v, f)' => AtFlag(v, f)
        /\ \A v \in Workers, f \in Events : PastFlag(v, f)' => PastFlag(v, f)
    BY <1>2 DEF InsertRow, runVars, AtFlag, PastFlag, At
  <2>4. \A v \in Workers : todo[v] # {} => Current(v) \in todo[v]
    BY CurrentInTodo
  <2>5. \A v \in Workers : ~ PastFlag(v, e)
    BY <2>1, <2>4 DEF PastFlag, At, Shape
  <2>6. \A v \in Workers : seenDispatched[v] \subseteq Events /\ completed[v] \subseteq Events
    BY DEF TypeOK
  <2>7. \A v \in Workers, f \in Events : PastFlag(v, f)' =>
          WasTold(f)' /\ (f \in rows' => f \in dispatched')
    BY <2>1, <2>2, <2>3, <2>5 DEF Truth
  <2>8. \A v \in Workers : At(v, "webhook")' => deliveries'["mcp"][Current(v)'] > 0
    BY <1>2, <2>1, <2>3 DEF Truth, At
  <2>9. /\ \A c \in Consumers, f \in Events : deliveries'[c][f] > 0 => WasTold(f)'
        /\ \A v \in Workers, f \in Events : AtFlag(v, f)' => broadcasts'[f] > 0
        /\ \A v \in Workers : \A f \in seenDispatched'[v] : WasTold(f)'
        /\ \A v \in Workers : \A f \in completed'[v] : Delivered(f)'
    BY <2>1, <2>2, <2>3, <2>6 DEF Truth
  <2>10. /\ enqueued' \subseteq dispatched' /\ cancelled' \subseteq enqueued'
         /\ \A f \in Events : f \in dispatched' => WasTold(f)' \/ f \in cancelled'
         /\ \A f \in Events : f \in enqueued' => Delivered(f)' \/ f \in cancelled'
    BY <2>1, <2>2 DEF Truth
  <2> QED
    BY <2>7, <2>8, <2>9, <2>10 DEF Truth
<1>7. Inline'
  BY <1>2 DEF InsertRow, TypeOK, tableVars, pubVars, adminVars, outsideVars, runVars, Inline, Shape, Truth
<1>8. Exclusive'
  BY <1>2 DEF InsertRow, TypeOK, tableVars, pubVars, adminVars, outsideVars, runVars, Exclusive, Inline, WasTold, Delivered, Truth, Shape, Intends, AtFlag, PastFlag, At
<1> QED
  BY <1>4, <1>5, <1>6, <1>7, <1>8

\* A quiet row enters dispatched and is never broadcast.
LEMMA InsertQuietlyStep ==
  ASSUME IInv, NEW e \in Events, InsertQuietly(e)
  PROVE  IInv'
<1> USE DEF IInv
<1>2. \A v \in Workers : Current(v)' = Current(v)
  BY DEF InsertQuietly, runVars, Current
<1>4. TypeOK'
  BY <1>2 DEF InsertQuietly, TypeOK, tableVars, pubVars, adminVars, outsideVars, runVars, Stages, Consumers
<1>5. Shape'
  BY <1>2 DEF InsertQuietly, TypeOK, tableVars, pubVars, adminVars, outsideVars, runVars, Shape
<1>6. Truth'
  BY <1>2 DEF InsertQuietly, TypeOK, tableVars, pubVars, adminVars, outsideVars, runVars, Truth, Shape, Delivered, WasTold, AtFlag, PastFlag, At, Consumers
<1>7. Inline'
  BY <1>2 DEF InsertQuietly, TypeOK, tableVars, pubVars, adminVars, outsideVars, runVars, Inline, Shape, Truth
<1>8. Exclusive'
  BY <1>2 DEF InsertQuietly, TypeOK, tableVars, pubVars, adminVars, outsideVars, runVars, Exclusive, Inline, WasTold, Delivered, Truth, Shape, Intends, AtFlag, PastFlag, At
<1> QED
  BY <1>4, <1>5, <1>6, <1>7, <1>8

\* A lost insert leaves no row, so no dispatcher will see the event.
LEMMA LoseInsertStep ==
  ASSUME IInv, NEW e \in Events, LoseInsert(e)
  PROVE  IInv'
<1> USE DEF IInv
<1>2. \A v \in Workers : Current(v)' = Current(v)
  BY DEF LoseInsert, runVars, Current
<1>4. TypeOK'
  BY <1>2 DEF LoseInsert, TypeOK, tableVars, pubVars, adminVars, outsideVars, runVars, Stages, Consumers
<1>5. Shape'
  BY <1>2 DEF LoseInsert, TypeOK, tableVars, pubVars, adminVars, outsideVars, runVars, Shape
<1>6. Truth'
  BY <1>2 DEF LoseInsert, TypeOK, tableVars, pubVars, adminVars, outsideVars, runVars, Truth, Shape, Delivered, WasTold, AtFlag, PastFlag, At, Consumers
<1>7. Inline'
  BY <1>2 DEF LoseInsert, TypeOK, tableVars, pubVars, adminVars, outsideVars, runVars, Inline, Shape, Truth
<1>8. Exclusive'
  BY <1>2 DEF LoseInsert, TypeOK, tableVars, pubVars, adminVars, outsideVars, runVars, Exclusive, Inline, WasTold, Delivered, Truth, Shape, Intends, AtFlag, PastFlag, At
<1> QED
  BY <1>4, <1>5, <1>6, <1>7, <1>8

\* An expired lease only makes the event late.
LEMMA LeaseExpiresStep ==
  ASSUME IInv, NEW e \in Events, LeaseExpires(e)
  PROVE  IInv'
<1> USE DEF IInv
<1>2. \A v \in Workers : Current(v)' = Current(v)
  BY DEF LeaseExpires, runVars, Current
<1>4. TypeOK'
  BY <1>2 DEF LeaseExpires, TypeOK, tableVars, pubVars, adminVars, outsideVars, runVars, Stages, Consumers
<1>5. Shape'
  BY <1>2 DEF LeaseExpires, TypeOK, tableVars, pubVars, adminVars, outsideVars, runVars, Shape
<1>6. Truth'
  BY <1>2 DEF LeaseExpires, TypeOK, tableVars, pubVars, adminVars, outsideVars, runVars, Truth, Shape, Delivered, WasTold, AtFlag, PastFlag, At, Consumers
<1>7. Inline'
  BY <1>2 DEF LeaseExpires, TypeOK, tableVars, pubVars, adminVars, outsideVars, runVars, Inline, Shape, Truth
<1>8. Exclusive'
  BY <1>2 DEF LeaseExpires, TypeOK, tableVars, pubVars, adminVars, outsideVars, runVars, Exclusive, Inline, WasTold, Delivered, Truth, Shape, Intends, AtFlag, PastFlag, At
<1> QED
  BY <1>4, <1>5, <1>6, <1>7, <1>8

\* Retention removes rows that carry both flags, hence delivered ones.
LEMMA CleanupStep ==
  ASSUME IInv, NEW e \in Events, Cleanup(e)
  PROVE  IInv'
<1> USE DEF IInv
<1>2. \A v \in Workers : Current(v)' = Current(v)
  BY DEF Cleanup, runVars, Current
<1>4. TypeOK'
  BY <1>2 DEF Cleanup, TypeOK, tableVars, pubVars, adminVars, outsideVars, runVars, Stages, Consumers
<1>5. Shape'
  BY <1>2 DEF Cleanup, TypeOK, tableVars, pubVars, adminVars, outsideVars, runVars, Shape
<1>6. Truth'
  BY <1>2 DEF Cleanup, TypeOK, tableVars, pubVars, adminVars, outsideVars, runVars, Truth, Shape, Delivered, WasTold, AtFlag, PastFlag, At, Consumers
<1>7. Inline'
  BY <1>2 DEF Cleanup, TypeOK, tableVars, pubVars, adminVars, outsideVars, runVars, Inline, Shape, Truth
<1>8. Exclusive'
  BY <1>2 DEF Cleanup, TypeOK, tableVars, pubVars, adminVars, outsideVars, runVars, Exclusive, Inline, WasTold, Delivered, Truth, Shape, Intends, AtFlag, PastFlag, At
<1> QED
  BY <1>4, <1>5, <1>6, <1>7, <1>8

\* The backstop notes what it drops.
LEMMA PurgeStuckStep ==
  ASSUME IInv, NEW e \in Events, PurgeStuck(e)
  PROVE  IInv'
<1> USE DEF IInv
<1>2. \A v \in Workers : Current(v)' = Current(v)
  BY DEF PurgeStuck, runVars, Current
<1>4. TypeOK'
  BY <1>2 DEF PurgeStuck, TypeOK, tableVars, pubVars, adminVars, outsideVars, runVars, Stages, Consumers
<1>5. Shape'
  BY <1>2 DEF PurgeStuck, TypeOK, tableVars, pubVars, adminVars, outsideVars, runVars, Shape
<1>6. Truth'
  BY <1>2 DEF PurgeStuck, TypeOK, tableVars, pubVars, adminVars, outsideVars, runVars, Truth, Shape, Delivered, WasTold, AtFlag, PastFlag, At, Consumers
<1>7. Inline'
  BY <1>2 DEF PurgeStuck, TypeOK, tableVars, pubVars, adminVars, outsideVars, runVars, Inline, Shape, Truth
<1>8. Exclusive'
  BY <1>2 DEF PurgeStuck, TypeOK, tableVars, pubVars, adminVars, outsideVars, runVars, Exclusive, Inline, WasTold, Delivered, Truth, Shape, Intends, AtFlag, PastFlag, At
<1> QED
  BY <1>4, <1>5, <1>6, <1>7, <1>8

\* A check of the operator's changes nothing yet.
LEMMA OperatorChecksStep ==
  ASSUME IInv, NEW e \in Events, NEW what \in {"retry", "cancel"},
         OperatorChecks(e, what)
  PROVE  IInv'
<1> USE DEF IInv
<1>2. \A v \in Workers : Current(v)' = Current(v)
  BY DEF OperatorChecks, runVars, Current
<1>4. TypeOK'
  BY <1>2 DEF OperatorChecks, TypeOK, tableVars, pubVars, adminVars, outsideVars, runVars, Stages, Consumers
<1>5. Shape'
  BY <1>2 DEF OperatorChecks, TypeOK, tableVars, pubVars, adminVars, outsideVars, runVars, Shape
<1>6. Truth'
  BY <1>2 DEF OperatorChecks, TypeOK, tableVars, pubVars, adminVars, outsideVars, runVars, Truth, Shape, Delivered, WasTold, AtFlag, PastFlag, At, Consumers
<1>7. Inline'
  BY <1>2 DEF OperatorChecks, TypeOK, tableVars, pubVars, adminVars, outsideVars, runVars, Inline, Shape, Truth
<1>8. Exclusive'
  BY <1>2 DEF OperatorChecks, TypeOK, tableVars, pubVars, adminVars, outsideVars, runVars, Exclusive, Inline, WasTold, Delivered, Truth, Shape, Intends, AtFlag, PastFlag, At
<1> QED
  BY <1>4, <1>5, <1>6, <1>7, <1>8

\* A lease freed under a live run makes the event late.
LEMMA OperatorRetriesStep ==
  ASSUME IInv, NEW e \in Events, OperatorRetries(e)
  PROVE  IInv'
<1> USE DEF IInv
<1>2. \A v \in Workers : Current(v)' = Current(v)
  BY DEF OperatorRetries, runVars, Current
<1>4. TypeOK'
  BY <1>2 DEF OperatorRetries, TypeOK, tableVars, pubVars, adminVars, outsideVars, runVars, Stages, Consumers
<1>5. Shape'
  BY <1>2 DEF OperatorRetries, TypeOK, tableVars, pubVars, adminVars, outsideVars, runVars, Shape
<1>6. Truth'
  BY <1>2 DEF OperatorRetries, TypeOK, tableVars, pubVars, adminVars, outsideVars, runVars, Truth, Shape, Delivered, WasTold, AtFlag, PastFlag, At, Consumers
<1>7. Inline'
  BY <1>2 DEF OperatorRetries, TypeOK, tableVars, pubVars, adminVars, outsideVars, runVars, Inline, Shape, Truth
<1>8. Exclusive'
  BY <1>2 DEF OperatorRetries, TypeOK, tableVars, pubVars, adminVars, outsideVars, runVars, Exclusive, Inline, WasTold, Delivered, Truth, Shape, Intends, AtFlag, PastFlag, At
<1> QED
  BY <1>4, <1>5, <1>6, <1>7, <1>8

\* A cancelled row carries both flags, so no further run claims it.
LEMMA OperatorCancelsStep ==
  ASSUME IInv, NEW e \in Events, OperatorCancels(e)
  PROVE  IInv'
<1> USE DEF IInv
<1>2. \A v \in Workers : Current(v)' = Current(v)
  BY DEF OperatorCancels, runVars, Current
<1>4. TypeOK'
  BY <1>2 DEF OperatorCancels, TypeOK, tableVars, pubVars, adminVars, outsideVars, runVars, Stages, Consumers
<1>5. Shape'
  BY <1>2 DEF OperatorCancels, TypeOK, tableVars, pubVars, adminVars, outsideVars, runVars, Shape
<1>6. Truth'
  BY <1>2 DEF OperatorCancels, TypeOK, tableVars, pubVars, adminVars, outsideVars, runVars, Truth, Shape, Delivered, WasTold, AtFlag, PastFlag, At, Consumers
<1>7. Inline'
  BY <1>2 DEF OperatorCancels, TypeOK, tableVars, pubVars, adminVars, outsideVars, runVars, Inline, Shape, Truth
<1>8. Exclusive'
  BY <1>2 DEF OperatorCancels, TypeOK, tableVars, pubVars, adminVars, outsideVars, runVars, Exclusive, Inline, WasTold, Delivered, Truth, Shape, Intends, AtFlag, PastFlag, At
<1> QED
  BY <1>4, <1>5, <1>6, <1>7, <1>8

\* A claim copies the flags of rows no other run holds under a live lease.
LEMMA ClaimStep ==
  ASSUME IInv, NEW w \in Workers, Claim(w)
  PROVE  IInv'
<1> USE DEF IInv
<1>2. \A v \in Workers \ {w} : Current(v)' = Current(v)
  BY DEF Claim, NextEvent, Complete, Finish, Current, TypeOK
<1>4. TypeOK'
  BY <1>2 DEF Claim, Claimable, FirstOf, TypeOK, tableVars, pubVars, adminVars, outsideVars, runVars, Stages, Consumers
<1>5. Shape'
  BY <1>2 DEF Claim, Claimable, FirstOf, TypeOK, tableVars, pubVars, adminVars, outsideVars, runVars, Shape
<1>6. Truth'
  <2>1. /\ UNCHANGED <<stage, completed, rows, dispatched, enqueued, deliveries, broadcasts>>
        /\ \A v \in Workers \ {w} : todo'[v] = todo[v]
        /\ stage[w] = "broadcast"
    BY DEF Claim, TypeOK, Shape
  <2>2. \A v \in Workers, e \in Events :
          /\ AtFlag(v, e)' => AtFlag(v, e)
          /\ PastFlag(v, e)' => PastFlag(v, e)
    BY <1>2, <2>1 DEF AtFlag, PastFlag, At
  <2>3. \A v \in Workers : At(v, "webhook")' => At(v, "webhook") /\ Current(v)' = Current(v)
    BY <1>2, <2>1 DEF At
  <2>4. UNCHANGED <<quiet, cancelled>>
    BY DEF Claim, outsideVars, pubVars, adminVars
  <2>5. \A v \in Workers : \A e \in seenDispatched'[v] : WasTold(e)
    <3>1. \A v \in Workers \ {w} : seenDispatched'[v] = seenDispatched[v]
      BY DEF Claim, TypeOK
    <3>2. \A e \in seenDispatched'[w] : e \in dispatched /\ e \notin enqueued /\ e \in Events
      BY DEF Claim, Claimable, FirstOf, TypeOK
    <3> QED
      BY <3>1, <3>2 DEF Truth
  <2> QED
    BY <2>1, <2>2, <2>3, <2>4, <2>5 DEF Truth, Delivered, WasTold
<1>7. Inline'
  BY <1>2 DEF Claim, Claimable, FirstOf, TypeOK, tableVars, pubVars, adminVars, outsideVars, runVars, Inline, Shape, Truth
<1>8. Exclusive'
  BY <1>2 DEF Claim, Claimable, FirstOf, TypeOK, tableVars, pubVars, adminVars, outsideVars, runVars, Exclusive, Inline, WasTold, Delivered, Truth, Shape, Intends, AtFlag, PastFlag, At
<1> QED
  BY <1>4, <1>5, <1>6, <1>7, <1>8

\* A dispatcher broadcasts only what its copy of the flag says is not broadcast;
\* if it was, the event is late.
LEMMA BroadcastStep ==
  ASSUME IInv, NEW w \in Workers, Broadcast(w)
  PROVE  IInv'
<1> USE DEF IInv
<1>1. Current(w) \in todo[w] /\ Current(w) \in Events
  BY CurrentInTodo DEF Broadcast, AtCall, At, TypeOK
<1>2. \A v \in Workers : Current(v)' = Current(v)
  BY DEF Broadcast, Goto, Current
<1>4. TypeOK'
  BY <1>1, <1>2 DEF Broadcast, Goto, TypeOK, tableVars, pubVars, adminVars, outsideVars, runVars, Stages, Consumers
<1>5. Shape'
  BY <1>1, <1>2 DEF Broadcast, Goto, TypeOK, tableVars, pubVars, adminVars, outsideVars, runVars, Shape
<1>6. Truth'
  BY <1>1, <1>2 DEF Broadcast, Goto, TypeOK, tableVars, pubVars, adminVars, outsideVars, runVars, Truth, Shape, Delivered, WasTold, AtFlag, PastFlag, At, Consumers
<1>7. Inline'
  BY <1>1, <1>2 DEF Broadcast, Goto, TypeOK, tableVars, pubVars, adminVars, outsideVars, runVars, Inline, Shape, Truth
<1>8. Exclusive'
  BY <1>1, <1>2 DEF Broadcast, Goto, TypeOK, tableVars, pubVars, adminVars, outsideVars, runVars, Exclusive, Inline, WasTold, Delivered, Truth, Shape, Intends, AtFlag, PastFlag, At
<1> QED
  BY <1>4, <1>5, <1>6, <1>7, <1>8

\* A copied flag was true when it was copied, and flags are never taken back.
LEMMA SkipBroadcastStep ==
  ASSUME IInv, NEW w \in Workers, SkipBroadcast(w)
  PROVE  IInv'
<1> USE DEF IInv
<1>1. Current(w) \in todo[w] /\ Current(w) \in Events
  BY CurrentInTodo DEF SkipBroadcast, AtCall, At, TypeOK
<1>2. \A v \in Workers : Current(v)' = Current(v)
  BY DEF SkipBroadcast, Goto, Current
<1>4. TypeOK'
  BY <1>1, <1>2 DEF SkipBroadcast, Goto, TypeOK, tableVars, pubVars, adminVars, outsideVars, runVars, Stages, Consumers
<1>5. Shape'
  BY <1>1, <1>2 DEF SkipBroadcast, Goto, TypeOK, tableVars, pubVars, adminVars, outsideVars, runVars, Shape
<1>6. Truth'
  BY <1>1, <1>2 DEF SkipBroadcast, Goto, TypeOK, tableVars, pubVars, adminVars, outsideVars, runVars, Truth, Shape, Delivered, WasTold, AtFlag, PastFlag, At, Consumers
<1>7. Inline'
  BY <1>1, <1>2 DEF SkipBroadcast, Goto, TypeOK, tableVars, pubVars, adminVars, outsideVars, runVars, Inline, Shape, Truth
<1>8. Exclusive'
  BY <1>1, <1>2 DEF SkipBroadcast, Goto, TypeOK, tableVars, pubVars, adminVars, outsideVars, runVars, Exclusive, Inline, WasTold, Delivered, Truth, Shape, Intends, AtFlag, PastFlag, At
<1> QED
  BY <1>4, <1>5, <1>6, <1>7, <1>8

\* The flag is written by a run that has just broadcast the event.
LEMMA RecordDispatchedStep ==
  ASSUME IInv, NEW w \in Workers, RecordDispatched(w)
  PROVE  IInv'
<1> USE DEF IInv
<1>1. Current(w) \in todo[w] /\ Current(w) \in Events
  BY CurrentInTodo DEF RecordDispatched, AtCall, At, TypeOK
<1>2. \A v \in Workers : Current(v)' = Current(v)
  BY DEF RecordDispatched, Goto, Current
<1>4. TypeOK'
  BY <1>1, <1>2 DEF RecordDispatched, Goto, TypeOK, tableVars, pubVars, adminVars, outsideVars, runVars, Stages, Consumers
<1>5. Shape'
  BY <1>1, <1>2 DEF RecordDispatched, Goto, TypeOK, tableVars, pubVars, adminVars, outsideVars, runVars, Shape
<1>6. Truth'
  BY <1>1, <1>2 DEF RecordDispatched, Goto, TypeOK, tableVars, pubVars, adminVars, outsideVars, runVars, Truth, Shape, Delivered, WasTold, AtFlag, PastFlag, At, Consumers
<1>7. Inline'
  BY <1>1, <1>2 DEF RecordDispatched, Goto, TypeOK, tableVars, pubVars, adminVars, outsideVars, runVars, Inline, Shape, Truth
<1>8. Exclusive'
  BY <1>1, <1>2 DEF RecordDispatched, Goto, TypeOK, tableVars, pubVars, adminVars, outsideVars, runVars, Exclusive, Inline, WasTold, Delivered, Truth, Shape, Intends, AtFlag, PastFlag, At
<1> QED
  BY <1>4, <1>5, <1>6, <1>7, <1>8

\* The first delivery insert comes after the broadcast and needs the row.
LEMMA EnqueueMcpStep ==
  ASSUME IInv, NEW w \in Workers, EnqueueMcp(w)
  PROVE  IInv'
<1> USE DEF IInv
<1>1. Current(w) \in todo[w] /\ Current(w) \in Events
  BY CurrentInTodo DEF EnqueueMcp, AtCall, At, TypeOK
<1>2. \A v \in Workers : Current(v)' = Current(v)
  BY DEF EnqueueMcp, Goto, Current
<1>4. TypeOK'
  BY <1>1, <1>2 DEF EnqueueMcp, Goto, Insert, TypeOK, tableVars, pubVars, adminVars, outsideVars, runVars, Stages, Consumers
<1>5. Shape'
  BY <1>1, <1>2 DEF EnqueueMcp, Goto, Insert, TypeOK, tableVars, pubVars, adminVars, outsideVars, runVars, Shape
<1>6. Truth'
  BY <1>1, <1>2 DEF EnqueueMcp, Goto, Insert, TypeOK, tableVars, pubVars, adminVars, outsideVars, runVars, Truth, Shape, Delivered, WasTold, AtFlag, PastFlag, At, Consumers
<1>7. Inline'
  BY <1>1, <1>2 DEF EnqueueMcp, Goto, Insert, TypeOK, tableVars, pubVars, adminVars, outsideVars, runVars, Inline, Shape, Truth
<1>8. Exclusive'
  BY <1>1, <1>2 DEF EnqueueMcp, Goto, Insert, TypeOK, tableVars, pubVars, adminVars, outsideVars, runVars, Exclusive, Inline, WasTold, Delivered, Truth, Shape, Intends, AtFlag, PastFlag, At
<1> QED
  BY <1>4, <1>5, <1>6, <1>7, <1>8

\* With the second insert the event is delivered to both consumers.
LEMMA EnqueueWebhookStep ==
  ASSUME IInv, NEW w \in Workers, EnqueueWebhook(w)
  PROVE  IInv'
<1> USE DEF IInv
<1>1. Current(w) \in todo[w] /\ Current(w) \in Events
  BY CurrentInTodo DEF EnqueueWebhook, AtCall, At, TypeOK
<1>2. \A v \in Workers \ {w} : Current(v)' = Current(v)
  BY DEF EnqueueWebhook, NextEvent, Complete, Finish, Current, TypeOK
<1>4. TypeOK'
  BY <1>1, <1>2 DEF EnqueueWebhook, Complete, NextEvent, Insert, TypeOK, tableVars, pubVars, adminVars, outsideVars, runVars, Stages, Consumers
<1>5. Shape'
  BY <1>1, <1>2 DEF EnqueueWebhook, Complete, NextEvent, Insert, TypeOK, tableVars, pubVars, adminVars, outsideVars, runVars, Shape
<1>6. Truth'
  BY <1>1, <1>2 DEF EnqueueWebhook, Complete, NextEvent, Insert, TypeOK, tableVars, pubVars, adminVars, outsideVars, runVars, Truth, Shape, Delivered, WasTold, AtFlag, PastFlag, At, Consumers
<1>7. Inline'
  BY <1>1, <1>2 DEF EnqueueWebhook, Complete, NextEvent, Insert, TypeOK, tableVars, pubVars, adminVars, outsideVars, runVars, Inline, Shape, Truth
<1>8. Exclusive'
  BY <1>1, <1>2 DEF EnqueueWebhook, Complete, NextEvent, Insert, TypeOK, tableVars, pubVars, adminVars, outsideVars, runVars, Exclusive, Inline, WasTold, Delivered, Truth, Shape, Intends, AtFlag, PastFlag, At
<1> QED
  BY <1>4, <1>5, <1>6, <1>7, <1>8

\* A failed event leaves the batch with its flags as they were, and is late if
\* the flag write was what failed.
LEMMA FailStep ==
  ASSUME IInv, NEW w \in Workers, Fail(w)
  PROVE  IInv'
<1> USE DEF IInv
<1>1. Current(w) \in todo[w] /\ Current(w) \in Events
  BY CurrentInTodo DEF Fail, AtCall, At, TypeOK
<1>2. \A v \in Workers \ {w} : Current(v)' = Current(v)
  BY DEF Fail, NextEvent, Complete, Finish, Current, TypeOK
<1>4. TypeOK'
  BY <1>1, <1>2 DEF Fail, NextEvent, AtCall, TypeOK, tableVars, pubVars, adminVars, outsideVars, runVars, Stages, Consumers
<1>5. Shape'
  BY <1>1, <1>2 DEF Fail, NextEvent, AtCall, TypeOK, tableVars, pubVars, adminVars, outsideVars, runVars, Shape
<1>6. Truth'
  BY <1>1, <1>2 DEF Fail, NextEvent, AtCall, TypeOK, tableVars, pubVars, adminVars, outsideVars, runVars, Truth, Shape, Delivered, WasTold, AtFlag, PastFlag, At, Consumers
<1>7. Inline'
  BY <1>1, <1>2 DEF Fail, NextEvent, AtCall, TypeOK, tableVars, pubVars, adminVars, outsideVars, runVars, Inline, Shape, Truth
<1>8. Exclusive'
  BY <1>1, <1>2 DEF Fail, NextEvent, AtCall, TypeOK, tableVars, pubVars, adminVars, outsideVars, runVars, Exclusive, Inline, WasTold, Delivered, Truth, Shape, Intends, AtFlag, PastFlag, At
<1> QED
  BY <1>4, <1>5, <1>6, <1>7, <1>8

\* The batch update marks completed events only.
LEMMA MarkDoneStep ==
  ASSUME IInv, NEW w \in Workers, MarkDone(w)
  PROVE  IInv'
<1> USE DEF IInv
<1>2. \A v \in Workers \ {w} : Current(v)' = Current(v)
  BY DEF MarkDone, NextEvent, Complete, Finish, Current, TypeOK
<1>4. TypeOK'
  BY <1>2 DEF MarkDone, Finish, TypeOK, tableVars, pubVars, adminVars, outsideVars, runVars, Stages, Consumers
<1>5. Shape'
  BY <1>2 DEF MarkDone, Finish, TypeOK, tableVars, pubVars, adminVars, outsideVars, runVars, Shape
<1>6. Truth'
  BY <1>2 DEF MarkDone, Finish, TypeOK, tableVars, pubVars, adminVars, outsideVars, runVars, Truth, Shape, Delivered, WasTold, AtFlag, PastFlag, At, Consumers
<1>7. Inline'
  BY <1>2 DEF MarkDone, Finish, TypeOK, tableVars, pubVars, adminVars, outsideVars, runVars, Inline, Shape, Truth
<1>8. Exclusive'
  BY <1>2 DEF MarkDone, Finish, TypeOK, tableVars, pubVars, adminVars, outsideVars, runVars, Exclusive, Inline, WasTold, Delivered, Truth, Shape, Intends, AtFlag, PastFlag, At
<1> QED
  BY <1>4, <1>5, <1>6, <1>7, <1>8

\* A run that dies leaves the table as it was.
LEMMA AbandonStep ==
  ASSUME IInv, NEW w \in Workers, Abandon(w)
  PROVE  IInv'
<1> USE DEF IInv
<1>2. \A v \in Workers \ {w} : Current(v)' = Current(v)
  BY DEF Abandon, NextEvent, Complete, Finish, Current, TypeOK
<1>4. TypeOK'
  BY <1>2 DEF Abandon, Finish, TypeOK, tableVars, pubVars, adminVars, outsideVars, runVars, Stages, Consumers
<1>5. Shape'
  BY <1>2 DEF Abandon, Finish, TypeOK, tableVars, pubVars, adminVars, outsideVars, runVars, Shape
<1>6. Truth'
  BY <1>2 DEF Abandon, Finish, TypeOK, tableVars, pubVars, adminVars, outsideVars, runVars, Truth, Shape, Delivered, WasTold, AtFlag, PastFlag, At, Consumers
<1>7. Inline'
  BY <1>2 DEF Abandon, Finish, TypeOK, tableVars, pubVars, adminVars, outsideVars, runVars, Inline, Shape, Truth
<1>8. Exclusive'
  BY <1>2 DEF Abandon, Finish, TypeOK, tableVars, pubVars, adminVars, outsideVars, runVars, Exclusive, Inline, WasTold, Delivered, Truth, Shape, Intends, AtFlag, PastFlag, At
<1> QED
  BY <1>4, <1>5, <1>6, <1>7, <1>8

-----------------------------------------------------------------------------
(* The theorems. *)

\* The strengthened invariant holds throughout: one step per action, each by
\* its lemma.
THEOREM Invariance == Spec => []IInv
<1>1. Init => IInv
  BY DEF Init, IInv, TypeOK, Shape, Truth, Inline, Exclusive, Intends, AtFlag,
         PastFlag, At, Stages, Consumers
<1>2. IInv /\ [Next]_vars => IInv'
  <2> SUFFICES ASSUME IInv, [Next]_vars
               PROVE  IInv'
    OBVIOUS
  <2>1. ASSUME Publish
        PROVE  IInv'
    BY <2>1, BroadcastInlineStep, InsertRowStep, InsertQuietlyStep, LoseInsertStep
       DEF Publish, EmitFiltered, RecordTransition
  <2>2. ASSUME NEW w \in Workers, Claim(w) \/ Abandon(w)
        PROVE  IInv'
    BY <2>2, ClaimStep, AbandonStep
  <2>3. ASSUME NEW w \in Workers, Step(w)
        PROVE  IInv'
    BY <2>3, BroadcastStep, SkipBroadcastStep, RecordDispatchedStep, EnqueueMcpStep,
       EnqueueWebhookStep, FailStep, MarkDoneStep DEF Step
  <2>4. ASSUME NEW e \in Events, LeaseExpires(e) \/ Cleanup(e) \/ PurgeStuck(e)
        PROVE  IInv'
    BY <2>4, LeaseExpiresStep, CleanupStep, PurgeStuckStep
  <2>5. ASSUME Operate
        PROVE  IInv'
    BY <2>5, OperatorChecksStep, OperatorRetriesStep, OperatorCancelsStep DEF Operate
  <2>6. CASE UNCHANGED vars
    BY <2>6 DEF vars, tableVars, pubVars, adminVars, outsideVars, runVars, IInv, TypeOK, Shape, Truth, Inline,
       Exclusive, Intends, AtFlag, PastFlag, At, Delivered, WasTold, Current, Consumers
  <2> QED
    BY <2>1, <2>2, <2>3, <2>4, <2>5, <2>6 DEF Next
<1> QED
  BY <1>1, <1>2, PTL DEF Spec

\* Type correctness of every reachable state.
THEOREM TypeCorrect == Spec => []TypeOK
<1>1. IInv => TypeOK
  BY DEF IInv
<1> QED
  BY <1>1, Invariance, PTL

\* No flag of a row is ever set for work that did not happen, but by an operator's
\* cancellation, and no row that is not for a room is ever broadcast, whatever the
\* interleaving of dispatchers, stalls, failures, requests and purges.
THEOREM FlagsAreTruthful == Spec => []FlagsTellTheTruth
<1>1. IInv => FlagsTellTheTruth
  BY DEF IInv, TypeOK, Truth, Inline, FlagsTellTheTruth
<1> QED
  BY <1>1, Invariance, PTL

\* Integrations never hear of an event for a room before its clients do.
THEOREM DeliveryFollowsBroadcast == Spec => []BroadcastPrecedesDelivery
<1>1. IInv => BroadcastPrecedesDelivery
  BY DEF IInv, Truth, BroadcastPrecedesDelivery
<1> QED
  BY <1>1, Invariance, PTL

\* Only an expired or freed lease or a failed flag write leads to a second broadcast:
\* neither the early release of the lease nor a failed enqueue or a cancellation does.
THEOREM RebroadcastNeedsACause == Spec => []NoNeedlessRebroadcast
<1>1. IInv => NoNeedlessRebroadcast
  BY DEF IInv, Exclusive, NoNeedlessRebroadcast
<1> QED
  BY <1>1, Invariance, PTL

\* What was broadcast inline stays broadcast exactly once.
THEOREM InlineExactlyOnce == Spec => []InlineIsBroadcastOnce
<1>1. IInv => InlineIsBroadcastOnce
  BY DEF IInv, Inline, InlineIsBroadcastOnce
<1> QED
  BY <1>1, Invariance, PTL

\* No row leaves the table undelivered except through the backstop or after an
\* operator's cancellation.
THEOREM NoSilentLoss == Spec => []NoneVanishes
<1>1. IInv => NoneVanishes
  BY DEF IInv, Shape, Truth, NoneVanishes
<1> QED
  BY <1>1, Invariance, PTL

\* A retry after a failed enqueue finds the row already dispatched.
THEOREM RetryResumesAtEnqueue == Spec => []EnqueueRetryNeverRebroadcasts
<1>1. IInv => EnqueueRetryNeverRebroadcasts
  BY DEF IInv, TypeOK, Truth, EnqueueRetryNeverRebroadcasts
<1> QED
  BY <1>1, Invariance, PTL

-----------------------------------------------------------------------------
(* Refinement: the outbox implements EventDelivery. *)

\* Publication accepts or hears an event, or changes nothing abstract.
LEMMA PublishRefines ==
  ASSUME IInv, NEW e \in Events,
         BroadcastInline(e) \/ InsertRow(e) \/ InsertQuietly(e) \/ LoseInsert(e)
  PROVE  [Promise!Next]_(Promise!vars)
<1>1. CASE BroadcastInline(e)
  <2>1. Promise!Hear(e)
    BY <1>1 DEF BroadcastInline, Promise!Hear, IInv, Shape, Inline, TypeOK, tableVars,
                adminVars, Consumers
  <2> QED
    BY <2>1 DEF Promise!Next
<1>2. CASE InsertRow(e)
  <2>1. Promise!Accept(e)
    BY <1>2 DEF InsertRow, Promise!Accept, IInv, Shape, TypeOK, adminVars
  <2> QED
    BY <2>1 DEF Promise!Next
<1>3. CASE LoseInsert(e)
  <2>1. UNCHANGED Promise!vars
    BY <1>3 DEF LoseInsert, Promise!vars, IInv, TypeOK, tableVars, adminVars
  <2> QED
    BY <2>1
<1>4. CASE InsertQuietly(e)
  <2>1. Promise!AcceptUnheard(e)
    BY <1>4 DEF InsertQuietly, Promise!AcceptUnheard, IInv, Shape, TypeOK, adminVars
  <2> QED
    BY <2>1 DEF Promise!Next
<1> QED
  BY <1>1, <1>2, <1>3, <1>4

\* A step of a drain hears, queues or settles, or changes nothing abstract.
LEMMA StepRefines ==
  ASSUME IInv, NEW w \in Workers, Claim(w) \/ Step(w) \/ Abandon(w)
  PROVE  [Promise!Next]_(Promise!vars)
<1>1. CASE Broadcast(w)
  <2>1. PICK e \in Events : e = Current(w)
    BY <1>1, CurrentInTodo DEF IInv, Broadcast, At, TypeOK
  <2>2. e \notin quiet
    BY <1>1, <2>1, CurrentInTodo DEF IInv, Inline, Broadcast, At
  <2>3. Promise!Hear(e) \/ UNCHANGED Promise!vars
    BY <1>1, <2>1, <2>2 DEF Broadcast, Promise!Hear, Promise!vars, IInv, TypeOK, tableVars,
       pubVars, adminVars, outsideVars
  <2> QED
    BY <2>3 DEF Promise!Next
<1>2. CASE EnqueueMcp(w) \/ EnqueueWebhook(w)
  <2>1. PICK e \in Events : e = Current(w) /\ e \in rows
    BY <1>2, CurrentInTodo DEF IInv, EnqueueMcp, EnqueueWebhook, Insert, At, TypeOK
  <2>2. WasTold(e)
    BY <1>2, <2>1 DEF IInv, Truth, PastFlag, EnqueueMcp, EnqueueWebhook, At
  <2>3. Promise!Queue(e) \/ UNCHANGED Promise!vars
    BY <1>2, <2>1, <2>2 DEF EnqueueMcp, EnqueueWebhook, Insert, Promise!Queue, Promise!Open,
       Promise!vars, IInv, Shape, Truth, Delivered, WasTold, TypeOK, tableVars, pubVars,
       adminVars, outsideVars, Consumers
  <2> QED
    BY <2>3 DEF Promise!Next
<1>3. CASE MarkDone(w)
  <2> DEFINE S == (completed[w] \cap rows) \ enqueued
  <2>1. S \in SUBSET Events
    BY DEF IInv, TypeOK
  <2>2. \A e \in S : pub[e] = "stored" /\ e \notin dropped /\ Delivered(e)
    BY <2>1 DEF IInv, Shape, Truth, TypeOK
  <2>6. S \cap cancelled = {} /\ UNCHANGED cancelled
    BY <1>3 DEF IInv, Truth, MarkDone, outsideVars, adminVars
  <2>3. enqueued' = enqueued \cup S
    BY <1>3 DEF MarkDone
  <2>4. CASE S = {}
    <3>1. UNCHANGED Promise!vars
      BY <1>3, <2>3, <2>4, <2>6 DEF MarkDone, Promise!vars, pubVars, outsideVars
    <3> QED
      BY <3>1
  <2>5. CASE S # {}
    <3>1. Promise!Settle(S)
      BY <1>3, <2>1, <2>2, <2>3, <2>5, <2>6
         DEF MarkDone, Promise!Settle, Promise!Open, Delivered, pubVars, outsideVars
    <3> QED
      BY <2>1, <3>1 DEF Promise!Next
  <2> QED
    BY <2>4, <2>5
<1>4. CASE Claim(w) \/ Abandon(w) \/ SkipBroadcast(w) \/ RecordDispatched(w)
             \/ Fail(w)
  <2>1. UNCHANGED <<pub, quiet, broadcasts, deliveries, enqueued, dropped, cancelled>>
    BY <1>4 DEF Claim, Abandon, SkipBroadcast, RecordDispatched, Fail,
                tableVars, pubVars, adminVars, outsideVars
  <2>2. UNCHANGED Promise!vars
    BY <2>1 DEF Promise!vars
  <2> QED
    BY <2>2
<1> QED
  BY <1>1, <1>2, <1>3, <1>4 DEF Step

\* The operator cancels an open event, or changes nothing abstract.
LEMMA OperateRefines ==
  ASSUME IInv, Operate
  PROVE  [Promise!Next]_(Promise!vars)
<1>1. ASSUME NEW e \in Events, NEW what, OperatorRetries(e) \/ OperatorChecks(e, what)
      PROVE  UNCHANGED Promise!vars
  BY <1>1 DEF OperatorRetries, OperatorChecks, Promise!vars, pubVars, tableVars
<1>2. ASSUME NEW e \in Events, OperatorCancels(e)
      PROVE  Promise!Cancel(e) \/ UNCHANGED Promise!vars
  <2>1. UNCHANGED <<pub, quiet, broadcasts, deliveries, dropped>>
    BY <1>2 DEF OperatorCancels, pubVars
  <2>2. (enqueued \ cancelled)' = enqueued \ cancelled
    BY <1>2 DEF OperatorCancels, IInv, Truth
  <2>3. CASE e \in rows \ enqueued
    <3>1. cancelled' = cancelled \cup {e} /\ e \notin cancelled
      BY <1>2, <2>3 DEF OperatorCancels, IInv, Truth
    <3>2. pub[e] = "stored" /\ e \notin dropped
      BY <2>3 DEF IInv, Shape
    <3> QED
      BY <2>1, <2>2, <2>3, <3>1, <3>2 DEF Promise!Cancel, Promise!Open
  <2>4. CASE e \notin rows \ enqueued
    <3>1. UNCHANGED cancelled
      BY <1>2, <2>4 DEF OperatorCancels
    <3> QED
      BY <2>1, <2>2, <3>1 DEF Promise!vars
  <2> QED
    BY <2>3, <2>4
<1> QED
  BY <1>1, <1>2 DEF Operate, Promise!Next

\* Leases and retention purge an event, or change nothing abstract.
LEMMA RetentionRefines ==
  ASSUME IInv, NEW e \in Events, LeaseExpires(e) \/ Cleanup(e) \/ PurgeStuck(e)
  PROVE  [Promise!Next]_(Promise!vars)
<1>1. CASE LeaseExpires(e) \/ Cleanup(e)
  <2>1. UNCHANGED Promise!vars
    BY <1>1 DEF LeaseExpires, Cleanup, Promise!vars, pubVars, adminVars, outsideVars
  <2> QED
    BY <2>1
<1>2. CASE PurgeStuck(e)
  <2>1. Promise!Purge(e)
    BY <1>2 DEF PurgeStuck, Promise!Purge, IInv, Shape, pubVars, adminVars, outsideVars
  <2> QED
    BY <2>1 DEF Promise!Next
<1> QED
  BY <1>1, <1>2

\* The outbox, its dispatchers, failures and retention included, does nothing
\* the abstract delivery specification forbids.
THEOREM Refinement == Spec => ImplementsSafely
<1>1. Init => Promise!Init
  BY DEF Init, Promise!Init, Consumers
<1>2. IInv /\ [Next]_vars => [Promise!Next]_(Promise!vars)
  <2> SUFFICES ASSUME IInv, [Next]_vars
               PROVE  [Promise!Next]_(Promise!vars)
    OBVIOUS
  <2>1. CASE UNCHANGED vars
    BY <2>1 DEF vars, tableVars, pubVars, adminVars, outsideVars, Promise!vars
  <2> QED
    BY <2>1, PublishRefines, StepRefines, OperateRefines, RetentionRefines
       DEF Next, Publish, EmitFiltered, RecordTransition
<1> QED
  BY <1>1, <1>2, Invariance, PTL DEF Spec, ImplementsSafely, Promise!SafeSpec

-----------------------------------------------------------------------------
(* The composition that TLC runs.                                           *)

\* Each part of the composition is a behaviour of its own module, and its purges
\* do what their comment says, so what is proved of the modules holds of what
\* the run checks.
LEMMA PartsOfBoard ==
  MCSpec => Spec /\ DepSpec /\ CreationSpec /\ PrioritySpec /\ PurgesBlockNothing
<1>1. MCInit => Init /\ DepInit /\ CreationInit /\ QueueInit
  BY DEF MCInit
<1>2. [MCNext]_boardVars => /\ [Next]_vars /\ [DepNext]_depVars
                            /\ [CreationNext]_creationVars /\ [PriorityNext]_queueVars
  BY DEF MCNext, boardVars
<1>3. [MCNext]_boardVars => [Purge => \A c \in doomed : Is(Committed, "archived", c)]_depVars
  <2> SUFFICES ASSUME [MCNext]_boardVars, depVars' # depVars, Purge
               PROVE  \A c \in doomed : Is(Committed, "archived", c)
    OBVIOUS
  <2>1. PurgesInTime
    BY DEF MCNext, boardVars
  <2>2. doomed # {} /\ doomed' = {}
    BY DEF Purge
  <2> QED
    BY <2>1, <2>2 DEF PurgesInTime
<1> QED
  BY <1>1, <1>2, <1>3, PTL
     DEF MCSpec, Spec, DepSpec, CreationSpec, PrioritySpec, PurgesBlockNothing

\* Type correctness of the composition: relations, locks, identities, positions,
\* and the outbox's rows and runs.
THEOREM BoardTyped == MCSpec => []BoardTypeOK
<1>1. TypeOK /\ DepTypeOK /\ CreationTypeOK /\ PriorityTypeOK => BoardTypeOK
  BY DEF BoardTypeOK
<1> QED
  BY <1>1, PartsOfBoard, TypeCorrect, DependenciesTyped, CreationTyped, PriorityTyped, PTL

\* With the purge in time, plain writes never deadlock and every hand-off is
\* told, with no hypothesis left.
THEOREM BoardWritesAreSafe == MCSpec => []PlainWritesNeverDeadlock /\ HandoffsAreTold
  BY PartsOfBoard, UpfrontLocksAreSafe, HandoffsAreComplete, PTL
=============================================================================
