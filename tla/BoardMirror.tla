---------------------------- MODULE BoardMirror ----------------------------
(***************************************************************************)
(* One board mirror (lib/board-mirror): the worker tails the source        *)
(* board's events past the mirror's cursor, marks the cards they name      *)
(* dirty, and converges each dirty card by copying what the source says    *)
(* now.  A change of the source commits first and is announced by an       *)
(* insert of its own, which may fail or die with the server unnoticed.  A  *)
(* pause loses the cursor and asks for a reconcile, which converges every  *)
(* card; so does a silence longer than the outbox's retention.  The facets *)
(* of a card are one revision number.  The worker is the only one; other   *)
(* mirrors share only its batches.                                         *)
(***************************************************************************)
EXTENDS Naturals, FiniteSets

CONSTANTS
  SourceCards,
  TailBatch,    \* TAIL_BATCH_SIZE
  MaxDirty,     \* MAX_DIRTY_ATTEMPTS
  MaxEdits, MaxMirrorActs, MaxMirrorFaults \* bounds

ASSUME MirrorAssumption ==
  /\ {TailBatch, MaxDirty} \subseteq Nat \ {0}
  /\ {MaxEdits, MaxMirrorActs, MaxMirrorFaults} \subseteq Nat

VARIABLES
  sourceRev,    \* the revision of each source card
  targetRev,    \* the revision its copy shows, 0 for no copy
  mirrorTail,   \* the source board's rows in the outbox: <<created_at, card>>
  unannounced,  \* committed changes whose row is not being inserted: <<revision, card>>
  openRows,     \* rows that have their created_at and are not visible yet
  mirrorClock,  \* the last created_at
  cursorAt,     \* cursorEventCreatedAt
  mirrorOff,    \* why it is not drained: "paused", "disabled", "plan"
  mirrorMarks,  \* "asked": reconcileRequestedAt; "gap": lastSyncAt is before the
                \* retention; "failing": lastError; "backoff": nextRetryAt ahead
  dirtyTries,   \* the attempts of each card's dirty row, NoRow without one
  dirtyWaits,   \* dirty rows whose nextRetryAt is ahead
  mirrorStep,   \* where the worker's run is
  mirrorCopy,   \* the cursor and the marks it read with the mirror
  mirrorTodo,   \* the cards it still has to converge
  sourceSeen,   \* the card at hand and the revision read of it
  unheard,      \* cards with a change whose row was lost, or became visible
                \* behind the cursor, and not reconciled since
  forgotten,    \* a request was cleared by a run that had not seen it
  mirrorFaults, mirrorActs

mirrorRow == <<cursorAt, mirrorOff, mirrorMarks>>
mirrorDirty == <<dirtyTries, dirtyWaits>>
mirrorRun == <<mirrorCopy, mirrorTodo, sourceSeen>>
mirrorSource == <<sourceRev, unannounced, openRows, mirrorTail, mirrorClock>>
mirrorEnv == <<mirrorSource, unheard>>
mirrorVars ==
  <<targetRev, mirrorRow, mirrorDirty, mirrorRun, mirrorEnv, mirrorStep,
    forgotten, mirrorFaults, mirrorActs>>

NoRow == MaxDirty + 1
Nothing == <<>>
Causes == {"paused", "disabled", "plan"}
Marks == {"asked", "gap", "failing", "backoff"}
MirrorSteps ==
  {"idle", "start", "reconcile", "clear", "tail", "failed", "checkpoint", "select", "apply"}

MirrorInit ==
  /\ sourceRev = [c \in SourceCards |-> 1]
  /\ targetRev = [c \in SourceCards |-> 1]
  /\ mirrorTail = {} /\ unannounced = {} /\ openRows = {} /\ mirrorClock = 0 /\ cursorAt = 0
  /\ mirrorOff = {} /\ mirrorMarks = {}
  /\ dirtyTries = [c \in SourceCards |-> NoRow] /\ dirtyWaits = {}
  /\ mirrorStep = "idle" /\ mirrorCopy = [cursor |-> 0, marks |-> {}]
  /\ mirrorTodo = {} /\ sourceSeen = Nothing
  /\ unheard = {} /\ forgotten = FALSE
  /\ mirrorFaults = 0 /\ mirrorActs = 0

MirrorFault == mirrorFaults < MaxMirrorFaults /\ mirrorFaults' = mirrorFaults + 1
MirrorAct == mirrorActs < MaxMirrorActs /\ mirrorActs' = mirrorActs + 1

-----------------------------------------------------------------------------
(* The source board.                                                       *)

\* A mutation's transaction commits.
EditCommits(c) ==
  /\ mirrorClock + Cardinality(unannounced) < MaxEdits
  /\ sourceRev' = [sourceRev EXCEPT ![c] = @ + 1]
  /\ unannounced' = unannounced \cup {<<sourceRev'[c], c>>}
  /\ UNCHANGED <<targetRev, mirrorRow, mirrorDirty, mirrorRun, openRows, mirrorTail, mirrorClock,
                 unheard, mirrorStep, forgotten, mirrorFaults, mirrorActs>>

\* emitToBoard, after the commit: the insert takes its created_at as it starts.
\* The rows that a transaction inserts itself announce a boundary and no change.
AnnounceStarts(a) ==
  /\ a \in unannounced
  /\ unannounced' = unannounced \ {a}
  /\ mirrorClock' = mirrorClock + 1
  /\ openRows' = openRows \cup {<<mirrorClock', a[2]>>}
  /\ UNCHANGED <<targetRev, mirrorRow, mirrorDirty, mirrorRun, sourceRev, mirrorTail,
                 unheard, mirrorStep, forgotten, mirrorFaults, mirrorActs>>

AnnounceCommits(e) ==
  /\ e \in openRows
  /\ openRows' = openRows \ {e}
  /\ mirrorTail' = mirrorTail \cup {e}
  /\ unheard' = IF e[1] <= cursorAt THEN unheard \cup {e[2]} ELSE unheard
  /\ UNCHANGED <<targetRev, mirrorRow, mirrorDirty, mirrorRun, sourceRev, unannounced,
                 mirrorClock, mirrorStep, forgotten, mirrorFaults, mirrorActs>>

\* The board's workspace is not found, the insert fails and is only logged, or
\* a server dies with what it had still to announce.
AnnouncementsLost ==
  /\ MirrorFault
  /\ \E A \in SUBSET unannounced, R \in SUBSET openRows :
       /\ A \cup R # {}
       /\ unannounced' = unannounced \ A
       /\ openRows' = openRows \ R
       /\ unheard' = unheard \cup {x[2] : x \in A \cup R}
  /\ UNCHANGED <<targetRev, mirrorRow, mirrorDirty, mirrorRun, sourceRev, mirrorTail,
                 mirrorClock, mirrorStep, forgotten, mirrorActs>>

Announce ==
  \/ \E a \in unannounced : AnnounceStarts(a)
  \/ \E e \in openRows : AnnounceCommits(e)

\* The mirror goes unobserved for so long that the outbox's rows are purged.
RetentionPasses ==
  /\ MirrorAct
  /\ mirrorOff # {} /\ mirrorStep = "idle" /\ unannounced = {} /\ openRows = {}
  /\ mirrorTail' = {}
  /\ mirrorMarks' = mirrorMarks \cup {"gap"}
  /\ UNCHANGED <<targetRev, cursorAt, mirrorOff, mirrorDirty, mirrorRun, sourceRev,
                 unannounced, openRows, mirrorClock, unheard, mirrorStep, forgotten, mirrorFaults>>

-----------------------------------------------------------------------------
(* The two switches and the plan.                                          *)

\* pausedAt, sourceDisabledAt, or an organisation without the plan.
SwitchOff(cause) ==
  /\ MirrorAct
  /\ cause \notin mirrorOff
  /\ mirrorOff' = mirrorOff \cup {cause}
  /\ UNCHANGED <<targetRev, cursorAt, mirrorMarks, mirrorDirty, mirrorRun, mirrorEnv,
                 mirrorStep, forgotten, mirrorFaults>>

\* Slip: the mirror resumes at now and asks for nothing.
ResumeUnasked(cause) ==
  /\ cause \in mirrorOff \ {"plan"}
  /\ mirrorOff' = mirrorOff \ {cause}
  /\ cursorAt' = mirrorClock
  /\ UNCHANGED <<targetRev, mirrorMarks, mirrorDirty, mirrorRun, mirrorEnv, mirrorStep,
                 forgotten, mirrorFaults, mirrorActs>>

\* updateMirror and enableMirrorSource: a fresh cursor, and a reconcile.
Resume(cause) ==
  /\ cause \in mirrorOff \ {"plan"}
  /\ mirrorOff' = mirrorOff \ {cause}
  /\ cursorAt' = mirrorClock
  /\ mirrorMarks' = mirrorMarks \cup {"asked"}
  /\ UNCHANGED <<targetRev, mirrorDirty, mirrorRun, mirrorEnv, mirrorStep,
                 forgotten, mirrorFaults, mirrorActs>>

\* An upgrade leaves the cursor where it was.
Upgrade ==
  /\ "plan" \in mirrorOff
  /\ mirrorOff' = mirrorOff \ {"plan"}
  /\ UNCHANGED <<targetRev, cursorAt, mirrorMarks, mirrorDirty, mirrorRun, mirrorEnv,
                 mirrorStep, forgotten, mirrorFaults, mirrorActs>>

BackoffPasses ==
  /\ "backoff" \in mirrorMarks
  /\ mirrorMarks' = mirrorMarks \ {"backoff"}
  /\ UNCHANGED <<targetRev, cursorAt, mirrorOff, mirrorDirty, mirrorRun, mirrorEnv,
                 mirrorStep, forgotten, mirrorFaults, mirrorActs>>

DirtyWaitPasses(c) ==
  /\ c \in dirtyWaits
  /\ dirtyWaits' = dirtyWaits \ {c}
  /\ UNCHANGED <<targetRev, mirrorRow, dirtyTries, mirrorRun, mirrorEnv, mirrorStep,
                 forgotten, mirrorFaults, mirrorActs>>

-----------------------------------------------------------------------------
(* A run: processBoardMirrors.                                             *)

Beyond(at) == {e \in mirrorTail : at < e[1]}

\* The mirror is read; an idle one is only checkpointed.
Observe ==
  /\ mirrorStep = "idle"
  /\ mirrorOff = {} /\ "backoff" \notin mirrorMarks
  /\ mirrorCopy' = [cursor |-> cursorAt, marks |-> mirrorMarks]
  /\ mirrorStep' = IF Beyond(cursorAt) = {} /\ mirrorMarks = {} THEN "checkpoint" ELSE "start"
  /\ UNCHANGED <<targetRev, mirrorRow, mirrorDirty, mirrorTodo, sourceSeen, mirrorEnv,
                 forgotten, mirrorFaults, mirrorActs>>

\* drainMirror: reconcile first when asked, or after a gap; parked rows get a
\* fresh budget.
StartDrain ==
  /\ mirrorStep = "start"
  /\ IF mirrorCopy.marks \cap {"asked", "gap"} = {}
     THEN mirrorStep' = "tail" /\ UNCHANGED <<mirrorTodo, mirrorDirty>>
     ELSE /\ mirrorStep' = "reconcile"
          /\ mirrorTodo' = SourceCards
          /\ dirtyTries' = [c \in SourceCards |->
                              IF dirtyTries[c] = NoRow THEN NoRow ELSE 0]
          /\ dirtyWaits' = {}
  /\ UNCHANGED <<targetRev, mirrorRow, mirrorCopy, sourceSeen, mirrorEnv,
                 forgotten, mirrorFaults, mirrorActs>>

\* convergeSourceCard reads the source before it writes the copy.
ReadSource ==
  /\ mirrorStep \in {"reconcile", "apply"}
  /\ sourceSeen = Nothing
  /\ \E c \in mirrorTodo : sourceSeen' = <<c, sourceRev[c]>>
  /\ UNCHANGED <<targetRev, mirrorRow, mirrorDirty, mirrorCopy, mirrorTodo, mirrorEnv,
                 mirrorStep, forgotten, mirrorFaults, mirrorActs>>

\* A dirty row goes when its card is converged; a reconcile needs no row.
WriteCopy ==
  /\ sourceSeen # Nothing
  /\ LET c == sourceSeen[1] IN
     /\ targetRev' = [targetRev EXCEPT ![c] = sourceSeen[2]]
     /\ mirrorTodo' = mirrorTodo \ {c}
     /\ IF mirrorStep = "apply"
        THEN dirtyTries' = [dirtyTries EXCEPT ![c] = NoRow] /\ dirtyWaits' = dirtyWaits \ {c}
        ELSE UNCHANGED mirrorDirty
     /\ unheard' = IF mirrorStep = "reconcile" /\ sourceSeen[2] = sourceRev[c]
                   THEN unheard \ {c} ELSE unheard
  /\ sourceSeen' = Nothing
  /\ UNCHANGED <<mirrorRow, mirrorCopy, mirrorSource, mirrorStep, forgotten,
                 mirrorFaults, mirrorActs>>

\* Slip: a card that fails in a reconcile is left to the next one.
FailCardInPassing ==
  /\ MirrorFault
  /\ sourceSeen # Nothing
  /\ mirrorTodo' = mirrorTodo \ {sourceSeen[1]}
  /\ sourceSeen' = Nothing
  /\ UNCHANGED <<targetRev, mirrorRow, mirrorDirty, mirrorCopy, mirrorEnv, mirrorStep,
                 forgotten, mirrorActs>>

\* A card that fails counts an attempt and waits, or parks at the last or on a
\* permanent error; in a reconcile it is deferred to the dirty queue.
FailCard ==
  /\ MirrorFault
  /\ sourceSeen # Nothing
  /\ LET c == sourceSeen[1] IN
     /\ mirrorTodo' = mirrorTodo \ {c}
     /\ IF mirrorStep = "apply"
        THEN \E n \in {dirtyTries[c] + 1, MaxDirty} :
               /\ dirtyTries' = [dirtyTries EXCEPT ![c] = n]
               /\ dirtyWaits' = IF n < MaxDirty THEN dirtyWaits \cup {c} ELSE dirtyWaits \ {c}
        ELSE /\ dirtyTries' = [dirtyTries EXCEPT ![c] = IF @ = NoRow THEN 0 ELSE @]
             /\ UNCHANGED dirtyWaits
  /\ sourceSeen' = Nothing
  /\ UNCHANGED <<targetRev, mirrorRow, mirrorCopy, mirrorEnv, mirrorStep, forgotten,
                 mirrorActs>>

ReconcileDone ==
  /\ mirrorStep = "reconcile" /\ mirrorTodo = {}
  /\ mirrorStep' = "clear"
  /\ UNCHANGED <<targetRev, mirrorRow, mirrorDirty, mirrorRun, mirrorEnv, forgotten,
                 mirrorFaults, mirrorActs>>

\* reconcileRequestedAt is cleared by id, whoever asked meanwhile.
ClearRequest ==
  /\ mirrorStep = "clear"
  /\ mirrorMarks' = mirrorMarks \ {"asked", "gap", "failing"}
  /\ mirrorStep' = "tail"
  /\ UNCHANGED <<targetRev, cursorAt, mirrorOff, mirrorDirty, mirrorRun, mirrorEnv,
                 forgotten, mirrorFaults, mirrorActs>>

\* enqueueDirtySignals: one transaction, from the cursor that was copied.
EnqueueDirtySignals ==
  LET batch == {e \in Beyond(mirrorCopy.cursor) :
                  Cardinality({f \in Beyond(mirrorCopy.cursor) : f[1] < e[1]}) < TailBatch}
      cards == {e[2] : e \in batch}
  IN /\ mirrorStep = "tail"
     /\ dirtyTries' = [c \in SourceCards |-> IF c \in cards THEN 0 ELSE dirtyTries[c]]
     /\ dirtyWaits' = dirtyWaits \ cards
     /\ IF batch = {} THEN UNCHANGED cursorAt
        ELSE cursorAt' = CHOOSE t \in {e[1] : e \in batch} : \A e \in batch : e[1] <= t
     /\ mirrorMarks' = mirrorMarks \ {"gap", "failing", "backoff"}
     /\ mirrorStep' = "checkpoint"
     /\ UNCHANGED <<targetRev, mirrorOff, mirrorRun, mirrorEnv, forgotten,
                    mirrorFaults, mirrorActs>>

\* This run cleared a request made after it had read the mirror, and its tail,
\* which starts from the older cursor, is not read.
Forgets == mirrorStep = "tail" /\ cursorAt # mirrorCopy.cursor /\ "asked" \notin mirrorMarks

\* The loop check, a reconcile or the transaction throws.
FailDrain ==
  /\ MirrorFault
  /\ mirrorStep \in {"start", "reconcile", "clear", "tail"}
  /\ mirrorTodo' = {} /\ sourceSeen' = Nothing
  /\ mirrorMarks' = mirrorMarks \cup {"failing", "backoff"}
  /\ mirrorStep' = "checkpoint"
  /\ forgotten' = (forgotten \/ Forgets)
  /\ UNCHANGED <<targetRev, cursorAt, mirrorOff, mirrorDirty, mirrorCopy, mirrorEnv,
                 mirrorActs>>

\* Of a mirror that was idle: lastSyncAt, unless a request came in.
Checkpoint ==
  /\ mirrorStep = "checkpoint"
  /\ mirrorStep' = "select"
  /\ mirrorMarks' = IF mirrorOff = {} /\ "asked" \notin mirrorMarks /\ mirrorCopy.marks = {}
                    THEN mirrorMarks \ {"gap"} ELSE mirrorMarks
  /\ UNCHANGED <<targetRev, cursorAt, mirrorOff, mirrorDirty, mirrorRun, mirrorEnv,
                 forgotten, mirrorFaults, mirrorActs>>

\* applyDirtyCards: the rows that are due, of a mirror that is still on.
SelectDirty ==
  /\ mirrorStep = "select"
  /\ mirrorStep' = "apply"
  /\ mirrorTodo' = IF mirrorOff \ {"plan"} # {} \/ "backoff" \in mirrorMarks THEN {}
                   ELSE {c \in SourceCards \ dirtyWaits : dirtyTries[c] < MaxDirty}
  /\ UNCHANGED <<targetRev, mirrorRow, mirrorDirty, mirrorCopy, sourceSeen, mirrorEnv,
                 forgotten, mirrorFaults, mirrorActs>>

RunEnds ==
  /\ mirrorStep = "apply" /\ mirrorTodo = {}
  /\ mirrorStep' = "idle"
  /\ UNCHANGED <<targetRev, mirrorRow, mirrorDirty, mirrorRun, mirrorEnv, forgotten,
                 mirrorFaults, mirrorActs>>

\* The process dies; the rows stay.
WorkerDies ==
  /\ MirrorFault
  /\ mirrorStep # "idle"
  /\ mirrorStep' = "idle" /\ mirrorTodo' = {} /\ sourceSeen' = Nothing
  /\ forgotten' = (forgotten \/ Forgets)
  /\ UNCHANGED <<targetRev, mirrorRow, mirrorDirty, mirrorCopy, mirrorEnv,
                 mirrorActs>>

MirrorWork ==
  \/ Observe \/ StartDrain \/ ReadSource \/ WriteCopy \/ ReconcileDone \/ ClearRequest
  \/ EnqueueDirtySignals \/ Checkpoint \/ SelectDirty \/ RunEnds

MirrorNext ==
  \/ MirrorWork
  \/ FailCard \/ FailDrain \/ WorkerDies
  \/ \E c \in SourceCards : EditCommits(c) \/ DirtyWaitPasses(c)
  \/ Announce \/ AnnouncementsLost
  \/ \E cause \in Causes : SwitchOff(cause) \/ Resume(cause)
  \/ Upgrade \/ BackoffPasses \/ RetentionPasses

\* The scheduler polls for ever, clocks run, and a server that goes on inserts
\* the rows it has to.
MirrorFairness ==
  /\ WF_mirrorVars(Announce)
  /\ WF_mirrorVars(MirrorWork)
  /\ WF_mirrorVars(BackoffPasses)
  /\ \A c \in SourceCards : WF_mirrorVars(DirtyWaitPasses(c))

MirrorSafe == MirrorInit /\ [][MirrorNext]_mirrorVars

MirrorSpec == MirrorSafe /\ MirrorFairness

-----------------------------------------------------------------------------
(* Properties.                                                             *)

\* The mirror is given up on, or a row was lost or late and no reconcile came since.
Excused(c) == mirrorOff # {} \/ dirtyTries[c] = MaxDirty \/ c \in unheard

\* A change of the card is still to be announced.
Unannounced(c) == \E x \in unannounced \cup openRows : x[2] = c

Ahead(c, at) == \E e \in mirrorTail : e[2] = c /\ at < e[1]

\* A copy that lags is on the way to be noticed, in every state and whatever the
\* run does next: a change of it is still to be announced, its card is dirty or
\* parked, a row of it is beyond the cursor (or the copied one that the tail
\* starts from), a reconcile is asked for or due, or has the card still before
\* it; unless its row was lost or late since it was last reconciled
\* (emit.ts:35-53, drain.ts:36-101, apply.ts:25-66).
NothingIsMissed ==
  ~forgotten =>
    \A c \in SourceCards : targetRev[c] # sourceRev[c] /\ c \notin unheard =>
      \/ Unannounced(c)
      \/ dirtyTries[c] # NoRow
      \/ Ahead(c, cursorAt)
      \/ mirrorStep = "tail" /\ Ahead(c, mirrorCopy.cursor)
      \/ mirrorMarks \cap {"asked", "gap"} # {}
      \/ mirrorStep = "reconcile" /\ c \in mirrorTodo

\* A copy that lags behind its source is brought up to date, whatever pauses,
\* gaps, failures and crashes come between, unless the mirror stays off, the
\* card is parked, its row was lost or late and no reconcile came since, or a
\* crash followed the clearing of a request made during the reconcile
\* (emit.ts:35-53, drain.ts:85-94, apply.ts:25-66).
MirrorConverges ==
  \A c \in SourceCards :
    targetRev[c] # sourceRev[c] ~>
      (targetRev[c] = sourceRev[c] \/ Excused(c) \/ forgotten)

\* A mirror recovers before it goes past a request to reconcile, as drain.ts:150
\* says: no request is lost, so the last excuse is not needed.
RequestsAreHonoured ==
  \A c \in SourceCards :
    targetRev[c] # sourceRev[c] ~> (targetRev[c] = sourceRev[c] \/ Excused(c))

MirrorTypeOK ==
  /\ sourceRev \in [SourceCards -> Nat]
  /\ targetRev \in [SourceCards -> Nat]
  /\ mirrorTail \subseteq Nat \X SourceCards
  /\ unannounced \subseteq Nat \X SourceCards
  /\ openRows \subseteq Nat \X SourceCards
  /\ {mirrorClock, cursorAt, mirrorFaults, mirrorActs} \subseteq Nat
  /\ mirrorOff \subseteq Causes
  /\ mirrorMarks \subseteq Marks
  /\ dirtyTries \in [SourceCards -> 0..NoRow]
  /\ dirtyWaits \subseteq SourceCards
  /\ mirrorStep \in MirrorSteps
  /\ mirrorCopy \in [cursor : Nat, marks : SUBSET Marks]
  /\ mirrorTodo \subseteq SourceCards
  /\ sourceSeen \in {Nothing} \cup (SourceCards \X Nat)
  /\ unheard \subseteq SourceCards
  /\ forgotten \in BOOLEAN
=============================================================================
