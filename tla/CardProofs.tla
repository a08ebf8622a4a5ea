----------------------------- MODULE CardProofs -----------------------------
(***************************************************************************)
(* Theorems about CardCreation: for every set of workspaces, prefixes,     *)
(* places, tokens and writers, a key stays its card's and the retries of a *)
(* create meet one card.  And about PriorityQueue: for every set of cards, *)
(* spacing and least gap, the order of a queue is what its writers said.   *)
(***************************************************************************)
EXTENDS CardCreation, PriorityQueue, FiniteSetTheorems, SequenceTheorems, TLAPS

-----------------------------------------------------------------------------
(* Creation and keys. *)

Rowed(r) == writerAt[r] \in {"numbered", "locked", "reserved"} /\ ask[r].do # "found"
Tokened(r) ==
  /\ ask[r].do = "create" /\ ask[r].token # NoToken
  /\ writerAt[r] \in {"token", "numbered"}
Born(w) == {r \in Writers : answer[r] = r /\ ask[r].ws = w}

\* What a writer may ask at each stage, and what its answer stands for.
StageOf(r) ==
  /\ writerAt[r] = "idle" <=> ask[r].do = "nothing"
  /\ writerAt[r] \in {"graph", "token"} => ask[r].do = "create"
  /\ writerAt[r] = "token" => ask[r].token # NoToken
  /\ writerAt[r] = "numbered" => ask[r].do \in {"create", "copy"}
  /\ writerAt[r] = "locked" => ask[r].do = "rename"
  /\ writerAt[r] = "reserved" => ask[r].do \in {"rename", "found"}
  /\ answer[r] # "conflict"
  /\ answer[r] \in Writers =>
       /\ writerAt[r] = "over" /\ ask[r].do \in {"create", "copy"}
       /\ answer[answer[r]] = answer[r] /\ ask[answer[r]].do \in {"create", "copy"}
       /\ ask[answer[r]].token = ask[r].token
  /\ Live(r) => answer[r] = r /\ cardRow[r].ws = ask[r].ws /\ cardRow[r].token = ask[r].token

WriterStages == \A r \in Writers : StageOf(r)

\* The row and the token exclude; who holds a token found no card of it.
LocksHold ==
  /\ \A r, s \in Writers : Rowed(r) /\ Rowed(s) /\ ask[r].ws = ask[s].ws => r = s
  /\ \A r, s \in Writers : Tokened(r) /\ Tokened(s) /\ ask[r].token = ask[s].token => r = s
  /\ \A r, c \in Writers : Tokened(r) /\ Live(c) => cardRow[c].token # ask[r].token

\* A workspace has one founder, and others come after it.
Founded ==
  \A r \in Writers :
    /\ ask[r].do = "found" =>
         /\ writerAt[r] \in {"ready", "reserved"} => prefixOf[ask[r].ws] = NoPrefix
         /\ \A s \in Writers : ask[s].do = "found" /\ ask[s].ws = ask[r].ws => s = r
    /\ ask[r].do \in {"create", "copy", "rename"} => prefixOf[ask[r].ws] # NoPrefix

\* A prefix is reserved for one workspace, and the one in use is.
Reservations ==
  /\ \A p, v, w : <<p, v>> \in reserved /\ <<p, w>> \in reserved => v = w
  /\ \A w \in Workspaces : prefixOf[w] # NoPrefix => <<prefixOf[w], w>> \in reserved
  /\ \A r \in Writers : writerAt[r] = "reserved" =>
       /\ \A w : <<ask[r].prefix, w>> \in reserved => w = ask[r].ws
       /\ \A s \in Writers :
            writerAt[s] = "reserved" /\ ask[s].prefix = ask[r].prefix => s = r

\* Cards of a workspace have different numbers, none beyond its counter, which
\* counts the cards ever created; the number that is drawn is the next one.
Numbered ==
  /\ \A r \in Writers : writerAt[r] = "numbered" =>
       drawn[r] = <<prefixOf[ask[r].ws], lastNumber[ask[r].ws] + 1>>
  /\ \A c \in Writers : Live(c) => cardRow[c].number <= lastNumber[cardRow[c].ws]
  /\ \A c, d \in Writers :
       Live(c) /\ Live(d) /\ cardRow[c].ws = cardRow[d].ws /\ cardRow[c].number = cardRow[d].number
         => c = d
  /\ \A c, d \in Writers :
       Live(c) /\ Live(d) /\ cardRow[c].token = cardRow[d].token /\ cardRow[c].token # NoToken
         => c = d
  /\ \A w \in Workspaces : lastNumber[w] = Cardinality(Born(w))

\* A key that was shown is reserved for its card's workspace, and its number is
\* that card's.
Remembered ==
  \A k \in keysHad :
    /\ answer[k[3]] = k[3]
    /\ <<k[1], ask[k[3]].ws>> \in reserved
    /\ k[2] <= lastNumber[ask[k[3]].ws]
    /\ Live(k[3]) => cardRow[k[3]].number = k[2]
    /\ \A d \in Writers :
         Live(d) /\ cardRow[d].ws = ask[k[3]].ws /\ cardRow[d].number = k[2] => d = k[3]

CreationInv ==
  /\ CreationTypeOK
  /\ WriterStages
  /\ LocksHold
  /\ Founded
  /\ Reservations
  /\ Numbered
  /\ Remembered

-----------------------------------------------------------------------------
LEMMA AskShape ==
  ASSUME CreationTypeOK, NEW r \in Writers
  PROVE  /\ ask[r].do \in {"nothing", "create", "copy", "rename", "found"}
         /\ ask[r].do \in {"create", "copy"} =>
              ask[r].ws \in Workspaces /\ ask[r].place \in Places /\ ask[r].token \in Tokens \cup {NoToken}
         /\ ask[r].do = "copy" => ask[r].token = NoToken
         /\ ask[r].do \in {"rename", "found"} => ask[r].ws \in Workspaces /\ ask[r].prefix \in KeyPrefixes
BY DEF CreationTypeOK, Asks, NoAsk

LEMMA RowShape ==
  ASSUME CreationTypeOK, NEW c \in Writers, Live(c)
  PROVE  /\ cardRow[c].ws \in Workspaces /\ cardRow[c].number \in Nat
         /\ cardRow[c].token \in Tokens \cup {NoToken}
         /\ cardRow[c] \in [at : {"here"}, ws : Workspaces, place : Places,
                            token : Tokens \cup {NoToken}, prefix : KeyPrefixes, number : Nat]
BY DEF CreationTypeOK, Live, NoCard, Gone

LEMMA CreationInitHolds ==
  ASSUME CreationInit
  PROVE  CreationInv
<1>1. \A r \in Writers : ~Live(r) /\ answer[r] = "none" /\ ask[r].do = "nothing" /\ writerAt[r] = "idle"
  BY DEF CreationInit, Live, NoCard, NoAsk
<1>2. "none" \notin Writers
  BY CreationAssumption
<1>3. CreationTypeOK
  BY DEF CreationInit, CreationTypeOK
<1>4. WriterStages
  BY <1>1, <1>2 DEF WriterStages, StageOf
<1>5. LocksHold
  BY <1>1 DEF LocksHold, Rowed, Tokened
<1>6. Founded
  BY <1>1 DEF Founded
<1>7. Reservations
  <2>1. \A p, v, w : <<p, v>> \in reserved /\ <<p, w>> \in reserved => v = w
    BY DEF CreationInit
  <2>2. \A w \in Workspaces : prefixOf[w] # NoPrefix => <<prefixOf[w], w>> \in reserved
    BY DEF CreationInit
  <2> QED
    BY <1>1, <2>1, <2>2 DEF Reservations
<1>8. Numbered
  <2>1. \A w : Born(w) = {}
    BY <1>1, <1>2 DEF Born
  <2>2. \A w \in Workspaces : lastNumber[w] = Cardinality(Born(w))
    BY <2>1, FS_EmptySet DEF CreationInit
  <2> QED
    BY <1>1, <2>2 DEF Numbered
<1>9. Remembered
  BY DEF Remembered, CreationInit
<1> QED
  BY <1>3, <1>4, <1>5, <1>6, <1>7, <1>8, <1>9 DEF CreationInv

\* A writer that is not over moves on or ends without a card of its own.
LEMMA QuietStep ==
  ASSUME CreationInv, NEW r \in Writers, writerAt[r] # "over",
         UNCHANGED <<prefixOf, lastNumber, reserved, cardRow, keysHad>>,
         \A s \in Writers \ {r} : /\ ask'[s] = ask[s] /\ answer'[s] = answer[s]
                                  /\ writerAt'[s] = writerAt[s] /\ drawn'[s] = drawn[s],
         answer'[r] # r,
         writerAt'[r] = "numbered" =>
           drawn'[r] = <<prefixOf[ask'[r].ws], lastNumber[ask'[r].ws] + 1>>,
         writerAt'[r] = "reserved" =>
           /\ \A w : <<ask'[r].prefix, w>> \in reserved => w = ask'[r].ws
           /\ \A s \in Writers \ {r} : writerAt[s] = "reserved" => ask[s].prefix # ask'[r].prefix
  PROVE  Numbered' /\ Remembered' /\ Reservations'
<1>1. \A c \in Writers : answer[c] = c => c # r
  BY DEF CreationInv, WriterStages, StageOf
<1>2. \A c \in Writers : Live(c)' <=> Live(c)
  BY DEF Live
<1>3. \A w : Born(w)' = Born(w)
  BY <1>1 DEF Born
<1>4. Numbered'
  BY <1>2, <1>3 DEF CreationInv, Numbered
<1>5. Remembered'
  <2>1. \A k \in keysHad : k[3] \in Writers /\ answer[k[3]] = k[3]
    BY DEF CreationInv, CreationTypeOK, Remembered
  <2>2. \A k \in keysHad : answer'[k[3]] = answer[k[3]] /\ ask'[k[3]] = ask[k[3]]
    BY <1>1, <2>1
  <2>3. Remembered
    BY DEF CreationInv
  <2> QED
    BY <1>2, <2>1, <2>2, <2>3 DEF Remembered
<1>6. Reservations'
  <2>1. \A p, v, w : <<p, v>> \in reserved' /\ <<p, w>> \in reserved' => v = w
    BY DEF CreationInv, Reservations
  <2>2. \A w \in Workspaces : prefixOf'[w] # NoPrefix => <<prefixOf'[w], w>> \in reserved'
    BY DEF CreationInv, Reservations
  <2>3. \A s \in Writers : writerAt'[s] = "reserved" =>
          /\ \A w : <<ask'[s].prefix, w>> \in reserved' => w = ask'[s].ws
          /\ \A q \in Writers :
               writerAt'[q] = "reserved" /\ ask'[q].prefix = ask'[s].prefix => q = s
    BY DEF CreationInv, Reservations
  <2> QED
    BY <2>1, <2>2, <2>3 DEF Reservations
<1> QED
  BY <1>4, <1>5, <1>6

LEMMA ArriveKeeps ==
  ASSUME CreationInv, NEW r \in Writers, NEW a \in Asks, Arrive(r, a)
  PROVE  CreationInv'
<1> USE DEF Arrive
<1>1. CreationTypeOK /\ WriterStages /\ LocksHold /\ Founded
  BY DEF CreationInv
<1>2. /\ a.do \in {"create", "copy", "rename", "found"} /\ a.ws \in Workspaces
      /\ a.do \in {"create", "copy"} => a.token \in Tokens \cup {NoToken}
  BY DEF Asks
<1>3. /\ writerAt[r] = "idle" /\ ask[r].do = "nothing" /\ ask'[r] = a
      /\ \A s \in Writers \ {r} : ask'[s] = ask[s]
      /\ answer[r] \notin Writers /\ ~Live(r)
  BY <1>1 DEF CreationTypeOK, WriterStages, StageOf
<1>4. /\ writerAt' \in [Writers -> {"idle", "ready", "graph", "token", "numbered", "locked", "reserved", "over"}]
      /\ answer' \in [Writers -> Writers \cup Ends \cup {"none"}]
      /\ \A s \in Writers \ {r} : writerAt'[s] = writerAt[s] /\ answer'[s] = answer[s]
      /\ \/ writerAt'[r] = "ready" /\ answer'[r] = answer[r]
         \/ writerAt'[r] = "over" /\ answer'[r] = "refused"
         \/ /\ writerAt'[r] = "over" /\ answer'[r] \in Writers /\ a.do = "create"
            /\ Live(answer'[r]) /\ cardRow[answer'[r]].token = a.token
  BY <1>1, <1>2 DEF CreationTypeOK, Replay, EndWith, GoOn, Made, LiveCards, Ends
<1>5. CreationTypeOK'
  <2>1. ask' \in [Writers -> Asks \cup {NoAsk}]
    BY <1>1 DEF CreationTypeOK
  <2> QED
    BY <1>1, <1>4, <2>1 DEF CreationTypeOK, identities
<1>6. "refused" \notin Writers /\ "none" \notin Writers
  BY CreationAssumption DEF Ends
<1>7. answer'[r] # r
  BY <1>3, <1>4, <1>6
<1>8. WriterStages'
  <2> SUFFICES ASSUME NEW s \in Writers
               PROVE  StageOf(s)'
    BY DEF WriterStages
  <2>1. \A c \in Writers : Live(c)' <=> Live(c)
    BY DEF Live
  <2>2. CASE s # r
    <3>1. StageOf(s) /\ answer[s] # r
      BY <1>1, <1>3, <2>2 DEF WriterStages, StageOf
    <3> QED
      BY <1>3, <1>4, <2>1, <2>2, <3>1 DEF StageOf
  <2>3. CASE s = r /\ answer'[r] \in Writers
    <3>1. answer'[r] # r /\ StageOf(answer'[r])
      BY <1>1, <1>7, <2>3 DEF WriterStages
    <3>2. writerAt'[r] = "over" /\ a.do = "create" /\ Live(answer'[r]) /\ cardRow[answer'[r]].token = a.token
      BY <1>3, <1>4, <1>6, <2>3
    <3> QED
      BY <1>2, <1>3, <1>4, <2>1, <2>3, <3>1, <3>2, CreationAssumption DEF StageOf, Ends
  <2>4. CASE s = r /\ answer'[r] \notin Writers
    <3>1. StageOf(r)
      BY <1>1 DEF WriterStages
    <3> QED
      BY <1>2, <1>3, <1>4, <2>1, <2>4, <3>1 DEF StageOf
  <2> QED
    BY <2>2, <2>3, <2>4
<1>9. LocksHold'
  <2>1. ~Rowed(r)' /\ ~Tokened(r)'
    BY <1>4 DEF Rowed, Tokened
  <2>2. \A s \in Writers \ {r} : (Rowed(s)' <=> Rowed(s)) /\ (Tokened(s)' <=> Tokened(s))
    BY <1>3, <1>4 DEF Rowed, Tokened
  <2>3. \A c \in Writers : Live(c)' <=> Live(c)
    BY DEF Live
  <2> QED
    BY <1>1, <1>3, <2>1, <2>2, <2>3 DEF LocksHold
<1>10. Founded'
  BY <1>1, <1>2, <1>3, <1>4 DEF Founded, identities
<1>11. Numbered' /\ Remembered' /\ Reservations'
  BY <1>3, <1>4, <1>7, QuietStep DEF identities
<1> QED
  BY <1>5, <1>8, <1>9, <1>10, <1>11 DEF CreationInv

\* A writer's step that commits nothing: it goes on under locks that were free
\* or that it had, or ends.
Uncommitted(r, at, told) ==
  /\ writerAt[r] \in {"ready", "graph", "token", "numbered", "locked", "reserved"}
  /\ writerAt' = [writerAt EXCEPT ![r] = at] /\ answer' = [answer EXCEPT ![r] = told]
  /\ UNCHANGED <<identities, cardRow, ask, keysHad>>
  /\ drawn' \in [Writers -> {<<>>} \cup (KeyPrefixes \X Nat)]
  /\ \A s \in Writers \ {r} : drawn'[s] = drawn[s]
  /\ \/ at \in {"graph", "token", "numbered", "locked", "reserved"} /\ told = answer[r]
     \/ at = "over" /\ told \in {"refused", "failed", "done"}
     \/ /\ at = "over" /\ told \in Writers /\ Live(told) /\ ask[r].do = "create"
        /\ cardRow[told].token = ask[r].token
  /\ at \in {"graph", "token"} => ask[r].do = "create"
  /\ at = "token" =>
       /\ ask[r].token # NoToken
       /\ Tokened(r) \/ (~TokenHeld(ask[r].token) /\ Made(ask[r].token) = {})
  /\ at = "numbered" =>
       /\ ask[r].do \in {"create", "copy"}
       /\ ask[r].do = "create" /\ ask[r].token # NoToken => Tokened(r)
       /\ drawn'[r] = <<prefixOf[ask[r].ws], lastNumber[ask[r].ws] + 1>>
  /\ at = "locked" => ask[r].do = "rename"
  /\ at = "reserved" =>
       /\ ask[r].do \in {"rename", "found"}
       /\ \A w : <<ask[r].prefix, w>> \in reserved => w = ask[r].ws
       /\ \A s \in Writers \ {r} : writerAt[s] = "reserved" => ask[s].prefix # ask[r].prefix
  /\ at \in {"numbered", "locked", "reserved"} /\ ask[r].do # "found" =>
       Rowed(r) \/ ~RowHeld(ask[r].ws)

LEMMA UncommittedStep ==
  ASSUME CreationInv, NEW r \in Writers, NEW at, NEW told, Uncommitted(r, at, told)
  PROVE  CreationInv'
<1> USE DEF Uncommitted
<1>1. CreationTypeOK /\ WriterStages /\ LocksHold /\ Founded
  BY DEF CreationInv
<1>2. /\ writerAt'[r] = at /\ answer'[r] = told
      /\ \A s \in Writers \ {r} : writerAt'[s] = writerAt[s] /\ answer'[s] = answer[s]
  BY <1>1 DEF CreationTypeOK
<1>3. "refused" \notin Writers /\ "none" \notin Writers /\ "failed" \notin Writers
      /\ "done" \notin Writers /\ "conflict" \notin Writers
  BY CreationAssumption DEF Ends
<1>4. answer[r] \notin Writers /\ ~Live(r) /\ StageOf(r)
  BY <1>1 DEF WriterStages, StageOf
<1>5. told # r
  BY <1>3, <1>4
<1>6. \A c \in Writers : Live(c)' <=> Live(c)
  BY DEF Live
<1>7. CreationTypeOK'
  <2>1. at \in {"ready", "graph", "token", "numbered", "locked", "reserved", "over"}
    OBVIOUS
  <2>2. told \in Writers \cup Ends \cup {"none"}
    BY <1>1 DEF CreationTypeOK, Ends
  <2> QED
    BY <1>1, <2>1, <2>2 DEF CreationTypeOK, identities
<1>8. WriterStages'
  <2> SUFFICES ASSUME NEW s \in Writers
               PROVE  StageOf(s)'
    BY DEF WriterStages
  <2>1. CASE s # r
    <3>1. StageOf(s) /\ answer[s] # r
      BY <1>1, <1>4, <2>1 DEF WriterStages, StageOf
    <3> QED
      BY <1>2, <1>6, <2>1, <3>1 DEF StageOf
  <2>2. CASE s = r /\ told \in Writers
    <3>1. StageOf(told)
      BY <1>1, <2>2 DEF WriterStages
    <3> QED
      BY <1>2, <1>3, <1>4, <1>5, <1>6, <2>2, <3>1 DEF StageOf
  <2>3. CASE s = r /\ told \notin Writers
    BY <1>2, <1>4, <1>6, <2>3 DEF StageOf
  <2> QED
    BY <2>1, <2>2, <2>3
<1>9. LocksHold'
  <2>1. \A s \in Writers \ {r} : (Rowed(s)' <=> Rowed(s)) /\ (Tokened(s)' <=> Tokened(s))
    BY <1>2 DEF Rowed, Tokened
  <2>2. \A s \in Writers \ {r} : Rowed(r)' /\ Rowed(s) => ask[r].ws # ask[s].ws
    BY <1>1, <1>2 DEF LocksHold, Rowed, RowHeld
  <2>3. \A s \in Writers \ {r} : Tokened(r)' /\ Tokened(s) => ask[r].token # ask[s].token
    BY <1>1, <1>2 DEF LocksHold, Tokened, TokenHeld
  <2>4. \A c \in Writers : Tokened(r)' /\ Live(c) => cardRow[c].token # ask[r].token
    BY <1>1, <1>2 DEF LocksHold, Tokened, Made, LiveCards
  <2>5. \A p, q \in Writers : Rowed(p)' /\ Rowed(q)' /\ ask'[p].ws = ask'[q].ws => p = q
    BY <1>1, <2>1, <2>2 DEF LocksHold
  <2>6. \A p, q \in Writers : Tokened(p)' /\ Tokened(q)' /\ ask'[p].token = ask'[q].token => p = q
    BY <1>1, <2>1, <2>3 DEF LocksHold
  <2>7. \A p, c \in Writers : Tokened(p)' /\ Live(c)' => cardRow'[c].token # ask'[p].token
    BY <1>1, <1>6, <2>1, <2>4 DEF LocksHold
  <2> QED
    BY <2>5, <2>6, <2>7 DEF LocksHold
<1>10. Founded'
  BY <1>1, <1>2, <1>4 DEF Founded, StageOf, identities
<1>11. Numbered' /\ Remembered' /\ Reservations'
  BY <1>2, <1>5, QuietStep DEF identities
<1> QED
  BY <1>7, <1>8, <1>9, <1>10, <1>11 DEF CreationInv

LEMMA TakeGraphToCreateKeeps ==
  ASSUME CreationInv, NEW r \in Writers, TakeGraphToCreate(r)
  PROVE  CreationInv'
<1>1. CreationTypeOK
  BY DEF CreationInv
<1>2. Uncommitted(r, "graph", answer[r])
  BY <1>1 DEF TakeGraphToCreate, GoOn, Uncommitted, CreationTypeOK
<1> QED
  BY <1>2, UncommittedStep

LEMMA TakeTokenKeeps ==
  ASSUME CreationInv, NEW r \in Writers, TakeToken(r)
  PROVE  CreationInv'
<1>1. CreationTypeOK /\ ask[r].do = "create"
  BY DEF CreationInv, WriterStages, StageOf, TakeToken
<1>2. CASE Made(ask[r].token) = {}
  <2>1. Uncommitted(r, "token", answer[r])
    BY <1>1, <1>2 DEF TakeToken, GoOn, Uncommitted, CreationTypeOK
  <2> QED
    BY <2>1, UncommittedStep
<1>3. CASE Made(ask[r].token) # {}
  <2>1. PICK c \in Made(ask[r].token) : Replay(r, ask[r], c)
    BY <1>3 DEF TakeToken
  <2>2. PICK told \in {c, "refused"} :
          /\ writerAt' = [writerAt EXCEPT ![r] = "over"]
          /\ answer' = [answer EXCEPT ![r] = told]
    BY <2>1 DEF Replay, EndWith
  <2>3. c \in Writers /\ Live(c) /\ cardRow[c].token = ask[r].token
    BY DEF Made, LiveCards
  <2>4. Uncommitted(r, "over", told)
    BY <1>1, <2>2, <2>3 DEF TakeToken, Uncommitted, CreationTypeOK
  <2> QED
    BY <2>4, UncommittedStep
<1> QED
  BY <1>2, <1>3

LEMMA AllocateKeeps ==
  ASSUME CreationInv, NEW r \in Writers, Allocate(r)
  PROVE  CreationInv'
<1>1. CreationTypeOK /\ StageOf(r)
  BY DEF CreationInv, WriterStages
<1>2. ask[r].do \in {"create", "copy"} /\ ask[r].ws \in Workspaces
  BY <1>1, AskShape DEF Allocate, StageOf
<1>3. ask[r].do = "create" /\ ask[r].token # NoToken => Tokened(r)
  BY <1>1 DEF Allocate, StageOf, Tokened
<1>4. writerAt[r] \in {"ready", "graph", "token"}
  BY DEF Allocate
<1>5. CASE Exists(ask[r].ws)
  <2>1. drawn' = [drawn EXCEPT ![r] = <<prefixOf[ask[r].ws], lastNumber[ask[r].ws] + 1>>]
    BY <1>5 DEF Allocate
  <2>2. <<prefixOf[ask[r].ws], lastNumber[ask[r].ws] + 1>> \in KeyPrefixes \X Nat
    BY <1>1, <1>2, <1>5 DEF CreationTypeOK, Exists
  <2>3. drawn' \in [Writers -> {<<>>} \cup (KeyPrefixes \X Nat)]
    BY <1>1, <2>1, <2>2 DEF CreationTypeOK
  <2>4. /\ drawn'[r] = <<prefixOf[ask[r].ws], lastNumber[ask[r].ws] + 1>>
        /\ \A s \in Writers \ {r} : drawn'[s] = drawn[s]
    BY <1>1, <2>1 DEF CreationTypeOK
  <2>5. Uncommitted(r, "numbered", answer[r])
    <3>1. /\ writerAt' = [writerAt EXCEPT ![r] = "numbered"]
          /\ answer' = [answer EXCEPT ![r] = answer[r]]
          /\ UNCHANGED <<identities, cardRow, ask, keysHad>> /\ ~RowHeld(ask[r].ws)
      BY <1>1, <1>5 DEF Allocate, GoOn, CreationTypeOK
    <3> QED
      BY <1>2, <1>3, <1>4, <2>3, <2>4, <3>1 DEF Uncommitted
  <2> QED
    BY <2>5, UncommittedStep
<1>6. CASE ~Exists(ask[r].ws)
  <2>1. Uncommitted(r, "over", "failed")
    BY <1>1, <1>4, <1>6 DEF Allocate, EndWith, Uncommitted, CreationTypeOK
  <2> QED
    BY <2>1, UncommittedStep
<1> QED
  BY <1>5, <1>6

LEMMA FailWriteKeeps ==
  ASSUME CreationInv, NEW r \in Writers, FailWrite(r)
  PROVE  CreationInv'
<1>1. Uncommitted(r, "over", "failed")
  BY DEF CreationInv, FailWrite, EndWith, Uncommitted, CreationTypeOK
<1> QED
  BY <1>1, UncommittedStep

LEMMA LockWorkspaceKeeps ==
  ASSUME CreationInv, NEW r \in Writers, LockWorkspace(r)
  PROVE  CreationInv'
<1>1. CreationTypeOK
  BY DEF CreationInv
<1>2. \/ Uncommitted(r, "over", "failed") \/ Uncommitted(r, "over", "done")
      \/ Uncommitted(r, "locked", answer[r])
  <2>1. CASE ~Exists(ask[r].ws)
    BY <1>1, <2>1 DEF LockWorkspace, EndWith, Uncommitted, CreationTypeOK
  <2>2. CASE Exists(ask[r].ws) /\ ask[r].prefix = prefixOf[ask[r].ws]
    BY <1>1, <2>2 DEF LockWorkspace, EndWith, Uncommitted, CreationTypeOK
  <2>3. CASE Exists(ask[r].ws) /\ ask[r].prefix # prefixOf[ask[r].ws]
    BY <1>1, <2>3 DEF LockWorkspace, GoOn, Uncommitted, CreationTypeOK
  <2> QED
    BY <2>1, <2>2, <2>3
<1> QED
  BY <1>2, UncommittedStep

LEMMA ReserveKeeps ==
  ASSUME CreationInv, NEW r \in Writers, Reserve(r)
  PROVE  CreationInv'
<1>1. CreationTypeOK /\ StageOf(r)
  BY DEF CreationInv, WriterStages
<1>2. ask[r].do \in {"rename", "found"} /\ (ask[r].do # "found" => Rowed(r))
  BY <1>1 DEF Reserve, StageOf, Rowed
<1>3. \A p, w : <<p, w>> \in reserved => w \in Workspaces
  BY <1>1 DEF CreationTypeOK
<1>4. CASE \E w \in Workspaces \ {ask[r].ws} : <<ask[r].prefix, w>> \in reserved
  <2>1. Uncommitted(r, "over", "refused")
    BY <1>1, <1>4 DEF Reserve, EndWith, Uncommitted, CreationTypeOK
  <2> QED
    BY <2>1, UncommittedStep
<1>5. CASE ~\E w \in Workspaces \ {ask[r].ws} : <<ask[r].prefix, w>> \in reserved
  <2>1. Uncommitted(r, "reserved", answer[r])
    BY <1>1, <1>2, <1>3, <1>5 DEF Reserve, GoOn, Uncommitted, CreationTypeOK
  <2> QED
    BY <2>1, UncommittedStep
<1> QED
  BY <1>4, <1>5

-----------------------------------------------------------------------------
\* The number a create holds is free, and so is its token: nothing clashes.
LEMMA NothingClashes ==
  ASSUME CreationInv, NEW r \in Writers, writerAt[r] = "numbered"
  PROVE  /\ ~Clashes(r)
         /\ ask[r].do \in {"create", "copy"} /\ ask[r].ws \in Workspaces /\ ask[r].place \in Places
         /\ ask[r].token \in Tokens \cup {NoToken}
         /\ drawn[r][1] = prefixOf[ask[r].ws] /\ drawn[r][1] \in KeyPrefixes
         /\ drawn[r][2] = lastNumber[ask[r].ws] + 1 /\ lastNumber[ask[r].ws] \in Nat
         /\ Rowed(r) /\ (ask[r].token # NoToken => Tokened(r))
         /\ ~Live(r) /\ answer[r] \notin Writers
<1>1. CreationTypeOK /\ StageOf(r) /\ Founded /\ LocksHold /\ Numbered
  BY DEF CreationInv, WriterStages
<1>2. /\ ask[r].do \in {"create", "copy"} /\ ask[r].ws \in Workspaces /\ ask[r].place \in Places
      /\ ask[r].token \in Tokens \cup {NoToken}
      /\ ask[r].do = "copy" => ask[r].token = NoToken
  BY <1>1, AskShape DEF StageOf
<1>3. /\ drawn[r][1] = prefixOf[ask[r].ws] /\ drawn[r][2] = lastNumber[ask[r].ws] + 1
      /\ prefixOf[ask[r].ws] # NoPrefix
  BY <1>1, <1>2 DEF Numbered, Founded
<1>4. prefixOf[ask[r].ws] \in KeyPrefixes /\ lastNumber[ask[r].ws] \in Nat
  BY <1>1, <1>2, <1>3 DEF CreationTypeOK
<1>5. Rowed(r) /\ (ask[r].token # NoToken => Tokened(r))
  BY <1>2 DEF Rowed, Tokened
<1>6. ~Live(r) /\ answer[r] \notin Writers
  BY <1>1 DEF StageOf
<1>7. \A c \in LiveCards : cardRow[c].ws = ask[r].ws => cardRow[c].number # lastNumber[ask[r].ws] + 1
  <2> SUFFICES ASSUME NEW c \in Writers, Live(c), cardRow[c].ws = ask[r].ws
               PROVE  cardRow[c].number # lastNumber[ask[r].ws] + 1
    BY DEF LiveCards
  <2>1. cardRow[c].number \in Nat
    BY <1>1, RowShape
  <2>2. cardRow[c].number <= lastNumber[ask[r].ws]
    BY <1>1 DEF Numbered
  <2> QED
    BY <1>4, <2>1, <2>2
<1>8. ask[r].token # NoToken => Made(ask[r].token) = {}
  BY <1>1, <1>5 DEF LocksHold, Made, LiveCards
<1> QED
  BY <1>2, <1>3, <1>4, <1>5, <1>6, <1>7, <1>8 DEF Clashes

LEMMA CommitCardKeeps ==
  ASSUME CreationInv, NEW r \in Writers, CommitCard(r)
  PROVE  CreationInv'
<1> DEFINE w == ask[r].ws
           n == lastNumber[w] + 1
           row == [at |-> "here", ws |-> w, place |-> ask[r].place,
                   token |-> ask[r].token, prefix |-> prefixOf[w], number |-> n]
<1>1. CreationTypeOK /\ WriterStages /\ LocksHold /\ Founded /\ Reservations /\ Numbered /\ Remembered
  BY DEF CreationInv
<1>2. writerAt[r] = "numbered"
  BY DEF CommitCard
<1>3. /\ ask[r].do \in {"create", "copy"} /\ w \in Workspaces /\ ask[r].place \in Places
      /\ ask[r].token \in Tokens \cup {NoToken} /\ prefixOf[w] \in KeyPrefixes
      /\ lastNumber[w] \in Nat /\ n \in Nat /\ n > lastNumber[w]
      /\ Rowed(r) /\ (ask[r].token # NoToken => Tokened(r))
      /\ ~Live(r) /\ answer[r] \notin Writers
  BY <1>2, NothingClashes
<1>4. /\ lastNumber' = [lastNumber EXCEPT ![w] = n]
      /\ cardRow' = [cardRow EXCEPT ![r] = row]
      /\ keysHad' = keysHad \cup {<<prefixOf[w], n, r>>}
      /\ writerAt' = [writerAt EXCEPT ![r] = "over"] /\ answer' = [answer EXCEPT ![r] = r]
      /\ UNCHANGED <<prefixOf, reserved, shut, ask, drawn>>
  BY <1>2, NothingClashes DEF CommitCard, EndWith
<1> HIDE DEF n
<1>5. /\ lastNumber'[w] = n /\ \A v \in Workspaces \ {w} : lastNumber'[v] = lastNumber[v]
      /\ cardRow'[r] = row /\ writerAt'[r] = "over" /\ answer'[r] = r
      /\ \A s \in Writers \ {r} :
           cardRow'[s] = cardRow[s] /\ writerAt'[s] = writerAt[s] /\ answer'[s] = answer[s]
  BY <1>1, <1>3, <1>4 DEF CreationTypeOK
<1>6. /\ \A c \in Writers \ {r} : Live(c)' <=> Live(c)
      /\ Live(r)' /\ row.ws = w /\ row.token = ask[r].token /\ row.number = n
  BY <1>5 DEF Live
<1>7. \A c \in Writers : Live(c) =>
        /\ c # r /\ cardRow[c].ws \in Workspaces /\ cardRow[c].number \in Nat
        /\ cardRow[c].number <= lastNumber[cardRow[c].ws]
        /\ cardRow[c].ws = w => cardRow[c].number # n
  BY <1>1, <1>3, RowShape DEF Numbered
<1>8. \A v \in Workspaces : lastNumber[v] \in Nat /\ lastNumber'[v] \in Nat /\ lastNumber[v] <= lastNumber'[v]
  BY <1>1, <1>3, <1>5 DEF CreationTypeOK
<1>9. CreationTypeOK'
  <2>1. row \in [at : {"here"}, ws : Workspaces, place : Places, token : Tokens \cup {NoToken},
                 prefix : KeyPrefixes, number : Nat]
    BY <1>3
  <2>2. keysHad' \subseteq KeyPrefixes \X Nat \X Writers
    BY <1>1, <1>3, <1>4 DEF CreationTypeOK
  <2>3. lastNumber' \in [Workspaces -> Nat]
    BY <1>1, <1>3, <1>4 DEF CreationTypeOK
  <2> HIDE DEF row
  <2>4. /\ cardRow' \in [Writers -> {NoCard, Gone} \cup
             [at : {"here"}, ws : Workspaces, place : Places, token : Tokens \cup {NoToken},
              prefix : KeyPrefixes, number : Nat]]
        /\ writerAt' \in [Writers ->
             {"idle", "ready", "graph", "token", "numbered", "locked", "reserved", "over"}]
        /\ answer' \in [Writers -> Writers \cup Ends \cup {"none"}]
    BY <1>1, <1>4, <2>1 DEF CreationTypeOK
  <2> QED
    BY <1>1, <1>4, <2>2, <2>3, <2>4 DEF CreationTypeOK
<1> HIDE DEF row
<1>10. WriterStages'
  <2> SUFFICES ASSUME NEW s \in Writers
               PROVE  StageOf(s)'
    BY DEF WriterStages
  <2>1. CASE s # r
    <3>1. StageOf(s) /\ answer[s] # r
      BY <1>1, <1>3, <2>1 DEF WriterStages, StageOf
    <3> QED
      BY <1>4, <1>5, <1>6, <2>1, <3>1 DEF StageOf
  <2>2. CASE s = r
    BY <1>3, <1>4, <1>5, <1>6, <2>2, CreationAssumption DEF StageOf, Ends
  <2> QED
    BY <2>1, <2>2
<1>11. LocksHold'
  <2>1. ~Rowed(r)' /\ ~Tokened(r)'
    BY <1>5 DEF Rowed, Tokened
  <2>2. \A s \in Writers \ {r} : (Rowed(s)' <=> Rowed(s)) /\ (Tokened(s)' <=> Tokened(s))
    BY <1>4, <1>5 DEF Rowed, Tokened
  <2>3. \A p, q \in Writers : Rowed(p)' /\ Rowed(q)' /\ ask'[p].ws = ask'[q].ws => p = q
    BY <1>1, <1>4, <2>1, <2>2 DEF LocksHold
  <2>4. \A p, q \in Writers : Tokened(p)' /\ Tokened(q)' /\ ask'[p].token = ask'[q].token => p = q
    BY <1>1, <1>4, <2>1, <2>2 DEF LocksHold
  <2>5. \A s \in Writers \ {r} : Tokened(s) => ask[r].token # ask[s].token
    BY <1>1, <1>3 DEF LocksHold, Tokened
  <2>6. \A p, c \in Writers : Tokened(p)' /\ Live(c)' => cardRow'[c].token # ask'[p].token
    BY <1>1, <1>4, <1>5, <1>6, <2>1, <2>2, <2>5 DEF LocksHold
  <2> QED
    BY <2>3, <2>4, <2>6 DEF LocksHold
<1>12. Founded'
  BY <1>1, <1>4, <1>5 DEF Founded
<1>13. Reservations'
  <2>1. \A p, u, v : <<p, u>> \in reserved' /\ <<p, v>> \in reserved' => u = v
    BY <1>1, <1>4 DEF Reservations
  <2>2. \A v \in Workspaces : prefixOf'[v] # NoPrefix => <<prefixOf'[v], v>> \in reserved'
    BY <1>1, <1>4 DEF Reservations
  <2>3. \A s \in Writers : writerAt'[s] = "reserved" =>
          /\ \A v : <<ask'[s].prefix, v>> \in reserved' => v = ask'[s].ws
          /\ \A q \in Writers :
               writerAt'[q] = "reserved" /\ ask'[q].prefix = ask'[s].prefix => q = s
    BY <1>1, <1>4, <1>5 DEF Reservations
  <2> QED
    BY <2>1, <2>2, <2>3 DEF Reservations
<1>14. Numbered'
  <2>1. ASSUME NEW s \in Writers, writerAt'[s] = "numbered"
        PROVE  drawn'[s] = <<prefixOf'[ask'[s].ws], lastNumber'[ask'[s].ws] + 1>>
    <3>1. s # r /\ writerAt[s] = "numbered"
      BY <1>5, <2>1
    <3>2. Rowed(s) /\ ask[s].ws \in Workspaces
      BY <3>1, NothingClashes
    <3>3. ask[s].ws # w
      BY <1>1, <1>3, <3>1, <3>2 DEF LocksHold
    <3> QED
      BY <1>1, <1>4, <1>5, <3>1, <3>2, <3>3 DEF Numbered
  <2>2. \A c \in Writers : Live(c)' => cardRow'[c].number <= lastNumber'[cardRow'[c].ws]
    <3> SUFFICES ASSUME NEW c \in Writers, Live(c)'
                 PROVE  cardRow'[c].number <= lastNumber'[cardRow'[c].ws]
      OBVIOUS
    <3>1. CASE c = r
      BY <1>3, <1>5, <1>6, <3>1
    <3>2. CASE c # r
      BY <1>5, <1>6, <1>7, <1>8, <3>2
    <3> QED
      BY <3>1, <3>2
  <2>3. \A c, d \in Writers :
          Live(c)' /\ Live(d)' /\ cardRow'[c].ws = cardRow'[d].ws
            /\ cardRow'[c].number = cardRow'[d].number => c = d
    BY <1>1, <1>5, <1>6, <1>7 DEF Numbered
  <2>4. \A c \in Writers : Live(c) => cardRow[c].token # ask[r].token \/ ask[r].token = NoToken
    BY <1>1, <1>3 DEF LocksHold
  <2>5. \A c, d \in Writers :
          Live(c)' /\ Live(d)' /\ cardRow'[c].token = cardRow'[d].token
            /\ cardRow'[c].token # NoToken => c = d
    BY <1>1, <1>5, <1>6, <2>4 DEF Numbered
  <2>6. ASSUME NEW v \in Workspaces
        PROVE  lastNumber'[v] = Cardinality(Born(v)')
    <3>1. lastNumber[v] = Cardinality(Born(v)) /\ IsFiniteSet(Born(v)) /\ r \notin Born(v)
      BY <1>1, <1>3, CreationAssumption, FS_Subset DEF Numbered, Born
    <3>2. CASE v = w
      <4>1. Born(v)' = Born(v) \cup {r}
        BY <1>3, <1>4, <1>5, <3>2 DEF Born
      <4>2. Cardinality(Born(v) \cup {r}) = Cardinality(Born(v)) + 1
        BY <3>1, FS_AddElement
      <4> QED
        BY <1>5, <3>1, <3>2, <4>1, <4>2 DEF n
    <3>3. CASE v # w
      <4>1. Born(v)' = Born(v)
        BY <1>3, <1>4, <1>5, <3>3 DEF Born
      <4> QED
        BY <1>5, <3>1, <3>3, <4>1
    <3> QED
      BY <3>2, <3>3
  <2> QED
    BY <2>1, <2>2, <2>3, <2>5, <2>6 DEF Numbered
<1>15. Remembered'
  <2> SUFFICES ASSUME NEW k \in keysHad'
               PROVE  /\ answer'[k[3]] = k[3]
                      /\ <<k[1], ask'[k[3]].ws>> \in reserved'
                      /\ k[2] <= lastNumber'[ask'[k[3]].ws]
                      /\ Live(k[3])' => cardRow'[k[3]].number = k[2]
                      /\ \A d \in Writers :
                           Live(d)' /\ cardRow'[d].ws = ask'[k[3]].ws /\ cardRow'[d].number = k[2]
                             => d = k[3]
    BY DEF Remembered
  <2>1. CASE k \in keysHad
    <3>1. /\ answer[k[3]] = k[3] /\ <<k[1], ask[k[3]].ws>> \in reserved
          /\ k[2] <= lastNumber[ask[k[3]].ws]
          /\ Live(k[3]) => cardRow[k[3]].number = k[2]
          /\ \A d \in Writers :
               Live(d) /\ cardRow[d].ws = ask[k[3]].ws /\ cardRow[d].number = k[2] => d = k[3]
      BY <1>1, <2>1 DEF Remembered
    <3>2. k[3] \in Writers /\ k[2] \in Nat
      BY <1>1, <2>1 DEF CreationTypeOK
    <3>3. k[3] # r /\ ask[k[3]].ws \in Workspaces
      BY <1>1, <1>3, <3>1, <3>2 DEF CreationTypeOK
    <3>4. k[2] <= lastNumber'[ask[k[3]].ws]
      BY <1>8, <3>1, <3>2, <3>3
    <3>5. \A d \in Writers :
            Live(d)' /\ cardRow'[d].ws = ask[k[3]].ws /\ cardRow'[d].number = k[2] => d = k[3]
      BY <1>3, <1>5, <1>6, <3>1, <3>2
    <3> QED
      BY <1>4, <1>5, <1>6, <3>1, <3>2, <3>3, <3>4, <3>5
  <2>2. CASE k = <<prefixOf[w], n, r>>
    <3>1. <<prefixOf[w], w>> \in reserved
      BY <1>1, <1>3, CreationAssumption DEF Reservations
    <3>2. \A d \in Writers : Live(d)' /\ cardRow'[d].ws = w /\ cardRow'[d].number = n => d = r
      BY <1>5, <1>6, <1>7
    <3> QED
      BY <1>3, <1>4, <1>5, <1>6, <2>2, <3>1, <3>2
  <2> QED
    BY <1>4, <2>1, <2>2
<1> QED
  BY <1>9, <1>10, <1>11, <1>12, <1>13, <1>14, <1>15 DEF CreationInv

LEMMA CommitPrefixKeeps ==
  ASSUME CreationInv, NEW r \in Writers, CommitPrefix(r)
  PROVE  CreationInv'
<1> DEFINE w == ask[r].ws
           p == ask[r].prefix
           here == {c \in LiveCards : cardRow[c].ws = w}
           Rows == [at : {"here"}, ws : Workspaces, place : Places, token : Tokens \cup {NoToken},
                    prefix : KeyPrefixes, number : Nat]
<1>1. CreationTypeOK /\ WriterStages /\ LocksHold /\ Founded /\ Reservations /\ Numbered /\ Remembered
  BY DEF CreationInv
<1>2. /\ writerAt[r] = "reserved" /\ ask[r].do \in {"rename", "found"}
      /\ w \in Workspaces /\ p \in KeyPrefixes /\ p # NoPrefix
      /\ answer[r] \notin Writers /\ ~Live(r) /\ "done" \notin Writers
  BY <1>1, AskShape, CreationAssumption DEF CommitPrefix, WriterStages, StageOf, Ends
<1>3. /\ prefixOf' = [prefixOf EXCEPT ![w] = p]
      /\ reserved' = reserved \cup {<<p, w>>}
      /\ cardRow' = [c \in Writers |->
           IF c \in here THEN [cardRow[c] EXCEPT !.prefix = p] ELSE cardRow[c]]
      /\ keysHad' = keysHad \cup {<<p, cardRow[c].number, c>> : c \in here}
      /\ writerAt' = [writerAt EXCEPT ![r] = "over"] /\ answer' = [answer EXCEPT ![r] = "done"]
      /\ UNCHANGED <<lastNumber, shut, ask, drawn>>
  BY DEF CommitPrefix, EndWith
<1> HIDE DEF p
<1>4. /\ prefixOf'[w] = p /\ \A v \in Workspaces \ {w} : prefixOf'[v] = prefixOf[v]
      /\ writerAt'[r] = "over" /\ answer'[r] = "done"
      /\ \A s \in Writers \ {r} : writerAt'[s] = writerAt[s] /\ answer'[s] = answer[s]
  BY <1>1, <1>2, <1>3 DEF CreationTypeOK
<1>5. ASSUME NEW c \in Writers
      PROVE  /\ Live(c)' <=> Live(c)
             /\ Live(c) => /\ cardRow'[c].ws = cardRow[c].ws /\ cardRow'[c].token = cardRow[c].token
                           /\ cardRow'[c].number = cardRow[c].number
                           /\ cardRow[c] \in Rows /\ cardRow'[c] \in Rows
             /\ ~Live(c) => cardRow'[c] = cardRow[c]
  <2>1. CASE c \in here
    <3>1. Live(c) /\ cardRow[c] \in Rows
      BY <1>1, <2>1, RowShape DEF LiveCards
    <3>2. cardRow'[c] = [cardRow[c] EXCEPT !.prefix = p]
      BY <1>3, <2>1
    <3> QED
      BY <1>2, <3>1, <3>2 DEF Live, p
  <2>2. CASE c \notin here
    <3>1. cardRow'[c] = cardRow[c]
      BY <1>3, <2>2
    <3>2. Live(c) => cardRow[c] \in Rows
      BY <1>1, RowShape
    <3> QED
      BY <3>1, <3>2 DEF Live
  <2> QED
    BY <2>1, <2>2
<1> HIDE DEF Rows
<1>6. \A c \in here : c \in Writers /\ Live(c) /\ cardRow[c].ws = w /\ cardRow[c].number \in Nat
  BY <1>1, RowShape DEF LiveCards
<1> HIDE DEF here
<1>7. CreationTypeOK'
  <2>1. /\ prefixOf' \in [Workspaces -> KeyPrefixes \cup {NoPrefix}]
        /\ reserved' \subseteq KeyPrefixes \X Workspaces
        /\ keysHad' \subseteq KeyPrefixes \X Nat \X Writers
    BY <1>1, <1>2, <1>3, <1>6 DEF CreationTypeOK, p
  <2>2. cardRow' \in [Writers -> {NoCard, Gone} \cup Rows]
    <3>1. \A c \in Writers : cardRow'[c] \in {NoCard, Gone} \cup Rows
      BY <1>1, <1>5 DEF CreationTypeOK, Rows
    <3> QED
      BY <1>3, <3>1
  <2>3. /\ writerAt' \in [Writers ->
             {"idle", "ready", "graph", "token", "numbered", "locked", "reserved", "over"}]
        /\ answer' \in [Writers -> Writers \cup Ends \cup {"none"}]
    BY <1>1, <1>3 DEF CreationTypeOK, Ends
  <2> QED
    BY <1>1, <1>3, <2>1, <2>2, <2>3 DEF CreationTypeOK, Rows
<1>8. WriterStages'
  <2> SUFFICES ASSUME NEW s \in Writers
               PROVE  StageOf(s)'
    BY DEF WriterStages
  <2>1. CASE s # r
    <3>1. StageOf(s) /\ answer[s] # r
      BY <1>1, <1>2, <2>1 DEF WriterStages, StageOf
    <3>2. /\ writerAt'[s] = writerAt[s] /\ answer'[s] = answer[s] /\ ask'[s] = ask[s]
          /\ answer[s] \in Writers =>
               answer'[answer[s]] = answer[answer[s]] /\ ask'[answer[s]] = ask[answer[s]]
      BY <1>3, <1>4, <2>1, <3>1
    <3>3. Live(s)' => Live(s) /\ cardRow'[s].ws = cardRow[s].ws /\ cardRow'[s].token = cardRow[s].token
      BY <1>5
    <3> QED
      BY <3>1, <3>2, <3>3 DEF StageOf
  <2>2. CASE s = r
    BY <1>2, <1>3, <1>4, <1>5, <2>2 DEF StageOf
  <2> QED
    BY <2>1, <2>2
<1>9. LocksHold'
  <2>1. ~Rowed(r)' /\ ~Tokened(r)'
    BY <1>4 DEF Rowed, Tokened
  <2>2. \A s \in Writers \ {r} : (Rowed(s)' <=> Rowed(s)) /\ (Tokened(s)' <=> Tokened(s))
    BY <1>3, <1>4 DEF Rowed, Tokened
  <2>3. \A q, s \in Writers : Rowed(q)' /\ Rowed(s)' /\ ask'[q].ws = ask'[s].ws => q = s
    BY <1>1, <1>3, <2>1, <2>2 DEF LocksHold
  <2>4. \A q, s \in Writers : Tokened(q)' /\ Tokened(s)' /\ ask'[q].token = ask'[s].token => q = s
    BY <1>1, <1>3, <2>1, <2>2 DEF LocksHold
  <2>5. \A q, c \in Writers : Tokened(q)' /\ Live(c)' => cardRow'[c].token # ask'[q].token
    <3> SUFFICES ASSUME NEW q \in Writers, NEW c \in Writers, Tokened(q)', Live(c)'
                 PROVE  cardRow'[c].token # ask'[q].token
      OBVIOUS
    <3>1. Tokened(q) /\ ask'[q] = ask[q]
      BY <1>3, <2>1, <2>2
    <3>2. Live(c) /\ cardRow'[c].token = cardRow[c].token
      BY <1>5
    <3> QED
      BY <1>1, <3>1, <3>2 DEF LocksHold
  <2> QED
    BY <2>3, <2>4, <2>5 DEF LocksHold
<1>10. Founded'
  <2>1. ASSUME NEW s \in Writers, ask[s].do = "found", writerAt'[s] \in {"ready", "reserved"}
        PROVE  prefixOf'[ask[s].ws] = NoPrefix
    <3>1. s # r /\ writerAt[s] \in {"ready", "reserved"}
      BY <1>4, <2>1
    <3>2. ask[s].ws \in Workspaces /\ prefixOf[ask[s].ws] = NoPrefix
      BY <1>1, <2>1, <3>1, AskShape DEF Founded
    <3>3. ask[s].ws # w
      BY <1>1, <1>2, <2>1, <3>1, <3>2 DEF Founded
    <3> QED
      BY <1>4, <3>2, <3>3
  <2>2. ASSUME NEW s \in Writers, ask[s].do \in {"create", "copy", "rename"}
        PROVE  prefixOf'[ask[s].ws] # NoPrefix
    <3>1. ask[s].ws \in Workspaces /\ prefixOf[ask[s].ws] # NoPrefix
      BY <1>1, <2>2, AskShape DEF Founded
    <3> QED
      BY <1>2, <1>4, <3>1
  <2> QED
    BY <1>1, <1>3, <2>1, <2>2 DEF Founded
<1>11. Reservations'
  <2>1. \A v : <<p, v>> \in reserved => v = w
    BY <1>1, <1>2 DEF Reservations, p
  <2>2. \A q, u, v : <<q, u>> \in reserved' /\ <<q, v>> \in reserved' => u = v
    BY <1>1, <1>3, <2>1 DEF Reservations
  <2>3. \A v \in Workspaces : prefixOf'[v] # NoPrefix => <<prefixOf'[v], v>> \in reserved'
    BY <1>1, <1>3, <1>4 DEF Reservations
  <2>4. ASSUME NEW s \in Writers, writerAt'[s] = "reserved"
        PROVE  /\ \A v : <<ask'[s].prefix, v>> \in reserved' => v = ask'[s].ws
               /\ \A q \in Writers :
                    writerAt'[q] = "reserved" /\ ask'[q].prefix = ask'[s].prefix => q = s
    <3>1. s # r /\ writerAt[s] = "reserved"
      BY <1>4, <2>4
    <3>2. ask[s].prefix # p
      BY <1>1, <1>2, <3>1 DEF Reservations, p
    <3> QED
      BY <1>1, <1>3, <1>4, <3>1, <3>2 DEF Reservations
  <2> QED
    BY <2>2, <2>3, <2>4 DEF Reservations
<1>12. Numbered'
  <2>1. ASSUME NEW s \in Writers, writerAt'[s] = "numbered"
        PROVE  drawn'[s] = <<prefixOf'[ask'[s].ws], lastNumber'[ask'[s].ws] + 1>>
    <3>1. s # r /\ writerAt[s] = "numbered"
      BY <1>4, <2>1
    <3>2. Rowed(s) /\ ask[s].ws \in Workspaces /\ ask[s].do \in {"create", "copy"}
      BY <3>1, NothingClashes
    <3>3. ask[s].ws # w
      <4>1. CASE ask[r].do = "rename"
        BY <1>1, <1>2, <3>1, <3>2, <4>1 DEF LocksHold, Rowed
      <4>2. CASE ask[r].do = "found"
        BY <1>1, <1>2, <3>2, <4>2 DEF Founded
      <4> QED
        BY <1>2, <4>1, <4>2
    <3> QED
      BY <1>1, <1>3, <1>4, <3>1, <3>2, <3>3 DEF Numbered
  <2>2. \A v : Born(v)' = Born(v)
    BY <1>2, <1>3, <1>4 DEF Born
  <2> QED
    BY <1>1, <1>3, <1>5, <2>1, <2>2 DEF Numbered
<1>13. Remembered'
  <2> SUFFICES ASSUME NEW k \in keysHad'
               PROVE  /\ answer'[k[3]] = k[3]
                      /\ <<k[1], ask'[k[3]].ws>> \in reserved'
                      /\ k[2] <= lastNumber'[ask'[k[3]].ws]
                      /\ Live(k[3])' => cardRow'[k[3]].number = k[2]
                      /\ \A d \in Writers :
                           Live(d)' /\ cardRow'[d].ws = ask'[k[3]].ws /\ cardRow'[d].number = k[2]
                             => d = k[3]
    BY DEF Remembered
  <2>1. CASE k \in keysHad
    <3>1. /\ answer[k[3]] = k[3] /\ <<k[1], ask[k[3]].ws>> \in reserved
          /\ k[2] <= lastNumber[ask[k[3]].ws]
          /\ Live(k[3]) => cardRow[k[3]].number = k[2]
          /\ \A d \in Writers :
               Live(d) /\ cardRow[d].ws = ask[k[3]].ws /\ cardRow[d].number = k[2] => d = k[3]
      BY <1>1, <2>1 DEF Remembered
    <3>2. k[3] \in Writers /\ k[3] # r
      BY <1>1, <1>2, <2>1, <3>1 DEF CreationTypeOK
    <3> QED
      BY <1>3, <1>4, <1>5, <3>1, <3>2
  <2>2. CASE k \in {<<p, cardRow[c].number, c>> : c \in here}
    <3>1. PICK c \in here : k = <<p, cardRow[c].number, c>>
      BY <2>2
    <3>2. c \in Writers /\ Live(c) /\ cardRow[c].ws = w
      BY <1>6
    <3>3. answer[c] = c /\ ask[c].ws = w /\ c # r
      BY <1>1, <1>2, <3>2 DEF WriterStages, StageOf
    <3>4. cardRow[c].number <= lastNumber[w]
      BY <1>1, <3>2 DEF Numbered
    <3>5. \A d \in Writers :
            Live(d) /\ cardRow[d].ws = w /\ cardRow[d].number = cardRow[c].number => d = c
      BY <1>1, <3>2 DEF Numbered
    <3>6. \A d \in Writers :
            Live(d)' /\ cardRow'[d].ws = w /\ cardRow'[d].number = cardRow[c].number => d = c
      BY <1>5, <3>5
    <3>7. /\ answer'[c] = c /\ ask'[c].ws = w /\ <<p, w>> \in reserved'
          /\ lastNumber'[w] = lastNumber[w] /\ cardRow'[c].number = cardRow[c].number
      BY <1>3, <1>4, <1>5, <3>2, <3>3
    <3>8. k[1] = p /\ k[2] = cardRow[c].number /\ k[3] = c
      BY <3>1
    <3> QED
      BY <3>4, <3>6, <3>7, <3>8
  <2> QED
    BY <1>3, <2>1, <2>2
<1> QED
  BY <1>7, <1>8, <1>9, <1>10, <1>11, <1>12, <1>13 DEF CreationInv

\* Cards that only move or go leave everything as it was.
LEMMA RowsThin ==
  ASSUME CreationInv,
         UNCHANGED <<prefixOf, lastNumber, reserved, ask, writerAt, drawn, answer, keysHad>>,
         shut' \subseteq Workspaces,
         cardRow' \in [Writers -> {NoCard, Gone} \cup
           [at : {"here"}, ws : Workspaces, place : Places, token : Tokens \cup {NoToken},
            prefix : KeyPrefixes, number : Nat]],
         \A c \in Writers : Live(c)' =>
           /\ Live(c) /\ cardRow'[c].ws = cardRow[c].ws /\ cardRow'[c].token = cardRow[c].token
           /\ cardRow'[c].number = cardRow[c].number
  PROVE  CreationInv'
<1>1. CreationTypeOK /\ WriterStages /\ LocksHold /\ Founded /\ Reservations /\ Numbered /\ Remembered
  BY DEF CreationInv
<1>2. CreationTypeOK'
  BY <1>1 DEF CreationTypeOK
<1>3. WriterStages'
  BY <1>1 DEF WriterStages, StageOf
<1>4. LocksHold'
  BY <1>1 DEF LocksHold, Rowed, Tokened
<1>5. Founded' /\ Reservations'
  BY <1>1 DEF Founded, Reservations
<1>6. Numbered'
  <2>1. \A v : Born(v)' = Born(v)
    BY DEF Born
  <2> QED
    BY <1>1, <2>1 DEF Numbered
<1>7. Remembered'
  <2>1. \A k \in keysHad : k[3] \in Writers
    BY <1>1 DEF CreationTypeOK
  <2> QED
    BY <1>1, <2>1 DEF Remembered
<1> QED
  BY <1>2, <1>3, <1>4, <1>5, <1>6, <1>7 DEF CreationInv

LEMMA MoveCardKeeps ==
  ASSUME CreationInv, NEW c \in Writers, NEW place \in Places, MoveCard(c, place)
  PROVE  CreationInv'
<1>1. CreationTypeOK
  BY DEF CreationInv
<1>2. Live(c) /\ cardRow' = [cardRow EXCEPT ![c] = [cardRow[c] EXCEPT !.place = place]]
  BY DEF MoveCard
<1>3. cardRow[c] \in [at : {"here"}, ws : Workspaces, place : Places, token : Tokens \cup {NoToken},
                      prefix : KeyPrefixes, number : Nat]
  BY <1>1, <1>2, RowShape
<1>4. /\ cardRow'[c] = [cardRow[c] EXCEPT !.place = place]
      /\ \A d \in Writers \ {c} : cardRow'[d] = cardRow[d]
  BY <1>1, <1>2 DEF CreationTypeOK
<1>5. /\ cardRow'[c] \in [at : {"here"}, ws : Workspaces, place : Places,
                          token : Tokens \cup {NoToken}, prefix : KeyPrefixes, number : Nat]
      /\ cardRow'[c].ws = cardRow[c].ws /\ cardRow'[c].token = cardRow[c].token
      /\ cardRow'[c].number = cardRow[c].number
  BY <1>3, <1>4
<1>6. cardRow' \in [Writers -> {NoCard, Gone} \cup
           [at : {"here"}, ws : Workspaces, place : Places, token : Tokens \cup {NoToken},
            prefix : KeyPrefixes, number : Nat]]
  BY <1>1, <1>2, <1>4, <1>5 DEF CreationTypeOK
<1>7. \A d \in Writers : Live(d)' =>
        /\ Live(d) /\ cardRow'[d].ws = cardRow[d].ws /\ cardRow'[d].token = cardRow[d].token
        /\ cardRow'[d].number = cardRow[d].number
  BY <1>2, <1>4, <1>5 DEF Live
<1>8. /\ UNCHANGED <<prefixOf, lastNumber, reserved, ask, writerAt, drawn, answer, keysHad>>
      /\ shut' \subseteq Workspaces
  BY <1>1 DEF MoveCard, identities, CreationTypeOK
<1> QED
  BY <1>6, <1>7, <1>8, RowsThin

LEMMA DeleteCardKeeps ==
  ASSUME CreationInv, NEW c \in Writers, DeleteCard(c)
  PROVE  CreationInv'
<1>1. CreationTypeOK
  BY DEF CreationInv
<1>2. /\ cardRow'[c] = Gone /\ \A d \in Writers \ {c} : cardRow'[d] = cardRow[d]
      /\ cardRow' \in [Writers -> {NoCard, Gone} \cup
           [at : {"here"}, ws : Workspaces, place : Places, token : Tokens \cup {NoToken},
            prefix : KeyPrefixes, number : Nat]]
  BY <1>1 DEF DeleteCard, CreationTypeOK
<1>3. \A d \in Writers : Live(d)' =>
        /\ Live(d) /\ cardRow'[d].ws = cardRow[d].ws /\ cardRow'[d].token = cardRow[d].token
        /\ cardRow'[d].number = cardRow[d].number
  BY <1>2 DEF Live, Gone
<1>4. /\ UNCHANGED <<prefixOf, lastNumber, reserved, ask, writerAt, drawn, answer, keysHad>>
      /\ shut' \subseteq Workspaces
  BY <1>1 DEF DeleteCard, identities, CreationTypeOK
<1> QED
  BY <1>2, <1>3, <1>4, RowsThin

LEMMA DeleteWorkspaceKeeps ==
  ASSUME CreationInv, NEW w \in Workspaces, DeleteWorkspace(w)
  PROVE  CreationInv'
<1>1. CreationTypeOK
  BY DEF CreationInv
<1>2. /\ \A d \in Writers : cardRow'[d] \in {Gone, cardRow[d]}
      /\ cardRow' \in [Writers -> {NoCard, Gone} \cup
           [at : {"here"}, ws : Workspaces, place : Places, token : Tokens \cup {NoToken},
            prefix : KeyPrefixes, number : Nat]]
  BY <1>1 DEF DeleteWorkspace, CreationTypeOK
<1>3. \A d \in Writers : Live(d)' =>
        /\ Live(d) /\ cardRow'[d].ws = cardRow[d].ws /\ cardRow'[d].token = cardRow[d].token
        /\ cardRow'[d].number = cardRow[d].number
  BY <1>2 DEF Live, Gone
<1>4. /\ UNCHANGED <<prefixOf, lastNumber, reserved, ask, writerAt, drawn, answer, keysHad>>
      /\ shut' \subseteq Workspaces
  BY <1>1 DEF DeleteWorkspace, CreationTypeOK
<1> QED
  BY <1>2, <1>3, <1>4, RowsThin

LEMMA CreationStepKeeps ==
  ASSUME CreationInv, [CreationNext]_creationVars
  PROVE  CreationInv'
<1>1. CASE UNCHANGED creationVars
  <2>1. CreationTypeOK
    BY DEF CreationInv
  <2>2. UNCHANGED <<prefixOf, lastNumber, reserved, shut, cardRow, ask, writerAt, drawn, answer, keysHad>>
    BY <1>1 DEF creationVars, identities
  <2> QED
    BY <2>1, <2>2, RowsThin DEF CreationTypeOK, Live
<1>2. ASSUME NEW r \in Writers, NEW a \in Asks, Arrive(r, a)
      PROVE  CreationInv'
  BY <1>2, ArriveKeeps
<1>3. ASSUME NEW r \in Writers,
             \/ TakeGraphToCreate(r) \/ TakeToken(r) \/ Allocate(r) \/ CommitCard(r)
             \/ FailWrite(r) \/ LockWorkspace(r) \/ Reserve(r) \/ CommitPrefix(r)
      PROVE  CreationInv'
  BY <1>3, TakeGraphToCreateKeeps, TakeTokenKeeps, AllocateKeeps, CommitCardKeeps, FailWriteKeeps,
     LockWorkspaceKeeps, ReserveKeeps, CommitPrefixKeeps
<1>4. ASSUME NEW c \in Writers, DeleteCard(c) \/ \E place \in Places : MoveCard(c, place)
      PROVE  CreationInv'
  BY <1>4, DeleteCardKeeps, MoveCardKeeps
<1>5. ASSUME NEW w \in Workspaces, DeleteWorkspace(w)
      PROVE  CreationInv'
  BY <1>5, DeleteWorkspaceKeeps
<1> QED
  BY <1>1, <1>2, <1>3, <1>4, <1>5 DEF CreationNext

\* Whatever is created, copied, renamed, founded, moved or deleted, the locks
\* exclude and the reservations and counters say what the keys rest on.
THEOREM CreationInvariance == CreationSpec => []CreationInv
<1>1. CreationInit => CreationInv
  BY CreationInitHolds
<1>2. CreationInv /\ [CreationNext]_creationVars => CreationInv'
  BY CreationStepKeeps
<1> QED
  BY <1>1, <1>2, PTL DEF CreationSpec

\* Types of the writers, the keys and the cards.
THEOREM CreationTyped == CreationSpec => []CreationTypeOK
<1>1. CreationInv => CreationTypeOK
  BY DEF CreationInv
<1> QED
  BY <1>1, CreationInvariance, PTL

\* A key that a card has ever shown leads to that card while it lives and never
\* to another one: no rename, new workspace or deletion hands it on
\* (card-keys.ts:31, 108-109).
THEOREM KeysAreForever == CreationSpec => []KeysNeverChangeHands
<1>1. ASSUME CreationInv
      PROVE  KeysNeverChangeHands
  <2>1. CreationTypeOK /\ WriterStages /\ Reservations /\ Remembered
    BY <1>1 DEF CreationInv
  <2> SUFFICES ASSUME NEW k \in keysHad
               PROVE  Resolve(k[1], k[2]) = {k[3]} \cap LiveCards
    BY DEF KeysNeverChangeHands
  <2>2. /\ k[3] \in Writers /\ <<k[1], ask[k[3]].ws>> \in reserved
        /\ Live(k[3]) => cardRow[k[3]].number = k[2]
        /\ \A d \in Writers :
             Live(d) /\ cardRow[d].ws = ask[k[3]].ws /\ cardRow[d].number = k[2] => d = k[3]
    BY <2>1 DEF Remembered, CreationTypeOK
  <2>3. \A c \in Resolve(k[1], k[2]) : c = k[3] /\ c \in LiveCards
    BY <2>1, <2>2 DEF Resolve, LiveCards, Reservations
  <2>4. k[3] \in LiveCards => k[3] \in Resolve(k[1], k[2])
    BY <2>1, <2>2 DEF Resolve, LiveCards, WriterStages, StageOf
  <2> QED
    BY <2>3, <2>4
<1> QED
  BY <1>1, CreationInvariance, PTL

\* The retries of a create under one token are answered with one card or refused,
\* and no number is lost, for every timing of requests, failures and deletions
\* (create-card.ts:196-201, card-keys.ts:117).
THEOREM RetriesAreAnswered == CreationSpec => []RetriesShareTheCard
<1>1. ASSUME CreationInv
      PROVE  RetriesShareTheCard
  <2>1. CreationTypeOK /\ WriterStages /\ Numbered
    BY <1>1 DEF CreationInv
  <2>2. \A r \in Writers : answer[r] # "conflict"
    BY <2>1 DEF WriterStages, StageOf
  <2>3. ASSUME NEW r \in Writers, NEW s \in Writers, Live(answer[r]), Live(answer[s]),
               answer[r] \in Writers, answer[s] \in Writers,
               ask[r].token # NoToken, ask[r].token = ask[s].token
        PROVE  answer[r] = answer[s]
    <3>1. /\ ask[answer[r]].token = ask[r].token /\ ask[answer[s]].token = ask[s].token
          /\ cardRow[answer[r]].token = ask[answer[r]].token
          /\ cardRow[answer[s]].token = ask[answer[s]].token
      BY <2>1, <2>3 DEF WriterStages, StageOf
    <3> QED
      BY <2>1, <2>3, <3>1 DEF Numbered
  <2>4. \A w \in Workspaces :
          lastNumber[w] = Cardinality({r \in Writers : answer[r] = r /\ ask[r].ws = w})
    BY <2>1 DEF Numbered, Born
  <2> QED
    BY <2>2, <2>3, <2>4 DEF RetriesShareTheCard, LiveCards
<1> QED
  BY <1>1, CreationInvariance, PTL

-----------------------------------------------------------------------------
(* The order of a queue.                                                   *)

\* d stands at c or before it.
Precedes(q, d, c) == q[d] < q[c] \/ (q[d] = q[c] /\ d <= c)
UpTo(q, S, c) == {d \in S : Precedes(q, d, c)}

\* What can be put in order: finitely many cards with a position each.
Ranked(q, S) == IsFiniteSet(S) /\ S \subseteq Nat /\ \A c \in S : q[c] \in Int

\* A rank counts the cards up to it.
LEMMA RankCounts ==
  ASSUME NEW q, NEW S, Ranked(q, S), NEW c \in S
  PROVE  /\ Rank(q, S, c) = Cardinality(UpTo(q, S, c))
         /\ IsFiniteSet(UpTo(q, S, c))
         /\ c \in UpTo(q, S, c)
         /\ Cardinality(S) \in Nat
         /\ Rank(q, S, c) \in 1..Cardinality(S)
<1>1. Rank(q, S, c) = Cardinality(UpTo(q, S, c))
  BY DEF Rank, UpTo, Precedes
<1>2. c \in UpTo(q, S, c) /\ UpTo(q, S, c) \in SUBSET S
  BY DEF Ranked, UpTo, Precedes
<1>3. IsFiniteSet(UpTo(q, S, c)) /\ Cardinality(UpTo(q, S, c)) <= Cardinality(S)
  BY <1>2, FS_Subset DEF Ranked
<1>4. Cardinality(S) \in Nat /\ Cardinality(UpTo(q, S, c)) \in Nat
  BY <1>3, FS_CardinalityType DEF Ranked
<1>5. Cardinality(UpTo(q, S, c)) # 0
  BY <1>2, <1>3, FS_EmptySet
<1> QED
  BY <1>1, <1>2, <1>3, <1>4, <1>5

\* Ranks order the cards, and no two cards share one.
LEMMA RankOrders ==
  ASSUME NEW q, NEW S, Ranked(q, S), NEW c \in S, NEW d \in S
  PROVE  /\ Precedes(q, c, d) <=> Rank(q, S, c) <= Rank(q, S, d)
         /\ Rank(q, S, c) = Rank(q, S, d) => c = d
<1>1. ASSUME NEW a \in S, NEW b \in S, Precedes(q, a, b), a # b
      PROVE  Rank(q, S, a) < Rank(q, S, b) /\ ~Precedes(q, b, a)
  <2>1. /\ q[a] \in Int /\ q[b] \in Int /\ a \in Nat /\ b \in Nat
        /\ \A e \in S : q[e] \in Int /\ e \in Nat
    BY DEF Ranked
  <2>2. ~Precedes(q, b, a)
    BY <1>1, <2>1 DEF Precedes
  <2>3. UpTo(q, S, a) \in SUBSET UpTo(q, S, b)
    <3>1. ASSUME NEW e \in S, Precedes(q, e, a) PROVE Precedes(q, e, b)
      <4>1. q[e] \in Int /\ e \in Nat
        BY <2>1
      <4> QED
        BY <1>1, <2>1, <3>1, <4>1 DEF Precedes
    <3> QED
      BY <3>1 DEF UpTo
  <2>4. b \in UpTo(q, S, b) /\ b \notin UpTo(q, S, a)
    BY <2>2, RankCounts DEF UpTo
  <2>5. /\ Rank(q, S, a) = Cardinality(UpTo(q, S, a)) /\ Rank(q, S, a) \in Nat
        /\ Rank(q, S, b) = Cardinality(UpTo(q, S, b)) /\ Rank(q, S, b) \in Nat
        /\ IsFiniteSet(UpTo(q, S, b))
    BY RankCounts
  <2>6. Rank(q, S, a) <= Rank(q, S, b) /\ Rank(q, S, a) # Rank(q, S, b)
    BY <2>3, <2>4, <2>5, FS_Subset
  <2> QED
    BY <2>2, <2>5, <2>6
<1>2. Precedes(q, c, d) \/ Precedes(q, d, c)
  BY DEF Ranked, Precedes
<1>3. c = d => Precedes(q, c, d)
  BY DEF Ranked, Precedes
<1>4. Rank(q, S, c) \in Nat /\ Rank(q, S, d) \in Nat
  BY RankCounts
<1> QED
  BY <1>1, <1>2, <1>3, <1>4

\* The order lists every card at its rank.
LEMMA OrderByRank ==
  ASSUME NEW q, NEW S, Ranked(q, S)
  PROVE  /\ Cardinality(S) \in Nat
         /\ InOrder(q, S) \in Seq(S) /\ Len(InOrder(q, S)) = Cardinality(S)
         /\ \A c \in S : InOrder(q, S)[Rank(q, S, c)] = c
         /\ \A i \in 1..Cardinality(S) :
              InOrder(q, S)[i] \in S /\ Rank(q, S, InOrder(q, S)[i]) = i
<1> DEFINE n == Cardinality(S)
<1> DEFINE f == [c \in S |-> Rank(q, S, c)]
<1>1. n \in Nat /\ IsFiniteSet(S)
  BY FS_CardinalityType DEF Ranked
<1>2. f \in [S -> 1..n]
  BY RankCounts
<1>3. f \in Injection(S, 1..n)
  BY <1>2, RankOrders DEF Injection, IsInjective
<1>4. IsFiniteSet(1..n) /\ Cardinality(1..n) = n
  BY <1>1, FS_Interval
<1>5. f \in Surjection(S, 1..n)
  BY <1>3, <1>4, FS_Injection
<1>6. \A i \in 1..n : \E c \in S : Rank(q, S, c) = i
  BY <1>5 DEF Surjection
<1>7. ASSUME NEW i \in 1..n
      PROVE  InOrder(q, S)[i] \in S /\ Rank(q, S, InOrder(q, S)[i]) = i
  BY <1>6 DEF InOrder
<1>8. InOrder(q, S) \in [1..n -> S]
  BY <1>7 DEF InOrder
<1>9. InOrder(q, S) \in Seq(S) /\ Len(InOrder(q, S)) = n
  BY <1>1, <1>8
<1>10. ASSUME NEW c \in S PROVE InOrder(q, S)[Rank(q, S, c)] = c
  <2>1. Rank(q, S, c) \in 1..n
    BY RankCounts
  <2> QED
    BY <2>1, <1>7, RankOrders
<1> QED
  BY <1>1, <1>7, <1>9, <1>10

\* A list of the cards in which every card stands at its rank is the order.
LEMMA OrderIsUnique ==
  ASSUME NEW q, NEW S, Ranked(q, S), NEW s \in Seq(S), Len(s) = Cardinality(S),
         \A c \in S : s[Rank(q, S, c)] = c
  PROVE  InOrder(q, S) = s
<1>1. ASSUME NEW i \in 1..Cardinality(S) PROVE InOrder(q, S)[i] = s[i]
  BY OrderByRank
<1> QED
  BY <1>1, OrderByRank, SeqEqual

\* t is s with c behind its first i elements.
Insertion(t, S, s, i, c) ==
  /\ t \in Seq(S) /\ Len(t) = Len(s) + 1
  /\ t[i + 1] = c
  /\ \A k \in 1..i : t[k] = s[k]
  /\ \A k \in (i + 1)..Len(s) : t[k + 1] = s[k]

LEMMA Inserted ==
  ASSUME NEW S, NEW s \in Seq(S), NEW c \in S, NEW i \in 0..Len(s)
  PROVE  Insertion(InsertAt(s, i + 1, c), S, s, i, c)
<1> DEFINE l == SubSeq(s, 1, i)
<1> DEFINE r == SubSeq(s, i + 1, Len(s))
<1>1. Len(s) \in Nat /\ i \in Nat /\ \A k \in 1..Len(s) : s[k] \in S
  BY ElementOfSeq
<1>2. l \in Seq(S) /\ Len(l) = i /\ \A k \in 1..i : l[k] = s[k]
  BY <1>1, SubSeqProperties
<1>3. /\ r \in Seq(S) /\ Len(r) = Len(s) - i
      /\ \A k \in 1..(Len(s) - i) : r[k] = s[i + k]
  <2>1. i + 1 \in Int /\ Len(s) \in Int /\ \A k \in (i + 1)..Len(s) : s[k] \in S
    BY <1>1
  <2>2. /\ r \in Seq(S) /\ Len(r) = IF i + 1 <= Len(s) THEN Len(s) - (i + 1) + 1 ELSE 0
        /\ \A k \in 1..(Len(s) - (i + 1) + 1) : r[k] = s[(i + 1) + k - 1]
    BY <2>1, SubSeqProperties
  <2> QED
    BY <2>2, <1>1
<1>4. <<c>> \in Seq(S) /\ Len(<<c>>) = 1 /\ <<c>>[1] = c
  OBVIOUS
<1> DEFINE lc == l \o <<c>>
<1>5. InsertAt(s, i + 1, c) = lc \o r
  <2>1. (i + 1) - 1 = i
    BY <1>1
  <2> QED
    BY <2>1 DEF InsertAt
<1> HIDE DEF l, r
<1>6. /\ lc \in Seq(S) /\ Len(lc) = i + 1 /\ lc[i + 1] = c
      /\ \A k \in 1..i : lc[k] = s[k]
  <2>1. /\ lc \in Seq(S) /\ Len(lc) = i + 1
        /\ \A k \in 1..(i + 1) : lc[k] = IF k <= i THEN l[k] ELSE <<c>>[k - i]
    BY <1>2, <1>4, ConcatProperties
  <2> QED
    BY <2>1, <1>1, <1>2, <1>4
<1> HIDE DEF lc
<1>7. /\ lc \o r \in Seq(S) /\ Len(lc \o r) = Len(lc) + Len(r)
      /\ \A k \in 1..(Len(lc) + Len(r)) :
           (lc \o r)[k] = IF k <= Len(lc) THEN lc[k] ELSE r[k - Len(lc)]
  BY <1>3, <1>6, ConcatProperties
<1>8. Len(lc) + Len(r) = Len(s) + 1
  BY <1>1, <1>3, <1>6
<1>9. ASSUME NEW k \in (i + 1)..Len(s) PROVE (lc \o r)[k + 1] = s[k]
  <2>1. k + 1 \in 1..(Len(lc) + Len(r)) /\ ~(k + 1 <= Len(lc)) /\ (k + 1) - Len(lc) = k - i
    BY <1>1, <1>6, <1>8
  <2>2. (lc \o r)[k + 1] = r[k - i]
    BY <2>1, <1>7
  <2>3. k - i \in 1..(Len(s) - i) /\ i + (k - i) = k
    BY <1>1
  <2> QED
    BY <2>2, <2>3, <1>3
<1>10. ASSUME NEW k \in 1..(i + 1) PROVE (lc \o r)[k] = lc[k]
  BY <1>1, <1>6, <1>7, <1>8
<1> DEFINE t == lc \o r
<1>11. t \in Seq(S) /\ Len(t) = Len(s) + 1
  BY <1>7, <1>8
<1>12. t[i + 1] = c /\ \A k \in 1..i : t[k] = s[k]
  BY <1>1, <1>6, <1>10
<1>13. \A k \in (i + 1)..Len(s) : t[k + 1] = s[k]
  BY <1>9
<1>14. InsertAt(s, i + 1, c) = t
  BY <1>5
<1> HIDE DEF t
<1> QED
  BY <1>11, <1>12, <1>13, <1>14 DEF Insertion

-----------------------------------------------------------------------------
\* The others keep their order and the card comes behind the first i of them.
LEMMA InsertionOrders ==
  ASSUME NEW q, NEW p, NEW T, NEW c, c \notin T,
         Ranked(q, T), Ranked(p, T \cup {c}),
         \A d, e \in T : Precedes(p, d, e) <=> Precedes(q, d, e),
         NEW i \in 0..Cardinality(T),
         \A e \in T : Precedes(p, e, c) <=> Rank(q, T, e) <= i
  PROVE  InOrder(p, T \cup {c}) = InsertAt(InOrder(q, T), i + 1, c)
<1> DEFINE D == T \cup {c}
<1> DEFINE s == InOrder(q, T)
<1> DEFINE t == InsertAt(s, i + 1, c)
<1>1. /\ Cardinality(T) \in Nat /\ s \in Seq(T) /\ Len(s) = Cardinality(T)
      /\ \A d \in T : s[Rank(q, T, d)] = d
      /\ \A k \in 1..Cardinality(T) : s[k] \in T /\ Rank(q, T, s[k]) = k
  BY OrderByRank
<1>2. s \in Seq(D) /\ c \in D /\ T \subseteq D
  BY <1>1, SeqMonotonic
<1>3. IsFiniteSet(T) /\ IsFiniteSet(D) /\ Cardinality(D) = Cardinality(T) + 1
  BY FS_AddElement DEF Ranked
<1> HIDE DEF s
<1>4. /\ t \in Seq(D) /\ Len(t) = Len(s) + 1 /\ t[i + 1] = c
      /\ \A k \in 1..i : t[k] = s[k]
      /\ \A k \in (i + 1)..Len(s) : t[k + 1] = s[k]
  <2>1. i \in 0..Len(s)
    BY <1>1
  <2> HIDE DEF D
  <2>2. Insertion(t, D, s, i, c)
    BY <1>2, <2>1, Inserted
  <2> HIDE DEF t
  <2> QED
    BY <2>2 DEF Insertion
<1> HIDE DEF t
<1>5. Rank(p, D, c) = i + 1
  <2> DEFINE first == {e \in T : Rank(q, T, e) <= i}
  <2>1. Precedes(p, c, c)
    BY <1>2 DEF Precedes, Ranked
  <2>2. UpTo(p, D, c) = first \cup {c}
    BY <2>1 DEF UpTo
  <2>3. IsFiniteSet(first) /\ Cardinality(first) = i
    <3>1. CASE i = 0
      <4>1. \A e \in T : ~(Rank(q, T, e) <= i)
        BY <3>1, RankCounts
      <4>2. first = {}
        BY <4>1
      <4> QED
        BY <3>1, <4>2, FS_EmptySet
    <3>2. CASE i # 0
      <4>1. i \in 1..Cardinality(T)
        BY <1>1, <3>2
      <4>2. PICK a \in T : Rank(q, T, a) = i
        BY <1>1, <4>1
      <4>3. \A e \in T : Precedes(q, e, a) <=> Rank(q, T, e) <= i
        BY <4>2, RankOrders
      <4>4. first = UpTo(q, T, a)
        BY <4>3 DEF UpTo
      <4> QED
        BY <4>2, <4>4, RankCounts
    <3> QED
      BY <3>1, <3>2
  <2>4. c \notin first
    OBVIOUS
  <2> HIDE DEF first
  <2>5. Cardinality(first \cup {c}) = i + 1
    BY <2>3, <2>4, FS_AddElement
  <2>6. Rank(p, D, c) = Cardinality(UpTo(p, D, c))
    BY <1>2, RankCounts
  <2> QED
    BY <2>2, <2>5, <2>6
<1>6. ASSUME NEW d \in T
      PROVE  Rank(p, D, d) = IF Rank(q, T, d) <= i THEN Rank(q, T, d) ELSE Rank(q, T, d) + 1
  <2>1. d \in D /\ UpTo(p, D, d) \ {c} = UpTo(q, T, d) /\ c \notin UpTo(q, T, d)
    BY DEF UpTo
  <2>2. c \in UpTo(p, D, d) <=> Precedes(p, c, d)
    BY <1>2 DEF UpTo
  <2>3. Precedes(p, c, d) <=> ~Precedes(p, d, c)
    BY <1>2, <2>1 DEF Precedes, Ranked
  <2>4. /\ Rank(p, D, d) = Cardinality(UpTo(p, D, d)) /\ IsFiniteSet(UpTo(q, T, d))
        /\ Rank(q, T, d) = Cardinality(UpTo(q, T, d)) /\ Rank(q, T, d) \in Nat
    BY <2>1, RankCounts
  <2>5. CASE Rank(q, T, d) <= i
    <3>1. UpTo(p, D, d) = UpTo(q, T, d)
      BY <2>1, <2>2, <2>3, <2>5
    <3> QED
      BY <2>4, <2>5, <3>1
  <2>6. CASE ~(Rank(q, T, d) <= i)
    <3>1. UpTo(p, D, d) = UpTo(q, T, d) \cup {c}
      BY <2>1, <2>2, <2>3, <2>6
    <3>2. Cardinality(UpTo(q, T, d) \cup {c}) = Cardinality(UpTo(q, T, d)) + 1
      BY <2>1, <2>4, FS_AddElement
    <3> QED
      BY <2>4, <2>6, <3>1, <3>2
  <2> QED
    BY <2>5, <2>6
<1>7. ASSUME NEW d \in D PROVE t[Rank(p, D, d)] = d
  <2>1. CASE d = c
    BY <1>4, <1>5, <2>1
  <2>2. CASE d \in T
    <3>1. Rank(q, T, d) \in 1..Len(s) /\ s[Rank(q, T, d)] = d
      BY <1>1, <2>2, RankCounts
    <3>2. CASE Rank(q, T, d) <= i
      <4>1. Rank(q, T, d) \in 1..i
        BY <1>1, <3>1, <3>2
      <4> QED
        BY <1>4, <1>6, <2>2, <3>1, <3>2, <4>1
    <3>3. CASE ~(Rank(q, T, d) <= i)
      <4>1. Rank(q, T, d) \in (i + 1)..Len(s)
        BY <1>1, <3>1, <3>3
      <4> QED
        BY <1>4, <1>6, <2>2, <3>1, <3>3, <4>1
    <3> QED
      BY <3>2, <3>3
  <2> QED
    BY <2>1, <2>2
<1>8. Len(t) = Cardinality(D)
  BY <1>1, <1>3, <1>4
<1>9. Ranked(p, D)
  OBVIOUS
<1> HIDE DEF D
<1>10. InOrder(p, D) = t
  BY <1>4, <1>7, <1>8, <1>9, OrderIsUnique
<1> QED
  BY <1>10 DEF D, t, s

-----------------------------------------------------------------------------
\* A rebalance keeps the order and leaves room between any two cards.
LEMMA RebalanceKeepsOrder ==
  ASSUME NEW q, Ranked(q, DOMAIN q), NEW d \in DOMAIN q, NEW e \in DOMAIN q
  PROVE  /\ Rebalanced(q)[d] \in Int
         /\ Precedes(Rebalanced(q), d, e) <=> Precedes(q, d, e)
         /\ Precedes(q, d, e) /\ d # e => Rebalanced(q)[e] - Rebalanced(q)[d] >= Spacing
<1> DEFINE D == DOMAIN q
<1>1. /\ Rebalanced(q)[d] = Spacing * Rank(q, D, d)
      /\ Rebalanced(q)[e] = Spacing * Rank(q, D, e)
  BY DEF Rebalanced
<1>2. Rank(q, D, d) \in Nat /\ Rank(q, D, e) \in Nat /\ d \in Nat /\ e \in Nat
  BY RankCounts DEF Ranked
<1>3. /\ Precedes(q, d, e) <=> Rank(q, D, d) <= Rank(q, D, e)
      /\ Rank(q, D, d) = Rank(q, D, e) => d = e
  BY RankOrders
<1>4. Spacing \in Nat /\ Spacing > 0
  BY PositionAssumption
<1>5. ASSUME NEW x \in Nat, NEW y \in Nat, x < y
      PROVE  Spacing * y - Spacing * x >= Spacing
  BY <1>4, <1>5
<1>6. ASSUME NEW x \in Nat PROVE Spacing * x \in Int
  BY <1>4
<1>7. Rebalanced(q)[d] \in Int /\ Rebalanced(q)[e] \in Int
  BY <1>1, <1>2, <1>6
<1> DEFINE rd == Rank(q, D, d)
<1> DEFINE re == Rank(q, D, e)
<1> HIDE DEF D, rd, re
<1>8. CASE rd < re
  <2>1. Rebalanced(q)[e] - Rebalanced(q)[d] >= Spacing
    BY <1>1, <1>2, <1>5, <1>8 DEF rd, re
  <2>2. Precedes(Rebalanced(q), d, e)
    BY <2>1, <1>4, <1>7 DEF Precedes
  <2>3. Precedes(q, d, e)
    BY <1>2, <1>3, <1>8 DEF rd, re
  <2> QED
    BY <1>7, <2>1, <2>2, <2>3
<1>9. CASE re < rd
  <2>1. Rebalanced(q)[d] - Rebalanced(q)[e] >= Spacing
    BY <1>1, <1>2, <1>5, <1>9 DEF rd, re
  <2>2. ~Precedes(Rebalanced(q), d, e)
    BY <2>1, <1>4, <1>7 DEF Precedes
  <2>3. ~Precedes(q, d, e)
    BY <1>2, <1>3, <1>9 DEF rd, re
  <2> QED
    BY <1>7, <2>2, <2>3
<1>10. CASE rd = re
  <2>1. d = e
    BY <1>3, <1>10 DEF rd, re
  <2>2. q[d] \in Int
    BY DEF Ranked
  <2> QED
    BY <1>2, <1>7, <2>1, <2>2 DEF Precedes
<1> QED
  BY <1>2, <1>8, <1>9, <1>10 DEF rd, re

\* Where the gap is not used up the slot lies strictly between its neighbours.
LEMMA SlotIsBetween ==
  ASSUME NEW q, NEW T, Ranked(q, T), NEW i \in 0..Cardinality(T),
         ~Exhausted(q, InOrder(q, T), i)
  PROVE  /\ Between(q, InOrder(q, T), i) \in Int
         /\ \A e \in T : q[e] # Between(q, InOrder(q, T), i)
         /\ \A e \in T : q[e] < Between(q, InOrder(q, T), i) <=> Rank(q, T, e) <= i
<1> DEFINE s == InOrder(q, T)
<1> DEFINE at == Between(q, s, i)
<1> DEFINE n == Cardinality(T)
<1>1. /\ n \in Nat /\ s \in Seq(T) /\ Len(s) = n
      /\ \A e \in T : s[Rank(q, T, e)] = e
      /\ \A k \in 1..n : s[k] \in T /\ Rank(q, T, s[k]) = k
  BY OrderByRank
<1>2. /\ Spacing \in Nat /\ Spacing > 0 /\ Eps \in Nat /\ Eps >= 2 /\ i \in Nat /\ i <= n
  BY <1>1, PositionAssumption
<1>3. \A e \in T : q[e] \in Int /\ Rank(q, T, e) \in 1..n
  BY RankCounts DEF Ranked
<1>4. ASSUME NEW k \in 1..n, NEW e \in T
      PROVE  /\ s[k] \in T /\ q[s[k]] \in Int
             /\ Rank(q, T, e) <= k => q[e] <= q[s[k]]
             /\ k <= Rank(q, T, e) => q[s[k]] <= q[e]
  <2>1. s[k] \in T /\ Rank(q, T, s[k]) = k /\ q[s[k]] \in Int /\ q[e] \in Int
    BY <1>1, <1>3
  <2>2. /\ Precedes(q, e, s[k]) <=> Rank(q, T, e) <= k
        /\ Precedes(q, s[k], e) <=> k <= Rank(q, T, e)
    BY <2>1, RankOrders
  <2> QED
    BY <2>1, <2>2 DEF Precedes
<1>5. T = {} => at = Spacing
  <2>1. T = {} => Len(s) = 0 
    BY <1>1, FS_EmptySet
  <2>2. T = {} => s = <<>>
    BY <1>1, <2>1
  <2> QED
    BY <2>2 DEF Between
<1>6. T # {} => s # <<>> /\ 1 <= n
  <2>1. T # {} => n # 0
    BY FS_EmptySet DEF Ranked
  <2> QED
    BY <2>1, <1>1
<1> HIDE DEF s, n
<1>7. CASE T = {}
  <2> QED
    BY <1>2, <1>5, <1>7 DEF s
<1>8. CASE T # {} /\ i = 0
  <2>1. at = q[s[1]] - Spacing
    BY <1>6, <1>8 DEF Between
  <2>2. q[s[1]] \in Int
    BY <1>1, <1>3, <1>6, <1>8
  <2> HIDE DEF at
  <2>3. ASSUME NEW e \in T PROVE at < q[e] /\ ~(Rank(q, T, e) <= i)
    BY <1>2, <1>3, <1>4, <1>6, <1>8, <2>1, <2>2
  <2>4. at \in Int
    BY <2>1, <2>2, <1>2
  <2> QED
    BY <2>3, <2>4, <1>3 DEF at, s
<1>9. CASE T # {} /\ i # 0 /\ i = n
  <2>1. at = q[s[i]] + Spacing
    BY <1>1, <1>6, <1>9 DEF Between
  <2>2. i \in 1..n
    BY <1>2, <1>9
  <2>3. q[s[i]] \in Int
    BY <1>1, <1>3, <2>2
  <2> HIDE DEF at
  <2>4. ASSUME NEW e \in T PROVE q[e] < at /\ Rank(q, T, e) <= i
    BY <1>2, <1>3, <1>4, <1>9, <2>1, <2>2, <2>3
  <2>5. at \in Int
    BY <2>1, <2>3, <1>2
  <2> QED
    BY <2>4, <2>5, <1>3 DEF at, s
<1>10. CASE T # {} /\ i # 0 /\ i # n
  <2>1. at = (q[s[i]] + q[s[i + 1]]) \div 2
    BY <1>1, <1>6, <1>10 DEF Between
  <2>2. i \in 1..n /\ i + 1 \in 1..n
    BY <1>1, <1>2, <1>10
  <2>3. q[s[i]] \in Int /\ q[s[i + 1]] \in Int
    BY <1>1, <1>3, <2>2
  <2>4. ~(q[s[i + 1]] - q[s[i]] < Eps)
    BY <1>1, <1>2, <1>10, <2>2 DEF Exhausted, s
  <2>5. ASSUME NEW x \in Int, NEW y \in Int, y - x >= 2
        PROVE  x < (x + y) \div 2 /\ (x + y) \div 2 < y /\ (x + y) \div 2 \in Int
    BY <2>5
  <2> HIDE DEF at
  <2>6. q[s[i]] < at /\ at < q[s[i + 1]] /\ at \in Int
    BY <2>1, <2>3, <2>4, <2>5, <1>2
  <2>7. ASSUME NEW e \in T
        PROVE  q[e] # at /\ (q[e] < at <=> Rank(q, T, e) <= i)
    <3>1. q[e] \in Int /\ Rank(q, T, e) \in 1..n
      BY <1>3
    <3>2. /\ Rank(q, T, e) <= i => q[e] <= q[s[i]]
          /\ i + 1 <= Rank(q, T, e) => q[s[i + 1]] <= q[e]
      BY <1>4, <2>2
    <3> QED
      BY <1>2, <2>3, <2>6, <3>1, <3>2
  <2> QED
    BY <2>6, <2>7 DEF at, s
<1> QED
  BY <1>7, <1>8, <1>9, <1>10

-----------------------------------------------------------------------------
QueueInv ==
  /\ IsFiniteSet(DOMAIN position)
  /\ DOMAIN position \subseteq Entries
  /\ \A c \in DOMAIN position : position[c] \in Int
  /\ live \subseteq Entries
  /\ adding \subseteq Entries

\* The cards of two queues in the same order are in the same order.
LEMMA SameOrder ==
  ASSUME NEW q, NEW p, NEW T, Ranked(q, T), Ranked(p, T),
         \A d, e \in T : Precedes(p, d, e) <=> Precedes(q, d, e)
  PROVE  InOrder(p, T) = InOrder(q, T) /\ \A e \in T : Rank(p, T, e) = Rank(q, T, e)
<1>1. ASSUME NEW e \in T PROVE Rank(p, T, e) = Rank(q, T, e)
  <2>1. UpTo(p, T, e) = UpTo(q, T, e)
    BY DEF UpTo
  <2> QED
    BY <2>1, RankCounts
<1>2. /\ InOrder(q, T) \in Seq(T) /\ Len(InOrder(q, T)) = Cardinality(T)
      /\ \A e \in T : InOrder(q, T)[Rank(p, T, e)] = e
  BY <1>1, OrderByRank
<1> QED
  BY <1>1, <1>2, OrderIsUnique

\* An anchor names a slot.
LEMMA SlotExists ==
  ASSUME NEW q, NEW T, Ranked(q, T), NEW V \in SUBSET T, NEW a \in Anchors(V)
  PROVE  Below(InOrder(q, T), a) \in 0..Cardinality(T)
<1> DEFINE s == InOrder(q, T)
<1>1. /\ Cardinality(T) \in Nat /\ Len(s) = Cardinality(T)
      /\ \A e \in T : s[Rank(q, T, e)] = e /\ Rank(q, T, e) \in 1..Len(s)
  BY OrderByRank, RankCounts
<1> HIDE DEF s
<1>2. CASE a = <<"head">>
  BY <1>1, <1>2 DEF Below, s
<1>3. CASE a = <<"tail">>
  BY <1>1, <1>3 DEF Below, s
<1>4. CASE a \in {"after", "before"} \X V
  <2>1. a[2] \in T /\ a[1] \in {"after", "before"}
    BY <1>4
  <2>2. \E i \in 1..Len(s) : s[i] = a[2]
    BY <1>1, <2>1
  <2> DEFINE k == CHOOSE i \in 1..Len(s) : s[i] = a[2]
  <2>3. k \in 1..Len(s)
    BY <2>2
  <2>4. Below(s, a) = k \/ Below(s, a) = k - 1
    BY <2>1 DEF Below
  <2> HIDE DEF k
  <2> QED
    BY <1>1, <2>3, <2>4 DEF s
<1> QED
  BY <1>2, <1>3, <1>4 DEF Anchors

\* A placement keeps positions whole and puts the card at its anchor.
LEMMA PlacedAtAnchor ==
  ASSUME QueueInv, NEW c \in Entries,
         NEW a \in Anchors((live \cap DOMAIN position) \ {c}), Place(c, a)
  PROVE  /\ DOMAIN position' = DOMAIN position \cup {c}
         /\ \A d \in DOMAIN position' : position'[d] \in Int
         /\ LET order == Others(position, c) IN
            InOrder(position', DOMAIN position') = InsertAt(order, Below(order, a) + 1, c)
<1> DEFINE T == (DOMAIN position) \ {c}
<1> DEFINE s == InOrder(position, T)
<1> DEFINE i == Below(s, a)
<1> DEFINE q == IF Exhausted(position, s, i) THEN Rebalanced(position) ELSE position
<1> DEFINE at == Between(q, s, i)
<1>1. Others(position, c) = s
  BY DEF Others
<1>2. /\ DOMAIN q = DOMAIN position
      /\ position' = [d \in (DOMAIN q) \cup {c} |-> IF d = c THEN at ELSE q[d]]
  BY <1>1 DEF Place, Rebalanced
<1>3. /\ Ranked(position, DOMAIN position) /\ Ranked(position, T)
      /\ c \notin T /\ c \in Nat /\ T \subseteq DOMAIN position
  BY PositionAssumption, FS_RemoveElement DEF QueueInv, Ranked
<1>4. i \in 0..Cardinality(T)
  <2>1. (live \cap DOMAIN position) \ {c} \in SUBSET T
    OBVIOUS
  <2> HIDE DEF T
  <2> QED
    BY <1>3, <2>1, SlotExists
<1>5. /\ Ranked(q, T) /\ ~Exhausted(q, InOrder(q, T), i)
      /\ InOrder(q, T) = s
      /\ \A e \in T : Rank(q, T, e) = Rank(position, T, e)
      /\ \A d, e \in T : Precedes(q, d, e) <=> Precedes(position, d, e)
  <2>1. CASE ~Exhausted(position, s, i)
    <3>1. q = position
      BY <2>1
    <3> QED
      BY <2>1, <3>1, <1>3
  <2>2. CASE Exhausted(position, s, i)
    <3>1. q = Rebalanced(position)
      BY <2>2
    <3> HIDE DEF q, T
    <3>2. /\ \A e \in T : q[e] \in Int
          /\ \A d, e \in T : Precedes(q, d, e) <=> Precedes(position, d, e)
          /\ \A d, e \in T : Precedes(position, d, e) /\ d # e => q[e] - q[d] >= Spacing
      BY <1>3, <3>1, RebalanceKeepsOrder
    <3>3. Ranked(q, T)
      BY <1>3, <3>2 DEF Ranked
    <3>4. InOrder(q, T) = s /\ \A e \in T : Rank(q, T, e) = Rank(position, T, e)
      BY <1>3, <3>2, <3>3, SameOrder
    <3>5. ~Exhausted(q, s, i)
      <4>1. SUFFICES ASSUME 0 < i, i < Len(s) PROVE q[s[i + 1]] - q[s[i]] >= Spacing
        <5>1. /\ Spacing \in Nat /\ Eps \in Nat /\ Eps <= Spacing
          BY PositionAssumption
        <5>2. Len(s) = Cardinality(T) /\ Cardinality(T) \in Nat /\ \A k \in 1..Len(s) : s[k] \in T
          BY <1>3, OrderByRank
        <5>3. 0 < i /\ i < Len(s) => q[s[i + 1]] \in Int /\ q[s[i]] \in Int
          BY <1>4, <5>2, <3>2
        <5> HIDE DEF s, i
        <5> QED
          BY <5>1, <5>3 DEF Exhausted
      <4>2. /\ Len(s) = Cardinality(T) /\ Cardinality(T) \in Nat
            /\ \A k \in 1..Len(s) : s[k] \in T /\ Rank(position, T, s[k]) = k
        BY <1>3, OrderByRank
      <4>3. i \in 1..Len(s) /\ i + 1 \in 1..Len(s)
        BY <1>4, <4>1, <4>2
      <4>4. /\ s[i] \in T /\ Rank(position, T, s[i]) = i
            /\ s[i + 1] \in T /\ Rank(position, T, s[i + 1]) = i + 1
        BY <4>2, <4>3
      <4> HIDE DEF s, i
      <4>5. Precedes(position, s[i], s[i + 1]) <=> i <= i + 1
        BY <1>3, <4>4, RankOrders
      <4> QED
        BY <3>2, <4>3, <4>4, <4>5
    <3> QED
      BY <3>2, <3>3, <3>4, <3>5
  <2> QED
    BY <2>1, <2>2
<1>6. /\ at \in Int
      /\ \A e \in T : q[e] # at
      /\ \A e \in T : q[e] < at <=> Rank(position, T, e) <= i
  <2> HIDE DEF q, T, i
  <2>1. Between(q, InOrder(q, T), i) = at
    BY <1>5
  <2>2. /\ Between(q, InOrder(q, T), i) \in Int
        /\ \A e \in T : q[e] # Between(q, InOrder(q, T), i)
        /\ \A e \in T : q[e] < Between(q, InOrder(q, T), i) <=> Rank(q, T, e) <= i
    BY <1>4, <1>5, SlotIsBetween
  <2> HIDE DEF at
  <2> QED
    BY <1>5, <2>1, <2>2
<1>7. DOMAIN position' = T \cup {c} /\ T \cup {c} = DOMAIN position \cup {c}
  BY <1>2
<1>8. position'[c] = at /\ \A e \in T : position'[e] = q[e]
  <2> HIDE DEF q, at
  <2> QED
    BY <1>2, <1>3
<1> HIDE DEF q, at, T, i
<1>9. \A d \in T \cup {c} : position'[d] \in Int
  BY <1>5, <1>6, <1>8 DEF Ranked
<1>10. Ranked(position', T \cup {c})
  BY <1>3, <1>9, FS_AddElement DEF Ranked
<1>11. \A d, e \in T : Precedes(position', d, e) <=> Precedes(position, d, e)
  BY <1>5, <1>8 DEF Precedes
<1>12. \A e \in T : Precedes(position', e, c) <=> Rank(position, T, e) <= i
  BY <1>5, <1>6, <1>8 DEF Precedes, Ranked
<1>13. InOrder(position', T \cup {c}) = InsertAt(s, i + 1, c)
  BY <1>3, <1>4, <1>10, <1>11, <1>12, InsertionOrders
<1> QED
  BY <1>1, <1>7, <1>9, <1>13 DEF i

LEMMA QueueInvHolds == PrioritySpec => []QueueInv
<1>1. QueueInit => QueueInv
  <2>1. DOMAIN <<>> = {}
    OBVIOUS
  <2> QED
    BY <2>1, FS_EmptySet DEF QueueInit, QueueInv
<1>2. QueueInv /\ [PriorityNext]_queueVars => QueueInv'
  <2>1. SUFFICES ASSUME QueueInv, PriorityNext PROVE QueueInv'
    BY DEF QueueInv, queueVars
  <2>2. PICK c \in Entries :
          \/ FindLive(c) \/ RefuseAdd(c) \/ RemoveEntry(c) \/ CardChanges(c)
          \/ \E a \in Anchors((live \cap DOMAIN position) \ {c}) : Add(c, a) \/ Move(c, a)
    BY <2>1 DEF PriorityNext
  <2>3. CASE FindLive(c) \/ RefuseAdd(c) \/ CardChanges(c)
    BY <2>1, <2>3 DEF FindLive, RefuseAdd, CardChanges, QueueInv
  <2>4. CASE RemoveEntry(c)
    <3>1. IsFiniteSet((DOMAIN position) \ {c})
      BY <2>1, FS_RemoveElement DEF QueueInv
    <3> QED
      BY <2>1, <2>4, <3>1 DEF RemoveEntry, QueueInv
  <2>5. ASSUME NEW a \in Anchors((live \cap DOMAIN position) \ {c}), Add(c, a) \/ Move(c, a)
        PROVE  QueueInv'
    <3>1. Place(c, a) /\ live' = live /\ adding' \subseteq adding
      BY <2>5 DEF Add, Move
    <3>2. /\ DOMAIN position' = DOMAIN position \cup {c}
          /\ \A d \in DOMAIN position' : position'[d] \in Int
      BY <2>1, <3>1, PlacedAtAnchor
    <3>3. IsFiniteSet(DOMAIN position \cup {c})
      BY <2>1, FS_AddElement DEF QueueInv
    <3> QED
      BY <2>1, <3>1, <3>2, <3>3 DEF QueueInv
  <2> QED
    BY <2>2, <2>3, <2>4, <2>5
<1> QED
  BY <1>1, <1>2, PTL DEF PrioritySpec

\* Queued cards are cards, at whole positions, for every number of cards.
THEOREM PriorityTyped == PrioritySpec => []PriorityTypeOK
<1>1. QueueInv => PriorityTypeOK
  BY DEF QueueInv, PriorityTypeOK
<1> QED
  BY <1>1, QueueInvHolds, PTL

\* Whatever a rebalance renumbers and however a midpoint is rounded, a card comes
\* to stand at the anchor it was given and the other cards keep their order.
THEOREM PriorityOrder == PrioritySpec => OrderIsWhatWasSaid
<1> DEFINE Said ==
      \A c \in DOMAIN position' :
        \A a \in Anchors((live \cap DOMAIN position) \ {c}) :
        Add(c, a) \/ Move(c, a) =>
          LET order == Others(position, c) IN
          InOrder(position', DOMAIN position') = InsertAt(order, Below(order, a) + 1, c)
<1>1. QueueInv /\ [PriorityNext]_queueVars => [Said]_queueVars
  <2>1. SUFFICES ASSUME QueueInv,
                        NEW c \in DOMAIN position',
                        NEW a \in Anchors((live \cap DOMAIN position) \ {c}),
                        Add(c, a) \/ Move(c, a)
                 PROVE  LET order == Others(position, c) IN
                        InOrder(position', DOMAIN position')
                          = InsertAt(order, Below(order, a) + 1, c)
    OBVIOUS
  <2>2. Place(c, a) /\ c \in Entries
    BY <2>1 DEF Add, Move, QueueInv
  <2> QED
    BY <2>1, <2>2, PlacedAtAnchor
<1> HIDE DEF Said
<1>2. PrioritySpec => [][Said]_queueVars
  BY <1>1, QueueInvHolds, PTL DEF PrioritySpec
<1> QED
  BY <1>2 DEF OrderIsWhatWasSaid, Said
=============================================================================
