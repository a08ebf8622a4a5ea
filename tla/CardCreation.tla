---------------------------- MODULE CardCreation ----------------------------
(***************************************************************************)
(* Card identities: modules/cards/create-card.ts, lib/card-keys.ts and the *)
(* triggers of migration 0044.  A card's key is its workspace's prefix and *)
(* a number drawn from the workspace's counter; prefixes are reserved for  *)
(* ever, renamed, and old ones stay aliases.  A create may carry a client  *)
(* token, by which a retry finds the card that its first attempt made.     *)
(*                                                                         *)
(* A writer is one request and one transaction.  A card goes by the name   *)
(* of the writer that created it; a place is a board, a list and a creator.*)
(***************************************************************************)
EXTENDS Naturals, FiniteSets

CONSTANTS Workspaces, KeyPrefixes, Places, Tokens, Writers

NoPrefix == "none"
NoToken == "none"
NoCard == [at |-> "nowhere"]
Gone == [at |-> "gone"]
NoAsk == [do |-> "nothing"]
Ends == {"refused", "conflict", "failed", "done"}

ASSUME CreationAssumption ==
  /\ NoPrefix \notin KeyPrefixes
  /\ NoToken \notin Tokens
  /\ IsFiniteSet(Writers) /\ Writers \cap (Ends \cup {"none"}) = {}

VARIABLES
  prefixOf,     \* card_key_prefix, NoPrefix before the workspace exists
  lastNumber,   \* last_card_number
  reserved,     \* <<prefix, workspace>>: the reservations
  shut,         \* deleted workspaces
  cardRow,      \* the card each writer created, NoCard before, Gone once deleted
  ask,          \* what each writer asks for
  writerAt,     \* where its transaction is
  drawn,        \* the prefix and number it has drawn and not committed
  answer,       \* what it was told: a card, or how it ended
  keysHad       \* history: <<prefix, number, card>>, every key a card has shown

identities == <<prefixOf, lastNumber, reserved, shut>>
creationVars == <<identities, cardRow, ask, writerAt, drawn, answer, keysHad>>

Asks ==
  [do : {"create"}, ws : Workspaces, place : Places, token : Tokens \cup {NoToken}]
    \cup [do : {"copy"}, ws : Workspaces, place : Places, token : {NoToken}]
    \cup [do : {"rename", "found"}, ws : Workspaces, prefix : KeyPrefixes]

CreationInit ==
  /\ prefixOf \in [Workspaces -> KeyPrefixes \cup {NoPrefix}]
  /\ \A v, w \in Workspaces : v # w /\ prefixOf[v] = prefixOf[w] => prefixOf[v] = NoPrefix
  /\ lastNumber = [w \in Workspaces |-> 0]
  /\ reserved = {<<prefixOf[w], w>> : w \in {v \in Workspaces : prefixOf[v] # NoPrefix}}
  /\ shut = {}
  /\ cardRow = [r \in Writers |-> NoCard]
  /\ ask = [r \in Writers |-> NoAsk]
  /\ writerAt = [r \in Writers |-> "idle"]
  /\ drawn = [r \in Writers |-> <<>>]
  /\ answer = [r \in Writers |-> "none"]
  /\ keysHad = {}

-----------------------------------------------------------------------------
Exists(w) == prefixOf[w] # NoPrefix /\ w \notin shut

Live(c) == cardRow[c].at = "here"
LiveCards == {c \in Writers : Live(c)}

\* Who holds the workspace's graph lock, the token's advisory lock, the
\* workspace's row.
GraphHeld(w) ==
  \E r \in Writers :
    ask[r].do = "create" /\ ask[r].ws = w /\ writerAt[r] \in {"graph", "token", "numbered"}
TokenHeld(t) ==
  \E r \in Writers :
    ask[r].do = "create" /\ ask[r].token = t /\ writerAt[r] \in {"token", "numbered"}
RowHeld(w) ==
  \E r \in Writers :
    /\ writerAt[r] \in {"numbered", "locked", "reserved"}
    /\ ask[r].do # "found" /\ ask[r].ws = w

Made(t) == {c \in LiveCards : cardRow[c].token = t}

EndWith(r, told) ==
  /\ writerAt' = [writerAt EXCEPT ![r] = "over"]
  /\ answer' = [answer EXCEPT ![r] = told]

GoOn(r, at) == writerAt' = [writerAt EXCEPT ![r] = at] /\ UNCHANGED answer

\* The card that the token has made, if it still is where this create wants it.
Replay(r, a, c) ==
  EndWith(r, IF cardRow[c].ws = a.ws /\ cardRow[c].place = a.place THEN c ELSE "refused")

-----------------------------------------------------------------------------
\* A request arrives; prepareCardCreate looks for its token.  A workspace's id is
\* its founder's.
Arrive(r, a) ==
  /\ writerAt[r] = "idle"
  /\ a.do = "found" <=> prefixOf[a.ws] = NoPrefix
  /\ \A s \in Writers : a.do = "found" /\ ask[s].do = "found" => ask[s].ws # a.ws
  /\ a.ws \notin shut
  /\ ask' = [ask EXCEPT ![r] = a]
  /\ IF a.do = "create" /\ a.token # NoToken /\ Made(a.token) # {}
     THEN \E c \in Made(a.token) : Replay(r, a, c)
     ELSE GoOn(r, "ready")
  /\ UNCHANGED <<identities, cardRow, drawn, keysHad>>

TakeGraphToCreate(r) ==
  /\ writerAt[r] = "ready" /\ ask[r].do = "create" /\ ~GraphHeld(ask[r].ws)
  /\ GoOn(r, "graph")
  /\ UNCHANGED <<identities, cardRow, ask, drawn, keysHad>>

\* Slip: the token was looked for before the transaction, that must do.
TakeTokenBlindly(r) ==
  /\ writerAt[r] = "graph" /\ ask[r].token # NoToken /\ ~TokenHeld(ask[r].token)
  /\ GoOn(r, "token")
  /\ UNCHANGED <<identities, cardRow, ask, drawn, keysHad>>

\* Serialize idempotent replays: the token is looked for again under its lock.
TakeToken(r) ==
  /\ writerAt[r] = "graph" /\ ask[r].token # NoToken /\ ~TokenHeld(ask[r].token)
  /\ IF Made(ask[r].token) = {} THEN GoOn(r, "token")
     ELSE \E c \in Made(ask[r].token) : Replay(r, ask[r], c)
  /\ UNCHANGED <<identities, cardRow, ask, drawn, keysHad>>

\* allocateCardKeys: the row lock lasts to the end of the transaction.  A copy
\* (duplicate-card.ts) takes no other lock.
Allocate(r) ==
  /\ \/ ask[r].do = "copy" /\ writerAt[r] = "ready"
     \/ ask[r].do = "create" /\ ask[r].token = NoToken /\ writerAt[r] = "graph"
     \/ writerAt[r] = "token"
  /\ ~RowHeld(ask[r].ws)
  /\ IF Exists(ask[r].ws)
     THEN /\ drawn' = [drawn EXCEPT ![r] = <<prefixOf[ask[r].ws], lastNumber[ask[r].ws] + 1>>]
          /\ GoOn(r, "numbered")
     ELSE EndWith(r, "failed") /\ UNCHANGED drawn
  /\ UNCHANGED <<identities, cardRow, ask, keysHad>>

\* The unique indexes, and the trigger that compares the key with the prefix.
Clashes(r) ==
  \/ drawn[r][1] # prefixOf[ask[r].ws]
  \/ ask[r].token # NoToken /\ Made(ask[r].token) # {}
  \/ \E c \in LiveCards : cardRow[c].number = drawn[r][2] /\ cardRow[c].ws = ask[r].ws

\* The card is inserted, its rules run, and the transaction commits; or what
\* clashes, and any later error (FailWrite), takes the number back with it.
CommitCard(r) ==
  /\ writerAt[r] = "numbered"
  /\ IF Clashes(r)
     THEN EndWith(r, "conflict") /\ UNCHANGED <<lastNumber, cardRow, keysHad>>
     ELSE /\ lastNumber' = [lastNumber EXCEPT ![ask[r].ws] = drawn[r][2]]
          /\ cardRow' = [cardRow EXCEPT ![r] =
               [at |-> "here", ws |-> ask[r].ws, place |-> ask[r].place,
                token |-> ask[r].token, prefix |-> drawn[r][1], number |-> drawn[r][2]]]
          /\ keysHad' = keysHad \cup {<<drawn[r][1], drawn[r][2], r>>}
          /\ EndWith(r, r)
  /\ UNCHANGED <<prefixOf, reserved, shut, ask, drawn>>

FailWrite(r) ==
  /\ writerAt[r] \in {"graph", "token", "numbered", "locked", "reserved"}
  /\ EndWith(r, "failed")
  /\ UNCHANGED <<identities, cardRow, ask, drawn, keysHad>>

-----------------------------------------------------------------------------
\* updateWorkspace: the row is locked before the prefix is read.
LockWorkspace(r) ==
  /\ writerAt[r] = "ready" /\ ask[r].do = "rename" /\ ~RowHeld(ask[r].ws)
  /\ IF ~Exists(ask[r].ws) THEN EndWith(r, "failed")
     ELSE IF ask[r].prefix = prefixOf[ask[r].ws] THEN EndWith(r, "done")
     ELSE GoOn(r, "locked")
  /\ UNCHANGED <<identities, cardRow, ask, drawn, keysHad>>

\* Slip: a prefix is free once no workspace uses it any more.
ReserveUnused(r) ==
  /\ \/ writerAt[r] = "locked"
     \/ writerAt[r] = "ready" /\ ask[r].do = "found"
  /\ ~\E s \in Writers \ {r} : writerAt[s] = "reserved" /\ ask[s].prefix = ask[r].prefix
  /\ IF \E w \in Workspaces \ {ask[r].ws} : Exists(w) /\ prefixOf[w] = ask[r].prefix
     THEN EndWith(r, "refused") ELSE GoOn(r, "reserved")
  /\ UNCHANGED <<identities, cardRow, ask, drawn, keysHad>>

\* reserveCardKeyPrefix: an insert that waits for a rival's, and a prefix that
\* another workspace has ever had is refused.  A generated prefix is the first
\* that is not.
Reserve(r) ==
  /\ \/ writerAt[r] = "locked"
     \/ writerAt[r] = "ready" /\ ask[r].do = "found"
  /\ ~\E s \in Writers \ {r} : writerAt[s] = "reserved" /\ ask[s].prefix = ask[r].prefix
  /\ IF \E w \in Workspaces \ {ask[r].ws} : <<ask[r].prefix, w>> \in reserved
     THEN EndWith(r, "refused") ELSE GoOn(r, "reserved")
  /\ UNCHANGED <<identities, cardRow, ask, drawn, keysHad>>

\* The trigger rewrites the workspace's keys in the same transaction; the old
\* reservation stays.
CommitPrefix(r) ==
  LET w == ask[r].ws
      here == {c \in LiveCards : cardRow[c].ws = w}
  IN /\ writerAt[r] = "reserved"
     /\ prefixOf' = [prefixOf EXCEPT ![w] = ask[r].prefix]
     /\ reserved' = reserved \cup {<<ask[r].prefix, w>>}
     /\ cardRow' = [c \in Writers |->
          IF c \in here THEN [cardRow[c] EXCEPT !.prefix = ask[r].prefix] ELSE cardRow[c]]
     /\ keysHad' = keysHad \cup {<<ask[r].prefix, cardRow[c].number, c>> : c \in here}
     /\ EndWith(r, "done")
     /\ UNCHANGED <<lastNumber, shut, ask, drawn>>

-----------------------------------------------------------------------------
\* move-card.ts takes the graph lock; so does the deletion of a board, but the
\* purge of old archived cards does not.
MoveCard(c, place) ==
  /\ Live(c) /\ cardRow[c].place # place /\ ~GraphHeld(cardRow[c].ws)
  /\ cardRow' = [cardRow EXCEPT ![c].place = place]
  /\ UNCHANGED <<identities, ask, writerAt, drawn, answer, keysHad>>

DeleteCard(c) ==
  /\ Live(c)
  /\ cardRow' = [cardRow EXCEPT ![c] = Gone]
  /\ UNCHANGED <<identities, ask, writerAt, drawn, answer, keysHad>>

\* deleteWorkspaceCascade: the cards go with it, its reservations stay.
DeleteWorkspace(w) ==
  /\ Exists(w) /\ ~RowHeld(w)
  /\ shut' = shut \cup {w}
  /\ cardRow' = [c \in Writers |-> IF Live(c) /\ cardRow[c].ws = w THEN Gone ELSE cardRow[c]]
  /\ UNCHANGED <<prefixOf, lastNumber, reserved, ask, writerAt, drawn, answer, keysHad>>

CreationNext ==
  \/ \E r \in Writers :
       \/ \E a \in Asks : Arrive(r, a)
       \/ TakeGraphToCreate(r) \/ TakeToken(r) \/ Allocate(r) \/ CommitCard(r)
       \/ FailWrite(r) \/ LockWorkspace(r) \/ Reserve(r) \/ CommitPrefix(r)
  \/ \E c \in Writers : DeleteCard(c) \/ \E place \in Places : MoveCard(c, place)
  \/ \E w \in Workspaces : DeleteWorkspace(w)

CreationSpec == CreationInit /\ [][CreationNext]_creationVars

-----------------------------------------------------------------------------
(* Properties. *)

\* resolveCardKey: by reservation, so that old prefixes are aliases.
Resolve(p, n) ==
  {c \in LiveCards : <<p, cardRow[c].ws>> \in reserved /\ cardRow[c].number = n}

\* A key that a card has ever shown leads to that card for as long as the card
\* lives, and never to another one, whatever is renamed, founded, deleted or
\* created meanwhile (card-keys.ts:31, 108-109).
KeysNeverChangeHands ==
  \A k \in keysHad : Resolve(k[1], k[2]) = {k[3]} \cap LiveCards

\* However often and at whatever moment a create is retried under its token, the
\* retries are answered with one card, or refused, and never run into an index;
\* and no retry, clash or failure leaves a gap in the numbers
\* (create-card.ts:96-97, 196-197, card-keys.ts:117).
RetriesShareTheCard ==
  /\ \A r \in Writers : answer[r] # "conflict"
  /\ \A r, s \in {w \in Writers : answer[w] \in LiveCards /\ ask[w].token # NoToken} :
       ask[r].token = ask[s].token => answer[r] = answer[s]
  /\ \A w \in Workspaces :
       lastNumber[w] = Cardinality({r \in Writers : answer[r] = r /\ ask[r].ws = w})

CreationTypeOK ==
  /\ prefixOf \in [Workspaces -> KeyPrefixes \cup {NoPrefix}]
  /\ lastNumber \in [Workspaces -> Nat]
  /\ reserved \subseteq KeyPrefixes \X Workspaces
  /\ shut \subseteq Workspaces
  /\ cardRow \in [Writers -> {NoCard, Gone} \cup
       [at : {"here"}, ws : Workspaces, place : Places, token : Tokens \cup {NoToken},
        prefix : KeyPrefixes, number : Nat]]
  /\ ask \in [Writers -> Asks \cup {NoAsk}]
  /\ writerAt \in [Writers ->
       {"idle", "ready", "graph", "token", "numbered", "locked", "reserved", "over"}]
  /\ drawn \in [Writers -> {<<>>} \cup (KeyPrefixes \X Nat)]
  /\ answer \in [Writers -> Writers \cup Ends \cup {"none"}]
  /\ keysHad \subseteq KeyPrefixes \X Nat \X Writers
=============================================================================
