----------------------------- MODULE ChatSession -----------------------------
(***************************************************************************)
(* A session of chatwitheino and the turns that write it: server.go between  *)
(* mem/store.go (SessionStore) and a2ui/streamer.go (Streamer).  One browser  *)
(* asks one thing at a time; how requests and loops overlap is ChatServer's.  *)
(***************************************************************************)
EXTENDS SessionStore, Streamer

CONSTANTS MaxQuestions,   \* bound: questions asked
          MaxApprovals,   \* bound: approvals given
          MaxDeletes,     \* bound: deletions
          MaxKills        \* bound: kills of the server

ASSUME SessionAssumption ==
    /\ {MaxQuestions, MaxApprovals, MaxDeletes, MaxKills} \subseteq Nat

VARIABLES
    turn,   \* the turn under way: its phase, its Session, what is still to be saved
    late,   \* a stopped turn that goes on saving: its Session, and the messages
    start,  \* history: the session's messages when the turn's question was saved
    strays, \* history: the messages that a stopped turn has saved late
    used    \* bounds: what has been used of them

vars == <<storeVars, streamVars, turn, late, start, strays, used>>

NoTurn == [phase |-> "none", sess |-> 0, left |-> <<>>, resumed |-> FALSE]
NoLate == [sess |-> 0, left |-> <<>>]
Bounded == {"questions", "approvals", "deletes", "kills"}

Init ==
    /\ StoreInit
    /\ StreamInit
    /\ turn = NoTurn
    /\ late = NoLate
    /\ start = <<>>
    /\ strays = {}
    /\ used = [what \in Bounded |-> 0]

Idle == turn.phase = "none"
TurnOver ==
    /\ turn' = NoTurn
    /\ ui' = Off
    /\ up' = FALSE
    /\ over' = TRUE
    /\ start' = <<>>

Uses(what, bound) == used[what] < bound /\ used' = [used EXCEPT ![what] = @ + 1]

-----------------------------------------------------------------------------
(* Requests of the browser                                                 *)

AnswersError == UNCHANGED turn

\* handleChat, up to the start of its turn.  A question while an approval is pending
\* is ChatServer's matter.
Chat ==
    /\ Idle
    /\ cache # None => ~Cached.pending
    /\ Uses("questions", MaxQuestions)
    /\ \/ GetOrCreate /\ turn' = [NoTurn EXCEPT !.phase = "asked", !.sess = cache']
       \/ GetOrCreateFails /\ AnswersError
    /\ page' = [page EXCEPT !.asked = FALSE]
    /\ UNCHANGED <<ui, up, minted, over, events, late, start, strays>>

\* handleApprove; after a restart nothing is pending.
Approve ==
    /\ Idle
    /\ page.asked
    /\ Uses("approvals", MaxApprovals)
    /\ page' = [page EXCEPT !.asked = FALSE]
    /\ \/ /\ cache # None /\ Cached.pending
          /\ ClearInterrupt(cache)
          /\ turn' = [NoTurn EXCEPT !.phase = "ready", !.sess = cache, !.resumed = TRUE]
       \/ /\ cache # None /\ ~Cached.pending
          /\ UNCHANGED <<storeVars, turn>>
       \/ /\ cache = None
          /\ GetOrCreate \/ GetOrCreateFails
          /\ UNCHANGED turn
    /\ UNCHANGED <<ui, up, minted, over, events, late, start, strays>>

\* handleRender, when the browser selects the session.
Render ==
    /\ Idle
    /\ \/ GetOrCreate /\ page' = Rendered(Len(objects'[cache'].messages))
       \/ GetOrCreateFails /\ page' = Blank
    /\ UNCHANGED <<ui, up, minted, over, events, turn, late, start, strays, used>>

\* handleAbort: the turn's context is done, and its result dropped.
Abort ==
    /\ turn.phase = "streaming"
    /\ TurnOver
    /\ UNCHANGED <<storeVars, page, minted, events, late, strays, used>>

\* DELETE: the loop is stopped, and not waited for.
Delete ==
    /\ late.left = <<>>
    /\ Uses("deletes", MaxDeletes)
    /\ StoreDelete
    /\ \/ /\ late' = [sess |-> turn.sess, left |-> turn.left]
          /\ UNCHANGED minted
       \/ /\ turn.phase = "asked"           \* GenInput is running
          /\ late' = [sess |-> turn.sess, left |-> <<minted + 1>>]
          /\ minted' = minted + 1
    /\ TurnOver
    /\ page' = Blank
    /\ UNCHANGED <<events, strays>>

-----------------------------------------------------------------------------
(* The turn                                                                *)

\* GenInput
SaveQuestion ==
    /\ turn.phase = "asked"
    /\ SessionAppend(turn.sess, minted + 1)
    /\ minted' = minted + 1
    /\ start' = objects'[turn.sess].messages
    /\ turn' = [turn EXCEPT !.phase = "ready"]
    /\ UNCHANGED <<ui, page, up, over, events, late, strays, used>>

ResumeAfterHistory(s) == Len(s.messages)
ResumeIdx(s) == s.msgIdx

\* OnAgentEvents hands the events to the handler.
HandOver ==
    /\ turn.phase = "ready"
    /\ LET s == objects[turn.sess]
       IN  IF turn.resumed THEN StreamContinue(ResumeIdx(s)) ELSE StreamToWriter(Len(s.messages))
    /\ turn' = [turn EXCEPT !.phase = "streaming"]
    /\ UNCHANGED <<storeVars, late, start, strays, used>>

Stream ==
    /\ turn.phase = "streaming"
    /\ StreamStep \/ ConnectionBreaks
    /\ UNCHANGED <<storeVars, turn, late, start, strays, used>>

\* The handler's result: handleApprove leaves the messages out.
Result ==
    /\ turn.phase = "streaming"
    /\ ui.st = "ended"
    /\ turn' = [turn EXCEPT !.phase = "saving", !.left = IF turn.resumed THEN <<>> ELSE ui.kept]
    /\ UNCHANGED <<storeVars, streamVars, late, start, strays, used>>

SaveMessage ==
    /\ turn.phase = "saving"
    /\ turn.left # <<>>
    /\ SessionAppend(turn.sess, Head(turn.left))
    /\ turn' = [turn EXCEPT !.left = Tail(@)]
    /\ UNCHANGED <<streamVars, late, start, strays, used>>

EndTurn ==
    /\ turn.phase = "saving"
    /\ turn.left = <<>>
    /\ IF ui.interrupt THEN SetInterrupt(turn.sess, ui.idx) ELSE UNCHANGED storeVars
    /\ TurnOver
    /\ UNCHANGED <<page, minted, events, late, strays, used>>

\* A turn that was saving when its session was deleted.
SaveLate ==
    /\ late.left # <<>>
    /\ SessionAppend(late.sess, Head(late.left))
    /\ late' = [late EXCEPT !.left = Tail(@)]
    /\ strays' = strays \cup {Head(late.left)}
    /\ UNCHANGED <<streamVars, turn, start, used>>

\* The server is killed and started again.
Kill ==
    /\ Uses("kills", MaxKills)
    /\ StoreRestart
    /\ TurnOver
    /\ late' = NoLate
    /\ UNCHANGED <<page, minted, events, strays>>

TurnStep == SaveQuestion \/ HandOver \/ Stream \/ Result \/ SaveMessage \/ EndTurn \/ SaveLate
Next == Chat \/ Approve \/ Render \/ Abort \/ Delete \/ Kill \/ TurnStep

Spec == Init /\ [][Next]_vars

-----------------------------------------------------------------------------
(* Properties                                                              *)

Without(s, S) == Kept(s, Nat \ S)
InOrder(s) == \A i, j \in DOMAIN s : i < j => s[i] < s[j]

Object == [messages : Seq(Nat), pending : BOOLEAN, msgIdx : Nat]
Phases == {"none", "asked", "ready", "streaming", "saving"}

\* Types of the state.
TypeOK ==
    /\ objects \in Seq(Object)
    /\ cache \in DOMAIN objects \cup {None}
    /\ file \in File
    /\ faults \in 0..MaxFaults
    /\ ui \in Ui
    /\ page \in Page
    /\ up \in BOOLEAN /\ over \in BOOLEAN
    /\ {minted, events} \subseteq Nat
    /\ turn \in [phase : Phases, sess : Nat, left : Seq(Nat), resumed : BOOLEAN]
    /\ turn.phase # "none" => turn.sess \in DOMAIN objects
    /\ late \in [sess : Nat, left : Seq(Nat)]
    /\ late.left # <<>> => late.sess \in DOMAIN objects
    /\ start \in Seq(Nat)
    /\ acked \cup strays \subseteq Nat
    /\ used \in [Bounded -> Nat]

\* a2ui/streamer.go:81.  The page shows every card it was sent exactly once, in order:
\* the children of the root are the cards, across retries, broken connections, and an
\* approval that rebuilds the list from the counter an earlier turn has left.
TreeIsWhole == page.kids = page.cards /\ page.cards = Cards(Len(page.cards))

\* a2ui/streamer.go:101.  A question's turn that ends by itself leaves the session as
\* it was, then its question, then every message of the agent's run, whatever became
\* of the connection; what a stopped turn saves late apart.  A run that the handler
\* could not begin to show adds nothing.
TurnsAreSaved ==
    [][(turn.phase = "saving" /\ ~turn.resumed /\ EndTurn) =>
        LET now == Without(objects[turn.sess].messages, strays)
            was == Without(start, strays)
        IN  \/ over /\ now = was \o [i \in 1..(minted - Last(was)) |-> Last(was) + i]
            \/ ~over /\ ui.failed /\ now = was]_vars

\* Of what the session's file was given without an error, a load misses at most one
\* message for every write that failed.
FaultsCostOne == Cardinality(acked \ ToSet(Readable(file))) <= faults

\* The file holds nothing that the session in memory does not have, a stopped turn's
\* leavings apart, and its messages are in the order in which they were said.
FileWithinSession ==
    LET own == Without(Readable(file), strays)
    IN  /\ InOrder(own)
        /\ cache # None => ToSet(own) \subseteq ToSet(Cached.messages)

\* mem/store.go:94 opens the file without creating it: only GetOrCreate brings a
\* deleted session's file back, though a turn that was stopped may still be saving.
DeletedStaysDeleted ==
    [][(file.header = "none" /\ file'.header = "ok") => cache' # None]_vars
=============================================================================
