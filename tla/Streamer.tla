------------------------------ MODULE Streamer ------------------------------
(***************************************************************************)
(* chatwitheino/a2ui/streamer.go: the events of an agent's run become cards  *)
(* of the browser's component tree and messages for the session's history.   *)
(* The k-th card is msg-k-card; an update carries the whole list of the      *)
(* root's children.  The browser is static/index.html.                       *)
(***************************************************************************)
EXTENDS Naturals, Sequences, SequencesExt

CONSTANTS MaxEvents   \* bound: events and chunks of all runs

ASSUME StreamerAssumption == MaxEvents \in Nat

VARIABLES
    ui,      \* streamEvents, and what its callers return
    page,    \* the browser's tree
    up,      \* does the connection still take what is written to it?
    minted,  \* the number of the last message anyone has written
    over,    \* history: has the agent's run ended?
    events   \* bound: events so far

streamVars == <<ui, page, up, minted, over, events>>

\* The first n cards.
Cards(n) == [i \in 1..n |-> i - 1]
NoText == [text |-> FALSE, calls |-> 0, think |-> FALSE, shell |-> FALSE, idx |-> 0]
\* "off", "events": between events, "chunks": within a streamed message, "ended".
Ui == [st : {"off", "events", "chunks", "ended"}, kids : Seq(Nat), idx : Nat, broken : BOOLEAN,
       interrupt : BOOLEAN, failed : BOOLEAN, kept : Seq(Nat),
       msg : [text : BOOLEAN, calls : Nat, think : BOOLEAN, shell : BOOLEAN, idx : Nat]]
Off == [st |-> "off", kids |-> <<>>, idx |-> 0, broken |-> FALSE, interrupt |-> FALSE,
        failed |-> FALSE, kept |-> <<>>, msg |-> NoText]
\* kids: the children of root-col; cards: the components msg-*-card, in the order they came.
Page == [kids : Seq(Nat), cards : Seq(Nat), asked : BOOLEAN]
Blank == [kids |-> <<>>, cards |-> <<>>, asked |-> FALSE]

StreamInit ==
    /\ ui = Off
    /\ page = Blank
    /\ up = FALSE
    /\ minted = 0
    /\ over = TRUE
    /\ events = 0

Begins(n) == [Off EXCEPT !.st = "events", !.kids = Cards(n), !.idx = n]
\* beginRendering, and the cards of the history.
Rendered(n) == [Blank EXCEPT !.kids = Cards(n), !.cards = Cards(n)]

\* StreamToWriter starts the tree from the history; if that cannot be written it gives up.
StreamToWriter(n) ==
    /\ up' \in BOOLEAN
    /\ ui' = IF up' THEN Begins(n) ELSE [Off EXCEPT !.st = "ended", !.failed = TRUE]
    /\ page' = IF up' THEN Rendered(n) ELSE page
    /\ over' = FALSE
    /\ UNCHANGED <<minted, events>>

\* StreamContinue goes on with the tree it takes the page to have.
StreamContinue(msgIdx) ==
    /\ up' = TRUE
    /\ ui' = Begins(msgIdx)
    /\ over' = FALSE
    /\ UNCHANGED <<page, minted, events>>

-----------------------------------------------------------------------------
(* Cards                                                                   *)

\* emitToolChip, n times: its error is dropped, its card is counted.
Chips(u, n) ==
    IF u.broken THEN u
    ELSE [u EXCEPT !.kids = @ \o [i \in 1..n |-> u.idx + i - 1], !.idx = @ + n]

\* A card with text: an error breaks the writer.
TextCard(u, idx) ==
    IF u.broken THEN u
    ELSE [u EXCEPT !.kids = Append(@, idx), !.idx = @ + 1, !.broken = ~up]

\* The page takes what the connection lets through: the new cards, in one list of children.
Shows(u) ==
    page' = IF up /\ u.kids # ui.kids
            THEN [page EXCEPT !.kids = u.kids,
                              !.cards = @ \o SubSeq(u.kids, Len(ui.kids) + 1, Len(u.kids)),
                              !.asked = u.interrupt]
            ELSE page

KeptIfShown(u) == IF u.broken THEN u ELSE [u EXCEPT !.kept = Append(@, minted + 1)]
\* A message for the history.
Keeps(u) == [u EXCEPT !.kept = Append(@, minted + 1)]

-----------------------------------------------------------------------------
(* The agent's events                                                      *)

Event(st) ==
    /\ ui.st = st
    /\ events < MaxEvents /\ events' = events + 1
    /\ UNCHANGED up

Yields(u) == ui' = u /\ Shows(u)
Ends(u) == [u EXCEPT !.st = "ended"]
EndsIf(exit, u) == IF exit THEN Ends(u) ELSE u

ModelRetries ==
    /\ Event("events")
    /\ Yields(Chips(ui, 1))
    /\ UNCHANGED <<minted, over>>

RunFails ==
    /\ Event("events")
    /\ Yields([Ends(Chips(ui, 1)) EXCEPT !.failed = TRUE])
    /\ over' = TRUE
    /\ UNCHANGED minted

RunInterrupts ==
    /\ Event("events")
    /\ Yields([Ends(Chips(ui, 1)) EXCEPT !.interrupt = TRUE])
    /\ over' = TRUE
    /\ UNCHANGED minted

\* The iterator is exhausted, or an event without output says exit.
RunEnds ==
    /\ ui.st = "events"
    /\ ui' = Ends(ui)
    /\ over' = TRUE
    /\ UNCHANGED <<page, up, minted, events>>

ToolReturns ==
    /\ Event("events")
    /\ Yields(Keeps(Chips(ui, 1)))
    /\ minted' = minted + 1
    /\ UNCHANGED over

\* A message that is not streamed: its calls, then its text.
Message ==
    /\ Event("events")
    /\ \E text, think, exit \in BOOLEAN, calls \in 0..2 :
        LET chips == Chips(ui, calls)
            card  == IF text THEN TextCard(chips, chips.idx) ELSE chips
            worth == text \/ calls > 0 \/ think
        IN  /\ Yields(EndsIf(exit, IF worth THEN Keeps(card) ELSE card))
            /\ minted' = IF worth THEN minted + 1 ELSE minted
            /\ over' = exit

StreamOpens ==
    /\ ui.st = "events"
    /\ ui' = [ui EXCEPT !.st = "chunks", !.msg = [NoText EXCEPT !.idx = ui.idx]]
    /\ UNCHANGED <<page, up, minted, over, events>>

\* The first text makes the card, every text updates it.
TextChunk ==
    /\ Event("chunks")
    /\ LET card == IF ui.msg.shell THEN [ui EXCEPT !.broken = @ \/ ~up] ELSE TextCard(ui, ui.msg.idx)
       IN  Yields([card EXCEPT !.msg.text = TRUE, !.msg.shell = ~card.broken \/ ui.msg.shell])
    /\ UNCHANGED <<minted, over>>

CallChunk ==
    /\ Event("chunks")
    /\ ui' = [ui EXCEPT !.msg.calls = @ + 1]
    /\ UNCHANGED <<page, minted, over>>

ThinkChunk ==
    /\ Event("chunks")
    /\ ui' = [ui EXCEPT !.msg.think = TRUE]
    /\ UNCHANGED <<page, minted, over>>

\* The model is called again: what it has said is left on the page, and forgotten.
StreamRetries ==
    /\ Event("chunks")
    /\ Yields([Chips(ui, 1) EXCEPT !.st = "events", !.msg = NoText])
    /\ UNCHANGED <<minted, over>>

Worth(m, joined) == m.text \/ m.calls > 0 \/ (m.think /\ joined)

\* The end of the stream, or an error of it, which is taken for one.
StreamCloses ==
    /\ ui.st = "chunks"
    /\ \E exit, joined \in BOOLEAN :
        LET chips == [Chips(ui, ui.msg.calls) EXCEPT !.st = "events", !.msg = NoText]
            worth == Worth(ui.msg, joined)
        IN  /\ Yields(EndsIf(exit, IF worth THEN Keeps(chips) ELSE chips))
            /\ minted' = IF worth THEN minted + 1 ELSE minted
            /\ over' = exit
    /\ UNCHANGED <<up, events>>

StreamStep ==
    \/ ModelRetries \/ RunFails \/ RunInterrupts \/ RunEnds \/ ToolReturns \/ Message
    \/ StreamOpens \/ TextChunk \/ CallChunk \/ ThinkChunk \/ StreamRetries \/ StreamCloses

\* The browser closes its end.
ConnectionBreaks ==
    /\ ui.st \in {"events", "chunks"}
    /\ up /\ up' = FALSE
    /\ UNCHANGED <<ui, page, minted, over, events>>
=============================================================================
