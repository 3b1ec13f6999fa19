----------------------------- MODULE ChatServer -----------------------------
(***************************************************************************)
(* The HTTP server of quickstart/chatwitheino for one session id: the      *)
(* handlers of /chat, /approve, /abort and DELETE, the turn state through  *)
(* which they reach the session's TurnLoop, the bridge of channels between *)
(* a handler and the OnAgentEvents callback, and the checkpoint store.     *)
(*                                                                         *)
(* A request names everything it can create: the loop it starts, the item  *)
(* it pushes, the turn that item becomes, the interrupt that turn may end  *)
(* in, and (a dead loop makes a handler do it twice) two bridges.          *)
(*                                                                         *)
(* adk.TurnLoop is a library: its part (the actions Loop...) is modelled   *)
(* from how this server and its tests use it and from ch11_turnloop.md.    *)
(***************************************************************************)
EXTENDS Naturals, Sequences, FiniteSets

CONSTANTS Chats, Approves, Aborts, Deletes,  \* the requests of each kind
          None,
          StreamEnds,  \* how an event stream may end: "ok", "intr", "err"
          Timeouts,    \* may the 60 s wait for the agent run out?
          Pace         \* how soon clients send their next request

Requests == Chats \cup Approves \cup Aborts \cup Deletes
Starters == Chats \cup Approves
Bridge == Starters \X {1, 2}
Gens == Deletes \cup {None}        \* a deletion makes way for new objects

ASSUME ChatAssumption ==
    /\ None \notin Requests \cup Bridge
    /\ Chats \cap (Approves \cup Aborts \cup Deletes) = {}
    /\ Approves \cap (Aborts \cup Deletes) = {}
    /\ Aborts \cap Deletes = {}
    /\ StreamEnds \subseteq {"ok", "intr", "err"}
    /\ Timeouts \in BOOLEAN
    /\ Pace \in {"any", "streaming", "calm"}

VARIABLES
    sessGen,   \* the session object GetOrCreate returns: named by the deletion before it
    sess,      \* session objects: pending interrupt and message history
    tsGen,     \* the sessionTurnState in the map
    ts,        \* turn states: loop and bridge
    req,       \* handlers
    chan,      \* bridges: iterReady, iterDone (capacity 1), handlerDone
    loop,      \* the loop each request created, if any
    ckpt,      \* checkpoint store
    panicked,  \* a closed channel was closed again
    replies,   \* history: <<turn, turn its result describes>>
    resumed    \* history: <<interrupt checkpointed, interrupt approved>>

storeVars == <<sessGen, sess>>
tsVars == <<tsGen, ts>>
vars == <<sessGen, sess, tsGen, ts, req, chan, loop, ckpt, panicked, replies, resumed>>

NoResult == [turn |-> None, kind |-> "none"]
NoLoop == [st |-> "none", queue |-> << >>, stop |-> "no", turn |-> None,
           bridge |-> None, preempt |-> FALSE, ctxDone |-> FALSE, save |-> None,
           loaded |-> FALSE]

Init ==
    /\ sessGen = None
    /\ sess = [g \in Gens |-> [pending |-> None, history |-> << >>]]
    /\ tsGen = None
    /\ ts = [g \in Gens |-> [loop |-> None, bridge |-> None]]
    /\ req = [h \in Requests |-> [pc |-> "idle", sess |-> None, ts |-> None, loop |-> None,
                                  bridge |-> None, seen |-> None, turn |-> None]]
    /\ chan = [b \in Bridge |-> [ready |-> None, done |-> NoResult, closed |-> FALSE]]
    /\ loop = [l \in Starters |-> NoLoop]
    /\ ckpt = [intr |-> None, items |-> << >>, deleted |-> FALSE]
    /\ panicked = FALSE
    /\ replies = {}
    /\ resumed = {}

-----------------------------------------------------------------------------
(* Requests: arrival, and the steps of the handlers outside the stream.    *)

Finished == {"done", "preempted", "timeout", "rejected"}

InTurn(l) == loop[l].st \in {"snap", "send", "await"}
AtRest(l) == loop[l].st \in {"none", "idle", "exited"}

\* "any": a client may send a request at any time.  "streaming": it leaves alone
\* the requests it has not seen to answer yet, and may interrupt an answer it sees.
\* "calm": it does that only to stop the session, and asks or approves at rest.
MayArrive(h) ==
    /\ req[h].pc = "idle"
    /\ Pace # "any" =>
          \A g \in Requests \ {h} : req[g].pc \in {"idle", "stream"} \cup Finished
    /\ (Pace = "calm" /\ h \in Starters) =>
          /\ \A g \in Requests : req[g].pc # "stream"
          /\ \A l \in Starters : AtRest(l)

Live(l) == loop[l].stop = "no" /\ loop[l].st \notin {"none", "exiting", "exited"}

\* TurnLoop.Push on an open loop; WithPreempt asks to cancel the turn in progress.
Pushed(l, item, withPreempt) ==
    [loop[l] EXCEPT !.queue = Append(@, item),
                    !.preempt = @ \/ (withPreempt /\ InTurn(l))]

\* TurnLoop.Stop(WithImmediate()).
StoppedNow(l) == [loop[l] EXCEPT !.stop = "immediate", !.ctxDone = TRUE]

\* if ts.handlerDone != nil { close(ts.handlerDone) }
CloseHandlerDone(b) ==
    IF b = None THEN UNCHANGED <<chan, panicked>>
    ELSE /\ chan' = [chan EXCEPT ![b].closed = TRUE]
         /\ panicked' = (panicked \/ chan[b].closed)

OldBridge(g, b) == ts
\* ts.iterReady, ts.iterDone, ts.handlerDone = make(...), make(...), make(...)
NewBridge(g, b) == [ts EXCEPT ![g].bridge = b]

\* A new loop and a new bridge take the session's turn state over.
TakeOver(h, b) == [loop |-> h, bridge |-> b]

Enter(h) ==
    /\ h \in Chats
    /\ MayArrive(h)
    /\ req' = [req EXCEPT ![h] = [@ EXCEPT !.pc = "enter", !.sess = sessGen]]
    /\ UNCHANGED <<storeVars, tsVars, chan, loop, ckpt, panicked, replies, resumed>>

\* ts := s.getTurnState(id); the lock on it is taken later.
Lookup(h) ==
    /\ h \in Starters
    /\ req[h].pc = "enter"
    /\ req' = [req EXCEPT ![h] = [@ EXCEPT !.pc = "lock", !.ts = tsGen]]
    /\ UNCHANGED <<storeVars, tsVars, chan, loop, ckpt, panicked, replies, resumed>>

\* There is a loop: make its handler bail, and put a bridge of our own in place.
ChatSupersede(h) ==
    LET g == req[h].ts
    IN  /\ h \in Chats
        /\ req[h].pc = "lock"
        /\ ts[g].loop # None
        /\ CloseHandlerDone(ts[g].bridge)
        /\ ts' = NewBridge(g, <<h, 1>>)
        /\ req' = [req EXCEPT ![h] = [@ EXCEPT !.pc = "push", !.loop = ts[g].loop,
                                                 !.bridge = <<h, 1>>]]
        /\ UNCHANGED <<storeVars, tsGen, loop, ckpt, replies, resumed>>

ChatNewLoop(h) ==
    LET g == req[h].ts
    IN  /\ h \in Chats
        /\ req[h].pc = "lock"
        /\ ts[g].loop = None
        /\ ts' = [ts EXCEPT ![g] = TakeOver(h, <<h, 1>>)]
        /\ loop' = [loop EXCEPT ![h].st = "made"]
        /\ req' = [req EXCEPT ![h] = [@ EXCEPT !.pc = "start", !.loop = h, !.bridge = <<h, 1>>]]
        /\ UNCHANGED <<storeVars, tsGen, chan, ckpt, panicked, replies, resumed>>

\* Push outside the lock: the loop may have stopped in between.
ChatPush(h) ==
    LET l == req[h].loop
    IN  /\ h \in Chats
        /\ req[h].pc = "push"
        /\ IF Live(l)
           THEN /\ loop' = [loop EXCEPT ![l] = Pushed(l, h, TRUE)]
                /\ req' = [req EXCEPT ![h].pc = "wait"]
           ELSE /\ req' = [req EXCEPT ![h].pc = "dead"]
                /\ UNCHANGED loop
        /\ UNCHANGED <<storeVars, tsVars, chan, ckpt, panicked, replies, resumed>>

\* The loop was dead: a new one replaces whatever the turn state holds by now.
ChatReplaceDead(h) ==
    LET g == req[h].ts
    IN  /\ h \in Chats
        /\ req[h].pc = "dead"
        /\ ts' = [ts EXCEPT ![g] = TakeOver(h, <<h, 2>>)]
        /\ loop' = [loop EXCEPT ![h].st = "made"]
        /\ req' = [req EXCEPT ![h] = [@ EXCEPT !.pc = "start", !.loop = h, !.bridge = <<h, 2>>]]
        /\ UNCHANGED <<storeVars, tsGen, chan, ckpt, panicked, replies, resumed>>

\* loop.Push(item); loop.Run(ctx): on a loop stopped meanwhile both come to nothing.
Start(h) ==
    /\ h \in Starters
    /\ req[h].pc = "start"
    /\ loop' = [loop EXCEPT ![h] = IF Live(h) THEN [Pushed(h, h, FALSE) EXCEPT !.st = "load"]
                                              ELSE [@ EXCEPT !.st = "exited"]]
    /\ req' = [req EXCEPT ![h].pc = "wait"]
    /\ UNCHANGED <<storeVars, tsVars, chan, ckpt, panicked, replies, resumed>>

-----------------------------------------------------------------------------
(* Both kinds of handler wait for an envelope, stream, and reply.          *)

Receive(h) ==
    LET b == req[h].bridge
    IN  /\ h \in Starters
        /\ req[h].pc = "wait"
        /\ chan[b].ready # None
        /\ chan' = [chan EXCEPT ![b].ready = None]
        /\ req' = [req EXCEPT ![h] = [@ EXCEPT !.pc = "stream", !.turn = chan[b].ready]]
        /\ UNCHANGED <<storeVars, tsVars, loop, ckpt, panicked, replies, resumed>>

Bail(h) ==
    /\ h \in Starters
    /\ req[h].pc = "wait"
    /\ chan[req[h].bridge].closed
    /\ req' = [req EXCEPT ![h].pc = "preempted"]
    /\ UNCHANGED <<storeVars, tsVars, chan, loop, ckpt, panicked, replies, resumed>>

TimeOut(h) ==
    /\ Timeouts
    /\ h \in Starters
    /\ req[h].pc = "wait"
    /\ req' = [req EXCEPT ![h].pc = "timeout"]
    /\ UNCHANGED <<storeVars, tsVars, chan, loop, ckpt, panicked, replies, resumed>>

\* The stream of a turn that was cancelled, or has ended meanwhile, may fail.
Cancelled(t) == \A l \in Starters : (loop[l].turn = t) => loop[l].ctxDone

SessionReplyChannel(h) == ts[req[h].ts].bridge
\* envelope.done, the channel that came with the events
ReplyChannel(h) == req[h].bridge

StreamEnd(h) ==
    /\ h \in Starters
    /\ req[h].pc = "stream"
    /\ \E k \in StreamEnds \cup (IF Cancelled(req[h].turn) THEN {"err"} ELSE {}) :
           chan' = [chan EXCEPT ![ReplyChannel(h)].done = [turn |-> req[h].turn, kind |-> k]]
    /\ req' = [req EXCEPT ![h].pc = "done"]
    /\ UNCHANGED <<storeVars, tsVars, loop, ckpt, panicked, replies, resumed>>

-----------------------------------------------------------------------------
(* Approvals: the pending interrupt is read, then the body, then cleared.  *)

ApproveRead(h) ==
    /\ h \in Approves
    /\ MayArrive(h)
    /\ \/ /\ sess[sessGen].pending # None
          /\ req' = [req EXCEPT ![h] = [@ EXCEPT !.pc = "clear", !.sess = sessGen,
                                                   !.seen = sess[sessGen].pending]]
       \/ req' = [req EXCEPT ![h].pc = "rejected"]   \* nothing pending, or a bad body
    /\ UNCHANGED <<storeVars, tsVars, chan, loop, ckpt, panicked, replies, resumed>>

ApproveClear(h) ==
    /\ h \in Approves
    /\ req[h].pc = "clear"
    /\ sess' = [sess EXCEPT ![req[h].sess].pending = None]
    /\ req' = [req EXCEPT ![h].pc = "enter"]
    /\ UNCHANGED <<sessGen, tsVars, chan, loop, ckpt, panicked, replies, resumed>>

ApproveNewLoop(h) ==
    LET g == req[h].ts
        old == ts[g].loop
    IN  /\ h \in Approves
        /\ req[h].pc = "lock"
        /\ CloseHandlerDone(ts[g].bridge)
        /\ loop' = [l \in Starters |->
                       IF l = h THEN [loop[h] EXCEPT !.st = "made"]
                       ELSE IF l = old THEN StoppedNow(l) ELSE loop[l]]
        /\ ts' = [ts EXCEPT ![g] = TakeOver(h, <<h, 1>>)]
        /\ req' = [req EXCEPT ![h] = [@ EXCEPT !.pc = "start", !.loop = h, !.bridge = <<h, 1>>]]
        /\ UNCHANGED <<storeVars, tsGen, ckpt, replies, resumed>>

-----------------------------------------------------------------------------
(* Abort and deletion.                                                     *)

AbortTake(h) ==
    /\ h \in Aborts
    /\ MayArrive(h)
    /\ ts' = [ts EXCEPT ![tsGen].loop = None]
    /\ req' = [req EXCEPT ![h] = [@ EXCEPT
              !.pc = IF ts[tsGen].loop = None THEN "done" ELSE "stop",
              !.loop = ts[tsGen].loop]]
    /\ UNCHANGED <<storeVars, tsGen, chan, loop, ckpt, panicked, replies, resumed>>

AbortStop(h) ==
    /\ h \in Aborts
    /\ req[h].pc = "stop"
    /\ loop' = [loop EXCEPT ![req[h].loop] = StoppedNow(req[h].loop)]
    /\ req' = [req EXCEPT ![h].pc = "join"]
    /\ UNCHANGED <<storeVars, tsVars, chan, ckpt, panicked, replies, resumed>>

AbortJoin(h) ==
    /\ h \in Aborts
    /\ req[h].pc = "join"
    /\ loop[req[h].loop].st = "exited"
    /\ req' = [req EXCEPT ![h].pc = "done"]
    /\ UNCHANGED <<storeVars, tsVars, chan, loop, ckpt, panicked, replies, resumed>>

DeleteStop(h) ==
    LET l == ts[tsGen].loop
    IN  /\ h \in Deletes
        /\ MayArrive(h)
        /\ loop' = IF l = None THEN loop ELSE [loop EXCEPT ![l] = StoppedNow(l)]
        /\ ts' = [ts EXCEPT ![tsGen].loop = None]
        /\ req' = [req EXCEPT ![h].pc = "drop"]
        /\ UNCHANGED <<storeVars, tsGen, chan, ckpt, panicked, replies, resumed>>

DeleteStore(h) ==
    /\ h \in Deletes
    /\ req[h].pc = "drop"
    /\ sessGen' = h
    /\ req' = [req EXCEPT ![h].pc = "forget"]
    /\ UNCHANGED <<sess, tsVars, chan, loop, ckpt, panicked, replies, resumed>>

DeleteState(h) ==
    /\ h \in Deletes
    /\ req[h].pc = "forget"
    /\ tsGen' = h
    /\ req' = [req EXCEPT ![h].pc = "done"]
    /\ UNCHANGED <<storeVars, ts, chan, loop, ckpt, panicked, replies, resumed>>

-----------------------------------------------------------------------------
(* The session's loop: adk.TurnLoop calling GenInput, GenResume and        *)
(* OnAgentEvents.                                                          *)

\* deleteCheckpointStore.Get: a tombstone hides what the inner store holds.
CkptGet == IF ckpt.deleted THEN None ELSE ckpt.intr
CkptSetUnderTombstone(intr, items) == [ckpt EXCEPT !.intr = intr, !.items = items]
\* deleteCheckpointStore.Set lifts the tombstone.
CkptSet(intr, items) == [intr |-> intr, items |-> items, deleted |-> FALSE]
CkptKeep == ckpt
CkptDelete == [ckpt EXCEPT !.deleted = TRUE]

Positions(items, Kind) == {k \in 1..Len(items) : items[k] \in Kind}
IsFirst(k, K) == k \in K /\ \A j \in K : k <= j
Without(items, k) == SubSeq(items, 1, k - 1) \o SubSeq(items, k + 1, Len(items))

\* The target of the resume: the interrupt the approval item names.
ResumeTarget(l, a) == req[a].seen

FreshTurn(l, t, rest) ==
    [loop[l] EXCEPT !.st = "snap", !.turn = t, !.queue = rest, !.bridge = None,
                    !.preempt = FALSE, !.ctxDone = FALSE]

\* Run finds no checkpoint (or the loop is stopped already): the loop idles.
LoopPlain(l) ==
    /\ loop[l].st = "load"
    /\ CkptGet = None \/ loop[l].stop # "no"
    /\ loop' = [loop EXCEPT ![l].st = "idle"]
    /\ UNCHANGED <<storeVars, tsVars, req, chan, ckpt, panicked, replies, resumed>>

\* Run finds a checkpoint: GenResume takes the first approval of the new items and
\* leaves the loop with the unhandled items of the checkpoint; the other new items
\* are neither consumed nor remaining.
LoopResume(l) ==
    LET items == loop[l].queue
    IN  /\ loop[l].st = "load"
        /\ loop[l].stop = "no"
        /\ CkptGet # None
        /\ \E k \in 1..Len(items) :
              /\ IsFirst(k, Positions(items, Approves))
              /\ loop' = [loop EXCEPT ![l] = [FreshTurn(l, items[k], ckpt.items)
                                                 EXCEPT !.loaded = TRUE]]
              /\ resumed' = resumed \cup {<<CkptGet, ResumeTarget(l, items[k])>>}
        /\ UNCHANGED <<storeVars, tsVars, req, chan, ckpt, panicked, replies>>

\* GenResume finds no approval, and its error ends the loop.
LoopResumeFails(l) ==
    /\ loop[l].st = "load"
    /\ loop[l].stop = "no"
    /\ CkptGet # None
    /\ Positions(loop[l].queue, Approves) = {}
    /\ loop' = [loop EXCEPT ![l].st = "exiting"]
    /\ UNCHANGED <<storeVars, tsVars, req, chan, ckpt, panicked, replies, resumed>>

\* GenInput takes the first query and persists it as the user's message.
LoopGenInput(l) ==
    LET items == loop[l].queue
    IN  /\ loop[l].st = "idle"
        /\ loop[l].stop = "no"
        /\ \E k \in 1..Len(items) :
              /\ IsFirst(k, Positions(items, Chats))
              /\ loop' = [loop EXCEPT ![l] = FreshTurn(l, items[k], Without(items, k))]
              /\ sess' = [sess EXCEPT ![req[l].sess].history =
                                         Append(@, <<"user", items[k]>>)]
        /\ UNCHANGED <<sessGen, tsVars, req, chan, ckpt, panicked, replies, resumed>>

\* GenInput without a query stops the loop; the turn it was asked for may still run.
LoopNoQuery(l) ==
    /\ loop[l].st = "idle"
    /\ loop[l].stop = "no"
    /\ loop[l].queue # << >>
    /\ Positions(loop[l].queue, Chats) = {}
    /\ \E st \in {"snap", "exiting"} :
           loop' = [loop EXCEPT ![l] =
                       [FreshTurn(l, IF st = "snap" THEN Head(@.queue) ELSE None, @.queue)
                           EXCEPT !.st = st, !.stop = "boundary"]]
    /\ UNCHANGED <<storeVars, tsVars, req, chan, ckpt, panicked, replies, resumed>>

LoopIdleStop(l) ==
    /\ loop[l].st = "idle"
    /\ loop[l].stop # "no"
    /\ loop' = [loop EXCEPT ![l].st = "exiting"]
    /\ UNCHANGED <<storeVars, tsVars, req, chan, ckpt, panicked, replies, resumed>>

\* A requested preemption reaches its safe point: the turn's context is cancelled.
LoopPreempt(l) ==
    /\ InTurn(l)
    /\ loop[l].preempt
    /\ ~loop[l].ctxDone
    /\ loop' = [loop EXCEPT ![l].ctxDone = TRUE]
    /\ UNCHANGED <<storeVars, tsVars, req, chan, ckpt, panicked, replies, resumed>>

-----------------------------------------------------------------------------
(* OnAgentEvents                                                           *)

\* getTurnState(sessionID) anew, then the channels under its lock.
CurrentBridge(l) == ts[tsGen].bridge

TurnSnapshot(l) ==
    /\ loop[l].st = "snap"
    /\ loop' = [loop EXCEPT ![l] = [@ EXCEPT !.st = "send", !.bridge = CurrentBridge(l)]]
    /\ UNCHANGED <<storeVars, tsVars, req, chan, ckpt, panicked, replies, resumed>>

TurnSend(l) ==
    LET b == loop[l].bridge
    IN  /\ loop[l].st = "send"
        /\ b # None              \* a send on a nil channel blocks
        /\ chan[b].ready = None  \* capacity 1
        /\ chan' = [chan EXCEPT ![b].ready = loop[l].turn]
        /\ loop' = [loop EXCEPT ![l].st = "await"]
        /\ UNCHANGED <<storeVars, tsVars, req, ckpt, panicked, replies, resumed>>

\* Where a loop is after a turn that did not end in an error of its own.
AfterTurn(l) == IF loop[l].stop = "no" THEN "idle" ELSE "exiting"

CtxDoneBeforeStream(l) == loop[l].st = "send" /\ loop[l].ctxDone
\* case <-ctx.Done(), in both of the callback's selects
CtxDone(l) == loop[l].st \in {"send", "await"} /\ loop[l].ctxDone

TurnCancelled(l) ==
    /\ CtxDone(l)
    /\ loop' = [loop EXCEPT ![l] = [@ EXCEPT !.st = AfterTurn(l), !.turn = None]]
    /\ UNCHANGED <<storeVars, tsVars, req, chan, ckpt, panicked, replies, resumed>>

\* case result = <-done.  /approve sends no intermediates, so nothing of a
\* resumed turn is persisted.
TurnResult(l) ==
    LET b == loop[l].bridge
        r == chan[b].done
        g == req[l].sess
    IN  /\ loop[l].st = "await"
        /\ r # NoResult
        /\ chan' = [chan EXCEPT ![b].done = NoResult]
        /\ sess' = [sess EXCEPT
              ![g].history = IF b[1] \in Chats THEN Append(@, <<"answer", r.turn>>) ELSE @,
              ![g].pending = IF r.kind = "intr" THEN r.turn ELSE @]
        /\ loop' = [loop EXCEPT ![l] = [@ EXCEPT
              !.turn = None,
              !.save = IF r.kind = "intr" THEN loop[l].turn ELSE None,
              !.st = IF r.kind = "intr" \/ (r.kind = "err" /\ ~loop[l].ctxDone)
                     THEN "exiting" ELSE AfterTurn(l)]]
        /\ replies' = replies \cup {<<loop[l].turn, r.turn>>}
        /\ UNCHANGED <<sessGen, tsVars, req, ckpt, panicked, resumed>>

\* The loop saves an interrupted turn with the unhandled items, or deletes a
\* checkpoint it has resumed; only then do Wait and the cleanup goroutine see it exit.
LoopExit(l) ==
    /\ loop[l].st = "exiting"
    /\ ckpt' = IF loop[l].save # None THEN CkptSet(loop[l].save, loop[l].queue)
               ELSE IF loop[l].loaded THEN CkptDelete ELSE ckpt
    /\ loop' = [loop EXCEPT ![l].st = "exited"]
    /\ UNCHANGED <<storeVars, tsVars, req, chan, panicked, replies, resumed>>

ForgetNothing(l) == ts
ForgetLoop(l) == [ts EXCEPT ![req[l].ts].loop = None]

IsAnyLoop(l) == ts[req[l].ts].loop # None
IsSessionLoop(l) == ts[req[l].ts].loop = l

\* The goroutine of startLoopCleanup.
Cleanup(l) ==
    /\ loop[l].st = "exited"
    /\ IsSessionLoop(l)
    /\ ts' = ForgetLoop(l)
    /\ UNCHANGED <<storeVars, tsGen, req, chan, loop, ckpt, panicked, replies, resumed>>

-----------------------------------------------------------------------------
HandlerStep(h) ==
    \/ Lookup(h) \/ ChatSupersede(h) \/ ChatNewLoop(h) \/ ChatPush(h) \/ ChatReplaceDead(h)
    \/ Start(h) \/ Receive(h) \/ Bail(h) \/ TimeOut(h) \/ StreamEnd(h)
    \/ ApproveClear(h) \/ ApproveNewLoop(h)
    \/ AbortStop(h) \/ AbortJoin(h)
    \/ DeleteStore(h) \/ DeleteState(h)

Arrival(h) == Enter(h) \/ ApproveRead(h) \/ AbortTake(h) \/ DeleteStop(h)

LoopStep(l) ==
    \/ LoopPlain(l) \/ LoopResume(l) \/ LoopResumeFails(l) \/ LoopGenInput(l)
    \/ LoopNoQuery(l) \/ LoopIdleStop(l) \/ LoopPreempt(l)
    \/ TurnSnapshot(l) \/ TurnSend(l) \/ TurnCancelled(l) \/ TurnResult(l)
    \/ LoopExit(l) \/ Cleanup(l)

Next ==
    \/ \E h \in Requests : Arrival(h) \/ HandlerStep(h)
    \/ \E l \in Starters : LoopStep(l)

Spec == Init /\ [][Next]_vars

\* Every handler and loop goroutine is scheduled, every event stream ends; no
\* client has to send anything.
FairSpec ==
    /\ Spec
    /\ \A h \in Requests : WF_vars(HandlerStep(h))
    /\ \A l \in Starters : WF_vars(LoopStep(l))

-----------------------------------------------------------------------------
(* Properties                                                              *)

Session == [pending : Starters \cup {None},
            history : Seq({"user", "answer"} \X Starters)]
TurnState == [loop : Starters \cup {None}, bridge : Bridge \cup {None}]
Handler == [pc : {"idle", "enter", "lock", "push", "dead", "start", "wait", "stream", "clear",
                  "stop", "join", "drop", "forget", "done", "preempted", "timeout", "rejected"},
            sess : Gens, ts : Gens, loop : Starters \cup {None}, bridge : Bridge \cup {None},
            seen : Starters \cup {None}, turn : Starters \cup {None}]
Result == [turn : Starters, kind : {"ok", "intr", "err"}] \cup {NoResult}
Channels == [ready : Starters \cup {None}, done : Result, closed : BOOLEAN]
TurnLoop == [st : {"none", "made", "load", "idle", "snap", "send", "await",
                   "exiting", "exited"},
             queue : Seq(Starters), stop : {"no", "boundary", "immediate"},
             turn : Starters \cup {None}, bridge : Bridge \cup {None}, preempt : BOOLEAN,
             ctxDone : BOOLEAN, save : Starters \cup {None}, loaded : BOOLEAN]
Checkpoint == [intr : Starters \cup {None}, items : Seq(Starters), deleted : BOOLEAN]

\* Types of the state.
TypeOK ==
    /\ sessGen \in Gens
    /\ sess \in [Gens -> Session]
    /\ tsGen \in Gens
    /\ ts \in [Gens -> TurnState]
    /\ req \in [Requests -> Handler]
    /\ chan \in [Bridge -> Channels]
    /\ loop \in [Starters -> TurnLoop]
    /\ ckpt \in Checkpoint
    /\ panicked \in BOOLEAN
    /\ replies \in SUBSET (Starters \X Starters)
    /\ resumed \in SUBSET ((Starters \cup {None}) \X (Starters \cup {None}))

\* However many requests race for a session, no handlerDone channel is closed
\* twice: that would panic the handler.
NoDoubleClose == ~panicked

\* server.go:130-131, 412: a handler's result reaches the OnAgentEvents call
\* whose events it has streamed, never another turn's.
ReplyToOwnTurn == \A p \in replies : p[1] = p[2]

\* ch11_turnloop.md:81: a session has one TurnLoop (one that an abort has taken and
\* is about to stop does not count).
BeingAborted(l) == \E h \in Aborts : req[h].pc = "stop" /\ req[h].loop = l
OneLiveLoop == Cardinality({l \in Starters : Live(l) /\ ~BeingAborted(l)}) <= 1

\* server.go:363-365, 615-617: an answer is persisted once, and after its own
\* question, before the next one.
HistoryInOrder ==
    \A g \in Gens : LET h == sess[g].history IN
        \A k \in 1..Len(h) : h[k][1] = "answer" =>
            /\ k > 1
            /\ h[k - 1] = <<"user", h[k][2]>>

\* server.go:460: a second approval of the same interrupt is refused.
ApprovedOnce ==
    \A a, b \in Approves :
        (req[a].seen # None /\ req[a].seen = req[b].seen) => a = b

\* server.go:572-574: the interrupt of an earlier loop is there for the loop of
\* an accepted approval to resume, and a checkpoint is only ever resumed with the
\* decision on its own interrupt.
ApprovalResumes ==
    /\ \A p \in resumed : p[1] = p[2]
    /\ \A a \in Approves :
        (loop[a].st \in {"idle", "exited"} /\ loop[a].stop # "immediate") =>
            \E p \in resumed : p[2] = req[a].seen

Quiet ==
    /\ \A h \in Requests : req[h].pc \in {"idle"} \cup Finished
    /\ \A l \in Starters : AtRest(l)

\* When nothing is going on, an approval that the session still offers has its
\* checkpoint to resume; and a checkpoint left behind by loops that are all gone is
\* one the session still offers to approve.  (Otherwise every later /chat would find
\* it, and fail in GenResume.)
PendingMatchesCheckpoint ==
    Quiet =>
        /\ sess[sessGen].pending # None => CkptGet = sess[sessGen].pending
        /\ (\A l \in Starters : loop[l].st \in {"none", "exited"}) /\ CkptGet # None
              => sess[sessGen].pending # None

\* Every request is answered.
RequestsFinish == \A h \in Requests : (req[h].pc # "idle") ~> (req[h].pc \in Finished)

\* server.go:668-671: a turn that is preempted or stopped ends, also when the handler that
\* was to stream it has bailed out, has timed out, or never was.
PreemptedTurnsEnd ==
    \A l \in Starters : InTurn(l) /\ (loop[l].preempt \/ loop[l].ctxDone) ~> ~InTurn(l)

\* server.go:161-164: no dead loop stays the session's loop.
DeadLoopForgotten ==
    \A l \in Starters, g \in Gens :
        (ts[g].loop = l /\ loop[l].st = "exited") ~> (ts[g].loop # l)

\* The abstract specification: the turn of the loop that runs one, and the interrupt of
\* the approval whose loop has not resumed it yet.
Turns == {l \in Starters : InTurn(l)}
Turn == IF Turns = {} THEN None ELSE loop[CHOOSE l \in Turns : TRUE].turn
Granting(a) == req[a].pc \in {"enter", "lock"} \/ loop[a].st \in {"made", "load"}
Grants == {a \in Approves : Granting(a)}
Granted == IF Grants = {} THEN None ELSE req[CHOOSE a \in Grants : TRUE].seen

Contract == INSTANCE SessionContract WITH
                turn <- Turn, granted <- Granted,
                history <- sess[sessGen].history, pending <- sess[sessGen].pending

\* server.go:363-365, 460, 572-574, 615-617: for clients that let the session come to
\* rest, the handlers, loops and channels of a session keep its contract: an interrupt is
\* decided about once, and the decision resumes it before anything else happens.
KeepsContract == Contract!Spec
=============================================================================
