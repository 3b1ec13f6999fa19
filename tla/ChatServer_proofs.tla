-------------------------- MODULE ChatServer_proofs --------------------------
(***************************************************************************)
(* Theorems about ChatServer, for any number of requests of every kind and *)
(* any number of deletions: type correctness, and that no handlerDone      *)
(* channel is closed twice, at any pace of the clients; that a session has *)
(* one live loop, for clients that wait for their answers to start; for    *)
(* such clients' questions, aborts and deletions, that a result reaches    *)
(* the turn it is about and that histories are in order; and for calm      *)
(* clients' questions, approvals and aborts, that approvals resume and     *)
(* that what a session offers is what its checkpoint store holds.          *)
(***************************************************************************)
EXTENDS ChatServer, FiniteSetTheorems, TLAPS

MaybeLoop == Starters \cup {None}
MaybeBridge == Bridge \cup {None}

\* What a handler or a loop has in hand when its program counter says so: the
\* part of the state's shape that TypeOK, with its None everywhere, leaves open.
HandlerShape ==
    \A h \in Starters :
        /\ req[h].pc \in {"push", "start", "wait", "stream"} => req[h].bridge \in Bridge
        /\ req[h].pc = "stream" => req[h].turn \in Starters

LoopShape ==
    \A l \in Starters :
        /\ InTurn(l) => loop[l].turn \in Starters
        /\ loop[l].st = "await" => loop[l].bridge \in Bridge

TypeInv == TypeOK /\ HandlerShape /\ LoopShape

LEMMA Names ==
  /\ \A h \in Starters : <<h, 1>> \in Bridge /\ <<h, 2>> \in Bridge
  /\ Starters \subseteq Requests
  /\ Chats \subseteq Starters /\ Approves \subseteq Starters
  /\ Aborts \subseteq Requests /\ Deletes \subseteq Requests
  /\ Deletes \subseteq Gens /\ None \in Gens
  /\ None \notin Requests /\ None \notin Bridge /\ None \notin Starters
  BY ChatAssumption DEF Bridge, Starters, Requests, Gens

\* The types of the fields, read off TypeOK once and for all.
LEMMA Fields ==
  ASSUME TypeOK
  PROVE  /\ \A g \in Gens : /\ ts[g].loop \in MaybeLoop
                            /\ ts[g].bridge \in MaybeBridge
                            /\ sess[g].pending \in MaybeLoop
                            /\ sess[g].history \in Seq({"user", "answer"} \X Starters)
         /\ \A h \in Requests : /\ req[h].sess \in Gens
                                /\ req[h].ts \in Gens
                                /\ req[h].loop \in MaybeLoop
                                /\ req[h].bridge \in MaybeBridge
                                /\ req[h].seen \in MaybeLoop
                                /\ req[h].turn \in MaybeLoop
         /\ \A b \in Bridge : /\ chan[b].ready \in MaybeLoop
                              /\ chan[b].done \in Result
                              /\ chan[b].closed \in BOOLEAN
         /\ \A l \in Starters : /\ loop[l].queue \in Seq(Starters)
                                /\ loop[l].turn \in MaybeLoop
                                /\ loop[l].bridge \in MaybeBridge
                                /\ loop[l].stop \in {"no", "boundary", "immediate"}
                                /\ loop[l].preempt \in BOOLEAN
                                /\ loop[l].ctxDone \in BOOLEAN
                                /\ loop[l].save \in MaybeLoop
         /\ ckpt.intr \in MaybeLoop
         /\ ckpt.items \in Seq(Starters)
<1>1. \A g \in Gens : ts[g].loop \in MaybeLoop /\ ts[g].bridge \in MaybeBridge
  BY DEF TypeOK, TurnState, MaybeLoop, MaybeBridge
<1>2. \A g \in Gens : /\ sess[g].pending \in MaybeLoop
                      /\ sess[g].history \in Seq({"user", "answer"} \X Starters)
  BY DEF TypeOK, Session, MaybeLoop
<1>3. \A h \in Requests : /\ req[h].sess \in Gens
                          /\ req[h].ts \in Gens
                          /\ req[h].loop \in MaybeLoop
                          /\ req[h].bridge \in MaybeBridge
                          /\ req[h].seen \in MaybeLoop
                          /\ req[h].turn \in MaybeLoop
  BY DEF TypeOK, Handler, MaybeLoop, MaybeBridge
<1>4. \A b \in Bridge : /\ chan[b].ready \in MaybeLoop
                        /\ chan[b].done \in Result
                        /\ chan[b].closed \in BOOLEAN
  BY DEF TypeOK, Channels, MaybeLoop
<1>5. \A l \in Starters : /\ loop[l].queue \in Seq(Starters)
                          /\ loop[l].turn \in MaybeLoop
                          /\ loop[l].bridge \in MaybeBridge
                          /\ loop[l].stop \in {"no", "boundary", "immediate"}
                          /\ loop[l].preempt \in BOOLEAN
                          /\ loop[l].ctxDone \in BOOLEAN
                          /\ loop[l].save \in MaybeLoop
  BY DEF TypeOK, TurnLoop, MaybeLoop, MaybeBridge
<1> QED
  BY <1>1, <1>2, <1>3, <1>4, <1>5 DEF TypeOK, Checkpoint, MaybeLoop

LEMMA InitType == ASSUME Init PROVE TypeInv
<1>1. sess \in [Gens -> Session]
  BY DEF Init, Session
<1>2. ts \in [Gens -> TurnState]
  BY DEF Init, TurnState
<1>3. req \in [Requests -> Handler]
  BY Names DEF Init, Handler
<1>4. chan \in [Bridge -> Channels]
  BY DEF Init, Channels, Result
<1>5. loop \in [Starters -> TurnLoop]
  BY DEF Init, TurnLoop, NoLoop
<1>6. ckpt \in Checkpoint
  BY DEF Init, Checkpoint
<1>7. HandlerShape /\ LoopShape
  BY Names DEF Init, HandlerShape, LoopShape, InTurn, NoLoop
<1> QED
  BY <1>1, <1>2, <1>3, <1>4, <1>5, <1>6, <1>7, Names DEF Init, TypeInv, TypeOK

-----------------------------------------------------------------------------
(* Records that the actions build have their types.                        *)

LEMMA CloseType ==
  ASSUME TypeOK, NEW b \in MaybeBridge, CloseHandlerDone(b)
  PROVE  /\ chan' \in [Bridge -> Channels]
         /\ panicked' \in BOOLEAN
<1>1. CASE b = None
  BY <1>1 DEF CloseHandlerDone, TypeOK
<1>2. CASE b # None
  <2>1. b \in Bridge
    BY <1>2 DEF MaybeBridge
  <2>2. chan' = [chan EXCEPT ![b].closed = TRUE] /\ panicked' = (panicked \/ chan[b].closed)
    BY <1>2 DEF CloseHandlerDone
  <2>3. chan' \in [Bridge -> Channels]
    BY <2>1, <2>2 DEF TypeOK, Channels
  <2>4. panicked' \in BOOLEAN
    BY <2>1, <2>2, Fields DEF TypeOK
  <2> QED
    BY <2>3, <2>4
<1> QED
  BY <1>1, <1>2

\* A handler's step that keeps its record's type and shape keeps everyone's.
LEMMA HandlerSet ==
  ASSUME TypeOK, HandlerShape, NEW h \in Requests, NEW r \in Handler,
         req' = [req EXCEPT ![h] = r],
         h \in Starters =>
            /\ r.pc \in {"push", "start", "wait", "stream"} => r.bridge \in Bridge
            /\ r.pc = "stream" => r.turn \in Starters
  PROVE  req' \in [Requests -> Handler] /\ HandlerShape'
<1>1. req' \in [Requests -> Handler]
  BY DEF TypeOK
<1>2. \A g \in Requests : req'[g] = IF g = h THEN r ELSE req[g]
  BY DEF TypeOK
<1> QED
  BY <1>1, <1>2, Names DEF HandlerShape

\* The same of a loop; where a request has no loop in hand, nothing is set.
LEMMA LoopSet ==
  ASSUME TypeOK, LoopShape, NEW l, NEW r,
         loop' = [loop EXCEPT ![l] = r],
         l \in Starters =>
            /\ r \in TurnLoop
            /\ r.st \in {"snap", "send", "await"} => r.turn \in Starters
            /\ r.st = "await" => r.bridge \in Bridge
  PROVE  loop' \in [Starters -> TurnLoop] /\ LoopShape'
<1>1. loop' \in [Starters -> TurnLoop]
  BY DEF TypeOK
<1>2. \A k \in Starters : loop'[k] = IF k = l THEN r ELSE loop[k]
  BY DEF TypeOK
<1> QED
  BY <1>1, <1>2, Names DEF LoopShape, InTurn

-----------------------------------------------------------------------------
(* One lemma per action.                                                   *)

LEMMA EnterType ==
  ASSUME TypeInv, NEW h \in Requests, Enter(h)
  PROVE  TypeInv'
<1> DEFINE r == [req[h] EXCEPT !.pc = "enter", !.sess = sessGen]
<1>1. r \in Handler /\ r.pc = "enter"
  BY DEF TypeInv, TypeOK, Handler, MaybeLoop, MaybeBridge
<1>2. req' = [req EXCEPT ![h] = r]
  BY DEF Enter, TypeInv, TypeOK
<1> HIDE DEF r
<1>3. req' \in [Requests -> Handler] /\ HandlerShape'
  BY <1>1, <1>2, HandlerSet DEF TypeInv
<1> QED
  BY <1>1, <1>2, <1>3 DEF Enter, TypeInv, TypeOK, LoopShape, InTurn, storeVars, tsVars

LEMMA LookupType ==
  ASSUME TypeInv, NEW h \in Requests, Lookup(h)
  PROVE  TypeInv'
<1> DEFINE r == [req[h] EXCEPT !.pc = "lock", !.ts = tsGen]
<1>1. r \in Handler /\ r.pc = "lock"
  BY DEF TypeInv, TypeOK, Handler, MaybeLoop, MaybeBridge
<1>2. req' = [req EXCEPT ![h] = r]
  BY DEF Lookup, TypeInv, TypeOK
<1> HIDE DEF r
<1>3. req' \in [Requests -> Handler] /\ HandlerShape'
  BY <1>1, <1>2, HandlerSet DEF TypeInv
<1> QED
  BY <1>1, <1>2, <1>3 DEF Lookup, TypeInv, TypeOK, LoopShape, InTurn, storeVars, tsVars

LEMMA ChatSupersedeType ==
  ASSUME TypeInv, NEW h \in Requests, ChatSupersede(h)
  PROVE  TypeInv'
<1>1. /\ req[h].ts \in Gens
      /\ ts[req[h].ts].bridge \in MaybeBridge
      /\ ts[req[h].ts].loop \in MaybeLoop
      /\ <<h, 1>> \in Bridge
  BY Fields, Names DEF TypeInv, ChatSupersede
<1> DEFINE r == [req[h] EXCEPT !.pc = "push", !.loop = ts[req[h].ts].loop, !.bridge = <<h, 1>>]
<1>2. r \in Handler /\ r.pc = "push" /\ r.bridge \in Bridge
  BY <1>1 DEF TypeInv, TypeOK, Handler, MaybeLoop, MaybeBridge
<1>3. req' = [req EXCEPT ![h] = r]
  BY DEF ChatSupersede, TypeInv, TypeOK
<1> HIDE DEF r
<1>4. req' \in [Requests -> Handler] /\ HandlerShape'
  BY <1>2, <1>3, HandlerSet DEF TypeInv
<1>5. chan' \in [Bridge -> Channels] /\ panicked' \in BOOLEAN
  BY <1>1, CloseType DEF ChatSupersede, TypeInv
<1>6. ts' \in [Gens -> TurnState]
  BY <1>1 DEF ChatSupersede, TypeInv, TypeOK, NewBridge, TurnState
<1> QED
  BY <1>1, <1>2, <1>3, <1>4, <1>5, <1>6
  DEF ChatSupersede, TypeInv, TypeOK, LoopShape, InTurn, storeVars, tsVars

LEMMA ChatNewLoopType ==
  ASSUME TypeInv, NEW h \in Requests, ChatNewLoop(h)
  PROVE  TypeInv'
<1>1. h \in Starters /\ <<h, 1>> \in Bridge /\ req[h].ts \in Gens
  BY Fields, Names DEF TypeInv, ChatNewLoop
<1> DEFINE r == [req[h] EXCEPT !.pc = "start", !.loop = h, !.bridge = <<h, 1>>]
<1>2. r \in Handler /\ r.pc = "start" /\ r.bridge \in Bridge
  BY <1>1 DEF TypeInv, TypeOK, Handler, MaybeLoop, MaybeBridge
<1>3. req' = [req EXCEPT ![h] = r]
  BY DEF ChatNewLoop, TypeInv, TypeOK
<1> HIDE DEF r
<1>4. req' \in [Requests -> Handler] /\ HandlerShape'
  BY <1>2, <1>3, HandlerSet DEF TypeInv
<1>5. ts' \in [Gens -> TurnState]
  BY <1>1 DEF ChatNewLoop, TypeInv, TypeOK, TakeOver, TurnState
<1> DEFINE q == [loop[h] EXCEPT !.st = "made"]
<1>6. q \in TurnLoop /\ q.st = "made"
  BY <1>1 DEF TypeInv, TypeOK, TurnLoop
<1>7. loop' = [loop EXCEPT ![h] = q]
  BY <1>1 DEF ChatNewLoop, TypeInv, TypeOK
<1> HIDE DEF q
<1>8. loop' \in [Starters -> TurnLoop] /\ LoopShape'
  BY <1>6, <1>7, LoopSet DEF TypeInv
<1> QED
  BY <1>1, <1>2, <1>3, <1>4, <1>5, <1>6, <1>7, <1>8
  DEF ChatNewLoop, TypeInv, TypeOK, storeVars, tsVars

LEMMA ChatReplaceDeadType ==
  ASSUME TypeInv, NEW h \in Requests, ChatReplaceDead(h)
  PROVE  TypeInv'
<1>1. h \in Starters /\ <<h, 2>> \in Bridge /\ req[h].ts \in Gens
  BY Fields, Names DEF TypeInv, ChatReplaceDead
<1> DEFINE r == [req[h] EXCEPT !.pc = "start", !.loop = h, !.bridge = <<h, 2>>]
<1>2. r \in Handler /\ r.pc = "start" /\ r.bridge \in Bridge
  BY <1>1 DEF TypeInv, TypeOK, Handler, MaybeLoop, MaybeBridge
<1>3. req' = [req EXCEPT ![h] = r]
  BY DEF ChatReplaceDead, TypeInv, TypeOK
<1> HIDE DEF r
<1>4. req' \in [Requests -> Handler] /\ HandlerShape'
  BY <1>2, <1>3, HandlerSet DEF TypeInv
<1>5. ts' \in [Gens -> TurnState]
  BY <1>1 DEF ChatReplaceDead, TypeInv, TypeOK, TakeOver, TurnState
<1> DEFINE q == [loop[h] EXCEPT !.st = "made"]
<1>6. q \in TurnLoop /\ q.st = "made"
  BY <1>1 DEF TypeInv, TypeOK, TurnLoop
<1>7. loop' = [loop EXCEPT ![h] = q]
  BY <1>1 DEF ChatReplaceDead, TypeInv, TypeOK
<1> HIDE DEF q
<1>8. loop' \in [Starters -> TurnLoop] /\ LoopShape'
  BY <1>6, <1>7, LoopSet DEF TypeInv
<1> QED
  BY <1>1, <1>2, <1>3, <1>4, <1>5, <1>6, <1>7, <1>8
  DEF ChatReplaceDead, TypeInv, TypeOK, storeVars, tsVars

LEMMA BailType ==
  ASSUME TypeInv, NEW h \in Requests, Bail(h)
  PROVE  TypeInv'
<1> DEFINE r == [req[h] EXCEPT !.pc = "preempted"]
<1>1. r \in Handler /\ r.pc = "preempted"
  BY DEF TypeInv, TypeOK, Handler, MaybeLoop, MaybeBridge
<1>2. req' = [req EXCEPT ![h] = r]
  BY DEF Bail, TypeInv, TypeOK
<1> HIDE DEF r
<1>3. req' \in [Requests -> Handler] /\ HandlerShape'
  BY <1>1, <1>2, HandlerSet DEF TypeInv
<1> QED
  BY <1>1, <1>2, <1>3 DEF Bail, TypeInv, TypeOK, LoopShape, InTurn, storeVars, tsVars

LEMMA TimeOutType ==
  ASSUME TypeInv, NEW h \in Requests, TimeOut(h)
  PROVE  TypeInv'
<1> DEFINE r == [req[h] EXCEPT !.pc = "timeout"]
<1>1. r \in Handler /\ r.pc = "timeout"
  BY DEF TypeInv, TypeOK, Handler, MaybeLoop, MaybeBridge
<1>2. req' = [req EXCEPT ![h] = r]
  BY DEF TimeOut, TypeInv, TypeOK
<1> HIDE DEF r
<1>3. req' \in [Requests -> Handler] /\ HandlerShape'
  BY <1>1, <1>2, HandlerSet DEF TypeInv
<1> QED
  BY <1>1, <1>2, <1>3 DEF TimeOut, TypeInv, TypeOK, LoopShape, InTurn, storeVars, tsVars

LEMMA ApproveClearType ==
  ASSUME TypeInv, NEW h \in Requests, ApproveClear(h)
  PROVE  TypeInv'
<1> DEFINE r == [req[h] EXCEPT !.pc = "enter"]
<1>1. r \in Handler /\ r.pc = "enter"
  BY DEF TypeInv, TypeOK, Handler, MaybeLoop, MaybeBridge
<1>2. req' = [req EXCEPT ![h] = r]
  BY DEF ApproveClear, TypeInv, TypeOK
<1> HIDE DEF r
<1>3. req' \in [Requests -> Handler] /\ HandlerShape'
  BY <1>1, <1>2, HandlerSet DEF TypeInv
<1>4. sess' \in [Gens -> Session]
  BY DEF ApproveClear, TypeInv, TypeOK, Session
<1> QED
  BY <1>1, <1>2, <1>3, <1>4
  DEF ApproveClear, TypeInv, TypeOK, LoopShape, InTurn, storeVars, tsVars

LEMMA AbortJoinType ==
  ASSUME TypeInv, NEW h \in Requests, AbortJoin(h)
  PROVE  TypeInv'
<1> DEFINE r == [req[h] EXCEPT !.pc = "done"]
<1>1. r \in Handler /\ r.pc = "done"
  BY DEF TypeInv, TypeOK, Handler, MaybeLoop, MaybeBridge
<1>2. req' = [req EXCEPT ![h] = r]
  BY DEF AbortJoin, TypeInv, TypeOK
<1> HIDE DEF r
<1>3. req' \in [Requests -> Handler] /\ HandlerShape'
  BY <1>1, <1>2, HandlerSet DEF TypeInv
<1> QED
  BY <1>1, <1>2, <1>3 DEF AbortJoin, TypeInv, TypeOK, LoopShape, InTurn, storeVars, tsVars

LEMMA DeleteStoreType ==
  ASSUME TypeInv, NEW h \in Requests, DeleteStore(h)
  PROVE  TypeInv'
<1> DEFINE r == [req[h] EXCEPT !.pc = "forget"]
<1>1. r \in Handler /\ r.pc = "forget"
  BY DEF TypeInv, TypeOK, Handler, MaybeLoop, MaybeBridge
<1>2. req' = [req EXCEPT ![h] = r]
  BY DEF DeleteStore, TypeInv, TypeOK
<1> HIDE DEF r
<1>3. req' \in [Requests -> Handler] /\ HandlerShape'
  BY <1>1, <1>2, HandlerSet DEF TypeInv
<1>4. sessGen' \in Gens
  BY Names DEF DeleteStore
<1> QED
  BY <1>1, <1>2, <1>3, <1>4 DEF DeleteStore, TypeInv, TypeOK, LoopShape, InTurn, storeVars, tsVars

LEMMA DeleteStateType ==
  ASSUME TypeInv, NEW h \in Requests, DeleteState(h)
  PROVE  TypeInv'
<1> DEFINE r == [req[h] EXCEPT !.pc = "done"]
<1>1. r \in Handler /\ r.pc = "done"
  BY DEF TypeInv, TypeOK, Handler, MaybeLoop, MaybeBridge
<1>2. req' = [req EXCEPT ![h] = r]
  BY DEF DeleteState, TypeInv, TypeOK
<1> HIDE DEF r
<1>3. req' \in [Requests -> Handler] /\ HandlerShape'
  BY <1>1, <1>2, HandlerSet DEF TypeInv
<1>4. tsGen' \in Gens
  BY Names DEF DeleteState
<1> QED
  BY <1>1, <1>2, <1>3, <1>4 DEF DeleteState, TypeInv, TypeOK, LoopShape, InTurn, storeVars, tsVars

LEMMA ReceiveType ==
  ASSUME TypeInv, NEW h \in Requests, Receive(h)
  PROVE  TypeInv'
<1>1. req[h].bridge \in Bridge /\ chan[req[h].bridge].ready \in Starters
  BY Fields, Names DEF TypeInv, Receive, HandlerShape, MaybeLoop
<1> DEFINE r == [req[h] EXCEPT !.pc = "stream", !.turn = chan[req[h].bridge].ready]
<1>2. r \in Handler /\ r.pc = "stream" /\ r.bridge \in Bridge /\ r.turn \in Starters
  BY <1>1 DEF TypeInv, TypeOK, Handler, MaybeLoop, MaybeBridge
<1>3. req' = [req EXCEPT ![h] = r]
  BY DEF Receive, TypeInv, TypeOK
<1> HIDE DEF r
<1>4. req' \in [Requests -> Handler] /\ HandlerShape'
  BY <1>2, <1>3, HandlerSet DEF TypeInv
<1>5. chan' \in [Bridge -> Channels]
  BY <1>1 DEF Receive, TypeInv, TypeOK, Channels
<1> QED
  BY <1>1, <1>2, <1>3, <1>4, <1>5
  DEF Receive, TypeInv, TypeOK, LoopShape, InTurn, storeVars, tsVars

LEMMA LoopRecords ==
  ASSUME TypeOK, NEW l \in Starters
  PROVE  /\ \A item \in Starters, p \in BOOLEAN :
              /\ Pushed(l, item, p) \in TurnLoop
              /\ Pushed(l, item, p).st = loop[l].st
              /\ Pushed(l, item, p).turn = loop[l].turn
              /\ Pushed(l, item, p).bridge = loop[l].bridge
         /\ /\ StoppedNow(l) \in TurnLoop
            /\ StoppedNow(l).st = loop[l].st
            /\ StoppedNow(l).turn = loop[l].turn
            /\ StoppedNow(l).bridge = loop[l].bridge
         /\ \A t \in MaybeLoop, rest \in Seq(Starters) :
              /\ FreshTurn(l, t, rest) \in TurnLoop
              /\ FreshTurn(l, t, rest).st = "snap"
              /\ FreshTurn(l, t, rest).turn = t
<1>1. loop[l] \in TurnLoop
  BY DEF TypeOK
<1>2. ASSUME NEW item \in Starters, NEW p \in BOOLEAN
      PROVE  /\ Pushed(l, item, p) \in TurnLoop
             /\ Pushed(l, item, p).st = loop[l].st
             /\ Pushed(l, item, p).turn = loop[l].turn
             /\ Pushed(l, item, p).bridge = loop[l].bridge
  <2> DEFINE q == Append(loop[l].queue, item)
             b == loop[l].preempt \/ (p /\ InTurn(l))
  <2>1. q \in Seq(Starters)
    BY <1>1 DEF TurnLoop
  <2>2. b \in BOOLEAN
    BY <1>1 DEF TurnLoop, InTurn
  <2>3. Pushed(l, item, p) = [loop[l] EXCEPT !.queue = q, !.preempt = b]
    BY <1>1 DEF Pushed, TurnLoop
  <2> HIDE DEF q, b
  <2> QED
    BY <1>1, <2>1, <2>2, <2>3 DEF TurnLoop
<1>3. /\ StoppedNow(l) \in TurnLoop
      /\ StoppedNow(l).st = loop[l].st
      /\ StoppedNow(l).turn = loop[l].turn
      /\ StoppedNow(l).bridge = loop[l].bridge
  BY <1>1 DEF StoppedNow, TurnLoop
<1>4. ASSUME NEW t \in MaybeLoop, NEW rest \in Seq(Starters)
      PROVE  /\ FreshTurn(l, t, rest) \in TurnLoop
             /\ FreshTurn(l, t, rest).st = "snap"
             /\ FreshTurn(l, t, rest).turn = t
  BY <1>1 DEF FreshTurn, TurnLoop, MaybeLoop
<1> QED
  BY <1>2, <1>3, <1>4

LEMMA ChatPushType ==
  ASSUME TypeInv, NEW h \in Requests, ChatPush(h)
  PROVE  TypeInv'
<1> DEFINE l == req[h].loop
           r(pc) == [req[h] EXCEPT !.pc = pc]
<1>1. h \in Starters /\ req[h].bridge \in Bridge
  BY Names DEF ChatPush, TypeInv, HandlerShape
<1>2. /\ r("wait") \in Handler /\ r("wait").pc = "wait" /\ r("wait").bridge = req[h].bridge
      /\ r("dead") \in Handler /\ r("dead").pc = "dead"
  BY DEF TypeInv, TypeOK, Handler
<1>3. \/ req' = [req EXCEPT ![h] = r("wait")] /\ loop' = [loop EXCEPT ![l] = Pushed(l, h, TRUE)]
      \/ req' = [req EXCEPT ![h] = r("dead")] /\ UNCHANGED loop
  BY DEF ChatPush, TypeInv, TypeOK
<1> HIDE DEF r
<1>4. req' \in [Requests -> Handler] /\ HandlerShape'
  BY <1>1, <1>2, <1>3, HandlerSet DEF TypeInv
<1> HIDE DEF l
<1>5. CASE loop' = [loop EXCEPT ![l] = Pushed(l, h, TRUE)]
  <2>1. l \in Starters =>
          /\ Pushed(l, h, TRUE) \in TurnLoop
          /\ Pushed(l, h, TRUE).st \in {"snap", "send", "await"}
             => Pushed(l, h, TRUE).turn \in Starters
          /\ Pushed(l, h, TRUE).st = "await" => Pushed(l, h, TRUE).bridge \in Bridge
    BY <1>1, LoopRecords DEF TypeInv, LoopShape, InTurn
  <2>2. loop' \in [Starters -> TurnLoop] /\ LoopShape'
    BY <1>5, <2>1, LoopSet DEF TypeInv
  <2> QED
    BY <1>4, <2>2 DEF ChatPush, TypeInv, TypeOK, storeVars, tsVars
<1>6. CASE UNCHANGED loop
  BY <1>4, <1>6 DEF ChatPush, TypeInv, TypeOK, LoopShape, InTurn, storeVars, tsVars
<1> QED
  BY <1>3, <1>5, <1>6

LEMMA StartType ==
  ASSUME TypeInv, NEW h \in Requests, Start(h)
  PROVE  TypeInv'
<1> DEFINE r == [req[h] EXCEPT !.pc = "wait"]
           q == IF Live(h) THEN [Pushed(h, h, FALSE) EXCEPT !.st = "load"]
                           ELSE [loop[h] EXCEPT !.st = "exited"]
<1>1. h \in Starters /\ req[h].bridge \in Bridge /\ loop[h] \in TurnLoop
  BY Names DEF Start, TypeInv, TypeOK, HandlerShape
<1>2. r \in Handler /\ r.pc = "wait" /\ r.bridge \in Bridge
  BY <1>1 DEF TypeInv, TypeOK, Handler
<1>3. req' = [req EXCEPT ![h] = r] /\ loop' = [loop EXCEPT ![h] = q]
  BY <1>1 DEF Start, TypeInv, TypeOK
<1>4. q \in TurnLoop /\ q.st \in {"load", "exited"}
  <2>1. Pushed(h, h, FALSE) \in TurnLoop
    BY <1>1, LoopRecords DEF TypeInv
  <2> QED
    BY <1>1, <2>1 DEF TurnLoop
<1> HIDE DEF r, q
<1>5. req' \in [Requests -> Handler] /\ HandlerShape'
  BY <1>2, <1>3, HandlerSet DEF TypeInv
<1>6. loop' \in [Starters -> TurnLoop] /\ LoopShape'
  BY <1>3, <1>4, LoopSet DEF TypeInv
<1> QED
  BY <1>5, <1>6 DEF Start, TypeInv, TypeOK, storeVars, tsVars

LEMMA StreamEndType ==
  ASSUME TypeInv, NEW h \in Requests, StreamEnd(h)
  PROVE  TypeInv'
<1> DEFINE r == [req[h] EXCEPT !.pc = "done"]
<1>1. req[h].turn \in Starters
  BY DEF StreamEnd, TypeInv, HandlerShape
<1>2. r \in Handler /\ r.pc = "done"
  BY DEF TypeInv, TypeOK, Handler
<1>3. req' = [req EXCEPT ![h] = r]
  BY DEF StreamEnd, TypeInv, TypeOK
<1> HIDE DEF r
<1>4. req' \in [Requests -> Handler] /\ HandlerShape'
  BY <1>2, <1>3, HandlerSet DEF TypeInv
<1>5. chan' \in [Bridge -> Channels]
  <2>1. PICK k \in {"ok", "intr", "err"} :
           chan' = [chan EXCEPT ![ReplyChannel(h)].done = [turn |-> req[h].turn, kind |-> k]]
    BY ChatAssumption DEF StreamEnd
  <2>2. [turn |-> req[h].turn, kind |-> k] \in Result
    BY <1>1 DEF Result
  <2> QED
    BY <2>1, <2>2 DEF TypeInv, TypeOK, Channels
<1> QED
  BY <1>4, <1>5 DEF StreamEnd, TypeInv, TypeOK, LoopShape, InTurn, storeVars, tsVars

LEMMA ApproveReadType ==
  ASSUME TypeInv, NEW h \in Requests, ApproveRead(h)
  PROVE  TypeInv'
<1> DEFINE r == [req[h] EXCEPT !.pc = "clear", !.sess = sessGen, !.seen = sess[sessGen].pending]
           q == [req[h] EXCEPT !.pc = "rejected"]
<1>1. sess[sessGen].pending \in MaybeLoop
  BY Fields DEF TypeInv, TypeOK
<1>2. r \in Handler /\ r.pc = "clear" /\ q \in Handler /\ q.pc = "rejected"
  BY <1>1 DEF TypeInv, TypeOK, Handler, MaybeLoop
<1>3. req' = [req EXCEPT ![h] = r] \/ req' = [req EXCEPT ![h] = q]
  BY DEF ApproveRead, TypeInv, TypeOK
<1> HIDE DEF r, q
<1>4. req' \in [Requests -> Handler] /\ HandlerShape'
  BY <1>2, <1>3, HandlerSet DEF TypeInv
<1> QED
  BY <1>4 DEF ApproveRead, TypeInv, TypeOK, LoopShape, InTurn, storeVars, tsVars

LEMMA ApproveNewLoopType ==
  ASSUME TypeInv, NEW h \in Requests, ApproveNewLoop(h)
  PROVE  TypeInv'
<1> DEFINE r == [req[h] EXCEPT !.pc = "start", !.loop = h, !.bridge = <<h, 1>>]
           old == ts[req[h].ts].loop
<1>1. /\ h \in Starters /\ <<h, 1>> \in Bridge /\ req[h].ts \in Gens
      /\ ts[req[h].ts].bridge \in MaybeBridge
  BY Fields, Names DEF ApproveNewLoop, TypeInv
<1>2. r \in Handler /\ r.pc = "start" /\ r.bridge \in Bridge
  BY <1>1 DEF TypeInv, TypeOK, Handler
<1>3. req' = [req EXCEPT ![h] = r]
  BY DEF ApproveNewLoop, TypeInv, TypeOK
<1> HIDE DEF r
<1>4. req' \in [Requests -> Handler] /\ HandlerShape'
  BY <1>2, <1>3, HandlerSet DEF TypeInv
<1>5. chan' \in [Bridge -> Channels] /\ panicked' \in BOOLEAN
  BY <1>1, CloseType DEF ApproveNewLoop, TypeInv
<1>6. ts' \in [Gens -> TurnState]
  BY <1>1 DEF ApproveNewLoop, TypeInv, TypeOK, TakeOver, TurnState
<1>7. [loop[h] EXCEPT !.st = "made"] \in TurnLoop /\ [loop[h] EXCEPT !.st = "made"].st = "made"
  BY <1>1 DEF TypeInv, TypeOK, TurnLoop
<1> HIDE DEF old
<1>8. loop' = [l \in Starters |-> IF l = h THEN [loop[h] EXCEPT !.st = "made"]
                                  ELSE IF l = old THEN StoppedNow(l) ELSE loop[l]]
  BY DEF ApproveNewLoop, old
<1>9. loop' \in [Starters -> TurnLoop]
  BY <1>7, <1>8, LoopRecords DEF TypeInv, TypeOK
<1>10. LoopShape'
  BY <1>7, <1>8, LoopRecords DEF TypeInv, LoopShape, InTurn
<1> QED
  BY <1>4, <1>5, <1>6, <1>9, <1>10 DEF ApproveNewLoop, TypeInv, TypeOK, storeVars

LEMMA AbortTakeType ==
  ASSUME TypeInv, NEW h \in Requests, AbortTake(h)
  PROVE  TypeInv'
<1> DEFINE l == ts[tsGen].loop
           p == IF l = None THEN "done" ELSE "stop"
           r == [req[h] EXCEPT !.pc = p, !.loop = l]
<1>1. l \in MaybeLoop /\ p \in {"done", "stop"}
  BY Fields DEF TypeInv, TypeOK
<1>2. req' = [req EXCEPT ![h] = r]
  BY DEF AbortTake, TypeInv, TypeOK
<1> HIDE DEF l, p
<1>3. r \in Handler /\ r.pc = p
  BY <1>1 DEF TypeInv, TypeOK, Handler, MaybeLoop
<1> HIDE DEF r
<1>4. req' \in [Requests -> Handler] /\ HandlerShape'
  BY <1>1, <1>2, <1>3, HandlerSet DEF TypeInv
<1>5. ts' \in [Gens -> TurnState]
  BY DEF AbortTake, TypeInv, TypeOK, TurnState
<1> QED
  BY <1>4, <1>5 DEF AbortTake, TypeInv, TypeOK, LoopShape, InTurn, storeVars

LEMMA StopType ==
  ASSUME TypeInv, NEW l, loop' = [loop EXCEPT ![l] = StoppedNow(l)]
  PROVE  loop' \in [Starters -> TurnLoop] /\ LoopShape'
<1>1. l \in Starters =>
        /\ StoppedNow(l) \in TurnLoop
        /\ StoppedNow(l).st \in {"snap", "send", "await"} => StoppedNow(l).turn \in Starters
        /\ StoppedNow(l).st = "await" => StoppedNow(l).bridge \in Bridge
  BY LoopRecords DEF TypeInv, LoopShape, InTurn
<1> QED
  BY <1>1, LoopSet DEF TypeInv

LEMMA AbortStopType ==
  ASSUME TypeInv, NEW h \in Requests, AbortStop(h)
  PROVE  TypeInv'
<1> DEFINE r == [req[h] EXCEPT !.pc = "join"]
<1>1. r \in Handler /\ r.pc = "join"
  BY DEF TypeInv, TypeOK, Handler
<1>2. req' = [req EXCEPT ![h] = r]
  BY DEF AbortStop, TypeInv, TypeOK
<1> HIDE DEF r
<1>3. req' \in [Requests -> Handler] /\ HandlerShape'
  BY <1>1, <1>2, HandlerSet DEF TypeInv
<1>4. loop' \in [Starters -> TurnLoop] /\ LoopShape'
  BY StopType DEF AbortStop
<1> QED
  BY <1>3, <1>4 DEF AbortStop, TypeInv, TypeOK, storeVars, tsVars

LEMMA DeleteStopType ==
  ASSUME TypeInv, NEW h \in Requests, DeleteStop(h)
  PROVE  TypeInv'
<1> DEFINE r == [req[h] EXCEPT !.pc = "drop"]
<1>1. r \in Handler /\ r.pc = "drop"
  BY DEF TypeInv, TypeOK, Handler
<1>2. req' = [req EXCEPT ![h] = r]
  BY DEF DeleteStop, TypeInv, TypeOK
<1> HIDE DEF r
<1>3. req' \in [Requests -> Handler] /\ HandlerShape'
  BY <1>1, <1>2, HandlerSet DEF TypeInv
<1>4. loop' \in [Starters -> TurnLoop] /\ LoopShape'
  BY StopType DEF DeleteStop, TypeInv, TypeOK, LoopShape, InTurn
<1>5. ts' \in [Gens -> TurnState]
  BY DEF DeleteStop, TypeInv, TypeOK, TurnState
<1> QED
  BY <1>3, <1>4, <1>5 DEF DeleteStop, TypeInv, TypeOK, storeVars

LEMMA LoopPlainType ==
  ASSUME TypeInv, NEW l \in Starters, LoopPlain(l)
  PROVE  TypeInv'
<1> DEFINE r == [loop[l] EXCEPT !.st = "idle"]
<1>1. r \in TurnLoop /\ r.st = "idle"
  BY DEF TypeInv, TypeOK, TurnLoop
<1>2. loop' = [loop EXCEPT ![l] = r]
  BY DEF LoopPlain, TypeInv, TypeOK
<1> HIDE DEF r
<1>3. loop' \in [Starters -> TurnLoop] /\ LoopShape'
  BY <1>1, <1>2, LoopSet DEF TypeInv
<1> QED
  BY <1>3 DEF LoopPlain, TypeInv, TypeOK, HandlerShape, storeVars, tsVars

LEMMA LoopResumeFailsType ==
  ASSUME TypeInv, NEW l \in Starters, LoopResumeFails(l)
  PROVE  TypeInv'
<1> DEFINE r == [loop[l] EXCEPT !.st = "exiting"]
<1>1. r \in TurnLoop /\ r.st = "exiting"
  BY DEF TypeInv, TypeOK, TurnLoop
<1>2. loop' = [loop EXCEPT ![l] = r]
  BY DEF LoopResumeFails, TypeInv, TypeOK
<1> HIDE DEF r
<1>3. loop' \in [Starters -> TurnLoop] /\ LoopShape'
  BY <1>1, <1>2, LoopSet DEF TypeInv
<1> QED
  BY <1>3 DEF LoopResumeFails, TypeInv, TypeOK, HandlerShape, storeVars, tsVars

LEMMA LoopIdleStopType ==
  ASSUME TypeInv, NEW l \in Starters, LoopIdleStop(l)
  PROVE  TypeInv'
<1> DEFINE r == [loop[l] EXCEPT !.st = "exiting"]
<1>1. r \in TurnLoop /\ r.st = "exiting"
  BY DEF TypeInv, TypeOK, TurnLoop
<1>2. loop' = [loop EXCEPT ![l] = r]
  BY DEF LoopIdleStop, TypeInv, TypeOK
<1> HIDE DEF r
<1>3. loop' \in [Starters -> TurnLoop] /\ LoopShape'
  BY <1>1, <1>2, LoopSet DEF TypeInv
<1> QED
  BY <1>3 DEF LoopIdleStop, TypeInv, TypeOK, HandlerShape, storeVars, tsVars

LEMMA LoopExitType ==
  ASSUME TypeInv, NEW l \in Starters, LoopExit(l)
  PROVE  TypeInv'
<1> DEFINE r == [loop[l] EXCEPT !.st = "exited"]
<1>1. r \in TurnLoop /\ r.st = "exited"
  BY DEF TypeInv, TypeOK, TurnLoop
<1>2. loop' = [loop EXCEPT ![l] = r]
  BY DEF LoopExit, TypeInv, TypeOK
<1> HIDE DEF r
<1>3. loop' \in [Starters -> TurnLoop] /\ LoopShape'
  BY <1>1, <1>2, LoopSet DEF TypeInv
<1>4. ckpt' \in Checkpoint
  BY Fields DEF LoopExit, CkptSet, CkptDelete, TypeInv, TypeOK, Checkpoint, MaybeLoop
<1> QED
  BY <1>3, <1>4 DEF LoopExit, TypeInv, TypeOK, HandlerShape, storeVars, tsVars

LEMMA LoopPreemptType ==
  ASSUME TypeInv, NEW l \in Starters, LoopPreempt(l)
  PROVE  TypeInv'
<1> DEFINE r == [loop[l] EXCEPT !.ctxDone = TRUE]
<1>1. r \in TurnLoop /\ r.st = loop[l].st /\ r.turn = loop[l].turn /\ r.bridge = loop[l].bridge
  BY DEF TypeInv, TypeOK, TurnLoop
<1>2. loop' = [loop EXCEPT ![l] = r]
  BY DEF LoopPreempt, TypeInv, TypeOK
<1> HIDE DEF r
<1>3. loop' \in [Starters -> TurnLoop] /\ LoopShape'
  <2>1. /\ r.st \in {"snap", "send", "await"} => r.turn \in Starters
        /\ r.st = "await" => r.bridge \in Bridge
    BY <1>1 DEF TypeInv, LoopShape, InTurn
  <2> QED
    BY <1>1, <1>2, <2>1, LoopSet DEF TypeInv
<1> QED
  BY <1>3 DEF LoopPreempt, TypeInv, TypeOK, HandlerShape, storeVars, tsVars

LEMMA LoopResumeType ==
  ASSUME TypeInv, NEW l \in Starters, LoopResume(l)
  PROVE  TypeInv'
<1> DEFINE items == loop[l].queue
<1>1. items \in Seq(Starters) /\ ckpt.items \in Seq(Starters) /\ CkptGet \in MaybeLoop
  BY Fields, Names DEF TypeInv, CkptGet, MaybeLoop
<1>2. PICK k \in 1..Len(items) :
        /\ loop' = [loop EXCEPT ![l] = [FreshTurn(l, items[k], ckpt.items) EXCEPT !.loaded = TRUE]]
        /\ resumed' = resumed \cup {<<CkptGet, ResumeTarget(l, items[k])>>}
  BY DEF LoopResume
<1>3. items[k] \in Starters
  BY <1>1
<1> DEFINE f == FreshTurn(l, items[k], ckpt.items)
           r == [f EXCEPT !.loaded = TRUE]
<1>4. f \in TurnLoop /\ f.st = "snap" /\ f.turn \in Starters
  BY <1>1, <1>3, LoopRecords DEF TypeInv, MaybeLoop
<1>5. loop' = [loop EXCEPT ![l] = r]
  BY <1>2
<1> HIDE DEF f
<1>6. r \in TurnLoop /\ r.st = "snap" /\ r.turn \in Starters
  BY <1>4 DEF TurnLoop
<1> HIDE DEF r
<1>7. loop' \in [Starters -> TurnLoop] /\ LoopShape'
  BY <1>5, <1>6, LoopSet DEF TypeInv
<1>8. ResumeTarget(l, items[k]) \in MaybeLoop
  BY <1>3, Names, Fields DEF ResumeTarget, TypeInv
<1>9. resumed' \in SUBSET ((Starters \cup {None}) \X (Starters \cup {None}))
  BY <1>1, <1>2, <1>8 DEF TypeInv, TypeOK, MaybeLoop
<1> QED
  BY <1>7, <1>9 DEF LoopResume, TypeInv, TypeOK, HandlerShape, storeVars, tsVars

LEMMA LoopGenInputType ==
  ASSUME TypeInv, NEW l \in Starters, LoopGenInput(l)
  PROVE  TypeInv'
<1> DEFINE items == loop[l].queue
           g == req[l].sess
<1>1. items \in Seq(Starters) /\ g \in Gens
  BY Fields, Names DEF TypeInv
<1>2. PICK k \in 1..Len(items) :
        /\ loop' = [loop EXCEPT ![l] = FreshTurn(l, items[k], Without(items, k))]
        /\ sess' = [sess EXCEPT ![g].history = Append(@, <<"user", items[k]>>)]
  BY DEF LoopGenInput
<1>3. items[k] \in Starters
  BY <1>1
<1>4. Without(items, k) \in Seq(Starters)
  <2>1. /\ SubSeq(items, 1, k - 1) \in Seq(Starters)
        /\ SubSeq(items, k + 1, Len(items)) \in Seq(Starters)
    BY <1>1
  <2> QED
    BY <2>1 DEF Without
<1> DEFINE r == FreshTurn(l, items[k], Without(items, k))
<1>5. r \in TurnLoop /\ r.st = "snap" /\ r.turn \in Starters
  BY <1>3, <1>4, LoopRecords DEF TypeInv, MaybeLoop
<1>6. loop' = [loop EXCEPT ![l] = r]
  BY <1>2
<1> HIDE DEF r
<1>7. loop' \in [Starters -> TurnLoop] /\ LoopShape'
  BY <1>5, <1>6, LoopSet DEF TypeInv
<1>8. sess' \in [Gens -> Session]
  <2>1. Append(sess[g].history, <<"user", items[k]>>) \in Seq({"user", "answer"} \X Starters)
    BY <1>1, <1>3, Fields DEF TypeInv
  <2> QED
    BY <1>1, <1>2, <2>1 DEF TypeInv, TypeOK, Session
<1> QED
  BY <1>7, <1>8 DEF LoopGenInput, TypeInv, TypeOK, HandlerShape, tsVars

LEMMA LoopNoQueryType ==
  ASSUME TypeInv, NEW l \in Starters, LoopNoQuery(l)
  PROVE  TypeInv'
<1> DEFINE items == loop[l].queue
           t(st) == IF st = "snap" THEN Head(items) ELSE None
<1>1. items \in Seq(Starters) /\ items # << >>
  BY Fields DEF TypeInv, LoopNoQuery
<1>2. PICK st \in {"snap", "exiting"} :
        loop' = [loop EXCEPT ![l] = [FreshTurn(l, t(st), items)
                                        EXCEPT !.st = st, !.stop = "boundary"]]
  BY DEF LoopNoQuery, TypeInv, TypeOK
<1>3. t(st) \in MaybeLoop /\ (st = "snap" => t(st) \in Starters)
  BY <1>1 DEF MaybeLoop
<1> DEFINE f == FreshTurn(l, t(st), items)
           r == [f EXCEPT !.st = st, !.stop = "boundary"]
<1>4. f \in TurnLoop /\ f.turn = t(st)
  BY <1>1, <1>3, LoopRecords DEF TypeInv, MaybeLoop
<1>5. loop' = [loop EXCEPT ![l] = r]
  BY <1>2
<1> HIDE DEF f, t
<1>6. r \in TurnLoop /\ r.st = st /\ r.turn = t(st)
  BY <1>4 DEF TurnLoop
<1> HIDE DEF r
<1>7. loop' \in [Starters -> TurnLoop] /\ LoopShape'
  BY <1>3, <1>5, <1>6, LoopSet DEF TypeInv
<1> QED
  BY <1>7 DEF LoopNoQuery, TypeInv, TypeOK, HandlerShape, storeVars, tsVars

LEMMA TurnSnapshotType ==
  ASSUME TypeInv, NEW l \in Starters, TurnSnapshot(l)
  PROVE  TypeInv'
<1> DEFINE r == [loop[l] EXCEPT !.st = "send", !.bridge = CurrentBridge(l)]
<1>1. CurrentBridge(l) \in MaybeBridge
  BY Fields DEF CurrentBridge, TypeInv, TypeOK
<1>2. r \in TurnLoop /\ r.st = "send" /\ r.turn = loop[l].turn
  BY <1>1 DEF TypeInv, TypeOK, TurnLoop, MaybeBridge
<1>3. loop' = [loop EXCEPT ![l] = r]
  BY DEF TurnSnapshot, TypeInv, TypeOK
<1> HIDE DEF r
<1>4. loop[l].turn \in Starters
  BY DEF TurnSnapshot, TypeInv, LoopShape, InTurn
<1>5. loop' \in [Starters -> TurnLoop] /\ LoopShape'
  BY <1>2, <1>3, <1>4, LoopSet DEF TypeInv
<1> QED
  BY <1>5 DEF TurnSnapshot, TypeInv, TypeOK, HandlerShape, storeVars, tsVars

LEMMA TurnSendType ==
  ASSUME TypeInv, NEW l \in Starters, TurnSend(l)
  PROVE  TypeInv'
<1> DEFINE r == [loop[l] EXCEPT !.st = "await"]
           b == loop[l].bridge
<1>1. b \in Bridge /\ loop[l].turn \in Starters
  BY Fields DEF TurnSend, TypeInv, LoopShape, InTurn, MaybeBridge
<1>2. r \in TurnLoop /\ r.st = "await" /\ r.turn = loop[l].turn /\ r.bridge = b
  BY DEF TypeInv, TypeOK, TurnLoop
<1>3. loop' = [loop EXCEPT ![l] = r]
  BY DEF TurnSend, TypeInv, TypeOK
<1> HIDE DEF r
<1>4. loop' \in [Starters -> TurnLoop] /\ LoopShape'
  BY <1>1, <1>2, <1>3, LoopSet DEF TypeInv
<1>5. chan' \in [Bridge -> Channels]
  BY <1>1 DEF TurnSend, TypeInv, TypeOK, Channels
<1> QED
  BY <1>4, <1>5 DEF TurnSend, TypeInv, TypeOK, HandlerShape, storeVars, tsVars

LEMMA TurnCancelledType ==
  ASSUME TypeInv, NEW l \in Starters, TurnCancelled(l)
  PROVE  TypeInv'
<1> DEFINE r == [loop[l] EXCEPT !.st = AfterTurn(l), !.turn = None]
<1>1. AfterTurn(l) \in {"idle", "exiting"}
  BY DEF AfterTurn
<1>2. r \in TurnLoop /\ r.st = AfterTurn(l)
  BY <1>1 DEF TypeInv, TypeOK, TurnLoop
<1>3. loop' = [loop EXCEPT ![l] = r]
  BY DEF TurnCancelled, TypeInv, TypeOK
<1> HIDE DEF r
<1>4. loop' \in [Starters -> TurnLoop] /\ LoopShape'
  BY <1>1, <1>2, <1>3, LoopSet DEF TypeInv
<1> QED
  BY <1>4 DEF TurnCancelled, TypeInv, TypeOK, HandlerShape, storeVars, tsVars

LEMMA TurnResultType ==
  ASSUME TypeInv, NEW l \in Starters, TurnResult(l)
  PROVE  TypeInv'
<1> DEFINE b == loop[l].bridge
           d == chan[b].done
           g == req[l].sess
           save == IF d.kind = "intr" THEN loop[l].turn ELSE None
           st == IF d.kind = "intr" \/ (d.kind = "err" /\ ~loop[l].ctxDone)
                 THEN "exiting" ELSE AfterTurn(l)
           r == [loop[l] EXCEPT !.turn = None, !.save = save, !.st = st]
<1>1. b \in Bridge /\ loop[l].turn \in Starters /\ g \in Gens
  BY Fields, Names DEF TurnResult, TypeInv, LoopShape, InTurn
<1>2. d \in [turn : Starters, kind : {"ok", "intr", "err"}]
  BY <1>1, Fields DEF TurnResult, TypeInv, Result
<1>3. st \in {"idle", "exiting"}
  BY DEF AfterTurn
<1>4. save \in MaybeLoop
  BY <1>1 DEF MaybeLoop
<1>5. loop' = [loop EXCEPT ![l] = r]
  BY DEF TurnResult, TypeInv, TypeOK
<1> HIDE DEF st, save
<1>6. r \in TurnLoop /\ r.st = st
  BY <1>3, <1>4 DEF TypeInv, TypeOK, TurnLoop, MaybeLoop
<1> HIDE DEF r
<1>7. loop' \in [Starters -> TurnLoop] /\ LoopShape'
  BY <1>3, <1>5, <1>6, LoopSet DEF TypeInv
<1>8. chan' \in [Bridge -> Channels]
  BY <1>1 DEF TurnResult, TypeInv, TypeOK, Channels, Result
<1>9. sess' \in [Gens -> Session]
  <2> DEFINE s == sess[g]
             history == IF b[1] \in Chats
                        THEN Append(s.history, <<"answer", d.turn>>) ELSE s.history
             pending == IF d.kind = "intr" THEN d.turn ELSE s.pending
  <2>1. s \in Session /\ sess \in [Gens -> Session]
    BY <1>1 DEF TypeInv, TypeOK
  <2>2. s.history \in Seq({"user", "answer"} \X Starters) /\ s.pending \in MaybeLoop
    BY <1>1, Fields DEF TypeInv
  <2>3. <<"answer", d.turn>> \in {"user", "answer"} \X Starters
    BY <1>2
  <2>4. history \in Seq({"user", "answer"} \X Starters) /\ pending \in MaybeLoop
    BY <1>2, <2>2, <2>3 DEF MaybeLoop
  <2>5. sess' = [sess EXCEPT ![g].history = history, ![g].pending = pending]
    BY <1>1, <2>1 DEF TurnResult
  <2> HIDE DEF s, history, pending
  <2>6. [sess[g] EXCEPT !.history = history, !.pending = pending] \in Session
    BY <2>1, <2>4 DEF Session, MaybeLoop, s
  <2>7. sess' = [sess EXCEPT ![g] = [sess[g] EXCEPT !.history = history, !.pending = pending]]
    BY <1>1, <2>1, <2>5
  <2> QED
    BY <1>1, <2>1, <2>6, <2>7
<1>10. replies' \in SUBSET (Starters \X Starters)
  <2>1. d.turn \in Starters
    BY <1>2
  <2> QED
    BY <1>1, <2>1 DEF TurnResult, TypeInv, TypeOK
<1> QED
  BY <1>7, <1>8, <1>9, <1>10 DEF TurnResult, TypeInv, TypeOK, HandlerShape, tsVars

LEMMA CleanupType ==
  ASSUME TypeInv, NEW l \in Starters, Cleanup(l)
  PROVE  TypeInv'
<1>1. ts' \in [Gens -> TurnState]
  BY DEF Cleanup, ForgetLoop, TypeInv, TypeOK, TurnState
<1> QED
  BY <1>1 DEF Cleanup, TypeInv, TypeOK, HandlerShape, LoopShape, InTurn, storeVars

LEMMA StepType == ASSUME TypeInv, [Next]_vars PROVE TypeInv'
<1>1. CASE UNCHANGED vars
  BY <1>1 DEF vars, TypeInv, TypeOK, HandlerShape, LoopShape, InTurn
<1>2. ASSUME NEW h \in Requests, Arrival(h) PROVE TypeInv'
  BY <1>2, EnterType, ApproveReadType, AbortTakeType, DeleteStopType DEF Arrival
<1>3. ASSUME NEW h \in Requests, HandlerStep(h) PROVE TypeInv'
  BY <1>3, LookupType, ChatSupersedeType, ChatNewLoopType, ChatPushType, ChatReplaceDeadType,
     StartType, ReceiveType, BailType, TimeOutType, StreamEndType, ApproveClearType,
     ApproveNewLoopType, AbortStopType, AbortJoinType, DeleteStoreType, DeleteStateType
  DEF HandlerStep
<1>4. ASSUME NEW l \in Starters, LoopStep(l) PROVE TypeInv'
  BY <1>4, LoopPlainType, LoopResumeType, LoopResumeFailsType, LoopGenInputType,
     LoopNoQueryType, LoopIdleStopType, LoopPreemptType, TurnSnapshotType, TurnSendType,
     TurnCancelledType, TurnResultType, LoopExitType, CleanupType
  DEF LoopStep
<1> QED
  BY <1>1, <1>2, <1>3, <1>4 DEF Next

\* Every session object, turn state, handler, channel, loop and checkpoint keeps its
\* type, for any requests and any pace: in particular no handler waits on, and no
\* OnAgentEvents call that has sent its envelope awaits, a channel that was never made.
THEOREM TypeInvariant == Spec => []TypeInv
<1>1. Init => TypeInv
  BY InitType
<1>2. TypeInv /\ [Next]_vars => TypeInv'
  BY StepType
<1> QED
  BY <1>1, <1>2, PTL DEF Spec

\* The type invariant that TLC checks on small sets of requests holds for all of them.
THEOREM TypeCorrect == Spec => []TypeOK
<1>1. TypeInv => TypeOK
  BY DEF TypeInv
<1> QED
  BY <1>1, TypeInvariant, PTL

-----------------------------------------------------------------------------
(* No handlerDone channel is closed twice.  A handler closes the bridge that the    *)
(* turn state still holds and replaces it in the same critical section, so it is    *)
(* enough that a turn state never holds a closed bridge.  For that to be inductive, *)
(* a bridge must be in one turn state at most (closing it there would close it in   *)
(* the other), and one that is still to be made in none, and not closed.            *)

\* The pcs at which handler h may yet make its k-th bridge.
Unmade(h, k) ==
    \/ req[h].pc \in {"idle", "enter", "lock", "clear"}
    \/ k = 2 /\ req[h].pc \in {"push", "dead"}

BridgeInv ==
    /\ ~panicked
    /\ \A g \in Gens : ts[g].bridge # None => ~chan[ts[g].bridge].closed
    /\ \A g1, g2 \in Gens :
          (g1 # g2 /\ ts[g1].bridge = ts[g2].bridge) => ts[g1].bridge = None
    /\ \A h \in Starters, k \in {1, 2} : Unmade(h, k) =>
          /\ ~chan[<<h, k>>].closed
          /\ \A g \in Gens : ts[g].bridge # <<h, k>>

BridgesUnchanged == \A g \in Gens : ts'[g].bridge = ts[g].bridge
ClosedUnchanged == \A b \in Bridge : chan'[b].closed = chan[b].closed
UnmadeShrinks == \A h \in Starters, k \in {1, 2} : Unmade(h, k)' => Unmade(h, k)

\* A step that makes no bridge and closes none.
LEMMA BridgeFrame ==
  ASSUME TypeInv, BridgeInv, BridgesUnchanged, ClosedUnchanged, UnmadeShrinks,
         panicked' = panicked
  PROVE  BridgeInv'
<1>1. \A g \in Gens : ts'[g].bridge # None => ~chan'[ts'[g].bridge].closed
  <2> SUFFICES ASSUME NEW g \in Gens, ts[g].bridge # None PROVE ~chan'[ts[g].bridge].closed
    BY DEF BridgesUnchanged
  <2>1. ts[g].bridge \in Bridge
    BY Fields DEF TypeInv, MaybeBridge
  <2> QED
    BY <2>1 DEF BridgeInv, ClosedUnchanged
<1>2. \A h \in Starters, k \in {1, 2} : Unmade(h, k)' =>
        /\ ~chan'[<<h, k>>].closed
        /\ \A g \in Gens : ts'[g].bridge # <<h, k>>
  BY Names DEF BridgeInv, BridgesUnchanged, ClosedUnchanged, UnmadeShrinks
<1>3. \A g1, g2 \in Gens :
        (g1 # g2 /\ ts'[g1].bridge = ts'[g2].bridge) => ts'[g1].bridge = None
  BY DEF BridgeInv, BridgesUnchanged
<1> QED
  BY <1>1, <1>2, <1>3 DEF BridgeInv

\* A step that gives turn state g a new bridge, and may close the one it held.
LEMMA BridgeTakeOver ==
  ASSUME TypeInv, BridgeInv, UnmadeShrinks, panicked' = FALSE,
         NEW h \in Starters, NEW k \in {1, 2}, NEW g \in Gens,
         Unmade(h, k), ~Unmade(h, k)', ts'[g].bridge = <<h, k>>,
         \A o \in Gens \ {g} : ts'[o].bridge = ts[o].bridge,
         \A b \in Bridge : b # ts[g].bridge => chan'[b].closed = chan[b].closed
  PROVE  BridgeInv'
<1> DEFINE new == <<h, k>>
<1>1. new \in Bridge /\ new # ts[g].bridge /\ ~chan'[new].closed
  BY Names, ZenonT(60) DEF BridgeInv
<1>2. \A o \in Gens \ {g} : ts'[o].bridge # new
  BY DEF BridgeInv
<1>3. ASSUME NEW o \in Gens, ts'[o].bridge # None PROVE ~chan'[ts'[o].bridge].closed
  <2>1. CASE o = g
    BY <1>1, <2>1
  <2>2. CASE o # g
    <3>1. ts[o].bridge \in Bridge /\ ts'[o].bridge = ts[o].bridge
      BY <1>3, <2>2, Fields DEF TypeInv, MaybeBridge
    <3>2. ts[o].bridge # ts[g].bridge
      BY <2>2, <3>1, Names DEF BridgeInv
    <3> QED
      BY <3>1, <3>2, Names DEF BridgeInv
  <2> QED
    BY <2>1, <2>2
<1>4. \A o, p \in Gens :
        (o # p /\ ts'[o].bridge = ts'[p].bridge) => ts'[o].bridge = None
  BY <1>2 DEF BridgeInv
<1>5. ASSUME NEW i \in Starters, NEW j \in {1, 2}, Unmade(i, j)'
      PROVE  /\ ~chan'[<<i, j>>].closed
             /\ \A o \in Gens : ts'[o].bridge # <<i, j>>
  <2>1. Unmade(i, j) /\ <<i, j>> \in Bridge
    BY <1>5, Names DEF UnmadeShrinks
  <2>2. <<i, j>> # new
    BY <1>5
  <2>3. ~chan[<<i, j>>].closed /\ \A o \in Gens : ts[o].bridge # <<i, j>>
    BY <2>1 DEF BridgeInv
  <2> QED
    BY <2>1, <2>2, <2>3
<1> QED
  BY <1>3, <1>4, <1>5 DEF BridgeInv

\* A handler whose pc moves on makes nothing unmade again.
LEMMA UnmadeStep ==
  ASSUME TypeInv, NEW h \in Requests, NEW r, req' = [req EXCEPT ![h] = r],
         h \in Starters =>
            \/ req[h].pc \in {"idle", "enter", "lock", "clear"}
               /\ r.pc \in {"enter", "lock", "clear", "push", "dead"}
            \/ req[h].pc = "push" /\ r.pc = "dead"
            \/ r.pc \in {"start", "wait", "stream"} \cup Finished
  PROVE  /\ UnmadeShrinks
         /\ r.pc = "push" => ~Unmade(h, 1)'
         /\ r.pc = "start" => ~Unmade(h, 1)' /\ ~Unmade(h, 2)'
<1>1. \A g \in Requests : req'[g] = IF g = h THEN r ELSE req[g]
  BY DEF TypeInv, TypeOK
<1> QED
  BY <1>1, Names DEF UnmadeShrinks, Unmade, Finished

\* The handlers' steps other than the four that make a bridge.
LEMMA HandlerFrame ==
  ASSUME TypeInv, NEW h \in Requests,
         \/ Arrival(h)
         \/ Lookup(h) \/ ChatPush(h) \/ Start(h) \/ Receive(h) \/ Bail(h) \/ TimeOut(h)
         \/ StreamEnd(h) \/ ApproveClear(h) \/ AbortStop(h) \/ AbortJoin(h)
         \/ DeleteStore(h) \/ DeleteState(h)
  PROVE  BridgesUnchanged /\ ClosedUnchanged /\ UnmadeShrinks /\ panicked' = panicked
<1> DEFINE Goal == BridgesUnchanged /\ ClosedUnchanged /\ UnmadeShrinks /\ panicked' = panicked
<1>0. h \in Starters => h \notin Aborts \cup Deletes
  BY ChatAssumption DEF Starters
<1>r. req[h] \in Handler /\ tsGen \in Gens /\ \A g \in Requests : req[g].bridge \in MaybeBridge
  BY Fields DEF TypeInv, TypeOK
<1>1. CASE Lookup(h)
  <2> DEFINE r == [req[h] EXCEPT !.pc = "lock", !.ts = tsGen]
  <2>1. req' = [req EXCEPT ![h] = r]
    BY <1>1, <1>r DEF Lookup, TypeInv, TypeOK
  <2>2. UnmadeShrinks
    <3>1. h \in Starters =>
            \/ req[h].pc \in {"idle", "enter", "lock", "clear"}
               /\ r.pc \in {"enter", "lock", "clear", "push", "dead"}
            \/ req[h].pc = "push" /\ r.pc = "dead"
            \/ r.pc \in {"start", "wait", "stream"} \cup Finished
      BY <1>1, <1>0, <1>r DEF Lookup, Handler, Finished, MayArrive
    <3> HIDE DEF r
    <3> QED
      BY <2>1, <3>1, UnmadeStep
  <2>3. BridgesUnchanged
    BY <1>1 DEF Lookup, BridgesUnchanged, storeVars, tsVars
  <2>4. ClosedUnchanged
    BY <1>1 DEF Lookup, ClosedUnchanged
  <2> QED
    BY <1>1, <2>2, <2>3, <2>4 DEF Lookup
<1>2. CASE ChatPush(h)
  <2> DEFINE r == [req[h] EXCEPT !.pc = IF Live(req[h].loop) THEN "wait" ELSE "dead"]
  <2>1. req' = [req EXCEPT ![h] = r]
    BY <1>2, <1>r DEF ChatPush, TypeInv, TypeOK
  <2>2. UnmadeShrinks
    <3>1. h \in Starters =>
            \/ req[h].pc \in {"idle", "enter", "lock", "clear"}
               /\ r.pc \in {"enter", "lock", "clear", "push", "dead"}
            \/ req[h].pc = "push" /\ r.pc = "dead"
            \/ r.pc \in {"start", "wait", "stream"} \cup Finished
      BY <1>2, <1>0, <1>r DEF ChatPush, Handler, Finished, MayArrive
    <3> HIDE DEF r
    <3> QED
      BY <2>1, <3>1, UnmadeStep
  <2>3. BridgesUnchanged
    BY <1>2 DEF ChatPush, BridgesUnchanged, storeVars, tsVars
  <2>4. ClosedUnchanged
    BY <1>2 DEF ChatPush, ClosedUnchanged
  <2> QED
    BY <1>2, <2>2, <2>3, <2>4 DEF ChatPush
<1>3. CASE Start(h)
  <2> DEFINE r == [req[h] EXCEPT !.pc = "wait"]
  <2>1. req' = [req EXCEPT ![h] = r]
    BY <1>3, <1>r DEF Start, TypeInv, TypeOK
  <2>2. UnmadeShrinks
    <3>1. h \in Starters =>
            \/ req[h].pc \in {"idle", "enter", "lock", "clear"}
               /\ r.pc \in {"enter", "lock", "clear", "push", "dead"}
            \/ req[h].pc = "push" /\ r.pc = "dead"
            \/ r.pc \in {"start", "wait", "stream"} \cup Finished
      BY <1>3, <1>0, <1>r DEF Start, Handler, Finished, MayArrive
    <3> HIDE DEF r
    <3> QED
      BY <2>1, <3>1, UnmadeStep
  <2>3. BridgesUnchanged
    BY <1>3 DEF Start, BridgesUnchanged, storeVars, tsVars
  <2>4. ClosedUnchanged
    BY <1>3 DEF Start, ClosedUnchanged
  <2> QED
    BY <1>3, <2>2, <2>3, <2>4 DEF Start
<1>4. CASE Receive(h)
  <2> DEFINE r == [req[h] EXCEPT !.pc = "stream", !.turn = chan[req[h].bridge].ready]
  <2>1. req' = [req EXCEPT ![h] = r]
    BY <1>4, <1>r DEF Receive, TypeInv, TypeOK
  <2>2. UnmadeShrinks
    <3>1. h \in Starters =>
            \/ req[h].pc \in {"idle", "enter", "lock", "clear"}
               /\ r.pc \in {"enter", "lock", "clear", "push", "dead"}
            \/ req[h].pc = "push" /\ r.pc = "dead"
            \/ r.pc \in {"start", "wait", "stream"} \cup Finished
      BY <1>4, <1>0, <1>r DEF Receive, Handler, Finished, MayArrive
    <3> HIDE DEF r
    <3> QED
      BY <2>1, <3>1, UnmadeStep
  <2>3. BridgesUnchanged
    BY <1>4 DEF Receive, BridgesUnchanged, storeVars, tsVars
  <2>4. ClosedUnchanged
    BY <1>4, <1>r DEF Receive, ClosedUnchanged, TypeInv, TypeOK, Channels, ReplyChannel
  <2> QED
    BY <1>4, <2>2, <2>3, <2>4 DEF Receive
<1>5. CASE Bail(h)
  <2> DEFINE r == [req[h] EXCEPT !.pc = "preempted"]
  <2>1. req' = [req EXCEPT ![h] = r]
    BY <1>5, <1>r DEF Bail, TypeInv, TypeOK
  <2>2. UnmadeShrinks
    <3>1. h \in Starters =>
            \/ req[h].pc \in {"idle", "enter", "lock", "clear"}
               /\ r.pc \in {"enter", "lock", "clear", "push", "dead"}
            \/ req[h].pc = "push" /\ r.pc = "dead"
            \/ r.pc \in {"start", "wait", "stream"} \cup Finished
      BY <1>5, <1>0, <1>r DEF Bail, Handler, Finished, MayArrive
    <3> HIDE DEF r
    <3> QED
      BY <2>1, <3>1, UnmadeStep
  <2>3. BridgesUnchanged
    BY <1>5 DEF Bail, BridgesUnchanged, storeVars, tsVars
  <2>4. ClosedUnchanged
    BY <1>5 DEF Bail, ClosedUnchanged
  <2> QED
    BY <1>5, <2>2, <2>3, <2>4 DEF Bail
<1>6. CASE TimeOut(h)
  <2> DEFINE r == [req[h] EXCEPT !.pc = "timeout"]
  <2>1. req' = [req EXCEPT ![h] = r]
    BY <1>6, <1>r DEF TimeOut, TypeInv, TypeOK
  <2>2. UnmadeShrinks
    <3>1. h \in Starters =>
            \/ req[h].pc \in {"idle", "enter", "lock", "clear"}
               /\ r.pc \in {"enter", "lock", "clear", "push", "dead"}
            \/ req[h].pc = "push" /\ r.pc = "dead"
            \/ r.pc \in {"start", "wait", "stream"} \cup Finished
      BY <1>6, <1>0, <1>r DEF TimeOut, Handler, Finished, MayArrive
    <3> HIDE DEF r
    <3> QED
      BY <2>1, <3>1, UnmadeStep
  <2>3. BridgesUnchanged
    BY <1>6 DEF TimeOut, BridgesUnchanged, storeVars, tsVars
  <2>4. ClosedUnchanged
    BY <1>6 DEF TimeOut, ClosedUnchanged
  <2> QED
    BY <1>6, <2>2, <2>3, <2>4 DEF TimeOut
<1>7. CASE StreamEnd(h)
  <2> DEFINE r == [req[h] EXCEPT !.pc = "done"]
  <2>1. req' = [req EXCEPT ![h] = r]
    BY <1>7, <1>r DEF StreamEnd, TypeInv, TypeOK
  <2>2. UnmadeShrinks
    <3>1. h \in Starters =>
            \/ req[h].pc \in {"idle", "enter", "lock", "clear"}
               /\ r.pc \in {"enter", "lock", "clear", "push", "dead"}
            \/ req[h].pc = "push" /\ r.pc = "dead"
            \/ r.pc \in {"start", "wait", "stream"} \cup Finished
      BY <1>7, <1>0, <1>r DEF StreamEnd, Handler, Finished, MayArrive
    <3> HIDE DEF r
    <3> QED
      BY <2>1, <3>1, UnmadeStep
  <2>3. BridgesUnchanged
    BY <1>7 DEF StreamEnd, BridgesUnchanged, storeVars, tsVars
  <2>4. ClosedUnchanged
    BY <1>7, <1>r DEF StreamEnd, ClosedUnchanged, TypeInv, TypeOK, Channels, ReplyChannel
  <2> QED
    BY <1>7, <2>2, <2>3, <2>4 DEF StreamEnd
<1>8. CASE ApproveClear(h)
  <2> DEFINE r == [req[h] EXCEPT !.pc = "enter"]
  <2>1. req' = [req EXCEPT ![h] = r]
    BY <1>8, <1>r DEF ApproveClear, TypeInv, TypeOK
  <2>2. UnmadeShrinks
    <3>1. h \in Starters =>
            \/ req[h].pc \in {"idle", "enter", "lock", "clear"}
               /\ r.pc \in {"enter", "lock", "clear", "push", "dead"}
            \/ req[h].pc = "push" /\ r.pc = "dead"
            \/ r.pc \in {"start", "wait", "stream"} \cup Finished
      BY <1>8, <1>0, <1>r DEF ApproveClear, Handler, Finished, MayArrive
    <3> HIDE DEF r
    <3> QED
      BY <2>1, <3>1, UnmadeStep
  <2>3. BridgesUnchanged
    BY <1>8 DEF ApproveClear, BridgesUnchanged, storeVars, tsVars
  <2>4. ClosedUnchanged
    BY <1>8 DEF ApproveClear, ClosedUnchanged
  <2> QED
    BY <1>8, <2>2, <2>3, <2>4 DEF ApproveClear
<1>9. CASE AbortStop(h)
  <2> DEFINE r == [req[h] EXCEPT !.pc = "join"]
  <2>1. req' = [req EXCEPT ![h] = r]
    BY <1>9, <1>r DEF AbortStop, TypeInv, TypeOK
  <2>2. UnmadeShrinks
    <3>1. h \in Starters =>
            \/ req[h].pc \in {"idle", "enter", "lock", "clear"}
               /\ r.pc \in {"enter", "lock", "clear", "push", "dead"}
            \/ req[h].pc = "push" /\ r.pc = "dead"
            \/ r.pc \in {"start", "wait", "stream"} \cup Finished
      BY <1>9, <1>0, <1>r DEF AbortStop, Handler, Finished, MayArrive
    <3> HIDE DEF r
    <3> QED
      BY <2>1, <3>1, UnmadeStep
  <2>3. BridgesUnchanged
    BY <1>9 DEF AbortStop, BridgesUnchanged, storeVars, tsVars
  <2>4. ClosedUnchanged
    BY <1>9 DEF AbortStop, ClosedUnchanged
  <2> QED
    BY <1>9, <2>2, <2>3, <2>4 DEF AbortStop
<1>10. CASE AbortJoin(h)
  <2> DEFINE r == [req[h] EXCEPT !.pc = "done"]
  <2>1. req' = [req EXCEPT ![h] = r]
    BY <1>10, <1>r DEF AbortJoin, TypeInv, TypeOK
  <2>2. UnmadeShrinks
    <3>1. h \in Starters =>
            \/ req[h].pc \in {"idle", "enter", "lock", "clear"}
               /\ r.pc \in {"enter", "lock", "clear", "push", "dead"}
            \/ req[h].pc = "push" /\ r.pc = "dead"
            \/ r.pc \in {"start", "wait", "stream"} \cup Finished
      BY <1>10, <1>0, <1>r DEF AbortJoin, Handler, Finished, MayArrive
    <3> HIDE DEF r
    <3> QED
      BY <2>1, <3>1, UnmadeStep
  <2>3. BridgesUnchanged
    BY <1>10 DEF AbortJoin, BridgesUnchanged, storeVars, tsVars
  <2>4. ClosedUnchanged
    BY <1>10 DEF AbortJoin, ClosedUnchanged
  <2> QED
    BY <1>10, <2>2, <2>3, <2>4 DEF AbortJoin
<1>11. CASE DeleteStore(h)
  <2> DEFINE r == [req[h] EXCEPT !.pc = "forget"]
  <2>1. req' = [req EXCEPT ![h] = r]
    BY <1>11, <1>r DEF DeleteStore, TypeInv, TypeOK
  <2>2. UnmadeShrinks
    <3>1. h \in Starters =>
            \/ req[h].pc \in {"idle", "enter", "lock", "clear"}
               /\ r.pc \in {"enter", "lock", "clear", "push", "dead"}
            \/ req[h].pc = "push" /\ r.pc = "dead"
            \/ r.pc \in {"start", "wait", "stream"} \cup Finished
      BY <1>11, <1>0, <1>r DEF DeleteStore, Handler, Finished, MayArrive
    <3> HIDE DEF r
    <3> QED
      BY <2>1, <3>1, UnmadeStep
  <2>3. BridgesUnchanged
    BY <1>11 DEF DeleteStore, BridgesUnchanged, storeVars, tsVars
  <2>4. ClosedUnchanged
    BY <1>11 DEF DeleteStore, ClosedUnchanged
  <2> QED
    BY <1>11, <2>2, <2>3, <2>4 DEF DeleteStore
<1>12. CASE DeleteState(h)
  <2> DEFINE r == [req[h] EXCEPT !.pc = "done"]
  <2>1. req' = [req EXCEPT ![h] = r]
    BY <1>12, <1>r DEF DeleteState, TypeInv, TypeOK
  <2>2. UnmadeShrinks
    <3>1. h \in Starters =>
            \/ req[h].pc \in {"idle", "enter", "lock", "clear"}
               /\ r.pc \in {"enter", "lock", "clear", "push", "dead"}
            \/ req[h].pc = "push" /\ r.pc = "dead"
            \/ r.pc \in {"start", "wait", "stream"} \cup Finished
      BY <1>12, <1>0, <1>r DEF DeleteState, Handler, Finished, MayArrive
    <3> HIDE DEF r
    <3> QED
      BY <2>1, <3>1, UnmadeStep
  <2>3. BridgesUnchanged
    BY <1>12 DEF DeleteState, BridgesUnchanged, storeVars, tsVars
  <2>4. ClosedUnchanged
    BY <1>12 DEF DeleteState, ClosedUnchanged
  <2> QED
    BY <1>12, <2>2, <2>3, <2>4 DEF DeleteState
<1>13. CASE Enter(h)
  <2> DEFINE r == [req[h] EXCEPT !.pc = "enter", !.sess = sessGen]
  <2>1. req' = [req EXCEPT ![h] = r]
    BY <1>13, <1>r DEF Enter, TypeInv, TypeOK
  <2>2. UnmadeShrinks
    <3>1. h \in Starters =>
            \/ req[h].pc \in {"idle", "enter", "lock", "clear"}
               /\ r.pc \in {"enter", "lock", "clear", "push", "dead"}
            \/ req[h].pc = "push" /\ r.pc = "dead"
            \/ r.pc \in {"start", "wait", "stream"} \cup Finished
      BY <1>13, <1>0, <1>r DEF Enter, Handler, Finished, MayArrive
    <3> HIDE DEF r
    <3> QED
      BY <2>1, <3>1, UnmadeStep
  <2>3. BridgesUnchanged
    BY <1>13 DEF Enter, BridgesUnchanged, storeVars, tsVars
  <2>4. ClosedUnchanged
    BY <1>13 DEF Enter, ClosedUnchanged
  <2> QED
    BY <1>13, <2>2, <2>3, <2>4 DEF Enter
<1>14. CASE ApproveRead(h)
  <2> DEFINE yes == [req[h] EXCEPT !.pc = "clear", !.sess = sessGen, !.seen = sess[sessGen].pending]
             no == [req[h] EXCEPT !.pc = "rejected"]
  <2>1. req' = [req EXCEPT ![h] = yes] \/ req' = [req EXCEPT ![h] = no]
    BY <1>14 DEF ApproveRead, TypeInv, TypeOK
  <2>2. yes.pc = "clear" /\ no.pc = "rejected" /\ req[h].pc = "idle"
    BY <1>14, <1>r DEF ApproveRead, MayArrive, Handler
  <2> HIDE DEF yes, no
  <2>3. UnmadeShrinks
    BY <2>1, <2>2, UnmadeStep DEF Finished
  <2> QED
    BY <1>14, <2>3 DEF ApproveRead, BridgesUnchanged, ClosedUnchanged, tsVars
<1>15. CASE AbortTake(h)
  <2> DEFINE r == [req[h] EXCEPT !.pc = IF ts[tsGen].loop = None THEN "done" ELSE "stop",
                                   !.loop = ts[tsGen].loop]
  <2>1. req' = [req EXCEPT ![h] = r]
    BY <1>15, <1>r DEF AbortTake, TypeInv, TypeOK
  <2>2. UnmadeShrinks
    <3>1. h \in Starters =>
            \/ req[h].pc \in {"idle", "enter", "lock", "clear"}
               /\ r.pc \in {"enter", "lock", "clear", "push", "dead"}
            \/ req[h].pc = "push" /\ r.pc = "dead"
            \/ r.pc \in {"start", "wait", "stream"} \cup Finished
      BY <1>15, <1>0, <1>r DEF AbortTake, Handler, Finished, MayArrive
    <3> HIDE DEF r
    <3> QED
      BY <2>1, <3>1, UnmadeStep
  <2>3. BridgesUnchanged
    BY <1>15, <1>r DEF AbortTake, BridgesUnchanged, storeVars, tsVars, TypeInv, TypeOK, TurnState
  <2>4. ClosedUnchanged
    BY <1>15 DEF AbortTake, ClosedUnchanged
  <2> QED
    BY <1>15, <2>2, <2>3, <2>4 DEF AbortTake
<1>16. CASE DeleteStop(h)
  <2> DEFINE r == [req[h] EXCEPT !.pc = "drop"]
  <2>1. req' = [req EXCEPT ![h] = r]
    BY <1>16, <1>r DEF DeleteStop, TypeInv, TypeOK
  <2>2. UnmadeShrinks
    <3>1. h \in Starters =>
            \/ req[h].pc \in {"idle", "enter", "lock", "clear"}
               /\ r.pc \in {"enter", "lock", "clear", "push", "dead"}
            \/ req[h].pc = "push" /\ r.pc = "dead"
            \/ r.pc \in {"start", "wait", "stream"} \cup Finished
      BY <1>16, <1>0, <1>r DEF DeleteStop, Handler, Finished, MayArrive
    <3> HIDE DEF r
    <3> QED
      BY <2>1, <3>1, UnmadeStep
  <2>3. BridgesUnchanged
    BY <1>16, <1>r DEF DeleteStop, BridgesUnchanged, storeVars, tsVars, TypeInv, TypeOK, TurnState
  <2>4. ClosedUnchanged
    BY <1>16 DEF DeleteStop, ClosedUnchanged
  <2> QED
    BY <1>16, <2>2, <2>3, <2>4 DEF DeleteStop
<1> QED
  BY <1>1, <1>2, <1>3, <1>4, <1>5, <1>6, <1>7, <1>8, <1>9, <1>10, <1>11, <1>12, <1>13, <1>14, <1>15, <1>16
  DEF Arrival

\* The loops make no bridge and close none: they fill and drain channels, and the
\* cleanup forgets a loop.
LEMMA LoopFrame ==
  ASSUME TypeInv, NEW l \in Starters, LoopStep(l)
  PROVE  BridgesUnchanged /\ ClosedUnchanged /\ UnmadeShrinks /\ panicked' = panicked
<1>1. UnmadeShrinks /\ panicked' = panicked
  BY DEF LoopStep, LoopPlain, LoopResume, LoopResumeFails, LoopGenInput, LoopNoQuery,
         LoopIdleStop, LoopPreempt, TurnSnapshot, TurnSend, TurnCancelled, TurnResult,
         LoopExit, Cleanup, UnmadeShrinks, Unmade
<1>2. BridgesUnchanged
  <2>1. CASE Cleanup(l)
    BY <2>1, SMTT(30) DEF Cleanup, ForgetLoop, BridgesUnchanged, TypeInv, TypeOK, TurnState
  <2>2. CASE ~Cleanup(l)
    BY <2>2 DEF LoopStep, LoopPlain, LoopResume, LoopResumeFails, LoopGenInput, LoopNoQuery,
         LoopIdleStop, LoopPreempt, TurnSnapshot, TurnSend, TurnCancelled, TurnResult,
         LoopExit, BridgesUnchanged, tsVars
  <2> QED
    BY <2>1, <2>2
<1>3. ClosedUnchanged
  <2>1. CASE TurnSend(l) \/ TurnResult(l)
    BY <2>1, SMTT(30) DEF TurnSend, TurnResult, ClosedUnchanged, TypeInv, TypeOK, Channels
  <2>2. CASE ~TurnSend(l) /\ ~TurnResult(l)
    BY <2>2 DEF LoopStep, LoopPlain, LoopResume, LoopResumeFails, LoopGenInput, LoopNoQuery,
         LoopIdleStop, LoopPreempt, TurnSnapshot, TurnCancelled,
         LoopExit, Cleanup, ClosedUnchanged
  <2> QED
    BY <2>1, <2>2
<1> QED
  BY <1>1, <1>2, <1>3, SMTT(30)

LEMMA ChatSupersedeBridge ==
  ASSUME TypeInv, BridgeInv, NEW h \in Requests, ChatSupersede(h)
  PROVE  BridgeInv'
<1> DEFINE g == req[h].ts
           r == [req[h] EXCEPT !.pc = "push", !.loop = ts[req[h].ts].loop, !.bridge = <<h, 1>>]
<1>1. h \in Starters /\ g \in Gens /\ ts[g].bridge \in MaybeBridge
  BY Names, Fields DEF ChatSupersede, TypeInv
<1>2. req' = [req EXCEPT ![h] = r] /\ r.pc = "push"
  BY DEF ChatSupersede, TypeInv, TypeOK, Handler
<1>3. Unmade(h, 1)
  BY DEF ChatSupersede, Unmade
<1> HIDE DEF r
<1>4. UnmadeShrinks /\ ~Unmade(h, 1)'
  BY <1>2, UnmadeStep DEF ChatSupersede
<1>5. /\ ts'[g].bridge = <<h, 1>>
      /\ \A o \in Gens \ {g} : ts'[o].bridge = ts[o].bridge
  BY <1>1 DEF ChatSupersede, NewBridge, TypeInv, TypeOK, TurnState
<1>6. /\ panicked' = FALSE
      /\ \A b \in Bridge : b # ts[g].bridge => chan'[b].closed = chan[b].closed
  <2>1. CloseHandlerDone(ts[g].bridge)
    BY DEF ChatSupersede
  <2>2. ts[g].bridge # None => ts[g].bridge \in Bridge /\ ~chan[ts[g].bridge].closed
    BY <1>1 DEF BridgeInv, MaybeBridge
  <2> QED
    BY <2>1, <2>2 DEF CloseHandlerDone, BridgeInv, TypeInv, TypeOK, Channels
<1> QED
  BY <1>1, <1>3, <1>4, <1>5, <1>6, BridgeTakeOver

LEMMA ChatNewLoopBridge ==
  ASSUME TypeInv, BridgeInv, NEW h \in Requests, ChatNewLoop(h)
  PROVE  BridgeInv'
<1> DEFINE g == req[h].ts
           r == [req[h] EXCEPT !.pc = "start", !.loop = h, !.bridge = <<h, 1>>]
<1>1. h \in Starters /\ g \in Gens /\ ts[g].bridge \in MaybeBridge
  BY Names, Fields DEF ChatNewLoop, TypeInv
<1>2. req' = [req EXCEPT ![h] = r] /\ r.pc = "start"
  BY DEF ChatNewLoop, TypeInv, TypeOK, Handler
<1>3. Unmade(h, 1)
  BY DEF ChatNewLoop, Unmade
<1> HIDE DEF r
<1>4. UnmadeShrinks /\ ~Unmade(h, 1)'
  BY <1>2, UnmadeStep DEF ChatNewLoop
<1>5. /\ ts'[g].bridge = <<h, 1>>
      /\ \A o \in Gens \ {g} : ts'[o].bridge = ts[o].bridge
  BY <1>1 DEF ChatNewLoop, TakeOver, TypeInv, TypeOK, TurnState
<1>6. panicked' = FALSE /\ chan' = chan
  BY DEF ChatNewLoop, BridgeInv
<1> QED
  BY <1>1, <1>3, <1>4, <1>5, <1>6, BridgeTakeOver

LEMMA ChatReplaceDeadBridge ==
  ASSUME TypeInv, BridgeInv, NEW h \in Requests, ChatReplaceDead(h)
  PROVE  BridgeInv'
<1> DEFINE g == req[h].ts
           r == [req[h] EXCEPT !.pc = "start", !.loop = h, !.bridge = <<h, 2>>]
<1>1. h \in Starters /\ g \in Gens /\ ts[g].bridge \in MaybeBridge
  BY Names, Fields DEF ChatReplaceDead, TypeInv
<1>2. req' = [req EXCEPT ![h] = r] /\ r.pc = "start"
  BY DEF ChatReplaceDead, TypeInv, TypeOK, Handler
<1>3. Unmade(h, 2)
  BY DEF ChatReplaceDead, Unmade
<1> HIDE DEF r
<1>4. UnmadeShrinks /\ ~Unmade(h, 2)'
  BY <1>2, UnmadeStep DEF ChatReplaceDead
<1>5. /\ ts'[g].bridge = <<h, 2>>
      /\ \A o \in Gens \ {g} : ts'[o].bridge = ts[o].bridge
  BY <1>1 DEF ChatReplaceDead, TakeOver, TypeInv, TypeOK, TurnState
<1>6. panicked' = FALSE /\ chan' = chan
  BY DEF ChatReplaceDead, BridgeInv
<1> QED
  BY <1>1, <1>3, <1>4, <1>5, <1>6, BridgeTakeOver

LEMMA ApproveNewLoopBridge ==
  ASSUME TypeInv, BridgeInv, NEW h \in Requests, ApproveNewLoop(h)
  PROVE  BridgeInv'
<1> DEFINE g == req[h].ts
           r == [req[h] EXCEPT !.pc = "start", !.loop = h, !.bridge = <<h, 1>>]
<1>1. h \in Starters /\ g \in Gens /\ ts[g].bridge \in MaybeBridge
  BY Names, Fields DEF ApproveNewLoop, TypeInv
<1>2. req' = [req EXCEPT ![h] = r] /\ r.pc = "start"
  BY DEF ApproveNewLoop, TypeInv, TypeOK, Handler
<1>3. Unmade(h, 1)
  BY DEF ApproveNewLoop, Unmade
<1> HIDE DEF r
<1>4. UnmadeShrinks /\ ~Unmade(h, 1)'
  BY <1>2, UnmadeStep DEF ApproveNewLoop
<1>5. /\ ts'[g].bridge = <<h, 1>>
      /\ \A o \in Gens \ {g} : ts'[o].bridge = ts[o].bridge
  BY <1>1 DEF ApproveNewLoop, TakeOver, TypeInv, TypeOK, TurnState
<1>6. /\ panicked' = FALSE
      /\ \A b \in Bridge : b # ts[g].bridge => chan'[b].closed = chan[b].closed
  <2>1. CloseHandlerDone(ts[g].bridge)
    BY DEF ApproveNewLoop
  <2>2. ts[g].bridge # None => ts[g].bridge \in Bridge /\ ~chan[ts[g].bridge].closed
    BY <1>1 DEF BridgeInv, MaybeBridge
  <2> QED
    BY <2>1, <2>2 DEF CloseHandlerDone, BridgeInv, TypeInv, TypeOK, Channels
<1> QED
  BY <1>1, <1>3, <1>4, <1>5, <1>6, BridgeTakeOver

LEMMA BridgeInit == ASSUME Init PROVE BridgeInv
  BY Names DEF Init, BridgeInv

LEMMA BridgeStep == ASSUME TypeInv, BridgeInv, [Next]_vars PROVE BridgeInv'
<1>1. CASE UNCHANGED vars
  BY <1>1 DEF vars, BridgeInv, Unmade
<1>2. ASSUME NEW h \in Requests, Arrival(h) \/ HandlerStep(h) PROVE BridgeInv'
  BY <1>2, HandlerFrame, BridgeFrame, ChatSupersedeBridge, ChatNewLoopBridge,
     ChatReplaceDeadBridge, ApproveNewLoopBridge DEF HandlerStep
<1>3. ASSUME NEW l \in Starters, LoopStep(l) PROVE BridgeInv'
  BY <1>3, LoopFrame, BridgeFrame
<1> QED
  BY <1>1, <1>2, <1>3 DEF Next

\* However many chats, approvals, aborts and deletions race for a session, no handler
\* closes a handlerDone channel that is closed already (which would panic).
THEOREM ClosedOnce == Spec => []NoDoubleClose
<1>1. Init => TypeInv /\ BridgeInv
  BY InitType, BridgeInit
<1>2. TypeInv /\ BridgeInv /\ [Next]_vars => (TypeInv /\ BridgeInv)'
  BY StepType, BridgeStep
<1>3. BridgeInv => NoDoubleClose
  BY DEF BridgeInv, NoDoubleClose
<1> QED
  BY <1>1, <1>2, <1>3, PTL DEF Spec

-----------------------------------------------------------------------------
(* One live loop.  A client that waits for an answer before it sends the next       *)
(* request keeps the handlers apart: at any time one of them at most is between its *)
(* arrival and the stream it copies (or its reply).                                 *)

Busy(h) == req[h].pc \notin {"idle", "stream"} \cup Finished

OneBusy == \A g, h \in Requests : (Busy(g) /\ Busy(h)) => g = h

\* What the busy handler has read of the turn state still holds.
ReadsAreFresh ==
    /\ \A h \in Starters :
          req[h].pc \in {"lock", "push", "dead", "start", "wait"} => req[h].ts = tsGen
    /\ \A h \in Chats :
          /\ req[h].pc \in {"push", "dead"} =>
                /\ req[h].loop \in Starters
                /\ ts[tsGen].loop \in {None, req[h].loop}
          /\ req[h].pc = "dead" => ~Live(req[h].loop)
    /\ \A h \in Deletes : req[h].pc \in {"drop", "forget"} => ts[tsGen].loop = None

\* A live loop is the one the session's turn state names, or an abort has it in hand.
LiveIsTheSessions == \A l \in Starters : Live(l) => ts[tsGen].loop = l \/ BeingAborted(l)

OneLoopInv == OneBusy /\ ReadsAreFresh /\ LiveIsTheSessions

\* Every step of a handler is about its own record.
LEMMA OwnRecord ==
  ASSUME TypeInv, NEW h \in Requests, Arrival(h) \/ HandlerStep(h)
  PROVE  \A g \in Requests : g # h => req'[g] = req[g]
  BY DEF Arrival, HandlerStep, Enter, ApproveRead, AbortTake, DeleteStop, Lookup, ChatSupersede,
         ChatNewLoop, ChatPush, ChatReplaceDead, Start, Receive, Bail, TimeOut, StreamEnd,
         ApproveClear, ApproveNewLoop, AbortStop, AbortJoin, DeleteStore, DeleteState,
         TypeInv, TypeOK

LEMMA HandlerBusy ==
  ASSUME TypeInv, NEW h \in Requests, HandlerStep(h)
  PROVE  Busy(h) \/ ~Busy(h)'
<1>1. CASE StreamEnd(h)
  BY <1>1 DEF StreamEnd, Busy, Finished, TypeInv, TypeOK
<1>2. CASE ~StreamEnd(h)
  BY <1>2 DEF HandlerStep, Lookup, ChatSupersede,
         ChatNewLoop, ChatPush, ChatReplaceDead, Start, Receive, Bail, TimeOut,
         ApproveClear, ApproveNewLoop, AbortStop, AbortJoin, DeleteStore, DeleteState,
         Busy, Finished
<1> QED
  BY <1>1, <1>2

LEMMA OneBusyStep ==
  ASSUME Pace # "any", TypeInv, OneBusy, [Next]_vars
  PROVE  OneBusy'
<1>1. ASSUME NEW h \in Requests, Arrival(h) \/ HandlerStep(h) PROVE OneBusy'
  <2>1. \A g \in Requests : g # h => (Busy(g)' <=> Busy(g))
    BY <1>1, OwnRecord DEF Busy
  <2>2. CASE Arrival(h)
    <3>1. \A g \in Requests \ {h} : ~Busy(g)
      BY <2>2 DEF Arrival, Enter, ApproveRead, AbortTake, DeleteStop, MayArrive, Busy
    <3> QED
      BY <2>1, <3>1 DEF OneBusy
  <2>3. CASE HandlerStep(h)
    BY <2>1, <2>3, HandlerBusy DEF OneBusy
  <2> QED
    BY <1>1, <2>2, <2>3
<1>2. ASSUME NEW l \in Starters, LoopStep(l) PROVE OneBusy'
  <2>1. req' = req
    BY <1>2 DEF LoopStep, LoopPlain, LoopResume, LoopResumeFails, LoopGenInput, LoopNoQuery,
         LoopIdleStop, LoopPreempt, TurnSnapshot, TurnSend, TurnCancelled, TurnResult,
         LoopExit, Cleanup
  <2> QED
    BY <2>1 DEF OneBusy, Busy
<1>3. CASE UNCHANGED vars
  BY <1>3 DEF vars, OneBusy, Busy
<1> QED
  BY <1>1, <1>2, <1>3 DEF Next

\* A step that makes no loop and gives the turn state none.
LEMMA OneLoopFrame ==
  ASSUME TypeInv, OneLoopInv, OneBusy', tsGen' = tsGen,
         \A l \in Starters : Live(l)' => Live(l),
         \A l \in Starters : (ts[tsGen].loop = l /\ Live(l)') => ts'[tsGen].loop = l,
         ts'[tsGen].loop \in {None, ts[tsGen].loop},
         \A h \in Aborts : req[h].pc = "stop" =>
            \/ req'[h].pc = "stop" /\ req'[h].loop = req[h].loop
            \/ \A l \in Starters : req[h].loop = l => ~Live(l)',
         \A h \in Starters :
            req'[h].pc \in {"lock", "push", "dead", "start", "wait"} => req'[h].ts = tsGen,
         \A h \in Chats : req'[h].pc \in {"push", "dead"} =>
            /\ req[h].pc \in {"push", "dead"} /\ req'[h].loop = req[h].loop
            /\ req'[h].pc = "dead" => req[h].pc = "dead" \/ ~Live(req[h].loop),
         \A h \in Deletes : req'[h].pc \in {"drop", "forget"} => req[h].pc \in {"drop", "forget"}
  PROVE  OneLoopInv'
<1>1. ASSUME NEW l \in Starters, Live(l)' PROVE ts'[tsGen].loop = l \/ BeingAborted(l)'
  <2>1. Live(l)
    BY <1>1
  <2>2. CASE ts[tsGen].loop = l
    BY <1>1, <2>2
  <2>3. CASE BeingAborted(l)
    <3>1. PICK h \in Aborts : req[h].pc = "stop" /\ req[h].loop = l
      BY <2>3 DEF BeingAborted
    <3>2. req'[h].pc = "stop" /\ req'[h].loop = l
      BY <1>1, <3>1
    <3> QED
      BY <3>2 DEF BeingAborted
  <2> QED
    BY <2>1, <2>2, <2>3 DEF OneLoopInv, LiveIsTheSessions
<1>2. ReadsAreFresh'
  BY DEF OneLoopInv, ReadsAreFresh
<1> QED
  BY <1>1, <1>2 DEF OneLoopInv, LiveIsTheSessions

\* The same for a step that leaves turn states and loops alone.
LEMMA OneLoopQuiet ==
  ASSUME TypeInv, OneLoopInv, OneBusy', NEW h \in Requests,
         UNCHANGED <<tsGen, ts, loop>>,
         \A g \in Requests : g # h => req'[g] = req[g],
         h \in Aborts => req[h].pc # "stop",
         h \in Starters => (req'[h].pc \in {"lock", "push", "dead", "start", "wait"} =>
                              req'[h].ts = tsGen),
         h \in Chats => req'[h].pc \notin {"push", "dead"},
         h \in Deletes => (req'[h].pc \in {"drop", "forget"} => req[h].pc \in {"drop", "forget"})
  PROVE  OneLoopInv'
<1>1. \A l \in Starters : Live(l)' <=> Live(l)
  BY DEF Live
<1>2. \A g \in Starters : req'[g].pc \in {"lock", "push", "dead", "start", "wait"} => req'[g].ts = tsGen
  BY Names DEF OneLoopInv, ReadsAreFresh
<1>3. \A g \in Chats : req'[g].pc \in {"push", "dead"} =>
            /\ req[g].pc \in {"push", "dead"} /\ req'[g].loop = req[g].loop
            /\ req'[g].pc = "dead" => req[g].pc = "dead" \/ ~Live(req[g].loop)
  BY Names
<1>4. \A g \in Aborts : req[g].pc = "stop" => req'[g].pc = "stop" /\ req'[g].loop = req[g].loop
  BY Names
<1>5. \A g \in Deletes : req'[g].pc \in {"drop", "forget"} => req[g].pc \in {"drop", "forget"}
  BY Names
<1> QED
  BY <1>1, <1>2, <1>3, <1>4, <1>5, OneLoopFrame

LEMMA QuietSteps ==
  ASSUME TypeInv, OneLoopInv, OneBusy', NEW h \in Requests,
         \/ Enter(h) \/ Lookup(h) \/ Receive(h) \/ Bail(h) \/ TimeOut(h) \/ StreamEnd(h)
         \/ ApproveRead(h) \/ ApproveClear(h) \/ AbortJoin(h) \/ DeleteStore(h)
  PROVE  OneLoopInv'
<1>1. \A g \in Requests : g # h => req'[g] = req[g]
  BY OwnRecord DEF Arrival, HandlerStep
<1>2. UNCHANGED <<tsGen, ts, loop>>
  BY DEF Enter, Lookup, Receive, Bail, TimeOut, StreamEnd, ApproveRead, ApproveClear,
         AbortJoin, DeleteStore, tsVars
<1>3. /\ h \in Starters => h \notin Aborts \cup Deletes
      /\ h \in Aborts => h \notin Starters
      /\ h \in Deletes => h \notin Starters
  BY ChatAssumption DEF Starters
<1>4. CASE Lookup(h)
  <2>1. req'[h].pc = "lock" /\ req'[h].ts = tsGen /\ h \in Starters
    BY <1>4 DEF Lookup, TypeInv, TypeOK, Handler
  <2> QED
    BY <1>1, <1>2, <1>3, <2>1, OneLoopQuiet
<1>5. CASE Enter(h) \/ Receive(h) \/ Bail(h) \/ TimeOut(h) \/ StreamEnd(h)
           \/ ApproveRead(h) \/ ApproveClear(h)
  <2>1. h \in Starters
    BY <1>5, Names DEF Enter, Receive, Bail, TimeOut, StreamEnd, ApproveRead, ApproveClear
  <2>2. req'[h].pc \in {"enter", "stream", "clear"} \cup Finished
    <3>1. CASE Enter(h)
      BY <3>1 DEF Enter, TypeInv, TypeOK, Handler
    <3>2. CASE Receive(h)
      BY <3>2 DEF Receive, TypeInv, TypeOK, Handler
    <3>3. CASE Bail(h) \/ TimeOut(h) \/ StreamEnd(h) \/ ApproveClear(h)
      BY <3>3 DEF Bail, TimeOut, StreamEnd, ApproveClear, TypeInv, TypeOK, Handler, Finished
    <3>4. CASE ApproveRead(h)
      BY <3>4, ZenonT(60) DEF ApproveRead, TypeInv, TypeOK, Handler, Finished
    <3> QED
      BY <1>5, <3>1, <3>2, <3>3, <3>4
  <2>3. req'[h].pc \notin {"lock", "push", "dead", "start", "wait"}
    BY <2>2 DEF Finished
  <2> QED
    BY <1>1, <1>2, <1>3, <2>1, <2>3, OneLoopQuiet
<1>6. CASE AbortJoin(h)
  <2>1. h \in Aborts /\ req[h].pc = "join" /\ req'[h].pc = "done"
    BY <1>6 DEF AbortJoin, TypeInv, TypeOK
  <2> QED
    BY <1>1, <1>2, <1>3, <2>1, OneLoopQuiet, Names
<1>7. CASE DeleteStore(h)
  <2>1. h \in Deletes /\ req[h].pc = "drop" /\ req'[h].pc = "forget"
    BY <1>7 DEF DeleteStore, TypeInv, TypeOK
  <2> QED
    BY <1>1, <1>2, <1>3, <2>1, OneLoopQuiet, Names
<1> QED
  BY <1>4, <1>5, <1>6, <1>7

\* The steps of a loop take liveness from no loop but their own, and give it to none.
LEMMA LoopStepEffect ==
  ASSUME TypeInv, NEW l \in Starters, LoopStep(l)
  PROVE  /\ UNCHANGED <<req, tsGen>>
         /\ \A m \in Starters : Live(m)' => Live(m)
         /\ \A g \in Gens : \/ ts'[g].loop = ts[g].loop
                            \/ ts'[g].loop = None /\ ts[g].loop = l /\ ~Live(l)
<1>1. UNCHANGED <<req, tsGen>>
  BY DEF LoopStep, LoopPlain, LoopResume, LoopResumeFails, LoopGenInput, LoopNoQuery,
         LoopIdleStop, LoopPreempt, TurnSnapshot, TurnSend, TurnCancelled, TurnResult,
         LoopExit, Cleanup, tsVars
<1>2. CASE Cleanup(l)
  <2>1. \A m \in Starters : Live(m)' <=> Live(m)
    BY <1>2 DEF Cleanup, Live
  <2>2. \A g \in Gens : \/ ts'[g].loop = ts[g].loop
                        \/ ts'[g].loop = None /\ ts[g].loop = l
    BY <1>2 DEF Cleanup, ForgetLoop, IsSessionLoop, TypeInv, TypeOK, TurnState
  <2> QED
    BY <1>1, <1>2, <2>1, <2>2 DEF Cleanup, Live
<1>3. CASE ~Cleanup(l)
  <2>1. ts' = ts
    BY <1>3, ZenonT(60) DEF LoopStep, LoopPlain, LoopResume, LoopResumeFails, LoopGenInput,
       LoopNoQuery,
         LoopIdleStop, LoopPreempt, TurnSnapshot, TurnSend, TurnCancelled, TurnResult,
         LoopExit, tsVars
  <2>2. \A m \in Starters : m # l => loop'[m] = loop[m]
    BY <1>3 DEF LoopStep, LoopPlain, LoopResume, LoopResumeFails, LoopGenInput, LoopNoQuery,
         LoopIdleStop, LoopPreempt, TurnSnapshot, TurnSend, TurnCancelled, TurnResult,
         LoopExit, TypeInv, TypeOK
  <2>3. loop[l] \in TurnLoop /\ loop[l].stop \in {"no", "boundary", "immediate"}
    BY Fields DEF TypeInv, TypeOK
  <2>4. loop'[l].st \notin {"none", "exiting", "exited"} /\ loop'[l].stop = "no"
          => loop[l].st \notin {"none", "exiting", "exited"} /\ loop[l].stop = "no"
    <3>1. CASE LoopPlain(l) \/ LoopResumeFails(l) \/ LoopIdleStop(l) \/ LoopPreempt(l)
      BY <2>3, <3>1 DEF LoopPlain, LoopResumeFails, LoopIdleStop, LoopPreempt, InTurn,
         TypeInv, TypeOK, TurnLoop
    <3>2. CASE TurnSnapshot(l) \/ TurnSend(l) \/ LoopExit(l)
      BY <2>3, <3>2, ZenonT(60) DEF TurnSnapshot, TurnSend, LoopExit, TypeInv, TypeOK, TurnLoop
    <3>6. CASE TurnCancelled(l)
      BY <2>3, <3>6 DEF TurnCancelled, CtxDone, TypeInv, TypeOK, TurnLoop
    <3>3. CASE TurnResult(l)
      BY <2>3, <3>3 DEF TurnResult, TypeInv, TypeOK, TurnLoop
    <3>4. CASE LoopGenInput(l) \/ LoopResume(l)
      BY <2>3, <3>4 DEF LoopGenInput, LoopResume
    <3>5. CASE LoopNoQuery(l)
      BY <2>3, <3>5 DEF LoopNoQuery
    <3> QED
      BY <1>3, <3>1, <3>2, <3>3, <3>4, <3>5, <3>6 DEF LoopStep
  <2>5. \A m \in Starters : Live(m)' => Live(m)
    BY <2>2, <2>4 DEF Live
  <2> QED
    BY <1>1, <2>1, <2>5
<1> QED
  BY <1>2, <1>3

LEMMA LoopSteps ==
  ASSUME TypeInv, OneLoopInv, OneBusy', NEW l \in Starters, LoopStep(l)
  PROVE  OneLoopInv'
<1>1. /\ UNCHANGED <<req, tsGen>> /\ tsGen \in Gens
      /\ \A m \in Starters : Live(m)' => Live(m)
      /\ \A g \in Gens : \/ ts'[g].loop = ts[g].loop
                         \/ ts'[g].loop = None /\ ts[g].loop = l /\ ~Live(l)
  BY LoopStepEffect DEF TypeInv, TypeOK
<1>2. \A m \in Starters : (ts[tsGen].loop = m /\ Live(m)') => ts'[tsGen].loop = m
  BY <1>1
<1>3. \A h \in Starters :
            req'[h].pc \in {"lock", "push", "dead", "start", "wait"} => req'[h].ts = tsGen
  BY <1>1 DEF OneLoopInv, ReadsAreFresh
<1> QED
  BY <1>1, <1>2, <1>3, OneLoopFrame

LEMMA ChatPushOneLoop ==
  ASSUME TypeInv, OneLoopInv, OneBusy', NEW h \in Requests, ChatPush(h)
  PROVE  OneLoopInv'
<1> DEFINE l == req[h].loop
<1>1. /\ h \in Chats /\ req[h].pc = "push" /\ UNCHANGED <<ts, tsGen>>
      /\ \A g \in Requests : g # h => req'[g] = req[g]
  BY OwnRecord DEF ChatPush, tsVars, HandlerStep
<1>2. l \in Starters /\ h \notin Aborts /\ h \notin Deletes /\ req[h].ts = tsGen
  BY <1>1, ChatAssumption DEF OneLoopInv, ReadsAreFresh, Starters
<1>3. /\ req'[h].loop = l /\ req'[h].ts = req[h].ts /\ req'[h].pc \in {"wait", "dead"}
      /\ req'[h].pc = "dead" => ~Live(l)
  BY <1>1 DEF ChatPush, TypeInv, TypeOK, Handler
<1>4. \A m \in Starters : loop'[m].st = loop[m].st /\ loop'[m].stop = loop[m].stop
  <2>1. CASE Live(l)
    <3>1. loop' = [loop EXCEPT ![l] = Pushed(l, h, TRUE)]
      BY <2>1 DEF ChatPush
    <3>2. Pushed(l, h, TRUE).st = loop[l].st /\ Pushed(l, h, TRUE).stop = loop[l].stop
      BY <1>2 DEF Pushed, TypeInv, TypeOK, TurnLoop
    <3> QED
      BY <1>2, <3>1, <3>2 DEF TypeInv, TypeOK
  <2>2. CASE ~Live(l)
    BY <2>2 DEF ChatPush
  <2> QED
    BY <2>1, <2>2
<1>5. \A m \in Starters : Live(m)' <=> Live(m)
  BY <1>4 DEF Live
<1>6. \A g \in Aborts : req[g].pc = "stop" => req'[g].pc = "stop" /\ req'[g].loop = req[g].loop
  BY <1>1, <1>2, Names
<1>7. \A g \in Starters :
            req'[g].pc \in {"lock", "push", "dead", "start", "wait"} => req'[g].ts = tsGen
  BY <1>1, <1>2, <1>3, Names DEF OneLoopInv, ReadsAreFresh
<1>8. \A g \in Chats : req'[g].pc \in {"push", "dead"} =>
            /\ req[g].pc \in {"push", "dead"} /\ req'[g].loop = req[g].loop
            /\ req'[g].pc = "dead" => req[g].pc = "dead" \/ ~Live(req[g].loop)
  BY <1>1, <1>3, Names
<1>9. \A g \in Deletes : req'[g].pc \in {"drop", "forget"} => req[g].pc \in {"drop", "forget"}
  BY <1>1, <1>2, Names
<1> QED
  BY <1>1, <1>5, <1>6, <1>7, <1>8, <1>9, OneLoopFrame

LEMMA StartOneLoop ==
  ASSUME TypeInv, OneLoopInv, OneBusy', NEW h \in Requests, Start(h)
  PROVE  OneLoopInv'
<1>1. /\ h \in Starters /\ req[h].pc = "start" /\ UNCHANGED <<ts, tsGen>>
      /\ \A g \in Requests : g # h => req'[g] = req[g]
  BY OwnRecord DEF Start, tsVars, HandlerStep
<1>2. h \notin Aborts /\ h \notin Deletes /\ req[h].ts = tsGen
  BY <1>1, ChatAssumption DEF OneLoopInv, ReadsAreFresh, Starters
<1>3. req'[h].ts = req[h].ts /\ req'[h].pc = "wait"
  BY DEF Start, TypeInv, TypeOK, Handler
<1>4. \A m \in Starters : Live(m)' => Live(m)
  BY <1>1 DEF Start, Pushed, Live, TypeInv, TypeOK, TurnLoop
<1>6. \A g \in Aborts : req[g].pc = "stop" => req'[g].pc = "stop" /\ req'[g].loop = req[g].loop
  BY <1>1, <1>2, Names
<1>7. \A g \in Starters :
            req'[g].pc \in {"lock", "push", "dead", "start", "wait"} => req'[g].ts = tsGen
  BY <1>1, <1>2, <1>3, Names DEF OneLoopInv, ReadsAreFresh
<1>8. \A g \in Chats : req'[g].pc \in {"push", "dead"} =>
            req[g].pc \in {"push", "dead"} /\ req'[g] = req[g]
  BY <1>1, <1>3, Names
<1>9. \A g \in Deletes : req'[g].pc \in {"drop", "forget"} => req[g].pc \in {"drop", "forget"}
  BY <1>1, <1>2, Names
<1> QED
  BY <1>1, <1>4, <1>6, <1>7, <1>8, <1>9, OneLoopFrame

LEMMA AbortStopOneLoop ==
  ASSUME TypeInv, OneLoopInv, OneBusy', NEW h \in Requests, AbortStop(h)
  PROVE  OneLoopInv'
<1>1. /\ h \in Aborts /\ req[h].pc = "stop" /\ UNCHANGED <<ts, tsGen>>
      /\ \A g \in Requests : g # h => req'[g] = req[g]
  BY OwnRecord DEF AbortStop, tsVars, HandlerStep
<1>3. req'[h].pc = "join" /\ h \notin Starters
  BY <1>1, ChatAssumption DEF AbortStop, TypeInv, TypeOK, Handler, Starters
<1>4. \A m \in Starters : Live(m)' => Live(m) /\ m # req[h].loop
  BY DEF AbortStop, StoppedNow, Live, TypeInv, TypeOK, TurnLoop
<1>6. \A g \in Aborts : req[g].pc = "stop" =>
            \/ req'[g].pc = "stop" /\ req'[g].loop = req[g].loop
            \/ \A m \in Starters : req[g].loop = m => ~Live(m)'
  BY <1>1, <1>4, Names
<1>7. \A g \in Starters :
            req'[g].pc \in {"lock", "push", "dead", "start", "wait"} => req'[g].ts = tsGen
  BY <1>1, <1>3, Names DEF OneLoopInv, ReadsAreFresh
<1>8. \A g \in Chats : req'[g].pc \in {"push", "dead"} =>
            req[g].pc \in {"push", "dead"} /\ req'[g] = req[g]
  BY <1>1, <1>3, Names
<1>9. \A g \in Deletes : req'[g].pc \in {"drop", "forget"} => req[g].pc \in {"drop", "forget"}
  BY <1>1, <1>3, Names
<1> QED
  BY <1>1, <1>4, <1>6, <1>7, <1>8, <1>9, OneLoopFrame

\* While h is busy no other handler has the turn state in hand.
LEMMA OthersRest ==
  ASSUME OneBusy, NEW h \in Requests, Busy(h)
  PROVE  \A g \in Requests : g # h => req[g].pc \in {"idle", "stream"} \cup Finished
  BY DEF OneBusy, Busy

LEMMA ChatSupersedeOneLoop ==
  ASSUME TypeInv, OneLoopInv, OneBusy', NEW h \in Requests, ChatSupersede(h)
  PROVE  OneLoopInv'
<1>1. /\ h \in Chats /\ req[h].pc = "lock" /\ UNCHANGED <<tsGen, loop>>
      /\ \A g \in Requests : g # h => req'[g] = req[g]
  BY OwnRecord DEF ChatSupersede, HandlerStep
<1>2. req[h].ts = tsGen /\ h \in Starters /\ h \notin Aborts /\ h \notin Deletes /\ tsGen \in Gens
  BY <1>1, ChatAssumption DEF OneLoopInv, ReadsAreFresh, Starters, TypeInv, TypeOK
<1>3. /\ ts[tsGen].loop \in Starters /\ ts'[tsGen].loop = ts[tsGen].loop
      /\ req'[h].loop = ts[tsGen].loop /\ req'[h].ts = tsGen /\ req'[h].pc = "push"
  BY <1>2, Fields DEF ChatSupersede, NewBridge, MaybeLoop, TypeInv, TypeOK, Handler, TurnState
<1>4. \A g \in Requests : g # h => req[g].pc \in {"idle", "stream"} \cup Finished
  BY <1>1, OthersRest DEF OneLoopInv, Busy, Finished
<1>5. ReadsAreFresh'
  BY <1>1, <1>2, <1>3, <1>4, Names DEF ReadsAreFresh, Finished
<1>6. LiveIsTheSessions'
  <2>1. \A l \in Starters : Live(l)' <=> Live(l)
    BY <1>1 DEF Live
  <2>2. \A l \in Starters : ~BeingAborted(l)
    BY <1>2, <1>4, Names DEF BeingAborted, Finished
  <2> QED
    BY <1>1, <1>3, <2>1, <2>2 DEF OneLoopInv, LiveIsTheSessions
<1> QED
  BY <1>5, <1>6 DEF OneLoopInv

\* Making a loop: the one the turn state named before is not live then.
LEMMA NewLoopOneLoop ==
  ASSUME TypeInv, OneLoopInv, OneBusy', NEW h \in Requests,
         ChatNewLoop(h) \/ ChatReplaceDead(h) \/ ApproveNewLoop(h)
  PROVE  OneLoopInv'
<1>1. /\ h \in Starters /\ req[h].pc \in {"lock", "dead"} /\ UNCHANGED tsGen
      /\ \A g \in Requests : g # h => req'[g] = req[g]
  BY OwnRecord, Names DEF ChatNewLoop, ChatReplaceDead, ApproveNewLoop, HandlerStep
<1>2. req[h].ts = tsGen /\ h \notin Aborts /\ h \notin Deletes /\ tsGen \in Gens
  BY <1>1, ChatAssumption DEF OneLoopInv, ReadsAreFresh, Starters, TypeInv, TypeOK
<1>3. req'[h].ts = tsGen /\ req'[h].pc = "start"
  <2>1. CASE ChatNewLoop(h)
    BY <1>2, <2>1 DEF ChatNewLoop, TypeInv, TypeOK, Handler
  <2>2. CASE ChatReplaceDead(h)
    BY <1>2, <2>2 DEF ChatReplaceDead, TypeInv, TypeOK, Handler
  <2>3. CASE ApproveNewLoop(h)
    BY <1>2, <2>3 DEF ApproveNewLoop, TypeInv, TypeOK, Handler
  <2> QED
    BY <2>1, <2>2, <2>3
<1>4. \A g \in Requests : g # h => req[g].pc \in {"idle", "stream"} \cup Finished
  BY <1>1, OthersRest DEF OneLoopInv, Busy, Finished
<1>5. ReadsAreFresh'
  BY <1>1, <1>2, <1>3, <1>4, Names DEF ReadsAreFresh, Finished
<1>6. ts'[tsGen].loop = h
  BY <1>2 DEF ChatNewLoop, ChatReplaceDead, ApproveNewLoop, TakeOver, TypeInv, TypeOK
<1>7. \A l \in Starters : l # h => ~Live(l)'
  <2>1. \A l \in Starters : ~BeingAborted(l)
    BY <1>2, <1>4, Names DEF BeingAborted, Finished
  <2>2. \A l \in Starters : Live(l) => ts[tsGen].loop = l
    BY <2>1 DEF OneLoopInv, LiveIsTheSessions
  <2>3. CASE ChatNewLoop(h)
    <3>1. \A l \in Starters : ~Live(l)
      BY <1>2, <2>2, <2>3, Names DEF ChatNewLoop
    <3>2. \A l \in Starters : l # h => loop'[l] = loop[l]
      BY <2>3 DEF ChatNewLoop, TypeInv, TypeOK
    <3> QED
      BY <3>1, <3>2 DEF Live
  <2>4. CASE ChatReplaceDead(h)
    <3>1. \A l \in Starters : ~Live(l)
      BY <2>2, <2>4, Names DEF ChatReplaceDead, OneLoopInv, ReadsAreFresh
    <3>2. \A l \in Starters : l # h => loop'[l] = loop[l]
      BY <2>4 DEF ChatReplaceDead, TypeInv, TypeOK
    <3> QED
      BY <3>1, <3>2 DEF Live
  <2>5. CASE ApproveNewLoop(h)
    <3>1. \A l \in Starters : l # h =>
             /\ l = ts[tsGen].loop => loop'[l].stop = "immediate"
             /\ l # ts[tsGen].loop => loop'[l] = loop[l]
      BY <1>2, <2>5 DEF ApproveNewLoop, StoppedNow, TypeInv, TypeOK, TurnLoop
    <3> QED
      BY <2>2, <3>1 DEF Live
  <2> QED
    BY <2>3, <2>4, <2>5
<1>8. LiveIsTheSessions'
  BY <1>1, <1>6, <1>7 DEF LiveIsTheSessions
<1> QED
  BY <1>5, <1>8 DEF OneLoopInv

\* An arriving request finds no other handler at work.
LEMMA ArrivalAlone ==
  ASSUME Pace # "any", NEW h \in Requests, MayArrive(h)
  PROVE  \A g \in Requests : req[g].pc \in {"idle", "stream"} \cup Finished
  BY DEF MayArrive

LEMMA TakeOneLoop ==
  ASSUME Pace # "any", TypeInv, OneLoopInv, OneBusy', NEW h \in Requests,
         AbortTake(h) \/ DeleteStop(h)
  PROVE  OneLoopInv'
<1>1. /\ h \in Aborts \cup Deletes /\ MayArrive(h) /\ UNCHANGED tsGen /\ tsGen \in Gens
      /\ \A g \in Requests : g # h => req'[g] = req[g]
  BY OwnRecord DEF AbortTake, DeleteStop, Arrival, TypeInv, TypeOK
<1>2. \A g \in Requests : req[g].pc \in {"idle", "stream"} \cup Finished
  BY <1>1, ArrivalAlone
<1>3. h \notin Starters /\ ts'[tsGen].loop = None
  BY <1>1, ChatAssumption DEF AbortTake, DeleteStop, Starters, TypeInv, TypeOK, TurnState
<1>4. ReadsAreFresh'
  BY <1>1, <1>2, <1>3, Names DEF ReadsAreFresh, Finished
<1>5. \A l \in Starters : Live(l) => ts[tsGen].loop = l
  BY <1>2, Names DEF OneLoopInv, LiveIsTheSessions, BeingAborted, Finished
<1>6. LiveIsTheSessions'
  <2>1. CASE AbortTake(h)
    <3>1. \A l \in Starters : Live(l)' <=> Live(l)
      BY <2>1 DEF AbortTake, Live
    <3>2. /\ h \in Aborts
          /\ ts[tsGen].loop # None => req'[h].pc = "stop" /\ req'[h].loop = ts[tsGen].loop
      BY <2>1 DEF AbortTake, TypeInv, TypeOK, Handler
    <3> QED
      BY <1>5, <3>1, <3>2, Names DEF LiveIsTheSessions, BeingAborted
  <2>2. CASE DeleteStop(h)
    <3>1. \A l \in Starters : Live(l)' => Live(l) /\ l # ts[tsGen].loop
      BY <2>2, Names DEF DeleteStop, StoppedNow, Live, TypeInv, TypeOK, TurnLoop
    <3> QED
      BY <1>5, <3>1 DEF LiveIsTheSessions
  <2> QED
    BY <2>1, <2>2
<1> QED
  BY <1>4, <1>6 DEF OneLoopInv

LEMMA DeleteStateOneLoop ==
  ASSUME TypeInv, OneLoopInv, OneBusy', NEW h \in Requests, DeleteState(h)
  PROVE  OneLoopInv'
<1>1. /\ h \in Deletes /\ req[h].pc = "forget" /\ UNCHANGED <<ts, loop>>
      /\ \A g \in Requests : g # h => req'[g] = req[g]
      /\ req'[h].pc = "done" /\ h \notin Starters
  BY OwnRecord, ChatAssumption DEF DeleteState, HandlerStep, TypeInv, TypeOK, Handler, Starters
<1>2. \A g \in Requests : g # h => req[g].pc \in {"idle", "stream"} \cup Finished
  BY <1>1, OthersRest DEF OneLoopInv, Busy, Finished
<1>3. ReadsAreFresh'
  BY <1>1, <1>2, Names DEF ReadsAreFresh, Finished
<1>4. \A l \in Starters : ~Live(l)
  <2>1. ts[tsGen].loop = None
    BY <1>1 DEF OneLoopInv, ReadsAreFresh
  <2>2. \A l \in Starters : ~BeingAborted(l)
    BY <1>1, <1>2, Names DEF BeingAborted, Finished
  <2> QED
    BY <2>1, <2>2, Names DEF OneLoopInv, LiveIsTheSessions
<1>5. LiveIsTheSessions'
  BY <1>1, <1>4 DEF LiveIsTheSessions, Live
<1> QED
  BY <1>3, <1>5 DEF OneLoopInv

LEMMA OneLoopStep ==
  ASSUME Pace # "any", TypeInv, OneLoopInv, [Next]_vars
  PROVE  OneLoopInv'
<1>1. OneBusy'
  BY OneBusyStep DEF OneLoopInv
<1>2. ASSUME NEW h \in Requests, Arrival(h) \/ HandlerStep(h) PROVE OneLoopInv'
  BY <1>1, <1>2, QuietSteps, ChatPushOneLoop, StartOneLoop, AbortStopOneLoop,
     ChatSupersedeOneLoop, NewLoopOneLoop, TakeOneLoop, DeleteStateOneLoop
     DEF Arrival, HandlerStep
<1>3. ASSUME NEW l \in Starters, LoopStep(l) PROVE OneLoopInv'
  BY <1>1, <1>3, LoopSteps
<1>4. CASE UNCHANGED vars
  BY <1>1, <1>4 DEF vars, OneLoopInv, ReadsAreFresh, LiveIsTheSessions, Live, BeingAborted
<1> QED
  BY <1>2, <1>3, <1>4 DEF Next

LEMMA OneLoopInit == ASSUME Init PROVE OneLoopInv
<1>1. \A h \in Requests : req[h].pc = "idle"
  BY DEF Init
<1>2. OneBusy /\ ReadsAreFresh
  BY <1>1, Names DEF OneBusy, Busy, ReadsAreFresh
<1>3. LiveIsTheSessions
  BY DEF Init, LiveIsTheSessions, Live, NoLoop
<1> QED
  BY <1>2, <1>3 DEF OneLoopInv

\* ch11_turnloop.md:81: when clients wait for their answers to start before they send
\* on, a session never has two TurnLoops at work, whatever chats, approvals, aborts,
\* deletions and timeouts there are, and however their steps mix with the loops'.
THEOREM OneLoopAtATime == Pace # "any" => (Spec => []OneLiveLoop)
<1> SUFFICES ASSUME Pace # "any" PROVE Spec => []OneLiveLoop
  OBVIOUS
<1>1. Init => TypeInv /\ OneLoopInv
  BY InitType, OneLoopInit
<1>2. TypeInv /\ OneLoopInv /\ [Next]_vars => (TypeInv /\ OneLoopInv)'
  BY StepType, OneLoopStep
<1>3. OneLoopInv => OneLiveLoop
  <2> SUFFICES ASSUME OneLoopInv PROVE OneLiveLoop
    OBVIOUS
  <2> DEFINE L == {l \in Starters : Live(l) /\ ~BeingAborted(l)}
  <2>1. L \subseteq {ts[tsGen].loop}
    BY DEF OneLoopInv, LiveIsTheSessions
  <2>2. L = {} \/ L = {ts[tsGen].loop}
    BY <2>1
  <2>3. Cardinality(L) <= 1
    <3> HIDE DEF L
    <3>1. Cardinality({}) = 0 /\ Cardinality({ts[tsGen].loop}) = 1
      BY FS_EmptySet, FS_Singleton
    <3> QED
      BY <2>2, <3>1
  <2> QED
    BY <2>3 DEF OneLiveLoop
<1> QED
  BY <1>1, <1>2, <1>3, PTL DEF Spec
-----------------------------------------------------------------------------
(* Replies.  Clients that wait, questions only, and no 60 s timeout (a handler that *)
(* gives up leaves its item behind, for a later turn to send to another's bridge):  *)
(* then a result reaches the turn whose events the handler has streamed.  The turn  *)
(* of a question finds the bridge of that question in the turn state, for the       *)
(* question's handler is still waiting when the callback takes its snapshot, and no *)
(* other handler is at work; and what goes over a bridge is about its maker only.   *)

PatientQuestions == Pace # "any" /\ ~Timeouts /\ Approves = {}

\* The bridges that handler h may make.
Own(h) == {<<h, 1>>, <<h, 2>>}

Unsent(c) == \A b \in Own(c) : chan[b].ready = None

\* Handler c waits for the events of its item, which loop l has and has not sent.
Expected(c, l) == req[c].pc = "wait" /\ req[c].loop = l /\ Unsent(c)

\* A loop has one item at most that its turns have not sent yet, and its handler waits.
Items ==
    \A l \in Starters :
        /\ loop[l].queue # << >> =>
              \E c \in Starters : loop[l].queue = <<c>> /\ Expected(c, l)
        /\ loop[l].st \in {"snap", "send"} =>
              /\ loop[l].queue = << >>
              /\ loop[l].turn \in Starters
              /\ Expected(loop[l].turn, l)

\* What goes over a bridge is about the handler that made it.
Envelopes ==
    \A h \in Starters :
        /\ \A b \in Own(h) :
              /\ chan[b].ready \in {None, h}
              /\ chan[b].done # NoResult => chan[b].done.turn = h
              /\ chan[b].closed => req[h].pc \in {"stream"} \cup Finished
        /\ req[h].pc \in {"idle", "clear", "enter", "lock", "push", "dead", "start"} => Unsent(h)

\* A handler holds its own bridge, and so does the turn state while it waits.
OwnBridges ==
    /\ \A h \in Starters :
          /\ req[h].pc \in {"push", "dead", "start", "wait", "stream"} => req[h].bridge \in Own(h)
          /\ req[h].pc \in {"push", "start", "wait"} => ts[tsGen].bridge = req[h].bridge
          /\ req[h].pc = "start" => req[h].loop = h
          /\ req[h].pc = "stream" => req[h].turn = h
    /\ \A l \in Starters : loop[l].st \in {"send", "await"} =>
          loop[l].turn \in Starters /\ loop[l].bridge \in Own(loop[l].turn)

ReplyInv == Items /\ Envelopes /\ OwnBridges /\ ReplyToOwnTurn

\* Handler steps that leave everything of a reply alone, and most of a loop's steps.
LEMMA ReplyFrame ==
  ASSUME TypeInv, ReplyInv, UNCHANGED <<chan, replies>>,
         \A h \in Starters :
            \/ req'[h] = req[h]
            \/ /\ req[h].pc \in {"idle", "clear", "enter"}
               /\ req'[h].pc \in {"clear", "enter", "lock", "rejected"},
         \A h \in Starters : req[h].pc \in {"push", "start", "wait"} =>
            ts'[tsGen'].bridge = ts[tsGen].bridge,
         \A l \in Starters :
            /\ loop'[l].queue = loop[l].queue
            /\ loop'[l].st \in {"snap", "send"} => loop[l].st \in {"snap", "send"}
            /\ loop'[l].st \in {"send", "await"} => loop[l].st \in {"send", "await"}
            /\ loop'[l].st \in {"snap", "send", "await"} =>
                  loop'[l].turn = loop[l].turn /\ loop'[l].bridge = loop[l].bridge
  PROVE  ReplyInv'
<1>1. \A c, l \in Starters : Expected(c, l) => Expected(c, l)'
  BY DEF Expected, Unsent
<1>2. Items'
  BY <1>1 DEF ReplyInv, Items
<1>3. Envelopes'
  BY DEF ReplyInv, Envelopes, Unsent, Finished
<1>4. OwnBridges'
  BY DEF ReplyInv, OwnBridges
<1> QED
  BY <1>2, <1>3, <1>4 DEF ReplyInv, ReplyToOwnTurn

\* While a handler is at work that does not wait, no loop has an item to send.
LEMMA NothingExpected ==
  ASSUME TypeInv, OneLoopInv, Items, NEW h \in Requests, Busy(h), req[h].pc # "wait"
  PROVE  \A l \in Starters : loop[l].queue = << >> /\ loop[l].st \notin {"snap", "send"}
<1>1. \A c, l \in Starters : ~Expected(c, l)
  <2> SUFFICES ASSUME NEW c \in Starters, req[c].pc = "wait" PROVE FALSE
    BY DEF Expected
  <2>1. Busy(c) /\ c \in Requests /\ h \in Requests
    BY Names DEF Busy, Finished
  <2> QED
    BY <2>1 DEF OneLoopInv, OneBusy
<1> QED
  BY <1>1 DEF Items

\* The handler at work is the only one whose bridge the turn state holds.
LEMMA OthersNotWaiting ==
  ASSUME TypeInv, OneLoopInv, NEW h \in Requests, Busy(h)
  PROVE  \A c \in Starters : c # h => req[c].pc \in {"idle", "stream"} \cup Finished
  BY Names, OthersRest DEF OneLoopInv

LEMMA QuietReply ==
  ASSUME TypeInv, OneLoopInv, ReplyInv, NEW h \in Requests,
         \/ Enter(h) \/ Lookup(h) \/ AbortTake(h) \/ AbortStop(h) \/ AbortJoin(h)
         \/ DeleteStop(h) \/ DeleteStore(h) \/ DeleteState(h)
         \/ ApproveRead(h) \/ ApproveClear(h)
  PROVE  ReplyInv'
<1>1. UNCHANGED <<chan, replies>>
  BY DEF Enter, Lookup, AbortTake, AbortStop, AbortJoin, DeleteStop, DeleteStore, DeleteState,
         ApproveRead, ApproveClear
<1>2. \A c \in Starters :
            \/ req'[c] = req[c]
            \/ /\ req[c].pc \in {"idle", "clear", "enter"}
               /\ req'[c].pc \in {"clear", "enter", "lock", "rejected"}
  <2>1. \A c \in Starters : c # h => req'[c] = req[c]
    BY OwnRecord, Names DEF Arrival, HandlerStep
  <2>2. CASE Enter(h)
    BY <2>1, <2>2 DEF Enter, MayArrive, TypeInv, TypeOK, Handler
  <2>3. CASE Lookup(h)
    BY <2>1, <2>3 DEF Lookup, TypeInv, TypeOK, Handler
  <2>4. CASE ApproveClear(h)
    BY <2>1, <2>4 DEF ApproveClear, TypeInv, TypeOK, Handler
  <2>5. CASE ApproveRead(h)
    <3>1. CASE req' = [req EXCEPT ![h].pc = "rejected"]
      BY <2>1, <2>5, <3>1 DEF ApproveRead, MayArrive, TypeInv, TypeOK, Handler
    <3>2. CASE req' = [req EXCEPT ![h] = [@ EXCEPT !.pc = "clear", !.sess = sessGen,
                                                     !.seen = sess[sessGen].pending]]
      BY <2>1, <2>5, <3>2 DEF ApproveRead, MayArrive, TypeInv, TypeOK, Handler
    <3> QED
      BY <2>5, <3>1, <3>2 DEF ApproveRead
  <2>6. CASE ~Enter(h) /\ ~Lookup(h) /\ ~ApproveRead(h) /\ ~ApproveClear(h)
    <3>1. h \notin Starters
      BY <2>6, ChatAssumption DEF AbortTake, AbortStop, AbortJoin, DeleteStop, DeleteStore,
         DeleteState, Starters
    <3> QED
      BY <2>1, <3>1
  <2> QED
    BY <2>2, <2>3, <2>4, <2>5, <2>6
<1>3. \A c \in Starters : req[c].pc \in {"push", "start", "wait"} =>
            ts'[tsGen'].bridge = ts[tsGen].bridge
  <2>1. CASE DeleteState(h)
    <3>1. h \in Deletes /\ req[h].pc = "forget" /\ h \notin Starters
      BY <2>1, ChatAssumption DEF DeleteState, Starters
    <3>2. \A c \in Starters : req[c].pc \in {"idle", "stream"} \cup Finished
      BY <3>1, OthersNotWaiting DEF Busy, Finished
    <3> QED
      BY <3>2 DEF Finished
  <2>2. CASE AbortTake(h) \/ DeleteStop(h)
    BY <2>2 DEF AbortTake, DeleteStop, TypeInv, TypeOK, TurnState
  <2>3. CASE ~DeleteState(h) /\ ~AbortTake(h) /\ ~DeleteStop(h)
    BY <2>3 DEF Enter, Lookup, AbortStop, AbortJoin, DeleteStore, ApproveRead, ApproveClear, tsVars
  <2> QED
    BY <2>1, <2>2, <2>3
<1>4. \A l \in Starters :
            /\ loop'[l].queue = loop[l].queue
            /\ loop'[l].st = loop[l].st
            /\ loop'[l].turn = loop[l].turn /\ loop'[l].bridge = loop[l].bridge
  <2>1. CASE AbortStop(h)
    BY <2>1 DEF AbortStop, StoppedNow, TypeInv, TypeOK, TurnLoop
  <2>2. CASE DeleteStop(h)
    BY <2>2 DEF DeleteStop, StoppedNow, TypeInv, TypeOK, TurnLoop
  <2>3. CASE ~AbortStop(h) /\ ~DeleteStop(h)
    BY <2>3 DEF Enter, Lookup, AbortTake, AbortJoin, DeleteStore, DeleteState,
         ApproveRead, ApproveClear
  <2> QED
    BY <2>1, <2>2, <2>3
<1> QED
  BY <1>1, <1>2, <1>3, <1>4, ReplyFrame

LEMMA QuietLoopReply ==
  ASSUME TypeInv, ReplyInv, NEW l \in Starters,
         \/ LoopPlain(l) \/ LoopResumeFails(l) \/ LoopIdleStop(l) \/ LoopPreempt(l)
         \/ TurnCancelled(l) \/ LoopExit(l) \/ Cleanup(l)
  PROVE  ReplyInv'
<1>1. UNCHANGED <<chan, replies, req, tsGen>> /\ tsGen \in Gens
  BY DEF LoopPlain, LoopResumeFails, LoopIdleStop, LoopPreempt, TurnCancelled, LoopExit,
         Cleanup, tsVars, TypeInv, TypeOK
<1>2. ts'[tsGen].bridge = ts[tsGen].bridge
  <2>1. CASE Cleanup(l)
    BY <1>1, <2>1 DEF Cleanup, ForgetLoop, TypeInv, TypeOK, TurnState
  <2>2. CASE ~Cleanup(l)
    BY <2>2 DEF LoopPlain, LoopResumeFails, LoopIdleStop, LoopPreempt, TurnCancelled, LoopExit,
         tsVars
  <2> QED
    BY <2>1, <2>2
<1>3. \A m \in Starters :
            /\ loop'[m].queue = loop[m].queue
            /\ loop'[m].st \in {"snap", "send", "await"} =>
                  /\ loop'[m].st = loop[m].st
                  /\ loop'[m].turn = loop[m].turn /\ loop'[m].bridge = loop[m].bridge
  <2>1. CASE Cleanup(l)
    BY <2>1 DEF Cleanup
  <2>2. CASE TurnCancelled(l)
    BY <2>2 DEF TurnCancelled, AfterTurn, TypeInv, TypeOK, TurnLoop
  <2>3. CASE LoopPreempt(l) \/ LoopExit(l)
    BY <2>3 DEF LoopPreempt, LoopExit, TypeInv, TypeOK, TurnLoop
  <2>4. CASE LoopPlain(l)
    BY <2>4 DEF LoopPlain, TypeInv, TypeOK, TurnLoop
  <2>5. CASE LoopResumeFails(l)
    BY <2>5 DEF LoopResumeFails, TypeInv, TypeOK, TurnLoop
  <2>6. CASE LoopIdleStop(l)
    BY <2>6 DEF LoopIdleStop, TypeInv, TypeOK, TurnLoop
  <2> QED
    BY <2>1, <2>2, <2>3, <2>4, <2>5, <2>6
<1> QED
  BY <1>1, <1>2, <1>3, ReplyFrame

\* The handler's own steps, one by one: it makes its bridge ...
LEMMA ChatSupersedeReply ==
  ASSUME TypeInv, BridgeInv, OneLoopInv, ReplyInv, NEW h \in Requests, ChatSupersede(h)
  PROVE  ReplyInv'
<1>1. /\ h \in Chats /\ h \in Starters /\ req[h].pc = "lock" /\ UNCHANGED <<tsGen, loop, replies>>
      /\ \A c \in Starters : c # h => req'[c] = req[c]
  BY OwnRecord, Names DEF ChatSupersede, HandlerStep
<1>2. tsGen \in Gens /\ req[h].ts = tsGen /\ Busy(h)
  BY <1>1 DEF OneLoopInv, ReadsAreFresh, TypeInv, TypeOK, Busy, Finished
<1>3. \A l \in Starters : loop[l].queue = << >> /\ loop[l].st \notin {"snap", "send"}
  BY <1>1, <1>2, NothingExpected DEF ReplyInv
<1>4. \A c \in Starters : c # h => req[c].pc \in {"idle", "stream"} \cup Finished
  BY <1>2, OthersNotWaiting
<1>5. /\ req'[h].pc = "push" /\ req'[h].bridge = <<h, 1>>
      /\ ts'[tsGen].bridge = <<h, 1>>
  BY <1>1, <1>2 DEF ChatSupersede, NewBridge, TypeInv, TypeOK, Handler, TurnState
<1>6. \A b \in Bridge :
         /\ chan'[b].ready = chan[b].ready /\ chan'[b].done = chan[b].done
         /\ chan'[b].closed => chan[b].closed \/ b = ts[tsGen].bridge
  BY <1>1, <1>2 DEF ChatSupersede, CloseHandlerDone, TypeInv, TypeOK, Channels
<1>7. \A c \in Starters : \A b \in Own(c) :
         b = ts[tsGen].bridge => req[c].pc \in {"stream"} \cup Finished
  <2> SUFFICES ASSUME NEW c \in Starters, NEW k \in {1, 2}, <<c, k>> = ts[tsGen].bridge
               PROVE  req[c].pc \in {"stream"} \cup Finished
    BY DEF Own
  <2>1. ~Unmade(c, k)
    BY <1>2 DEF BridgeInv
  <2>2. c # h /\ req[c].pc # "idle"
    BY <1>1, <2>1 DEF Unmade
  <2> QED
    BY <1>4, <2>2
<1>8. \A c \in Starters : Own(c) \subseteq Bridge
  BY Names DEF Own
<1>9. Items'
  BY <1>1, <1>3 DEF Items
<1>10. Envelopes'
  <2>1. ASSUME NEW c \in Starters, c # h
        PROVE  /\ \A b \in Own(c) :
                      /\ chan'[b].ready \in {None, c}
                      /\ chan'[b].done # NoResult => chan'[b].done.turn = c
                      /\ chan'[b].closed => req'[c].pc \in {"stream"} \cup Finished
               /\ req'[c].pc \in {"idle", "clear", "enter", "lock", "push", "dead", "start"} => Unsent(c)'
    BY <1>1, <1>6, <1>7, <1>8, <2>1 DEF ReplyInv, Envelopes, Unsent
  <2>2. /\ \A b \in Own(h) :
                      /\ chan'[b].ready \in {None, h}
                      /\ chan'[b].done # NoResult => chan'[b].done.turn = h
                      /\ ~chan'[b].closed
        /\ Unsent(h)'
    BY <1>1, <1>6, <1>7, <1>8 DEF ReplyInv, Envelopes, Unsent, Finished
  <2> QED
    BY <2>1, <2>2 DEF Envelopes
<1>11. OwnBridges'
  BY <1>1, <1>4, <1>5, ZenonT(60) DEF ReplyInv, OwnBridges, Own, Finished
<1> QED
  BY <1>1, <1>9, <1>10, <1>11 DEF ReplyInv, ReplyToOwnTurn

\* ... or a loop and its bridge ...
LEMMA NewLoopReply ==
  ASSUME TypeInv, BridgeInv, OneLoopInv, ReplyInv, NEW h \in Requests,
         ChatNewLoop(h) \/ ChatReplaceDead(h)
  PROVE  ReplyInv'
<1>1. /\ h \in Starters /\ req[h].pc \in {"lock", "dead"} /\ UNCHANGED <<tsGen, chan, replies>>
      /\ \A c \in Starters : c # h => req'[c] = req[c]
  BY OwnRecord, Names DEF ChatNewLoop, ChatReplaceDead, HandlerStep
<1>2. tsGen \in Gens /\ req[h].ts = tsGen /\ Busy(h)
  BY <1>1 DEF OneLoopInv, ReadsAreFresh, TypeInv, TypeOK, Busy, Finished
<1>3. \A l \in Starters : loop[l].queue = << >> /\ loop[l].st \notin {"snap", "send"}
  BY <1>1, <1>2, NothingExpected DEF ReplyInv
<1>4. \A c \in Starters : c # h => req[c].pc \in {"idle", "stream"} \cup Finished
  BY <1>2, OthersNotWaiting
<1>5. PICK k \in {1, 2} :
        /\ req'[h].pc = "start" /\ req'[h].bridge = <<h, k>> /\ req'[h].loop = h
        /\ ts'[tsGen].bridge = <<h, k>>
  <2>1. CASE ChatNewLoop(h)
    <3>1. /\ req'[h].pc = "start" /\ req'[h].bridge = <<h, 1>> /\ req'[h].loop = h
          /\ ts'[tsGen].bridge = <<h, 1>>
      BY <1>1, <1>2, <2>1 DEF ChatNewLoop, TakeOver, TypeInv, TypeOK, Handler
    <3> QED
      BY <3>1
  <2>2. CASE ChatReplaceDead(h)
    <3>1. /\ req'[h].pc = "start" /\ req'[h].bridge = <<h, 2>> /\ req'[h].loop = h
          /\ ts'[tsGen].bridge = <<h, 2>>
      BY <1>1, <1>2, <2>2 DEF ChatReplaceDead, TakeOver, TypeInv, TypeOK, Handler
    <3> QED
      BY <3>1
  <2> QED
    BY <2>1, <2>2
<1>6. \A l \in Starters : /\ loop'[l].queue = loop[l].queue
                          /\ loop'[l].st = "made" \/ loop'[l] = loop[l]
  BY DEF ChatNewLoop, ChatReplaceDead, TypeInv, TypeOK, TurnLoop
<1>7. Items'
  BY <1>3, <1>6 DEF Items
<1>8. Envelopes'
  BY <1>1, <1>5 DEF ReplyInv, Envelopes, Unsent, Finished
<1>9. OwnBridges'
  <2>1. \A c \in Starters :
          /\ req'[c].pc \in {"push", "dead", "start", "wait", "stream"} => req'[c].bridge \in Own(c)
          /\ req'[c].pc \in {"push", "start", "wait"} => ts'[tsGen].bridge = req'[c].bridge
          /\ req'[c].pc = "start" => req'[c].loop = c
          /\ req'[c].pc = "stream" => req'[c].turn = c
    BY <1>1, <1>4, <1>5, ZenonT(60) DEF ReplyInv, OwnBridges, Own, Finished
  <2>2. \A l \in Starters : loop'[l].st \in {"send", "await"} =>
          loop'[l].turn \in Starters /\ loop'[l].bridge \in Own(loop'[l].turn)
    BY <1>6 DEF ReplyInv, OwnBridges
  <2> QED
    BY <1>1, <2>1, <2>2 DEF OwnBridges
<1> QED
  BY <1>1, <1>7, <1>8, <1>9 DEF ReplyInv, ReplyToOwnTurn

LEMMA AppendToNone == \A x : Append(<< >>, x) = <<x>>
  OBVIOUS

\* ... and gives its item to a loop.
LEMMA ChatPushReply ==
  ASSUME TypeInv, OneLoopInv, ReplyInv, NEW h \in Requests, ChatPush(h)
  PROVE  ReplyInv'
<1>1. /\ h \in Chats /\ h \in Starters /\ req[h].pc = "push"
      /\ UNCHANGED <<ts, tsGen, chan, replies>>
      /\ \A c \in Starters : c # h => req'[c] = req[c]
  BY OwnRecord, Names DEF ChatPush, tsVars, HandlerStep
<1>2. PICK l \in Starters : l = req[h].loop /\ Busy(h)
  BY <1>1 DEF OneLoopInv, ReadsAreFresh, Busy, Finished
<1>3. \A m \in Starters : loop[m].queue = << >> /\ loop[m].st \notin {"snap", "send"}
  BY <1>1, <1>2, NothingExpected DEF ReplyInv
<1>4. /\ req'[h].pc \in {"wait", "dead"}
      /\ req'[h].bridge = req[h].bridge /\ req'[h].loop = l
      /\ Live(l) => req'[h].pc = "wait"
  BY <1>1, <1>2 DEF ChatPush, TypeInv, TypeOK, Handler
<1>5. \A m \in Starters :
         /\ loop'[m].st = loop[m].st
         /\ loop'[m].turn = loop[m].turn /\ loop'[m].bridge = loop[m].bridge
         /\ loop'[m].queue = IF Live(l) /\ m = l THEN <<h>> ELSE << >>
  <2>1. CASE Live(l)
    <3>1. loop' = [loop EXCEPT ![l] = Pushed(l, h, TRUE)]
      BY <1>2, <2>1 DEF ChatPush
    <3>2. Append(loop[l].queue, h) = <<h>>
      BY <1>2, <1>3, AppendToNone
    <3>3. /\ Pushed(l, h, TRUE).queue = <<h>> /\ Pushed(l, h, TRUE).st = loop[l].st
          /\ Pushed(l, h, TRUE).turn = loop[l].turn /\ Pushed(l, h, TRUE).bridge = loop[l].bridge
      BY <1>2, <3>2 DEF Pushed, TypeInv, TypeOK, TurnLoop
    <3> QED
      BY <1>2, <1>3, <2>1, <3>1, <3>3 DEF TypeInv, TypeOK
  <2>2. CASE ~Live(l)
    BY <1>2, <1>3, <2>2 DEF ChatPush
  <2> QED
    BY <2>1, <2>2
<1>6. Items'
  <2>1. Live(l) => Expected(h, l)'
    <3>1. Unsent(h)'
      BY <1>1 DEF ReplyInv, Envelopes, Unsent
    <3> QED
      BY <1>4, <3>1 DEF Expected
  <2>2. \A m \in Starters : loop'[m].queue # << >> =>
           \E c \in Starters : loop'[m].queue = <<c>> /\ Expected(c, m)'
    BY <1>1, <1>5, <2>1
  <2> QED
    BY <1>3, <1>5, <2>2 DEF Items
<1>7. Envelopes'
  BY <1>1, <1>4 DEF ReplyInv, Envelopes, Unsent, Finished
<1>8. OwnBridges'
  <2>1. \A c \in Starters :
          /\ req'[c].pc \in {"push", "dead", "start", "wait", "stream"} => req'[c].bridge \in Own(c)
          /\ req'[c].pc \in {"push", "start", "wait"} => ts'[tsGen].bridge = req'[c].bridge
          /\ req'[c].pc = "start" => req'[c].loop = c
          /\ req'[c].pc = "stream" => req'[c].turn = c
    BY <1>1, <1>4 DEF ReplyInv, OwnBridges
  <2>2. \A m \in Starters : loop'[m].st \in {"send", "await"} =>
          loop'[m].turn \in Starters /\ loop'[m].bridge \in Own(loop'[m].turn)
    BY <1>5 DEF ReplyInv, OwnBridges
  <2> QED
    BY <1>1, <2>1, <2>2 DEF OwnBridges
<1> QED
  BY <1>1, <1>6, <1>7, <1>8 DEF ReplyInv, ReplyToOwnTurn

LEMMA StartReply ==
  ASSUME TypeInv, OneLoopInv, ReplyInv, NEW h \in Requests, Start(h)
  PROVE  ReplyInv'
<1>1. /\ h \in Starters /\ req[h].pc = "start"
      /\ UNCHANGED <<ts, tsGen, chan, replies>>
      /\ \A c \in Starters : c # h => req'[c] = req[c]
  BY OwnRecord, Names DEF Start, tsVars, HandlerStep
<1>2. Busy(h) /\ req[h].loop = h
  BY <1>1 DEF Busy, Finished, ReplyInv, OwnBridges
<1>3. \A m \in Starters : loop[m].queue = << >> /\ loop[m].st \notin {"snap", "send"}
  BY <1>1, <1>2, NothingExpected DEF ReplyInv
<1>4. req'[h].pc = "wait" /\ req'[h].bridge = req[h].bridge /\ req'[h].loop = h
  BY <1>1, <1>2 DEF Start, TypeInv, TypeOK, Handler
<1>5. \A m \in Starters :
         /\ loop'[m].st \in {"load", "exited"} \/ loop'[m] = loop[m]
         /\ loop'[m].queue \in IF m = h THEN {<<h>>, << >>} ELSE {<< >>}
  <2>1. \A m \in Starters : m # h => loop'[m] = loop[m]
    BY DEF Start, TypeInv, TypeOK
  <2>2. loop'[h].st \in {"load", "exited"} /\ loop'[h].queue \in {<<h>>, << >>}
    <3>1. CASE Live(h)
      <4>1. loop'[h] = [Pushed(h, h, FALSE) EXCEPT !.st = "load"]
        BY <1>1, <3>1 DEF Start, TypeInv, TypeOK
      <4>2. Append(loop[h].queue, h) = <<h>>
        BY <1>1, <1>3, AppendToNone
      <4>3. Pushed(h, h, FALSE) \in TurnLoop
        BY <1>1, LoopRecords DEF TypeInv
      <4>4. Pushed(h, h, FALSE).queue = <<h>>
        BY <1>1, <4>2 DEF Pushed, TypeInv, TypeOK, TurnLoop
      <4> QED
        BY <4>1, <4>3, <4>4 DEF TurnLoop
    <3>2. CASE ~Live(h)
      BY <1>1, <1>3, <3>2 DEF Start, TypeInv, TypeOK, TurnLoop
    <3> QED
      BY <3>1, <3>2
  <2> QED
    BY <1>3, <2>1, <2>2
<1>6. Items'
  <2>1. Expected(h, h)'
    <3>1. Unsent(h)'
      BY <1>1 DEF ReplyInv, Envelopes, Unsent
    <3> QED
      BY <1>4, <3>1 DEF Expected
  <2>2. \A m \in Starters : loop'[m].queue # << >> =>
           \E c \in Starters : loop'[m].queue = <<c>> /\ Expected(c, m)'
    BY <1>1, <1>5, <2>1
  <2> QED
    BY <1>3, <1>5, <2>2 DEF Items
<1>7. Envelopes'
  BY <1>1, <1>4 DEF ReplyInv, Envelopes, Unsent, Finished
<1>8. OwnBridges'
  <2>1. \A c \in Starters :
          /\ req'[c].pc \in {"push", "dead", "start", "wait", "stream"} => req'[c].bridge \in Own(c)
          /\ req'[c].pc \in {"push", "start", "wait"} => ts'[tsGen].bridge = req'[c].bridge
          /\ req'[c].pc = "start" => req'[c].loop = c
          /\ req'[c].pc = "stream" => req'[c].turn = c
    BY <1>1, <1>4 DEF ReplyInv, OwnBridges
  <2>2. \A m \in Starters : loop'[m].st \in {"send", "await"} =>
          loop'[m].turn \in Starters /\ loop'[m].bridge \in Own(loop'[m].turn)
    BY <1>5 DEF ReplyInv, OwnBridges
  <2> QED
    BY <1>1, <2>1, <2>2 DEF OwnBridges
<1> QED
  BY <1>1, <1>6, <1>7, <1>8 DEF ReplyInv, ReplyToOwnTurn

\* A handler receives the events of its own turn, and answers with a result about it.
LEMMA ReceiveReply ==
  ASSUME TypeInv, ReplyInv, NEW h \in Requests, Receive(h)
  PROVE  ReplyInv'
<1>1. /\ h \in Starters /\ req[h].pc = "wait" /\ chan[req[h].bridge].ready # None
      /\ UNCHANGED <<ts, tsGen, loop, replies>>
      /\ \A c \in Starters : c # h => req'[c] = req[c]
  BY OwnRecord, Names DEF Receive, tsVars, HandlerStep
<1>2. PICK b \in Own(h) : b = req[h].bridge
  BY <1>1 DEF ReplyInv, OwnBridges
<1>3. chan[b].ready = h /\ b \in Bridge /\ ~Unsent(h)
  BY <1>1, <1>2, Names DEF ReplyInv, Envelopes, Unsent, Own
<1>4. req'[h].pc = "stream" /\ req'[h].turn = h /\ req'[h].bridge = b
  BY <1>1, <1>2, <1>3 DEF Receive, TypeInv, TypeOK, Handler
<1>5. \A a \in Bridge : /\ chan'[a].done = chan[a].done /\ chan'[a].closed = chan[a].closed
                        /\ chan'[a].ready \in {None, chan[a].ready}
  BY <1>2, <1>3 DEF Receive, TypeInv, TypeOK, Channels
<1>6. \A c \in Starters : Own(c) \subseteq Bridge
  BY Names DEF Own
<1>7. Items'
  <2>1. \A c, l \in Starters : Expected(c, l) => Expected(c, l)'
    BY <1>1, <1>3, <1>5, <1>6, Names DEF Expected, Unsent
  <2> QED
    BY <1>1, <2>1 DEF ReplyInv, Items
<1>8. Envelopes'
  BY <1>1, <1>4, <1>5, <1>6, Names DEF ReplyInv, Envelopes, Unsent
<1>9. OwnBridges'
  BY <1>1, <1>2, <1>4 DEF ReplyInv, OwnBridges
<1> QED
  BY <1>1, <1>7, <1>8, <1>9 DEF ReplyInv, ReplyToOwnTurn

LEMMA StreamEndReply ==
  ASSUME TypeInv, ReplyInv, NEW h \in Requests, StreamEnd(h)
  PROVE  ReplyInv'
<1>1. /\ h \in Starters /\ req[h].pc = "stream"
      /\ UNCHANGED <<ts, tsGen, loop, replies>>
      /\ \A c \in Starters : c # h => req'[c] = req[c]
  BY OwnRecord, Names DEF StreamEnd, tsVars, HandlerStep
<1>2. PICK b \in Own(h) : b = req[h].bridge
  BY <1>1 DEF ReplyInv, OwnBridges
<1>3. b \in Bridge /\ req[h].turn = h
  BY <1>1, <1>2, Names DEF ReplyInv, OwnBridges, Own
<1>4. req'[h].pc = "done"
  BY <1>1 DEF StreamEnd, TypeInv, TypeOK
<1>5. PICK k : chan' = [chan EXCEPT ![b].done = [turn |-> h, kind |-> k]]
  BY <1>2, <1>3 DEF StreamEnd, ReplyChannel
<1>6. \A a \in Bridge : /\ chan'[a].ready = chan[a].ready /\ chan'[a].closed = chan[a].closed
                        /\ a # b => chan'[a].done = chan[a].done
  BY <1>5 DEF TypeInv, TypeOK, Channels
<1>7. chan'[b].done.turn = h
  BY <1>3, <1>5 DEF TypeInv, TypeOK, Channels
<1>8. \A c \in Starters : Own(c) \subseteq Bridge /\ (c # h => b \notin Own(c))
  <2>1. \A c \in Starters : Own(c) \subseteq Bridge
    BY Names DEF Own
  <2>2. ASSUME NEW c \in Starters, b \in Own(c) PROVE c = h
    BY <1>2, <2>2 DEF Own
  <2> QED
    BY <2>1, <2>2
<1>9. Items'
  <2>1. \A c, l \in Starters : Expected(c, l) => Expected(c, l)'
    BY <1>1, <1>6, <1>8 DEF Expected, Unsent
  <2> QED
    BY <1>1, <2>1 DEF ReplyInv, Items
<1>10. Envelopes'
  <2>1. ASSUME NEW c \in Starters, NEW a \in Own(c)
        PROVE  /\ chan'[a].ready \in {None, c}
               /\ chan'[a].done # NoResult => chan'[a].done.turn = c
               /\ chan'[a].closed => req'[c].pc \in {"stream"} \cup Finished
    BY <1>1, <1>4, <1>6, <1>7, <1>8 DEF ReplyInv, Envelopes, Finished
  <2>2. ASSUME NEW c \in Starters,
               req'[c].pc \in {"idle", "clear", "enter", "lock", "push", "dead", "start"}
        PROVE  Unsent(c)'
    BY <1>1, <1>4, <1>6, <1>8, <2>2 DEF ReplyInv, Envelopes, Unsent
  <2> QED
    BY <2>1, <2>2 DEF Envelopes
<1>11. OwnBridges'
  BY <1>1, <1>4 DEF ReplyInv, OwnBridges
<1> QED
  BY <1>1, <1>9, <1>10, <1>11 DEF ReplyInv, ReplyToOwnTurn

\* A waiting handler's bridge is not closed: nobody is there to supersede it.
LEMMA NoBail ==
  ASSUME ReplyInv, NEW h \in Requests, Bail(h)
  PROVE  FALSE
<1>1. h \in Starters /\ req[h].pc = "wait" /\ chan[req[h].bridge].closed
  BY DEF Bail
<1>2. req[h].bridge \in Own(h)
  BY <1>1 DEF ReplyInv, OwnBridges
<1> QED
  BY <1>1, <1>2 DEF ReplyInv, Envelopes, Finished

\* The loop takes the one item it has, ...
LEMMA GenInputReply ==
  ASSUME TypeInv, ReplyInv, NEW l \in Starters, LoopGenInput(l)
  PROVE  ReplyInv'
<1>1. /\ loop[l].st = "idle" /\ UNCHANGED <<ts, tsGen, req, chan, replies>>
      /\ loop[l] \in TurnLoop
  BY DEF LoopGenInput, tsVars, TypeInv, TypeOK
<1>2. PICK k \in 1..Len(loop[l].queue) :
        loop' = [loop EXCEPT ![l] = FreshTurn(l, loop[l].queue[k], Without(loop[l].queue, k))]
  BY DEF LoopGenInput
<1>3. PICK c \in Starters : loop[l].queue = <<c>> /\ Expected(c, l)
  <2>1. loop[l].queue # << >>
    BY <1>2
  <2> QED
    BY <2>1 DEF ReplyInv, Items
<1>4. loop[l].queue[k] = c /\ Without(loop[l].queue, k) = << >>
  <2>1. k = 1 /\ Len(loop[l].queue) = 1
    BY <1>2, <1>3
  <2>2. SubSeq(<<c>>, 1, 0) = << >> /\ SubSeq(<<c>>, 2, 1) = << >>
    OBVIOUS
  <2>3. << >> \o << >> = << >>
    OBVIOUS
  <2> QED
    BY <1>3, <2>1, <2>2, <2>3 DEF Without
<1>5. /\ loop'[l].st = "snap" /\ loop'[l].turn = c /\ loop'[l].queue = << >>
      /\ \A m \in Starters : m # l => loop'[m] = loop[m]
  BY <1>1, <1>2, <1>4 DEF FreshTurn, TypeInv, TypeOK, TurnLoop
<1>6. Items'
  <2>1. \A b, m \in Starters : Expected(b, m) => Expected(b, m)'
    BY <1>1 DEF Expected, Unsent
  <2>2. Expected(loop[l].turn, l)'
    <3>1. Expected(c, l)'
      BY <1>3, <2>1
    <3> QED
      BY <1>5, <3>1 DEF Expected, Unsent
  <2> QED
    BY <1>5, <2>1, <2>2 DEF ReplyInv, Items
<1>7. Envelopes'
  BY <1>1 DEF ReplyInv, Envelopes, Unsent
<1>8. OwnBridges'
  BY <1>1, <1>5 DEF ReplyInv, OwnBridges
<1> QED
  BY <1>1, <1>6, <1>7, <1>8 DEF ReplyInv, ReplyToOwnTurn

\* ... its callback finds the bridge of the item's handler in the turn state, ...
LEMMA SnapshotReply ==
  ASSUME TypeInv, ReplyInv, NEW l \in Starters, TurnSnapshot(l)
  PROVE  ReplyInv'
<1>1. /\ loop[l].st = "snap" /\ UNCHANGED <<ts, tsGen, req, chan, replies>>
  BY DEF TurnSnapshot, tsVars
<1>2. PICK c \in Starters : loop[l].turn = c /\ Expected(c, l)
  BY <1>1 DEF ReplyInv, Items
<1>3. ts[tsGen].bridge \in Own(c)
  BY <1>2 DEF ReplyInv, OwnBridges, Expected
<1>4. /\ loop'[l].st = "send" /\ loop'[l].turn = c /\ loop'[l].queue = loop[l].queue
      /\ loop'[l].bridge = ts[tsGen].bridge
      /\ \A m \in Starters : m # l => loop'[m] = loop[m]
  BY <1>2 DEF TurnSnapshot, CurrentBridge, TypeInv, TypeOK, TurnLoop
<1>5. Items'
  <2>1. \A b, m \in Starters : Expected(b, m) => Expected(b, m)'
    BY <1>1 DEF Expected, Unsent
  <2>2. Expected(loop[l].turn, l)'
    <3>1. Expected(c, l)'
      BY <1>2, <2>1
    <3> QED
      BY <1>4, <3>1 DEF Expected, Unsent
  <2> QED
    BY <1>1, <1>4, <2>1, <2>2 DEF ReplyInv, Items
<1>6. Envelopes'
  BY <1>1 DEF ReplyInv, Envelopes, Unsent
<1>7. OwnBridges'
  BY <1>1, <1>3, <1>4 DEF ReplyInv, OwnBridges
<1> QED
  BY <1>1, <1>5, <1>6, <1>7 DEF ReplyInv, ReplyToOwnTurn

\* ... sends its events over it, ...
LEMMA SendReply ==
  ASSUME TypeInv, ReplyInv, NEW l \in Starters, TurnSend(l)
  PROVE  ReplyInv'
<1>1. /\ loop[l].st = "send" /\ UNCHANGED <<ts, tsGen, req, replies>>
  BY DEF TurnSend, tsVars
<1>2. PICK c \in Starters :
        loop[l].turn = c /\ loop[l].queue = << >> /\ Expected(c, l) /\ loop[l].bridge \in Own(c)
  BY <1>1 DEF ReplyInv, Items, OwnBridges
<1>3. PICK a \in Own(c) : a = loop[l].bridge
  BY <1>2
<1>4. \A d \in Starters : Own(d) \subseteq Bridge /\ (d # c => a \notin Own(d))
  <2>1. \A d \in Starters : Own(d) \subseteq Bridge
    BY Names DEF Own
  <2>2. ASSUME NEW d \in Starters, a \in Own(d) PROVE d = c
    BY <1>3, <2>2 DEF Own
  <2> QED
    BY <2>1, <2>2
<1>5. /\ chan' = [chan EXCEPT ![a].ready = c]
      /\ loop' = [loop EXCEPT ![l].st = "await"]
  BY <1>2, <1>3 DEF TurnSend
<1>6. \A b \in Bridge :
         /\ chan'[b].ready = IF b = a THEN c ELSE chan[b].ready
         /\ chan'[b].done = chan[b].done /\ chan'[b].closed = chan[b].closed
  BY <1>3, <1>4, <1>5 DEF TypeInv, TypeOK, Channels
<1>7. /\ loop'[l].st = "await" /\ loop'[l].turn = c /\ loop'[l].queue = << >>
      /\ loop'[l].bridge = loop[l].bridge
      /\ \A m \in Starters : m # l => loop'[m] = loop[m]
  BY <1>2, <1>5 DEF TypeInv, TypeOK, TurnLoop
<1>8. Items'
  <2>1. \A d, m \in Starters : (m # l /\ Expected(d, m)) => Expected(d, m)'
    <3> SUFFICES ASSUME NEW d \in Starters, NEW m \in Starters, m # l, Expected(d, m)
                 PROVE  Expected(d, m)'
      OBVIOUS
    <3>1. d # c
      BY <1>2 DEF Expected
    <3> QED
      BY <1>1, <1>4, <1>6, <3>1 DEF Expected, Unsent
  <2> QED
    BY <1>7, <2>1 DEF ReplyInv, Items
<1>9. Envelopes'
  <2>1. ASSUME NEW d \in Starters, NEW b \in Own(d)
        PROVE  /\ chan'[b].ready \in {None, d}
               /\ chan'[b].done # NoResult => chan'[b].done.turn = d
               /\ chan'[b].closed => req'[d].pc \in {"stream"} \cup Finished
    BY <1>1, <1>4, <1>6 DEF ReplyInv, Envelopes
  <2>2. ASSUME NEW d \in Starters,
               req'[d].pc \in {"idle", "clear", "enter", "lock", "push", "dead", "start"}
        PROVE  Unsent(d)'
    <3>1. d # c
      BY <1>1, <1>2, <2>2 DEF Expected
    <3> QED
      BY <1>1, <1>4, <1>6, <2>2, <3>1 DEF ReplyInv, Envelopes, Unsent
  <2> QED
    BY <2>1, <2>2 DEF Envelopes
<1>10. OwnBridges'
  BY <1>1, <1>2, <1>7 DEF ReplyInv, OwnBridges
<1> QED
  BY <1>1, <1>8, <1>9, <1>10 DEF ReplyInv, ReplyToOwnTurn

\* ... and takes the result of its own handler.
LEMMA ResultReply ==
  ASSUME TypeInv, ReplyInv, NEW l \in Starters, TurnResult(l)
  PROVE  ReplyInv'
<1>1. /\ loop[l].st = "await" /\ UNCHANGED <<ts, tsGen, req>>
  BY DEF TurnResult, tsVars
<1>2. PICK a \in Own(loop[l].turn) : a = loop[l].bridge /\ loop[l].turn \in Starters
  BY <1>1 DEF ReplyInv, OwnBridges
<1>3. a \in Bridge /\ chan[a].done # NoResult /\ chan[a].done.turn = loop[l].turn
  BY <1>1, <1>2, Names, ZenonT(60) DEF TurnResult, ReplyInv, Envelopes, Own
<1>4. ReplyToOwnTurn'
  BY <1>2, <1>3 DEF TurnResult, ReplyInv, ReplyToOwnTurn
<1>5. \A b \in Bridge :
         /\ chan'[b].ready = chan[b].ready /\ chan'[b].closed = chan[b].closed
         /\ chan'[b].done \in {NoResult, chan[b].done}
  BY <1>2, <1>3 DEF TurnResult, TypeInv, TypeOK, Channels
<1>6. /\ loop'[l].st \in {"idle", "exiting"} /\ loop'[l].queue = loop[l].queue
      /\ \A m \in Starters : m # l => loop'[m] = loop[m]
  BY DEF TurnResult, AfterTurn, TypeInv, TypeOK, TurnLoop
<1>7. \A d \in Starters : Own(d) \subseteq Bridge
  BY Names DEF Own
<1>8. Items'
  <2>1. \A d, m \in Starters : Expected(d, m) => Expected(d, m)'
    BY <1>1, <1>5, <1>7 DEF Expected, Unsent
  <2> QED
    BY <1>6, <2>1 DEF ReplyInv, Items
<1>9. Envelopes'
  BY <1>1, <1>5, <1>7 DEF ReplyInv, Envelopes, Unsent
<1>10. OwnBridges'
  BY <1>1, <1>6 DEF ReplyInv, OwnBridges
<1> QED
  BY <1>4, <1>8, <1>9, <1>10 DEF ReplyInv

\* Without approvals there is nothing to resume with, and no loop without a question.
LEMMA QuestionsOnly ==
  ASSUME PatientQuestions, TypeInv
  PROVE  /\ Starters = Chats
         /\ \A h \in Requests :
               ~TimeOut(h) /\ ~ApproveRead(h) /\ ~ApproveClear(h) /\ ~ApproveNewLoop(h)
         /\ \A l \in Starters : ~LoopResume(l) /\ ~LoopNoQuery(l)
<1>1. Starters = Chats /\ Approves = {} /\ ~Timeouts
  BY DEF PatientQuestions, Starters
<1>2. \A h \in Requests :
               ~TimeOut(h) /\ ~ApproveRead(h) /\ ~ApproveClear(h) /\ ~ApproveNewLoop(h)
  BY <1>1 DEF TimeOut, ApproveRead, ApproveClear, ApproveNewLoop
<1>3. ASSUME NEW l \in Starters PROVE ~LoopResume(l)
  BY <1>1 DEF LoopResume, IsFirst, Positions
<1>4. ASSUME NEW l \in Starters, LoopNoQuery(l) PROVE FALSE
  <2>1. loop[l].queue \in Seq(Chats) /\ loop[l].queue # << >>
    BY <1>1, <1>4, Fields DEF LoopNoQuery, TypeInv
  <2>2. 1 \in 1..Len(loop[l].queue) /\ loop[l].queue[1] \in Chats
    BY <2>1
  <2> QED
    BY <1>4, <2>2 DEF LoopNoQuery, Positions
<1> QED
  BY <1>1, <1>2, <1>3, <1>4

LEMMA ReplyInit == ASSUME Init PROVE ReplyInv
<1>1. \A h \in Starters : Own(h) \subseteq Bridge /\ h \in Requests
  BY Names DEF Own
<1>2. Items
  BY DEF Init, Items, NoLoop
<1>3. Envelopes
  BY <1>1 DEF Init, Envelopes, Unsent, NoResult
<1>4. OwnBridges
  BY <1>1 DEF Init, OwnBridges, NoLoop
<1> QED
  BY <1>2, <1>3, <1>4 DEF Init, ReplyInv, ReplyToOwnTurn

LEMMA ReplyStep ==
  ASSUME PatientQuestions, TypeInv, BridgeInv, OneLoopInv, ReplyInv, [Next]_vars
  PROVE  ReplyInv'
<1>1. ASSUME NEW h \in Requests, Arrival(h) \/ HandlerStep(h) PROVE ReplyInv'
  BY <1>1, QuestionsOnly, QuietReply, ChatSupersedeReply, NewLoopReply, ChatPushReply,
     StartReply, ReceiveReply, StreamEndReply, NoBail DEF Arrival, HandlerStep
<1>2. ASSUME NEW l \in Starters, LoopStep(l) PROVE ReplyInv'
  BY <1>2, QuestionsOnly, QuietLoopReply, GenInputReply, SnapshotReply, SendReply, ResultReply
     DEF LoopStep
<1>3. CASE UNCHANGED vars
  BY <1>3, ReplyFrame DEF vars
<1> QED
  BY <1>1, <1>2, <1>3 DEF Next

\* server.go:130-131, 412: whatever questions interrupt one another's answers, and
\* whatever aborts and deletions come in between, the result a turn takes is the one of
\* the handler that has streamed this turn's events.
THEOREM OwnReplies == PatientQuestions => (Spec => []ReplyToOwnTurn)
<1> SUFFICES ASSUME PatientQuestions PROVE Spec => []ReplyToOwnTurn
  OBVIOUS
<1> DEFINE Inv == TypeInv /\ BridgeInv /\ OneLoopInv /\ ReplyInv
<1>1. Init => Inv
  BY InitType, BridgeInit, OneLoopInit, ReplyInit
<1>2. Inv /\ [Next]_vars => Inv'
  BY StepType, BridgeStep, OneLoopStep, ReplyStep DEF PatientQuestions
<1>3. Inv => ReplyToOwnTurn
  BY DEF ReplyInv
<1> QED
  BY <1>1, <1>2, <1>3, PTL DEF Spec

-----------------------------------------------------------------------------
(* The history.  A question is persisted when its turn begins and the answer when   *)
(* its turn ends, by whichever loop runs the turn: so they alternate only if no two *)
(* loops at work have the same session object.  That takes the whole life of a      *)
(* session: who made a loop, which deletion or abort has taken it since, and which  *)
(* object was reached then.                                                         *)

Working(l) == loop[l].st \notin {"none", "exiting", "exited"}
Stopping(h) == req[h].pc \in {"stop", "join"}

\* Request l has come to the point where it makes a loop, or to none.
Made(l) == req[l].pc \notin {"idle", "enter", "lock", "push", "dead"}

\* The objects a deletion makes way for are reached only once it has got there.
SessionNames ==
    /\ sessGen \in Deletes => req[sessGen].pc \in {"forget", "done"}
    /\ \A h \in Requests :
          req[h].sess \in Deletes => req[req[h].sess].pc \in {"forget", "done"}
    /\ \A h \in Starters :
          req[h].pc \in {"enter", "lock", "push", "dead", "start", "wait"} =>
              req[h].sess = sessGen
    /\ tsGen \in Deletes => req[tsGen].pc = "done"
    /\ \A d \in Deletes : req[d].pc # "done" => ts[d].loop = None

\* The session's loop has not been stopped, and an abort has taken its own away.
SessionLoop ==
    /\ \A l \in Starters : ts[tsGen].loop = l => loop[l].stop = "no"
    /\ \A g \in Gens, l \in Starters : ts[g].loop = l => Made(l)
    /\ \A h \in Aborts : Stopping(h) =>
          ts[tsGen].loop = None /\ req[h].loop \in Starters /\ Made(req[h].loop)
    /\ \A h \in Starters : ~Made(h) => loop[h] = NoLoop

\* A loop at work on the session that is reached now is the session's loop, or is
\* being stopped; and no two loops at work write to one session.
WorkersApart ==
    /\ \A l \in Starters : (Working(l) /\ req[l].sess = sessGen) =>
          \/ ts[tsGen].loop = l
          \/ \E h \in Aborts : Stopping(h) /\ req[h].loop = l
          \/ \E h \in Deletes : req[h].pc = "drop"
    /\ \A l, m \in Starters : (Working(l) /\ Working(m) /\ req[l].sess = req[m].sess) => l = m

SessionInv == SessionNames /\ SessionLoop /\ WorkersApart

LEMMA Kinds ==
  /\ \A h \in Starters : h \notin Aborts /\ h \notin Deletes
  /\ \A h \in Aborts : h \notin Starters /\ h \notin Deletes
  /\ \A h \in Deletes : h \notin Starters /\ h \notin Aborts
  BY ChatAssumption DEF Starters

\* A step at which no session and no turn state changes hands.
LEMMA SessionFrame ==
  ASSUME TypeInv, SessionInv, UNCHANGED <<tsGen, sessGen>>,
         \A g \in Requests : req'[g].sess = req[g].sess,
         \A d \in Deletes : req'[d].pc = req[d].pc,
         \A h \in Starters :
            req'[h].pc \in {"enter", "lock", "push", "dead", "start", "wait"} =>
               req[h].pc \in {"enter", "lock", "push", "dead", "start", "wait"},
         \A h \in Starters : Made(h) => Made(h)',
         \A h \in Starters : ~Made(h)' => loop'[h] = loop[h],
         \A g \in Gens : \/ ts'[g].loop = ts[g].loop
                         \/ ts'[g].loop = None /\ \A l \in Starters : ts[g].loop = l => ~Working(l),
         \A l \in Starters : Working(l)' => Working(l),
         \A l \in Starters : ts[tsGen].loop = l => loop'[l].stop = loop[l].stop,
         \A h \in Aborts : /\ Stopping(h)' => Stopping(h)
                           /\ Stopping(h) => req'[h].loop = req[h].loop
                           /\ Stopping(h) /\ ~Stopping(h)' =>
                                 \A l \in Starters : req[h].loop = l => ~Working(l)
  PROVE  SessionInv'
<1>1. tsGen \in Gens /\ \A h \in Requests : req[h].sess \in Gens
  BY Fields DEF TypeInv, TypeOK
<1>2. SessionNames'
  <2>1. \A d \in Deletes : req'[d].pc # "done" => ts'[d].loop = None
    BY Names DEF SessionInv, SessionNames
  <2> QED
    BY <2>1, Names DEF SessionInv, SessionNames
<1>3. SessionLoop'
  <2>1. \A l \in Starters : ts'[tsGen].loop = l => loop'[l].stop = "no"
    BY <1>1, Names DEF SessionInv, SessionLoop
  <2>2. \A g \in Gens, l \in Starters : ts'[g].loop = l => Made(l)'
    BY Names DEF SessionInv, SessionLoop
  <2>3. \A h \in Aborts : Stopping(h)' =>
          ts'[tsGen].loop = None /\ req'[h].loop \in Starters /\ Made(req[h].loop)
    BY <1>1 DEF SessionInv, SessionLoop
  <2>4. \A h \in Aborts, l \in Starters : (Stopping(h)' /\ req'[h].loop = l) => Made(l)'
    BY <2>3 DEF SessionInv, SessionLoop
  <2>5. \A h \in Starters : ~Made(h)' => loop'[h] = NoLoop
    BY DEF SessionInv, SessionLoop
  <2>6. \A h \in Aborts : Stopping(h)' => Made(req[h].loop)'
    BY <2>3, <2>4 DEF Made
  <2> QED
    BY <2>1, <2>2, <2>3, <2>5, <2>6 DEF SessionLoop
<1>4. WorkersApart'
  <2>1. \A l, m \in Starters :
           (Working(l)' /\ Working(m)' /\ req'[l].sess = req'[m].sess) => l = m
    BY Names DEF SessionInv, WorkersApart
  <2>2. ASSUME NEW l \in Starters, Working(l)', req'[l].sess = sessGen
        PROVE  \/ ts'[tsGen].loop = l
               \/ \E h \in Aborts : Stopping(h)' /\ req'[h].loop = l
               \/ \E h \in Deletes : req'[h].pc = "drop"
    <3>1. Working(l) /\ req[l].sess = sessGen
      BY <2>2, Names
    <3>2. CASE ts[tsGen].loop = l
      BY <1>1, <3>1, <3>2
    <3>3. CASE \E h \in Aborts : Stopping(h) /\ req[h].loop = l
      BY <3>1, <3>3
    <3>4. CASE \E h \in Deletes : req[h].pc = "drop"
      BY <3>4
    <3> QED
      BY <3>1, <3>2, <3>3, <3>4 DEF SessionInv, WorkersApart
  <2> QED
    BY <2>1, <2>2 DEF WorkersApart
<1> QED
  BY <1>2, <1>3, <1>4 DEF SessionInv

LEMMA LoopSession ==
  ASSUME PatientQuestions, TypeInv, SessionInv, NEW l \in Starters, LoopStep(l)
  PROVE  SessionInv'
<1>1. UNCHANGED <<req, tsGen, sessGen>>
  <2>1. UNCHANGED <<req, tsGen>>
    BY LoopStepEffect, SMTT(30)
  <2>2. sessGen' = sessGen
    BY DEF LoopStep, LoopPlain, LoopResume, LoopResumeFails, LoopGenInput, LoopNoQuery,
         LoopIdleStop, LoopPreempt, TurnSnapshot, TurnSend, TurnCancelled, TurnResult,
         LoopExit, Cleanup, storeVars
  <2> QED
    BY <2>1, <2>2
<1>2. \A g \in Gens : \/ ts'[g].loop = ts[g].loop
                      \/ ts'[g].loop = None /\ \A m \in Starters : ts[g].loop = m => ~Working(m)
  <2>1. CASE Cleanup(l)
    BY <2>1, LoopStepEffect, SMTT(30) DEF Cleanup, Working
  <2>2. CASE ~Cleanup(l)
    BY <2>2 DEF LoopStep, LoopPlain, LoopResume, LoopResumeFails, LoopGenInput, LoopNoQuery,
         LoopIdleStop, LoopPreempt, TurnSnapshot, TurnSend, TurnCancelled, TurnResult,
         LoopExit, tsVars
  <2> QED
    BY <2>1, <2>2
<1>3. /\ \A m \in Starters : m # l => loop'[m] = loop[m]
      /\ loop'[l].stop = loop[l].stop
      /\ Working(l)' => Working(l)
      /\ loop[l] = NoLoop => loop'[l] = loop[l]
  <2>1. CASE Cleanup(l)
    BY <2>1 DEF Cleanup, Working
  <2>2. CASE LoopGenInput(l)
    BY <2>2 DEF LoopGenInput, FreshTurn, Working, NoLoop, TypeInv, TypeOK, TurnLoop
  <2>3. CASE LoopPlain(l)
    BY <2>3 DEF LoopPlain, Working, NoLoop, TypeInv, TypeOK, TurnLoop
  <2>4. CASE LoopResumeFails(l)
    BY <2>4 DEF LoopResumeFails, Working, NoLoop, TypeInv, TypeOK, TurnLoop
  <2>5. CASE LoopIdleStop(l)
    BY <2>5 DEF LoopIdleStop, Working, NoLoop, TypeInv, TypeOK, TurnLoop
  <2>6. CASE LoopPreempt(l)
    BY <2>6 DEF LoopPreempt, InTurn, Working, NoLoop, TypeInv, TypeOK, TurnLoop
  <2>7. CASE TurnSnapshot(l)
    BY <2>7 DEF TurnSnapshot, Working, NoLoop, TypeInv, TypeOK, TurnLoop
  <2>8. CASE TurnSend(l)
    BY <2>8 DEF TurnSend, Working, NoLoop, TypeInv, TypeOK, TurnLoop
  <2>9. CASE TurnCancelled(l)
    BY <2>9 DEF TurnCancelled, CtxDone, Working, NoLoop, TypeInv, TypeOK, TurnLoop
  <2>10. CASE TurnResult(l)
    BY <2>10, SMTT(30) DEF TurnResult, Working, NoLoop, TypeInv, TypeOK, TurnLoop
  <2>11. CASE LoopExit(l)
    BY <2>11 DEF LoopExit, Working, NoLoop, TypeInv, TypeOK, TurnLoop
  <2> QED
    BY <2>1, <2>2, <2>3, <2>4, <2>5, <2>6, <2>7, <2>8, <2>9, <2>10, <2>11, QuestionsOnly
       DEF LoopStep
<1>4. \A m \in Starters : ~Made(m)' => loop'[m] = loop[m]
  BY <1>1, <1>3 DEF SessionInv, SessionLoop, Made
<1>5. \A m \in Starters : Working(m)' => Working(m)
  BY <1>3 DEF Working
<1> QED
  BY <1>1, <1>2, <1>3, <1>4, <1>5, SessionFrame DEF Made, Stopping

LEMMA PushEffect ==
  ASSUME TypeInv, NEW h \in Requests, ChatPush(h)
  PROVE  \A l \in Starters : /\ loop'[l].st = loop[l].st /\ loop'[l].stop = loop[l].stop
                             /\ loop'[l] # loop[l] => Live(l) /\ l = req[h].loop
<1> SUFFICES ASSUME NEW l \in Starters, loop'[l] # loop[l]
             PROVE  /\ loop'[l].st = loop[l].st /\ loop'[l].stop = loop[l].stop
                    /\ Live(l) /\ l = req[h].loop
  OBVIOUS
<1>1. Live(req[h].loop) /\ l = req[h].loop
  BY DEF ChatPush, TypeInv, TypeOK
<1>2. loop'[l] = Pushed(l, h, TRUE)
  BY <1>1 DEF ChatPush, TypeInv, TypeOK
<1> QED
  BY <1>1, <1>2 DEF Pushed, TypeInv, TypeOK, TurnLoop

\* A waiting client's questions on their way to a loop, and the aborts that stop one.
LEMMA HandlerSession ==
  ASSUME PatientQuestions, TypeInv, OneLoopInv, SessionInv, NEW h \in Requests,
         \/ Lookup(h) \/ ChatSupersede(h) \/ ChatPush(h) \/ Start(h) \/ Receive(h) \/ Bail(h)
         \/ StreamEnd(h) \/ AbortStop(h) \/ AbortJoin(h)
  PROVE  SessionInv'
<1>1. UNCHANGED <<tsGen, sessGen>> /\ \A g \in Requests : g # h => req'[g] = req[g]
  BY OwnRecord DEF HandlerStep, Lookup, ChatSupersede, ChatPush, Start, Receive, Bail, StreamEnd,
         AbortStop, AbortJoin, storeVars, tsVars
<1>2. /\ req'[h].sess = req[h].sess /\ h \notin Deletes
      /\ h \in Starters =>
            /\ req'[h].pc \in {"enter", "lock", "push", "dead", "start", "wait"} =>
               req[h].pc \in {"enter", "lock", "push", "dead", "start", "wait"}
            /\ Made(h) => Made(h)'
      /\ h \notin Starters => h \in Aborts
  <2>1. CASE Lookup(h)
    BY <2>1, Kinds DEF Lookup, Made, TypeInv, TypeOK, Handler
  <2>2. CASE ChatSupersede(h)
    BY <2>2, Kinds, Names DEF ChatSupersede, Made, TypeInv, TypeOK, Handler
  <2>3. CASE ChatPush(h)
    <3>1. h \in Starters /\ h \notin Deletes /\ req[h].pc = "push"
      BY <2>3, Kinds, Names DEF ChatPush
    <3>2. req'[h].sess = req[h].sess /\ req'[h].pc \in {"wait", "dead"}
      BY <2>3, <3>1, ZenonT(60) DEF ChatPush, TypeInv, TypeOK, Handler
    <3> QED
      BY <3>1, <3>2 DEF Made
  <2>4. CASE Start(h) \/ Receive(h) \/ Bail(h) \/ StreamEnd(h)
    <3>1. h \in Starters /\ h \notin Deletes /\ req[h].pc \in {"start", "wait", "stream"}
      BY <2>4, Kinds DEF Start, Receive, Bail, StreamEnd
    <3>2. /\ req'[h].sess = req[h].sess /\ req'[h].pc \in {"wait", "stream", "preempted", "done"}
          /\ req[h].pc = "stream" => req'[h].pc = "done"
      <4>1. CASE Start(h)
        BY <4>1 DEF Start, TypeInv, TypeOK, Handler
      <4>2. CASE Receive(h)
        BY <4>2 DEF Receive, TypeInv, TypeOK, Handler
      <4>3. CASE Bail(h)
        BY <4>3 DEF Bail, TypeInv, TypeOK, Handler
      <4>4. CASE StreamEnd(h)
        BY <4>4 DEF StreamEnd, TypeInv, TypeOK, Handler
      <4> QED
        BY <2>4, <4>1, <4>2, <4>3, <4>4
    <3> QED
      BY <3>1, <3>2 DEF Made
  <2>5. CASE AbortStop(h) \/ AbortJoin(h)
    BY <2>5, Kinds DEF AbortStop, AbortJoin, TypeInv, TypeOK, Handler
  <2> QED
    BY <2>1, <2>2, <2>3, <2>4, <2>5
<1>3. \A g \in Gens : ts'[g].loop = ts[g].loop
  <2>1. CASE ChatSupersede(h)
    BY <2>1 DEF ChatSupersede, NewBridge, TypeInv, TypeOK, TurnState
  <2>2. CASE ~ChatSupersede(h)
    BY <2>2 DEF Lookup, ChatPush, Start, Receive, Bail, StreamEnd, AbortStop, AbortJoin, tsVars
  <2> QED
    BY <2>1, <2>2
<1>4. \A l \in Starters : Working(l)' => Working(l)
  <2>1. CASE ChatPush(h)
    BY <2>1, PushEffect DEF Working
  <2>2. CASE Start(h)
    <3>1. loop'[h].st = "load" => Live(h)
      BY <2>2 DEF Start, TypeInv, TypeOK, TurnLoop
    <3>2. loop'[h].st \in {"load", "exited"} /\ \A l \in Starters : l # h => loop'[l] = loop[l]
      BY <2>2 DEF Start, Pushed, TypeInv, TypeOK, TurnLoop
    <3> QED
      BY <3>1, <3>2 DEF Working, Live
  <2>3. CASE AbortStop(h)
    BY <2>3 DEF AbortStop, StoppedNow, Working, TypeInv, TypeOK, TurnLoop
  <2>4. CASE ~ChatPush(h) /\ ~Start(h) /\ ~AbortStop(h)
    BY <2>4 DEF Lookup, ChatSupersede, Receive, Bail, StreamEnd, AbortJoin, Working
  <2> QED
    BY <2>1, <2>2, <2>3, <2>4
<1>5. \A l \in Starters : /\ ~Made(l)' => loop'[l] = loop[l]
                          /\ ts[tsGen].loop = l => loop'[l].stop = loop[l].stop
  <2>1. CASE ChatPush(h)
    <3>1. h \in Chats /\ req[h].pc = "push" /\ tsGen \in Gens
      BY <2>1 DEF ChatPush, TypeInv, TypeOK
    <3>2. Live(req[h].loop) => ts[tsGen].loop = req[h].loop /\ req[h].loop \in Starters
      <4>1. \A a \in Aborts : req[a].pc # "stop"
        BY <3>1, Names, Kinds, OthersRest DEF OneLoopInv, Busy, Finished
      <4> QED
        BY <3>1, <4>1 DEF OneLoopInv, ReadsAreFresh, LiveIsTheSessions, BeingAborted
    <3>3. \A l \in Starters : Live(l) /\ l = req[h].loop => Made(l) /\ Made(l)'
      BY <1>1, <1>2, <3>1, <3>2, Names DEF SessionInv, SessionLoop, Made
    <3>4. \A l \in Starters : /\ loop'[l].stop = loop[l].stop
                              /\ loop'[l] # loop[l] => Live(l) /\ l = req[h].loop
      BY <2>1, PushEffect
    <3> QED
      BY <3>3, <3>4
  <2>2. CASE Start(h)
    <3>1. h \in Starters /\ req'[h].pc = "wait"
      BY <2>2 DEF Start, TypeInv, TypeOK
    <3>2. /\ \A l \in Starters : l # h => loop'[l] = loop[l]
          /\ loop'[h].stop = loop[h].stop
      BY <2>2 DEF Start, Pushed, TypeInv, TypeOK, TurnLoop
    <3> QED
      BY <3>1, <3>2 DEF Made
  <2>3. CASE AbortStop(h)
    <3>1. h \in Aborts /\ Stopping(h) /\ h \notin Starters
      BY <2>3, Kinds DEF AbortStop, Stopping
    <3>2. Made(req[h].loop) /\ req[h].loop \in Starters /\ ts[tsGen].loop = None
      BY <3>1 DEF SessionInv, SessionLoop
    <3>3. \A l \in Starters : Made(l) => Made(l)'
      BY <1>1, <3>1, Names DEF Made
    <3>4. \A l \in Starters : l # req[h].loop => loop'[l] = loop[l]
      BY <2>3 DEF AbortStop, TypeInv, TypeOK
    <3> QED
      BY <3>2, <3>3, <3>4, Names
  <2>4. CASE ~ChatPush(h) /\ ~Start(h) /\ ~AbortStop(h)
    BY <2>4 DEF Lookup, ChatSupersede, Receive, Bail, StreamEnd, AbortJoin
  <2> QED
    BY <2>1, <2>2, <2>3, <2>4
<1>6. \A a \in Aborts : /\ Stopping(a)' => Stopping(a)
                        /\ Stopping(a) => req'[a].loop = req[a].loop
                        /\ Stopping(a) /\ ~Stopping(a)' =>
                              \A l \in Starters : req[a].loop = l => ~Working(l)
  <2>1. CASE AbortStop(h)
    BY <1>1, <2>1, Names DEF AbortStop, Stopping, TypeInv, TypeOK, Handler
  <2>2. CASE AbortJoin(h)
    BY <1>1, <2>2, Names DEF AbortJoin, Stopping, Working, TypeInv, TypeOK, Handler
  <2>3. CASE ~AbortStop(h) /\ ~AbortJoin(h)
    <3>1. h \notin Aborts
      BY <2>3, Kinds, Names DEF Lookup, ChatSupersede, ChatPush, Start, Receive, Bail, StreamEnd
    <3> QED
      BY <1>1, <3>1, Names DEF Stopping
  <2> QED
    BY <2>1, <2>2, <2>3
<1>7. /\ \A g \in Requests : req'[g].sess = req[g].sess
      /\ \A d \in Deletes : req'[d].pc = req[d].pc
      /\ \A c \in Starters : Made(c) => Made(c)'
      /\ \A c \in Starters :
            req'[c].pc \in {"enter", "lock", "push", "dead", "start", "wait"} =>
               req[c].pc \in {"enter", "lock", "push", "dead", "start", "wait"}
  BY <1>1, <1>2, Names DEF Made
<1> QED
  BY <1>1, <1>3, <1>4, <1>5, <1>6, <1>7, SessionFrame, SMTT(30)

LEMMA EnterSession ==
  ASSUME Pace # "any", TypeInv, SessionInv, NEW h \in Requests, Enter(h)
  PROVE  SessionInv'
<1>1. /\ h \in Chats /\ h \in Starters /\ req[h].pc = "idle" /\ ~Made(h) /\ ~Made(h)'
      /\ req'[h].pc = "enter" /\ req'[h].sess = sessGen
      /\ UNCHANGED <<sessGen, tsGen, ts, loop>>
      /\ \A g \in Requests : g # h => req'[g] = req[g]
  BY OwnRecord, Names, ZenonT(60) DEF Enter, MayArrive, Made, Arrival, TypeInv, TypeOK,
     Handler, storeVars,
     tsVars
<1>2. SessionNames'
  <2>1. \A g \in Requests : req'[g].sess \in Deletes => req'[req'[g].sess].pc \in {"forget", "done"}
    BY <1>1, Kinds, Names DEF SessionInv, SessionNames
  <2> QED
    BY <1>1, <2>1, Kinds, Names DEF SessionInv, SessionNames
<1>3. SessionLoop'
  <2>1. \A l \in Starters : Made(l)' <=> Made(l)
    BY <1>1, Names DEF Made
  <2>2. \A a \in Aborts : /\ Stopping(a)' <=> Stopping(a)
                          /\ req'[a].loop = req[a].loop
    BY <1>1, Kinds, Names DEF Stopping
  <2>3. ASSUME NEW a \in Aborts, Stopping(a)
        PROVE  ts'[tsGen'].loop = None /\ req'[a].loop \in Starters /\ Made(req[a].loop)'
    <3>1. ts[tsGen].loop = None /\ req[a].loop \in Starters /\ Made(req[a].loop)
      BY <2>3 DEF SessionInv, SessionLoop
    <3>2. PICK l \in Starters : l = req[a].loop /\ l = req'[a].loop
      BY <2>2, <3>1
    <3> QED
      BY <1>1, <2>1, <3>1, <3>2 DEF Made
  <2> QED
    BY <1>1, <2>1, <2>2, <2>3 DEF SessionInv, SessionLoop
<1>4. WorkersApart'
  <2>1. \A l \in Starters : Working(l)' <=> Working(l)
    BY <1>1 DEF Working
  <2>2. \A l \in Starters : Working(l) => l # h /\ req'[l].sess = req[l].sess
    BY <1>1, Names DEF SessionInv, SessionLoop, Working, NoLoop
  <2>3. \A a \in Aborts, l \in Starters :
           Stopping(a) /\ req[a].loop = l => Stopping(a)' /\ req'[a].loop = l
    BY <1>1, Kinds, Names DEF Stopping
  <2>4. \A d \in Deletes : req'[d].pc = req[d].pc
    BY <1>1, Kinds, Names
  <2>5. ASSUME NEW l \in Starters, Working(l)', req'[l].sess = sessGen'
        PROVE  \/ ts'[tsGen'].loop = l
               \/ \E a \in Aborts : Stopping(a)' /\ req'[a].loop = l
               \/ \E d \in Deletes : req'[d].pc = "drop"
    BY <1>1, <2>1, <2>2, <2>3, <2>4, <2>5 DEF SessionInv, WorkersApart
  <2>6. \A l, m \in Starters :
           (Working(l)' /\ Working(m)' /\ req'[l].sess = req'[m].sess) => l = m
    BY <2>1, <2>2 DEF SessionInv, WorkersApart
  <2> QED
    BY <2>5, <2>6 DEF WorkersApart
<1> QED
  BY <1>2, <1>3, <1>4 DEF SessionInv

\* While a handler that makes a loop is at work, no loop of its session is.
LEMMA NewLoopSession ==
  ASSUME TypeInv, OneLoopInv, SessionInv, NEW h \in Requests, ChatNewLoop(h) \/ ChatReplaceDead(h)
  PROVE  SessionInv'
<1>1. /\ h \in Chats /\ h \in Starters /\ req[h].pc \in {"lock", "dead"}
      /\ UNCHANGED <<sessGen, tsGen>> /\ Busy(h)
      /\ \A g \in Requests : g # h => req'[g] = req[g]
  BY OwnRecord, Names DEF ChatNewLoop, ChatReplaceDead, HandlerStep, storeVars, Busy, Finished
<1>2. /\ req[h].ts = tsGen /\ tsGen \in Gens /\ ~Made(h)
      /\ req[h].sess = sessGen /\ loop[h] = NoLoop
  BY <1>1 DEF OneLoopInv, ReadsAreFresh, SessionInv, SessionNames, SessionLoop, Made, TypeInv, TypeOK
<1>3. /\ req'[h].pc = "start" /\ req'[h].sess = sessGen
      /\ ts' = [ts EXCEPT ![tsGen] = TakeOver(h, ts'[tsGen].bridge)]
      /\ loop' = [loop EXCEPT ![h].st = "made"]
  <2>1. CASE ChatNewLoop(h)
    BY <1>2, <2>1 DEF ChatNewLoop, TakeOver, TypeInv, TypeOK, Handler
  <2>2. CASE ChatReplaceDead(h)
    BY <1>2, <2>2 DEF ChatReplaceDead, TakeOver, TypeInv, TypeOK, Handler
  <2> QED
    BY <2>1, <2>2
<1>4. /\ ts'[tsGen].loop = h /\ \A g \in Gens : g # tsGen => ts'[g] = ts[g]
      /\ loop'[h].stop = "no" /\ \A l \in Starters : l # h => loop'[l] = loop[l]
  BY <1>1, <1>2, <1>3 DEF TakeOver, NoLoop, TypeInv, TypeOK, TurnLoop
<1>5. \A g \in Requests : g # h => req[g].pc \in {"idle", "stream"} \cup Finished
  BY <1>1, OthersRest DEF OneLoopInv
<1>6. /\ \A a \in Aborts : ~Stopping(a) /\ ~Stopping(a)'
      /\ \A d \in Deletes : req[d].pc # "drop" /\ req'[d].pc = req[d].pc
  BY <1>1, <1>5, Kinds, Names DEF Stopping, Finished
<1>7. SessionNames'
  <2>1. \A g \in Requests : req'[g].sess = req[g].sess
    BY <1>1, <1>2, <1>3
  <2>2. \A g \in Requests : req'[g].sess \in Deletes => req'[req'[g].sess].pc \in {"forget", "done"}
    BY <1>6, <2>1 DEF SessionInv, SessionNames
  <2>3. \A d \in Deletes : req'[d].pc # "done" => ts'[d].loop = None
    BY <1>4, <1>6, Names DEF SessionInv, SessionNames
  <2>4. \A c \in Starters : req'[c].pc \in {"enter", "lock", "push", "dead", "start", "wait"} =>
           req'[c].sess = sessGen'
    BY <1>1, <1>3, <1>5, Names DEF Finished
  <2> QED
    BY <1>1, <1>6, <2>2, <2>3, <2>4 DEF SessionInv, SessionNames
<1>8. SessionLoop'
  <2>1. Made(h)' /\ \A l \in Starters : l # h => (Made(l)' <=> Made(l))
    BY <1>1, <1>3, Names DEF Made
  <2>2. \A g \in Gens, l \in Starters : ts'[g].loop = l => Made(l)'
    BY <1>4, <2>1 DEF SessionInv, SessionLoop
  <2>3. \A c \in Starters : ~Made(c)' => loop'[c] = NoLoop
    BY <1>4, <2>1 DEF SessionInv, SessionLoop
  <2>4. \A l \in Starters : ts'[tsGen'].loop = l => loop'[l].stop = "no"
    BY <1>1, <1>4
  <2> QED
    BY <1>6, <2>2, <2>3, <2>4 DEF SessionLoop
<1>9. \A l \in Starters : Working(l)' /\ req'[l].sess = sessGen => l = h
  <2> SUFFICES ASSUME NEW l \in Starters, l # h, Working(l), req[l].sess = sessGen PROVE FALSE
    BY <1>1, <1>4, Names DEF Working
  <2>1. ts[tsGen].loop = l /\ loop[l].stop = "no"
    BY <1>6 DEF SessionInv, WorkersApart, SessionLoop
  <2>2. CASE ChatNewLoop(h)
    BY <1>2, <2>1, <2>2, Names DEF ChatNewLoop
  <2>3. CASE ChatReplaceDead(h)
    <3>1. req[h].loop = l /\ ~Live(l)
      BY <1>1, <2>1, <2>3, Names DEF ChatReplaceDead, OneLoopInv, ReadsAreFresh
    <3> QED
      BY <2>1, <3>1 DEF Live, Working
  <2> QED
    BY <2>2, <2>3
<1>10. WorkersApart'
  <2>1. \A l \in Starters : req'[l].sess = req[l].sess
    BY <1>1, <1>2, <1>3, Names
  <2>2. \A l \in Starters : l # h => (Working(l)' <=> Working(l))
    BY <1>4 DEF Working
  <2>3. \A l, m \in Starters :
           (Working(l)' /\ Working(m)' /\ req'[l].sess = req'[m].sess) => l = m
    BY <1>2, <1>9, <2>1, <2>2 DEF SessionInv, WorkersApart
  <2> QED
    BY <1>1, <1>4, <1>9, <2>3 DEF WorkersApart
<1> QED
  BY <1>7, <1>8, <1>10 DEF SessionInv

\* An abort takes the session's loop in hand before it stops it ...
LEMMA AbortTakeSession ==
  ASSUME Pace # "any", TypeInv, SessionInv, NEW h \in Requests, AbortTake(h)
  PROVE  SessionInv'
<1>1. /\ h \in Aborts /\ MayArrive(h) /\ UNCHANGED <<sessGen, tsGen, loop>>
      /\ tsGen \in Gens /\ \A g \in Requests : g # h => req'[g] = req[g]
  BY OwnRecord DEF AbortTake, Arrival, storeVars, TypeInv, TypeOK
<1>2. \A g \in Requests : req[g].pc \in {"idle", "stream"} \cup Finished
  BY <1>1, ArrivalAlone
<1>3. /\ ts'[tsGen].loop = None /\ \A g \in Gens : g # tsGen => ts'[g] = ts[g]
      /\ req'[h].sess = req[h].sess /\ req'[h].loop = ts[tsGen].loop
      /\ ts[tsGen].loop = None => req'[h].pc = "done"
      /\ ts[tsGen].loop # None => req'[h].pc = "stop"
  BY <1>1 DEF AbortTake, TypeInv, TypeOK, TurnState, Handler
<1>4. \A a \in Aborts : Stopping(a)' => a = h /\ req'[h].pc = "stop"
  BY <1>1, <1>2, <1>3, Names DEF Stopping, Finished
<1>5. /\ \A l \in Starters : req'[l] = req[l] /\ (Made(l)' <=> Made(l)) /\ (Working(l)' <=> Working(l))
      /\ \A d \in Deletes : req'[d] = req[d] /\ req[d].pc # "drop"
  BY <1>1, <1>2, Kinds, Names DEF Made, Working, Finished
<1>6. SessionNames'
  <2>1. \A g \in Requests : req'[g].sess \in Deletes => req'[req'[g].sess].pc \in {"forget", "done"}
    BY <1>1, <1>3, <1>5 DEF SessionInv, SessionNames
  <2>2. \A d \in Deletes : req'[d].pc # "done" => ts'[d].loop = None
    BY <1>3, <1>5, Names DEF SessionInv, SessionNames
  <2> QED
    BY <1>1, <1>5, <2>1, <2>2 DEF SessionInv, SessionNames
<1>7. SessionLoop'
  <2>1. \A l \in Starters : ts'[tsGen].loop # l
    BY <1>3, Names
  <2>2. \A g \in Gens, l \in Starters : ts'[g].loop = l => Made(l)'
    BY <1>3, <1>5, <2>1 DEF SessionInv, SessionLoop
  <2>3. ASSUME NEW a \in Aborts, Stopping(a)'
        PROVE  ts'[tsGen].loop = None /\ req'[a].loop \in Starters /\ Made(req[a].loop)'
    <3>1. PICK l \in Starters : l = ts[tsGen].loop /\ a = h
      BY <1>1, <1>3, <1>4, <2>3, Fields DEF TypeInv, MaybeLoop
    <3>2. Made(l)' /\ req'[a].loop = l
      BY <1>1, <1>3, <1>5, <3>1 DEF SessionInv, SessionLoop
    <3> QED
      BY <1>3, <3>1, <3>2 DEF Made
  <2>4. \A c \in Starters : ~Made(c)' => loop'[c] = NoLoop
    BY <1>1, <1>5 DEF SessionInv, SessionLoop
  <2> QED
    BY <1>1, <2>1, <2>2, <2>3, <2>4 DEF SessionLoop
<1>8. WorkersApart'
  <2>1. ASSUME NEW l \in Starters, Working(l)', req'[l].sess = sessGen'
        PROVE  Stopping(h)' /\ req'[h].loop = l
    <3>1. Working(l) /\ req[l].sess = sessGen
      BY <1>1, <1>5, <2>1
    <3>2. ts[tsGen].loop = l
      BY <1>2, <1>5, <3>1, Names DEF SessionInv, WorkersApart, Stopping, Finished
    <3> QED
      BY <1>3, <3>2, Names DEF Stopping
  <2>2. \A l, m \in Starters :
           (Working(l)' /\ Working(m)' /\ req'[l].sess = req'[m].sess) => l = m
    BY <1>5 DEF SessionInv, WorkersApart
  <2> QED
    BY <1>1, <2>1, <2>2 DEF WorkersApart
<1> QED
  BY <1>6, <1>7, <1>8 DEF SessionInv

\* ... a deletion stops it at once, and then makes way for a new session object and for
\* a new turn state.
LEMMA DeleteStopSession ==
  ASSUME Pace # "any", TypeInv, SessionInv, NEW h \in Requests, DeleteStop(h)
  PROVE  SessionInv'
<1>1. /\ h \in Deletes /\ MayArrive(h) /\ UNCHANGED <<sessGen, tsGen>>
      /\ tsGen \in Gens /\ \A g \in Requests : g # h => req'[g] = req[g]
      /\ req[h].pc = "idle"
  BY OwnRecord DEF DeleteStop, Arrival, MayArrive, storeVars, TypeInv, TypeOK
<1>2. \A g \in Requests : req[g].pc \in {"idle", "stream"} \cup Finished
  BY <1>1, ArrivalAlone
<1>3. /\ ts'[tsGen].loop = None /\ \A g \in Gens : g # tsGen => ts'[g] = ts[g]
      /\ req'[h].sess = req[h].sess /\ req'[h].pc = "drop"
  BY <1>1 DEF DeleteStop, TypeInv, TypeOK, TurnState, Handler
<1>4. \A l \in Starters : l # ts[tsGen].loop => loop'[l] = loop[l]
  BY DEF DeleteStop, TypeInv, TypeOK
<1>5. \A l \in Starters : loop'[l].st = loop[l].st
  BY DEF DeleteStop, StoppedNow, TypeInv, TypeOK, TurnLoop
<1>6. \A l \in Starters : req'[l] = req[l] /\ (Made(l)' <=> Made(l)) /\ (Working(l)' <=> Working(l))
  BY <1>1, <1>5, Kinds, Names DEF Made, Working
<1>7. \A a \in Aborts : ~Stopping(a)'
  BY <1>1, <1>2, Kinds, Names DEF Stopping, Finished
<1>8. SessionNames'
  <2>1. sessGen # h /\ tsGen # h /\ \A g \in Requests : req[g].sess # h
    BY <1>1 DEF SessionInv, SessionNames
  <2>2. \A g \in Requests : req'[g].sess \in Deletes => req'[req'[g].sess].pc \in {"forget", "done"}
    <3>1. \A g \in Requests : req'[g].sess = req[g].sess
      BY <1>1, <1>3
    <3>2. \A d \in Deletes : d # h => req'[d] = req[d]
      BY <1>1, Names
    <3> QED
      BY <2>1, <3>1, <3>2 DEF SessionInv, SessionNames
  <2>3. \A d \in Deletes : req'[d].pc # "done" => ts'[d].loop = None
    BY <1>1, <1>3, Names DEF SessionInv, SessionNames
  <2> QED
    BY <1>1, <1>6, <2>1, <2>2, <2>3, Names DEF SessionInv, SessionNames
<1>9. SessionLoop'
  <2>1. \A l \in Starters : ts'[tsGen].loop # l
    BY <1>3, Names
  <2>2. \A g \in Gens, l \in Starters : ts'[g].loop = l => Made(l)'
    BY <1>3, <1>6, <2>1 DEF SessionInv, SessionLoop
  <2>3. \A c \in Starters : ~Made(c)' => loop'[c] = NoLoop
    BY <1>1, <1>4, <1>6 DEF SessionInv, SessionLoop
  <2> QED
    BY <1>1, <1>7, <2>1, <2>2, <2>3 DEF SessionLoop
<1>10. WorkersApart'
  BY <1>1, <1>3, <1>6 DEF SessionInv, WorkersApart
<1> QED
  BY <1>8, <1>9, <1>10 DEF SessionInv

LEMMA DeleteStoreSession ==
  ASSUME TypeInv, OneLoopInv, SessionInv, NEW h \in Requests, DeleteStore(h)
  PROVE  SessionInv'
<1>1. /\ h \in Deletes /\ req[h].pc = "drop" /\ Busy(h)
      /\ sessGen' = h /\ UNCHANGED <<tsGen, ts, loop>>
      /\ \A g \in Requests : g # h => req'[g] = req[g]
  BY OwnRecord DEF DeleteStore, HandlerStep, tsVars, Busy, Finished
<1>2. req'[h].pc = "forget" /\ req'[h].sess = req[h].sess
  BY <1>1 DEF DeleteStore, TypeInv, TypeOK, Handler
<1>3. \A g \in Requests : g # h => req[g].pc \in {"idle", "stream"} \cup Finished
  BY <1>1, OthersRest DEF OneLoopInv
<1>4. \A l \in Starters : req'[l] = req[l] /\ (Made(l)' <=> Made(l)) /\ (Working(l)' <=> Working(l))
  BY <1>1, Kinds, Names DEF Made, Working
<1>5. \A a \in Aborts : ~Stopping(a) /\ ~Stopping(a)'
  BY <1>1, <1>3, Kinds, Names DEF Stopping, Finished
<1>6. SessionNames'
  <2>1. \A g \in Requests : req'[g].sess \in Deletes => req'[req'[g].sess].pc \in {"forget", "done"}
    <3>1. \A g \in Requests : req'[g].sess = req[g].sess
      BY <1>1, <1>2
    <3>2. \A d \in Deletes : d # h => req'[d] = req[d]
      BY <1>1, Names
    <3> QED
      BY <1>2, <3>1, <3>2 DEF SessionInv, SessionNames
  <2>2. \A d \in Deletes : req'[d].pc # "done" => ts'[d].loop = None
    BY <1>1, Names DEF SessionInv, SessionNames
  <2>3. \A c \in Starters : req'[c].pc \notin {"enter", "lock", "push", "dead", "start", "wait"}
    BY <1>1, <1>3, <1>4, Kinds, Names DEF Finished
  <2>4. tsGen \in Deletes => req'[tsGen].pc = "done"
    BY <1>1, Names DEF SessionInv, SessionNames
  <2> QED
    BY <1>1, <1>2, <2>1, <2>2, <2>3, <2>4 DEF SessionNames
<1>7. SessionLoop'
  BY <1>1, <1>4, <1>5 DEF SessionInv, SessionLoop
<1>8. WorkersApart'
  <2>1. \A l \in Starters : req[l].sess # h
    BY <1>1, Names DEF SessionInv, SessionNames
  <2> QED
    BY <1>1, <1>4, <2>1 DEF SessionInv, WorkersApart
<1> QED
  BY <1>6, <1>7, <1>8 DEF SessionInv

LEMMA DeleteStateSession ==
  ASSUME TypeInv, OneLoopInv, SessionInv, NEW h \in Requests, DeleteState(h)
  PROVE  SessionInv'
<1>1. /\ h \in Deletes /\ req[h].pc = "forget" /\ Busy(h)
      /\ tsGen' = h /\ UNCHANGED <<sessGen, ts, loop>>
      /\ \A g \in Requests : g # h => req'[g] = req[g]
  BY OwnRecord DEF DeleteState, HandlerStep, storeVars, Busy, Finished
<1>2. req'[h].pc = "done" /\ req'[h].sess = req[h].sess
  BY <1>1 DEF DeleteState, TypeInv, TypeOK, Handler
<1>3. \A g \in Requests : g # h => req[g].pc \in {"idle", "stream"} \cup Finished
  BY <1>1, OthersRest DEF OneLoopInv
<1>4. \A l \in Starters : req'[l] = req[l] /\ (Made(l)' <=> Made(l)) /\ (Working(l)' <=> Working(l))
  BY <1>1, Kinds, Names DEF Made, Working
<1>5. \A a \in Aborts : ~Stopping(a) /\ ~Stopping(a)'
  BY <1>1, <1>3, Kinds, Names DEF Stopping, Finished
<1>6. ts[h].loop = None /\ ts[tsGen].loop = None
  BY <1>1 DEF SessionInv, SessionNames, OneLoopInv, ReadsAreFresh
<1>7. SessionNames'
  <2>1. \A g \in Requests : req'[g].sess = req[g].sess
    BY <1>1, <1>2
  <2>2. \A d \in Deletes : /\ d # h => req'[d] = req[d]
                           /\ req[d].pc \in {"forget", "done"} => req'[d].pc \in {"forget", "done"}
    BY <1>1, <1>2, Names
  <2>3. \A g \in Requests : req'[g].sess \in Deletes => req'[req'[g].sess].pc \in {"forget", "done"}
    BY <2>1, <2>2 DEF SessionInv, SessionNames
  <2>4. \A d \in Deletes : req'[d].pc # "done" => ts'[d].loop = None
    BY <1>1, <1>2, <2>2 DEF SessionInv, SessionNames
  <2> QED
    BY <1>1, <1>2, <1>4, <2>2, <2>3, <2>4 DEF SessionInv, SessionNames
<1>8. SessionLoop'
  <2>1. \A l \in Starters : ts[h].loop # l
    BY <1>6, Names
  <2> QED
    BY <1>1, <1>4, <1>5, <2>1 DEF SessionInv, SessionLoop
<1>9. WorkersApart'
  <2>1. \A l \in Starters : ~(Working(l) /\ req[l].sess = sessGen)
    <3>1. \A d \in Deletes : req[d].pc # "drop"
      BY <1>1, <1>3, Names DEF Finished
    <3> QED
      BY <1>5, <1>6, <3>1, Names DEF SessionInv, WorkersApart
  <2> QED
    BY <1>1, <1>4, <2>1 DEF SessionInv, WorkersApart
<1> QED
  BY <1>7, <1>8, <1>9 DEF SessionInv

LEMMA SessionInit == ASSUME Init PROVE SessionInv
<1>1. \A h \in Requests : req[h].pc = "idle" /\ req[h].sess = None
  BY DEF Init
<1>2. None \notin Deletes /\ sessGen = None /\ tsGen = None /\ \A g \in Gens : ts[g].loop = None
  BY Names DEF Init
<1>3. \A l \in Starters : loop[l] = NoLoop
  BY DEF Init
<1>4. SessionNames
  BY <1>1, <1>2, Names DEF SessionNames
<1>5. SessionLoop
  BY <1>1, <1>2, <1>3, Names DEF SessionLoop, Stopping
<1>6. WorkersApart
  BY <1>3 DEF WorkersApart, Working, NoLoop
<1> QED
  BY <1>4, <1>5, <1>6 DEF SessionInv

LEMMA SessionStep ==
  ASSUME PatientQuestions, TypeInv, OneLoopInv, SessionInv, [Next]_vars
  PROVE  SessionInv'
<1>0. Pace # "any"
  BY DEF PatientQuestions
<1>1. ASSUME NEW h \in Requests, Arrival(h) \/ HandlerStep(h) PROVE SessionInv'
  BY <1>0, <1>1, QuestionsOnly, HandlerSession, EnterSession, NewLoopSession, AbortTakeSession,
     DeleteStopSession, DeleteStoreSession, DeleteStateSession DEF Arrival, HandlerStep
<1>2. ASSUME NEW l \in Starters, LoopStep(l) PROVE SessionInv'
  BY <1>2, LoopSession
<1>3. CASE UNCHANGED vars
  BY <1>3, SessionFrame DEF vars, Made, Stopping, Working
<1> QED
  BY <1>1, <1>2, <1>3 DEF Next

\* The last message of a session in whose name a loop runs a turn is its question.
QuestionIsLast ==
    \A l \in Starters : InTurn(l) =>
        LET s == sess[req[l].sess].history
        IN  Len(s) > 0 /\ s[Len(s)] = <<"user", loop[l].turn>>

HistoryInv == QuestionIsLast /\ HistoryInOrder

Message == {"user", "answer"} \X Starters

\* An answer follows its question at once.
InOrder(h) ==
    \A k \in 1..Len(h) : h[k][1] = "answer" =>
        /\ k > 1
        /\ h[k - 1] = <<"user", h[k][2]>>

LEMMA AppendInOrder ==
  ASSUME NEW h \in Seq(Message), NEW m \in Message, InOrder(h),
         m[1] = "answer" => Len(h) > 0 /\ h[Len(h)] = <<"user", m[2]>>
  PROVE  /\ InOrder(Append(h, m))
         /\ Len(Append(h, m)) > 0 /\ Append(h, m)[Len(Append(h, m))] = m
<1> DEFINE a == Append(h, m)
           n == Len(h)
<1>1. n \in Nat /\ Len(a) = n + 1 /\ a[n + 1] = m /\ \A k \in 1..n : a[k] = h[k]
  OBVIOUS
<1> HIDE DEF a
<1>2. ASSUME NEW k \in 1..Len(a), a[k][1] = "answer"
      PROVE  k > 1 /\ a[k - 1] = <<"user", a[k][2]>>
  <2>1. CASE k = n + 1
    BY <1>1, <1>2, <2>1
  <2>2. CASE k # n + 1
    <3>1. k \in 1..n /\ a[k] = h[k]
      BY <1>1, <2>2
    <3>2. k > 1 /\ h[k - 1] = <<"user", h[k][2]>>
      BY <1>2, <3>1 DEF InOrder
    <3>3. k - 1 \in 1..n
      BY <1>1, <3>1, <3>2
    <3> QED
      BY <1>1, <3>1, <3>2, <3>3
  <2> QED
    BY <2>1, <2>2
<1>3. InOrder(a)
  BY <1>2 DEF InOrder
<1> QED
  BY <1>1, <1>3 DEF a

LEMMA HistoryFrame ==
  ASSUME HistoryInv,
         \A g \in Gens : sess'[g].history = sess[g].history,
         \A l \in Starters : InTurn(l)' =>
            /\ InTurn(l) /\ loop'[l].turn = loop[l].turn
            /\ req'[l].sess = req[l].sess /\ req[l].sess \in Gens
  PROVE  HistoryInv'
<1>1. QuestionIsLast'
  BY DEF HistoryInv, QuestionIsLast
<1>2. HistoryInOrder'
  BY DEF HistoryInv, HistoryInOrder
<1> QED
  BY <1>1, <1>2 DEF HistoryInv

\* No handler and no idle loop writes to a history, nor begins or ends a turn.
LEMMA QuietHistory ==
  ASSUME PatientQuestions, TypeInv, SessionInv, HistoryInv, [Next]_vars,
         \A l \in Starters : ~LoopGenInput(l) /\ ~TurnResult(l)
  PROVE  HistoryInv'
<1>1. \A l \in Starters : req[l].sess \in Gens
  BY Names, Fields DEF TypeInv
<1>2. ASSUME NEW h \in Requests, Arrival(h) \/ HandlerStep(h) PROVE HistoryInv'
  <2>1. sess' = sess
    BY <1>2, QuestionsOnly DEF Arrival, HandlerStep, Enter, AbortTake, DeleteStop, Lookup,
       ChatSupersede, ChatNewLoop, ChatPush, ChatReplaceDead, Start, Receive, Bail, StreamEnd,
       AbortStop, AbortJoin, DeleteStore, DeleteState, storeVars
  <2>2. \A l \in Starters : InTurn(l) => req'[l].sess = req[l].sess
    <3>1. CASE Enter(h)
      <4>1. loop[h] = NoLoop /\ \A g \in Requests : g # h => req'[g] = req[g]
        BY <3>1, OwnRecord, Names
           DEF Arrival, Enter, MayArrive, SessionInv, SessionLoop, Made
      <4> QED
        BY <4>1, Names DEF InTurn, NoLoop
    <3>2. CASE ~Enter(h)
      <4>1. \A g \in Requests : g # h => req'[g] = req[g]
        BY <1>2, OwnRecord
      <4>2. ASSUME h \in Starters PROVE req'[h].sess = req[h].sess
        <5>1. CASE Lookup(h) \/ ChatSupersede(h)
          BY <5>1, ZenonT(60) DEF Lookup, ChatSupersede, TypeInv, TypeOK, Handler
        <5>2. CASE ChatNewLoop(h)
          BY <5>2 DEF ChatNewLoop, TypeInv, TypeOK, Handler
        <5>8. CASE ChatReplaceDead(h)
          BY <5>8 DEF ChatReplaceDead, TypeInv, TypeOK, Handler
        <5>3. CASE ChatPush(h)
          BY <5>3, ZenonT(60) DEF ChatPush, TypeInv, TypeOK, Handler
        <5>4. CASE Start(h)
          BY <5>4 DEF Start, TypeInv, TypeOK, Handler
        <5>5. CASE Receive(h)
          BY <5>5 DEF Receive, TypeInv, TypeOK, Handler
        <5>6. CASE Bail(h) \/ StreamEnd(h)
          BY <5>6 DEF Bail, StreamEnd, TypeInv, TypeOK, Handler
        <5>7. ~AbortTake(h) /\ ~DeleteStop(h) /\ ~AbortStop(h) /\ ~AbortJoin(h)
              /\ ~DeleteStore(h) /\ ~DeleteState(h)
          BY <4>2, Kinds DEF AbortTake, DeleteStop, AbortStop, AbortJoin, DeleteStore, DeleteState
        <5> QED
          BY <1>2, <3>2, <5>1, <5>2, <5>3, <5>4, <5>5, <5>6, <5>7, <5>8, QuestionsOnly
             DEF Arrival, HandlerStep
      <4> QED
        BY <4>1, <4>2, Names
    <3> QED
      BY <3>1, <3>2
  <2>3. \A l \in Starters : InTurn(l)' => InTurn(l) /\ loop'[l].turn = loop[l].turn
    <3>1. CASE ChatNewLoop(h)
      BY <3>1 DEF ChatNewLoop, InTurn, TypeInv, TypeOK, TurnLoop
    <3>2. CASE ChatReplaceDead(h)
      BY <3>2 DEF ChatReplaceDead, InTurn, TypeInv, TypeOK, TurnLoop
    <3>3. CASE ChatPush(h)
      <4>1. h \in Starters
        BY <3>3, Names DEF ChatPush
      <4>2. ASSUME NEW l \in Starters PROVE loop'[l].st = loop[l].st /\ loop'[l].turn = loop[l].turn
        <5>1. loop'[l] = loop[l] \/ loop'[l] = Pushed(l, h, TRUE)
          BY <3>3 DEF ChatPush, TypeInv, TypeOK
        <5> QED
          BY <4>1, <5>1, LoopRecords DEF TypeInv
      <4> QED
        BY <4>2 DEF InTurn
    <3>4. CASE Start(h)
      BY <3>4 DEF Start, Pushed, InTurn, TypeInv, TypeOK, TurnLoop
    <3>5. CASE AbortStop(h)
      BY <3>5 DEF AbortStop, StoppedNow, InTurn, TypeInv, TypeOK, TurnLoop
    <3>6. CASE DeleteStop(h)
      BY <3>6 DEF DeleteStop, StoppedNow, InTurn, TypeInv, TypeOK, TurnLoop
    <3>7. CASE UNCHANGED loop
      BY <3>7 DEF InTurn
    <3> QED
      BY <1>2, <3>1, <3>2, <3>3, <3>4, <3>5, <3>6, <3>7, QuestionsOnly
         DEF Arrival, HandlerStep, Enter, AbortTake, Lookup, ChatSupersede, Receive, Bail,
             StreamEnd, AbortJoin, DeleteStore, DeleteState
  <2> QED
    BY <1>1, <2>1, <2>2, <2>3, HistoryFrame
<1>3. ASSUME NEW l \in Starters, LoopStep(l) PROVE HistoryInv'
  <2>1. req' = req /\ sess' = sess
    BY <1>3, QuestionsOnly DEF LoopStep, LoopPlain, LoopResumeFails,
         LoopIdleStop, LoopPreempt, TurnSnapshot, TurnSend, TurnCancelled,
         LoopExit, Cleanup, storeVars
  <2>2. \A m \in Starters : InTurn(m)' => InTurn(m) /\ loop'[m].turn = loop[m].turn
    <3>1. CASE Cleanup(l)
      BY <3>1 DEF Cleanup, InTurn
    <3>2. CASE LoopPlain(l)
      BY <3>2 DEF LoopPlain, InTurn, TypeInv, TypeOK, TurnLoop
    <3>3. CASE LoopResumeFails(l)
      BY <3>3 DEF LoopResumeFails, InTurn, TypeInv, TypeOK, TurnLoop
    <3>4. CASE LoopIdleStop(l)
      BY <3>4 DEF LoopIdleStop, InTurn, TypeInv, TypeOK, TurnLoop
    <3>5. CASE LoopPreempt(l)
      BY <3>5 DEF LoopPreempt, InTurn, TypeInv, TypeOK, TurnLoop
    <3>6. CASE TurnSnapshot(l)
      BY <3>6 DEF TurnSnapshot, InTurn, TypeInv, TypeOK, TurnLoop
    <3>7. CASE TurnSend(l)
      BY <3>7 DEF TurnSend, InTurn, TypeInv, TypeOK, TurnLoop
    <3>8. CASE TurnCancelled(l)
      BY <3>8 DEF TurnCancelled, AfterTurn, InTurn, TypeInv, TypeOK, TurnLoop
    <3>9. CASE LoopExit(l)
      BY <3>9 DEF LoopExit, InTurn, TypeInv, TypeOK, TurnLoop
    <3> QED
      BY <1>3, <3>1, <3>2, <3>3, <3>4, <3>5, <3>6, <3>7, <3>8, <3>9, QuestionsOnly DEF LoopStep
  <2> QED
    BY <1>1, <2>1, <2>2, HistoryFrame
<1>4. CASE UNCHANGED vars
  BY <1>1, <1>4, HistoryFrame DEF vars, InTurn
<1> QED
  BY <1>2, <1>3, <1>4 DEF Next

\* The question of a turn that begins ...
LEMMA QuestionHistory ==
  ASSUME PatientQuestions, TypeInv, SessionInv, HistoryInv, NEW l \in Starters, LoopGenInput(l)
  PROVE  HistoryInv'
<1> DEFINE g == req[l].sess
           old == sess[g].history
<1>1. /\ loop[l].st = "idle" /\ loop[l] \in TurnLoop /\ g \in Gens /\ old \in Seq(Message)
      /\ loop[l].queue \in Seq(Starters) /\ UNCHANGED req
  BY Names, Fields DEF LoopGenInput, TypeInv, TypeOK, Message
<1>2. PICK k \in 1..Len(loop[l].queue) :
        /\ loop' = [loop EXCEPT ![l] = FreshTurn(l, loop[l].queue[k], Without(loop[l].queue, k))]
        /\ sess' = [sess EXCEPT ![g].history = Append(@, <<"user", loop[l].queue[k]>>)]
  BY DEF LoopGenInput
<1>3. PICK c \in Starters : c = loop[l].queue[k]
  BY <1>1, <1>2
<1> DEFINE m == <<"user", c>>
<1>4. /\ loop'[l].turn = c /\ \A o \in Starters : o # l => loop'[o] = loop[o]
      /\ sess'[g].history = Append(old, m)
      /\ \A o \in Gens : o # g => sess'[o] = sess[o]
  BY <1>1, <1>2, <1>3 DEF FreshTurn, TypeInv, TypeOK, TurnLoop, Session
<1>5. /\ m \in Message /\ InOrder(old) /\ m[1] # "answer"
  BY <1>1, <1>3 DEF HistoryInv, HistoryInOrder, InOrder, Message
<1> HIDE DEF m, old
<1>6. /\ InOrder(Append(old, m))
      /\ Len(Append(old, m)) > 0 /\ Append(old, m)[Len(Append(old, m))] = m
  BY <1>1, <1>5, AppendInOrder
<1>7. HistoryInOrder'
  <2>0. \A o \in Gens : InOrder(sess[o].history)
    BY DEF HistoryInv, HistoryInOrder, InOrder
  <2>1. \A o \in Gens : InOrder(sess'[o].history)
    BY <1>4, <1>6, <2>0
  <2> QED
    BY <2>1 DEF HistoryInOrder, InOrder
<1>8. QuestionIsLast'
  <2> SUFFICES ASSUME NEW o \in Starters, InTurn(o)'
               PROVE  LET s == sess'[req[o].sess].history
                      IN  Len(s) > 0 /\ s[Len(s)] = <<"user", loop'[o].turn>>
    BY <1>1 DEF QuestionIsLast
  <2>1. CASE o = l
    BY <1>4, <1>6, <2>1 DEF m
  <2>2. CASE o # l
    <3>1. InTurn(o) /\ loop'[o] = loop[o] /\ req[o].sess \in Gens
      BY <1>4, <2>2, Names, Fields DEF InTurn, TypeInv
    <3>2. req[o].sess # g
      BY <1>1, <2>2, <3>1 DEF SessionInv, WorkersApart, Working, InTurn
    <3> QED
      BY <1>4, <3>1, <3>2 DEF HistoryInv, QuestionIsLast
  <2> QED
    BY <2>1, <2>2
<1> QED
  BY <1>7, <1>8 DEF HistoryInv

\* ... and the answer of one that ends, which is its own.
LEMMA AnswerHistory ==
  ASSUME PatientQuestions, TypeInv, ReplyInv, SessionInv, HistoryInv, NEW l \in Starters,
         TurnResult(l)
  PROVE  HistoryInv'
<1> DEFINE g == req[l].sess
           old == sess[g].history
           t == loop[l].turn
<1>1. /\ loop[l].st = "await" /\ t \in Starters /\ g \in Gens /\ old \in Seq(Message)
      /\ UNCHANGED req
  BY Names, Fields DEF TurnResult, TypeInv, TypeOK, Message, LoopShape, InTurn
<1>2. PICK b \in Own(t) : b = loop[l].bridge
  BY <1>1 DEF ReplyInv, OwnBridges
<1>3. chan[b].done.turn = t /\ b[1] \in Chats
  <2>1. b \in Own(t) /\ chan[b].done # NoResult
    BY <1>2 DEF TurnResult
  <2>2. chan[b].done.turn = t
    BY <1>1, <2>1 DEF ReplyInv, Envelopes
  <2>3. b[1] = t
    BY <2>1 DEF Own
  <2> QED
    BY <1>1, <2>2, <2>3, QuestionsOnly
<1> DEFINE m == <<"answer", t>>
<1>4. /\ \A o \in Starters : o # l => loop'[o] = loop[o]
      /\ loop'[l].st \in {"idle", "exiting"}
      /\ sess'[g].history = Append(old, m)
      /\ \A o \in Gens : o # g => sess'[o] = sess[o]
  <2>1. /\ \A o \in Starters : o # l => loop'[o] = loop[o]
        /\ loop'[l].st \in {"idle", "exiting"}
    BY SMTT(30) DEF TurnResult, AfterTurn, TypeInv, TypeOK, TurnLoop
  <2>2. /\ sess'[g].history = Append(old, m)
        /\ \A o \in Gens : o # g => sess'[o] = sess[o]
    BY <1>1, <1>2, <1>3 DEF TurnResult, TypeInv, TypeOK, Session
  <2> QED
    BY <2>1, <2>2
<1>5. /\ m \in Message /\ InOrder(old) /\ Len(old) > 0 /\ old[Len(old)] = <<"user", m[2]>>
  BY <1>1 DEF HistoryInv, HistoryInOrder, InOrder, Message, QuestionIsLast, InTurn
<1> HIDE DEF m, old
<1>6. InOrder(Append(old, m))
  BY <1>1, <1>5, AppendInOrder
<1>7. HistoryInOrder'
  <2>0. \A o \in Gens : InOrder(sess[o].history)
    BY DEF HistoryInv, HistoryInOrder, InOrder
  <2>1. \A o \in Gens : InOrder(sess'[o].history)
    BY <1>4, <1>6, <2>0
  <2> QED
    BY <2>1 DEF HistoryInOrder, InOrder
<1>8. QuestionIsLast'
  <2> SUFFICES ASSUME NEW o \in Starters, InTurn(o)'
               PROVE  LET s == sess'[req[o].sess].history
                      IN  Len(s) > 0 /\ s[Len(s)] = <<"user", loop'[o].turn>>
    BY <1>1 DEF QuestionIsLast
  <2>1. o # l
    BY <1>4 DEF InTurn
  <2>2. InTurn(o) /\ loop'[o] = loop[o] /\ req[o].sess \in Gens
    BY <1>4, <2>1, Names, Fields DEF InTurn, TypeInv
  <2>3. req[o].sess # g
    BY <1>1, <2>1, <2>2 DEF SessionInv, WorkersApart, Working, InTurn
  <2> QED
    BY <1>4, <2>2, <2>3 DEF HistoryInv, QuestionIsLast
<1> QED
  BY <1>7, <1>8 DEF HistoryInv

LEMMA HistoryInit == ASSUME Init PROVE HistoryInv
<1>1. QuestionIsLast
  BY DEF Init, QuestionIsLast, InTurn, NoLoop
<1>2. HistoryInOrder
  BY DEF Init, HistoryInOrder
<1> QED
  BY <1>1, <1>2 DEF HistoryInv

LEMMA HistoryStep ==
  ASSUME PatientQuestions, TypeInv, ReplyInv, SessionInv, HistoryInv, [Next]_vars
  PROVE  HistoryInv'
<1>1. CASE \E l \in Starters : LoopGenInput(l)
  BY <1>1, QuestionHistory
<1>2. CASE \E l \in Starters : TurnResult(l)
  BY <1>2, AnswerHistory
<1>3. CASE \A l \in Starters : ~LoopGenInput(l) /\ ~TurnResult(l)
  BY <1>3, QuietHistory
<1> QED
  BY <1>1, <1>2, <1>3

\* server.go:363-365, 615-617: in every session object there ever was, an answer follows
\* its own question at once, and so is persisted once; a question that was aborted,
\* superseded or deleted leaves no answer behind in another one's place.
THEOREM AnswersFollowQuestions == PatientQuestions => (Spec => []HistoryInOrder)
<1> SUFFICES ASSUME PatientQuestions PROVE Spec => []HistoryInOrder
  OBVIOUS
<1> DEFINE Inv == TypeInv /\ BridgeInv /\ OneLoopInv /\ ReplyInv /\ SessionInv /\ HistoryInv
<1>1. Init => Inv
  BY InitType, BridgeInit, OneLoopInit, ReplyInit, SessionInit, HistoryInit
<1>2. Inv /\ [Next]_vars => Inv'
  BY StepType, BridgeStep, OneLoopStep, ReplyStep, SessionStep, HistoryStep DEF PatientQuestions
<1>3. Inv => HistoryInOrder
  BY DEF HistoryInv
<1> QED
  BY <1>1, <1>2, <1>3, PTL DEF Spec


-----------------------------------------------------------------------------
(* Approvals.  A calm client stops a session at any time, and asks or approves when  *)
(* nothing is going on; no deletion, and no 60 s timeout.  (A deletion leaves the    *)
(* checkpoint; a handler that gives up lets an abort in before Run has loaded it.)   *)
(* Then one loop at most is not gone, and what it is doing tells which of the two,   *)
(* the interrupt the session offers and the checkpoint, is ahead of the other.       *)

CalmClients == Pace = "calm" /\ ~Timeouts /\ Deletes = {}

Pending == sess[None].pending
Active(l) == loop[l].st \notin {"none", "exited"}
Gone == \A l \in Starters : ~Active(l)

\* A loop that is not gone is the session's, or an abort has it in hand; only an abort
\* that is waiting for it has stopped it.
LoopInHand ==
    /\ \A l \in Starters : Active(l) =>
          ts[None].loop = l \/ \E h \in Aborts : Stopping(h) /\ req[h].loop = l
    /\ \A h \in Aborts : Stopping(h) =>
          /\ ts[None].loop = None
          /\ req[h].loop \in Starters
          /\ loop[req[h].loop].st # "none"
    /\ \A l \in Starters : ts[None].loop = l => loop[l].st # "none"
    /\ \A l \in Starters : loop[l].stop # "no" =>
          \/ loop[l].st = "exited"
          \/ \E h \in Aborts : req[h].pc = "join" /\ req[h].loop = l

\* What a handler finds on its way to its item.
LoopAtRest ==
    /\ \A h \in Starters :
          /\ req[h].pc \in {"enter", "lock", "push"} => \A l \in Starters : AtRest(l)
          /\ req[h].pc = "dead" => Gone
          /\ req[h].pc \in {"idle", "clear", "enter", "lock", "push", "dead"} => loop[h] = NoLoop
          /\ req[h].pc = "start" => loop[h] = [NoLoop EXCEPT !.st = "made"]
    /\ \A h \in Approves : req[h].pc \in {"clear", "enter", "lock"} => Gone
    /\ \A l \in Starters :
          /\ loop[l].st = "made" => req[l].pc = "start"
          /\ loop[l].st = "load" => loop[l] = [NoLoop EXCEPT !.st = "load", !.queue = <<l>>]

\* What a loop takes into a turn, and out of it.
LoopContents ==
    \A l \in Starters :
        /\ InTurn(l) => loop[l].queue = << >>
        /\ loop[l].save # None => loop[l].st \in {"exiting", "exited"} /\ loop[l].queue = << >>
        /\ loop[l].st = "idle" => \A c \in Starters : loop[l].queue = <<c>> => c \in Chats

\* The interrupt offered and the checkpoint, by what the loop is doing.
Offer ==
    /\ ckpt.items = << >>
    /\ \A l \in Starters :
          /\ loop[l].st \in {"idle", "snap", "send", "await"} =>
                Pending = None /\ (CkptGet = None \/ loop[l].loaded)
          /\ loop[l].st = "exiting" =>
                Pending = IF loop[l].save # None THEN loop[l].save
                          ELSE IF loop[l].loaded THEN None ELSE CkptGet
    /\ \A c \in Chats : loop[c].st \in {"made", "load"} => Pending = CkptGet
    /\ \A a \in Approves :
          /\ loop[a].st \in {"made", "load"} =>
                Pending = None /\ CkptGet # None /\ CkptGet = req[a].seen
          /\ req[a].pc = "clear" => Pending = CkptGet /\ CkptGet # None /\ CkptGet = req[a].seen
          /\ req[a].pc \in {"enter", "lock"} =>
                Pending = None /\ CkptGet # None /\ CkptGet = req[a].seen
    /\ (Gone /\ \A a \in Approves : req[a].pc \notin {"enter", "lock"}) => Pending = CkptGet

\* The loop of an approval has resumed what was approved.
Resumes ==
    /\ \A p \in resumed : p[1] = p[2]
    /\ \A a \in Approves :
          loop[a].st \notin {"none", "made", "load"} => <<req[a].seen, req[a].seen>> \in resumed

CalmInv == LoopInHand /\ LoopAtRest /\ LoopContents /\ Offer /\ Resumes

\* An approval makes the old handler bail, stops its loop, and takes over.
LEMMA ApproveNewLoopReply ==
  ASSUME TypeInv, BridgeInv, OneLoopInv, ReplyInv, NEW h \in Requests, ApproveNewLoop(h)
  PROVE  ReplyInv'
<1>1. /\ h \in Starters /\ req[h].pc = "lock" /\ UNCHANGED <<tsGen, replies>>
      /\ \A c \in Starters : c # h => req'[c] = req[c]
  BY OwnRecord, Names DEF ApproveNewLoop, HandlerStep
<1>2. tsGen \in Gens /\ req[h].ts = tsGen /\ Busy(h)
  BY <1>1 DEF OneLoopInv, ReadsAreFresh, TypeInv, TypeOK, Busy, Finished
<1>3. \A l \in Starters : loop[l].queue = << >> /\ loop[l].st \notin {"snap", "send"}
  BY <1>1, <1>2, NothingExpected DEF ReplyInv
<1>4. \A c \in Starters : c # h => req[c].pc \in {"idle", "stream"} \cup Finished
  BY <1>2, OthersNotWaiting
<1>5. /\ req'[h].pc = "start" /\ req'[h].bridge = <<h, 1>> /\ req'[h].loop = h
      /\ ts'[tsGen].bridge = <<h, 1>>
  BY <1>1, <1>2 DEF ApproveNewLoop, TakeOver, TypeInv, TypeOK, Handler, TurnState
<1>6. \A b \in Bridge :
         /\ chan'[b].ready = chan[b].ready /\ chan'[b].done = chan[b].done
         /\ chan'[b].closed => chan[b].closed \/ b = ts[tsGen].bridge
  BY <1>1, <1>2 DEF ApproveNewLoop, CloseHandlerDone, TypeInv, TypeOK, Channels
<1>7. \A c \in Starters : \A b \in Own(c) :
         b = ts[tsGen].bridge => req[c].pc \in {"stream"} \cup Finished
  <2> SUFFICES ASSUME NEW c \in Starters, NEW k \in {1, 2}, <<c, k>> = ts[tsGen].bridge
               PROVE  req[c].pc \in {"stream"} \cup Finished
    BY DEF Own
  <2>1. ~Unmade(c, k)
    BY <1>2 DEF BridgeInv
  <2>2. c # h /\ req[c].pc # "idle"
    BY <1>1, <2>1 DEF Unmade
  <2> QED
    BY <1>4, <2>2
<1>8. \A c \in Starters : Own(c) \subseteq Bridge
  BY Names DEF Own
<1>9. \A l \in Starters :
         /\ loop'[l].queue = loop[l].queue
         /\ \/ loop'[l].st = "made"
            \/ /\ loop'[l].st = loop[l].st /\ loop'[l].turn = loop[l].turn
               /\ loop'[l].bridge = loop[l].bridge
  BY ZenonT(60) DEF ApproveNewLoop, StoppedNow, TypeInv, TypeOK, TurnLoop
<1>10. Items'
  BY <1>3, <1>9 DEF Items
<1>11. Envelopes'
  <2>1. ASSUME NEW c \in Starters, c # h
        PROVE  /\ \A b \in Own(c) :
                      /\ chan'[b].ready \in {None, c}
                      /\ chan'[b].done # NoResult => chan'[b].done.turn = c
                      /\ chan'[b].closed => req'[c].pc \in {"stream"} \cup Finished
               /\ req'[c].pc \in {"idle", "clear", "enter", "lock", "push", "dead", "start"} => Unsent(c)'
    BY <1>1, <1>6, <1>7, <1>8, <2>1 DEF ReplyInv, Envelopes, Unsent
  <2>2. /\ \A b \in Own(h) :
                      /\ chan'[b].ready \in {None, h}
                      /\ chan'[b].done # NoResult => chan'[b].done.turn = h
                      /\ ~chan'[b].closed
        /\ Unsent(h)'
    BY <1>1, <1>6, <1>7, <1>8 DEF ReplyInv, Envelopes, Unsent, Finished
  <2> QED
    BY <2>1, <2>2 DEF Envelopes
<1>12. OwnBridges'
  <2>1. \A c \in Starters :
          /\ req'[c].pc \in {"push", "dead", "start", "wait", "stream"} => req'[c].bridge \in Own(c)
          /\ req'[c].pc \in {"push", "start", "wait"} => ts'[tsGen].bridge = req'[c].bridge
          /\ req'[c].pc = "start" => req'[c].loop = c
          /\ req'[c].pc = "stream" => req'[c].turn = c
    BY <1>1, <1>4, <1>5 DEF ReplyInv, OwnBridges, Own, Finished
  <2>2. \A l \in Starters : loop'[l].st \in {"send", "await"} =>
          loop'[l].turn \in Starters /\ loop'[l].bridge \in Own(loop'[l].turn)
    BY <1>9 DEF ReplyInv, OwnBridges
  <2> QED
    BY <1>1, <2>1, <2>2 DEF OwnBridges
<1> QED
  BY <1>1, <1>10, <1>11, <1>12 DEF ReplyInv, ReplyToOwnTurn

\* A resumed turn is the one of the approval, if the checkpoint brings no items.
LEMMA ResumeReply ==
  ASSUME TypeInv, ReplyInv, ckpt.items = << >>, NEW l \in Starters, LoopResume(l)
  PROVE  ReplyInv'
<1>1. /\ loop[l].st = "load" /\ UNCHANGED <<ts, tsGen, req, chan, replies>>
      /\ loop[l] \in TurnLoop
  BY DEF LoopResume, tsVars, TypeInv, TypeOK
<1>2. PICK k \in 1..Len(loop[l].queue) :
        loop' = [loop EXCEPT ![l] = [FreshTurn(l, loop[l].queue[k], << >>) EXCEPT !.loaded = TRUE]]
  BY DEF LoopResume
<1>3. PICK c \in Starters : loop[l].queue = <<c>> /\ Expected(c, l)
  <2>1. loop[l].queue # << >>
    BY <1>2
  <2> QED
    BY <2>1 DEF ReplyInv, Items
<1>4. loop[l].queue[k] = c
  <2>1. k = 1
    BY <1>2, <1>3
  <2> QED
    BY <1>3, <2>1
<1>5. /\ loop'[l].st = "snap" /\ loop'[l].turn = c /\ loop'[l].queue = << >>
      /\ \A m \in Starters : m # l => loop'[m] = loop[m]
  BY <1>1, <1>2, <1>4 DEF FreshTurn, TypeInv, TypeOK, TurnLoop
<1>6. Items'
  <2>1. \A b, m \in Starters : Expected(b, m) => Expected(b, m)'
    BY <1>1 DEF Expected, Unsent
  <2>2. Expected(loop[l].turn, l)'
    <3>1. Expected(c, l)'
      BY <1>3, <2>1
    <3> QED
      BY <1>5, <3>1 DEF Expected, Unsent
  <2> QED
    BY <1>5, <2>1, <2>2 DEF ReplyInv, Items
<1>7. Envelopes'
  BY <1>1 DEF ReplyInv, Envelopes, Unsent
<1>8. OwnBridges'
  BY <1>1, <1>5 DEF ReplyInv, OwnBridges
<1> QED
  BY <1>1, <1>6, <1>7, <1>8 DEF ReplyInv, ReplyToOwnTurn

LEMMA CalmNames ==
  ASSUME CalmClients, TypeInv
  PROVE  /\ Gens = {None} /\ tsGen = None /\ sessGen = None
         /\ \A h \in Requests : req[h].ts = None /\ req[h].sess = None
         /\ Requests = Starters \cup Aborts
         /\ Pace = "calm" /\ ~Timeouts
         /\ \A h \in Requests : ~TimeOut(h) /\ ~DeleteStop(h) /\ ~DeleteStore(h) /\ ~DeleteState(h)
<1>1. Deletes = {} /\ Gens = {None} /\ Requests = Starters \cup Aborts
  BY DEF CalmClients, Gens, Requests, Starters
<1>2. /\ tsGen = None /\ sessGen = None
      /\ \A h \in Requests : req[h].ts = None /\ req[h].sess = None
  BY <1>1, Fields DEF TypeInv, TypeOK
<1>3. \A h \in Requests : ~TimeOut(h) /\ ~DeleteStop(h) /\ ~DeleteStore(h) /\ ~DeleteState(h)
  BY <1>1 DEF CalmClients, TimeOut, DeleteStop, DeleteStore, DeleteState
<1> QED
  BY <1>1, <1>2, <1>3 DEF CalmClients

\* An idle loop has a question to take, if anything.
LEMMA NoQuerylessInput ==
  ASSUME ReplyInv, CalmInv, NEW l \in Starters, LoopNoQuery(l)
  PROVE  FALSE
<1>1. PICK c \in Starters : loop[l].queue = <<c>>
  BY DEF LoopNoQuery, ReplyInv, Items
<1>2. c \in Chats
  BY <1>1 DEF LoopNoQuery, CalmInv, LoopContents
<1>3. 1 \in Positions(loop[l].queue, Chats)
  BY <1>1, <1>2 DEF Positions
<1> QED
  BY <1>3 DEF LoopNoQuery

\* The steps under which what is said of replies holds, approvals included.
LEMMA CalmReplyStep ==
  ASSUME CalmClients, TypeInv, BridgeInv, OneLoopInv, ReplyInv, CalmInv, [Next]_vars
  PROVE  ReplyInv'
<1>1. ckpt.items = << >>
  BY DEF CalmInv, Offer
<1>2. \A l \in Starters : ~LoopNoQuery(l)
  BY NoQuerylessInput
<1>3. ASSUME NEW h \in Requests, Arrival(h) \/ HandlerStep(h) PROVE ReplyInv'
  BY <1>3, CalmNames, QuietReply, ChatSupersedeReply, NewLoopReply, ChatPushReply,
     StartReply, ReceiveReply, StreamEndReply, NoBail, ApproveNewLoopReply
     DEF Arrival, HandlerStep
<1>4. ASSUME NEW l \in Starters, LoopStep(l) PROVE ReplyInv'
  BY <1>1, <1>2, <1>4, QuietLoopReply, GenInputReply, SnapshotReply, SendReply, ResultReply,
     ResumeReply DEF LoopStep
<1>5. CASE UNCHANGED vars
  BY <1>5, ReplyFrame DEF vars
<1> QED
  BY <1>3, <1>4, <1>5 DEF Next

\* One loop at most is not gone, ...
LEMMA OneActive ==
  ASSUME OneLoopInv, CalmInv, NEW l \in Starters, Active(l)
  PROVE  \A m \in Starters : Active(m) => m = l
<1> SUFFICES ASSUME NEW m \in Starters, Active(m) PROVE m = l
  OBVIOUS
<1>1. \A g, h \in Aborts : (Stopping(g) /\ Stopping(h)) => g = h
  BY Names DEF OneLoopInv, OneBusy, Busy, Stopping, Finished
<1> QED
  BY <1>1, Names DEF CalmInv, LoopInHand

\* ... none if the turn state has none and no abort is on its way, ...
LEMMA NoneActive ==
  ASSUME CalmInv, ts[None].loop = None, \A h \in Aborts : ~Stopping(h)
  PROVE  Gone
  BY Names DEF CalmInv, LoopInHand, Gone

\* ... and no abort is, while another handler is at work.
LEMMA NotStopping ==
  ASSUME OneLoopInv, NEW h \in Requests, Busy(h)
  PROVE  \A a \in Aborts : a # h => ~Stopping(a)
  BY OthersRest, Names DEF OneLoopInv, Stopping, Finished

\* What is queued has a handler that waits, so a loop is at rest for the others.
LEMMA QueuedIsWaited ==
  ASSUME TypeInv, OneLoopInv, Items, NEW l \in Starters, loop[l].queue # << >>
  PROVE  \A h \in Requests : Busy(h) => req[h].pc = "wait"
  BY NothingExpected

\* A step of a handler that leaves the loops, the checkpoint and the interrupt alone.
LEMMA RequestCalm ==
  ASSUME TypeInv, CalmInv, NEW h \in Starters,
         UNCHANGED <<loop, ckpt, resumed>>, Pending' = Pending,
         ts'[None].loop = ts[None].loop,
         \A g \in Requests : g # h => req'[g] = req[g],
         req[h].pc # "start", req'[h].pc \notin {"idle", "start"},
         req'[h].pc \in {"enter", "lock", "push"} => \A l \in Starters : AtRest(l),
         req'[h].pc = "dead" => Gone,
         req'[h].pc \in {"clear", "enter", "lock", "push", "dead"} => loop[h] = NoLoop,
         h \in Approves =>
            \/ /\ req'[h].seen = req[h].seen
               /\ req'[h].pc # "clear"
               /\ req'[h].pc \in {"enter", "lock"} <=> req[h].pc \in {"enter", "lock"}
            \/ /\ req[h].pc = "idle" /\ req'[h].pc = "clear" /\ Gone
               /\ req'[h].seen = Pending /\ Pending = CkptGet /\ CkptGet # None
  PROVE  CalmInv'
<1>1. LoopInHand'
  BY ChatAssumption, Names DEF CalmInv, LoopInHand, Stopping, Active, Starters
<1>2. LoopAtRest'
  BY Names, ZenonT(60) DEF CalmInv, LoopAtRest, AtRest, Gone, Active
<1>3. LoopContents'
  BY DEF CalmInv, LoopContents, InTurn
<1>4. \A a \in Approves :
         loop[a].st \notin {"none", "made", "load"} => req'[a].seen = req[a].seen
  <2>1. ASSUME NEW a \in Approves, a # h PROVE req'[a].seen = req[a].seen
    BY <2>1, Names
  <2>2. h \in Approves /\ req'[h].seen # req[h].seen => loop[h].st = "none"
    <3>1. NoLoop.st = "none"
      BY DEF NoLoop
    <3>2. h \in Approves /\ req'[h].seen # req[h].seen => loop[h] = NoLoop
      BY DEF CalmInv, LoopAtRest
    <3> QED
      BY <3>1, <3>2
  <2> QED
    BY <2>1, <2>2
<1>5. Resumes'
  BY <1>4 DEF CalmInv, Resumes
<1>6. CkptGet' = CkptGet
  BY DEF CkptGet
<1>7. Offer'
  <2>1. \A a \in Approves :
          /\ loop[a].st \in {"made", "load"} =>
                Pending = None /\ CkptGet # None /\ CkptGet = req'[a].seen
          /\ req'[a].pc = "clear" => Pending = CkptGet /\ CkptGet # None /\ CkptGet = req'[a].seen
          /\ req'[a].pc \in {"enter", "lock"} =>
                Pending = None /\ CkptGet # None /\ CkptGet = req'[a].seen
    <3>1. ASSUME NEW a \in Approves, a # h PROVE req'[a] = req[a]
      BY <3>1, Names
    <3>2. h \in Approves /\ req'[h].seen # req[h].seen => loop[h] = NoLoop
      BY DEF CalmInv, LoopAtRest
    <3> QED
      BY <3>1, <3>2 DEF CalmInv, Offer, NoLoop
  <2>2. Gone' <=> Gone
    BY DEF Gone, Active
  <2>3. (Gone /\ \A a \in Approves : req'[a].pc \notin {"enter", "lock"}) => Pending = CkptGet
    <3>1. ASSUME NEW a \in Approves, a # h PROVE req'[a] = req[a]
      BY <3>1, Names
    <3> QED
      BY <3>1 DEF CalmInv, Offer
  <2> QED
    BY <1>6, <2>1, <2>2, <2>3 DEF CalmInv, Offer
<1> QED
  BY <1>1, <1>2, <1>3, <1>5, <1>7 DEF CalmInv

LEMMA QuietCalm ==
  ASSUME CalmClients, TypeInv, OneLoopInv, ReplyInv, CalmInv, NEW h \in Requests,
         Enter(h) \/ Lookup(h) \/ ChatSupersede(h) \/ Receive(h) \/ StreamEnd(h)
  PROVE  CalmInv'
<1>1. /\ h \in Starters /\ UNCHANGED <<loop, ckpt, resumed, sess>>
      /\ \A g \in Requests : g # h => req'[g] = req[g]
  BY OwnRecord, Names DEF Enter, Lookup, ChatSupersede, Receive, StreamEnd, Arrival, HandlerStep,
     storeVars
<1>2. ts'[None].loop = ts[None].loop /\ Pending' = Pending
  BY <1>1, CalmNames DEF Enter, Lookup, ChatSupersede, Receive, StreamEnd, NewBridge, Pending,
     tsVars, TypeInv, TypeOK, TurnState
<1>3. CASE Enter(h)
  <2>1. req[h].pc = "idle" /\ req'[h].pc = "enter" /\ h \in Chats
    BY <1>3 DEF Enter, MayArrive, TypeInv, TypeOK, Handler
  <2>2. loop[h] = NoLoop
    BY <1>1, <2>1 DEF CalmInv, LoopAtRest
  <2>3. \A l \in Starters : AtRest(l)
    BY <1>1, <1>3, CalmNames DEF Enter, MayArrive
  <2> QED
    BY <1>1, <1>2, <2>1, <2>2, <2>3, RequestCalm, ChatAssumption
<1>4. CASE Lookup(h)
  <2>1. req[h].pc = "enter" /\ req'[h].pc = "lock" /\ req'[h].seen = req[h].seen
    BY <1>4 DEF Lookup, TypeInv, TypeOK, Handler
  <2>2. loop[h] = NoLoop /\ \A l \in Starters : AtRest(l)
    BY <1>1, <2>1 DEF CalmInv, LoopAtRest
  <2> QED
    BY <1>1, <1>2, <2>1, <2>2, RequestCalm
<1>5. CASE ChatSupersede(h)
  <2>1. req[h].pc = "lock" /\ req'[h].pc = "push" /\ h \in Chats
    BY <1>5 DEF ChatSupersede, TypeInv, TypeOK, Handler
  <2>2. loop[h] = NoLoop /\ \A l \in Starters : AtRest(l)
    BY <1>1, <2>1 DEF CalmInv, LoopAtRest
  <2> QED
    BY <1>1, <1>2, <2>1, <2>2, RequestCalm, ChatAssumption
<1>6. CASE Receive(h) \/ StreamEnd(h)
  <2>1. /\ req[h].pc \in {"wait", "stream"} /\ req'[h].pc \in {"stream", "done"}
        /\ req'[h].seen = req[h].seen
    BY <1>6, ZenonT(60) DEF Receive, StreamEnd, TypeInv, TypeOK, Handler
  <2> QED
    BY <1>1, <1>2, <2>1, RequestCalm
<1> QED
  BY <1>3, <1>4, <1>5, <1>6

\* An approval is accepted when a loop has exited with its interrupt, and every loop is gone.
LEMMA ApproveReadCalm ==
  ASSUME CalmClients, TypeInv, OneLoopInv, ReplyInv, CalmInv, NEW h \in Requests, ApproveRead(h)
  PROVE  CalmInv'
<1>1. /\ h \in Approves /\ h \in Starters /\ UNCHANGED <<loop, ckpt, resumed, sess, ts>>
      /\ \A g \in Requests : g # h => req'[g] = req[g]
      /\ req[h].pc = "idle"
  BY OwnRecord, Names DEF ApproveRead, Arrival, storeVars, tsVars, MayArrive
<1>2. Pending' = Pending
  BY <1>1 DEF Pending
<1>3. loop[h] = NoLoop
  BY <1>1 DEF CalmInv, LoopAtRest
<1>4. CASE req' = [req EXCEPT ![h].pc = "rejected"]
  <2>1. req'[h].pc = "rejected" /\ req'[h].seen = req[h].seen
    BY <1>4 DEF TypeInv, TypeOK, Handler
  <2> QED
    BY <1>1, <1>2, <2>1, RequestCalm
<1>5. CASE /\ sess[sessGen].pending # None
           /\ req' = [req EXCEPT ![h] = [@ EXCEPT !.pc = "clear", !.sess = sessGen,
                                                    !.seen = sess[sessGen].pending]]
  <2>1. req'[h].pc = "clear" /\ req'[h].seen = Pending /\ Pending # None
    BY <1>5, CalmNames DEF TypeInv, TypeOK, Handler, Pending
  <2>2. /\ \A l \in Starters : AtRest(l)
        /\ \A a \in Approves : req[a].pc \notin {"enter", "lock"}
    BY <1>1, CalmNames, Names DEF ApproveRead, MayArrive, Finished
  <2>3. Gone
    BY <2>1, <2>2 DEF Gone, Active, AtRest, CalmInv, Offer
  <2>4. Pending = CkptGet
    BY <2>2, <2>3 DEF CalmInv, Offer
  <2> QED
    BY <1>1, <1>2, <1>3, <2>1, <2>3, <2>4, RequestCalm
<1> QED
  BY <1>4, <1>5 DEF ApproveRead

LEMMA ApproveClearCalm ==
  ASSUME CalmClients, TypeInv, OneLoopInv, ReplyInv, CalmInv, NEW h \in Requests, ApproveClear(h)
  PROVE  CalmInv'
<1>1. /\ h \in Approves /\ h \in Starters /\ UNCHANGED <<loop, ckpt, resumed, ts>>
      /\ \A g \in Requests : g # h => req'[g] = req[g]
      /\ req[h].pc = "clear"
  BY OwnRecord, Names DEF ApproveClear, HandlerStep, tsVars
<1>2. Pending' = None
  BY <1>1, CalmNames DEF ApproveClear, Pending, TypeInv, TypeOK, Session
<1>3. req'[h].pc = "enter" /\ req'[h].seen = req[h].seen
  BY <1>1 DEF ApproveClear, TypeInv, TypeOK, Handler
<1>4. Gone /\ CkptGet # None /\ CkptGet = req[h].seen
  BY <1>1 DEF CalmInv, LoopAtRest, Offer
<1>5. \A a \in Approves : a # h => req[a].pc \notin {"clear", "enter", "lock"}
  BY <1>1, Names, OthersRest DEF OneLoopInv, Busy, Finished
<1>6. CkptGet' = CkptGet /\ Gone'
  BY <1>1, <1>4 DEF CkptGet, Gone, Active
<1>7. \A l \in Starters : loop[l].st \in {"none", "exited"}
  BY <1>4 DEF Gone, Active
<1>8. LoopInHand'
  BY <1>1, ChatAssumption, Names DEF CalmInv, LoopInHand, Stopping, Active, Starters
<1>9. LoopAtRest'
  <2>1. \A l \in Starters : AtRest(l)'
    BY <1>1, <1>7 DEF AtRest
  <2>2. loop[h] = NoLoop
    BY <1>1 DEF CalmInv, LoopAtRest
  <2> QED
    BY <1>1, <1>3, <1>6, <2>1, <2>2, Names, ZenonT(60) DEF CalmInv, LoopAtRest
<1>10. LoopContents'
  BY <1>1 DEF CalmInv, LoopContents, InTurn
<1>11. Resumes'
  BY <1>1, <1>3, Names DEF CalmInv, Resumes
<1>12. Offer'
  <2>1. \A a \in Approves :
          /\ req'[a].pc # "clear"
          /\ req'[a].pc \in {"enter", "lock"} => CkptGet = req'[a].seen
    BY <1>1, <1>3, <1>4, <1>5, Names
  <2> QED
    BY <1>1, <1>2, <1>3, <1>4, <1>6, <1>7, <2>1, Names DEF CalmInv, Offer
<1> QED
  BY <1>8, <1>9, <1>10, <1>11, <1>12 DEF CalmInv

\* A new loop takes over from loops that are gone, one of which may be stopped again.
LEMMA NewLoopCalm ==
  ASSUME TypeInv, OneLoopInv, CalmInv, NEW h \in Starters,
         UNCHANGED <<ckpt, resumed>>, Pending' = Pending,
         \A g \in Requests : g # h => req'[g] = req[g],
         Busy(h), Gone, req'[h].pc = "start", req'[h].seen = req[h].seen,
         loop[h] = NoLoop,
         ts'[None].loop = h,
         loop'[h] = [NoLoop EXCEPT !.st = "made"],
         \A l \in Starters : l # h =>
            \/ loop'[l] = loop[l]
            \/ /\ loop[l].st = "exited" /\ loop'[l].st = "exited"
               /\ loop'[l].save = loop[l].save /\ loop'[l].queue = loop[l].queue,
         h \in Chats => Pending = CkptGet,
         h \in Approves => Pending = None /\ CkptGet # None /\ CkptGet = req[h].seen
  PROVE  CalmInv'
<1>1. /\ h \in Requests /\ \A a \in Aborts : a # h /\ ~Stopping(a) /\ ~Stopping(a)'
  <2>1. h \in Requests /\ h \notin Aborts
    BY Names, ChatAssumption DEF Starters
  <2> QED
    BY <2>1, NotStopping, Names DEF Stopping
<1>2. /\ \A l \in Starters : loop[l].st \in {"none", "exited"}
      /\ \A l \in Starters : l # h => loop'[l].st \in {"none", "exited"}
  BY DEF Gone, Active
<1>3. /\ loop'[h].st = "made" /\ loop'[h].stop = "no" /\ loop'[h].save = None
  BY DEF NoLoop
<1>4. \A g \in Starters : g # h =>
         req'[g].pc = req[g].pc /\ req[g].pc \in {"idle", "stream"} \cup Finished
  BY <1>1, OthersRest, Names DEF OneLoopInv
<1>5. LoopInHand'
  <2>1. \A l \in Starters : loop[l].stop # "no" => loop[l].st = "exited"
    BY <1>1 DEF CalmInv, LoopInHand, Stopping
  <2>2. \A l \in Starters : loop'[l].stop # "no" => loop'[l].st = "exited"
    BY <1>3, <2>1, ZenonT(60)
  <2> QED
    BY <1>1, <1>2, <1>3, <2>2 DEF LoopInHand, Active
<1>6. LoopAtRest'
  <2>1. \A l \in Starters : (l # h /\ req'[l].pc = "idle") => loop'[l] = NoLoop
    <3> SUFFICES ASSUME NEW l \in Starters, l # h, req'[l].pc = "idle" PROVE loop'[l] = NoLoop
      OBVIOUS
    <3>1. req[l].pc = "idle"
      BY <1>4
    <3>2. loop[l] = NoLoop
      BY <3>1 DEF CalmInv, LoopAtRest
    <3>3. loop[l].st = "none"
      BY <3>2 DEF NoLoop
    <3> QED
      BY <3>2, <3>3
  <2>2. \A l \in Starters : l # h =>
           req'[l].pc \notin {"clear", "enter", "lock", "push", "dead", "start"}
    BY <1>4 DEF Finished
  <2>3. \A l \in Starters : /\ loop'[l].st = "made" => l = h
                            /\ loop'[l].st # "load"
    BY <1>2, <1>3
  <2>4. \A l \in Starters :
          /\ req'[l].pc \in {"idle", "clear", "enter", "lock", "push", "dead"} => loop'[l] = NoLoop
          /\ req'[l].pc \notin {"enter", "lock", "push", "dead", "clear"}
          /\ req'[l].pc = "start" => l = h
    BY <2>1, <2>2
  <2>5. \A a \in Approves : req'[a].pc \notin {"clear", "enter", "lock"}
    BY <2>4, Names
  <2>6. \A l \in Starters :
          /\ req'[l].pc = "start" => loop'[l] = [NoLoop EXCEPT !.st = "made"]
          /\ loop'[l].st = "made" => req'[l].pc = "start"
    <3> SUFFICES ASSUME NEW l \in Starters
                 PROVE  /\ req'[l].pc = "start" => loop'[l] = [NoLoop EXCEPT !.st = "made"]
                        /\ loop'[l].st = "made" => req'[l].pc = "start"
      OBVIOUS
    <3>1. CASE l = h
      BY <3>1
    <3>2. CASE l # h
      BY <2>3, <2>4, <3>2
    <3> QED
      BY <3>1, <3>2
  <2> QED
    BY <2>3, <2>4, <2>5, <2>6 DEF LoopAtRest
<1>7. LoopContents'
  <2>1. \A l \in Starters : l # h =>
           loop'[l].save = loop[l].save /\ loop'[l].queue = loop[l].queue /\ loop'[l].st = loop[l].st
    OBVIOUS
  <2>2. \A l \in Starters : loop'[l].st \in {"none", "made", "exited"}
    BY <1>2, <1>3
  <2>3. \A l \in Starters : loop'[l].save # None =>
           loop'[l].st = "exited" /\ loop'[l].queue = << >>
    <3> SUFFICES ASSUME NEW l \in Starters, loop'[l].save # None
                 PROVE  loop'[l].st = "exited" /\ loop'[l].queue = << >>
      OBVIOUS
    <3>1. l # h
      BY <1>3
    <3>2. loop[l].save # None
      BY <2>1, <3>1
    <3>3. loop[l].st \in {"exiting", "exited"} /\ loop[l].queue = << >>
      BY <3>2 DEF CalmInv, LoopContents
    <3> QED
      BY <1>2, <2>1, <3>1, <3>3
  <2> QED
    BY <2>2, <2>3 DEF LoopContents, InTurn
<1>8. Resumes'
  <2>1. \A a \in Approves : req'[a].seen = req[a].seen
    <3> SUFFICES ASSUME NEW a \in Approves PROVE req'[a].seen = req[a].seen
      OBVIOUS
    <3>1. CASE a = h
      BY <3>1
    <3>2. CASE a # h
      BY <3>2, Names
    <3> QED
      BY <3>1, <3>2
  <2>2. \A a \in Approves : loop'[a].st \notin {"none", "made", "load"} => loop'[a].st = loop[a].st
    <3> SUFFICES ASSUME NEW a \in Approves, a # h PROVE loop'[a].st = loop[a].st
      BY <1>3
    <3> QED
      BY Names
  <2> QED
    BY <2>1, <2>2 DEF CalmInv, Resumes
<1>9. CkptGet' = CkptGet
  BY DEF CkptGet
<1>10. Offer'
  <2>1. \A l \in Starters :
          loop'[l].st \notin {"idle", "snap", "send", "await", "exiting", "load"}
    BY <1>2, <1>3
  <2>2. \A c \in Chats : loop'[c].st = "made" => Pending = CkptGet
    BY <1>2, Names
  <2>3. \A a \in Approves :
          /\ loop'[a].st = "made" =>
                Pending = None /\ CkptGet # None /\ CkptGet = req'[a].seen
          /\ req'[a].pc \notin {"clear", "enter", "lock"}
    BY <1>2, <1>4, Names DEF Finished
  <2>4. ~Gone'
    BY <1>3 DEF Gone, Active
  <2>5. \A a \in Chats \cup Approves : loop'[a].st # "load"
    BY <2>1, Names
  <2>6. ckpt'.items = << >>
    BY DEF CalmInv, Offer
  <2>7. \A a \in Approves :
          /\ loop'[a].st \in {"made", "load"} =>
                Pending' = None /\ CkptGet' # None /\ CkptGet' = req'[a].seen
          /\ req'[a].pc \notin {"clear", "enter", "lock"}
    BY <1>9, <2>3, <2>5
  <2>8. \A c \in Chats : loop'[c].st \in {"made", "load"} => Pending' = CkptGet'
    BY <1>9, <2>2, <2>5
  <2> QED
    BY <2>1, <2>4, <2>6, <2>7, <2>8 DEF Offer
<1> QED
  BY <1>5, <1>6, <1>7, <1>8, <1>10 DEF CalmInv

LEMMA ChatLoopCalm ==
  ASSUME CalmClients, TypeInv, OneLoopInv, ReplyInv, CalmInv, NEW h \in Requests,
         ChatNewLoop(h) \/ ChatReplaceDead(h)
  PROVE  CalmInv'
<1>1. /\ h \in Chats /\ h \in Starters /\ UNCHANGED <<ckpt, resumed, sess>>
      /\ \A g \in Requests : g # h => req'[g] = req[g]
      /\ req[h].pc \in {"lock", "dead"}
  BY OwnRecord, Names DEF ChatNewLoop, ChatReplaceDead, HandlerStep, storeVars
<1>2. Pending' = Pending /\ Busy(h)
  BY <1>1 DEF Pending, Busy, Finished
<1>3. /\ req'[h].pc = "start" /\ req'[h].seen = req[h].seen
      /\ ts'[None].loop = h
  <2>1. CASE ChatNewLoop(h)
    BY <1>1, <2>1, CalmNames DEF ChatNewLoop, TakeOver, TypeInv, TypeOK, Handler
  <2>2. CASE ChatReplaceDead(h)
    BY <1>1, <2>2, CalmNames DEF ChatReplaceDead, TakeOver, TypeInv, TypeOK, Handler
  <2> QED
    BY <2>1, <2>2
<1>4. loop[h] = NoLoop
  BY <1>1 DEF CalmInv, LoopAtRest
<1>5. /\ loop'[h] = [NoLoop EXCEPT !.st = "made"]
      /\ \A l \in Starters : l # h => loop'[l] = loop[l]
  BY <1>1, <1>4 DEF ChatNewLoop, ChatReplaceDead, TypeInv, TypeOK
<1>6. \A a \in Aborts : ~Stopping(a)
  BY <1>1, <1>2, NotStopping, ChatAssumption
<1>7. Gone
  <2>1. CASE ChatNewLoop(h)
    BY <1>6, <2>1, CalmNames, NoneActive DEF ChatNewLoop
  <2>2. CASE ChatReplaceDead(h)
    BY <1>1, <2>2 DEF ChatReplaceDead, CalmInv, LoopAtRest
  <2> QED
    BY <2>1, <2>2
<1>8. Pending = CkptGet
  <2>1. \A a \in Approves : req[a].pc \notin {"enter", "lock"}
    BY <1>1, <1>2, OthersRest, Names, ChatAssumption DEF OneLoopInv, Finished
  <2> QED
    BY <1>7, <2>1 DEF CalmInv, Offer
<1> QED
  BY <1>1, <1>2, <1>3, <1>4, <1>5, <1>7, <1>8, NewLoopCalm, ChatAssumption

LEMMA ApproveLoopCalm ==
  ASSUME CalmClients, TypeInv, OneLoopInv, ReplyInv, CalmInv, NEW h \in Requests,
         ApproveNewLoop(h)
  PROVE  CalmInv'
<1>1. /\ h \in Approves /\ h \in Starters /\ UNCHANGED <<ckpt, resumed, sess>>
      /\ \A g \in Requests : g # h => req'[g] = req[g]
      /\ req[h].pc = "lock"
  BY OwnRecord, Names DEF ApproveNewLoop, HandlerStep, storeVars
<1>2. Pending' = Pending /\ Busy(h)
  BY <1>1 DEF Pending, Busy, Finished
<1>3. /\ req'[h].pc = "start" /\ req'[h].seen = req[h].seen
      /\ ts'[None].loop = h
  BY <1>1, CalmNames DEF ApproveNewLoop, TakeOver, TypeInv, TypeOK, Handler
<1>4. loop[h] = NoLoop /\ Gone /\ Pending = None /\ CkptGet # None /\ CkptGet = req[h].seen
  BY <1>1 DEF CalmInv, LoopAtRest, Offer
<1>5. loop'[h] = [NoLoop EXCEPT !.st = "made"]
  BY <1>1, <1>4 DEF ApproveNewLoop
<1>6. \A l \in Starters : l # h =>
            \/ loop'[l] = loop[l]
            \/ /\ loop[l].st = "exited" /\ loop'[l].st = "exited"
               /\ loop'[l].save = loop[l].save /\ loop'[l].queue = loop[l].queue
  <2> SUFFICES ASSUME NEW l \in Starters, l # h, loop'[l] # loop[l]
               PROVE  /\ loop[l].st = "exited" /\ loop'[l].st = "exited"
                      /\ loop'[l].save = loop[l].save /\ loop'[l].queue = loop[l].queue
    OBVIOUS
  <2>1. ts[None].loop = l /\ loop'[l] = StoppedNow(l)
    BY <1>1, CalmNames DEF ApproveNewLoop
  <2>2. loop[l].st = "exited"
    BY <1>4, <2>1 DEF CalmInv, LoopInHand, Gone, Active
  <2> QED
    BY <2>1, <2>2 DEF StoppedNow, TypeInv, TypeOK, TurnLoop
<1> QED
  BY <1>1, <1>2, <1>3, <1>4, <1>5, <1>6, NewLoopCalm, ChatAssumption

\* A step of the one loop that is not gone, handlers and turn state being left alone.
LEMMA LoopCalm ==
  ASSUME TypeInv, OneLoopInv, CalmInv, NEW l \in Starters, Active(l),
         UNCHANGED req, ts'[None].loop = ts[None].loop,
         \A m \in Starters : m # l => loop'[m] = loop[m],
         loop[l].st # "made",
         loop'[l].st \in {"idle", "snap", "send", "await", "exiting", "exited"},
         loop'[l].stop = loop[l].stop,
         AtRest(l) => AtRest(l)' \/ \A h \in Starters : req[h].pc \notin {"enter", "lock", "push"},
         InTurn(l)' => loop'[l].queue = << >>,
         loop'[l].save # None => loop'[l].st \in {"exiting", "exited"} /\ loop'[l].queue = << >>,
         loop'[l].st = "idle" => \A c \in Starters : loop'[l].queue = <<c>> => c \in Chats,
         ckpt'.items = << >>,
         loop'[l].st \in {"idle", "snap", "send", "await"} =>
            Pending' = None /\ (CkptGet' = None \/ loop'[l].loaded),
         loop'[l].st = "exiting" =>
            Pending' = IF loop'[l].save # None THEN loop'[l].save
                       ELSE IF loop'[l].loaded THEN None ELSE CkptGet',
         loop'[l].st = "exited" => Pending' = CkptGet',
         resumed \subseteq resumed',
         \A p \in resumed' : p \in resumed \/ p[1] = p[2],
         (l \in Approves /\ loop[l].st = "load") => <<req[l].seen, req[l].seen>> \in resumed'
  PROVE  CalmInv'
<1>1. \A m \in Starters : m # l => loop[m].st \in {"none", "exited"} /\ loop'[m] = loop[m]
  BY OneActive DEF Active
<1>2. ~Gone
  BY DEF Gone
<1>3. LoopInHand'
  <2>1. loop'[l].st # "none"
    OBVIOUS
  <2>2. \A m \in Starters : Active(m)' => Active(m)
    BY <1>1 DEF Active
  <2>3. \A m \in Starters : loop'[m].st # "none" <=> loop[m].st # "none"
    BY <1>1 DEF Active
  <2>4. \A m \in Starters : loop'[m].stop = loop[m].stop /\ (loop[m].st = "exited" => loop'[m].st = "exited")
    BY <1>1 DEF Active
  <2>5. \A a \in Aborts : Stopping(a)' <=> Stopping(a)
    BY DEF Stopping
  <2> QED
    BY <2>1, <2>2, <2>3, <2>4, <2>5 DEF CalmInv, LoopInHand
<1>4. LoopAtRest'
  <2>1. \A h \in Starters : req[h].pc \in {"enter", "lock", "push"} =>
           \A m \in Starters : AtRest(m)'
    <3> SUFFICES ASSUME NEW h \in Starters, req[h].pc \in {"enter", "lock", "push"},
                        NEW m \in Starters
                 PROVE  AtRest(m)'
      OBVIOUS
    <3>1. AtRest(l)
      BY DEF CalmInv, LoopAtRest
    <3>2. AtRest(l)'
      BY <3>1
    <3> QED
      BY <1>1, <3>2 DEF AtRest
  <2>2. \A h \in Starters : req[h].pc # "dead"
    BY <1>2 DEF CalmInv, LoopAtRest
  <2>3. \A h \in Approves : req[h].pc \notin {"clear", "enter", "lock"}
    BY <1>2 DEF CalmInv, LoopAtRest
  <2>4. NoLoop.st = "none" /\ [NoLoop EXCEPT !.st = "made"].st = "made"
    BY DEF NoLoop
  <2>5. req[l].pc \notin {"idle", "clear", "enter", "lock", "push", "dead", "start"}
    BY <2>4 DEF CalmInv, LoopAtRest, Active
  <2>6. \A h \in Starters :
          /\ req[h].pc \in {"idle", "clear", "enter", "lock", "push", "dead"} => loop'[h] = NoLoop
          /\ req[h].pc = "start" => loop'[h] = [NoLoop EXCEPT !.st = "made"]
    BY <1>1, <2>5, ZenonT(60) DEF CalmInv, LoopAtRest
  <2>7. \A m \in Starters : loop'[m].st # "made" /\ loop'[m].st # "load"
    BY <1>1
  <2> QED
    BY <2>1, <2>2, <2>3, <2>6, <2>7 DEF LoopAtRest
<1>5. LoopContents'
  <2> SUFFICES ASSUME NEW m \in Starters
               PROVE  /\ InTurn(m)' => loop'[m].queue = << >>
                      /\ loop'[m].save # None =>
                            loop'[m].st \in {"exiting", "exited"} /\ loop'[m].queue = << >>
                      /\ loop'[m].st = "idle" =>
                            \A c \in Starters : loop'[m].queue = <<c>> => c \in Chats
    BY DEF LoopContents
  <2>1. CASE m = l
    BY <2>1
  <2>2. CASE m # l
    BY <1>1, <2>2 DEF CalmInv, LoopContents, InTurn
  <2> QED
    BY <2>1, <2>2
<1>6. Offer'
  <2>1. \A m \in Starters : m # l => loop'[m].st \in {"none", "exited"}
    BY <1>1
  <2>2. \A m \in Starters :
          /\ loop'[m].st \in {"idle", "snap", "send", "await"} =>
                Pending' = None /\ (CkptGet' = None \/ loop'[m].loaded)
          /\ loop'[m].st = "exiting" =>
                Pending' = IF loop'[m].save # None THEN loop'[m].save
                           ELSE IF loop'[m].loaded THEN None ELSE CkptGet'
    <3> SUFFICES ASSUME NEW m \in Starters
                 PROVE
          /\ loop'[m].st \in {"idle", "snap", "send", "await"} =>
                Pending' = None /\ (CkptGet' = None \/ loop'[m].loaded)
          /\ loop'[m].st = "exiting" =>
                Pending' = IF loop'[m].save # None THEN loop'[m].save
                           ELSE IF loop'[m].loaded THEN None ELSE CkptGet'
      OBVIOUS
    <3>1. CASE m = l
      BY <3>1
    <3>2. CASE m # l
      BY <2>1, <3>2
    <3> QED
      BY <3>1, <3>2
  <2>3. \A c \in Chats \cup Approves : loop'[c].st \notin {"made", "load"}
    BY <2>1, Names
  <2>4. \A a \in Approves : req[a].pc \notin {"clear", "enter", "lock"}
    BY <1>2 DEF CalmInv, LoopAtRest
  <2>5. Gone' => Pending' = CkptGet'
    BY DEF Gone, Active
  <2> QED
    BY <2>2, <2>3, <2>4, <2>5 DEF Offer
<1>7. Resumes'
  <2>1. \A p \in resumed' : p[1] = p[2]
    BY DEF CalmInv, Resumes
  <2>2. ASSUME NEW a \in Approves, loop'[a].st \notin {"none", "made", "load"}
        PROVE  <<req[a].seen, req[a].seen>> \in resumed'
    <3>1. CASE a = l /\ loop[l].st = "load"
      BY <3>1
    <3>2. CASE a # l \/ loop[l].st # "load"
      <4>1. loop[a].st \notin {"none", "made", "load"}
        BY <1>1, <2>2, <3>2, Names DEF Active
      <4> QED
        BY <4>1 DEF CalmInv, Resumes
    <3> QED
      BY <3>1, <3>2
  <2> QED
    BY <2>1, <2>2 DEF Resumes
<1> QED
  BY <1>3, <1>4, <1>5, <1>6, <1>7 DEF CalmInv

\* Run finds no checkpoint: then the loop is a question's, for an approval has one.
LEMMA PlainCalm ==
  ASSUME CalmClients, TypeInv, OneLoopInv, ReplyInv, CalmInv, NEW l \in Starters, LoopPlain(l)
  PROVE  CalmInv'
<1>1. /\ loop[l].st = "load" /\ UNCHANGED <<req, ts, ckpt, sess, resumed>>
      /\ loop' = [loop EXCEPT ![l].st = "idle"]
  BY DEF LoopPlain, tsVars, storeVars
<1>2. loop[l] = [NoLoop EXCEPT !.st = "load", !.queue = <<l>>]
  BY <1>1 DEF CalmInv, LoopAtRest
<1>3. /\ loop'[l].st = "idle" /\ loop'[l].stop = loop[l].stop /\ loop'[l].queue = <<l>>
      /\ loop[l].stop = "no" /\ loop'[l].save = None
      /\ \A m \in Starters : m # l => loop'[m] = loop[m]
  BY <1>1, <1>2 DEF NoLoop, TypeInv, TypeOK
<1>4. CkptGet = None
  BY <1>3 DEF LoopPlain
<1>5. l \in Chats
  BY <1>1, <1>4 DEF CalmInv, Offer, Starters
<1>6. Pending = None /\ Pending' = Pending /\ CkptGet' = CkptGet /\ ckpt'.items = << >>
  BY <1>1, <1>4, <1>5 DEF CalmInv, Offer, Pending, CkptGet
<1>7. \A c \in Starters : loop'[l].queue = <<c>> => c \in Chats
  BY <1>3, <1>5
<1>8. ~AtRest(l) /\ Active(l) /\ ~InTurn(l)'
  BY <1>1, <1>3 DEF AtRest, Active, InTurn
<1>9. \A p \in resumed' : p \in resumed
  BY <1>1
<1> QED
  BY <1>1, <1>3, <1>4, <1>5, <1>6, <1>7, <1>8, <1>9, ChatAssumption, LoopCalm

\* An approval's loop resumes the checkpoint with the decision on its interrupt.
LEMMA ResumeCalm ==
  ASSUME CalmClients, TypeInv, OneLoopInv, ReplyInv, CalmInv, NEW l \in Starters, LoopResume(l)
  PROVE  CalmInv'
<1>1. /\ loop[l].st = "load" /\ UNCHANGED <<req, ts, ckpt, sess>>
  BY DEF LoopResume, tsVars, storeVars
<1>2. loop[l].queue = <<l>>
  <2>1. loop[l] = [NoLoop EXCEPT !.st = "load", !.queue = <<l>>]
    BY <1>1 DEF CalmInv, LoopAtRest
  <2> QED
    BY <2>1 DEF NoLoop
<1>3. PICK k \in 1..Len(loop[l].queue) :
        /\ IsFirst(k, Positions(loop[l].queue, Approves))
        /\ loop' = [loop EXCEPT ![l] = [FreshTurn(l, loop[l].queue[k], ckpt.items)
                                          EXCEPT !.loaded = TRUE]]
        /\ resumed' = resumed \cup {<<CkptGet, ResumeTarget(l, loop[l].queue[k])>>}
  BY DEF LoopResume
<1>4. loop[l].queue[k] = l /\ l \in Approves
  <2>1. k = 1
    BY <1>2, <1>3
  <2>2. k \in Positions(loop[l].queue, Approves)
    BY <1>3 DEF IsFirst
  <2> QED
    BY <1>2, <2>1, <2>2 DEF Positions
<1>5. Pending = None /\ CkptGet = req[l].seen /\ ckpt.items = << >>
  BY <1>1, <1>4 DEF CalmInv, Offer
<1>6. /\ resumed' = resumed \cup {<<req[l].seen, req[l].seen>>}
      /\ loop' = [loop EXCEPT ![l] = [FreshTurn(l, l, << >>) EXCEPT !.loaded = TRUE]]
  BY <1>3, <1>4, <1>5 DEF ResumeTarget
<1>7. loop[l].save = None
  BY <1>1 DEF CalmInv, LoopContents
<1>8. /\ loop'[l].st = "snap" /\ loop'[l].stop = loop[l].stop /\ loop'[l].queue = << >>
      /\ loop'[l].save = None /\ loop'[l].loaded
      /\ \A m \in Starters : m # l => loop'[m] = loop[m]
  BY <1>6, <1>7 DEF FreshTurn, TypeInv, TypeOK, TurnLoop
<1>9. ~AtRest(l) /\ Active(l)
  BY <1>1 DEF AtRest, Active
<1>10. Pending' = None /\ ckpt'.items = << >>
  BY <1>1, <1>5 DEF Pending
<1>11. /\ \A p \in resumed' : p \in resumed \/ p[1] = p[2]
       /\ resumed \subseteq resumed' /\ <<req[l].seen, req[l].seen>> \in resumed'
  BY <1>6
<1> QED
  BY <1>1, <1>8, <1>9, <1>10, <1>11, LoopCalm

LEMMA ResumeFailsCalm ==
  ASSUME CalmClients, TypeInv, OneLoopInv, ReplyInv, CalmInv, NEW l \in Starters,
         LoopResumeFails(l)
  PROVE  CalmInv'
<1>1. /\ loop[l].st = "load" /\ UNCHANGED <<req, ts, ckpt, sess, resumed>>
      /\ loop' = [loop EXCEPT ![l].st = "exiting"]
  BY DEF LoopResumeFails, tsVars, storeVars
<1>2. loop[l].queue = <<l>> /\ loop[l].save = None /\ loop[l].loaded = FALSE
  <2>1. loop[l] = [NoLoop EXCEPT !.st = "load", !.queue = <<l>>]
    BY <1>1 DEF CalmInv, LoopAtRest
  <2> QED
    BY <2>1 DEF NoLoop
<1>3. l \in Chats /\ l \notin Approves
  <2>1. l \notin Approves
    <3> SUFFICES ASSUME l \in Approves PROVE FALSE
      OBVIOUS
    <3>1. 1 \in Positions(loop[l].queue, Approves)
      BY <1>2 DEF Positions
    <3> QED
      BY <3>1 DEF LoopResumeFails
  <2> QED
    BY <2>1 DEF Starters
<1>4. Pending = CkptGet /\ ckpt.items = << >>
  BY <1>1, <1>3 DEF CalmInv, Offer
<1>5. /\ loop'[l].st = "exiting" /\ loop'[l].stop = loop[l].stop
      /\ loop'[l].save = None /\ loop'[l].loaded = FALSE
      /\ \A m \in Starters : m # l => loop'[m] = loop[m]
  BY <1>1, <1>2 DEF TypeInv, TypeOK, TurnLoop
<1>6. Pending' = CkptGet' /\ ckpt'.items = << >>
  BY <1>1, <1>4 DEF Pending, CkptGet
<1>7. ~AtRest(l) /\ Active(l) /\ ~InTurn(l)'
  BY <1>1, <1>5 DEF AtRest, Active, InTurn
<1>8. \A p \in resumed' : p \in resumed
  BY <1>1
<1> QED
  BY <1>1, <1>3, <1>5, <1>6, <1>7, <1>8, LoopCalm

LEMMA GenInputCalm ==
  ASSUME CalmClients, TypeInv, OneLoopInv, ReplyInv, CalmInv, NEW l \in Starters,
         LoopGenInput(l)
  PROVE  CalmInv'
<1>1. /\ loop[l].st = "idle" /\ UNCHANGED <<req, ts, ckpt, resumed>>
  BY DEF LoopGenInput, tsVars
<1>2. PICK k \in 1..Len(loop[l].queue) :
        /\ loop' = [loop EXCEPT ![l] = FreshTurn(l, loop[l].queue[k], Without(loop[l].queue, k))]
        /\ sess' = [sess EXCEPT ![req[l].sess].history =
                                         Append(@, <<"user", loop[l].queue[k]>>)]
  BY DEF LoopGenInput
<1>3. PICK c \in Starters : loop[l].queue = <<c>>
  <2>1. loop[l].queue # << >>
    BY <1>2
  <2> QED
    BY <2>1 DEF ReplyInv, Items
<1>4. Without(loop[l].queue, k) = << >>
  <2>1. k = 1 /\ Len(loop[l].queue) = 1
    BY <1>2, <1>3
  <2>2. SubSeq(<<c>>, 1, 0) = << >> /\ SubSeq(<<c>>, 2, 1) = << >>
    OBVIOUS
  <2>3. << >> \o << >> = << >>
    OBVIOUS
  <2> QED
    BY <1>3, <2>1, <2>2, <2>3 DEF Without
<1>5. loop[l].save = None
  BY <1>1 DEF CalmInv, LoopContents
<1>6. /\ loop'[l].st = "snap" /\ loop'[l].stop = loop[l].stop /\ loop'[l].queue = << >>
      /\ loop'[l].save = None /\ loop'[l].loaded = loop[l].loaded
      /\ \A m \in Starters : m # l => loop'[m] = loop[m]
  BY <1>2, <1>4, <1>5 DEF FreshTurn, TypeInv, TypeOK, TurnLoop
<1>7. Pending = None /\ (CkptGet = None \/ loop[l].loaded) /\ ckpt.items = << >>
  BY <1>1 DEF CalmInv, Offer
<1>8. Pending' = Pending /\ CkptGet' = CkptGet /\ ckpt'.items = << >>
  BY <1>1, <1>2, <1>7, CalmNames DEF Pending, CkptGet, TypeInv, TypeOK, Session
<1>9. \A h \in Starters : req[h].pc \notin {"enter", "lock", "push"}
  <2>1. \A h \in Requests : Busy(h) => req[h].pc = "wait"
    BY <1>3, QueuedIsWaited DEF ReplyInv
  <2> QED
    BY <2>1, Names DEF Busy, Finished
<1>10. Active(l) /\ \A p \in resumed' : p \in resumed
  BY <1>1 DEF Active
<1> QED
  BY <1>1, <1>6, <1>7, <1>8, <1>9, <1>10, LoopCalm

LEMMA IdleStopCalm ==
  ASSUME CalmClients, TypeInv, OneLoopInv, ReplyInv, CalmInv, NEW l \in Starters,
         LoopIdleStop(l)
  PROVE  CalmInv'
<1>1. /\ loop[l].st = "idle" /\ loop[l].stop # "no"
      /\ UNCHANGED <<req, ts, ckpt, sess, resumed>>
      /\ loop' = [loop EXCEPT ![l].st = "exiting"]
  BY DEF LoopIdleStop, tsVars, storeVars
<1>2. loop[l].save = None
  BY <1>1 DEF CalmInv, LoopContents
<1>3. /\ loop'[l].st = "exiting" /\ loop'[l].stop = loop[l].stop
      /\ loop'[l].save = None /\ loop'[l].loaded = loop[l].loaded
      /\ \A m \in Starters : m # l => loop'[m] = loop[m]
  BY <1>1, <1>2 DEF TypeInv, TypeOK, TurnLoop
<1>4. Pending = None /\ (CkptGet = None \/ loop[l].loaded) /\ ckpt.items = << >>
  BY <1>1 DEF CalmInv, Offer
<1>5. Pending' = Pending /\ CkptGet' = CkptGet /\ ckpt'.items = << >>
  BY <1>1, <1>4 DEF Pending, CkptGet
<1>6. \A h \in Starters : req[h].pc \notin {"enter", "lock", "push"}
  <2>1. PICK a \in Aborts : req[a].pc = "join"
    BY <1>1 DEF CalmInv, LoopInHand
  <2>2. Busy(a) /\ a \in Requests /\ a \notin Starters
    BY <2>1, Names, ChatAssumption DEF Busy, Finished, Starters
  <2> QED
    BY <2>2, OthersRest, Names DEF OneLoopInv, Finished
<1>7. Active(l) /\ ~InTurn(l)' /\ \A p \in resumed' : p \in resumed
  BY <1>1, <1>3 DEF Active, InTurn
<1>8. Pending' = IF loop'[l].save # None THEN loop'[l].save
                 ELSE IF loop'[l].loaded THEN None ELSE CkptGet'
  BY <1>3, <1>4, <1>5
<1> QED
  BY <1>1, <1>3, <1>5, <1>6, <1>7, <1>8, LoopCalm

\* The steps of a turn up to its end.
LEMMA TurnCalm ==
  ASSUME CalmClients, TypeInv, OneLoopInv, ReplyInv, CalmInv, NEW l \in Starters,
         LoopPreempt(l) \/ TurnSnapshot(l) \/ TurnSend(l) \/ TurnCancelled(l)
  PROVE  CalmInv'
<1>1. InTurn(l) /\ UNCHANGED <<req, ts, ckpt, sess, resumed>>
  BY DEF LoopPreempt, TurnSnapshot, TurnSend, TurnCancelled, CtxDone, InTurn, tsVars, storeVars
<1>2. /\ loop'[l].st \in {"snap", "send", "await", "idle", "exiting"}
      /\ loop'[l].stop = loop[l].stop /\ loop'[l].queue = loop[l].queue
      /\ loop'[l].save = loop[l].save /\ loop'[l].loaded = loop[l].loaded
      /\ \A m \in Starters : m # l => loop'[m] = loop[m]
  <2>1. CASE LoopPreempt(l)
    BY <1>1, <2>1 DEF LoopPreempt, InTurn, TypeInv, TypeOK, TurnLoop
  <2>2. CASE TurnSnapshot(l)
    BY <2>2 DEF TurnSnapshot, TypeInv, TypeOK, TurnLoop
  <2>3. CASE TurnSend(l)
    BY <2>3 DEF TurnSend, TypeInv, TypeOK, TurnLoop
  <2>4. CASE TurnCancelled(l)
    BY <2>4 DEF TurnCancelled, AfterTurn, TypeInv, TypeOK, TurnLoop
  <2> QED
    BY <2>1, <2>2, <2>3, <2>4
<1>3. loop[l].queue = << >> /\ loop[l].save = None
  BY <1>1 DEF CalmInv, LoopContents, InTurn
<1>4. Pending = None /\ (CkptGet = None \/ loop[l].loaded) /\ ckpt.items = << >>
  BY <1>1 DEF CalmInv, Offer, InTurn
<1>5. Pending' = Pending /\ CkptGet' = CkptGet /\ ckpt'.items = << >>
  BY <1>1, <1>4 DEF Pending, CkptGet
<1>6. /\ ~AtRest(l) /\ Active(l) /\ loop[l].st \notin {"made", "load"}
      /\ \A p \in resumed' : p \in resumed
  BY <1>1 DEF AtRest, Active, InTurn
<1>7. \A c \in Starters : loop'[l].queue # <<c>>
  BY <1>2, <1>3
<1> QED
  BY <1>1, <1>2, <1>3, <1>4, <1>5, <1>6, <1>7, LoopCalm

\* A turn that ends in an interrupt offers it, and its loop has it to save.
LEMMA ResultCalm ==
  ASSUME CalmClients, TypeInv, OneLoopInv, ReplyInv, CalmInv, NEW l \in Starters, TurnResult(l)
  PROVE  CalmInv'
<1>1. InTurn(l) /\ loop[l].st = "await" /\ UNCHANGED <<req, ts, ckpt, resumed>>
  BY DEF TurnResult, InTurn, tsVars
<1>2. PICK r \in Result : r = chan[loop[l].bridge].done /\ r # NoResult
  BY <1>1, Fields DEF TurnResult, TypeInv, LoopShape
<1>3. PICK a \in Own(loop[l].turn) : a = loop[l].bridge /\ loop[l].turn \in Starters
  BY <1>1 DEF ReplyInv, OwnBridges
<1>4. r.turn = loop[l].turn
  BY <1>2, <1>3 DEF ReplyInv, Envelopes
<1>5. PICK t \in Starters : t = loop[l].turn
  BY <1>3
<1>6. PICK st \in {"idle", "exiting"} :
        /\ loop' = [loop EXCEPT ![l] = [@ EXCEPT !.turn = None,
              !.save = IF r.kind = "intr" THEN t ELSE None, !.st = st]]
        /\ r.kind = "intr" => st = "exiting"
  BY <1>2, <1>5 DEF TurnResult, AfterTurn
<1>7. /\ loop'[l].st = st /\ loop'[l].stop = loop[l].stop
      /\ loop'[l].queue = loop[l].queue /\ loop'[l].loaded = loop[l].loaded
      /\ loop'[l].save = IF r.kind = "intr" THEN t ELSE None
      /\ \A m \in Starters : m # l => loop'[m] = loop[m]
  BY <1>6 DEF TypeInv, TypeOK, TurnLoop
<1>8. Pending' = IF r.kind = "intr" THEN t ELSE Pending
  <2>1. PICK hist : sess' = [sess EXCEPT ![None].history = hist,
                                         ![None].pending = IF r.kind = "intr" THEN t ELSE @]
    BY <1>2, <1>4, <1>5, CalmNames, Names DEF TurnResult
  <2>2. sess[None] \in Session
    BY Names DEF TypeInv, TypeOK
  <2> QED
    BY <2>1, <2>2, CalmNames DEF Pending, TypeInv, TypeOK, Session
<1>9. loop[l].queue = << >> /\ t # None
  BY <1>1, Names DEF CalmInv, LoopContents
<1>10. Pending = None /\ (CkptGet = None \/ loop[l].loaded) /\ ckpt'.items = << >>
  BY <1>1 DEF CalmInv, Offer
<1>11. CkptGet' = CkptGet
  BY <1>1 DEF CkptGet
<1>12. /\ ~AtRest(l) /\ Active(l) /\ ~InTurn(l)' /\ \A p \in resumed' : p \in resumed
       /\ \A c \in Starters : loop'[l].queue # <<c>>
  BY <1>1, <1>7, <1>9 DEF AtRest, Active, InTurn
<1>13. /\ st = "exiting" =>
            Pending' = IF loop'[l].save # None THEN loop'[l].save
                       ELSE IF loop'[l].loaded THEN None ELSE CkptGet'
       /\ st = "idle" => Pending' = None /\ (CkptGet' = None \/ loop'[l].loaded)
       /\ loop'[l].save # None => st = "exiting" /\ loop'[l].queue = << >>
  <2>1. CASE r.kind = "intr"
    BY <1>6, <1>7, <1>8, <1>9, <2>1
  <2>2. CASE r.kind # "intr"
    BY <1>7, <1>8, <1>10, <1>11, <2>2
  <2> QED
    BY <2>1, <2>2
<1> QED
  BY <1>1, <1>7, <1>10, <1>12, <1>13, LoopCalm

\* When the loop has exited, the checkpoint has caught up with the offer.
LEMMA ExitCalm ==
  ASSUME CalmClients, TypeInv, OneLoopInv, ReplyInv, CalmInv, NEW l \in Starters, LoopExit(l)
  PROVE  CalmInv'
<1>1. /\ loop[l].st = "exiting" /\ UNCHANGED <<req, ts, sess, resumed>>
      /\ loop' = [loop EXCEPT ![l].st = "exited"]
      /\ ckpt' = IF loop[l].save # None THEN CkptSet(loop[l].save, loop[l].queue)
                 ELSE IF loop[l].loaded THEN CkptDelete ELSE ckpt
  BY DEF LoopExit, tsVars, storeVars
<1>2. /\ loop'[l].st = "exited" /\ loop'[l].stop = loop[l].stop
      /\ loop'[l].save = loop[l].save /\ loop'[l].queue = loop[l].queue
      /\ \A m \in Starters : m # l => loop'[m] = loop[m]
  BY <1>1 DEF TypeInv, TypeOK, TurnLoop
<1>3. loop[l].save # None => loop[l].queue = << >>
  BY DEF CalmInv, LoopContents
<1>4. /\ ckpt.items = << >>
      /\ Pending = IF loop[l].save # None THEN loop[l].save
                   ELSE IF loop[l].loaded THEN None ELSE CkptGet
  BY <1>1 DEF CalmInv, Offer
<1>5. Pending' = Pending
  BY <1>1 DEF Pending
<1>6. ckpt'.items = << >> /\ Pending' = CkptGet'
  <2>1. CASE loop[l].save # None
    BY <1>1, <1>3, <1>4, <1>5, <2>1 DEF CkptSet, CkptGet
  <2>2. CASE loop[l].save = None /\ loop[l].loaded
    BY <1>1, <1>4, <1>5, <2>2 DEF CkptDelete, CkptGet, TypeInv, TypeOK, Checkpoint
  <2>3. CASE loop[l].save = None /\ ~loop[l].loaded
    BY <1>1, <1>4, <1>5, <2>3 DEF CkptGet
  <2> QED
    BY <2>1, <2>2, <2>3
<1>7. /\ ~AtRest(l) /\ Active(l) /\ ~InTurn(l)' /\ \A p \in resumed' : p \in resumed
  BY <1>1, <1>2 DEF AtRest, Active, InTurn
<1> QED
  BY <1>1, <1>2, <1>3, <1>6, <1>7, LoopCalm

\* A question reaches a loop that is idle, or finds every loop gone.
LEMMA PushCalm ==
  ASSUME CalmClients, TypeInv, OneLoopInv, ReplyInv, CalmInv, NEW h \in Requests, ChatPush(h)
  PROVE  CalmInv'
<1>1. /\ h \in Chats /\ h \in Starters /\ UNCHANGED <<ckpt, resumed, sess, ts>>
      /\ \A g \in Requests : g # h => req'[g] = req[g]
      /\ req[h].pc = "push"
  BY OwnRecord, Names DEF ChatPush, HandlerStep, storeVars, tsVars
<1>2. Busy(h) /\ Pending' = Pending /\ CkptGet' = CkptGet
  BY <1>1 DEF Pending, Busy, Finished, CkptGet
<1>3. PICK l \in Starters : l = req[h].loop /\ ts[None].loop \in {None, l}
  BY <1>1, CalmNames DEF OneLoopInv, ReadsAreFresh
<1>4. loop[h] = NoLoop /\ \A m \in Starters : AtRest(m)
  BY <1>1 DEF CalmInv, LoopAtRest
<1>5. \A a \in Aborts : ~Stopping(a)
  BY <1>1, <1>2, NotStopping, ChatAssumption
<1>6. CASE ~Live(l)
  <2>1. UNCHANGED loop /\ req'[h].pc = "dead"
    <3>1. UNCHANGED loop /\ req' = [req EXCEPT ![h].pc = "dead"]
      BY <1>3, <1>6 DEF ChatPush
    <3> QED
      BY <3>1 DEF TypeInv, TypeOK, Handler
  <2>2. Gone
    <3> SUFFICES ASSUME NEW m \in Starters, Active(m) PROVE FALSE
      BY DEF Gone
    <3>1. m = l
      BY <1>3, <1>5, Names DEF CalmInv, LoopInHand
    <3>2. loop[l].st = "idle" /\ loop[l].stop # "no"
      BY <1>4, <1>6, <3>1 DEF AtRest, Active, Live
    <3> QED
      BY <1>5, <3>2 DEF CalmInv, LoopInHand, Stopping
  <2> QED
    BY <1>1, <1>2, <1>4, <2>1, <2>2, RequestCalm, ChatAssumption
<1>7. CASE Live(l)
  <2>1. loop' = [loop EXCEPT ![l] = Pushed(l, h, TRUE)] /\ req'[h].pc = "wait"
    <3>1. loop' = [loop EXCEPT ![l] = Pushed(l, h, TRUE)] /\ req' = [req EXCEPT ![h].pc = "wait"]
      BY <1>3, <1>7 DEF ChatPush
    <3> QED
      BY <3>1 DEF TypeInv, TypeOK, Handler
  <2>2. loop[l].st = "idle"
    BY <1>4, <1>7 DEF AtRest, Live
  <2>3. Append(loop[l].queue, h) = <<h>>
    BY <1>1, <1>2, NothingExpected, AppendToNone DEF ReplyInv
  <2>4. /\ loop'[l].st = "idle" /\ loop'[l].queue = <<h>> /\ loop'[l].stop = loop[l].stop
        /\ loop'[l].save = loop[l].save /\ loop'[l].loaded = loop[l].loaded
        /\ \A m \in Starters : m # l => loop'[m] = loop[m]
    BY <1>1, <2>1, <2>2, <2>3 DEF Pushed, TypeInv, TypeOK, TurnLoop
  <2>5. NoLoop.st = "none" /\ l # h
    BY <1>4, <2>2 DEF NoLoop
  <2>6. \A m \in Starters :
           /\ loop'[m].st = loop[m].st /\ loop'[m].stop = loop[m].stop
           /\ loop'[m].save = loop[m].save /\ loop'[m].loaded = loop[m].loaded
    BY <2>2, <2>4
  <2>7. \A g \in Starters : g # h => req'[g] = req[g]
    BY <1>1, Names
  <2>8. \A a \in Aborts : req'[a] = req[a]
    BY <1>1, Names, ChatAssumption
  <2>9. LoopInHand'
    BY <1>1, <2>6, <2>8 DEF CalmInv, LoopInHand, Stopping, Active
  <2>10. LoopAtRest'
    <3>1. \A g \in Starters : g # h =>
             req[g].pc \in {"idle", "stream"} \cup Finished
      BY <1>1, <1>2, OthersRest, Names DEF OneLoopInv
    <3>2. \A g \in Starters : req'[g].pc \in {"idle", "wait", "stream"} \cup Finished
      BY <2>1, <2>7, <3>1
    <3>3. \A g \in Starters : req'[g].pc = "idle" => loop'[g] = NoLoop
      <4> SUFFICES ASSUME NEW g \in Starters, req'[g].pc = "idle" PROVE loop'[g] = NoLoop
        OBVIOUS
      <4>1. g # h
        BY <2>1
      <4>2. req[g].pc = "idle"
        BY <2>7, <4>1
      <4>3. loop[g] = NoLoop
        BY <4>2 DEF CalmInv, LoopAtRest
      <4> QED
        BY <2>2, <2>4, <2>5, <4>3
    <3>4. \A m \in Starters : loop'[m].st \notin {"made", "load"}
      BY <1>4, <2>6 DEF AtRest
    <3>5. \A g \in Starters :
             req'[g].pc \notin {"clear", "enter", "lock", "push", "dead", "start"}
      BY <3>2 DEF Finished
    <3> QED
      BY <3>3, <3>4, <3>5, Names DEF LoopAtRest
  <2>11. LoopContents'
    <3> SUFFICES ASSUME NEW m \in Starters
               PROVE  /\ InTurn(m)' => loop'[m].queue = << >>
                      /\ loop'[m].save # None =>
                            loop'[m].st \in {"exiting", "exited"} /\ loop'[m].queue = << >>
                      /\ loop'[m].st = "idle" =>
                            \A c \in Starters : loop'[m].queue = <<c>> => c \in Chats
      BY DEF LoopContents
    <3>1. CASE m = l
      <4>1. loop[l].save = None
        BY <2>2 DEF CalmInv, LoopContents
      <4> QED
        BY <1>1, <2>4, <3>1, <4>1 DEF InTurn
    <3>2. CASE m # l
      BY <2>4, <3>2 DEF CalmInv, LoopContents, InTurn
    <3> QED
      BY <3>1, <3>2
  <2>12. \A a \in Approves : req'[a] = req[a]
    BY <1>1, Names, ChatAssumption
  <2>13. Resumes'
    BY <1>1, <2>6, <2>12, Names DEF CalmInv, Resumes
  <2>14. Gone' <=> Gone
    BY <2>6 DEF Gone, Active
  <2>15. Offer'
    BY <1>1, <1>2, <2>6, <2>12, <2>14, Names DEF CalmInv, Offer
  <2> QED
    BY <2>9, <2>10, <2>11, <2>13, <2>15 DEF CalmInv
<1> QED
  BY <1>6, <1>7

\* Records of loops that agree on every field.
LEMMA SameLoop ==
  ASSUME NEW x \in TurnLoop, NEW y \in TurnLoop,
         x.st = y.st, x.queue = y.queue, x.stop = y.stop, x.turn = y.turn,
         x.bridge = y.bridge, x.preempt = y.preempt, x.ctxDone = y.ctxDone,
         x.save = y.save, x.loaded = y.loaded
  PROVE  x = y
  BY DEF TurnLoop

\* Nothing has happened to a loop between its making and its start.
LEMMA StartCalm ==
  ASSUME CalmClients, TypeInv, OneLoopInv, ReplyInv, CalmInv, NEW h \in Requests, Start(h)
  PROVE  CalmInv'
<1>1. /\ h \in Starters /\ UNCHANGED <<ckpt, resumed, sess, ts>>
      /\ \A g \in Requests : g # h => req'[g] = req[g]
      /\ req[h].pc = "start"
  BY OwnRecord, Names DEF Start, HandlerStep, storeVars, tsVars
<1>2. Busy(h) /\ Pending' = Pending /\ CkptGet' = CkptGet
  BY <1>1 DEF Pending, Busy, Finished, CkptGet
<1>3. loop[h] = [NoLoop EXCEPT !.st = "made"]
  BY <1>1 DEF CalmInv, LoopAtRest
<1>4. loop[h].st = "made" /\ Live(h) /\ Active(h)
  BY <1>3 DEF NoLoop, Live, Active
<1>5. req'[h].pc = "wait" /\ req'[h].seen = req[h].seen
  BY <1>1 DEF Start, TypeInv, TypeOK, Handler
<1>6. loop'[h] = [NoLoop EXCEPT !.st = "load", !.queue = <<h>>]
  <2> DEFINE new == [NoLoop EXCEPT !.st = "load", !.queue = <<h>>]
  <2>1. PICK pushed \in TurnLoop : pushed = Pushed(h, h, FALSE)
    BY <1>1, LoopRecords DEF TypeInv
  <2>2. loop'[h] = [pushed EXCEPT !.st = "load"]
    BY <1>1, <1>4, <2>1 DEF Start, TypeInv, TypeOK
  <2>3. /\ loop[h].queue = << >> /\ loop[h].preempt = FALSE /\ loop[h].stop = "no"
        /\ loop[h].turn = None /\ loop[h].bridge = None /\ loop[h].ctxDone = FALSE
        /\ loop[h].save = None /\ loop[h].loaded = FALSE /\ loop[h] \in TurnLoop
    BY <1>1, <1>3 DEF NoLoop, TypeInv, TypeOK
  <2>4. /\ pushed.queue = <<h>> /\ ~pushed.preempt /\ pushed.stop = "no"
        /\ pushed.turn = None /\ pushed.bridge = None /\ pushed.ctxDone = FALSE
        /\ pushed.save = None /\ pushed.loaded = FALSE
    BY <2>1, <2>3, AppendToNone DEF Pushed, TurnLoop
  <2>5. /\ loop'[h] \in TurnLoop
        /\ loop'[h].st = "load" /\ loop'[h].queue = <<h>> /\ loop'[h].stop = "no"
        /\ loop'[h].turn = None /\ loop'[h].bridge = None /\ loop'[h].preempt = FALSE
        /\ loop'[h].ctxDone = FALSE /\ loop'[h].save = None /\ loop'[h].loaded = FALSE
    BY <2>2, <2>4 DEF TurnLoop
  <2>6. /\ new \in TurnLoop
        /\ new.st = "load" /\ new.queue = <<h>> /\ new.stop = "no"
        /\ new.turn = None /\ new.bridge = None /\ new.preempt = FALSE
        /\ new.ctxDone = FALSE /\ new.save = None /\ new.loaded = FALSE
    <3>1. <<h>> \in Seq(Starters)
      BY <1>1
    <3> QED
      BY <3>1 DEF NoLoop, TurnLoop
  <2> QED
    BY <2>5, <2>6, SameLoop
<1>7. \A l \in Starters : l # h => loop'[l] = loop[l] /\ loop[l].st \in {"none", "exited"}
  <2>1. \A l \in Starters : l # h => loop'[l] = loop[l]
    BY <1>1 DEF Start, TypeInv, TypeOK
  <2>2. \A l \in Starters : l # h => ~Active(l)
    BY <1>1, <1>4, OneActive
  <2> QED
    BY <2>1, <2>2 DEF Active
<1>8. loop'[h].st = "load" /\ loop'[h].stop = "no" /\ loop'[h].save = None
  BY <1>6 DEF NoLoop
<1>9. \A a \in Aborts : req'[a] = req[a] /\ ~Stopping(a)
  <2>1. h \notin Aborts
    BY <1>1, ChatAssumption DEF Starters
  <2> QED
    BY <1>1, <1>2, <2>1, NotStopping, Names
<1>10. \A g \in Starters : g # h =>
           req'[g] = req[g] /\ req[g].pc \in {"idle", "stream"} \cup Finished
  BY <1>1, <1>2, OthersRest, Names DEF OneLoopInv
<1>11. LoopInHand'
  <2>1. ts[None].loop = h
    BY <1>1, <1>4, <1>9 DEF CalmInv, LoopInHand
  <2>2. \A a \in Aborts : ~Stopping(a)'
    BY <1>9 DEF Stopping
  <2>3. \A l \in Starters : loop'[l].stop # "no" => loop'[l].st = "exited"
    <3> SUFFICES ASSUME NEW l \in Starters, l # h, loop[l].stop # "no" PROVE loop[l].st = "exited"
      BY <1>7, <1>8
    <3> QED
      BY <1>9 DEF CalmInv, LoopInHand, Stopping
  <2>4. \A l \in Starters : Active(l)' => l = h
    BY <1>7 DEF Active
  <2> QED
    BY <1>1, <1>8, <2>1, <2>2, <2>3, <2>4, Names DEF LoopInHand
<1>12. LoopAtRest'
  <2>1. \A g \in Starters : req'[g].pc = "idle" => loop'[g] = NoLoop
    <3> SUFFICES ASSUME NEW g \in Starters, req'[g].pc = "idle" PROVE loop'[g] = NoLoop
      OBVIOUS
    <3>1. g # h
      BY <1>5
    <3> QED
      BY <1>7, <1>10, <3>1 DEF CalmInv, LoopAtRest
  <2>2. \A g \in Starters :
           req'[g].pc \notin {"clear", "enter", "lock", "push", "dead", "start"}
    <3> SUFFICES ASSUME NEW g \in Starters
                 PROVE  req'[g].pc \notin {"clear", "enter", "lock", "push", "dead", "start"}
      OBVIOUS
    <3>1. CASE g = h
      BY <1>5, <3>1
    <3>2. CASE g # h
      BY <1>10, <3>2 DEF Finished
    <3> QED
      BY <3>1, <3>2
  <2>3. \A l \in Starters :
          /\ loop'[l].st # "made"
          /\ loop'[l].st = "load" => loop'[l] = [NoLoop EXCEPT !.st = "load", !.queue = <<l>>]
    BY <1>6, <1>7, <1>8
  <2> QED
    BY <2>1, <2>2, <2>3, Names DEF LoopAtRest
<1>13. LoopContents'
  <2> SUFFICES ASSUME NEW m \in Starters
               PROVE  /\ InTurn(m)' => loop'[m].queue = << >>
                      /\ loop'[m].save # None =>
                            loop'[m].st \in {"exiting", "exited"} /\ loop'[m].queue = << >>
                      /\ loop'[m].st = "idle" =>
                            \A c \in Starters : loop'[m].queue = <<c>> => c \in Chats
    BY DEF LoopContents
  <2>1. CASE m = h
    BY <1>8, <2>1 DEF InTurn
  <2>2. CASE m # h
    BY <1>7, <2>2 DEF CalmInv, LoopContents, InTurn
  <2> QED
    BY <2>1, <2>2
<1>14. \A a \in Approves : req'[a].seen = req[a].seen
  <2> SUFFICES ASSUME NEW a \in Approves PROVE req'[a].seen = req[a].seen
    OBVIOUS
  <2>1. CASE a = h
    BY <1>5, <2>1
  <2>2. CASE a # h
    BY <1>10, <2>2, Names
  <2> QED
    BY <2>1, <2>2
<1>15. Resumes'
  <2> SUFFICES ASSUME NEW a \in Approves, loop'[a].st \notin {"none", "made", "load"}
               PROVE  <<req[a].seen, req[a].seen>> \in resumed
    BY <1>1, <1>14 DEF CalmInv, Resumes
  <2>1. loop'[a] = loop[a]
    BY <1>7, <1>8, Names
  <2> QED
    BY <2>1 DEF CalmInv, Resumes
<1>16. Offer'
  <2>1. \A l \in Starters : l # h => loop'[l].st \in {"none", "exited"}
    BY <1>7
  <2>2. \A a \in Approves :
          /\ loop'[a].st \in {"made", "load"} =>
                Pending = None /\ CkptGet # None /\ CkptGet = req'[a].seen
          /\ req'[a].pc \notin {"clear", "enter", "lock"}
    <3> SUFFICES ASSUME NEW a \in Approves
                 PROVE  /\ loop'[a].st \in {"made", "load"} =>
                             Pending = None /\ CkptGet # None /\ CkptGet = req'[a].seen
                        /\ req'[a].pc \notin {"clear", "enter", "lock"}
      OBVIOUS
    <3>1. CASE a = h
      BY <1>4, <1>5, <3>1 DEF CalmInv, Offer
    <3>2. CASE a # h
      BY <1>10, <2>1, <3>2, Names DEF Finished
    <3> QED
      BY <3>1, <3>2
  <2>3. \A c \in Chats : loop'[c].st \in {"made", "load"} => Pending = CkptGet
    <3> SUFFICES ASSUME NEW c \in Chats, c = h PROVE Pending = CkptGet
      BY <2>1, Names
    <3> QED
      BY <1>4 DEF CalmInv, Offer
  <2>4. ~Gone' /\ ckpt'.items = << >>
    BY <1>1, <1>8 DEF Gone, Active, CalmInv, Offer
  <2>5. \A l \in Starters : loop'[l].st \notin {"idle", "snap", "send", "await", "exiting"}
    BY <1>8, <2>1
  <2> QED
    BY <1>2, <2>2, <2>3, <2>4, <2>5 DEF Offer
<1> QED
  BY <1>11, <1>12, <1>13, <1>15, <1>16 DEF CalmInv

\* An abort takes the session's loop in hand, stops it, and waits for it.
LEMMA AbortTakeCalm ==
  ASSUME CalmClients, TypeInv, OneLoopInv, ReplyInv, CalmInv, NEW h \in Requests, AbortTake(h)
  PROVE  CalmInv'
<1>1. /\ h \in Aborts /\ h \notin Starters /\ UNCHANGED <<loop, ckpt, resumed, sess>>
      /\ \A g \in Requests : g # h => req'[g] = req[g]
  BY OwnRecord, ChatAssumption DEF AbortTake, Arrival, storeVars, Starters
<1>2. /\ req[h].pc = "idle"
      /\ \A g \in Requests : g # h => req[g].pc \in {"idle", "stream"} \cup Finished
  BY CalmNames DEF AbortTake, MayArrive
<1>3. ts'[None].loop = None
  BY CalmNames DEF AbortTake, TypeInv, TypeOK
<1>4. /\ req'[h].pc = IF ts[None].loop = None THEN "done" ELSE "stop"
      /\ req'[h].loop = ts[None].loop
  BY <1>1, CalmNames DEF AbortTake, TypeInv, TypeOK, Handler
<1>5. \A a \in Aborts : ~Stopping(a) /\ (Stopping(a)' => a = h)
  BY <1>1, <1>2, Names DEF Stopping, Finished
<1>6. \A g \in Starters : req'[g] = req[g]
  BY <1>1, Names
<1>7. LoopInHand'
  <2>1. \A l \in Starters : loop[l].stop # "no" => loop[l].st = "exited"
    BY <1>5 DEF CalmInv, LoopInHand, Stopping
  <2>2. \A l \in Starters : Active(l) => Stopping(h)' /\ req'[h].loop = l
    <3> SUFFICES ASSUME NEW l \in Starters, Active(l) PROVE Stopping(h)' /\ req'[h].loop = l
      OBVIOUS
    <3>1. ts[None].loop = l /\ l # None
      BY <1>5, Names DEF CalmInv, LoopInHand
    <3> QED
      BY <1>4, <3>1 DEF Stopping
  <2>3. Stopping(h)' => req'[h].loop \in Starters /\ loop[req'[h].loop].st # "none"
    <3> SUFFICES ASSUME Stopping(h)'
                 PROVE  req'[h].loop \in Starters /\ loop[req'[h].loop].st # "none"
      OBVIOUS
    <3>1. ts[None].loop # None /\ ts[None].loop \in MaybeLoop
      BY <1>4, Names, Fields DEF Stopping, TypeInv
    <3> QED
      BY <1>4, <3>1 DEF MaybeLoop, CalmInv, LoopInHand
  <2> QED
    BY <1>1, <1>3, <1>5, <2>1, <2>2, <2>3, Names DEF LoopInHand, Active
<1>8. LoopAtRest'
  BY <1>1, <1>6, Names DEF CalmInv, LoopAtRest, AtRest, Gone, Active
<1>9. LoopContents'
  BY <1>1 DEF CalmInv, LoopContents, InTurn
<1>10. \A a \in Approves : req'[a] = req[a]
  BY <1>6, Names
<1>11. Resumes'
  BY <1>1, <1>10 DEF CalmInv, Resumes
<1>12. Pending' = Pending /\ CkptGet' = CkptGet /\ (Gone' <=> Gone)
  BY <1>1 DEF Pending, CkptGet, Gone, Active
<1>13. Offer'
  BY <1>1, <1>10, <1>12 DEF CalmInv, Offer
<1> QED
  BY <1>7, <1>8, <1>9, <1>11, <1>13 DEF CalmInv

LEMMA AbortStopCalm ==
  ASSUME CalmClients, TypeInv, OneLoopInv, ReplyInv, CalmInv, NEW h \in Requests, AbortStop(h)
  PROVE  CalmInv'
<1>1. /\ h \in Aborts /\ h \notin Starters /\ UNCHANGED <<ts, ckpt, resumed, sess>>
      /\ \A g \in Requests : g # h => req'[g] = req[g]
      /\ req[h].pc = "stop"
  BY OwnRecord, ChatAssumption DEF AbortStop, HandlerStep, storeVars, tsVars, Starters
<1>2. Busy(h) /\ Stopping(h)
  BY <1>1 DEF Busy, Stopping, Finished
<1>3. PICK l \in Starters : l = req[h].loop /\ loop[l].st # "none" /\ ts[None].loop = None
  BY <1>1, <1>2 DEF CalmInv, LoopInHand
<1>4. req'[h].pc = "join" /\ req'[h].loop = l
  BY <1>1, <1>3 DEF AbortStop, TypeInv, TypeOK, Handler
<1>5. /\ loop'[l].stop = "immediate" /\ loop'[l].st = loop[l].st
      /\ loop'[l].queue = loop[l].queue /\ loop'[l].save = loop[l].save
      /\ loop'[l].loaded = loop[l].loaded
      /\ \A m \in Starters : m # l => loop'[m] = loop[m]
  BY <1>3 DEF AbortStop, StoppedNow, TypeInv, TypeOK, TurnLoop
<1>6. \A m \in Starters :
         /\ loop'[m].st = loop[m].st /\ loop'[m].queue = loop[m].queue
         /\ loop'[m].save = loop[m].save /\ loop'[m].loaded = loop[m].loaded
  BY <1>5
<1>7. \A g \in Starters :
         req'[g] = req[g] /\ req[g].pc \in {"idle", "stream"} \cup Finished
  BY <1>1, <1>2, OthersRest, Names DEF OneLoopInv
<1>8. \A a \in Aborts : a # h => req'[a] = req[a] /\ ~Stopping(a)
  BY <1>1, <1>2, NotStopping, Names
<1>9. \A m \in Starters : loop[m].st \notin {"made", "load"}
  <2>1. \A m \in Starters : loop[m].st # "made"
    BY <1>7 DEF CalmInv, LoopAtRest, Finished
  <2>2. ASSUME NEW m \in Starters, loop[m].st = "load" PROVE FALSE
    <3>1. loop[m] = [NoLoop EXCEPT !.st = "load", !.queue = <<m>>]
      BY <2>2 DEF CalmInv, LoopAtRest
    <3>2. loop[m].queue = <<m>>
      BY <3>1 DEF NoLoop
    <3>3. loop[m].queue # << >>
      BY <3>2
    <3> QED
      BY <1>1, <1>2, <3>3, QueuedIsWaited DEF ReplyInv
  <2> QED
    BY <2>1, <2>2
<1>10. LoopInHand'
  <2>1. Stopping(h)' /\ \A a \in Aborts : a # h => ~Stopping(a)'
    BY <1>4, <1>8 DEF Stopping
  <2>2. \A m \in Starters : Active(m)' => m = l
    <3> SUFFICES ASSUME NEW m \in Starters, Active(m) PROVE m = l
      BY <1>6 DEF Active
    <3>1. PICK a \in Aborts : Stopping(a) /\ req[a].loop = m
      BY <1>3, Names DEF CalmInv, LoopInHand
    <3>2. a = h
      BY <1>8, <3>1
    <3> QED
      BY <1>3, <3>1, <3>2
  <2>3. \A m \in Starters : (m # l /\ loop[m].stop # "no") => loop[m].st = "exited"
    BY <1>1, <1>8 DEF CalmInv, LoopInHand, Stopping
  <2> QED
    BY <1>1, <1>3, <1>4, <1>5, <1>6, <2>1, <2>2, <2>3, Names DEF LoopInHand
<1>11. LoopAtRest'
  <2>1. \A g \in Starters : req[g].pc = "idle" => loop'[g] = NoLoop
    <3> SUFFICES ASSUME NEW g \in Starters, req[g].pc = "idle" PROVE loop'[g] = NoLoop
      OBVIOUS
    <3>1. loop[g] = NoLoop
      BY DEF CalmInv, LoopAtRest
    <3>2. NoLoop.st = "none"
      BY DEF NoLoop
    <3> QED
      BY <1>3, <1>5, <3>1, <3>2
  <2>2. \A g \in Starters :
           req'[g].pc \notin {"clear", "enter", "lock", "push", "dead", "start"}
    BY <1>7 DEF Finished
  <2> QED
    BY <1>6, <1>7, <1>9, <2>1, <2>2, Names DEF LoopAtRest
<1>12. LoopContents'
  BY <1>6 DEF CalmInv, LoopContents, InTurn
<1>13. \A a \in Approves : req'[a] = req[a]
  BY <1>7, Names
<1>14. Resumes'
  BY <1>1, <1>6, <1>13, Names DEF CalmInv, Resumes
<1>15. Pending' = Pending /\ CkptGet' = CkptGet /\ (Gone' <=> Gone)
  BY <1>1, <1>6 DEF Pending, CkptGet, Gone, Active
<1>16. Offer'
  BY <1>1, <1>6, <1>13, <1>15, Names DEF CalmInv, Offer
<1> QED
  BY <1>10, <1>11, <1>12, <1>14, <1>16 DEF CalmInv

\* An abort that has seen its loop exit is done, and the goroutine that cleans up after a
\* loop finds it exited: neither leaves a loop to itself.
LEMMA AbortJoinCalm ==
  ASSUME CalmClients, TypeInv, OneLoopInv, ReplyInv, CalmInv, NEW h \in Requests, AbortJoin(h)
  PROVE  CalmInv'
<1>1. /\ h \in Aborts /\ h \notin Starters /\ UNCHANGED <<loop, ts, ckpt, resumed, sess>>
      /\ \A g \in Requests : g # h => req'[g] = req[g]
      /\ req[h].pc = "join" /\ loop[req[h].loop].st = "exited"
  BY OwnRecord, ChatAssumption DEF AbortJoin, HandlerStep, storeVars, tsVars, Starters
<1>2. req'[h].pc = "done"
  BY <1>1 DEF AbortJoin, TypeInv, TypeOK
<1>3. Stopping(h) /\ ~Stopping(h)'
  BY <1>1, <1>2 DEF Stopping
<1>4. /\ \A g \in Starters : req'[g] = req[g]
      /\ \A a \in Aborts : a # h => req'[a] = req[a]
      /\ \A a \in Approves : req'[a] = req[a]
  BY <1>1, Names
<1>5. LoopInHand'
  <2>1. \A a \in Aborts : a # h => (Stopping(a)' <=> Stopping(a))
    BY <1>4 DEF Stopping
  <2>2. \A l \in Starters : Active(l) =>
          ts[None].loop = l \/ \E a \in Aborts : Stopping(a)' /\ req'[a].loop = l
    BY <1>1, <1>4, <2>1 DEF CalmInv, LoopInHand, Active
  <2>3. \A l \in Starters : loop[l].stop # "no" =>
          \/ loop[l].st = "exited"
          \/ \E a \in Aborts : req'[a].pc = "join" /\ req'[a].loop = l
    BY <1>1, <1>4 DEF CalmInv, LoopInHand
  <2> QED
    BY <1>1, <1>3, <1>4, <2>1, <2>2, <2>3 DEF CalmInv, LoopInHand, Active
<1>6. LoopAtRest'
  <2>1. (Gone' <=> Gone) /\ \A l \in Starters : AtRest(l)' <=> AtRest(l)
    BY <1>1 DEF Gone, Active, AtRest
  <2>2. \A g \in Starters :
          /\ req'[g].pc \in {"enter", "lock", "push"} => \A l \in Starters : AtRest(l)'
          /\ req'[g].pc = "dead" => Gone'
          /\ req'[g].pc \in {"idle", "clear", "enter", "lock", "push", "dead"} => loop'[g] = NoLoop
          /\ req'[g].pc = "start" => loop'[g] = [NoLoop EXCEPT !.st = "made"]
    <3> SUFFICES ASSUME NEW g \in Starters
                 PROVE
          /\ req[g].pc \in {"enter", "lock", "push"} => \A l \in Starters : AtRest(l)'
          /\ req[g].pc = "dead" => Gone'
          /\ req[g].pc \in {"idle", "clear", "enter", "lock", "push", "dead"} => loop[g] = NoLoop
          /\ req[g].pc = "start" => loop[g] = [NoLoop EXCEPT !.st = "made"]
      BY <1>1, <1>4
    <3>1. req[g].pc \in {"enter", "lock", "push"} => \A l \in Starters : AtRest(l)'
      BY <2>1 DEF CalmInv, LoopAtRest
    <3>2. /\ req[g].pc = "dead" => Gone'
          /\ req[g].pc \in {"idle", "clear", "enter", "lock", "push", "dead"} => loop[g] = NoLoop
          /\ req[g].pc = "start" => loop[g] = [NoLoop EXCEPT !.st = "made"]
      BY <2>1 DEF CalmInv, LoopAtRest
    <3> QED
      BY <3>1, <3>2
  <2>3. \A g \in Approves : req'[g].pc \in {"clear", "enter", "lock"} => Gone'
    BY <1>4, <2>1 DEF CalmInv, LoopAtRest
  <2>4. \A l \in Starters :
          /\ loop'[l].st = "made" => req'[l].pc = "start"
          /\ loop'[l].st = "load" => loop'[l] = [NoLoop EXCEPT !.st = "load", !.queue = <<l>>]
    BY <1>1, <1>4 DEF CalmInv, LoopAtRest
  <2> QED
    BY <2>2, <2>3, <2>4 DEF LoopAtRest
<1>7. LoopContents'
  BY <1>1 DEF CalmInv, LoopContents, InTurn
<1>8. Resumes'
  BY <1>1, <1>4 DEF CalmInv, Resumes
<1>9. Pending' = Pending /\ CkptGet' = CkptGet /\ (Gone' <=> Gone)
  BY <1>1 DEF Pending, CkptGet, Gone, Active
<1>10. Offer'
  BY <1>1, <1>4, <1>9 DEF CalmInv, Offer
<1> QED
  BY <1>5, <1>6, <1>7, <1>8, <1>10 DEF CalmInv

LEMMA CleanupCalm ==
  ASSUME CalmClients, TypeInv, OneLoopInv, ReplyInv, CalmInv, NEW l \in Starters, Cleanup(l)
  PROVE  CalmInv'
<1>1. /\ loop[l].st = "exited" /\ UNCHANGED <<req, loop, ckpt, resumed, sess>>
  BY DEF Cleanup, storeVars
<1>2. ts[None].loop = l /\ ts'[None].loop = None
  BY CalmNames, Names DEF Cleanup, IsSessionLoop, ForgetLoop, TypeInv, TypeOK
<1>3. LoopInHand'
  <2>1. \A m \in Starters : Active(m) => m # l
    BY <1>1 DEF Active
  <2> QED
    BY <1>1, <1>2, <2>1, Names DEF CalmInv, LoopInHand, Active, Stopping
<1>4. LoopAtRest'
  BY <1>1 DEF CalmInv, LoopAtRest, AtRest, Gone, Active
<1>5. LoopContents' /\ Resumes'
  BY <1>1 DEF CalmInv, LoopContents, InTurn, Resumes
<1>6. Pending' = Pending /\ CkptGet' = CkptGet /\ (Gone' <=> Gone)
  BY <1>1 DEF Pending, CkptGet, Gone, Active
<1>7. Offer'
  BY <1>1, <1>6 DEF CalmInv, Offer
<1> QED
  BY <1>3, <1>4, <1>5, <1>7 DEF CalmInv

LEMMA CalmInit == ASSUME CalmClients, Init PROVE CalmInv
<1>1. /\ \A l \in Starters : loop[l] = NoLoop
      /\ \A h \in Requests : req[h].pc = "idle"
      /\ ts[None].loop = None /\ Pending = None /\ CkptGet = None /\ ckpt.items = << >>
      /\ resumed = {}
  BY Names DEF Init, Pending, CkptGet
<1>2. /\ NoLoop.st = "none" /\ NoLoop.stop = "no" /\ NoLoop.save = None
  BY DEF NoLoop
<1>3. LoopInHand
  BY <1>1, <1>2, Names DEF LoopInHand, Active, Stopping
<1>4. LoopAtRest
  BY <1>1, <1>2, Names DEF LoopAtRest
<1>5. LoopContents
  BY <1>1, <1>2 DEF LoopContents, InTurn
<1>6. Offer
  BY <1>1, <1>2, Names DEF Offer
<1>7. Resumes
  BY <1>1, <1>2, Names DEF Resumes
<1> QED
  BY <1>3, <1>4, <1>5, <1>6, <1>7 DEF CalmInv

LEMMA CalmStep ==
  ASSUME CalmClients, TypeInv, OneLoopInv, ReplyInv, CalmInv, [Next]_vars
  PROVE  CalmInv'
<1>1. ASSUME NEW h \in Requests, Arrival(h) \/ HandlerStep(h) PROVE CalmInv'
  BY <1>1, CalmNames, NoBail, QuietCalm, ApproveReadCalm, ApproveClearCalm, ChatLoopCalm,
     ApproveLoopCalm, PushCalm, StartCalm, AbortTakeCalm, AbortStopCalm, AbortJoinCalm
     DEF Arrival, HandlerStep
<1>2. ASSUME NEW l \in Starters, LoopStep(l) PROVE CalmInv'
  BY <1>2, NoQuerylessInput, PlainCalm, ResumeCalm, ResumeFailsCalm, GenInputCalm, IdleStopCalm,
     TurnCalm, ResultCalm, ExitCalm, CleanupCalm DEF LoopStep
<1>3. CASE UNCHANGED vars
  <2>1. LoopInHand'
    BY <1>3 DEF vars, CalmInv, LoopInHand, Active, Stopping
  <2>2. LoopAtRest'
    BY <1>3 DEF vars, CalmInv, LoopAtRest, Active, AtRest, Gone
  <2>3. LoopContents' /\ Resumes'
    BY <1>3 DEF vars, CalmInv, LoopContents, Resumes, InTurn
  <2>4. Offer'
    BY <1>3 DEF vars, CalmInv, Offer, Gone, Active, Pending, CkptGet
  <2> QED
    BY <2>1, <2>2, <2>3, <2>4 DEF CalmInv
<1> QED
  BY <1>1, <1>2, <1>3 DEF Next

CalmServer == TypeInv /\ BridgeInv /\ OneLoopInv /\ ReplyInv /\ CalmInv

LEMMA CalmServerHolds == ASSUME CalmClients PROVE Spec => []CalmServer
<1>1. Init => CalmServer
  BY InitType, BridgeInit, OneLoopInit, ReplyInit, CalmInit DEF CalmServer
<1>2. CalmServer /\ [Next]_vars => CalmServer'
  BY StepType, BridgeStep, OneLoopStep, CalmReplyStep, CalmStep, CalmNames DEF CalmServer
<1> QED
  BY <1>1, <1>2, PTL DEF Spec

\* server.go:572-574: every approval that is accepted resumes, and resumes the interrupt it
\* decides about: its loop finds the checkpoint, whoever saved it, and only an abort can
\* end the loop before it has.
THEOREM ApprovalsResume == CalmClients => (Spec => []ApprovalResumes)
<1> SUFFICES ASSUME CalmClients PROVE Spec => []ApprovalResumes
  OBVIOUS
<1>1. CalmServer => ApprovalResumes
  <2> SUFFICES ASSUME Resumes, NEW a \in Approves, loop[a].st \in {"idle", "exited"}
               PROVE  \E p \in resumed : p[2] = req[a].seen
    BY DEF CalmServer, CalmInv, ApprovalResumes, Resumes
  <2>1. <<req[a].seen, req[a].seen>> \in resumed
    BY DEF Resumes
  <2> QED
    BY <2>1
<1> QED
  BY <1>1, CalmServerHolds, PTL

\* server.go:460, 622-625: whatever order turns, aborts and approvals come in, a session at
\* rest offers an interrupt exactly if a loop that comes next finds its checkpoint.
THEOREM OffersMatchCheckpoints == CalmClients => (Spec => []PendingMatchesCheckpoint)
<1> SUFFICES ASSUME CalmClients PROVE Spec => []PendingMatchesCheckpoint
  OBVIOUS
<1>1. CalmServer => PendingMatchesCheckpoint
  <2> SUFFICES ASSUME TypeInv, Offer, Quiet
               PROVE  /\ Pending # None => CkptGet = Pending
                      /\ Gone /\ CkptGet # None => Pending # None
    BY CalmNames DEF CalmServer, CalmInv, PendingMatchesCheckpoint, Pending, Gone, Active
  <2>1. \A a \in Approves : req[a].pc \notin {"enter", "lock"}
    BY Names DEF Quiet, Finished
  <2>2. Pending # None => Gone
    BY DEF Quiet, AtRest, Offer, Gone, Active
  <2> QED
    BY <2>1, <2>2 DEF Offer
<1> QED
  BY <1>1, CalmServerHolds, PTL


\* server.go:130-131, 412: a handler's result reaches the turn whose events it has streamed,
\* of a resumed turn too: no question or approval takes another one's reply.
THEOREM OwnRepliesCalm == CalmClients => (Spec => []ReplyToOwnTurn)
<1> SUFFICES ASSUME CalmClients PROVE Spec => []ReplyToOwnTurn
  OBVIOUS
<1>1. CalmServer => ReplyToOwnTurn
  BY DEF CalmServer, ReplyInv
<1> QED
  BY <1>1, CalmServerHolds, PTL

-----------------------------------------------------------------------------
(* The history of a session with approvals.  An approval does not wait for the loop *)
(* it stops; for calm clients that loop has nothing left to persist, and a resumed  *)
(* turn persists nothing at all.                                                    *)

History == sess[None].history

\* The history is in order, and its last message is the question in turn, if one is.
CalmHistory ==
    /\ InOrder(History)
    /\ \A l \in Starters : (InTurn(l) /\ loop[l].turn \in Chats) =>
          /\ Len(History) > 0
          /\ History[Len(History)] = <<"user", loop[l].turn>>

LEMMA CalmHistoryFrame ==
  ASSUME CalmHistory, History' = History,
         \A l \in Starters : (InTurn(l)' /\ loop'[l].turn \in Chats) =>
            InTurn(l) /\ loop'[l].turn = loop[l].turn
  PROVE  CalmHistory'
BY DEF CalmHistory, InOrder

\* No handler persists a message, or begins a turn.
LEMMA HandlerHistory ==
  ASSUME CalmClients, TypeInv, CalmHistory, NEW h \in Requests, Arrival(h) \/ HandlerStep(h)
  PROVE  CalmHistory'
<1>1. History' = History
  <2>1. CASE ApproveClear(h)
    BY <2>1, CalmNames DEF ApproveClear, History, TypeInv, TypeOK, Session
  <2>2. CASE ~ApproveClear(h)
    <3>1. sess' = sess
      BY <2>2, CalmNames DEF Arrival, HandlerStep, Enter, AbortTake, Lookup, ApproveRead,
         ChatSupersede, ChatNewLoop, ChatPush, ChatReplaceDead, Start, Receive, Bail, StreamEnd,
         ApproveNewLoop, AbortStop, AbortJoin, storeVars
    <3> QED
      BY <3>1 DEF History
  <2> QED
    BY <2>1, <2>2
<1>2. \A l \in Starters : InTurn(l)' => InTurn(l) /\ loop'[l].turn = loop[l].turn
  <2>1. CASE ChatNewLoop(h)
    BY <2>1 DEF ChatNewLoop, InTurn, TypeInv, TypeOK, TurnLoop
  <2>2. CASE ChatReplaceDead(h)
    BY <2>2 DEF ChatReplaceDead, InTurn, TypeInv, TypeOK, TurnLoop
  <2>3. CASE ChatPush(h)
    <3>1. h \in Starters
      BY <2>3, Names DEF ChatPush
    <3>2. ASSUME NEW l \in Starters PROVE loop'[l].st = loop[l].st /\ loop'[l].turn = loop[l].turn
      <4>1. loop'[l] = loop[l] \/ loop'[l] = Pushed(l, h, TRUE)
        BY <2>3 DEF ChatPush, TypeInv, TypeOK
      <4> QED
        BY <3>1, <4>1, LoopRecords DEF TypeInv
    <3> QED
      BY <3>2 DEF InTurn
  <2>4. CASE Start(h)
    BY <2>4 DEF Start, Pushed, InTurn, TypeInv, TypeOK, TurnLoop
  <2>5. CASE AbortStop(h)
    BY <2>5 DEF AbortStop, StoppedNow, InTurn, TypeInv, TypeOK, TurnLoop
  <2>6. CASE ApproveNewLoop(h)
    <3>1. ASSUME NEW l \in Starters
          PROVE  loop'[l].st = "made" \/ (loop'[l].st = loop[l].st /\ loop'[l].turn = loop[l].turn)
      BY <2>6, ZenonT(60) DEF ApproveNewLoop, StoppedNow, TypeInv, TypeOK, TurnLoop
    <3> QED
      BY <3>1 DEF InTurn
  <2>7. CASE UNCHANGED loop
    BY <2>7 DEF InTurn
  <2> QED
    BY <2>1, <2>2, <2>3, <2>4, <2>5, <2>6, <2>7, CalmNames
       DEF Arrival, HandlerStep, Enter, AbortTake, Lookup, ChatSupersede, Receive, Bail,
           StreamEnd, AbortJoin, ApproveRead, ApproveClear
<1> QED
  BY <1>1, <1>2, CalmHistoryFrame

\* Nor does a loop that takes no input and gets no result; the turn it may resume is
\* an approval's.
LEMMA LoopHistory ==
  ASSUME TypeInv, ReplyInv, CalmInv, CalmHistory, NEW l \in Starters, LoopStep(l),
         ~LoopGenInput(l), ~TurnResult(l)
  PROVE  CalmHistory'
<1>1. ~LoopNoQuery(l)
  BY NoQuerylessInput
<1>2. History' = History
  <2>1. sess' = sess
    BY <1>1 DEF LoopStep, LoopPlain, LoopResume, LoopResumeFails, LoopIdleStop, LoopPreempt,
       TurnSnapshot, TurnSend, TurnCancelled, LoopExit, Cleanup, storeVars
  <2> QED
    BY <2>1 DEF History
<1>3. \A m \in Starters : (InTurn(m)' /\ loop'[m].turn \in Chats) =>
         InTurn(m) /\ loop'[m].turn = loop[m].turn
  <2>1. CASE Cleanup(l)
    BY <2>1 DEF Cleanup, InTurn
  <2>2. CASE LoopPlain(l)
    BY <2>2 DEF LoopPlain, InTurn, TypeInv, TypeOK, TurnLoop
  <2>3. CASE LoopResumeFails(l)
    BY <2>3 DEF LoopResumeFails, InTurn, TypeInv, TypeOK, TurnLoop
  <2>4. CASE LoopIdleStop(l)
    BY <2>4 DEF LoopIdleStop, InTurn, TypeInv, TypeOK, TurnLoop
  <2>5. CASE LoopPreempt(l)
    BY <2>5 DEF LoopPreempt, InTurn, TypeInv, TypeOK, TurnLoop
  <2>6. CASE TurnSnapshot(l)
    BY <2>6 DEF TurnSnapshot, InTurn, TypeInv, TypeOK, TurnLoop
  <2>7. CASE TurnSend(l)
    BY <2>7 DEF TurnSend, InTurn, TypeInv, TypeOK, TurnLoop
  <2>8. CASE TurnCancelled(l)
    BY <2>8 DEF TurnCancelled, AfterTurn, InTurn, TypeInv, TypeOK, TurnLoop
  <2>9. CASE LoopExit(l)
    BY <2>9 DEF LoopExit, InTurn, TypeInv, TypeOK, TurnLoop
  <2>10. CASE LoopResume(l)
    <3>1. PICK k \in 1..Len(loop[l].queue) :
            /\ k \in Positions(loop[l].queue, Approves)
            /\ loop' = [loop EXCEPT ![l] = [FreshTurn(l, loop[l].queue[k], ckpt.items)
                                               EXCEPT !.loaded = TRUE]]
      BY <2>10 DEF LoopResume, IsFirst
    <3>2. PICK a \in Approves : a = loop[l].queue[k]
      BY <3>1 DEF Positions
    <3>3. loop'[l].turn = a /\ \A m \in Starters : m # l => loop'[m] = loop[m]
      BY <3>1, <3>2 DEF FreshTurn, TypeInv, TypeOK, TurnLoop
    <3>4. a \notin Chats
      BY ChatAssumption
    <3> QED
      BY <3>3, <3>4 DEF InTurn
  <2> QED
    BY <1>1, <2>1, <2>2, <2>3, <2>4, <2>5, <2>6, <2>7, <2>8, <2>9, <2>10 DEF LoopStep
<1> QED
  BY <1>2, <1>3, CalmHistoryFrame

\* A question is persisted when no other loop runs a turn, ...
LEMMA AskedInOrder ==
  ASSUME CalmClients, TypeInv, OneLoopInv, CalmInv, CalmHistory, NEW l \in Starters,
         LoopGenInput(l)
  PROVE  CalmHistory'
<1>1. /\ loop[l].st = "idle" /\ loop[l] \in TurnLoop /\ loop[l].queue \in Seq(Starters)
      /\ History \in Seq(Message) /\ None \in Gens /\ req[l].sess = None
  BY CalmNames, Names DEF LoopGenInput, TypeInv, TypeOK, Message, History, Session, TurnLoop
<1>2. PICK k \in 1..Len(loop[l].queue) :
        /\ loop' = [loop EXCEPT ![l] = FreshTurn(l, loop[l].queue[k], Without(loop[l].queue, k))]
        /\ sess' = [sess EXCEPT ![None].history = Append(@, <<"user", loop[l].queue[k]>>)]
  BY <1>1 DEF LoopGenInput
<1>3. PICK c \in Starters : c = loop[l].queue[k]
  BY <1>1, <1>2
<1> DEFINE m == <<"user", c>>
           old == History
<1>4. /\ loop'[l].turn = c /\ \A o \in Starters : o # l => loop'[o] = loop[o]
      /\ History' = Append(old, m)
  BY <1>1, <1>2, <1>3 DEF FreshTurn, TypeInv, TypeOK, TurnLoop, Session, History
<1>5. m \in Message /\ InOrder(old) /\ m[1] # "answer" /\ old \in Seq(Message)
  BY <1>1, <1>3 DEF CalmHistory, Message
<1>6. \A o \in Starters : o # l => ~InTurn(o)'
  <2>1. \A o \in Starters : Active(o) => o = l
    BY <1>1, OneActive DEF Active
  <2> QED
    BY <1>4, <2>1 DEF InTurn, Active
<1> HIDE DEF m, old
<1>7. /\ InOrder(Append(old, m))
      /\ Len(Append(old, m)) > 0 /\ Append(old, m)[Len(Append(old, m))] = m
  BY <1>5, AppendInOrder
<1>8. \A o \in Starters : (InTurn(o)' /\ loop'[o].turn \in Chats) =>
         /\ Len(History') > 0
         /\ History'[Len(History')] = <<"user", loop'[o].turn>>
  BY <1>4, <1>6, <1>7 DEF m
<1> QED
  BY <1>4, <1>7, <1>8 DEF CalmHistory, InOrder

\* ... and answered before the next one.
LEMMA AnsweredInOrder ==
  ASSUME CalmClients, TypeInv, OneLoopInv, ReplyInv, CalmInv, CalmHistory, NEW l \in Starters,
         TurnResult(l)
  PROVE  CalmHistory'
<1> DEFINE old == History
           t == loop[l].turn
<1>1. /\ loop[l].st = "await" /\ t \in Starters /\ None \in Gens /\ old \in Seq(Message)
      /\ req[l].sess = None
  BY CalmNames, Names DEF TurnResult, TypeInv, TypeOK, Message, LoopShape, InTurn, History, Session
<1>2. PICK b \in Own(t) : b = loop[l].bridge
  BY <1>1 DEF ReplyInv, OwnBridges
<1>3. chan[b].done.turn = t /\ b[1] = t
  <2>1. b \in Own(t) /\ chan[b].done # NoResult
    BY <1>2 DEF TurnResult
  <2>2. chan[b].done.turn = t
    BY <1>1, <2>1 DEF ReplyInv, Envelopes
  <2> QED
    BY <2>1, <2>2 DEF Own
<1>4. /\ \A o \in Starters : o # l => loop'[o] = loop[o]
      /\ loop'[l].st \in {"idle", "exiting"}
  BY SMTT(30) DEF TurnResult, AfterTurn, TypeInv, TypeOK, TurnLoop
<1>5. \A o \in Starters : ~InTurn(o)'
  <2>1. \A o \in Starters : Active(o) => o = l
    BY <1>1, OneActive DEF Active
  <2> QED
    BY <1>4, <2>1 DEF InTurn, Active
<1>6. History' = IF t \in Chats THEN Append(old, <<"answer", t>>) ELSE old
  BY <1>1, <1>2, <1>3 DEF TurnResult, TypeInv, TypeOK, Session, History
<1>7. InOrder(History')
  <2>1. CASE t \notin Chats
    BY <1>6, <2>1 DEF CalmHistory
  <2>2. CASE t \in Chats
    <3> DEFINE m == <<"answer", t>>
    <3>1. /\ m \in Message /\ InOrder(old)
          /\ Len(old) > 0 /\ old[Len(old)] = <<"user", m[2]>>
      BY <1>1, <2>2 DEF CalmHistory, Message, InTurn
    <3>2. History' = Append(old, m)
      BY <1>6, <2>2
    <3> HIDE DEF m, old
    <3> QED
      BY <1>1, <3>1, <3>2, AppendInOrder
  <2> QED
    BY <2>1, <2>2
<1> QED
  BY <1>5, <1>7 DEF CalmHistory, InOrder

LEMMA CalmHistoryStep ==
  ASSUME CalmClients, CalmServer, CalmHistory, [Next]_vars
  PROVE  CalmHistory'
<1>1. ASSUME NEW h \in Requests, Arrival(h) \/ HandlerStep(h) PROVE CalmHistory'
  BY <1>1, HandlerHistory DEF CalmServer
<1>2. ASSUME NEW l \in Starters, LoopStep(l) PROVE CalmHistory'
  BY <1>2, LoopHistory, AskedInOrder, AnsweredInOrder DEF CalmServer
<1>3. CASE UNCHANGED vars
  BY <1>3, CalmHistoryFrame DEF vars, History, InTurn
<1> QED
  BY <1>1, <1>2, <1>3 DEF Next

\* server.go:363-365, 615-617: in a session with approvals and aborts too, an answer follows
\* its own question at once, and so is persisted once.
THEOREM AnswersFollowQuestionsCalm == CalmClients => (Spec => []HistoryInOrder)
<1> SUFFICES ASSUME CalmClients PROVE Spec => []HistoryInOrder
  OBVIOUS
<1>1. Init => CalmHistory
  BY DEF Init, CalmHistory, History, InOrder, InTurn, NoLoop, Gens
<1>2. CalmServer /\ CalmHistory /\ [Next]_vars => CalmHistory'
  BY CalmHistoryStep
<1>3. CalmServer /\ CalmHistory => HistoryInOrder
  <2> SUFFICES ASSUME TypeInv, CalmHistory, NEW g \in Gens PROVE InOrder(sess[g].history)
    BY DEF CalmServer, HistoryInOrder, InOrder
  <2>1. g = None
    BY CalmNames
  <2> QED
    BY <2>1 DEF CalmHistory, History
<1> QED
  BY <1>1, <1>2, <1>3, CalmServerHolds, PTL DEF Spec

-----------------------------------------------------------------------------
(* The contract of a session.  For calm clients the loop that runs a turn is the only *)
(* one that is not gone, and so is the loop that is about to resume; handlers that    *)
(* come and go on the way from one to the other are nothing to the contract.          *)

Asked(c) == \E k \in 1..Len(History) : History[k] = <<"user", c>>
Taken(c) == req[c].pc \in {"wait", "stream"} \cup Finished

\* What was asked is not asked again: its handler has pushed it, and it is in no queue.
AskedOnce == \A c \in Chats : Asked(c) => Taken(c) /\ \A l \in Starters : loop[l].queue # <<c>>

SameTurns ==
    \A l \in Starters : /\ InTurn(l)' <=> InTurn(l)
                        /\ InTurn(l) => loop'[l].turn = loop[l].turn
SameGrants ==
    \A a \in Approves : /\ Granting(a)' <=> Granting(a)
                        /\ Granting(a) => req'[a].seen = req[a].seen

LEMMA TurnOf ==
  ASSUME OneLoopInv, CalmInv, NEW l \in Starters, InTurn(l)
  PROVE  Turn = loop[l].turn
<1>1. \A m \in Starters : InTurn(m) => m = l
  BY OneActive DEF InTurn, Active
<1>2. Turns = {l}
  BY <1>1 DEF Turns
<1> QED
  BY <1>2 DEF Turn

LEMMA NoTurn ==
  ASSUME \A l \in Starters : ~InTurn(l)
  PROVE  Turn = None
  BY DEF Turn, Turns

LEMMA SameTurn ==
  ASSUME SameTurns PROVE Turn' = Turn
<1>1. Turns' = Turns
  BY DEF SameTurns, Turns
<1> DEFINE l == CHOOSE m \in Turns : TRUE
<1>2. Turns # {} => l \in Turns
  OBVIOUS
<1>3. Turns # {} => loop'[l].turn = loop[l].turn
  BY <1>2 DEF SameTurns, Turns
<1> QED
  BY <1>1, <1>3 DEF Turn

LEMMA GrantOf ==
  ASSUME NEW a \in Approves, Granting(a), \A b \in Approves : Granting(b) => b = a
  PROVE  Granted = req[a].seen
<1>1. Grants = {a}
  BY DEF Grants
<1> QED
  BY <1>1 DEF Granted

LEMMA NoGrant ==
  ASSUME \A a \in Approves : ~Granting(a)
  PROVE  Granted = None
  BY DEF Granted, Grants

LEMMA SameGrant ==
  ASSUME SameGrants PROVE Granted' = Granted
<1>1. Grants' = Grants
  BY DEF SameGrants, Grants
<1> DEFINE a == CHOOSE b \in Grants : TRUE
<1>2. Grants # {} => a \in Grants
  OBVIOUS
<1>3. Grants # {} => req'[a].seen = req[a].seen
  BY <1>2 DEF SameGrants, Grants
<1> QED
  BY <1>1, <1>3 DEF Granted

\* While a loop is not gone, no approval is accepted but for it.
LEMMA ActiveGrants ==
  ASSUME OneLoopInv, CalmInv, NEW l \in Starters, Active(l)
  PROVE  \A a \in Approves : Granting(a) => a = l /\ loop[l].st \in {"made", "load"}
<1> SUFFICES ASSUME NEW a \in Approves, Granting(a) PROVE a = l /\ loop[l].st \in {"made", "load"}
  OBVIOUS
<1>1. ~Gone
  BY DEF Gone
<1>2. req[a].pc \notin {"enter", "lock"}
  BY <1>1 DEF CalmInv, LoopAtRest
<1>3. loop[a].st \in {"made", "load"}
  BY <1>2 DEF Granting
<1>4. a \in Starters /\ Active(a)
  BY <1>3, Names DEF Active
<1> QED
  BY <1>3, <1>4, OneActive

\* What the handlers do to loops: a push, a new one, its start, or nothing of interest.
LEMMA HandlerLoops ==
  ASSUME CalmClients, CalmServer, NEW h \in Requests, Arrival(h) \/ HandlerStep(h),
         NEW l \in Starters
  PROVE  \/ /\ loop'[l].st = loop[l].st /\ loop'[l].turn = loop[l].turn
            /\ \/ loop'[l].queue = loop[l].queue
               \/ ChatPush(h) /\ loop'[l].queue = Append(loop[l].queue, h)
         \/ /\ l = h
            /\ ChatNewLoop(h) \/ ChatReplaceDead(h) \/ ApproveNewLoop(h)
            /\ loop[l].st = "none" /\ loop'[l].st = "made" /\ loop'[l].queue = loop[l].queue
         \/ /\ l = h /\ Start(h)
            /\ loop[l].st = "made" /\ loop'[l].st = "load"
            /\ loop'[l].queue = Append(loop[l].queue, h)
<1> USE DEF CalmServer
<1>1. CASE ChatNewLoop(h) \/ ChatReplaceDead(h)
  <2>1. loop[h].st = "none"
    <3>1. h \in Starters /\ req[h].pc \in {"lock", "dead"}
      BY <1>1, Names DEF ChatNewLoop, ChatReplaceDead
    <3>2. loop[h] = NoLoop
      BY <3>1 DEF CalmInv, LoopAtRest
    <3> QED
      BY <3>2 DEF NoLoop
  <2>2. CASE l = h
    BY <1>1, <2>1, <2>2 DEF ChatNewLoop, ChatReplaceDead, TypeInv, TypeOK, TurnLoop
  <2>3. CASE l # h
    BY <1>1, <2>3 DEF ChatNewLoop, ChatReplaceDead, TypeInv, TypeOK
  <2> QED
    BY <2>2, <2>3
<1>2. CASE ApproveNewLoop(h)
  <2>1. h \in Starters /\ loop[h].st = "none"
    <3>1. h \in Starters /\ req[h].pc = "lock"
      BY <1>2, Names DEF ApproveNewLoop
    <3>2. loop[h] = NoLoop
      BY <3>1 DEF CalmInv, LoopAtRest
    <3> QED
      BY <3>1, <3>2 DEF NoLoop
  <2>2. CASE l = h
    <3>1. loop'[h] = [loop[h] EXCEPT !.st = "made"]
      BY <1>2, <2>1 DEF ApproveNewLoop
    <3> QED
      BY <1>2, <2>1, <2>2, <3>1 DEF TypeInv, TypeOK, TurnLoop
  <2>3. CASE l # h
    <3>1. loop'[l] = loop[l] \/ loop'[l] = StoppedNow(l)
      BY <1>2, <2>3 DEF ApproveNewLoop
    <3> QED
      BY <3>1 DEF StoppedNow, TypeInv, TypeOK, TurnLoop
  <2> QED
    BY <2>2, <2>3
<1>3. CASE ChatPush(h)
  <2>1. h \in Starters
    BY <1>3, Names DEF ChatPush
  <2>2. loop'[l] = loop[l] \/ loop'[l] = Pushed(l, h, TRUE)
    BY <1>3 DEF ChatPush, TypeInv, TypeOK
  <2>3. Pushed(l, h, TRUE).queue = Append(loop[l].queue, h)
    BY <2>1 DEF Pushed, TypeInv, TypeOK, TurnLoop
  <2> QED
    BY <1>3, <2>1, <2>2, <2>3, LoopRecords DEF TypeInv
<1>4. CASE Start(h)
  <2>1. h \in Starters /\ loop[h] = [NoLoop EXCEPT !.st = "made"]
    BY <1>4 DEF Start, CalmInv, LoopAtRest
  <2>2. loop[h].st = "made" /\ Live(h)
    BY <2>1 DEF NoLoop, Live
  <2>3. PICK pushed \in TurnLoop : pushed = Pushed(h, h, FALSE)
    BY <2>1, LoopRecords DEF TypeInv
  <2>4. pushed.queue = Append(loop[h].queue, h)
    BY <2>1, <2>3 DEF Pushed, TypeInv, TypeOK, TurnLoop
  <2>5. loop'[h] = [pushed EXCEPT !.st = "load"] /\ \A m \in Starters : m # h => loop'[m] = loop[m]
    BY <1>4, <2>2, <2>3 DEF Start, TypeInv, TypeOK
  <2>6. loop'[h].st = "load" /\ loop'[h].queue = pushed.queue
    BY <2>3, <2>5 DEF TurnLoop
  <2> QED
    BY <1>4, <2>2, <2>4, <2>5, <2>6
<1>5. CASE AbortStop(h)
  <2>1. loop'[l] = loop[l] \/ loop'[l] = StoppedNow(l)
    BY <1>5 DEF AbortStop, TypeInv, TypeOK
  <2> QED
    BY <2>1 DEF StoppedNow, TypeInv, TypeOK, TurnLoop
<1>6. CASE UNCHANGED loop
  BY <1>6
<1> QED
  BY <1>1, <1>2, <1>3, <1>4, <1>5, <1>6, CalmNames
     DEF Arrival, HandlerStep, Enter, AbortTake, Lookup, ChatSupersede, Receive, Bail,
         StreamEnd, AbortJoin, ApproveRead, ApproveClear

\* What they do to requests: one that was taken stays so, and so does a grant that is not new.
LEMMA HandlerTaken ==
  ASSUME CalmClients, TypeInv, NEW h \in Requests, Arrival(h) \/ HandlerStep(h), NEW c \in Chats
  PROVE  Taken(c) => Taken(c)'
<1>1. CASE c # h
  <2>1. req'[c] = req[c]
    BY <1>1, OwnRecord, Names
  <2> QED
    BY <2>1 DEF Taken
<1>2. CASE c = h
  <2>1. CASE Receive(h) \/ Bail(h) \/ StreamEnd(h) \/ ChatPush(h) \/ Start(h)
    <3>1. Receive(h) => req'[h].pc = "stream"
      BY DEF Receive, TypeInv, TypeOK, Handler
    <3>2. Bail(h) => req'[h].pc = "preempted"
      BY DEF Bail, TypeInv, TypeOK, Handler
    <3>3. StreamEnd(h) => req'[h].pc = "done"
      BY DEF StreamEnd, TypeInv, TypeOK, Handler
    <3>4. ChatPush(h) \/ Start(h) => req[h].pc \notin {"wait", "stream"} \cup Finished
      BY DEF ChatPush, Start, Finished
    <3> QED
      BY <1>2, <2>1, <3>1, <3>2, <3>3, <3>4 DEF Taken, Finished
  <2>2. CASE ~(Receive(h) \/ Bail(h) \/ StreamEnd(h) \/ ChatPush(h) \/ Start(h))
    <3>1. /\ ~ApproveRead(h) /\ ~ApproveClear(h) /\ ~ApproveNewLoop(h)
          /\ ~AbortTake(h) /\ ~AbortStop(h) /\ ~AbortJoin(h)
      BY <1>2, ChatAssumption DEF ApproveRead, ApproveClear, ApproveNewLoop, AbortTake, AbortStop,
         AbortJoin
    <3> QED
      BY <1>2, <2>2, <3>1, CalmNames DEF Arrival, HandlerStep, Enter, MayArrive, Lookup,
         ChatSupersede, ChatNewLoop, ChatReplaceDead, Taken, Finished
  <2> QED
    BY <2>1, <2>2
<1> QED
  BY <1>1, <1>2

LEMMA HandlerGrants ==
  ASSUME CalmClients, CalmServer, NEW h \in Requests, Arrival(h) \/ HandlerStep(h),
         ~ApproveClear(h)
  PROVE  SameGrants
<1> USE DEF CalmServer
<1> SUFFICES ASSUME NEW a \in Approves
             PROVE  /\ Granting(a)' <=> Granting(a)
                    /\ Granting(a) => req'[a].seen = req[a].seen
  BY DEF SameGrants
<1>0. a \in Starters /\ a \in Requests
  BY Names
<1>1. CASE a # h
  <2>1. req'[a] = req[a]
    BY <1>0, <1>1, OwnRecord
  <2>2. loop'[a].st = loop[a].st
    BY <1>0, <1>1, HandlerLoops
  <2> QED
    BY <2>1, <2>2 DEF Granting
<1>2. CASE a = h
  <2>1. CASE ApproveRead(h)
    <3>1. req[h].pc = "idle" /\ req'[h].pc \in {"clear", "rejected"} /\ loop' = loop
      BY <2>1 DEF ApproveRead, MayArrive, TypeInv, TypeOK, Handler
    <3>2. loop[h] = NoLoop
      BY <1>0, <1>2, <3>1 DEF CalmInv, LoopAtRest
    <3> QED
      BY <1>2, <3>1, <3>2 DEF Granting, NoLoop
  <2>2. CASE Lookup(h)
    <3>1. /\ req[h].pc = "enter" /\ req'[h].pc = "lock" /\ req'[h].seen = req[h].seen
      BY <2>2, ZenonT(60) DEF Lookup, TypeInv, TypeOK, Handler
    <3> QED
      BY <1>2, <3>1 DEF Granting
  <2>3. CASE ApproveNewLoop(h)
    <3>1. req[h].pc = "lock" /\ req'[h].seen = req[h].seen
      BY <2>3, ZenonT(60) DEF ApproveNewLoop, TypeInv, TypeOK, Handler
    <3>3. loop'[h] = [loop[h] EXCEPT !.st = "made"]
      BY <1>0, <1>2, <2>3 DEF ApproveNewLoop
    <3>4. loop'[h].st = "made"
      BY <1>0, <1>2, <3>3 DEF TypeInv, TypeOK, TurnLoop
    <3> QED
      BY <1>2, <3>1, <3>4 DEF Granting
  <2>4. CASE Start(h)
    <3>1. req'[h].seen = req[h].seen /\ req[h].pc = "start" /\ req'[h].pc = "wait"
      BY <2>4 DEF Start, TypeInv, TypeOK, Handler
    <3>2. loop[h].st = "made"
      BY <1>0, <1>2, <3>1 DEF CalmInv, LoopAtRest, NoLoop
    <3>3. loop'[h].st \in {"made", "load"}
      BY <1>0, <1>2, <3>2, HandlerLoops
    <3> QED
      BY <1>2, <3>1, <3>2, <3>3 DEF Granting
  <2>5. CASE Receive(h) \/ Bail(h) \/ StreamEnd(h)
    <3>1. req[h].pc \in {"wait", "stream"} /\ loop' = loop
      BY <2>5 DEF Receive, Bail, StreamEnd
    <3>2. Receive(h) => req'[h].pc = "stream" /\ req'[h].seen = req[h].seen
      BY DEF Receive, TypeInv, TypeOK, Handler
    <3>3. Bail(h) => req'[h].pc = "preempted" /\ req'[h].seen = req[h].seen
      BY DEF Bail, TypeInv, TypeOK, Handler
    <3>4. StreamEnd(h) => req'[h].pc = "done" /\ req'[h].seen = req[h].seen
      BY DEF StreamEnd, TypeInv, TypeOK, Handler
    <3> QED
      BY <1>2, <2>5, <3>1, <3>2, <3>3, <3>4 DEF Granting
  <2>6. /\ ~Enter(h) /\ ~ChatSupersede(h) /\ ~ChatNewLoop(h) /\ ~ChatPush(h) /\ ~ChatReplaceDead(h)
        /\ ~AbortTake(h) /\ ~AbortStop(h) /\ ~AbortJoin(h)
    BY <1>2, ChatAssumption DEF Enter, ChatSupersede, ChatNewLoop, ChatPush, ChatReplaceDead,
       AbortTake, AbortStop, AbortJoin
  <2> QED
    BY <2>1, <2>2, <2>3, <2>4, <2>5, <2>6, CalmNames DEF Arrival, HandlerStep
<1> QED
  BY <1>1, <1>2

LEMMA LoneItem ==
  ASSUME NEW q \in Seq(Starters), NEW x \in Starters, NEW y
  PROVE  Append(q, x) = <<y>> => x = y
<1> DEFINE r == Append(q, x)
<1>1. Len(r) = Len(q) + 1 /\ Len(q) \in Nat
  OBVIOUS
<1>2. r[Len(q) + 1] = x
  OBVIOUS
<1>3. Len(<<y>>) = 1 /\ <<y>>[1] = y
  OBVIOUS
<1> HIDE DEF r
<1>4. r = <<y>> => x = y
  BY <1>1, <1>2, <1>3
<1> QED
  BY <1>4 DEF r

\* No handler takes a turn up or ends one, or puts a question that was asked in a queue.
LEMMA HandlerContract ==
  ASSUME CalmClients, CalmServer, AskedOnce, NEW h \in Requests, Arrival(h) \/ HandlerStep(h)
  PROVE  SameTurns /\ (Items' /\ History' = History => AskedOnce')
<1>1. SameTurns
  <2> SUFFICES ASSUME NEW l \in Starters
               PROVE  /\ InTurn(l)' <=> InTurn(l)
                      /\ InTurn(l) => loop'[l].turn = loop[l].turn
    BY DEF SameTurns
  <2>1. \/ loop'[l].st = loop[l].st /\ loop'[l].turn = loop[l].turn
        \/ loop[l].st \in {"none", "made"} /\ loop'[l].st \in {"made", "load"}
    BY HandlerLoops
  <2> QED
    BY <2>1 DEF InTurn
<1>2. ASSUME Items', History' = History PROVE AskedOnce'
  <2> SUFFICES ASSUME NEW c \in Chats, Asked(c)
               PROVE  Taken(c)' /\ \A l \in Starters : loop'[l].queue # <<c>>
    BY <1>2 DEF AskedOnce, Asked
  <2>1. Taken(c) /\ \A l \in Starters : loop[l].queue # <<c>>
    BY DEF AskedOnce
  <2>2. Taken(c)'
    BY <2>1, HandlerTaken DEF CalmServer
  <2>3. ASSUME NEW l \in Starters, loop'[l].queue = <<c>> PROVE FALSE
    <3>1. /\ ChatPush(h) \/ Start(h)
          /\ loop'[l].queue = Append(loop[l].queue, h)
      BY <2>1, <2>3, HandlerLoops
    <3>2. req[h].pc \in {"push", "start"} /\ h \in Starters
      BY <3>1, Names DEF ChatPush, Start
    <3>3. c # h
      BY <2>1, <3>2 DEF Taken, Finished
    <3>4. loop[l].queue \in Seq(Starters)
      BY Fields DEF CalmServer, TypeInv
    <3>5. h = c
      BY <2>3, <3>1, <3>2, <3>4, LoneItem
    <3> QED
      BY <3>3, <3>5
  <2> QED
    BY <2>2, <2>3
<1> QED
  BY <1>1, <1>2

\* What the contract sees of the session.
LEMMA SessionSeen ==
  ASSUME CalmClients, TypeInv
  PROVE  sess[sessGen].history = History /\ sess[sessGen].pending = Pending
  BY CalmNames DEF History, Pending

LEMMA ContractStutter ==
  ASSUME CalmClients, TypeInv, TypeInv', SameTurns, SameGrants,
         UNCHANGED <<sess, resumed, replies>>
  PROVE  UNCHANGED Contract!vars
<1>1. UNCHANGED <<sess[sessGen].history, sess[sessGen].pending>>
  BY CalmNames, SessionSeen DEF CalmClients, TypeInv, TypeOK, Gens
<1> QED
  BY <1>1, SameTurn, SameGrant DEF Contract!vars

\* An approval is accepted, in a session at rest.
LEMMA DecideRefines ==
  ASSUME CalmClients, CalmServer, TypeInv', NEW h \in Requests, ApproveClear(h)
  PROVE  Contract!Decide
<1> USE DEF CalmServer
<1>1. /\ h \in Approves /\ h \in Starters /\ req[h].pc = "clear" /\ UNCHANGED <<loop, resumed, replies>>
      /\ \A g \in Requests : g # h => req'[g] = req[g]
  BY OwnRecord, Names DEF ApproveClear, HandlerStep
<1>2. req'[h].pc = "enter" /\ req'[h].seen = req[h].seen
  BY <1>1 DEF ApproveClear, TypeInv, TypeOK, Handler
<1>3. Gone /\ Pending # None /\ Pending = req[h].seen
  BY <1>1 DEF CalmInv, LoopAtRest, Offer
<1>4. \A l \in Starters : loop[l].st \in {"none", "exited"} /\ loop'[l].st \in {"none", "exited"}
  BY <1>1, <1>3 DEF Gone, Active
<1>5. \A a \in Approves : a # h => req[a].pc \notin {"enter", "lock"} /\ req'[a].pc \notin {"enter", "lock"}
  BY <1>1, Names, OthersRest DEF OneLoopInv, Busy, Finished
<1>6. Turn = None /\ Turn' = None
  BY <1>4 DEF Turn, Turns, InTurn
<1>7. Granted = None
  BY <1>1, <1>4, <1>5, Names, NoGrant DEF Granting
<1>8. Granted' = req[h].seen
  <2>1. Grants' = {h}
    BY <1>1, <1>2, <1>4, <1>5, Names DEF Grants, Granting
  <2> QED
    BY <1>2, <2>1 DEF Granted
<1>9. /\ sess[sessGen].pending = Pending /\ (sess[sessGen].pending)' = None
      /\ UNCHANGED (sess[sessGen].history)
  BY <1>1, CalmNames, SessionSeen DEF ApproveClear, TypeInv, TypeOK, Session
<1> QED
  BY <1>1, <1>3, <1>6, <1>7, <1>8, <1>9 DEF Contract!Decide, Contract!AtRest

\* A loop finds the checkpoint of what was approved.
LEMMA ResumeRefines ==
  ASSUME CalmClients, CalmServer, CalmServer', NEW l \in Starters, LoopResume(l)
  PROVE  \E a \in Approves : Contract!Resume(a)
<1> USE DEF CalmServer
<1>1. /\ loop[l].st = "load" /\ loop[l] = [NoLoop EXCEPT !.st = "load", !.queue = <<l>>]
      /\ UNCHANGED <<sess, sessGen, req, replies>>
  BY DEF LoopResume, CalmInv, LoopAtRest, storeVars
<1>2. PICK k \in 1..Len(loop[l].queue) :
        /\ k \in Positions(loop[l].queue, Approves)
        /\ loop' = [loop EXCEPT ![l] = [FreshTurn(l, loop[l].queue[k], ckpt.items)
                                           EXCEPT !.loaded = TRUE]]
        /\ resumed' = resumed \cup {<<CkptGet, ResumeTarget(l, loop[l].queue[k])>>}
  BY DEF LoopResume, IsFirst
<1>3. loop[l].queue = <<l>>
  BY <1>1 DEF NoLoop
<1>4. loop[l].queue[k] = l /\ l \in Approves
  <2>1. k = 1
    BY <1>2, <1>3
  <2> QED
    BY <1>2, <1>3, <2>1 DEF Positions
<1>5. /\ loop'[l].st = "snap" /\ loop'[l].turn = l
      /\ \A m \in Starters : m # l => loop'[m] = loop[m]
  BY <1>2, <1>4 DEF FreshTurn, TypeInv, TypeOK, TurnLoop
<1>6. CkptGet # None /\ CkptGet = req[l].seen
  BY <1>1, <1>4 DEF CalmInv, Offer
<1>7. resumed' = resumed \cup {<<req[l].seen, req[l].seen>>}
  BY <1>2, <1>4, <1>6 DEF ResumeTarget
<1>8. Active(l) /\ Active(l)'
  BY <1>1, <1>5 DEF Active
<1>9. Turn = None
  <2>1. \A m \in Starters : ~InTurn(m)
    BY <1>1, <1>8, OneActive DEF InTurn, Active
  <2> QED
    BY <2>1, NoTurn
<1>10. \A m \in Starters : m # l => ~Active(m) /\ ~Active(m)'
  BY <1>5, <1>8, OneActive DEF Active
<1>11. Turn' = l
  <2>1. Turns' = {l}
    BY <1>5, <1>10 DEF Turns, InTurn, Active
  <2> QED
    BY <1>5, <2>1 DEF Turn
<1>12. \A a \in Approves : Granting(a) => a = l
  BY <1>8, ActiveGrants
<1>13. Granted = req[l].seen
  BY <1>1, <1>4, <1>12, GrantOf DEF Granting
<1>14. Granted' = None
  <2>1. req[l].pc \notin {"enter", "lock"}
    BY <1>4, <1>8 DEF CalmInv, LoopAtRest, Gone
  <2>2. \A a \in Approves : ~Granting(a)'
    BY <1>1, <1>5, <1>10, <1>12, <2>1, Names DEF Granting, Active
  <2> QED
    BY <2>2 DEF Granted, Grants
<1> QED
  BY <1>1, <1>4, <1>6, <1>7, <1>9, <1>11, <1>13, <1>14 DEF Contract!Resume

\* A question begins.
LEMMA AskRefines ==
  ASSUME CalmClients, CalmServer, CalmServer', AskedOnce, NEW l \in Starters, LoopGenInput(l)
  PROVE  (\E c \in Chats : Contract!Ask(c)) /\ AskedOnce'
<1> USE DEF CalmServer
<1>1. /\ loop[l].st = "idle" /\ loop[l] \in TurnLoop /\ History \in Seq(Message)
      /\ None \in Gens /\ req[l].sess = None
      /\ UNCHANGED <<sessGen, req, resumed, replies>>
  BY CalmNames, Names, Fields DEF LoopGenInput, TypeInv, TypeOK, Message, History, Session, TurnLoop
<1>2. PICK k \in 1..Len(loop[l].queue) :
        /\ k \in Positions(loop[l].queue, Chats)
        /\ loop' = [loop EXCEPT ![l] = FreshTurn(l, loop[l].queue[k], Without(loop[l].queue, k))]
        /\ sess' = [sess EXCEPT ![None].history = Append(@, <<"user", loop[l].queue[k]>>)]
  BY <1>1 DEF LoopGenInput, IsFirst
<1>3. PICK c \in Starters : loop[l].queue = <<c>> /\ Expected(c, l)
  <2>1. loop[l].queue # << >>
    BY <1>2
  <2> QED
    BY <2>1 DEF ReplyInv, Items
<1>4. loop[l].queue[k] = c /\ c \in Chats /\ Without(loop[l].queue, k) = << >>
  <2>1. k = 1 /\ Len(loop[l].queue) = 1
    BY <1>2, <1>3
  <2>2. SubSeq(<<c>>, 1, 0) = << >> /\ SubSeq(<<c>>, 2, 1) = << >>
    OBVIOUS
  <2>3. << >> \o << >> = << >>
    OBVIOUS
  <2> QED
    BY <1>2, <1>3, <2>1, <2>2, <2>3 DEF Without, Positions
<1>5. /\ loop'[l].st = "snap" /\ loop'[l].turn = c /\ loop'[l].queue = << >>
      /\ \A m \in Starters : m # l => loop'[m] = loop[m]
  BY <1>1, <1>2, <1>4 DEF FreshTurn, TypeInv, TypeOK, TurnLoop
<1>6. History' = Append(History, <<"user", c>>) /\ Pending' = Pending
  BY <1>1, <1>2, <1>4 DEF TypeInv, TypeOK, Session, History, Pending
<1>7. Active(l) /\ \A m \in Starters : m # l => ~Active(m) /\ ~Active(m)'
  BY <1>1, <1>5, OneActive DEF Active
<1>8. Turn = None /\ Turn' = c
  <2>1. Turns = {} /\ Turns' = {l}
    BY <1>1, <1>5, <1>7 DEF Turns, InTurn, Active
  <2> QED
    BY <1>5, <2>1 DEF Turn
<1>9. \A a \in Approves : ~Granting(a)
  BY <1>1, <1>7, ActiveGrants
<1>10. \A a \in Approves : ~Granting(a)'
  BY <1>1, <1>5, <1>9, Names DEF Granting
<1>11. Granted = None /\ Granted' = None
  BY <1>9, <1>10 DEF Granted, Grants
<1>12. Pending = None
  BY <1>1 DEF CalmInv, Offer
<1>13. ~Asked(c)
  BY <1>3, <1>4 DEF AskedOnce
<1>14. /\ sess[sessGen].history = History /\ (sess[sessGen].history)' = History'
       /\ sess[sessGen].pending = Pending /\ (sess[sessGen].pending)' = Pending'
  BY <1>1, CalmNames DEF History, Pending
<1>15. Contract!Ask(c)
  BY <1>1, <1>6, <1>8, <1>11, <1>12, <1>13, <1>14 DEF Contract!Ask, Contract!AtRest, Contract!Asked, Asked
<1>16. AskedOnce'
  <2> DEFINE m == <<"user", c>>
             old == History
  <2>1. \A k2 \in 1..Len(History') : (History'[k2] = old[k2] /\ k2 \in 1..Len(old)) \/ History'[k2] = m
    BY <1>1, <1>6
  <2>2. \A d \in Chats : Asked(d)' => Asked(d) \/ d = c
    BY <2>1 DEF Asked
  <2>3. Taken(c)'
    BY <1>1, <1>3 DEF Expected, Taken
  <2>4. \A n \in Starters : loop'[n].queue # <<c>>
    <3> SUFFICES ASSUME NEW n \in Starters, n # l, loop[n].queue = <<c>> PROVE FALSE
      BY <1>5
    <3>1. PICK d \in Starters : loop[n].queue = <<d>> /\ Expected(d, n)
      BY DEF ReplyInv, Items
    <3>2. d = c
      BY <3>1
    <3> QED
      BY <1>3, <3>1, <3>2 DEF Expected
  <2>5. \A d \in Chats : Taken(d) => Taken(d)'
    BY <1>1 DEF Taken
  <2>6. \A d \in Chats, n \in Starters : loop[n].queue # <<d>> => loop'[n].queue # <<d>>
    <3>1. \A d : << >> # <<d>>
      OBVIOUS
    <3> QED
      BY <1>5, <3>1
  <2> QED
    BY <2>2, <2>3, <2>4, <2>5, <2>6 DEF AskedOnce
<1> QED
  BY <1>4, <1>15, <1>16

\* What a turn that ends leaves of the contract's state: no other loop is in one.
LEMMA TurnEnds ==
  ASSUME OneLoopInv, CalmInv, NEW l \in Starters, InTurn(l),
         loop'[l].st \in {"idle", "exiting"}, UNCHANGED req,
         \A m \in Starters : m # l => loop'[m] = loop[m]
  PROVE  /\ Turn = loop[l].turn /\ Turn' = None
         /\ Granted = None /\ Granted' = None
<1>1. Active(l)
  BY DEF Active, InTurn
<1>2. \A m \in Starters : ~InTurn(m)'
  <2>1. \A m \in Starters : Active(m) => m = l
    BY <1>1, OneActive
  <2> QED
    BY <2>1 DEF InTurn, Active
<1>3. Turn' = None
  BY <1>2 DEF Turn, Turns
<1>4. \A a \in Approves : ~Granting(a)
  BY <1>1, ActiveGrants DEF InTurn
<1>5. \A a \in Approves : ~Granting(a)'
  BY <1>4, Names DEF Granting
<1> QED
  BY <1>3, <1>4, <1>5, TurnOf, NoGrant DEF Granted, Grants

\* A turn has its result, ...
LEMMA FinishRefines ==
  ASSUME CalmClients, CalmServer, CalmServer', AskedOnce, NEW l \in Starters, TurnResult(l)
  PROVE  Contract!Finish /\ AskedOnce'
<1> USE DEF CalmServer
<1> DEFINE t == loop[l].turn
           old == History
<1>1. /\ loop[l].st = "await" /\ t \in Starters /\ t # None /\ None \in Gens /\ old \in Seq(Message)
      /\ req[l].sess = None /\ InTurn(l) /\ UNCHANGED <<req, resumed, sessGen>>
  <2>1. loop[l].st = "await" /\ UNCHANGED <<req, resumed, sessGen>>
    BY DEF TurnResult
  <2>2. InTurn(l) /\ t \in Starters
    BY <2>1 DEF InTurn, TypeInv, LoopShape
  <2>3. t # None
    BY <2>2, Names, ChatAssumption
  <2>4. None \in Gens /\ old \in Seq(Message) /\ req[l].sess = None
    BY CalmNames, Names DEF TypeInv, TypeOK, Message, History, Session
  <2> QED
    BY <2>1, <2>2, <2>3, <2>4
<1>2. PICK b \in Own(t) : b = loop[l].bridge
  BY <1>1 DEF ReplyInv, OwnBridges
<1>3. chan[b].done.turn = t /\ b[1] = t
  <2>1. b \in Own(t) /\ chan[b].done # NoResult
    BY <1>2 DEF TurnResult
  <2>2. chan[b].done.turn = t
    BY <1>1, <2>1 DEF ReplyInv, Envelopes
  <2> QED
    BY <2>1, <2>2 DEF Own
<1>4. /\ \A m \in Starters : m # l => loop'[m] = loop[m]
      /\ loop'[l].st \in {"idle", "exiting"} /\ loop'[l].queue = loop[l].queue
  <2>1. PICK save \in Starters \cup {None}, st \in {"idle", "exiting"} :
          loop' = [loop EXCEPT ![l] = [@ EXCEPT !.turn = None, !.save = save, !.st = st]]
    BY <1>1 DEF TurnResult, AfterTurn
  <2> QED
    BY <2>1 DEF TypeInv, TypeOK, TurnLoop
<1>5. /\ Turn = t /\ Turn' = None /\ Granted = None /\ Granted' = None
  BY <1>1, <1>4, TurnEnds
<1>6. History' = IF t \in Chats THEN Append(old, <<"answer", t>>) ELSE old
  BY <1>1, <1>2, <1>3 DEF TurnResult, TypeInv, TypeOK, Session, History
<1>7. Pending' \in {Pending, t}
  BY <1>1, <1>2, <1>3 DEF TurnResult, TypeInv, TypeOK, Session, Pending
<1>8. replies' = replies \cup {<<t, t>>}
  BY <1>2, <1>3 DEF TurnResult
<1>9. Contract!Finish
  <2>1. /\ sess[sessGen].history = History /\ (sess[sessGen].history)' = History'
        /\ sess[sessGen].pending = Pending /\ (sess[sessGen].pending)' = Pending'
    BY <1>1, CalmNames DEF History, Pending
  <2> QED
    BY <1>1, <1>5, <1>6, <1>7, <1>8, <2>1 DEF Contract!Finish
<1>10. \A c \in Chats : Asked(c)' => Asked(c)
  <2> DEFINE m == <<"answer", t>>
  <2>1. \A k \in 1..Len(History') : (History'[k] = old[k] /\ k \in 1..Len(old)) \/ History'[k] = m
    BY <1>1, <1>6
  <2>2. \A c : m # <<"user", c>>
    OBVIOUS
  <2> QED
    BY <2>1, <2>2 DEF Asked
<1>11. AskedOnce'
  <2>1. \A m \in Starters : loop'[m].queue = loop[m].queue
    BY <1>4
  <2>2. \A c \in Chats : Taken(c)' <=> Taken(c)
    BY <1>1 DEF Taken
  <2> QED
    BY <1>10, <2>1, <2>2 DEF AskedOnce
<1> QED
  BY <1>9, <1>11

\* ... or is cancelled.
LEMMA CancelRefines ==
  ASSUME CalmClients, CalmServer, CalmServer', NEW l \in Starters, TurnCancelled(l)
  PROVE  Contract!Cancel
<1> USE DEF CalmServer
<1>1. /\ InTurn(l) /\ loop[l].turn # None
      /\ UNCHANGED <<sess, sessGen, req, resumed, replies>>
  <2>1. InTurn(l) /\ UNCHANGED <<sess, sessGen, req, resumed, replies>>
    BY DEF TurnCancelled, CtxDone, InTurn, storeVars
  <2>2. loop[l].turn \in Starters
    BY <2>1 DEF TypeInv, LoopShape
  <2> QED
    BY <2>1, <2>2, Names, ChatAssumption
<1>2. /\ \A m \in Starters : m # l => loop'[m] = loop[m]
      /\ loop'[l].st \in {"idle", "exiting"}
  BY DEF TurnCancelled, AfterTurn, TypeInv, TypeOK, TurnLoop
<1>3. /\ Turn = loop[l].turn /\ Turn' = None /\ Granted = None /\ Granted' = None
  BY <1>1, <1>2, TurnEnds
<1> QED
  BY <1>1, <1>3 DEF Contract!Cancel

\* A loop that does not find what it was started for was an abort's to stop, and nothing
\* of an approval's: its checkpoint is there, and it is not stopped before it has read it.
LEMMA ApprovalFinds ==
  ASSUME CalmServer, NEW l \in Starters, LoopPlain(l) \/ LoopResumeFails(l)
  PROVE  l \notin Approves
<1> SUFFICES ASSUME l \in Approves PROVE FALSE
  OBVIOUS
<1> USE DEF CalmServer
<1>1. loop[l].st = "load"
  BY DEF LoopPlain, LoopResumeFails
<1>2. loop[l] = [NoLoop EXCEPT !.st = "load", !.queue = <<l>>]
  BY <1>1 DEF CalmInv, LoopAtRest
<1>3. loop[l].stop = "no" /\ loop[l].queue = <<l>>
  BY <1>2 DEF NoLoop
<1>4. CkptGet # None
  BY <1>1 DEF CalmInv, Offer
<1>5. 1 \in Positions(loop[l].queue, Approves)
  BY <1>3 DEF Positions
<1> QED
  BY <1>3, <1>4, <1>5 DEF LoopPlain, LoopResumeFails

\* The rest of what a loop does is between the turns, or within one.
LEMMA LoopQuiet ==
  ASSUME CalmClients, CalmServer, NEW l \in Starters, LoopStep(l),
         ~LoopResume(l), ~LoopGenInput(l), ~TurnCancelled(l), ~TurnResult(l)
  PROVE  /\ UNCHANGED <<sess, req, resumed, replies>>
         /\ \A m \in Starters : m # l => loop'[m] = loop[m]
         /\ loop'[l].queue = loop[l].queue
         /\ \/ loop'[l].st = loop[l].st /\ loop'[l].turn = loop[l].turn
            \/ loop[l].st \in {"snap", "send"} /\ loop'[l].st \in {"send", "await"}
                 /\ loop'[l].turn = loop[l].turn
            \/ loop[l].st = "load" /\ l \notin Approves /\ loop'[l].st \in {"idle", "exiting"}
            \/ loop[l].st \in {"idle", "exiting"} /\ loop'[l].st \in {"exiting", "exited"}
<1> USE DEF CalmServer
<1>1. ~LoopNoQuery(l)
  BY NoQuerylessInput
<1>2. CASE LoopPlain(l)
  BY <1>2, ApprovalFinds DEF LoopPlain, TypeInv, TypeOK, TurnLoop, storeVars
<1>3. CASE LoopResumeFails(l)
  BY <1>3, ApprovalFinds DEF LoopResumeFails, TypeInv, TypeOK, TurnLoop, storeVars
<1>4. CASE LoopIdleStop(l)
  BY <1>4 DEF LoopIdleStop, TypeInv, TypeOK, TurnLoop, storeVars
<1>5. CASE LoopPreempt(l)
  BY <1>5 DEF LoopPreempt, TypeInv, TypeOK, TurnLoop, storeVars
<1>6. CASE TurnSnapshot(l)
  BY <1>6 DEF TurnSnapshot, TypeInv, TypeOK, TurnLoop, storeVars
<1>7. CASE TurnSend(l)
  BY <1>7 DEF TurnSend, TypeInv, TypeOK, TurnLoop, storeVars
<1>8. CASE LoopExit(l)
  BY <1>8 DEF LoopExit, TypeInv, TypeOK, TurnLoop, storeVars
<1>9. CASE Cleanup(l)
  BY <1>9 DEF Cleanup, storeVars
<1> QED
  BY <1>1, <1>2, <1>3, <1>4, <1>5, <1>6, <1>7, <1>8, <1>9 DEF LoopStep

LEMMA LoopStutters ==
  ASSUME CalmClients, CalmServer, TypeInv', AskedOnce, NEW l \in Starters, LoopStep(l),
         ~LoopResume(l), ~LoopGenInput(l), ~TurnCancelled(l), ~TurnResult(l)
  PROVE  (UNCHANGED Contract!vars) /\ AskedOnce'
<1>1. SameTurns
  BY LoopQuiet DEF SameTurns, InTurn
<1>2. SameGrants
  BY LoopQuiet, Names DEF SameGrants, Granting
<1>3. UNCHANGED <<sess, req, resumed, replies>> /\ \A m \in Starters : loop'[m].queue = loop[m].queue
  BY LoopQuiet
<1>4. AskedOnce'
  BY <1>3 DEF AskedOnce, Asked, Taken, History
<1> QED
  BY <1>1, <1>2, <1>3, <1>4, ContractStutter DEF CalmServer

\* Neither a resumption nor a cancellation asks anything or queues it.
LEMMA ResumeAsks ==
  ASSUME CalmServer, AskedOnce, NEW l \in Starters, LoopResume(l)
  PROVE  AskedOnce'
<1> USE DEF CalmServer
<1>1. UNCHANGED <<sess, req>> /\ ckpt.items = << >>
  BY DEF LoopResume, storeVars, CalmInv, Offer
<1>2. PICK k \in 1..Len(loop[l].queue) :
        loop' = [loop EXCEPT ![l] = [FreshTurn(l, loop[l].queue[k], << >>)
                                           EXCEPT !.loaded = TRUE]]
  BY <1>1 DEF LoopResume
<1>3. loop'[l].queue = << >> /\ \A m \in Starters : m # l => loop'[m] = loop[m]
  BY <1>2 DEF FreshTurn, TypeInv, TypeOK, TurnLoop
<1>4. \A c : << >> # <<c>>
  OBVIOUS
<1> QED
  BY <1>1, <1>3, <1>4 DEF AskedOnce, Asked, Taken, History

LEMMA CancelAsks ==
  ASSUME CalmServer, AskedOnce, NEW l \in Starters, TurnCancelled(l)
  PROVE  AskedOnce'
<1>1. UNCHANGED <<sess, req>> /\ \A m \in Starters : loop'[m].queue = loop[m].queue
  BY DEF TurnCancelled, storeVars, CalmServer, TypeInv, TypeOK, TurnLoop
<1> QED
  BY <1>1 DEF AskedOnce, Asked, Taken, History

\* Only an approval changes the session; no handler resumes or replies.
LEMMA HandlerKeeps ==
  ASSUME CalmClients, TypeInv, NEW h \in Requests, Arrival(h) \/ HandlerStep(h), ~ApproveClear(h)
  PROVE  UNCHANGED <<sess, resumed, replies>>
BY CalmNames DEF Arrival, HandlerStep, Enter, AbortTake, Lookup, ApproveRead,
   ChatSupersede, ChatNewLoop, ChatPush, ChatReplaceDead, Start, Receive, Bail, StreamEnd,
   ApproveNewLoop, AbortStop, AbortJoin, storeVars

\* Each step is one of the contract's, or nothing to it.
LEMMA ContractStep ==
  ASSUME CalmClients, CalmServer, CalmServer', AskedOnce, [Next]_vars
  PROVE  [Contract!Next]_(Contract!vars) /\ AskedOnce'
<1>1. ASSUME NEW h \in Requests, Arrival(h) \/ HandlerStep(h)
      PROVE  [Contract!Next]_(Contract!vars) /\ AskedOnce'
  <2>1. History' = History
    <3>1. CASE ApproveClear(h)
      BY <3>1, CalmNames DEF ApproveClear, History, CalmServer, TypeInv, TypeOK, Session
    <3>2. CASE ~ApproveClear(h)
      BY <1>1, <3>2, HandlerKeeps DEF History, CalmServer
    <3> QED
      BY <3>1, <3>2
  <2>2. SameTurns /\ AskedOnce'
    BY <1>1, <2>1, HandlerContract DEF CalmServer, ReplyInv
  <2>3. CASE ApproveClear(h)
    BY <2>2, <2>3, DecideRefines DEF Contract!Next, CalmServer
  <2>4. CASE ~ApproveClear(h)
    <3>1. SameGrants
      BY <1>1, <2>4, HandlerGrants
    <3>2. UNCHANGED Contract!vars
      BY <1>1, <2>2, <2>4, <3>1, HandlerKeeps, ContractStutter DEF CalmServer
    <3> QED
      BY <2>2, <3>2
  <2> QED
    BY <2>3, <2>4
<1>2. ASSUME NEW l \in Starters, LoopStep(l)
      PROVE  [Contract!Next]_(Contract!vars) /\ AskedOnce'
  <2>1. CASE LoopGenInput(l)
    BY <2>1, AskRefines DEF Contract!Next
  <2>2. CASE LoopResume(l)
    <3>1. AskedOnce'
      BY <2>2, ResumeAsks
    <3> QED
      BY <2>2, <3>1, ResumeRefines DEF Contract!Next
  <2>3. CASE TurnResult(l)
    BY <2>3, FinishRefines DEF Contract!Next
  <2>4. CASE TurnCancelled(l)
    <3>1. AskedOnce'
      BY <2>4, CancelAsks
    <3> QED
      BY <2>4, <3>1, CancelRefines DEF Contract!Next
  <2>5. CASE ~LoopGenInput(l) /\ ~LoopResume(l) /\ ~TurnResult(l) /\ ~TurnCancelled(l)
    BY <1>2, <2>5, LoopStutters DEF CalmServer
  <2> QED
    BY <2>1, <2>2, <2>3, <2>4, <2>5
<1>3. CASE UNCHANGED vars
  <2>1. UNCHANGED <<req, loop, sess, sessGen, resumed, replies>>
    BY <1>3 DEF vars
  <2>2. AskedOnce'
    BY <2>1 DEF AskedOnce, Asked, Taken, History
  <2>3. SameTurns /\ SameGrants
    BY <2>1 DEF SameTurns, SameGrants, InTurn, Granting
  <2>4. UNCHANGED Contract!vars
    BY <2>1, <2>3, ContractStutter DEF CalmServer
  <2> QED
    BY <2>2, <2>4
<1> QED
  BY <1>1, <1>2, <1>3 DEF Next

\* server.go:363-365, 460, 572-574, 615-617: for calm clients the handlers, loops and
\* channels of a session implement its contract: a question is asked once, nothing pending,
\* and its own answer follows it at once; an interrupt is decided about once, and the
\* decision resumes it before anything else happens in the session.
THEOREM SessionKeepsContract == CalmClients => (Spec => KeepsContract)
<1> SUFFICES ASSUME CalmClients PROVE Spec => KeepsContract
  OBVIOUS
<1>1. Init => AskedOnce /\ Contract!Init
  <2> SUFFICES ASSUME Init PROVE AskedOnce /\ Contract!Init
    OBVIOUS
  <2>1. /\ \A g \in Gens : sess[g].history = << >> /\ sess[g].pending = None
        /\ None \in Gens /\ sessGen = None /\ replies = {} /\ resumed = {}
    BY DEF Init, Gens
  <2>2. \A l \in Starters : loop[l].st = "none"
    BY DEF Init, NoLoop
  <2>3. \A h \in Requests : req[h].pc = "idle"
    BY DEF Init
  <2>4. Turn = None
    BY <2>2 DEF Turn, Turns, InTurn
  <2>5. Granted = None
    BY <2>2, <2>3, Names DEF Granted, Grants, Granting
  <2>6. \A c : ~Asked(c)
    BY <2>1 DEF Asked, History
  <2> QED
    BY <2>1, <2>4, <2>5, <2>6 DEF Contract!Init, AskedOnce
<1>2. CalmServer /\ AskedOnce /\ CalmServer' /\ [Next]_vars =>
         [Contract!Next]_(Contract!vars) /\ AskedOnce'
  BY ContractStep
<1>3. Init /\ [][Next]_vars /\ []CalmServer => KeepsContract
  BY <1>1, <1>2, PTL DEF KeepsContract, Contract!Spec
<1> QED
  BY <1>3, CalmServerHolds, PTL DEF Spec
=============================================================================
