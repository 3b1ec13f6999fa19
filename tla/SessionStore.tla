---------------------------- MODULE SessionStore ----------------------------
(***************************************************************************)
(* chatwitheino/mem/store.go: a session of the chat, its object in memory,   *)
(* its place in the cache, and its file: a header line, then a line for each *)
(* message.  One session id; messages are numbers, in the order in which     *)
(* they were written.                                                        *)
(*                                                                           *)
(* A failed write leaves nothing, part of a line, or a line without its end, *)
(* and the next line joins what was left.  A kill in the middle of a write   *)
(* is a failed write and then a kill.                                        *)
(***************************************************************************)
EXTENDS Naturals, Sequences, SequencesExt, FiniteSets

CONSTANTS None,
          TooLong,      \* messages whose line exceeds what the scanner of a load accepts
          MaxObjects,   \* bound: Session objects alive
          MaxFaults     \* bound: failed file operations

ASSUME StoreAssumption ==
    MaxObjects \in Nat /\ MaxFaults \in Nat /\ TooLong \subseteq Nat \ {0} /\ None \notin Nat

VARIABLES
    objects,  \* the Session objects of this process
    cache,    \* Store.cache[id]: an index of objects, or None
    file,     \* the session's file
    faults,   \* history: failed file operations
    acked     \* history: messages in the file whose Append returned nil

storeVars == <<objects, cache, file, faults, acked>>

Session(ms) == [messages |-> ms, pending |-> FALSE, msgIdx |-> 0]
NoFile == [header |-> "none", lines |-> <<>>, open |-> FALSE]
\* The file: open, when its last line lacks its end.
File == [header : {"none", "ok", "bad"}, lines : Seq(Nat), open : BOOLEAN]
\* A line that is no message.
Junk == 0

StoreInit ==
    /\ objects = <<>>
    /\ cache = None
    /\ file = NoFile
    /\ faults = 0
    /\ acked = {}

-----------------------------------------------------------------------------
\* loadSession: the header, then every line that is a message; malformed lines are
\* skipped, but a line that is too long ends the scan with an error.
UpToJunk(f) ==
    LET good == {i \in DOMAIN f.lines : \A j \in 1..i : f.lines[j] # Junk}
    IN  SubSeq(f.lines, 1, Cardinality(good))
\* The elements of s that are in S.
Kept(s, S) ==
    LET kept[n \in 0..Len(s)] ==
            IF n = 0 THEN <<>>
            ELSE IF s[n] \in S THEN Append(kept[n - 1], s[n]) ELSE kept[n - 1]
    IN  kept[Len(s)]
Readable(f) == Kept(f.lines, Nat \ {Junk})
Loadable(f) == f.header = "ok" /\ ToSet(f.lines) \cap TooLong = {}

\* Two lines in one: malformed, and too long if one of them is.
Joined(m, n) == IF n \in TooLong THEN n ELSE IF m \in TooLong THEN m ELSE Junk
WithLine(f, m) ==
    IF f.open THEN [f EXCEPT !.lines = Front(@) \o <<Joined(Last(@), m)>>, !.open = FALSE]
    ELSE [f EXCEPT !.lines = Append(@, m)]
\* What a write that fails may leave of the message.
AfterFailure(f, m) ==
    {f} \cup {[WithLine(f, n) EXCEPT !.open = TRUE] : n \in {Junk, m}}

\* The file is opened without O_CREATE.
CreatesFile(f) == IF f.header = "none" THEN [f EXCEPT !.header = "ok"] ELSE f
Opened(f) == f

RememberedIfWritten(o, m, written) ==
    IF written THEN [objects EXCEPT ![o].messages = Append(@, m)] ELSE objects
Remembered(o, m, written) == [objects EXCEPT ![o].messages = Append(@, m)]

\* Session.Append: the memory first; callers log the error and go on.
SessionAppend(o, m) ==
    /\ LET f == Opened(file)
       IN  \/ /\ f.header = "none"
              /\ objects' = Remembered(o, m, FALSE)
              /\ UNCHANGED <<file, faults, acked>>
           \/ /\ f.header # "none"
              /\ objects' = Remembered(o, m, TRUE)
              /\ file' = WithLine(f, m)
              /\ acked' = acked \cup {m}
              /\ UNCHANGED faults
           \/ /\ f.header # "none"
              /\ faults < MaxFaults /\ faults' = faults + 1
              /\ objects' = Remembered(o, m, FALSE)
              /\ file' \in AfterFailure(f, m)
              /\ UNCHANGED acked
    /\ UNCHANGED cache

Cached == objects[cache]

NewObject(ms) ==
    /\ Len(objects) < MaxObjects
    /\ objects' = Append(objects, Session(ms))
    /\ cache' = Len(objects) + 1

FromCache(c) == c

\* Store.GetOrCreate, with a session.
GetOrCreate ==
    \/ FromCache(cache) # None /\ UNCHANGED storeVars
    \/ /\ FromCache(cache) = None
       /\ Loadable(file)
       /\ NewObject(Readable(file))
       /\ UNCHANGED <<file, faults, acked>>
    \/ /\ FromCache(cache) = None
       /\ file.header = "none"
       /\ NewObject(<<>>)
       /\ file' = [NoFile EXCEPT !.header = "ok"]
       /\ UNCHANGED <<faults, acked>>

\* Without one: the file cannot be loaded, or not be made.
GetOrCreateFails ==
    /\ FromCache(cache) = None
    /\ \/ file.header # "none" /\ ~Loadable(file) /\ UNCHANGED storeVars
       \/ /\ file.header = "none"
          /\ faults < MaxFaults /\ faults' = faults + 1
          /\ file' \in {NoFile, [NoFile EXCEPT !.header = "bad"]}
          /\ UNCHANGED <<objects, cache, acked>>

\* Store.Delete
StoreDelete ==
    \/ /\ file' = NoFile
       /\ cache' = None
       /\ acked' = {}
       /\ UNCHANGED <<objects, faults>>
    \/ /\ file.header # "none"
       /\ faults < MaxFaults /\ faults' = faults + 1
       /\ UNCHANGED <<objects, cache, file, acked>>

\* SetPendingInterruptID and SetMsgIdx
SetInterrupt(o, idx) ==
    /\ objects' = [objects EXCEPT ![o].pending = TRUE, ![o].msgIdx = idx]
    /\ UNCHANGED <<cache, file, faults, acked>>
ClearInterrupt(o) ==
    /\ objects' = [objects EXCEPT ![o].pending = FALSE]
    /\ UNCHANGED <<cache, file, faults, acked>>

\* A new process has the file only.
StoreRestart ==
    /\ objects' = <<>>
    /\ cache' = None
    /\ UNCHANGED <<file, faults, acked>>
=============================================================================
