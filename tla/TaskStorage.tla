----------------------------- MODULE TaskStorage -----------------------------
(***************************************************************************)
(* The task manager of quickstart/eino_assistant (pkg/tool/task): the tool  *)
(* calls and HTTP requests that add, update, delete and list tasks, the     *)
(* cache behind one lock, and the file it is kept in: appended to by Add,   *)
(* replaced by syncToDisk through a temporary and a backup file.            *)
(*                                                                         *)
(* A request that writes names the Task object it creates: cache entries    *)
(* are pointers, which answers share with the cache after the lock is gone. *)
(* A file holds at most one line for a task (an id is added once, and a     *)
(* rewrite has one line for each), so it is a function from ids to tasks;   *)
(* a write is whole or does not happen.                                     *)
(***************************************************************************)
EXTENDS Naturals, FiniteSets

CONSTANTS Adds, Updates, Deletes, Lists,  \* the requests of each kind
          None,
          CrashAt,     \* where the process may be killed: "rest", or the pc of the writer
          Fails,       \* file operations that may fail: pcs, and "restore"
          MaxCrashes   \* bound on the number of crashes

Ids == Adds                    \* a uuid made for each Add
Writers == Adds \cup Updates
Requests == Writers \cup Deletes \cup Lists
DiskSteps == {"append", "tmp", "backup", "swap", "unbak"}

Task == [id : Ids \cup {None}, title : Writers \cup {None}, done : BOOLEAN, deleted : BOOLEAN]
File == [Ids -> Task \cup {None}]

ASSUME TaskAssumption ==
    /\ None \notin Requests
    /\ None \notin File
    /\ Adds \cap (Updates \cup Deletes \cup Lists) = {}
    /\ Updates \cap (Deletes \cup Lists) = {}
    /\ Deletes \cap Lists = {}
    /\ CrashAt \subseteq DiskSteps \cup {"rest"}
    /\ Fails \subseteq DiskSteps \cup {"restore"}
    /\ MaxCrashes \in Nat

VARIABLES
    up,        \* is the process running?
    crashes,
    cache,     \* id -> object, or None
    heap,      \* objects
    dirty,
    lock,      \* the writer in its critical section, or None
    req,
    main, tmp, bak,   \* tasks.jsonl, .tmp, .bak: id -> task or None; None is no file
    may,       \* history: what a restart may find for an id, by the answers given
    unsaved,   \* history: ids whose Add failed and that no sync has written since
    ended,     \* history: ids whose deletion was ever answered with success
    answer     \* history: the objects a list has collected, and the ids it may not show

files == <<main, tmp, bak>>
memory == <<cache, heap, dirty>>
vars == <<up, crashes, memory, lock, req, files, may, unsaved, ended, answer>>

EmptyFile == [i \in Ids |-> None]
NoTask == [id |-> None, title |-> None, done |-> FALSE, deleted |-> FALSE]

Value(i) == IF cache[i] = None THEN None ELSE heap[cache[i]]
Contents == [i \in Ids |-> Value(i)]

Init ==
    /\ up = TRUE
    /\ crashes = 0
    /\ cache = [i \in Ids |-> None]
    /\ heap = [o \in Writers |-> NoTask]
    /\ dirty = FALSE
    /\ lock = None
    /\ req = [h \in Requests |-> [pc |-> "idle", id |-> None, title |-> None, done |-> FALSE]]
    /\ main = EmptyFile       \* loadFromDisk creates it
    /\ tmp = None
    /\ bak = None
    /\ may = [i \in Ids |-> {None}]
    /\ unsaved = {}
    /\ ended = {}
    /\ answer = [h \in Lists |-> [listed |-> {}, gone |-> {}]]

-----------------------------------------------------------------------------
(* Requests                                                                *)

Moved(h, pc) == [req EXCEPT ![h].pc = pc]

\* A writer enters its critical section, with what its caller has asked for.
Enter(h, call, pc) ==
    /\ up
    /\ req[h].pc = "idle"
    /\ lock = None
    /\ lock' = h
    /\ req' = [req EXCEPT ![h] = [call EXCEPT !.pc = pc]]

AddCall(h, done) == [pc |-> "idle", id |-> h, title |-> h, done |-> done]
\* An update may leave the title out.
UpdateCalls(h) == [pc : {"idle"}, id : Ids, title : {h, None}, done : BOOLEAN]
DeleteCalls == [pc : {"idle"}, id : Ids, title : {None}, done : {FALSE}]

DirtyForgotten == FALSE
\* syncToDisk's early returns leave the flag set.
DirtyAfterFailure == dirty

\* Leaving it with an error: what the writer has done so far stays.
Fail(h, step) ==
    /\ step \in Fails
    /\ lock' = None
    /\ dirty' = DirtyAfterFailure
    /\ req' = Moved(h, "failed")
    /\ UNCHANGED <<up, crashes, cache, heap, may, ended, answer>>

Succeed(h) ==
    /\ lock' = None
    /\ req' = Moved(h, "done")
    /\ may' = [may EXCEPT ![req[h].id] = {Value(req[h].id)}]
    /\ ended' = ended \cup {i \in Ids : h \in Deletes /\ i = req[h].id}
    /\ UNCHANGED <<up, crashes, cache, heap, answer>>

Remember(i, t) == may' = [may EXCEPT ![i] = @ \cup {t}]

-----------------------------------------------------------------------------
(* Add: the cache first, then a line at the end of the file.               *)

AddCache(h) ==
    /\ h \in Adds
    /\ \E done \in BOOLEAN :
          LET t == [id |-> h, title |-> h, done |-> done, deleted |-> FALSE]
          IN  /\ Enter(h, AddCall(h, done), "append")
              /\ heap' = [heap EXCEPT ![h] = t]
              /\ Remember(h, t)
    /\ cache' = [cache EXCEPT ![h] = h]
    /\ UNCHANGED <<up, crashes, dirty, files, unsaved, ended, answer>>

FromBackup == IF bak # None THEN bak ELSE IF main = None THEN EmptyFile ELSE main
\* O_CREATE: a missing file is made anew.
FileFound == IF main = None THEN EmptyFile ELSE main
Appended(i) == [FileFound EXCEPT ![i] = Value(i)]

AddAppend(h) ==
    /\ up
    /\ req[h].pc = "append"
    /\ UNCHANGED <<tmp, bak>>
    /\ \/ /\ main' = Appended(h)
          /\ Succeed(h)
          /\ UNCHANGED <<dirty, unsaved>>
       \/ /\ main' \in {main, FileFound, Appended(h)}   \* the failure may be Sync's
          /\ unsaved' = unsaved \cup {h}
          /\ Fail(h, "append")

-----------------------------------------------------------------------------
(* Update and Delete change the cache, then rewrite the file.              *)

Found(i) == cache[i] # None /\ ~heap[cache[i]].deleted

NotFound(h) ==
    /\ up
    /\ h \in Updates \cup Deletes
    /\ req[h].pc = "idle"
    /\ lock = None
    /\ \E i \in Ids : ~Found(i)
    /\ req' = Moved(h, "failed")
    /\ UNCHANGED <<up, crashes, memory, lock, files, may, unsaved, ended, answer>>

\* An empty title is left alone; a completed flag that was left out is false.
Merged(call) ==
    [Value(call.id) EXCEPT !.title = IF call.title = None THEN @ ELSE call.title,
                           !.done = call.done]

\* updated := *existing
UpdatedCopy(h, i) == h

UpdateCache(h) ==
    /\ h \in Updates
    /\ \E call \in UpdateCalls(h) :
          /\ Found(call.id)
          /\ Enter(h, call, "tmp")
          /\ heap' = [heap EXCEPT ![UpdatedCopy(h, call.id)] = Merged(call)]
          /\ cache' = [cache EXCEPT ![call.id] = UpdatedCopy(h, call.id)]
          /\ Remember(call.id, Merged(call))
    /\ dirty' = TRUE
    /\ UNCHANGED <<up, crashes, files, unsaved, ended, answer>>

\* task.IsDeleted = true, on the object that answers may hold too.
DeleteMark(h) ==
    /\ h \in Deletes
    /\ \E call \in DeleteCalls :
          /\ Found(call.id)
          /\ Enter(h, call, "tmp")
          /\ heap' = [heap EXCEPT ![cache[call.id]].deleted = TRUE]
          /\ Remember(call.id, [Value(call.id) EXCEPT !.deleted = TRUE])
    /\ dirty' = TRUE
    /\ UNCHANGED <<up, crashes, cache, files, unsaved, ended, answer>>

WriteTmp(h) ==
    /\ up
    /\ req[h].pc = "tmp"
    /\ UNCHANGED <<main, bak, unsaved>>
    /\ \/ /\ tmp' = Contents
          /\ req' = Moved(h, "backup")
          /\ UNCHANGED <<up, crashes, memory, lock, may, ended, answer>>
       \/ /\ tmp' \in {tmp, None}     \* not created, or removed again
          /\ Fail(h, "tmp")

Backup(h) ==
    /\ up
    /\ req[h].pc = "backup"
    /\ UNCHANGED unsaved
    /\ \/ /\ IF main # None THEN bak' = main /\ main' = None ELSE UNCHANGED <<main, bak>>
          /\ req' = Moved(h, "swap")
          /\ UNCHANGED <<up, crashes, memory, lock, tmp, may, ended, answer>>
       \/ /\ main # None
          /\ tmp' = None
          /\ UNCHANGED <<main, bak>>
          /\ Fail(h, "backup")

NotRestored == None
\* os.Rename(s.filePath+".bak", s.filePath)
Restored == bak

Swap(h) ==
    /\ up
    /\ req[h].pc = "swap"
    /\ UNCHANGED unsaved
    /\ \/ /\ main' = tmp
          /\ tmp' = None
          /\ req' = Moved(h, "unbak")
          /\ UNCHANGED <<up, crashes, memory, lock, bak, may, ended, answer>>
       \/ /\ main' = Restored
          /\ bak' = None
          /\ UNCHANGED tmp
          /\ Fail(h, "swap")
       \/ /\ bak = None \/ "restore" \in Fails
          /\ UNCHANGED files
          /\ Fail(h, "swap")

\* os.Remove(s.filePath + ".bak"), whose error is ignored; s.dirty = false
Unbak(h) ==
    /\ up
    /\ req[h].pc = "unbak"
    /\ bak' = None \/ ("unbak" \in Fails /\ bak' = bak)
    /\ dirty' = FALSE
    /\ unsaved' = {}
    /\ Succeed(h)
    /\ UNCHANGED <<main, tmp>>

-----------------------------------------------------------------------------
(* List collects pointers under the read lock; the answer is encoded later. *)

LiveObjects == {cache[i] : i \in {j \in Ids : Found(j)}}

ListArrive(h) ==
    /\ up
    /\ h \in Lists
    /\ req[h].pc = "idle"
    /\ req' = Moved(h, "lock")
    /\ answer' = [answer EXCEPT ![h].gone = ended]
    /\ UNCHANGED <<up, crashes, memory, lock, files, may, unsaved, ended>>

List(h) ==
    /\ up
    /\ req[h].pc = "lock"
    /\ lock = None
    /\ answer' = [answer EXCEPT ![h].listed = {<<o, heap[o]>> : o \in LiveObjects}]
    /\ req' = Moved(h, "encode")
    /\ UNCHANGED <<up, crashes, memory, lock, files, may, unsaved, ended>>

Encode(h) ==
    /\ up
    /\ req[h].pc = "encode"
    /\ req' = Moved(h, "done")
    /\ UNCHANGED <<up, crashes, memory, lock, files, may, unsaved, ended, answer>>

-----------------------------------------------------------------------------
(* The process is killed, and started again.                               *)

Place == IF lock = None THEN "rest" ELSE req[lock].pc

Crash ==
    /\ up
    /\ crashes < MaxCrashes
    /\ Place \in CrashAt
    /\ up' = FALSE
    /\ crashes' = crashes + 1
    /\ lock' = None
    /\ req' = [h \in Requests |-> IF req[h].pc \in {"idle", "done", "failed"} THEN req[h]
                                  ELSE [req[h] EXCEPT !.pc = "lost"]]
    /\ UNCHANGED <<memory, files, may, unsaved, ended, answer>>

\* loadFromDisk reads tasks.jsonl, or creates it; it knows of no other file.
Loaded(i) == IF FileFound[i] = None THEN None ELSE i

Restart ==
    /\ ~up
    /\ up' = TRUE
    /\ main' = FileFound
    /\ cache' = [i \in Ids |-> Loaded(i)]
    /\ heap' = [o \in Writers |-> IF o \in Ids /\ Loaded(o) = o THEN FileFound[o] ELSE NoTask]
    /\ dirty' = FALSE
    /\ may' = [i \in Ids |-> {FileFound[i]}]
    /\ unsaved' = {}
    /\ UNCHANGED <<crashes, lock, req, tmp, bak, ended, answer>>

RequestStep(h) ==
    \/ AddCache(h) \/ AddAppend(h)
    \/ NotFound(h) \/ UpdateCache(h) \/ DeleteMark(h)
    \/ WriteTmp(h) \/ Backup(h) \/ Swap(h) \/ Unbak(h)
    \/ ListArrive(h) \/ List(h) \/ Encode(h)

Next ==
    \/ \E h \in Requests : RequestStep(h)
    \/ Crash
    \/ Restart

Spec == Init /\ [][Next]_vars

-----------------------------------------------------------------------------
(* Properties                                                              *)

Pcs == {"idle", "lock", "encode", "done", "failed", "lost"} \cup DiskSteps
Request == [pc : Pcs, id : Ids \cup {None}, title : Writers \cup {None}, done : BOOLEAN]
Answer == [listed : SUBSET (Writers \X Task), gone : SUBSET Ids]

\* Types of the state.
TypeOK ==
    /\ up \in BOOLEAN
    /\ crashes \in 0..MaxCrashes
    /\ cache \in [Ids -> Writers \cup {None}]
    /\ heap \in [Writers -> Task]
    /\ dirty \in BOOLEAN
    /\ lock \in Requests \cup {None}
    /\ req \in [Requests -> Request]
    /\ {main, tmp, bak} \subseteq File \cup {None}
    /\ may \in [Ids -> SUBSET (Task \cup {None})]
    /\ unsaved \subseteq Ids
    /\ ended \subseteq Ids
    /\ answer \in [Lists -> Answer]

\* README.md:12 of the tool, "data is persisted to a local file": what a restart finds
\* for a task is what the last successful operation on it has left, or what an
\* operation since then, failed or unfinished, was about to leave.
AckedSurvives == ~up => \A i \in Ids : FileFound[i] \in may[i]

\* storage.go:37, 274: when no writer is at work and nothing is dirty, the file holds
\* what the cache holds, but for the tasks whose Add reported an error.
CacheOnDisk ==
    (up /\ lock = None /\ ~dirty) =>
        /\ main # None
        /\ \A i \in Ids \ unsaved : main[i] = Value(i)

\* storage.go:128, 177: an answer being encoded outside the lock has no task whose
\* deletion was ever answered before the list was asked for, however often the process
\* has been killed and started again since, and whichever file it then found; and though
\* it shares its tasks with the cache, an update leaves them alone: only a later
\* deletion may show in them.
AnswersAreSnapshots ==
    \A h \in Lists : req[h].pc = "encode" =>
        \A p \in answer[h].listed :
            /\ p[2].id \notin answer[h].gone
            /\ heap[p[1]] \in {p[2], [p[2] EXCEPT !.deleted = TRUE]}

\* The abstract specification: lists show what the cache says, and the change that is
\* open is the one of the lock's holder.
Open == IF lock = None THEN None ELSE req[lock].id
Contract == INSTANCE TaskContract WITH tasks <- Contents, safe <- may, open <- Open

\* README.md:12 of the tool, storage.go:37, 208: behind the cache, the lock and the
\* three files the task manager keeps the contract: changes happen one at a time, a
\* deletion is final, and a restart neither loses nor undoes what was answered.
KeepsContract == Contract!Spec
=============================================================================
