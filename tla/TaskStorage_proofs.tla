-------------------------- MODULE TaskStorage_proofs --------------------------
(***************************************************************************)
(* For any number of tasks, requests, failures and crashes: TaskStorage is  *)
(* type correct, its file holds what its cache holds once nothing is dirty, *)
(* and, if the process is not killed between the two renames of syncToDisk  *)
(* and a failed rename is always undone, what was answered survives.  What   *)
(* an answer shows is what its list saw, and no task whose deletion was ever *)
(* answered, whatever fails or crashes.  Under the condition above it        *)
(* implements TaskContract.                                                  *)
(***************************************************************************)
EXTENDS TaskStorage, TLAPS

Idle == [pc : {"idle"}, id : Ids \cup {None}, title : Writers \cup {None}, done : BOOLEAN]

\* The lock is held by the writer whose pc is inside syncToDisk or Add.
Holding(h) == req[h].pc \in DiskSteps
LockInv ==
    /\ \A h \in Requests : Holding(h) <=> lock = h
    /\ ~up => lock = None
    /\ \A h \in Requests : Holding(h) =>
          /\ h \notin Lists
          /\ req[h].id \in Ids
          /\ req[h].pc = "append" <=> h \in Adds
          /\ req[h].pc = "append" => req[h].id = h /\ cache[h] # None
          /\ req[h].pc # "append" => dirty

\* An object is the cache's for one id at most, the one it names, and only once the
\* request that makes it has begun; a file names the ids of its tasks too.
Started(r, h) == r[h].pc # "idle"
NamesTasks(file, r) == \A i \in Ids : file[i] # None => file[i].id = i /\ Started(r, i)
ObjectInv ==
    /\ \A i \in Ids : cache[i] # None =>
          heap[cache[i]].id = i /\ Started(req, cache[i]) /\ Started(req, i)
    /\ main # None => NamesTasks(main, req)
    /\ tmp # None => NamesTasks(tmp, req)
    /\ bak # None => NamesTasks(bak, req)

\* What the steps of syncToDisk have written.
SyncInv ==
    \A h \in Requests :
        /\ req[h].pc \in {"backup", "swap"} => tmp = Contents
        /\ req[h].pc = "unbak" => main = Contents

\* CacheOnDisk, but for the writer in its critical section.
Adding == {h \in Adds : req[h].pc = "append"}
DiskInv ==
    (up /\ ~dirty) => /\ main # None
                      /\ \A i \in Ids \ (unsaved \cup Adding) : main[i] = Value(i)

TypeInv == TypeOK /\ LockInv
Inv == TypeInv /\ ObjectInv /\ SyncInv /\ DiskInv

\* AckedSurvives, whether or not the process is running.
Swapping == \E h \in Requests : req[h].pc = "swap"
MayInv ==
    /\ up => \A i \in Ids : Value(i) \in may[i]
    /\ ~Swapping => main # None /\ \A i \in Ids : main[i] \in may[i]
    /\ Swapping => bak # None /\ \A i \in Ids : bak[i] \in may[i]
    /\ ~up => ~Swapping

-----------------------------------------------------------------------------
(* Types and the lock                                                      *)

LEMMA Sets ==
  /\ Ids \subseteq Writers /\ Writers \subseteq Requests
  /\ Adds \subseteq Requests /\ Updates \subseteq Requests /\ Deletes \subseteq Requests
  /\ Lists \subseteq Requests /\ Adds = Ids
  /\ None \notin Requests
  /\ \A h \in Lists : h \notin Writers /\ h \notin Deletes
  /\ \A h \in Updates \cup Deletes : h \notin Adds
  BY TaskAssumption DEF Ids, Writers, Requests

\* The types of the fields, read off TypeOK.
LEMMA Fields ==
  ASSUME TypeOK
  PROVE  /\ \A i \in Ids : cache[i] \in Writers \cup {None} /\ Value(i) \in Task \cup {None}
         /\ \A o \in Writers : heap[o] \in Task
         /\ \A h \in Requests : /\ req[h].pc \in Pcs
                                /\ req[h].id \in Ids \cup {None}
                                /\ req[h].title \in Writers \cup {None}
                                /\ req[h].done \in BOOLEAN
         /\ Contents \in File
         /\ main \in File \cup {None} /\ tmp \in File \cup {None} /\ bak \in File \cup {None}
         /\ FileFound \in File
<1>1. /\ \A i \in Ids : cache[i] \in Writers \cup {None}
      /\ \A o \in Writers : heap[o] \in Task
  BY DEF TypeOK
<1>2. \A i \in Ids : Value(i) \in Task \cup {None}
  BY <1>1 DEF Value
<1>3. \A h \in Requests : /\ req[h].pc \in Pcs
                          /\ req[h].id \in Ids \cup {None}
                          /\ req[h].title \in Writers \cup {None}
                          /\ req[h].done \in BOOLEAN
  BY DEF TypeOK, Request
<1>4. main \in File \cup {None} /\ tmp \in File \cup {None} /\ bak \in File \cup {None}
  BY DEF TypeOK
<1> QED
  BY <1>1, <1>2, <1>3, <1>4 DEF Contents, FileFound, File, EmptyFile

LEMMA InitInv == ASSUME Init PROVE Inv /\ MayInv
<1>1. req \in [Requests -> Idle] /\ \A h \in Requests : req[h].pc = "idle"
  BY DEF Init, Idle
<1>2. heap \in [Writers -> Task]
  BY DEF Init, Task, NoTask
<1>3. main \in File /\ main # None /\ \A i \in Ids : main[i] = None
  BY TaskAssumption DEF Init, File, EmptyFile
<1>4. TypeOK
  <2>1. req \in [Requests -> Request]
    BY <1>1 DEF Idle, Request, Pcs
  <2>2. answer \in [Lists -> Answer]
    BY DEF Init, Answer
  <2>3. may \in [Ids -> SUBSET (Task \cup {None})]
    BY DEF Init
  <2>4. crashes \in 0..MaxCrashes /\ cache \in [Ids -> Writers \cup {None}]
    BY TaskAssumption DEF Init
  <2>5. {main, tmp, bak} \subseteq File \cup {None}
    BY <1>3 DEF Init
  <2> QED
    BY <1>2, <2>1, <2>2, <2>3, <2>4, <2>5 DEF Init, TypeOK
<1>5. LockInv
  BY <1>1, Sets DEF Init, LockInv, Holding, DiskSteps
<1>6. ObjectInv /\ SyncInv
  BY <1>1, <1>3 DEF Init, ObjectInv, NamesTasks, Started, SyncInv
<1>7. DiskInv
  BY <1>3 DEF Init, DiskInv, Value, EmptyFile
<1>8. MayInv
  BY <1>1, <1>3 DEF Init, MayInv, Swapping, Value
<1> QED
  BY <1>4, <1>5, <1>6, <1>7, <1>8 DEF Inv, TypeInv

\* A request that moves on.
LEMMA MovedReq ==
  ASSUME TypeOK, NEW h \in Requests, NEW pc \in Pcs, req' = Moved(h, pc)
  PROVE  /\ req' \in [Requests -> Request]
         /\ req'[h] = [req[h] EXCEPT !.pc = pc]
         /\ req'[h].pc = pc /\ req'[h].id = req[h].id
         /\ \A g \in Requests \ {h} : req'[g] = req[g]
  BY DEF Moved, TypeOK, Request

\* A request that enters its critical section.
LEMMA EnterReq ==
  ASSUME TypeOK, NEW h \in Requests, NEW call \in Idle, NEW pc \in Pcs,
         Enter(h, call, pc)
  PROVE  /\ req' \in [Requests -> Request]
         /\ req'[h].pc = pc /\ req'[h].id = call.id
         /\ \A g \in Requests \ {h} : req'[g] = req[g]
         /\ up /\ req[h].pc = "idle" /\ lock = None /\ lock' = h
<1>1. [call EXCEPT !.pc = pc] \in Request
  BY DEF Idle, Request
<1> QED
  BY <1>1 DEF Enter, TypeOK, Request

OthersMoveNot(h) == \A g \in Requests \ {h} : req'[g] = req[g]

\* The four ways in which a request's step bears on the lock: it takes it, keeps it,
\* gives it back, or has nothing to do with it.
LEMMA LockTaken ==
  ASSUME LockInv, NEW h \in Requests, h \notin Lists, OthersMoveNot(h),
         up, up' = up, lock = None, lock' = h,
         req'[h].pc \in {"append", "tmp"}, req'[h].id \in Ids,
         req'[h].pc = "append" <=> h \in Adds,
         req'[h].pc = "append" => req'[h].id = h /\ cache'[h] # None,
         req'[h].pc = "tmp" => dirty'
  PROVE  LockInv'
  BY Sets DEF LockInv, Holding, DiskSteps, OthersMoveNot

LEMMA LockStays ==
  ASSUME LockInv, NEW h \in Requests, OthersMoveNot(h),
         up' = up, lock' = lock, dirty' = dirty,
         req[h].pc \in DiskSteps \ {"append"}, req'[h].pc \in DiskSteps \ {"append"},
         req'[h].id = req[h].id
  PROVE  LockInv'
  BY Sets DEF LockInv, Holding, DiskSteps, OthersMoveNot

LEMMA LockReleased ==
  ASSUME LockInv, NEW h \in Requests, OthersMoveNot(h),
         up' = up, lock' = None, Holding(h), req'[h].pc \notin DiskSteps
  PROVE  LockInv'
  BY Sets DEF LockInv, Holding, DiskSteps, OthersMoveNot

LEMMA LockAside ==
  ASSUME LockInv, NEW h \in Requests, OthersMoveNot(h),
         up' = up, lock' = lock, cache' = cache, dirty' = dirty,
         ~Holding(h), req'[h].pc \notin DiskSteps
  PROVE  LockInv'
  BY Sets DEF LockInv, Holding, DiskSteps, OthersMoveNot

LEMMA MayType ==
  ASSUME TypeOK, NEW i \in Ids, NEW t \in Task \cup {None}
  PROVE  /\ Remember(i, t) => may' \in [Ids -> SUBSET (Task \cup {None})]
         /\ may' = [may EXCEPT ![i] = {t}] => may' \in [Ids -> SUBSET (Task \cup {None})]
  BY DEF Remember, TypeOK

LEMMA AddCacheType ==
  ASSUME TypeInv, NEW h \in Requests, AddCache(h)
  PROVE  TypeInv'
<1> DEFINE t(done) == [id |-> h, title |-> h, done |-> done, deleted |-> FALSE]
<1>1. PICK done \in BOOLEAN : /\ Enter(h, AddCall(h, done), "append")
                              /\ heap' = [heap EXCEPT ![h] = t(done)]
                              /\ Remember(h, t(done))
  BY DEF AddCache
<1>2. h \in Adds /\ h \in Ids /\ h \in Writers
  BY Sets DEF AddCache
<1>3. t(done) \in Task /\ AddCall(h, done) \in Idle /\ AddCall(h, done).id = h
  BY <1>2 DEF Task, AddCall, Idle
<1> HIDE DEF t
<1>4. /\ req' \in [Requests -> Request]
      /\ req'[h].pc = "append" /\ req'[h].id = h
      /\ OthersMoveNot(h)
      /\ up /\ lock = None /\ lock' = h
  BY <1>1, <1>3, EnterReq DEF TypeInv, OthersMoveNot, Pcs, DiskSteps
<1>5. heap' \in [Writers -> Task] /\ may' \in [Ids -> SUBSET (Task \cup {None})]
  BY <1>1, <1>2, <1>3, MayType DEF TypeInv, TypeOK
<1>6. cache' \in [Ids -> Writers \cup {None}] /\ cache'[h] = h
  BY <1>2 DEF AddCache, TypeInv, TypeOK
<1>7. LockInv'
  BY <1>2, <1>4, <1>6, LockTaken, Sets, TaskAssumption DEF AddCache, TypeInv
<1> QED
  BY <1>4, <1>5, <1>6, <1>7 DEF AddCache, TypeInv, TypeOK, files

\* What the two ways out of a critical section leave behind.
LEMMA SucceedType ==
  ASSUME TypeInv, NEW h \in Requests, Succeed(h), Holding(h)
  PROVE  /\ req' \in [Requests -> Request] /\ req'[h].pc = "done" /\ OthersMoveNot(h)
         /\ LockInv' /\ lock' \in Requests \cup {None}
         /\ may' \in [Ids -> SUBSET (Task \cup {None})]
         /\ ended' = ended \cup {i \in Ids : h \in Deletes /\ i = req[h].id}
         /\ ended' \in SUBSET Ids
         /\ UNCHANGED <<up, crashes, cache, heap, answer>>
<1>1. req' \in [Requests -> Request] /\ req'[h].pc = "done" /\ OthersMoveNot(h)
  BY MovedReq DEF TypeInv, Succeed, OthersMoveNot, Pcs
<1>2. req[h].id \in Ids
  BY DEF TypeInv, LockInv
<1>3. may' \in [Ids -> SUBSET (Task \cup {None})]
  BY <1>2, MayType, Fields DEF TypeInv, Succeed
<1>4. LockInv'
  BY <1>1, LockReleased DEF TypeInv, Succeed, DiskSteps
<1>5. ended' = ended \cup {i \in Ids : h \in Deletes /\ i = req[h].id}
  BY DEF Succeed
<1>6. ended' \in SUBSET Ids
  BY <1>5 DEF TypeInv, TypeOK
<1> QED
  BY <1>1, <1>3, <1>4, <1>5, <1>6 DEF Succeed

LEMMA FailType ==
  ASSUME TypeInv, NEW h \in Requests, NEW step, Fail(h, step), Holding(h)
  PROVE  /\ req' \in [Requests -> Request] /\ req'[h].pc = "failed" /\ OthersMoveNot(h)
         /\ LockInv' /\ lock' \in Requests \cup {None} /\ dirty' = dirty
         /\ UNCHANGED <<up, crashes, cache, heap, may, ended, answer>>
<1>1. req' \in [Requests -> Request] /\ req'[h].pc = "failed" /\ OthersMoveNot(h)
  BY MovedReq DEF TypeInv, Fail, OthersMoveNot, Pcs
<1>2. LockInv'
  BY <1>1, LockReleased DEF TypeInv, Fail, DiskSteps
<1> QED
  BY <1>1, <1>2 DEF Fail, DirtyAfterFailure

\* A writer between two steps of syncToDisk.
LEMMA StepOnType ==
  ASSUME TypeInv, NEW h \in Requests, NEW pc \in {"backup", "swap", "unbak"},
         req[h].pc \in DiskSteps \ {"append"}, req' = Moved(h, pc),
         UNCHANGED <<up, lock, dirty>>
  PROVE  /\ req' \in [Requests -> Request] /\ req'[h].pc = pc /\ OthersMoveNot(h)
         /\ LockInv'
<1>1. /\ req' \in [Requests -> Request] /\ req'[h].pc = pc /\ req'[h].id = req[h].id
      /\ OthersMoveNot(h)
  BY MovedReq DEF TypeInv, OthersMoveNot, Pcs, DiskSteps
<1> QED
  BY <1>1, LockStays DEF TypeInv, DiskSteps

LEMMA AddAppendType ==
  ASSUME TypeInv, NEW h \in Requests, AddAppend(h)
  PROVE  TypeInv'
<1>1. Holding(h) /\ h \in Ids
  BY Sets DEF AddAppend, Holding, DiskSteps, TypeInv, LockInv
<1>2. Appended(h) \in File /\ FileFound \in File /\ main \in File \cup {None}
  BY <1>1, Fields DEF Appended, TypeInv, File
<1>3. CASE main' = Appended(h) /\ Succeed(h) /\ UNCHANGED <<dirty, unsaved>>
  BY <1>1, <1>2, <1>3, SucceedType DEF AddAppend, TypeInv, TypeOK
<1>4. CASE /\ main' \in {main, FileFound, Appended(h)}
           /\ unsaved' = unsaved \cup {h}
           /\ Fail(h, "append")
  BY <1>1, <1>2, <1>4, FailType DEF AddAppend, TypeInv, TypeOK
<1> QED
  BY <1>3, <1>4 DEF AddAppend

LEMMA NotFoundType ==
  ASSUME TypeInv, NEW h \in Requests, NotFound(h)
  PROVE  TypeInv'
<1>1. req' \in [Requests -> Request] /\ req'[h].pc = "failed" /\ OthersMoveNot(h)
  BY MovedReq DEF TypeInv, NotFound, OthersMoveNot, Pcs
<1>2. LockInv'
  BY <1>1, LockAside DEF TypeInv, NotFound, Holding, DiskSteps, memory
<1> QED
  BY <1>1, <1>2 DEF NotFound, TypeInv, TypeOK, memory, files

LEMMA MergedType ==
  ASSUME TypeOK, NEW h \in Updates, NEW call \in UpdateCalls(h), Found(call.id)
  PROVE  /\ call \in Idle /\ call.id \in Ids
         /\ Merged(call) \in Task
         /\ Value(call.id) \in Task /\ Merged(call).id = Value(call.id).id
<1>1. /\ call \in Idle /\ call.id \in Ids
      /\ call.title \in Writers \cup {None} /\ call.done \in BOOLEAN
  BY DEF UpdateCalls, Idle, Writers
<1>2. Value(call.id) \in Task
  BY <1>1, Fields DEF Found, Value
<1> QED
  BY <1>1, <1>2 DEF Merged, Task

LEMMA UpdateCacheType ==
  ASSUME TypeInv, NEW h \in Requests, UpdateCache(h)
  PROVE  TypeInv'
<1>1. h \in Updates /\ h \in Writers /\ h \notin Lists /\ h \notin Adds
  BY Sets DEF UpdateCache, Writers
<1>2. PICK call \in UpdateCalls(h) :
          /\ Found(call.id)
          /\ Enter(h, call, "tmp")
          /\ heap' = [heap EXCEPT ![h] = Merged(call)]
          /\ cache' = [cache EXCEPT ![call.id] = h]
          /\ Remember(call.id, Merged(call))
  BY DEF UpdateCache, UpdatedCopy
<1>3. call \in Idle /\ call.id \in Ids /\ Merged(call) \in Task
  BY <1>1, <1>2, MergedType DEF TypeInv
<1>4. /\ req' \in [Requests -> Request]
      /\ req'[h].pc = "tmp" /\ req'[h].id = call.id
      /\ OthersMoveNot(h)
      /\ up /\ lock = None /\ lock' = h
  BY <1>2, <1>3, EnterReq DEF TypeInv, OthersMoveNot, Pcs, DiskSteps
<1>5. heap' \in [Writers -> Task] /\ may' \in [Ids -> SUBSET (Task \cup {None})]
  BY <1>1, <1>2, <1>3, MayType DEF TypeInv, TypeOK
<1>6. cache' \in [Ids -> Writers \cup {None}]
  BY <1>1, <1>2, <1>3 DEF TypeInv, TypeOK
<1>7. LockInv'
  BY <1>1, <1>3, <1>4, LockTaken DEF UpdateCache, TypeInv
<1> QED
  BY <1>4, <1>5, <1>6, <1>7 DEF UpdateCache, TypeInv, TypeOK, files

LEMMA DeleteMarkType ==
  ASSUME TypeInv, NEW h \in Requests, DeleteMark(h)
  PROVE  TypeInv'
<1>1. h \in Deletes /\ h \notin Lists /\ h \notin Adds
  BY Sets, TaskAssumption DEF DeleteMark
<1>2. PICK call \in DeleteCalls :
          /\ Found(call.id)
          /\ Enter(h, call, "tmp")
          /\ heap' = [heap EXCEPT ![cache[call.id]].deleted = TRUE]
          /\ Remember(call.id, [Value(call.id) EXCEPT !.deleted = TRUE])
  BY DEF DeleteMark
<1>3. call \in Idle /\ call.id \in Ids
  BY DEF DeleteCalls, Idle
<1>4. cache[call.id] \in Writers /\ Value(call.id) \in Task
  BY <1>2, <1>3, Fields DEF Found, Value, TypeInv
<1>5. [Value(call.id) EXCEPT !.deleted = TRUE] \in Task
  BY <1>4 DEF Task
<1>6. /\ req' \in [Requests -> Request]
      /\ req'[h].pc = "tmp" /\ req'[h].id = call.id
      /\ OthersMoveNot(h)
      /\ up /\ lock = None /\ lock' = h
  BY <1>2, <1>3, EnterReq DEF TypeInv, OthersMoveNot, Pcs, DiskSteps
<1>7. heap' \in [Writers -> Task]
  BY <1>2, <1>4 DEF TypeInv, TypeOK, Task
<1>8. may' \in [Ids -> SUBSET (Task \cup {None})]
  BY <1>2, <1>3, <1>5, MayType DEF TypeInv
<1>9. LockInv'
  BY <1>1, <1>3, <1>6, LockTaken DEF DeleteMark, TypeInv
<1> QED
  BY <1>6, <1>7, <1>8, <1>9 DEF DeleteMark, TypeInv, TypeOK, files

LEMMA WriteTmpType ==
  ASSUME TypeInv, NEW h \in Requests, WriteTmp(h)
  PROVE  TypeInv'
<1>1. Holding(h) /\ req[h].pc \in DiskSteps \ {"append"}
  BY DEF WriteTmp, Holding, DiskSteps
<1>2. CASE tmp' = Contents /\ req' = Moved(h, "backup")
           /\ UNCHANGED <<up, crashes, memory, lock, may, ended, answer>>
  BY <1>1, <1>2, StepOnType, Fields DEF WriteTmp, TypeInv, TypeOK, memory
<1>3. CASE tmp' \in {tmp, None} /\ Fail(h, "tmp")
  BY <1>1, <1>3, FailType DEF WriteTmp, TypeInv, TypeOK
<1> QED
  BY <1>2, <1>3 DEF WriteTmp

LEMMA BackupType ==
  ASSUME TypeInv, NEW h \in Requests, Backup(h)
  PROVE  TypeInv'
<1>1. Holding(h) /\ req[h].pc \in DiskSteps \ {"append"}
  BY DEF Backup, Holding, DiskSteps
<1>2. CASE /\ IF main # None THEN bak' = main /\ main' = None ELSE UNCHANGED <<main, bak>>
           /\ req' = Moved(h, "swap")
           /\ UNCHANGED <<up, crashes, memory, lock, tmp, may, ended, answer>>
  BY <1>1, <1>2, StepOnType DEF Backup, TypeInv, TypeOK, memory
<1>3. CASE tmp' = None /\ UNCHANGED <<main, bak>> /\ Fail(h, "backup")
  BY <1>1, <1>3, FailType DEF Backup, TypeInv, TypeOK
<1> QED
  BY <1>2, <1>3 DEF Backup

LEMMA SwapType ==
  ASSUME TypeInv, NEW h \in Requests, Swap(h)
  PROVE  TypeInv'
<1>1. Holding(h) /\ req[h].pc \in DiskSteps \ {"append"}
  BY DEF Swap, Holding, DiskSteps
<1>2. CASE /\ main' = tmp /\ tmp' = None /\ req' = Moved(h, "unbak")
           /\ UNCHANGED <<up, crashes, memory, lock, bak, may, ended, answer>>
  BY <1>1, <1>2, StepOnType DEF Swap, TypeInv, TypeOK, memory
<1>3. CASE main' = Restored /\ bak' = None /\ UNCHANGED tmp /\ Fail(h, "swap")
  BY <1>1, <1>3, FailType DEF Swap, TypeInv, TypeOK, Restored
<1>4. CASE UNCHANGED files /\ Fail(h, "swap")
  BY <1>1, <1>4, FailType DEF Swap, TypeInv, TypeOK, files
<1> QED
  BY <1>2, <1>3, <1>4 DEF Swap

LEMMA UnbakType ==
  ASSUME TypeInv, NEW h \in Requests, Unbak(h)
  PROVE  TypeInv'
<1>1. Holding(h)
  BY DEF Unbak, Holding, DiskSteps
<1> QED
  BY <1>1, SucceedType DEF Unbak, TypeInv, TypeOK

LEMMA ListArriveType ==
  ASSUME TypeInv, NEW h \in Requests, ListArrive(h)
  PROVE  TypeInv'
<1>1. req' \in [Requests -> Request] /\ req'[h].pc = "lock" /\ OthersMoveNot(h)
  BY MovedReq DEF TypeInv, ListArrive, OthersMoveNot, Pcs
<1>2. LockInv'
  BY <1>1, LockAside DEF TypeInv, ListArrive, Holding, DiskSteps, memory
<1>3. answer' \in [Lists -> Answer]
  BY DEF ListArrive, TypeInv, TypeOK, Answer
<1> QED
  BY <1>1, <1>2, <1>3 DEF ListArrive, TypeInv, TypeOK, memory, files

LEMMA ListType ==
  ASSUME TypeInv, NEW h \in Requests, List(h)
  PROVE  TypeInv'
<1>1. req' \in [Requests -> Request] /\ req'[h].pc = "encode" /\ OthersMoveNot(h)
  BY MovedReq DEF TypeInv, List, OthersMoveNot, Pcs
<1>2. LockInv'
  BY <1>1, LockAside DEF TypeInv, List, Holding, DiskSteps, memory
<1>3. LiveObjects \subseteq Writers
  BY Fields DEF LiveObjects, Found, TypeInv
<1>4. {<<o, heap[o]>> : o \in LiveObjects} \in SUBSET (Writers \X Task)
  BY <1>3, Fields DEF TypeInv
<1>5. answer' \in [Lists -> Answer]
  BY <1>4 DEF List, TypeInv, TypeOK, Answer
<1> QED
  BY <1>1, <1>2, <1>5 DEF List, TypeInv, TypeOK, memory, files

LEMMA EncodeType ==
  ASSUME TypeInv, NEW h \in Requests, Encode(h)
  PROVE  TypeInv'
<1>1. req' \in [Requests -> Request] /\ req'[h].pc = "done" /\ OthersMoveNot(h)
  BY MovedReq DEF TypeInv, Encode, OthersMoveNot, Pcs
<1>2. LockInv'
  BY <1>1, LockAside DEF TypeInv, Encode, Holding, DiskSteps, memory
<1> QED
  BY <1>1, <1>2 DEF Encode, TypeInv, TypeOK, memory, files

LEMMA CrashType ==
  ASSUME TypeInv, Crash
  PROVE  TypeInv'
<1>1. req' \in [Requests -> Request] /\ \A h \in Requests : req'[h].pc \notin DiskSteps
  BY DEF Crash, TypeInv, TypeOK, Request, Pcs, DiskSteps
<1>2. crashes' \in 0..MaxCrashes
  BY TaskAssumption DEF Crash, TypeInv, TypeOK
<1>3. LockInv'
  BY <1>1, Sets DEF Crash, LockInv, Holding
<1> QED
  BY <1>1, <1>2, <1>3 DEF Crash, TypeInv, TypeOK, memory, files

LEMMA RestartType ==
  ASSUME TypeInv, Restart
  PROVE  TypeInv'
<1>1. FileFound \in File
  BY Fields DEF TypeInv
<1>2. cache' \in [Ids -> Writers \cup {None}]
  BY Sets DEF Restart, Loaded
<1>3. heap' \in [Writers -> Task]
  <2>1. NoTask \in Task
    BY DEF NoTask, Task
  <2>2. \A i \in Ids : Loaded(i) = i => FileFound[i] \in Task
    BY <1>1, Sets, TaskAssumption DEF Loaded, File
  <2> QED
    BY <2>1, <2>2 DEF Restart
<1>4. may' \in [Ids -> SUBSET (Task \cup {None})]
  BY <1>1 DEF Restart, File
<1>5. LockInv'
  BY Sets DEF Restart, TypeInv, LockInv, Holding
<1> QED
  BY <1>1, <1>2, <1>3, <1>4, <1>5, ZenonT(60) DEF Restart, TypeInv, TypeOK

LEMMA StepType == ASSUME TypeInv, [Next]_vars PROVE TypeInv'
<1>1. CASE UNCHANGED vars
  BY <1>1 DEF vars, memory, files, TypeInv, TypeOK, LockInv, Holding
<1>2. ASSUME NEW h \in Requests, RequestStep(h) PROVE TypeInv'
  BY <1>2, AddCacheType, AddAppendType, NotFoundType, UpdateCacheType, DeleteMarkType,
     WriteTmpType, BackupType, SwapType, UnbakType, ListArriveType, ListType, EncodeType
  DEF RequestStep
<1> QED
  BY <1>1, <1>2, CrashType, RestartType DEF Next

\* Every task, object, file and answer keeps its type, and the lock is held by exactly
\* the writer that is between two steps of Add or syncToDisk, for any requests,
\* failures and crashes.
THEOREM TypeCorrect == Spec => []TypeOK
<1>1. Init => TypeInv
  BY InitInv DEF Inv
<1>2. TypeInv /\ [Next]_vars => TypeInv'
  BY StepType
<1>3. TypeInv => TypeOK
  BY DEF TypeInv
<1> QED
  BY <1>1, <1>2, <1>3, PTL DEF Spec

-----------------------------------------------------------------------------
(* Objects: a cache entry has its object to itself.                        *)

\* No step makes a request idle again, so what was started stays so.
LEMMA StaysStarted ==
  ASSUME TypeInv, Next
  PROVE  \A h \in Requests : Started(req, h) => Started(req', h)
<1>1. ASSUME NEW h \in Requests, OthersMoveNot(h), req'[h].pc # "idle"
      PROVE  \A g \in Requests : Started(req, g) => Started(req', g)
  BY <1>1 DEF OthersMoveNot, Started
<1>2. ASSUME NEW h \in Requests, NEW pc \in Pcs \ {"idle"}, req' = Moved(h, pc)
      PROVE  OthersMoveNot(h) /\ req'[h].pc # "idle"
  BY <1>2, MovedReq DEF TypeInv, OthersMoveNot
<1>3. ASSUME NEW h \in Requests, NEW call, NEW pc \in {"append", "tmp"}, Enter(h, call, pc),
             call \in Idle
      PROVE  OthersMoveNot(h) /\ req'[h].pc # "idle"
  BY <1>3, EnterReq DEF TypeInv, OthersMoveNot, Pcs, DiskSteps
<1>4. ASSUME NEW h \in Requests, RequestStep(h)
      PROVE  OthersMoveNot(h) /\ req'[h].pc # "idle"
  <2>1. CASE AddCache(h)
    BY <2>1, <1>3, Sets DEF AddCache, AddCall, Idle
  <2>2. CASE UpdateCache(h)
    BY <2>2, <1>3, MergedType DEF UpdateCache, TypeInv
  <2>3. CASE DeleteMark(h)
    BY <2>3, <1>3 DEF DeleteMark, DeleteCalls, Idle
  <2>4. CASE \E pc \in Pcs \ {"idle"} : req' = Moved(h, pc)
    BY <2>4, <1>2
  <2>5. ~AddCache(h) /\ ~UpdateCache(h) /\ ~DeleteMark(h) =>
            \E pc \in Pcs \ {"idle"} : req' = Moved(h, pc)
    BY <1>4 DEF RequestStep, AddAppend, NotFound, WriteTmp, Backup, Swap, Unbak, ListArrive,
                List, Encode, Succeed, Fail, Pcs, DiskSteps
  <2> QED
    BY <2>1, <2>2, <2>3, <2>4, <2>5
<1>5. CASE \E h \in Requests : RequestStep(h)
  BY <1>1, <1>4, <1>5
<1>6. CASE Crash
  BY <1>6 DEF Crash, TypeInv, TypeOK, Started
<1>7. CASE Restart
  BY <1>7 DEF Restart, Started
<1> QED
  BY <1>5, <1>6, <1>7 DEF Next

\* The three steps that change what the cache says change it for one id.
LEMMA AddCacheValue ==
  ASSUME TypeInv, ObjectInv, NEW h \in Requests, AddCache(h)
  PROVE  /\ \A i \in Ids : cache'[i] = IF i = h THEN h ELSE cache[i]
         /\ \A i \in Ids \ {h} : cache[i] # None => heap'[cache[i]] = heap[cache[i]]
         /\ Value(h)' \in may'[h] /\ heap'[h].id = h
         /\ \A i \in Ids \ {h} : Value(i)' = Value(i) /\ may'[i] = may[i]
<1> DEFINE t(done) == [id |-> h, title |-> h, done |-> done, deleted |-> FALSE]
<1>1. PICK done \in BOOLEAN : /\ Enter(h, AddCall(h, done), "append")
                              /\ heap' = [heap EXCEPT ![h] = t(done)]
                              /\ Remember(h, t(done))
  BY DEF AddCache
<1>2. h \in Ids /\ h \in Writers /\ h # None /\ t(done).id = h
  BY Sets DEF AddCache
<1> HIDE DEF t
<1>3. \A i \in Ids : cache'[i] = IF i = h THEN h ELSE cache[i]
  BY <1>2 DEF AddCache, TypeInv, TypeOK
<1>4. \A i \in Ids : cache[i] # h
  BY <1>1, <1>2 DEF Enter, ObjectInv, Started
<1>5. \A o \in Writers : heap'[o] = IF o = h THEN t(done) ELSE heap[o]
  BY <1>1 DEF TypeInv, TypeOK
<1>6. \A i \in Ids \ {h} : cache[i] # None => heap'[cache[i]] = heap[cache[i]]
  BY <1>4, <1>5, Fields DEF TypeInv
<1>7. \A i \in Ids : may'[i] = IF i = h THEN may[i] \cup {t(done)} ELSE may[i]
  BY <1>1, <1>2 DEF Remember, TypeInv, TypeOK
<1>8. Value(h)' = t(done)
  BY <1>2, <1>3, <1>5 DEF Value
<1>9. \A i \in Ids \ {h} : Value(i)' = Value(i)
  BY <1>3, <1>6 DEF Value
<1> QED
  BY <1>2, <1>3, <1>5, <1>6, <1>7, <1>8, <1>9

LEMMA UpdateCacheValue ==
  ASSUME TypeInv, ObjectInv, NEW h \in Requests, UpdateCache(h)
  PROVE  \E k \in Ids :
         /\ cache[k] # None /\ ~heap[cache[k]].deleted
         /\ \A i \in Ids : cache'[i] = IF i = k THEN h ELSE cache[i]
         /\ \A i \in Ids \ {k} : cache[i] # None => heap'[cache[i]] = heap[cache[i]]
         /\ Value(k)' \in may'[k] /\ heap'[h].id = k
         /\ \A i \in Ids \ {k} : Value(i)' = Value(i) /\ may'[i] = may[i]
<1>1. h \in Updates /\ h \in Writers /\ h # None
  BY Sets DEF UpdateCache, Writers
<1>2. PICK call \in UpdateCalls(h) :
          /\ Found(call.id)
          /\ Enter(h, call, "tmp")
          /\ heap' = [heap EXCEPT ![h] = Merged(call)]
          /\ cache' = [cache EXCEPT ![call.id] = h]
          /\ Remember(call.id, Merged(call))
  BY DEF UpdateCache, UpdatedCopy
<1> DEFINE k == call.id
           t == Merged(call)
<1>3. k \in Ids /\ t.id = Value(k).id /\ cache[k] # None /\ ~heap[cache[k]].deleted
  BY <1>1, <1>2, MergedType DEF TypeInv, Found
<1>4. t.id = k
  BY <1>3 DEF ObjectInv, Value
<1> HIDE DEF k, t
<1>5. \A i \in Ids : cache'[i] = IF i = k THEN h ELSE cache[i]
  BY <1>2, <1>3 DEF TypeInv, TypeOK, k
<1>6. \A i \in Ids : cache[i] # h
  BY <1>1, <1>2 DEF Enter, ObjectInv, Started
<1>7. \A o \in Writers : heap'[o] = IF o = h THEN t ELSE heap[o]
  BY <1>2 DEF TypeInv, TypeOK, t
<1>8. \A i \in Ids \ {k} : cache[i] # None => heap'[cache[i]] = heap[cache[i]]
  BY <1>6, <1>7, Fields DEF TypeInv
<1>9. \A i \in Ids : may'[i] = IF i = k THEN may[i] \cup {t} ELSE may[i]
  BY <1>2, <1>3 DEF Remember, TypeInv, TypeOK, k, t
<1>10. Value(k)' = t
  BY <1>1, <1>3, <1>5, <1>7 DEF Value
<1>11. \A i \in Ids \ {k} : Value(i)' = Value(i)
  BY <1>5, <1>8 DEF Value
<1> QED
  BY <1>1, <1>3, <1>4, <1>5, <1>7, <1>8, <1>9, <1>10, <1>11

LEMMA DeleteMarkValue ==
  ASSUME TypeInv, ObjectInv, NEW h \in Requests, DeleteMark(h)
  PROVE  \E k \in Ids :
         /\ \A i \in Ids : cache[i] # None => heap'[cache[i]].id = heap[cache[i]].id
         /\ Value(k)' \in may'[k]
         /\ req'[h].id = k /\ cache'[k] # None /\ heap'[cache'[k]].deleted
         /\ \A i \in Ids : Found(i)' => Found(i)
         /\ \A i \in Ids \ {k} : Value(i)' = Value(i) /\ may'[i] = may[i]
<1>1. PICK call \in DeleteCalls :
          /\ Found(call.id)
          /\ Enter(h, call, "tmp")
          /\ heap' = [heap EXCEPT ![cache[call.id]].deleted = TRUE]
          /\ Remember(call.id, [Value(call.id) EXCEPT !.deleted = TRUE])
  BY DEF DeleteMark
<1> DEFINE k == call.id
           o == cache[k]
           t == [heap[o] EXCEPT !.deleted = TRUE]
<1>2. k \in Ids /\ o \in Writers /\ o # None /\ heap[o] \in Task
  BY <1>1, Fields DEF DeleteCalls, Found, TypeInv
<1>3. \A p \in Writers : heap'[p] = IF p = o THEN t ELSE heap[p]
  BY <1>1, <1>2 DEF TypeInv, TypeOK
<1>4. t.id = heap[o].id /\ t.deleted
  BY <1>2 DEF Task
<1>5. \A i \in Ids : may'[i] = IF i = k THEN may[i] \cup {t} ELSE may[i]
  BY <1>1, <1>2 DEF Remember, Value, TypeInv, TypeOK
<1>6. cache' = cache
  BY DEF DeleteMark
<1> HIDE DEF t
<1>7. \A i \in Ids : cache[i] # None => heap'[cache[i]].id = heap[cache[i]].id
  BY <1>2, <1>3, <1>4, Fields DEF TypeInv
<1>8. \A i \in Ids \ {k} : cache[i] # None => cache[i] # o
  BY <1>2 DEF ObjectInv
<1>9. Value(k)' = t /\ cache'[k] # None /\ heap'[cache'[k]].deleted
  BY <1>2, <1>3, <1>4, <1>6 DEF Value
<1>10. \A i \in Ids \ {k} : Value(i)' = Value(i)
  BY <1>3, <1>6, <1>8, Fields DEF Value, TypeInv
<1>11. req'[h].id = k
  <2>1. call \in Idle
    BY DEF DeleteCalls, Idle
  <2> QED
    BY <1>1, <2>1, EnterReq DEF TypeInv, Pcs, DiskSteps, k
<1>12. \A i \in Ids : Found(i)' => Found(i)
  BY <1>3, <1>6, <1>4, <1>9, Fields DEF Found, TypeInv
<1> QED
  BY <1>2, <1>4, <1>5, <1>7, <1>9, <1>10, <1>11, <1>12

\* What a step may write into a file names its tasks.
LEMMA FileNames ==
  ASSUME TypeInv, ObjectInv
  PROVE  /\ NamesTasks(Contents, req)
         /\ NamesTasks(FileFound, req)
         /\ \A h \in Ids : NamesTasks(Appended(h), req)
<1>1. NamesTasks(Contents, req)
  BY DEF Contents, Value, ObjectInv, NamesTasks
<1>2. NamesTasks(FileFound, req) /\ FileFound \in File
  BY Fields DEF FileFound, EmptyFile, ObjectInv, NamesTasks, TypeInv
<1>3. ASSUME NEW h \in Ids PROVE NamesTasks(Appended(h), req)
  <2>1. \A i \in Ids : Appended(h)[i] = IF i = h THEN Value(h) ELSE FileFound[i]
    BY <1>2, <1>3 DEF Appended, File
  <2> QED
    BY <1>1, <1>2, <2>1 DEF NamesTasks, Contents
<1> QED
  BY <1>1, <1>2, <1>3

\* The steps that change no object: files only move, or get what FileNames is about.
LEMMA FilesStep ==
  ASSUME TypeInv, ObjectInv, Next, cache' = cache, heap' = heap,
         NEW h \in Requests,
         main' \in {main, tmp, bak, None, FileFound} \cup {Appended(i) : i \in Ids},
         tmp' \in {tmp, None, Contents},
         bak' \in {bak, main, None}
  PROVE  ObjectInv'
<1>1. ASSUME NEW f, NamesTasks(f, req) PROVE NamesTasks(f, req')
  BY <1>1, StaysStarted, Sets DEF NamesTasks
<1>2. main' # None => NamesTasks(main', req')
  BY <1>1, FileNames DEF ObjectInv
<1>3. tmp' # None => NamesTasks(tmp', req')
  BY <1>1, FileNames DEF ObjectInv
<1>4. bak' # None => NamesTasks(bak', req')
  BY <1>1, FileNames DEF ObjectInv
<1>5. \A i \in Ids : cache'[i] # None =>
         heap'[cache'[i]].id = i /\ Started(req', cache'[i]) /\ Started(req', i)
  BY StaysStarted, Fields, Sets DEF ObjectInv, TypeInv
<1> QED
  BY <1>2, <1>3, <1>4, <1>5 DEF ObjectInv

LEMMA ObjectStep ==
  ASSUME TypeInv, ObjectInv, [Next]_vars
  PROVE  ObjectInv'
<1>1. CASE UNCHANGED vars
  BY <1>1 DEF vars, memory, files, ObjectInv, NamesTasks, Started
<1> SUFFICES ASSUME Next PROVE ObjectInv'
  BY <1>1
<1>2. ASSUME NEW f, NamesTasks(f, req) PROVE NamesTasks(f, req')
  BY <1>2, StaysStarted, Sets DEF NamesTasks
<1>3. UNCHANGED files =>
        /\ main' # None => NamesTasks(main', req')
        /\ tmp' # None => NamesTasks(tmp', req')
        /\ bak' # None => NamesTasks(bak', req')
  BY <1>2 DEF files, ObjectInv
<1>4. ASSUME NEW h \in Requests, AddCache(h) PROVE ObjectInv'
  <2>1. Started(req', h)
    BY <1>4, EnterReq, Sets DEF AddCache, AddCall, Idle, TypeInv, Started, Pcs, DiskSteps
  <2>2. \A i \in Ids : cache'[i] # None =>
           heap'[cache'[i]].id = i /\ Started(req', cache'[i]) /\ Started(req', i)
    BY <1>4, <2>1, AddCacheValue, StaysStarted, Fields, Sets DEF ObjectInv, TypeInv
  <2> QED
    BY <1>3, <1>4, <2>2 DEF AddCache, ObjectInv
<1>5. ASSUME NEW h \in Requests, UpdateCache(h) PROVE ObjectInv'
  <2>1. Started(req', h)
    BY <1>5, EnterReq, MergedType DEF UpdateCache, TypeInv, Started, Pcs, DiskSteps
  <2>2. \A i \in Ids : cache'[i] # None =>
           heap'[cache'[i]].id = i /\ Started(req', cache'[i]) /\ Started(req', i)
    BY <1>5, <2>1, UpdateCacheValue, StaysStarted, Fields, Sets DEF ObjectInv, TypeInv
  <2> QED
    BY <1>3, <1>5, <2>2 DEF UpdateCache, ObjectInv
<1>6. ASSUME NEW h \in Requests, DeleteMark(h) PROVE ObjectInv'
  <2>1. \A i \in Ids : cache'[i] # None =>
           heap'[cache'[i]].id = i /\ Started(req', cache'[i]) /\ Started(req', i)
    BY <1>6, DeleteMarkValue, StaysStarted, Fields, Sets DEF DeleteMark, ObjectInv, TypeInv
  <2> QED
    BY <1>3, <1>6, <2>1 DEF DeleteMark, ObjectInv
<1>7. ASSUME NEW h \in Requests,
             NotFound(h) \/ ListArrive(h) \/ List(h) \/ Encode(h)
      PROVE  ObjectInv'
  BY <1>7, FilesStep DEF NotFound, ListArrive, List, Encode, memory, files
<1>8. ASSUME NEW h \in Requests, AddAppend(h) PROVE ObjectInv'
  <2>1. h \in Ids
    BY <1>8, Sets DEF AddAppend, TypeInv, LockInv, Holding, DiskSteps
  <2> QED
    BY <1>8, <2>1, FilesStep DEF AddAppend, Succeed, Fail
<1>9. ASSUME NEW h \in Requests, WriteTmp(h) \/ Backup(h) \/ Swap(h) \/ Unbak(h)
      PROVE  ObjectInv'
  <2>1. cache' = cache /\ heap' = heap
    BY <1>9 DEF WriteTmp, Backup, Swap, Unbak, Succeed, Fail, memory
  <2>2. main' \in {main, tmp, bak, None}
    BY <1>9 DEF WriteTmp, Backup, Swap, Unbak, Restored, files
  <2>3. tmp' \in {tmp, None, Contents} /\ bak' \in {bak, main, None}
    BY <1>9 DEF WriteTmp, Backup, Swap, Unbak, files
  <2> QED
    BY <1>9, <2>1, <2>2, <2>3, FilesStep
<1>10. CASE Crash
  BY <1>3, <1>10, StaysStarted, Fields, Sets DEF Crash, memory, ObjectInv, TypeInv
<1>11. CASE Restart
  <2>1. NamesTasks(FileFound, req') /\ FileFound \in File
    BY <1>2, FileNames, Fields DEF TypeInv
  <2>2. \A i \in Ids : cache'[i] # None =>
          cache'[i] = i /\ heap'[i] = FileFound[i] /\ FileFound[i] # None
    BY <1>11, Sets DEF Restart, Loaded
  <2>3. \A i \in Ids : cache'[i] # None =>
           heap'[cache'[i]].id = i /\ Started(req', cache'[i]) /\ Started(req', i)
    BY <2>1, <2>2 DEF NamesTasks
  <2> QED
    BY <1>2, <1>11, <2>1, <2>3 DEF Restart, ObjectInv
<1> QED
  BY <1>4, <1>5, <1>6, <1>7, <1>8, <1>9, <1>10, <1>11 DEF Next, RequestStep

-----------------------------------------------------------------------------
(* The file and the cache                                                  *)

\* Which of its steps a request in the critical section is at.
LEMMA Position ==
  ASSUME TypeInv, NEW h \in Requests, RequestStep(h)
  PROVE  /\ OthersMoveNot(h)
         /\ AddCache(h) => req'[h].pc = "append"
         /\ UpdateCache(h) \/ DeleteMark(h) => req'[h].pc = "tmp"
         /\ WriteTmp(h) => req'[h].pc \in {"backup", "failed"}
         /\ Backup(h) => req'[h].pc \in {"swap", "failed"}
         /\ Swap(h) => req'[h].pc \in {"unbak", "failed"}
         /\ AddAppend(h) \/ Unbak(h) => req'[h].pc \in {"done", "failed"}
         /\ NotFound(h) \/ ListArrive(h) \/ List(h) \/ Encode(h) =>
               req'[h].pc \notin DiskSteps /\ ~Holding(h)
<1>1. ASSUME NEW pc \in Pcs, req' = Moved(h, pc)
      PROVE  OthersMoveNot(h) /\ req'[h].pc = pc
  BY <1>1, MovedReq DEF TypeInv, OthersMoveNot
<1>2. ASSUME NEW call \in Idle, NEW pc \in {"append", "tmp"}, Enter(h, call, pc)
      PROVE  OthersMoveNot(h) /\ req'[h].pc = pc
  BY <1>2, EnterReq DEF TypeInv, OthersMoveNot, Pcs, DiskSteps
<1>3. AddCache(h) => OthersMoveNot(h) /\ req'[h].pc = "append"
  BY <1>2, Sets DEF AddCache, AddCall, Idle
<1>4. UpdateCache(h) => OthersMoveNot(h) /\ req'[h].pc = "tmp"
  BY <1>2, MergedType DEF UpdateCache, TypeInv
<1>5. DeleteMark(h) => OthersMoveNot(h) /\ req'[h].pc = "tmp"
  BY <1>2 DEF DeleteMark, DeleteCalls, Idle
<1>6. WriteTmp(h) => OthersMoveNot(h) /\ req'[h].pc \in {"backup", "failed"}
  BY <1>1 DEF WriteTmp, Fail, Pcs, DiskSteps
<1>7. Backup(h) => OthersMoveNot(h) /\ req'[h].pc \in {"swap", "failed"}
  BY <1>1 DEF Backup, Fail, Pcs, DiskSteps
<1>8. Swap(h) => OthersMoveNot(h) /\ req'[h].pc \in {"unbak", "failed"}
  BY <1>1 DEF Swap, Fail, Pcs, DiskSteps
<1>9. AddAppend(h) \/ Unbak(h) => OthersMoveNot(h) /\ req'[h].pc \in {"done", "failed"}
  BY <1>1 DEF AddAppend, Unbak, Succeed, Fail, Pcs
<1>10. NotFound(h) \/ ListArrive(h) \/ List(h) \/ Encode(h) =>
          OthersMoveNot(h) /\ req'[h].pc \notin DiskSteps /\ ~Holding(h)
  BY <1>1 DEF NotFound, ListArrive, List, Encode, Holding, DiskSteps, Pcs
<1> QED
  BY <1>3, <1>4, <1>5, <1>6, <1>7, <1>8, <1>9, <1>10 DEF RequestStep

\* While a request is at one of its disk steps, no other is.
LEMMA OneHolder ==
  ASSUME TypeInv, NEW h \in Requests, Holding(h) \/ lock = None
  PROVE  \A g \in Requests \ {h} : req[g].pc \notin DiskSteps
  BY Sets DEF TypeInv, LockInv, Holding

LEMMA HolderOf ==
  ASSUME TypeInv, NEW h \in Requests, RequestStep(h)
  PROVE  /\ AddCache(h) \/ UpdateCache(h) \/ DeleteMark(h) => up /\ lock = None
         /\ AddAppend(h) \/ WriteTmp(h) \/ Backup(h) \/ Swap(h) \/ Unbak(h) => up /\ Holding(h)
  BY DEF AddCache, UpdateCache, DeleteMark, Enter, AddAppend, WriteTmp, Backup, Swap, Unbak,
         Holding, DiskSteps

LEMMA SyncStep ==
  ASSUME TypeInv, ObjectInv, SyncInv, [Next]_vars
  PROVE  SyncInv'
<1>1. CASE UNCHANGED vars
  BY <1>1 DEF vars, memory, files, SyncInv, Contents, Value
<1>2. ASSUME NEW h \in Requests,
             AddCache(h) \/ UpdateCache(h) \/ DeleteMark(h) \/ AddAppend(h), RequestStep(h)
      PROVE  SyncInv'
  BY <1>2, Position, OneHolder, HolderOf DEF SyncInv, OthersMoveNot, DiskSteps
<1>3. ASSUME NEW h \in Requests,
             NotFound(h) \/ ListArrive(h) \/ List(h) \/ Encode(h), RequestStep(h)
      PROVE  SyncInv'
  <2>1. UNCHANGED <<memory, files>>
    BY <1>3 DEF NotFound, ListArrive, List, Encode
  <2> QED
    BY <1>3, <2>1, Position DEF SyncInv, OthersMoveNot, DiskSteps, memory, files, Contents, Value
<1>4. ASSUME NEW h \in Requests, WriteTmp(h) \/ Backup(h) \/ Swap(h) \/ Unbak(h), RequestStep(h)
      PROVE  SyncInv'
  <2>1. cache' = cache /\ heap' = heap
    BY <1>4 DEF WriteTmp, Backup, Swap, Unbak, Succeed, Fail, memory
  <2>2. Contents' = Contents
    BY <2>1 DEF Contents, Value
  <2>3. \A g \in Requests \ {h} : req'[g].pc \notin DiskSteps
    BY <1>4, Position, OneHolder, HolderOf DEF OthersMoveNot
  <2>4. \A step : Fail(h, step) => req'[h].pc = "failed"
    BY <1>4, FailType, HolderOf
  <2>5. WriteTmp(h) /\ req'[h].pc = "backup" => tmp' = Contents
    BY <2>4 DEF WriteTmp
  <2>6. Backup(h) /\ req'[h].pc = "swap" => tmp' = Contents
    BY <2>4 DEF Backup, SyncInv
  <2>7. Swap(h) /\ req'[h].pc = "unbak" => main' = Contents
    BY <2>4 DEF Swap, SyncInv
  <2> QED
    BY <1>4, <2>2, <2>3, <2>5, <2>6, <2>7, Position DEF SyncInv, DiskSteps
<1>5. CASE Crash \/ Restart
  <2>1. \A g \in Requests : req'[g].pc \notin DiskSteps
    BY <1>5, CrashType, RestartType, Sets DEF TypeInv, LockInv, Holding, Crash, Restart
  <2> QED
    BY <2>1 DEF SyncInv, DiskSteps
<1> QED
  BY <1>1, <1>2, <1>3, <1>4, <1>5 DEF Next, RequestStep

LEMMA DiskStep ==
  ASSUME TypeInv, ObjectInv, SyncInv, DiskInv, [Next]_vars
  PROVE  DiskInv'
<1>1. CASE UNCHANGED vars
  BY <1>1 DEF vars, memory, files, DiskInv, Adding, Value
<1>2. ASSUME NEW h \in Requests, AddCache(h), RequestStep(h) PROVE DiskInv'
  <2>1. h \in Adds /\ UNCHANGED <<up, main, dirty, unsaved>> /\ Adding' = Adding \cup {h}
    BY <1>2, Position, Sets DEF AddCache, files, Adding, OthersMoveNot
  <2> QED
    BY <1>2, <2>1, AddCacheValue DEF DiskInv
<1>3. ASSUME NEW h \in Requests, AddAppend(h), RequestStep(h) PROVE DiskInv'
  <2>1. h \in Ids /\ h \in Adds /\ req[h].id = h
    BY <1>3, Sets DEF AddAppend, TypeInv, LockInv, Holding, DiskSteps
  <2>2. /\ \A i \in Ids : Value(i)' = Value(i)
        /\ up' = up /\ dirty' = dirty
    BY <1>3 DEF AddAppend, Succeed, Fail, DirtyAfterFailure, Value
  <2>3. Adding' = Adding \ {h}
    BY <1>3, Position, Sets DEF AddAppend, Adding, OthersMoveNot
  <2>4. /\ FileFound \in File /\ Appended(h) \in File
        /\ \A i \in Ids : Appended(h)[i] = IF i = h THEN Value(h) ELSE FileFound[i]
    BY <2>1, Fields DEF Appended, TypeInv, File
  <2>5. main # None => FileFound = main
    BY DEF FileFound
  <2>6. CASE main' = Appended(h) /\ unsaved' = unsaved
    BY <2>2, <2>3, <2>4, <2>5, <2>6, TaskAssumption DEF DiskInv
  <2>7. CASE main' \in {main, FileFound, Appended(h)} /\ unsaved' = unsaved \cup {h}
    BY <2>2, <2>3, <2>4, <2>5, <2>7, TaskAssumption DEF DiskInv
  <2> QED
    BY <1>3, <2>6, <2>7 DEF AddAppend
<1>4. ASSUME NEW h \in Requests, UpdateCache(h) \/ DeleteMark(h) PROVE DiskInv'
  BY <1>4 DEF UpdateCache, DeleteMark, DiskInv
<1>5. ASSUME NEW h \in Requests,
             NotFound(h) \/ ListArrive(h) \/ List(h) \/ Encode(h), RequestStep(h)
      PROVE  DiskInv'
  <2>1. UNCHANGED <<up, memory, files, unsaved>>
    BY <1>5 DEF NotFound, ListArrive, List, Encode
  <2>2. Adding' = Adding
    BY <1>5, Position, Sets DEF Adding, OthersMoveNot, Holding, DiskSteps
  <2> QED
    BY <2>1, <2>2 DEF DiskInv, memory, files, Value
<1>6. ASSUME NEW h \in Requests, WriteTmp(h) \/ Backup(h) \/ Swap(h) PROVE DiskInv'
  <2>1. dirty /\ dirty' = dirty
    BY <1>6 DEF WriteTmp, Backup, Swap, TypeInv, LockInv, Holding, DiskSteps, Fail,
                DirtyAfterFailure, memory
  <2> QED
    BY <2>1 DEF DiskInv
<1>7. ASSUME NEW h \in Requests, Unbak(h) PROVE DiskInv'
  <2>1. main = Contents /\ Contents \in File
    BY <1>7, Fields DEF Unbak, SyncInv, TypeInv
  <2>2. main' = main /\ \A i \in Ids : Value(i)' = Value(i)
    BY <1>7 DEF Unbak, Succeed, Value
  <2> QED
    BY <2>1, <2>2, TaskAssumption DEF DiskInv, Contents
<1>8. CASE Crash
  BY <1>8 DEF Crash, DiskInv
<1>9. CASE Restart
  <2>1. main' = FileFound /\ FileFound \in File
    BY <1>9, Fields DEF Restart, TypeInv
  <2>2. \A i \in Ids : Value(i)' = FileFound[i]
    BY <1>9, Sets DEF Restart, Loaded, Value
  <2> QED
    BY <2>1, <2>2, TaskAssumption DEF DiskInv
<1> QED
  BY <1>1, <1>2, <1>3, <1>4, <1>5, <1>6, <1>7, <1>8, <1>9 DEF Next, RequestStep

LEMMA InvStep == Inv /\ [Next]_vars => Inv'
  BY StepType, ObjectStep, SyncStep, DiskStep DEF Inv

\* Whatever the order of requests, failed file operations and crashes, once no writer is
\* at work and nothing is dirty the file holds what the cache holds (Adds that reported
\* an error aside), so that a restart then changes nothing.
THEOREM CacheIsOnDisk == Spec => []CacheOnDisk
<1>1. Init => Inv
  BY InitInv
<1>2. Inv /\ [Next]_vars => Inv'
  BY InvStep
<1>3. Inv => CacheOnDisk
  <2>1. Inv /\ lock = None => Adding = {}
    BY Sets DEF Inv, TypeInv, LockInv, Holding, DiskSteps, Adding
  <2> QED
    BY <2>1 DEF Inv, DiskInv, CacheOnDisk
<1> QED
  BY <1>1, <1>2, <1>3, PTL DEF Spec

-----------------------------------------------------------------------------
(* What was answered survives                                              *)

\* Failed renames are undone, and the process is not killed between the two renames.
RenamesHold == "swap" \notin CrashAt /\ "restore" \notin Fails

LEMMA NotSwapping ==
  ASSUME TypeInv, NEW h \in Requests, RequestStep(h)
  PROVE  /\ Holding(h) \/ lock = None => (Swapping <=> req[h].pc = "swap")
         /\ Holding(h) \/ lock = None => (Swapping' <=> req'[h].pc = "swap")
         /\ req[h].pc # "swap" /\ req'[h].pc # "swap" => (Swapping' <=> Swapping)
  BY OneHolder, Position DEF Swapping, OthersMoveNot, DiskSteps

LEMMA MayStep ==
  ASSUME Inv, RenamesHold, MayInv, [Next]_vars
  PROVE  MayInv'
<1> USE DEF Inv
<1>1. CASE UNCHANGED vars
  BY <1>1 DEF vars, memory, files, MayInv, Swapping, Value
<1>2. ASSUME NEW h \in Requests, AddCache(h) \/ UpdateCache(h) \/ DeleteMark(h), RequestStep(h)
      PROVE  MayInv'
  <2>1. /\ up /\ up' = up /\ UNCHANGED files
        /\ ~Swapping /\ ~Swapping'
    BY <1>2, NotSwapping, HolderOf, Position DEF AddCache, UpdateCache, DeleteMark, Swapping,
       Enter
  <2>2. PICK k \in Ids : /\ Value(k)' \in may'[k]
                         /\ \A i \in Ids \ {k} : Value(i)' = Value(i) /\ may'[i] = may[i]
    BY <1>2, AddCacheValue, UpdateCacheValue, DeleteMarkValue, Sets DEF AddCache
  <2>3. \A i \in Ids : may[i] \subseteq may'[i]
    BY <1>2, ZenonT(60) DEF AddCache, UpdateCache, DeleteMark, Remember, TypeInv, TypeOK
  <2> QED
    BY <2>1, <2>2, <2>3 DEF MayInv, files
<1>3. ASSUME NEW h \in Requests,
             NotFound(h) \/ ListArrive(h) \/ List(h) \/ Encode(h), RequestStep(h)
      PROVE  MayInv'
  <2>1. UNCHANGED <<up, memory, files, may>>
    BY <1>3 DEF NotFound, ListArrive, List, Encode
  <2>2. Swapping' <=> Swapping
    BY <1>3, NotSwapping, Position DEF Holding, DiskSteps
  <2> QED
    BY <2>1, <2>2 DEF MayInv, memory, files, Value
<1>4. ASSUME NEW h \in Requests,
             AddAppend(h) \/ WriteTmp(h) \/ Backup(h) \/ Swap(h) \/ Unbak(h), RequestStep(h)
      PROVE  MayInv'
  <2>1. up /\ up' = up /\ Holding(h) /\ req[h].id \in Ids
    BY <1>4, HolderOf DEF AddAppend, WriteTmp, Backup, Swap, Unbak, Succeed, Fail, TypeInv,
       LockInv
  <2>2. \A i \in Ids : Value(i)' = Value(i)
    BY <1>4 DEF AddAppend, WriteTmp, Backup, Swap, Unbak, Succeed, Fail, memory, Value
  <2>3. (Swapping <=> req[h].pc = "swap") /\ (Swapping' <=> req'[h].pc = "swap")
    BY <1>4, <2>1, NotSwapping
  <2>4. \A i \in Ids : Value(i) \in may[i]
    BY <2>1 DEF MayInv
  <2>5. Contents \in File /\ Contents # None /\ \A i \in Ids : Contents[i] = Value(i)
    BY Fields, TaskAssumption DEF TypeInv, Contents
  <2>6. \A step : Fail(h, step) => req'[h].pc = "failed" /\ may' = may
    BY <2>1, FailType
  <2>7. Succeed(h) =>
          /\ req'[h].pc = "done"
          /\ \A i \in Ids : may'[i] = IF i = req[h].id THEN {Value(i)} ELSE may[i]
    BY <2>1, SucceedType DEF Succeed, TypeInv, TypeOK
  <2>8. CASE AddAppend(h)
    <3>1. ~Swapping /\ main # None /\ FileFound = main
      BY <2>3, <2>8 DEF AddAppend, MayInv, FileFound
    <3>2. h \in Ids /\ req[h].id = h
      BY <2>8, Sets DEF AddAppend, TypeInv, LockInv, Holding, DiskSteps
    <3>3. /\ Appended(h) \in File /\ Appended(h) # None
          /\ \A i \in Ids : Appended(h)[i] = IF i = h THEN Value(h) ELSE main[i]
      BY <3>1, <3>2, Fields, TaskAssumption DEF Appended, TypeInv, File
    <3>4. \A i \in Ids : Appended(h)[i] \in may[i]
      BY <2>4, <3>1, <3>3 DEF MayInv
    <3>5. CASE main' = Appended(h) /\ Succeed(h)
      BY <2>1, <2>2, <2>3, <2>4, <2>7, <3>2, <3>3, <3>4, <3>5 DEF MayInv
    <3>6. CASE main' \in {main, FileFound, Appended(h)} /\ Fail(h, "append")
      BY <2>1, <2>2, <2>3, <2>4, <2>6, <3>1, <3>3, <3>4, <3>6 DEF MayInv
    <3> QED
      BY <2>8, <3>5, <3>6 DEF AddAppend
  <2>9. CASE WriteTmp(h)
    <3>1. main' = main /\ may' = may /\ req[h].pc # "swap" /\ req'[h].pc # "swap"
      BY <1>4, <2>6, <2>9, Position DEF WriteTmp
    <3> QED
      BY <2>1, <2>2, <2>3, <2>4, <3>1 DEF MayInv
  <2>10. CASE Backup(h)
    <3>1. ~Swapping /\ main # None /\ \A i \in Ids : main[i] \in may[i]
      BY <2>3, <2>10 DEF Backup, MayInv
    <3>2. may' = may
      BY <2>6, <2>10 DEF Backup
    <3>3. \/ bak' = main /\ req' = Moved(h, "swap")
          \/ main' = main /\ req'[h].pc # "swap"
      BY <2>6, <2>10, <3>1 DEF Backup
    <3>4. req' = Moved(h, "swap") => req'[h].pc = "swap"
      BY MovedReq DEF TypeInv, Pcs, DiskSteps
    <3> QED
      BY <2>1, <2>2, <2>3, <2>4, <3>1, <3>2, <3>3, <3>4 DEF MayInv
  <2>11. CASE Swap(h)
    <3>1. bak # None /\ (\A i \in Ids : bak[i] \in may[i]) /\ tmp = Contents
      BY <2>3, <2>11 DEF Swap, MayInv, SyncInv
    <3>2. may' = may /\ req'[h].pc # "swap"
      BY <1>4, <2>6, <2>11, Position DEF Swap
    <3>3. main' = tmp \/ main' = bak
      BY <2>11, <3>1 DEF Swap, Restored, RenamesHold
    <3> QED
      BY <2>1, <2>2, <2>3, <2>4, <2>5, <3>1, <3>2, <3>3 DEF MayInv
  <2>12. CASE Unbak(h)
    <3>1. main' = main /\ main = Contents /\ Succeed(h)
      BY <2>12 DEF Unbak, SyncInv
    <3> QED
      BY <2>1, <2>2, <2>3, <2>4, <2>5, <2>7, <3>1 DEF MayInv
  <2> QED
    BY <1>4, <2>8, <2>9, <2>10, <2>11, <2>12
<1>5. CASE Crash
  <2>1. ~Swapping
    <3>1. ASSUME NEW h \in Requests, req[h].pc = "swap" PROVE Place = "swap"
      BY <3>1, TaskAssumption DEF Place, TypeInv, LockInv, Holding, DiskSteps
    <3> QED
      BY <1>5, <3>1 DEF Crash, RenamesHold, Swapping
  <2>2. ~Swapping'
    BY <1>5 DEF Crash, Swapping, TypeInv, TypeOK
  <2> QED
    BY <1>5, <2>1, <2>2 DEF Crash, MayInv, files
<1>6. CASE Restart
  <2>1. ~Swapping /\ ~Swapping' /\ main # None
    BY <1>6 DEF Restart, MayInv, Swapping
  <2>2. FileFound = main /\ main' = main /\ \A i \in Ids : main[i] \in may'[i]
    BY <1>6, <2>1 DEF Restart, FileFound
  <2>3. \A i \in Ids : Value(i)' = main[i]
    BY <1>6, <2>2, Sets DEF Restart, Loaded, Value
  <2> QED
    BY <1>6, <2>1, <2>2, <2>3 DEF MayInv
<1> QED
  BY <1>1, <1>2, <1>3, <1>4, <1>5, <1>6 DEF Next, RequestStep

\* Unless the process is killed between the two renames of syncToDisk, or a failed
\* rename cannot be undone, a restart finds for every task what the last successful
\* operation on it left, or what a failed or unfinished one since then was to leave.
THEOREM WhatWasAckedSurvives == RenamesHold => (Spec => []AckedSurvives)
<1> SUFFICES ASSUME RenamesHold PROVE Spec => []AckedSurvives
  OBVIOUS
<1>1. Init => Inv /\ MayInv
  BY InitInv
<1>2. (Inv /\ MayInv) /\ [Next]_vars => (Inv /\ MayInv)'
  BY InvStep, MayStep
<1>3. Inv /\ MayInv => AckedSurvives
  BY DEF MayInv, AckedSurvives, FileFound
<1> QED
  BY <1>1, <1>2, <1>3, PTL DEF Spec

-----------------------------------------------------------------------------
(* Deletions that were answered.  They outlive what the cache knows of them: the     *)
(* file and, as long as the file is away, its backup say the same, so that nothing   *)
(* a restart finds brings such a task back.                                          *)

Dead(t) == t # None => t.deleted
Marked(i) == cache[i] # None /\ heap[cache[i]].deleted
EndedFiles(i) ==
    /\ main # None => Dead(main[i])
    /\ (main = None /\ bak # None) => Dead(bak[i])

EndedInv ==
    /\ \A h \in Requests : req[h].pc = "swap" => main = None
    /\ \A h \in Deletes : Holding(h) => Marked(req[h].id)
    /\ \A i \in ended : Started(req, i) /\ ~Found(i) /\ EndedFiles(i)

LEMMA InitEnded == ASSUME Init PROVE EndedInv
<1>1. \A h \in Requests : req[h].pc = "idle"
  BY DEF Init
<1> QED
  BY <1>1, Sets DEF Init, EndedInv, Holding, DiskSteps

\* A request that has just taken the lock, with a change to some task.
LEMMA EndedChange ==
  ASSUME TypeInv, TypeInv', EndedInv, NEW h \in Requests,
         OthersMoveNot(h), lock' = h, req'[h].pc # "swap",
         UNCHANGED <<main, bak, ended>>,
         \A i \in ended : Found(i)' => Found(i),
         h \in Deletes => Marked(req[h].id)',
         \A g \in Requests : Started(req, g) => Started(req', g)
  PROVE  EndedInv'
<1>1. \A g \in Requests : req'[g].pc = "swap" => main' = None
  BY DEF EndedInv, OthersMoveNot
<1>2. ASSUME NEW g \in Deletes, Holding(g)' PROVE Marked(req[g].id)'
  <2>1. g = h
    BY <1>2, Sets DEF TypeInv, LockInv
  <2> QED
    BY <2>1
<1>3. ASSUME NEW i \in ended'
      PROVE  Started(req', i) /\ ~(Found(i)') /\ EndedFiles(i)'
  <2>1. i \in ended /\ i \in Requests
    BY <1>3, Sets DEF TypeInv, TypeOK
  <2>2. Started(req, i) /\ ~Found(i) /\ EndedFiles(i)
    BY <2>1 DEF EndedInv
  <2> QED
    BY <2>1, <2>2 DEF EndedFiles
<1> QED
  BY <1>1, <1>2, <1>3 DEF EndedInv

\* A writer that has the lock, and moves files.
LEMMA EndedMoves ==
  ASSUME TypeInv, TypeInv', EndedInv, NEW h \in Requests,
         OthersMoveNot(h), Holding(h), req'[h].id = req[h].id,
         cache' = cache, heap' = heap,
         req'[h].pc = "swap" => main' = None,
         \A i \in ended' : i \in Ids /\ Started(req, i) /\ ~Found(i) /\ EndedFiles(i)',
         \A g \in Requests : Started(req, g) => Started(req', g)
  PROVE  EndedInv'
<1>0. \A g \in Requests \ {h} : req[g].pc \notin DiskSteps
  BY OneHolder
<1>1. \A g \in Requests : req'[g].pc = "swap" => main' = None
  BY <1>0 DEF OthersMoveNot, DiskSteps
<1>2. ASSUME NEW g \in Deletes, Holding(g)' PROVE Marked(req[g].id)'
  <2>1. g = h
    BY <1>0, <1>2, Sets DEF OthersMoveNot, Holding
  <2>2. Marked(req[h].id)
    BY <2>1 DEF EndedInv
  <2> QED
    BY <2>1, <2>2 DEF Marked
<1>3. ASSUME NEW i \in ended'
      PROVE  Started(req', i) /\ ~(Found(i)') /\ EndedFiles(i)'
  <2>1. i \in Requests /\ Started(req, i) /\ ~Found(i) /\ EndedFiles(i)'
    BY <1>3, Sets
  <2> QED
    BY <2>1 DEF Found
<1> QED
  BY <1>1, <1>2, <1>3 DEF EndedInv

LEMMA EndedStep ==
  ASSUME Inv, EndedInv, [Next]_vars
  PROVE  EndedInv'
<1> USE DEF Inv
<1>0. TypeInv' /\ None \notin File /\ ended \subseteq Ids
  BY StepType, TaskAssumption DEF TypeInv, TypeOK
<1>1. CASE UNCHANGED vars
  BY <1>1 DEF vars, memory, files, EndedInv, EndedFiles, Holding, Marked, Started, Dead, Found
<1>2. ASSUME NEW h \in Requests, AddCache(h) \/ UpdateCache(h) \/ DeleteMark(h)
      PROVE  EndedInv'
  <2>1. OthersMoveNot(h) /\ req'[h].pc # "swap" /\ lock' = h /\ UNCHANGED <<main, bak, ended>>
    BY <1>2, Position DEF RequestStep, AddCache, UpdateCache, DeleteMark, Enter, files
  <2>2. \A g \in Requests : Started(req, g) => Started(req', g)
    BY <1>2, StaysStarted DEF Next, RequestStep
  <2>3. CASE AddCache(h)
    <3>1. h \in Ids /\ h \notin Deletes /\ ~Started(req, h)
      BY <2>3, Sets, TaskAssumption DEF AddCache, Enter, Started
    <3>2. \A i \in Ids \ {h} : Found(i)' => Found(i)
      BY <2>3, AddCacheValue DEF Found
    <3>3. h \notin ended
      BY <3>1 DEF EndedInv
    <3> QED
      BY <1>0, <2>1, <2>2, <3>1, <3>2, <3>3, EndedChange
  <2>4. CASE UpdateCache(h)
    <3>1. h \notin Deletes
      BY <2>4, TaskAssumption DEF UpdateCache
    <3>2. PICK k \in Ids :
             /\ cache[k] # None /\ ~heap[cache[k]].deleted
             /\ \A i \in Ids : cache'[i] = IF i = k THEN h ELSE cache[i]
             /\ \A i \in Ids \ {k} : cache[i] # None => heap'[cache[i]] = heap[cache[i]]
      BY <2>4, UpdateCacheValue
    <3>3. k \notin ended
      BY <3>2 DEF EndedInv, Found
    <3>4. \A i \in Ids \ {k} : Found(i)' => Found(i)
      BY <3>2 DEF Found
    <3> QED
      BY <1>0, <2>1, <2>2, <3>1, <3>3, <3>4, EndedChange
  <2>5. CASE DeleteMark(h)
    <3>1. Marked(req[h].id)' /\ \A i \in Ids : Found(i)' => Found(i)
      BY <2>5, DeleteMarkValue DEF Marked
    <3> QED
      BY <1>0, <2>1, <2>2, <3>1, EndedChange
  <2> QED
    BY <1>2, <2>3, <2>4, <2>5
<1>3. ASSUME NEW h \in Requests,
             AddAppend(h) \/ WriteTmp(h) \/ Backup(h) \/ Swap(h) \/ Unbak(h)
      PROVE  EndedInv'
  <2>1. OthersMoveNot(h) /\ Holding(h) /\ lock = h
    BY <1>3, Position, HolderOf DEF RequestStep, TypeInv, LockInv
  <2>2. \A g \in Requests : Started(req, g) => Started(req', g)
    BY <1>3, StaysStarted DEF Next, RequestStep
  <2>3. cache' = cache /\ heap' = heap
    BY <1>3 DEF AddAppend, WriteTmp, Backup, Swap, Unbak, Succeed, Fail, memory
  <2>4. req'[h].id = req[h].id
    <3>1. PICK pc \in {"backup", "swap", "unbak", "done", "failed"} : req' = Moved(h, pc)
      BY <1>3 DEF AddAppend, WriteTmp, Backup, Swap, Unbak, Succeed, Fail
    <3>2. pc \in Pcs
      BY DEF Pcs, DiskSteps
    <3> QED
      BY <3>1, <3>2, MovedReq DEF TypeInv
  <2>5. \A i \in ended : i \in Ids /\ Started(req, i) /\ ~Found(i) /\ EndedFiles(i)
    BY <1>0 DEF EndedInv
  <2>6. \A i \in ended : Dead(Value(i))
    BY <2>5 DEF Found, Value, Dead
  <2>7. CASE AddAppend(h)
    <3>1. h \in Ids /\ h \notin Deletes /\ req'[h].pc # "swap"
      BY <2>1, <2>7, Sets, TaskAssumption, Position DEF AddAppend, TypeInv, LockInv, RequestStep
    <3>2. FileFound \in File /\ Appended(h) \in File /\ main' \in {main, FileFound, Appended(h)}
      BY <2>7, <3>1, Fields DEF AddAppend, TypeInv, Appended, File
    <3>3. \A i \in ended : Dead(FileFound[i]) /\ Dead(Appended(h)[i])
      BY <2>5, <2>6, <3>1, <3>2 DEF EndedFiles, FileFound, EmptyFile, Appended, File, Dead
    <3>4. ended' = ended /\ bak' = bak
      BY <2>7, <3>1 DEF AddAppend, Succeed, Fail
    <3>5. \A i \in ended : EndedFiles(i)'
      BY <1>0, <2>5, <3>2, <3>3, <3>4 DEF EndedFiles
    <3> QED
      BY <1>0, <2>1, <2>2, <2>3, <2>4, <2>5, <3>1, <3>4, <3>5, EndedMoves
  <2>8. CASE WriteTmp(h)
    <3>1. UNCHANGED <<main, bak, ended>> /\ req'[h].pc # "swap"
      BY <2>8, Position DEF WriteTmp, Fail, RequestStep
    <3> QED
      BY <1>0, <2>1, <2>2, <2>3, <2>4, <2>5, <3>1, EndedMoves DEF EndedFiles
  <2>9. CASE Backup(h)
    <3>1. ended' = ended
      BY <2>9 DEF Backup, Fail
    <3>2. req'[h].pc = "swap" => main' = None
      BY <2>9, FailType, <2>1 DEF Backup
    <3>3. \/ main' = None /\ bak' = main /\ main # None
          \/ main' = main /\ bak' = bak
      BY <2>9 DEF Backup
    <3>4. \A i \in ended : EndedFiles(i)'
      BY <2>5, <3>3 DEF EndedFiles
    <3> QED
      BY <1>0, <2>1, <2>2, <2>3, <2>4, <2>5, <3>1, <3>2, <3>4, EndedMoves
  <2>10. CASE Swap(h)
    <3>1. ended' = ended /\ main = None /\ tmp = Contents /\ req'[h].pc # "swap"
      BY <2>10, Position DEF Swap, Fail, EndedInv, SyncInv, RequestStep
    <3>2. \/ main' = Contents
          \/ main' = bak /\ bak' = None
          \/ main' = main /\ bak' = bak
      BY <2>10, <3>1 DEF Swap, Restored, files
    <3>3. \A i \in ended : Dead(Contents[i])
      BY <2>5, <2>6 DEF Contents
    <3>4. Contents # None
      BY <1>0, Fields DEF TypeInv
    <3>5. \A i \in ended : EndedFiles(i)'
      BY <2>5, <3>1, <3>2, <3>3, <3>4 DEF EndedFiles
    <3> QED
      BY <1>0, <2>1, <2>2, <2>3, <2>4, <2>5, <3>1, <3>5, EndedMoves
  <2>11. CASE Unbak(h)
    <3>1. /\ main' = Contents /\ Contents # None /\ req'[h].pc # "swap"
          /\ ended' \subseteq ended \cup {req[h].id}
          /\ h \notin Deletes => ended' = ended
      <4>1. main = Contents /\ Contents \in File
        BY <2>11, Fields DEF Unbak, SyncInv, TypeInv
      <4> QED
        BY <1>0, <2>11, <4>1, Position DEF Unbak, Succeed, RequestStep
    <3>2. h \in Deletes => Marked(req[h].id) /\ req[h].id \in Ids
      BY <2>1 DEF EndedInv, TypeInv, LockInv
    <3>3. h \in Deletes => Started(req, req[h].id) /\ ~Found(req[h].id) /\ Dead(Value(req[h].id))
      BY <3>2 DEF Marked, Found, ObjectInv, Dead, Value
    <3>4. \A i \in ended' : i \in Ids /\ Started(req, i) /\ ~Found(i) /\ Dead(Value(i))
      BY <2>5, <2>6, <3>1, <3>2, <3>3
    <3>5. \A i \in ended' : EndedFiles(i)'
      BY <3>1, <3>4 DEF EndedFiles, Contents
    <3> QED
      BY <1>0, <2>1, <2>2, <2>3, <2>4, <3>1, <3>4, <3>5, EndedMoves
  <2> QED
    BY <1>3, <2>7, <2>8, <2>9, <2>10, <2>11
<1>4. ASSUME NEW h \in Requests, NotFound(h) \/ ListArrive(h) \/ List(h) \/ Encode(h)
      PROVE  EndedInv'
  <2>1. UNCHANGED <<memory, lock, files, ended>>
    BY <1>4 DEF NotFound, ListArrive, List, Encode
  <2>2. OthersMoveNot(h) /\ req'[h].pc \notin DiskSteps
    BY <1>4, Position DEF RequestStep
  <2>3. \A g \in Requests : Started(req, g) => Started(req', g)
    BY <1>4, StaysStarted DEF Next, RequestStep
  <2>4. \A g \in Requests : req'[g].pc \in DiskSteps => req'[g] = req[g]
    BY <2>2 DEF OthersMoveNot
  <2>5. \A g \in Requests : req'[g].pc = "swap" => main' = None
    BY <2>1, <2>4 DEF EndedInv, files, DiskSteps
  <2>6. \A g \in Deletes : Holding(g)' => Marked(req[g].id)'
    BY <2>1, <2>4, Sets DEF EndedInv, Holding, Marked, memory
  <2>7. ASSUME NEW i \in ended'
        PROVE  Started(req', i) /\ ~(Found(i)') /\ EndedFiles(i)'
    <3>1. i \in ended /\ i \in Requests
      BY <1>0, <2>1, <2>7, Sets
    <3>2. Started(req, i) /\ ~Found(i) /\ EndedFiles(i)
      BY <3>1 DEF EndedInv
    <3> QED
      BY <2>1, <2>3, <3>1, <3>2 DEF Found, EndedFiles, memory, files
  <2> QED
    BY <2>5, <2>6, <2>7 DEF EndedInv
<1>5. CASE Crash
  <2>1. /\ UNCHANGED <<memory, files, ended>>
        /\ \A g \in Requests : req'[g].pc \notin DiskSteps
    BY <1>0, <1>5, CrashType, Sets DEF Crash, TypeInv, LockInv, Holding
  <2>2. \A g \in Requests : Started(req, g) => Started(req', g)
    BY <1>5, StaysStarted DEF Next
  <2> QED
    BY <1>0, <2>1, <2>2, Sets DEF EndedInv, Found, EndedFiles, Holding, DiskSteps, memory, files
<1>6. CASE Restart
  <2>1. \A g \in Requests : req'[g] = req[g] /\ req[g].pc \notin DiskSteps
    BY <1>6, Sets DEF Restart, TypeInv, LockInv, Holding
  <2>2. ended' = ended /\ main' = FileFound /\ FileFound # None
    BY <1>0, <1>6, Fields DEF Restart, TypeInv
  <2>3. \A i \in ended : Dead(FileFound[i])
    BY <1>0 DEF EndedInv, EndedFiles, FileFound, EmptyFile, Dead
  <2>4. \A i \in Ids : cache'[i] # None => i \in Writers /\ heap'[cache'[i]] = FileFound[i] /\ FileFound[i] # None
    BY <1>6, Sets DEF Restart, Loaded
  <2>5. \A i \in ended : ~(Found(i)')
    BY <1>0, <2>3, <2>4 DEF Found, Dead
  <2>6. \A i \in ended' : Started(req', i) /\ ~(Found(i)') /\ EndedFiles(i)'
    BY <1>0, <2>1, <2>2, <2>3, <2>5, Sets DEF EndedInv, EndedFiles, Started
  <2> QED
    BY <2>1, <2>6, Sets DEF EndedInv, Holding, DiskSteps
<1> QED
  BY <1>1, <1>2, <1>3, <1>4, <1>5, <1>6 DEF Next, RequestStep

-----------------------------------------------------------------------------
(* Answers in the making.  A list holds objects, not copies of them, so what it     *)
(* shows depends on who writes to an object after it was collected: nobody but a    *)
(* deletion, for an update makes an object of its own.                              *)

Listing(h) == req[h].pc \in {"lock", "encode"}

\* The snapshot p still shows, and the deletion of it at most.
Shows(p) == heap[p[1]] \in {p[2], [p[2] EXCEPT !.deleted = TRUE]}

ListInv ==
    /\ ~up => \A h \in Lists : ~Listing(h)
    /\ \A h \in Lists : answer[h].gone \subseteq ended
    /\ \A h \in Lists : req[h].pc = "encode" =>
          \A p \in answer[h].listed :
              Started(req, p[1]) /\ p[2].id \notin answer[h].gone /\ Shows(p)

\* While the process runs, objects that were made are left alone but for their mark.
ObjectsStay ==
    \A o \in Writers : Started(req, o) =>
        heap'[o] \in {heap[o], [heap[o] EXCEPT !.deleted = TRUE]}

LEMMA ObjectsStayStep ==
  ASSUME TypeInv, ObjectInv, NEW h \in Requests, RequestStep(h)
  PROVE  ObjectsStay
<1>1. CASE AddCache(h)
  <2>1. h \in Ids /\ ~Started(req, h)
    BY <1>1, Sets DEF AddCache, Enter, Started
  <2>2. PICK t : heap' = [heap EXCEPT ![h] = t] /\ cache' = [cache EXCEPT ![h] = h]
    BY <1>1 DEF AddCache
  <2>3. \A o \in Writers : Started(req, o) => heap'[o] = heap[o]
    BY <2>1, <2>2 DEF TypeInv, TypeOK
  <2> QED
    BY <2>3 DEF ObjectsStay
<1>2. CASE UpdateCache(h)
  <2>1. h \in Writers /\ ~Started(req, h)
    BY <1>2 DEF UpdateCache, Enter, Started, Writers
  <2>2. PICK k, t : /\ Found(k)
                    /\ heap' = [heap EXCEPT ![h] = t] /\ cache' = [cache EXCEPT ![k] = h]
    BY <1>2 DEF UpdateCache, UpdatedCopy
  <2>3. \A o \in Writers : Started(req, o) => heap'[o] = heap[o]
    BY <2>1, <2>2 DEF TypeInv, TypeOK
  <2> QED
    BY <2>3 DEF ObjectsStay
<1>3. CASE DeleteMark(h)
  <2>1. PICK o : heap' = [heap EXCEPT ![o].deleted = TRUE]
    BY <1>3 DEF DeleteMark
  <2>2. \A q \in Writers : heap'[q] \in {heap[q], [heap[q] EXCEPT !.deleted = TRUE]}
    BY <2>1 DEF TypeInv, TypeOK
  <2> QED
    BY <2>2 DEF ObjectsStay
<1>4. CASE cache' = cache /\ heap' = heap
  BY <1>4 DEF ObjectsStay
<1> QED
  BY <1>1, <1>2, <1>3, <1>4 DEF RequestStep, AddAppend, NotFound, WriteTmp, Backup, Swap, Unbak,
     ListArrive, List, Encode, Succeed, Fail, memory

LEMMA ShowsStays ==
  ASSUME TypeInv, ObjectsStay, NEW p \in Writers \X Task, Started(req, p[1]), Shows(p)
  PROVE  Shows(p)'
<1>1. p[1] \in Writers /\ p[2] \in Task
  OBVIOUS
<1>2. heap'[p[1]] \in {heap[p[1]], [heap[p[1]] EXCEPT !.deleted = TRUE]}
  BY <1>1 DEF ObjectsStay
<1> QED
  BY <1>1, <1>2 DEF Shows, Task

LEMMA ListStep ==
  ASSUME Inv, EndedInv, ListInv, [Next]_vars
  PROVE  ListInv'
<1> USE DEF Inv
<1>1. ended \subseteq ended'
  BY DEF Next, RequestStep, AddCache, AddAppend, NotFound, UpdateCache, DeleteMark, WriteTmp,
     Backup, Swap, Unbak, ListArrive, List, Encode, Succeed, Fail, Crash, Restart, vars
<1>2. CASE UNCHANGED vars
  BY <1>2 DEF vars, memory, ListInv, Listing, Shows, Started
<1>3. ASSUME NEW h \in Requests, RequestStep(h) PROVE ListInv'
  <2>0. up /\ up' = up /\ OthersMoveNot(h)
    BY <1>3, Position DEF RequestStep, AddCache, AddAppend, NotFound, UpdateCache, DeleteMark, Enter, WriteTmp,
       Backup, Swap, Unbak, ListArrive, List, Encode, Succeed, Fail
  <2>1. ObjectsStay /\ \A o \in Writers : Started(req, o) => Started(req', o)
    BY <1>3, ObjectsStayStep, StaysStarted, Sets DEF Next
  <2>2. \A g \in Lists : answer[g].listed \subseteq Writers \X Task
    BY DEF TypeInv, TypeOK, Answer
  <2>3. ASSUME NEW g \in Lists, g # h
        PROVE  /\ req'[g] = req[g] /\ answer'[g] = answer[g]
    <3>1. req'[g] = req[g]
      BY <2>0, <2>3, Sets DEF OthersMoveNot
    <3>2. answer'[g] = answer[g]
      BY <1>3, <2>3 DEF RequestStep, AddCache, AddAppend, NotFound, UpdateCache, DeleteMark, WriteTmp,
         Backup, Swap, Unbak, ListArrive, List, Encode, Succeed, Fail, TypeInv, TypeOK
    <3> QED
      BY <3>1, <3>2
  <2>4. ASSUME NEW g \in Lists, req'[g] = req[g], answer'[g] = answer[g]
        PROVE  /\ answer'[g].gone \subseteq ended'
               /\ req'[g].pc = "encode" => \A p \in answer'[g].listed :
                     Started(req', p[1]) /\ p[2].id \notin answer'[g].gone /\ Shows(p)'
    <3>1. answer'[g].gone \subseteq ended'
      BY <1>1, <2>4 DEF ListInv
    <3>2. ASSUME req'[g].pc = "encode", NEW p \in answer'[g].listed
          PROVE  Started(req', p[1]) /\ p[2].id \notin answer'[g].gone /\ Shows(p)'
      <4>1. p \in Writers \X Task /\ Started(req, p[1]) /\ p[2].id \notin answer[g].gone /\ Shows(p)
        BY <2>2, <2>4, <3>2 DEF ListInv
      <4> QED
        BY <2>1, <2>4, <4>1, ShowsStays
    <3> QED
      BY <3>1, <3>2
  <2>5. ASSUME h \in Lists
        PROVE  /\ answer'[h].gone \subseteq ended'
               /\ req'[h].pc = "encode" => \A p \in answer'[h].listed :
                     Started(req', p[1]) /\ p[2].id \notin answer'[h].gone /\ Shows(p)'
    <3>1. CASE ListArrive(h)
      BY <1>1, <2>5, <3>1 DEF ListArrive, Moved, TypeInv, TypeOK, Answer
    <3>2. CASE List(h)
      <4>1. /\ cache' = cache /\ heap' = heap
            /\ answer'[h].gone = answer[h].gone
            /\ answer'[h].listed = {<<o, heap[o]>> : o \in LiveObjects}
        BY <2>5, <3>2 DEF List, memory, TypeInv, TypeOK, Answer
      <4>2. answer[h].gone \subseteq ended
        BY <2>5 DEF ListInv
      <4>3. ASSUME NEW p \in answer'[h].listed
            PROVE  Started(req', p[1]) /\ p[2].id \notin answer'[h].gone /\ Shows(p)'
        <5>1. PICK o \in LiveObjects : p = <<o, heap[o]>>
          BY <4>1, <4>3
        <5>2. PICK j \in Ids : o = cache[j] /\ Found(j)
          BY <5>1 DEF LiveObjects
        <5>3. o \in Writers /\ Started(req, o) /\ heap[o].id = j
          BY <5>2, Fields DEF Found, ObjectInv, TypeInv
        <5>4. j \notin ended
          BY <5>2 DEF EndedInv
        <5>5. Shows(p)'
          BY <4>1, <5>1 DEF Shows
        <5> QED
          BY <2>1, <4>1, <4>2, <5>1, <5>3, <5>4, <5>5
      <4> QED
        BY <1>1, <4>1, <4>2, <4>3
    <3>3. CASE Encode(h) \/ (~ListArrive(h) /\ ~List(h))
      <4>1. h \notin Adds /\ h \notin Updates \cup Deletes /\ ~Holding(h)
        BY <2>5, TaskAssumption DEF TypeInv, LockInv
      <4>2. Encode(h)
        BY <1>3, <3>3, <4>1 DEF RequestStep, AddCache, AddAppend, NotFound, UpdateCache, DeleteMark,
           WriteTmp, Backup, Swap, Unbak, Holding, DiskSteps
      <4>3. req'[h].pc = "done" /\ answer' = answer
        BY <4>2, MovedReq DEF Encode, TypeInv, Pcs
      <4> QED
        BY <1>1, <2>5, <4>3 DEF ListInv
    <3> QED
      BY <3>1, <3>2, <3>3
  <2>6. \A g \in Lists :
               /\ answer'[g].gone \subseteq ended'
               /\ req'[g].pc = "encode" => \A p \in answer'[g].listed :
                     Started(req', p[1]) /\ p[2].id \notin answer'[g].gone /\ Shows(p)'
    BY <2>3, <2>4, <2>5
  <2> QED
    BY <2>0, <2>6 DEF ListInv
<1>4. CASE Crash
  <2>1. \A h \in Lists : ~(Listing(h)')
    BY <1>4, Sets DEF Crash, Listing, TypeInv, TypeOK
  <2>2. answer' = answer
    BY <1>4 DEF Crash
  <2> QED
    BY <1>1, <2>1, <2>2 DEF ListInv, Listing
<1>5. CASE Restart
  <2>1. \A h \in Lists : ~(Listing(h)')
    BY <1>5 DEF Restart, ListInv, Listing
  <2>2. answer' = answer
    BY <1>5 DEF Restart
  <2> QED
    BY <1>1, <2>1, <2>2 DEF ListInv, Listing
<1> QED
  BY <1>2, <1>3, <1>4, <1>5 DEF Next

\* storage.go:128, 177: an answer that is encoded outside the lock shows no task whose
\* deletion was answered at any time before the list was asked for, in this life of the
\* process or an earlier one; and of the tasks it shows, nothing that was written later,
\* other than a deletion: whatever fails, and wherever the process is killed, the gap
\* between the two renames of syncToDisk included.
THEOREM ListsAreSnapshots == Spec => []AnswersAreSnapshots
<1>1. Init => Inv /\ EndedInv /\ ListInv
  <2> SUFFICES ASSUME Init PROVE Inv /\ EndedInv /\ ListInv
    OBVIOUS
  <2>1. \A h \in Lists : req[h].pc = "idle" /\ answer[h].gone = {}
    BY Sets DEF Init
  <2> QED
    BY <2>1, InitInv, InitEnded DEF ListInv, Listing
<1>2. (Inv /\ EndedInv /\ ListInv) /\ [Next]_vars => (Inv /\ EndedInv /\ ListInv)'
  BY InvStep, EndedStep, ListStep
<1>3. Inv /\ EndedInv /\ ListInv => AnswersAreSnapshots
  BY DEF ListInv, AnswersAreSnapshots, Shows
<1> QED
  BY <1>1, <1>2, <1>3, PTL DEF Spec

-----------------------------------------------------------------------------
(* The contract.  A change is seen when its request has written to the cache, and is *)
(* open while the request holds the lock; what the disk steps do in between is of no *)
(* concern to the contract, except that each file that a restart may find holds only *)
(* what is safe, which is MayInv.                                                    *)

LEMMA OneChanged ==
  ASSUME NEW k \in Ids, NEW t, Value(k)' = t,
         \A i \in Ids \ {k} : Value(i)' = Value(i)
  PROVE  Contents' = [Contents EXCEPT ![k] = t]
  BY DEF Contents

LEMMA SameContents ==
  ASSUME cache' = cache, heap' = heap PROVE Contents' = Contents
  BY DEF Contents, Value

\* Nothing the contract speaks of changes but what is open.
LEMMA MovedOpen ==
  ASSUME TypeInv, NEW h \in Requests, NEW pc \in Pcs, req' = Moved(h, pc), lock' = lock
  PROVE  Open' = Open
<1>1. lock \in Requests \cup {None}
  BY DEF TypeInv, TypeOK
<1>2. \A g \in Requests : req'[g].id = req[g].id
  BY MovedReq DEF TypeInv
<1> QED
  BY <1>1, <1>2 DEF Open

\* A request that enters with a change opens it.
LEMMA ChangeRefines ==
  ASSUME TypeInv, NEW h \in Requests, NEW call \in Idle, NEW pc \in {"append", "tmp"},
         Enter(h, call, pc), call.id \in Ids, up' = up,
         NEW t \in Task, t.id = call.id, Contract!MayBecome(call.id, t),
         Value(call.id)' = t, \A i \in Ids \ {call.id} : Value(i)' = Value(i),
         Remember(call.id, t)
  PROVE  [Contract!Next]_(Contract!vars)
<1>1. up /\ lock = None /\ lock' = h /\ req'[h].id = call.id
  BY EnterReq DEF TypeInv, Pcs, DiskSteps
<1>2. Open = None /\ Open' = call.id
  BY <1>1, Sets DEF Open
<1>3. Contents' = [Contents EXCEPT ![call.id] = t]
  BY OneChanged
<1>4. Contract!Change(call.id)
  BY <1>1, <1>2, <1>3 DEF Contract!Change, Remember
<1> QED
  BY <1>4 DEF Contract!Next

LEMMA AddRefines ==
  ASSUME Inv, NEW h \in Requests, AddCache(h)
  PROVE  [Contract!Next]_(Contract!vars)
<1> DEFINE new(done) == [id |-> h, title |-> h, done |-> done, deleted |-> FALSE]
<1>1. PICK done \in BOOLEAN : /\ Enter(h, AddCall(h, done), "append")
                              /\ heap' = [heap EXCEPT ![h] = new(done)]
                              /\ Remember(h, new(done))
  BY DEF AddCache
<1>2. h \in Ids /\ h \in Writers /\ h # None
  BY Sets DEF AddCache
<1>3. PICK t \in Task : t = new(done) /\ t.id = h /\ ~t.deleted
  <2>1. new(done) \in Task /\ new(done).id = h /\ ~new(done).deleted
    BY <1>2 DEF Task
  <2> QED
    BY <2>1
<1>4. PICK call \in Idle : call = AddCall(h, done) /\ call.id = h
  <2>1. AddCall(h, done) \in Idle /\ AddCall(h, done).id = h
    BY <1>2 DEF Idle, AddCall
  <2> QED
    BY <2>1
<1> HIDE DEF new
<1>5. /\ Value(h)' = t
      /\ \A i \in Ids \ {h} : Value(i)' = Value(i)
  <2>1. heap'[h] = t
    BY <1>1, <1>2, <1>3 DEF Inv, TypeInv, TypeOK
  <2> QED
    BY <1>2, <2>1, AddCacheValue DEF Inv, Value
<1>6. Contract!MayBecome(h, t)
  <2>1. cache[h] = None
    BY <1>1, <1>2 DEF Enter, Inv, ObjectInv, Started
  <2> QED
    BY <1>2, <1>3, <2>1 DEF Contract!MayBecome, Contents, Value
<1> QED
  BY <1>1, <1>2, <1>3, <1>4, <1>5, <1>6, ChangeRefines DEF AddCache, Inv

LEMMA UpdateRefines ==
  ASSUME Inv, NEW h \in Requests, UpdateCache(h)
  PROVE  [Contract!Next]_(Contract!vars)
<1>1. h \in Updates /\ h \in Writers /\ h # None
  BY Sets DEF UpdateCache, Writers
<1>2. PICK call \in UpdateCalls(h) :
          /\ Found(call.id)
          /\ Enter(h, call, "tmp")
          /\ heap' = [heap EXCEPT ![h] = Merged(call)]
          /\ cache' = [cache EXCEPT ![call.id] = h]
          /\ Remember(call.id, Merged(call))
  BY DEF UpdateCache, UpdatedCopy
<1> DEFINE k == call.id
           old == Value(k)
<1>3. /\ call \in Idle /\ k \in Ids /\ old \in Task /\ Merged(call) \in Task
      /\ cache[k] # None /\ ~old.deleted
  BY <1>1, <1>2, MergedType DEF Inv, TypeInv, Found, Value
<1>4. PICK t \in Task : t = Merged(call)
  BY <1>3
<1>5. t.id = k /\ ~t.deleted
  <2>1. t.id = old.id /\ t.deleted = old.deleted
    BY <1>3, <1>4 DEF Merged, Task
  <2>2. old.id = k
    BY <1>3 DEF Inv, ObjectInv, Value
  <2> QED
    BY <1>3, <2>1, <2>2
<1> HIDE DEF k, old
<1>6. \A i \in Ids : cache'[i] = IF i = k THEN h ELSE cache[i]
  BY <1>2, <1>3 DEF Inv, TypeInv, TypeOK, k
<1>7. \A o \in Writers : heap'[o] = IF o = h THEN t ELSE heap[o]
  BY <1>2, <1>4 DEF Inv, TypeInv, TypeOK
<1>8. \A i \in Ids : cache[i] # h
  BY <1>1, <1>2 DEF Enter, Inv, ObjectInv, Started
<1>9. Value(k)' = t /\ \A i \in Ids \ {k} : Value(i)' = Value(i)
  BY <1>1, <1>3, <1>6, <1>7, <1>8, Fields DEF Value, Inv, TypeInv
<1>10. Contract!MayBecome(k, t)
  BY <1>3, <1>5 DEF Contract!MayBecome, Contract!There, Contents, old
<1>11. Remember(k, t) /\ up' = up
  BY <1>2, <1>4 DEF UpdateCache, k
<1> QED
  BY <1>2, <1>3, <1>5, <1>9, <1>10, <1>11, ChangeRefines DEF Inv, k

LEMMA DeleteRefines ==
  ASSUME Inv, NEW h \in Requests, DeleteMark(h)
  PROVE  [Contract!Next]_(Contract!vars)
<1>1. PICK call \in DeleteCalls :
          /\ Found(call.id)
          /\ Enter(h, call, "tmp")
          /\ heap' = [heap EXCEPT ![cache[call.id]].deleted = TRUE]
          /\ Remember(call.id, [Value(call.id) EXCEPT !.deleted = TRUE])
  BY DEF DeleteMark
<1> DEFINE k == call.id
           o == cache[k]
           old == heap[o]
<1>2. call \in Idle /\ k \in Ids /\ o \in Writers /\ o # None /\ old \in Task /\ ~old.deleted
  BY <1>1, Fields DEF DeleteCalls, Idle, Found, Inv, TypeInv
<1>3. Value(k) = old /\ old.id = k
  BY <1>2 DEF Value, Inv, ObjectInv
<1>4. PICK t \in Task : t = [old EXCEPT !.deleted = TRUE] /\ t.id = k
  <2>1. [old EXCEPT !.deleted = TRUE] \in Task /\ [old EXCEPT !.deleted = TRUE].id = old.id
    BY <1>2 DEF Task
  <2> QED
    BY <1>3, <2>1
<1>5. \A p \in Writers : heap'[p] = IF p = o THEN t ELSE heap[p]
  BY <1>1, <1>2, <1>4 DEF Inv, TypeInv, TypeOK
<1>6. cache' = cache /\ up' = up /\ Remember(k, t)
  BY <1>1, <1>3, <1>4 DEF DeleteMark
<1> HIDE DEF k, o, old
<1>7. \A i \in Ids \ {k} : cache[i] # None => cache[i] # o
  BY <1>2 DEF Inv, ObjectInv, o
<1>8. Value(k)' = t
  BY <1>2, <1>5, <1>6 DEF Value, o
<1>9. \A i \in Ids \ {k} : Value(i)' = Value(i)
  BY <1>5, <1>6, <1>7, Fields DEF Value, Inv, TypeInv
<1>10. Contract!MayBecome(k, t)
  BY <1>2, <1>3, <1>4 DEF Contract!MayBecome, Contract!There, Contents
<1> QED
  BY <1>1, <1>2, <1>4, <1>6, <1>8, <1>9, <1>10, ChangeRefines DEF Inv, k

\* The two ways out of a critical section close the change.
LEMMA SucceedRefines ==
  ASSUME TypeInv, NEW h \in Requests, Holding(h), up, Succeed(h)
  PROVE  [Contract!Next]_(Contract!vars)
<1>1. lock = h /\ req[h].id \in Ids /\ lock' = None
  BY DEF TypeInv, LockInv, Succeed
<1>2. Open = req[h].id /\ Open # None /\ Open' = None
  BY <1>1, Sets DEF Open
<1>3. Contents' = Contents /\ Contents[Open] = Value(Open)
  BY <1>1, <1>2, SameContents DEF Succeed, Contents
<1>4. Contract!Acknowledge
  BY <1>2, <1>3 DEF Contract!Acknowledge, Succeed
<1> QED
  BY <1>4 DEF Contract!Next

LEMMA FailRefines ==
  ASSUME TypeInv, NEW h \in Requests, Holding(h), up, NEW step, Fail(h, step)
  PROVE  [Contract!Next]_(Contract!vars)
<1>1. lock = h /\ req[h].id \in Ids /\ lock' = None
  BY DEF TypeInv, LockInv, Fail
<1>2. Open # None /\ Open' = None
  BY <1>1, Sets DEF Open
<1>3. Contents' = Contents
  BY SameContents DEF Fail
<1>4. Contract!GiveUp
  BY <1>2, <1>3 DEF Contract!GiveUp, Fail
<1> QED
  BY <1>4 DEF Contract!Next

\* A request that only moves on.
LEMMA MoveRefines ==
  ASSUME TypeInv, NEW h \in Requests, NEW pc \in Pcs, req' = Moved(h, pc),
         UNCHANGED <<up, memory, lock, may>>
  PROVE  UNCHANGED Contract!vars
<1>1. Contents' = Contents
  BY SameContents DEF memory
<1> QED
  BY <1>1, MovedOpen DEF Contract!vars

LEMMA RequestRefines ==
  ASSUME Inv, NEW h \in Requests, RequestStep(h)
  PROVE  [Contract!Next]_(Contract!vars)
<1>1. CASE AddCache(h) \/ UpdateCache(h) \/ DeleteMark(h)
  BY <1>1, AddRefines, UpdateRefines, DeleteRefines
<1>2. CASE AddAppend(h) \/ WriteTmp(h) \/ Backup(h) \/ Swap(h) \/ Unbak(h)
  <2>1. up /\ Holding(h)
    BY <1>2, HolderOf DEF Inv
  <2>2. \/ Succeed(h)
        \/ \E step \in DiskSteps : Fail(h, step)
        \/ \E pc \in Pcs : req' = Moved(h, pc) /\ UNCHANGED <<up, memory, lock, may>>
    BY <1>2 DEF AddAppend, WriteTmp, Backup, Swap, Unbak, Pcs, DiskSteps
  <2> QED
    BY <2>1, <2>2, SucceedRefines, FailRefines, MoveRefines DEF Inv
<1>3. CASE NotFound(h) \/ ListArrive(h) \/ List(h) \/ Encode(h)
  <2>1. \E pc \in Pcs : req' = Moved(h, pc) /\ UNCHANGED <<up, memory, lock, may>>
    BY <1>3 DEF NotFound, ListArrive, List, Encode, Pcs
  <2> QED
    BY <2>1, MoveRefines DEF Inv
<1> QED
  BY <1>1, <1>2, <1>3 DEF RequestStep

LEMMA CrashRefines ==
  ASSUME Crash PROVE [Contract!Next]_(Contract!vars)
<1>1. Contents' = Contents
  BY SameContents DEF Crash, memory
<1>2. Contract!Crash
  BY <1>1 DEF Contract!Crash, Crash, Open
<1> QED
  BY <1>2 DEF Contract!Next

LEMMA RestartRefines ==
  ASSUME Inv, MayInv, Restart PROVE [Contract!Next]_(Contract!vars)
<1>1. FileFound \in File /\ \A i \in Ids : FileFound[i] \in may[i]
  BY Fields DEF Restart, MayInv, FileFound, Inv, TypeInv
<1>2. \A i \in Ids : Value(i)' = FileFound[i]
  BY Sets DEF Restart, Loaded, Value
<1>3. Contents' = [i \in Ids |-> FileFound[i]]
  BY <1>2 DEF Contents
<1>4. Contents' \in [Ids -> Task \cup {None}] /\ \A i \in Ids : Contents'[i] = FileFound[i]
  BY <1>1, <1>3 DEF File
<1>5. may' = [i \in Ids |-> {Contents'[i]}]
  BY <1>4 DEF Restart
<1>6. Open = None /\ Open' = None
  BY DEF Restart, Open, Inv, TypeInv, LockInv
<1>7. Contract!Restart
  BY <1>1, <1>4, <1>5, <1>6 DEF Contract!Restart, Restart
<1> QED
  BY <1>7 DEF Contract!Next

LEMMA ContractStep ==
  ASSUME Inv, MayInv, [Next]_vars
  PROVE  [Contract!Next]_(Contract!vars)
<1>1. CASE UNCHANGED vars
  <2>1. Contents' = Contents
    BY <1>1, SameContents DEF vars, memory
  <2> QED
    BY <1>1, <2>1 DEF vars, Contract!vars, Open
<1> QED
  BY <1>1, RequestRefines, CrashRefines, RestartRefines DEF Next

\* Under the same condition the task manager, with its cache, its three files and its
\* lock, is a TaskContract, whatever its requests, failures and crashes.
THEOREM ManagerKeepsContract == RenamesHold => (Spec => KeepsContract)
<1> SUFFICES ASSUME RenamesHold PROVE Spec => KeepsContract
  OBVIOUS
<1>1. Init => Inv /\ MayInv
  BY InitInv
<1>2. (Inv /\ MayInv) /\ [Next]_vars => (Inv /\ MayInv)'
  BY InvStep, MayStep
<1>3. Init => Contract!Init
  <2> SUFFICES ASSUME Init PROVE Contract!Init
    OBVIOUS
  <2>1. Contents = [i \in Ids |-> None] /\ Open = None
    BY DEF Init, Contents, Value, Open
  <2> QED
    BY <2>1 DEF Init, Contract!Init
<1>4. (Inv /\ MayInv) /\ [Next]_vars => [Contract!Next]_(Contract!vars)
  BY ContractStep
<1> QED
  BY <1>1, <1>2, <1>3, <1>4, PTL DEF Spec, KeepsContract, Contract!Spec
=============================================================================
