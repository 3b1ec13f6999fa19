---------------------- MODULE ConversationMemory_proofs ----------------------
(***************************************************************************)
(* Theorems about the conversations, for every number of chats, every       *)
(* window and every number of kills.                                        *)
(***************************************************************************)
EXTENDS ConversationMemory, FiniteSetTheorems, SequenceTheorems, TLAPS

Saved == Message \cup {Zero}           \* what can be read from a file
Cells == Message \cup {Nil, Zero}      \* what the memory may hold
Writable == Message \cup {Nil, Garbled} \* what a write may leave

-----------------------------------------------------------------------------
(* Operators                                                               *)

LEMMA Constants ==
    /\ Window \in Nat \ {0} /\ MaxCrashes \in Nat /\ MaxFaults \in Nat
    /\ Nil \notin Message /\ Zero \notin Message /\ Garbled \notin Message
    /\ Garbled # Nil /\ Garbled # Zero
    /\ None \notin Seq(Cells)
BY ConversationAssumption DEF Cells

LEMMA QuestionType ==
  ASSUME NEW c \in Chats
  PROVE  Question(c) \in Message /\ Answer(c) \in Message \cup {Nil}
         /\ Saves(c) \in Message \cup {Nil}
BY DEF Question, Answer, Saves, Message

LEMMA JsonType ==
  ASSUME NEW m \in Cells
  PROVE  /\ Json(m) \in Saved
         /\ m \in Saved => Json(m) = m
BY Constants DEF Json, Saved, Cells

LEMMA WritableJson ==
  ASSUME NEW m \in Writable
  PROVE  /\ Json(m) \in Saved \cup {Garbled}
         /\ \A x \in Message : Json(m) = x => m = x
BY Constants DEF Json, Saved, Writable

\* The lines that load reads: those before the first that cannot be read.
LEMMA LoadReads ==
  ASSUME NEW f, f.lines \in Seq(Saved \cup {Garbled})
  PROVE  /\ Load(f) \in Seq(Saved) /\ Load(f) \in Seq(Saved \ TooLong)
         /\ Range(f.lines) \cap Unreadable = {} => Load(f) = f.lines
<1> DEFINE readable == {i \in DOMAIN f.lines : \A j \in 1..i : f.lines[j] \notin Unreadable}
           k == Cardinality(readable)
<1>1. DOMAIN f.lines = 1..Len(f.lines) /\ Len(f.lines) \in Nat
  OBVIOUS
<1>2. IsFiniteSet(1..Len(f.lines)) /\ Cardinality(1..Len(f.lines)) = Len(f.lines)
  BY <1>1, FS_Interval
<1>3. k \in Nat /\ k <= Len(f.lines)
  BY <1>1, <1>2, FS_Subset, FS_CardinalityType
<1> HIDE DEF k
<1>4. ASSUME NEW i \in 1..k PROVE f.lines[i] \in Saved \ TooLong
  <2> i \in Nat /\ i >= 1 /\ i <= k
    BY <1>3
  <2>1. SUFFICES ASSUME f.lines[i] \in Unreadable PROVE FALSE
    BY <1>1, <1>3 DEF Unreadable
  <2>2. readable \in SUBSET (1..(i - 1))
    <3>1. \A j \in readable : j \in Nat /\ j >= 1 /\ ~(i \in 1..j)
      BY <1>1, <2>1
    <3> QED
      BY <1>3, <3>1
  <2>3. IsFiniteSet(1..(i - 1)) /\ Cardinality(1..(i - 1)) = i - 1
    <3>1. i - 1 \in Int /\ (1 > i - 1 => i - 1 = 0)
      OBVIOUS
    <3>2. Cardinality(1..(i - 1)) = IF 1 > i - 1 THEN 0 ELSE (i - 1) - 1 + 1
      BY <3>1, FS_Interval
    <3>3. IsFiniteSet(1..(i - 1))
      BY <3>1, FS_Interval
    <3> QED
      BY <3>1, <3>2, <3>3
  <2>4. k <= i - 1
    BY <2>2, <2>3, FS_Subset DEF k
  <2> QED
    BY <1>3, <2>4
<1>5. Load(f) = SubSeq(f.lines, 1, k)
  BY DEF Load, k
<1>6. SubSeq(f.lines, 1, k) \in Seq(Saved \ TooLong)
  <2>1. 1 \in Int /\ k \in Int
    BY <1>3
  <2> QED
    BY <1>4, <2>1, SubSeqProperties
<1>7. ASSUME Range(f.lines) \cap Unreadable = {} PROVE SubSeq(f.lines, 1, k) = f.lines
  <2>1. readable = 1..Len(f.lines)
    BY <1>1, <1>7 DEF Range
  <2>2. k = Len(f.lines)
    BY <1>2, <2>1 DEF k
  <2> QED
    BY <2>2, SubSeqFull
<1> QED
  BY <1>5, <1>6, <1>7

\* load reads the lines before the first that cannot be read, and only these.
LEMMA LoadReadsTo ==
  ASSUME NEW f, f.lines \in Seq(Saved \cup {Garbled})
  PROVE  LET k == Len(Load(f))
         IN  /\ k \in Nat /\ k <= Len(f.lines)
             /\ \A i \in 1..k : Load(f)[i] = f.lines[i] /\ f.lines[i] \notin Unreadable
             /\ k < Len(f.lines) => f.lines[k + 1] \in Unreadable
<1> DEFINE readable == {i \in DOMAIN f.lines : \A j \in 1..i : f.lines[j] \notin Unreadable}
           k == Cardinality(readable)
<1>1. DOMAIN f.lines = 1..Len(f.lines) /\ Len(f.lines) \in Nat
  OBVIOUS
<1>2. IsFiniteSet(1..Len(f.lines)) /\ Cardinality(1..Len(f.lines)) = Len(f.lines)
  BY <1>1, FS_Interval
<1>3. k \in Nat /\ k <= Len(f.lines) /\ IsFiniteSet(readable)
  BY <1>1, <1>2, FS_Subset, FS_CardinalityType
<1>4. Load(f) = SubSeq(f.lines, 1, k)
  BY DEF Load
<1>5. Load(f) \in Seq(Saved \ TooLong)
  BY LoadReads
<1> HIDE DEF k
<1>6. Len(Load(f)) = k /\ \A i \in 1..k : Load(f)[i] = f.lines[i]
  <2>1. \A i \in 1..k : f.lines[i] \in Saved \cup {Garbled}
    BY <1>1, <1>3
  <2>2. 1 \in Int /\ k \in Int
    BY <1>3
  <2>3. /\ Len(SubSeq(f.lines, 1, k)) = IF 1 <= k THEN k - 1 + 1 ELSE 0
        /\ \A i \in 1..(k - 1 + 1) : SubSeq(f.lines, 1, k)[i] = f.lines[1 + i - 1]
    BY <2>1, <2>2, SubSeqProperties
  <2> QED
    BY <1>3, <1>4, <2>3
<1>7. ASSUME NEW i \in 1..k PROVE f.lines[i] \notin Unreadable
  <2>1. Load(f)[i] \in Saved \ TooLong
    BY <1>3, <1>5, <1>6
  <2> QED
    BY <1>6, <2>1, Constants DEF Saved, Unreadable
<1>8. ASSUME k < Len(f.lines), f.lines[k + 1] \notin Unreadable PROVE FALSE
  <2>1. 1..(k + 1) \subseteq readable
    BY <1>1, <1>3, <1>7, <1>8
  <2>2. IsFiniteSet(1..(k + 1)) /\ Cardinality(1..(k + 1)) = k + 1
    <3>1. k + 1 \in Int /\ ~(1 > k + 1)
      BY <1>3
    <3>2. IsFiniteSet(1..(k + 1)) /\ Cardinality(1..(k + 1)) = (k + 1) - 1 + 1
      BY <3>1, FS_Interval
    <3> QED
      BY <1>3, <3>2
  <2>3. Cardinality(1..(k + 1)) <= Cardinality(readable)
    BY <1>3, <2>1, FS_Subset
  <2> QED
    BY <1>3, <2>2, <2>3 DEF k
<1> QED
  BY <1>3, <1>6, <1>7, <1>8

LEMMA LinesType ==
  ASSUME TypeOK
  PROVE  file.lines \in Seq(Saved \cup {Garbled}) /\ Load(file) \in Seq(Saved)
<1>1. Saved \cup {Garbled} = Message \cup {Zero, Garbled}
  BY DEF Saved
<1>2. file.lines \in Seq(Saved \cup {Garbled})
  BY <1>1 DEF TypeOK
<1> QED
  BY <1>2, LoadReads

LEMMA LastOfType ==
  ASSUME NEW s \in Seq(Cells)
  PROVE  /\ LastOf(s) \in Seq(Cells)
         /\ Len(LastOf(s)) < Window => LastOf(s) = s
<1>1. Window \in Nat /\ Window >= 1 /\ Len(s) \in Nat
  BY Constants
<1>2. CASE Len(s) > Window
  <2>1. \A i \in (Len(s) - Window + 1)..Len(s) : s[i] \in Cells
    BY <1>1, <1>2
  <2>2. /\ SubSeq(s, Len(s) - Window + 1, Len(s)) \in Seq(Cells)
        /\ Len(SubSeq(s, Len(s) - Window + 1, Len(s))) = Window
    BY <1>1, <1>2, <2>1, SubSeqProperties
  <2> QED
    BY <1>1, <1>2, <2>2 DEF LastOf
<1>3. CASE ~(Len(s) > Window)
  BY <1>3 DEF LastOf
<1> QED
  BY <1>2, <1>3

\* What an append does to the range.
LEMMA RangeAppend ==
  ASSUME NEW S, NEW s \in Seq(S), NEW x \in S
  PROVE  Range(Append(s, x)) = Range(s) \cup {x}
<1>1. /\ DOMAIN s = 1..Len(s) /\ DOMAIN Append(s, x) = 1..(Len(s) + 1) /\ Len(s) \in Nat
      /\ \A i \in 1..Len(s) : Append(s, x)[i] = s[i]
      /\ Append(s, x)[Len(s) + 1] = x
  BY AppendProperties
<1> QED
  BY <1>1 DEF Range

-----------------------------------------------------------------------------
(* Types                                                                   *)

\* A chat that is being answered or saved has a conversation to be saved in.
Cached == Active # {} => conv # None
Types == TypeOK /\ Cached

FileType == [there : BOOLEAN, lines : Seq(Message \cup {Zero, Garbled}), open : BOOLEAN]

LEMMA InitType == Init => Types
<1> SUFFICES ASSUME Init PROVE Types
  OBVIOUS
<1>1. TypeOK
  <2>1. file \in FileType
    BY DEF Init, NoFile, FileType
  <2>2. history \in [Chats -> Seq(Message \cup {Nil, Zero})] /\ owes \in [Chats -> SUBSET Message]
    BY DEF Init
  <2>3. crashes \in 0..MaxCrashes /\ faults \in 0..MaxFaults
    BY Constants DEF Init
  <2> QED
    BY <2>1, <2>2, <2>3 DEF Init, TypeOK, FileType
<1>2. Active = {}
  BY DEF Init, Active, Saving
<1> QED
  BY <1>1, <1>2 DEF Types, Cached

LEMMA WrittenType ==
  ASSUME file \in FileType, NEW m \in Writable
  PROVE  Written(m) \in FileType
<1>1. Json(m) \in Saved \cup {Garbled}
  BY WritableJson
<1>2. CASE file.open
  <2> DEFINE ls == [file.lines EXCEPT ![Len(file.lines)] = Garbled]
  <2>1. file.lines \in Seq(Message \cup {Zero, Garbled})
    BY DEF FileType
  <2>2. ls \in Seq(Message \cup {Zero, Garbled})
    <3> DEFINE n == Len(file.lines)
    <3>1. n \in Nat /\ DOMAIN file.lines = 1..n
      BY <2>1
    <3>2. CASE n = 0
      <4>1. ls = file.lines
        BY <2>1, <3>1, <3>2
      <4> QED
        BY <2>1, <4>1
    <3>3. CASE n # 0
      <4>1. n \in 1..Len(file.lines) /\ Garbled \in Message \cup {Zero, Garbled}
        BY <3>1, <3>3
      <4> QED
        BY <2>1, <4>1, ExceptSeq
    <3> QED
      BY <3>2, <3>3
  <2>3. Written(m) = [file EXCEPT !.lines = ls]
    BY <1>2 DEF Written
  <2> HIDE DEF ls
  <2> QED
    BY <2>2, <2>3 DEF FileType
<1>3. CASE ~file.open
  BY <1>1, <1>3 DEF Written, FileType, Saved
<1> QED
  BY <1>2, <1>3

\* What a save leaves: its message, a line that holds none, or the lines as they were.
LEMMA AppendWrites ==
  ASSUME TypeOK, NEW c \in Chats, AppendMessage(c)
  PROVE  \E m \in Writable :
            /\ m \in {Saves(c), Garbled}
            /\ file'.lines = file.lines \/ file'.lines = Written(m).lines
<1>1. Saves(c) \in Writable /\ Garbled \in Writable
  BY QuestionType DEF Writable
<1>2. [file EXCEPT !.there = TRUE].lines = file.lines
  BY DEF TypeOK
<1>3. \/ file' = Written(Saves(c)) \/ file' = Written(Garbled)
      \/ file' = [file EXCEPT !.there = TRUE] \/ file' = file
  BY DEF AppendMessage
<1> HIDE DEF Written
<1> QED
  BY <1>1, <1>2, <1>3

LEMMA EndWrites ==
  ASSUME TypeOK, NEW c \in Chats, EndLine(c)
  PROVE  \/ file'.lines = file.lines
         \/ ~file.open /\ file'.lines = Written(Garbled).lines
<1>1. /\ [file EXCEPT !.open = FALSE].lines = file.lines
      /\ [file EXCEPT !.lines = Append(@, Garbled)].lines = Append(file.lines, Garbled)
  BY DEF TypeOK
<1>2. Json(Garbled) = Garbled
  BY Constants DEF Json
<1>3. ~file.open => Written(Garbled).lines = Append(file.lines, Garbled)
  BY <1>2 DEF Written
<1>4. \/ file' = [file EXCEPT !.open = FALSE] \/ file' = file
      \/ ~file.open /\ file' = [file EXCEPT !.lines = Append(@, Garbled)]
  BY DEF EndLine
<1> HIDE DEF Written
<1> QED
  BY <1>1, <1>3, <1>4

LEMMA ConversationType ==
  ASSUME TypeOK
  PROVE  Conversation \in Seq(Cells)
<1>1. file.lines \in Seq(Saved \cup {Garbled})
  <2>1. Saved \cup {Garbled} = Message \cup {Zero, Garbled}
    BY DEF Saved
  <2> QED
    BY <2>1 DEF TypeOK
<1>2. Load(file) \in Seq(Saved)
  BY <1>1, LoadReads
<1>3. Load(file) \in Seq(Cells)
  BY <1>2 DEF Saved, Cells
<1>4. conv # None => conv \in Seq(Cells)
  BY DEF TypeOK, Cells
<1> QED
  BY <1>3, <1>4 DEF Conversation

LEMMA StepType ==
  ASSUME Types, [Next]_vars
  PROVE  Types'
<1> TypeOK
  BY DEF Types
<1> USE Constants
<1>1. ASSUME NEW c \in Chats, Start(c) PROVE Types'
  <2>1. conv' \in Seq(Cells) /\ conv' # None
    BY <1>1, ConversationType DEF Start
  <2>2. file' \in FileType
    BY <1>1 DEF Start, TypeOK, FileType
  <2>3. /\ stage' \in [Chats -> {"idle", "running"} \cup Saving \cup Ended]
        /\ history' \in [Chats -> Seq(Cells)]
        /\ owes' \in [Chats -> SUBSET Message]
        /\ overlapped' \subseteq Chats
    <3>1. LastOf(conv') \in Seq(Cells)
      BY <2>1, LastOfType
    <3>2. history \in [Chats -> Seq(Cells)]
      BY DEF TypeOK, Cells
    <3>3. CASE stage' = [stage EXCEPT ![c] = "running"] /\ history' = [history EXCEPT ![c] = LastOf(conv')]
               /\ owes' = [owes EXCEPT ![c] = owed]
               /\ overlapped' = IF Active = {} THEN overlapped ELSE overlapped \cup Active \cup {c}
      <4>1. Active \subseteq Chats
        BY DEF Active
      <4>2. history' \in [Chats -> Seq(Cells)] /\ owes' \in [Chats -> SUBSET Message]
        BY <3>1, <3>2, <3>3 DEF TypeOK
      <4> QED
        BY <3>3, <4>1, <4>2 DEF TypeOK
    <3>4. CASE stage' = [stage EXCEPT ![c] = "failed"] /\ UNCHANGED <<history, owes, overlapped>>
      BY <3>2, <3>4 DEF TypeOK, Ended
    <3> QED
      BY <1>1, <3>3, <3>4 DEF Start
  <2> QED
    BY <1>1, <2>1, <2>2, <2>3 DEF Start, Types, TypeOK, Cached, FileType, Cells
<1>2. ASSUME NEW c \in Chats, StartFails(c) \/ RecvError(c) \/ StreamEnd(c) PROVE Types'
  <2>1. /\ stage' \in [Chats -> {"idle", "running"} \cup Saving \cup Ended]
        /\ broken' \subseteq Chats
        /\ UNCHANGED <<crashes, faults, conv, file, history, apart, deleted, owed, owes, overlapped>>
    BY <1>2 DEF StartFails, RecvError, StreamEnd, TypeOK, Ended, Saving
  <2>2. TypeOK'
    BY <2>1 DEF TypeOK
  <2>3. Active' \subseteq Active
    BY <1>2 DEF StartFails, RecvError, StreamEnd, TypeOK, Active, Saving
  <2> QED
    BY <2>1, <2>2, <2>3 DEF Types, Cached
<1>3. ASSUME NEW c \in Chats, AppendMessage(c) PROVE Types'
  <2>1. conv \in Seq(Cells)
    BY <1>3 DEF AppendMessage, Types, TypeOK, Cached, Active, Saving, Cells
  <2>2. conv' \in Seq(Cells) /\ conv' # None
    <3>1. Saves(c) \in Cells /\ conv' = Append(conv, Saves(c))
      BY <1>3, QuestionType DEF AppendMessage, Cells
    <3>2. conv' \in Seq(Cells)
      BY <2>1, <3>1, AppendProperties
    <3> QED
      BY <3>2, Constants
  <2>3. file' \in FileType
    <3>1. file \in FileType /\ Saves(c) \in Writable /\ Garbled \in Writable
      BY QuestionType DEF TypeOK, FileType, Writable
    <3>2. Written(Saves(c)) \in FileType /\ Written(Garbled) \in FileType
      BY <3>1, WrittenType
    <3>3. [file EXCEPT !.there = TRUE] \in FileType
      BY <3>1 DEF FileType
    <3> QED
      BY <1>3, <3>1, <3>2, <3>3 DEF AppendMessage
  <2>4. PICK to \in {"asked", "answer", "answered", "done"} : Advance(c, to)
    BY <1>3 DEF AppendMessage, After
  <2>5. /\ stage' \in [Chats -> {"idle", "running"} \cup Saving \cup Ended]
        /\ owed' \subseteq Message
    BY <2>4, QuestionType DEF Advance, TypeOK, Saving, Ended
  <2>6. faults' \in 0..MaxFaults /\ apart' \in BOOLEAN
    <3>1. /\ faults' = faults \/ (faults < MaxFaults /\ faults' = faults + 1)
          /\ apart' = apart \/ apart' = TRUE
      BY <1>3 DEF AppendMessage, Fault
    <3>2. faults \in 0..MaxFaults /\ apart \in BOOLEAN
      BY DEF TypeOK
    <3>3. faults' \in 0..MaxFaults
      BY <3>1, <3>2
    <3>4. apart' \in BOOLEAN
      BY <3>1, <3>2
    <3> QED
      BY <3>3, <3>4
  <2> QED
    BY <1>3, <2>2, <2>3, <2>5, <2>6 DEF AppendMessage, Types, TypeOK, Cached, FileType, Cells
<1>4. ASSUME NEW c \in Chats, EndLine(c) PROVE Types'
  <2>1. PICK to \in {"answer", "done"} : Advance(c, to)
    BY <1>4 DEF EndLine, After, Ending
  <2>2. /\ stage' \in [Chats -> {"idle", "running"} \cup Saving \cup Ended]
        /\ owed' \subseteq Message
    BY <2>1, QuestionType DEF Advance, TypeOK, Saving, Ended
  <2>3. conv # None
    BY <1>4 DEF EndLine, Types, Cached, Active, Saving, Ending
  <2>4. file' \in FileType
    <3>1. file \in FileType
      BY DEF TypeOK, FileType
    <3>2. [file EXCEPT !.lines = Append(@, Garbled)] \in FileType
      BY <3>1 DEF FileType
    <3>3. [file EXCEPT !.open = FALSE] \in FileType
      BY <3>1 DEF FileType
    <3> QED
      BY <1>4, <3>1, <3>2, <3>3 DEF EndLine
  <2>5. faults' \in 0..MaxFaults /\ apart' \in BOOLEAN
    <3>1. /\ faults' = faults \/ (faults < MaxFaults /\ faults' = faults + 1)
          /\ apart' = apart \/ apart' = TRUE
      BY <1>4 DEF EndLine, Fault
    <3>2. faults \in 0..MaxFaults /\ apart \in BOOLEAN
      BY DEF TypeOK
    <3>3. faults' \in 0..MaxFaults
      BY <3>1, <3>2
    <3>4. apart' \in BOOLEAN
      BY <3>1, <3>2
    <3> QED
      BY <3>3, <3>4
  <2> QED
    BY <1>4, <2>2, <2>3, <2>4, <2>5 DEF EndLine, Types, TypeOK, Cached, FileType
<1>5. CASE HandleDeleteHistory
  <2>1. Range(file.lines) \ {Zero, Garbled} \subseteq Message
    BY DEF TypeOK, Range
  <2>2. file' \in FileType
    BY <1>5 DEF HandleDeleteHistory, NoFile, FileType
  <2> QED
    BY <1>5, <2>1, <2>2 DEF HandleDeleteHistory, Types, TypeOK, Cached, Active, FileType
<1>6. CASE Crash
  <2>1. stage' \in [Chats -> {"idle", "running"} \cup Saving \cup Ended] /\ Active' = {}
    BY <1>6 DEF Crash, TypeOK, Active, Saving, Ended
  <2>2. crashes' \in 0..MaxCrashes /\ apart' \in BOOLEAN
    BY <1>6 DEF Crash, TypeOK, Clean
  <2> QED
    BY <1>6, <2>1, <2>2 DEF Crash, Types, TypeOK, Cached
<1>7. CASE UNCHANGED vars
  BY <1>7 DEF vars, chatVars, Types, TypeOK, Cached, Active
<1> QED
  BY <1>1, <1>2, <1>3, <1>4, <1>5, <1>6, <1>7 DEF Next, ChatStep

\* The memory, the file and the chats keep their types; in particular a chat that is
\* answered or saved always has a conversation in the agent's cache.
THEOREM TypeCorrect == Spec => []TypeOK
<1>1. Init => Types
  BY InitType
<1>2. Types /\ [Next]_vars => Types'
  BY StepType
<1>3. Types => TypeOK
  BY DEF Types
<1> QED
  BY <1>1, <1>2, <1>3, PTL DEF Spec

-----------------------------------------------------------------------------
(* The file of the agent's memory                                          *)

Disk(ms) == [i \in DOMAIN ms |-> Json(ms[i])]
InLine == \E d \in Chats : stage[d] \in Ending

\* Unless something has parted them, the file holds the memory, and its last line is
\* only open while a chat is about to end it.
DiskInv ==
    ~apart =>
        /\ conv = None => Clean(file)
        /\ conv # None =>
             /\ file.lines = Disk(conv)
             /\ file.open => InLine

LEMMA DiskOfSaved ==
  ASSUME NEW s \in Seq(Saved)
  PROVE  Disk(s) = s
<1>1. \A i \in DOMAIN s : s[i] \in Saved /\ s[i] \in Cells
  BY DEF Saved, Cells
<1>2. \A i \in DOMAIN s : Json(s[i]) = s[i]
  BY <1>1, JsonType
<1> QED
  BY <1>2 DEF Disk

LEMMA DiskOfAppend ==
  ASSUME NEW s \in Seq(Cells), NEW m \in Cells
  PROVE  Disk(Append(s, m)) = Append(Disk(s), Json(m))
<1> DEFINE t == Append(s, m)
<1>1. /\ DOMAIN t = 1..(Len(s) + 1) /\ Len(s) \in Nat /\ DOMAIN s = 1..Len(s)
      /\ \A i \in 1..Len(s) : t[i] = s[i]
      /\ t[Len(s) + 1] = m
  BY AppendProperties
<1>2. \A i \in DOMAIN s : Json(s[i]) \in Saved
  BY JsonType
<1>3. Disk(s) \in Seq(Saved) /\ Len(Disk(s)) = Len(s) /\ \A i \in 1..Len(s) : Disk(s)[i] = Json(s[i])
  BY <1>1, <1>2 DEF Disk
<1>4. Json(m) \in Saved
  BY JsonType
<1> DEFINE u == Append(Disk(s), Json(m))
<1>5. /\ u \in Seq(Saved) /\ Len(u) = Len(s) + 1
      /\ \A i \in 1..Len(s) : u[i] = Json(s[i])
      /\ u[Len(s) + 1] = Json(m)
  BY <1>3, <1>4, AppendProperties
<1> HIDE DEF t, u
<1>6. DOMAIN Disk(t) = 1..(Len(s) + 1) /\ \A i \in 1..(Len(s) + 1) : Disk(t)[i] = Json(t[i])
  BY <1>1 DEF Disk
<1>7. DOMAIN u = 1..(Len(s) + 1) /\ \A i \in 1..(Len(s) + 1) : u[i] = Json(t[i])
  BY <1>1, <1>5
<1>8. Disk(t) = [i \in 1..(Len(s) + 1) |-> Json(t[i])] /\ u = [i \in 1..(Len(s) + 1) |-> Json(t[i])]
  <2>1. Disk(t) = [i \in 1..(Len(s) + 1) |-> Json(t[i])]
    BY <1>1 DEF Disk
  <2>2. u = [i \in DOMAIN u |-> u[i]]
    BY <1>5
  <2> QED
    BY <1>7, <2>1, <2>2
<1> QED
  BY <1>8 DEF t, u

LEMMA InitDisk == Init => DiskInv
BY DEF Init, DiskInv, Clean, NoFile, Range

LEMMA StepDisk ==
  ASSUME Types, DiskInv, [Next]_vars
  PROVE  DiskInv'
<1> TypeOK /\ TypeOK'
  BY StepType DEF Types
<1>0. file.lines \in Seq(Saved \cup {Garbled})
  <2>1. Saved \cup {Garbled} = Message \cup {Zero, Garbled}
    BY DEF Saved
  <2> QED
    BY <2>1 DEF TypeOK
<1>1. ASSUME NEW c \in Chats, Start(c) PROVE DiskInv'
  <2>1. ~InLine /\ ~InLine' /\ apart' = apart /\ conv' # None
    <3>1. \A d \in Chats : stage'[d] \in {stage[d], "running", "failed"}
      BY <1>1 DEF Start, TypeOK
    <3>2. conv' # None
      BY <1>1, ConversationType, Constants DEF Start
    <3> QED
      BY <1>1, <3>1, <3>2 DEF Start, InLine, Ending
  <2>2. file'.lines = file.lines /\ file'.open = file.open
    BY <1>1 DEF Start, TypeOK
  <2>3. ASSUME ~apart, conv = None PROVE conv' = file.lines /\ file.lines = Disk(conv') /\ ~file.open
    <3>1. ~file.open /\ Range(file.lines) \cap Unreadable = {}
      BY <2>3 DEF DiskInv, Clean
    <3>2. conv' = file.lines /\ Load(file) \in Seq(Saved)
      BY <1>0, <1>1, <2>3, <3>1, LoadReads DEF Start, Conversation
    <3>3. Load(file) = file.lines
      BY <1>0, <3>1, LoadReads
    <3> QED
      BY <3>1, <3>2, <3>3, DiskOfSaved
  <2>4. conv # None => conv' = conv
    BY <1>1 DEF Start, Conversation
  <2> QED
    BY <2>1, <2>2, <2>3, <2>4 DEF DiskInv
<1>2. ASSUME NEW c \in Chats, StartFails(c) \/ RecvError(c) \/ StreamEnd(c) PROVE DiskInv'
  <2>1. UNCHANGED <<conv, file, apart>>
    BY <1>2 DEF StartFails, RecvError, StreamEnd
  <2>2. InLine => InLine'
    BY <1>2 DEF StartFails, RecvError, StreamEnd, TypeOK, InLine, Ending
  <2> QED
    BY <2>1, <2>2 DEF DiskInv, Clean
<1>3. ASSUME NEW c \in Chats, AppendMessage(c) PROVE DiskInv'
  <2>1. SUFFICES ASSUME ~apart' PROVE DiskInv'
    BY DEF DiskInv
  <2> DEFINE m == Saves(c)
  <2>2. conv \in Seq(Cells) /\ conv # None /\ m \in Cells /\ m \in Message \cup {Nil}
    BY <1>3, QuestionType DEF AppendMessage, Types, TypeOK, Cached, Active, Saving, Cells
  <2>3. /\ ~apart /\ file' = Written(m) /\ conv' = Append(conv, m)
        /\ Advance(c, After[stage[c]])
    BY <1>3, <2>1 DEF AppendMessage, Fault
  <2>4. file.lines = Disk(conv) /\ ~file.open
    BY <1>3, <2>2, <2>3 DEF DiskInv, InLine, AppendMessage
  <2>5. file'.lines = Append(file.lines, Json(m))
    BY <2>3, <2>4 DEF Written
  <2>6. file'.lines = Disk(conv')
    BY <2>2, <2>3, <2>4, <2>5, DiskOfAppend
  <2>7. InLine'
    <3>1. stage[c] \in {"ask", "answer"} /\ stage'[c] = After[stage[c]]
      BY <1>3, <2>3 DEF AppendMessage, Advance, TypeOK
    <3> QED
      BY <3>1 DEF After, InLine, Ending
  <2>8. conv' # None
    BY <2>2, <2>3, AppendProperties, Constants
  <2> QED
    BY <2>4, <2>6, <2>7, <2>8 DEF DiskInv
<1>4. ASSUME NEW c \in Chats, EndLine(c) PROVE DiskInv'
  <2>1. conv # None
    BY <1>4 DEF EndLine, Types, Cached, Active, Saving, Ending
  <2>2. conv' = conv
    BY <1>4 DEF EndLine
  <2>3. apart' \/ (file'.lines = file.lines /\ file'.open = FALSE /\ apart' = apart)
    BY <1>4 DEF EndLine, Fault, TypeOK
  <2> QED
    BY <2>1, <2>2, <2>3 DEF DiskInv
<1>5. CASE HandleDeleteHistory
  <2>1. file' = NoFile /\ conv' = conv /\ (apart' <=> conv # None)
    BY <1>5 DEF HandleDeleteHistory
  <2>2. CASE conv = None
    <3>1. NoFile.lines = <<>> /\ NoFile.open = FALSE
      BY DEF NoFile
    <3>2. Range(<<>>) = {}
      BY DEF Range
    <3>3. Clean(file)'
      BY <2>1, <3>1, <3>2 DEF Clean
    <3> QED
      BY <2>1, <2>2, <3>3 DEF DiskInv
  <2>3. CASE conv # None
    BY <2>1, <2>3 DEF DiskInv
  <2> QED
    BY <2>2, <2>3
<1>6. CASE Crash
  BY <1>6 DEF Crash, DiskInv, Clean
<1>7. CASE UNCHANGED vars
  BY <1>7 DEF vars, chatVars, DiskInv, Clean, InLine
<1> QED
  BY <1>1, <1>2, <1>3, <1>4, <1>5, <1>6, <1>7 DEF Next, ChatStep

\* simple.go:201-207.  What the history handler and the next start read from the file is
\* what the agent answers from, up to the first over-long message: unless a write has
\* failed, the file was deleted under the agent, or a kill left a file that cannot be
\* read to its end.
THEOREM MemoryIsOnDisk == Spec => []MemoryOnDisk
<1>1. Init => Types /\ DiskInv
  BY InitType, InitDisk
<1>2. (Types /\ DiskInv) /\ [Next]_vars => (Types /\ DiskInv)'
  BY StepType, StepDisk
<1>3. Types /\ DiskInv => MemoryOnDisk
  <2> DEFINE read == Load(file)
             n == Len(read)
  <2> SUFFICES ASSUME Types, DiskInv, conv # None, ~apart
               PROVE  \E k \in 0..Len(conv) :
                          /\ read = [i \in 1..k |-> Json(conv[i])]
                          /\ k < Len(conv) => conv[k + 1] \in TooLong
    BY DEF MemoryOnDisk, HandleHistory
  <2>1. conv \in Seq(Cells) /\ file.lines = Disk(conv)
    BY DEF DiskInv, Types, TypeOK, Cells
  <2>2. file.lines \in Seq(Saved \cup {Garbled}) /\ read \in Seq(Saved)
    BY LinesType DEF Types
  <2>3. /\ n \in Nat /\ n <= Len(file.lines)
        /\ \A i \in 1..n : read[i] = file.lines[i]
        /\ n < Len(file.lines) => file.lines[n + 1] \in Unreadable
    BY <2>2, LoadReadsTo
  <2>4. /\ Len(conv) \in Nat /\ DOMAIN conv = 1..Len(conv) /\ Len(file.lines) = Len(conv)
        /\ \A i \in 1..Len(conv) : file.lines[i] = Json(conv[i]) /\ conv[i] \in Cells
    BY <2>1 DEF Disk
  <2>5. read = [i \in 1..n |-> read[i]]
    BY <2>2
  <2> HIDE DEF read, n
  <2>6. read = [i \in 1..n |-> Json(conv[i])]
    <3>1. \A i \in 1..n : read[i] = Json(conv[i])
      BY <2>3, <2>4
    <3> QED
      BY <2>5, <3>1
  <2>7. n < Len(conv) => conv[n + 1] \in TooLong
    <3>1. SUFFICES ASSUME n < Len(conv) PROVE conv[n + 1] \in TooLong
      OBVIOUS
    <3>2. n + 1 \in 1..Len(conv)
      BY <2>3, <2>4, <3>1
    <3>3. Json(conv[n + 1]) \in Unreadable /\ conv[n + 1] \in Cells
      BY <2>3, <2>4, <3>1, <3>2
    <3> QED
      BY <3>3, ConversationAssumption DEF Json, Unreadable, Cells
  <2> QED
    BY <2>3, <2>4, <2>6, <2>7
<1> QED
  BY <1>1, <1>2, <1>3, PTL DEF Spec

-----------------------------------------------------------------------------
(* Deletions                                                               *)

\* The message is still to be written by its chat.
Due(m) == stage[m.chat] \in {"idle", "running", "ask"}
                                \cup (IF m.from = "user" THEN {} ELSE {"asked", "answer"})

\* What is on the disk, or was deleted, has been written; so what is yet to be written
\* has never been deleted.
DueInv == \A m \in Message : m \in Range(file.lines) \cup deleted => ~Due(m)
DeleteInv == DueInv /\ DeletedStaysOffDisk

LEMMA DueOnce ==
  ASSUME Types, [Next]_vars, NEW m \in Message, Due(m)'
  PROVE  Due(m)
<1> m.chat \in Chats /\ m.from \in {"user", "assistant"}
  BY DEF Message
<1> stage \in [Chats -> {"idle", "running"} \cup Saving \cup Ended]
  BY DEF Types, TypeOK
<1> DEFINE d == m.chat
<1>1. ASSUME NEW c \in Chats, ChatStep(c) PROVE Due(m)
  <2>1. CASE d # c
    <3>1. stage'[d] = stage[d]
      BY <1>1, <2>1 DEF ChatStep, Start, StartFails, RecvError, StreamEnd, AppendMessage, EndLine, Advance
    <3> QED
      BY <3>1 DEF Due
  <2>2. CASE d = c
    <3>1. CASE stage[c] \in {"idle", "running", "ask"}
      BY <2>2, <3>1 DEF Due
    <3>2. CASE stage[c] \notin {"idle", "running", "ask"}
      <4>1. AppendMessage(c) \/ EndLine(c)
        BY <1>1, <3>2 DEF ChatStep, Start, StartFails, RecvError, StreamEnd
      <4>2. stage[c] \in {"asked", "answer", "answered"}
        BY <3>2, <4>1 DEF AppendMessage, EndLine, Ending
      <4>3. stage'[c] \in {"answer", "answered", "done"}
            /\ (stage[c] = "answered" => stage'[c] = "done")
        BY <3>2, <4>1, <4>2 DEF AppendMessage, EndLine, Ending, Advance, After
      <4> QED
        BY <2>2, <4>2, <4>3 DEF Due
    <3> QED
      BY <3>1, <3>2
  <2> QED
    BY <2>1, <2>2
<1>2. CASE Crash
  <2>1. stage'[d] = stage[d] \/ stage'[d] = "lost"
    BY <1>2 DEF Crash
  <2> QED
    BY <2>1 DEF Due
<1>3. CASE HandleDeleteHistory \/ UNCHANGED vars
  <2>1. stage' = stage
    BY <1>3 DEF HandleDeleteHistory, vars, chatVars
  <2> QED
    BY <2>1 DEF Due
<1> QED
  BY <1>1, <1>2, <1>3 DEF Next

\* A message that is written was due, and is due no longer.
LEMMA SavesDue ==
  ASSUME TypeOK, NEW c \in Chats, AppendMessage(c), NEW x \in Message, x = Saves(c)
  PROVE  Due(x) /\ ~Due(x)'
<1> stage \in [Chats -> {"idle", "running"} \cup Saving \cup Ended]
  BY DEF TypeOK
<1>1. PICK to \in {After[stage[c]], After[After[stage[c]]]} : stage' = [stage EXCEPT ![c] = to]
  BY DEF AppendMessage, Advance
<1>2. CASE stage[c] = "ask"
  <2>1. x.from = "user" /\ x.chat = c
    BY <1>2 DEF Saves, Question
  <2>2. stage'[c] \in {"asked", "answer"}
    BY <1>1, <1>2 DEF After
  <2> QED
    BY <1>2, <2>1, <2>2 DEF Due
<1>3. CASE stage[c] = "answer"
  <2>1. x = Answer(c) /\ c \notin broken
    BY <1>3, Constants DEF Saves, Answer
  <2>2. x.from = "assistant" /\ x.chat = c
    BY <2>1 DEF Answer
  <2>3. stage'[c] \in {"answered", "done"}
    BY <1>1, <1>3 DEF After
  <2> QED
    BY <1>3, <2>2, <2>3 DEF Due
<1> QED
  BY <1>2, <1>3 DEF AppendMessage

\* What an append does to the lines: the new one, or a line that cannot be read.
LEMMA WrittenRange ==
  ASSUME TypeOK, NEW m \in Writable
  PROVE  Range(Written(m).lines) \subseteq Range(file.lines) \cup {Json(m), Garbled}
<1>1. file.lines \in Seq(Saved \cup {Garbled})
  <2>1. Saved \cup {Garbled} = Message \cup {Zero, Garbled}
    BY DEF Saved
  <2> QED
    BY <2>1 DEF TypeOK
<1>2. CASE file.open
  <2>1. Written(m).lines = [file.lines EXCEPT ![Len(file.lines)] = Garbled]
    BY <1>2 DEF Written, TypeOK
  <2> HIDE DEF Written
  <2> QED
    BY <1>1, <2>1 DEF Range
<1>3. CASE ~file.open
  <2>1. Json(m) \in Saved \cup {Garbled}
    BY WritableJson
  <2>2. Written(m).lines = Append(file.lines, Json(m))
    BY <1>3 DEF Written
  <2> QED
    BY <1>1, <2>1, <2>2, RangeAppend
<1> QED
  BY <1>2, <1>3

LEMMA StepDelete ==
  ASSUME Types, DeleteInv, [Next]_vars
  PROVE  DeleteInv'
<1> TypeOK /\ TypeOK'
  BY StepType DEF Types
<1> DEFINE onDisk == Range(file.lines)
<1>1. \A m \in Message : Due(m)' => Due(m)
  BY DueOnce
<1>2. onDisk \subseteq Message \cup {Zero, Garbled} /\ deleted \subseteq Message
  BY DEF TypeOK, Range
\* No step but a deletion and an append changes the messages on the disk.
<1>3. ASSUME deleted' = deleted, onDisk' \cap Message \subseteq onDisk PROVE DeleteInv'
  BY <1>1, <1>2, <1>3 DEF DeleteInv, DueInv, DeletedStaysOffDisk
<1>4. ASSUME NEW c \in Chats, AppendMessage(c) PROVE DeleteInv'
  <2> DEFINE x == Saves(c)
  <2>1. x \in Message \cup {Nil} /\ deleted' = deleted
    BY <1>4, QuestionType DEF AppendMessage
  <2>2. onDisk' \subseteq onDisk \cup {Json(x), Garbled}
    <3>1. PICK m \in Writable : /\ m \in {x, Garbled}
                                /\ file'.lines = file.lines \/ file'.lines = Written(m).lines
      BY <1>4, AppendWrites
    <3>2. Range(Written(m).lines) \subseteq onDisk \cup {Json(m), Garbled}
      BY WrittenRange
    <3>3. Json(Garbled) = Garbled
      BY Constants DEF Json
    <3> HIDE DEF Written
    <3>4. CASE file'.lines = file.lines
      BY <3>4
    <3>5. CASE file'.lines = Written(m).lines
      <4>1. Json(m) \in {Json(x), Garbled}
        BY <3>1, <3>3
      <4> QED
        BY <3>2, <3>5, <4>1
    <3> QED
      BY <3>1, <3>4, <3>5
  <2>3. CASE x \notin Message
    <3>1. Json(x) = Zero
      BY <2>1, <2>3 DEF Json
    <3> QED
      BY <1>3, <2>1, <2>2, <3>1, Constants
  <2>4. CASE x \in Message
    <3>1. Json(x) = x
      BY <2>4, Constants DEF Json
    <3>2. PICK m \in Message : m = x
      BY <2>4
    <3>3. Due(m) /\ ~Due(m)'
      BY <1>4, <3>2, SavesDue
    <3>4. m \notin deleted
      BY <3>3 DEF DeleteInv, DueInv
    <3>5. onDisk' \cap Message \subseteq onDisk \cup {m}
      BY <2>2, <3>1, <3>2, Constants
    <3> HIDE DEF x
    <3> QED
      BY <1>1, <1>2, <2>1, <3>3, <3>4, <3>5 DEF DeleteInv, DueInv, DeletedStaysOffDisk
  <2> QED
    BY <2>3, <2>4
<1>5. CASE HandleDeleteHistory
  <2>1. /\ deleted' = deleted \cup (onDisk \ {Zero, Garbled})
        /\ file' = NoFile
    BY <1>5 DEF HandleDeleteHistory
  <2>2. onDisk' = {}
    BY <2>1 DEF NoFile, Range
  <2> QED
    BY <1>1, <1>2, <2>1, <2>2 DEF DeleteInv, DueInv, DeletedStaysOffDisk
<1>6. ASSUME NEW c \in Chats, Start(c) \/ EndLine(c) PROVE DeleteInv'
  <2>1. deleted' = deleted
    BY <1>6 DEF Start, EndLine
  <2>2. Start(c) => file'.lines = file.lines
    BY DEF Start, TypeOK
  <2>3. Garbled \in Writable /\ Json(Garbled) = Garbled /\ Garbled \notin Message
    BY Constants DEF Writable, Json
  <2>4. Range(Written(Garbled).lines) \cap Message \subseteq onDisk
    BY <2>3, WrittenRange
  <2>5. onDisk' \cap Message \subseteq onDisk
    <3> HIDE DEF Written
    <3> QED
      BY <1>6, <2>2, <2>4, EndWrites
  <2> QED
    BY <1>3, <2>1, <2>5
<1>7. ASSUME NEW c \in Chats, StartFails(c) \/ RecvError(c) \/ StreamEnd(c) PROVE DeleteInv'
  <2>1. file' = file /\ deleted' = deleted
    BY <1>7 DEF StartFails, RecvError, StreamEnd
  <2> QED
    BY <1>3, <2>1
<1>8. CASE Crash \/ UNCHANGED vars
  <2>1. file' = file /\ deleted' = deleted
    BY <1>8 DEF Crash, vars
  <2> QED
    BY <1>3, <2>1
<1> QED
  BY <1>4, <1>5, <1>6, <1>7, <1>8 DEF Next, ChatStep

\* simple.go:201, server.go:182.  The agent keeps a conversation that the history handler
\* has deleted, and goes on saving into a new file: no deleted message comes back.
THEOREM DeletedIsGone == Spec => []DeletedStaysOffDisk
<1>1. Init => Types /\ DeleteInv
  <2>1. Init => DeleteInv
    BY DEF Init, NoFile, DeleteInv, DueInv, DeletedStaysOffDisk, Range
  <2> QED
    BY <2>1, InitType
<1>2. (Types /\ DeleteInv) /\ [Next]_vars => (Types /\ DeleteInv)'
  BY StepType, StepDelete
<1>3. DeleteInv => DeletedStaysOffDisk
  BY DEF DeleteInv
<1> QED
  BY <1>1, <1>2, <1>3, PTL DEF Spec

-----------------------------------------------------------------------------
(* What a chat is given                                                    *)

\* The memory holds what is owed to later chats, and what a chat has saved so far.
Held ==
    /\ conv = None => owed = {}
    /\ conv # None => owed \subseteq Range(conv)
    /\ \A c \in Chats :
         /\ stage[c] \in {"asked", "answer", "answered"} => Question(c) \in Range(conv)
         /\ stage[c] = "answered" => Answer(c) \in Range(conv)
SeenInv == Held /\ FinishedAreSeen

\* A chat that saves leaves the others where they are.
LEMMA AdvanceHeld ==
  ASSUME Types, Held, NEW c \in Chats, NEW to, Advance(c, to),
         stage[c] \in Saving, to \in {"asked", "answer", "answered", "done"},
         conv \in Seq(Cells), conv' \in Seq(Cells), broken' = broken,
         Range(conv) \subseteq Range(conv'),
         Question(c) \in Range(conv'),
         to \in {"answered", "done"} => Answer(c) \in Range(conv')
  PROVE  Held'
<1> stage \in [Chats -> {"idle", "running"} \cup Saving \cup Ended]
  BY DEF Types, TypeOK
<1>1. conv # None /\ conv' # None
  BY Constants
<1>2. owed' \subseteq Range(conv')
  <2>1. owed' \subseteq owed \cup {Question(c), Answer(c)} /\ (to # "done" => owed' = owed)
    BY DEF Advance
  <2> QED
    BY <1>1, <2>1 DEF Held
<1>3. ASSUME NEW d \in Chats
      PROVE  /\ stage'[d] \in {"asked", "answer", "answered"} => Question(d) \in Range(conv')
             /\ stage'[d] = "answered" => Answer(d) \in Range(conv')
  <2>1. stage' = [stage EXCEPT ![c] = to]
    BY DEF Advance
  <2> QED
    BY <2>1 DEF Held
<1>4. \A d \in Chats : Question(d)' = Question(d) /\ Answer(d)' = Answer(d)
  BY DEF Question, Answer
<1> QED
  BY <1>1, <1>2, <1>3, <1>4 DEF Held

LEMMA StepSeen ==
  ASSUME Types, SeenInv, [Next]_vars
  PROVE  SeenInv'
<1> TypeOK /\ TypeOK' /\ Held /\ FinishedAreSeen
  BY StepType DEF Types, SeenInv
<1> stage \in [Chats -> {"idle", "running"} \cup Saving \cup Ended]
  BY DEF TypeOK
<1>1. ASSUME NEW c \in Chats, Start(c) PROVE SeenInv'
  <2>1. conv' = Conversation /\ conv' \in Seq(Cells) /\ conv' # None
    BY <1>1, ConversationType, Constants DEF Start
  <2>2. owed' = owed /\ owed \subseteq Range(conv') /\ (conv # None => conv' = conv) /\ broken' = broken
    BY <1>1, <2>1 DEF Start, Conversation, Held
  <2>3. ASSUME NEW d \in Chats
        PROVE  /\ stage'[d] \in {"asked", "answer", "answered"} => stage'[d] = stage[d] /\ conv' = conv
    <3>1. stage'[d] \in {"asked", "answer", "answered"} => stage'[d] = stage[d]
      BY <1>1 DEF Start
    <3>2. stage[d] \in {"asked", "answer", "answered"} => conv # None
      BY DEF Types, Cached, Active, Saving
    <3> QED
      BY <2>2, <3>1, <3>2
  <2>4. \A d \in Chats : Question(d)' = Question(d) /\ Answer(d)' = Answer(d)
    BY <2>2 DEF Question, Answer
  <2>5. Held'
    BY <2>1, <2>2, <2>3, <2>4 DEF Held
  <2>6. FinishedAreSeen'
    <3>1. CASE history' = [history EXCEPT ![c] = LastOf(conv')] /\ owes' = [owes EXCEPT ![c] = owed]
      <4>1. ASSUME NEW d \in Chats, Len(history'[d]) < Window PROVE owes'[d] \subseteq Range(history'[d])
        <5>1. CASE d = c
          <6>1. history'[c] = LastOf(conv') /\ owes'[c] = owed
            BY <3>1 DEF TypeOK
          <6>2. LastOf(conv') = conv'
            BY <2>1, <4>1, <5>1, <6>1, LastOfType
          <6> QED
            BY <2>2, <5>1, <6>1, <6>2
        <5>2. CASE d # c
          <6>1. history'[d] = history[d] /\ owes'[d] = owes[d]
            BY <3>1, <5>2 DEF TypeOK
          <6> QED
            BY <4>1, <6>1 DEF FinishedAreSeen
        <5> QED
          BY <5>1, <5>2
      <4> QED
        BY <4>1 DEF FinishedAreSeen
    <3>2. CASE UNCHANGED <<history, owes>>
      BY <3>2 DEF FinishedAreSeen
    <3> QED
      BY <1>1, <3>1, <3>2 DEF Start
  <2> QED
    BY <2>5, <2>6 DEF SeenInv
\* No later step changes what a chat was given, nor what it was to be given.
<1>2. ASSUME Held', UNCHANGED <<history, owes>> PROVE SeenInv'
  BY <1>2 DEF SeenInv, FinishedAreSeen
<1>3. ASSUME NEW c \in Chats, StartFails(c) \/ RecvError(c) \/ StreamEnd(c) PROVE SeenInv'
  <2>1. UNCHANGED <<conv, owed, history, owes>>
    BY <1>3 DEF StartFails, RecvError, StreamEnd
  <2>2. ASSUME NEW d \in Chats, stage'[d] \in {"asked", "answer", "answered"}
        PROVE  stage'[d] = stage[d] /\ (d \in broken' <=> d \in broken)
    BY <1>3, <2>2 DEF StartFails, RecvError, StreamEnd
  <2>3. \A d \in Chats : Question(d)' = Question(d) /\ ((d \in broken' <=> d \in broken) => Answer(d)' = Answer(d))
    BY DEF Question, Answer
  <2>4. Held'
    BY <2>1, <2>2, <2>3 DEF Held
  <2> QED
    BY <1>2, <2>1, <2>4
<1>4. ASSUME NEW c \in Chats, AppendMessage(c) PROVE SeenInv'
  <2> DEFINE m == Saves(c)
  <2>1. conv \in Seq(Cells) /\ conv # None /\ m \in Cells /\ stage[c] \in {"ask", "answer"}
    BY <1>4, QuestionType DEF AppendMessage, Types, TypeOK, Cached, Active, Saving, Cells
  <2>2. conv' = Append(conv, m) /\ UNCHANGED <<broken, history, owes>>
    BY <1>4 DEF AppendMessage
  <2>3. conv' \in Seq(Cells) /\ Range(conv') = Range(conv) \cup {m}
    BY <2>1, <2>2, RangeAppend, AppendProperties
  <2>4. PICK to \in {After[stage[c]], After[After[stage[c]]]} : Advance(c, to)
    BY <1>4 DEF AppendMessage
  <2>5. CASE stage[c] = "ask"
    <3>1. m = Question(c) /\ to \in {"asked", "answer"}
      BY <2>4, <2>5 DEF Saves, After
    <3>2. Held'
      BY <2>1, <2>2, <2>3, <2>4, <2>5, <3>1, AdvanceHeld DEF Saving
    <3> QED
      BY <1>2, <2>2, <3>2
  <2>6. CASE stage[c] = "answer"
    <3>1. m = Answer(c) /\ to \in {"answered", "done"} /\ Question(c) \in Range(conv)
      BY <2>4, <2>6 DEF Saves, After, Held
    <3>2. Held'
      BY <2>1, <2>2, <2>3, <2>4, <2>6, <3>1, AdvanceHeld DEF Saving
    <3> QED
      BY <1>2, <2>2, <3>2
  <2> QED
    BY <2>1, <2>5, <2>6
<1>5. ASSUME NEW c \in Chats, EndLine(c) PROVE SeenInv'
  <2>1. conv # None /\ conv \in Seq(Cells)
    BY <1>5 DEF EndLine, Types, TypeOK, Cached, Active, Saving, Ending, Cells
  <2>2. Advance(c, After[stage[c]]) /\ stage[c] \in {"asked", "answered"} /\ UNCHANGED <<conv, broken, history, owes>>
    BY <1>5 DEF EndLine, Ending
  <2>3. /\ After[stage[c]] \in {"answer", "done"} /\ Question(c) \in Range(conv)
        /\ After[stage[c]] = "done" => Answer(c) \in Range(conv)
    BY <2>2 DEF After, Held
  <2>4. Held'
    <3> DEFINE to == After[stage[c]]
    <3>1. Advance(c, to) /\ to \in {"asked", "answer", "answered", "done"}
          /\ (to \in {"answered", "done"} => Answer(c) \in Range(conv'))
          /\ Question(c) \in Range(conv') /\ Range(conv) \subseteq Range(conv')
          /\ conv' \in Seq(Cells) /\ stage[c] \in Saving
      BY <2>1, <2>2, <2>3 DEF Saving
    <3> HIDE DEF to
    <3> QED
      BY <2>1, <2>2, <3>1, AdvanceHeld
  <2> QED
    BY <1>2, <2>2, <2>4
<1>6. CASE HandleDeleteHistory
  <2>1. owed' = {} /\ UNCHANGED <<conv, stage, broken, history, owes>>
    BY <1>6 DEF HandleDeleteHistory
  <2>2. Held'
    BY <2>1 DEF Held, Question, Answer
  <2> QED
    BY <1>2, <2>1, <2>2
<1>7. CASE Crash
  <2>1. conv' = None /\ owed' = {} /\ UNCHANGED <<broken, history, owes>>
    BY <1>7 DEF Crash
  <2>2. \A d \in Chats : stage'[d] \notin {"asked", "answer", "answered"}
    BY <1>7 DEF Crash, Active, Saving
  <2>3. Held'
    BY <2>1, <2>2 DEF Held
  <2> QED
    BY <1>2, <2>1, <2>3
<1>8. CASE UNCHANGED vars
  <2>1. UNCHANGED <<conv, stage, broken, history, owes, owed>>
    BY <1>8 DEF vars, chatVars
  <2>2. Held'
    BY <2>1 DEF Held, Question, Answer
  <2> QED
    BY <1>2, <2>1, <2>2
<1> QED
  BY <1>1, <1>3, <1>4, <1>5, <1>6, <1>7, <1>8 DEF Next, ChatStep

\* agent.go:118, simple.go:162.  An answer takes into account every chat that was saved
\* before its question came, up to the window; a file that cannot be written costs
\* nothing before the next start.
THEOREM FinishedAreGiven == Spec => []FinishedAreSeen
<1>1. Init => Types /\ SeenInv
  <2>1. Init => SeenInv
    BY DEF Init, SeenInv, Held, FinishedAreSeen
  <2> QED
    BY <2>1, InitType
<1>2. (Types /\ SeenInv) /\ [Next]_vars => (Types /\ SeenInv)'
  BY StepType, StepSeen
<1>3. SeenInv => FinishedAreSeen
  BY DEF SeenInv
<1> QED
  BY <1>1, <1>2, <1>3, PTL DEF Spec

-----------------------------------------------------------------------------
(* What can be read of the file                                            *)

\* The last line is joined, and cannot be read.
LastJoined(s, t) ==
    /\ Len(t) = Len(s)
    /\ \A i \in 1..Len(s) : t[i] = IF i = Len(s) THEN Garbled ELSE s[i]

\* The shape of the file after a write: a line more, or its last line joined.
LEMMA WrittenLines ==
  ASSUME TypeOK, NEW m \in Writable
  PROVE  /\ Written(m).lines \in Seq(Saved \cup {Garbled})
         /\ ~file.open => Written(m).lines = Append(file.lines, Json(m))
         /\ file.open => LastJoined(file.lines, Written(m).lines)
<1> DEFINE s == file.lines
           t == Written(m).lines
<1>0. s \in Seq(Saved \cup {Garbled})
  BY LinesType
<1>1. t \in Seq(Saved \cup {Garbled})
  <2>1. file \in FileType /\ Saved \cup {Garbled} = Message \cup {Zero, Garbled}
    BY DEF TypeOK, FileType, Saved
  <2>2. Written(m) \in FileType
    BY <2>1, WrittenType
  <2> HIDE DEF Written
  <2> QED
    BY <2>1, <2>2 DEF FileType
<1>2. ~file.open => t = Append(s, Json(m))
  BY DEF Written
<1>3. ASSUME file.open
      PROVE  LastJoined(s, t)
  <2>1. t = [s EXCEPT ![Len(s)] = Garbled]
    BY <1>3 DEF Written, TypeOK
  <2> HIDE DEF t
  <2>2. CASE Len(s) = 0
    BY <1>0, <2>1, <2>2 DEF LastJoined
  <2>3. CASE Len(s) # 0
    <3>1. Len(s) \in 1..Len(s) /\ Garbled \in Saved \cup {Garbled}
      BY <1>0, <2>3
    <3> QED
      BY <1>0, <2>1, <3>1, ExceptSeq DEF LastJoined
  <2> QED
    BY <2>2, <2>3
<1> QED
  BY <1>1, <1>2, <1>3

\* What an append does to what can be read: nothing behind a line that cannot be read,
\* the new message at the end of a file that can be read, or a line lost.
LEMMA LoadOfWritten ==
  ASSUME TypeOK, NEW m \in Writable, NEW g, g.lines = Written(m).lines
  PROVE  LET k == Len(Load(file))
             l == Len(Load(g))
         IN  /\ \A i \in 1..l : i <= k => Load(g)[i] = Load(file)[i]
             /\ \/ l <= k
                \/ l = k + 1 /\ Load(g)[l] = Json(m)
<1> DEFINE s == file.lines
           t == g.lines
           k == Len(Load(file))
           l == Len(Load(g))
<1>1. s \in Seq(Saved \cup {Garbled})
  BY LinesType
<1>2. t \in Seq(Saved \cup {Garbled})
  BY WrittenLines
<1>3. /\ k \in Nat /\ k <= Len(s)
      /\ \A i \in 1..k : Load(file)[i] = s[i] /\ s[i] \notin Unreadable
      /\ k < Len(s) => s[k + 1] \in Unreadable
  BY <1>1, LoadReadsTo
<1>4. /\ l \in Nat /\ l <= Len(t)
      /\ \A i \in 1..l : Load(g)[i] = t[i] /\ t[i] \notin Unreadable
      /\ l < Len(t) => t[l + 1] \in Unreadable
  BY <1>2, LoadReadsTo
<1>5. Len(s) \in Nat /\ Len(t) \in Nat
  BY <1>1, <1>2
<1>6. CASE ~file.open
  <2>1. t = Append(s, Json(m)) /\ Json(m) \in Saved \cup {Garbled}
    BY <1>6, WrittenLines, WritableJson
  <2>2. Len(t) = Len(s) + 1 /\ (\A i \in 1..Len(s) : t[i] = s[i]) /\ t[Len(s) + 1] = Json(m)
    BY <1>1, <2>1, AppendProperties
  <2> HIDE DEF s, t, k, l
  <2>3. l <= k \/ (l = k + 1 /\ k = Len(s))
    <3>1. SUFFICES ASSUME l > k PROVE l = k + 1 /\ k = Len(s)
      BY <1>3, <1>4
    <3>2. k + 1 \in 1..l
      BY <1>3, <1>4, <3>1
    <3>3. t[k + 1] \notin Unreadable
      BY <1>4, <3>2
    <3>4. ~(k < Len(s))
      <4>1. SUFFICES ASSUME k < Len(s) PROVE FALSE
        OBVIOUS
      <4>2. k + 1 \in 1..Len(s)
        BY <1>3, <1>5, <4>1
      <4>3. t[k + 1] = s[k + 1]
        BY <2>2, <4>2
      <4> QED
        BY <1>3, <3>3, <4>1, <4>3
    <3> QED
      BY <1>3, <1>4, <1>5, <2>2, <3>1, <3>4
  <2>4. ASSUME NEW i \in 1..l, i <= k PROVE Load(g)[i] = Load(file)[i]
    <3>1. i \in 1..k /\ i \in 1..Len(s)
      BY <1>3, <1>4, <1>5, <2>4
    <3> QED
      BY <1>3, <1>4, <2>2, <3>1
  <2>5. l = k + 1 /\ k = Len(s) => Load(g)[l] = Json(m)
    <3>1. SUFFICES ASSUME l = k + 1, k = Len(s) PROVE Load(g)[l] = Json(m)
      OBVIOUS
    <3>2. l \in 1..l /\ l = Len(s) + 1
      BY <1>3, <1>4, <3>1
    <3> QED
      BY <1>4, <2>2, <3>2
  <2> QED
    BY <2>3, <2>4, <2>5 DEF k, l
<1>7. CASE file.open
  <2>1. LastJoined(s, t)
    BY <1>7, WrittenLines
  <2>2. Len(t) = Len(s) /\ \A i \in 1..Len(s) : t[i] = IF i = Len(s) THEN Garbled ELSE s[i]
    BY <2>1 DEF LastJoined
  <2> HIDE DEF s, t, k, l
  <2>3. ASSUME NEW i \in 1..l PROVE i \in 1..Len(s) /\ t[i] = s[i] /\ s[i] \notin Unreadable
    <3>1. i \in 1..Len(s)
      BY <1>4, <1>5, <2>2
    <3> QED
      BY <1>4, <2>2, <3>1 DEF Unreadable
  <2>4. l <= k
    <3>1. SUFFICES ASSUME l > k PROVE FALSE
      BY <1>3, <1>4
    <3>2. k + 1 \in 1..l
      BY <1>3, <1>4, <3>1
    <3>3. k + 1 \in 1..Len(s) /\ s[k + 1] \notin Unreadable
      BY <2>3, <3>2
    <3> QED
      BY <1>3, <1>5, <3>3
  <2>5. ASSUME NEW i \in 1..l, i <= k PROVE Load(g)[i] = Load(file)[i]
    <3>1. i \in 1..k
      BY <1>3, <1>4, <2>5
    <3> QED
      BY <1>3, <1>4, <2>3, <3>1
  <2> QED
    BY <2>4, <2>5 DEF k, l
<1> QED
  BY <1>6, <1>7

-----------------------------------------------------------------------------
(* The file within the memory                                              *)

\* The lines that can be read stand for messages of the memory, in their order.
Placed(read, ms) ==
    \E g \in [DOMAIN read -> DOMAIN ms] :
        /\ \A i \in DOMAIN read : Json(ms[g[i]]) = read[i]
        /\ \A i, j \in DOMAIN read : i < j => g[i] < g[j]
WithinInv == conv # None => Placed(Load(file), conv)

\* A memory that has just been read from the file is the file.
LEMMA PlacedAll ==
  ASSUME NEW s \in Seq(Saved)
  PROVE  Placed(s, s)
<1> DEFINE g == [i \in DOMAIN s |-> i]
<1>1. g \in [DOMAIN s -> DOMAIN s]
  OBVIOUS
<1>2. \A i \in DOMAIN s : Json(s[g[i]]) = s[i]
  <2>1. \A i \in DOMAIN s : s[i] \in Saved /\ s[i] \in Cells
    BY DEF Saved, Cells
  <2> QED
    BY <2>1, JsonType
<1>3. \A i, j \in DOMAIN s : i < j => g[i] < g[j]
  OBVIOUS
<1> HIDE DEF g
<1> QED
  BY <1>1, <1>2, <1>3 DEF Placed

\* Neither do lines that can be read no longer change what the others stand for.
LEMMA PlacedLess ==
  ASSUME NEW read \in Seq(Saved), NEW ms \in Seq(Cells), Placed(read, ms),
         NEW less \in Seq(Saved), Len(less) <= Len(read),
         \A i \in 1..Len(less) : less[i] = read[i]
  PROVE  Placed(less, ms)
<1>1. PICK g \in [DOMAIN read -> DOMAIN ms] :
            /\ \A i \in DOMAIN read : Json(ms[g[i]]) = read[i]
            /\ \A i, j \in DOMAIN read : i < j => g[i] < g[j]
  BY DEF Placed
<1>2. DOMAIN less = 1..Len(less) /\ DOMAIN read = 1..Len(read) /\ DOMAIN less \subseteq DOMAIN read
  OBVIOUS
<1> DEFINE h == [i \in DOMAIN less |-> g[i]]
<1>3. h \in [DOMAIN less -> DOMAIN ms]
  BY <1>1, <1>2
<1>4. \A i \in DOMAIN less : Json(ms[h[i]]) = less[i]
  BY <1>1, <1>2
<1>5. \A i, j \in DOMAIN less : i < j => h[i] < h[j]
  BY <1>1, <1>2
<1> HIDE DEF h
<1> QED
  BY <1>3, <1>4, <1>5 DEF Placed

\* Messages that are kept in memory only change nothing, and neither do lines that can
\* be read no longer.
LEMMA PlacedStill ==
  ASSUME NEW read \in Seq(Saved), NEW ms \in Seq(Cells), Placed(read, ms), NEW m \in Cells,
         NEW less \in Seq(Saved), Len(less) <= Len(read),
         \A i \in 1..Len(less) : less[i] = read[i]
  PROVE  Placed(less, Append(ms, m))
<1> DEFINE n == Append(ms, m)
<1>1. PICK g \in [DOMAIN read -> DOMAIN ms] :
            /\ \A i \in DOMAIN read : Json(ms[g[i]]) = read[i]
            /\ \A i, j \in DOMAIN read : i < j => g[i] < g[j]
  BY DEF Placed
<1>2. /\ DOMAIN n = 1..(Len(ms) + 1) /\ DOMAIN ms = 1..Len(ms) /\ Len(ms) \in Nat
      /\ \A i \in 1..Len(ms) : n[i] = ms[i]
  BY AppendProperties
<1>3. DOMAIN less = 1..Len(less) /\ DOMAIN read = 1..Len(read) /\ DOMAIN less \subseteq DOMAIN read
  OBVIOUS
<1> DEFINE h == [i \in DOMAIN less |-> g[i]]
<1> HIDE DEF n
<1>4. h \in [DOMAIN less -> DOMAIN n]
  BY <1>1, <1>2, <1>3
<1>5. \A i \in DOMAIN less : Json(n[h[i]]) = less[i]
  BY <1>1, <1>2, <1>3
<1>6. \A i, j \in DOMAIN less : i < j => h[i] < h[j]
  BY <1>1, <1>3
<1> HIDE DEF h
<1>7. Placed(less, n)
  BY <1>4, <1>5, <1>6 DEF Placed
<1> QED
  BY <1>7 DEF n

\* A message that is added to the memory and written stands at the end of both.
LEMMA PlacedNext ==
  ASSUME NEW read \in Seq(Saved), NEW ms \in Seq(Cells), Placed(read, ms), NEW m \in Cells,
         NEW more \in Seq(Saved), Len(more) = Len(read) + 1,
         \A i \in 1..Len(read) : more[i] = read[i], more[Len(more)] = Json(m)
  PROVE  Placed(more, Append(ms, m))
<1> DEFINE n == Append(ms, m)
           k == Len(ms) + 1
<1>1. PICK g \in [DOMAIN read -> DOMAIN ms] :
            /\ \A i \in DOMAIN read : Json(ms[g[i]]) = read[i]
            /\ \A i, j \in DOMAIN read : i < j => g[i] < g[j]
  BY DEF Placed
<1>2. /\ DOMAIN n = 1..(Len(ms) + 1) /\ DOMAIN ms = 1..Len(ms) /\ Len(ms) \in Nat
      /\ (\A i \in 1..Len(ms) : n[i] = ms[i]) /\ n[Len(ms) + 1] = m
  BY AppendProperties
<1>3. /\ DOMAIN more = 1..(Len(read) + 1) /\ DOMAIN read = 1..Len(read) /\ Len(read) \in Nat
  OBVIOUS
<1> DEFINE h == [i \in DOMAIN more |-> IF i \in DOMAIN read THEN g[i] ELSE k]
<1> HIDE DEF n
<1>4. h \in [DOMAIN more -> DOMAIN n]
  BY <1>1, <1>2, <1>3
<1>5. ASSUME NEW i \in DOMAIN more PROVE Json(n[h[i]]) = more[i]
  <2>1. CASE i \in DOMAIN read
    BY <1>1, <1>2, <1>3, <2>1
  <2>2. CASE i \notin DOMAIN read
    <3>1. i = Len(more) /\ h[i] = Len(ms) + 1
      BY <1>3, <2>2
    <3> QED
      BY <1>2, <3>1
  <2> QED
    BY <2>1, <2>2
<1>6. ASSUME NEW i \in DOMAIN more, NEW j \in DOMAIN more, i < j PROVE h[i] < h[j]
  <2>1. i \in DOMAIN read
    BY <1>3, <1>6
  <2>2. g[i] \in 1..Len(ms)
    BY <1>1, <1>2, <2>1
  <2> QED
    BY <1>1, <1>2, <1>6, <2>1, <2>2
<1> HIDE DEF h
<1>7. Placed(more, n)
  BY <1>4, <1>5, <1>6 DEF Placed
<1> QED
  BY <1>7 DEF n

LEMMA StepWithin ==
  ASSUME Types, WithinInv, [Next]_vars
  PROVE  WithinInv'
<1> TypeOK /\ TypeOK'
  BY StepType DEF Types
<1>0. Load(file) \in Seq(Saved) /\ Load(file)' \in Seq(Saved)
  <2>1. file'.lines \in Seq(Saved \cup {Garbled})
    <3>1. Saved \cup {Garbled} = Message \cup {Zero, Garbled}
      BY DEF Saved
    <3> QED
      BY <3>1 DEF TypeOK
  <2> QED
    BY <2>1, LinesType, LoadReads
\* What is read does not change when no line does.
<1>1. ASSUME file'.lines = file.lines PROVE Load(file)' = Load(file)
  BY <1>1 DEF Load
<1>2. ASSUME NEW c \in Chats, Start(c) PROVE WithinInv'
  <2>1. file'.lines = file.lines /\ conv' = Conversation
    BY <1>2 DEF Start, TypeOK
  <2>2. CASE conv = None
    BY <1>0, <1>1, <2>1, <2>2, PlacedAll DEF WithinInv, Conversation
  <2>3. CASE conv # None
    BY <1>1, <2>1, <2>3 DEF WithinInv, Conversation
  <2> QED
    BY <2>2, <2>3
<1>3. ASSUME NEW c \in Chats, AppendMessage(c) PROVE WithinInv'
  <2> DEFINE m == Saves(c)
             read == Load(file)
             new == Load(file)'
  <2>1. conv \in Seq(Cells) /\ conv # None /\ m \in Cells /\ m \in Message \cup {Nil}
    BY <1>3, QuestionType DEF AppendMessage, Types, TypeOK, Cached, Active, Saving, Cells
  <2>2. conv' = Append(conv, m) /\ Placed(read, conv)
    BY <1>3, <2>1 DEF AppendMessage, WithinInv
  <2>3. Len(read) \in Nat /\ Len(new) \in Nat
    BY <1>0
  <2>4. CASE file'.lines = file.lines
    <3>1. new = read
      BY <1>1, <2>4
    <3> QED
      BY <1>0, <2>1, <2>2, <2>3, <3>1, PlacedStill DEF WithinInv
  <2>5. ASSUME NEW x \in Writable, x \in {m, Garbled}, file'.lines = Written(x).lines
        PROVE  WithinInv'
    <3>1. /\ \A i \in 1..Len(new) : i <= Len(read) => new[i] = read[i]
          /\ \/ Len(new) <= Len(read)
             \/ Len(new) = Len(read) + 1 /\ new[Len(new)] = Json(m)
      <4>1. /\ \A i \in 1..Len(new) : i <= Len(read) => new[i] = read[i]
            /\ \/ Len(new) <= Len(read)
               \/ Len(new) = Len(read) + 1 /\ new[Len(new)] = Json(x)
        BY <2>5, LoadOfWritten
      <4>2. Json(Garbled) \notin Saved
        BY Constants DEF Json, Saved
      <4>3. Len(new) = Len(read) + 1 => new[Len(new)] \in Saved
        BY <1>0, <2>3
      <4> HIDE DEF m, new, read
      <4> QED
        BY <2>5, <4>1, <4>2, <4>3
    <3> HIDE DEF m, read, new
    <3>2. CASE Len(new) <= Len(read)
      <4>1. \A i \in 1..Len(new) : new[i] = read[i]
        BY <2>3, <3>1, <3>2
      <4>2. Placed(new, Append(conv, m))
        BY <1>0, <2>1, <2>2, <3>2, <4>1, PlacedStill DEF read, new
      <4> QED
        BY <2>2, <4>2 DEF WithinInv, new
    <3>3. CASE Len(new) = Len(read) + 1 /\ new[Len(new)] = Json(m)
      <4>1. \A i \in 1..Len(read) : new[i] = read[i]
        BY <2>3, <3>1, <3>3
      <4>2. Placed(new, Append(conv, m))
        BY <1>0, <2>1, <2>2, <3>3, <4>1, PlacedNext DEF read, new
      <4> QED
        BY <2>2, <4>2 DEF WithinInv, new
    <3> QED
      BY <3>1, <3>2, <3>3
  <2> QED
    BY <1>3, <2>4, <2>5, AppendWrites
<1>4. ASSUME NEW c \in Chats, StartFails(c) \/ RecvError(c) \/ StreamEnd(c) \/ EndLine(c) PROVE WithinInv'
  <2>1. conv' = conv
    BY <1>4 DEF StartFails, RecvError, StreamEnd, EndLine
  <2>2. CASE file'.lines = file.lines
    BY <1>1, <2>1, <2>2 DEF WithinInv
  <2>3. CASE file'.lines = Written(Garbled).lines
    <3> DEFINE read == Load(file)
               new == Load(file)'
    <3>1. Garbled \in Writable /\ Json(Garbled) \notin Saved
      BY Constants DEF Writable, Json, Saved
    <3>2. /\ \A i \in 1..Len(new) : i <= Len(read) => new[i] = read[i]
          /\ \/ Len(new) <= Len(read)
             \/ Len(new) = Len(read) + 1 /\ new[Len(new)] = Json(Garbled)
      BY <2>3, <3>1, LoadOfWritten
    <3>3. Len(read) \in Nat /\ Len(new) \in Nat /\ (Len(new) = Len(read) + 1 => new[Len(new)] \in Saved)
      BY <1>0
    <3> HIDE DEF read, new
    <3>4. Len(new) <= Len(read) /\ \A i \in 1..Len(new) : new[i] = read[i]
      BY <3>1, <3>2, <3>3
    <3>5. conv # None => conv \in Seq(Cells)
      BY DEF TypeOK, Cells
    <3>6. conv # None => Placed(new, conv)
      BY <1>0, <3>4, <3>5, PlacedLess DEF WithinInv, read, new
    <3> QED
      BY <2>1, <3>6 DEF WithinInv, new
  <2>4. file'.lines = file.lines \/ file'.lines = Written(Garbled).lines
    BY <1>4, EndWrites DEF StartFails, RecvError, StreamEnd
  <2> QED
    BY <2>2, <2>3, <2>4
<1>5. CASE HandleDeleteHistory
  <2>1. file' = NoFile /\ conv' = conv
    BY <1>5 DEF HandleDeleteHistory
  <2>2. NoFile.lines = <<>> /\ <<>> \in Seq(Saved \cup {Garbled}) /\ Len(<<>>) = 0
    BY DEF NoFile
  <2>3. Len(Load(NoFile)) = 0
    <3>1. Len(Load(NoFile)) \in Nat /\ Len(Load(NoFile)) <= Len(NoFile.lines)
      BY <2>2, LoadReadsTo
    <3> QED
      BY <2>2, <3>1
  <2>4. Load(NoFile) \in Seq(Saved)
    BY <2>2, LoadReads
  <2>5. SUFFICES ASSUME conv # None PROVE Placed(Load(NoFile), conv)
    BY <2>1 DEF WithinInv
  <2> DEFINE g == [i \in {} |-> i]
             none == Load(NoFile)
  <2>6. DOMAIN none = {} /\ g \in [{} -> DOMAIN conv]
    BY <2>3, <2>4
  <2> HIDE DEF g, none
  <2>7. Placed(none, conv)
    BY <2>6 DEF Placed
  <2> QED
    BY <2>7 DEF none
<1>6. CASE Crash
  BY <1>6 DEF Crash, WithinInv
<1>7. CASE UNCHANGED vars
  <2>1. file'.lines = file.lines /\ conv' = conv
    BY <1>7 DEF vars
  <2> QED
    BY <1>1, <2>1 DEF WithinInv
<1> QED
  BY <1>2, <1>3, <1>4, <1>5, <1>6, <1>7 DEF Next, ChatStep

\* simple.go:201-219.  Whatever failed, was deleted or was cut short, the history handler
\* never shows a message the agent does not have, nor two in another order than the
\* agent has them.
THEOREM FileIsWithinMemory == Spec => []FileWithinMemory
<1>1. Init => Types /\ WithinInv
  <2>1. Init => WithinInv
    BY DEF Init, WithinInv
  <2> QED
    BY <2>1, InitType
<1>2. (Types /\ WithinInv) /\ [Next]_vars => (Types /\ WithinInv)'
  BY StepType, StepWithin
<1>3. Types /\ WithinInv => FileWithinMemory
  <2> DEFINE read == Load(file)
  <2> SUFFICES ASSUME Types, WithinInv, conv # None,
                      NEW i \in DOMAIN read, NEW j \in DOMAIN read, i <= j
               PROVE  \E k, l \in DOMAIN conv :
                          /\ k <= l
                          /\ i # j => k # l
                          /\ Json(conv[k]) = read[i]
                          /\ Json(conv[l]) = read[j]
    BY DEF FileWithinMemory, HandleHistory
  <2>1. read \in Seq(Saved) /\ conv \in Seq(Cells)
    BY LinesType DEF Types, TypeOK, Cells
  <2>2. PICK g \in [DOMAIN read -> DOMAIN conv] :
            /\ \A a \in DOMAIN read : Json(conv[g[a]]) = read[a]
            /\ \A a, b \in DOMAIN read : a < b => g[a] < g[b]
    BY DEF WithinInv, Placed
  <2>3. DOMAIN read \subseteq Int /\ DOMAIN conv \subseteq Int
    <3>1. DOMAIN read = 1..Len(read) /\ DOMAIN conv = 1..Len(conv)
      BY <2>1
    <3> QED
      BY <3>1
  <2> HIDE DEF read
  <2>4. g[i] \in DOMAIN conv /\ g[j] \in DOMAIN conv /\ g[i] <= g[j] /\ (i # j => g[i] # g[j])
    BY <2>2, <2>3
  <2> QED
    BY <2>2, <2>4
<1> QED
  BY <1>1, <1>2, <1>3, PTL DEF Spec
-----------------------------------------------------------------------------
(* Questions and their answers                                             *)

Reply(c) == [from |-> "assistant", chat |-> c]
Once(s, m) == \A i, j \in DOMAIN s : s[i] = m /\ s[j] = m => i = j

\* The place in a sequence is followed by the answer of the chat.
Followed(s, c, i) == i < Len(s) /\ s[i + 1] = Reply(c)

\* A chat that nobody chatted beside is the only one at work.
AloneInv == \A c \in Chats \ overlapped : c \in Active => Active = {c}

\* A message is not in memory before it is saved, and once on the disk at most.
OnceInv ==
    /\ conv # None => \A m \in Message : m \in Range(conv) => ~Due(m)
    /\ \A m \in Message : Once(file.lines, m)

\* Between its two saves a chat's question is the last message; after them the answer
\* follows, or is not there.
LinePair(s, c, st) ==
    \A i \in DOMAIN s : s[i] = Question(c) =>
        /\ st \in {"asked", "answer"} => i = Len(s)
        /\ st \in {"answered", "done"} => Followed(s, c, i) \/ Reply(c) \notin Range(s)
ConvPair(s, c, st, kills) ==
    \A i \in DOMAIN s : s[i] = Question(c) =>
        /\ st \in {"asked", "answer"} => i = Len(s)
        /\ st = "answered" => Followed(s, c, i)
        /\ st = "done" => Followed(s, c, i) \/ (kills > 0 /\ Reply(c) \notin Range(s))

PairInv ==
    \A c \in Chats \ (overlapped \cup broken) :
        /\ stage[c] = "done" => conv # None \/ crashes > 0
        /\ LinePair(file.lines, c, stage[c])
        /\ conv # None => ConvPair(conv, c, stage[c], crashes)

\* A chat alone that is between its question and its line end: the line is open, or the
\* question is not on the disk.
AskedInv ==
    \A c \in Chats \ overlapped :
        stage[c] = "asked" /\ ~file.open => Question(c) \notin Range(file.lines)

AdjacentInv == AloneInv /\ OnceInv /\ AskedInv /\ PairInv

LEMMA StepAlone ==
  ASSUME Types, AloneInv, [Next]_vars
  PROVE  AloneInv'
<1> stage \in [Chats -> {"idle", "running"} \cup Saving \cup Ended]
  BY DEF Types, TypeOK
\* Whoever starts beside another is overlapped from then on, and so is the other.
<1>1. ASSUME NEW d \in Chats, Start(d) PROVE AloneInv'
  <2>1. CASE stage' = [stage EXCEPT ![d] = "failed"] /\ UNCHANGED overlapped
    <3>1. Active' \subseteq Active
      BY <2>1 DEF Active, Saving
    <3> QED
      BY <2>1, <3>1 DEF AloneInv
  <2>2. CASE /\ stage' = [stage EXCEPT ![d] = "running"]
             /\ overlapped' = IF Active = {} THEN overlapped ELSE overlapped \cup Active \cup {d}
    <3>1. Active' = Active \cup {d}
      BY <2>2 DEF Active
    <3> QED
      BY <2>2, <3>1 DEF AloneInv
  <2> QED
    BY <1>1, <2>1, <2>2 DEF Start
<1>2. ASSUME NEW d \in Chats, StartFails(d) \/ RecvError(d) \/ StreamEnd(d) \/ AppendMessage(d) \/ EndLine(d)
      PROVE  AloneInv'
  <2>1. overlapped' = overlapped
    BY <1>2 DEF StartFails, RecvError, StreamEnd, AppendMessage, EndLine
  <2>2. Active' \subseteq Active
    <3>1. \A e \in Chats \ {d} : stage'[e] = stage[e]
      BY <1>2 DEF StartFails, RecvError, StreamEnd, AppendMessage, EndLine, Advance
    <3>2. d \in Active' => d \in Active
      BY <1>2 DEF StartFails, RecvError, StreamEnd, AppendMessage, EndLine, Ending, Active, Saving
    <3> QED
      BY <3>1, <3>2 DEF Active
  <2> QED
    BY <2>1, <2>2 DEF AloneInv
<1>3. CASE HandleDeleteHistory \/ UNCHANGED vars
  BY <1>3 DEF HandleDeleteHistory, vars, chatVars, AloneInv, Active
<1>4. CASE Crash
  <2>1. Active' = {}
    BY <1>4 DEF Crash, Active, Saving
  <2> QED
    BY <2>1 DEF AloneInv
<1> QED
  BY <1>1, <1>2, <1>3, <1>4 DEF Next, ChatStep

\* A message that is not on the disk can be written; a line that is joined is none.
LEMMA OnceWritten ==
  ASSUME TypeOK, NEW m \in Writable, NEW n \in Message, Once(file.lines, n),
         m = n => n \notin Range(file.lines),
         NEW t \in Seq(Saved \cup {Garbled}), t = Written(m).lines
  PROVE  Once(t, n)
<1> HIDE DEF Written
<1>0. PICK s \in Seq(Saved \cup {Garbled}) : s = file.lines
  BY LinesType
<1>1. /\ ~file.open => t = Append(s, Json(m))
      /\ file.open => Len(t) = Len(s) /\ \A i \in 1..Len(s) : t[i] = IF i = Len(s) THEN Garbled ELSE s[i]
  BY <1>0, WrittenLines DEF LastJoined
<1>2. DOMAIN t = 1..Len(t) /\ DOMAIN s = 1..Len(s) /\ Len(s) \in Nat
  OBVIOUS
<1>3. n # Garbled /\ n # Zero
  BY Constants
<1>4. Once(s, n) /\ (m = n => n \notin Range(s))
  BY <1>0
<1>5. ASSUME file.open PROVE Once(t, n)
  BY <1>1, <1>2, <1>3, <1>4, <1>5, ZenonT(60) DEF Once
<1>6. ASSUME ~file.open PROVE Once(t, n)
  <2>1. Json(m) \in Saved \cup {Garbled} /\ (Json(m) = n => m = n)
    BY WritableJson
  <2>2. t = Append(s, Json(m))
    BY <1>1, <1>6
  <2>3. Len(t) = Len(s) + 1 /\ (\A i \in 1..Len(s) : t[i] = s[i]) /\ t[Len(s) + 1] = Json(m)
    BY <2>1, <2>2, AppendProperties
  <2>4. CASE m = n
    <3>1. \A i \in 1..Len(s) : s[i] # n
      BY <1>2, <1>4, <2>4 DEF Range
    <3> QED
      BY <1>2, <2>3, <3>1 DEF Once
  <2>5. CASE m # n
    <3>1. \A i \in DOMAIN t : t[i] = n => i \in 1..Len(s) /\ s[i] = n
      BY <1>2, <2>1, <2>3, <2>5
    <3> QED
      BY <1>2, <1>4, <3>1 DEF Once
  <2> QED
    BY <2>4, <2>5
<1> QED
  BY <1>5, <1>6

LEMMA StepOnce ==
  ASSUME Types, DueInv, OnceInv, [Next]_vars
  PROVE  OnceInv'
<1> TypeOK
  BY DEF Types
<1>0. file.lines \in Seq(Saved \cup {Garbled}) /\ Load(file) \in Seq(Saved)
  BY LinesType
<1>1. \A m \in Message : Due(m)' => Due(m)
  BY DueOnce
<1>2. ASSUME NEW d \in Chats, Start(d) PROVE OnceInv'
  <2>1. file'.lines = file.lines /\ conv' = Conversation
    BY <1>2 DEF Start, TypeOK
  <2>2. Range(Load(file)) \subseteq Range(file.lines)
    <3> DEFINE read == Load(file)
    <3>1. Len(read) \in Nat /\ Len(read) <= Len(file.lines) /\ \A i \in 1..Len(read) : read[i] = file.lines[i]
      BY <1>0, LoadReadsTo
    <3>2. DOMAIN read = 1..Len(read) /\ DOMAIN file.lines = 1..Len(file.lines) /\ Len(file.lines) \in Nat
      BY <1>0
    <3> HIDE DEF read
    <3>3. Range(read) \subseteq Range(file.lines)
      BY <3>1, <3>2 DEF Range
    <3> QED
      BY <3>3 DEF read
  <2>3. ASSUME NEW m \in Message, m \in Range(Conversation) PROVE ~Due(m)
    <3>1. CASE conv = None
      BY <2>2, <2>3, <3>1 DEF Conversation, DueInv
    <3>2. CASE conv # None
      BY <2>3, <3>2 DEF Conversation, OnceInv
    <3> QED
      BY <3>1, <3>2
  <2> HIDE DEF Conversation
  <2> QED
    BY <1>1, <2>1, <2>3 DEF OnceInv, Once
<1>3. ASSUME NEW d \in Chats, AppendMessage(d) PROVE OnceInv'
  <2> DEFINE x == Saves(d)
  <2>1. conv \in Seq(Cells) /\ conv # None /\ x \in Cells /\ x \in Message \cup {Nil}
    BY <1>3, QuestionType DEF AppendMessage, Types, TypeOK, Cached, Active, Saving, Cells
  <2>2. Range(conv') = Range(conv) \cup {x}
    BY <1>3, <2>1, RangeAppend DEF AppendMessage
  <2>3. PICK m \in Message \cup {Nil} : m = x
    BY <2>1
  <2> HIDE DEF x
  <2>4. Range(conv') = Range(conv) \cup {m} /\ (m \in Message => Due(m) /\ ~Due(m)')
    <3>1. m = Saves(d)
      BY <2>3 DEF x
    <3> QED
      BY <1>3, <2>2, <2>3, <3>1, SavesDue
  <2>5. ASSUME NEW n \in Message, n \in Range(conv') PROVE ~Due(n)'
    BY <1>1, <2>1, <2>4, <2>5 DEF OnceInv
  <2>6. ASSUME NEW n \in Message PROVE Once(file'.lines, n)
    <3>1. CASE file'.lines = file.lines
      BY <3>1 DEF OnceInv
    <3>2. ASSUME NEW w \in Writable, w \in {m, Garbled}, file'.lines = Written(w).lines
          PROVE  Once(file'.lines, n)
      <4>1. PICK t \in Seq(Saved \cup {Garbled}) : t = file'.lines
        BY <3>2, WrittenLines
      <4>2. w = n => n \notin Range(file.lines)
        BY <2>4, <3>2, Constants DEF DueInv
      <4>3. Once(file.lines, n)
        BY DEF OnceInv
      <4>4. Once(t, n)
        BY <3>2, <4>1, <4>2, <4>3, OnceWritten
      <4> QED
        BY <4>1, <4>4
    <3>3. PICK w \in Writable : /\ w \in {m, Garbled}
                                /\ file'.lines = file.lines \/ file'.lines = Written(w).lines
      BY <1>3, <2>3, AppendWrites DEF x
    <3> HIDE DEF Written
    <3>4. CASE file'.lines = Written(w).lines
      BY <3>2, <3>3, <3>4
    <3> QED
      BY <3>1, <3>3, <3>4
  <2> QED
    BY <2>5, <2>6 DEF OnceInv
<1>4. ASSUME NEW d \in Chats, StartFails(d) \/ RecvError(d) \/ StreamEnd(d) \/ EndLine(d) PROVE OnceInv'
  <2>1. conv' = conv
    BY <1>4 DEF StartFails, RecvError, StreamEnd, EndLine
  <2>2. file'.lines = file.lines \/ file'.lines = Written(Garbled).lines
    BY <1>4, EndWrites DEF StartFails, RecvError, StreamEnd
  <2>3. ASSUME NEW n \in Message PROVE Once(file'.lines, n)
    <3>1. Once(file.lines, n)
      BY DEF OnceInv
    <3>2. Garbled \in Writable /\ Garbled # n
      BY Constants DEF Writable
    <3>3. PICK t \in Seq(Saved \cup {Garbled}) : t = Written(Garbled).lines
      BY <3>2, WrittenLines
    <3>4. Once(t, n)
      BY <3>1, <3>2, <3>3, OnceWritten
    <3> HIDE DEF Written
    <3> QED
      BY <2>2, <3>1, <3>3, <3>4
  <2> QED
    BY <1>1, <2>1, <2>3 DEF OnceInv
<1>5. CASE HandleDeleteHistory
  <2>1. conv' = conv /\ file'.lines = <<>>
    BY <1>5 DEF HandleDeleteHistory, NoFile
  <2> QED
    BY <1>1, <2>1 DEF OnceInv, Once
<1>6. CASE Crash \/ UNCHANGED vars
  <2>1. (conv' = conv \/ conv' = None) /\ file' = file
    BY <1>6 DEF Crash, vars
  <2> QED
    BY <1>1, <2>1 DEF OnceInv, Once
<1> QED
  BY <1>2, <1>3, <1>4, <1>5, <1>6 DEF Next, ChatStep

\* Messages of other chats part no question from its answer.
LEMMA PairsOfOthers ==
  ASSUME NEW S, NEW s \in Seq(S), NEW x \in S, NEW c \in Chats, NEW st, NEW kills \in Nat,
         x # Question(c), x # Reply(c), st \notin {"asked", "answer"}
  PROVE  /\ LinePair(s, c, st) => LinePair(Append(s, x), c, st)
         /\ ConvPair(s, c, st, kills) => ConvPair(Append(s, x), c, st, kills)
<1>0. PICK t \in Seq(S) : t = Append(s, x)
  BY AppendProperties
<1>1. /\ DOMAIN t = 1..Len(t) /\ DOMAIN s = 1..Len(s) /\ Len(s) \in Nat /\ Len(t) = Len(s) + 1
      /\ \A i \in 1..Len(s) : t[i] = s[i]
      /\ t[Len(s) + 1] = x
  BY <1>0, AppendProperties
<1>2. \A i \in DOMAIN t : t[i] = Question(c) => i \in 1..Len(s) /\ s[i] = Question(c)
  BY <1>1
<1>3. \A i \in 1..Len(s) : Followed(s, c, i) => Followed(t, c, i)
  BY <1>1 DEF Followed
<1>4. Reply(c) \in Range(t) => Reply(c) \in Range(s)
  BY <1>1 DEF Range
<1>5. LinePair(s, c, st) => LinePair(t, c, st)
  BY <1>1, <1>2, <1>3, <1>4 DEF LinePair
<1>6. ConvPair(s, c, st, kills) => ConvPair(t, c, st, kills)
  BY <1>1, <1>2, <1>3, <1>4 DEF ConvPair
<1> QED
  BY <1>0, <1>5, <1>6

\* A question is the last message when it is saved.
LEMMA PairAsked ==
  ASSUME NEW S, NEW s \in Seq(S), NEW c \in Chats, Question(c) \in S, NEW st, NEW kills \in Nat,
         Question(c) \notin Range(s), st \in {"asked", "answer"}
  PROVE  /\ LinePair(Append(s, Question(c)), c, st)
         /\ ConvPair(Append(s, Question(c)), c, st, kills)
<1>0. PICK t \in Seq(S) : t = Append(s, Question(c))
  BY AppendProperties
<1>1. /\ DOMAIN t = 1..Len(t) /\ DOMAIN s = 1..Len(s) /\ Len(s) \in Nat /\ Len(t) = Len(s) + 1
      /\ \A i \in 1..Len(s) : t[i] = s[i]
  BY <1>0, AppendProperties
<1>2. \A i \in DOMAIN t : t[i] = Question(c) => i = Len(t)
  BY <1>1 DEF Range
<1>3. LinePair(t, c, st) /\ ConvPair(t, c, st, kills)
  BY <1>2 DEF LinePair, ConvPair
<1> QED
  BY <1>0, <1>3

\* An answer that is saved behind its question follows it.
LEMMA PairAnswered ==
  ASSUME NEW S, NEW s \in Seq(S), NEW c \in Chats, Reply(c) \in S, NEW st, NEW kills \in Nat,
         st \in {"answered", "done"}
  PROVE  /\ LinePair(s, c, "answer") => LinePair(Append(s, Reply(c)), c, st)
         /\ ConvPair(s, c, "answer", kills) => ConvPair(Append(s, Reply(c)), c, st, kills)
<1>0. PICK t \in Seq(S) : t = Append(s, Reply(c))
  BY AppendProperties
<1>1. /\ DOMAIN t = 1..Len(t) /\ DOMAIN s = 1..Len(s) /\ Len(s) \in Nat /\ Len(t) = Len(s) + 1
      /\ \A i \in 1..Len(s) : t[i] = s[i]
      /\ t[Len(s) + 1] = Reply(c)
  BY <1>0, AppendProperties
<1>2. Reply(c) # Question(c)
  BY DEF Reply, Question
<1>3. \A i \in DOMAIN t : t[i] = Question(c) => i \in 1..Len(s) /\ s[i] = Question(c)
  BY <1>1, <1>2
<1>4. \A i \in 1..Len(s) : i = Len(s) => Followed(t, c, i)
  BY <1>1 DEF Followed
<1>5. LinePair(s, c, "answer") => LinePair(t, c, st)
  BY <1>1, <1>3, <1>4 DEF LinePair
<1>6. ConvPair(s, c, "answer", kills) => ConvPair(t, c, st, kills)
  BY <1>1, <1>3, <1>4 DEF ConvPair
<1> QED
  BY <1>0, <1>5, <1>6

\* A last line that becomes unreadable takes one half of a pair away, or none.
LEMMA PairJoined ==
  ASSUME NEW S, NEW s \in Seq(S), NEW t \in Seq(S), NEW c \in Chats, NEW st,
         LastJoined(s, t), Once(s, Reply(c)), LinePair(s, c, st)
  PROVE  /\ LinePair(t, c, st)
         /\ st = "answer" => LinePair(t, c, "answered") /\ LinePair(t, c, "done")
<1>0. PICK n \in Nat : n = Len(s)
  OBVIOUS
<1>1. DOMAIN t = 1..n /\ DOMAIN s = 1..n /\ n = Len(t)
  BY <1>0 DEF LastJoined
<1>2. Question(c) # Garbled /\ Reply(c) # Garbled
  <2>1. Question(c) \in Message /\ Reply(c) \in Message
    BY DEF Question, Reply, Message
  <2> QED
    BY <2>1, Constants
<1>3. ASSUME NEW i \in 1..n PROVE IF i = n THEN t[i] = Garbled ELSE t[i] = s[i]
  BY <1>0 DEF LastJoined
<1>4. ASSUME NEW i \in DOMAIN t, t[i] = Question(c)
      PROVE  i \in 1..n /\ i \in DOMAIN s /\ s[i] = Question(c) /\ i < n
  <2>1. i \in 1..n /\ i # n /\ t[i] = s[i]
    BY <1>1, <1>2, <1>4, <1>3
  <2> QED
    BY <1>1, <1>4, <2>1
<1>5. Reply(c) \in Range(t) => Reply(c) \in Range(s)
  BY <1>1, <1>2, <1>3 DEF Range
<1>6. ASSUME NEW i \in DOMAIN t, t[i] = Question(c), Followed(s, c, i)
      PROVE  Followed(t, c, i) \/ Reply(c) \notin Range(t)
  <2>1. i + 1 \in 1..n /\ s[i + 1] = Reply(c)
    <3>1. i \in 1..n /\ i < n /\ s[i + 1] = Reply(c)
      BY <1>0, <1>4, <1>6 DEF Followed
    <3> QED
      BY <3>1
  <2>2. CASE i + 1 = n
    <3>1. \A j \in DOMAIN t : t[j] # Reply(c)
      BY <1>1, <1>2, <1>3, <2>1, <2>2 DEF Once
    <3> QED
      BY <3>1 DEF Range
  <2>3. CASE i + 1 # n
    <3>1. t[i + 1] = s[i + 1]
      BY <1>3, <2>1, <2>3
    <3>2. i < Len(t)
      BY <1>1, <1>4, <1>6
    <3> QED
      BY <2>1, <3>1, <3>2 DEF Followed
  <2> QED
    BY <2>2, <2>3
<1>7. ASSUME NEW i \in DOMAIN t, t[i] = Question(c), st \in {"asked", "answer"} PROVE FALSE
  <2>1. i = n /\ i < n
    <3>1. i \in DOMAIN s /\ s[i] = Question(c) /\ i < n
      BY <1>4, <1>7
    <3> QED
      BY <1>0, <1>7, <3>1 DEF LinePair
  <2> QED
    BY <2>1
<1>8. ASSUME NEW i \in DOMAIN t, t[i] = Question(c), st \in {"answered", "done"}
      PROVE  Followed(t, c, i) \/ Reply(c) \notin Range(t)
  <2>1. Followed(s, c, i) \/ Reply(c) \notin Range(s)
    BY <1>4, <1>8 DEF LinePair
  <2> QED
    BY <1>5, <1>6, <1>8, <2>1
<1>9. LinePair(t, c, st)
  BY <1>7, <1>8 DEF LinePair
<1>10. st = "answer" => LinePair(t, c, "answered") /\ LinePair(t, c, "done")
  BY <1>7 DEF LinePair
<1> QED
  BY <1>9, <1>10

\* A memory that has just been read has the pairs of the file.
LEMMA PairRead ==
  ASSUME NEW f, f.lines \in Seq(Saved \cup {Garbled}), NEW c \in Chats, NEW kills \in Nat, kills > 0,
         LinePair(f.lines, c, "done")
  PROVE  ConvPair(Load(f), c, "done", kills)
<1>0. PICK s \in Seq(Saved \cup {Garbled}) : s = f.lines
  OBVIOUS
<1>1. PICK t \in Seq(Saved) : t = Load(f)
  BY LoadReads
<1>2. /\ Len(t) \in Nat /\ Len(t) <= Len(s)
      /\ \A i \in 1..Len(t) : t[i] = s[i]
      /\ Len(t) < Len(s) => s[Len(t) + 1] \in Unreadable
      /\ \A i \in 1..Len(t) : t[i] \notin Unreadable
  BY <1>0, <1>1, LoadReadsTo
<1>3. DOMAIN t = 1..Len(t) /\ DOMAIN s = 1..Len(s) /\ Len(s) \in Nat
  OBVIOUS
<1>4. Reply(c) \in Unreadable => Reply(c) \notin Range(t)
  BY <1>2, <1>3 DEF Range
<1>5. ASSUME NEW i \in DOMAIN t, t[i] = Question(c)
      PROVE  Followed(t, c, i) \/ Reply(c) \notin Range(t)
  <2>1. i \in DOMAIN s /\ s[i] = Question(c)
    BY <1>2, <1>3, <1>5
  <2>2. CASE Followed(s, c, i)
    <3>1. CASE i = Len(t)
      <4>1. Reply(c) \in Unreadable
        BY <1>2, <2>2, <3>1 DEF Followed
      <4> QED
        BY <1>4, <4>1
    <3>2. CASE i # Len(t)
      <4>1. i + 1 \in 1..Len(t)
        BY <1>3, <3>2
      <4> QED
        BY <1>2, <1>3, <2>2, <4>1 DEF Followed
    <3> QED
      BY <3>1, <3>2
  <2>3. CASE Reply(c) \notin Range(s)
    BY <1>2, <1>3, <2>3 DEF Range
  <2> QED
    BY <1>0, <2>1, <2>2, <2>3 DEF LinePair
<1>6. ConvPair(t, c, "done", kills)
  BY <1>5 DEF ConvPair
<1> QED
  BY <1>1, <1>6

\* What a write does to the pairs of the file.
LEMMA PairWritten ==
  ASSUME TypeOK, NEW m \in Writable, NEW c \in Chats, NEW st, NEW to,
         LinePair(file.lines, c, st), Once(file.lines, Reply(c)),
         \/ m \notin {Question(c), Reply(c)} /\ st \notin {"asked", "answer"} /\ to = st
         \/ m = Question(c) /\ Question(c) \notin Range(file.lines) /\ to \in {"asked", "answer"}
         \/ m = Reply(c) /\ st = "answer" /\ to \in {"answered", "done"}
  PROVE  LinePair(Written(m).lines, c, to)
<1> HIDE DEF Written
<1>0. PICK s \in Seq(Saved \cup {Garbled}) : s = file.lines
  BY LinesType
<1>1. PICK t \in Seq(Saved \cup {Garbled}) : t = Written(m).lines
  BY WrittenLines
<1>2. /\ ~file.open => t = Append(s, Json(m))
      /\ file.open => LastJoined(s, t)
  BY <1>0, <1>1, WrittenLines
<1>3. Question(c) \in Message /\ Reply(c) \in Message
  BY DEF Question, Reply, Message
<1>4. Json(m) \in Saved \cup {Garbled} /\ \A x \in Message : Json(m) = x <=> m = x
  <2>1. \A x \in Message : Json(x) = x
    BY Constants DEF Json
  <2> QED
    BY <2>1, WritableJson
<1>5. LinePair(s, c, st) /\ Once(s, Reply(c))
  BY <1>0
<1>6. CASE m \notin {Question(c), Reply(c)} /\ st \notin {"asked", "answer"} /\ to = st
  <2>1. ASSUME ~file.open PROVE LinePair(t, c, to)
    <3>1. Json(m) # Question(c) /\ Json(m) # Reply(c) /\ 0 \in Nat
      BY <1>3, <1>4, <1>6
    <3> QED
      BY <1>2, <1>4, <1>5, <1>6, <2>1, <3>1, PairsOfOthers
  <2>2. ASSUME file.open PROVE LinePair(t, c, to)
    BY <1>2, <1>5, <1>6, <2>2, PairJoined
  <2> QED
    BY <1>1, <2>1, <2>2
<1>7. CASE m = Question(c) /\ Question(c) \notin Range(file.lines) /\ to \in {"asked", "answer"}
  <2>1. ASSUME ~file.open PROVE LinePair(t, c, to)
    <3>1. t = Append(s, Question(c)) /\ Question(c) \in Saved \cup {Garbled} /\ 0 \in Nat
      BY <1>2, <1>3, <1>4, <1>7, <2>1
    <3> QED
      BY <1>0, <1>7, <3>1, PairAsked
  <2>2. ASSUME file.open PROVE LinePair(t, c, to)
    <3>1. \A i \in DOMAIN s : s[i] # Question(c)
      BY <1>0, <1>7 DEF Range
    <3>2. Question(c) # Garbled
      BY <1>3, Constants
    <3>3. \A i \in DOMAIN t : t[i] # Question(c)
      <4>1. DOMAIN t = 1..Len(t) /\ DOMAIN s = 1..Len(s)
        OBVIOUS
      <4> QED
        BY <1>2, <2>2, <3>1, <3>2, <4>1 DEF LastJoined
    <3> QED
      BY <3>3 DEF LinePair
  <2> QED
    BY <1>1, <2>1, <2>2
<1>8. CASE m = Reply(c) /\ st = "answer" /\ to \in {"answered", "done"}
  <2>1. ASSUME ~file.open PROVE LinePair(t, c, to)
    <3>1. t = Append(s, Reply(c)) /\ Reply(c) \in Saved \cup {Garbled} /\ 0 \in Nat
      BY <1>2, <1>3, <1>4, <1>8, <2>1
    <3> QED
      BY <1>5, <1>8, <3>1, PairAnswered
  <2>2. ASSUME file.open PROVE LinePair(t, c, to)
    BY <1>2, <1>5, <1>8, <2>2, PairJoined
  <2> QED
    BY <1>1, <2>1, <2>2
<1> QED
  BY <1>6, <1>7, <1>8

\* A write that fails leaves no half of a pair that was not there.
LEMMA PairAbsent ==
  ASSUME NEW t, NEW c \in Chats, NEW st,
         \/ Question(c) \notin Range(t)
         \/ Reply(c) \notin Range(t) /\ st \notin {"asked", "answer"}
  PROVE  LinePair(t, c, st)
BY DEF LinePair, Range

\* A line that is ended without having been begun is no question's.
LEMMA StepAsked ==
  ASSUME Types, DueInv, AloneInv, AskedInv, [Next]_vars
  PROVE  AskedInv'
<1> TypeOK
  BY DEF Types
<1> stage \in [Chats -> {"idle", "running"} \cup Saving \cup Ended]
  BY DEF TypeOK
<1>1. overlapped \subseteq overlapped'
  <2>1. ASSUME NEW d \in Chats, ChatStep(d) PROVE overlapped \subseteq overlapped'
    BY <2>1 DEF ChatStep, Start, StartFails, RecvError, StreamEnd, AppendMessage, EndLine
  <2> QED
    BY <2>1 DEF Next, HandleDeleteHistory, Crash, vars, chatVars
<1> SUFFICES ASSUME NEW c \in Chats, c \notin overlapped', stage'[c] = "asked", ~file'.open
             PROVE  Question(c) \notin Range(file'.lines)
  BY DEF AskedInv
<1>2. CASE AppendMessage(c) /\ stage[c] = "ask"
  <2>1. Question(c) \in Message /\ Due(Question(c))
    BY <1>2, QuestionType DEF Due, Question
  <2>2. Question(c) \notin Range(file.lines)
    BY <2>1 DEF DueInv
  <2>3. Written(Saves(c)).open /\ Written(Garbled).open
    BY DEF Written, TypeOK
  <2>4. file'.lines = file.lines
    BY <1>2, <2>3 DEF AppendMessage, TypeOK
  <2> QED
    BY <2>2, <2>4
<1>3. CASE stage[c] # "asked"
  <2>1. ASSUME NEW d \in Chats, ChatStep(d), ~(AppendMessage(c) /\ stage[c] = "ask") PROVE FALSE
    <3>1. CASE d # c
      <4>1. stage'[c] = stage[c]
        BY <2>1, <3>1 DEF ChatStep, Start, StartFails, RecvError, StreamEnd, AppendMessage, EndLine, Advance
      <4> QED
        BY <1>3, <4>1
    <3>2. CASE d = c
      BY <1>3, <2>1, <3>2 DEF ChatStep, Start, StartFails, RecvError, StreamEnd, AppendMessage, EndLine,
                              Advance, After, Ending
    <3> QED
      BY <3>1, <3>2
  <2>2. stage'[c] \in {stage[c], "lost"} => FALSE
    BY <1>3
  <2> QED
    BY <1>2, <2>1, <2>2 DEF Next, HandleDeleteHistory, Crash, vars, chatVars
<1>4. CASE stage[c] = "asked"
  <2>1. Active = {c}
    BY <1>1, <1>4 DEF AloneInv, Active, Saving
  <2>2. file.open \/ Question(c) \notin Range(file.lines)
    BY <1>1, <1>4 DEF AskedInv
  <2>3. ASSUME NEW d \in Chats, ChatStep(d) PROVE file' = file
    <3>1. ~Start(d) /\ ~AppendMessage(d)
      BY <1>4 DEF Start, AppendMessage, Ending
    <3>2. ~EndLine(d)
      <4>1. SUFFICES ASSUME EndLine(d) PROVE FALSE
        OBVIOUS
      <4>2. d = c
        BY <2>1, <4>1 DEF EndLine, Ending, Active, Saving
      <4>3. stage'[c] = "answer"
        BY <1>4, <4>1, <4>2 DEF EndLine, Advance, After
      <4> QED
        BY <4>3
    <3> QED
      BY <2>3, <3>1, <3>2 DEF ChatStep, StartFails, RecvError, StreamEnd
  <2>4. HandleDeleteHistory => file'.lines = <<>>
    BY DEF HandleDeleteHistory, NoFile
  <2>5. (\E d \in Chats : ChatStep(d)) \/ Crash \/ UNCHANGED vars => file' = file
    BY <2>3 DEF Crash, vars
  <2>6. Question(c) \notin Range(<<>>)
    BY DEF Range
  <2> QED
    BY <2>2, <2>4, <2>5, <2>6 DEF Next
<1> QED
  BY <1>3, <1>4

LEMMA StepPair ==
  ASSUME Types, DueInv, OnceInv, AloneInv, AskedInv, PairInv, [Next]_vars
  PROVE  PairInv'
<1> TypeOK /\ TypeOK' /\ Types'
  BY StepType DEF Types
<1> stage \in [Chats -> {"idle", "running"} \cup Saving \cup Ended]
  BY DEF TypeOK
<1>0. file.lines \in Seq(Saved \cup {Garbled}) /\ crashes \in Nat /\ crashes' \in Nat
  <2>1. crashes \in 0..MaxCrashes /\ crashes' \in 0..MaxCrashes
    BY DEF TypeOK
  <2> QED
    BY <2>1, LinesType
<1>1. overlapped \subseteq overlapped' /\ broken \subseteq broken' /\ crashes <= crashes'
  <2>1. ASSUME NEW d \in Chats, ChatStep(d) PROVE overlapped \subseteq overlapped' /\ broken \subseteq broken' /\ crashes' = crashes
    BY <2>1 DEF ChatStep, Start, StartFails, RecvError, StreamEnd, AppendMessage, EndLine
  <2> QED
    BY <1>0, <2>1 DEF Next, HandleDeleteHistory, Crash, vars, chatVars
<1> SUFFICES ASSUME NEW c \in Chats, c \notin overlapped', c \notin broken'
             PROVE  /\ stage'[c] = "done" => conv' # None \/ crashes' > 0
                    /\ LinePair(file'.lines, c, stage'[c])
                    /\ conv' # None => ConvPair(conv', c, stage'[c], crashes')
  BY DEF PairInv
<1>2. /\ stage[c] = "done" => conv # None \/ crashes > 0
      /\ LinePair(file.lines, c, stage[c])
      /\ conv # None => ConvPair(conv, c, stage[c], crashes)
      /\ c \in Active => Active = {c}
      /\ c \notin overlapped /\ c \notin broken
  BY <1>1 DEF PairInv, AloneInv
<1>3. Question(c) \in Message /\ Reply(c) \in Message /\ Answer(c) = Reply(c)
  BY <1>2 DEF Question, Reply, Message, Answer
<1> DEFINE Goal == /\ stage'[c] = "done" => conv' # None \/ crashes' > 0
                   /\ LinePair(file'.lines, c, stage'[c])
                   /\ conv' # None => ConvPair(conv', c, stage'[c], crashes')
\* A chat that does not save is in no state of which something is said, or stays there.
<1>4. ASSUME file'.lines = file.lines, conv' = conv, crashes' = crashes,
             stage'[c] \in {stage[c], "running", "ask", "failed", "lost"}
      PROVE  Goal
  BY <1>2, <1>4 DEF LinePair, ConvPair
<1>5. ASSUME NEW d \in Chats, Start(d) PROVE Goal
  <2>1. file'.lines = file.lines /\ conv' = Conversation /\ crashes' = crashes
    BY <1>5 DEF Start, TypeOK
  <2>2. stage'[c] \in {stage[c], "running", "failed"}
    BY <1>5 DEF Start
  <2>3. CASE conv # None
    BY <1>4, <2>1, <2>2, <2>3 DEF Conversation
  <2>4. CASE conv = None
    <3>1. stage'[c] \notin {"asked", "answer", "answered"}
      BY <2>2, <2>4 DEF Types, Cached, Active, Saving
    <3>2. conv' = Load(file)
      BY <2>1, <2>4 DEF Conversation
    <3>3. CASE stage'[c] = "done"
      <4>1. stage[c] = "done" /\ crashes > 0 /\ LinePair(file.lines, c, "done")
        BY <1>2, <2>2, <2>4, <3>3
      <4>2. ConvPair(Load(file), c, "done", crashes)
        BY <1>0, <4>1, PairRead
      <4> QED
        BY <2>1, <3>2, <3>3, <4>1, <4>2
    <3>4. CASE stage'[c] # "done"
      BY <2>1, <3>1, <3>4 DEF LinePair, ConvPair
    <3> QED
      BY <3>3, <3>4
  <2> QED
    BY <2>3, <2>4
<1>6. ASSUME NEW d \in Chats, StartFails(d) \/ RecvError(d) \/ StreamEnd(d) PROVE Goal
  <2>1. stage'[c] \in {stage[c], "ask", "failed"} /\ UNCHANGED <<file, conv, crashes>>
    BY <1>6 DEF StartFails, RecvError, StreamEnd
  <2> QED
    BY <1>4, <2>1
<1>7. ASSUME NEW d \in Chats, AppendMessage(d), d # c PROVE Goal
  <2>1. stage[c] \notin {"asked", "answer"} /\ stage[c] \notin Saving /\ stage'[c] = stage[c] /\ crashes' = crashes
    <3>1. d \in Active
      BY <1>7 DEF AppendMessage, Active, Saving
    <3>2. c \notin Active
      BY <1>2, <1>7, <3>1
    <3> QED
      BY <1>7, <3>2 DEF AppendMessage, Advance, Active, Saving
  <2>2. conv \in Seq(Cells) /\ conv # None
    BY <1>7 DEF AppendMessage, Types, TypeOK, Cached, Active, Saving, Cells
  <2>3. PICK m \in Message \cup {Nil} : m = Saves(d)
    BY QuestionType
  <2>4. m \notin {Question(c), Reply(c)}
    <3>1. m \in {Question(d), Reply(d), Nil}
      BY <2>3 DEF Saves, Answer, Reply
    <3>2. Question(d) \notin {Question(c), Reply(c)} /\ Reply(d) \notin {Question(c), Reply(c)}
      BY <1>7 DEF Question, Reply
    <3> QED
      BY <1>3, <3>1, <3>2, Constants
  <2>5. conv' = Append(conv, m)
    BY <1>7, <2>3 DEF AppendMessage
  <2>6. LinePair(file'.lines, c, stage[c])
    <3>1. Once(file.lines, Reply(c))
      BY <1>3 DEF OnceInv
    <3>2. PICK st : st = stage[c]
      OBVIOUS
    <3>3. PICK w \in Writable : /\ w \in {m, Garbled}
                                /\ file'.lines = file.lines \/ file'.lines = Written(w).lines
      BY <1>7, <2>3, AppendWrites
    <3>4. w \notin {Question(c), Reply(c)}
      BY <1>3, <2>4, <3>3, Constants
    <3>5. LinePair(Written(w).lines, c, st)
      BY <1>2, <2>1, <3>1, <3>2, <3>4, PairWritten
    <3> HIDE DEF Written
    <3> QED
      BY <1>2, <3>2, <3>3, <3>5
  <2>7. ConvPair(conv', c, stage[c], crashes)
    <3>1. m \in Cells /\ m # Question(c) /\ m # Reply(c)
      BY <2>4 DEF Cells
    <3>2. ConvPair(Append(conv, m), c, stage[c], crashes)
      BY <1>0, <1>2, <2>1, <2>2, <3>1, PairsOfOthers
    <3> QED
      BY <2>5, <3>2
  <2>8. conv' # None
    BY <1>7, <2>2, <2>5, AppendProperties, Constants DEF Cells
  <2> QED
    BY <2>1, <2>6, <2>7, <2>8
<1>8. ASSUME AppendMessage(c) PROVE Goal
  <2>1. conv \in Seq(Cells) /\ conv # None /\ crashes' = crashes
    BY <1>8 DEF AppendMessage, Types, TypeOK, Cached, Active, Saving, Cells
  <2>2. PICK m \in Message : m = Saves(c)
    BY <1>3 DEF Saves
  <2>3. /\ conv' = Append(conv, m)
        /\ stage'[c] \in {After[stage[c]], After[After[stage[c]]]}
    BY <1>8, <2>2 DEF AppendMessage, Advance
  <2>4. m \notin Range(conv) /\ m \notin Range(file.lines)
    <3>1. Due(m)
      BY <1>8, <2>2, SavesDue
    <3> QED
      BY <2>1, <3>1 DEF OnceInv, DueInv
  <2>5. conv' # None
    BY <2>1, <2>3, AppendProperties, Constants DEF Cells
  <2>6. Once(file.lines, Reply(c)) /\ Question(c) \in Cells /\ Reply(c) \in Cells
    BY <1>3 DEF OnceInv, Cells
  <2>7. file'.lines = Written(m).lines \/ m \notin Range(file'.lines)
    <3>1. PICK w \in Writable : /\ w \in {m, Garbled}
                                /\ file'.lines = file.lines \/ file'.lines = Written(w).lines
      BY <1>8, <2>2, AppendWrites
    <3>2. Garbled \in Writable /\ Json(Garbled) = Garbled /\ Garbled # m
      BY Constants DEF Writable, Json
    <3>3. m \notin Range(Written(Garbled).lines)
      BY <2>4, <3>2, WrittenRange
    <3> HIDE DEF Written
    <3> QED
      BY <2>4, <3>1, <3>3
  <2>8. m \in Writable
    BY DEF Writable
  <2>9. CASE stage[c] = "ask"
    <3>1. m = Question(c) /\ stage'[c] \in {"asked", "answer"}
      BY <2>2, <2>3, <2>9 DEF Saves, After
    <3>2. ConvPair(conv', c, stage'[c], crashes)
      BY <1>0, <2>1, <2>3, <2>4, <2>6, <3>1, PairAsked
    <3>3. LinePair(Written(m).lines, c, stage'[c])
      BY <1>2, <2>4, <2>6, <2>8, <3>1, PairWritten
    <3> HIDE DEF Written
    <3>4. LinePair(file'.lines, c, stage'[c])
      BY <2>7, <3>1, <3>3, PairAbsent
    <3> QED
      BY <2>1, <2>5, <3>1, <3>2, <3>4
  <2>10. CASE stage[c] = "answer"
    <3>1. m = Reply(c) /\ stage'[c] \in {"answered", "done"}
      BY <1>3, <2>2, <2>3, <2>10 DEF Saves, After
    <3>2. LinePair(file.lines, c, "answer") /\ ConvPair(conv, c, "answer", crashes)
      BY <1>2, <2>1, <2>10
    <3>3. ConvPair(conv', c, stage'[c], crashes)
      BY <1>0, <2>1, <2>3, <2>6, <3>1, <3>2, PairAnswered
    <3>4. LinePair(Written(m).lines, c, stage'[c])
      BY <2>6, <2>8, <3>1, <3>2, PairWritten
    <3> HIDE DEF Written
    <3>5. LinePair(file'.lines, c, stage'[c])
      BY <2>7, <3>1, <3>4, PairAbsent
    <3> QED
      BY <2>1, <2>5, <3>3, <3>5
  <2> QED
    BY <1>8, <2>9, <2>10 DEF AppendMessage
<1>9. ASSUME NEW d \in Chats, EndLine(d) PROVE Goal
  <2>1. conv' = conv /\ crashes' = crashes /\ stage' = [stage EXCEPT ![d] = After[stage[d]]]
    BY <1>9 DEF EndLine, Advance
  <2>2. conv # None /\ d \in Active
    BY <1>9 DEF EndLine, Types, Cached, Active, Saving, Ending
  <2>3. ASSUME NEW st, st \notin {"asked", "answer"}, LinePair(file.lines, c, st)
        PROVE  LinePair(file'.lines, c, st)
    <3>1. Garbled \in Writable /\ Garbled \notin {Question(c), Reply(c)} /\ Once(file.lines, Reply(c))
      BY <1>3, Constants DEF Writable, OnceInv
    <3>2. LinePair(Written(Garbled).lines, c, st)
      BY <2>3, <3>1, PairWritten
    <3> HIDE DEF Written
    <3> QED
      BY <1>9, <2>3, <3>2, EndWrites
  <2>4. CASE d # c
    <3>1. c \notin Active /\ stage'[c] = stage[c]
      BY <1>2, <2>1, <2>2, <2>4
    <3>2. LinePair(file'.lines, c, stage[c])
      BY <1>2, <2>3, <3>1 DEF Active, Saving
    <3> QED
      BY <1>2, <2>1, <3>1, <3>2
  <2>5. CASE d = c /\ stage[c] = "asked"
    <3>1. stage'[c] = "answer"
      BY <2>1, <2>5 DEF After
    <3>2. ConvPair(conv, c, "answer", crashes) /\ LinePair(file.lines, c, "answer")
      BY <1>2, <2>2, <2>5 DEF ConvPair, LinePair
    <3>3. CASE ~file.open
      <4>1. Question(c) \notin Range(file.lines) /\ Question(c) # Garbled
        BY <1>2, <1>3, <2>5, <3>3, Constants DEF AskedInv
      <4>2. Garbled \in Writable /\ Json(Garbled) = Garbled
        BY Constants DEF Writable, Json
      <4>3. Question(c) \notin Range(Written(Garbled).lines)
        BY <4>1, <4>2, WrittenRange
      <4> HIDE DEF Written
      <4>4. Question(c) \notin Range(file'.lines)
        BY <1>9, <4>1, <4>3, EndWrites
      <4>5. LinePair(file'.lines, c, "answer")
        BY <4>4, PairAbsent
      <4> QED
        BY <2>1, <2>2, <3>1, <3>2, <4>5
    <3>4. CASE file.open
      <4>1. file'.lines = file.lines
        BY <1>9, <3>4, EndWrites
      <4> QED
        BY <2>1, <2>2, <3>1, <3>2, <4>1
    <3> QED
      BY <3>3, <3>4
  <2>6. CASE d = c /\ stage[c] = "answered"
    <3>1. stage'[c] = "done"
      BY <2>1, <2>6 DEF After
    <3>2. ConvPair(conv, c, "done", crashes) /\ LinePair(file.lines, c, "done")
      BY <1>2, <2>2, <2>6 DEF ConvPair, LinePair
    <3>3. LinePair(file'.lines, c, "done")
      BY <2>3, <3>2
    <3> QED
      BY <2>1, <2>2, <3>1, <3>2, <3>3
  <2> QED
    BY <1>9, <2>4, <2>5, <2>6 DEF EndLine, Ending
<1>10. CASE HandleDeleteHistory
  <2>1. file'.lines = <<>> /\ conv' = conv /\ crashes' = crashes /\ stage' = stage
    BY <1>10 DEF HandleDeleteHistory, NoFile
  <2>2. LinePair(<<>>, c, stage[c])
    BY DEF LinePair
  <2> QED
    BY <1>2, <2>1, <2>2
<1>11. CASE Crash
  <2>1. conv' = None /\ crashes' > 0 /\ file' = file /\ stage'[c] \in {stage[c], "lost"}
    BY <1>0, <1>11 DEF Crash
  <2>2. LinePair(file.lines, c, stage'[c])
    BY <1>2, <2>1 DEF LinePair
  <2> QED
    BY <2>1, <2>2
<1>12. CASE UNCHANGED vars
  BY <1>4, <1>12 DEF vars, chatVars
<1> QED
  BY <1>5, <1>6, <1>7, <1>8, <1>9, <1>10, <1>11, <1>12 DEF Next, ChatStep

\* agent.go:140.  A question asked while nobody else was chatting is followed at once by
\* its own answer, if that could be joined: through failed saves, deletions and kills,
\* which may lose the answer and never put another message in its place.
THEOREM TurnsStayTogether == Spec => []TurnsAreAdjacent
<1> DEFINE Inv == Types /\ DeleteInv /\ AdjacentInv
<1>1. Init => Inv
  <2> SUFFICES ASSUME Init PROVE Inv
    OBVIOUS
  <2>1. DeleteInv
    BY DEF Init, NoFile, DeleteInv, DueInv, DeletedStaysOffDisk, Range
  <2>2. Active = {}
    BY DEF Init, Active, Saving
  <2>3. file.lines = <<>> /\ conv = None
    BY DEF Init, NoFile
  <2>4. AdjacentInv
    BY <2>2, <2>3 DEF Init, AdjacentInv, AloneInv, OnceInv, Once, AskedInv, PairInv, LinePair
  <2> QED
    BY <2>1, <2>4, InitType
<1>2. Inv /\ [Next]_vars => Inv'
  BY StepType, StepDelete, StepAlone, StepOnce, StepAsked, StepPair DEF DeleteInv, AdjacentInv
<1>3. Inv => TurnsAreAdjacent
  <2> SUFFICES ASSUME Inv, NEW c \in Chats \ (overlapped \cup broken),
                      stage[c] = "done", conv # None, NEW i \in DOMAIN conv, conv[i] = Question(c)
               PROVE  \/ i < Len(conv) /\ conv[i + 1] = Answer(c)
                      \/ crashes > 0 /\ Answer(c) \notin Range(conv)
    BY DEF TurnsAreAdjacent
  <2>1. Answer(c) = Reply(c)
    BY DEF Answer, Reply
  <2>2. ConvPair(conv, c, "done", crashes)
    BY DEF AdjacentInv, PairInv
  <2>3. Followed(conv, c, i) \/ (crashes > 0 /\ Reply(c) \notin Range(conv))
    BY <2>2 DEF ConvPair
  <2> QED
    BY <2>1, <2>3 DEF Followed
<1> QED
  BY <1>1, <1>2, <1>3, PTL DEF Spec
=============================================================================
