-------------------------- MODULE ChatSession_proofs --------------------------
(***************************************************************************)
(* ChatSession, for any number of questions, approvals, deletions, kills,   *)
(* failed writes, broken connections and events.                            *)
(***************************************************************************)
EXTENDS ChatSession, SequenceTheorems, FiniteSetTheorems, WellFoundedInduction, TLAPS

-----------------------------------------------------------------------------
(* Induction, for a set in the place of a predicate.                       *)

LEMMA Least ==
  ASSUME NEW T, T \subseteq Nat, T # {}
  PROVE  \E x \in T : \A y \in T : ~(y < x)
<1>1. \A x, y \in Nat : x < y => <<x, y>> \in OpToRel(<, Nat)
  BY DEF OpToRel
<1>2. PICK x \in T : \A y \in T : ~(<<y, x>> \in OpToRel(<, Nat))
  BY NatLessThanWellFounded, WFMin
<1> QED
  BY <1>1, <1>2

LEMMA Induction ==
  ASSUME NEW T, 0 \in T, \A n \in Nat : n \in T => n + 1 \in T
  PROVE  Nat \subseteq T
<1> SUFFICES ASSUME Nat \ T # {} PROVE FALSE
  OBVIOUS
<1>1. PICK x \in Nat \ T : \A y \in Nat \ T : ~(y < x)
  BY Least
<1>2. x - 1 \in Nat /\ x - 1 < x /\ (x - 1) + 1 = x
  BY <1>1
<1> QED
  BY <1>1, <1>2

-----------------------------------------------------------------------------
(* What Kept returns.                                                      *)

\* kept, in the definition of Kept, up to n.
KeptAt(s, S, k, i) ==
    IF i = 0 THEN <<>>
    ELSE IF s[i] \in S THEN Append(k[i - 1], s[i]) ELSE k[i - 1]
Keeping(s, S, n, k) == k = [i \in 0..n |-> KeptAt(s, S, k, i)]
KeepsUpTo(s, S, n, k) ==
    /\ k[0] = <<>>
    /\ \A i \in 1..n : k[i] = IF s[i] \in S THEN Append(k[i - 1], s[i]) ELSE k[i - 1]

LEMMA KeepingAt ==
  ASSUME NEW s, NEW S, NEW n \in Nat, NEW k, Keeping(s, S, n, k), NEW i \in 0..n
  PROVE  k[i] = KeptAt(s, S, k, i)
<1> DEFINE g == [j \in 0..n |-> KeptAt(s, S, k, j)]
<1>1. k = g
  BY Zenon DEF Keeping
<1>2. g[i] = KeptAt(s, S, k, i)
  OBVIOUS
<1> HIDE DEF g
<1> QED
  BY <1>1, <1>2, Zenon

LEMMA KeepingExists ==
  ASSUME NEW s, NEW S, NEW n \in Nat
  PROVE  \E k : Keeping(s, S, n, k)
<1> DEFINE T == {m \in Nat : \E k : Keeping(s, S, m, k)}
<1>1. 0 \in T
  <2> DEFINE k == [i \in 0..0 |-> <<>>]
  <2>1. \A i \in 0..0 : KeptAt(s, S, k, i) = <<>>
    BY DEF KeptAt
  <2>2. Keeping(s, S, 0, k)
    BY <2>1 DEF Keeping
  <2> QED
    BY <2>2
<1>2. ASSUME NEW m \in Nat, m \in T PROVE m + 1 \in T
  <2>1. PICK k : Keeping(s, S, m, k)
    BY <1>2
  <2>2. \A i \in 0..m : k[i] = KeptAt(s, S, k, i)
    BY <2>1, KeepingAt
  <2> DEFINE l == [i \in 0..(m + 1) |-> IF i = m + 1 THEN KeptAt(s, S, k, i) ELSE k[i]]
  <2>3. \A i \in 0..(m + 1) : KeptAt(s, S, l, i) = KeptAt(s, S, k, i)
    <3> SUFFICES ASSUME NEW i \in 0..(m + 1) PROVE KeptAt(s, S, l, i) = KeptAt(s, S, k, i)
      OBVIOUS
    <3>1. i # 0 => l[i - 1] = k[i - 1]
      OBVIOUS
    <3> HIDE DEF l
    <3> QED
      BY <3>1 DEF KeptAt
  <2>4. \A i \in 0..(m + 1) : l[i] = KeptAt(s, S, l, i)
    BY <2>2, <2>3
  <2>5. l = [i \in 0..(m + 1) |-> l[i]]
    OBVIOUS
  <2>6. Keeping(s, S, m + 1, l)
    <3> HIDE DEF l
    <3> QED
      BY <2>4, <2>5 DEF Keeping
  <2> QED
    BY <2>6
<1> HIDE DEF T
<1>3. n \in T
  BY <1>1, <1>2, Induction
<1> QED
  BY <1>3 DEF T

LEMMA KeptSteps ==
  ASSUME NEW s, NEW S, Len(s) \in Nat
  PROVE  \E k : KeepsUpTo(s, S, Len(s), k) /\ Kept(s, S) = k[Len(s)]
<1> DEFINE k == CHOOSE j : Keeping(s, S, Len(s), j)
<1>1. Kept(s, S) = k[Len(s)]
  BY Zenon DEF Kept, Keeping, KeptAt
<1>2. \E j : Keeping(s, S, Len(s), j)
  BY KeepingExists
<1>3. Keeping(s, S, Len(s), k)
  BY <1>2, Zenon
<1> HIDE DEF k
<1>4. \A i \in 0..Len(s) : k[i] = KeptAt(s, S, k, i)
  BY <1>3, KeepingAt
<1>5. KeepsUpTo(s, S, Len(s), k)
  BY <1>4 DEF KeepsUpTo, KeptAt
<1> QED
  BY <1>1, <1>5

LEMMA KeptAgree ==
  ASSUME NEW s, NEW t, NEW S, NEW n \in Nat, NEW k, NEW l,
         KeepsUpTo(s, S, n, k), KeepsUpTo(t, S, n, l), \A i \in 1..n : s[i] = t[i]
  PROVE  k[n] = l[n]
<1> DEFINE T == {m \in Nat : m <= n => k[m] = l[m]}
<1>1. 0 \in T
  BY DEF KeepsUpTo
<1>2. ASSUME NEW m \in Nat, m \in T PROVE m + 1 \in T
  <2> SUFFICES ASSUME m + 1 <= n PROVE k[m + 1] = l[m + 1]
    BY <1>2
  <2>1. m + 1 \in 1..n /\ (m + 1) - 1 = m /\ k[m] = l[m]
    BY <1>2
  <2> QED
    BY <2>1 DEF KeepsUpTo
<1> HIDE DEF T
<1>3. n \in T
  BY <1>1, <1>2, Induction
<1> QED
  BY <1>3 DEF T

LEMMA KeptEmpty ==
  ASSUME NEW S
  PROVE  Kept(<<>>, S) = <<>>
<1>1. PICK k : KeepsUpTo(<<>>, S, Len(<<>>), k) /\ Kept(<<>>, S) = k[Len(<<>>)]
  BY KeptSteps
<1> QED
  BY <1>1 DEF KeepsUpTo

LEMMA KeptAppend ==
  ASSUME NEW A, NEW s \in Seq(A), NEW m \in A, NEW S
  PROVE  Kept(Append(s, m), S) = IF m \in S THEN Append(Kept(s, S), m) ELSE Kept(s, S)
<1> DEFINE t == Append(s, m)
           n == Len(s)
<1>1. n \in Nat /\ Len(t) = n + 1 /\ t[n + 1] = m /\ \A i \in 1..n : t[i] = s[i]
  BY AppendProperties
<1>2. PICK k : KeepsUpTo(s, S, n, k) /\ Kept(s, S) = k[n]
  BY <1>1, KeptSteps
<1> HIDE DEF t
<1>3. PICK l : KeepsUpTo(t, S, n + 1, l) /\ Kept(t, S) = l[n + 1]
  BY <1>1, KeptSteps
<1>4. KeepsUpTo(t, S, n, l)
  BY <1>1, <1>3 DEF KeepsUpTo
<1>5. k[n] = l[n]
  BY <1>1, <1>2, <1>4, KeptAgree
<1>6. l[n + 1] = IF t[n + 1] \in S THEN Append(l[n], t[n + 1]) ELSE l[n]
  <2>1. n + 1 \in 1..(n + 1) /\ (n + 1) - 1 = n
    BY <1>1
  <2> QED
    BY <1>3, <2>1 DEF KeepsUpTo
<1>7. Kept(t, S) = IF m \in S THEN Append(Kept(s, S), m) ELSE Kept(s, S)
  BY <1>1, <1>2, <1>3, <1>5, <1>6
<1> QED
  BY <1>7 DEF t

LEMMA ToSetAppend ==
  ASSUME NEW A, NEW s \in Seq(A), NEW m \in A
  PROVE  Append(s, m) \in Seq(A) /\ ToSet(Append(s, m)) = ToSet(s) \cup {m}
<1>1. /\ Append(s, m) \in Seq(A) /\ Len(s) \in Nat /\ Len(Append(s, m)) = Len(s) + 1
      /\ \A i \in 1..Len(s) : Append(s, m)[i] = s[i]
      /\ Append(s, m)[Len(s) + 1] = m
      /\ DOMAIN s = 1..Len(s) /\ DOMAIN Append(s, m) = 1..(Len(s) + 1)
  BY AppendProperties, LenProperties
<1> QED
  BY <1>1 DEF ToSet

LEMMA KeptRange ==
  ASSUME NEW A, NEW s \in Seq(A), NEW S
  PROVE  Kept(s, S) \in Seq(A) /\ ToSet(Kept(s, S)) = ToSet(s) \cap S
<1> DEFINE n == Len(s)
<1>1. n \in Nat /\ DOMAIN s = 1..n /\ \A i \in 1..n : s[i] \in A
  BY LenProperties, ElementOfSeq
<1>2. PICK k : KeepsUpTo(s, S, n, k) /\ Kept(s, S) = k[n]
  BY <1>1, KeptSteps
<1> HIDE DEF n
<1> DEFINE T == {m \in Nat : m <= n =>
                    k[m] \in Seq(A) /\ ToSet(k[m]) = {s[i] : i \in 1..m} \cap S}
<1>3. 0 \in T
  <2>1. k[0] = <<>> /\ 1..0 = {} /\ ToSet(<<>>) = {}
    BY <1>2, EmptySeq DEF KeepsUpTo, ToSet
  <2> QED
    BY <2>1, EmptySeq
<1>4. ASSUME NEW m \in Nat, m \in T PROVE m + 1 \in T
  <2> SUFFICES ASSUME m + 1 <= n
               PROVE  /\ k[m + 1] \in Seq(A)
                      /\ ToSet(k[m + 1]) = {s[i] : i \in 1..(m + 1)} \cap S
    BY <1>4
  <2>1. k[m] \in Seq(A) /\ ToSet(k[m]) = {s[i] : i \in 1..m} \cap S
    BY <1>1, <1>4
  <2>2. m + 1 \in 1..n /\ (m + 1) - 1 = m /\ s[m + 1] \in A
    BY <1>1
  <2>3. k[m + 1] = IF s[m + 1] \in S THEN Append(k[m], s[m + 1]) ELSE k[m]
    BY <1>2, <2>2 DEF KeepsUpTo
  <2>4. {s[i] : i \in 1..(m + 1)} = {s[i] : i \in 1..m} \cup {s[m + 1]}
    OBVIOUS
  <2>5. CASE s[m + 1] \in S
    BY <2>1, <2>2, <2>3, <2>4, <2>5, ToSetAppend
  <2>6. CASE s[m + 1] \notin S
    BY <2>1, <2>3, <2>4, <2>6
  <2> QED
    BY <2>5, <2>6
<1> HIDE DEF T
<1>5. n \in T
  BY <1>1, <1>3, <1>4, Induction
<1>6. k[n] \in Seq(A) /\ ToSet(k[n]) = {s[i] : i \in 1..n} \cap S
  BY <1>1, <1>5 DEF T
<1> QED
  BY <1>1, <1>2, <1>6 DEF ToSet

\* The elements of s that are in S rise.
RisesOn(s, S) == \A i, j \in DOMAIN s : i < j /\ s[i] \in S /\ s[j] \in S => s[i] < s[j]

LEMMA RisesAppend ==
  ASSUME NEW s \in Seq(Nat), NEW m \in Nat, NEW S,
         RisesOn(s, S), m \in S => \A x \in ToSet(s) \cap S : x < m
  PROVE  RisesOn(Append(s, m), S)
<1>1. /\ Len(s) \in Nat /\ Len(Append(s, m)) = Len(s) + 1
      /\ \A i \in 1..Len(s) : Append(s, m)[i] = s[i]
      /\ Append(s, m)[Len(s) + 1] = m
      /\ DOMAIN s = 1..Len(s) /\ DOMAIN Append(s, m) = 1..(Len(s) + 1)
  BY AppendProperties, LenProperties
<1>2. ASSUME NEW i \in DOMAIN Append(s, m), NEW j \in DOMAIN Append(s, m), i < j,
             Append(s, m)[i] \in S, Append(s, m)[j] \in S
      PROVE  Append(s, m)[i] < Append(s, m)[j]
  <2>1. i \in 1..Len(s) /\ Append(s, m)[i] = s[i] /\ s[i] \in ToSet(s) \cap S
    BY <1>1, <1>2 DEF ToSet
  <2>2. CASE j = Len(s) + 1
    BY <1>1, <1>2, <2>1, <2>2
  <2>3. CASE j \in 1..Len(s)
    BY <1>1, <1>2, <2>1, <2>3 DEF RisesOn
  <2> QED
    BY <1>1, <2>2, <2>3
<1> QED
  BY <1>2 DEF RisesOn

LEMMA KeptRises ==
  ASSUME NEW s \in Seq(Nat), NEW S, NEW S2, RisesOn(s, S2)
  PROVE  RisesOn(Kept(s, S), S2)
<1> DEFINE n == Len(s)
<1>1. n \in Nat /\ DOMAIN s = 1..n /\ \A i \in 1..n : s[i] \in Nat
  BY LenProperties, ElementOfSeq
<1>2. PICK k : KeepsUpTo(s, S, n, k) /\ Kept(s, S) = k[n]
  BY <1>1, KeptSteps
<1> HIDE DEF n
<1> DEFINE T == {m \in Nat : m <= n =>
                    /\ k[m] \in Seq(Nat)
                    /\ ToSet(k[m]) \subseteq {s[i] : i \in 1..m}
                    /\ RisesOn(k[m], S2)}
<1>3. 0 \in T
  <2>1. k[0] = <<>> /\ ToSet(<<>>) = {} /\ RisesOn(<<>>, S2)
    BY <1>2, EmptySeq DEF KeepsUpTo, ToSet, RisesOn
  <2> QED
    BY <2>1, EmptySeq
<1>4. ASSUME NEW m \in Nat, m \in T PROVE m + 1 \in T
  <2> SUFFICES ASSUME m + 1 <= n
               PROVE  /\ k[m + 1] \in Seq(Nat)
                      /\ ToSet(k[m + 1]) \subseteq {s[i] : i \in 1..(m + 1)}
                      /\ RisesOn(k[m + 1], S2)
    BY <1>4
  <2>1. /\ k[m] \in Seq(Nat) /\ ToSet(k[m]) \subseteq {s[i] : i \in 1..m}
        /\ RisesOn(k[m], S2)
    BY <1>1, <1>4
  <2>2. m + 1 \in 1..n /\ (m + 1) - 1 = m /\ s[m + 1] \in Nat
    BY <1>1
  <2>3. k[m + 1] = IF s[m + 1] \in S THEN Append(k[m], s[m + 1]) ELSE k[m]
    BY <1>2, <2>2 DEF KeepsUpTo
  <2>4. {s[i] : i \in 1..(m + 1)} = {s[i] : i \in 1..m} \cup {s[m + 1]}
    OBVIOUS
  <2>5. s[m + 1] \in S2 => \A x \in ToSet(k[m]) \cap S2 : x < s[m + 1]
    BY <1>1, <2>1, <2>2 DEF RisesOn
  <2>6. CASE s[m + 1] \in S
    BY <2>1, <2>2, <2>3, <2>4, <2>5, <2>6, ToSetAppend, RisesAppend
  <2>7. CASE s[m + 1] \notin S
    BY <2>1, <2>3, <2>4, <2>7
  <2> QED
    BY <2>6, <2>7
<1> HIDE DEF T
<1>5. n \in T
  BY <1>1, <1>3, <1>4, Induction
<1> QED
  BY <1>1, <1>2, <1>5 DEF T

-----------------------------------------------------------------------------
(* The page: while the agent runs it shows what the turn has written, as    *)
(* long as the connection holds; and a page that offers an approval shows    *)
(* as many cards as the session remembers for the turn that approves.        *)

Running == ui.st \in {"events", "chunks"}

TurnInv ==
    /\ ~Idle => cache = turn.sess /\ ~Cached.pending
    /\ Running => turn.phase = "streaming"
    /\ turn.phase = "saving" => ui.st = "ended"
    /\ turn.phase = "asked" => ~turn.resumed

UiInv ==
    Running =>
        /\ ui.kids = Cards(ui.idx)
        /\ up => page.kids = ui.kids /\ ~ui.broken
        /\ ~page.asked /\ ~ui.interrupt
        /\ ui.st = "chunks" /\ ~ui.msg.shell /\ ~ui.broken => ui.msg.idx = ui.idx

AskedInv ==
    /\ turn.phase \in {"asked", "ready"} => ~page.asked
    /\ turn.phase \in {"streaming", "saving"} /\ page.asked =>
          ui.interrupt /\ page.kids = Cards(ui.idx)
    /\ turn.phase = "ready" /\ turn.resumed => page.kids = Cards(objects[turn.sess].msgIdx)
    /\ Idle /\ page.asked /\ cache # None /\ Cached.pending => page.kids = Cards(Cached.msgIdx)

PageInv == TurnInv /\ UiInv /\ AskedInv /\ TreeIsWhole

-----------------------------------------------------------------------------
(* The messages: what is still to be saved is new, and rises.               *)

\* What the turn has to save.
Pending == IF turn.phase = "streaming" THEN ui.kept ELSE turn.left
Stored ==
    acked \cup ToSet(file.lines) \cup UNION {ToSet(objects[i].messages) : i \in DOMAIN objects}
Written == Stored \cup strays \cup ToSet(start)

\* n messages have been given numbers; those of W are written, those of p and l, which go
\* to the sessions of the turn and of one that was stopped, are not.
Fresh(p, l, W, n) ==
    /\ InOrder(p) /\ InOrder(l)
    /\ \A x \in ToSet(l), y \in ToSet(p) : x < y
    /\ ToSet(p) \cup ToSet(l) \subseteq 1..n
    /\ W \subseteq 0..n
    /\ W \cap (ToSet(p) \cup ToSet(l)) = {}
FreshInv == Fresh(Pending, late.left, Written, minted)

FaultInv ==
    /\ 0 \notin acked
    /\ IsFiniteSet(acked)
    /\ file.header = "none" => acked = {} /\ ~file.open
    /\ file.open => Last(file.lines) \notin acked
    /\ Cardinality(acked \ ToSet(file.lines)) + (IF file.open THEN 1 ELSE 0) <= faults

Own == Nat \ (strays \cup {Junk})
LinesInv ==
    /\ RisesOn(file.lines, Own)
    /\ \A l \in ToSet(file.lines) \cap Own, p \in ToSet(Pending) : l < p
    /\ cache # None => ToSet(file.lines) \cap Own \subseteq ToSet(Cached.messages)

\* The messages of a run, after a.
Run(a, n) == [i \in 1..(n - a) |-> a + i]
Questioned == turn.phase \in {"ready", "streaming", "saving"} /\ ~turn.resumed
SavedInv ==
    Questioned =>
        /\ start # <<>>
        /\ Last(start) \notin strays
        /\ turn.phase = "ready" => minted = Last(start)
        /\ turn.phase = "saving" =>
              Without(objects[turn.sess].messages, strays) \o turn.left
              = Without(start, strays) \o ui.kept
        /\ turn.phase # "saving" => Without(objects[turn.sess].messages, strays) = Without(start, strays)
        /\ turn.phase # "ready" =>
              /\ ui.kept = Run(Last(start), minted)
              /\ ui.st = "ended" => over \/ (ui.failed /\ ui.kept = <<>>)

-----------------------------------------------------------------------------
(* Types                                                                   *)

FileInv == file.open => file.lines # <<>>
LeftInv == turn.phase # "saving" => turn.left = <<>>
TypeInv == TypeOK /\ FileInv /\ LeftInv

LEMMA Constants ==
  /\ MaxObjects \in Nat /\ MaxFaults \in Nat /\ MaxEvents \in Nat
  /\ None \notin Nat
  /\ \A n \in TooLong : n \in Nat /\ n # 0
  BY StoreAssumption, StreamerAssumption

LEMMA SeqDomain ==
  ASSUME NEW A, NEW s \in Seq(A)
  PROVE  /\ Len(s) \in Nat /\ DOMAIN s = 1..Len(s) /\ s \in [1..Len(s) -> A]
         /\ \A i \in DOMAIN s : s[i] \in A
  BY LenProperties, ElementOfSeq

LEMMA Fields ==
  ASSUME TypeOK
  PROVE  /\ Len(objects) \in Nat /\ DOMAIN objects = 1..Len(objects)
         /\ \A i \in DOMAIN objects :
               /\ objects[i] \in Object
               /\ objects[i].messages \in Seq(Nat) /\ objects[i].pending \in BOOLEAN
               /\ objects[i].msgIdx \in Nat
         /\ cache # None => cache \in DOMAIN objects
         /\ file.header \in {"none", "ok", "bad"} /\ file.lines \in Seq(Nat)
         /\ file.open \in BOOLEAN
         /\ ui.st \in {"off", "events", "chunks", "ended"} /\ ui.kids \in Seq(Nat) /\ ui.idx \in Nat
         /\ ui.broken \in BOOLEAN /\ ui.interrupt \in BOOLEAN /\ ui.failed \in BOOLEAN
         /\ ui.kept \in Seq(Nat) /\ ui.msg.calls \in Nat /\ ui.msg.idx \in Nat
         /\ ui.msg.shell \in BOOLEAN
         /\ page.kids \in Seq(Nat) /\ page.cards \in Seq(Nat) /\ page.asked \in BOOLEAN
         /\ turn.phase \in Phases /\ turn.sess \in Nat /\ turn.left \in Seq(Nat)
         /\ turn.resumed \in BOOLEAN
         /\ late.sess \in Nat /\ late.left \in Seq(Nat)
         /\ faults \in Nat /\ minted \in Nat /\ events \in Nat
<1>1. DOMAIN objects = 1..Len(objects) /\ Len(objects) \in Nat
      /\ \A i \in DOMAIN objects : objects[i] \in Object
  BY SeqDomain DEF TypeOK
<1>2. faults \in Nat
  BY Constants DEF TypeOK
<1> QED
  BY <1>1, <1>2 DEF TypeOK, Object, File, Ui, Page

LEMMA CardsType ==
  ASSUME NEW n \in Nat
  PROVE  /\ Cards(n) \in Seq(Nat) /\ Len(Cards(n)) = n
         /\ \A i \in 1..n : Cards(n)[i] = i - 1
<1>1. Cards(n) \in [1..n -> Nat]
  BY DEF Cards
<1> QED
  BY <1>1 DEF Cards

IsCards(s, n) == s \in Seq(Nat) /\ Len(s) = n /\ \A i \in 1..n : s[i] = i - 1

LEMMA CardsAre ==
  ASSUME NEW n \in Nat, NEW s, IsCards(s, n)
  PROVE  s = Cards(n)
<1>1. Cards(n) \in Seq(Nat) /\ Len(Cards(n)) = n /\ \A i \in 1..n : Cards(n)[i] = i - 1
  BY CardsType
<1> QED
  BY <1>1, SeqEqual DEF IsCards

\* The cards of a longer list.
LEMMA CardsAppend ==
  ASSUME NEW n \in Nat
  PROVE  Append(Cards(n), n) = Cards(n + 1)
<1>1. Cards(n) \in Seq(Nat) /\ Len(Cards(n)) = n /\ \A i \in 1..n : Cards(n)[i] = i - 1
  BY CardsType
<1>2. IsCards(Append(Cards(n), n), n + 1)
  BY <1>1, AppendProperties DEF IsCards
<1>3. n + 1 \in Nat
  OBVIOUS
<1> QED
  BY <1>2, <1>3, CardsAre

LEMMA MoreCards ==
  ASSUME NEW n \in Nat, NEW k \in Nat, NEW few \in Seq(Nat), IsCards(few, n),
         NEW more \in Seq(Nat), Len(more) = k, \A i \in 1..k : more[i] = n + i - 1
  PROVE  IsCards(few \o more, n + k)
<1>1. /\ few \o more \in Seq(Nat) /\ Len(few \o more) = n + k
      /\ \A i \in 1..(n + k) : (few \o more)[i] = IF i <= n THEN few[i] ELSE more[i - n]
  BY ConcatProperties DEF IsCards
<1>2. ASSUME NEW i \in 1..(n + k) PROVE (few \o more)[i] = i - 1
  <2>1. CASE i <= n
    BY <1>1, <2>1 DEF IsCards
  <2>2. CASE ~(i <= n)
    <3>1. i - n \in 1..k /\ n + (i - n) - 1 = i - 1
      BY <2>2
    <3>2. (few \o more)[i] = more[i - n]
      BY <1>1, <2>2
    <3> QED
      BY <3>1, <3>2
  <2> QED
    BY <2>1, <2>2
<1> QED
  BY <1>1, <1>2 DEF IsCards

LEMMA CardsConcat ==
  ASSUME NEW n \in Nat, NEW k \in Nat
  PROVE  Cards(n) \o [i \in 1..k |-> n + i - 1] = Cards(n + k)
<1> DEFINE more == [i \in 1..k |-> n + i - 1]
<1>1. more \in Seq(Nat) /\ Len(more) = k /\ \A i \in 1..k : more[i] = n + i - 1
  OBVIOUS
<1> HIDE DEF more
<1>2. Cards(n) \in Seq(Nat) /\ IsCards(Cards(n), n)
  BY CardsType DEF IsCards
<1>3. n + k \in Nat /\ IsCards(Cards(n) \o more, n + k)
  BY <1>1, <1>2, MoreCards
<1>4. Cards(n) \o more = Cards(n + k)
  BY <1>3, CardsAre
<1> QED
  BY <1>4 DEF more

\* A list of cards that is followed by the rest of a longer one.
LEMMA CardsGrow ==
  ASSUME NEW n \in Nat, NEW k \in Nat, n <= k
  PROVE  Cards(n) \o SubSeq(Cards(k), n + 1, k) = Cards(k)
<1>1. Cards(k) \in Seq(Nat) /\ Len(Cards(k)) = k /\ \A i \in 1..k : Cards(k)[i] = i - 1
  BY CardsType
<1>2. SubSeq(Cards(k), 1, n) = Cards(n)
  <2>1. \A i \in 1..n : Cards(k)[i] \in Nat
    BY <1>1
  <2>2. /\ SubSeq(Cards(k), 1, n) \in Seq(Nat) /\ Len(SubSeq(Cards(k), 1, n)) = n
        /\ \A i \in 1..n : SubSeq(Cards(k), 1, n)[i] = Cards(k)[i]
    BY <2>1, SubSeqProperties
  <2>3. IsCards(SubSeq(Cards(k), 1, n), n)
    BY <1>1, <2>2 DEF IsCards
  <2> QED
    BY <2>3, CardsAre
<1>3. SubSeq(Cards(k), 1, n) \o SubSeq(Cards(k), n + 1, k) = SubSeq(Cards(k), 1, k)
  <2>1. 1 \in 1..(Len(Cards(k)) + 1) /\ n \in (1 - 1)..Len(Cards(k)) /\ k \in n..Len(Cards(k))
    BY <1>1
  <2> QED
    BY <1>1, <2>1, ConcatAdjacentSubSeq
<1>4. SubSeq(Cards(k), 1, k) = Cards(k)
  BY <1>1, SubSeqFull
<1> QED
  BY <1>2, <1>3, <1>4

-----------------------------------------------------------------------------
(* The steps of the stream.                                                *)

LEMMA ChipsAre ==
  ASSUME NEW u \in Ui, u.kids = Cards(u.idx), NEW n \in Nat, NEW r, r = Chips(u, n)
  PROVE  /\ r \in Ui /\ r.kids = Cards(r.idx) /\ r.idx \in Nat
         /\ r.idx = IF u.broken THEN u.idx ELSE u.idx + n
         /\ r.st = u.st /\ r.broken = u.broken /\ r.interrupt = u.interrupt
         /\ r.failed = u.failed /\ r.kept = u.kept /\ r.msg = u.msg
<1>1. u.idx \in Nat /\ u.kids \in Seq(Nat)
  BY DEF Ui
<1>2. CASE u.broken
  BY <1>1, <1>2 DEF Chips
<1>3. CASE ~u.broken
  <2>1. PICK k \in Nat : k = u.idx + n
    BY <1>1
  <2>2. PICK ks \in Seq(Nat) : ks = Cards(k)
    BY CardsType
  <2>3. u.kids \o [i \in 1..n |-> u.idx + i - 1] = ks
    BY <1>1, <2>1, <2>2, CardsConcat
  <2>4. r = [u EXCEPT !.kids = u.kids \o [i \in 1..n |-> u.idx + i - 1], !.idx = u.idx + n]
    BY <1>3 DEF Chips
  <2>5. r = [u EXCEPT !.kids = ks, !.idx = k]
    BY <2>1, <2>3, <2>4, Zenon
  <2>6. /\ r \in Ui /\ r.kids = ks /\ r.idx = k
        /\ r.st = u.st /\ r.broken = u.broken /\ r.interrupt = u.interrupt
        /\ r.failed = u.failed /\ r.kept = u.kept /\ r.msg = u.msg
    BY <2>5 DEF Ui
  <2> QED
    BY <1>3, <2>1, <2>2, <2>6
<1> QED
  BY <1>2, <1>3

LEMMA TextCardIs ==
  ASSUME TypeOK, NEW u \in Ui, u.kids = Cards(u.idx), NEW idx, ~u.broken => idx = u.idx,
         NEW r, r = TextCard(u, idx)
  PROVE  /\ r \in Ui /\ r.kids = Cards(r.idx) /\ r.idx \in Nat
         /\ r.idx = IF u.broken THEN u.idx ELSE u.idx + 1
         /\ r.st = u.st /\ (r.broken <=> u.broken \/ ~up) /\ r.interrupt = u.interrupt
         /\ r.failed = u.failed /\ r.kept = u.kept /\ r.msg = u.msg
<1>1. u.idx \in Nat /\ u.kids \in Seq(Nat)
  BY DEF Ui
<1>2. CASE u.broken
  BY <1>1, <1>2 DEF TextCard
<1>3. CASE ~u.broken
  <2>1. PICK k \in Nat : k = u.idx + 1
    BY <1>1
  <2>2. PICK ks \in Seq(Nat) : ks = Cards(k)
    BY CardsType
  <2>3. PICK b \in BOOLEAN : b <=> ~up
    OBVIOUS
  <2>4. Append(u.kids, u.idx) = ks
    BY <1>1, <2>1, <2>2, CardsAppend
  <2>5. r = [u EXCEPT !.kids = Append(u.kids, u.idx), !.idx = u.idx + 1, !.broken = ~up]
    BY <1>3 DEF TextCard
  <2>6. b = ~up
    BY <2>3, Zenon
  <2>7. r = [u EXCEPT !.kids = ks, !.idx = k, !.broken = b]
    BY <2>1, <2>4, <2>5, <2>6, Zenon
  <2>8. /\ r \in Ui /\ r.kids = ks /\ r.idx = k
        /\ r.st = u.st /\ r.broken = b /\ r.interrupt = u.interrupt
        /\ r.failed = u.failed /\ r.kept = u.kept /\ r.msg = u.msg
    BY <2>7, ZenonT(60) DEF Ui
  <2> QED
    BY <1>3, <2>1, <2>2, <2>3, <2>8
<1> QED
  BY <1>2, <1>3

LEMMA KeepsIs ==
  ASSUME TypeOK, NEW u \in Ui, NEW r, r = Keeps(u)
  PROVE  /\ r \in Ui /\ r.kept = Append(u.kept, minted + 1)
         /\ r.kids = u.kids /\ r.idx = u.idx /\ r.st = u.st /\ r.broken = u.broken
         /\ r.interrupt = u.interrupt /\ r.failed = u.failed /\ r.msg = u.msg
<1>1. minted + 1 \in Nat /\ u.kept \in Seq(Nat)
  BY Fields DEF Ui
<1>2. Append(u.kept, minted + 1) \in Seq(Nat)
  BY <1>1
<1> QED
  BY <1>2 DEF Keeps, Ui

LEMMA EndsIfIs ==
  ASSUME NEW u \in Ui, NEW exit \in BOOLEAN, NEW r, r = EndsIf(exit, u)
  PROVE  /\ r \in Ui /\ r.st = IF exit THEN "ended" ELSE u.st
         /\ r.kept = u.kept /\ r.kids = u.kids /\ r.idx = u.idx /\ r.broken = u.broken
         /\ r.interrupt = u.interrupt /\ r.failed = u.failed /\ r.msg = u.msg
  BY DEF EndsIf, Ends, Ui

Whole == TypeInv /\ Running /\ UiInv /\ TreeIsWhole

\* What a step of the stream keeps and does.
Shown ==
    /\ page' \in Page /\ UiInv' /\ TreeIsWhole'
    /\ page'.asked => ui'.interrupt /\ page'.kids = Cards(ui'.idx)
Streams ==
    /\ ui' \in Ui /\ up' \in BOOLEAN /\ over' \in BOOLEAN /\ minted' \in Nat /\ events' \in Nat
    /\ Shown
    /\ \/ minted' = minted /\ ui'.kept = ui.kept
       \/ minted' = minted + 1 /\ ui'.kept = Append(ui.kept, minted + 1)
    /\ ui'.st # "off"
    /\ ui'.st = "ended" => over'

LEMMA PageShows ==
  ASSUME Whole, NEW u \in Ui, Yields(u), up' = up,
         u.kids = Cards(u.idx), ui.idx <= u.idx,
         u.broken => ui.broken \/ ~up,
         u.st = "chunks" /\ ~u.msg.shell /\ ~u.broken => u.msg.idx = u.idx,
         u.interrupt => u.st = "ended"
  PROVE  Shown
<1>1. /\ ui.kids = Cards(ui.idx) /\ (up => page.kids = ui.kids /\ ~ui.broken)
      /\ ~page.asked /\ ~ui.interrupt
      /\ page.kids = page.cards /\ page.cards = Cards(Len(page.cards))
  BY DEF Whole, UiInv, TreeIsWhole
<1>2. /\ ui.idx \in Nat /\ u.idx \in Nat /\ u.kids \in Seq(Nat) /\ u.interrupt \in BOOLEAN
      /\ page.cards \in Seq(Nat) /\ page \in Page /\ up \in BOOLEAN
  BY Fields DEF Whole, TypeInv, TypeOK, Ui
<1>3. ui' = u
  BY DEF Yields
<1>4. CASE up /\ u.kids # ui.kids
  <2>1. page' = [page EXCEPT !.kids = u.kids,
                   !.cards = page.cards \o SubSeq(u.kids, Len(ui.kids) + 1, Len(u.kids)),
                   !.asked = u.interrupt]
    BY <1>4 DEF Yields, Shows
  <2>2. page.cards \o SubSeq(u.kids, Len(ui.kids) + 1, Len(u.kids)) = u.kids
    <3>1. Len(ui.kids) = ui.idx /\ Len(u.kids) = u.idx
      BY <1>1, <1>2, CardsType
    <3>2. page.cards = Cards(ui.idx)
      BY <1>1, <1>4
    <3> QED
      BY <1>2, <3>1, <3>2, CardsGrow
  <2>3. page' \in Page /\ page'.kids = u.kids /\ page'.cards = u.kids /\ page'.asked = u.interrupt
    BY <1>2, <2>1, <2>2 DEF Page
  <2>4. Len(u.kids) = u.idx
    BY <1>2, CardsType
  <2>5. TreeIsWhole'
    BY <2>3, <2>4 DEF TreeIsWhole
  <2>6. UiInv'
    BY <1>1, <1>3, <1>4, <2>3 DEF UiInv, Running
  <2> QED
    BY <1>3, <2>3, <2>5, <2>6 DEF Shown
<1>5. CASE ~(up /\ u.kids # ui.kids)
  <2>1. page' = page
    BY <1>5 DEF Yields, Shows
  <2>2. TreeIsWhole'
    BY <2>1 DEF Whole, TreeIsWhole
  <2>3. UiInv'
    BY <1>1, <1>3, <1>5, <2>1 DEF UiInv, Running
  <2> QED
    BY <1>1, <1>2, <2>1, <2>2, <2>3 DEF Shown
<1> QED
  BY <1>4, <1>5

\* What the lemmas of the steps begin with.
LEMMA Beginning ==
  ASSUME Whole
  PROVE  /\ TypeOK /\ ui \in Ui /\ ui.kids = Cards(ui.idx) /\ ui.idx \in Nat
         /\ ui.st \in {"events", "chunks"} /\ ~ui.interrupt
         /\ ui.st = "chunks" /\ ~ui.msg.shell /\ ~ui.broken => ui.msg.idx = ui.idx
         /\ ui.msg.calls \in Nat
         /\ up \in BOOLEAN /\ over \in BOOLEAN /\ minted \in Nat /\ events \in Nat
         /\ minted + 1 \in Nat /\ events + 1 \in Nat
<1>1. TypeOK /\ UiInv /\ Running
  BY DEF Whole, TypeInv
<1>2. /\ ui \in Ui /\ ui.idx \in Nat /\ ui.msg.calls \in Nat
      /\ minted \in Nat /\ events \in Nat /\ up \in BOOLEAN /\ over \in BOOLEAN
  BY <1>1, Fields DEF TypeOK
<1>3. /\ ui.kids = Cards(ui.idx) /\ ui.st \in {"events", "chunks"} /\ ~ui.interrupt
      /\ (ui.st = "chunks" /\ ~ui.msg.shell /\ ~ui.broken => ui.msg.idx = ui.idx)
  BY <1>1 DEF Running, UiInv
<1> QED
  BY <1>1, <1>2, <1>3

LEMMA ChipsOfUi ==
  ASSUME Whole, NEW n \in Nat, NEW c, c = Chips(ui, n)
  PROVE  /\ c \in Ui /\ c.kids = Cards(c.idx) /\ c.idx \in Nat /\ ui.idx <= c.idx
         /\ c.st = ui.st /\ c.broken = ui.broken /\ c.interrupt = ui.interrupt
         /\ c.failed = ui.failed /\ c.kept = ui.kept /\ c.msg = ui.msg
<1>1. ui \in Ui /\ ui.kids = Cards(ui.idx) /\ ui.idx \in Nat
  BY Beginning
<1>2. /\ c \in Ui /\ c.kids = Cards(c.idx) /\ c.idx \in Nat
      /\ c.idx = (IF ui.broken THEN ui.idx ELSE ui.idx + n)
      /\ c.st = ui.st /\ c.broken = ui.broken /\ c.interrupt = ui.interrupt
      /\ c.failed = ui.failed /\ c.kept = ui.kept /\ c.msg = ui.msg
  BY <1>1, ChipsAre, ZenonT(60)
<1> QED
  BY <1>1, <1>2

LEMMA RetriesStep ==
  ASSUME Whole, ModelRetries
  PROVE  Streams
<1> DEFINE u == Chips(ui, 1)
<1>1. /\ u \in Ui /\ u.kids = Cards(u.idx) /\ ui.idx <= u.idx /\ u.st = ui.st /\ u.broken = ui.broken
      /\ u.interrupt = ui.interrupt /\ u.kept = ui.kept /\ u.msg = ui.msg
  BY ChipsOfUi
<1>2. ui.st = "events" /\ up' = up /\ Yields(u) /\ minted' = minted /\ over' = over /\ events' = events + 1
  BY DEF ModelRetries, Event
<1> HIDE DEF u
<1>3. Shown
  BY <1>1, <1>2, Beginning, PageShows
<1>4. ui' = u
  BY <1>2 DEF Yields
<1> QED
  BY <1>1, <1>2, <1>3, <1>4, Beginning DEF Streams

LEMMA FailsStep ==
  ASSUME Whole, RunFails
  PROVE  Streams
<1> DEFINE c == Chips(ui, 1)
           u == [Ends(c) EXCEPT !.failed = TRUE]
<1>1. /\ c \in Ui /\ c.kids = Cards(c.idx) /\ ui.idx <= c.idx /\ c.st = ui.st /\ c.broken = ui.broken
      /\ c.interrupt = ui.interrupt /\ c.kept = ui.kept
  BY ChipsOfUi
<1>2. up' = up /\ Yields(u) /\ minted' = minted /\ over' = TRUE /\ events' = events + 1
  BY DEF RunFails, Event
<1> HIDE DEF c
<1>3. /\ u \in Ui /\ u.kids = c.kids /\ u.idx = c.idx /\ u.st = "ended" /\ u.broken = c.broken
      /\ u.interrupt = c.interrupt /\ u.kept = c.kept
  BY <1>1 DEF Ends, Ui
<1> HIDE DEF u
<1>4. Shown
  BY <1>1, <1>2, <1>3, Beginning, PageShows
<1>5. ui' = u
  BY <1>2 DEF Yields
<1> QED
  BY <1>1, <1>2, <1>3, <1>4, <1>5, Beginning DEF Streams

LEMMA InterruptsStep ==
  ASSUME Whole, RunInterrupts
  PROVE  Streams
<1> DEFINE c == Chips(ui, 1)
           u == [Ends(c) EXCEPT !.interrupt = TRUE]
<1>1. /\ c \in Ui /\ c.kids = Cards(c.idx) /\ ui.idx <= c.idx /\ c.st = ui.st /\ c.broken = ui.broken
      /\ c.kept = ui.kept
  BY ChipsOfUi
<1>2. up' = up /\ Yields(u) /\ minted' = minted /\ over' = TRUE /\ events' = events + 1
  BY DEF RunInterrupts, Event
<1> HIDE DEF c
<1>3. /\ u \in Ui /\ u.kids = c.kids /\ u.idx = c.idx /\ u.st = "ended" /\ u.broken = c.broken
      /\ u.kept = c.kept
  BY <1>1 DEF Ends, Ui
<1> HIDE DEF u
<1>4. Shown
  BY <1>1, <1>2, <1>3, Beginning, PageShows
<1>5. ui' = u
  BY <1>2 DEF Yields
<1> QED
  BY <1>1, <1>2, <1>3, <1>4, <1>5, Beginning DEF Streams

LEMMA EndsStep ==
  ASSUME Whole, RunEnds
  PROVE  Streams
<1>1. ui' = Ends(ui) /\ page' = page /\ up' = up /\ minted' = minted /\ over' = TRUE /\ events' = events
  BY DEF RunEnds
<1>2. ui' \in Ui /\ ui'.st = "ended" /\ ui'.kept = ui.kept
  BY <1>1, Beginning DEF Ends, Ui
<1>3. page' \in Page /\ ~page'.asked /\ TreeIsWhole'
  BY <1>1 DEF Whole, UiInv, TreeIsWhole, TypeInv, TypeOK
<1>4. UiInv'
  BY <1>2 DEF UiInv, Running
<1> QED
  BY <1>1, <1>2, <1>3, <1>4, Beginning DEF Streams, Shown

LEMMA ToolStep ==
  ASSUME Whole, ToolReturns
  PROVE  Streams
<1> DEFINE c == Chips(ui, 1)
           u == Keeps(c)
<1>1. /\ c \in Ui /\ c.kids = Cards(c.idx) /\ ui.idx <= c.idx /\ c.st = ui.st /\ c.broken = ui.broken
      /\ c.interrupt = ui.interrupt /\ c.kept = ui.kept /\ c.msg = ui.msg
  BY ChipsOfUi
<1>2. /\ ui.st = "events" /\ up' = up /\ Yields(u) /\ minted' = minted + 1 /\ over' = over
      /\ events' = events + 1
  BY DEF ToolReturns, Event
<1> HIDE DEF c
<1>3. /\ u \in Ui /\ u.kids = c.kids /\ u.idx = c.idx /\ u.st = c.st /\ u.broken = c.broken
      /\ u.interrupt = c.interrupt /\ u.kept = Append(c.kept, minted + 1) /\ u.msg = c.msg
  BY <1>1, Beginning, KeepsIs
<1> HIDE DEF u
<1>4. Shown
  BY <1>1, <1>2, <1>3, Beginning, PageShows
<1>5. ui' = u
  BY <1>2 DEF Yields
<1> QED
  BY <1>1, <1>2, <1>3, <1>4, <1>5, Beginning DEF Streams

LEMMA MessageStep ==
  ASSUME Whole, Message
  PROVE  Streams
<1>1. PICK text \in BOOLEAN, think \in BOOLEAN, exit \in BOOLEAN, calls \in 0..2 :
        LET chips == Chips(ui, calls)
            card  == IF text THEN TextCard(chips, chips.idx) ELSE chips
            worth == text \/ calls > 0 \/ think
        IN  /\ Yields(EndsIf(exit, IF worth THEN Keeps(card) ELSE card))
            /\ minted' = IF worth THEN minted + 1 ELSE minted
            /\ over' = exit
  BY DEF Message
<1> DEFINE c == Chips(ui, calls)
           d == IF text THEN TextCard(c, c.idx) ELSE c
           worth == text \/ calls > 0 \/ think
           e == IF worth THEN Keeps(d) ELSE d
           u == EndsIf(exit, e)
<1>2. /\ c \in Ui /\ c.kids = Cards(c.idx) /\ c.idx \in Nat /\ ui.idx <= c.idx /\ c.st = ui.st
      /\ c.broken = ui.broken /\ c.interrupt = ui.interrupt /\ c.kept = ui.kept
  BY ChipsOfUi
<1>3. ui.st = "events" /\ up' = up /\ events' = events + 1
  BY DEF Message, Event
<1>4. Yields(u) /\ minted' = (IF worth THEN minted + 1 ELSE minted) /\ over' = exit
  BY <1>1
<1> HIDE DEF c
<1>5. /\ d \in Ui /\ d.kids = Cards(d.idx) /\ ui.idx <= d.idx /\ d.st = c.st
      /\ (d.broken => c.broken \/ ~up) /\ d.interrupt = c.interrupt /\ d.kept = c.kept
  <2>1. CASE text
    BY <1>2, <2>1, Beginning, TextCardIs
  <2>2. CASE ~text
    BY <1>2, <2>2
  <2> QED
    BY <2>1, <2>2
<1> HIDE DEF d
<1>6. /\ e \in Ui /\ e.kids = d.kids /\ e.idx = d.idx /\ e.st = d.st /\ e.broken = d.broken
      /\ e.interrupt = d.interrupt /\ e.kept = IF worth THEN Append(d.kept, minted + 1) ELSE d.kept
  <2>1. CASE worth
    BY <1>5, <2>1, Beginning, KeepsIs
  <2>2. CASE ~worth
    BY <1>5, <2>2
  <2> QED
    BY <2>1, <2>2
<1> HIDE DEF e, worth
<1>7. /\ u \in Ui /\ u.kids = e.kids /\ u.idx = e.idx /\ u.broken = e.broken
      /\ u.st = (IF exit THEN "ended" ELSE e.st)
      /\ u.interrupt = e.interrupt /\ u.kept = e.kept
  BY <1>6, EndsIfIs
<1> HIDE DEF u
<1>8. Shown
  BY <1>2, <1>3, <1>4, <1>5, <1>6, <1>7, Beginning, PageShows
<1>9. ui' = u
  BY <1>4 DEF Yields
<1>10. over' \in BOOLEAN /\ minted' \in Nat
  BY <1>4, Beginning
<1> QED
  BY <1>2, <1>3, <1>4, <1>5, <1>6, <1>7, <1>8, <1>9, <1>10, Beginning DEF Streams

LEMMA OpensStep ==
  ASSUME Whole, StreamOpens
  PROVE  Streams
<1>1. /\ ui' = [ui EXCEPT !.st = "chunks", !.msg = [NoText EXCEPT !.idx = ui.idx]]
      /\ page' = page /\ up' = up /\ minted' = minted /\ over' = over /\ events' = events
  BY DEF StreamOpens
<1>2. /\ ui' \in Ui /\ ui'.st = "chunks" /\ ui'.kept = ui.kept /\ ui'.kids = ui.kids /\ ui'.idx = ui.idx
      /\ ui'.broken = ui.broken /\ ui'.interrupt = ui.interrupt /\ ui'.msg.idx = ui.idx
  BY <1>1, Beginning DEF NoText, Ui
<1>3. page' \in Page /\ ~page'.asked /\ TreeIsWhole'
  BY <1>1 DEF Whole, UiInv, TreeIsWhole, TypeInv, TypeOK
<1>4. UiInv'
  BY <1>1, <1>2 DEF UiInv, Running, Whole
<1> QED
  BY <1>1, <1>2, <1>3, <1>4, Beginning DEF Streams, Shown

LEMMA TextStep ==
  ASSUME Whole, TextChunk
  PROVE  Streams
<1> DEFINE c == IF ui.msg.shell THEN [ui EXCEPT !.broken = @ \/ ~up] ELSE TextCard(ui, ui.msg.idx)
           u == [c EXCEPT !.msg.text = TRUE, !.msg.shell = ~c.broken \/ ui.msg.shell]
<1>1. /\ ui.st = "chunks" /\ up' = up /\ Yields(u) /\ minted' = minted /\ over' = over
      /\ events' = events + 1
  BY DEF TextChunk, Event
<1>2. /\ c \in Ui /\ c.kids = Cards(c.idx) /\ ui.idx <= c.idx /\ c.st = ui.st
      /\ (c.broken => ui.broken \/ ~up) /\ c.interrupt = ui.interrupt /\ c.kept = ui.kept
  <2>1. CASE ui.msg.shell
    <3>1. PICK b \in BOOLEAN : b <=> ui.broken \/ ~up
      OBVIOUS
    <3>2. b = (ui.broken \/ ~up)
      BY <3>1, Zenon
    <3>3. c = [ui EXCEPT !.broken = b]
      BY <2>1, <3>2, Zenon
    <3> HIDE DEF c
    <3>4. /\ c \in Ui /\ c.kids = ui.kids /\ c.idx = ui.idx /\ c.st = ui.st /\ c.broken = b
          /\ c.interrupt = ui.interrupt /\ c.kept = ui.kept
      BY <3>3, Beginning DEF Ui
    <3> QED
      BY <3>1, <3>4, Beginning
  <2>2. CASE ~ui.msg.shell
    <3>1. c = TextCard(ui, ui.msg.idx) /\ (~ui.broken => ui.msg.idx = ui.idx)
      BY <1>1, <2>2, Beginning
    <3> HIDE DEF c
    <3>2. /\ TypeOK /\ ui \in Ui /\ ui.kids = Cards(ui.idx) /\ ui.idx \in Nat
      BY Beginning
    <3>3. /\ c \in Ui /\ c.kids = Cards(c.idx)
          /\ c.idx = (IF ui.broken THEN ui.idx ELSE ui.idx + 1)
          /\ c.st = ui.st /\ (c.broken <=> ui.broken \/ ~up) /\ c.interrupt = ui.interrupt
          /\ c.kept = ui.kept
      BY <3>1, <3>2, TextCardIs
    <3> QED
      BY <3>2, <3>3
  <2> QED
    BY <2>1, <2>2
<1> HIDE DEF c
<1>3. /\ u \in Ui /\ u.kids = c.kids /\ u.idx = c.idx /\ u.st = c.st /\ u.broken = c.broken
      /\ u.interrupt = c.interrupt /\ u.kept = c.kept
      /\ (u.msg.shell <=> ~c.broken \/ ui.msg.shell)
  <2>1. PICK b \in BOOLEAN : b <=> ~c.broken \/ ui.msg.shell
    OBVIOUS
  <2>2. b = (~c.broken \/ ui.msg.shell)
    BY <2>1, Zenon
  <2>3. u = [c EXCEPT !.msg.text = TRUE, !.msg.shell = b]
    BY <2>2, Zenon
  <2> HIDE DEF u
  <2> QED
    BY <1>2, <2>1, <2>3 DEF Ui
<1> HIDE DEF u
<1>4. Shown
  BY <1>1, <1>2, <1>3, Beginning, PageShows
<1>5. ui' = u
  BY <1>1 DEF Yields
<1> QED
  BY <1>1, <1>2, <1>3, <1>4, <1>5, Beginning DEF Streams

\* A step that writes nothing.
LEMMA QuietStep ==
  ASSUME Whole, page' = page, up' = up, minted' = minted, over' = over, events' \in Nat,
         ui' \in Ui, ui'.st = ui.st, ui'.kept = ui.kept, ui'.kids = ui.kids, ui'.idx = ui.idx,
         ui'.broken = ui.broken, ui'.interrupt = ui.interrupt,
         ui'.msg.idx = ui.msg.idx, ui'.msg.shell = ui.msg.shell
  PROVE  Streams
<1>1. page' \in Page /\ ~page'.asked /\ TreeIsWhole'
  BY DEF Whole, UiInv, TreeIsWhole, TypeInv, TypeOK
<1>2. UiInv'
  BY DEF UiInv, Running, Whole
<1> QED
  BY <1>1, <1>2, Beginning DEF Streams, Shown

LEMMA CallStep ==
  ASSUME Whole, CallChunk
  PROVE  Streams
<1>1. /\ ui' = [ui EXCEPT !.msg.calls = @ + 1]
      /\ page' = page /\ up' = up /\ minted' = minted /\ over' = over /\ events' = events + 1
  BY DEF CallChunk, Event
<1>2. /\ ui' \in Ui /\ ui'.st = ui.st /\ ui'.kept = ui.kept /\ ui'.kids = ui.kids /\ ui'.idx = ui.idx
      /\ ui'.broken = ui.broken /\ ui'.interrupt = ui.interrupt
      /\ ui'.msg.idx = ui.msg.idx /\ ui'.msg.shell = ui.msg.shell
  BY <1>1, Beginning, SMTT(30) DEF Ui
<1> QED
  BY <1>1, <1>2, Beginning, QuietStep

LEMMA ThinkStep ==
  ASSUME Whole, ThinkChunk
  PROVE  Streams
<1>1. /\ ui' = [ui EXCEPT !.msg.think = TRUE]
      /\ page' = page /\ up' = up /\ minted' = minted /\ over' = over /\ events' = events + 1
  BY DEF ThinkChunk, Event
<1>2. /\ ui' \in Ui /\ ui'.st = ui.st /\ ui'.kept = ui.kept /\ ui'.kids = ui.kids /\ ui'.idx = ui.idx
      /\ ui'.broken = ui.broken /\ ui'.interrupt = ui.interrupt
      /\ ui'.msg.idx = ui.msg.idx /\ ui'.msg.shell = ui.msg.shell
  BY <1>1, Beginning DEF Ui
<1> QED
  BY <1>1, <1>2, Beginning, QuietStep

LEMMA BetweenEvents ==
  ASSUME NEW c \in Ui, NEW u, u = [c EXCEPT !.st = "events", !.msg = NoText]
  PROVE  /\ u \in Ui /\ u.kids = c.kids /\ u.idx = c.idx /\ u.st = "events"
         /\ u.broken = c.broken /\ u.interrupt = c.interrupt /\ u.kept = c.kept
  BY DEF Ui, NoText

LEMMA StreamRetriesStep ==
  ASSUME Whole, StreamRetries
  PROVE  Streams
<1> DEFINE c == Chips(ui, 1)
           u == [c EXCEPT !.st = "events", !.msg = NoText]
<1>1. /\ c \in Ui /\ c.kids = Cards(c.idx) /\ ui.idx <= c.idx /\ c.broken = ui.broken
      /\ c.interrupt = ui.interrupt /\ c.kept = ui.kept
  BY ChipsOfUi
<1>2. up' = up /\ Yields(u) /\ minted' = minted /\ over' = over /\ events' = events + 1
  BY DEF StreamRetries, Event
<1> HIDE DEF c
<1>3. /\ u \in Ui /\ u.kids = c.kids /\ u.idx = c.idx /\ u.st = "events"
      /\ u.broken = c.broken /\ u.interrupt = c.interrupt /\ u.kept = c.kept
  BY <1>1, BetweenEvents
<1> HIDE DEF u
<1>4. Shown
  BY <1>1, <1>2, <1>3, Beginning, PageShows
<1>5. ui' = u
  BY <1>2 DEF Yields
<1> QED
  BY <1>1, <1>2, <1>3, <1>4, <1>5, Beginning DEF Streams

LEMMA ClosesStep ==
  ASSUME Whole, StreamCloses
  PROVE  Streams
<1>1. PICK exit \in BOOLEAN, joined \in BOOLEAN :
        LET chips == [Chips(ui, ui.msg.calls) EXCEPT !.st = "events", !.msg = NoText]
            worth == Worth(ui.msg, joined)
        IN  /\ Yields(EndsIf(exit, IF worth THEN Keeps(chips) ELSE chips))
            /\ minted' = IF worth THEN minted + 1 ELSE minted
            /\ over' = exit
  BY DEF StreamCloses
<1> DEFINE c == Chips(ui, ui.msg.calls)
           d == [c EXCEPT !.st = "events", !.msg = NoText]
           worth == Worth(ui.msg, joined)
           e == IF worth THEN Keeps(d) ELSE d
           u == EndsIf(exit, e)
<1>2. up' = up /\ events' = events
  BY DEF StreamCloses
<1>3. Yields(u) /\ minted' = (IF worth THEN minted + 1 ELSE minted) /\ over' = exit
  BY <1>1
<1>4. /\ c \in Ui /\ c.kids = Cards(c.idx) /\ ui.idx <= c.idx /\ c.broken = ui.broken
      /\ c.interrupt = ui.interrupt /\ c.kept = ui.kept
  BY Beginning, ChipsOfUi
<1> HIDE DEF c
<1>5. /\ d \in Ui /\ d.kids = c.kids /\ d.idx = c.idx /\ d.st = "events"
      /\ d.broken = c.broken /\ d.interrupt = c.interrupt /\ d.kept = c.kept
  BY <1>4, BetweenEvents
<1> HIDE DEF d
<1>6. /\ e \in Ui /\ e.kids = d.kids /\ e.idx = d.idx /\ e.st = d.st /\ e.broken = d.broken
      /\ e.interrupt = d.interrupt /\ e.kept = IF worth THEN Append(d.kept, minted + 1) ELSE d.kept
  <2>1. CASE worth
    BY <1>5, <2>1, Beginning, KeepsIs
  <2>2. CASE ~worth
    BY <1>5, <2>2
  <2> QED
    BY <2>1, <2>2
<1> HIDE DEF e, worth
<1>7. /\ u \in Ui /\ u.kids = e.kids /\ u.idx = e.idx /\ u.broken = e.broken
      /\ u.st = (IF exit THEN "ended" ELSE e.st)
      /\ u.interrupt = e.interrupt /\ u.kept = e.kept
  BY <1>6, EndsIfIs
<1> HIDE DEF u
<1>8. Shown
  BY <1>2, <1>3, <1>4, <1>5, <1>6, <1>7, Beginning, PageShows
<1>9. ui' = u
  BY <1>3 DEF Yields
<1>10. over' \in BOOLEAN /\ minted' \in Nat
  BY <1>3, Beginning
<1> QED
  BY <1>2, <1>3, <1>4, <1>5, <1>6, <1>7, <1>8, <1>9, <1>10, Beginning DEF Streams

LEMMA BreaksStep ==
  ASSUME Whole, ConnectionBreaks
  PROVE  Streams
<1>1. /\ ui' = ui /\ page' = page /\ up' = FALSE /\ minted' = minted /\ over' = over
      /\ events' = events
  BY DEF ConnectionBreaks
<1>2. page' \in Page /\ ~page'.asked /\ TreeIsWhole'
  BY <1>1 DEF Whole, UiInv, TreeIsWhole, TypeInv, TypeOK
<1>3. UiInv'
  BY <1>1 DEF UiInv, Running, Whole
<1> QED
  BY <1>1, <1>2, <1>3, Beginning DEF Streams, Shown

LEMMA RunningSteps ==
  ASSUME StreamStep \/ ConnectionBreaks
  PROVE  Running
  BY DEF StreamStep, ConnectionBreaks, ModelRetries, RunFails, RunInterrupts, RunEnds, ToolReturns,
     Message, StreamOpens, TextChunk, CallChunk, ThinkChunk, StreamRetries, StreamCloses, Event, Running

LEMMA StreamsOn ==
  ASSUME TypeInv, UiInv, TreeIsWhole, StreamStep \/ ConnectionBreaks
  PROVE  Running /\ Streams
<1>1. Whole
  BY RunningSteps DEF Whole
<1> QED
  BY <1>1, RunningSteps, RetriesStep, FailsStep, InterruptsStep, EndsStep, ToolStep, MessageStep, OpensStep,
     TextStep, CallStep, ThinkStep, StreamRetriesStep, ClosesStep, BreaksStep DEF StreamStep

-----------------------------------------------------------------------------
(* The operations of the store.                                            *)

\* A line is put at the end of b, the lines before the one it joins, if any.
PutLine(ls, joins, m, b, j) ==
    \/ joins /\ ls = Append(b, Last(ls)) /\ j \in {m, Last(ls), Junk}
    \/ ~joins /\ b = ls /\ j = m

LEMMA WithLineIs ==
  ASSUME NEW f \in File, f.open => f.lines # <<>>, NEW m \in Nat, NEW r, r = WithLine(f, m)
  PROVE  /\ r \in File /\ ~r.open /\ r.header = f.header
         /\ \E b \in Seq(Nat), j \in Nat : r.lines = Append(b, j) /\ PutLine(f.lines, f.open, m, b, j)
<1>1. f.lines \in Seq(Nat) /\ f.open \in BOOLEAN /\ f.header \in {"none", "ok", "bad"}
  BY DEF File
<1>2. CASE f.open
  <2>0. f.lines \in Seq(Nat) /\ f.lines # <<>>
    BY <1>1, <1>2
  <2>1. PICK b \in Seq(Nat), e \in Nat : f.lines = Append(b, e)
    BY <2>0, SequenceEmptyOrAppend, Zenon
  <2>2. /\ Len(b) \in Nat /\ Len(f.lines) = Len(b) + 1 /\ f.lines[Len(b) + 1] = e
        /\ \A i \in 1..Len(b) : f.lines[i] = b[i] /\ b[i] \in Nat
    BY <2>1, AppendProperties, SeqDomain
  <2>3. Last(f.lines) = e
    BY <2>2 DEF Last
  <2>4. Front(f.lines) = b
    <3>1. /\ SubSeq(f.lines, 1, Len(b)) \in Seq(Nat) /\ Len(SubSeq(f.lines, 1, Len(b))) = Len(b)
          /\ \A i \in 1..Len(b) : SubSeq(f.lines, 1, Len(b))[i] = f.lines[i]
      BY <2>2, SubSeqProperties
    <3>2. SubSeq(f.lines, 1, Len(b)) = b
      BY <2>2, <3>1, SeqEqual
    <3> QED
      BY <2>2, <3>2 DEF Front
  <2>5. PICK j \in Nat : j = Joined(e, m) /\ j \in {m, e, Junk}
    BY DEF Joined, Junk
  <2>6. Append(b, j) = b \o <<j>> /\ Append(b, j) \in Seq(Nat)
    BY AppendIsConcat, AppendProperties
  <2>7. r = [f EXCEPT !.lines = Append(b, j), !.open = FALSE]
    BY <1>2, <2>3, <2>4, <2>5, <2>6 DEF WithLine
  <2>8. r \in File /\ ~r.open /\ r.header = f.header /\ r.lines = Append(b, j)
    BY <2>6, <2>7 DEF File
  <2>9. PutLine(f.lines, f.open, m, b, j)
    BY <1>2, <2>1, <2>3, <2>5 DEF PutLine
  <2> QED
    BY <2>8, <2>9
<1>3. CASE ~f.open
  <2>1. r = [f EXCEPT !.lines = Append(f.lines, m)] /\ Append(f.lines, m) \in Seq(Nat)
    BY <1>1, <1>3, AppendProperties DEF WithLine
  <2>2. r \in File /\ r.open = f.open /\ r.header = f.header /\ r.lines = Append(f.lines, m)
    BY <2>1 DEF File
  <2>3. PutLine(f.lines, f.open, m, f.lines, m)
    BY <1>3 DEF PutLine
  <2> QED
    BY <1>1, <1>3, <2>2, <2>3
<1> QED
  BY <1>2, <1>3

\* Session o has one message more.
Grown(o, m) ==
    /\ objects' \in Seq(Object) /\ DOMAIN objects' = DOMAIN objects /\ Len(objects') = Len(objects)
    /\ objects'[o].messages = Append(objects[o].messages, m)
    /\ objects'[o].pending = objects[o].pending /\ objects'[o].msgIdx = objects[o].msgIdx
    /\ \A i \in DOMAIN objects \ {o} : objects'[i] = objects[i]
    /\ cache' = cache

\* The file has a line more, or no trace of it, if the write has failed.
Extended(m) ==
    /\ file' \in File /\ FileInv' /\ file'.header = file.header
    /\ \/ file' = file
       \/ /\ file.header # "none"
          /\ file'.lines # <<>>
          /\ \E n \in {m, Junk}, b \in Seq(Nat), j \in Nat :
                file'.lines = Append(b, j) /\ PutLine(file.lines, file.open, n, b, j)

LEMMA MessageAdded ==
  ASSUME TypeInv, NEW o \in DOMAIN objects, NEW m \in Nat,
         objects' = [objects EXCEPT ![o].messages = Append(@, m)], cache' = cache
  PROVE  Grown(o, m)
<1> DEFINE new == [objects[o] EXCEPT !.messages = Append(@, m)]
<1>1. /\ objects \in Seq(Object) /\ o \in 1..Len(objects) /\ DOMAIN objects = 1..Len(objects)
      /\ objects[o] \in Object
  BY Fields DEF TypeInv, TypeOK
<1>2. objects[o].messages \in Seq(Nat) /\ Append(objects[o].messages, m) \in Seq(Nat)
  BY <1>1, AppendProperties DEF Object
<1>3. /\ new \in Object /\ new.messages = Append(objects[o].messages, m)
      /\ new.pending = objects[o].pending /\ new.msgIdx = objects[o].msgIdx
  BY <1>1, <1>2 DEF Object
<1>4. objects' = [objects EXCEPT ![o] = new]
  OBVIOUS
<1> HIDE DEF new
<1> DEFINE changed == [objects EXCEPT ![o] = new]
<1>a. /\ changed \in Seq(Object) /\ Len(changed) = Len(objects)
      /\ \A j \in 1..Len(objects) : changed[j] = IF j = o THEN new ELSE objects[j]
  BY <1>1, <1>3, ExceptSeq
<1>5. /\ objects' \in Seq(Object) /\ Len(objects') = Len(objects)
      /\ \A j \in 1..Len(objects) : objects'[j] = IF j = o THEN new ELSE objects[j]
  BY <1>4, <1>a
<1>6. DOMAIN objects' = 1..Len(objects)
  BY <1>1, <1>5, SeqDomain
<1> QED
  BY <1>1, <1>3, <1>5, <1>6 DEF Grown

LEMMA LineAdded ==
  ASSUME TypeInv, NEW m \in Nat, file.header # "none", file' = WithLine(file, m)
  PROVE  /\ Extended(m) /\ ~file'.open
         /\ \E b \in Seq(Nat), j \in Nat :
               file'.lines = Append(b, j) /\ PutLine(file.lines, file.open, m, b, j)
<1>1. file \in File /\ (file.open => file.lines # <<>>)
  BY DEF TypeInv, TypeOK, FileInv
<1>2. file' \in File /\ ~file'.open /\ file'.header = file.header
  BY <1>1, WithLineIs
<1>3. PICK b \in Seq(Nat), j \in Nat :
         file'.lines = Append(b, j) /\ PutLine(file.lines, file.open, m, b, j)
  BY <1>1, WithLineIs
<1>4. file'.lines # <<>>
  BY <1>3, AppendProperties
<1> QED
  BY <1>2, <1>3, <1>4 DEF Extended, FileInv

LEMMA LineFailed ==
  ASSUME TypeInv, NEW m \in Nat, file.header # "none", file' \in AfterFailure(file, m)
  PROVE  Extended(m) /\ (file' # file => file'.open)
<1>1. CASE file' = file
  BY <1>1 DEF Extended, TypeInv, TypeOK, FileInv
<1>2. CASE file' # file
  <2>1. PICK n \in {Junk, m} : file' = [WithLine(file, n) EXCEPT !.open = TRUE]
    BY <1>2 DEF AfterFailure
  <2> DEFINE r == WithLine(file, n)
  <2>2. file \in File /\ (file.open => file.lines # <<>>) /\ n \in Nat
    BY DEF TypeInv, TypeOK, FileInv, Junk
  <2>3. r \in File /\ r.header = file.header
    BY <2>2, WithLineIs
  <2>4. PICK b \in Seq(Nat), j \in Nat :
           r.lines = Append(b, j) /\ PutLine(file.lines, file.open, n, b, j)
    BY <2>2, WithLineIs
  <2>5. file' = [r EXCEPT !.open = TRUE]
    BY <2>1
  <2> HIDE DEF r
  <2>6. file' \in File /\ file'.open /\ file'.header = file.header /\ file'.lines = r.lines
    BY <2>3, <2>5 DEF File
  <2>7. file'.lines # <<>>
    BY <2>4, <2>6, AppendProperties
  <2> QED
    BY <2>4, <2>6, <2>7 DEF Extended, FileInv
<1> QED
  BY <1>1, <1>2

LEMMA AppendIs ==
  ASSUME TypeInv, NEW o \in DOMAIN objects, NEW m \in Nat, SessionAppend(o, m)
  PROVE  /\ Grown(o, m) /\ Extended(m)
         /\ faults' \in 0..MaxFaults /\ acked' \subseteq acked \cup {m}
<1>1. /\ objects' = [objects EXCEPT ![o].messages = Append(@, m)] /\ cache' = cache
  BY DEF SessionAppend, Remembered
<1>2. Grown(o, m)
  BY <1>1, MessageAdded
<1>3. /\ faults \in 0..MaxFaults /\ MaxFaults \in Nat
  BY Constants DEF TypeInv, TypeOK
<1>4. CASE file' = file /\ faults' = faults /\ acked' = acked
  BY <1>2, <1>3, <1>4 DEF Extended, TypeInv, TypeOK, FileInv
<1>5. CASE file.header # "none" /\ file' = WithLine(file, m) /\ acked' = acked \cup {m} /\ faults' = faults
  BY <1>2, <1>3, <1>5, LineAdded
<1>6. CASE /\ file.header # "none" /\ faults < MaxFaults /\ faults' = faults + 1
           /\ file' \in AfterFailure(file, m) /\ acked' = acked
  BY <1>2, <1>3, <1>6, LineFailed
<1> QED
  BY <1>4, <1>5, <1>6 DEF SessionAppend, Opened

\* Session o keeps its messages, and remembers something else of an interrupt.
Marked(o, pending, idx) ==
    /\ objects' \in Seq(Object) /\ DOMAIN objects' = DOMAIN objects /\ Len(objects') = Len(objects)
    /\ objects'[o].messages = objects[o].messages
    /\ objects'[o].pending = pending /\ objects'[o].msgIdx = idx
    /\ \A i \in DOMAIN objects \ {o} : objects'[i] = objects[i]
    /\ cache' = cache

LEMMA ObjectReplaced ==
  ASSUME TypeInv, NEW o \in DOMAIN objects, NEW new \in Object, new.messages = objects[o].messages,
         cache' = cache, objects' = [objects EXCEPT ![o] = new]
  PROVE  Marked(o, new.pending, new.msgIdx)
<1>1. /\ objects \in Seq(Object) /\ o \in 1..Len(objects) /\ DOMAIN objects = 1..Len(objects)
  BY Fields DEF TypeInv, TypeOK
<1> DEFINE changed == [objects EXCEPT ![o] = new]
<1>2. /\ changed \in Seq(Object) /\ Len(changed) = Len(objects)
      /\ \A j \in 1..Len(objects) : changed[j] = IF j = o THEN new ELSE objects[j]
  BY <1>1, ExceptSeq
<1>3. /\ objects' \in Seq(Object) /\ Len(objects') = Len(objects)
      /\ \A j \in 1..Len(objects) : objects'[j] = IF j = o THEN new ELSE objects[j]
  BY <1>2
<1>4. DOMAIN objects' = 1..Len(objects)
  BY <1>1, <1>3, SeqDomain
<1> QED
  BY <1>1, <1>3, <1>4 DEF Marked

LEMMA InterruptSet ==
  ASSUME TypeInv, NEW o \in DOMAIN objects, NEW idx \in Nat, SetInterrupt(o, idx)
  PROVE  Marked(o, TRUE, idx)
<1> DEFINE new == [objects[o] EXCEPT !.pending = TRUE, !.msgIdx = idx]
<1>1. objects[o] \in Object /\ o \in DOMAIN objects /\ objects \in Seq(Object)
  BY Fields DEF TypeInv, TypeOK
<1>2. new \in Object /\ new.messages = objects[o].messages /\ new.pending = TRUE /\ new.msgIdx = idx
  BY <1>1 DEF Object
<1>3. objects' = [objects EXCEPT ![o] = new] /\ cache' = cache
  BY <1>1 DEF SetInterrupt
<1> HIDE DEF new
<1>4. Marked(o, new.pending, new.msgIdx)
  BY <1>2, <1>3, ObjectReplaced
<1> QED
  BY <1>2, <1>4

LEMMA InterruptCleared ==
  ASSUME TypeInv, NEW o \in DOMAIN objects, ClearInterrupt(o)
  PROVE  Marked(o, FALSE, objects[o].msgIdx)
<1> DEFINE new == [objects[o] EXCEPT !.pending = FALSE]
<1>1. objects[o] \in Object /\ o \in DOMAIN objects /\ objects \in Seq(Object)
  BY Fields DEF TypeInv, TypeOK
<1>2. /\ new \in Object /\ new.messages = objects[o].messages /\ new.pending = FALSE
      /\ new.msgIdx = objects[o].msgIdx
  BY <1>1 DEF Object
<1>3. objects' = [objects EXCEPT ![o] = new] /\ cache' = cache
  BY <1>1 DEF ClearInterrupt
<1> HIDE DEF new
<1>4. Marked(o, new.pending, new.msgIdx)
  BY <1>2, <1>3, ObjectReplaced
<1> QED
  BY <1>2, <1>4

\* A new object for the session, with the messages ms.
Opening(ms) ==
    /\ cache = None
    /\ objects' \in Seq(Object) /\ Len(objects') = Len(objects) + 1
    /\ DOMAIN objects' = DOMAIN objects \cup {cache'}
    /\ cache' = Len(objects) + 1 /\ cache' \in DOMAIN objects' /\ cache' \notin DOMAIN objects
    /\ objects'[cache'] = Session(ms)
    /\ \A i \in DOMAIN objects : objects'[i] = objects[i]
    /\ UNCHANGED <<faults, acked>>

LEMMA ObjectAdded ==
  ASSUME TypeInv, NEW ms \in Seq(Nat), NewObject(ms), cache = None, UNCHANGED <<faults, acked>>
  PROVE  Opening(ms)
<1>1. Session(ms) \in Object
  BY DEF Session, Object
<1>2. objects \in Seq(Object) /\ Len(objects) \in Nat /\ DOMAIN objects = 1..Len(objects)
  BY Fields DEF TypeInv, TypeOK
<1>3. objects' = Append(objects, Session(ms)) /\ cache' = Len(objects) + 1
  BY DEF NewObject
<1>4. /\ objects' \in Seq(Object) /\ Len(objects') = Len(objects) + 1
      /\ \A i \in 1..Len(objects) : objects'[i] = objects[i]
      /\ objects'[Len(objects) + 1] = Session(ms)
  BY <1>1, <1>2, <1>3, AppendProperties
<1>5. DOMAIN objects' = 1..(Len(objects) + 1)
  BY <1>4, SeqDomain
<1> QED
  BY <1>2, <1>3, <1>4, <1>5 DEF Opening

Empty == [NoFile EXCEPT !.header = "ok"]
Bad == [NoFile EXCEPT !.header = "bad"]
LEMMA Obtained ==
  ASSUME TypeInv, GetOrCreate
  PROVE  \/ cache # None /\ UNCHANGED storeVars
         \/ Opening(Readable(file)) /\ file' = file
         \/ Opening(<<>>) /\ file.header = "none" /\ file' = Empty
<1>1. Readable(file) \in Seq(Nat)
  BY Fields, KeptRange DEF Readable, TypeInv
<1>2. <<>> \in Seq(Nat)
  OBVIOUS
<1>3. CASE FromCache(cache) # None /\ UNCHANGED storeVars
  BY <1>3 DEF FromCache
<1>4. CASE FromCache(cache) = None /\ NewObject(Readable(file)) /\ UNCHANGED <<file, faults, acked>>
  BY <1>1, <1>4, ObjectAdded DEF FromCache
<1>5. CASE /\ FromCache(cache) = None /\ file.header = "none" /\ NewObject(<<>>)
           /\ file' = [NoFile EXCEPT !.header = "ok"] /\ UNCHANGED <<faults, acked>>
  BY <1>2, <1>5, ObjectAdded DEF FromCache, Empty
<1> QED
  BY <1>3, <1>4, <1>5 DEF GetOrCreate

\* What the operations leave of the store's types.
StoreTypes ==
    /\ objects' \in Seq(Object)
    /\ cache' \in DOMAIN objects' \cup {None}
    /\ file' \in File /\ FileInv'
    /\ faults' \in 0..MaxFaults
    /\ acked' \subseteq Nat

LEMMA FilesAre ==
  /\ NoFile \in File /\ ~NoFile.open /\ NoFile.lines = <<>> /\ NoFile.header = "none"
  /\ Empty \in File /\ ~Empty.open /\ Empty.lines = <<>> /\ Empty.header = "ok"
  /\ Bad \in File /\ ~Bad.open /\ Bad.lines = <<>> /\ Bad.header = "bad"
<1>1. <<>> \in Seq(Nat)
  OBVIOUS
<1>2. NoFile \in File /\ ~NoFile.open /\ NoFile.lines = <<>> /\ NoFile.header = "none"
  BY <1>1 DEF NoFile, File
<1>3. Empty \in File /\ Empty.open = NoFile.open /\ Empty.lines = NoFile.lines /\ Empty.header = "ok"
  BY <1>2 DEF Empty, File
<1>4. Bad \in File /\ Bad.open = NoFile.open /\ Bad.lines = NoFile.lines /\ Bad.header = "bad"
  BY <1>2 DEF Bad, File
<1> QED
  BY <1>2, <1>3, <1>4

LEMMA ObtainedTypes ==
  ASSUME TypeInv, GetOrCreate
  PROVE  StoreTypes /\ cache' \in DOMAIN objects'
<1>1. CASE cache # None /\ UNCHANGED storeVars
  BY <1>1 DEF storeVars, StoreTypes, TypeInv, TypeOK, FileInv
<1>2. CASE Opening(Readable(file)) /\ file' = file
  BY <1>2 DEF StoreTypes, Opening, TypeInv, TypeOK, FileInv
<1>3. CASE Opening(<<>>) /\ file.header = "none" /\ file' = Empty
  BY <1>3, FilesAre DEF StoreTypes, Opening, TypeInv, TypeOK, FileInv
<1> QED
  BY <1>1, <1>2, <1>3, Obtained

\* Without a session, nothing but the file has changed, and that only by a fault.
Refused ==
    /\ cache = None /\ UNCHANGED <<objects, cache, acked>>
    /\ \/ UNCHANGED <<file, faults>>
       \/ /\ file.header = "none" /\ faults' = faults + 1
          /\ file' \in {NoFile, Bad}

LEMMA RefusedTypes ==
  ASSUME TypeInv, GetOrCreateFails
  PROVE  StoreTypes /\ Refused
<1>1. Refused /\ (faults' = faults \/ (faults < MaxFaults /\ faults' = faults + 1))
  BY DEF GetOrCreateFails, Refused, FromCache, storeVars, Bad
<1>2. faults' \in 0..MaxFaults
  BY <1>1, Constants DEF TypeInv, TypeOK
<1> QED
  BY <1>1, <1>2, FilesAre DEF Refused, StoreTypes, TypeInv, TypeOK, FileInv

-----------------------------------------------------------------------------
(* Every step keeps the types.                                             *)

Turns == [phase : Phases, sess : Nat, left : Seq(Nat), resumed : BOOLEAN]
Uses4 == [Bounded -> Nat]

LEMMA NoTurnIs ==
  ASSUME NEW p \in Phases, NEW i \in Nat, NEW resumed \in BOOLEAN,
         NEW t, t = [NoTurn EXCEPT !.phase = p, !.sess = i, !.resumed = resumed]
  PROVE  /\ NoTurn \in Turns /\ NoTurn.phase = "none" /\ NoTurn.left = <<>> /\ ~NoTurn.resumed
         /\ t \in Turns /\ t.phase = p /\ t.sess = i /\ t.left = <<>> /\ t.resumed = resumed
<1>1. <<>> \in Seq(Nat)
  OBVIOUS
<1>2. NoTurn \in Turns /\ NoTurn.phase = "none" /\ NoTurn.left = <<>> /\ ~NoTurn.resumed
  BY <1>1 DEF NoTurn, Turns, Phases
<1> HIDE DEF NoTurn
<1> QED
  BY <1>2 DEF Turns

\* A turn that a request begins.
Started(p, i, resumed) ==
    turn' \in Turns /\ turn'.phase = p /\ turn'.sess = i /\ turn'.left = <<>> /\ turn'.resumed = resumed
LEMMA Asks ==
  ASSUME NEW i \in Nat, turn' = [NoTurn EXCEPT !.phase = "asked", !.sess = i]
  PROVE  Started("asked", i, FALSE)
<1>1. "asked" \in Phases
  BY DEF Phases
<1>2. NoTurn \in Turns /\ NoTurn.left = <<>> /\ NoTurn.resumed = FALSE
  BY <1>1, NoTurnIs DEF NoTurn
<1> QED
  BY <1>1, <1>2 DEF Started, Turns

LEMMA Resumes ==
  ASSUME NEW i \in Nat, turn' = [NoTurn EXCEPT !.phase = "ready", !.sess = i, !.resumed = TRUE]
  PROVE  Started("ready", i, TRUE)
<1>1. "ready" \in Phases
  BY DEF Phases
<1>2. NoTurn \in Turns /\ NoTurn.left = <<>>
  BY <1>1, NoTurnIs
<1> QED
  BY <1>1, <1>2 DEF Started, Turns

LEMMA OverTypes ==
  ASSUME TurnOver
  PROVE  /\ turn' \in Turns /\ turn'.phase = "none" /\ turn'.left = <<>> /\ ~turn'.resumed
         /\ ui' \in Ui /\ ui'.st = "off" /\ ui'.kept = <<>>
         /\ up' = FALSE /\ over' = TRUE /\ start' = <<>> /\ start' \in Seq(Nat)
<1>1. <<>> \in Seq(Nat)
  OBVIOUS
<1>2. NoTurn \in Turns /\ NoTurn.phase = "none" /\ NoTurn.left = <<>> /\ ~NoTurn.resumed
  BY NoTurnIs DEF Phases
<1>3. Off \in Ui /\ Off.st = "off" /\ Off.kept = <<>>
  BY <1>1 DEF Off, NoText, Ui
<1> QED
  BY <1>1, <1>2, <1>3 DEF TurnOver

LEMMA UsesType ==
  ASSUME TypeOK, NEW what \in Bounded, NEW bound, Uses(what, bound)
  PROVE  used' \in Uses4
  BY DEF Uses, TypeOK, Uses4

LEMMA PagesAre ==
  /\ Blank \in Page /\ Blank.kids = <<>> /\ Blank.cards = <<>> /\ ~Blank.asked
  /\ \A n \in Nat : /\ Rendered(n) \in Page /\ Rendered(n).kids = Cards(n)
                    /\ Rendered(n).cards = Cards(n) /\ ~Rendered(n).asked
<1>1. Blank \in Page /\ Blank.kids = <<>> /\ Blank.cards = <<>> /\ ~Blank.asked
  BY DEF Blank, Page
<1>2. ASSUME NEW n \in Nat
      PROVE  /\ Rendered(n) \in Page /\ Rendered(n).kids = Cards(n)
             /\ Rendered(n).cards = Cards(n) /\ ~Rendered(n).asked
  BY <1>1, CardsType DEF Rendered, Page
<1> QED
  BY <1>1, <1>2

LEMMA BeginsIs ==
  ASSUME NEW n \in Nat
  PROVE  /\ Begins(n) \in Ui /\ Begins(n).st = "events" /\ Begins(n).kids = Cards(n)
         /\ Begins(n).idx = n /\ Begins(n).kept = <<>> /\ ~Begins(n).broken /\ ~Begins(n).interrupt
<1>1. Off \in Ui /\ Off.kept = <<>> /\ ~Off.broken /\ ~Off.interrupt
  BY DEF Off, NoText, Ui
<1>2. Cards(n) \in Seq(Nat)
  BY CardsType
<1> QED
  BY <1>1, <1>2 DEF Begins, Ui

\* What the page keeps when it is told that a request has been sent.
Sent == page' = [page EXCEPT !.asked = FALSE]
LEMMA SentIs ==
  ASSUME TypeOK, Sent
  PROVE  page' \in Page /\ ~page'.asked /\ page'.kids = page.kids /\ page'.cards = page.cards
  BY DEF TypeOK, Sent, Page

LEMMA ChatTypes ==
  ASSUME TypeInv, Chat
  PROVE  TypeInv'
<1>1. used' \in Uses4 /\ page' \in Page
  BY UsesType, SentIs DEF Bounded, Chat, Sent, TypeInv
<1>2. CASE GetOrCreate /\ turn' = [NoTurn EXCEPT !.phase = "asked", !.sess = cache']
  <2>1. StoreTypes /\ cache' \in DOMAIN objects'
    BY <1>2, ObtainedTypes
  <2>2. cache' \in Nat /\ DOMAIN objects \subseteq DOMAIN objects'
    <3>1. DOMAIN objects' = 1..Len(objects')
      BY <2>1, SeqDomain DEF StoreTypes
    <3>2. DOMAIN objects \subseteq DOMAIN objects'
      BY <1>2, Obtained DEF Opening, storeVars
    <3> QED
      BY <2>1, <3>1, <3>2
  <2>3. Started("asked", cache', FALSE)
    BY <1>2, <2>2, Asks
  <2> QED
    BY <1>1, <2>1, <2>2, <2>3 DEF Started, Chat, TypeInv, TypeOK, LeftInv, StoreTypes, Turns, Uses4
<1>3. CASE GetOrCreateFails /\ turn' = turn
  <2>1. StoreTypes /\ Refused
    BY <1>3, RefusedTypes
  <2> QED
    BY <1>1, <1>3, <2>1 DEF Started, Chat, TypeInv, TypeOK, LeftInv, StoreTypes, Refused, Turns, Uses4
<1> QED
  BY <1>2, <1>3 DEF Chat, AnswersError

LEMMA ApproveTypes ==
  ASSUME TypeInv, Approve
  PROVE  TypeInv'
<1>1. used' \in Uses4 /\ page' \in Page
  BY UsesType, SentIs DEF Bounded, Approve, Sent, TypeInv
<1>2. CASE /\ cache # None /\ ClearInterrupt(cache)
           /\ turn' = [NoTurn EXCEPT !.phase = "ready", !.sess = cache, !.resumed = TRUE]
  <2>1. cache \in DOMAIN objects /\ cache \in Nat
    BY <1>2, Fields DEF TypeInv
  <2>2. Marked(cache, FALSE, objects[cache].msgIdx) /\ UNCHANGED <<file, faults, acked>>
    BY <1>2, <2>1, InterruptCleared DEF ClearInterrupt
  <2>3. Started("ready", cache, TRUE)
    BY <1>2, <2>1, Resumes
  <2> QED
    BY <1>1, <2>1, <2>2, <2>3 DEF Started, Approve, TypeInv, TypeOK, LeftInv, FileInv, Marked, Turns, Uses4
<1>3. CASE UNCHANGED <<storeVars, turn>>
  BY <1>1, <1>3 DEF Started, Approve, TypeInv, TypeOK, LeftInv, FileInv, storeVars, Turns, Uses4
<1>4. CASE GetOrCreate /\ turn' = turn
  <2>1. StoreTypes /\ cache' \in DOMAIN objects'
    BY <1>4, ObtainedTypes
  <2>2. DOMAIN objects \subseteq DOMAIN objects'
    BY <1>4, Obtained DEF Opening, storeVars
  <2> QED
    BY <1>1, <1>4, <2>1, <2>2 DEF Started, Approve, TypeInv, TypeOK, LeftInv, StoreTypes, Turns, Uses4
<1>5. CASE GetOrCreateFails /\ turn' = turn
  <2>1. StoreTypes /\ Refused
    BY <1>5, RefusedTypes
  <2> QED
    BY <1>1, <1>5, <2>1 DEF Started, Approve, TypeInv, TypeOK, LeftInv, StoreTypes, Refused, Turns, Uses4
<1> QED
  BY <1>2, <1>3, <1>4, <1>5 DEF Approve

LEMMA RenderTypes ==
  ASSUME TypeInv, Render
  PROVE  TypeInv'
<1>1. CASE GetOrCreate /\ page' = Rendered(Len(objects'[cache'].messages))
  <2>1. StoreTypes /\ cache' \in DOMAIN objects'
    BY <1>1, ObtainedTypes
  <2>2. DOMAIN objects \subseteq DOMAIN objects'
    BY <1>1, Obtained DEF Opening, storeVars
  <2>3. objects'[cache'] \in Object
    BY <2>1, SeqDomain DEF StoreTypes
  <2>4. Len(objects'[cache'].messages) \in Nat
    BY <2>3 DEF Object
  <2>5. page' \in Page
    BY <1>1, <2>4, PagesAre
  <2> QED
    BY <1>1, <2>1, <2>2, <2>5 DEF Render, TypeInv, TypeOK, LeftInv, StoreTypes
<1>2. CASE GetOrCreateFails /\ page' = Blank
  <2>1. StoreTypes /\ Refused /\ page' \in Page
    BY <1>2, RefusedTypes, PagesAre
  <2> QED
    BY <1>2, <2>1 DEF Render, TypeInv, TypeOK, LeftInv, StoreTypes, Refused
<1> QED
  BY <1>1, <1>2 DEF Render

LEMMA AbortTypes ==
  ASSUME TypeInv, Abort
  PROVE  TypeInv'
  BY OverTypes DEF Abort, TypeInv, TypeOK, FileInv, LeftInv, storeVars, Turns

LEMMA KillTypes ==
  ASSUME TypeInv, Kill
  PROVE  TypeInv'
<1>1. used' \in Uses4
  BY UsesType DEF Bounded, Kill, TypeInv
<1>2. late' \in [sess : Nat, left : Seq(Nat)] /\ late'.left = <<>>
  BY DEF Kill, NoLate
<1>3. <<>> \in Seq(Object)
  OBVIOUS
<1> QED
  BY <1>1, <1>2, <1>3, OverTypes DEF Kill, StoreRestart, TypeInv, TypeOK, FileInv, LeftInv, Turns, Uses4


LEMMA DeleteTypes ==
  ASSUME TypeInv, Delete
  PROVE  TypeInv'
<1>1. used' \in Uses4
  BY UsesType DEF Bounded, Delete, TypeInv
<1>2. /\ late' \in [sess : Nat, left : Seq(Nat)] /\ minted' \in Nat
      /\ late'.left # <<>> => late'.sess \in DOMAIN objects
  <2>1. CASE late' = [sess |-> turn.sess, left |-> turn.left] /\ minted' = minted
    <3>1. turn.left # <<>> => turn.sess \in DOMAIN objects
      BY DEF TypeInv, TypeOK, LeftInv
    <3> QED
      BY <2>1, <3>1, Fields DEF TypeInv
  <2>2. CASE /\ turn.phase = "asked" /\ late' = [sess |-> turn.sess, left |-> <<minted + 1>>]
             /\ minted' = minted + 1
    <3>1. turn.sess \in DOMAIN objects /\ turn.sess \in Nat /\ minted + 1 \in Nat
      BY <2>2, Fields, SMTT(30) DEF TypeInv, TypeOK
    <3>2. <<minted + 1>> \in Seq(Nat)
      BY <3>1
    <3> QED
      BY <2>2, <3>1, <3>2
  <2> QED
    BY <2>1, <2>2 DEF Delete
<1>3. StoreTypes /\ objects' = objects
  <2>1. CASE file' = NoFile /\ cache' = None /\ acked' = {} /\ UNCHANGED <<objects, faults>>
    BY <2>1, FilesAre DEF StoreTypes, TypeInv, TypeOK, FileInv
  <2>2. CASE faults < MaxFaults /\ faults' = faults + 1 /\ UNCHANGED <<objects, cache, file, acked>>
    BY <2>2, Constants DEF StoreTypes, TypeInv, TypeOK, FileInv
  <2> QED
    BY <2>1, <2>2 DEF Delete, StoreDelete
<1>4. page' \in Page
  BY PagesAre DEF Delete
<1> QED
  BY <1>1, <1>2, <1>3, <1>4, OverTypes DEF Delete, StoreTypes, TypeInv, TypeOK, LeftInv, Turns, Uses4

\* A message for session o leaves the store's types.
LEMMA AppendTypes ==
  ASSUME TypeInv, NEW o \in DOMAIN objects, NEW m \in Nat, SessionAppend(o, m)
  PROVE  StoreTypes /\ DOMAIN objects' = DOMAIN objects
<1>1. /\ Grown(o, m) /\ Extended(m) /\ faults' \in 0..MaxFaults /\ acked' \subseteq acked \cup {m}
  BY AppendIs
<1>2. cache \in DOMAIN objects \cup {None} /\ acked \subseteq Nat
  BY DEF TypeInv, TypeOK
<1> QED
  BY <1>1, <1>2 DEF Grown, Extended, StoreTypes

LEMMA SaveQuestionTypes ==
  ASSUME TypeInv, SaveQuestion
  PROVE  TypeInv'
<1>0. minted \in Nat
  BY Fields DEF TypeInv
<1>1. turn.sess \in DOMAIN objects /\ minted + 1 \in Nat
  BY <1>0 DEF SaveQuestion, TypeInv, TypeOK
<1>2. StoreTypes /\ DOMAIN objects' = DOMAIN objects
  BY <1>1, AppendTypes DEF SaveQuestion
<1>3. turn' \in Turns /\ turn'.sess = turn.sess /\ turn'.left = turn.left /\ turn.phase = "asked"
  BY DEF SaveQuestion, TypeInv, TypeOK, Turns, Phases
<1>4. start' \in Seq(Nat)
  <2>1. objects'[turn.sess] \in Object
    BY <1>1, <1>2, SeqDomain DEF StoreTypes
  <2> QED
    BY <2>1 DEF SaveQuestion, Object
<1> QED
  BY <1>1, <1>2, <1>3, <1>4 DEF SaveQuestion, StoreTypes, TypeInv, TypeOK, LeftInv, Turns

\* The agent's run begins on the page.
LEMMA HandOverIs ==
  ASSUME TypeInv, HandOver
  PROVE  /\ turn.sess \in DOMAIN objects
         /\ turn' \in Turns /\ turn'.phase = "streaming" /\ turn'.sess = turn.sess
         /\ turn'.left = turn.left /\ turn'.resumed = turn.resumed
         /\ ui' \in Ui /\ ui'.kept = <<>> /\ ~ui'.interrupt
         /\ up' \in BOOLEAN /\ over' = FALSE /\ page' \in Page /\ minted' = minted /\ events' = events
         /\ \/ /\ ~turn.resumed /\ up' /\ ui' = Begins(Len(objects[turn.sess].messages))
               /\ page' = Rendered(Len(objects[turn.sess].messages))
            \/ /\ ~turn.resumed /\ ~up' /\ ui'.st = "ended" /\ ui'.failed /\ page' = page
            \/ /\ turn.resumed /\ up' /\ ui' = Begins(objects[turn.sess].msgIdx) /\ page' = page
<1>1. /\ turn.sess \in DOMAIN objects /\ objects[turn.sess].messages \in Seq(Nat)
      /\ objects[turn.sess].msgIdx \in Nat /\ page \in Page
  BY Fields DEF HandOver, TypeInv, TypeOK
<1>2. Len(objects[turn.sess].messages) \in Nat
  BY <1>1, LenProperties
<1>3. /\ turn' \in Turns /\ turn'.phase = "streaming" /\ turn'.sess = turn.sess
      /\ turn'.left = turn.left /\ turn'.resumed = turn.resumed
  BY DEF HandOver, TypeInv, TypeOK, Turns, Phases
<1>4. CASE ~turn.resumed
  <2> DEFINE n == Len(objects[turn.sess].messages)
  <2>1. StreamToWriter(n)
    BY <1>4 DEF HandOver
  <2>2. n \in Nat
    BY <1>2
  <2> HIDE DEF n
  <2>3. CASE up'
    <3>1. ui' = Begins(n) /\ page' = Rendered(n)
      BY <2>1, <2>3 DEF StreamToWriter
    <3>2. ui' \in Ui /\ ui'.kept = <<>> /\ ~ui'.interrupt /\ page' \in Page
      BY <2>2, <3>1, BeginsIs, PagesAre
    <3> QED
      BY <1>1, <1>3, <1>4, <2>1, <2>3, <3>1, <3>2 DEF StreamToWriter, n
  <2>4. CASE ~up'
    <3>1. ui' = [Off EXCEPT !.st = "ended", !.failed = TRUE] /\ page' = page
      BY <2>1, <2>4 DEF StreamToWriter
    <3>2. <<>> \in Seq(Nat)
      OBVIOUS
    <3>3. Off \in Ui /\ Off.kept = <<>> /\ ~Off.interrupt
      BY <3>2 DEF Off, NoText, Ui
    <3>4. ui' \in Ui /\ ui'.kept = <<>> /\ ~ui'.interrupt /\ ui'.st = "ended" /\ ui'.failed
      BY <3>1, <3>3 DEF Ui
    <3> QED
      BY <1>1, <1>3, <1>4, <2>1, <2>4, <3>1, <3>4 DEF StreamToWriter
  <2> QED
    BY <2>3, <2>4
<1>5. CASE turn.resumed
  <2>1. StreamContinue(objects[turn.sess].msgIdx)
    BY <1>5 DEF HandOver, ResumeIdx
  <2>2. ui' = Begins(objects[turn.sess].msgIdx)
    BY <2>1 DEF StreamContinue
  <2>3. ui' \in Ui /\ ui'.kept = <<>> /\ ~ui'.interrupt
    BY <1>1, <2>2, BeginsIs
  <2> QED
    BY <1>1, <1>3, <1>5, <2>1, <2>2, <2>3 DEF StreamContinue
<1> QED
  BY <1>4, <1>5

LEMMA HandOverTypes ==
  ASSUME TypeInv, HandOver
  PROVE  TypeInv'
<1>1. UNCHANGED <<storeVars, late, start, strays, used>> /\ turn.phase = "ready"
  BY DEF HandOver
<1> QED
  BY <1>1, HandOverIs DEF storeVars, TypeInv, TypeOK, FileInv, LeftInv, Turns

LEMMA StreamTypes ==
  ASSUME TypeInv, UiInv, TreeIsWhole, Stream
  PROVE  TypeInv'
<1>1. Streams
  BY StreamsOn DEF Stream
<1>2. UNCHANGED <<storeVars, turn, late, start, strays, used>>
  BY DEF Stream
<1> QED
  BY <1>1, <1>2 DEF Streams, Shown, storeVars, TypeInv, TypeOK, FileInv, LeftInv

LEMMA ResultIs ==
  ASSUME TypeInv, Result
  PROVE  /\ turn' \in Turns /\ turn'.phase = "saving" /\ turn'.sess = turn.sess
         /\ turn'.left = IF turn.resumed THEN <<>> ELSE ui.kept
         /\ turn'.resumed = turn.resumed
<1>0. <<>> \in Seq(Nat) /\ ui.kept \in Seq(Nat)
  BY Fields DEF TypeInv
<1>1. PICK l \in Seq(Nat) : l = IF turn.resumed THEN <<>> ELSE ui.kept
  <2>1. CASE turn.resumed
    BY <1>0, <2>1
  <2>2. CASE ~turn.resumed
    BY <1>0, <2>2
  <2> QED
    BY <2>1, <2>2
<1>2. turn' = [turn EXCEPT !.phase = "saving", !.left = l]
  BY <1>1 DEF Result
<1>3. turn \in Turns
  BY DEF TypeInv, TypeOK, Turns
<1>4. /\ turn' \in Turns /\ turn'.phase = "saving" /\ turn'.sess = turn.sess
      /\ turn'.left = l /\ turn'.resumed = turn.resumed
  BY <1>2, <1>3 DEF Turns, Phases
<1> QED
  BY <1>1, <1>4

LEMMA ResultTypes ==
  ASSUME TypeInv, Result
  PROVE  TypeInv'
<1>1. UNCHANGED <<storeVars, streamVars, late, start, strays, used>> /\ turn.phase = "streaming"
  BY DEF Result
<1> QED
  BY <1>1, ResultIs DEF storeVars, streamVars, TypeInv, TypeOK, FileInv, LeftInv, Turns

LEMMA HeadTail ==
  ASSUME NEW s \in Seq(Nat), s # <<>>
  PROVE  /\ Head(s) \in Nat /\ Tail(s) \in Seq(Nat) /\ Head(s) \in ToSet(s)
         /\ Len(s) \in Nat \ {0} /\ Len(Tail(s)) = Len(s) - 1 /\ Head(s) = s[1]
         /\ \A i \in 1..(Len(s) - 1) : Tail(s)[i] = s[i + 1]
         /\ ToSet(s) = ToSet(Tail(s)) \cup {Head(s)}
         /\ s = <<Head(s)>> \o Tail(s)
<1>1. /\ Head(s) \in Nat /\ Tail(s) \in Seq(Nat)
      /\ Len(s) \in Nat \ {0} /\ Len(Tail(s)) = Len(s) - 1 /\ Head(s) = s[1]
      /\ \A i \in 1..(Len(s) - 1) : Tail(s)[i] = s[i + 1]
      /\ DOMAIN s = 1..Len(s) /\ DOMAIN Tail(s) = 1..(Len(s) - 1)
      /\ s = <<Head(s)>> \o Tail(s)
  BY HeadTailProperties, EmptySeq, SeqDomain, LenProperties
<1>2. ToSet(s) = ToSet(Tail(s)) \cup {Head(s)}
  <2>1. ASSUME NEW i \in 1..Len(s) PROVE s[i] \in ToSet(Tail(s)) \cup {Head(s)}
    <3>1. CASE i = 1
      BY <1>1, <3>1
    <3>2. CASE i # 1
      <4>1. i - 1 \in 1..(Len(s) - 1) /\ Tail(s)[i - 1] = s[i]
        BY <1>1, <3>2
      <4> QED
        BY <1>1, <4>1 DEF ToSet
    <3> QED
      BY <3>1, <3>2
  <2>2. ASSUME NEW i \in 1..(Len(s) - 1) PROVE Tail(s)[i] \in ToSet(s)
    <3>1. i + 1 \in 1..Len(s)
      BY <1>1
    <3> QED
      BY <1>1, <3>1 DEF ToSet
  <2>3. Head(s) \in ToSet(s)
    BY <1>1 DEF ToSet
  <2> QED
    BY <1>1, <2>1, <2>2, <2>3 DEF ToSet
<1> QED
  BY <1>1, <1>2

LEMMA SaveMessageIs ==
  ASSUME TypeInv, SaveMessage
  PROVE  /\ turn.sess \in DOMAIN objects /\ turn.phase = "saving" /\ turn.left # <<>>
         /\ Head(turn.left) \in Nat /\ SessionAppend(turn.sess, Head(turn.left))
         /\ turn' \in Turns /\ turn'.phase = "saving" /\ turn'.sess = turn.sess
         /\ turn'.left = Tail(turn.left) /\ turn'.resumed = turn.resumed
<1>1. Head(turn.left) \in Nat /\ Tail(turn.left) \in Seq(Nat)
  BY Fields, HeadTail DEF SaveMessage, TypeInv
<1>2. turn.sess \in DOMAIN objects
  BY DEF SaveMessage, TypeInv, TypeOK
<1> QED
  BY <1>1, <1>2 DEF SaveMessage, TypeInv, TypeOK, Turns

LEMMA SaveMessageTypes ==
  ASSUME TypeInv, SaveMessage
  PROVE  TypeInv'
<1>1. UNCHANGED <<streamVars, late, start, strays, used>>
  BY DEF SaveMessage
<1>2. StoreTypes /\ DOMAIN objects' = DOMAIN objects
  BY SaveMessageIs, AppendTypes
<1> QED
  BY <1>1, <1>2, SaveMessageIs DEF streamVars, StoreTypes, TypeInv, TypeOK, LeftInv, Turns

LEMMA EndTurnTypes ==
  ASSUME TypeInv, EndTurn
  PROVE  TypeInv'
<1>1. UNCHANGED <<page, minted, events, late, strays, used>> /\ TurnOver
  BY DEF EndTurn
<1>2. StoreTypes /\ DOMAIN objects' = DOMAIN objects
  <2>1. turn.sess \in DOMAIN objects /\ ui.idx \in Nat
    BY Fields DEF EndTurn, TypeInv, TypeOK
  <2>2. CASE SetInterrupt(turn.sess, ui.idx)
    <3>1. Marked(turn.sess, TRUE, ui.idx) /\ UNCHANGED <<file, faults, acked>>
      BY <2>1, <2>2, InterruptSet DEF SetInterrupt
    <3> QED
      BY <3>1 DEF Marked, StoreTypes, TypeInv, TypeOK, FileInv
  <2>3. CASE UNCHANGED storeVars
    BY <2>3 DEF storeVars, StoreTypes, TypeInv, TypeOK, FileInv
  <2> QED
    BY <2>2, <2>3 DEF EndTurn
<1> QED
  BY <1>1, <1>2, OverTypes DEF StoreTypes, TypeInv, TypeOK, LeftInv, Turns

LEMMA SaveLateIs ==
  ASSUME TypeInv, SaveLate
  PROVE  /\ late.sess \in DOMAIN objects /\ late.left # <<>>
         /\ Head(late.left) \in Nat /\ SessionAppend(late.sess, Head(late.left))
         /\ late' \in [sess : Nat, left : Seq(Nat)] /\ late'.sess = late.sess
         /\ late'.left = Tail(late.left)
<1>1. Head(late.left) \in Nat /\ Tail(late.left) \in Seq(Nat)
  BY Fields, HeadTail DEF SaveLate, TypeInv
<1> QED
  BY <1>1 DEF SaveLate, TypeInv, TypeOK

LEMMA SaveLateTypes ==
  ASSUME TypeInv, SaveLate
  PROVE  TypeInv'
<1>1. UNCHANGED <<streamVars, turn, start, used>> /\ strays' = strays \cup {Head(late.left)}
  BY DEF SaveLate
<1>2. StoreTypes /\ DOMAIN objects' = DOMAIN objects
  BY SaveLateIs, AppendTypes
<1> QED
  BY <1>1, <1>2, SaveLateIs DEF streamVars, StoreTypes, TypeInv, TypeOK, LeftInv

-----------------------------------------------------------------------------
(* Every step keeps the page whole.                                        *)

LEMMA ListIsWhole ==
  ASSUME NEW n \in Nat, page'.kids = Cards(n), page'.cards = Cards(n)
  PROVE  TreeIsWhole'
  BY CardsType DEF TreeIsWhole

LEMMA BlankIsWhole ==
  ASSUME page' = Blank
  PROVE  TreeIsWhole'
<1>1. IsCards(<<>>, 0) /\ 0 \in Nat
  BY DEF IsCards
<1>2. <<>> = Cards(0)
  BY <1>1, CardsAre
<1> QED
  BY <1>1, <1>2, PagesAre, ListIsWhole

LEMMA SameKidsWhole ==
  ASSUME TreeIsWhole, page'.kids = page.kids, page'.cards = page.cards
  PROVE  TreeIsWhole'
  BY DEF TreeIsWhole

\* Between turns nothing runs.
LEMMA Resting ==
  ASSUME TurnInv', turn'.phase # "streaming"
  PROVE  ~Running' /\ UiInv'
  BY DEF TurnInv, UiInv

LEMMA GrownKeeps ==
  ASSUME TypeInv, NEW o \in DOMAIN objects, NEW m \in Nat, SessionAppend(o, m)
  PROVE  /\ cache' = cache /\ DOMAIN objects' = DOMAIN objects
         /\ \A i \in DOMAIN objects : /\ objects'[i].pending = objects[i].pending
                                     /\ objects'[i].msgIdx = objects[i].msgIdx
         /\ cache # None => /\ cache \in DOMAIN objects
                            /\ Cached'.pending = Cached.pending /\ Cached'.msgIdx = Cached.msgIdx
<1>1. Grown(o, m)
  BY AppendIs
<1>2. cache # None => cache \in DOMAIN objects
  BY DEF TypeInv, TypeOK
<1>3. \A i \in DOMAIN objects : /\ objects'[i].pending = objects[i].pending
                               /\ objects'[i].msgIdx = objects[i].msgIdx
  BY <1>1 DEF Grown
<1> QED
  BY <1>1, <1>2, <1>3 DEF Grown, Cached

LEMMA SessionOfTurn ==
  ASSUME TypeInv, TurnInv, ~Idle
  PROVE  /\ turn.sess \in DOMAIN objects /\ cache = turn.sess /\ cache # None
         /\ ~objects[turn.sess].pending /\ ~Cached.pending
<1>1. turn.sess \in DOMAIN objects /\ turn.sess \in Nat
  BY Fields DEF TypeInv, TypeOK, Idle
<1> QED
  BY <1>1, Constants DEF TurnInv, Cached

LEMMA ChatPage ==
  ASSUME TypeInv, PageInv, Chat
  PROVE  PageInv'
<1>1. Sent /\ Idle /\ ui' = ui
  BY DEF Chat, Sent
<1>2. ~page'.asked /\ page'.kids = page.kids /\ page'.cards = page.cards
  BY <1>1, SentIs DEF TypeInv
<1>3. ~Running /\ ~Running'
  BY <1>1 DEF PageInv, TurnInv, Idle, Running
<1>4. TreeIsWhole' /\ UiInv'
  BY <1>2, <1>3, SameKidsWhole DEF PageInv, UiInv
<1>5. CASE GetOrCreate /\ turn' = [NoTurn EXCEPT !.phase = "asked", !.sess = cache']
  <2>1. cache' \in DOMAIN objects' /\ objects' \in Seq(Object)
    BY <1>5, ObtainedTypes DEF StoreTypes
  <2>2. cache' \in Nat
    BY <2>1, SeqDomain
  <2>3. Started("asked", cache', FALSE)
    BY <1>5, <2>2, Asks
  <2>4. ~Cached'.pending
    <3>1. CASE cache # None /\ UNCHANGED storeVars
      BY <3>1 DEF Chat, Cached, storeVars
    <3>2. ASSUME NEW ms, Opening(ms) PROVE ~Cached'.pending
      BY <3>2 DEF Opening, Cached, Session
    <3> QED
      BY <1>5, <3>1, <3>2, Obtained
  <2>5. TurnInv'
    BY <1>3, <2>3, <2>4 DEF TurnInv, Started
  <2>6. AskedInv'
    BY <1>2, <2>3 DEF AskedInv, Started
  <2> QED
    BY <1>4, <2>5, <2>6 DEF PageInv
<1>6. CASE turn' = turn
  <2>1. TurnInv'
    BY <1>1, <1>3, <1>6 DEF TurnInv, Idle
  <2>2. AskedInv'
    BY <1>1, <1>2, <1>6 DEF AskedInv, Idle
  <2> QED
    BY <1>4, <2>1, <2>2 DEF PageInv
<1> QED
  BY <1>5, <1>6 DEF Chat, AnswersError

LEMMA ApprovePage ==
  ASSUME TypeInv, PageInv, Approve
  PROVE  PageInv'
<1>1. Sent /\ Idle /\ ui' = ui /\ page.asked
  BY DEF Approve, Sent
<1>2. ~page'.asked /\ page'.kids = page.kids /\ page'.cards = page.cards
  BY <1>1, SentIs DEF TypeInv
<1>3. ~Running /\ ~Running'
  BY <1>1 DEF PageInv, TurnInv, Idle, Running
<1>4. TreeIsWhole' /\ UiInv'
  BY <1>2, <1>3, SameKidsWhole DEF PageInv, UiInv
<1>5. CASE /\ cache # None /\ Cached.pending /\ ClearInterrupt(cache)
           /\ turn' = [NoTurn EXCEPT !.phase = "ready", !.sess = cache, !.resumed = TRUE]
  <2>1. cache \in DOMAIN objects /\ cache \in Nat
    BY <1>5, Fields DEF TypeInv
  <2>2. Marked(cache, FALSE, objects[cache].msgIdx)
    BY <1>5, <2>1, InterruptCleared
  <2>3. Started("ready", cache, TRUE)
    BY <1>5, <2>1, Resumes
  <2>4. page.kids = Cards(objects[cache].msgIdx)
    BY <1>1, <1>5 DEF PageInv, AskedInv, Cached
  <2>5. TurnInv'
    BY <1>3, <2>2, <2>3 DEF TurnInv, Started, Marked, Cached
  <2>6. AskedInv'
    BY <1>2, <2>2, <2>3, <2>4 DEF AskedInv, Started, Marked, Idle
  <2> QED
    BY <1>4, <2>5, <2>6 DEF PageInv
<1>6. CASE turn' = turn
  <2>1. TurnInv'
    BY <1>1, <1>3, <1>6 DEF TurnInv, Idle
  <2>2. AskedInv'
    BY <1>1, <1>2, <1>6 DEF AskedInv, Idle
  <2> QED
    BY <1>4, <2>1, <2>2 DEF PageInv
<1> QED
  BY <1>5, <1>6 DEF Approve

LEMMA RenderPage ==
  ASSUME TypeInv, PageInv, Render
  PROVE  PageInv'
<1>1. Idle /\ ui' = ui /\ turn' = turn
  BY DEF Render
<1>2. TreeIsWhole' /\ ~page'.asked
  <2>1. CASE GetOrCreate /\ page' = Rendered(Len(objects'[cache'].messages))
    <3>1. objects'[cache'] \in Object
      BY <2>1, ObtainedTypes, SeqDomain DEF StoreTypes
    <3>2. Len(objects'[cache'].messages) \in Nat
      BY <3>1 DEF Object
    <3> QED
      BY <2>1, <3>2, PagesAre, ListIsWhole
  <2>2. CASE page' = Blank
    BY <2>2, PagesAre, BlankIsWhole
  <2> QED
    BY <2>1, <2>2 DEF Render
<1>3. ~Running /\ ~Running'
  BY <1>1 DEF PageInv, TurnInv, Idle, Running
<1>4. TurnInv'
  BY <1>1, <1>3 DEF TurnInv, Idle
<1>5. AskedInv'
  BY <1>1, <1>2 DEF AskedInv, Idle
<1> QED
  BY <1>2, <1>3, <1>4, <1>5 DEF PageInv, UiInv

\* A turn that is over leaves the page to what the session remembers.
LEMMA OverPage ==
  ASSUME TurnOver, TreeIsWhole',
         page'.asked /\ cache' # None /\ Cached'.pending => page'.kids = Cards(Cached'.msgIdx)
  PROVE  PageInv'
<1>1. turn'.phase = "none" /\ ui'.st = "off"
  BY OverTypes
<1>2. TurnInv' /\ UiInv'
  BY <1>1 DEF TurnInv, UiInv, Idle, Running
<1>3. AskedInv'
  BY <1>1 DEF AskedInv, Idle
<1> QED
  BY <1>2, <1>3 DEF PageInv

LEMMA AbortPage ==
  ASSUME TypeInv, PageInv, Abort
  PROVE  PageInv'
<1>1. TurnOver /\ page' = page /\ cache' = cache /\ objects' = objects /\ ~Idle
  BY DEF Abort, storeVars, Idle
<1>2. ~Cached'.pending
  BY <1>1, SessionOfTurn DEF PageInv, Cached
<1>3. TreeIsWhole'
  BY <1>1 DEF PageInv, TreeIsWhole
<1> QED
  BY <1>1, <1>2, <1>3, OverPage

LEMMA DeletePage ==
  ASSUME TypeInv, PageInv, Delete
  PROVE  PageInv'
<1>1. TurnOver /\ page' = Blank
  BY DEF Delete
<1> QED
  BY <1>1, PagesAre, BlankIsWhole, OverPage

LEMMA KillPage ==
  ASSUME TypeInv, PageInv, Kill
  PROVE  PageInv'
<1>1. TurnOver /\ page' = page /\ cache' = None
  BY DEF Kill, StoreRestart
<1>2. TreeIsWhole'
  BY <1>1 DEF PageInv, TreeIsWhole
<1> QED
  BY <1>1, <1>2, OverPage

LEMMA SaveQuestionPage ==
  ASSUME TypeInv, PageInv, SaveQuestion
  PROVE  PageInv'
<1>1. /\ turn.phase = "asked" /\ UNCHANGED <<ui, page, up>> /\ ~Idle
      /\ SessionAppend(turn.sess, minted + 1)
      /\ turn' = [turn EXCEPT !.phase = "ready"]
  BY DEF SaveQuestion, Idle
<1>2. turn'.phase = "ready" /\ turn'.sess = turn.sess /\ turn'.resumed = turn.resumed
  BY <1>1 DEF TypeInv, TypeOK
<1>3. minted + 1 \in Nat
  BY Fields DEF TypeInv
<1>4. cache' = cache /\ ~Cached'.pending
  BY <1>1, <1>3, SessionOfTurn, GrownKeeps DEF PageInv
<1>5. ~Running /\ ~turn.resumed /\ ~page.asked
  BY <1>1 DEF PageInv, TurnInv, AskedInv
<1>6. ~Running' /\ UiInv' /\ TreeIsWhole'
  BY <1>1, <1>5 DEF PageInv, TreeIsWhole, UiInv, Running
<1>7. TurnInv'
  BY <1>1, <1>2, <1>4, <1>6 DEF PageInv, TurnInv, Idle
<1>8. AskedInv'
  BY <1>1, <1>2, <1>5 DEF AskedInv, Idle
<1> QED
  BY <1>6, <1>7, <1>8 DEF PageInv

LEMMA HandOverPage ==
  ASSUME TypeInv, PageInv, HandOver
  PROVE  PageInv'
<1>1. /\ turn.phase = "ready" /\ cache' = cache /\ objects' = objects
      /\ turn'.phase = "streaming" /\ turn'.sess = turn.sess
  BY HandOverIs DEF HandOver, storeVars
<1>2. TurnInv'
  BY <1>1 DEF PageInv, TurnInv, Idle, Cached
<1>3. ~page.asked /\ TreeIsWhole /\ turn.sess \in DOMAIN objects
      /\ (turn.resumed => page.kids = Cards(objects[turn.sess].msgIdx))
      /\ Len(objects[turn.sess].messages) \in Nat /\ objects[turn.sess].msgIdx \in Nat
  BY <1>1, HandOverIs, Fields, LenProperties DEF PageInv, AskedInv, TypeInv
<1> DEFINE o == objects[turn.sess]
<1>4. CASE ~turn.resumed /\ up' /\ ui' = Begins(Len(o.messages)) /\ page' = Rendered(Len(o.messages))
  <2>1. TreeIsWhole' /\ ~page'.asked
    BY <1>3, <1>4, PagesAre, ListIsWhole
  <2>2. UiInv'
    BY <1>3, <1>4, <2>1, PagesAre, BeginsIs DEF UiInv, Running
  <2>3. AskedInv'
    BY <1>1, <2>1 DEF AskedInv, Idle
  <2> QED
    BY <1>2, <2>1, <2>2, <2>3 DEF PageInv
<1>5. CASE ~turn.resumed /\ ~up' /\ ui'.st = "ended" /\ page' = page
  <2>1. TreeIsWhole' /\ ~page'.asked
    BY <1>3, <1>5, SameKidsWhole
  <2>2. UiInv'
    BY <1>5 DEF UiInv, Running
  <2>3. AskedInv'
    BY <1>1, <2>1 DEF AskedInv, Idle
  <2> QED
    BY <1>2, <2>1, <2>2, <2>3 DEF PageInv
<1>6. CASE turn.resumed /\ up' /\ ui' = Begins(o.msgIdx) /\ page' = page
  <2>1. TreeIsWhole' /\ ~page'.asked
    BY <1>3, <1>6, SameKidsWhole
  <2>2. UiInv'
    BY <1>3, <1>6, <2>1, BeginsIs DEF UiInv, Running
  <2>3. AskedInv'
    BY <1>1, <2>1 DEF AskedInv, Idle
  <2> QED
    BY <1>2, <2>1, <2>2, <2>3 DEF PageInv
<1> QED
  BY <1>4, <1>5, <1>6, HandOverIs

LEMMA StreamPage ==
  ASSUME TypeInv, PageInv, Stream
  PROVE  PageInv'
<1>1. /\ turn.phase = "streaming" /\ turn' = turn /\ cache' = cache /\ objects' = objects
  BY DEF Stream, storeVars
<1>2. Shown
  BY StreamsOn DEF Stream, PageInv, Streams
<1>3. TurnInv'
  BY <1>1 DEF PageInv, TurnInv, Idle, Cached
<1>4. AskedInv'
  BY <1>1, <1>2 DEF AskedInv, Shown, Idle
<1> QED
  BY <1>2, <1>3, <1>4 DEF PageInv, Shown

LEMMA ResultPage ==
  ASSUME TypeInv, PageInv, Result
  PROVE  PageInv'
<1>1. /\ turn.phase = "streaming" /\ ui.st = "ended" /\ ui' = ui /\ page' = page
      /\ cache' = cache /\ objects' = objects
      /\ turn'.phase = "saving" /\ turn'.sess = turn.sess
  BY ResultIs DEF Result, storeVars, streamVars
<1>2. TurnInv'
  BY <1>1 DEF PageInv, TurnInv, Idle, Cached, Running
<1>3. AskedInv'
  BY <1>1 DEF PageInv, AskedInv, Idle
<1>4. UiInv' /\ TreeIsWhole'
  BY <1>1 DEF PageInv, UiInv, Running, TreeIsWhole
<1> QED
  BY <1>2, <1>3, <1>4 DEF PageInv

LEMMA SaveMessagePage ==
  ASSUME TypeInv, PageInv, SaveMessage
  PROVE  PageInv'
<1>1. /\ turn.phase = "saving" /\ UNCHANGED <<ui, page, up>> /\ ~Idle
      /\ turn'.phase = "saving" /\ turn'.sess = turn.sess
  BY SaveMessageIs DEF SaveMessage, streamVars, Idle
<1>2. cache' = cache /\ ~Cached'.pending
  BY <1>1, SaveMessageIs, SessionOfTurn, GrownKeeps DEF PageInv
<1>3. UiInv' /\ TreeIsWhole'
  BY <1>1 DEF PageInv, UiInv, Running, TreeIsWhole
<1>4. TurnInv'
  BY <1>1, <1>2 DEF PageInv, TurnInv, Idle, Running
<1>5. AskedInv'
  BY <1>1 DEF PageInv, AskedInv, Idle
<1> QED
  BY <1>3, <1>4, <1>5 DEF PageInv

LEMMA EndTurnPage ==
  ASSUME TypeInv, PageInv, EndTurn
  PROVE  PageInv'
<1>1. turn.phase = "saving" /\ page' = page /\ TurnOver /\ ~Idle
  BY DEF EndTurn, Idle
<1>2. TreeIsWhole'
  BY <1>1 DEF PageInv, TreeIsWhole
<1>3. /\ turn.sess \in DOMAIN objects /\ cache = turn.sess /\ ~objects[cache].pending
      /\ ui.idx \in Nat
  BY <1>1, SessionOfTurn, Fields DEF PageInv, TypeInv
<1>4. CASE SetInterrupt(turn.sess, ui.idx) /\ ui.interrupt
  <2>1. Marked(turn.sess, TRUE, ui.idx)
    BY <1>3, <1>4, InterruptSet
  <2>2. Cached'.msgIdx = ui.idx
    BY <1>3, <2>1 DEF Marked, Cached
  <2>3. page.asked => page.kids = Cards(ui.idx)
    BY <1>1 DEF PageInv, AskedInv
  <2> QED
    BY <1>1, <1>2, <2>2, <2>3, OverPage
<1>5. CASE UNCHANGED storeVars /\ ~ui.interrupt
  <2>1. ~Cached'.pending
    BY <1>3, <1>5 DEF Cached, storeVars
  <2> QED
    BY <1>1, <1>2, <2>1, OverPage
<1> QED
  BY <1>4, <1>5 DEF EndTurn

LEMMA SaveLatePage ==
  ASSUME TypeInv, PageInv, SaveLate
  PROVE  PageInv'
<1>1. UNCHANGED <<ui, page, up, turn>>
  BY DEF SaveLate, streamVars
<1>2. /\ cache' = cache /\ DOMAIN objects' = DOMAIN objects
      /\ \A i \in DOMAIN objects : objects'[i].msgIdx = objects[i].msgIdx
      /\ cache # None => /\ Cached'.pending = Cached.pending /\ Cached'.msgIdx = Cached.msgIdx
  BY SaveLateIs, GrownKeeps
<1>3. ~Idle => turn.sess \in DOMAIN objects /\ cache # None
  BY SessionOfTurn DEF PageInv
<1>4. UiInv' /\ TreeIsWhole'
  BY <1>1 DEF PageInv, UiInv, Running, TreeIsWhole
<1>5. TurnInv'
  BY <1>1, <1>2, <1>3 DEF PageInv, TurnInv, Idle, Running
<1>6. AskedInv'
  <2>1. turn.phase = "ready" => ~Idle
    BY DEF Idle
  <2> QED
    BY <1>1, <1>2, <1>3, <2>1 DEF PageInv, AskedInv, Idle
<1> QED
  BY <1>4, <1>5, <1>6 DEF PageInv

-----------------------------------------------------------------------------
(* Types, and the page                                                     *)

CoreInv == TypeInv /\ PageInv

LEMMA CoreInit ==
  ASSUME Init
  PROVE  CoreInv
<1>1. <<>> \in Seq(Nat) /\ <<>> \in Seq(Object) /\ DOMAIN <<>> = {}
  BY EmptySeq
<1>2. NoTurn \in Turns /\ NoTurn.phase = "none" /\ NoTurn.left = <<>>
  BY <1>1 DEF NoTurn, Turns, Phases
<1>3. Off \in Ui /\ Off.st = "off"
  BY <1>1 DEF Off, NoText, Ui
<1>4. NoLate \in [sess : Nat, left : Seq(Nat)] /\ NoLate.left = <<>>
  BY <1>1 DEF NoLate
<1>5. 0 \in 0..MaxFaults
  BY Constants
<1>6. [what \in Bounded |-> 0] \in Uses4
  BY DEF Uses4
<1>7. TypeOK
  <2>1. /\ objects \in Seq(Object) /\ cache \in DOMAIN objects \cup {None}
        /\ file \in File /\ faults \in 0..MaxFaults
    BY <1>1, <1>5, FilesAre DEF Init, StoreInit
  <2>2. /\ ui \in Ui /\ page \in Page /\ up \in BOOLEAN /\ over \in BOOLEAN
        /\ {minted, events} \subseteq Nat
    <3>1. ui = Off /\ page = Blank /\ up = FALSE /\ over = TRUE /\ minted = 0 /\ events = 0
      BY DEF Init, StreamInit
    <3>2. {minted, events} \subseteq Nat
      BY <3>1
    <3> QED
      BY <1>3, <3>1, <3>2, PagesAre
  <2>3. /\ turn \in Turns /\ turn.phase = "none" /\ late \in [sess : Nat, left : Seq(Nat)]
        /\ late.left = <<>> /\ start \in Seq(Nat) /\ acked \cup strays \subseteq Nat
        /\ used \in [Bounded -> Nat]
    BY <1>1, <1>2, <1>4, <1>6 DEF Init, StoreInit, Uses4
  <2> QED
    BY <2>1, <2>2, <2>3 DEF TypeOK, Turns
<1>8. TypeInv
  BY <1>2, <1>7, FilesAre DEF Init, StoreInit, TypeInv, FileInv, LeftInv
<1>9. IsCards(<<>>, 0) /\ 0 \in Nat
  BY DEF IsCards
<1>10. <<>> = Cards(0) /\ Len(<<>>) = 0
  BY <1>9, CardsAre
<1>11. TreeIsWhole
  BY <1>10, PagesAre DEF Init, StreamInit, TreeIsWhole
<1>12. TurnInv /\ UiInv /\ AskedInv
  BY <1>2, <1>3, PagesAre DEF Init, StreamInit, TurnInv, UiInv, AskedInv, Idle, Running
<1> QED
  BY <1>8, <1>11, <1>12 DEF CoreInv, PageInv

LEMMA CoreStep ==
  ASSUME CoreInv, [Next]_vars
  PROVE  CoreInv'
<1> USE DEF CoreInv
<1>1. CASE Chat
  BY <1>1, ChatTypes, ChatPage
<1>2. CASE Approve
  BY <1>2, ApproveTypes, ApprovePage
<1>3. CASE Render
  BY <1>3, RenderTypes, RenderPage
<1>4. CASE Abort
  BY <1>4, AbortTypes, AbortPage
<1>5. CASE Delete
  BY <1>5, DeleteTypes, DeletePage
<1>6. CASE Kill
  BY <1>6, KillTypes, KillPage
<1>7. CASE SaveQuestion
  BY <1>7, SaveQuestionTypes, SaveQuestionPage
<1>8. CASE HandOver
  BY <1>8, HandOverTypes, HandOverPage
<1>9. CASE Stream
  BY <1>9, StreamTypes, StreamPage DEF PageInv
<1>10. CASE Result
  BY <1>10, ResultTypes, ResultPage
<1>11. CASE SaveMessage
  BY <1>11, SaveMessageTypes, SaveMessagePage
<1>12. CASE EndTurn
  BY <1>12, EndTurnTypes, EndTurnPage
<1>13. CASE SaveLate
  BY <1>13, SaveLateTypes, SaveLatePage
<1>14. CASE UNCHANGED vars
  <2>1. TypeInv'
    BY <1>14 DEF vars, storeVars, streamVars, TypeInv, TypeOK, FileInv, LeftInv
  <2>2. PageInv'
    BY <1>14 DEF vars, storeVars, streamVars, PageInv, TurnInv, UiInv, AskedInv, TreeIsWhole, Idle,
       Running, Cached
  <2> QED
    BY <2>1, <2>2
<1> QED
  BY <1>1, <1>2, <1>3, <1>4, <1>5, <1>6, <1>7, <1>8, <1>9, <1>10, <1>11, <1>12, <1>13, <1>14
  DEF Next, TurnStep

LEMMA CoreAlways == Spec => []CoreInv
<1>1. Init => CoreInv
  BY CoreInit
<1>2. CoreInv /\ [Next]_vars => CoreInv'
  BY CoreStep
<1> QED
  BY <1>1, <1>2, PTL DEF Spec

\* Every variable keeps its type (TypeOK).
THEOREM TypeCorrect == Spec => []TypeOK
<1>1. CoreInv => TypeOK
  BY DEF CoreInv, TypeInv
<1> QED
  BY <1>1, CoreAlways, PTL

\* The page shows every card once and in order, whatever breaks, is retried, approved,
\* deleted or killed (TreeIsWhole).
THEOREM PageIsWhole == Spec => []TreeIsWhole
<1>1. CoreInv => TreeIsWhole
  BY DEF CoreInv, PageInv
<1> QED
  BY <1>1, CoreAlways, PTL

-----------------------------------------------------------------------------
(* What brings a file back                                                 *)

\* Only GetOrCreate gives a session without a file a file (DeletedStaysDeleted).
THEOREM FilesComeFromSessions == Spec => DeletedStaysDeleted
<1>1. ASSUME CoreInv, [Next]_vars, file.header = "none", file'.header = "ok" PROVE cache' # None
  <2>0. TypeInv
    BY <1>1 DEF CoreInv
  <2>1. CASE GetOrCreate
    <3>1. cache' \in Nat
      BY <2>0, <2>1, ObtainedTypes, SeqDomain DEF StoreTypes
    <3> QED
      BY <3>1, Constants
  <2>2. ASSUME NEW o \in DOMAIN objects, NEW m \in Nat, SessionAppend(o, m) PROVE FALSE
    BY <1>1, <2>0, <2>2, AppendIs DEF Extended
  <2>3. ~(file' = file) /\ file' # NoFile
    BY <1>1, FilesAre
  <2>4. ~GetOrCreateFails
    BY <1>1, <2>0, <2>3, RefusedTypes, FilesAre DEF Refused
  <2>5. CASE Chat \/ Approve \/ Render
    BY <2>1, <2>3, <2>4, <2>5 DEF Chat, Approve, Render, ClearInterrupt, storeVars
  <2>6. CASE Abort \/ HandOver \/ Stream \/ Result \/ EndTurn \/ UNCHANGED vars
    BY <2>3, <2>6 DEF Abort, HandOver, Stream, Result, EndTurn, SetInterrupt, vars, storeVars
  <2>7. CASE Delete \/ Kill
    BY <2>3, <2>7 DEF Delete, Kill, StoreDelete, StoreRestart
  <2>8. CASE SaveQuestion
    <3>1. turn.sess \in DOMAIN objects /\ SessionAppend(turn.sess, minted + 1)
      BY <2>0, <2>8 DEF SaveQuestion, TypeInv, TypeOK
    <3>2. minted + 1 \in Nat
      BY <2>0, Fields DEF TypeInv
    <3> QED
      BY <2>2, <3>1, <3>2
  <2>9. CASE SaveMessage
    BY <2>0, <2>2, <2>9, SaveMessageIs
  <2>10. CASE SaveLate
    BY <2>0, <2>2, <2>10, SaveLateIs
  <2> QED
    BY <1>1, <2>5, <2>6, <2>7, <2>8, <2>9, <2>10 DEF Next, TurnStep
<1>2. CoreInv /\ [Next]_vars => [(file.header = "none" /\ file'.header = "ok") => cache' # None]_vars
  BY <1>1
<1> QED
  BY <1>2, CoreAlways, PTL DEF Spec, DeletedStaysDeleted

-----------------------------------------------------------------------------
(* Every step keeps what is not yet saved apart from what is.              *)

LEMMA SetOfEmpty == ToSet(<<>>) = {} /\ InOrder(<<>>) /\ <<>> \in Seq(Nat)
  BY EmptySeq DEF ToSet, InOrder

LEMMA FreshShrinks ==
  ASSUME NEW p, NEW l, NEW W, NEW n, Fresh(p, l, W, n),
         NEW q \in {p, <<>>}, NEW k \in {l, <<>>}, NEW V, V \subseteq W
  PROVE  Fresh(q, k, V, n)
  BY SetOfEmpty DEF Fresh

\* What was the turn's is the stopped turn's.
LEMMA FreshMoves ==
  ASSUME NEW p, NEW W, NEW n, Fresh(p, <<>>, W, n), NEW V, V \subseteq W
  PROVE  Fresh(<<>>, p, V, n)
  BY SetOfEmpty DEF Fresh

LEMMA AppendInOrder ==
  ASSUME NEW s \in Seq(Nat), NEW m \in Nat, InOrder(s), \A x \in ToSet(s) : x < m
  PROVE  InOrder(Append(s, m))
<1>1. RisesOn(s, Nat)
  BY DEF RisesOn, InOrder
<1>2. RisesOn(Append(s, m), Nat)
  BY <1>1, RisesAppend
<1>3. \A i \in DOMAIN Append(s, m) : Append(s, m)[i] \in Nat
  BY AppendProperties, SeqDomain
<1> QED
  BY <1>2, <1>3 DEF RisesOn, InOrder

LEMMA FreshMints ==
  ASSUME NEW p \in Seq(Nat), NEW l \in Seq(Nat), NEW W, NEW n \in Nat, Fresh(p, l, W, n)
  PROVE  Fresh(Append(p, n + 1), l, W, n + 1)
<1>1. n + 1 \in Nat /\ 1..n \subseteq 1..(n + 1) /\ 0..n \subseteq 0..(n + 1) /\ n + 1 \notin 0..n
  OBVIOUS
<1>2. ToSet(Append(p, n + 1)) = ToSet(p) \cup {n + 1}
  BY <1>1, ToSetAppend
<1>3. \A x \in ToSet(p) \cup ToSet(l) : x < n + 1 /\ x \in 1..n
  BY DEF Fresh
<1>4. InOrder(Append(p, n + 1))
  BY <1>1, <1>3, AppendInOrder DEF Fresh
<1>5. n + 1 \notin W /\ W \subseteq 0..(n + 1)
  BY <1>1 DEF Fresh
<1>6. ToSet(p) \cup {n + 1} \cup ToSet(l) \subseteq 1..(n + 1)
  BY <1>1, <1>3
<1>7. \A x \in ToSet(l), y \in ToSet(p) \cup {n + 1} : x < y
  BY <1>3 DEF Fresh
<1> QED
  BY <1>2, <1>4, <1>5, <1>6, <1>7 DEF Fresh

\* A new message is written at once.
LEMMA FreshWrites ==
  ASSUME NEW p, NEW l, NEW W, NEW n \in Nat, Fresh(p, l, W, n), NEW V, V \subseteq W \cup {n + 1, Junk}
  PROVE  Fresh(p, l, V, n + 1)
<1>1. 1..n \subseteq 1..(n + 1) /\ 0..n \subseteq 0..(n + 1) /\ n + 1 \notin 1..n /\ 0 \notin 1..n
      /\ n + 1 \in 0..(n + 1) /\ 0 \in 0..(n + 1)
  OBVIOUS
<1>2. V \subseteq 0..(n + 1)
  BY <1>1 DEF Fresh, Junk
<1>3. V \cap (ToSet(p) \cup ToSet(l)) = {}
  BY <1>1 DEF Fresh, Junk
<1> QED
  BY <1>1, <1>2, <1>3 DEF Fresh

LEMMA TailInOrder ==
  ASSUME NEW s \in Seq(Nat), s # <<>>, InOrder(s)
  PROVE  /\ InOrder(Tail(s)) /\ \A x \in ToSet(Tail(s)) : Head(s) < x
<1>1. /\ Len(s) \in Nat \ {0} /\ Len(Tail(s)) = Len(s) - 1 /\ Head(s) = s[1]
      /\ \A i \in 1..(Len(s) - 1) : Tail(s)[i] = s[i + 1]
      /\ DOMAIN s = 1..Len(s) /\ DOMAIN Tail(s) = 1..(Len(s) - 1)
  BY HeadTail, SeqDomain
<1>2. ASSUME NEW i \in 1..(Len(s) - 1), NEW j \in 1..(Len(s) - 1), i < j
      PROVE  Tail(s)[i] < Tail(s)[j]
  <2>1. i + 1 \in DOMAIN s /\ j + 1 \in DOMAIN s /\ i + 1 < j + 1
    BY <1>1, <1>2
  <2> QED
    BY <1>1, <2>1 DEF InOrder
<1>3. ASSUME NEW j \in 1..(Len(s) - 1) PROVE Head(s) < Tail(s)[j]
  <2>1. 1 \in DOMAIN s /\ j + 1 \in DOMAIN s /\ 1 < j + 1
    BY <1>1
  <2> QED
    BY <1>1, <2>1 DEF InOrder
<1> QED
  BY <1>1, <1>2, <1>3 DEF InOrder, ToSet

LEMMA FreshSaves ==
  ASSUME NEW p \in Seq(Nat), p # <<>>, NEW l \in Seq(Nat), NEW W, NEW n \in Nat, Fresh(p, l, W, n),
         NEW V, V \subseteq W \cup {Head(p), Junk}
  PROVE  Fresh(Tail(p), l, V, n)
<1>1. /\ InOrder(Tail(p)) /\ \A x \in ToSet(Tail(p)) : Head(p) < x
  BY TailInOrder DEF Fresh
<1>2. ToSet(p) = ToSet(Tail(p)) \cup {Head(p)} /\ Head(p) \in Nat
  BY HeadTail
<1>3. /\ \A x \in ToSet(l), y \in ToSet(p) : x < y
      /\ ToSet(p) \cup ToSet(l) \subseteq 1..n /\ W \subseteq 0..n
      /\ W \cap (ToSet(p) \cup ToSet(l)) = {} /\ InOrder(l)
  BY DEF Fresh
<1>4. V \subseteq 0..n
  BY <1>2, <1>3 DEF Junk
<1>5. Head(p) \notin ToSet(Tail(p)) /\ Head(p) \notin ToSet(l) /\ 0 \notin ToSet(Tail(p)) \cup ToSet(l)
  BY <1>1, <1>2, <1>3
<1> QED
  BY <1>1, <1>2, <1>3, <1>4, <1>5 DEF Fresh, Junk

LEMMA FreshSavesLate ==
  ASSUME NEW p \in Seq(Nat), NEW l \in Seq(Nat), l # <<>>, NEW W, NEW n \in Nat, Fresh(p, l, W, n),
         NEW V, V \subseteq W \cup {Head(l), Junk}
  PROVE  Fresh(p, Tail(l), V, n)
<1>1. /\ InOrder(Tail(l)) /\ \A x \in ToSet(Tail(l)) : Head(l) < x
  BY TailInOrder DEF Fresh
<1>2. ToSet(l) = ToSet(Tail(l)) \cup {Head(l)} /\ Head(l) \in Nat
  BY HeadTail
<1>3. /\ \A x \in ToSet(l), y \in ToSet(p) : x < y
      /\ ToSet(p) \cup ToSet(l) \subseteq 1..n /\ W \subseteq 0..n
      /\ W \cap (ToSet(p) \cup ToSet(l)) = {} /\ InOrder(p)
  BY DEF Fresh
<1>4. V \subseteq 0..n
  BY <1>2, <1>3 DEF Junk
<1>5. Head(l) \notin ToSet(Tail(l)) /\ Head(l) \notin ToSet(p) /\ 0 \notin ToSet(Tail(l)) \cup ToSet(p)
  BY <1>1, <1>2, <1>3
<1> QED
  BY <1>1, <1>2, <1>3, <1>4, <1>5 DEF Fresh, Junk

\* What the operations of the store write.
LEMMA LinesGrow ==
  ASSUME NEW ls \in Seq(Nat), NEW joins \in BOOLEAN, NEW m \in Nat, NEW b \in Seq(Nat), NEW j \in Nat,
         joins => ls # <<>>, PutLine(ls, joins, m, b, j)
  PROVE  /\ ToSet(Append(b, j)) = ToSet(b) \cup {j} /\ Last(Append(b, j)) = j
         /\ ToSet(b) \subseteq ToSet(ls)
         /\ joins => Last(ls) \in Nat /\ ToSet(ls) = ToSet(b) \cup {Last(ls)} /\ j \in {m, Last(ls), Junk}
         /\ ~joins => b = ls /\ j = m
<1>1. ToSet(Append(b, j)) = ToSet(b) \cup {j}
  BY ToSetAppend
<1>2. Last(Append(b, j)) = j
  BY AppendProperties DEF Last
<1>3. CASE joins
  <2>1. ls = Append(b, Last(ls)) /\ j \in {m, Last(ls), Junk}
    BY <1>3 DEF PutLine
  <2>2. Last(ls) \in Nat
    <3>1. Len(ls) \in 1..Len(ls)
      BY <1>3, EmptySeq, LenProperties
    <3> QED
      BY <3>1, SeqDomain DEF Last
  <2>3. ToSet(Append(b, Last(ls))) = ToSet(b) \cup {Last(ls)}
    BY <2>2, ToSetAppend
  <2> QED
    BY <1>1, <1>2, <1>3, <2>1, <2>2, <2>3
<1>4. CASE ~joins
  BY <1>1, <1>2, <1>4 DEF PutLine
<1> QED
  BY <1>3, <1>4

LEMMA ExtendedLines ==
  ASSUME TypeInv, NEW m \in Nat, Extended(m)
  PROVE  ToSet(file'.lines) \subseteq ToSet(file.lines) \cup {m, Junk}
<1>1. CASE file' = file
  BY <1>1
<1>2. CASE file' # file
  <2>1. PICK n \in {m, Junk}, b \in Seq(Nat), j \in Nat :
           file'.lines = Append(b, j) /\ PutLine(file.lines, file.open, n, b, j)
    BY <1>2 DEF Extended
  <2>2. /\ file.lines \in Seq(Nat) /\ file.open \in BOOLEAN /\ n \in Nat
        /\ (file.open => file.lines # <<>>)
    BY Fields DEF TypeInv, FileInv, Junk
  <2>3. /\ ToSet(Append(b, j)) = ToSet(b) \cup {j} /\ ToSet(b) \subseteq ToSet(file.lines)
        /\ (file.open => ToSet(file.lines) = ToSet(b) \cup {Last(file.lines)}
                         /\ j \in {n, Last(file.lines), Junk})
        /\ (~file.open => j = n)
    <3> HIDE DEF Extended
    <3> DEFINE ls == file.lines
               joins == file.open
    <3>1. /\ ls \in Seq(Nat) /\ joins \in BOOLEAN /\ (joins => ls # <<>>) /\ PutLine(ls, joins, n, b, j)
      BY <2>1, <2>2
    <3> HIDE DEF ls, joins
    <3>2. /\ ToSet(Append(b, j)) = ToSet(b) \cup {j} /\ ToSet(b) \subseteq ToSet(ls)
          /\ (joins => ToSet(ls) = ToSet(b) \cup {Last(ls)} /\ j \in {n, Last(ls), Junk})
          /\ (~joins => j = n)
      BY <2>2, <3>1, LinesGrow
    <3> QED
      BY <3>2 DEF ls, joins
  <2> QED
    BY <2>1, <2>3
<1> QED
  BY <1>1, <1>2

LEMMA GrownMessages ==
  ASSUME TypeInv, NEW o \in DOMAIN objects, NEW m \in Nat, Grown(o, m)
  PROVE  /\ ToSet(objects'[o].messages) = ToSet(objects[o].messages) \cup {m}
         /\ \A i \in DOMAIN objects :
               /\ ToSet(objects[i].messages) \subseteq ToSet(objects'[i].messages)
               /\ ToSet(objects'[i].messages) \subseteq ToSet(objects[i].messages) \cup {m}
<1>1. objects[o].messages \in Seq(Nat)
  BY Fields DEF TypeInv
<1>2. ToSet(objects'[o].messages) = ToSet(objects[o].messages) \cup {m}
  BY <1>1, ToSetAppend DEF Grown
<1> QED
  BY <1>2 DEF Grown

LEMMA AppendWrites ==
  ASSUME TypeInv, NEW o \in DOMAIN objects, NEW m \in Nat, SessionAppend(o, m)
  PROVE  Stored' \subseteq Stored \cup {m, Junk}
<1>1. Grown(o, m) /\ Extended(m) /\ acked' \subseteq acked \cup {m}
  BY AppendIs
<1>2. ToSet(file'.lines) \subseteq ToSet(file.lines) \cup {m, Junk}
  BY <1>1, ExtendedLines
<1>3. DOMAIN objects' = DOMAIN objects
      /\ \A i \in DOMAIN objects : ToSet(objects'[i].messages) \subseteq ToSet(objects[i].messages) \cup {m}
  BY <1>1, GrownMessages DEF Grown
<1> QED
  BY <1>1, <1>2, <1>3 DEF Stored

LEMMA ObtainedWrites ==
  ASSUME TypeInv, GetOrCreate
  PROVE  Stored' \subseteq Stored
<1>1. CASE cache # None /\ UNCHANGED storeVars
  BY <1>1 DEF storeVars, Stored
<1>2. CASE Opening(Readable(file)) /\ file' = file
  <2>1. file.lines \in Seq(Nat)
    BY Fields DEF TypeInv
  <2>2. ToSet(Readable(file)) \subseteq ToSet(file.lines)
    BY <2>1, KeptRange DEF Readable
  <2>3. ToSet(objects'[cache'].messages) \subseteq ToSet(file.lines)
    BY <1>2, <2>2 DEF Opening, Session
  <2> QED
    BY <1>2, <2>3 DEF Opening, Stored
<1>3. CASE Opening(<<>>) /\ file' = Empty
  <2>1. ToSet(objects'[cache'].messages) = {} /\ ToSet(file'.lines) = {}
    BY <1>3, FilesAre, SetOfEmpty DEF Opening, Session
  <2> QED
    BY <1>3, <2>1 DEF Opening, Stored
<1> QED
  BY <1>1, <1>2, <1>3, Obtained

LEMMA RefusedWrites ==
  ASSUME Refused
  PROVE  Stored' \subseteq Stored
<1>1. ToSet(NoFile.lines) = {} /\ ToSet(Bad.lines) = {}
  BY FilesAre, SetOfEmpty
<1> QED
  BY <1>1 DEF Refused, Stored

LEMMA DeletedWrites ==
  ASSUME StoreDelete
  PROVE  Stored' \subseteq Stored
<1>1. ToSet(NoFile.lines) = {}
  BY FilesAre, SetOfEmpty
<1> QED
  BY <1>1 DEF StoreDelete, Stored

LEMMA RestartedWrites ==
  ASSUME StoreRestart
  PROVE  Stored' \subseteq Stored
<1>1. DOMAIN <<>> = {}
  BY EmptySeq
<1> QED
  BY <1>1 DEF StoreRestart, Stored

LEMMA MarkedWrites ==
  ASSUME NEW o, NEW pending, NEW idx, Marked(o, pending, idx), UNCHANGED <<file, faults, acked>>
  PROVE  Stored' \subseteq Stored
<1>1. \A i \in DOMAIN objects : objects'[i].messages = objects[i].messages
  BY DEF Marked
<1> QED
  BY <1>1 DEF Marked, Stored

\* The requests of the browser that find no turn: they open the session, take the
\* interrupt from it, or leave the store as it is.
LEMMA Requests ==
  ASSUME CoreInv, Chat \/ Approve \/ Render
  PROVE  /\ Idle /\ UNCHANGED <<ui, up, minted, late, strays, start>>
         /\ Pending = <<>> /\ Pending' = <<>>
         /\ turn'.phase = "none" \/ turn'.phase = "asked" \/ (turn'.phase = "ready" /\ turn'.resumed)
         /\ \/ GetOrCreate
            \/ Refused
            \/ /\ cache \in DOMAIN objects /\ UNCHANGED <<file, faults, acked>>
               /\ Marked(cache, FALSE, objects[cache].msgIdx)
            \/ UNCHANGED storeVars
<1>0. TypeInv
  BY DEF CoreInv
<1>1. Idle /\ UNCHANGED <<ui, up, minted, late, strays, start>>
  BY DEF Chat, Approve, Render
<1>2. Pending = <<>>
  BY <1>0, <1>1 DEF Pending, Idle, TypeInv, LeftInv
<1>3. CASE turn' = turn /\ (GetOrCreate \/ GetOrCreateFails \/ UNCHANGED storeVars)
  <2>1. Pending' = <<>> /\ turn'.phase = "none"
    BY <1>1, <1>2, <1>3 DEF Pending, Idle
  <2> QED
    BY <1>0, <1>1, <1>2, <1>3, <2>1, RefusedTypes
<1>4. CASE GetOrCreate /\ turn' = [NoTurn EXCEPT !.phase = "asked", !.sess = cache']
  <2>1. cache' \in Nat
    BY <1>0, <1>4, ObtainedTypes, SeqDomain DEF StoreTypes
  <2>2. turn'.phase = "asked" /\ turn'.left = <<>>
    BY <1>4, <2>1, Asks DEF Started
  <2>3. Pending' = <<>>
    BY <2>2 DEF Pending
  <2> QED
    BY <1>1, <1>2, <1>4, <2>2, <2>3
<1>5. CASE /\ cache # None /\ ClearInterrupt(cache)
           /\ turn' = [NoTurn EXCEPT !.phase = "ready", !.sess = cache, !.resumed = TRUE]
  <2>1. cache \in DOMAIN objects /\ cache \in Nat
    BY <1>0, <1>5, Fields DEF TypeInv
  <2>2. Marked(cache, FALSE, objects[cache].msgIdx) /\ UNCHANGED <<file, faults, acked>>
    BY <1>0, <1>5, <2>1, InterruptCleared DEF ClearInterrupt
  <2>3. turn'.phase = "ready" /\ turn'.left = <<>> /\ turn'.resumed
    BY <1>5, <2>1, Resumes DEF Started
  <2>4. Pending' = <<>>
    BY <2>3 DEF Pending
  <2> QED
    BY <1>1, <1>2, <2>1, <2>2, <2>3, <2>4
<1> QED
  BY <1>3, <1>4, <1>5 DEF Chat, Approve, Render, AnswersError

LEMMA FreshStep ==
  ASSUME CoreInv, FreshInv, [Next]_vars
  PROVE  FreshInv'
<1>0. /\ TypeInv /\ TurnInv /\ turn.left \in Seq(Nat) /\ ui.kept \in Seq(Nat) /\ late.left \in Seq(Nat)
      /\ minted \in Nat /\ Pending \in Seq(Nat) /\ (turn.phase # "saving" => turn.left = <<>>)
  BY Fields DEF CoreInv, PageInv, TypeInv, LeftInv, Pending
<1>2. ASSUME TurnOver, minted' = minted, late' \in {late, NoLate}, strays' = strays,
             Stored' \subseteq Stored
      PROVE  FreshInv'
  <2>1. Pending' = <<>> /\ ToSet(start') = {}
    BY <1>2, OverTypes, SetOfEmpty DEF Pending
  <2>2. Written' \subseteq Written
    BY <1>2, <2>1 DEF Written
  <2>3. late'.left \in {late.left, <<>>}
    BY <1>2 DEF NoLate
  <2> QED
    BY <1>2, <2>1, <2>2, <2>3, FreshShrinks DEF FreshInv
<1>3. CASE Chat \/ Approve \/ Render
  <2>1. Stored' \subseteq Stored
    <3>1. CASE UNCHANGED storeVars
      BY <3>1 DEF storeVars, Stored
    <3> QED
      BY <1>0, <1>3, <3>1, Requests, ObtainedWrites, RefusedWrites, MarkedWrites
  <2>2. Written' \subseteq Written
    BY <1>3, <2>1, Requests DEF Written
  <2>3. Pending' = <<>> /\ late' = late /\ minted' = minted
    BY <1>3, Requests
  <2> QED
    BY <2>2, <2>3, FreshShrinks DEF FreshInv
<1>6. CASE Abort
  <2>1. Stored' \subseteq Stored
    BY <1>6 DEF Abort, storeVars, Stored
  <2> QED
    BY <1>2, <1>6, <2>1 DEF Abort
<1>7. CASE Kill
  BY <1>2, <1>7, RestartedWrites DEF Kill
<1>8. CASE Delete
  <2>1. Stored' \subseteq Stored /\ late.left = <<>> /\ strays' = strays
    BY <1>8, DeletedWrites DEF Delete
  <2>2. Pending' = <<>> /\ ToSet(start') = {}
    BY <1>8, OverTypes, SetOfEmpty DEF Delete, Pending
  <2>3. Written' \subseteq Written
    BY <2>1, <2>2 DEF Written
  <2>4. CASE late' = [sess |-> turn.sess, left |-> turn.left] /\ minted' = minted
    <3>1. late'.left = turn.left
      BY <2>4
    <3>2. turn.left \in {Pending, <<>>}
      BY <1>0 DEF Pending
    <3>3. Fresh(turn.left, <<>>, Written, minted)
      BY <2>1, <3>2, FreshShrinks DEF FreshInv
    <3>4. Fresh(<<>>, turn.left, Written', minted)
      BY <2>3, <3>3, FreshMoves
    <3> QED
      BY <2>2, <2>4, <3>1, <3>4 DEF FreshInv
  <2>5. CASE /\ turn.phase = "asked" /\ late' = [sess |-> turn.sess, left |-> <<minted + 1>>]
             /\ minted' = minted + 1
    <3>1. late'.left = Append(<<>>, minted + 1)
      BY <2>5
    <3>2. Fresh(<<>>, <<>>, Written, minted)
      BY <1>0, <2>1, <2>5, FreshShrinks DEF FreshInv
    <3>3. Fresh(Append(<<>>, minted + 1), <<>>, Written, minted + 1)
      BY <1>0, <3>2, SetOfEmpty, FreshMints
    <3>4. Fresh(<<>>, Append(<<>>, minted + 1), Written', minted + 1)
      BY <2>3, <3>3, FreshMoves
    <3> QED
      BY <2>2, <2>5, <3>1, <3>4 DEF FreshInv
  <2> QED
    BY <1>8, <2>4, <2>5 DEF Delete
<1>9. CASE SaveQuestion
  <2>1. /\ SessionAppend(turn.sess, minted + 1) /\ minted' = minted + 1 /\ late' = late
        /\ strays' = strays /\ start' = objects'[turn.sess].messages
        /\ turn.phase = "asked" /\ turn.left = <<>>
    BY <1>0, <1>9 DEF SaveQuestion
  <2>2. turn'.phase = "ready" /\ turn'.left = <<>>
    BY <1>0, <1>9, <2>1 DEF SaveQuestion, TypeInv, TypeOK
  <2>3. turn.sess \in DOMAIN objects /\ minted + 1 \in Nat
    BY <1>0, <2>1 DEF TypeInv, TypeOK
  <2>4. Stored' \subseteq Stored \cup {minted + 1, Junk}
    BY <1>0, <2>1, <2>3, AppendWrites
  <2>5. ToSet(start') \subseteq Stored'
    <3>1. turn.sess \in DOMAIN objects'
      BY <1>0, <2>1, <2>3, GrownKeeps
    <3> QED
      BY <2>1, <3>1 DEF Stored
  <2>6. Written' \subseteq Written \cup {minted + 1, Junk}
    BY <2>1, <2>4, <2>5 DEF Written
  <2>7. Pending = <<>> /\ Pending' = <<>>
    BY <2>1, <2>2 DEF Pending
  <2>8. Fresh(Pending, late.left, Written', minted + 1)
    BY <1>0, <2>6, FreshWrites DEF FreshInv
  <2> QED
    BY <2>1, <2>7, <2>8 DEF FreshInv
<1>10. CASE HandOver
  <2>1. Pending' = <<>>
    BY <1>0, <1>10, HandOverIs DEF Pending
  <2>2. Written' = Written /\ late' = late /\ minted' = minted
    BY <1>0, <1>10, HandOverIs DEF HandOver, storeVars, Written, Stored
  <2> QED
    BY <2>1, <2>2, FreshShrinks DEF FreshInv
<1>11. CASE Stream
  <2>1. Streams /\ turn.phase = "streaming"
    BY <1>11, StreamsOn DEF Stream, CoreInv, PageInv
  <2>2. Written' = Written /\ late' = late /\ turn' = turn
    BY <1>11 DEF Stream, storeVars, Written, Stored
  <2>3. Pending = ui.kept /\ Pending' = ui'.kept
    BY <2>1, <2>2 DEF Pending
  <2>4. CASE minted' = minted /\ ui'.kept = ui.kept
    BY <2>2, <2>3, <2>4 DEF FreshInv
  <2>5. CASE minted' = minted + 1 /\ ui'.kept = Append(ui.kept, minted + 1)
    BY <1>0, <2>2, <2>3, <2>5, FreshMints DEF FreshInv
  <2> QED
    BY <2>1, <2>4, <2>5 DEF Streams
<1>12. CASE Result
  <2>1. Pending = ui.kept /\ Pending' \in {ui.kept, <<>>}
    BY <1>0, <1>12, ResultIs DEF Result, Pending
  <2>2. Written' = Written /\ late' = late /\ minted' = minted
    BY <1>12 DEF Result, storeVars, streamVars, Written, Stored
  <2> QED
    BY <2>1, <2>2, FreshShrinks DEF FreshInv
<1>13. CASE SaveMessage
  <2>1. Pending = turn.left /\ Pending' = Tail(turn.left) /\ turn.left # <<>>
    BY <1>0, <1>13, SaveMessageIs DEF Pending
  <2>2. late' = late /\ minted' = minted /\ strays' = strays /\ start' = start
    BY <1>13 DEF SaveMessage, streamVars
  <2>3. Written' \subseteq Written \cup {Head(turn.left), Junk}
    BY <1>0, <1>13, <2>2, SaveMessageIs, AppendWrites DEF Written
  <2> QED
    BY <1>0, <2>1, <2>2, <2>3, FreshSaves DEF FreshInv
<1>14. CASE EndTurn
  <2>1. Stored' \subseteq Stored
    <3>1. turn.sess \in DOMAIN objects /\ ui.idx \in Nat
      BY <1>0, <1>14, Fields DEF EndTurn, TypeInv, TypeOK
    <3>2. CASE SetInterrupt(turn.sess, ui.idx)
      BY <1>0, <3>1, <3>2, InterruptSet, MarkedWrites DEF SetInterrupt
    <3>3. CASE UNCHANGED storeVars
      BY <3>3 DEF storeVars, Stored
    <3> QED
      BY <1>14, <3>2, <3>3 DEF EndTurn
  <2> QED
    BY <1>2, <1>14, <2>1 DEF EndTurn
<1>15. CASE SaveLate
  <2>1. /\ late'.left = Tail(late.left) /\ late.left # <<>> /\ UNCHANGED <<ui, minted, turn, start>>
        /\ strays' = strays \cup {Head(late.left)}
    BY <1>0, <1>15, SaveLateIs DEF SaveLate, streamVars
  <2>2. Pending' = Pending
    BY <2>1 DEF Pending
  <2>3. Written' \subseteq Written \cup {Head(late.left), Junk}
    BY <1>0, <1>15, <2>1, SaveLateIs, AppendWrites DEF Written
  <2> QED
    BY <1>0, <2>1, <2>2, <2>3, FreshSavesLate DEF FreshInv
<1>16. CASE UNCHANGED vars
  BY <1>16 DEF vars, storeVars, streamVars, FreshInv, Pending, Written, Stored
<1> QED
  BY <1>3, <1>6, <1>7, <1>8, <1>9, <1>10, <1>11, <1>12, <1>13, <1>14, <1>15, <1>16
  DEF Next, TurnStep

-----------------------------------------------------------------------------
(* Every write that fails costs one message at most.                       *)

\* The losses, and the line that the next one joins.
Costs(A, ls, open) == Cardinality(A \ ToSet(ls)) + (IF open THEN 1 ELSE 0)

LEMMA FewerLost ==
  ASSUME NEW A, IsFiniteSet(A), NEW B, B \subseteq A
  PROVE  IsFiniteSet(B) /\ Cardinality(B) \in Nat /\ Cardinality(B) <= Cardinality(A)
  BY FS_Subset, FS_CardinalityType

\* A line that was acknowledged is lost only if the next one joins it.
LEMMA LossesOfLine ==
  ASSUME NEW A, IsFiniteSet(A), NEW m \in Nat, NEW ls \in Seq(Nat), NEW joins \in BOOLEAN,
         joins => ls # <<>> /\ Last(ls) \notin A,
         NEW b \in Seq(Nat), NEW j \in Nat, PutLine(ls, joins, m, b, j)
  PROVE  /\ A \ ToSet(Append(b, j)) \subseteq A \ ToSet(ls)
         /\ joins \/ j = m
         /\ j = m \/ j = Junk \/ j \notin A
<1>1. ToSet(Append(b, j)) = ToSet(b) \cup {j}
  BY LinesGrow
<1>2. CASE joins
  <2>1. ToSet(ls) = ToSet(b) \cup {Last(ls)} /\ j \in {m, Last(ls), Junk}
    BY <1>2, LinesGrow
  <2> QED
    BY <1>1, <1>2, <2>1
<1>3. CASE ~joins
  <2>1. b = ls /\ j = m
    BY <1>3, LinesGrow
  <2> QED
    BY <1>1, <1>3, <2>1
<1> QED
  BY <1>2, <1>3

LEMMA FaultAppend ==
  ASSUME TypeInv, FaultInv, NEW o \in DOMAIN objects, NEW m \in Nat, m # 0, m \notin acked,
         SessionAppend(o, m)
  PROVE  FaultInv'
<1> DEFINE ls == file.lines
           joins == file.open
           lost == Cardinality(acked \ ToSet(ls))
<1>1. /\ ls \in Seq(Nat) /\ joins \in BOOLEAN /\ (joins => ls # <<>> /\ Last(ls) \notin acked)
      /\ 0 \notin acked /\ IsFiniteSet(acked) /\ faults \in Nat
  BY Fields DEF TypeInv, FileInv, FaultInv
<1>2. lost \in Nat /\ lost + (IF joins THEN 1 ELSE 0) <= faults
  BY <1>1, FewerLost DEF FaultInv
<1> HIDE DEF ls, joins, lost
<1>3. CASE file.header = "none"
  BY <1>3 DEF SessionAppend, Opened, FaultInv
<1>4. CASE file.header # "none" /\ file' = WithLine(file, m) /\ acked' = acked \cup {m} /\ faults' = faults
  <2>1. /\ Extended(m) /\ ~file'.open
    BY <1>4, LineAdded
  <2>2. PICK b \in Seq(Nat), j \in Nat : file'.lines = Append(b, j) /\ PutLine(ls, joins, m, b, j)
    BY <1>4, LineAdded DEF ls, joins
  <2>3. acked \ ToSet(Append(b, j)) \subseteq acked \ ToSet(ls) /\ (joins \/ j = m)
    BY <1>1, <2>2, LossesOfLine
  <2>4. j \in ToSet(Append(b, j))
    BY <2>2, ToSetAppend
  <2>5. IsFiniteSet(acked') /\ 0 \notin acked'
    BY <1>1, <1>4, FS_AddElement
  <2>6. Cardinality(acked' \ ToSet(file'.lines)) <= lost + (IF joins THEN 1 ELSE 0)
    <3>1. IsFiniteSet(acked \ ToSet(ls))
      BY <1>1, FewerLost
    <3>2. CASE joins
      <4>1. acked' \ ToSet(file'.lines) \subseteq (acked \ ToSet(ls)) \cup {m}
        BY <1>4, <2>2, <2>3
      <4>2. /\ IsFiniteSet((acked \ ToSet(ls)) \cup {m})
            /\ Cardinality((acked \ ToSet(ls)) \cup {m}) <= lost + 1
        <5> DEFINE L == acked \ ToSet(ls)
        <5>1. IsFiniteSet(L) /\ lost = Cardinality(L) /\ lost \in Nat
          BY <1>2, <3>1 DEF lost
        <5> HIDE DEF L
        <5>2. /\ IsFiniteSet(L \cup {m})
              /\ Cardinality(L \cup {m}) = IF m \in L THEN Cardinality(L) ELSE Cardinality(L) + 1
          BY <5>1, FS_AddElement
        <5>3. Cardinality(L \cup {m}) <= lost + 1
          <6> HIDE DEF lost
          <6> QED
            BY <5>1, <5>2
        <5> QED
          BY <5>2, <5>3 DEF L
      <4> QED
        <5>1. /\ Cardinality((acked \ ToSet(ls)) \cup {m}) \in Nat
              /\ Cardinality(acked' \ ToSet(file'.lines)) \in Nat
              /\ Cardinality(acked' \ ToSet(file'.lines)) <= Cardinality((acked \ ToSet(ls)) \cup {m})
          BY <4>1, <4>2, FewerLost, FS_CardinalityType
        <5> QED
          BY <1>2, <3>2, <4>2, <5>1
    <3>3. CASE ~joins
      <4>1. acked' \ ToSet(file'.lines) \subseteq acked \ ToSet(ls)
        BY <1>4, <2>2, <2>3, <2>4, <3>3
      <4> QED
        BY <1>2, <3>1, <3>3, <4>1, FewerLost DEF lost
    <3> QED
      BY <3>2, <3>3
  <2>7. Cardinality(acked' \ ToSet(file'.lines)) \in Nat
    BY <2>5, FewerLost
  <2>8. file'.header = file.header
    BY <2>1 DEF Extended
  <2>9. faults' \in Nat /\ Cardinality(acked' \ ToSet(file'.lines)) <= faults'
    <3>1. faults' = faults /\ faults \in Nat
      BY <1>1, <1>4
    <3> QED
      BY <1>2, <2>6, <2>7, <3>1
  <2>10. Cardinality(acked' \ ToSet(file'.lines)) + (IF file'.open THEN 1 ELSE 0) <= faults'
    BY <2>1, <2>7, <2>9
  <2> QED
    BY <1>4, <2>1, <2>5, <2>8, <2>10 DEF FaultInv
<1>5. CASE /\ file.header # "none" /\ faults' = faults + 1
           /\ file' \in AfterFailure(file, m) /\ acked' = acked
  <2>1. CASE file' = file
    BY <1>1, <1>2, <1>5, <2>1 DEF FaultInv, ls, joins, lost
  <2>2. CASE file' # file
    <3>1. Extended(m) /\ file'.open
      BY <1>5, <2>2, LineFailed
    <3>2. PICK n \in {m, Junk}, b \in Seq(Nat), j \in Nat :
             file'.lines = Append(b, j) /\ PutLine(ls, joins, n, b, j)
      BY <2>2, <3>1 DEF Extended, ls, joins
    <3>3. n \in Nat /\ n \notin acked
      BY <1>1 DEF Junk
    <3>4. acked \ ToSet(Append(b, j)) \subseteq acked \ ToSet(ls) /\ (j = n \/ j = Junk \/ j \notin acked)
      BY <1>1, <3>2, <3>3, LossesOfLine
    <3>5. Last(file'.lines) = j
      BY <3>2, AppendProperties DEF Last
    <3>6. Last(file'.lines) \notin acked'
      BY <1>1, <1>5, <3>3, <3>4, <3>5 DEF Junk
    <3>7. /\ Cardinality(acked' \ ToSet(file'.lines)) \in Nat
          /\ Cardinality(acked' \ ToSet(file'.lines)) <= lost
      <4>1. IsFiniteSet(acked \ ToSet(ls))
        BY <1>1, FewerLost
      <4> QED
        BY <1>5, <3>2, <3>4, <4>1, FewerLost DEF lost
    <3>8. file'.header = file.header
      BY <3>1 DEF Extended
    <3> QED
      BY <1>1, <1>2, <1>5, <3>1, <3>6, <3>7, <3>8 DEF FaultInv
  <2> QED
    BY <2>1, <2>2
<1> QED
  BY <1>3, <1>4, <1>5 DEF SessionAppend, Opened

\* A file that is not written loses nothing.
LEMMA FaultStays ==
  ASSUME TypeInv, FaultInv, faults' \in {faults, faults + 1}, file' = file, acked' = acked
  PROVE  FaultInv'
<1>1. faults \in Nat /\ Cardinality(acked \ ToSet(file.lines)) \in Nat
  BY Fields, FewerLost DEF TypeInv, FaultInv
<1> QED
  BY <1>1 DEF FaultInv

\* A file without a line had none.
LEMMA FaultEmpty ==
  ASSUME TypeInv, FaultInv, faults' \in Nat, file' \in {NoFile, Empty, Bad}, acked' = {}
  PROVE  FaultInv'
<1>1. IsFiniteSet({}) /\ Cardinality({}) = 0 /\ {} \ ToSet(file'.lines) = {}
  BY FS_EmptySet
<1> QED
  BY <1>1, FilesAre DEF FaultInv

LEMMA FaultStep ==
  ASSUME CoreInv, FreshInv, FaultInv, [Next]_vars
  PROVE  FaultInv'
<1>0. TypeInv /\ minted \in Nat /\ turn.left \in Seq(Nat) /\ late.left \in Seq(Nat) /\ faults \in Nat
      /\ acked \subseteq Written
  BY Fields DEF CoreInv, TypeInv, Written, Stored
<1>1. CASE GetOrCreate
  <2>1. CASE cache # None /\ UNCHANGED storeVars
    BY <1>0, <2>1, FaultStays DEF storeVars
  <2>2. CASE Opening(Readable(file)) /\ file' = file
    BY <1>0, <2>2, FaultStays DEF Opening
  <2>3. CASE Opening(<<>>) /\ file.header = "none" /\ file' = Empty
    BY <1>0, <2>3, FaultEmpty DEF Opening, FaultInv
  <2> QED
    BY <1>0, <1>1, <2>1, <2>2, <2>3, Obtained
<1>2. CASE GetOrCreateFails
  <2>1. Refused
    BY <1>0, <1>2, RefusedTypes
  <2>2. CASE UNCHANGED <<file, faults>>
    BY <1>0, <2>1, <2>2, FaultStays DEF Refused
  <2>3. CASE file.header = "none" /\ faults' = faults + 1 /\ file' \in {NoFile, Bad}
    BY <1>0, <2>1, <2>3, FaultEmpty DEF Refused, FaultInv
  <2> QED
    BY <2>1, <2>2, <2>3 DEF Refused
<1>3. CASE Chat \/ Approve \/ Render
  <2>1. GetOrCreate \/ GetOrCreateFails \/ UNCHANGED <<file, faults, acked>>
    BY <1>3 DEF Chat, Approve, Render, ClearInterrupt, storeVars
  <2> QED
    BY <1>0, <1>1, <1>2, <2>1, FaultStays
<1>4. CASE Abort \/ Kill \/ HandOver \/ Stream \/ Result \/ EndTurn \/ UNCHANGED vars
  <2>1. UNCHANGED <<file, faults, acked>>
    BY <1>4 DEF Abort, Kill, StoreRestart, HandOver, Stream, Result, EndTurn, SetInterrupt, storeVars, vars
  <2> QED
    BY <1>0, <2>1, FaultStays
<1>5. CASE Delete
  <2>1. CASE file' = NoFile /\ acked' = {} /\ faults' = faults
    BY <1>0, <2>1, FaultEmpty
  <2>2. CASE faults' = faults + 1 /\ file' = file /\ acked' = acked
    BY <1>0, <2>2, FaultStays
  <2> QED
    BY <1>5, <2>1, <2>2 DEF Delete, StoreDelete
<1>6. CASE SaveQuestion
  <2>1. turn.sess \in DOMAIN objects /\ SessionAppend(turn.sess, minted + 1)
    BY <1>0, <1>6 DEF SaveQuestion, TypeInv, TypeOK
  <2>2. minted + 1 \in Nat /\ minted + 1 # 0 /\ minted + 1 \notin 0..minted
    BY <1>0
  <2>3. minted + 1 \notin acked
    BY <1>0, <2>2 DEF FreshInv, Fresh
  <2> QED
    BY <1>0, <2>1, <2>2, <2>3, FaultAppend
<1>7. ASSUME NEW s \in Seq(Nat), s # <<>>, s = Pending \/ s = late.left
      PROVE  Head(s) \in Nat /\ Head(s) # 0 /\ Head(s) \notin acked
  <2>1. Head(s) \in ToSet(Pending) \cup ToSet(late.left) /\ Head(s) \in Nat
    BY <1>7, HeadTail
  <2> QED
    BY <1>0, <2>1 DEF FreshInv, Fresh
<1>8. CASE SaveMessage
  <2>1. turn.left = Pending
    BY <1>8 DEF SaveMessage, Pending
  <2> QED
    BY <1>0, <1>7, <1>8, <2>1, SaveMessageIs, FaultAppend
<1>9. CASE SaveLate
  BY <1>0, <1>7, <1>9, SaveLateIs, FaultAppend
<1> QED
  BY <1>3, <1>4, <1>5, <1>6, <1>8, <1>9 DEF Next, TurnStep

LEMMA FaultsAlways == Spec => [](CoreInv /\ FreshInv /\ FaultInv)
<1>1. Init => CoreInv /\ FreshInv /\ FaultInv
  <2> SUFFICES ASSUME Init PROVE CoreInv /\ FreshInv /\ FaultInv
    OBVIOUS
  <2>1. ToSet(<<>>) = {} /\ InOrder(<<>>) /\ DOMAIN <<>> = {}
    BY SetOfEmpty
  <2>2. Pending = <<>> /\ late.left = <<>> /\ minted = 0
    BY DEF Init, StreamInit, NoTurn, NoLate, Pending
  <2>3. Written = {}
    <3>1. /\ acked = {} /\ strays = {} /\ ToSet(start) = {} /\ objects = <<>> /\ ToSet(file.lines) = {}
      BY <2>1, FilesAre DEF Init, StoreInit
    <3> QED
      BY <2>1, <3>1 DEF Written, Stored
  <2>4. FreshInv
    BY <2>1, <2>2, <2>3 DEF FreshInv, Fresh
  <2>5. FaultInv
    <3>1. acked = {} /\ file = NoFile /\ faults = 0 /\ {} \ ToSet(file.lines) = {}
      BY DEF Init, StoreInit
    <3> QED
      BY <3>1, FilesAre, FS_EmptySet DEF FaultInv
  <2> QED
    BY <2>4, <2>5, CoreInit
<1>2. CoreInv /\ FreshInv /\ FaultInv /\ [Next]_vars => (CoreInv /\ FreshInv /\ FaultInv)'
  BY CoreStep, FreshStep, FaultStep
<1> QED
  BY <1>1, <1>2, PTL DEF Spec

\* A load misses at most one acknowledged message for every write that failed
\* (FaultsCostOne).
THEOREM FaultsAreBounded == Spec => []FaultsCostOne
<1>1. CoreInv /\ FreshInv /\ FaultInv => FaultsCostOne
  <2> SUFFICES ASSUME CoreInv, FaultInv PROVE FaultsCostOne
    OBVIOUS
  <2>1. /\ TypeInv /\ file.lines \in Seq(Nat) /\ acked \subseteq Nat /\ faults \in Nat
        /\ IsFiniteSet(acked) /\ 0 \notin acked
    BY Fields DEF CoreInv, TypeInv, TypeOK, FaultInv
  <2>2. ToSet(Readable(file)) = ToSet(file.lines) \cap (Nat \ {Junk})
    BY <2>1, KeptRange DEF Readable
  <2>3. acked \ ToSet(Readable(file)) = acked \ ToSet(file.lines)
    BY <2>1, <2>2 DEF Junk
  <2>4. Cardinality(acked \ ToSet(file.lines)) \in Nat
    BY <2>1, FewerLost
  <2>5. Cardinality(acked \ ToSet(file.lines)) <= faults
    BY <2>1, <2>4 DEF FaultInv
  <2> QED
    BY <2>3, <2>5 DEF FaultsCostOne
<1> QED
  BY <1>1, FaultsAlways, PTL

-----------------------------------------------------------------------------
(* The file is in order, and within the session.                           *)

LEMMA RisesPut ==
  ASSUME NEW ls \in Seq(Nat), NEW joins \in BOOLEAN, NEW m \in Nat, NEW b \in Seq(Nat), NEW j \in Nat,
         joins => ls # <<>>, PutLine(ls, joins, m, b, j),
         NEW S, 0 \notin S, RisesOn(ls, S), m \in S => \A x \in ToSet(ls) \cap S : x < m
  PROVE  RisesOn(Append(b, j), S)
<1>1. CASE joins
  <2>1. /\ ls = Append(b, Last(ls)) /\ Last(ls) \in Nat /\ j \in {m, Last(ls), Junk}
        /\ ToSet(b) \subseteq ToSet(ls)
    BY <1>1, LinesGrow DEF PutLine
  <2>2. RisesOn(b, S)
    <3>1. /\ DOMAIN b = 1..Len(b) /\ Len(b) \in Nat /\ DOMAIN ls = 1..(Len(b) + 1)
          /\ \A i \in 1..Len(b) : ls[i] = b[i]
      BY <2>1, AppendProperties, SeqDomain, SMTT(30)
    <3> QED
      BY <3>1 DEF RisesOn
  <2>3. CASE j = Last(ls)
    BY <2>1, <2>3
  <2>4. CASE j = m \/ j = Junk
    BY <2>1, <2>2, <2>4, RisesAppend DEF Junk
  <2> QED
    BY <2>1, <2>3, <2>4
<1>2. CASE ~joins
  BY <1>2, RisesAppend DEF PutLine
<1> QED
  BY <1>1, <1>2

LEMMA ExtendedRises ==
  ASSUME TypeInv, NEW m \in Nat, Extended(m), NEW S, 0 \notin S, RisesOn(file.lines, S),
         m \in S => \A x \in ToSet(file.lines) \cap S : x < m
  PROVE  RisesOn(file'.lines, S)
<1> DEFINE ls == file.lines
           joins == file.open
<1>1. CASE file' = file
  BY <1>1
<1>2. CASE file' # file
  <2>1. PICK n \in {m, Junk}, b \in Seq(Nat), j \in Nat :
           file'.lines = Append(b, j) /\ PutLine(ls, joins, n, b, j)
    BY <1>2 DEF Extended
  <2>2. /\ ls \in Seq(Nat) /\ joins \in BOOLEAN /\ n \in Nat /\ (joins => ls # <<>>) /\ RisesOn(ls, S)
        /\ (n \in S => \A x \in ToSet(ls) \cap S : x < n)
    BY Fields DEF TypeInv, FileInv, Junk
  <2> HIDE DEF ls, joins
  <2>3. RisesOn(Append(b, j), S)
    BY <2>1, <2>2, RisesPut
  <2> QED
    BY <2>1, <2>3
<1> QED
  BY <1>1, <1>2

\* A message for a session that is no longer the cached one is not counted.
LEMMA LinesAppend ==
  ASSUME TypeInv, LinesInv, NEW o \in DOMAIN objects, NEW m \in Nat, SessionAppend(o, m),
         NEW S, S \subseteq Own,
         m \in S => (cache = o /\ \A x \in ToSet(file.lines) \cap Own : x < m)
  PROVE  /\ RisesOn(file'.lines, S)
         /\ ToSet(file'.lines) \cap S \subseteq (ToSet(file.lines) \cap Own) \cup ({m} \cap S)
         /\ cache' # None => ToSet(file'.lines) \cap S \subseteq ToSet(Cached'.messages)
<1>1. Grown(o, m) /\ Extended(m)
  BY AppendIs
<1>2. 0 \notin S
  BY DEF Own, Junk
<1>3. RisesOn(file.lines, S)
  BY DEF LinesInv, RisesOn
<1>4. RisesOn(file'.lines, S)
  BY <1>1, <1>2, <1>3, ExtendedRises
<1>5. ToSet(file'.lines) \cap S \subseteq (ToSet(file.lines) \cap Own) \cup ({m} \cap S)
  BY <1>1, <1>2, ExtendedLines DEF Junk
<1>6. ASSUME cache' # None PROVE ToSet(file'.lines) \cap S \subseteq ToSet(Cached'.messages)
  <2>1. cache' = cache /\ cache \in DOMAIN objects
    BY <1>1, <1>6 DEF Grown, TypeInv, TypeOK
  <2>2. ToSet(Cached.messages) \subseteq ToSet(Cached'.messages)
        /\ (cache = o => m \in ToSet(Cached'.messages))
    BY <1>1, <2>1, GrownMessages DEF Cached
  <2>3. ToSet(file.lines) \cap Own \subseteq ToSet(Cached.messages)
    BY <1>6, <2>1 DEF LinesInv
  <2> QED
    BY <1>5, <2>2, <2>3
<1> QED
  BY <1>4, <1>5, <1>6

\* What becomes of the session's file and messages when nothing is appended.
LEMMA LinesStay ==
  ASSUME LinesInv, strays' = strays, file' = file,
         cache' # None => cache # None /\ ToSet(Cached.messages) \subseteq ToSet(Cached'.messages),
         \A l \in ToSet(file.lines) \cap Own, p \in ToSet(Pending') : l < p
  PROVE  LinesInv'
<1>1. Own' = Own
  BY DEF Own
<1> QED
  BY <1>1 DEF LinesInv

LEMMA LinesEmpty ==
  ASSUME file' \in {NoFile, Empty, Bad}
  PROVE  LinesInv'
<1>1. file'.lines = <<>> /\ ToSet(file'.lines) = {} /\ RisesOn(file'.lines, Own')
  BY FilesAre, SetOfEmpty, EmptySeq DEF RisesOn
<1> QED
  BY <1>1 DEF LinesInv

LEMMA LinesStep ==
  ASSUME CoreInv, FreshInv, LinesInv, [Next]_vars
  PROVE  LinesInv'
<1>0. /\ TypeInv /\ PageInv /\ minted \in Nat /\ file.lines \in Seq(Nat) /\ turn.left \in Seq(Nat)
      /\ late.left \in Seq(Nat) /\ ui.kept \in Seq(Nat)
      /\ (cache # None => cache \in DOMAIN objects)
  BY Fields DEF CoreInv, TypeInv
<1>1. \A l \in ToSet(file.lines) : l < minted + 1
  <2>1. ToSet(file.lines) \subseteq 0..minted
    BY DEF FreshInv, Fresh, Written, Stored
  <2> QED
    BY <1>0, <2>1
<1>2. CASE Chat \/ Approve \/ Render
  <2>1. strays' = strays /\ ToSet(Pending') = {}
    BY <1>2, Requests, SetOfEmpty
  <2>2. CASE GetOrCreate
    <3>1. CASE cache # None /\ UNCHANGED storeVars
      BY <2>1, <3>1, LinesStay DEF storeVars, Cached
    <3>2. CASE Opening(Readable(file)) /\ file' = file
      <4>1. Own' = Own /\ Cached'.messages = Readable(file)
        BY <2>1, <3>2 DEF Own, Opening, Cached, Session
      <4>2. ToSet(Readable(file)) = ToSet(file.lines) \cap (Nat \ {Junk})
        BY <1>0, KeptRange DEF Readable
      <4> QED
        BY <2>1, <3>2, <4>1, <4>2 DEF LinesInv, Own
    <3>3. CASE file' = Empty
      BY <3>3, LinesEmpty
    <3> QED
      BY <1>0, <2>2, <3>1, <3>2, <3>3, Obtained
  <2>3. CASE Refused
    <3>1. CASE file' = file
      BY <2>1, <2>3, <3>1, LinesStay DEF Refused
    <3>2. CASE file' \in {NoFile, Bad}
      BY <3>2, LinesEmpty
    <3> QED
      BY <2>3, <3>1, <3>2 DEF Refused
  <2>4. CASE /\ cache \in DOMAIN objects /\ UNCHANGED <<file, faults, acked>>
             /\ Marked(cache, FALSE, objects[cache].msgIdx)
    <3>1. cache \in Nat /\ cache # None
      BY <1>0, <2>4, Fields, Constants DEF TypeInv
    <3> QED
      BY <2>1, <2>4, <3>1, LinesStay DEF Marked, Cached
  <2>5. CASE UNCHANGED storeVars
    BY <2>1, <2>5, LinesStay DEF storeVars, Cached
  <2> QED
    BY <1>2, <2>2, <2>3, <2>4, <2>5, Requests
<1>3. CASE Abort \/ Kill \/ EndTurn
  <2>1. strays' = strays /\ file' = file
    BY <1>3 DEF Abort, Kill, StoreRestart, EndTurn, SetInterrupt, storeVars
  <2>2. ToSet(Pending') = {}
    BY <1>3, OverTypes, SetOfEmpty DEF Abort, Kill, EndTurn, Pending
  <2>3. cache' # None => cache # None /\ Cached'.messages = Cached.messages
    <3>1. CASE Abort \/ Kill \/ UNCHANGED storeVars
      BY <3>1 DEF Abort, Kill, StoreRestart, storeVars, Cached
    <3>2. CASE EndTurn /\ SetInterrupt(turn.sess, ui.idx)
      <4>1. turn.sess \in DOMAIN objects /\ ui.idx \in Nat
        BY <1>0, <3>2, Fields DEF EndTurn, TypeInv, TypeOK
      <4>2. Marked(turn.sess, TRUE, ui.idx)
        BY <1>0, <3>2, <4>1, InterruptSet
      <4> QED
        BY <1>0, <4>2 DEF Marked, Cached
    <3> QED
      BY <1>3, <3>1, <3>2 DEF EndTurn
  <2> QED
    BY <2>1, <2>2, <2>3, LinesStay
<1>4. CASE Delete
  <2>1. strays' = strays /\ ToSet(Pending') = {}
    BY <1>4, OverTypes, SetOfEmpty DEF Delete, Pending
  <2>2. CASE file' = NoFile
    BY <2>2, LinesEmpty
  <2>3. CASE UNCHANGED <<objects, cache, file, acked>>
    BY <2>1, <2>3, LinesStay DEF Cached
  <2> QED
    BY <1>4, <2>2, <2>3 DEF Delete, StoreDelete
<1>5. CASE SaveQuestion
  <2>1. /\ SessionAppend(turn.sess, minted + 1) /\ strays' = strays /\ turn.phase = "asked"
        /\ turn.left = <<>> /\ turn'.phase = "ready" /\ turn'.left = turn.left
    BY <1>0, <1>5 DEF SaveQuestion, TypeInv, TypeOK, LeftInv
  <2>2. turn.sess \in DOMAIN objects /\ cache = turn.sess /\ minted + 1 \in Nat
    BY <1>0, <2>1, SessionOfTurn DEF PageInv, Idle
  <2>3. /\ RisesOn(file'.lines, Own)
        /\ cache' # None => ToSet(file'.lines) \cap Own \subseteq ToSet(Cached'.messages)
    <3>1. PICK m \in Nat : m = minted + 1
      BY <2>2
    <3>2. /\ SessionAppend(turn.sess, m) /\ \A x \in ToSet(file.lines) \cap Own : x < m
      BY <1>1, <2>1, <3>1
    <3> QED
      BY <1>0, <2>2, <3>2, LinesAppend
  <2>4. ToSet(Pending') = {} /\ Own' = Own
    BY <2>1, SetOfEmpty DEF Pending, Own
  <2> QED
    BY <2>3, <2>4 DEF LinesInv
<1>6. CASE HandOver \/ Stream \/ Result
  <2>1. strays' = strays /\ UNCHANGED storeVars
    BY <1>6 DEF HandOver, Stream, Result
  <2>2. ToSet(Pending') \subseteq ToSet(Pending) \cup {minted + 1}
    <3>1. CASE HandOver
      <4>1. Pending' = <<>>
        BY <1>0, <3>1, HandOverIs DEF Pending
      <4> QED
        BY <4>1, SetOfEmpty
    <3>2. CASE Stream
      <4>1. Streams /\ Pending = ui.kept /\ Pending' = ui'.kept
        BY <1>0, <3>2, StreamsOn DEF Stream, PageInv, Pending
      <4>2. ToSet(Append(ui.kept, minted + 1)) = ToSet(ui.kept) \cup {minted + 1}
        BY <1>0, ToSetAppend
      <4> QED
        BY <4>1, <4>2 DEF Streams
    <3>3. CASE Result
      <4>1. Pending = ui.kept /\ Pending' \in {ui.kept, <<>>}
        BY <1>0, <3>3, ResultIs DEF Result, Pending
      <4> QED
        BY <4>1, SetOfEmpty
    <3> QED
      BY <1>6, <3>1, <3>2, <3>3
  <2>3. \A l \in ToSet(file.lines) \cap Own, p \in ToSet(Pending') : l < p
    BY <1>1, <2>2 DEF LinesInv
  <2> QED
    BY <2>1, <2>3, LinesStay DEF storeVars, Cached
<1>7. CASE SaveMessage
  <2> DEFINE m == Head(turn.left)
  <2>1. /\ turn.left # <<>> /\ SessionAppend(turn.sess, m) /\ strays' = strays /\ m \in Nat
        /\ turn'.left = Tail(turn.left) /\ turn.phase = "saving" /\ turn'.phase = "saving"
    BY <1>0, <1>7, SaveMessageIs DEF SaveMessage
  <2>2. turn.sess \in DOMAIN objects /\ cache = turn.sess
    BY <1>0, <2>1, SessionOfTurn DEF PageInv, Idle
  <2>3. Pending = turn.left /\ Pending' = Tail(turn.left) /\ Own' = Own
    BY <2>1 DEF Pending, Own
  <2>4. /\ m \in ToSet(Pending) /\ ToSet(Pending') \subseteq ToSet(Pending)
        /\ \A p \in ToSet(Pending') : m < p
    <3>1. InOrder(turn.left)
      BY <2>3 DEF FreshInv, Fresh
    <3>2. m \in ToSet(turn.left) /\ ToSet(turn.left) = ToSet(Tail(turn.left)) \cup {m}
      BY <1>0, <2>1, HeadTail
    <3>3. \A x \in ToSet(Tail(turn.left)) : m < x
      BY <1>0, <2>1, <3>1, TailInOrder
    <3> QED
      BY <2>3, <3>2, <3>3
  <2> HIDE DEF m
  <2>5. \A x \in ToSet(file.lines) \cap Own : x < m
    BY <2>4 DEF LinesInv
  <2>6. /\ RisesOn(file'.lines, Own)
        /\ ToSet(file'.lines) \cap Own \subseteq (ToSet(file.lines) \cap Own) \cup {m}
        /\ cache' # None => ToSet(file'.lines) \cap Own \subseteq ToSet(Cached'.messages)
    BY <1>0, <2>1, <2>2, <2>5, LinesAppend
  <2>7. \A l \in ToSet(file.lines) \cap Own, p \in ToSet(Pending') : l < p
    BY <2>4 DEF LinesInv
  <2> QED
    BY <2>3, <2>4, <2>6, <2>7 DEF LinesInv
<1>8. CASE SaveLate
  <2> DEFINE m == Head(late.left)
  <2>1. /\ late.left # <<>> /\ SessionAppend(late.sess, m) /\ m \in Nat /\ strays' = strays \cup {m}
        /\ late.sess \in DOMAIN objects /\ UNCHANGED <<turn, ui>>
    BY <1>0, <1>8, SaveLateIs DEF SaveLate, streamVars
  <2> HIDE DEF m
  <2>2. Own' \subseteq Own /\ m \notin Own' /\ Pending' = Pending
    BY <2>1 DEF Own, Pending
  <2> DEFINE S == Own'
  <2>3. S \subseteq Own /\ m \notin S
    BY <2>2
  <2> HIDE DEF S
  <2>4. /\ RisesOn(file'.lines, S)
        /\ ToSet(file'.lines) \cap S \subseteq ToSet(file.lines) \cap Own
        /\ cache' # None => ToSet(file'.lines) \cap S \subseteq ToSet(Cached'.messages)
    BY <1>0, <2>1, <2>3, LinesAppend
  <2> QED
    BY <2>2, <2>4 DEF LinesInv, S
<1>9. CASE UNCHANGED vars
  BY <1>9 DEF vars, storeVars, streamVars, LinesInv, Own, Pending, Cached
<1> QED
  BY <1>2, <1>3, <1>4, <1>5, <1>6, <1>7, <1>8, <1>9 DEF Next, TurnStep

LEMMA LinesAlways == Spec => [](CoreInv /\ FreshInv /\ LinesInv)
<1>1. Init => LinesInv
  <2> SUFFICES ASSUME Init PROVE LinesInv
    OBVIOUS
  <2>1. file.lines = <<>> /\ ToSet(file.lines) = {} /\ RisesOn(file.lines, Own)
    BY FilesAre, SetOfEmpty, EmptySeq DEF Init, StoreInit, RisesOn
  <2> QED
    BY <2>1 DEF LinesInv
<1>2. CoreInv /\ FreshInv /\ LinesInv /\ [Next]_vars => LinesInv'
  BY LinesStep
<1> QED
  BY <1>1, <1>2, FaultsAlways, PTL DEF Spec

\* The file holds nothing that the session does not have, and in the order in which it
\* was said, what a stopped turn has saved late apart (FileWithinSession).
THEOREM FileFollowsSession == Spec => []FileWithinSession
<1>1. CoreInv /\ LinesInv => FileWithinSession
  <2> SUFFICES ASSUME CoreInv, LinesInv PROVE FileWithinSession
    OBVIOUS
  <2> DEFINE lines == Readable(file)
             own == Without(lines, strays)
  <2>1. file.lines \in Seq(Nat)
    BY Fields DEF CoreInv, TypeInv
  <2>2. /\ lines \in Seq(Nat) /\ ToSet(lines) = ToSet(file.lines) \cap (Nat \ {Junk}) /\ RisesOn(lines, Own)
    BY <2>1, KeptRange, KeptRises DEF Readable, LinesInv
  <2> HIDE DEF lines
  <2>3. own \in Seq(Nat) /\ ToSet(own) = ToSet(lines) \cap (Nat \ strays) /\ RisesOn(own, Own)
    BY <2>2, KeptRange, KeptRises DEF Without
  <2> HIDE DEF own
  <2>4. ToSet(own) \subseteq ToSet(file.lines) \cap Own
    BY <2>2, <2>3 DEF Own
  <2>5. InOrder(own)
    BY <2>4, <2>3 DEF RisesOn, InOrder, ToSet
  <2>6. cache # None => ToSet(own) \subseteq ToSet(Cached.messages)
    BY <2>4 DEF LinesInv
  <2> QED
    BY <2>5, <2>6 DEF FileWithinSession, own, lines
<1> QED
  BY <1>1, LinesAlways, PTL

-----------------------------------------------------------------------------
(* A turn's messages, in the session and still to be saved, are those of    *)
(* the agent's run.                                                        *)

LEMMA RunGrows ==
  ASSUME NEW a \in Nat, NEW n \in Nat, a <= n
  PROVE  /\ Run(a, n) \in Seq(Nat) /\ Run(a, n + 1) = Append(Run(a, n), n + 1)
         /\ Run(n, n) = <<>>
<1>1. /\ Run(a, n) \in Seq(Nat) /\ Len(Run(a, n)) = n - a /\ \A i \in 1..(n - a) : Run(a, n)[i] = a + i
  BY DEF Run
<1>2. /\ Run(a, n + 1) \in Seq(Nat) /\ Len(Run(a, n + 1)) = n + 1 - a
      /\ \A i \in 1..(n + 1 - a) : Run(a, n + 1)[i] = a + i
  BY DEF Run
<1> DEFINE longer == Append(Run(a, n), n + 1)
<1>3. /\ longer \in Seq(Nat) /\ Len(longer) = n - a + 1
      /\ \A i \in 1..(n - a) : longer[i] = a + i
      /\ longer[n - a + 1] = n + 1
  BY <1>1, AppendProperties
<1> HIDE DEF longer
<1>4. \A i \in 1..(n + 1 - a) : Run(a, n + 1)[i] = longer[i]
  BY <1>2, <1>3
<1>5. Run(a, n + 1) = longer
  BY <1>2, <1>3, <1>4, SeqEqual
<1>6. Run(n, n) = <<>>
  BY DEF Run
<1> QED
  BY <1>1, <1>5, <1>6 DEF longer

\* What is kept depends on the elements alone.
LEMMA KeptSame ==
  ASSUME NEW A, NEW s \in Seq(A), NEW S, NEW T, ToSet(s) \cap S = ToSet(s) \cap T
  PROVE  Kept(s, S) = Kept(s, T)
<1> DEFINE n == Len(s)
<1>1. n \in Nat /\ \A i \in 1..n : s[i] \in S <=> s[i] \in T
  BY LenProperties DEF ToSet
<1>2. PICK k : KeepsUpTo(s, S, n, k) /\ Kept(s, S) = k[n]
  BY <1>1, KeptSteps
<1>3. PICK l : KeepsUpTo(s, T, n, l) /\ Kept(s, T) = l[n]
  BY <1>1, KeptSteps
<1> HIDE DEF n
<1> DEFINE U == {m \in Nat : m <= n => k[m] = l[m]}
<1>4. 0 \in U
  BY <1>2, <1>3 DEF KeepsUpTo
<1>5. ASSUME NEW m \in Nat, m \in U PROVE m + 1 \in U
  <2> SUFFICES ASSUME m + 1 <= n PROVE k[m + 1] = l[m + 1]
    BY <1>5
  <2>1. m + 1 \in 1..n /\ (m + 1) - 1 = m /\ k[m] = l[m]
    BY <1>1, <1>5
  <2> QED
    BY <1>1, <1>2, <1>3, <2>1 DEF KeepsUpTo
<1> HIDE DEF U
<1>6. n \in U
  BY <1>1, <1>4, <1>5, Induction
<1> QED
  BY <1>1, <1>2, <1>3, <1>6 DEF U

\* A message that was not there counts as stray, or as saved.
LEMMA WithoutOne ==
  ASSUME NEW s \in Seq(Nat), NEW m \in Nat, m \notin ToSet(s), NEW S
  PROVE  /\ Without(s, S \cup {m}) = Without(s, S)
         /\ Without(Append(s, m), S \cup {m}) = Without(s, S)
<1>1. ToSet(s) \cap (Nat \ (S \cup {m})) = ToSet(s) \cap (Nat \ S)
  OBVIOUS
<1>2. Without(s, S \cup {m}) = Without(s, S)
  BY <1>1, KeptSame DEF Without
<1>3. Without(Append(s, m), S \cup {m}) = Without(s, S \cup {m})
  BY KeptAppend DEF Without
<1> QED
  BY <1>2, <1>3

LEMMA WithoutAppend ==
  ASSUME NEW s \in Seq(Nat), NEW m \in Nat, NEW S, m \notin S
  PROVE  /\ Without(s, S) \in Seq(Nat) /\ Without(Append(s, m), S) = Append(Without(s, S), m)
<1>1. Without(s, S) \in Seq(Nat)
  BY KeptRange DEF Without
<1>2. Without(Append(s, m), S) = Append(Without(s, S), m)
  <2> DEFINE T == Nat \ S
  <2>1. m \in T
    OBVIOUS
  <2> HIDE DEF T
  <2>2. Kept(Append(s, m), T) = IF m \in T THEN Append(Kept(s, T), m) ELSE Kept(s, T)
    BY KeptAppend
  <2>3. Kept(Append(s, m), T) = Append(Kept(s, T), m)
    BY <2>1, <2>2
  <2> QED
    BY <2>3, Zenon DEF T, Without
<1> QED
  BY <1>1, <1>2

LEMMA AppendHead ==
  ASSUME NEW s \in Seq(Nat), NEW t \in Seq(Nat), t # <<>>
  PROVE  Append(s, Head(t)) \o Tail(t) = s \o t
<1>1. Head(t) \in Nat /\ Tail(t) \in Seq(Nat) /\ t = <<Head(t)>> \o Tail(t)
  BY HeadTail
<1>2. Append(s, Head(t)) = s \o <<Head(t)>> /\ <<Head(t)>> \in Seq(Nat)
  BY <1>1, AppendIsConcat
<1>3. (s \o <<Head(t)>>) \o Tail(t) = s \o (<<Head(t)>> \o Tail(t))
  BY <1>1, <1>2, ConcatAssociative
<1> QED
  BY <1>1, <1>2, <1>3

LEMMA LastOfSeq ==
  ASSUME NEW s \in Seq(Nat), s # <<>>
  PROVE  Last(s) \in ToSet(s) /\ Last(s) \in Nat
<1>1. Len(s) \in 1..Len(s)
  BY EmptySeq, LenProperties
<1> QED
  BY <1>1, SeqDomain DEF Last, ToSet

LEMMA SavedOnHandOver ==
  ASSUME CoreInv, FreshInv, SavedInv, HandOver
  PROVE  SavedInv'
<1> SUFFICES ASSUME Questioned' PROVE SavedInv'
  BY DEF SavedInv
<1>1. /\ turn.phase = "ready" /\ turn'.phase = "streaming" /\ turn'.sess = turn.sess
      /\ turn'.resumed = turn.resumed /\ ui'.kept = <<>> /\ minted' = minted /\ over' = FALSE
      /\ UNCHANGED <<objects, start, strays>> /\ start \in Seq(Nat)
      /\ \/ up'
         \/ ui'.failed
  BY HandOverIs DEF CoreInv, HandOver, storeVars, TypeInv, TypeOK
<1>2. ~turn.resumed /\ Questioned
  BY <1>1 DEF Questioned
<1>3. ui'.st = "ended" => ui'.failed
  <2>1. Begins(Len(objects[turn.sess].messages)).st = "events"
    <3>1. Len(objects[turn.sess].messages) \in Nat
      BY HandOverIs, Fields, LenProperties DEF CoreInv, TypeInv
    <3> QED
      BY <3>1, BeginsIs
  <2> QED
    BY <1>2, <2>1, HandOverIs DEF CoreInv
<1>4. /\ start # <<>> /\ Last(start) \notin strays /\ minted = Last(start)
      /\ Without(objects[turn.sess].messages, strays) = Without(start, strays)
  BY <1>1, <1>2 DEF SavedInv
<1>5. Run(Last(start), minted) = <<>>
  BY <1>1, <1>4, LastOfSeq, RunGrows
<1> QED
  BY <1>1, <1>3, <1>4, <1>5 DEF SavedInv

LEMMA SavedOnStream ==
  ASSUME CoreInv, FreshInv, SavedInv, Stream
  PROVE  SavedInv'
<1> SUFFICES ASSUME Questioned' PROVE SavedInv'
  BY DEF SavedInv
<1>1. /\ turn.phase = "streaming" /\ UNCHANGED <<turn, objects, start, strays>> /\ start \in Seq(Nat)
      /\ minted \in Nat
  BY Fields DEF CoreInv, Stream, storeVars, TypeInv, TypeOK
<1>2. Streams
  BY StreamsOn DEF CoreInv, PageInv, Stream
<1>3. Questioned
  BY <1>1 DEF Questioned
<1>4. /\ start # <<>> /\ Last(start) \notin strays /\ ui.kept = Run(Last(start), minted)
      /\ Without(objects[turn.sess].messages, strays) = Without(start, strays)
  BY <1>1, <1>3 DEF SavedInv
<1>5. Last(start) \in Nat /\ Last(start) <= minted
  <2>1. Last(start) \in Written /\ Last(start) \in Nat
    BY <1>1, <1>4, LastOfSeq DEF Written
  <2> QED
    BY <1>1, <2>1 DEF FreshInv, Fresh
<1>6. ui'.kept = Run(Last(start), minted')
  <2>1. CASE minted' = minted /\ ui'.kept = ui.kept
    BY <1>4, <2>1
  <2>2. CASE minted' = minted + 1 /\ ui'.kept = Append(ui.kept, minted + 1)
    BY <1>1, <1>4, <1>5, <2>2, RunGrows
  <2> QED
    BY <1>2, <2>1, <2>2 DEF Streams
<1>7. ui'.st = "ended" => over'
  BY <1>2 DEF Streams
<1> QED
  BY <1>1, <1>4, <1>6, <1>7 DEF SavedInv

LEMMA SavedStep ==
  ASSUME CoreInv, FreshInv, SavedInv, [Next]_vars
  PROVE  SavedInv'
<1>0. /\ TypeInv /\ PageInv /\ minted \in Nat /\ turn.left \in Seq(Nat) /\ late.left \in Seq(Nat)
      /\ start \in Seq(Nat) /\ strays \subseteq Written
      /\ \A i \in DOMAIN objects : /\ objects[i].messages \in Seq(Nat)
                                   /\ ToSet(objects[i].messages) \subseteq Written
  BY Fields DEF CoreInv, TypeInv, TypeOK, Written, Stored
<1>1. ASSUME NEW s \in Seq(Nat), s # <<>>, s = Pending \/ s = late.left
      PROVE  Head(s) \in Nat /\ Head(s) \notin Written
  <2>1. Head(s) \in ToSet(Pending) \cup ToSet(late.left) /\ Head(s) \in Nat
    BY <1>1, HeadTail
  <2> QED
    BY <2>1 DEF FreshInv, Fresh
<1>2. CASE Chat \/ Approve \/ Render
  BY <1>2, Requests DEF SavedInv, Questioned
<1>3. CASE Abort \/ Kill \/ EndTurn \/ Delete
  BY <1>3, OverTypes DEF Abort, Kill, EndTurn, Delete, SavedInv, Questioned
<1>4. CASE SaveQuestion
  <2>1. /\ turn.phase = "asked" /\ SessionAppend(turn.sess, minted + 1) /\ minted' = minted + 1
        /\ start' = objects'[turn.sess].messages /\ strays' = strays
        /\ turn'.phase = "ready" /\ turn'.sess = turn.sess
    BY <1>0, <1>4 DEF SaveQuestion, TypeInv, TypeOK
  <2>2. turn.sess \in DOMAIN objects /\ minted + 1 \in Nat
    BY <1>0, <2>1 DEF TypeInv, TypeOK
  <2>3. start' = Append(objects[turn.sess].messages, minted + 1)
    BY <1>0, <2>1, <2>2, AppendIs DEF Grown
  <2>4. start' # <<>> /\ Last(start') = minted + 1
    <3>1. PICK q \in Seq(Nat), m \in Nat : q = objects[turn.sess].messages /\ m = minted + 1
      BY <1>0, <2>2
    <3>2. Append(q, m) # <<>> /\ Last(Append(q, m)) = m
      BY AppendProperties DEF Last
    <3> QED
      BY <2>3, <3>1, <3>2
  <2>5. minted + 1 \notin strays
    BY <1>0 DEF FreshInv, Fresh
  <2> QED
    BY <2>1, <2>4, <2>5 DEF SavedInv
<1>5. CASE HandOver
  BY <1>5, SavedOnHandOver
<1>6. CASE Stream
  BY <1>6, SavedOnStream
<1>7. CASE Result
  <2>1. /\ turn.phase = "streaming" /\ turn'.phase = "saving" /\ turn'.sess = turn.sess
        /\ turn'.resumed = turn.resumed /\ (~turn.resumed => turn'.left = ui.kept)
        /\ UNCHANGED <<ui, over, minted, objects, start, strays>>
    BY <1>0, <1>7, ResultIs DEF Result, storeVars, streamVars
  <2> QED
    BY <2>1 DEF SavedInv, Questioned
<1>8. CASE SaveMessage
  <2> SUFFICES ASSUME Questioned' PROVE SavedInv'
    BY DEF SavedInv
  <2> DEFINE m == Head(turn.left)
             old == objects[turn.sess].messages
  <2>1. /\ turn.sess \in DOMAIN objects /\ turn.phase = "saving" /\ turn.left # <<>>
        /\ SessionAppend(turn.sess, m) /\ turn'.phase = "saving" /\ turn'.sess = turn.sess
        /\ turn'.left = Tail(turn.left) /\ turn'.resumed = turn.resumed
        /\ UNCHANGED <<ui, over, minted, start, strays>>
    BY <1>0, <1>8, SaveMessageIs DEF SaveMessage, streamVars
  <2>2. Questioned
    BY <2>1 DEF Questioned
  <2>3. m \in Nat /\ m \notin strays
    BY <1>0, <1>1, <2>1 DEF Pending
  <2>4. objects'[turn.sess].messages = Append(old, m) /\ old \in Seq(Nat)
    BY <1>0, <2>1, <2>3, AppendIs DEF Grown
  <2>5. /\ Without(old, strays) \in Seq(Nat)
        /\ Without(Append(old, m), strays) = Append(Without(old, strays), m)
    BY <2>3, <2>4, WithoutAppend
  <2>6. Append(Without(old, strays), m) \o Tail(turn.left) = Without(old, strays) \o turn.left
    BY <1>0, <2>1, <2>5, AppendHead
  <2>7. Without(old, strays) \o turn.left = Without(start, strays) \o ui.kept
    BY <2>1, <2>2 DEF SavedInv
  <2>8. Without(objects'[turn.sess].messages, strays) \o Tail(turn.left) = Without(start, strays) \o ui.kept
    BY <2>4, <2>5, <2>6, <2>7
  <2> QED
    BY <2>1, <2>2, <2>8 DEF SavedInv
<1>9. CASE SaveLate
  <2> SUFFICES ASSUME Questioned' PROVE SavedInv'
    BY DEF SavedInv
  <2> DEFINE m == Head(late.left)
             old == objects[turn.sess].messages
  <2>1. /\ late.sess \in DOMAIN objects /\ late.left # <<>> /\ SessionAppend(late.sess, m)
        /\ UNCHANGED <<turn, ui, over, minted, start>> /\ strays' = strays \cup {m}
    BY <1>0, <1>9, SaveLateIs DEF SaveLate, streamVars
  <2>2. Questioned /\ turn.sess \in DOMAIN objects
    BY <1>0, <2>1 DEF Questioned, TypeInv, TypeOK
  <2>3. m \in Nat /\ m \notin Written
    BY <1>0, <1>1, <2>1
  <2>4. old \in Seq(Nat) /\ m \notin ToSet(old) /\ m \notin ToSet(start)
    BY <1>0, <2>2, <2>3 DEF Written
  <2>5. objects'[turn.sess].messages = old \/ objects'[turn.sess].messages = Append(old, m)
    BY <1>0, <2>1, <2>2, <2>3, AppendIs DEF Grown
  <2> HIDE DEF m, old
  <2>6. Without(objects'[turn.sess].messages, strays') = Without(old, strays)
    <3>1. /\ Without(old, strays \cup {m}) = Without(old, strays)
          /\ Without(Append(old, m), strays \cup {m}) = Without(old, strays)
      BY <2>3, <2>4, WithoutOne
    <3> QED
      BY <2>1, <2>5, <3>1
  <2>7. Without(start, strays') = Without(start, strays)
    BY <1>0, <2>1, <2>3, <2>4, WithoutOne
  <2>8. start # <<>> /\ Last(start) \notin strays
    BY <2>2 DEF SavedInv
  <2>9. Last(start) \notin strays'
    BY <1>0, <2>1, <2>4, <2>8, LastOfSeq
  <2> QED
    BY <2>1, <2>2, <2>6, <2>7, <2>8, <2>9 DEF SavedInv, old
<1>10. CASE UNCHANGED vars
  BY <1>10 DEF vars, storeVars, streamVars, SavedInv, Questioned
<1> QED
  BY <1>2, <1>3, <1>4, <1>5, <1>6, <1>7, <1>8, <1>9, <1>10 DEF Next, TurnStep

LEMMA SavedAlways == Spec => [](CoreInv /\ FreshInv /\ SavedInv)
<1>1. Init => SavedInv
  BY DEF Init, NoTurn, SavedInv, Questioned
<1>2. CoreInv /\ FreshInv /\ SavedInv /\ [Next]_vars => SavedInv'
  BY SavedStep
<1> QED
  BY <1>1, <1>2, FaultsAlways, PTL DEF Spec

\* What a question's turn leaves in the session when it ends by itself is its question
\* and every message of its run, in order (TurnsAreSaved).
THEOREM TurnsSaveTheirRuns == Spec => TurnsAreSaved
<1>1. ASSUME CoreInv, SavedInv, turn.phase = "saving" /\ ~turn.resumed /\ EndTurn
      PROVE  LET now == Without(objects[turn.sess].messages, strays)
                 was == Without(start, strays)
             IN  \/ over /\ now = was \o [i \in 1..(minted - Last(was)) |-> Last(was) + i]
                 \/ ~over /\ ui.failed /\ now = was
  <2> DEFINE now == Without(objects[turn.sess].messages, strays)
             was == Without(start, strays)
  <2>1. /\ turn.left = <<>> /\ ui.st = "ended" /\ turn.sess \in DOMAIN objects /\ Questioned
        /\ start \in Seq(Nat) /\ objects[turn.sess].messages \in Seq(Nat)
    BY <1>1, Fields DEF EndTurn, CoreInv, TypeInv, TypeOK, PageInv, TurnInv, Questioned
  <2>2. /\ start # <<>> /\ Last(start) \notin strays /\ now \o turn.left = was \o ui.kept
        /\ ui.kept = Run(Last(start), minted) /\ (over \/ (ui.failed /\ ui.kept = <<>>))
    BY <1>1, <2>1 DEF SavedInv
  <2>3. now \in Seq(Nat) /\ was \in Seq(Nat)
    BY <2>1, KeptRange DEF Without
  <2>4. Last(was) = Last(start)
    <3>1. PICK b \in Seq(Nat), e \in Nat : start = Append(b, e)
      BY <2>1, <2>2, SequenceEmptyOrAppend, ZenonT(60)
    <3>2. Last(start) = e
      BY <3>1, AppendProperties DEF Last
    <3>3. /\ Without(b, strays) \in Seq(Nat) /\ was = Append(Without(b, strays), e)
      BY <2>2, <3>1, <3>2, WithoutAppend
    <3> HIDE DEF was
    <3> QED
      BY <3>2, <3>3, AppendProperties DEF Last
  <2>5. now = was \o ui.kept
    BY <2>1, <2>2, <2>3, ConcatEmptySeq
  <2>6. ui.kept = <<>> => now = was
    BY <2>3, <2>5, ConcatEmptySeq
  <2>7. now = was \o Run(Last(was), minted)
    BY <2>2, <2>4, <2>5
  <2> HIDE DEF now, was
  <2>8. now = was \o [i \in 1..(minted - Last(was)) |-> Last(was) + i]
    BY <2>7 DEF Run
  <2>9. \/ over /\ now = was \o [i \in 1..(minted - Last(was)) |-> Last(was) + i]
        \/ ~over /\ ui.failed /\ now = was
    BY <2>2, <2>6, <2>8
  <2> QED
    BY <2>9 DEF now, was
<1>2. CoreInv /\ SavedInv =>
        [(turn.phase = "saving" /\ ~turn.resumed /\ EndTurn) =>
          LET now == Without(objects[turn.sess].messages, strays)
              was == Without(start, strays)
          IN  \/ over /\ now = was \o [i \in 1..(minted - Last(was)) |-> Last(was) + i]
              \/ ~over /\ ui.failed /\ now = was]_vars
  BY <1>1
<1> QED
  BY <1>2, SavedAlways, PTL DEF Spec, TurnsAreSaved
=============================================================================
