---------------------------- MODULE KernelProofs ---------------------------
(***************************************************************************)
(* Every function of the kernel leaves the lists and the fields of the     *)
(* tasks in agreement.  Between the steps of a function one task may be    *)
(* off all the lists (Off) or nobody may be running (Parting).             *)
(***************************************************************************)
EXTENDS Kernel, SequenceTheorems, FiniteSetTheorems, WellFoundedInduction, TLAPS

(***************************************************************************)
(* The list functions of scheduler.c: which tasks are on a list afterwards *)
(* and that nobody is on it twice.                                         *)
(***************************************************************************)

LEMMA MinIsLeast ==
  ASSUME NEW S \in SUBSET Nat, S # {}
  PROVE  Min(S) \in S /\ \A i \in S : Min(S) <= i
<1>1. PICK x \in S : \A y \in S : ~ (<<y, x>> \in OpToRel(<, Nat))
  BY WFMin, NatLessThanWellFounded
<1>2. \A y \in S : ~(y < x)
  BY <1>1, Zenon DEF OpToRel
<1>3. \A y \in S : x <= y
  BY <1>2
<1>. QED
  BY <1>3 DEF Min


LEMMA LeastIndex ==
  ASSUME NEW n \in Nat, NEW I \in SUBSET (1 .. n), I # {}
  PROVE  Min(I) \in I /\ Min(I) \in 1 .. n /\ \A i \in 1 .. n : i < Min(I) => i \notin I
<1>1. I \in SUBSET Nat
  OBVIOUS
<1>2. Min(I) \in I /\ \A i \in I : Min(I) <= i
  BY <1>1, MinIsLeast
<1>3. Min(I) \in 1 .. n
  BY <1>2
<1>. QED
  BY <1>2, <1>3

LEMMA InsertAtType ==
  ASSUME NEW S, NEW s \in Seq(S), NEW i \in 1 .. Len(s), NEW e \in S
  PROVE  /\ InsertAt(s, i, e) \in Seq(S)
         /\ Len(InsertAt(s, i, e)) = Len(s) + 1
         /\ \A j \in 1 .. i - 1 : InsertAt(s, i, e)[j] = s[j]
         /\ InsertAt(s, i, e)[i] = e
         /\ \A j \in i + 1 .. Len(s) + 1 : InsertAt(s, i, e)[j] = s[j - 1]
<1>. DEFINE a == SubSeq(s, 1, i - 1)
            b == SubSeq(s, i, Len(s))
<1>1. a \in Seq(S) /\ Len(a) = i - 1 /\ \A j \in 1 .. i - 1 : a[j] = s[j]
  OBVIOUS
<1>2. b \in Seq(S) /\ Len(b) = Len(s) - i + 1 /\ \A j \in 1 .. Len(s) - i + 1 : b[j] = s[i + j - 1]
  OBVIOUS
<1>. QED
  BY <1>1, <1>2 DEF InsertAt

LEMMA RemoveAtType ==
  ASSUME NEW S, NEW s \in Seq(S), NEW i \in 1 .. Len(s)
  PROVE  /\ RemoveAt(s, i) \in Seq(S)
         /\ Len(RemoveAt(s, i)) = Len(s) - 1
         /\ \A j \in 1 .. i - 1 : RemoveAt(s, i)[j] = s[j]
         /\ \A j \in i .. Len(s) - 1 : RemoveAt(s, i)[j] = s[j + 1]
<1>. DEFINE a == SubSeq(s, 1, i - 1)
            b == SubSeq(s, i + 1, Len(s))
<1>1. a \in Seq(S) /\ Len(a) = i - 1 /\ \A j \in 1 .. i - 1 : a[j] = s[j]
  OBVIOUS
<1>2. b \in Seq(S) /\ Len(b) = Len(s) - i /\ \A j \in 1 .. Len(s) - i : b[j] = s[i + j]
  OBVIOUS
<1>. HIDE DEF a, b
<1>0. Len(s) \in Nat /\ i \in Nat /\ i <= Len(s)
  OBVIOUS
<1>5. a \o b \in Seq(S) /\ Len(a \o b) = Len(s) - 1
  <2>1. a \o b \in Seq(S) /\ Len(a \o b) = Len(a) + Len(b)
    BY <1>1, <1>2, ConcatProperties
  <2>. QED BY <2>1, <1>0, <1>1, <1>2
<1>3. ASSUME NEW j \in i .. Len(s) - 1
      PROVE  (a \o b)[j] = s[j + 1]
  <2>1. j - (i - 1) \in 1 .. Len(s) - i
    OBVIOUS
  <2>2. b[j - (i - 1)] = s[j + 1]
    BY <1>2, <2>1
  <2>3. (a \o b)[j] = b[j - (i - 1)]
    <3>1. j \in 1 .. Len(a) + Len(b) /\ ~(j <= Len(a))
      BY <1>0, <1>1, <1>2
    <3>2. (a \o b)[j] = b[j - Len(a)]
      BY <1>1, <1>2, <3>1, ConcatProperties
    <3>. QED BY <1>1, <3>2
  <2>. QED BY <2>2, <2>3
<1>4. \A j \in 1 .. i - 1 : (a \o b)[j] = s[j]
  BY <1>1, <1>2
<1>. QED
  BY <1>3, <1>4, <1>5 DEF RemoveAt, a, b

LEMMA InToSet ==
  ASSUME NEW S, NEW s \in Seq(S)
  PROVE  \A x : x \in ToSet(s) <=> \E i \in 1 .. Len(s) : s[i] = x
BY DEF ToSet

\* r is s, which has n elements, with e in front of position i.
IsInserted(r, s, n, i, e) ==
  /\ \A j \in 1 .. i - 1 : r[j] = s[j]
  /\ r[i] = e
  /\ \A j \in i + 1 .. n + 1 : r[j] = s[j - 1]

\* The n elements of s, and that they differ.
Holds(s, n, x) == \E j \in 1 .. n : s[j] = x
Differ(s, n) == \A j, l \in 1 .. n : s[j] = s[l] => j = l

LEMMA Inserted ==
  ASSUME NEW n \in Nat, NEW s, NEW r, NEW e, NEW i \in 1 .. n, IsInserted(r, s, n, i, e)
  PROVE  /\ \A x : Holds(r, n + 1, x) <=> x = e \/ Holds(s, n, x)
         /\ Differ(s, n) /\ ~Holds(s, n, e) => Differ(r, n + 1)
<1>. USE DEF IsInserted, Holds, Differ
<1>1. ASSUME NEW j \in 1 .. n
      PROVE  \E l \in 1 .. n + 1 : r[l] = s[j]
  <2>1. CASE j < i
    BY <2>1
  <2>2. CASE j >= i
    <3>1. j + 1 \in i + 1 .. n + 1 /\ (j + 1) - 1 = j
      BY <2>2
    <3>2. j + 1 \in 1 .. n + 1 /\ r[j + 1] = s[j]
      BY <3>1
    <3>. QED BY <3>2
  <2>. QED BY <2>1, <2>2
<1>2. ASSUME NEW j \in 1 .. n + 1
      PROVE  r[j] = e \/ \E l \in 1 .. n : s[l] = r[j]
  <2>1. CASE j < i
    BY <2>1
  <2>2. CASE j > i
    <3>1. j - 1 \in 1 .. n /\ r[j] = s[j - 1]
      BY <2>2
    <3>. QED BY <3>1
  <2>. QED BY <2>1, <2>2
<1>3. i \in 1 .. n + 1
  OBVIOUS
<1>4. \A x : (\E j \in 1 .. n + 1 : r[j] = x) <=> x = e \/ \E j \in 1 .. n : s[j] = x
  BY <1>1, <1>2, <1>3
<1>5. ASSUME \A j, l \in 1 .. n : s[j] = s[l] => j = l, \A j \in 1 .. n : s[j] # e,
             NEW j \in 1 .. n + 1, NEW l \in 1 .. n + 1, j < l
      PROVE  r[j] # r[l]
  <2>1. l > i => l - 1 \in 1 .. n /\ r[l] = s[l - 1]
    OBVIOUS
  <2>2. j > i => j - 1 \in 1 .. n /\ r[j] = s[j - 1]
    OBVIOUS
  <2>3. j < i => j \in 1 .. n /\ r[j] = s[j]
    OBVIOUS
  <2>4. l < i => l \in 1 .. n /\ r[l] = s[l]
    OBVIOUS
  <2>. QED BY <1>5, <2>1, <2>2, <2>3, <2>4
<1>6. ASSUME \A j, l \in 1 .. n : s[j] = s[l] => j = l, \A j \in 1 .. n : s[j] # e
      PROVE  \A j, l \in 1 .. n + 1 : r[j] = r[l] => j = l
  BY <1>5, <1>6
<1>. QED
  BY <1>4, <1>6

LEMMA InsertAtSet ==
  ASSUME NEW S, NEW s \in Seq(S), NEW i \in 1 .. Len(s), NEW e \in S
  PROVE  /\ ToSet(InsertAt(s, i, e)) = ToSet(s) \cup {e}
         /\ Injective(s) /\ e \notin ToSet(s) => Injective(InsertAt(s, i, e))
<1>. DEFINE r == InsertAt(s, i, e)
            n == Len(s)
<1>0. n \in Nat
  OBVIOUS
<1>1. /\ r \in Seq(S) /\ Len(r) = n + 1
      /\ \A j \in 1 .. i - 1 : r[j] = s[j]
      /\ r[i] = e
      /\ \A j \in i + 1 .. n + 1 : r[j] = s[j - 1]
  BY InsertAtType
<1>. HIDE DEF r
<1>2. \A x : x \in ToSet(r) <=> Holds(r, n + 1, x)
  BY <1>0, <1>1, InToSet DEF Holds
<1>3. \A x : x \in ToSet(s) <=> Holds(s, n, x)
  BY InToSet DEF Holds
<1>. HIDE DEF n
<1>4. i \in 1 .. n
  BY DEF n
<1>5. /\ \A x : Holds(r, n + 1, x) <=> x = e \/ Holds(s, n, x)
      /\ Differ(s, n) /\ ~Holds(s, n, e) => Differ(r, n + 1)
  <2>1. IsInserted(r, s, n, i, e)
    BY <1>1 DEF IsInserted
  <2>. QED BY <1>0, <1>4, <2>1, Inserted
<1>6. ToSet(r) = ToSet(s) \cup {e}
  BY <1>2, <1>3, <1>5
<1>7. Injective(s) /\ e \notin ToSet(s) => Injective(r)
  <2>1. Injective(s) <=> Differ(s, n)
    BY DEF Injective, Differ, n
  <2>2. Injective(r) <=> Differ(r, n + 1)
    BY <1>1 DEF Injective, Differ
  <2>. QED BY <1>3, <1>5, <2>1, <2>2
<1>. QED
  BY <1>6, <1>7 DEF r

LEMMA AppendSet ==
  ASSUME NEW S, NEW s \in Seq(S), NEW e \in S
  PROVE  /\ Append(s, e) \in Seq(S)
         /\ ToSet(Append(s, e)) = ToSet(s) \cup {e}
         /\ Injective(s) /\ e \notin ToSet(s) => Injective(Append(s, e))
<1>1. /\ Append(s, e) \in Seq(S) /\ Len(Append(s, e)) = Len(s) + 1
      /\ \A j \in 1 .. Len(s) : Append(s, e)[j] = s[j]
      /\ Append(s, e)[Len(s) + 1] = e
  BY AppendProperties
<1>2. ToSet(Append(s, e)) = ToSet(s) \cup {e}
  BY <1>1 DEF ToSet
<1>3. ASSUME Injective(s), e \notin ToSet(s)
      PROVE  Injective(Append(s, e))
  BY <1>1, <1>3 DEF Injective, ToSet
<1>. QED
  BY <1>1, <1>2, <1>3

\* One more element in front.
LEMMA PrependSet ==
  ASSUME NEW S, NEW s \in Seq(S), NEW e \in S
  PROVE  /\ <<e>> \o s \in Seq(S)
         /\ ToSet(<<e>> \o s) = ToSet(s) \cup {e}
         /\ Injective(s) /\ e \notin ToSet(s) => Injective(<<e>> \o s)
<1>. DEFINE r == <<e>> \o s
<1>1. /\ Len(s) \in Nat
      /\ r \in Seq(S) /\ Len(r) = Len(s) + 1 /\ r[1] = e
      /\ \A i \in 2 .. Len(s) + 1 : r[i] = s[i - 1]
  OBVIOUS
<1>. HIDE DEF r
<1>2. \A i \in 2 .. Len(s) + 1 : i - 1 \in 1 .. Len(s) /\ r[i] \in ToSet(s)
  BY <1>1, InToSet
<1>3. ASSUME Injective(s), e \notin ToSet(s) PROVE Injective(r)
  <2>. SUFFICES ASSUME NEW i \in 1 .. Len(s) + 1, NEW j \in 1 .. Len(s) + 1, r[i] = r[j]
                PROVE  i = j
    BY <1>1 DEF Injective
  <2>1. CASE i = 1 \/ j = 1
    BY <2>1, <1>1, <1>2, <1>3
  <2>2. CASE i \in 2 .. Len(s) + 1 /\ j \in 2 .. Len(s) + 1
    <3>1. s[i - 1] = s[j - 1] /\ i - 1 \in 1 .. Len(s) /\ j - 1 \in 1 .. Len(s)
      BY <2>2, <1>1, <1>2
    <3>2. i - 1 = j - 1
      BY <3>1, <1>3 DEF Injective
    <3>. QED BY <3>2, <1>1
  <2>. QED BY <2>1, <2>2, <1>1
<1>4. ASSUME NEW x PROVE x \in ToSet(r) <=> x \in ToSet(s) \cup {e}
  <2>1. ASSUME x \in ToSet(r) PROVE x \in ToSet(s) \cup {e}
    <3>1. PICK i \in 1 .. Len(s) + 1 : x = r[i]
      BY <2>1, <1>1, InToSet
    <3>. QED BY <3>1, <1>1, <1>2
  <2>2. ASSUME x \in ToSet(s) PROVE x \in ToSet(r)
    <3>1. PICK i \in 1 .. Len(s) : x = s[i]
      BY <2>2, <1>1, InToSet
    <3>2. i + 1 \in 1 .. Len(r) /\ r[i + 1] = s[i]
      BY <1>1
    <3>. QED BY <3>1, <3>2, <1>1, InToSet
  <2>3. e \in ToSet(r)
    <3>1. 1 \in 1 .. Len(r) /\ r[1] = e
      BY <1>1
    <3>. QED BY <3>1, <1>1, InToSet
  <2>. QED BY <2>1, <2>2, <2>3
<1>. QED
  BY <1>1, <1>3, <1>4 DEF r

\* r is s, which has n elements, without what is at position i.
IsRemoved(r, s, n, i) ==
  /\ \A j \in 1 .. i - 1 : r[j] = s[j]
  /\ \A j \in i .. n - 1 : r[j] = s[j + 1]
  /\ Differ(s, n)

LEMMA Removed ==
  ASSUME NEW n \in Nat, NEW s, NEW r, NEW i \in 1 .. n, IsRemoved(r, s, n, i)
  PROVE  /\ \A x : Holds(r, n - 1, x) <=> x # s[i] /\ Holds(s, n, x)
         /\ Differ(r, n - 1)
<1>. USE DEF IsRemoved, Holds, Differ
<1>1. ASSUME NEW j \in 1 .. n, j # i
      PROVE  \E l \in 1 .. n - 1 : r[l] = s[j]
  <2>1. CASE j < i
    BY <2>1
  <2>2. CASE j > i
    <3>1. j - 1 \in i .. n - 1 /\ (j - 1) + 1 = j
      BY <2>2
    <3>2. j - 1 \in 1 .. n - 1 /\ r[j - 1] = s[j]
      BY <3>1
    <3>. QED BY <3>2
  <2>. QED BY <1>1, <2>1, <2>2
<1>2. ASSUME NEW j \in 1 .. n - 1
      PROVE  \E l \in 1 .. n : l # i /\ s[l] = r[j]
  <2>1. CASE j < i
    BY <2>1
  <2>2. CASE j >= i
    <3>1. j + 1 \in 1 .. n /\ j + 1 # i /\ r[j] = s[j + 1]
      BY <2>2
    <3>. QED BY <3>1
  <2>. QED BY <2>1, <2>2
<1>3. \A x : (\E j \in 1 .. n - 1 : r[j] = x) <=> x # s[i] /\ \E j \in 1 .. n : s[j] = x
  BY <1>1, <1>2
<1>4. ASSUME NEW j \in 1 .. n - 1, NEW l \in 1 .. n - 1, r[j] = r[l]
      PROVE  j = l
  <2>1. j < i => j \in 1 .. n /\ r[j] = s[j]
    OBVIOUS
  <2>2. j >= i => j + 1 \in 1 .. n /\ r[j] = s[j + 1]
    OBVIOUS
  <2>3. l < i => l \in 1 .. n /\ r[l] = s[l]
    OBVIOUS
  <2>4. l >= i => l + 1 \in 1 .. n /\ r[l] = s[l + 1]
    OBVIOUS
  <2>. QED BY <1>4, <2>1, <2>2, <2>3, <2>4
<1>. QED
  BY <1>3, <1>4

LEMMA RemoveAtSet ==
  ASSUME NEW S, NEW s \in Seq(S), NEW i \in 1 .. Len(s), Injective(s)
  PROVE  /\ ToSet(RemoveAt(s, i)) = ToSet(s) \ {s[i]}
         /\ Injective(RemoveAt(s, i))
<1>. DEFINE r == RemoveAt(s, i)
            n == Len(s)
<1>0. n \in Nat
  OBVIOUS
<1>1. /\ r \in Seq(S) /\ Len(r) = n - 1
      /\ \A j \in 1 .. i - 1 : r[j] = s[j]
      /\ \A j \in i .. n - 1 : r[j] = s[j + 1]
  BY RemoveAtType
<1>. HIDE DEF r
<1>2. \A x : x \in ToSet(r) <=> Holds(r, n - 1, x)
  BY <1>0, <1>1, InToSet DEF Holds
<1>3. \A x : x \in ToSet(s) <=> Holds(s, n, x)
  BY InToSet DEF Holds
<1>4. Differ(s, n)
  BY DEF Injective, Differ
<1>. HIDE DEF n
<1>5. i \in 1 .. n
  BY DEF n
<1>6. /\ \A x : Holds(r, n - 1, x) <=> x # s[i] /\ Holds(s, n, x)
      /\ Differ(r, n - 1)
  <2>1. IsRemoved(r, s, n, i)
    BY <1>1, <1>4 DEF IsRemoved
  <2>. QED BY <1>0, <1>5, <2>1, Removed
<1>7. ToSet(r) = ToSet(s) \ {s[i]}
  BY <1>2, <1>3, <1>6
<1>8. Injective(r)
  BY <1>1, <1>6 DEF Injective, Differ
<1>. QED
  BY <1>7, <1>8 DEF r

----------------------------------------------------------------------------
\* osListInsert adds the task and nothing else, wherever its place is.
LEMMA ListInsert ==
  ASSUME NEW k, NEW list \in Seq(Thread), NEW task \in Thread, NEW key
  PROVE  LET r == osListInsert(k, list, task, key)
         IN  /\ r \in Seq(Thread)
             /\ ToSet(r) = ToSet(list) \cup {task}
             /\ Injective(list) /\ task \notin ToSet(list) => Injective(r)
<1>. DEFINE I == {i \in 1 .. Len(list) : k.priority[list[i]] < key}
            i == SelectInSeq(list, LAMBDA it : k.priority[it] < key)
<1>1. i = IF I # {} THEN Min(I) ELSE 0
  BY DEF SelectInSeq
<1>2. I # {} => Min(I) \in 1 .. Len(list)
  <2>1. I \in SUBSET (1 .. Len(list)) /\ Len(list) \in Nat
    OBVIOUS
  <2>. QED BY <2>1, LeastIndex
<1>. HIDE DEF I
<1>3. i = 0 \/ (i # 0 /\ i \in 1 .. Len(list))
  BY <1>1, <1>2
<1>4. osListInsert(k, list, task, key) = IF i = 0 THEN Append(list, task) ELSE InsertAt(list, i, task)
  BY DEF osListInsert
<1>. HIDE DEF i
<1>5. CASE i = 0
  BY <1>4, <1>5, AppendSet
<1>6. CASE i # 0 /\ i \in 1 .. Len(list)
  <2>1. /\ InsertAt(list, i, task) \in Seq(Thread)
        /\ ToSet(InsertAt(list, i, task)) = ToSet(list) \cup {task}
        /\ Injective(list) /\ task \notin ToSet(list) => Injective(InsertAt(list, i, task))
    BY <1>6, InsertAtType, InsertAtSet
  <2>. QED BY <1>4, <1>6, <2>1
<1>. QED
  BY <1>3, <1>5, <1>6

\* RemoveFirst takes exactly that element off a list.
LEMMA RemoveFirstSet ==
  ASSUME NEW S, NEW list \in Seq(S), NEW task, Injective(list)
  PROVE  LET r == RemoveFirst(list, task)
         IN  /\ r \in Seq(S)
             /\ ToSet(r) = ToSet(list) \ {task}
             /\ Injective(r)
<1>. DEFINE I == {i \in 1 .. Len(list) : list[i] = task}
            i == SelectInSeq(list, LAMBDA v : v = task)
<1>1. i = IF I # {} THEN Min(I) ELSE 0
  BY DEF SelectInSeq
<1>2. CASE I = {}
  <2>1. RemoveFirst(list, task) = list
    BY <1>2 DEF RemoveFirst
  <2>2. task \notin ToSet(list)
    BY <1>2, InToSet
  <2>. QED BY <2>1, <2>2
<1>3. CASE I # {}
  <2>1. I \in SUBSET (1 .. Len(list)) /\ Len(list) \in Nat
    OBVIOUS
  <2>2. Min(I) \in I
    BY <1>3, <2>1, LeastIndex
  <2>3. i \in 1 .. Len(list) /\ list[i] = task
    BY <1>1, <1>3, <2>2
  <2>4. RemoveFirst(list, task) = RemoveAt(list, i)
    BY <2>3 DEF RemoveFirst
  <2>. HIDE DEF i, I
  <2>5. /\ RemoveAt(list, i) \in Seq(S)
        /\ ToSet(RemoveAt(list, i)) = ToSet(list) \ {list[i]}
        /\ Injective(RemoveAt(list, i))
    BY <2>3, RemoveAtType, RemoveAtSet
  <2>. QED BY <2>3, <2>4, <2>5
<1>. QED
  BY <1>2, <1>3

\* osListRemove takes exactly that task off the list.
LEMMA ListRemove ==
  ASSUME NEW list \in Seq(Thread), NEW task, Injective(list)
  PROVE  LET r == osListRemove(list, task)
         IN  /\ r \in Seq(Thread)
             /\ ToSet(r) = ToSet(list) \ {task}
             /\ Injective(r)
BY RemoveFirstSet DEF osListRemove

\* Moving a task within a list keeps the tasks on it.
LEMMA MovedList ==
  ASSUME NEW k, NEW list \in Seq(Thread), NEW task \in Thread,
         Injective(list), task \in ToSet(list)
  PROVE  /\ Moved(k, list, task) \in Seq(Thread)
         /\ ToSet(Moved(k, list, task)) = ToSet(list)
         /\ Injective(Moved(k, list, task))
<1>. DEFINE r == osListRemove(list, task)
<1>1. r \in Seq(Thread) /\ ToSet(r) = ToSet(list) \ {task} /\ Injective(r)
  BY ListRemove
<1>. HIDE DEF r
<1>2. LET m == osListInsert(k, r, task, k.priority[task])
      IN  m \in Seq(Thread) /\ ToSet(m) = ToSet(r) \cup {task} /\ Injective(m)
  BY <1>1, ListInsert
<1>. QED
  BY <1>1, <1>2 DEF Moved, r

----------------------------------------------------------------------------
\* The order of a list by priority.

\* The values of the n elements of s do not increase.
Falls(f, s, n) == \A j, l \in 1 .. n : j < l => f[s[j]] >= f[s[l]]

LEMMA InsertedFalls ==
  ASSUME NEW n \in Nat, NEW s, NEW r, NEW e, NEW i \in 1 .. n + 1, IsInserted(r, s, n, i, e),
         NEW f, Falls(f, s, n), f[e] \in Int, \A j \in 1 .. n : f[s[j]] \in Int,
         \A j \in 1 .. i - 1 : f[s[j]] >= f[e],
         \A j \in i .. n : f[s[j]] <= f[e]
  PROVE  Falls(f, r, n + 1)
<1>. USE DEF IsInserted
<1>. SUFFICES ASSUME NEW j \in 1 .. n + 1, NEW l \in 1 .. n + 1, j < l
              PROVE  f[r[j]] >= f[r[l]]
  BY DEF Falls
<1>1. j < i => j \in 1 .. n /\ j \in 1 .. i - 1 /\ r[j] = s[j]
  OBVIOUS
<1>2. l < i => l \in 1 .. n /\ l \in 1 .. i - 1 /\ r[l] = s[l]
  OBVIOUS
<1>3. j > i => j - 1 \in 1 .. n /\ j - 1 \in i .. n /\ r[j] = s[j - 1]
  OBVIOUS
<1>4. l > i => l - 1 \in 1 .. n /\ l - 1 \in i .. n /\ r[l] = s[l - 1]
  OBVIOUS
<1>5. CASE l < i
  BY <1>1, <1>2, <1>5 DEF Falls
<1>6. CASE l = i
  BY <1>1, <1>6
<1>7. CASE l > i /\ j < i
  <2>1. f[r[j]] >= f[e] /\ f[e] >= f[r[l]] /\ f[r[j]] \in Int /\ f[r[l]] \in Int
    BY <1>1, <1>4, <1>7
  <2>. QED BY <2>1
<1>8. CASE l > i /\ j = i
  BY <1>4, <1>8
<1>9. CASE l > i /\ j > i
  BY <1>3, <1>4, <1>9 DEF Falls
<1>. QED
  BY <1>5, <1>6, <1>7, <1>8, <1>9

LEMMA RemovedFalls ==
  ASSUME NEW n \in Nat, NEW s, NEW r, NEW i \in 1 .. n, NEW f, Falls(f, s, n),
         \A j \in 1 .. i - 1 : r[j] = s[j],
         \A j \in i .. n - 1 : r[j] = s[j + 1]
  PROVE  Falls(f, r, n - 1)
<1>. SUFFICES ASSUME NEW j \in 1 .. n - 1, NEW l \in 1 .. n - 1, j < l
              PROVE  f[r[j]] >= f[r[l]]
  BY DEF Falls
<1>1. j < i => j \in 1 .. n /\ r[j] = s[j]
  OBVIOUS
<1>2. j >= i => j + 1 \in 1 .. n /\ r[j] = s[j + 1]
  OBVIOUS
<1>3. l < i => l \in 1 .. n /\ r[l] = s[l]
  OBVIOUS
<1>4. l >= i => l + 1 \in 1 .. n /\ r[l] = s[l + 1]
  OBVIOUS
<1>. QED
  BY <1>1, <1>2, <1>3, <1>4 DEF Falls

LEMMA SortedFalls ==
  ASSUME NEW k, NEW list
  PROVE  Sorted(k, list) <=> Falls(k.priority, list, Len(list))
BY DEF Sorted, Falls

\* The order is that of the priorities of the tasks on the list.
LEMMA SortedSame ==
  ASSUME NEW k, NEW r, NEW list \in Seq(Thread), Sorted(k, list),
         \A t \in ToSet(list) : r.priority[t] = k.priority[t]
  PROVE  Sorted(r, list)
<1>1. \A i \in 1 .. Len(list) : list[i] \in ToSet(list)
  BY InToSet
<1>. QED
  BY <1>1 DEF Sorted

\* The key is the priority of the task or, in front of equals, one more.
LEMMA InsertSorted ==
  ASSUME NEW k \in KernelState, NEW p, p.priority = k.priority,
         NEW list \in Seq(Thread), NEW task \in Thread,
         NEW key \in {k.priority[task], k.priority[task] + 1}, Sorted(k, list)
  PROVE  Sorted(k, osListInsert(p, list, task, key))
<1>. DEFINE I == {i \in 1 .. Len(list) : p.priority[list[i]] < key}
            i == SelectInSeq(list, LAMBDA it : p.priority[it] < key)
            n == Len(list)
            f == k.priority
            r == osListInsert(p, list, task, key)
<1>1. i = IF I # {} THEN Min(I) ELSE 0
  BY DEF SelectInSeq
<1>2. n \in Nat /\ \A j \in 1 .. n : list[j] \in Thread
  OBVIOUS
<1>3. (\A t \in Thread : f[t] \in Nat) /\ key \in Nat /\ key <= f[task] + 1 /\ f[task] <= key
  BY KernelAssumption DEF KernelState, Priority, MainPriority
<1>4. I # {} => /\ Min(I) \in I /\ Min(I) \in 1 .. n
                /\ \A j \in 1 .. n : j < Min(I) => j \notin I
  <2>1. I \in SUBSET (1 .. n)
    OBVIOUS
  <2>. QED BY <1>2, <2>1, LeastIndex
<1>5. r = IF i = 0 THEN Append(list, task) ELSE InsertAt(list, i, task)
  BY DEF osListInsert
<1>6. Falls(f, list, n)
  BY SortedFalls
<1>. DEFINE place == IF i = 0 THEN n + 1 ELSE i
<1>7. /\ place \in 1 .. n + 1
      /\ \A j \in 1 .. place - 1 : f[list[j]] >= key
      /\ place <= n => f[list[place]] < key
  <2>1. CASE I = {}
    <3>1. place = n + 1 /\ \A j \in 1 .. n : ~(f[list[j]] < key)
      BY <1>1, <2>1
    <3>. HIDE DEF f, place, I, i, r
    <3>. QED BY <1>2, <1>3, <3>1
  <2>2. CASE I # {}
    <3>1. i = Min(I) /\ i \in I /\ i \in 1 .. n /\ \A j \in 1 .. n : j < i => j \notin I
      BY <1>1, <1>4, <2>2
    <3>2. place = i
      BY <3>1
    <3>. HIDE DEF i, place
    <3>3. ASSUME NEW j \in 1 .. i - 1 PROVE f[list[j]] >= key
      <4>1. j \in 1 .. n /\ j < i
        BY <3>1
      <4>2. ~(f[list[j]] < key)
        BY <3>1, <4>1
      <4>. QED BY <1>2, <1>3, <4>1, <4>2
    <3>. QED BY <3>1, <3>2, <3>3
  <2>. QED BY <2>1, <2>2
<1>8. IsInserted(r, list, n, place, task) /\ Len(r) = n + 1
  <2>1. CASE i = 0
    <3>1. r = Append(list, task)
      BY <1>5, <2>1
    <3>. HIDE DEF r
    <3>. QED BY <1>2, <2>1, <3>1, AppendProperties DEF IsInserted
  <2>2. CASE i # 0
    <3>1. r = InsertAt(list, i, task) /\ i \in 1 .. n /\ place = i
      BY <1>1, <1>4, <1>5, <2>2
    <3>. HIDE DEF r, i, place
    <3>. QED BY <3>1, InsertAtType DEF IsInserted
  <2>. QED BY <2>1, <2>2
<1>. HIDE DEF r, n, place, i, I
<1>9. ASSUME NEW j \in place .. n PROVE f[list[j]] <= f[task]
  <2>1. j \in 1 .. n /\ place \in 1 .. n
    BY <1>2, <1>7
  <2>2. f[list[place]] <= f[task]
    BY <1>2, <1>3, <1>7, <2>1
  <2>3. f[list[place]] >= f[list[j]]
    BY <1>2, <1>3, <1>6, <2>1 DEF Falls
  <2>. QED BY <1>2, <1>3, <2>1, <2>2, <2>3
<1>10. ASSUME NEW j \in 1 .. place - 1 PROVE f[list[j]] >= f[task]
  <2>1. j \in 1 .. n /\ f[list[j]] >= key
    BY <1>2, <1>7
  <2>. QED BY <1>2, <1>3, <2>1
<1>11. Falls(f, r, n + 1)
  <2>1. f[task] \in Int /\ \A j \in 1 .. n : f[list[j]] \in Int
    BY <1>2, <1>3
  <2>. HIDE DEF f
  <2>. QED BY <1>2, <1>6, <1>7, <1>8, <1>9, <1>10, <2>1, InsertedFalls
<1>. QED
  BY <1>8, <1>11, SortedFalls DEF r

\* Taking an element off a list keeps its order.
LEMMA RemoveFirstFalls ==
  ASSUME NEW S, NEW list \in Seq(S), NEW e, NEW f, Falls(f, list, Len(list))
  PROVE  Falls(f, RemoveFirst(list, e), Len(RemoveFirst(list, e)))
<1>. DEFINE I == {i \in 1 .. Len(list) : list[i] = e}
            i == SelectInSeq(list, LAMBDA v : v = e)
            r == RemoveAt(list, i)
<1>1. i = IF I # {} THEN Min(I) ELSE 0
  BY DEF SelectInSeq
<1>2. CASE I = {}
  <2>1. RemoveFirst(list, e) = list
    BY <1>2 DEF RemoveFirst
  <2>. QED BY <2>1
<1>3. CASE I # {}
  <2>1. I \in SUBSET (1 .. Len(list)) /\ Len(list) \in Nat
    OBVIOUS
  <2>2. Min(I) \in I
    BY <1>3, <2>1, LeastIndex
  <2>3. i \in 1 .. Len(list) /\ list[i] = e
    BY <1>1, <1>3, <2>2
  <2>4. RemoveFirst(list, e) = r
    BY <2>3 DEF RemoveFirst
  <2>. HIDE DEF i, I
  <2>5. /\ Len(r) = Len(list) - 1
        /\ \A j \in 1 .. i - 1 : r[j] = list[j]
        /\ \A j \in i .. Len(list) - 1 : r[j] = list[j + 1]
    BY <2>3, RemoveAtType
  <2>. HIDE DEF r
  <2>6. Falls(f, r, Len(list) - 1)
    BY <2>1, <2>3, <2>5, RemovedFalls
  <2>. QED BY <2>4, <2>5, <2>6
<1>. QED
  BY <1>2, <1>3

\* A list that is in order by f is in order by any g with the same values.
LEMMA FallsSame ==
  ASSUME NEW S, NEW list \in Seq(S), NEW f, NEW g, Falls(f, list, Len(list)),
         \A x \in ToSet(list) : g[x] = f[x]
  PROVE  Falls(g, list, Len(list))
<1>1. \A i \in 1 .. Len(list) : list[i] \in ToSet(list)
  BY InToSet
<1>. QED
  BY <1>1 DEF Falls

LEMMA RemoveSorted ==
  ASSUME NEW k, NEW list \in Seq(Thread), NEW task, Sorted(k, list)
  PROVE  Sorted(k, osListRemove(list, task))
BY SortedFalls, RemoveFirstFalls DEF osListRemove

\* The first task of a list is the most important one.
LEMMA TailSorted ==
  ASSUME NEW k \in KernelState, NEW list \in Seq(Thread), list # << >>, Sorted(k, list)
  PROVE  /\ Sorted(k, Tail(list))
         /\ \A t \in ToSet(list) : k.priority[t] <= k.priority[Head(list)]
<1>1. /\ Head(list) = list[1] /\ Len(list) \in Nat \ {0} /\ Len(Tail(list)) = Len(list) - 1
      /\ \A j \in 1 .. Len(list) - 1 : Tail(list)[j] = list[j + 1]
      /\ \A j \in 1 .. Len(list) : list[j] \in Thread
  OBVIOUS
<1>2. \A t \in Thread : k.priority[t] \in Nat
  BY KernelAssumption DEF KernelState, Priority, MainPriority
<1>3. Sorted(k, Tail(list))
  <2>. SUFFICES ASSUME NEW i \in 1 .. Len(list) - 1, NEW j \in 1 .. Len(list) - 1, i < j
                PROVE  k.priority[Tail(list)[i]] >= k.priority[Tail(list)[j]]
    BY <1>1 DEF Sorted
  <2>1. i + 1 \in 1 .. Len(list) /\ j + 1 \in 1 .. Len(list) /\ i + 1 < j + 1
    BY <1>1
  <2>. QED BY <1>1, <2>1 DEF Sorted
<1>4. ASSUME NEW t \in ToSet(list)
      PROVE  k.priority[t] <= k.priority[Head(list)]
  <2>1. PICK j \in 1 .. Len(list) : list[j] = t
    BY InToSet
  <2>2. CASE j = 1
    BY <1>1, <1>2, <2>1, <2>2
  <2>3. CASE j # 1
    <3>1. 1 \in 1 .. Len(list) /\ 1 < j
      BY <1>1, <2>3
    <3>2. k.priority[list[1]] >= k.priority[list[j]]
      BY <3>1 DEF Sorted
    <3>. QED BY <1>1, <1>2, <2>1, <3>1, <3>2
  <2>. QED BY <2>2, <2>3
<1>. QED
  BY <1>3, <1>4

\* Moving the task whose priority has changed restores the order.
LEMMA MovedSorted ==
  ASSUME NEW k, NEW r \in KernelState, NEW list \in Seq(Thread), NEW task \in Thread,
         Injective(list), Sorted(k, list),
         \A t \in ToSet(list) \ {task} : r.priority[t] = k.priority[t]
  PROVE  Sorted(r, Moved(r, list, task))
<1>. DEFINE l == osListRemove(list, task)
<1>1. l \in Seq(Thread) /\ ToSet(l) = ToSet(list) \ {task}
  BY ListRemove
<1>2. Sorted(k, l)
  BY RemoveSorted
<1>. HIDE DEF l
<1>3. Sorted(r, l)
  BY <1>1, <1>2, SortedSame
<1>4. Sorted(r, osListInsert(r, l, task, r.priority[task]))
  BY <1>1, <1>3, InsertSorted
<1>. QED
  BY <1>4 DEF Moved, l

----------------------------------------------------------------------------
\* The timer list.

TimerEntry == [task : Thread, wake : OsTick]

\* osTimerListInsert puts one more timer on osTimerList.
LEMMA TimerListInsert ==
  ASSUME NEW k \in KernelState, NEW task \in Thread, NEW timeout \in OsTick
  PROVE  LET r == osTimerListInsert(k, task, timeout)
             timer == [task |-> task, wake |-> (k.ticks + timeout) % OS_TICKS]
         IN  /\ r = [k EXCEPT !.timerList = r.timerList,
                              !.flags[task] = k.flags[task] \cup {"TIMED"}]
             /\ timer \in TimerEntry
             /\ r.timerList \in Seq(TimerEntry)
             /\ ToSet(r.timerList) = ToSet(k.timerList) \cup {timer}
             /\ Injective(k.timerList) /\ timer \notin ToSet(k.timerList)
                  => Injective(r.timerList)
<1>. DEFINE list == k.timerList
            timer == [task |-> task, wake |-> (k.ticks + timeout) % OS_TICKS]
            I == {i \in 1 .. Len(list) : (list[i].wake - k.ticks) % OS_TICKS > timeout}
            i == SelectInSeq(list, LAMBDA it : (it.wake - k.ticks) % OS_TICKS > timeout)
            r == IF i = 0 THEN Append(list, timer) ELSE InsertAt(list, i, timer)
<1>1. i = IF I # {} THEN Min(I) ELSE 0
  BY DEF SelectInSeq
<1>2. list \in Seq(TimerEntry) /\ timer \in TimerEntry
  BY KernelAssumption DEF KernelState, TimerEntry, OsTick
<1>3. I # {} => Min(I) \in 1 .. Len(list)
  <2>1. I \in SUBSET (1 .. Len(list)) /\ Len(list) \in Nat
    BY <1>2
  <2>. QED BY <2>1, LeastIndex
<1>. HIDE DEF I
<1>4. i = 0 \/ (i # 0 /\ i \in 1 .. Len(list))
  BY <1>1, <1>3
<1>5. osTimerListInsert(k, task, timeout)
        = [k EXCEPT !.timerList = r, !.flags[task] = k.flags[task] \cup {"TIMED"}]
  BY DEF osTimerListInsert, KernelState
<1>. HIDE DEF i, list, timer
<1>6. /\ r \in Seq(TimerEntry)
      /\ ToSet(r) = ToSet(list) \cup {timer}
      /\ Injective(list) /\ timer \notin ToSet(list) => Injective(r)
  <2>1. CASE i = 0
    BY <1>2, <2>1, AppendSet
  <2>2. CASE i # 0 /\ i \in 1 .. Len(list)
    <3>1. /\ InsertAt(list, i, timer) \in Seq(TimerEntry)
          /\ ToSet(InsertAt(list, i, timer)) = ToSet(list) \cup {timer}
          /\ Injective(list) /\ timer \notin ToSet(list) => Injective(InsertAt(list, i, timer))
      BY <1>2, <2>2, InsertAtType, InsertAtSet
    <3>. QED BY <2>2, <3>1
  <2>. QED BY <1>4, <2>1, <2>2
<1>. HIDE DEF r
<1>7. osTimerListInsert(k, task, timeout).timerList = r
  BY <1>5 DEF KernelState
<1>. QED
  BY <1>2, <1>5, <1>6, <1>7 DEF list, timer

\* osTimerListRemove takes the timer of the task off osTimerList.
LEMMA TimerListRemove ==
  ASSUME NEW k \in KernelState, NEW task \in Thread,
         Injective(k.timerList),
         \A a, b \in ToSet(k.timerList) : a.task = b.task => a = b
  PROVE  LET r == osTimerListRemove(k, task)
         IN  /\ r = [k EXCEPT !.timerList = r.timerList]
             /\ r.timerList \in Seq(TimerEntry)
             /\ ToSet(r.timerList) = {a \in ToSet(k.timerList) : a.task # task}
             /\ Injective(r.timerList)
<1>. DEFINE list == k.timerList
            I == {i \in 1 .. Len(list) : list[i].task = task}
            i == SelectInSeq(list, LAMBDA it : it.task = task)
            r == IF i = 0 THEN list ELSE RemoveAt(list, i)
<1>1. i = IF I # {} THEN Min(I) ELSE 0
  BY DEF SelectInSeq
<1>2. list \in Seq(TimerEntry)
  BY DEF KernelState, TimerEntry
<1>3. osTimerListRemove(k, task) = [k EXCEPT !.timerList = r]
  BY DEF osTimerListRemove, KernelState
<1>4. osTimerListRemove(k, task).timerList = r
  BY <1>3 DEF KernelState
<1>5. \A x : x \in ToSet(list) <=> \E j \in 1 .. Len(list) : list[j] = x
  BY <1>2, InToSet
<1>6. /\ r \in Seq(TimerEntry)
      /\ ToSet(r) = {a \in ToSet(list) : a.task # task}
      /\ Injective(r)
  <2>1. CASE I = {}
    <3>1. r = list
      BY <1>1, <2>1
    <3>2. \A a \in ToSet(list) : a.task # task
      BY <1>5, <2>1
    <3>. QED BY <1>2, <3>1, <3>2
  <2>2. CASE I # {}
    <3>1. I \in SUBSET (1 .. Len(list)) /\ Len(list) \in Nat
      BY <1>2
    <3>2. Min(I) \in I
      BY <2>2, <3>1, LeastIndex
    <3>3. i \in 1 .. Len(list) /\ list[i].task = task /\ i # 0
      <4>1. i = Min(I)
        BY <1>1, <2>2
      <4>2. Min(I) \in 1 .. Len(list) /\ list[Min(I)].task = task
        BY <3>2
      <4>3. Min(I) # 0
        BY <4>2
      <4>. QED BY <4>1, <4>2, <4>3
    <3>4. list[i] \in ToSet(list)
      BY <1>5, <3>3
    <3>. HIDE DEF i, I
    <3>5. /\ RemoveAt(list, i) \in Seq(TimerEntry)
          /\ ToSet(RemoveAt(list, i)) = ToSet(list) \ {list[i]}
          /\ Injective(RemoveAt(list, i))
      BY <1>2, <3>3, RemoveAtType, RemoveAtSet
    <3>6. \A a \in ToSet(list) : a.task = task <=> a = list[i]
      BY <3>3, <3>4
    <3>. QED BY <3>3, <3>5, <3>6
  <2>. QED BY <2>1, <2>2
<1>. QED
  BY <1>3, <1>4, <1>6

----------------------------------------------------------------------------
(***************************************************************************)
(* The kernel.                                                             *)
(***************************************************************************)

\* The lists are ordered by priority.
Ordered(k) == Sorted(k, k.readyList) /\ \A o \in Object : Sorted(k, k.waiters[o])

Lists(k) ==
  /\ k \in KernelState
  /\ ReadyListExact(k) /\ TimerListExact(k) /\ WaitListsExact(k) /\ Ordered(k)

\* The invariant of the kernel between two calls.
KernelInv(k) == Lists(k) /\ CurrentExact(k) /\ k.state[osIdleTask] \in {"RUNNING", "READY"}

\* Somebody has to be dispatched, and the idle task can be.
Parting(k) ==
  Lists(k) /\ (\A t \in Thread : k.state[t] # "RUNNING") /\ k.state[osIdleTask] = "READY"

\* The lists agree with every task but t, which is on none of them.
Off(k, t) ==
  /\ k \in KernelState
  /\ ToSet(k.readyList) = {u \in Thread : k.state[u] = "READY"} \ {t}
  /\ Injective(k.readyList)
  /\ OnTimer(k) = {u \in Thread : "TIMED" \in k.flags[u]} \ {t}
  /\ Injective(k.timerList)
  /\ \A a, b \in ToSet(k.timerList) : a.task = b.task => a = b
  /\ \A u \in Thread \ {t} : k.flags[u] # {} => k.state[u] = "BLOCKED"
  /\ \A o \in Object : /\ ToSet(k.waiters[o]) = {u \in Thread : k.waitList[u] = o}
                       /\ Injective(k.waiters[o])
  /\ \A u \in Thread : k.waitList[u] # NULL => k.state[u] = "BLOCKED"
  /\ k.waitList[t] = NULL
  /\ Ordered(k)

\* Nobody is ready who is more important than the current task.
Top(k) == \A t \in ToSet(k.readyList) : k.priority[t] <= k.priority[k.current]

\* Nothing has been handed over: r is k as far as results and mutexes go, and
\* so are the priorities the application gave.
Kept(r, k) ==
  /\ r.result = k.result /\ r.owner = k.owner /\ r.mutexes = k.mutexes
  /\ r.basePriority = k.basePriority

\* The wait of the task, if it does wait, goes on, and neither does it start
\* to wait nor is it created or deleted.
Same(r, k, t) ==
  /\ r.result[t] = k.result[t] /\ r.waitList[t] = k.waitList[t] /\ r.mutexes[t] = k.mutexes[t]
  /\ r.state[t] = "BLOCKED" <=> k.state[t] = "BLOCKED"
  /\ r.state[t] = "DEAD" <=> k.state[t] = "DEAD"

\* So for everybody, and no mutex changes hands.
Unaffected(r, k) == r.owner = k.owner /\ \A t \in Thread : Same(r, k, t)

\* So for everybody else.
Only(r, k, t) ==
  /\ r.owner = k.owner
  /\ r.mutexes[t] \in {<< >>, k.mutexes[t]}
  /\ \A u \in Thread \ {t} : Same(r, k, u)

\* The task does not wait and has nothing to show for it if it did.
InVain(r, t) ==
  r.state[t] \notin {"BLOCKED", "DEAD"} /\ r.result[t] = FALSE /\ r.waitList[t] = NULL

\* And nobody else is affected.
Unavailing(r, k, t) == Only(r, k, t) /\ InVain(r, t) /\ r.mutexes[t] = k.mutexes[t]

\* Woken up with what it waited for.
Given(r, t) ==
  r.state[t] \notin {"BLOCKED", "DEAD"} /\ r.result[t] = TRUE /\ r.waitList[t] = NULL

\* Time has passed: some have waited in vain.
Expired(r, k) ==
  /\ r.owner = k.owner /\ r.mutexes = k.mutexes
  /\ \A t \in Thread : Same(r, k, t) \/ (k.state[t] = "BLOCKED" /\ InVain(r, t))

\* The wait of a task goes on or is over.
WaitEased(r, k, t) ==
  \/ r.waitList[t] = k.waitList[t] /\ ("MUTEX" \in r.flags[t] <=> "MUTEX" \in k.flags[t])
  \/ r.waitList[t] = NULL /\ "MUTEX" \notin r.flags[t]

\* So for everybody, and nobody gets another priority.
Eased(r, k) ==
  /\ r.priority = k.priority /\ r.basePriority = k.basePriority
  /\ \A t \in Thread : WaitEased(r, k, t)

\* The task has settled and waits, nobody else gets another priority.
Settled(r, k, t) ==
  /\ r.priority = osSettle(k, t).priority /\ r.basePriority = k.basePriority
  /\ "MUTEX" \in r.flags[t] <=> "MUTEX" \in k.flags[t]
  /\ \A u \in Thread \ {t} : WaitEased(r, k, u)

\* Nobody is below the priority it was given.
Based(r) == \A t \in Thread : r.basePriority[t] <= r.priority[t]

\* Whoever waits for a mutex waits for somebody at least as important.
Hurried(r) ==
  OS_CFG_MUTEX_INHERITANCE =>
    \A m \in Mutex, w \in Thread :
      r.waitList[w] = m => r.owner[m] \in Thread /\ r.priority[w] <= r.priority[r.owner[m]]

\* The flag osPriorityRaise goes by.
Flagged(r) ==
  OS_CFG_MUTEX_INHERITANCE =>
    \A t \in Thread : "MUTEX" \in r.flags[t] <=> r.waitList[t] \in Mutex

Urgent(r) == Based(r) /\ Hurried(r) /\ Flagged(r)

\* The mutexes on the list of a task are those it owns.
Listed(r) ==
  OS_CFG_MUTEX_INHERITANCE =>
    \A m \in Mutex, t \in Thread : m \in ToSet(r.mutexes[t]) <=> r.owner[m] = t

Fine(r) == Urgent(r) /\ Listed(r)

\* The wait lists have those who wait, in order.
Queued(k) ==
  /\ k \in KernelState
  /\ \A o \in Object : /\ ToSet(k.waiters[o]) = {t \in Thread : k.waitList[t] = o}
                       /\ Sorted(k, k.waiters[o])

\* r is k but for the priority of t, which may be what it has inherited.
Lowered(r, k, t) ==
  /\ Kept(r, k) /\ r.flags = k.flags /\ r.waitList = k.waitList
  /\ \/ r.priority = k.priority
     \/ r.priority = [k.priority EXCEPT ![t] = osInheritedPriority(k, t)]

LEMMA EasedTwice ==
  ASSUME NEW k, NEW r, NEW s, Eased(s, r), Eased(r, k)
  PROVE  Eased(s, k)
BY DEF Eased, WaitEased

LEMMA Transitive ==
  ASSUME NEW k, NEW r, NEW s, Unaffected(s, r)
  PROVE  /\ Unaffected(r, k) => Unaffected(s, k)
         /\ \A t \in Thread : /\ Only(r, k, t) => Only(s, k, t)
                              /\ InVain(r, t) => InVain(s, t)
BY DEF Unaffected, Only, InVain, Same

USE DEF Kept

----------------------------------------------------------------------------
\* One turn of a counter more or less.
LEMMA ModTurn ==
  ASSUME NEW M \in Nat \ {0}, NEW x \in 0 .. M - 1
  PROVE  x % M = x /\ (x - M) % M = x /\ (x + M) % M = x
<1>1. x % M = x
  OBVIOUS
<1>2. (x - M) % M = x
  OBVIOUS
<1>3. (x + M) % M = x
  OBVIOUS
<1>. QED BY <1>1, <1>2, <1>3

LEMMA MaxType ==
  ASSUME NEW S \in SUBSET Priority, S # {}
  PROVE  Max(S) \in S /\ \A p \in S : Max(S) >= p
<1>. DEFINE N == {MainPriority - p : p \in S}
<1>1. MainPriority \in Nat
  BY KernelAssumption DEF MainPriority
<1>2. N \in SUBSET Nat /\ N # {}
  <2>1. \A p \in S : MainPriority - p \in Nat
    BY <1>1 DEF Priority
  <2>. QED BY <2>1
<1>3. PICK n \in N : \A i \in N : n <= i
  BY <1>2, MinIsLeast
<1>4. PICK x \in S : n = MainPriority - x
  BY <1>3
<1>5. \A p \in S : x >= p
  BY <1>1, <1>3, <1>4 DEF Priority
<1>. QED
  BY <1>5 DEF Max

\* osInheritedPriority is a priority.
LEMMA InheritedType ==
  ASSUME NEW k \in KernelState, NEW task \in Thread
  PROVE  osInheritedPriority(k, task) \in Priority
<1>. DEFINE owned == {m \in ToSet(k.mutexes[task]) : k.waiters[m] # << >>}
            first == {k.priority[Head(k.waiters[m])] : m \in owned}
            S == {k.basePriority[task]} \cup
                   IF OS_CFG_MUTEX_INHERITANCE THEN first ELSE {}
<1>1. ASSUME NEW m \in owned
      PROVE  k.priority[Head(k.waiters[m])] \in Priority
  <2>1. m \in Mutex /\ m \in Object
    BY KernelAssumption DEF KernelState, ToSet
  <2>2. k.waiters[m] \in Seq(Thread) /\ k.waiters[m] # << >>
    BY <2>1 DEF KernelState
  <2>3. Head(k.waiters[m]) \in Thread
    BY <2>2
  <2>. QED BY <2>3 DEF KernelState
<1>2. k.basePriority[task] \in Priority
  BY DEF KernelState
<1>3. S \in SUBSET Priority /\ S # {}
  BY <1>1, <1>2
<1>. QED
  BY <1>3, MaxType DEF osInheritedPriority

LEMMA HeadTail ==
  ASSUME NEW S, NEW s \in Seq(S), s # << >>, Injective(s)
  PROVE  /\ Head(s) \in S /\ Head(s) \in ToSet(s)
         /\ Tail(s) \in Seq(S)
         /\ ToSet(Tail(s)) = ToSet(s) \ {Head(s)}
         /\ Injective(Tail(s))
<1>1. /\ Head(s) = s[1] /\ Tail(s) \in Seq(S)
      /\ Len(s) \in Nat \ {0} /\ Len(Tail(s)) = Len(s) - 1
      /\ \A j \in 1 .. Len(s) - 1 : Tail(s)[j] = s[j + 1]
  OBVIOUS
<1>2. \A x : x \in ToSet(s) <=> Holds(s, Len(s), x)
  BY InToSet DEF Holds
<1>3. \A x : x \in ToSet(Tail(s)) <=> Holds(Tail(s), Len(s) - 1, x)
  <2>1. \A x : x \in ToSet(Tail(s)) <=> Holds(Tail(s), Len(Tail(s)), x)
    BY <1>1, InToSet DEF Holds
  <2>. QED BY <1>1, <2>1
<1>. DEFINE r == Tail(s)
            n == Len(s)
            h == Head(s)
<1>. HIDE DEF r, n, h
<1>4. IsRemoved(r, s, n, 1)
  BY <1>1 DEF IsRemoved, Injective, Differ, r, n
<1>5. 1 \in 1 .. n /\ n \in Nat
  BY <1>1 DEF n
<1>6. (\A x : Holds(r, n - 1, x) <=> x # s[1] /\ Holds(s, n, x)) /\ Differ(r, n - 1)
  BY <1>4, <1>5, Removed
<1>7. ToSet(r) = ToSet(s) \ {h} /\ Injective(r)
  BY <1>1, <1>2, <1>3, <1>6 DEF Injective, Differ, h, n, r
<1>8. s[1] \in S /\ s[1] \in ToSet(s)
  BY <1>1, InToSet
<1>. QED
  BY <1>1, <1>7, <1>8 DEF r, h

LEMMA OrderedSame ==
  ASSUME NEW k \in KernelState, Ordered(k), NEW r, r.readyList = k.readyList, r.waiters = k.waiters,
         \A t \in Thread : \/ r.priority[t] = k.priority[t]
                           \/ /\ t \notin ToSet(k.readyList)
                              /\ \A o \in Object : t \notin ToSet(k.waiters[o])
  PROVE  Ordered(r)
<1>1. k.readyList \in Seq(Thread) /\ \A o \in Object : k.waiters[o] \in Seq(Thread)
  BY DEF KernelState
<1>2. \A list \in Seq(Thread) : \A t \in ToSet(list) : t \in Thread
  BY DEF ToSet
<1>3. Sorted(r, r.readyList)
  BY <1>1, <1>2, SortedSame DEF Ordered
<1>4. ASSUME NEW o \in Object PROVE Sorted(r, r.waiters[o])
  BY <1>1, <1>2, SortedSame DEF Ordered
<1>. QED
  BY <1>3, <1>4 DEF Ordered

\* The lists stay what they are, as long as only tasks on none of them get
\* another priority.
LEMMA Unmoved ==
  ASSUME NEW k, Lists(k), NEW r \in KernelState,
         r.state = k.state, r.flags = k.flags, r.waitList = k.waitList,
         r.timerList = k.timerList, r.readyList = k.readyList, r.waiters = k.waiters,
         \A t \in Thread : r.priority[t] = k.priority[t] \/ k.state[t] \notin {"READY", "BLOCKED"}
  PROVE  Lists(r)
<1>1. ReadyListExact(r) /\ TimerListExact(r) /\ WaitListsExact(r)
  BY DEF Lists, ReadyListExact, TimerListExact, WaitListsExact, OnTimer
<1>2. ASSUME NEW t \in Thread, k.state[t] \notin {"READY", "BLOCKED"}
      PROVE  t \notin ToSet(k.readyList) /\ \A o \in Object : t \notin ToSet(k.waiters[o])
  BY <1>2, KernelAssumption DEF Lists, ReadyListExact, WaitListsExact
<1>3. Ordered(r)
  BY <1>2, OrderedSame DEF Lists
<1>. QED
  BY <1>1, <1>3 DEF Lists

----------------------------------------------------------------------------
\* The steps of the functions.

\* The state and the flags of a task which is off the lists can be set.
LEMMA SetStateOff ==
  ASSUME NEW k, NEW t \in Thread, Off(k, t), NEW s \in TaskState \ {"READY"}
  PROVE  Lists(SetState(k, t, s))
<1>. DEFINE r == SetState(k, t, s)
<1>1. /\ r \in KernelState
      /\ r.state = [k.state EXCEPT ![t] = s]
      /\ r.flags = [k.flags EXCEPT ![t] = {}]
      /\ r.readyList = k.readyList /\ r.timerList = k.timerList
      /\ r.waitList = k.waitList /\ r.waiters = k.waiters /\ r.priority = k.priority
  BY DEF SetState, KernelState, Off
<1>2. k.state \in [Thread -> TaskState] /\ k.flags \in [Thread -> SUBSET Flag]
  BY DEF Off, KernelState
<1>. HIDE DEF r
<1>3. ReadyListExact(r)
  BY <1>1, <1>2 DEF ReadyListExact, Off
<1>4. TimerListExact(r)
  BY <1>1, <1>2 DEF TimerListExact, OnTimer, Off
<1>5. WaitListsExact(r)
  BY <1>1, <1>2 DEF WaitListsExact, Off
<1>6. Ordered(r)
  BY <1>1, OrderedSame DEF Off
<1>. QED
  BY <1>1, <1>3, <1>4, <1>5, <1>6 DEF Lists, r

\* Behind or in front of its equals.
Keys(k, t) == {k.priority[t], k.priority[t] + 1}

\* osReady makes it a ready task.
LEMMA Ready ==
  ASSUME NEW k, NEW t \in Thread, Off(k, t), NEW p, p.priority = k.priority,
         NEW key \in Keys(k, t)
  PROVE  LET r == [SetState(k, t, "READY") EXCEPT !.readyList = osListInsert(p, @, t, key)]
         IN  Lists(r) /\ r.state = [k.state EXCEPT ![t] = "READY"]
<1>. DEFINE list == osListInsert(p, k.readyList, t, key)
            r == [SetState(k, t, "READY") EXCEPT !.readyList = list]
<1>0. SetState(k, t, "READY").readyList = k.readyList
  BY DEF SetState, Off, KernelState
<1>1. list \in Seq(Thread) /\ ToSet(list) = ToSet(k.readyList) \cup {t} /\ Injective(list)
  <2>1. k.readyList \in Seq(Thread) /\ t \notin ToSet(k.readyList) /\ Injective(k.readyList)
    BY DEF Off, KernelState
  <2>. HIDE DEF list
  <2>2. LET q == osListInsert(p, k.readyList, t, key)
        IN  /\ q \in Seq(Thread)
            /\ ToSet(q) = ToSet(k.readyList) \cup {t}
            /\ Injective(k.readyList) /\ t \notin ToSet(k.readyList) => Injective(q)
    BY <2>1, ListInsert
  <2>. QED BY <2>1, <2>2 DEF list
<1>7. Sorted(k, list)
  <2>1. k \in KernelState /\ k.readyList \in Seq(Thread) /\ Sorted(k, k.readyList)
    BY DEF Off, Ordered, KernelState
  <2>. QED BY <2>1, InsertSorted DEF Keys
<1>. HIDE DEF list
<1>2. /\ r \in KernelState
      /\ r.state = [k.state EXCEPT ![t] = "READY"]
      /\ r.flags = [k.flags EXCEPT ![t] = {}]
      /\ r.readyList = list /\ r.timerList = k.timerList
      /\ r.waitList = k.waitList /\ r.waiters = k.waiters /\ r.priority = k.priority
  BY <1>1 DEF SetState, KernelState, Off, TaskState
<1>3. k.state \in [Thread -> TaskState] /\ k.flags \in [Thread -> SUBSET Flag]
  BY DEF Off, KernelState
<1>. HIDE DEF r
<1>4. ReadyListExact(r)
  BY <1>1, <1>2, <1>3 DEF ReadyListExact, Off
<1>5. TimerListExact(r)
  BY <1>2, <1>3 DEF TimerListExact, OnTimer, Off
<1>6. WaitListsExact(r)
  BY <1>2, <1>3 DEF WaitListsExact, Off
<1>8. Ordered(r)
  BY <1>2, <1>7 DEF Ordered, Sorted, Off
<1>. QED
  BY <1>0, <1>2, <1>4, <1>5, <1>6, <1>8 DEF Lists, r, list

\* A task that is on no list anyway.
LEMMA NotListed ==
  ASSUME NEW k, NEW t \in Thread, Lists(k), k.state[t] \notin {"READY", "BLOCKED"}
  PROVE  Off(k, t)
<1>1. k.flags[t] = {} /\ k.waitList[t] = NULL
  BY DEF Lists, TimerListExact, WaitListsExact
<1>. QED
  BY <1>1 DEF Lists, Off, ReadyListExact, TimerListExact, WaitListsExact

\* osDispatch has somebody to dispatch and makes it the only running task.
LEMMA Dispatch ==
  ASSUME NEW k, Parting(k)
  PROVE  /\ KernelInv(osDispatch(k)) /\ Top(osDispatch(k))
         /\ Kept(osDispatch(k), k) /\ Unaffected(osDispatch(k), k) /\ Eased(osDispatch(k), k)
         /\ \A t \in Thread : k.state[t] # "READY" =>
              osDispatch(k).state[t] = k.state[t] /\ osDispatch(k).flags[t] = k.flags[t]
<1>. DEFINE h == Head(k.readyList)
            r == osDispatch(k)
<1>0. k.state \in [Thread -> TaskState] /\ k.flags \in [Thread -> SUBSET Flag] /\ k \in KernelState
  BY DEF Parting, Lists, KernelState
<1>1. osIdleTask \in ToSet(k.readyList) /\ k.readyList \in Seq(Thread) /\ Injective(k.readyList)
  BY DEF Parting, Lists, ReadyListExact, Thread, KernelState
<1>2. k.readyList # << >>
  BY <1>1 DEF ToSet
<1>3. /\ h \in Thread /\ h \in ToSet(k.readyList)
      /\ Tail(k.readyList) \in Seq(Thread)
      /\ ToSet(Tail(k.readyList)) = ToSet(k.readyList) \ {h}
      /\ Injective(Tail(k.readyList))
  BY <1>1, <1>2, HeadTail
<1>12. Sorted(k, Tail(k.readyList)) /\ \A t \in ToSet(k.readyList) : k.priority[t] <= k.priority[h]
  BY <1>0, <1>1, <1>2, TailSorted DEF Parting, Lists, Ordered
<1>4. k.state[h] = "READY" /\ k.flags[h] = {} /\ k.waitList[h] = NULL
  BY <1>3 DEF Parting, Lists, ReadyListExact, TimerListExact, WaitListsExact
<1>. HIDE DEF h
<1>5. /\ r \in KernelState
      /\ r.current = h
      /\ r.state = [k.state EXCEPT ![h] = "RUNNING"]
      /\ r.flags = [k.flags EXCEPT ![h] = {}]
      /\ r.readyList = Tail(k.readyList) /\ r.timerList = k.timerList
      /\ r.waitList = k.waitList /\ r.waiters = k.waiters /\ Kept(r, k)
      /\ r.priority = k.priority
  BY <1>0, <1>3 DEF osDispatch, SetState, KernelState, TaskState, h
<1>. HIDE DEF r
<1>6. ReadyListExact(r)
  BY <1>0, <1>3, <1>4, <1>5 DEF ReadyListExact, Parting, Lists
<1>7. TimerListExact(r)
  <2>1. \A u \in Thread : r.flags[u] = k.flags[u] /\ (k.flags[u] # {} => r.state[u] = k.state[u])
    BY <1>0, <1>3, <1>4, <1>5
  <2>. QED BY <1>0, <1>3, <1>4, <1>5, <2>1 DEF TimerListExact, OnTimer, Parting, Lists
<1>8. WaitListsExact(r)
  BY <1>0, <1>3, <1>4, <1>5 DEF WaitListsExact, Parting, Lists
<1>9. CurrentExact(r)
  BY <1>0, <1>3, <1>5 DEF CurrentExact, Parting
<1>10. r.state[osIdleTask] \in {"RUNNING", "READY"}
  BY <1>0, <1>5 DEF Parting, Thread
<1>11. Unaffected(r, k)
  BY <1>0, <1>3, <1>4, <1>5 DEF Unaffected, Same
<1>13. Ordered(r)
  BY <1>5, <1>12 DEF Ordered, Sorted, Parting, Lists
<1>14. Top(r)
  BY <1>3, <1>5, <1>12 DEF Top
<1>15. Eased(r, k)
  BY <1>0, <1>3, <1>4, <1>5 DEF Eased, WaitEased
<1>. QED
  BY <1>0, <1>4, <1>5, <1>6, <1>7, <1>8, <1>9, <1>10, <1>11, <1>13, <1>14, <1>15
     DEF KernelInv, Lists, r

\* osUnblock takes a task that is not ready off all the lists.
LEMMA Unblock ==
  ASSUME NEW k, NEW t \in Thread, Lists(k), k.state[t] # "READY"
  PROVE  LET r == osUnblock(k, t)
         IN  /\ Off(r, t)
             /\ r.state = k.state /\ r.current = k.current /\ Kept(r, k)
             /\ r.priority = k.priority /\ r.flags = k.flags
             /\ r.waitList = [k.waitList EXCEPT ![t] = NULL]
             /\ \A a \in ToSet(k.timerList) : a.task # t => a \in ToSet(r.timerList)
<1>. DEFINE list == k.waitList[t]
            off == IF list = NULL THEN k
                   ELSE [k EXCEPT !.waiters[list] = osListRemove(k.waiters[list], t),
                                  !.waitList[t] = NULL]
            timed == "TIMED" \in k.flags[t]
            r == IF timed THEN osTimerListRemove(off, t) ELSE off
<1>0. /\ k \in KernelState /\ k.waitList \in [Thread -> Object \cup {NULL}]
      /\ k.waiters \in [Object -> Seq(Thread)] /\ NULL \notin Object
  BY KernelAssumption DEF Lists, KernelState
<1>1. /\ off \in KernelState /\ off.state = k.state /\ off.current = k.current
      /\ Kept(off, k) /\ off.flags = k.flags
      /\ off.readyList = k.readyList /\ off.timerList = k.timerList
      /\ off.waitList = [k.waitList EXCEPT ![t] = NULL]
      /\ \A o \in Object : /\ ToSet(off.waiters[o]) = {u \in Thread : off.waitList[u] = o}
                           /\ Injective(off.waiters[o])
      /\ Ordered(off) /\ off.priority = k.priority
  <2>1. CASE list = NULL
    <3>1. off = k
      BY <2>1
    <3>2. k.waitList = [k.waitList EXCEPT ![t] = NULL]
      BY <1>0, <2>1
    <3>. HIDE DEF off
    <3>. QED BY <1>0, <3>1, <3>2 DEF Lists, WaitListsExact
  <2>2. CASE list # NULL
    <3>1. list \in Object
      BY <1>0, <2>2
    <3>. DEFINE w == osListRemove(k.waiters[list], t)
    <3>2. /\ w \in Seq(Thread) /\ ToSet(w) = ToSet(k.waiters[list]) \ {t} /\ Injective(w)
          /\ Sorted(k, w)
      <4>1. /\ k.waiters[list] \in Seq(Thread) /\ Injective(k.waiters[list])
            /\ Sorted(k, k.waiters[list])
        BY <1>0, <3>1 DEF Lists, WaitListsExact, Ordered
      <4>. QED BY <4>1, ListRemove, RemoveSorted
    <3>3. off = [k EXCEPT !.waiters[list] = w, !.waitList[t] = NULL]
      BY <2>2
    <3>. HIDE DEF w, off, list
    <3>4. /\ off \in KernelState /\ off.state = k.state /\ off.current = k.current
          /\ Kept(off, k) /\ off.flags = k.flags
          /\ off.readyList = k.readyList /\ off.timerList = k.timerList
          /\ off.waitList = [k.waitList EXCEPT ![t] = NULL]
          /\ off.waiters = [k.waiters EXCEPT ![list] = w] /\ off.priority = k.priority
      BY <1>0, <3>1, <3>2, <3>3 DEF KernelState
    <3>5. ASSUME NEW o \in Object
          PROVE  /\ ToSet(off.waiters[o]) = {u \in Thread : off.waitList[u] = o}
                 /\ Injective(off.waiters[o])
      <4>1. ToSet(k.waiters[o]) = {u \in Thread : k.waitList[u] = o} /\ Injective(k.waiters[o])
        BY DEF Lists, WaitListsExact
      <4>2. k.waitList[t] = list
        BY DEF list
      <4>3. {u \in Thread : off.waitList[u] = o} = {u \in Thread : k.waitList[u] = o} \ {t}
        BY <1>0, <3>4
      <4>4. ToSet(off.waiters[o]) = {u \in Thread : k.waitList[u] = o} \ {t} /\ Injective(off.waiters[o])
        BY <1>0, <3>1, <3>2, <3>4, <4>1, <4>2
      <4>. QED BY <4>3, <4>4
    <3>6. Ordered(off)
      BY <1>0, <3>1, <3>2, <3>4 DEF Ordered, Sorted, Lists
    <3>. QED BY <3>4, <3>5, <3>6
  <2>. QED BY <2>1, <2>2
<1>. HIDE DEF off
<1>2. /\ r \in KernelState /\ r.state = k.state /\ r.current = k.current
      /\ Kept(r, k) /\ r.flags = k.flags /\ r.readyList = k.readyList
      /\ r.waitList = off.waitList /\ r.waiters = off.waiters /\ r.priority = off.priority
      /\ ToSet(r.timerList) = {a \in ToSet(k.timerList) : a.task # t}
      /\ Injective(r.timerList)
  <2>0. Injective(off.timerList) /\ \A a, b \in ToSet(off.timerList) : a.task = b.task => a = b
    BY <1>1 DEF Lists, TimerListExact
  <2>1. CASE timed
    <3>. DEFINE l == osTimerListRemove(off, t).timerList
    <3>1. /\ r = [off EXCEPT !.timerList = l] /\ l \in Seq(TimerEntry)
          /\ ToSet(l) = {a \in ToSet(off.timerList) : a.task # t} /\ Injective(l)
      BY <1>1, <2>0, <2>1, TimerListRemove
    <3>. HIDE DEF l, r
    <3>. QED BY <1>1, <3>1 DEF KernelState, TimerEntry
  <2>2. CASE ~timed
    <3>1. r = off
      BY <2>2
    <3>2. t \notin OnTimer(k)
      BY <2>2 DEF Lists, TimerListExact
    <3>3. \A a \in ToSet(k.timerList) : a.task # t
      BY <3>2 DEF OnTimer
    <3>. QED BY <1>1, <2>0, <3>1, <3>3
  <2>. QED BY <2>1, <2>2
<1>3. r = osUnblock(k, t)
  BY DEF osUnblock, off
<1>. HIDE DEF r, timed, list
<1>4. OnTimer(r) = {u \in Thread : "TIMED" \in r.flags[u]} \ {t}
  <2>1. OnTimer(k) = {u \in Thread : "TIMED" \in k.flags[u]}
    BY DEF Lists, TimerListExact
  <2>. QED BY <1>2, <2>1 DEF OnTimer
<1>5. /\ r.waitList[t] = NULL
      /\ \A u \in Thread : r.waitList[u] # NULL => r.state[u] = "BLOCKED"
  BY <1>0, <1>1, <1>2 DEF Lists, WaitListsExact
<1>6. ToSet(r.readyList) = {u \in Thread : r.state[u] = "READY"} \ {t} /\ Injective(r.readyList)
  BY <1>2 DEF Lists, ReadyListExact
<1>7. /\ \A a, b \in ToSet(r.timerList) : a.task = b.task => a = b
      /\ \A u \in Thread \ {t} : r.flags[u] # {} => r.state[u] = "BLOCKED"
  BY <1>2 DEF Lists, TimerListExact
<1>9. Ordered(r)
  BY <1>1, <1>2, OrderedSame
<1>8. Off(r, t)
  BY <1>1, <1>2, <1>4, <1>5, <1>6, <1>7, <1>9 DEF Off
<1>. QED
  BY <1>1, <1>2, <1>3, <1>8

\* So does osTaskDetach, whatever state the task is in.
LEMMA Detach ==
  ASSUME NEW k, NEW t \in Thread, Lists(k)
  PROVE  LET r == osTaskDetach(k, t)
         IN  /\ Off(r, t)
             /\ r.state = k.state /\ r.current = k.current /\ Kept(r, k)
             /\ r.priority = k.priority /\ r.flags = k.flags
             /\ r.waitList = [k.waitList EXCEPT ![t] = NULL]
<1>1. CASE k.state[t] = "READY"
  <2>. DEFINE l == osListRemove(k.readyList, t)
              r == [k EXCEPT !.readyList = l]
  <2>1. l \in Seq(Thread) /\ ToSet(l) = ToSet(k.readyList) \ {t} /\ Injective(l) /\ Sorted(k, l)
    <3>1. k.readyList \in Seq(Thread) /\ Injective(k.readyList) /\ Sorted(k, k.readyList)
      BY DEF Lists, ReadyListExact, KernelState, Ordered
    <3>. QED BY <3>1, ListRemove, RemoveSorted
  <2>. HIDE DEF l
  <2>2. /\ r \in KernelState /\ r.state = k.state /\ r.current = k.current /\ r.priority = k.priority
        /\ Kept(r, k) /\ r.flags = k.flags /\ r.readyList = l
        /\ r.waitList = k.waitList /\ r.waiters = k.waiters /\ r.timerList = k.timerList
    BY <2>1 DEF Lists, KernelState
  <2>3. k.flags[t] = {} /\ k.waitList[t] = NULL
    BY <1>1 DEF Lists, TimerListExact, WaitListsExact
  <2>4. osTaskDetach(k, t) = r
    BY <1>1 DEF osTaskDetach, l
  <2>. HIDE DEF r
  <2>7. Ordered(r)
    BY <2>1, <2>2 DEF Ordered, Sorted, Lists
  <2>5. Off(r, t)
    BY <2>1, <2>2, <2>3, <2>7
       DEF Off, Lists, ReadyListExact, TimerListExact, WaitListsExact, OnTimer
  <2>6. k.waitList = [k.waitList EXCEPT ![t] = NULL]
    BY <2>3 DEF Lists, KernelState
  <2>. QED BY <2>2, <2>4, <2>5, <2>6
<1>2. CASE k.state[t] # "READY"
  BY <1>2, Unblock DEF osTaskDetach
<1>. QED
  BY <1>1, <1>2

\* osWake makes a blocked task a ready one.
LEMMA Wake ==
  ASSUME NEW k, NEW t \in Thread, Lists(k), k.state[t] # "READY", NEW result \in BOOLEAN
  PROVE  LET r == osWake(k, t, result)
         IN  /\ Lists(r)
             /\ r.state = [k.state EXCEPT ![t] = "READY"]
             /\ r.current = k.current /\ r.owner = k.owner /\ r.mutexes = k.mutexes
             /\ r.result = [k.result EXCEPT ![t] = result]
             /\ r.waitList = [k.waitList EXCEPT ![t] = NULL]
             /\ \A a \in ToSet(k.timerList) : a.task # t => a \in ToSet(r.timerList)
             /\ Eased(r, k)
<1>. DEFINE s == [k EXCEPT !.result[t] = result]
            u == osUnblock(s, t)
            r == osReady(u, t)
<1>1. /\ s \in KernelState /\ s.state = k.state /\ s.current = k.current
      /\ s.owner = k.owner /\ s.mutexes = k.mutexes
      /\ s.result = [k.result EXCEPT ![t] = result]
      /\ s.flags = k.flags /\ s.readyList = k.readyList
      /\ s.waitList = k.waitList /\ s.waiters = k.waiters /\ s.timerList = k.timerList
      /\ s.priority = k.priority /\ s.basePriority = k.basePriority
  BY DEF Lists, KernelState
<1>. HIDE DEF s
<1>2. Lists(s)
  BY <1>1, Unmoved
<1>3. /\ Off(u, t)
      /\ u.state = k.state /\ u.current = k.current /\ Kept(u, s)
      /\ u.waitList = [k.waitList EXCEPT ![t] = NULL]
      /\ \A a \in ToSet(k.timerList) : a.task # t => a \in ToSet(u.timerList)
      /\ u.priority = k.priority /\ u.flags = k.flags
  BY <1>1, <1>2, Unblock
<1>. HIDE DEF u
<1>4. Lists(r) /\ r.state = [u.state EXCEPT ![t] = "READY"]
  <2>1. Off(u, t)
    BY <1>3
  <2>. QED BY <2>1, Ready DEF osReady, Keys
<1>5. /\ r.current = u.current /\ Kept(r, u) /\ r.waitList = u.waitList
      /\ r.timerList = u.timerList /\ r.priority = u.priority
      /\ r.flags = [u.flags EXCEPT ![t] = {}]
  <2>1. u \in KernelState
    BY <1>3 DEF Off
  <2>. QED BY <2>1 DEF osReady, SetState, KernelState
<1>6. osWake(k, t, result) = r
  BY DEF osWake, u, s
<1>. HIDE DEF r
<1>7. Eased(r, k)
  <2>1. k.flags \in [Thread -> SUBSET Flag] /\ k.waitList \in [Thread -> Object \cup {NULL}]
    BY DEF Lists, KernelState
  <2>2. /\ r.waitList = [k.waitList EXCEPT ![t] = NULL] /\ r.flags = [k.flags EXCEPT ![t] = {}]
        /\ r.priority = k.priority /\ r.basePriority = k.basePriority
    BY <1>1, <1>3, <1>5
  <2>. QED BY <2>1, <2>2 DEF Eased, WaitEased
<1>. QED
  BY <1>1, <1>3, <1>4, <1>5, <1>6, <1>7

----------------------------------------------------------------------------
\* Priorities.

\* The lists may change their order, the tasks on them stay.
LEMMA Permuted ==
  ASSUME NEW k, Lists(k), NEW r \in KernelState,
         r.state = k.state, r.flags = k.flags, r.waitList = k.waitList,
         r.timerList = k.timerList,
         ToSet(r.readyList) = ToSet(k.readyList), Injective(r.readyList),
         \A o \in Object : ToSet(r.waiters[o]) = ToSet(k.waiters[o]) /\ Injective(r.waiters[o]),
         Ordered(r)
  PROVE  Lists(r)
BY DEF Lists, ReadyListExact, TimerListExact, WaitListsExact, OnTimer

\* r is k but for priorities and the order of its lists.
Reordered(r, k) ==
  /\ Lists(r)
  /\ r.state = k.state /\ r.current = k.current /\ r.flags = k.flags
  /\ r.waitList = k.waitList /\ Kept(r, k)

\* Setting the priority of a task on no list, which osSettle does.
LEMMA SetPriority ==
  ASSUME NEW k, Lists(k), NEW t \in Thread, k.state[t] \notin {"READY", "BLOCKED"},
         NEW p \in Priority
  PROVE  Reordered([k EXCEPT !.priority[t] = p], k)
<1>. DEFINE r == [k EXCEPT !.priority[t] = p]
<1>1. /\ r \in KernelState /\ r.state = k.state /\ r.current = k.current
      /\ Kept(r, k) /\ r.flags = k.flags /\ r.readyList = k.readyList
      /\ r.waitList = k.waitList /\ r.waiters = k.waiters /\ r.timerList = k.timerList
      /\ \A u \in Thread \ {t} : r.priority[u] = k.priority[u]
  BY DEF Lists, KernelState
<1>. HIDE DEF r
<1>2. Lists(r)
  BY <1>1, Unmoved
<1>. QED
  BY <1>1, <1>2 DEF Reordered, r

LEMMA Settle ==
  ASSUME NEW k, Lists(k), NEW t \in Thread, k.state[t] \notin {"READY", "BLOCKED"}
  PROVE  /\ Reordered(osSettle(k, t), k) /\ Lowered(osSettle(k, t), k, t)
         /\ osSettle(k, t).readyList = k.readyList
<1>1. osInheritedPriority(k, t) \in Priority
  BY InheritedType DEF Lists
<1>2. Reordered(k, k)
  BY DEF Reordered
<1>3. k \in KernelState
  BY DEF Lists
<1>4. Lowered(osSettle(k, t), k, t) /\ osSettle(k, t).readyList = k.readyList
  BY <1>1, <1>3 DEF Lowered, osSettle, KernelState
<1>. QED
  BY <1>1, <1>2, <1>4, SetPriority DEF osSettle

\* Setting the priority of any task, which osRequeue then moves on its list.
LEMMA Requeue ==
  ASSUME NEW k, Lists(k), NEW t \in Thread, NEW p \in Priority
  PROVE  LET r == osRequeue([k EXCEPT !.priority[t] = p], t)
         IN  Reordered(r, k) /\ r.priority = [k.priority EXCEPT ![t] = p]
<1>. DEFINE s == [k EXCEPT !.priority[t] = p]
<1>0. /\ k \in KernelState /\ NULL \notin Object
      /\ k.readyList \in Seq(Thread) /\ Injective(k.readyList)
      /\ k.waiters \in [Object -> Seq(Thread)]
      /\ \A o \in Object : Injective(k.waiters[o])
      /\ Sorted(k, k.readyList) /\ \A o \in Object : Sorted(k, k.waiters[o])
  BY KernelAssumption DEF Lists, KernelState, ReadyListExact, WaitListsExact, Ordered
<1>4. /\ s \in KernelState /\ s.state = k.state /\ s.current = k.current
      /\ Kept(s, k) /\ s.flags = k.flags /\ s.readyList = k.readyList
      /\ s.waitList = k.waitList /\ s.waiters = k.waiters /\ s.timerList = k.timerList
      /\ s.priority = [k.priority EXCEPT ![t] = p]
      /\ \A u \in Thread \ {t} : s.priority[u] = k.priority[u]
  BY DEF Lists, KernelState
<1>. HIDE DEF s
<1>5. \A list \in Seq(Thread) : \A u \in ToSet(list) : u \in Thread
  BY DEF ToSet
<1>6. ASSUME NEW list \in Seq(Thread), Sorted(k, list), t \notin ToSet(list)
      PROVE  Sorted(s, list)
  <2>1. \A u \in ToSet(list) : s.priority[u] = k.priority[u]
    BY <1>4, <1>5, <1>6
  <2>. QED BY <1>6, <2>1, SortedSame
<1>7. ASSUME NEW list \in Seq(Thread), Sorted(k, list), Injective(list), t \in ToSet(list)
      PROVE  /\ Moved(s, list, t) \in Seq(Thread) /\ ToSet(Moved(s, list, t)) = ToSet(list)
             /\ Injective(Moved(s, list, t)) /\ Sorted(s, Moved(s, list, t))
  <2>1. \A u \in ToSet(list) \ {t} : s.priority[u] = k.priority[u]
    BY <1>4, <1>5
  <2>. QED BY <1>4, <1>7, <2>1, MovedList, MovedSorted
<1>1. CASE k.state[t] = "READY"
  <2>. DEFINE l == Moved(s, k.readyList, t)
              r == [s EXCEPT !.readyList = l]
  <2>1. l \in Seq(Thread) /\ ToSet(l) = ToSet(k.readyList) /\ Injective(l) /\ Sorted(s, l)
    <3>1. t \in ToSet(k.readyList)
      BY <1>1 DEF Lists, ReadyListExact
    <3>. QED BY <1>0, <1>7, <3>1
  <2>. HIDE DEF l
  <2>2. /\ r \in KernelState /\ r.state = k.state /\ r.current = k.current
        /\ Kept(r, k) /\ r.flags = k.flags /\ r.readyList = l
        /\ r.waitList = k.waitList /\ r.waiters = k.waiters /\ r.timerList = k.timerList
        /\ r.priority = s.priority
    BY <1>4, <2>1 DEF KernelState
  <2>3. osRequeue(s, t) = r
    BY <1>1, <1>4 DEF osRequeue, l
  <2>. HIDE DEF r
  <2>5. Ordered(r)
    <3>1. \A o \in Object : t \notin ToSet(k.waiters[o])
      BY <1>0, <1>1 DEF Lists, WaitListsExact
    <3>2. \A o \in Object : Sorted(s, k.waiters[o])
      BY <1>0, <1>6, <3>1
    <3>. QED BY <2>1, <2>2, <3>2 DEF Ordered, Sorted
  <2>4. Lists(r)
    BY <1>0, <2>1, <2>2, <2>5, Permuted
  <2>. QED BY <1>4, <2>2, <2>3, <2>4 DEF Reordered, s
<1>2. CASE k.state[t] # "READY" /\ k.waitList[t] # NULL
  <2>. DEFINE list == k.waitList[t]
              l == Moved(s, k.waiters[list], t)
              r == [s EXCEPT !.waiters[list] = l]
  <2>0. list \in Object
    BY <1>2 DEF Lists, KernelState
  <2>1. l \in Seq(Thread) /\ ToSet(l) = ToSet(k.waiters[list]) /\ Injective(l) /\ Sorted(s, l)
    <3>1. t \in ToSet(k.waiters[list])
      BY <2>0 DEF Lists, WaitListsExact
    <3>. QED BY <1>0, <1>7, <2>0, <3>1
  <2>3. osRequeue(s, t) = r
    BY <1>2, <1>4 DEF osRequeue
  <2>5. ASSUME NEW o \in Object \ {list} PROVE Sorted(s, k.waiters[o])
    <3>1. t \notin ToSet(k.waiters[o])
      BY DEF Lists, WaitListsExact
    <3>. QED BY <1>0, <1>6, <3>1
  <2>7. t \notin ToSet(k.readyList)
    BY <1>2 DEF Lists, ReadyListExact
  <2>8. Sorted(s, k.readyList)
    BY <1>0, <1>6, <2>7
  <2>. HIDE DEF l, list
  <2>2. /\ r \in KernelState /\ r.state = k.state /\ r.current = k.current
        /\ Kept(r, k) /\ r.flags = k.flags /\ r.readyList = k.readyList
        /\ r.waitList = k.waitList /\ r.timerList = k.timerList
        /\ r.waiters = [k.waiters EXCEPT ![list] = l] /\ r.priority = s.priority
    BY <1>0, <1>4, <2>0, <2>1 DEF KernelState
  <2>. HIDE DEF r
  <2>6. Ordered(r)
    BY <1>0, <2>0, <2>1, <2>2, <2>5, <2>8 DEF Ordered, Sorted
  <2>4. Lists(r)
    <3>1. \A o \in Object : ToSet(r.waiters[o]) = ToSet(k.waiters[o]) /\ Injective(r.waiters[o])
      BY <1>0, <2>0, <2>1, <2>2
    <3>. QED BY <1>0, <2>2, <2>6, <3>1, Permuted
  <2>. QED BY <1>4, <2>2, <2>3, <2>4 DEF Reordered, s
<1>3. CASE k.state[t] # "READY" /\ k.waitList[t] = NULL
  <2>1. osRequeue(s, t) = s
    BY <1>3, <1>4 DEF osRequeue
  <2>2. t \notin ToSet(k.readyList) /\ \A o \in Object : t \notin ToSet(k.waiters[o])
    BY <1>0, <1>3 DEF Lists, ReadyListExact, WaitListsExact
  <2>3. Ordered(s)
    BY <1>0, <1>4, <1>6, <2>2 DEF Ordered
  <2>4. Lists(s)
    BY <1>0, <1>4, <2>3, Permuted
  <2>. QED BY <1>4, <2>1, <2>4 DEF Reordered, s
<1>. QED
  BY <1>1, <1>2, <1>3

LEMMA Lower ==
  ASSUME NEW k, Lists(k), NEW t \in Thread
  PROVE  LET r == LowerToInherited(k, t)
             p == osInheritedPriority(k, t)
         IN  /\ Reordered(r, k) /\ Lowered(r, k, t)
             /\ r.priority = IF p < k.priority[t] THEN [k.priority EXCEPT ![t] = p] ELSE k.priority
<1>. DEFINE p == osInheritedPriority(k, t)
            r == osRequeue([k EXCEPT !.priority[t] = p], t)
<1>1. p \in Priority
  BY InheritedType DEF Lists
<1>2. LowerToInherited(k, t) = IF p < k.priority[t] THEN r ELSE k
  BY DEF LowerToInherited
<1>3. Reordered(r, k) /\ r.priority = [k.priority EXCEPT ![t] = p]
  BY <1>1, Requeue
<1>. HIDE DEF r
<1>4. Reordered(k, k)
  BY DEF Reordered
<1>. QED
  BY <1>2, <1>3, <1>4 DEF Lowered, Reordered

\* What osPriorityRaise does at a task of the chain, and where it goes next.
RaiseStep(s, k, p) ==
  [kernel |-> osRequeue([s.kernel EXCEPT !.priority[s.task] = p], s.task),
   task |-> IF "MUTEX" \in k.flags[s.task] THEN k.owner[k.waitList[s.task]] ELSE NULL]

RaiseNext(s, k, p) ==
  IF s.task \in Thread /\ s.kernel.priority[s.task] < p THEN RaiseStep(s, k, p) ELSE s

IsWalk(f, n, first, k, p) ==
  f = [i \in 0 .. n |-> IF i = 0 THEN first ELSE RaiseNext(f[i - 1], k, p)]

LEMMA WalkExists ==
  ASSUME NEW n \in Nat, NEW first, NEW k, NEW p
  PROVE  \E f : IsWalk(f, n, first, k, p)
<1>. USE DEF IsWalk
<1>. DEFINE Exists(m) == \E f : IsWalk(f, m, first, k, p)
<1>1. Exists(0)
  <2>. DEFINE f == [i \in 0 .. 0 |-> first]
  <2>1. f = [i \in 0 .. 0 |-> IF i = 0 THEN first ELSE RaiseNext(f[i - 1], k, p)]
    OBVIOUS
  <2>2. IsWalk(f, 0, first, k, p)
    BY <2>1
  <2>. QED BY <2>2
<1>2. ASSUME NEW m \in Nat, m # 0, Exists(m - 1)
      PROVE  Exists(m)
  <2>1. PICK g : IsWalk(g, m - 1, first, k, p)
    BY <1>2
  <2>. DEFINE last == RaiseNext(g[m - 1], k, p)
              f == [i \in 0 .. m |-> IF i < m THEN g[i] ELSE last]
  <2>. HIDE DEF last
  <2>2. \A i \in 0 .. m : f[i] = IF i < m THEN g[i] ELSE last
    OBVIOUS
  <2>3. f = [i \in 0 .. m |-> f[i]]
    OBVIOUS
  <2>. HIDE DEF f
  <2>4. ASSUME NEW i \in 0 .. m
        PROVE  f[i] = IF i = 0 THEN first ELSE RaiseNext(f[i - 1], k, p)
    <3>1. CASE i = m
      <4>1. m - 1 \in 0 .. m /\ m - 1 < m /\ ~(m < m) /\ i # 0
        BY <1>2, <3>1
      <4>2. f[i] = last /\ f[i - 1] = g[m - 1]
        BY <2>2, <3>1, <4>1
      <4>. QED BY <3>1, <4>1, <4>2 DEF last
    <3>2. CASE i # m
      <4>1. i \in 0 .. m - 1 /\ i < m /\ (i # 0 => i - 1 \in 0 .. m /\ i - 1 < m)
        BY <1>2, <3>2
      <4>2. g[i] = IF i = 0 THEN first ELSE RaiseNext(g[i - 1], k, p)
        BY <2>1, <4>1
      <4>3. f[i] = g[i] /\ (i # 0 => f[i - 1] = g[i - 1])
        BY <2>2, <4>1
      <4>. QED BY <4>2, <4>3
    <3>. QED BY <3>1, <3>2
  <2>5. IsWalk(f, m, first, k, p)
    BY <2>3, <2>4
  <2>. QED BY <2>5
<1>. HIDE DEF Exists
<1>3. \A m \in Nat : Exists(m)
  <2>. DEFINE D == {m \in Nat : ~Exists(m)}
  <2>1. SUFFICES ASSUME D # {} PROVE FALSE
    BY <2>1
  <2>2. PICK m \in D : \A i \in D : m <= i
    BY <2>1, MinIsLeast
  <2>3. m \in Nat /\ m # 0 /\ m - 1 \in Nat /\ m - 1 \notin D
    BY <1>1, <2>2
  <2>. QED BY <1>2, <2>2, <2>3
<1>. QED
  BY <1>3 DEF Exists

\* Whoever waits for a mutex is known to, and is not more important than the
\* owner.
Chained(k) == OS_CFG_MUTEX_INHERITANCE /\ Hurried(k) /\ Flagged(k)

\* The owner of what some task waits for.
IsOwner(k, u) == \E w \in Thread : "MUTEX" \in k.flags[w] /\ u = k.owner[k.waitList[w]]

\* What osPriorityRaise keeps on its way: it raises to p the first task and
\* owners, all of them below p, and whoever waits for a mutex waits for somebody
\* at least as important or for the task it is at.
Raising(s, k, t, p) ==
  /\ Reordered(s.kernel, k)
  /\ \A u \in Thread :
       \/ s.kernel.priority[u] = k.priority[u]
       \/ k.priority[u] < p /\ s.kernel.priority[u] = p /\ (u = t \/ IsOwner(k, u))
  /\ s.task \in Thread => s.task = t \/ IsOwner(k, s.task)
  /\ Chained(k) =>
       \A m \in Mutex, w \in Thread :
         k.waitList[w] = m => \/ s.kernel.priority[w] <= s.kernel.priority[k.owner[m]]
                              \/ s.task = k.owner[m] /\ s.kernel.priority[w] <= p

\* It has arrived at the end of the chain or at a task it need not raise.
Stalled(s, p) == s.task \in Thread => p <= s.kernel.priority[s.task]

LEMMA RaiseOne ==
  ASSUME NEW k, Lists(k), NEW t \in Thread, NEW p \in Priority,
         NEW s, Raising(s, k, t, p), s.task \in Thread, ~Stalled(s, p)
  PROVE  LET q == RaiseStep(s, k, p)
         IN  /\ Raising(q, k, t, p)
             /\ q.kernel.priority[s.task] = p
             /\ \A u \in Thread \ {s.task} : q.kernel.priority[u] = s.kernel.priority[u]
             /\ q.task \in Thread =>
                  "MUTEX" \in k.flags[s.task] /\ q.task = k.owner[k.waitList[s.task]]
<1>. DEFINE q == RaiseStep(s, k, p)
            T == s.task
<1>1. Reordered(q.kernel, k) /\ q.kernel.priority = [s.kernel.priority EXCEPT ![T] = p]
  <2>1. q.kernel = osRequeue([s.kernel EXCEPT !.priority[T] = p], T)
    BY DEF RaiseStep
  <2>2. Lists(s.kernel) /\ Reordered(s.kernel, k)
    BY DEF Raising, Reordered
  <2>. HIDE DEF q
  <2>3. LET r == osRequeue([s.kernel EXCEPT !.priority[T] = p], T)
        IN  Reordered(r, s.kernel) /\ r.priority = [s.kernel.priority EXCEPT ![T] = p]
    BY <2>2, Requeue
  <2>. QED BY <2>1, <2>2, <2>3 DEF Reordered
<1>2. q.task = IF "MUTEX" \in k.flags[T] THEN k.owner[k.waitList[T]] ELSE NULL
  BY DEF RaiseStep
<1>. HIDE DEF q
<1>3. s.kernel.priority \in [Thread -> Priority] /\ k.priority \in [Thread -> Priority]
  BY DEF Raising, Reordered, Lists, KernelState
<1>4. /\ p \in Int
      /\ \A u \in Thread : s.kernel.priority[u] \in Int /\ k.priority[u] \in Int
  <2>1. Priority \subseteq Int
    BY KernelAssumption DEF Priority, MainPriority
  <2>2. ASSUME NEW u \in Thread PROVE s.kernel.priority[u] \in Int /\ k.priority[u] \in Int
    <3>1. s.kernel.priority[u] \in Priority /\ k.priority[u] \in Priority
      BY <1>3
    <3>. QED BY <2>1, <3>1
  <2>. QED BY <2>1, <2>2
<1>5. /\ T \in Thread /\ s.kernel.priority[T] < p
      /\ q.kernel.priority[T] = p
      /\ \A u \in Thread \ {T} : q.kernel.priority[u] = s.kernel.priority[u]
  BY <1>1, <1>3, <1>4 DEF Stalled
<1>. HIDE DEF T
<1>6. NULL \notin Thread
  BY KernelAssumption
<1>7. q.task \in Thread => "MUTEX" \in k.flags[T] /\ q.task = k.owner[k.waitList[T]]
  BY <1>2, <1>6
<1>8. ASSUME NEW u \in Thread
      PROVE  \/ q.kernel.priority[u] = k.priority[u]
             \/ k.priority[u] < p /\ q.kernel.priority[u] = p /\ (u = t \/ IsOwner(k, u))
  <2>1. CASE u = T
    <3>1. k.priority[T] < p
      BY <1>4, <1>5 DEF Raising
    <3>2. T = t \/ IsOwner(k, T)
      BY <1>5 DEF Raising, T
    <3>. QED BY <1>5, <2>1, <3>1, <3>2
  <2>2. CASE u # T
    BY <1>5, <2>2 DEF Raising
  <2>. QED BY <2>1, <2>2
<1>9. q.task \in Thread => q.task = t \/ IsOwner(k, q.task)
  BY <1>5, <1>7 DEF IsOwner
<1>10. ASSUME Chained(k), NEW m \in Mutex, NEW w \in Thread, k.waitList[w] = m
       PROVE  \/ q.kernel.priority[w] <= q.kernel.priority[k.owner[m]]
              \/ q.task = k.owner[m] /\ q.kernel.priority[w] <= p
  <2>1. CASE w = T
    <3>1. "MUTEX" \in k.flags[T]
      BY <1>10, <2>1 DEF Chained, Flagged
    <3>. QED BY <1>2, <1>4, <1>5, <1>10, <2>1, <3>1
  <2>2. CASE w # T
    <3>0. k.owner[m] \in Thread
      BY <1>10 DEF Chained, Hurried
    <3>1. \/ s.kernel.priority[w] <= s.kernel.priority[k.owner[m]]
          \/ T = k.owner[m] /\ s.kernel.priority[w] <= p
      BY <1>10 DEF Raising, T
    <3>2. q.kernel.priority[w] = s.kernel.priority[w] /\ s.kernel.priority[w] \in Int
      BY <1>4, <1>5, <2>2
    <3>3. CASE k.owner[m] = T
      <4>1. s.kernel.priority[w] <= p
        BY <1>4, <1>5, <3>1, <3>3
      <4>. QED BY <1>5, <3>2, <3>3, <4>1
    <3>4. CASE k.owner[m] # T
      BY <1>5, <3>0, <3>1, <3>2, <3>4
    <3>. QED BY <3>3, <3>4
  <2>. QED BY <2>1, <2>2
<1>. QED
  BY <1>1, <1>5, <1>7, <1>8, <1>9, <1>10 DEF Raising, q, T

\* However far it walks: nobody is passed over, as there are not more owners
\* than mutexes.
LEMMA PriorityRaise ==
  ASSUME NEW k, Lists(k), NEW t \in Thread, NEW p \in Priority
  PROVE  LET r == osPriorityRaise(k, t, p)
         IN  /\ Reordered(r, k)
             /\ \A u \in Thread :
                  \/ r.priority[u] = k.priority[u]
                  \/ k.priority[u] < p /\ r.priority[u] = p /\ (u = t \/ IsOwner(k, u))
             /\ p <= r.priority[t]
             /\ Hurried(k) /\ Flagged(k) => Hurried(r)
<1>. DEFINE n == Cardinality(Mutex) + 1
            first == [kernel |-> k, task |-> t]
            walk[i \in 0 .. n] == IF i = 0 THEN first ELSE RaiseNext(walk[i - 1], k, p)
            r == osPriorityRaise(k, t, p)
<1>1. r = walk[n].kernel
  BY DEF osPriorityRaise, RaiseNext, RaiseStep
<1>2. Cardinality(Mutex) \in Nat /\ n \in Nat /\ n # 0 /\ n = Cardinality(Mutex) + 1
  BY KernelAssumption, FS_CardinalityType
<1>. HIDE DEF n, first, r
<1>3. walk = [i \in 0 .. n |-> IF i = 0 THEN first ELSE RaiseNext(walk[i - 1], k, p)]
  <2>1. \E f : IsWalk(f, n, first, k, p)
    BY <1>2, WalkExists
  <2>2. \E f : f = [i \in 0 .. n |-> IF i = 0 THEN first ELSE RaiseNext(f[i - 1], k, p)]
    BY <2>1 DEF IsWalk
  <2>. QED BY <2>2
<1>. HIDE DEF walk
\* The mutexes of those who are below p.
<1>. DEFINE Low(s) == {m \in Mutex : k.owner[m] \in Thread /\ s.kernel.priority[k.owner[m]] < p}
            Far(s, i) == /\ \E m \in Mutex : k.owner[m] = s.task
                         /\ Cardinality(Low(s)) + i <= n
            Inv(i) == /\ Raising(walk[i], k, t, p)
                      /\ i # 0 => p <= walk[i].kernel.priority[t]
                      /\ Chained(k) => i = 0 \/ Stalled(walk[i], p) \/ Far(walk[i], i)
<1>4. p \in Int /\ Priority \subseteq Int /\ k.priority \in [Thread -> Priority]
  BY KernelAssumption DEF Priority, MainPriority, Lists, KernelState
<1>5. ASSUME NEW s, Raising(s, k, t, p), NEW u \in Thread
      PROVE  s.kernel.priority[u] \in Int
  <2>1. s.kernel.priority \in [Thread -> Priority]
    BY <1>5 DEF Raising, Reordered, Lists, KernelState
  <2>2. s.kernel.priority[u] \in Priority
    BY <2>1
  <2>. QED BY <1>4, <2>2
<1>6. ASSUME NEW s
      PROVE  IsFiniteSet(Low(s)) /\ Cardinality(Low(s)) \in Nat
             /\ Cardinality(Low(s)) <= Cardinality(Mutex)
  <2>1. IsFiniteSet(Mutex) /\ Low(s) \subseteq Mutex
    BY KernelAssumption
  <2>. HIDE DEF Low
  <2>. QED BY <2>1, FS_Subset, FS_CardinalityType
<1>7. Inv(0)
  <2>1. walk[0] = first /\ first.kernel = k /\ first.task = t
    BY <1>2, <1>3 DEF first
  <2>2. Reordered(k, k)
    BY DEF Reordered
  <2>3. Raising(first, k, t, p)
    BY <2>1, <2>2 DEF Raising, Chained, Hurried
  <2>. QED BY <2>1, <2>3
<1>8. ASSUME NEW i \in 1 .. n, Inv(i - 1)
      PROVE  Inv(i)
  <2>. DEFINE s == walk[i - 1]
  <2>0. i \in 0 .. n /\ i # 0 /\ i - 1 \in Int
    BY <1>2
  <2>1. walk[i] = RaiseNext(s, k, p)
    BY <1>3, <2>0
  <2>2. /\ Raising(s, k, t, p)
        /\ i - 1 # 0 => p <= s.kernel.priority[t]
        /\ Chained(k) => i - 1 = 0 \/ Stalled(s, p) \/ Far(s, i - 1)
    BY <1>8
  <2>8. i - 1 = 0 => s.task = t
    <3>1. walk[0] = first
      BY <1>2, <1>3
    <3>2. first.task = t
      BY DEF first
    <3>. QED BY <3>1, <3>2
  <2>. HIDE DEF s, Low
  <2>3. CASE Stalled(s, p)
    <3>1. walk[i] = s
      <4>1. ~(s.task \in Thread /\ s.kernel.priority[s.task] < p)
        BY <1>4, <1>5, <2>2, <2>3 DEF Stalled
      <4>. QED BY <2>1, <4>1 DEF RaiseNext
    <3>2. p <= s.kernel.priority[t]
      BY <2>2, <2>3, <2>8 DEF Stalled
    <3>. QED BY <2>2, <2>3, <3>1, <3>2
  <2>4. CASE ~Stalled(s, p)
    <3>. DEFINE q == RaiseStep(s, k, p)
    <3>0. s.task \in Thread /\ s.kernel.priority[s.task] < p
      <4>1. s.task \in Thread /\ ~(p <= s.kernel.priority[s.task])
        BY <2>4 DEF Stalled
      <4>2. s.kernel.priority[s.task] \in Int
        BY <1>5, <2>2, <4>1
      <4>. QED BY <1>4, <4>1, <4>2
    <3>1. walk[i] = q
      BY <2>1, <3>0 DEF RaiseNext
    <3>2. /\ Raising(q, k, t, p)
          /\ q.kernel.priority[s.task] = p
          /\ \A u \in Thread \ {s.task} : q.kernel.priority[u] = s.kernel.priority[u]
          /\ q.task \in Thread =>
               "MUTEX" \in k.flags[s.task] /\ q.task = k.owner[k.waitList[s.task]]
      BY <2>2, <2>4, <3>0, RaiseOne
    <3>. HIDE DEF q
    <3>3. p <= q.kernel.priority[t]
      BY <1>4, <2>2, <2>8, <3>2
    <3>4. ASSUME Chained(k), ~Stalled(q, p) PROVE Far(q, i)
      <4>1. q.task \in Thread
        BY <3>4 DEF Stalled
      <4>2. k.waitList[s.task] \in Mutex
        BY <3>0, <3>2, <3>4, <4>1 DEF Chained, Flagged
      <4>3. \E m \in Mutex : k.owner[m] = q.task
        BY <3>2, <4>1, <4>2
      <4>4. Low(q) \subseteq Low(s) /\ \A m \in Low(q) : k.owner[m] # s.task
        BY <1>4, <3>0, <3>2 DEF Low
      <4>5. CASE i - 1 = 0
        BY <1>2, <1>6, <4>3, <4>5
      <4>6. CASE i - 1 # 0
        <5>1. PICK m \in Mutex : k.owner[m] = s.task
          BY <2>2, <2>4, <3>4, <4>6
        <5>2. m \in Low(s) /\ m \notin Low(q)
          BY <3>0, <4>4, <5>1 DEF Low
        <5>3. Low(q) \subseteq Low(s) \ {m}
          BY <4>4, <5>2
        <5>4. /\ IsFiniteSet(Low(s) \ {m})
              /\ Cardinality(Low(s) \ {m}) = Cardinality(Low(s)) - 1
          BY <1>6, <5>2, FS_RemoveElement
        <5>5. Cardinality(Low(q)) <= Cardinality(Low(s)) - 1
          BY <5>3, <5>4, FS_Subset
        <5>6. Cardinality(Low(s)) + (i - 1) <= n
          BY <2>2, <2>4, <3>4, <4>6
        <5>7. Cardinality(Low(q)) + i <= n
          BY <1>2, <1>6, <2>0, <5>5, <5>6
        <5>. QED BY <4>3, <5>7
      <4>. QED BY <4>5, <4>6
    <3>. QED BY <3>1, <3>2, <3>3, <3>4
  <2>. QED BY <2>3, <2>4
<1>. HIDE DEF Inv
<1>9. Inv(n)
  <2>. DEFINE D == {i \in 0 .. n : ~Inv(i)}
  <2>1. SUFFICES ASSUME D # {} PROVE FALSE
    BY <1>2, <2>1
  <2>2. D \in SUBSET Nat
    OBVIOUS
  <2>3. PICK i \in D : \A j \in D : i <= j
    BY <2>1, <2>2, MinIsLeast
  <2>4. i # 0
    BY <1>7, <2>3
  <2>5. i \in 1 .. n /\ i - 1 \in 0 .. n /\ i - 1 \notin D
    BY <1>2, <2>3, <2>4
  <2>. QED BY <1>8, <2>3, <2>5
<1>. DEFINE s == walk[n]
<1>10. /\ Raising(s, k, t, p) /\ p <= s.kernel.priority[t]
       /\ Chained(k) => Stalled(s, p) \/ Far(s, n)
  BY <1>2, <1>9 DEF Inv
<1>11. r = s.kernel
  BY <1>1
<1>. HIDE DEF s, Low
<1>12. ASSUME Chained(k) PROVE Stalled(s, p)
  <2>1. SUFFICES ASSUME ~Stalled(s, p) PROVE FALSE
    OBVIOUS
  <2>2. PICK m \in Mutex : k.owner[m] = s.task
    BY <1>10, <1>12, <2>1
  <2>3. s.task \in Thread /\ s.kernel.priority[s.task] < p
    <3>1. s.task \in Thread /\ ~(p <= s.kernel.priority[s.task])
      BY <2>1 DEF Stalled
    <3>2. s.kernel.priority[s.task] \in Int
      BY <1>5, <1>10, <3>1
    <3>. QED BY <1>4, <3>1, <3>2
  <2>4. m \in Low(s)
    BY <2>2, <2>3 DEF Low
  <2>5. Cardinality(Low(s)) = 0
    BY <1>2, <1>6, <1>10, <1>12, <2>1
  <2>. QED BY <1>6, <2>4, <2>5, FS_EmptySet
<1>13. ASSUME Hurried(k), Flagged(k) PROVE Hurried(r)
  <2>. SUFFICES ASSUME OS_CFG_MUTEX_INHERITANCE, NEW m \in Mutex, NEW w \in Thread, r.waitList[w] = m
                PROVE  r.owner[m] \in Thread /\ r.priority[w] <= r.priority[r.owner[m]]
    BY DEF Hurried
  <2>1. Chained(k)
    BY <1>13 DEF Chained
  <2>2. k.waitList[w] = m /\ r.owner[m] = k.owner[m] /\ k.owner[m] \in Thread
    BY <1>10, <1>11, <1>13 DEF Raising, Reordered, Hurried
  <2>3. \/ s.kernel.priority[w] <= s.kernel.priority[k.owner[m]]
        \/ s.task = k.owner[m] /\ s.kernel.priority[w] <= p
    BY <1>10, <2>1, <2>2 DEF Raising
  <2>4. s.task = k.owner[m] => p <= s.kernel.priority[k.owner[m]]
    BY <1>12, <2>1, <2>2 DEF Stalled
  <2>5. s.kernel.priority[w] \in Int /\ s.kernel.priority[k.owner[m]] \in Int
    BY <1>5, <1>10, <2>2
  <2>. QED BY <1>4, <1>11, <2>2, <2>3, <2>4, <2>5
<1>. QED
  BY <1>10, <1>11, <1>13 DEF Raising, r

----------------------------------------------------------------------------
(***************************************************************************)
(* What tasks inherit: Fine says that everybody has at least the priority  *)
(* it was given and that of the tasks which wait for one of its mutexes.   *)
(***************************************************************************)

\* Mutexes are owned by those who owned them before.
Alike(r, k) == r.owner = k.owner /\ \A t \in Thread : r.mutexes[t] = k.mutexes[t]

\* A wait that is over relieves, it does not put anybody under pressure.
LEMMA EasedFine ==
  ASSUME NEW k, NEW r, Eased(r, k)
  PROVE  /\ r.owner = k.owner /\ Urgent(k) => Urgent(r)
         /\ Alike(r, k) /\ Fine(k) => Fine(r)
<1>1. NULL \notin Mutex
  BY KernelAssumption
<1>2. ASSUME r.owner = k.owner, Urgent(k) PROVE Urgent(r)
  <2>1. Based(r)
    BY <1>2 DEF Urgent, Based, Eased
  <2>2. Hurried(r)
    BY <1>1, <1>2 DEF Urgent, Hurried, Eased, WaitEased
  <2>3. Flagged(r)
    BY <1>1, <1>2 DEF Urgent, Flagged, Eased, WaitEased
  <2>. QED BY <2>1, <2>2, <2>3 DEF Urgent
<1>3. ASSUME Alike(r, k), Listed(k) PROVE Listed(r)
  BY <1>3 DEF Listed, Alike
<1>. QED
  BY <1>2, <1>3 DEF Fine, Alike

\* osInheritedPriority is the least priority a task must have.
LEMMA InheritedBounds ==
  ASSUME NEW k, Queued(k), NEW t \in Thread
  PROVE  LET p == osInheritedPriority(k, t)
         IN  /\ p \in Priority /\ k.basePriority[t] <= p
             /\ k.mutexes[t] = << >> => p = k.basePriority[t]
             /\ OS_CFG_MUTEX_INHERITANCE /\ Listed(k) =>
                  \A m \in Mutex, w \in Thread :
                    k.owner[m] = t /\ k.waitList[w] = m => k.priority[w] <= p
             /\ Hurried(k) /\ Listed(k) /\ k.basePriority[t] <= k.priority[t] => p <= k.priority[t]
<1>. DEFINE owned == {m \in ToSet(k.mutexes[t]) : k.waiters[m] # << >>}
            first == {k.priority[Head(k.waiters[m])] : m \in owned}
            S == {k.basePriority[t]} \cup
                   IF OS_CFG_MUTEX_INHERITANCE THEN first ELSE {}
            p == osInheritedPriority(k, t)
<1>0. /\ k \in KernelState /\ k.mutexes[t] \in Seq(Mutex) /\ k.waiters \in [Object -> Seq(Thread)]
      /\ k.priority \in [Thread -> Priority] /\ k.basePriority \in [Thread -> Priority]
      /\ Mutex \subseteq Object /\ Priority \subseteq Nat
  <2>1. k \in KernelState
    BY DEF Queued
  <2>2. k.mutexes[t] \in Seq(Mutex) /\ k.waiters \in [Object -> Seq(Thread)]
    BY <2>1 DEF KernelState
  <2>3. k.priority \in [Thread -> Priority] /\ k.basePriority \in [Thread -> Priority]
    BY <2>1 DEF KernelState
  <2>4. Mutex \subseteq Object /\ Priority \subseteq Nat
    BY KernelAssumption DEF Priority, MainPriority
  <2>. QED BY <2>1, <2>2, <2>3, <2>4
<1>1. p = Max(S)
  BY DEF osInheritedPriority
<1>2. ASSUME NEW m \in ToSet(k.mutexes[t]), k.waiters[m] # << >>
      PROVE  /\ m \in Mutex /\ Head(k.waiters[m]) \in Thread
             /\ k.waitList[Head(k.waiters[m])] = m
             /\ \A w \in Thread : k.waitList[w] = m => k.priority[w] <= k.priority[Head(k.waiters[m])]
  <2>1. m \in Mutex /\ m \in Object
    BY <1>0 DEF ToSet
  <2>2. k.waiters[m] \in Seq(Thread) /\ Sorted(k, k.waiters[m])
        /\ ToSet(k.waiters[m]) = {w \in Thread : k.waitList[w] = m}
    BY <1>0, <2>1 DEF Queued
  <2>3. Head(k.waiters[m]) \in ToSet(k.waiters[m])
    BY <1>2, <2>2, InToSet
  <2>4. \A w \in ToSet(k.waiters[m]) : k.priority[w] <= k.priority[Head(k.waiters[m])]
    BY <1>0, <1>2, <2>2, TailSorted
  <2>. QED BY <2>1, <2>2, <2>3, <2>4
<1>3. S \in SUBSET Priority /\ S # {}
  <2>1. first \in SUBSET Priority
    BY <1>0, <1>2
  <2>. HIDE DEF first
  <2>. QED BY <1>0, <2>1
<1>. HIDE DEF S, p
<1>4. p \in S /\ \A q \in S : q <= p
  BY <1>0, <1>1, <1>3, MaxType
<1>5. k.basePriority[t] \in S
  BY DEF S
<1>6. k.mutexes[t] = << >> => p = k.basePriority[t]
  <2>1. ToSet(<< >>) = {}
    BY DEF ToSet
  <2>2. k.mutexes[t] = << >> => owned = {}
    BY <2>1
  <2>3. k.mutexes[t] = << >> => S = {k.basePriority[t]}
    BY <2>2 DEF S
  <2>. QED BY <1>4, <2>3
<1>7. ASSUME OS_CFG_MUTEX_INHERITANCE, Listed(k), NEW m \in Mutex, NEW w \in Thread,
             k.owner[m] = t, k.waitList[w] = m
      PROVE  k.priority[w] <= p
  <2>1. m \in ToSet(k.mutexes[t])
    BY <1>7 DEF Listed
  <2>2. w \in ToSet(k.waiters[m])
    BY <1>0, <1>7 DEF Queued
  <2>3. k.waiters[m] # << >>
    BY <2>2 DEF ToSet
  <2>4. k.priority[Head(k.waiters[m])] \in S
    BY <1>7, <2>1, <2>3 DEF S
  <2>5. k.priority[w] <= k.priority[Head(k.waiters[m])] /\ Head(k.waiters[m]) \in Thread
    BY <1>2, <1>7, <2>1, <2>3
  <2>6. k.priority[Head(k.waiters[m])] <= p
    BY <1>4, <2>4
  <2>7. p \in Int /\ k.priority[w] \in Int /\ k.priority[Head(k.waiters[m])] \in Int
    <3>1. p \in Priority /\ Priority \subseteq Int
      BY <1>0, <1>3, <1>4
    <3>2. ASSUME NEW u \in Thread PROVE k.priority[u] \in Int
      <4>1. k.priority[u] \in Priority
        BY <1>0
      <4>. QED BY <3>1, <4>1
    <3>. QED BY <2>5, <3>1, <3>2
  <2>. QED BY <2>5, <2>6, <2>7
<1>8. ASSUME Hurried(k), Listed(k), k.basePriority[t] <= k.priority[t]
      PROVE  p <= k.priority[t]
  <2>1. CASE p = k.basePriority[t]
    BY <1>8, <2>1
  <2>2. CASE p # k.basePriority[t]
    <3>1. OS_CFG_MUTEX_INHERITANCE /\ p \in first
      BY <1>4, <2>2 DEF S
    <3>2. PICK m \in ToSet(k.mutexes[t]) :
            k.waiters[m] # << >> /\ p = k.priority[Head(k.waiters[m])]
      BY <3>1
    <3>3. m \in Mutex /\ Head(k.waiters[m]) \in Thread /\ k.waitList[Head(k.waiters[m])] = m
      BY <1>2, <3>2
    <3>4. k.owner[m] = t
      BY <1>8, <3>1, <3>2, <3>3 DEF Listed
    <3>. QED BY <1>8, <3>1, <3>2, <3>3, <3>4 DEF Hurried
  <2>. QED BY <2>1, <2>2
<1>. QED
  BY <1>3, <1>4, <1>5, <1>6, <1>7, <1>8 DEF p

LEMMA ListsQueued ==
  ASSUME NEW k, Lists(k)
  PROVE  Queued(k)
BY DEF Lists, WaitListsExact, Ordered, Queued

BasedBut(k, t) == \A u \in Thread \ {t} : k.basePriority[u] <= k.priority[u]

\* Down to what it inherits is not too far.
LEMMA LoweredFine ==
  ASSUME NEW k, Queued(k), NEW t \in Thread, NEW r, Lowered(r, k, t)
  PROVE  /\ Hurried(k) /\ Flagged(k) /\ Listed(k) /\ BasedBut(k, t)
           /\ osInheritedPriority(k, t) <= k.priority[t] => Fine(r)
         /\ Fine(k) => Fine(r)
<1>. DEFINE p == osInheritedPriority(k, t)
<1>0. /\ p \in Priority /\ k.basePriority[t] <= p
      /\ k.mutexes[t] = << >> => p = k.basePriority[t]
      /\ OS_CFG_MUTEX_INHERITANCE /\ Listed(k) =>
           \A m \in Mutex, w \in Thread :
             k.owner[m] = t /\ k.waitList[w] = m => k.priority[w] <= p
      /\ Hurried(k) /\ Listed(k) /\ k.basePriority[t] <= k.priority[t] => p <= k.priority[t]
  BY InheritedBounds
<1>1. /\ p \in Int
      /\ k.priority \in [Thread -> Priority]
      /\ \A u \in Thread : k.priority[u] \in Int /\ k.basePriority[u] \in Int
  <2>1. k.priority \in [Thread -> Priority] /\ k.basePriority \in [Thread -> Priority]
        /\ Priority \subseteq Int
    BY KernelAssumption DEF Queued, KernelState, Priority, MainPriority
  <2>. QED BY <1>0, <2>1
<1>2. /\ r.owner = k.owner /\ r.mutexes = k.mutexes /\ r.basePriority = k.basePriority
      /\ r.flags = k.flags /\ r.waitList = k.waitList
      /\ \A u \in Thread \ {t} : r.priority[u] = k.priority[u]
      /\ r.priority[t] \in {k.priority[t], p}
  BY <1>1 DEF Lowered
<1>. HIDE DEF p
<1>3. ASSUME Hurried(k), Flagged(k), Listed(k),
             BasedBut(k, t), p <= k.priority[t]
      PROVE  Fine(r)
  <2>0. \A u \in Thread : r.priority[u] \in Int /\ r.priority[u] <= k.priority[u]
    BY <1>1, <1>2, <1>3
  <2>1. Based(r)
    <3>. SUFFICES ASSUME NEW u \in Thread PROVE k.basePriority[u] <= r.priority[u]
      BY <1>2 DEF Based
    <3>1. CASE u = t
      BY <1>0, <1>1, <1>2, <1>3, <3>1
    <3>2. CASE u # t
      BY <1>1, <1>2, <1>3, <3>2 DEF BasedBut
    <3>. QED BY <3>1, <3>2
  <2>2. Hurried(r)
    <3>. SUFFICES ASSUME OS_CFG_MUTEX_INHERITANCE, NEW m \in Mutex, NEW w \in Thread,
                         k.waitList[w] = m
                  PROVE  k.owner[m] \in Thread /\ r.priority[w] <= r.priority[k.owner[m]]
      BY <1>2 DEF Hurried
    <3>1. k.owner[m] \in Thread /\ k.priority[w] <= k.priority[k.owner[m]]
      BY <1>3 DEF Hurried
    <3>2. k.priority[w] \in Int /\ r.priority[w] \in Int /\ r.priority[w] <= k.priority[w]
      BY <1>1, <2>0
    <3>3. CASE k.owner[m] = t /\ w # t
      <4>1. k.priority[w] <= p
        BY <1>0, <1>3, <3>3
      <4>2. r.priority[t] \in {k.priority[t], p} /\ k.priority[t] \in Int
        BY <1>1, <1>2
      <4>. QED BY <1>1, <3>1, <3>2, <3>3, <4>1, <4>2
    <3>4. CASE k.owner[m] = t /\ w = t
      BY <3>1, <3>2, <3>4
    <3>5. CASE k.owner[m] # t
      <4>1. r.priority[k.owner[m]] = k.priority[k.owner[m]] /\ k.priority[k.owner[m]] \in Int
        BY <1>1, <1>2, <3>1, <3>5
      <4>. QED BY <3>1, <3>2, <4>1
    <3>. QED BY <3>3, <3>4, <3>5
  <2>3. Flagged(r) /\ Listed(r)
    BY <1>2, <1>3 DEF Flagged, Listed
  <2>. QED BY <2>1, <2>2, <2>3 DEF Fine, Urgent
<1>4. Fine(k) => Fine(r)
  BY <1>0, <1>3 DEF Fine, Urgent, Based, BasedBut
<1>6. p = osInheritedPriority(k, t)
  BY DEF p
<1>. QED
  BY <1>3, <1>4, <1>6

----------------------------------------------------------------------------
\* The scheduler.

\* osSchedule, whoever it switches to.
LEMMA Schedule ==
  ASSUME NEW k, KernelInv(k), NEW yield \in {0, 1}
  PROVE  LET r == osSchedule(k, yield)
         IN  /\ KernelInv(r) /\ Top(r) /\ Kept(r, k) /\ Unaffected(r, k)
             /\ r = k \/ Eased(r, osSettle(k, k.current))
<1>. DEFINE task == k.current
            s == osSettle(k, task)
            settled == SetState(s, task, "READY")
            key == settled.priority[task] + 1 - yield
            ready == [settled EXCEPT !.readyList = osListInsert(settled, settled.readyList, task, key)]
<1>0. k \in KernelState /\ task \in Thread /\ k.state[task] = "RUNNING"
      /\ k.state \in [Thread -> TaskState]
  BY DEF KernelInv, Lists, KernelState, CurrentExact
<1>. HIDE DEF task
<1>1. /\ Lists(s) /\ s.state = k.state /\ s.current = k.current /\ Kept(s, k)
      /\ s.waitList = k.waitList /\ s.flags = k.flags
  BY <1>0, Settle DEF KernelInv, Reordered
<1>2. Off(s, task)
  BY <1>0, <1>1, NotListed
<1>11. key \in Keys(s, task)
  <2>. HIDE DEF s
  <2>1. s \in KernelState
    BY <1>1 DEF Lists
  <2>2. settled.priority = s.priority /\ s.priority[task] \in Nat
    BY <1>0, <2>1, KernelAssumption DEF SetState, KernelState, Priority, MainPriority
  <2>. QED BY <2>2 DEF Keys
<1>13. settled.priority = s.priority
  <2>. HIDE DEF s
  <2>1. s \in KernelState
    BY <1>1 DEF Lists
  <2>. QED BY <2>1 DEF SetState, KernelState
<1>12. ~osScheduleNeeded(k, yield) => Top(k)
  <2>. SUFFICES ASSUME ~osScheduleNeeded(k, yield), NEW t \in ToSet(k.readyList)
                PROVE  k.priority[t] <= k.priority[task]
    BY DEF Top, task
  <2>. DEFINE h == Head(k.readyList)
  <2>1. k.readyList \in Seq(Thread) /\ Sorted(k, k.readyList)
    BY <1>0 DEF KernelInv, Lists, Ordered, KernelState
  <2>2. k.readyList # << >>
    BY DEF ToSet
  <2>3. k.priority[t] <= k.priority[h] /\ h \in Thread /\ t \in Thread
    BY <1>0, <2>1, <2>2, TailSorted DEF ToSet
  <2>4. \A u \in Thread : k.priority[u] \in Nat
    BY <1>0, KernelAssumption DEF KernelState, Priority, MainPriority
  <2>5. ~(k.priority[h] + yield > k.priority[task])
    BY <2>2 DEF osScheduleNeeded, task
  <2>. HIDE DEF h
  <2>. QED BY <1>0, <2>3, <2>4, <2>5
<1>. HIDE DEF s, key, settled
<1>3. Lists(ready) /\ ready.state = [k.state EXCEPT ![task] = "READY"]
  <2>1. LET q == [SetState(s, task, "READY") EXCEPT !.readyList = osListInsert(settled, @, task, key)]
        IN  Lists(q) /\ q.state = [s.state EXCEPT ![task] = "READY"]
    BY <1>0, <1>2, <1>11, <1>13, Ready
  <2>. QED BY <1>1, <2>1 DEF settled
<1>4. /\ Kept(ready, k) /\ ready.waitList = k.waitList
      /\ ready.flags = [k.flags EXCEPT ![task] = {}] /\ ready.priority = s.priority
  <2>1. s \in KernelState
    BY <1>1 DEF Lists
  <2>. QED BY <1>1, <2>1 DEF SetState, KernelState, settled
<1>5. osSchedule(k, yield) = IF osScheduleNeeded(k, yield) THEN osDispatch(ready) ELSE k
  BY DEF osSchedule, task, s, key, settled
<1>. HIDE DEF ready
<1>6. Parting(ready)
  BY <1>0, <1>3 DEF Parting, KernelInv, CurrentExact, Thread, task
<1>. DEFINE r == osDispatch(ready)
<1>7. KernelInv(r) /\ Top(r) /\ Kept(r, k) /\ Unaffected(r, ready) /\ Eased(r, ready)
  BY <1>4, <1>6, Dispatch
<1>. HIDE DEF r
<1>8. Unaffected(ready, k)
  BY <1>0, <1>3, <1>4 DEF Unaffected, Same
<1>9. Unaffected(r, k)
  BY <1>7, <1>8 DEF Unaffected, Same
<1>10. Unaffected(k, k)
  BY DEF Unaffected, Same
<1>14. Eased(ready, s)
  <2>1. k.flags \in [Thread -> SUBSET Flag] /\ k.flags[task] = {}
    BY <1>0 DEF KernelInv, Lists, TimerListExact, KernelState
  <2>. QED BY <1>1, <1>4, <2>1 DEF Eased, WaitEased
<1>15. Eased(r, s)
  BY <1>7, <1>14, EasedTwice
<1>. QED
  BY <1>5, <1>7, <1>9, <1>10, <1>12, <1>15 DEF r, s, task

\* osBlock, called with the current task on no list.
LEMMA Block ==
  ASSUME NEW k, NEW list \in Object \cup {NULL}, NEW timeout \in OsTick,
         Off(k, k.current), CurrentExact(k), "TIMED" \notin k.flags[k.current],
         k.state[osIdleTask] \in {"RUNNING", "READY"}
  PROVE  LET r == osBlock(k, list, timeout)
             task == k.current
         IN  /\ KernelInv(r)
             /\ task = osIdleTask => Unaffected(r, k) /\ (Top(k) => Top(r)) /\ Eased(r, k)
             /\ task # osIdleTask =>
                  /\ Top(r) /\ Settled(r, k, task)
                  /\ Only(r, k, task) /\ r.mutexes = k.mutexes
                  /\ r.state[task] = "BLOCKED" /\ r.waitList[task] = list
<1>. DEFINE task == k.current
<1>0. k \in KernelState /\ task \in Thread /\ k.state[task] = "RUNNING"
      /\ k.state \in [Thread -> TaskState]
      /\ osIdleTask \in Thread
  BY DEF Off, KernelState, CurrentExact, Thread
<1>1. CASE task = osIdleTask
  <2>. DEFINE r == SetState(k, task, "RUNNING")
  <2>1. Lists(r)
    BY <1>0, SetStateOff DEF TaskState
  <2>2. r.current = k.current /\ r.state = [k.state EXCEPT ![task] = "RUNNING"]
        /\ Kept(r, k) /\ r.waitList = k.waitList
        /\ r.readyList = k.readyList /\ r.priority = k.priority
        /\ r.flags = [k.flags EXCEPT ![task] = {}]
    BY <1>0 DEF SetState, KernelState
  <2>. HIDE DEF r
  <2>3. CurrentExact(r) /\ r.state[osIdleTask] = "RUNNING"
    BY <1>0, <1>1, <2>2 DEF CurrentExact
  <2>4. osBlock(k, list, timeout) = r
    BY <1>1 DEF osBlock, r
  <2>5. Unaffected(r, k)
    BY <1>0, <2>2 DEF Unaffected, Same
  <2>6. Top(k) => Top(r)
    BY <2>2 DEF Top
  <2>7. Eased(r, k)
    <3>1. k.flags \in [Thread -> SUBSET Flag] /\ k.waitList[task] = NULL
      BY <1>0 DEF KernelState, Off
    <3>. QED BY <1>0, <2>2, <3>1 DEF Eased, WaitEased
  <2>. QED BY <1>1, <2>1, <2>3, <2>4, <2>5, <2>6, <2>7 DEF KernelInv
<1>2. CASE task # osIdleTask
  <2>. DEFINE s == osSettle(k, task)
              waiters == [o \in Object |->
                            IF o = list
                            THEN osListInsert(s, s.waiters[o], task, s.priority[task])
                            ELSE s.waiters[o]]
              blocked == [s EXCEPT !.state[task] = "BLOCKED", !.waitList[task] = list,
                                   !.waiters = waiters]
              timer == [task |-> task, wake |-> (blocked.ticks + timeout) % OS_TICKS]
              timed == IF timeout = OS_WAIT_FOREVER THEN blocked
                       ELSE osTimerListInsert(blocked, task, timeout)
  <2>. HIDE DEF task
  <2>1. /\ s \in KernelState
        /\ s.state = k.state /\ s.waitList = k.waitList /\ s.waiters = k.waiters
        /\ s.flags = k.flags /\ s.readyList = k.readyList /\ s.timerList = k.timerList
        /\ Kept(s, k)
        /\ \A u \in Thread \ {task} : s.priority[u] = k.priority[u]
    <3>1. osInheritedPriority(k, task) \in Priority
      BY <1>0, InheritedType
    <3>. QED BY <1>0, <3>1 DEF osSettle, KernelState
  <2>. HIDE DEF s
  <2>13. Ordered(s)
    <3>1. task \notin ToSet(k.readyList) /\ \A o \in Object : task \notin ToSet(k.waiters[o])
      BY KernelAssumption DEF Off, task
    <3>2. Ordered(k) /\ k \in KernelState
      BY DEF Off
    <3>. QED BY <2>1, <3>1, <3>2, OrderedSame
  <2>2. /\ waiters \in [Object -> Seq(Thread)]
        /\ \A o \in Object : /\ ToSet(waiters[o]) = {u \in Thread : k.waitList[u] = o}
                                                      \cup (IF o = list THEN {task} ELSE {})
                             /\ Injective(waiters[o]) /\ Sorted(s, waiters[o])
    <3>0. /\ NULL \notin Object
          /\ s.waiters \in [Object -> Seq(Thread)]
          /\ \A o \in Object : /\ ToSet(s.waiters[o]) = {u \in Thread : k.waitList[u] = o}
                               /\ Injective(s.waiters[o]) /\ Sorted(s, s.waiters[o])
      BY <2>1, <2>13, KernelAssumption DEF KernelState, Off, Ordered
    <3>1. ASSUME NEW o \in Object
          PROVE  /\ waiters[o] \in Seq(Thread)
                 /\ ToSet(waiters[o]) = {u \in Thread : k.waitList[u] = o}
                                          \cup (IF o = list THEN {task} ELSE {})
                 /\ Injective(waiters[o]) /\ Sorted(s, waiters[o])
      <4>. DEFINE w == osListInsert(s, s.waiters[o], task, s.priority[task])
      <4>1. /\ w \in Seq(Thread) /\ ToSet(w) = ToSet(s.waiters[o]) \cup {task}
            /\ Injective(w) /\ Sorted(s, w)
        <5>1. k.waitList[task] = NULL
          BY DEF Off, task
        <5>2. task \notin ToSet(s.waiters[o])
          BY <3>0, <5>1
        <5>3. s.waiters[o] \in Seq(Thread) /\ Injective(s.waiters[o]) /\ task \in Thread
          BY <1>0, <3>0
        <5>5. Sorted(s, w)
          BY <2>1, <3>0, <5>3, InsertSorted
        <5>. DEFINE l == s.waiters[o]
                    p == s.priority[task]
        <5>. HIDE DEF l, p
        <5>4. LET r == osListInsert(s, l, task, p)
              IN  r \in Seq(Thread) /\ ToSet(r) = ToSet(l) \cup {task} /\ Injective(r)
          BY <5>2, <5>3, ListInsert DEF l
        <5>. QED BY <5>4, <5>5 DEF l, p
      <4>2. waiters[o] = IF o = list THEN w ELSE s.waiters[o]
        OBVIOUS
      <4>. HIDE DEF w, waiters
      <4>. QED BY <3>0, <4>1, <4>2
    <3>. QED BY <3>1
  <2>. HIDE DEF waiters
  <2>3. /\ blocked \in KernelState
        /\ blocked.state = [k.state EXCEPT ![task] = "BLOCKED"]
        /\ blocked.waitList = [k.waitList EXCEPT ![task] = list]
        /\ blocked.waiters = waiters
        /\ blocked.flags = k.flags /\ blocked.readyList = k.readyList
        /\ blocked.timerList = k.timerList /\ Kept(blocked, k)
        /\ blocked.priority = s.priority
    BY <1>0, <2>1, <2>2 DEF KernelState, TaskState
  <2>. HIDE DEF blocked
  <2>4. /\ timed \in KernelState
        /\ timed.state = blocked.state /\ timed.waitList = blocked.waitList
        /\ timed.waiters = waiters /\ timed.readyList = k.readyList /\ Kept(timed, blocked)
        /\ timed.priority = s.priority
        /\ Injective(timed.timerList)
        /\ \A a, b \in ToSet(timed.timerList) : a.task = b.task => a = b
        /\ OnTimer(timed) = {u \in Thread : "TIMED" \in timed.flags[u]}
        /\ \A u \in Thread \ {task} : timed.flags[u] = k.flags[u]
        /\ "MUTEX" \in timed.flags[task] <=> "MUTEX" \in k.flags[task]
    <3>1. /\ Injective(k.timerList)
          /\ \A a, b \in ToSet(k.timerList) : a.task = b.task => a = b
          /\ OnTimer(k) = {u \in Thread : "TIMED" \in k.flags[u]}
          /\ \A a \in ToSet(k.timerList) : a.task # task
          /\ k.flags \in [Thread -> SUBSET Flag]
      <4>1. OnTimer(k) = {u \in Thread : "TIMED" \in k.flags[u]} \ {task}
            /\ "TIMED" \notin k.flags[task]
        BY DEF Off, task
      <4>2. task \notin OnTimer(k)
        BY <4>1
      <4>3. \A a \in ToSet(k.timerList) : a.task # task
        BY <4>2 DEF OnTimer
      <4>. QED BY <4>1, <4>3 DEF Off, KernelState
    <3>2. CASE timeout = OS_WAIT_FOREVER
      BY <2>3, <3>1, <3>2 DEF OnTimer
    <3>3. CASE timeout # OS_WAIT_FOREVER
      <4>. DEFINE l == osTimerListInsert(blocked, task, timeout).timerList
      <4>1. /\ timed = [blocked EXCEPT !.timerList = l,
                                       !.flags[task] = blocked.flags[task] \cup {"TIMED"}]
            /\ timer \in TimerEntry
            /\ l \in Seq(TimerEntry)
            /\ ToSet(l) = ToSet(k.timerList) \cup {timer}
            /\ Injective(l)
        <5>1. timer \notin ToSet(k.timerList)
          BY <3>1
        <5>2. Injective(blocked.timerList) /\ timer \notin ToSet(blocked.timerList)
          BY <2>3, <3>1, <5>1
        <5>. HIDE DEF timer
        <5>3. /\ osTimerListInsert(blocked, task, timeout)
                   = [blocked EXCEPT !.timerList = l,
                                     !.flags[task] = blocked.flags[task] \cup {"TIMED"}]
              /\ timer \in TimerEntry
              /\ l \in Seq(TimerEntry)
              /\ ToSet(l) = ToSet(blocked.timerList) \cup {timer}
              /\ Injective(l)
          <6>1. blocked \in KernelState /\ task \in Thread
            BY <1>0, <2>3
          <6>. HIDE DEF l
          <6>2. LET r == osTimerListInsert(blocked, task, timeout)
                IN  /\ r = [blocked EXCEPT !.timerList = r.timerList,
                                     !.flags[task] = blocked.flags[task] \cup {"TIMED"}]
                    /\ timer \in TimerEntry
                    /\ r.timerList \in Seq(TimerEntry)
                    /\ ToSet(r.timerList) = ToSet(blocked.timerList) \cup {timer}
                    /\ Injective(blocked.timerList) /\ timer \notin ToSet(blocked.timerList)
                         => Injective(r.timerList)
            BY <6>1, TimerListInsert DEF timer
          <6>. QED BY <5>2, <6>2 DEF l
        <5>. QED BY <2>3, <3>3, <5>3
      <4>2. timer.task = task
        OBVIOUS
      <4>. HIDE DEF l, timer, timed
      <4>3. /\ timed \in KernelState
            /\ timed.state = blocked.state /\ timed.waitList = blocked.waitList
            /\ timed.waiters = blocked.waiters /\ timed.readyList = blocked.readyList
            /\ timed.timerList = l /\ Kept(timed, blocked) /\ timed.priority = blocked.priority
            /\ timed.flags = [blocked.flags EXCEPT ![task] = blocked.flags[task] \cup {"TIMED"}]
        BY <1>0, <2>3, <4>1 DEF KernelState, Flag, TimerEntry
      <4>4. OnTimer(timed) = OnTimer(k) \cup {task}
        BY <4>1, <4>2, <4>3 DEF OnTimer
      <4>5. {u \in Thread : "TIMED" \in timed.flags[u]}
              = {u \in Thread : "TIMED" \in k.flags[u]} \cup {task}
        BY <1>0, <2>3, <3>1, <4>3
      <4>6. \A a, b \in ToSet(timed.timerList) : a.task = b.task => a = b
        BY <3>1, <4>1, <4>2, <4>3
      <4>. QED BY <1>0, <2>3, <3>1, <4>1, <4>3, <4>4, <4>5, <4>6
    <3>. QED BY <3>2, <3>3
  <2>. HIDE DEF timed
  <2>5. ReadyListExact(timed)
    BY <1>0, <2>3, <2>4 DEF ReadyListExact, Off, task
  <2>6. TimerListExact(timed)
    <3>1. \A t \in Thread : timed.flags[t] # {} => timed.state[t] = "BLOCKED"
      BY <1>0, <2>3, <2>4 DEF Off, task
    <3>. QED BY <2>4, <3>1 DEF TimerListExact
  <2>7. WaitListsExact(timed)
    <3>0. k.waitList \in [Thread -> Object \cup {NULL}] /\ NULL \notin Object /\ k.waitList[task] = NULL
      BY KernelAssumption DEF Off, KernelState, task
    <3>1. \A t \in Thread : timed.waitList[t] # NULL => timed.state[t] = "BLOCKED"
      BY <1>0, <2>3, <2>4, <3>0 DEF Off
    <3>2. \A o \in Object : ToSet(timed.waiters[o]) = {u \in Thread : timed.waitList[u] = o}
                            /\ Injective(timed.waiters[o])
      BY <1>0, <2>2, <2>3, <2>4, <3>0
    <3>. QED BY <3>1, <3>2 DEF WaitListsExact
  <2>8. Parting(timed)
    <3>1. \A t \in Thread : timed.state[t] # "RUNNING"
      BY <1>0, <2>3, <2>4 DEF CurrentExact, task
    <3>2. timed.state[osIdleTask] = "READY"
      BY <1>0, <1>2, <2>3, <2>4 DEF CurrentExact, task
    <3>3. Ordered(timed)
      BY <2>1, <2>2, <2>4, <2>13 DEF Ordered, Sorted
    <3>. QED BY <2>4, <2>5, <2>6, <2>7, <3>1, <3>2, <3>3 DEF Parting, Lists
  <2>9. osBlock(k, list, timeout) = osDispatch(timed)
    BY <1>2 DEF osBlock, timed, blocked, waiters, s, task
  <2>. DEFINE r == osDispatch(timed)
  <2>10. KernelInv(r) /\ Top(r) /\ Kept(r, timed) /\ Unaffected(r, timed) /\ Eased(r, timed)
        /\ r.flags[task] = timed.flags[task]
    <3>1. timed.state[task] # "READY"
      BY <1>0, <2>3, <2>4
    <3>. QED BY <1>0, <2>8, <3>1, Dispatch
  <2>. HIDE DEF r
  <2>11. Only(r, k, task) /\ r.mutexes = k.mutexes
    <3>1. k.waitList \in [Thread -> Object \cup {NULL}]
      BY <1>0 DEF KernelState
    <3>2. \A u \in Thread \ {task} : Same(timed, k, u)
      BY <1>0, <2>3, <2>4, <3>1 DEF Same
    <3>3. Only(timed, k, task) /\ r.mutexes = k.mutexes
      BY <2>3, <2>4, <2>10, <3>2 DEF Only
    <3>. QED BY <1>0, <2>10, <3>3, Transitive
  <2>12. r.state[task] = "BLOCKED" /\ r.waitList[task] = list
    <3>1. k.waitList \in [Thread -> Object \cup {NULL}]
      BY <1>0 DEF KernelState
    <3>2. timed.state[task] = "BLOCKED" /\ timed.waitList[task] = list
      BY <1>0, <2>3, <2>4, <3>1
    <3>. QED BY <1>0, <2>10, <3>2 DEF Unaffected, Same
  <2>14. Settled(r, k, task)
    <3>1. k.waitList \in [Thread -> Object \cup {NULL}]
      BY <1>0 DEF KernelState
    <3>2. r.priority = s.priority /\ r.basePriority = k.basePriority
      BY <2>1, <2>3, <2>4, <2>10 DEF Eased
    <3>3. "MUTEX" \in r.flags[task] <=> "MUTEX" \in k.flags[task]
      BY <2>4, <2>10
    <3>4. ASSUME NEW u \in Thread \ {task} PROVE WaitEased(r, k, u)
      <4>1. WaitEased(r, timed, u)
        BY <2>10 DEF Eased
      <4>2. timed.flags[u] = k.flags[u] /\ timed.waitList[u] = k.waitList[u]
        BY <2>3, <2>4, <3>1
      <4>. QED BY <4>1, <4>2 DEF WaitEased
    <3>. QED BY <3>2, <3>3, <3>4 DEF Settled, s
  <2>. QED BY <1>2, <2>9, <2>10, <2>11, <2>12, <2>14 DEF r, task
<1>. QED
  BY <1>1, <1>2

----------------------------------------------------------------------------
\* The tick.

\* A task that is woken up does not disturb the current one.
LEMMA WakeBlocked ==
  ASSUME NEW k, KernelInv(k), NEW t \in Thread, k.state[t] = "BLOCKED", NEW result \in BOOLEAN
  PROVE  LET r == osWake(k, t, result)
         IN  /\ KernelInv(r)
             /\ r.state = [k.state EXCEPT ![t] = "READY"]
             /\ r.current = k.current /\ r.owner = k.owner /\ r.mutexes = k.mutexes
             /\ r.result = [k.result EXCEPT ![t] = result]
             /\ r.waitList = [k.waitList EXCEPT ![t] = NULL]
             /\ \A a \in ToSet(k.timerList) : a.task # t => a \in ToSet(r.timerList)
             /\ Eased(r, k)
<1>. DEFINE r == osWake(k, t, result)
<1>1. /\ Lists(r)
      /\ r.state = [k.state EXCEPT ![t] = "READY"]
      /\ r.current = k.current /\ r.owner = k.owner /\ r.mutexes = k.mutexes
      /\ r.result = [k.result EXCEPT ![t] = result]
      /\ r.waitList = [k.waitList EXCEPT ![t] = NULL]
      /\ \A a \in ToSet(k.timerList) : a.task # t => a \in ToSet(r.timerList)
      /\ Eased(r, k)
  <2>1. Lists(k) /\ k.state[t] # "READY"
    BY DEF KernelInv
  <2>. HIDE DEF r
  <2>2. LET q == osWake(k, t, result)
        IN  /\ Lists(q)
            /\ q.state = [k.state EXCEPT ![t] = "READY"]
            /\ q.current = k.current /\ q.owner = k.owner /\ q.mutexes = k.mutexes
            /\ q.result = [k.result EXCEPT ![t] = result]
            /\ q.waitList = [k.waitList EXCEPT ![t] = NULL]
            /\ \A a \in ToSet(k.timerList) : a.task # t => a \in ToSet(q.timerList)
            /\ Eased(q, k)
    BY <2>1, Wake
  <2>. QED BY <2>2 DEF r
<1>2. k.state \in [Thread -> TaskState] /\ osIdleTask \in Thread
  BY DEF KernelInv, Lists, KernelState, Thread
<1>. HIDE DEF r
<1>3. CurrentExact(r)
  BY <1>1, <1>2 DEF KernelInv, CurrentExact
<1>4. r.state[osIdleTask] \in {"RUNNING", "READY"}
  BY <1>1, <1>2 DEF KernelInv
<1>. QED
  BY <1>1, <1>3, <1>4 DEF KernelInv, r

\* Waking up the tasks of a list one after the other is well defined.
IsWoken(f, n, first, L) ==
  f = [i \in 0 .. n |-> IF i = 0 THEN first ELSE osWake(f[i - 1], L[i].task, FALSE)]

LEMMA WokenExists ==
  ASSUME NEW n \in Nat, NEW first, NEW L
  PROVE  \E f : IsWoken(f, n, first, L)
<1>. USE DEF IsWoken
<1>. DEFINE Exists(m) == \E f : IsWoken(f, m, first, L)
<1>1. Exists(0)
  <2>. DEFINE f == [i \in 0 .. 0 |-> first]
  <2>1. f = [i \in 0 .. 0 |-> IF i = 0 THEN first ELSE osWake(f[i - 1], L[i].task, FALSE)]
    OBVIOUS
  <2>2. IsWoken(f, 0, first, L)
    BY <2>1
  <2>. QED BY <2>2
<1>2. ASSUME NEW m \in Nat, m # 0, Exists(m - 1)
      PROVE  Exists(m)
  <2>1. PICK g : IsWoken(g, m - 1, first, L)
    BY <1>2
  <2>. DEFINE last == osWake(g[m - 1], L[m].task, FALSE)
              f == [i \in 0 .. m |-> IF i < m THEN g[i] ELSE last]
  <2>. HIDE DEF last
  <2>2. \A i \in 0 .. m : f[i] = IF i < m THEN g[i] ELSE last
    OBVIOUS
  <2>3. f = [i \in 0 .. m |-> f[i]]
    OBVIOUS
  <2>. HIDE DEF f
  <2>4. ASSUME NEW i \in 0 .. m
        PROVE  f[i] = IF i = 0 THEN first ELSE osWake(f[i - 1], L[i].task, FALSE)
    <3>1. CASE i = m
      <4>1. m - 1 \in 0 .. m /\ m - 1 < m /\ ~(m < m) /\ i # 0
        BY <1>2, <3>1
      <4>2. f[i] = last /\ f[i - 1] = g[m - 1]
        BY <2>2, <3>1, <4>1
      <4>. QED BY <3>1, <4>1, <4>2 DEF last
    <3>2. CASE i # m
      <4>1. i \in 0 .. m - 1 /\ i < m /\ (i # 0 => i - 1 \in 0 .. m /\ i - 1 < m)
        BY <1>2, <3>2
      <4>2. g[i] = IF i = 0 THEN first ELSE osWake(g[i - 1], L[i].task, FALSE)
        BY <2>1, <4>1
      <4>3. f[i] = g[i] /\ (i # 0 => f[i - 1] = g[i - 1])
        BY <2>2, <4>1
      <4>. QED BY <4>2, <4>3
    <3>. QED BY <3>1, <3>2
  <2>5. IsWoken(f, m, first, L)
    BY <2>3, <2>4
  <2>. QED BY <2>5
<1>. HIDE DEF Exists
<1>3. \A m \in Nat : Exists(m)
  <2>. DEFINE D == {m \in Nat : ~Exists(m)}
  <2>1. SUFFICES ASSUME D # {} PROVE FALSE
    BY <2>1
  <2>2. PICK m \in D : \A i \in D : m <= i
    BY <2>1, MinIsLeast
  <2>3. m \in Nat /\ m # 0 /\ m - 1 \in Nat /\ m - 1 \notin D
    BY <1>1, <2>2
  <2>. QED BY <1>2, <2>2, <2>3
<1>. QED
  BY <1>3 DEF Exists

\* Whatever expires on a tick, the timeouts leave the kernel in order.
LEMMA Timeouts ==
  ASSUME NEW k, KernelInv(k)
  PROVE  LET r == TickTimeouts(k)
         IN  KernelInv(r) /\ r.current = k.current /\ Expired(r, k) /\ Eased(r, k)
<1>. DEFINE now == (k.ticks + 1) % OS_TICKS
            L == k.timerList
            I == {i \in 1 .. Len(L) : L[i].wake # now}
            later == SelectInSeq(L, LAMBDA it : it.wake # now)
            due == IF later = 0 THEN Len(L) ELSE later - 1
            first == [k EXCEPT !.ticks = now]
            woken[i \in 0 .. due] ==
              IF i = 0 THEN first ELSE osWake(woken[i - 1], L[i].task, FALSE)
<1>1. TickTimeouts(k) = woken[due]
  BY DEF TickTimeouts
<1>2. L \in Seq(TimerEntry) /\ Len(L) \in Nat
  BY DEF KernelInv, Lists, KernelState, TimerEntry
<1>3. due \in 0 .. Len(L)
  <2>1. later = IF I # {} THEN Min(I) ELSE 0
    BY DEF SelectInSeq
  <2>2. I # {} => Min(I) \in 1 .. Len(L)
    <3>1. I \in SUBSET (1 .. Len(L))
      OBVIOUS
    <3>. QED BY <1>2, <3>1, LeastIndex
  <2>. HIDE DEF I, later
  <2>. QED BY <1>2, <2>1, <2>2
<1>4. KernelInv(first) /\ first.timerList = L /\ first.current = k.current
      /\ Expired(first, k) /\ Eased(first, k)
  <2>1. now \in OsTick
    <3>1. k.ticks \in Nat /\ OS_TICKS \in Nat \ {0}
      BY KernelAssumption DEF KernelInv, Lists, KernelState, OsTick
    <3>. QED BY <3>1 DEF OsTick
  <2>. HIDE DEF now
  <2>2. /\ first \in KernelState /\ first.state = k.state /\ first.current = k.current
        /\ first.flags = k.flags /\ first.readyList = k.readyList
        /\ first.waitList = k.waitList /\ first.waiters = k.waiters /\ first.timerList = k.timerList
        /\ Kept(first, k) /\ first.priority = k.priority
    BY <2>1 DEF KernelInv, Lists, KernelState
  <2>. HIDE DEF first
  <2>3. KernelInv(first)
    BY <2>2, Unmoved DEF KernelInv, CurrentExact
  <2>4. Expired(first, k)
    BY <2>2 DEF Expired, Same
  <2>5. Eased(first, k)
    BY <2>2 DEF Eased, WaitEased
  <2>. QED BY <2>2, <2>3, <2>4, <2>5
<1>. HIDE DEF due, first, now
<1>5. woken = [i \in 0 .. due |-> IF i = 0 THEN first ELSE osWake(woken[i - 1], L[i].task, FALSE)]
  <2>1. due \in Nat
    BY <1>2, <1>3
  <2>2. \E f : IsWoken(f, due, first, L)
    BY <2>1, WokenExists
  <2>3. \E f : f = [i \in 0 .. due |-> IF i = 0 THEN first ELSE osWake(f[i - 1], L[i].task, FALSE)]
    BY <2>2 DEF IsWoken
  <2>. QED BY <2>3
<1>. HIDE DEF woken
<1>. DEFINE Inv(i) == /\ KernelInv(woken[i]) /\ woken[i].current = k.current
                      /\ Expired(woken[i], k) /\ Eased(woken[i], k)
                      /\ \A j \in i + 1 .. Len(L) : L[j] \in ToSet(woken[i].timerList)
<1>6. Inv(0)
  <2>1. woken[0] = first
    BY <1>3, <1>5
  <2>2. \A j \in 1 .. Len(L) : L[j] \in ToSet(L)
    BY <1>2, InToSet
  <2>. QED BY <1>4, <2>1, <2>2
<1>7. ASSUME NEW i \in 1 .. due, Inv(i - 1)
      PROVE  Inv(i)
  <2>. DEFINE s == woken[i - 1]
              t == L[i].task
  <2>0. i \in 1 .. Len(L) /\ i \in 0 .. due /\ i # 0 /\ (i - 1) + 1 = i
    BY <1>2, <1>3
  <2>1. woken[i] = osWake(s, t, FALSE)
    BY <1>5, <2>0
  <2>2. L[i] \in ToSet(s.timerList)
    BY <1>7, <2>0
  <2>3. t \in Thread
    <3>1. L[i] \in TimerEntry
      <4>. HIDE DEF L
      <4>. QED BY <1>2, <2>0
    <3>. QED BY <3>1 DEF TimerEntry
  <2>4. KernelInv(s) /\ s.current = k.current /\ Expired(s, k) /\ Eased(s, k)
    BY <1>7
  <2>5. s.state[t] = "BLOCKED"
    <3>1. t \in OnTimer(s)
      BY <2>2 DEF OnTimer
    <3>2. "TIMED" \in s.flags[t]
      BY <2>4, <3>1 DEF KernelInv, Lists, TimerListExact
    <3>. QED BY <2>3, <2>4, <3>2 DEF KernelInv, Lists, TimerListExact
  <2>6. ASSUME NEW j \in i + 1 .. Len(L)
        PROVE  L[j] \in ToSet(s.timerList) /\ L[j].task # t
    <3>1. j \in (i - 1) + 1 .. Len(L) /\ j \in 1 .. Len(L) /\ j # i
      BY <1>2, <2>0
    <3>2. L[j] # L[i] /\ L[i] \in ToSet(L) /\ L[j] \in ToSet(L)
      BY <1>2, <2>0, <3>1, InToSet DEF KernelInv, Lists, TimerListExact, Injective
    <3>. QED BY <1>7, <3>1, <3>2 DEF KernelInv, Lists, TimerListExact
  <2>. HIDE DEF s, t, L
  <2>. DEFINE r == osWake(s, t, FALSE)
  <2>. HIDE DEF r
  <2>7. /\ KernelInv(r)
        /\ r.state = [s.state EXCEPT ![t] = "READY"]
        /\ r.current = s.current /\ r.owner = s.owner /\ r.mutexes = s.mutexes
        /\ r.result = [s.result EXCEPT ![t] = FALSE]
        /\ r.waitList = [s.waitList EXCEPT ![t] = NULL]
        /\ \A a \in ToSet(s.timerList) : a.task # t => a \in ToSet(r.timerList)
        /\ Eased(r, s)
    <3>1. LET q == osWake(s, t, FALSE)
          IN  /\ KernelInv(q)
              /\ q.state = [s.state EXCEPT ![t] = "READY"]
              /\ q.current = s.current /\ q.owner = s.owner /\ q.mutexes = s.mutexes
              /\ q.result = [s.result EXCEPT ![t] = FALSE]
              /\ q.waitList = [s.waitList EXCEPT ![t] = NULL]
              /\ \A a \in ToSet(s.timerList) : a.task # t => a \in ToSet(q.timerList)
              /\ Eased(q, s)
      BY <2>3, <2>4, <2>5, WakeBlocked
    <3>. QED BY <3>1 DEF r
  <2>8. Expired(r, k)
    <3>1. s \in KernelState
      BY <2>4 DEF KernelInv, Lists
    <3>2. k.state[t] = "BLOCKED" /\ InVain(r, t)
      BY <2>3, <2>4, <2>5, <2>7, <3>1 DEF Expired, Same, InVain, KernelState
    <3>3. ASSUME NEW u \in Thread, u # t
          PROVE  Same(r, k, u) \/ (k.state[u] = "BLOCKED" /\ InVain(r, u))
      BY <2>4, <2>7, <3>1, <3>3 DEF Expired, Same, InVain, KernelState
    <3>. QED BY <2>4, <2>7, <3>2, <3>3 DEF Expired
  <2>9. Eased(r, k)
    BY <2>4, <2>7, EasedTwice
  <2>. QED BY <2>1, <2>4, <2>6, <2>7, <2>8, <2>9 DEF r
<1>8. Inv(due)
  <2>. HIDE DEF Inv
  <2>. DEFINE D == {i \in 0 .. due : ~Inv(i)}
  <2>1. SUFFICES ASSUME D # {} PROVE FALSE
    BY <1>2, <1>3, <2>1
  <2>2. D \in SUBSET Nat
    OBVIOUS
  <2>3. PICK i \in D : \A j \in D : i <= j
    BY <2>1, <2>2, MinIsLeast
  <2>4. i # 0
    BY <1>6, <2>3
  <2>5. i \in 1 .. due /\ i - 1 \in 0 .. due /\ i - 1 \notin D
    BY <1>3, <2>3, <2>4
  <2>. QED BY <1>7, <2>3, <2>5
<1>. QED
  BY <1>1, <1>8

LEMMA ReorderedInv ==
  ASSUME NEW k, KernelInv(k), NEW r, Reordered(r, k)
  PROVE  KernelInv(r) /\ Unaffected(r, k)
BY DEF KernelInv, Reordered, CurrentExact, Unaffected, Same

\* Aging raises nobody above OS_CFG_AGING_LIMIT.
LEMMA AgingInv ==
  ASSUME NEW k, KernelInv(k)
  PROVE  KernelInv(TickAging(k)) /\ Unaffected(TickAging(k), k)
<1>. DEFINE s == osSettle(k, k.current)
            older == [s EXCEPT !.aging = s.aging - 1]
            priority == [t \in Thread |-> IF Aged(s, t) THEN s.priority[t] + 1 ELSE s.priority[t]]
            aged == [s EXCEPT !.aging = OS_CFG_AGING_TICKS, !.priority = priority]
<1>1. KernelInv(s) /\ Unaffected(s, k)
  <2>1. k.current \in Thread /\ k.state[k.current] = "RUNNING"
    BY DEF KernelInv, Lists, KernelState, CurrentExact
  <2>2. Reordered(s, k)
    BY <2>1, Settle DEF KernelInv
  <2>. QED BY <2>2, ReorderedInv
<1>2. TickAging(k) = IF ~OS_CFG_AGING THEN k ELSE IF s.aging > 1 THEN older ELSE aged
  BY DEF TickAging
<1>. HIDE DEF s
<1>3. ASSUME NEW r \in KernelState,
             r.state = s.state, r.current = s.current, r.flags = s.flags,
             r.readyList = s.readyList, r.waitList = s.waitList, r.waiters = s.waiters,
             r.timerList = s.timerList, Kept(r, s), Ordered(r)
      PROVE  KernelInv(r) /\ Unaffected(r, k)
  <2>1. KernelInv(r)
    BY <1>1, <1>3 DEF KernelInv, Lists, ReadyListExact, TimerListExact, WaitListsExact,
                      CurrentExact, OnTimer
  <2>2. Unaffected(r, s)
    BY <1>3 DEF Unaffected, Same
  <2>. QED BY <1>1, <2>1, <2>2, Transitive
<1>4. s.aging > 1 => KernelInv(older) /\ Unaffected(older, k)
  <2>1. ASSUME s.aging > 1
        PROVE  s.aging - 1 \in 1 .. OS_CFG_AGING_TICKS
    BY <1>1, <2>1, KernelAssumption DEF KernelInv, Lists, KernelState
  <2>2. ASSUME s.aging > 1
        PROVE  /\ older \in KernelState /\ older.state = s.state /\ older.current = s.current
               /\ older.flags = s.flags /\ older.readyList = s.readyList
               /\ older.waitList = s.waitList /\ older.waiters = s.waiters
               /\ older.timerList = s.timerList /\ Kept(older, s)
               /\ older.priority = s.priority
    BY <1>1, <2>1, <2>2 DEF KernelInv, Lists, KernelState
  <2>. HIDE DEF older
  <2>3. s.aging > 1 => Ordered(older)
    BY <1>1, <2>2, OrderedSame DEF KernelInv, Lists
  <2>. QED BY <1>3, <2>2, <2>3
<1>5. KernelInv(aged) /\ Unaffected(aged, k)
  <2>1. ASSUME NEW t \in Thread
        PROVE  (IF Aged(s, t) THEN s.priority[t] + 1 ELSE s.priority[t]) \in Priority
    <3>1. s.priority[t] \in Priority
      BY <1>1 DEF KernelInv, Lists, KernelState
    <3>2. Aged(s, t) => s.priority[t] < OS_CFG_AGING_LIMIT
      BY DEF Aged
    <3>. QED BY <3>1, <3>2, KernelAssumption DEF Priority, MainPriority
  <2>2. /\ priority \in [Thread -> Priority]
        /\ \A t \in Thread : priority[t] = IF Aged(s, t) THEN s.priority[t] + 1 ELSE s.priority[t]
    BY <2>1
  <2>. HIDE DEF priority
  <2>3. OS_CFG_AGING_TICKS \in 1 .. OS_CFG_AGING_TICKS
    BY KernelAssumption
  <2>4. /\ aged \in KernelState /\ aged.state = s.state /\ aged.current = s.current
        /\ aged.flags = s.flags /\ aged.readyList = s.readyList
        /\ aged.waitList = s.waitList /\ aged.waiters = s.waiters
        /\ aged.timerList = s.timerList /\ Kept(aged, s) /\ aged.priority = priority
    BY <1>1, <2>2, <2>3 DEF KernelInv, Lists, KernelState
  <2>. HIDE DEF aged
  <2>5. Ordered(aged)
    <3>0. /\ s.readyList \in Seq(Thread) /\ \A o \in Object : s.waiters[o] \in Seq(Thread)
          /\ Sorted(s, s.readyList) /\ \A o \in Object : Sorted(s, s.waiters[o])
          /\ \A t \in Thread : s.priority[t] \in Nat
          /\ s.priority[s.current] \in Nat
      <4>1. s \in KernelState /\ Ordered(s)
        BY <1>1 DEF KernelInv, Lists
      <4>2. s.priority \in [Thread -> Priority] /\ s.current \in Thread
        BY <4>1 DEF KernelState
      <4>3. s.readyList \in Seq(Thread) /\ \A o \in Object : s.waiters[o] \in Seq(Thread)
        BY <4>1 DEF KernelState
      <4>4. Priority \subseteq Nat
        BY KernelAssumption DEF Priority, MainPriority
      <4>. QED BY <4>1, <4>2, <4>3, <4>4 DEF Ordered
    <3>1. ASSUME NEW i \in 1 .. Len(s.readyList), NEW j \in 1 .. Len(s.readyList), i < j
          PROVE  priority[s.readyList[i]] >= priority[s.readyList[j]]
      <4>. DEFINE a == s.readyList[i]
                  b == s.readyList[j]
      <4>1. a \in Thread /\ b \in Thread /\ a \in ToSet(s.readyList)
        BY <3>0, InToSet
      <4>2. s.priority[a] >= s.priority[b]
        BY <3>0, <3>1 DEF Sorted
      <4>. HIDE DEF a, b
      <4>3. Aged(s, b) /\ s.priority[a] = s.priority[b] => Aged(s, a)
        BY <4>1 DEF Aged
      <4>4. priority[a] >= priority[b]
        BY <2>2, <3>0, <4>1, <4>2, <4>3
      <4>. QED BY <4>4 DEF a, b
    <3>2. ASSUME NEW o \in Object PROVE Sorted(aged, s.waiters[o])
      <4>1. ASSUME NEW t \in ToSet(s.waiters[o]) PROVE aged.priority[t] = s.priority[t]
        <5>1. t \in Thread /\ t \notin ToSet(s.readyList)
          BY <1>1, KernelAssumption DEF KernelInv, Lists, WaitListsExact, ReadyListExact
        <5>. QED BY <2>2, <2>4, <5>1 DEF Aged
      <4>. QED BY <3>0, <4>1, SortedSame
    <3>. QED BY <2>4, <3>1, <3>2 DEF Ordered, Sorted
  <2>. QED BY <1>3, <2>4, <2>5
<1>. HIDE DEF older, aged
<1>6. Unaffected(k, k)
  BY DEF Unaffected, Same
<1>. QED
  BY <1>2, <1>4, <1>5, <1>6

LEMMA TickHandler ==
  ASSUME NEW k, KernelInv(k)
  PROVE  KernelInv(osTickHandler(k)) /\ Top(osTickHandler(k)) /\ Expired(osTickHandler(k), k)
<1>. DEFINE late == TickTimeouts(k)
            aged == TickAging(late)
            r == osSchedule(aged, OS_CFG_ROUND_ROBIN)
<1>1. KernelInv(late) /\ Expired(late, k)
  BY Timeouts
<1>. HIDE DEF late
<1>2. KernelInv(aged) /\ Unaffected(aged, late)
  BY <1>1, AgingInv
<1>. HIDE DEF aged
<1>3. KernelInv(r) /\ Top(r) /\ Kept(r, aged) /\ Unaffected(r, aged)
  BY <1>2, Schedule, KernelAssumption
<1>. HIDE DEF r
<1>4. Unaffected(r, late)
  BY <1>2, <1>3, Transitive
<1>5. r.mutexes = k.mutexes
  <2>1. aged.mutexes = late.mutexes
    BY <1>1, <1>2 DEF KernelInv, Lists, KernelState, Unaffected, Same
  <2>. QED BY <1>1, <1>3, <2>1 DEF Expired
<1>6. Expired(r, k)
  BY <1>1, <1>4, <1>5 DEF Expired, Unaffected, Same, InVain
<1>. QED
  BY <1>3, <1>6 DEF osTickHandler, r, aged, late

----------------------------------------------------------------------------
\* Mutexes.

\* r is k after tasks that were waiting have been woken up.
Released(r, k) ==
  /\ Lists(r)
  /\ r.current = k.current
  /\ \A t \in Thread : \/ r.state[t] = k.state[t]
                       \/ k.state[t] = "BLOCKED" /\ r.state[t] = "READY"

\* The mutex is free, or it has been handed over to a task that waited for it.
HandedOver(r, k, m) ==
  \/ /\ \A t \in Thread : k.waitList[t] # m /\ Same(r, k, t)
     /\ r.owner = [k.owner EXCEPT ![m] = NULL]
  \/ \E w \in Thread :
       /\ k.waitList[w] = m
       /\ r.owner = [k.owner EXCEPT ![m] = w]
       /\ Given(r, w)
       /\ r.mutexes[w] = IF OS_CFG_MUTEX_INHERITANCE THEN <<m>> \o k.mutexes[w] ELSE k.mutexes[w]
       /\ \A t \in Thread \ {w} : Same(r, k, t)

\* osMutexPass: free, or handed over to the first task that waits.
LEMMA MutexPass ==
  ASSUME NEW k, Lists(k), NEW m \in Mutex
  PROVE  LET r == osMutexPass(k, m)
         IN  /\ Released(r, k) /\ HandedOver(r, k, m)
             /\ \A t \in Thread : k.state[t] # "BLOCKED" => r.mutexes[t] = k.mutexes[t]
<1>0. /\ m \in Object /\ k \in KernelState
      /\ k.waiters[m] \in Seq(Thread)
      /\ ToSet(k.waiters[m]) = {t \in Thread : k.waitList[t] = m}
      /\ Injective(k.waiters[m])
      /\ NULL \notin Object
      /\ k.mutexes \in [Thread -> Seq(Mutex)]
      /\ k.state \in [Thread -> TaskState]
  BY KernelAssumption DEF Lists, KernelState, WaitListsExact
<1>1. CASE k.waiters[m] = << >>
  <2>. DEFINE r == [k EXCEPT !.owner[m] = NULL]
  <2>1. /\ r \in KernelState /\ r.state = k.state /\ r.current = k.current
        /\ r.mutexes = k.mutexes /\ r.flags = k.flags /\ r.readyList = k.readyList
        /\ r.waitList = k.waitList /\ r.waiters = k.waiters /\ r.timerList = k.timerList
        /\ r.priority = k.priority /\ r.result = k.result
        /\ r.owner = [k.owner EXCEPT ![m] = NULL]
    BY <1>0 DEF KernelState
  <2>2. osMutexPass(k, m) = r
    BY <1>1 DEF osMutexPass
  <2>. HIDE DEF r
  <2>3. Lists(r)
    BY <2>1, Unmoved
  <2>4. \A t \in Thread : k.waitList[t] # m
    BY <1>0, <1>1 DEF ToSet
  <2>5. HandedOver(r, k, m)
    BY <2>1, <2>4 DEF HandedOver, Same
  <2>. QED BY <2>1, <2>2, <2>3, <2>5 DEF Released
<1>2. CASE k.waiters[m] # << >>
  <2>. DEFINE w == Head(k.waiters[m])
              s == osMutexOwn(k, m, w)
              r == osWake(s, w, TRUE)
  <2>1. w \in Thread /\ w \in ToSet(k.waiters[m])
    BY <1>0, <1>2, HeadTail
  <2>2. osMutexPass(k, m) = r
    BY <1>2 DEF osMutexPass
  <2>. HIDE DEF w
  <2>3. k.state[w] = "BLOCKED"
    BY <1>0, <2>1 DEF Lists, WaitListsExact
  <2>. DEFINE q == IF OS_CFG_MUTEX_INHERITANCE THEN <<m>> \o k.mutexes[w] ELSE k.mutexes[w]
  <2>4. q \in Seq(Mutex)
    BY <1>0, <2>1
  <2>5. s = [k EXCEPT !.owner[m] = w, !.mutexes[w] = q]
    BY <1>0 DEF osMutexOwn, KernelState
  <2>. HIDE DEF q, s
  <2>6. /\ s \in KernelState /\ s.state = k.state /\ s.current = k.current
        /\ s.flags = k.flags /\ s.readyList = k.readyList
        /\ s.waitList = k.waitList /\ s.waiters = k.waiters /\ s.timerList = k.timerList
        /\ s.mutexes = [k.mutexes EXCEPT ![w] = q] /\ s.priority = k.priority
        /\ s.owner = [k.owner EXCEPT ![m] = w] /\ s.result = k.result
    BY <1>0, <2>1, <2>4, <2>5 DEF KernelState
  <2>7. Lists(s)
    BY <2>6, Unmoved
  <2>8. /\ Lists(r) /\ r.state = [k.state EXCEPT ![w] = "READY"]
        /\ r.current = k.current /\ r.mutexes = s.mutexes /\ r.owner = s.owner
        /\ r.result = [k.result EXCEPT ![w] = TRUE]
        /\ r.waitList = [k.waitList EXCEPT ![w] = NULL]
    <3>1. s.state[w] # "READY"
      BY <2>3, <2>6
    <3>. HIDE DEF r
    <3>2. ASSUME NEW result \in BOOLEAN
          PROVE  LET q1 == osWake(s, w, result)
                 IN  /\ Lists(q1) /\ q1.state = [s.state EXCEPT ![w] = "READY"]
                     /\ q1.current = s.current /\ q1.owner = s.owner /\ q1.mutexes = s.mutexes
                     /\ q1.result = [s.result EXCEPT ![w] = result]
                     /\ q1.waitList = [s.waitList EXCEPT ![w] = NULL]
                     /\ \A a \in ToSet(s.timerList) : a.task # w => a \in ToSet(q1.timerList)
      BY <2>1, <2>7, <3>1, Wake
    <3>. QED BY <2>6, <3>2 DEF r
  <2>. HIDE DEF r
  <2>9. ASSUME NEW t \in Thread
        PROVE  /\ \/ r.state[t] = k.state[t]
                  \/ k.state[t] = "BLOCKED" /\ r.state[t] = "READY"
               /\ k.state[t] # "BLOCKED" => r.mutexes[t] = k.mutexes[t]
    BY <1>0, <2>3, <2>6, <2>8
  <2>10. /\ k.waitList[w] = m /\ r.owner = [k.owner EXCEPT ![m] = w]
         /\ Given(r, w)
         /\ r.mutexes[w] = IF OS_CFG_MUTEX_INHERITANCE THEN <<m>> \o k.mutexes[w] ELSE k.mutexes[w]
         /\ \A t \in Thread \ {w} : Same(r, k, t)
    <3>1. k.result \in [Thread -> BOOLEAN] /\ k.waitList \in [Thread -> Object \cup {NULL}]
      BY <1>0 DEF KernelState
    <3>2. k.waitList[w] = m /\ Given(r, w)
      BY <1>0, <2>1, <2>8, <3>1 DEF Given
    <3>3. r.mutexes[w] = q
      BY <1>0, <2>1, <2>6, <2>8
    <3>4. \A t \in Thread \ {w} : Same(r, k, t)
      BY <1>0, <2>6, <2>8, <3>1 DEF Same
    <3>. QED BY <2>6, <2>8, <3>2, <3>3, <3>4 DEF q
  <2>11. HandedOver(r, k, m)
    BY <2>1, <2>10 DEF HandedOver
  <2>. QED BY <2>2, <2>8, <2>9, <2>11 DEF Released
<1>. QED
  BY <1>1, <1>2

\* Whoever gets the mutex is at least as important as those who still wait.
LEMMA PassUrgent ==
  ASSUME NEW k, Lists(k), Urgent(k), NEW m \in Mutex
  PROVE  Urgent(osMutexPass(k, m))
<1>0. /\ m \in Object /\ k \in KernelState
      /\ k.waiters[m] \in Seq(Thread)
      /\ ToSet(k.waiters[m]) = {t \in Thread : k.waitList[t] = m}
      /\ Injective(k.waiters[m]) /\ Sorted(k, k.waiters[m])
      /\ NULL \notin Object
  BY KernelAssumption DEF Lists, KernelState, WaitListsExact, Ordered
<1>1. CASE k.waiters[m] = << >>
  <2>. DEFINE r == [k EXCEPT !.owner[m] = NULL]
  <2>1. /\ r.priority = k.priority /\ r.basePriority = k.basePriority
        /\ r.flags = k.flags /\ r.waitList = k.waitList
        /\ \A n \in Mutex \ {m} : r.owner[n] = k.owner[n]
    BY <1>0 DEF KernelState
  <2>2. osMutexPass(k, m) = r
    BY <1>1 DEF osMutexPass
  <2>. HIDE DEF r
  <2>3. \A t \in Thread : k.waitList[t] # m
    BY <1>0, <1>1 DEF ToSet
  <2>4. Hurried(r)
    <3>. SUFFICES ASSUME OS_CFG_MUTEX_INHERITANCE, NEW n \in Mutex, NEW u \in Thread,
                         k.waitList[u] = n
                  PROVE  r.owner[n] \in Thread /\ k.priority[u] <= k.priority[r.owner[n]]
      BY <2>1 DEF Hurried
    <3>. QED BY <2>1, <2>3 DEF Urgent, Hurried
  <2>. QED BY <2>1, <2>2, <2>4 DEF Urgent, Based, Flagged
<1>2. CASE k.waiters[m] # << >>
  <2>. DEFINE w == Head(k.waiters[m])
              s == osMutexOwn(k, m, w)
              r == osWake(s, w, TRUE)
  <2>1. w \in Thread /\ w \in ToSet(k.waiters[m])
    BY <1>0, <1>2, HeadTail
  <2>2. osMutexPass(k, m) = r
    BY <1>2 DEF osMutexPass
  <2>3. \A t \in ToSet(k.waiters[m]) : k.priority[t] <= k.priority[w]
    BY <1>0, <1>2, TailSorted
  <2>. HIDE DEF w
  <2>. DEFINE q == IF OS_CFG_MUTEX_INHERITANCE THEN <<m>> \o k.mutexes[w] ELSE k.mutexes[w]
  <2>4. q \in Seq(Mutex)
    BY <1>0, <2>1 DEF KernelState
  <2>5. s = [k EXCEPT !.owner[m] = w, !.mutexes[w] = q]
    BY <1>0 DEF osMutexOwn, KernelState
  <2>. HIDE DEF q, s
  <2>6. /\ s \in KernelState /\ s.state = k.state
        /\ s.flags = k.flags /\ s.readyList = k.readyList
        /\ s.waitList = k.waitList /\ s.waiters = k.waiters /\ s.timerList = k.timerList
        /\ s.priority = k.priority /\ s.basePriority = k.basePriority
        /\ s.owner = [k.owner EXCEPT ![m] = w]
    BY <1>0, <2>1, <2>4, <2>5 DEF KernelState
  <2>7. Lists(s)
    BY <2>6, Unmoved
  <2>8. /\ r.owner = s.owner /\ Eased(r, s)
        /\ r.waitList = [s.waitList EXCEPT ![w] = NULL]
    <3>1. s.state[w] # "READY"
      BY <1>0, <2>1, <2>6 DEF Lists, WaitListsExact
    <3>. HIDE DEF r
    <3>2. ASSUME NEW result \in BOOLEAN
          PROVE  LET q1 == osWake(s, w, result)
                 IN  /\ Lists(q1) /\ q1.state = [s.state EXCEPT ![w] = "READY"]
                     /\ q1.current = s.current /\ q1.owner = s.owner /\ q1.mutexes = s.mutexes
                     /\ q1.result = [s.result EXCEPT ![w] = result]
                     /\ q1.waitList = [s.waitList EXCEPT ![w] = NULL]
                     /\ \A a \in ToSet(s.timerList) : a.task # w => a \in ToSet(q1.timerList)
                     /\ Eased(q1, s)
      BY <2>1, <2>7, <3>1, Wake
    <3>. QED BY <3>2 DEF r
  <2>. HIDE DEF r
  <2>9. r.priority = k.priority /\ r.basePriority = k.basePriority
    BY <2>6, <2>8 DEF Eased
  <2>10. /\ \A n \in Mutex \ {m} : r.owner[n] = k.owner[n]
         /\ r.owner[m] = w
         /\ \A t \in Thread \ {w} : r.waitList[t] = k.waitList[t]
         /\ r.waitList[w] = NULL
    BY <1>0, <2>1, <2>6, <2>8 DEF KernelState
  <2>11. Hurried(r)
    <3>. SUFFICES ASSUME OS_CFG_MUTEX_INHERITANCE, NEW n \in Mutex, NEW u \in Thread,
                         r.waitList[u] = n
                  PROVE  r.owner[n] \in Thread /\ k.priority[u] <= k.priority[r.owner[n]]
      BY <2>9 DEF Hurried
    <3>1. u # w /\ k.waitList[u] = n
      BY <1>0, <2>10, KernelAssumption
    <3>2. CASE n = m
      BY <1>0, <2>1, <2>3, <2>10, <3>1, <3>2
    <3>3. CASE n # m
      BY <2>10, <3>1, <3>3 DEF Urgent, Hurried
    <3>. QED BY <3>2, <3>3
  <2>12. Flagged(r)
    <3>. SUFFICES ASSUME OS_CFG_MUTEX_INHERITANCE, NEW t \in Thread
                  PROVE  "MUTEX" \in r.flags[t] <=> r.waitList[t] \in Mutex
      BY DEF Flagged
    <3>1. "MUTEX" \in k.flags[t] <=> k.waitList[t] \in Mutex
      BY DEF Urgent, Flagged
    <3>2. \/ r.waitList[t] = k.waitList[t] /\ ("MUTEX" \in r.flags[t] <=> "MUTEX" \in k.flags[t])
          \/ r.waitList[t] = NULL /\ "MUTEX" \notin r.flags[t]
      BY <2>6, <2>8 DEF Eased, WaitEased
    <3>. QED BY <3>1, <3>2, KernelAssumption
  <2>13. Based(r)
    BY <2>9 DEF Urgent, Based
  <2>. QED BY <2>2, <2>11, <2>12, <2>13 DEF Urgent
<1>. QED
  BY <1>1, <1>2

\* The next mutex of the task off its list and passed on.
PassNext(k, task, mutex) == osMutexPass([k EXCEPT !.mutexes[task] = Tail(@)], mutex)

IsPassed(f, n, k, task, owned) ==
  f = [i \in 0 .. n |-> IF i = 0 THEN k ELSE PassNext(f[i - 1], task, owned[i])]

LEMMA PassedExists ==
  ASSUME NEW n \in Nat, NEW k, NEW task, NEW owned
  PROVE  \E f : IsPassed(f, n, k, task, owned)
<1>. USE DEF IsPassed
<1>. DEFINE Exists(m) == \E f : IsPassed(f, m, k, task, owned)
<1>1. Exists(0)
  <2>. DEFINE f == [i \in 0 .. 0 |-> k]
  <2>1. f = [i \in 0 .. 0 |-> IF i = 0 THEN k ELSE PassNext(f[i - 1], task, owned[i])]
    OBVIOUS
  <2>2. IsPassed(f, 0, k, task, owned)
    BY <2>1
  <2>. QED BY <2>2
<1>2. ASSUME NEW m \in Nat, m # 0, Exists(m - 1)
      PROVE  Exists(m)
  <2>1. PICK g : IsPassed(g, m - 1, k, task, owned)
    BY <1>2
  <2>. DEFINE last == PassNext(g[m - 1], task, owned[m])
              f == [i \in 0 .. m |-> IF i < m THEN g[i] ELSE last]
  <2>. HIDE DEF last
  <2>2. \A i \in 0 .. m : f[i] = IF i < m THEN g[i] ELSE last
    OBVIOUS
  <2>3. f = [i \in 0 .. m |-> f[i]]
    OBVIOUS
  <2>. HIDE DEF f
  <2>4. ASSUME NEW i \in 0 .. m
        PROVE  f[i] = IF i = 0 THEN k ELSE PassNext(f[i - 1], task, owned[i])
    <3>1. CASE i = m
      <4>1. m - 1 \in 0 .. m /\ m - 1 < m /\ ~(m < m) /\ i # 0
        BY <1>2, <3>1
      <4>2. f[i] = last /\ f[i - 1] = g[m - 1]
        BY <2>2, <3>1, <4>1
      <4>. QED BY <3>1, <4>1, <4>2 DEF last
    <3>2. CASE i # m
      <4>1. i \in 0 .. m - 1 /\ i < m /\ (i # 0 => i - 1 \in 0 .. m /\ i - 1 < m)
        BY <1>2, <3>2
      <4>2. g[i] = IF i = 0 THEN k ELSE PassNext(g[i - 1], task, owned[i])
        BY <2>1, <4>1
      <4>3. f[i] = g[i] /\ (i # 0 => f[i - 1] = g[i - 1])
        BY <2>2, <4>1
      <4>. QED BY <4>2, <4>3
    <3>. QED BY <3>1, <3>2
  <2>5. IsPassed(f, m, k, task, owned)
    BY <2>3, <2>4
  <2>. QED BY <2>5
<1>. HIDE DEF Exists
<1>3. \A m \in Nat : Exists(m)
  <2>. DEFINE D == {m \in Nat : ~Exists(m)}
  <2>1. SUFFICES ASSUME D # {} PROVE FALSE
    BY <2>1
  <2>2. PICK m \in D : \A i \in D : m <= i
    BY <2>1, MinIsLeast
  <2>3. m \in Nat /\ m # 0 /\ m - 1 \in Nat /\ m - 1 \notin D
    BY <1>1, <2>2
  <2>. QED BY <1>2, <2>2, <2>3
<1>. QED
  BY <1>3 DEF Exists

\* osMutexReleaseAll of a task that does not wait itself.
LEMMA ReleaseAll ==
  ASSUME NEW k, Lists(k), NEW task \in Thread, k.state[task] # "BLOCKED"
  PROVE  /\ Released(osMutexReleaseAll(k, task), k)
         /\ Urgent(k) => Urgent(osMutexReleaseAll(k, task))
<1>. DEFINE owned == k.mutexes[task]
            passed[i \in 0 .. Len(owned)] ==
              IF i = 0 THEN k
              ELSE osMutexPass([passed[i - 1] EXCEPT !.mutexes[task] = Tail(@)], owned[i])
<1>1. osMutexReleaseAll(k, task) = passed[Len(owned)]
  BY DEF osMutexReleaseAll
<1>2. owned \in Seq(Mutex) /\ Len(owned) \in Nat
  BY DEF Lists, KernelState
<1>. HIDE DEF owned
<1>3. passed = [i \in 0 .. Len(owned) |->
                  IF i = 0 THEN k ELSE PassNext(passed[i - 1], task, owned[i])]
  <2>1. \E f : IsPassed(f, Len(owned), k, task, owned)
    BY <1>2, PassedExists
  <2>2. \E f : f = [i \in 0 .. Len(owned) |->
                      IF i = 0 THEN k
                      ELSE osMutexPass([f[i - 1] EXCEPT !.mutexes[task] = Tail(@)], owned[i])]
    BY <2>1 DEF IsPassed, PassNext
  <2>. QED BY <2>2 DEF PassNext
<1>. HIDE DEF passed
<1>. DEFINE Inv(i) == /\ Released(passed[i], k)
                      /\ passed[i].mutexes[task] \in Seq(Mutex)
                      /\ Len(passed[i].mutexes[task]) = Len(owned) - i
                      /\ Urgent(k) => Urgent(passed[i])
<1>4. Inv(0)
  <2>1. passed[0] = k
    BY <1>2, <1>3
  <2>2. Released(k, k)
    BY DEF Released
  <2>. QED BY <1>2, <2>1, <2>2 DEF owned
<1>5. ASSUME NEW i \in 1 .. Len(owned), Inv(i - 1)
      PROVE  Inv(i)
  <2>. DEFINE s == passed[i - 1]
              o == s.mutexes[task]
              q == [s EXCEPT !.mutexes[task] = Tail(o)]
              m == owned[i]
              r == osMutexPass(q, m)
  <2>0. i \in 0 .. Len(owned) /\ i # 0 /\ m \in Mutex
    BY <1>2
  <2>1. passed[i] = r
    BY <1>3, <2>0 DEF PassNext
  <2>2. /\ Released(s, k) /\ o \in Seq(Mutex) /\ Len(o) = Len(owned) - i + 1
    BY <1>2, <1>5
  <2>3. Tail(o) \in Seq(Mutex) /\ Len(Tail(o)) = Len(owned) - i
    <3>1. Len(o) > 0
      BY <1>2, <2>2
    <3>2. o # << >>
      BY <2>2, <3>1
    <3>. HIDE DEF o
    <3>3. Tail(o) \in Seq(Mutex) /\ Len(Tail(o)) = Len(o) - 1
      BY <2>2, <3>2
    <3>. QED BY <1>2, <2>2, <3>3
  <2>. HIDE DEF s, o, m
  <2>4. /\ q \in KernelState /\ q.state = s.state /\ q.current = s.current
        /\ q.flags = s.flags /\ q.readyList = s.readyList
        /\ q.waitList = s.waitList /\ q.waiters = s.waiters /\ q.timerList = s.timerList
        /\ q.mutexes = [s.mutexes EXCEPT ![task] = Tail(o)] /\ q.priority = s.priority
        /\ q.owner = s.owner /\ q.basePriority = s.basePriority
        /\ s.mutexes \in [Thread -> Seq(Mutex)]
    BY <2>2, <2>3 DEF Released, Lists, KernelState
  <2>. HIDE DEF q
  <2>5. Lists(q)
    <3>1. Lists(s)
      BY <2>2 DEF Released
    <3>. QED BY <2>4, <3>1, Unmoved
  <2>6. Released(r, q) /\ (q.state[task] # "BLOCKED" => r.mutexes[task] = q.mutexes[task])
    BY <2>0, <2>5, MutexPass
  <2>. HIDE DEF r
  <2>7. q.state[task] # "BLOCKED"
    BY <2>2, <2>4 DEF Released
  <2>8. Released(r, k)
    BY <2>2, <2>4, <2>6, SMTT(30) DEF Released
  <2>9. r.mutexes[task] = Tail(o)
    BY <2>4, <2>6, <2>7
  <2>10. Urgent(s) => Urgent(r)
    <3>1. Urgent(s) => Urgent(q)
      BY <2>4 DEF Urgent, Based, Hurried, Flagged
    <3>. QED BY <2>0, <2>5, <3>1, PassUrgent DEF r
  <2>11. Urgent(k) => Urgent(r)
    BY <1>5, <2>10 DEF s
  <2>. QED BY <2>1, <2>3, <2>8, <2>9, <2>11
<1>6. Inv(Len(owned))
  <2>. HIDE DEF Inv
  <2>. DEFINE D == {i \in 0 .. Len(owned) : ~Inv(i)}
  <2>1. SUFFICES ASSUME D # {} PROVE FALSE
    BY <1>2, <2>1
  <2>2. D \in SUBSET Nat
    OBVIOUS
  <2>3. PICK i \in D : \A j \in D : i <= j
    BY <2>1, <2>2, MinIsLeast
  <2>4. i # 0
    BY <1>4, <2>3
  <2>5. i \in 1 .. Len(owned) /\ i - 1 \in 0 .. Len(owned) /\ i - 1 \notin D
    BY <1>2, <2>3, <2>4
  <2>. QED BY <1>5, <2>3, <2>5
<1>. QED
  BY <1>1, <1>6

----------------------------------------------------------------------------
\* The functions of tasks.c.

LEMMA TaskPriorityType ==
  ASSUME NEW p \in Priority
  PROVE  osTaskPriority(p) \in Priority
BY KernelAssumption DEF osTaskPriority, Priority, MainPriority, OS_PRIORITY_MIN

LEMMA ReadyInv ==
  ASSUME NEW k, KernelInv(k), NEW t \in Thread, k.state[t] \in {"DEAD", "SUSPENDED"}
  PROVE  LET r == osReady(k, t)
         IN  /\ KernelInv(r) /\ Kept(r, k) /\ r.waitList = k.waitList
             /\ r.state = [k.state EXCEPT ![t] = "READY"] /\ r.current = k.current
             /\ Eased(r, k)
<1>. DEFINE r == osReady(k, t)
<1>1. Off(k, t)
  BY NotListed DEF KernelInv
<1>2. Lists(r) /\ r.state = [k.state EXCEPT ![t] = "READY"]
  BY <1>1, Ready DEF osReady, Keys
<1>3. k \in KernelState /\ k.state \in [Thread -> TaskState] /\ osIdleTask \in Thread
  BY DEF KernelInv, Lists, KernelState, Thread
<1>4. /\ r.current = k.current /\ Kept(r, k) /\ r.waitList = k.waitList
      /\ r.priority = k.priority /\ r.flags = [k.flags EXCEPT ![t] = {}]
  BY <1>3 DEF osReady, SetState, KernelState
<1>. HIDE DEF r
<1>5. Eased(r, k)
  <2>1. k.flags \in [Thread -> SUBSET Flag] /\ k.flags[t] = {}
    BY <1>3 DEF KernelInv, Lists, TimerListExact, KernelState
  <2>. QED BY <1>4, <2>1 DEF Eased, WaitEased
<1>6. KernelInv(r)
  BY <1>2, <1>3, <1>4 DEF KernelInv, CurrentExact
<1>. QED
  BY <1>2, <1>4, <1>5, <1>6 DEF r

\* The control block of a task that is created.
Cleared(k, t, p) ==
  [k EXCEPT !.result[t] = FALSE, !.waitList[t] = NULL, !.mutexes[t] = << >>,
            !.priority[t] = osTaskPriority(p), !.basePriority[t] = osTaskPriority(p)]

LEMMA CreateParts ==
  ASSUME NEW k, KernelInv(k), NEW t \in Thread, k.state[t] = "DEAD", NEW p \in Priority
  PROVE  LET c == Cleared(k, t, p)
             ready == osReady(c, t)
         IN  /\ KernelInv(c) /\ c.state = k.state /\ c.current = k.current
             /\ c.waitList = k.waitList /\ c.owner = k.owner /\ c.flags = k.flags
             /\ c.result = [k.result EXCEPT ![t] = FALSE]
             /\ c.mutexes = [k.mutexes EXCEPT ![t] = << >>]
             /\ c.priority = [k.priority EXCEPT ![t] = osTaskPriority(p)]
             /\ c.basePriority = [k.basePriority EXCEPT ![t] = osTaskPriority(p)]
             /\ KernelInv(ready) /\ Kept(ready, c) /\ ready.waitList = c.waitList
             /\ ready.state = [k.state EXCEPT ![t] = "READY"] /\ ready.current = k.current
             /\ Eased(ready, c)
             /\ osTaskCreate(k, t, p) = osSchedule(ready, 0)
<1>. DEFINE q == osTaskPriority(p)
            clear == Cleared(k, t, p)
<1>1. q \in Priority
  BY TaskPriorityType
<1>2. k \in KernelState /\ k.waitList \in [Thread -> Object \cup {NULL}] /\ k.waitList[t] = NULL
      /\ k.mutexes \in [Thread -> Seq(Mutex)]
  BY DEF KernelInv, Lists, KernelState, WaitListsExact
<1>3. [k.waitList EXCEPT ![t] = NULL] = k.waitList
  BY <1>2
<1>4. << >> \in Seq(Mutex)
  OBVIOUS
<1>5. [k.mutexes EXCEPT ![t] = << >>] \in [Thread -> Seq(Mutex)]
  BY <1>2, <1>4
<1>10. clear = [k EXCEPT !.result[t] = FALSE, !.waitList[t] = NULL, !.mutexes[t] = << >>,
                         !.priority[t] = q, !.basePriority[t] = q]
  BY DEF Cleared
<1>9. osTaskCreate(k, t, p) = osSchedule(osReady(clear, t), 0)
  BY DEF osTaskCreate, Cleared
<1>. HIDE DEF q, clear
<1>6. /\ clear \in KernelState /\ clear.state = k.state /\ clear.current = k.current
      /\ clear.flags = k.flags /\ clear.readyList = k.readyList
      /\ clear.waitList = k.waitList /\ clear.waiters = k.waiters
      /\ clear.timerList = k.timerList /\ clear.owner = k.owner
      /\ clear.result = [k.result EXCEPT ![t] = FALSE]
      /\ clear.mutexes = [k.mutexes EXCEPT ![t] = << >>]
      /\ clear.priority = [k.priority EXCEPT ![t] = q]
      /\ clear.basePriority = [k.basePriority EXCEPT ![t] = q]
      /\ \A u \in Thread \ {t} : clear.priority[u] = k.priority[u]
  BY <1>1, <1>2, <1>3, <1>5, <1>10 DEF KernelState
<1>7. KernelInv(clear)
  <2>0. k.state[t] \notin {"READY", "BLOCKED"} /\ Lists(k)
    BY DEF KernelInv
  <2>1. Lists(clear)
    <3>1. \A u \in Thread : clear.priority[u] = k.priority[u] \/ k.state[u] \notin {"READY", "BLOCKED"}
      BY <1>6, <2>0
    <3>2. /\ clear \in KernelState /\ clear.state = k.state /\ clear.flags = k.flags
          /\ clear.waitList = k.waitList /\ clear.timerList = k.timerList
          /\ clear.readyList = k.readyList /\ clear.waiters = k.waiters
      BY <1>6
    <3>. QED BY <2>0, <3>1, <3>2, Unmoved
  <2>. QED BY <1>6, <2>1 DEF KernelInv, CurrentExact
<1>. DEFINE ready == osReady(clear, t)
<1>8. /\ KernelInv(ready) /\ Kept(ready, clear) /\ ready.waitList = clear.waitList
      /\ ready.state = [clear.state EXCEPT ![t] = "READY"] /\ ready.current = clear.current
      /\ Eased(ready, clear)
  <2>1. clear.state[t] \in {"DEAD", "SUSPENDED"}
    BY <1>6
  <2>. HIDE DEF ready
  <2>2. LET o == osReady(clear, t)
        IN  /\ KernelInv(o) /\ Kept(o, clear) /\ o.waitList = clear.waitList
            /\ o.state = [clear.state EXCEPT ![t] = "READY"] /\ o.current = clear.current
            /\ Eased(o, clear)
    BY <1>7, <2>1, ReadyInv
  <2>. QED BY <2>2 DEF ready
<1>. QED
  BY <1>6, <1>7, <1>8, <1>9 DEF clear, q

LEMMA CreateInv ==
  ASSUME NEW k, KernelInv(k), NEW t \in Thread, k.state[t] = "DEAD", NEW p \in Priority
  PROVE  LET r == osTaskCreate(k, t, p)
         IN  KernelInv(r) /\ Top(r) /\ Only(r, k, t) /\ InVain(r, t)
<1>. DEFINE c == Cleared(k, t, p)
            ready == osReady(c, t)
            r == osSchedule(ready, 0)
<1>1. /\ c.waitList = k.waitList /\ c.owner = k.owner
      /\ c.result = [k.result EXCEPT ![t] = FALSE]
      /\ c.mutexes = [k.mutexes EXCEPT ![t] = << >>]
      /\ KernelInv(ready) /\ Kept(ready, c) /\ ready.waitList = c.waitList
      /\ ready.state = [k.state EXCEPT ![t] = "READY"]
      /\ osTaskCreate(k, t, p) = r
  <2>. HIDE DEF c, ready, r
  <2>1. LET b == Cleared(k, t, p)
            o == osReady(b, t)
        IN  /\ KernelInv(b) /\ b.state = k.state /\ b.current = k.current
            /\ b.waitList = k.waitList /\ b.owner = k.owner /\ b.flags = k.flags
            /\ b.result = [k.result EXCEPT ![t] = FALSE]
            /\ b.mutexes = [k.mutexes EXCEPT ![t] = << >>]
            /\ b.priority = [k.priority EXCEPT ![t] = osTaskPriority(p)]
            /\ b.basePriority = [k.basePriority EXCEPT ![t] = osTaskPriority(p)]
            /\ KernelInv(o) /\ Kept(o, b) /\ o.waitList = b.waitList
            /\ o.state = [k.state EXCEPT ![t] = "READY"] /\ o.current = k.current
            /\ Eased(o, b)
            /\ osTaskCreate(k, t, p) = osSchedule(o, 0)
    BY CreateParts
  <2>. QED BY <2>1 DEF c, ready, r
<1>. HIDE DEF c, ready
<1>2. KernelInv(r) /\ Top(r) /\ Unaffected(r, ready)
  BY <1>1, Schedule
<1>. HIDE DEF r
<1>3. /\ k.state \in [Thread -> TaskState] /\ k.result \in [Thread -> BOOLEAN]
      /\ k.mutexes \in [Thread -> Seq(Mutex)] /\ k.waitList[t] = NULL
  BY DEF KernelInv, Lists, KernelState, WaitListsExact
<1>4. Only(ready, k, t) /\ InVain(ready, t)
  BY <1>1, <1>3 DEF Only, InVain, Same
<1>5. Only(r, k, t) /\ InVain(r, t)
  BY <1>2, <1>4, Transitive
<1>. QED
  BY <1>1, <1>2, <1>5

\* Off the lists with a state in which it belongs on none.
LEMMA DetachSet ==
  ASSUME NEW k, Lists(k), NEW t \in Thread, NEW result, NEW s \in TaskState \ {"READY"},
         result \in [Thread -> BOOLEAN]
  PROVE  LET r == SetState([osTaskDetach(k, t) EXCEPT !.result = result], t, s)
         IN  /\ Lists(r) /\ r.state = [k.state EXCEPT ![t] = s] /\ r.current = k.current
             /\ r.owner = k.owner /\ r.mutexes = k.mutexes /\ r.result = result
             /\ r.waitList = [k.waitList EXCEPT ![t] = NULL] /\ r.priority = k.priority
             /\ Eased(r, k)
<1>. DEFINE d == osTaskDetach(k, t)
            e == [d EXCEPT !.result = result]
            r == SetState(e, t, s)
<1>1. /\ Off(d, t)
      /\ d.state = k.state /\ d.current = k.current /\ Kept(d, k)
      /\ d.waitList = [k.waitList EXCEPT ![t] = NULL] /\ d.priority = k.priority
      /\ d.flags = k.flags
  BY Detach
<1>. HIDE DEF d
<1>2. /\ e \in KernelState /\ e.state = d.state /\ e.current = d.current
      /\ e.flags = d.flags /\ e.readyList = d.readyList
      /\ e.waitList = d.waitList /\ e.waiters = d.waiters /\ e.timerList = d.timerList
      /\ e.owner = d.owner /\ e.mutexes = d.mutexes /\ e.result = result
      /\ e.priority = d.priority /\ e.basePriority = d.basePriority
  BY <1>1 DEF Off, KernelState
<1>. HIDE DEF e
<1>6. Ordered(e)
  BY <1>1, <1>2, OrderedSame DEF Off
<1>3. Off(e, t)
  BY <1>1, <1>2, <1>6 DEF Off, OnTimer
<1>4. Lists(r)
  BY <1>3, SetStateOff
<1>5. r.state = [e.state EXCEPT ![t] = s] /\ r.current = e.current
      /\ Kept(r, e) /\ r.waitList = e.waitList /\ r.priority = e.priority
      /\ r.flags = [e.flags EXCEPT ![t] = {}]
  BY <1>2 DEF SetState, KernelState
<1>. HIDE DEF r
<1>7. Eased(r, k)
  <2>1. k.flags \in [Thread -> SUBSET Flag] /\ k.waitList \in [Thread -> Object \cup {NULL}]
    BY DEF Lists, KernelState
  <2>2. /\ r.waitList = [k.waitList EXCEPT ![t] = NULL] /\ r.flags = [k.flags EXCEPT ![t] = {}]
        /\ r.priority = k.priority /\ r.basePriority = k.basePriority
    BY <1>1, <1>2, <1>5
  <2>. QED BY <2>1, <2>2 DEF Eased, WaitEased
<1>. QED
  BY <1>1, <1>2, <1>4, <1>5, <1>7 DEF r, e, d

\* Then either somebody else is dispatched or the current task stays.
LEMMA Leave ==
  ASSUME NEW k, KernelInv(k), NEW t \in Thread, t # osIdleTask,
         NEW s \in {"SUSPENDED", "DEAD"},
         NEW off, Lists(off), off.state = [k.state EXCEPT ![t] = s], off.current = k.current,
         NEW r, Released(r, off)
  PROVE  /\ t = k.current => Parting(r)
         /\ t # k.current => KernelInv(r)
<1>1. k.state \in [Thread -> TaskState] /\ osIdleTask \in Thread /\ k.current \in Thread
  BY DEF KernelInv, Lists, KernelState, Thread
<1>2. off.state[osIdleTask] = k.state[osIdleTask] /\ off.state[t] = s
  BY <1>1
<1>3. r.state[osIdleTask] = k.state[osIdleTask] /\ r.state[t] = s
  BY <1>1, <1>2 DEF Released, KernelInv
<1>4. ASSUME NEW u \in Thread, r.state[u] = "RUNNING"
      PROVE  u # t /\ u = k.current
  BY <1>1, <1>3, <1>4 DEF Released, KernelInv, CurrentExact
<1>5. t # k.current => r.state[k.current] = "RUNNING"
  BY <1>1 DEF Released, KernelInv, CurrentExact
<1>6. ASSUME t = k.current PROVE Parting(r)
  <2>1. k.state[osIdleTask] = "READY"
    BY <1>1, <1>6 DEF KernelInv, CurrentExact
  <2>. QED BY <1>3, <1>4, <1>6, <2>1 DEF Parting, Released
<1>7. ASSUME t # k.current PROVE KernelInv(r)
  BY <1>1, <1>3, <1>4, <1>5, <1>7 DEF KernelInv, Released, CurrentExact
<1>. QED
  BY <1>6, <1>7

LEMMA ReleaseNothing ==
  ASSUME NEW k, NEW task, k.mutexes[task] = << >>
  PROVE  osMutexReleaseAll(k, task) = k
<1>. DEFINE owned == k.mutexes[task]
            passed[i \in 0 .. Len(owned)] ==
              IF i = 0 THEN k
              ELSE osMutexPass([passed[i - 1] EXCEPT !.mutexes[task] = Tail(@)], owned[i])
<1>1. osMutexReleaseAll(k, task) = passed[Len(owned)]
  BY DEF osMutexReleaseAll
<1>2. Len(owned) = 0
  OBVIOUS
<1>. HIDE DEF owned
<1>3. passed = [i \in 0 .. Len(owned) |->
                  IF i = 0 THEN k ELSE PassNext(passed[i - 1], task, owned[i])]
  <2>1. \E f : IsPassed(f, Len(owned), k, task, owned)
    BY <1>2, PassedExists
  <2>2. \E f : f = [i \in 0 .. Len(owned) |->
                      IF i = 0 THEN k
                      ELSE osMutexPass([f[i - 1] EXCEPT !.mutexes[task] = Tail(@)], owned[i])]
    BY <2>1 DEF IsPassed, PassNext
  <2>. QED BY <2>2 DEF PassNext
<1>. HIDE DEF passed
<1>. QED
  BY <1>1, <1>2, <1>3

\* Off all the lists, with its mutexes still to be handed over.
Gone(k, t) == SetState(osTaskDetach(k, t), t, "DEAD")

Emptied(k, t) ==
  IF OS_CFG_MUTEX_INHERITANCE THEN osMutexReleaseAll(Gone(k, t), t) ELSE Gone(k, t)

LEMMA DeleteParts ==
  ASSUME NEW k, KernelInv(k), NEW t \in Thread, t # osIdleTask, k.state[t] # "DEAD"
  PROVE  /\ Eased(Gone(k, t), k)
         /\ Lists(Gone(k, t)) /\ Gone(k, t).state = [k.state EXCEPT ![t] = "DEAD"]
         /\ Kept(Gone(k, t), k)
         /\ Gone(k, t).waitList = [k.waitList EXCEPT ![t] = NULL]
         /\ Released(Emptied(k, t), Gone(k, t))
         /\ KernelInv(osTaskDelete(k, t)) /\ Top(osTaskDelete(k, t))
         /\ Unaffected(osTaskDelete(k, t), Emptied(k, t))
         /\ t = k.current => /\ Eased(osTaskDelete(k, t), Emptied(k, t))
                             /\ osTaskDelete(k, t).state[t] = "DEAD"
         /\ t # k.current => /\ KernelInv(Emptied(k, t)) /\ Emptied(k, t).current = k.current
                             /\ osTaskDelete(k, t) = osSchedule(Emptied(k, t), 0)
<1>. DEFINE d == osTaskDetach(k, t)
            gone == Gone(k, t)
            released == Emptied(k, t)
<1>1. /\ Lists(gone) /\ gone.state = [k.state EXCEPT ![t] = "DEAD"]
      /\ gone.current = k.current /\ Kept(gone, k)
      /\ gone.waitList = [k.waitList EXCEPT ![t] = NULL]
      /\ Eased(gone, k)
  <2>0. Lists(k)
    BY DEF KernelInv
  <2>1. /\ Off(d, t) /\ d.state = k.state /\ d.current = k.current /\ d \in KernelState
        /\ Kept(d, k) /\ d.waitList = [k.waitList EXCEPT ![t] = NULL]
        /\ d.priority = k.priority /\ d.flags = k.flags
    <3>1. /\ Off(d, t)
          /\ d.state = k.state /\ d.current = k.current /\ Kept(d, k)
          /\ d.waitList = [k.waitList EXCEPT ![t] = NULL]
          /\ d.priority = k.priority /\ d.flags = k.flags
      BY <2>0, Detach
    <3>. HIDE DEF d
    <3>. QED BY <3>1 DEF Off
  <2>2. gone = SetState(d, t, "DEAD")
    BY DEF Gone
  <2>. HIDE DEF d, gone
  <2>3. Lists(gone)
    BY <2>1, <2>2, SetStateOff DEF TaskState
  <2>4. /\ gone.state = [k.state EXCEPT ![t] = "DEAD"]
        /\ gone.current = k.current /\ Kept(gone, k)
        /\ gone.waitList = [k.waitList EXCEPT ![t] = NULL]
        /\ gone.flags = [k.flags EXCEPT ![t] = {}] /\ gone.priority = k.priority
    BY <2>1, <2>2 DEF SetState, KernelState
  <2>5. k.flags \in [Thread -> SUBSET Flag] /\ k.waitList \in [Thread -> Object \cup {NULL}]
    BY <2>0 DEF Lists, KernelState
  <2>6. Eased(gone, k)
    BY <2>4, <2>5 DEF Eased, WaitEased
  <2>. QED BY <2>3, <2>4, <2>6
<1>2. osTaskDelete(k, t) = IF t = k.current THEN osDispatch(released) ELSE osSchedule(released, 0)
  BY DEF osTaskDelete, Emptied, Gone
<1>3. Released(released, gone)
  <2>1. gone.state[t] # "BLOCKED"
    BY <1>1 DEF KernelInv, Lists, KernelState
  <2>2. Released(gone, gone)
    BY <1>1 DEF Released
  <2>. QED BY <1>1, <2>1, <2>2, ReleaseAll DEF Emptied
<1>. HIDE DEF gone, released
<1>4. /\ t = k.current => Parting(released)
      /\ t # k.current => KernelInv(released)
  BY <1>1, <1>3, Leave
<1>. DEFINE r == IF t = k.current THEN osDispatch(released) ELSE osSchedule(released, 0)
<1>5. KernelInv(r) /\ Top(r) /\ Unaffected(r, released)
  BY <1>4, Dispatch, Schedule
<1>6. ASSUME t = k.current PROVE Eased(r, released) /\ r.state[t] = "DEAD"
  <2>1. gone.state[t] = "DEAD"
    BY <1>1 DEF KernelInv, Lists, KernelState
  <2>2. released.state[t] = "DEAD"
    BY <1>3, <2>1 DEF Released
  <2>. QED BY <1>4, <1>6, <2>2, Dispatch
<1>7. released.current = k.current
  BY <1>1, <1>3 DEF Released
<1>. QED
  BY <1>1, <1>2, <1>3, <1>4, <1>5, <1>6, <1>7 DEF gone, released

\* With no mutex to hand over nobody but the task itself is affected.
LEMMA DeleteInv ==
  ASSUME NEW k, KernelInv(k), NEW t \in Thread
  PROVE  LET r == osTaskDelete(k, t)
         IN  /\ KernelInv(r)
             /\ t # osIdleTask /\ k.state[t] # "DEAD" => Top(r)
             /\ t # osIdleTask /\ k.mutexes[t] = << >> =>
                  Only(r, k, t) /\ r.state[t] = "DEAD" /\ r.waitList[t] = NULL
<1>1. CASE t = osIdleTask \/ k.state[t] = "DEAD"
  <2>1. osTaskDelete(k, t) = k
    BY <1>1 DEF osTaskDelete
  <2>2. k.state[t] = "DEAD" => k.waitList[t] = NULL
    BY DEF KernelInv, Lists, WaitListsExact
  <2>3. Only(k, k, t)
    BY DEF Only, Same
  <2>. QED BY <1>1, <2>1, <2>2, <2>3
<1>2. CASE t # osIdleTask /\ k.state[t] # "DEAD"
  <2>. DEFINE gone == Gone(k, t)
              r == osTaskDelete(k, t)
  <2>1. /\ Lists(gone) /\ gone.state = [k.state EXCEPT ![t] = "DEAD"] /\ Kept(gone, k)
        /\ gone.waitList = [k.waitList EXCEPT ![t] = NULL]
        /\ KernelInv(r) /\ Top(r) /\ Unaffected(r, Emptied(k, t))
    BY <1>2, DeleteParts
  <2>2. gone.mutexes[t] = << >> => Emptied(k, t) = gone
    BY ReleaseNothing DEF Emptied
  <2>. HIDE DEF gone, r
  <2>3. k.state \in [Thread -> TaskState] /\ k.waitList \in [Thread -> Object \cup {NULL}]
    BY DEF KernelInv, Lists, KernelState
  <2>4. Only(gone, k, t) /\ gone.state[t] = "DEAD" /\ gone.waitList[t] = NULL
    BY <2>1, <2>3 DEF Kept, Only, Same
  <2>5. ASSUME k.mutexes[t] = << >>
        PROVE  Only(r, k, t) /\ r.state[t] = "DEAD" /\ r.waitList[t] = NULL
    <3>1. Unaffected(r, gone)
      BY <2>1, <2>2, <2>5 DEF Kept
    <3>2. Only(r, k, t)
      BY <2>4, <3>1, Transitive
    <3>3. r.state[t] = "DEAD" /\ r.waitList[t] = NULL
      BY <2>4, <3>1 DEF Unaffected, Same
    <3>. QED BY <3>2, <3>3
  <2>. QED BY <2>1, <2>5 DEF r
<1>. QED
  BY <1>1, <1>2

LEMMA SuspendInv ==
  ASSUME NEW k, KernelInv(k), NEW t \in Thread
  PROVE  LET r == osTaskSuspend(k, t)
         IN  /\ KernelInv(r) /\ (Unaffected(r, k) \/ Unavailing(r, k, t)) /\ Eased(r, k)
             /\ Top(k) \/ t = k.current => t = osIdleTask \/ Top(r)
             /\ r.current = k.current \/ r.state[k.current] = "SUSPENDED"
<1>. DEFINE d == osTaskDetach(k, t)
            result == [d.result EXCEPT ![t] = FALSE]
            off == SetState([d EXCEPT !.result = result], t, "SUSPENDED")
<1>1. CASE t = osIdleTask \/ k.state[t] \in {"SUSPENDED", "DEAD"}
  <2>1. osTaskSuspend(k, t) = k
    BY <1>1 DEF osTaskSuspend
  <2>2. t = osIdleTask \/ t # k.current
    BY <1>1 DEF KernelInv, CurrentExact
  <2>. QED BY <2>1, <2>2 DEF Unaffected, Same, Eased, WaitEased
<1>2. CASE t # osIdleTask /\ k.state[t] \notin {"SUSPENDED", "DEAD"}
  <2>0. /\ k.state \in [Thread -> TaskState] /\ k.result \in [Thread -> BOOLEAN]
        /\ k.waitList \in [Thread -> Object \cup {NULL}]
    BY DEF KernelInv, Lists, KernelState
  <2>1. result = [k.result EXCEPT ![t] = FALSE]
    <3>1. LET q == osTaskDetach(k, t)
          IN  /\ Off(q, t)
              /\ q.state = k.state /\ q.current = k.current /\ Kept(q, k)
              /\ q.waitList = [k.waitList EXCEPT ![t] = NULL]
      BY Detach DEF KernelInv
    <3>. QED BY <3>1
  <2>2. result \in [Thread -> BOOLEAN]
    BY <2>0, <2>1
  <2>. HIDE DEF result
  <2>3. /\ Lists(off) /\ off.state = [k.state EXCEPT ![t] = "SUSPENDED"]
        /\ off.current = k.current
        /\ off.owner = k.owner /\ off.mutexes = k.mutexes /\ off.result = result
        /\ off.waitList = [k.waitList EXCEPT ![t] = NULL] /\ off.priority = k.priority
        /\ Eased(off, k)
    BY <2>2, DetachSet DEF KernelInv, TaskState
  <2>4. osTaskSuspend(k, t) = IF t = k.current THEN osDispatch(off) ELSE off
    BY <1>2 DEF osTaskSuspend, result
  <2>. HIDE DEF off
  <2>5. Released(off, off)
    BY <2>3 DEF Released
  <2>6. /\ t = k.current => Parting(off)
        /\ t # k.current => KernelInv(off)
    BY <1>2, <2>3, <2>5, Leave
  <2>. DEFINE r == IF t = k.current THEN osDispatch(off) ELSE off
  <2>7. KernelInv(r) /\ Unaffected(r, off) /\ (Top(k) \/ t = k.current => Top(r))
    <3>1. Unaffected(off, off)
      BY DEF Unaffected, Same
    <3>2. Top(k) => Top(off)
      BY <2>0, <2>3 DEF Top, Lists, ReadyListExact, KernelInv
    <3>. QED BY <2>6, <3>1, <3>2, Dispatch
  <2>12. r.current = k.current \/ r.state[k.current] = "SUSPENDED"
    <3>1. off.state[t] = "SUSPENDED" /\ off.current = k.current
      BY <2>0, <2>3
    <3>2. t = k.current => osDispatch(off).state[t] = "SUSPENDED"
      BY <2>6, <3>1, Dispatch
    <3>. QED BY <3>1, <3>2
  <2>. HIDE DEF r
  <2>8. Only(off, k, t) /\ InVain(off, t)
    BY <1>2, <2>0, <2>1, <2>3 DEF Only, InVain, Same
  <2>9. Only(r, k, t) /\ InVain(r, t)
    BY <2>7, <2>8, Transitive
  <2>10. r.mutexes[t] = k.mutexes[t]
    BY <2>3, <2>7 DEF Unaffected, Same
  <2>11. Eased(r, k)
    <3>1. Eased(r, off)
      BY <2>6, Dispatch DEF r, Eased, WaitEased
    <3>. QED BY <2>3, <3>1, EasedTwice
  <2>. QED BY <2>4, <2>7, <2>9, <2>10, <2>11, <2>12 DEF r, Unavailing
<1>. QED
  BY <1>1, <1>2

LEMMA ResumeInv ==
  ASSUME NEW k, KernelInv(k), NEW t \in Thread
  PROVE  /\ KernelInv(osTaskResumeFromISR(k, t)) /\ Unaffected(osTaskResumeFromISR(k, t), k)
         /\ Eased(osTaskResumeFromISR(k, t), k)
         /\ osTaskResumeFromISR(k, t).current = k.current
         /\ KernelInv(osTaskResume(k, t)) /\ Unaffected(osTaskResume(k, t), k)
         /\ Top(osTaskResume(k, t))
<1>. DEFINE r == osTaskResumeFromISR(k, t)
<1>1. KernelInv(r) /\ Unaffected(r, k) /\ Eased(r, k) /\ r.current = k.current
  <2>1. CASE k.state[t] = "SUSPENDED"
    <3>. DEFINE q == osReady(k, t)
    <3>1. /\ KernelInv(q) /\ Kept(q, k) /\ q.waitList = k.waitList
          /\ q.state = [k.state EXCEPT ![t] = "READY"] /\ q.current = k.current
          /\ Eased(q, k)
      BY <2>1, ReadyInv
    <3>2. k.state \in [Thread -> TaskState]
      BY DEF KernelInv, Lists, KernelState
    <3>. HIDE DEF q
    <3>3. Unaffected(q, k)
      BY <2>1, <3>1, <3>2 DEF Unaffected, Same
    <3>. QED BY <2>1, <3>1, <3>3 DEF q, osTaskResumeFromISR
  <2>2. CASE k.state[t] # "SUSPENDED"
    BY <2>2 DEF osTaskResumeFromISR, Unaffected, Same, Eased, WaitEased
  <2>. QED BY <2>1, <2>2
<1>. HIDE DEF r
<1>. DEFINE s == osSchedule(r, 0)
<1>2. KernelInv(s) /\ Unaffected(s, r) /\ Top(s)
  BY <1>1, Schedule
<1>. HIDE DEF s
<1>3. Unaffected(s, k)
  BY <1>1, <1>2, Transitive
<1>. QED
  BY <1>1, <1>2, <1>3 DEF osTaskResume, r, s

\* The priority the application gives, and the one that follows from it.
Rebased(k, t, p) == [k EXCEPT !.basePriority[t] = osTaskPriority(p)]

Repositioned(k, t, p) ==
  LET based == Rebased(k, t, p)
      inherited == osInheritedPriority(based, t)
  IN  IF inherited > k.priority[t]
      THEN osPriorityRaise(based, t, inherited) ELSE LowerToInherited(based, t)

LEMMA SetPriorityParts ==
  ASSUME NEW k, KernelInv(k), NEW t \in Thread, NEW p \in Priority
  PROVE  LET b == Rebased(k, t, p)
             m == Repositioned(k, t, p)
         IN  /\ osTaskPriority(p) \in Priority
             /\ KernelInv(b) /\ b.flags = k.flags /\ b.waitList = k.waitList
             /\ b.priority = k.priority /\ b.owner = k.owner /\ b.mutexes = k.mutexes
             /\ b.basePriority = [k.basePriority EXCEPT ![t] = osTaskPriority(p)]
             /\ b.state = k.state /\ b.current = k.current
             /\ osInheritedPriority(b, t) \in Priority
             /\ KernelInv(m) /\ Reordered(m, b) /\ Unaffected(m, k) /\ m.current = k.current
             /\ osTaskSetPriority(k, t, p) = osSchedule(m, 0)
<1>. DEFINE q == osTaskPriority(p)
            based == Rebased(k, t, p)
            inherited == osInheritedPriority(based, t)
            moved == IF inherited > k.priority[t]
                     THEN osPriorityRaise(based, t, inherited) ELSE LowerToInherited(based, t)
<1>1. q \in Priority
  BY TaskPriorityType
<1>3. based = [k EXCEPT !.basePriority[t] = q]
  BY DEF Rebased
<1>6. osTaskSetPriority(k, t, p) = osSchedule(moved, 0) /\ moved = Repositioned(k, t, p)
  BY DEF osTaskSetPriority, Repositioned, Rebased
<1>. HIDE DEF q, based
<1>2. /\ based \in KernelState /\ based.state = k.state /\ based.current = k.current
      /\ based.flags = k.flags /\ based.readyList = k.readyList
      /\ based.waitList = k.waitList /\ based.waiters = k.waiters
      /\ based.timerList = k.timerList /\ based.priority = k.priority
      /\ based.result = k.result /\ based.owner = k.owner /\ based.mutexes = k.mutexes
      /\ based.basePriority = [k.basePriority EXCEPT ![t] = q]
  BY <1>1, <1>3 DEF KernelInv, Lists, KernelState
<1>4. KernelInv(based)
  <2>1. Lists(based)
    BY <1>2, Unmoved DEF KernelInv
  <2>. QED BY <1>2, <2>1 DEF KernelInv, CurrentExact
<1>5. inherited \in Priority
  BY <1>2, InheritedType
<1>. HIDE DEF inherited
<1>7. Reordered(moved, based)
  <2>1. Lists(based)
    BY <1>4 DEF KernelInv
  <2>. DEFINE raised == osPriorityRaise(based, t, inherited)
  <2>2. Reordered(raised, based)
    BY <1>5, <2>1, PriorityRaise
  <2>3. Reordered(LowerToInherited(based, t), based)
    BY <2>1, Lower
  <2>. HIDE DEF raised
  <2>. QED BY <2>2, <2>3 DEF raised
<1>. HIDE DEF moved
<1>8. KernelInv(moved) /\ Unaffected(moved, based) /\ moved.current = k.current
  BY <1>2, <1>4, <1>7, ReorderedInv DEF Reordered
<1>9. Unaffected(moved, k)
  <2>1. Unaffected(based, k)
    BY <1>2 DEF Unaffected, Same
  <2>. QED BY <1>8, <2>1, Transitive
<1>. QED
  BY <1>1, <1>2, <1>4, <1>5, <1>6, <1>7, <1>8, <1>9 DEF q, based, inherited

LEMMA SetPriorityInv ==
  ASSUME NEW k, KernelInv(k), NEW t \in Thread, NEW p \in Priority
  PROVE  /\ KernelInv(osTaskSetPriority(k, t, p)) /\ Top(osTaskSetPriority(k, t, p))
         /\ Unaffected(osTaskSetPriority(k, t, p), k)
<1>. DEFINE m == Repositioned(k, t, p)
            r == osSchedule(m, 0)
<1>1. KernelInv(m) /\ Unaffected(m, k) /\ osTaskSetPriority(k, t, p) = r
  BY SetPriorityParts
<1>. HIDE DEF m
<1>2. KernelInv(r) /\ Top(r) /\ Unaffected(r, m)
  BY <1>1, Schedule
<1>. HIDE DEF r
<1>. QED
  BY <1>1, <1>2, Transitive

\* osBlock, called by a task which is in order.
LEMMA BlockInv ==
  ASSUME NEW k, KernelInv(k), NEW list \in Object \cup {NULL}, NEW timeout \in OsTick
  PROVE  LET r == osBlock(k, list, timeout)
             task == k.current
         IN  /\ KernelInv(r)
             /\ task = osIdleTask => Unaffected(r, k) /\ (Top(k) => Top(r)) /\ Eased(r, k)
             /\ task # osIdleTask =>
                  /\ Top(r) /\ Settled(r, k, task)
                  /\ Only(r, k, task) /\ r.mutexes = k.mutexes
                  /\ r.state[task] = "BLOCKED" /\ r.waitList[task] = list
<1>1. k.current \in Thread /\ k.state[k.current] = "RUNNING"
  BY DEF KernelInv, Lists, KernelState, CurrentExact
<1>2. Off(k, k.current)
  BY <1>1, NotListed DEF KernelInv
<1>3. "TIMED" \notin k.flags[k.current]
  BY <1>1 DEF KernelInv, Lists, TimerListExact
<1>4. CurrentExact(k) /\ k.state[osIdleTask] \in {"RUNNING", "READY"}
  BY DEF KernelInv
<1>. QED
  BY <1>2, <1>3, <1>4, Block

LEMMA DelayInv ==
  ASSUME NEW k, KernelInv(k), NEW ticks \in OsTick
  PROVE  LET r == osDelay(k, ticks)
             task == k.current
         IN  /\ KernelInv(r)
             /\ Top(k) \/ ticks = 0 \/ task # osIdleTask => Top(r)
             /\ \/ Unaffected(r, k)
                \/ /\ Only(r, k, task) /\ r.mutexes = k.mutexes
                   /\ r.state[task] = "BLOCKED" /\ r.waitList[task] = NULL
<1>. DEFINE r == osBlock(k, NULL, ticks)
            s == osSchedule(k, 1)
            task == k.current
<1>1. /\ KernelInv(r)
      /\ task = osIdleTask => Unaffected(r, k) /\ (Top(k) => Top(r))
      /\ task # osIdleTask =>
           /\ Top(r)
           /\ Only(r, k, task) /\ r.mutexes = k.mutexes
           /\ r.state[task] = "BLOCKED" /\ r.waitList[task] = NULL
  BY BlockInv
<1>2. KernelInv(s) /\ Top(s) /\ Unaffected(s, k)
  BY Schedule
<1>3. osDelay(k, ticks) = IF ticks = 0 THEN s ELSE r
  BY DEF osDelay
<1>. HIDE DEF r, s, task
<1>. QED
  BY <1>1, <1>2, <1>3 DEF task

\* The idle task with its own priority.
Humbled(k) == [k EXCEPT !.priority[osIdleTask] = 0, !.basePriority[osIdleTask] = 0]

LEMMA RunParts ==
  ASSUME NEW k, KernelInv(k), k.current = osIdleTask
  PROVE  LET r == Humbled(k)
         IN  /\ KernelInv(r) /\ Unaffected(r, k) /\ r.current = k.current
             /\ r.flags = k.flags /\ r.waitList = k.waitList
             /\ r.owner = k.owner /\ r.mutexes = k.mutexes
             /\ r.priority = [k.priority EXCEPT ![osIdleTask] = 0]
             /\ r.basePriority = [k.basePriority EXCEPT ![osIdleTask] = 0]
             /\ osRun(k) = osSchedule(r, 0)
<1>. DEFINE r == Humbled(k)
<1>1. 0 \in Priority /\ osIdleTask \in Thread
  BY KernelAssumption DEF Priority, MainPriority, Thread
<1>2. /\ r \in KernelState /\ r.state = k.state /\ r.current = k.current
      /\ r.flags = k.flags /\ r.readyList = k.readyList
      /\ r.waitList = k.waitList /\ r.waiters = k.waiters /\ r.timerList = k.timerList
      /\ r.result = k.result /\ r.owner = k.owner /\ r.mutexes = k.mutexes
      /\ r.priority = [k.priority EXCEPT ![osIdleTask] = 0]
      /\ r.basePriority = [k.basePriority EXCEPT ![osIdleTask] = 0]
      /\ \A t \in Thread \ {osIdleTask} : r.priority[t] = k.priority[t]
  BY <1>1 DEF KernelInv, Lists, KernelState, Humbled
<1>3. osRun(k) = osSchedule(r, 0)
  BY DEF osRun, Humbled
<1>. HIDE DEF r
<1>4. KernelInv(r)
  <2>0. k.state[osIdleTask] = "RUNNING" /\ Lists(k)
    BY <1>1 DEF KernelInv, CurrentExact
  <2>1. Lists(r)
    <3>1. \A u \in Thread : r.priority[u] = k.priority[u] \/ k.state[u] \notin {"READY", "BLOCKED"}
      BY <1>2, <2>0
    <3>2. /\ r \in KernelState /\ r.state = k.state /\ r.flags = k.flags
          /\ r.waitList = k.waitList /\ r.timerList = k.timerList
          /\ r.readyList = k.readyList /\ r.waiters = k.waiters
      BY <1>2
    <3>. QED BY <2>0, <3>1, <3>2, Unmoved
  <2>. QED BY <1>2, <2>1 DEF KernelInv, CurrentExact
<1>5. Unaffected(r, k)
  BY <1>2 DEF Unaffected, Same
<1>. QED
  BY <1>2, <1>3, <1>4, <1>5 DEF r

LEMMA RunInv ==
  ASSUME NEW k, KernelInv(k), k.current = osIdleTask
  PROVE  KernelInv(osRun(k)) /\ Top(osRun(k)) /\ Unaffected(osRun(k), k)
<1>. DEFINE r == Humbled(k)
            s == osSchedule(r, 0)
<1>1. KernelInv(r) /\ Unaffected(r, k) /\ osRun(k) = s
  BY RunParts
<1>. HIDE DEF r
<1>2. KernelInv(s) /\ Top(s) /\ Unaffected(s, r)
  BY <1>1, Schedule
<1>. HIDE DEF s
<1>. QED
  BY <1>1, <1>2, Transitive

\* osInit.
LEMMA InitInv == KernelInv(osInit)
<1>. DEFINE k == osInit
<1>1. k \in KernelState
  <2>1. /\ MainPriority \in Priority /\ 0 \in Priority
        /\ OS_CFG_TICK_START \in OsTick /\ OS_CFG_AGING_TICKS \in 1 .. OS_CFG_AGING_TICKS
        /\ osIdleTask \in Thread
    BY KernelAssumption DEF Priority, MainPriority, Thread, OsTick
  <2>. QED BY <2>1 DEF osInit, KernelState, TaskState
<1>2. osIdleTask \in Thread /\ osIdleTask \notin Task /\ NULL \notin Object
  BY KernelAssumption DEF Thread
<1>3. ToSet(<< >>) = {} /\ Injective(<< >>) /\ Sorted(k, << >>)
  BY DEF ToSet, Injective, Sorted
<1>4. /\ k.current = osIdleTask /\ k.readyList = << >> /\ k.timerList = << >>
      /\ k.state = [t \in Thread |-> IF t = osIdleTask THEN "RUNNING" ELSE "DEAD"]
      /\ k.flags = [t \in Thread |-> {}]
      /\ k.waitList = [t \in Thread |-> NULL]
      /\ k.waiters = [o \in Object |-> << >>]
  BY DEF osInit
<1>. HIDE DEF k
<1>5. ReadyListExact(k) /\ TimerListExact(k)
  BY <1>3, <1>4 DEF ReadyListExact, TimerListExact, OnTimer
<1>6. WaitListsExact(k)
  BY <1>2, <1>3, <1>4 DEF WaitListsExact
<1>7. CurrentExact(k) /\ k.state[osIdleTask] = "RUNNING"
  BY <1>2, <1>4 DEF CurrentExact
<1>8. Ordered(k)
  BY <1>3, <1>4 DEF Ordered
<1>. QED
  BY <1>1, <1>5, <1>6, <1>7, <1>8 DEF KernelInv, Lists, k

----------------------------------------------------------------------------
(***************************************************************************)
(* What the functions do to what tasks inherit.                            *)
(***************************************************************************)

\* Every priority is a number.
LEMMA PriorityInt ==
  ASSUME NEW k, Lists(k), NEW t \in Thread
  PROVE  k.priority[t] \in Int /\ k.basePriority[t] \in Int
<1>1. k \in KernelState
  BY DEF Lists
<1>2. k.priority[t] \in Priority /\ k.basePriority[t] \in Priority
  BY <1>1 DEF KernelState
<1>3. Priority \subseteq Int
  BY KernelAssumption DEF Priority, MainPriority
<1>. QED
  BY <1>2, <1>3

LEMMA CurrentRuns ==
  ASSUME NEW k, KernelInv(k)
  PROVE  /\ Lists(k) /\ k.current \in Thread /\ k.state[k.current] = "RUNNING"
         /\ k.flags[k.current] = {} /\ k.waitList[k.current] = NULL
<1>1. /\ Lists(k) /\ k.current \in Thread /\ k.state[k.current] = "RUNNING"
      /\ k.waitList \in [Thread -> Object \cup {NULL}]
  BY DEF KernelInv, Lists, KernelState, CurrentExact
<1>2. k.flags[k.current] = {}
  BY <1>1 DEF Lists, TimerListExact
<1>3. k.waitList[k.current] = NULL
  BY <1>1 DEF Lists, WaitListsExact
<1>. QED
  BY <1>1, <1>2, <1>3

\* The current task may settle at any time.
LEMMA SettleFine ==
  ASSUME NEW k, KernelInv(k), Fine(k)
  PROVE  LET s == osSettle(k, k.current)
         IN  /\ KernelInv(s) /\ Fine(s) /\ Reordered(s, k) /\ Alike(s, k)
             /\ s.priority[k.current] <= k.priority[k.current]
             /\ \A u \in Thread \ {k.current} : s.priority[u] = k.priority[u]
<1>. DEFINE t == k.current
            s == osSettle(k, t)
            p == osInheritedPriority(k, t)
<1>1. t \in Thread /\ k.state[t] = "RUNNING" /\ Lists(k) /\ Queued(k)
  BY CurrentRuns, ListsQueued
<1>2. Reordered(s, k) /\ Lowered(s, k, t)
  BY <1>1, Settle
<1>3. Fine(s)
  BY <1>1, <1>2, LoweredFine
<1>4. p \in Priority /\ p <= k.priority[t]
  <2>1. Hurried(k) /\ Listed(k) /\ k.basePriority[t] <= k.priority[t]
    BY <1>1 DEF Fine, Urgent, Based
  <2>. HIDE DEF t
  <2>2. p \in Priority /\ (Hurried(k) /\ Listed(k) /\ k.basePriority[t] <= k.priority[t]
                             => p <= k.priority[t])
    BY <1>1, InheritedBounds
  <2>. QED BY <2>1, <2>2
<1>. HIDE DEF p
<1>5. s.priority[t] <= k.priority[t] /\ \A u \in Thread \ {t} : s.priority[u] = k.priority[u]
  <2>1. k.priority[t] \in Int
    BY <1>1, PriorityInt
  <2>2. k.priority \in [Thread -> Priority]
    BY <1>1 DEF Lists, KernelState
  <2>3. s.priority = k.priority \/ s.priority = [k.priority EXCEPT ![t] = p]
    BY <1>2 DEF Lowered, p
  <2>. HIDE DEF s, t
  <2>. QED BY <1>4, <2>1, <2>2, <2>3
<1>6. Alike(s, k)
  BY <1>2 DEF Alike, Reordered, Kept
<1>. HIDE DEF s
<1>7. KernelInv(s)
  BY <1>2, ReorderedInv
<1>. QED
  BY <1>2, <1>3, <1>5, <1>6, <1>7 DEF s, t

LEMMA ScheduleFine ==
  ASSUME NEW k, KernelInv(k), Fine(k), NEW yield \in {0, 1}
  PROVE  Fine(osSchedule(k, yield))
<1>. DEFINE r == osSchedule(k, yield)
            s == osSettle(k, k.current)
<1>1. /\ Kept(r, k)
      /\ r = k \/ Eased(r, s)
  BY Schedule
<1>2. Fine(s) /\ Alike(s, k)
  BY SettleFine
<1>. HIDE DEF r, s
<1>3. Alike(r, s)
  BY <1>1, <1>2 DEF Alike, Kept
<1>. QED
  BY <1>1, <1>2, <1>3, EasedFine DEF r

\* One task begins to wait for a mutex, or does not, and the others wait no longer
\* than they did.
LEMMA JoinedUrgent ==
  ASSUME NEW k, Urgent(k), NEW r,
         r.priority = k.priority, r.basePriority = k.basePriority, r.owner = k.owner,
         NEW t \in Thread, \A u \in Thread \ {t} : WaitEased(r, k, u),
         OS_CFG_MUTEX_INHERITANCE =>
           /\ "MUTEX" \in r.flags[t] <=> r.waitList[t] \in Mutex
           /\ \A m \in Mutex : r.waitList[t] = m =>
                r.owner[m] \in Thread /\ r.priority[t] <= r.priority[r.owner[m]]
  PROVE  Urgent(r)
<1>1. Based(r)
  BY DEF Urgent, Based
<1>2. Hurried(r)
  <2>. SUFFICES ASSUME OS_CFG_MUTEX_INHERITANCE, NEW m \in Mutex, NEW w \in Thread,
                       r.waitList[w] = m
                PROVE  r.owner[m] \in Thread /\ r.priority[w] <= r.priority[r.owner[m]]
    BY DEF Hurried
  <2>1. CASE w = t
    BY <2>1
  <2>2. CASE w # t
    BY <2>2, KernelAssumption DEF Urgent, Hurried, WaitEased
  <2>. QED BY <2>1, <2>2
<1>3. Flagged(r)
  <2>. SUFFICES ASSUME OS_CFG_MUTEX_INHERITANCE, NEW u \in Thread
                PROVE  "MUTEX" \in r.flags[u] <=> r.waitList[u] \in Mutex
    BY DEF Flagged
  <2>1. CASE u = t
    BY <2>1
  <2>2. CASE u # t
    BY <2>2, KernelAssumption DEF Urgent, Flagged, WaitEased
  <2>. QED BY <2>1, <2>2
<1>. QED
  BY <1>1, <1>2, <1>3 DEF Urgent

\* Raising a task, and whomever it waits for, to a priority it may have.
LEMMA RaiseFine ==
  ASSUME NEW k, Lists(k), NEW t \in Thread, NEW p \in Priority,
         Hurried(k), Flagged(k), Listed(k), BasedBut(k, t),
         k.basePriority[t] <= p \/ k.basePriority[t] <= k.priority[t]
  PROVE  LET r == osPriorityRaise(k, t, p)
         IN  Reordered(r, k) /\ Fine(r) /\ p <= r.priority[t]
<1>. DEFINE r == osPriorityRaise(k, t, p)
<1>1. /\ Reordered(r, k)
      /\ \A u \in Thread :
           \/ r.priority[u] = k.priority[u]
           \/ k.priority[u] < p /\ r.priority[u] = p /\ (u = t \/ IsOwner(k, u))
      /\ p <= r.priority[t]
      /\ Hurried(k) /\ Flagged(k) => Hurried(r)
  BY PriorityRaise
<1>. HIDE DEF r
<1>2. r.basePriority = k.basePriority /\ r.flags = k.flags /\ r.waitList = k.waitList
      /\ r.owner = k.owner /\ r.mutexes = k.mutexes /\ Lists(r)
  BY <1>1 DEF Reordered, Kept
<1>3. Based(r)
  <2>. SUFFICES ASSUME NEW u \in Thread PROVE k.basePriority[u] <= r.priority[u]
    BY <1>2 DEF Based
  <2>1. /\ k.priority[u] \in Int /\ k.basePriority[u] \in Int /\ r.priority[u] \in Int
        /\ k.basePriority[t] \in Int /\ r.priority[t] \in Int
    BY <1>2, PriorityInt
  <2>2. p \in Int
    BY KernelAssumption DEF Priority, MainPriority
  <2>3. CASE u = t
    BY <1>1, <2>1, <2>2, <2>3
  <2>4. CASE u # t
    BY <1>1, <2>1, <2>2, <2>4 DEF BasedBut
  <2>. QED BY <2>3, <2>4
<1>4. Flagged(r) /\ Listed(r)
  BY <1>2 DEF Flagged, Listed
<1>. QED
  BY <1>1, <1>3, <1>4 DEF Fine, Urgent, r

LEMMA LowerFine ==
  ASSUME NEW k, Lists(k), Fine(k), NEW t \in Thread
  PROVE  Fine(LowerToInherited(k, t)) /\ Reordered(LowerToInherited(k, t), k)
<1>1. Reordered(LowerToInherited(k, t), k) /\ Lowered(LowerToInherited(k, t), k, t)
  BY Lower
<1>. QED
  BY <1>1, ListsQueued, LoweredFine

\* Aging raises those on the ready list, and nobody on it waits.
LEMMA AgingFine ==
  ASSUME NEW k, KernelInv(k), Fine(k)
  PROVE  Fine(TickAging(k))
<1>. DEFINE s == osSettle(k, k.current)
            older == [s EXCEPT !.aging = s.aging - 1]
            priority == [t \in Thread |-> IF Aged(s, t) THEN s.priority[t] + 1 ELSE s.priority[t]]
            aged == [s EXCEPT !.aging = OS_CFG_AGING_TICKS, !.priority = priority]
<1>1. KernelInv(s) /\ Fine(s)
  BY SettleFine
<1>2. TickAging(k) = IF ~OS_CFG_AGING THEN k ELSE IF s.aging > 1 THEN older ELSE aged
  BY DEF TickAging
<1>. HIDE DEF s
<1>3. s \in KernelState /\ Lists(s)
  BY <1>1 DEF KernelInv, Lists
<1>4. Fine(older)
  <2>1. /\ older.priority = s.priority /\ older.basePriority = s.basePriority
        /\ older.flags = s.flags /\ older.waitList = s.waitList
        /\ older.owner = s.owner /\ older.mutexes = s.mutexes
    BY <1>3 DEF KernelState
  <2>. HIDE DEF older
  <2>. QED BY <1>1, <2>1 DEF Fine, Urgent, Based, Hurried, Flagged, Listed
<1>5. Fine(aged)
  <2>1. /\ aged.priority = priority /\ aged.basePriority = s.basePriority
        /\ aged.flags = s.flags /\ aged.waitList = s.waitList
        /\ aged.owner = s.owner /\ aged.mutexes = s.mutexes
    BY <1>3 DEF KernelState
  <2>2. \A t \in Thread : priority[t] = IF Aged(s, t) THEN s.priority[t] + 1 ELSE s.priority[t]
    OBVIOUS
  <2>. HIDE DEF aged, priority
  <2>3. ASSUME NEW t \in Thread
        PROVE  /\ s.priority[t] \in Int /\ priority[t] \in Int /\ s.basePriority[t] \in Int
               /\ s.priority[t] <= priority[t]
               /\ s.waitList[t] # NULL => priority[t] = s.priority[t]
    <3>1. s.priority[t] \in Int /\ s.basePriority[t] \in Int
      BY <1>3, PriorityInt
    <3>2. s.waitList[t] # NULL => t \notin ToSet(s.readyList)
      BY <1>3 DEF Lists, WaitListsExact, ReadyListExact
    <3>. QED BY <2>2, <3>1, <3>2 DEF Aged
  <2>4. Based(aged)
    <3>. SUFFICES ASSUME NEW t \in Thread PROVE s.basePriority[t] <= priority[t]
      BY <2>1 DEF Based
    <3>1. s.basePriority[t] <= s.priority[t]
      BY <1>1 DEF Fine, Urgent, Based
    <3>. QED BY <2>3, <3>1
  <2>5. Hurried(aged)
    <3>. SUFFICES ASSUME OS_CFG_MUTEX_INHERITANCE, NEW m \in Mutex, NEW w \in Thread,
                         s.waitList[w] = m
                  PROVE  s.owner[m] \in Thread /\ priority[w] <= priority[s.owner[m]]
      BY <2>1 DEF Hurried
    <3>1. s.owner[m] \in Thread /\ s.priority[w] <= s.priority[s.owner[m]]
      BY <1>1 DEF Fine, Urgent, Hurried
    <3>2. priority[w] = s.priority[w]
      BY <2>3, KernelAssumption
    <3>3. /\ s.priority[w] \in Int
          /\ s.priority[s.owner[m]] \in Int /\ priority[s.owner[m]] \in Int
          /\ s.priority[s.owner[m]] <= priority[s.owner[m]]
      BY <2>3, <3>1
    <3>. QED BY <3>1, <3>2, <3>3
  <2>6. Flagged(aged) /\ Listed(aged)
    BY <1>1, <2>1 DEF Fine, Urgent, Flagged, Listed
  <2>. QED BY <2>4, <2>5, <2>6 DEF Fine, Urgent
<1>. QED
  BY <1>2, <1>4, <1>5

LEMMA TickFine ==
  ASSUME NEW k, KernelInv(k), Fine(k)
  PROVE  Fine(osTickHandler(k))
<1>. DEFINE late == TickTimeouts(k)
            aged == TickAging(late)
<1>1. KernelInv(late) /\ Expired(late, k) /\ Eased(late, k)
  BY Timeouts
<1>2. osTickHandler(k) = osSchedule(aged, OS_CFG_ROUND_ROBIN)
  BY DEF osTickHandler
<1>. HIDE DEF late
<1>3. Fine(late)
  BY <1>1, EasedFine DEF Expired, Alike
<1>4. KernelInv(aged) /\ Fine(aged)
  BY <1>1, <1>3, AgingInv, AgingFine
<1>. HIDE DEF aged
<1>. QED
  BY <1>2, <1>4, ScheduleFine, KernelAssumption

\* Nobody has yet a reason to wait for a task that is created.
LEMMA CreateFine ==
  ASSUME NEW k, KernelInv(k), Fine(k), NEW t \in Thread, k.state[t] = "DEAD",
         k.mutexes[t] = << >>, NEW p \in Priority
  PROVE  Fine(osTaskCreate(k, t, p))
<1>. DEFINE q == osTaskPriority(p)
            c == Cleared(k, t, p)
            ready == osReady(c, t)
<1>1. /\ KernelInv(c)
      /\ c.waitList = k.waitList /\ c.owner = k.owner /\ c.flags = k.flags
      /\ c.mutexes = [k.mutexes EXCEPT ![t] = << >>]
      /\ c.priority = [k.priority EXCEPT ![t] = q]
      /\ c.basePriority = [k.basePriority EXCEPT ![t] = q]
      /\ KernelInv(ready) /\ Kept(ready, c)
      /\ Eased(ready, c)
      /\ osTaskCreate(k, t, p) = osSchedule(ready, 0)
  <2>. HIDE DEF q, c, ready
  <2>1. LET d == Cleared(k, t, p)
            r == osReady(d, t)
        IN  /\ KernelInv(d) /\ d.state = k.state /\ d.current = k.current
            /\ d.waitList = k.waitList /\ d.owner = k.owner /\ d.flags = k.flags
            /\ d.result = [k.result EXCEPT ![t] = FALSE]
            /\ d.mutexes = [k.mutexes EXCEPT ![t] = << >>]
            /\ d.priority = [k.priority EXCEPT ![t] = osTaskPriority(p)]
            /\ d.basePriority = [k.basePriority EXCEPT ![t] = osTaskPriority(p)]
            /\ KernelInv(r) /\ Kept(r, d) /\ r.waitList = d.waitList
            /\ r.state = [k.state EXCEPT ![t] = "READY"] /\ r.current = k.current
            /\ Eased(r, d)
            /\ osTaskCreate(k, t, p) = osSchedule(r, 0)
    BY CreateParts
  <2>. QED BY <2>1 DEF q, c, ready
<1>2. q \in Int
  BY TaskPriorityType, KernelAssumption DEF Priority, MainPriority
<1>. HIDE DEF q, c, ready
<1>3. /\ \A u \in Thread \ {t} : /\ c.priority[u] = k.priority[u]
                                 /\ c.basePriority[u] = k.basePriority[u]
      /\ c.priority[t] = q /\ c.basePriority[t] = q
      /\ \A u \in Thread : c.mutexes[u] = k.mutexes[u]
      /\ k.waitList[t] = NULL
  <2>1. /\ k.priority \in [Thread -> Priority] /\ k.basePriority \in [Thread -> Priority]
        /\ k.mutexes \in [Thread -> Seq(Mutex)]
    BY DEF KernelInv, Lists, KernelState
  <2>2. k.waitList[t] = NULL
    BY DEF KernelInv, Lists, WaitListsExact
  <2>3. \A u \in Thread : c.mutexes[u] = k.mutexes[u]
    BY <1>1, <2>1
  <2>. QED BY <1>1, <2>1, <2>2, <2>3
<1>4. OS_CFG_MUTEX_INHERITANCE => \A m \in Mutex : k.owner[m] # t
  BY DEF Fine, Listed, ToSet
<1>5. Fine(c)
  <2>1. Based(c)
    BY <1>2, <1>3 DEF Fine, Urgent, Based
  <2>2. Hurried(c)
    BY <1>1, <1>3, <1>4, KernelAssumption DEF Fine, Urgent, Hurried
  <2>3. Flagged(c) /\ Listed(c)
    BY <1>1, <1>3 DEF Fine, Urgent, Flagged, Listed
  <2>. QED BY <2>1, <2>2, <2>3 DEF Fine, Urgent
<1>6. Alike(ready, c)
  BY <1>1 DEF Alike, Kept
<1>7. Fine(ready)
  BY <1>1, <1>5, <1>6, EasedFine
<1>. QED
  BY <1>1, <1>7, ScheduleFine

LEMMA SuspendFine ==
  ASSUME NEW k, KernelInv(k), Fine(k), NEW t \in Thread
  PROVE  Fine(osTaskSuspend(k, t))
<1>. DEFINE r == osTaskSuspend(k, t)
<1>1. (Unaffected(r, k) \/ Unavailing(r, k, t)) /\ Eased(r, k)
  BY SuspendInv
<1>. HIDE DEF r
<1>2. Alike(r, k)
  BY <1>1 DEF Alike, Unaffected, Unavailing, Only, Same
<1>. QED
  BY <1>1, <1>2, EasedFine DEF r

LEMMA ResumeFine ==
  ASSUME NEW k, KernelInv(k), Fine(k), NEW t \in Thread
  PROVE  Fine(osTaskResume(k, t))
<1>. DEFINE r == osTaskResumeFromISR(k, t)
<1>1. KernelInv(r) /\ Unaffected(r, k) /\ Eased(r, k)
  BY ResumeInv
<1>2. osTaskResume(k, t) = osSchedule(r, 0)
  BY DEF osTaskResume
<1>. HIDE DEF r
<1>3. Fine(r)
  BY <1>1, EasedFine DEF Alike, Unaffected, Same
<1>. QED
  BY <1>1, <1>2, <1>3, ScheduleFine

\* Up with everybody on the chain, or down to what the task inherits.
LEMMA SetPriorityFine ==
  ASSUME NEW k, KernelInv(k), Fine(k), NEW t \in Thread, NEW p \in Priority
  PROVE  Fine(osTaskSetPriority(k, t, p))
<1>. DEFINE q == osTaskPriority(p)
            b == Rebased(k, t, p)
            m == Repositioned(k, t, p)
            i == osInheritedPriority(b, t)
<1>1. /\ KernelInv(b) /\ b.flags = k.flags /\ b.waitList = k.waitList
      /\ b.priority = k.priority /\ b.owner = k.owner /\ b.mutexes = k.mutexes
      /\ b.basePriority = [k.basePriority EXCEPT ![t] = q]
      /\ i \in Priority
      /\ KernelInv(m)
      /\ osTaskSetPriority(k, t, p) = osSchedule(m, 0)
  BY SetPriorityParts
<1>2. m = IF i > k.priority[t] THEN osPriorityRaise(b, t, i) ELSE LowerToInherited(b, t)
  BY DEF Repositioned
<1>3. Lists(b) /\ Queued(b)
  BY <1>1, ListsQueued DEF KernelInv
<1>4. b.basePriority[t] <= i
  <2>. HIDE DEF b
  <2>. QED BY <1>3, InheritedBounds
<1>5. Lowered(LowerToInherited(b, t), b, t)
  <2>. HIDE DEF b
  <2>. QED BY <1>3, Lower
<1>6. i = osInheritedPriority(b, t)
  OBVIOUS
<1>. HIDE DEF q, b, m, i
<1>7. Hurried(b) /\ Flagged(b) /\ Listed(b)
  BY <1>1 DEF Fine, Urgent, Hurried, Flagged, Listed
<1>8. BasedBut(b, t)
  BY <1>1 DEF Fine, Urgent, Based, BasedBut, KernelInv, Lists, KernelState
<1>9. k.priority[t] \in Int /\ i \in Int
  BY <1>1, PriorityInt, KernelAssumption DEF KernelInv, Priority, MainPriority
<1>10. CASE i > k.priority[t]
  BY <1>1, <1>2, <1>3, <1>4, <1>7, <1>8, <1>10, RaiseFine, ScheduleFine
<1>11. CASE i <= k.priority[t]
  <2>1. Fine(LowerToInherited(b, t))
    BY <1>1, <1>3, <1>5, <1>6, <1>7, <1>8, <1>11, LoweredFine
  <2>. QED BY <1>1, <1>2, <1>9, <1>11, <2>1, ScheduleFine
<1>. QED
  BY <1>9, <1>10, <1>11

\* A task that only waits for time to pass settles before.
LEMMA DelayFine ==
  ASSUME NEW k, KernelInv(k), Fine(k), NEW ticks \in OsTick
  PROVE  Fine(osDelay(k, ticks))
<1>1. CASE ticks = 0
  BY <1>1, ScheduleFine DEF osDelay
<1>2. CASE ticks # 0
  <2>. DEFINE r == osBlock(k, NULL, ticks)
              t == k.current
              s == osSettle(k, t)
  <2>1. /\ t = osIdleTask => Unaffected(r, k) /\ Eased(r, k)
        /\ t # osIdleTask =>
             /\ Settled(r, k, t) /\ Only(r, k, t) /\ r.mutexes = k.mutexes
             /\ r.waitList[t] = NULL
    <3>. HIDE DEF r, t
    <3>1. LET b == osBlock(k, NULL, ticks)
              task == k.current
          IN  /\ KernelInv(b)
              /\ task = osIdleTask => Unaffected(b, k) /\ (Top(k) => Top(b)) /\ Eased(b, k)
              /\ task # osIdleTask =>
                   /\ Top(b) /\ Settled(b, k, task)
                   /\ Only(b, k, task) /\ b.mutexes = k.mutexes
                   /\ b.state[task] = "BLOCKED" /\ b.waitList[task] = NULL
      BY NULL \in Object \cup {NULL}, BlockInv, ZenonT(60)
    <3>. QED BY <3>1 DEF r, t
  <2>2. osDelay(k, ticks) = r
    BY <1>2 DEF osDelay
  <2>. HIDE DEF r
  <2>3. CASE t = osIdleTask
    BY <2>1, <2>2, <2>3, EasedFine DEF Alike, Unaffected, Same
  <2>4. CASE t # osIdleTask
    <3>1. Fine(s) /\ Reordered(s, k)
      BY SettleFine
    <3>2. Eased(r, s)
      <4>1. /\ r.priority = s.priority /\ r.basePriority = k.basePriority
            /\ \A u \in Thread \ {t} : WaitEased(r, k, u)
            /\ "MUTEX" \in r.flags[t] <=> "MUTEX" \in k.flags[t]
        BY <2>1, <2>4 DEF Settled
      <4>2. s.basePriority = k.basePriority /\ s.waitList = k.waitList /\ s.flags = k.flags
        BY <3>1 DEF Reordered, Kept
      <4>3. k.flags[t] = {}
        BY CurrentRuns
      <4>. HIDE DEF s, t
      <4>. QED BY <2>1, <2>4, <4>1, <4>2, <4>3 DEF Eased, WaitEased
    <3>3. Alike(r, s)
      BY <2>1, <2>4, <3>1 DEF Alike, Only, Reordered, Kept
    <3>. QED BY <2>2, <3>1, <3>2, <3>3, EasedFine
  <2>. QED BY <2>3, <2>4
<1>. QED
  BY <1>1, <1>2
=============================================================================
