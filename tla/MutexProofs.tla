---------------------------- MODULE MutexProofs -----------------------------
(***************************************************************************)
(* What holds of mutexes for any number of them and of tasks.              *)
(***************************************************************************)
EXTENDS Mutex, ApplicationProofs

\* The mutexes each task tries to lock and those it has been told it locked.
Pending == [Thread -> Mutex \cup {NULL}]
Holding == [Thread -> SUBSET Mutex]

\* A task in a call c waits for the mutex it tries to lock, and the mutexes on
\* its list are those it owns.
Waits(r, c, t) ==
  /\ r.waitList[t] = IF c[t] # NULL /\ r.state[t] = "BLOCKED" THEN c[t] ELSE NULL
  /\ r.state[t] = "DEAD" => c[t] = NULL

Owns(r, t) ==
  /\ Injective(r.mutexes[t])
  /\ \A m \in Mutex : m \in ToSet(r.mutexes[t]) <=> OS_CFG_MUTEX_INHERITANCE /\ r.owner[m] = t

Bookkept(r, c) == \A t \in Thread : Waits(r, c, t) /\ Owns(r, t)

\* A task is told about the mutexes it owns: h are those it has been told about.
Told(r, h, c) ==
  \A m \in Mutex, t \in Thread :
    r.owner[m] = t <=> m \in h[t] \/ (c[t] = m /\ r.state[t] # "BLOCKED" /\ r.result[t])

\* Nobody is told that it did not get what it got, and nothing is owned by the
\* dead.
AlwaysTold == ~MaySuspendWoken /\ (OS_CFG_MUTEX_INHERITANCE \/ "Delete" \notin Calls)

IInv ==
  /\ KernelInv(k) /\ running \in BOOLEAN
  /\ call \in Pending /\ holds \in Holding
  /\ Bookkept(k, call)
  /\ \A t \in Thread : k.state[t] = "DEAD" => holds[t] = {} /\ k.mutexes[t] = << >>
  /\ AlwaysTold => Told(k, holds, call)

\* An empty list.
LEMMA NothingOn ==
  ASSUME NEW S, NEW s \in Seq(S), \A x \in S : x \notin ToSet(s)
  PROVE  s = << >>
<1>1. Len(s) \in Nat /\ \A i \in 1 .. Len(s) : s[i] \in S /\ s[i] \in ToSet(s)
  BY InToSet
<1>2. ~(1 \in 1 .. Len(s))
  BY <1>1
<1>. QED
  BY <1>1, <1>2

LEMMA InitIInv == Init => IInv
<1>. SUFFICES ASSUME Init PROVE IInv
  OBVIOUS
<1>1. KernelInv(k) /\ running \in BOOLEAN
  BY InitInv DEF Init, ApplicationInit
<1>2. /\ \A t \in Thread : /\ k.mutexes[t] = << >> /\ k.waitList[t] = NULL
                           /\ call[t] = NULL /\ holds[t] = {}
      /\ \A m \in Mutex : k.owner[m] = NULL
      /\ call \in Pending /\ holds \in Holding
  BY DEF Init, ApplicationInit, osInit, Pending, Holding
<1>3. Injective(<< >>) /\ ToSet(<< >>) = {} /\ NULL \notin Thread /\ NULL \notin Mutex
  BY KernelAssumption DEF Injective, ToSet
<1>4. \A m \in Mutex, t \in Thread : k.owner[m] # t
  BY <1>2, <1>3
<1>5. Bookkept(k, call)
  BY <1>2, <1>3, <1>4 DEF Bookkept, Waits, Owns
<1>6. Told(k, holds, call)
  BY <1>2, <1>3, <1>4 DEF Told
<1>. QED
  BY <1>1, <1>2, <1>5, <1>6 DEF IInv

\* Nothing that concerns mutexes has happened.
LEMMA UnaffectedKeeps ==
  ASSUME NEW k1, NEW c, Bookkept(k1, c), NEW r, Unaffected(r, k1)
  PROVE  Bookkept(r, c) /\ \A h : Told(k1, h, c) => Told(r, h, c)
BY DEF Bookkept, Waits, Owns, Told, Unaffected, Same

----------------------------------------------------------------------------
\* The list of a task without one of its mutexes.
IsRest(rest, r, task, m) ==
  rest \in Seq(Mutex) /\ Injective(rest) /\ ToSet(rest) = ToSet(r.mutexes[task]) \ {m}

\* The list of the task has been shortened and the mutex is passed on.
PassOn(r, task, rest, m) == osMutexPass([r EXCEPT !.mutexes[task] = rest], m)

\* It is no longer among those the task has been told it owns.
Forget(h, task, m) == [h EXCEPT ![task] = @ \ {m}]

\* Passing on a mutex that has been taken off the list of its owner.
LEMMA PassKeeps ==
  ASSUME NEW r, Lists(r), NEW h \in Holding,
         NEW c \in Pending, Bookkept(r, c),
         NEW task \in Thread, c[task] = NULL,
         NEW m \in Mutex, r.owner[m] = task,
         NEW rest, IsRest(rest, r, task, m)
  PROVE  LET s == PassOn(r, task, rest, m)
         IN  /\ Released(s, r) /\ Bookkept(s, c) /\ s.mutexes[task] = rest
             /\ \A t \in Thread \ {task} : r.state[t] # "BLOCKED" => s.mutexes[t] = r.mutexes[t]
             /\ Told(r, h, c) => Told(s, Forget(h, task, m), c)
<1>. DEFINE q == [r EXCEPT !.mutexes[task] = rest]
            s == osMutexPass(q, m)
            g == [h EXCEPT ![task] = @ \ {m}]
<1>. USE DEF IsRest
<1>0. /\ NULL \notin Thread /\ NULL \notin Mutex
      /\ r.owner \in [Mutex -> Thread \cup {NULL}]
      /\ r.mutexes \in [Thread -> Seq(Mutex)]
      /\ r.state \in [Thread -> TaskState]
  BY KernelAssumption DEF Lists, KernelState
<1>1. /\ q \in KernelState /\ q.state = r.state /\ q.current = r.current
      /\ q.flags = r.flags /\ q.readyList = r.readyList
      /\ q.waitList = r.waitList /\ q.waiters = r.waiters /\ q.timerList = r.timerList
      /\ q.mutexes = [r.mutexes EXCEPT ![task] = rest] /\ q.priority = r.priority
      /\ q.owner = r.owner /\ q.result = r.result
  <2>1. r \in KernelState
    BY DEF Lists
  <2>2. [r.mutexes EXCEPT ![task] = rest] \in [Thread -> Seq(Mutex)]
    BY <1>0
  <2>3. ASSUME NEW f \in [Thread -> Seq(Mutex)] PROVE [r EXCEPT !.mutexes = f] \in KernelState
    BY <2>1 DEF KernelState
  <2>4. q \in KernelState
    BY <2>2, <2>3
  <2>. QED
    BY <2>1, <2>4 DEF KernelState
<1>. HIDE DEF q
<1>2. Lists(q)
  BY <1>1, Unmoved
<1>3. /\ Released(s, q) /\ HandedOver(s, q, m)
      /\ \A t \in Thread : q.state[t] # "BLOCKED" => s.mutexes[t] = q.mutexes[t]
  BY <1>2, MutexPass
<1>. HIDE DEF s
<1>4. /\ g[task] = h[task] \ {m}
      /\ \A t \in Thread \ {task} : g[t] = h[t]
  BY DEF Holding
<1>. HIDE DEF g
<1>5. Released(s, r)
  BY <1>1, <1>3 DEF Released
<1>6. \A t \in Thread \ {task} : r.state[t] # "BLOCKED" => s.mutexes[t] = r.mutexes[t]
  BY <1>0, <1>1, <1>3
<1>7. ASSUME NEW o, \A n \in Mutex \ {m} : o[n] = r.owner[n]
       PROVE  \A t \in Thread : o[m] # t =>
                \A n \in Mutex : o[n] = t <=> n # m /\ r.owner[n] = t
  BY <1>7
<1>8. ASSUME s.owner[m] # task, \A n \in Mutex \ {m} : s.owner[n] = r.owner[n],
              s.mutexes[task] = rest
       PROVE  Owns(s, task)
  <2>1. \A n \in Mutex : s.owner[n] = task <=> n # m /\ r.owner[n] = task
    BY <1>8, <1>7
  <2>2. \A n \in Mutex :
          n \in ToSet(r.mutexes[task]) <=> OS_CFG_MUTEX_INHERITANCE /\ r.owner[n] = task
    BY DEF Bookkept, Owns
  <2>3. \A n \in Mutex :
          n \in ToSet(rest) <=> OS_CFG_MUTEX_INHERITANCE /\ s.owner[n] = task
    BY <2>1, <2>2
  <2>. QED BY <1>8, <2>3 DEF Owns
<1>9. ASSUME NEW t \in Thread \ {task}, s.owner[m] # t,
              \A n \in Mutex \ {m} : s.owner[n] = r.owner[n],
              s.mutexes[t] = r.mutexes[t]
       PROVE  Owns(s, t)
  <2>1. \A n \in Mutex : s.owner[n] = t <=> n # m /\ r.owner[n] = t
    BY <1>9, <1>7
  <2>2. \A n \in Mutex : s.owner[n] = t <=> r.owner[n] = t
    BY <2>1
  <2>3. Owns(r, t)
    BY DEF Bookkept
  <2>. QED BY <1>9, <2>2, <2>3 DEF Owns
<1>10. CASE /\ \A t \in Thread : q.waitList[t] # m /\ Same(s, q, t)
           /\ s.owner = [q.owner EXCEPT ![m] = NULL]
  <2>1. /\ s.owner[m] = NULL
        /\ \A n \in Mutex \ {m} : s.owner[n] = r.owner[n]
    BY <1>0, <1>1, <1>10
  <2>2. /\ s.mutexes[task] = rest
        /\ \A t \in Thread \ {task} : s.mutexes[t] = r.mutexes[t]
    BY <1>0, <1>1, <1>10 DEF Same
  <2>3. ASSUME NEW t \in Thread
        PROVE  Owns(s, t)
    <3>1. CASE t = task
      BY <1>0, <1>8, <2>1, <2>2, <3>1
    <3>2. CASE t # task
      BY <1>0, <1>9, <2>1, <2>2, <3>2
    <3>. QED BY <3>1, <3>2
  <2>4. Bookkept(s, c)
    BY <1>1, <1>10, <2>3 DEF Bookkept, Waits, Same
  <2>5. ASSUME Told(r, h, c) PROVE Told(s, g, c)
    <3>. SUFFICES ASSUME NEW n \in Mutex, NEW t \in Thread
                  PROVE  s.owner[n] = t <=>
                           n \in g[t] \/ (c[t] = n /\ s.state[t] # "BLOCKED" /\ s.result[t])
      BY DEF Told
    <3>1. s.state[t] = "BLOCKED" <=> r.state[t] = "BLOCKED"
      BY <1>1, <1>10 DEF Same
    <3>2. s.result[t] = r.result[t]
      BY <1>1, <1>10 DEF Same
    <3>3. r.owner[n] = t <=> n \in h[t] \/ (c[t] = n /\ r.state[t] # "BLOCKED" /\ r.result[t])
      BY <2>5 DEF Told
    <3>4. CASE n = m
      BY <1>0, <1>4, <2>1, <3>1, <3>2, <3>3, <3>4
    <3>5. CASE n # m
      BY <1>4, <2>1, <3>1, <3>2, <3>3, <3>5
    <3>. QED BY <3>4, <3>5
  <2>. QED BY <1>5, <1>6, <2>2, <2>4, <2>5 DEF s, q, g, PassOn, Forget
<1>11. ASSUME NEW w \in Thread, q.waitList[w] = m, s.owner = [q.owner EXCEPT ![m] = w],
             Given(s, w),
             s.mutexes[w] = IF OS_CFG_MUTEX_INHERITANCE THEN <<m>> \o q.mutexes[w] ELSE q.mutexes[w],
             \A t \in Thread \ {w} : Same(s, q, t)
      PROVE  /\ Bookkept(s, c) /\ s.mutexes[task] = rest
             /\ Told(r, h, c) => Told(s, g, c)
  <2>1. c[w] = m /\ r.state[w] = "BLOCKED" /\ w # task
    BY <1>0, <1>1, <1>11 DEF Bookkept, Waits
  <2>2. /\ s.owner[m] = w
        /\ \A n \in Mutex \ {m} : s.owner[n] = r.owner[n]
    BY <1>0, <1>1, <1>11
  <2>3. /\ s.mutexes[task] = rest
        /\ s.mutexes[w] = IF OS_CFG_MUTEX_INHERITANCE THEN <<m>> \o r.mutexes[w] ELSE r.mutexes[w]
        /\ \A t \in Thread \ {task, w} : s.mutexes[t] = r.mutexes[t]
    BY <1>0, <1>1, <1>11, <2>1 DEF Same
  <2>4. ASSUME NEW t \in Thread
        PROVE  Owns(s, t)
    <3>1. CASE t = task
      BY <1>8, <2>1, <2>2, <2>3, <3>1
    <3>2. CASE t = w
      <4>1. /\ Injective(r.mutexes[w])
            /\ \A n \in Mutex :
                 n \in ToSet(r.mutexes[w]) <=> OS_CFG_MUTEX_INHERITANCE /\ r.owner[n] = w
            /\ r.mutexes[w] \in Seq(Mutex)
        BY <1>0 DEF Bookkept, Owns
      <4>2. m \notin ToSet(r.mutexes[w])
        BY <2>1, <4>1
      <4>3. /\ Injective(<<m>> \o r.mutexes[w])
            /\ ToSet(<<m>> \o r.mutexes[w]) = ToSet(r.mutexes[w]) \cup {m}
        BY <4>1, <4>2, PrependSet
      <4>. QED BY <2>1, <2>2, <2>3, <3>2, <4>1, <4>3 DEF Owns
    <3>3. CASE t \notin {task, w}
      BY <1>9, <2>2, <2>3, <3>3
    <3>. QED BY <3>1, <3>2, <3>3
  <2>5. ASSUME NEW t \in Thread
        PROVE  Waits(s, c, t)
    <3>1. CASE t = w
      BY <1>11, <3>1 DEF Given, Waits
    <3>2. CASE t # w
      BY <1>1, <1>11, <3>2 DEF Bookkept, Waits, Same
    <3>. QED BY <3>1, <3>2
  <2>6. Bookkept(s, c)
    BY <2>4, <2>5 DEF Bookkept
  <2>7. ASSUME Told(r, h, c) PROVE Told(s, g, c)
    <3>. SUFFICES ASSUME NEW n \in Mutex, NEW t \in Thread
                  PROVE  s.owner[n] = t <=>
                           n \in g[t] \/ (c[t] = n /\ s.state[t] # "BLOCKED" /\ s.result[t])
      BY DEF Told
    <3>1. r.owner[n] = t <=> n \in h[t] \/ (c[t] = n /\ r.state[t] # "BLOCKED" /\ r.result[t])
      BY <2>7 DEF Told
    <3>2. CASE t = w
      <4>1. s.state[w] # "BLOCKED" /\ s.result[w] = TRUE /\ g[w] = h[w]
        BY <1>4, <1>11, <2>1 DEF Given
      <4>. QED BY <2>1, <2>2, <3>1, <3>2, <4>1
    <3>3. CASE t # w
      <4>1. /\ s.state[t] = "BLOCKED" <=> r.state[t] = "BLOCKED"
            /\ s.result[t] = r.result[t]
        BY <1>1, <1>11, <3>3 DEF Same
      <4>2. CASE n = m
        BY <1>0, <1>4, <2>2, <3>1, <3>3, <4>1, <4>2
      <4>3. CASE n # m
        BY <1>4, <2>2, <3>1, <4>1, <4>3
      <4>. QED BY <4>2, <4>3
    <3>. QED BY <3>2, <3>3
  <2>. QED BY <2>3, <2>6, <2>7
<1>. QED
  BY <1>3, <1>5, <1>6, <1>10, <1>11 DEF HandedOver, s, q, g, PassOn, Forget

\* osMutexReleaseAll, of a task in no call.
LEMMA ReleaseKeeps ==
  ASSUME NEW r, Lists(r), NEW h \in Holding,
         NEW c \in Pending, Bookkept(r, c),
         NEW task \in Thread, c[task] = NULL, OS_CFG_MUTEX_INHERITANCE
  PROVE  LET s == osMutexReleaseAll(r, task)
         IN  /\ Bookkept(s, c) /\ s.mutexes[task] = << >>
             /\ \A t \in Thread \ {task} : r.state[t] # "BLOCKED" => s.mutexes[t] = r.mutexes[t]
             /\ Told(r, h, c) => Told(s, [h EXCEPT ![task] = {}], c)
<1>. DEFINE owned == r.mutexes[task]
            passed[i \in 0 .. Len(owned)] ==
              IF i = 0 THEN r
              ELSE osMutexPass([passed[i - 1] EXCEPT !.mutexes[task] = Tail(@)], owned[i])
<1>1. osMutexReleaseAll(r, task) = passed[Len(owned)]
  BY DEF osMutexReleaseAll
<1>2. owned \in Seq(Mutex) /\ Len(owned) \in Nat
  BY DEF Lists, KernelState
<1>. HIDE DEF owned
<1>3. passed = [i \in 0 .. Len(owned) |->
                  IF i = 0 THEN r ELSE PassNext(passed[i - 1], task, owned[i])]
  <2>1. \E f : IsPassed(f, Len(owned), r, task, owned)
    BY <1>2, PassedExists
  <2>2. \E f : f = [i \in 0 .. Len(owned) |->
                      IF i = 0 THEN r
                      ELSE osMutexPass([f[i - 1] EXCEPT !.mutexes[task] = Tail(@)], owned[i])]
    BY <2>1 DEF IsPassed, PassNext
  <2>. QED BY <2>2 DEF PassNext
<1>. HIDE DEF passed
\* What is left of the mutexes after i of them.
<1>. DEFINE Left(p, i) ==
              /\ p.mutexes[task] \in Seq(Mutex) /\ Len(p.mutexes[task]) = Len(owned) - i
              /\ \A j \in 1 .. Len(owned) - i : p.mutexes[task][j] = owned[j + i]
            Inv(i) ==
              /\ Released(passed[i], r) /\ Bookkept(passed[i], c) /\ Left(passed[i], i)
              /\ \A t \in Thread \ {task} :
                   r.state[t] # "BLOCKED" => passed[i].mutexes[t] = r.mutexes[t]
              /\ Told(r, h, c) =>
                   \E H \in SUBSET Mutex : Told(passed[i], [h EXCEPT ![task] = H], c)
<1>4. Inv(0)
  <2>1. passed[0] = r
    BY <1>2, <1>3
  <2>2. Released(r, r)
    BY DEF Released
  <2>3. Left(r, 0)
    BY <1>2 DEF owned
  <2>4. h[task] \in SUBSET Mutex /\ h = [h EXCEPT ![task] = h[task]]
    BY DEF Holding
  <2>. HIDE DEF Left
  <2>. QED BY <2>1, <2>2, <2>3, <2>4
<1>5. ASSUME NEW i \in 1 .. Len(owned), Inv(i - 1)
      PROVE  Inv(i)
  <2>. DEFINE s == passed[i - 1]
              o == s.mutexes[task]
              m == owned[i]
              q == osMutexPass([s EXCEPT !.mutexes[task] = Tail(o)], m)
  <2>0. i \in 0 .. Len(owned) /\ i # 0 /\ m \in Mutex
    BY <1>2
  <2>1. passed[i] = q
    BY <1>3, <2>0 DEF PassNext
  <2>2. /\ Released(s, r) /\ Bookkept(s, c)
        /\ o \in Seq(Mutex) /\ Len(o) = Len(owned) - i + 1
        /\ \A j \in 1 .. Len(owned) - i + 1 : o[j] = owned[j + (i - 1)]
    BY <1>2, <1>5
  <2>3. /\ \A t \in Thread \ {task} : r.state[t] # "BLOCKED" => s.mutexes[t] = r.mutexes[t]
        /\ Told(r, h, c) => \E H \in SUBSET Mutex : Told(s, [h EXCEPT ![task] = H], c)
    BY <1>5
  <2>4. Injective(o) /\ \A n \in Mutex : n \in ToSet(o) <=> s.owner[n] = task
    BY <2>2 DEF Bookkept, Owns
  <2>. HIDE DEF s, o, m, q, Left, Inv
  <2>5. o # << >> /\ Head(o) = m
    <3>1. Len(o) > 0 /\ 1 \in 1 .. Len(owned) - i + 1
      BY <1>2, <2>2
    <3>2. o # << >> /\ Head(o) = o[1]
      BY <2>2, <3>1
    <3>3. o[1] = owned[1 + (i - 1)] /\ 1 + (i - 1) = i
      BY <1>2, <2>2, <3>1
    <3>. QED BY <3>2, <3>3 DEF m
  <2>6. /\ Tail(o) \in Seq(Mutex) /\ Injective(Tail(o)) /\ ToSet(Tail(o)) = ToSet(o) \ {m}
        /\ m \in ToSet(o)
    BY <2>2, <2>4, <2>5, HeadTail
  <2>7. ASSUME q.mutexes[task] = Tail(o) PROVE Left(q, i)
    <3>1. Len(Tail(o)) = Len(owned) - i
      BY <1>2, <2>2, <2>5
    <3>2. ASSUME NEW j \in 1 .. Len(owned) - i PROVE Tail(o)[j] = owned[j + i]
      <4>1. /\ j + 1 \in 1 .. Len(owned) - i + 1 /\ (j + 1) + (i - 1) = j + i
            /\ j \in 1 .. Len(Tail(o))
        BY <1>2, <3>1
      <4>2. Tail(o)[j] = o[j + 1]
        BY <2>2, <2>5, <4>1
      <4>. QED BY <2>2, <4>1, <4>2
    <3>. QED BY <2>6, <2>7, <3>1, <3>2 DEF Left
  <2>8. Lists(s) /\ s.owner[m] = task
    BY <2>0, <2>2, <2>4, <2>6 DEF Released
  <2>9. ASSUME NEW g \in Holding
        PROVE  /\ Released(q, s) /\ Bookkept(q, c) /\ q.mutexes[task] = Tail(o)
               /\ \A t \in Thread \ {task} : s.state[t] # "BLOCKED" => q.mutexes[t] = s.mutexes[t]
               /\ Told(s, g, c) => Told(q, Forget(g, task, m), c)
    <3>1. PICK rest : rest = Tail(o) /\ IsRest(rest, s, task, m)
      BY <2>6 DEF o, IsRest
    <3>2. /\ Lists(s) /\ Bookkept(s, c) /\ task \in Thread /\ c \in Pending /\ c[task] = NULL
          /\ m \in Mutex /\ s.owner[m] = task /\ IsRest(rest, s, task, m)
      BY <2>0, <2>2, <2>8, <3>1
    <3>3. q = PassOn(s, task, rest, m)
      BY <3>1 DEF q, PassOn
    <3>4. Released(q, s) /\ Bookkept(q, c) /\ q.mutexes[task] = rest
      BY <3>2, <3>3, PassKeeps
    <3>5. \A t \in Thread \ {task} : s.state[t] # "BLOCKED" => q.mutexes[t] = s.mutexes[t]
      BY <3>2, <3>3, PassKeeps
    <3>6. Told(s, g, c) => Told(q, Forget(g, task, m), c)
      BY <3>2, <3>3, PassKeeps
    <3>. QED BY <3>1, <3>4, <3>5, <3>6
  <2>10. Released(q, r)
    BY <2>2, <2>9 DEF Released
  <2>11. \A t \in Thread \ {task} : r.state[t] # "BLOCKED" => q.mutexes[t] = r.mutexes[t]
    BY <2>2, <2>3, <2>9 DEF Released
  <2>12. ASSUME Told(r, h, c)
         PROVE  \E H \in SUBSET Mutex : Told(q, [h EXCEPT ![task] = H], c)
    <3>1. PICK H \in SUBSET Mutex : Told(s, [h EXCEPT ![task] = H], c)
      BY <2>3, <2>12
    <3>. DEFINE g == [h EXCEPT ![task] = H]
    <3>2. /\ g \in Holding /\ H \ {m} \in SUBSET Mutex
          /\ Forget(g, task, m) = [h EXCEPT ![task] = H \ {m}]
      BY DEF Forget, Holding
    <3>. HIDE DEF g
    <3>3. Told(q, Forget(g, task, m), c)
      BY <2>9, <3>1, <3>2 DEF g
    <3>. QED BY <3>2, <3>3
  <2>13. Bookkept(q, c) /\ Left(q, i)
    BY <2>7, <2>9
  <2>. QED BY <2>1, <2>10, <2>11, <2>12, <2>13 DEF Inv
<1>6. Inv(Len(owned))
  <2>. HIDE DEF Inv
  <2>. DEFINE D == {i \in 0 .. Len(owned) : ~Inv(i)}
  <2>1. SUFFICES ASSUME D # {} PROVE FALSE
    BY <1>2, <2>1
  <2>2. D \in SUBSET Nat
    OBVIOUS
  <2>3. PICK i \in D : \A j \in D : i <= j
    BY <2>1, <2>2, MinIsLeast
  <2>4. i # 0
    BY <1>4, <2>3
  <2>5. i \in 1 .. Len(owned) /\ i - 1 \in 0 .. Len(owned) /\ i - 1 \notin D
    BY <1>2, <2>3, <2>4
  <2>. QED BY <1>5, <2>3, <2>5
<1>. DEFINE s == passed[Len(owned)]
<1>7. /\ Bookkept(s, c) /\ Left(s, Len(owned))
      /\ \A t \in Thread \ {task} : r.state[t] # "BLOCKED" => s.mutexes[t] = r.mutexes[t]
      /\ Told(r, h, c) => \E H \in SUBSET Mutex : Told(s, [h EXCEPT ![task] = H], c)
  BY <1>6
<1>. HIDE DEF s
<1>8. s.mutexes[task] = << >>
  <2>1. s.mutexes[task] \in Seq(Mutex) /\ Len(s.mutexes[task]) = 0
    BY <1>2, <1>7
  <2>. QED BY <2>1
<1>. HIDE DEF Inv, Left
<1>9. ASSUME Told(r, h, c) PROVE Told(s, [h EXCEPT ![task] = {}], c)
  <2>1. PICK H \in SUBSET Mutex : Told(s, [h EXCEPT ![task] = H], c)
    BY <1>7, <1>9
  <2>2. \A m \in Mutex : s.owner[m] # task
    <3>1. ToSet(s.mutexes[task]) = {}
      BY <1>8 DEF ToSet
    <3>. QED BY <1>7, <3>1 DEF Bookkept, Owns
  <2>3. H = {}
    BY <2>1, <2>2 DEF Told, Holding
  <2>. QED BY <2>1, <2>3
<1>. QED
  BY <1>1, <1>7, <1>8, <1>9 DEF s

----------------------------------------------------------------------------
\* The steps.

\* What the current task is like between two calls.
LEMMA CurrentTask ==
  ASSUME IInv
  PROVE  /\ k.current \in Thread /\ k.state[k.current] = "RUNNING"
         /\ k.flags[k.current] = {} /\ k.waitList[k.current] = NULL
BY DEF IInv, KernelInv, Lists, KernelState, CurrentExact, TimerListExact, WaitListsExact

LEMMA LockFreeIInv ==
  ASSUME IInv, NEW m \in Mutex, LockFree(m)
  PROVE  IInv'
<1>. PICK task \in Thread : task = k.current
  BY CurrentTask
<1>0. /\ KernelInv(k) /\ Lists(k) /\ call[task] = NULL /\ k.owner[m] = NULL
      /\ k.state[task] = "RUNNING" /\ NULL \notin Thread
      /\ k.mutexes[task] \in Seq(Mutex)
      /\ k' = osMutexOwn(k, m, task) /\ running' = running /\ call' = call
      /\ holds' = [holds EXCEPT ![task] = @ \cup {m}]
  BY CurrentTask, KernelAssumption
     DEF IInv, LockFree, Returning, KernelInv, Lists, KernelState
<1>1. /\ <<m>> \o k.mutexes[task] \in Seq(Mutex)
      /\ ToSet(<<m>> \o k.mutexes[task]) = ToSet(k.mutexes[task]) \cup {m}
      /\ m \notin ToSet(k.mutexes[task]) => Injective(<<m>> \o k.mutexes[task])
  BY <1>0, PrependSet DEF IInv, Bookkept, Owns
<1>. DEFINE q == IF OS_CFG_MUTEX_INHERITANCE THEN <<m>> \o k.mutexes[task] ELSE k.mutexes[task]
<1>2. q \in Seq(Mutex)
  BY <1>0, <1>1
<1>3. k' = [k EXCEPT !.owner[m] = task, !.mutexes[task] = q]
  BY <1>0 DEF osMutexOwn, Lists, KernelState
<1>. HIDE DEF q
<1>4. /\ k' \in KernelState /\ k'.state = k.state /\ k'.current = k.current
      /\ k'.flags = k.flags /\ k'.readyList = k.readyList
      /\ k'.waitList = k.waitList /\ k'.waiters = k.waiters /\ k'.timerList = k.timerList
      /\ k'.mutexes[task] = q /\ \A t \in Thread \ {task} : k'.mutexes[t] = k.mutexes[t]
      /\ k'.owner[m] = task /\ \A n \in Mutex \ {m} : k'.owner[n] = k.owner[n]
      /\ k'.priority = k.priority /\ k'.result = k.result
  <2>1. /\ k \in KernelState
        /\ k.owner \in [Mutex -> Thread \cup {NULL}] /\ k.mutexes \in [Thread -> Seq(Mutex)]
    BY <1>0 DEF Lists, KernelState
  <2>2. k' \in KernelState
    BY <1>2, <1>3, <2>1 DEF KernelState
  <2>3. /\ k'.owner = [k.owner EXCEPT ![m] = task]
        /\ k'.mutexes = [k.mutexes EXCEPT ![task] = q]
    BY <1>3, <2>1 DEF KernelState
  <2>4. /\ k'.state = k.state /\ k'.current = k.current
        /\ k'.flags = k.flags /\ k'.readyList = k.readyList
        /\ k'.waitList = k.waitList /\ k'.waiters = k.waiters /\ k'.timerList = k.timerList
        /\ k'.priority = k.priority /\ k'.result = k.result
    BY <1>3, <2>1 DEF KernelState
  <2>. QED BY <2>1, <2>2, <2>3, <2>4
<1>5. KernelInv(k)'
  <2>1. Lists(k')
    BY <1>0, <1>4, Unmoved
  <2>. QED BY <1>0, <1>4, <2>1 DEF KernelInv, CurrentExact
<1>6. ASSUME NEW t \in Thread
      PROVE  Owns(k', t)
  <2>1. Injective(k.mutexes[t]) /\ \A n \in Mutex :
          n \in ToSet(k.mutexes[t]) <=> OS_CFG_MUTEX_INHERITANCE /\ k.owner[n] = t
    BY DEF IInv, Bookkept, Owns
  <2>2. CASE t = task
    <3>1. m \notin ToSet(k.mutexes[task])
      BY <1>0, <2>1, <2>2
    <3>2. Injective(q)
      BY <1>1, <2>1, <2>2, <3>1 DEF q
    <3>3. \A n \in Mutex : n \in ToSet(q) <=> OS_CFG_MUTEX_INHERITANCE /\ k'.owner[n] = task
      <4>1. ASSUME NEW n \in Mutex, n # m
            PROVE  n \in ToSet(q) <=> OS_CFG_MUTEX_INHERITANCE /\ k'.owner[n] = task
        BY <1>1, <1>4, <2>1, <2>2, <4>1 DEF q
      <4>2. m \in ToSet(q) <=> OS_CFG_MUTEX_INHERITANCE
        BY <1>1, <3>1 DEF q
      <4>. QED BY <1>4, <4>1, <4>2
    <3>. QED BY <1>4, <2>2, <3>2, <3>3 DEF Owns
  <2>3. CASE t # task
    <3>1. \A n \in Mutex : k'.owner[n] = t <=> k.owner[n] = t
      <4>1. k'.owner[m] # t /\ k.owner[m] # t
        BY <1>0, <1>4, <2>3
      <4>. QED BY <1>4, <4>1
    <3>. QED BY <1>4, <2>1, <2>3, <3>1 DEF Owns
  <2>. QED BY <2>2, <2>3
<1>7. Bookkept(k', call)
  BY <1>4, <1>6 DEF IInv, Bookkept, Waits
<1>8. holds' \in Holding /\ holds'[task] = holds[task] \cup {m}
      /\ \A t \in Thread \ {task} : holds'[t] = holds[t]
  BY <1>0 DEF IInv, Holding
<1>9. ASSUME Told(k, holds, call) PROVE Told(k', holds', call)
  <2>. SUFFICES ASSUME NEW n \in Mutex, NEW t \in Thread
                PROVE  k'.owner[n] = t <=>
                         n \in holds'[t] \/ (call[t] = n /\ k'.state[t] # "BLOCKED" /\ k'.result[t])
    BY DEF Told
  <2>1. k.owner[n] = t <=>
          n \in holds[t] \/ (call[t] = n /\ k.state[t] # "BLOCKED" /\ k.result[t])
    BY <1>9 DEF Told
  <2>2. CASE n = m
    BY <1>0, <1>4, <1>8, <2>1, <2>2
  <2>3. CASE n # m
    BY <1>4, <1>8, <2>1, <2>3
  <2>. QED BY <2>2, <2>3
<1>10. \A t \in Thread : k'.state[t] = "DEAD" => holds'[t] = {} /\ k'.mutexes[t] = << >>
  BY <1>0, <1>4, <1>8 DEF IInv
<1>. QED
  BY <1>0, <1>5, <1>7, <1>8, <1>9, <1>10 DEF IInv

\* The first part of a call that blocks: the owner hurries, and the task waits.
LEMMA WaitBlocks ==
  ASSUME IInv, NEW m \in Mutex, NEW timeout \in OsTick, k.owner[m] # NULL
  PROVE  LET r == osBlock(WaitForMutex(m), m, timeout)
             task == k.current
         IN  /\ KernelInv(r)
             /\ task = osIdleTask => Unaffected(r, k) /\ Eased(r, WaitForMutex(m))
             /\ task # osIdleTask =>
                  /\ Top(r) /\ Settled(r, WaitForMutex(m), task)
                  /\ r.owner = k.owner /\ \A t \in Thread : r.mutexes[t] = k.mutexes[t]
                  /\ r.state[task] = "BLOCKED" /\ r.waitList[task] = m
                  /\ \A t \in Thread \ {task} : Same(r, k, t)
<1>. PICK task \in Thread : task = k.current
  BY CurrentTask
<1>. DEFINE p == k.priority[task]
            raised == osPriorityRaise(k, k.owner[m], p)
            flagged == [raised EXCEPT !.flags[task] = @ \cup {"MUTEX"}]
            kernel == WaitForMutex(m)
<1>0. KernelInv(k) /\ Lists(k) /\ k \in KernelState /\ k.owner[m] \in Thread /\ p \in Priority
  BY DEF IInv, KernelInv, Lists, KernelState
<1>1. kernel = IF OS_CFG_MUTEX_INHERITANCE THEN flagged ELSE k
  BY DEF WaitForMutex
<1>. HIDE DEF p
<1>2. Reordered(raised, k)
  BY <1>0, PriorityRaise
<1>. HIDE DEF raised
<1>3. /\ KernelInv(raised) /\ Unaffected(raised, k) /\ raised.current = task
      /\ raised.state[task] = "RUNNING" /\ raised.flags[task] = {} /\ raised \in KernelState
  BY <1>0, <1>2, ReorderedInv, CurrentTask DEF Reordered, Lists
<1>4. /\ flagged \in KernelState /\ flagged.state = raised.state /\ flagged.current = task
      /\ flagged.flags[task] = {"MUTEX"}
      /\ \A t \in Thread \ {task} : flagged.flags[t] = raised.flags[t]
      /\ flagged.readyList = raised.readyList
      /\ flagged.waitList = raised.waitList /\ flagged.waiters = raised.waiters
      /\ flagged.timerList = raised.timerList /\ flagged.priority = raised.priority
      /\ Kept(flagged, raised)
  BY <1>3 DEF KernelState, Flag, Kept
<1>5. Off(flagged, task) /\ Unaffected(flagged, raised)
  <2>1. Off(raised, task)
    BY <1>3, NotListed DEF KernelInv
  <2>. HIDE DEF flagged
  <2>2. Ordered(flagged)
    BY <1>3, <1>4, <2>1, OrderedSame DEF Off
  <2>3. {u \in Thread : "TIMED" \in flagged.flags[u]} \ {task} =
          {u \in Thread : "TIMED" \in raised.flags[u]} \ {task}
    BY <1>4
  <2>4. Off(flagged, task)
    BY <1>4, <2>1, <2>2, <2>3 DEF Off, OnTimer
  <2>. QED BY <1>4, <2>4 DEF Unaffected, Same, Kept
<1>6. /\ Off(kernel, task) /\ CurrentExact(kernel) /\ "TIMED" \notin kernel.flags[task]
      /\ kernel.state[osIdleTask] \in {"RUNNING", "READY"}
      /\ kernel.current = task /\ Unaffected(kernel, k)
  <2>1. CASE OS_CFG_MUTEX_INHERITANCE
    <3>. HIDE DEF flagged
    <3>1. Unaffected(flagged, k)
      BY <1>3, <1>5, Transitive
    <3>. QED BY <1>1, <1>3, <1>4, <1>5, <2>1, <3>1 DEF KernelInv, CurrentExact
  <2>2. CASE ~OS_CFG_MUTEX_INHERITANCE
    <3>1. Off(k, task)
      BY <1>0, CurrentTask, NotListed
    <3>2. Unaffected(k, k)
      BY DEF Unaffected, Same
    <3>. QED BY <1>0, <1>1, <2>2, <3>1, <3>2, CurrentTask DEF KernelInv
  <2>. QED BY <2>1, <2>2
<1>. HIDE DEF kernel
<1>7. m \in Object
  BY KernelAssumption
<1>. DEFINE r == osBlock(kernel, m, timeout)
<1>8. /\ KernelInv(r)
      /\ task = osIdleTask => Unaffected(r, kernel) /\ Eased(r, kernel)
      /\ task # osIdleTask =>
           /\ Top(r) /\ Settled(r, kernel, task)
           /\ Only(r, kernel, task) /\ r.mutexes = kernel.mutexes
           /\ r.state[task] = "BLOCKED" /\ r.waitList[task] = m
  <2>1. Off(kernel, kernel.current) /\ "TIMED" \notin kernel.flags[kernel.current]
    BY <1>6
  <2>2. LET q == osBlock(kernel, m, timeout)
            current == kernel.current
        IN  /\ KernelInv(q)
            /\ current = osIdleTask =>
                 Unaffected(q, kernel) /\ (Top(kernel) => Top(q)) /\ Eased(q, kernel)
            /\ current # osIdleTask =>
                 /\ Top(q) /\ Settled(q, kernel, current)
                 /\ Only(q, kernel, current) /\ q.mutexes = kernel.mutexes
                 /\ q.state[current] = "BLOCKED" /\ q.waitList[current] = m
    BY <1>6, <1>7, <2>1, Block
  <2>. QED BY <1>6, <2>2
<1>. HIDE DEF r
<1>9. task = osIdleTask => Unaffected(r, k)
  BY <1>6, <1>8, Transitive
<1>10. ASSUME task # osIdleTask
       PROVE  /\ r.owner = k.owner /\ \A t \in Thread : r.mutexes[t] = k.mutexes[t]
              /\ \A t \in Thread \ {task} : Same(r, k, t)
  BY <1>6, <1>8, <1>10 DEF Only, Unaffected, Same
<1>. QED
  BY <1>8, <1>9, <1>10 DEF r, kernel

\* Giving up lowers the owner and nothing else.
LEMMA GiveUpInv ==
  ASSUME NEW r, KernelInv(r), NEW m \in Mutex
  PROVE  KernelInv(GiveUp(r, m)) /\ Unaffected(GiveUp(r, m), r)
<1>1. r.owner[m] \in Thread \cup {NULL}
  BY DEF KernelInv, Lists, KernelState
<1>2. CASE OS_CFG_MUTEX_INHERITANCE /\ r.owner[m] # NULL
  <2>1. Reordered(LowerToInherited(r, r.owner[m]), r)
    BY <1>1, <1>2, Lower DEF KernelInv
  <2>. QED BY <1>2, <2>1, ReorderedInv DEF GiveUp
<1>3. CASE ~(OS_CFG_MUTEX_INHERITANCE /\ r.owner[m] # NULL)
  BY <1>3 DEF GiveUp, Unaffected, Same
<1>. QED
  BY <1>2, <1>3

LEMMA LockOwnedIInv ==
  ASSUME IInv, NEW m \in Mutex, NEW timeout \in Timeout, LockOwned(m, timeout)
  PROVE  IInv'
<1>. PICK task \in Thread : task = k.current
  BY CurrentTask
<1>. DEFINE r == osBlock(WaitForMutex(m), m, timeout)
<1>0. /\ timeout \in OsTick /\ k.owner[m] # NULL /\ call[task] = NULL
      /\ running' = running /\ holds' = holds /\ m # NULL
      /\ k.state[task] = "RUNNING"
      /\ running \in BOOLEAN /\ call \in Pending /\ holds \in Holding
      /\ \/ task = osIdleTask /\ k' = GiveUp(r, m) /\ call' = call
         \/ task # osIdleTask /\ k' = r /\ call' = [call EXCEPT ![task] = m]
  BY ApplicationAssumption, KernelAssumption, CurrentTask DEF IInv, LockOwned, Returning
<1>1. /\ KernelInv(r)
      /\ task = osIdleTask => Unaffected(r, k)
      /\ task # osIdleTask =>
           /\ r.owner = k.owner /\ \A t \in Thread : r.mutexes[t] = k.mutexes[t]
           /\ r.state[task] = "BLOCKED" /\ r.waitList[task] = m
           /\ \A t \in Thread \ {task} : Same(r, k, t)
  <2>1. LET q == osBlock(WaitForMutex(m), m, timeout)
            current == k.current
        IN  /\ KernelInv(q)
            /\ current = osIdleTask => Unaffected(q, k)
            /\ current # osIdleTask =>
                 /\ q.owner = k.owner /\ \A t \in Thread : q.mutexes[t] = k.mutexes[t]
                 /\ q.state[current] = "BLOCKED" /\ q.waitList[current] = m
                 /\ \A t \in Thread \ {current} : Same(q, k, t)
    BY <1>0, WaitBlocks
  <2>. QED BY <2>1
<1>. HIDE DEF r
<1>2. CASE task = osIdleTask
  <2>1. KernelInv(k)' /\ Unaffected(k', r) /\ call' = call
    BY <1>0, <1>1, <1>2, GiveUpInv
  <2>2. Unaffected(k', k)
    BY <1>1, <1>2, <2>1, Transitive
  <2>3. Bookkept(k', call) /\ (Told(k, holds, call) => Told(k', holds, call))
    BY <2>2, UnaffectedKeeps DEF IInv
  <2>4. \A t \in Thread : k'.state[t] = "DEAD" => holds[t] = {} /\ k'.mutexes[t] = << >>
    BY <2>2 DEF IInv, Unaffected, Same
  <2>. QED BY <1>0, <2>1, <2>3, <2>4 DEF IInv
<1>3. CASE task # osIdleTask
  <2>1. /\ k' = r /\ call' \in Pending /\ call'[task] = m
        /\ \A t \in Thread \ {task} : call'[t] = call[t]
    BY <1>0, <1>3 DEF Pending
  <2>2. \A t \in Thread : Waits(k', call', t)
    BY <1>0, <1>1, <1>3, <2>1 DEF IInv, Bookkept, Waits, Same
  <2>3. \A t \in Thread : Owns(k', t)
    BY <1>1, <1>3, <2>1 DEF IInv, Bookkept, Owns
  <2>4. ASSUME Told(k, holds, call) PROVE Told(k', holds, call')
    <3>. SUFFICES ASSUME NEW n \in Mutex, NEW t \in Thread
                  PROVE  k'.owner[n] = t <=>
                           n \in holds[t] \/ (call'[t] = n /\ k'.state[t] # "BLOCKED" /\ k'.result[t])
      BY DEF Told
    <3>1. k.owner[n] = t <=>
            n \in holds[t] \/ (call[t] = n /\ k.state[t] # "BLOCKED" /\ k.result[t])
      BY <2>4 DEF Told
    <3>2. k'.owner[n] = k.owner[n]
      BY <1>1, <1>3, <2>1
    <3>3. CASE t = task
      <4>1. call[t] # n /\ k'.state[t] = "BLOCKED"
        BY <1>0, <1>1, <1>3, <2>1, <3>3, KernelAssumption
      <4>. QED BY <3>1, <3>2, <4>1
    <3>4. CASE t # task
      <4>1. call'[t] = call[t] /\ Same(k', k, t)
        BY <1>1, <1>3, <2>1, <3>4
      <4>. QED BY <3>1, <3>2, <4>1 DEF Same
    <3>. QED BY <3>3, <3>4
  <2>5. \A t \in Thread : k'.state[t] = "DEAD" => holds[t] = {} /\ k'.mutexes[t] = << >>
    BY <1>1, <1>3, <2>1 DEF IInv, Same
  <2>6. Bookkept(k', call') /\ KernelInv(k)'
    BY <1>1, <2>1, <2>2, <2>3 DEF Bookkept
  <2>. QED BY <1>0, <2>1, <2>4, <2>5, <2>6 DEF IInv
<1>. QED
  BY <1>2, <1>3

LEMMA LockReturnsIInv ==
  ASSUME IInv, LockReturns
  PROVE  IInv'
<1>. PICK task \in Thread : task = k.current
  BY CurrentTask
<1>. PICK m : m = call[task]
  OBVIOUS
<1>0. /\ m \in Mutex /\ call' = [call EXCEPT ![task] = NULL] /\ running' = running
      /\ KernelInv(k) /\ running \in BOOLEAN /\ call \in Pending /\ holds \in Holding
      /\ k.state[task] = "RUNNING" /\ NULL \notin Mutex
      /\ \/ k.result[task] /\ k' = k /\ holds' = [holds EXCEPT ![task] = @ \cup {m}]
         \/ ~k.result[task] /\ k' = GiveUp(k, m) /\ holds' = holds
  BY CurrentTask, KernelAssumption DEF IInv, LockReturns, Returns, Returning, Pending
<1>1. KernelInv(k)' /\ Unaffected(k', k)
  BY <1>0, GiveUpInv DEF Unaffected, Same
<1>2. /\ call' \in Pending /\ call'[task] = NULL
      /\ \A t \in Thread \ {task} : call'[t] = call[t]
  BY <1>0 DEF Pending
<1>3. /\ holds' \in Holding
      /\ holds'[task] = IF k.result[task] THEN holds[task] \cup {m} ELSE holds[task]
      /\ \A t \in Thread \ {task} : holds'[t] = holds[t]
  <2>1. CASE k.result[task]
    <3>1. holds' = [holds EXCEPT ![task] = @ \cup {m}]
      BY <1>0, <2>1
    <3>. QED BY <1>0, <2>1, <3>1 DEF Holding
  <2>2. CASE ~k.result[task]
    BY <1>0, <2>2
  <2>. QED BY <2>1, <2>2
<1>4. Bookkept(k', call)
  BY <1>1, UnaffectedKeeps DEF IInv
<1>5. k'.state[task] # "BLOCKED" /\ k'.state[task] # "DEAD"
  BY <1>0, <1>1 DEF Unaffected, Same
<1>6. Bookkept(k', call')
  BY <1>2, <1>4, <1>5 DEF Bookkept, Waits
<1>7. ASSUME Told(k, holds, call) PROVE Told(k', holds', call')
  <2>. SUFFICES ASSUME NEW n \in Mutex, NEW t \in Thread
                PROVE  k'.owner[n] = t <=>
                         n \in holds'[t] \/ (call'[t] = n /\ k'.state[t] # "BLOCKED" /\ k'.result[t])
    BY DEF Told
  <2>1. k.owner[n] = t <=>
          n \in holds[t] \/ (call[t] = n /\ k.state[t] # "BLOCKED" /\ k.result[t])
    BY <1>7 DEF Told
  <2>2. /\ k'.owner = k.owner /\ k'.result[t] = k.result[t]
        /\ k'.state[t] = "BLOCKED" <=> k.state[t] = "BLOCKED"
    BY <1>1 DEF Unaffected, Same
  <2>3. CASE t = task
    BY <1>0, <1>2, <1>3, <2>1, <2>2, <2>3
  <2>4. CASE t # task
    BY <1>2, <1>3, <2>1, <2>2, <2>4
  <2>. QED BY <2>3, <2>4
<1>8. \A t \in Thread : k'.state[t] = "DEAD" => holds'[t] = {} /\ k'.mutexes[t] = << >>
  BY <1>1, <1>3, <1>5 DEF IInv, Unaffected, Same
<1>. QED
  BY <1>0, <1>1, <1>2, <1>3, <1>6, <1>7, <1>8 DEF IInv

\* The current task has not been waiting, so it still runs.
LEMMA ReleasedInv ==
  ASSUME NEW r, KernelInv(r), NEW s, Released(s, r)
  PROVE  KernelInv(s) /\ s.current = r.current /\ s.state[r.current] = "RUNNING"
<1>1. osIdleTask \in Thread /\ r.current \in Thread /\ r.state[r.current] = "RUNNING"
  BY DEF KernelInv, Lists, KernelState, CurrentExact, Thread
<1>2. s.state[osIdleTask] = r.state[osIdleTask] /\ s.state[r.current] = "RUNNING"
  BY <1>1 DEF KernelInv, Released
<1>3. \A t \in Thread : s.state[t] = "RUNNING" => t = r.current
  BY DEF Released, KernelInv, CurrentExact
<1>4. CurrentExact(s)
  BY <1>1, <1>2, <1>3 DEF Released, CurrentExact
<1>. QED
  BY <1>2, <1>4 DEF KernelInv, Released

LEMMA UnlockIInv ==
  ASSUME IInv, NEW m \in Mutex, Unlock(m)
  PROVE  IInv'
<1>. PICK task \in Thread : task = k.current
  BY CurrentTask
<1>. DEFINE rest == RemoveFirst(k.mutexes[task], m)
            passed == PassOn(k, task, rest, m)
            g == Forget(holds, task, m)
            own == IF OS_CFG_MUTEX_INHERITANCE
                   THEN [passed EXCEPT !.priority[task] = osInheritedPriority(passed, task)]
                   ELSE passed
<1>0. /\ KernelInv(k) /\ Lists(k) /\ k.owner[m] = task /\ call[task] = NULL
      /\ running \in BOOLEAN /\ call \in Pending /\ holds \in Holding /\ Bookkept(k, call)
      /\ k.state[task] = "RUNNING" /\ k.mutexes[task] \in Seq(Mutex) /\ Injective(k.mutexes[task])
  BY CurrentTask DEF IInv, Unlock, Returning, KernelInv, Lists, KernelState, Bookkept, Owns
<1>1. k' = osSchedule(own, 0) /\ holds' = g /\ running' = running /\ call' = call
  BY DEF Unlock, PassOn, Forget
<1>2. IsRest(rest, k, task, m)
  BY <1>0, RemoveFirstSet DEF IsRest
<1>. HIDE DEF rest, passed
<1>3. /\ Released(passed, k) /\ Bookkept(passed, call)
      /\ Told(k, holds, call) => Told(passed, g, call)
  <2>1. Released(passed, k) /\ Bookkept(passed, call)
    BY <1>0, <1>2, PassKeeps DEF passed
  <2>2. Told(k, holds, call) => Told(passed, g, call)
    BY <1>0, <1>2, PassKeeps DEF passed
  <2>. QED BY <2>1, <2>2
<1>4. \A t \in Thread : k.state[t] = "DEAD" => passed.mutexes[t] = k.mutexes[t]
  <2>1. \A t \in Thread \ {task} : k.state[t] # "BLOCKED" => passed.mutexes[t] = k.mutexes[t]
    BY <1>0, <1>2, PassKeeps DEF passed
  <2>. QED BY <1>0, <2>1
<1>. HIDE DEF g
<1>5. KernelInv(passed) /\ passed.state[task] = "RUNNING"
  BY <1>0, <1>3, ReleasedInv
<1>6. KernelInv(own) /\ Unaffected(own, passed)
  <2>1. CASE OS_CFG_MUTEX_INHERITANCE
    <3>1. osInheritedPriority(passed, task) \in Priority
      BY <1>5, InheritedType DEF KernelInv, Lists
    <3>2. Reordered(own, passed)
      BY <1>5, <2>1, <3>1, SetPriority DEF KernelInv
    <3>. QED BY <1>5, <3>2, ReorderedInv
  <2>2. CASE ~OS_CFG_MUTEX_INHERITANCE
    BY <1>5, <2>2 DEF Unaffected, Same
  <2>. QED BY <2>1, <2>2
<1>. HIDE DEF own
<1>7. KernelInv(k)' /\ Unaffected(k', passed)
  BY <1>1, <1>6, Schedule, Transitive
<1>8. Bookkept(k', call) /\ (Told(k, holds, call) => Told(k', g, call))
  BY <1>3, <1>7, UnaffectedKeeps
<1>9. g \in Holding /\ \A t \in Thread : holds[t] = {} => g[t] = {}
  BY <1>0 DEF g, Forget, Holding
<1>10. \A t \in Thread : k'.state[t] = "DEAD" => g[t] = {} /\ k'.mutexes[t] = << >>
  <2>1. \A t \in Thread : k'.state[t] = "DEAD" => k.state[t] = "DEAD"
    BY <1>3, <1>7 DEF Unaffected, Same, Released
  <2>. QED BY <1>4, <1>7, <1>9, <2>1 DEF IInv, Unaffected, Same
<1>. QED
  BY <1>0, <1>1, <1>7, <1>8, <1>9, <1>10 DEF IInv

----------------------------------------------------------------------------
\* The lists of mutexes once the task is off all the lists of tasks, and once
\* the mutexes it owned have been passed on.
LEMMA EmptiedBookkept ==
  ASSUME IInv, NEW t \in Thread, t # osIdleTask, k.state[t] # "DEAD"
  PROVE  LET gone == Gone(k, t)
             emptied == Emptied(k, t)
             c == [call EXCEPT ![t] = NULL]
         IN  /\ Bookkept(gone, c) /\ Bookkept(emptied, c) /\ emptied.mutexes[t] = << >>
             /\ \A u \in Thread \ {t} : gone.state[u] # "BLOCKED" => emptied.mutexes[u] = gone.mutexes[u]
<1>. DEFINE gone == Gone(k, t)
            emptied == Emptied(k, t)
            c == [call EXCEPT ![t] = NULL]
<1>0. /\ KernelInv(k) /\ call \in Pending /\ holds \in Holding /\ Bookkept(k, call)
      /\ k.state \in [Thread -> TaskState] /\ k.waitList \in [Thread -> Object \cup {NULL}]
  BY DEF IInv, KernelInv, Lists, KernelState
<1>1. /\ Lists(gone) /\ gone.state = [k.state EXCEPT ![t] = "DEAD"]
      /\ gone.owner = k.owner /\ gone.mutexes = k.mutexes
      /\ gone.waitList = [k.waitList EXCEPT ![t] = NULL]
      /\ emptied = IF OS_CFG_MUTEX_INHERITANCE THEN osMutexReleaseAll(gone, t) ELSE gone
  BY <1>0, DeleteParts DEF Kept, Emptied
<1>. HIDE DEF gone, emptied
<1>2. c \in Pending /\ c[t] = NULL /\ \A u \in Thread \ {t} : c[u] = call[u]
  BY <1>0 DEF Pending
<1>. HIDE DEF c
<1>3. /\ gone.state[t] = "DEAD" /\ gone.waitList[t] = NULL
      /\ \A u \in Thread \ {t} : gone.state[u] = k.state[u] /\ gone.waitList[u] = k.waitList[u]
  BY <1>0, <1>1
<1>4. Bookkept(gone, c)
  <2>1. \A u \in Thread : Waits(gone, c, u)
    BY <1>0, <1>2, <1>3 DEF Bookkept, Waits
  <2>2. \A u \in Thread : Owns(gone, u)
    BY <1>0, <1>1 DEF Bookkept, Owns
  <2>. QED BY <2>1, <2>2 DEF Bookkept
<1>5. /\ Bookkept(emptied, c) /\ emptied.mutexes[t] = << >>
      /\ \A u \in Thread \ {t} : gone.state[u] # "BLOCKED" => emptied.mutexes[u] = gone.mutexes[u]
  <2>1. CASE OS_CFG_MUTEX_INHERITANCE
    <3>1. LET r == osMutexReleaseAll(gone, t)
          IN  /\ Bookkept(r, c) /\ r.mutexes[t] = << >>
              /\ \A u \in Thread \ {t} : gone.state[u] # "BLOCKED" => r.mutexes[u] = gone.mutexes[u]
              /\ Told(gone, holds, c) => Told(r, [holds EXCEPT ![t] = {}], c)
      BY <1>0, <1>1, <1>2, <1>4, <2>1, ReleaseKeeps
    <3>2. emptied = osMutexReleaseAll(gone, t)
      BY <1>1, <2>1
    <3>. QED BY <3>1, <3>2
  <2>2. CASE ~OS_CFG_MUTEX_INHERITANCE
    <3>1. gone.mutexes[t] \in Seq(Mutex)
      BY <1>0, <1>1 DEF Lists, KernelState
    <3>2. ToSet(gone.mutexes[t]) \subseteq Mutex
      BY <3>1, InToSet
    <3>3. gone.mutexes[t] = << >>
      <4>1. \A m \in Mutex : m \notin ToSet(gone.mutexes[t])
        BY <1>0, <1>4, <2>2 DEF Bookkept, Owns
      <4>. QED BY <3>1, <3>2, <4>1, NothingOn
    <3>. QED BY <1>1, <1>4, <2>2, <3>3
  <2>. QED BY <2>1, <2>2
<1>. QED
  BY <1>4, <1>5 DEF gone, emptied, c

\* What the deleted task owned is free or owned by others who waited for it.
LEMMA DeleteIInv ==
  ASSUME IInv, NEW t \in Task, TaskDelete(t),
         holds' = [u \in Thread |-> IF k'.state[u] = "DEAD" THEN {} ELSE holds[u]]
  PROVE  IInv'
<1>. DEFINE gone == Gone(k, t)
            emptied == Emptied(k, t)
            c == [call EXCEPT ![t] = NULL]
            h == [holds EXCEPT ![t] = {m \in Mutex : k.owner[m] = t}]
<1>0. /\ t \in Thread /\ t # osIdleTask /\ k.state[t] # "DEAD" /\ NULL \notin Mutex
      /\ KernelInv(k) /\ running \in BOOLEAN /\ call \in Pending /\ holds \in Holding
      /\ Bookkept(k, call) /\ running' = running /\ k' = osTaskDelete(k, t) /\ call' = c
      /\ k.state \in [Thread -> TaskState] /\ k.waitList \in [Thread -> Object \cup {NULL}]
  BY KernelAssumption DEF IInv, TaskDelete, Thread, KernelInv, Lists, KernelState
<1>1. /\ Lists(gone) /\ gone.state = [k.state EXCEPT ![t] = "DEAD"]
      /\ gone.owner = k.owner /\ gone.mutexes = k.mutexes /\ gone.result = k.result
      /\ gone.waitList = [k.waitList EXCEPT ![t] = NULL]
      /\ Released(emptied, gone) /\ KernelInv(k') /\ Unaffected(k', emptied)
      /\ emptied = IF OS_CFG_MUTEX_INHERITANCE THEN osMutexReleaseAll(gone, t) ELSE gone
  BY <1>0, DeleteParts DEF Kept, Emptied
<1>. HIDE DEF gone, emptied
<1>2. /\ c \in Pending /\ c[t] = NULL /\ \A u \in Thread \ {t} : c[u] = call[u]
      /\ h \in Holding /\ h[t] = {m \in Mutex : k.owner[m] = t}
      /\ \A u \in Thread \ {t} : h[u] = holds[u]
  BY <1>0 DEF Pending, Holding
<1>3. [h EXCEPT ![t] = {}] \in Holding /\ [h EXCEPT ![t] = {}][t] = {}
      /\ \A u \in Thread \ {t} : [h EXCEPT ![t] = {}][u] = holds[u]
  BY <1>0, <1>2 DEF Holding
<1>. HIDE DEF c, h
<1>4. /\ gone.state[t] = "DEAD" /\ gone.waitList[t] = NULL
      /\ \A u \in Thread \ {t} : gone.state[u] = k.state[u] /\ gone.waitList[u] = k.waitList[u]
  BY <1>0, <1>1
<1>5. /\ Bookkept(gone, c) /\ Bookkept(emptied, c) /\ emptied.mutexes[t] = << >>
      /\ \A u \in Thread \ {t} : gone.state[u] # "BLOCKED" => emptied.mutexes[u] = gone.mutexes[u]
  BY <1>0, EmptiedBookkept DEF gone, emptied, c
<1>6. ASSUME Told(k, holds, call) PROVE Told(gone, h, c)
  <2>. SUFFICES ASSUME NEW n \in Mutex, NEW u \in Thread
                PROVE  gone.owner[n] = u <=>
                         n \in h[u] \/ (c[u] = n /\ gone.state[u] # "BLOCKED" /\ gone.result[u])
    BY DEF Told
  <2>1. k.owner[n] = u <=>
          n \in holds[u] \/ (call[u] = n /\ k.state[u] # "BLOCKED" /\ k.result[u])
    BY <1>6 DEF Told
  <2>2. CASE u = t
    BY <1>0, <1>1, <1>2, <2>2
  <2>3. CASE u # t
    BY <1>1, <1>2, <1>4, <2>1, <2>3
  <2>. QED BY <2>2, <2>3
<1>7. ASSUME OS_CFG_MUTEX_INHERITANCE, Told(k, holds, call)
      PROVE  Told(emptied, [h EXCEPT ![t] = {}], c)
  <2>1. Told(gone, h, c) => Told(osMutexReleaseAll(gone, t), [h EXCEPT ![t] = {}], c)
    BY <1>0, <1>1, <1>2, <1>5, <1>7, ReleaseKeeps
  <2>. QED BY <1>1, <1>6, <1>7, <2>1
<1>8. /\ Bookkept(k', c)
      /\ \A g : Told(emptied, g, c) => Told(k', g, c)
  BY <1>1, <1>5, UnaffectedKeeps
<1>9. /\ k'.state[t] = "DEAD"
      /\ \A u \in Thread \ {t} : k'.state[u] = "DEAD" <=> k.state[u] = "DEAD"
      /\ \A u \in Thread : k'.mutexes[u] = emptied.mutexes[u]
  <2>1. \A u \in Thread : emptied.state[u] = "DEAD" <=> gone.state[u] = "DEAD"
    BY <1>1 DEF Released
  <2>. QED BY <1>0, <1>1, <1>4, <2>1 DEF Unaffected, Same
<1>10. /\ holds' \in Holding
       /\ \A u \in Thread : holds'[u] = IF k'.state[u] = "DEAD" THEN {} ELSE holds[u]
  BY <1>0 DEF Holding
<1>11. \A u \in Thread \ {t} : k'.state[u] = "DEAD" => holds[u] = {} /\ k.mutexes[u] = << >>
  BY <1>9 DEF IInv
<1>12. holds' = [h EXCEPT ![t] = {}]
  <2>1. \A u \in Thread : holds'[u] = [h EXCEPT ![t] = {}][u]
    BY <1>3, <1>9, <1>10, <1>11
  <2>. QED BY <1>3, <1>10, <2>1 DEF Holding
<1>13. \A u \in Thread : k'.state[u] = "DEAD" => holds'[u] = {} /\ k'.mutexes[u] = << >>
  <2>1. \A u \in Thread \ {t} : k'.state[u] = "DEAD" => k'.mutexes[u] = << >>
    BY <1>1, <1>4, <1>5, <1>9, <1>11
  <2>. QED BY <1>5, <1>9, <1>10, <2>1
<1>14. AlwaysTold => Told(k', holds', c)
  BY <1>7, <1>8, <1>12 DEF IInv, AlwaysTold, TaskDelete
<1>15. Bookkept(k', call') /\ (AlwaysTold => Told(k', holds', call'))
  BY <1>0, <1>8, <1>14
<1>. QED
  BY <1>0, <1>1, <1>2, <1>10, <1>13, <1>15 DEF IInv

\* Nobody else gets or loses a mutex because of what is done to tasks.
LEMMA TaskIInv ==
  ASSUME IInv, Other, ~ \E t \in Task : TaskDelete(t)
  PROVE  IInv'
<1>0. /\ KernelInv(k) /\ running \in BOOLEAN /\ call \in [Thread -> Mutex \cup {NULL}]
      /\ holds \in Holding /\ Bookkept(k, call) /\ NULL \notin Mutex
      /\ \A t \in Thread : k.state[t] = "DEAD" => call[t] = NULL /\ k.mutexes[t] = << >>
  BY KernelAssumption DEF IInv, Pending, Bookkept, Waits
<1>1. /\ KernelInv(k)' /\ running' \in BOOLEAN /\ call' \in [Thread -> Mutex \cup {NULL}]
      /\ k'.owner = k.owner /\ \A t \in Thread : k'.mutexes[t] = k.mutexes[t]
      /\ \A t \in Thread : Steady(t) \/ Fails(t) \/ Delayed(t)
  BY <1>0, TaskStep DEF Other
<1>2. /\ holds' \in Holding
      /\ \A t \in Thread : holds'[t] = IF k'.state[t] = "DEAD" THEN {} ELSE holds[t]
  BY <1>0 DEF Other, Holding
<1>3. \A t \in Thread : call'[t] = call[t] /\ (k'.state[t] = "DEAD" => k.state[t] = "DEAD")
  BY <1>1 DEF Steady, Same, Fails, InVain, Delayed
<1>4. \A t \in Thread : holds'[t] = holds[t]
  BY <1>2, <1>3 DEF IInv
<1>5. \A t \in Thread : Waits(k', call', t)
  <2>. SUFFICES ASSUME NEW t \in Thread PROVE Waits(k', call', t)
    OBVIOUS
  <2>1. Waits(k, call, t)
    BY <1>0 DEF Bookkept
  <2>2. CASE Steady(t)
    BY <2>1, <2>2 DEF Waits, Steady, Same
  <2>3. CASE Fails(t)
    BY <2>3 DEF Waits, Fails, InVain
  <2>4. CASE Delayed(t)
    BY <2>4 DEF Waits, Delayed
  <2>. QED BY <1>1, <2>2, <2>3, <2>4
<1>6. \A t \in Thread : Owns(k', t)
  BY <1>0, <1>1 DEF Bookkept, Owns
<1>7. ASSUME AlwaysTold PROVE Told(k', holds', call')
  <2>. SUFFICES ASSUME NEW n \in Mutex, NEW t \in Thread
                PROVE  k'.owner[n] = t <=>
                         n \in holds'[t] \/ (call'[t] = n /\ k'.state[t] # "BLOCKED" /\ k'.result[t])
    BY DEF Told
  <2>1. k.owner[n] = t <=>
          n \in holds[t] \/ (call[t] = n /\ k.state[t] # "BLOCKED" /\ k.result[t])
    BY <1>7 DEF IInv, Told
  <2>2. CASE Steady(t)
    BY <1>1, <1>4, <2>1, <2>2 DEF Steady, Same
  <2>3. CASE Fails(t)
    <3>1. ~(call[t] = n /\ k.state[t] # "BLOCKED" /\ k.result[t])
      BY <1>0, <1>7, <2>3 DEF AlwaysTold, Fails, Woken
    <3>. QED BY <1>1, <1>4, <2>1, <2>3, <3>1 DEF Fails, InVain
  <2>4. CASE Delayed(t)
    BY <1>0, <1>1, <1>4, <2>1, <2>4 DEF Delayed
  <2>. QED BY <1>1, <2>2, <2>3, <2>4
<1>8. \A t \in Thread : k'.state[t] = "DEAD" => holds'[t] = {} /\ k'.mutexes[t] = << >>
  BY <1>0, <1>1, <1>2, <1>3
<1>9. Bookkept(k', call') /\ call' \in Pending
  BY <1>1, <1>5, <1>6 DEF Bookkept, Pending
<1>. QED
  BY <1>1, <1>2, <1>7, <1>8, <1>9 DEF IInv

LEMMA NextIInv == IInv /\ [Next]_vars => IInv'
<1>. SUFFICES ASSUME IInv, [Next]_vars PROVE IInv'
  OBVIOUS
<1>1. ASSUME NEW m \in Mutex, LockFree(m) PROVE IInv'
  BY <1>1, LockFreeIInv
<1>2. ASSUME NEW m \in Mutex, Unlock(m) PROVE IInv'
  BY <1>2, UnlockIInv
<1>3. ASSUME NEW m \in Mutex, NEW n \in Timeout, LockOwned(m, n) PROVE IInv'
  BY <1>3, LockOwnedIInv
<1>4. CASE LockReturns
  BY <1>4, LockReturnsIInv
<1>5. CASE Other
  <2>1. ASSUME NEW t \in Task, TaskDelete(t) PROVE IInv'
    <3>1. holds' = [u \in Thread |-> IF k'.state[u] = "DEAD" THEN {} ELSE holds[u]]
      BY <1>5 DEF Other
    <3>. QED BY <2>1, <3>1, DeleteIInv
  <2>. QED BY <1>5, <2>1, TaskIInv
<1>6. CASE UNCHANGED vars
  BY <1>6 DEF vars, IInv, Bookkept, Waits, Owns, Told, KernelInv
<1>. QED
  BY <1>1, <1>2, <1>3, <1>4, <1>5, <1>6 DEF Next

\* Every variable of an application with mutexes has a value of its type, and
\* the lists, calls and histories agree: a mutex is on the list of the task that
\* owns it, and a blocked task waits for the mutex of its call.
THEOREM MutexInvariant == Spec => []IInv
BY InitIInv, NextIInv, PTL DEF Spec

\* The type invariant of mutexes (mutex.c): no operation leaves the kernel, the
\* calls or what the tasks hold outside their types.
THEOREM MutexTypeCorrect == Spec => []TypeOK
<1>1. IInv => TypeOK
  BY DEF IInv, TypeOK, ApplicationTypeOK, KernelInv, Lists, Pending, Holding
<1>. QED
  BY <1>1, MutexInvariant, PTL

\* Every list has exactly the tasks that claim to be on it, each once, although
\* tasks that wait for a mutex are raised, lowered, suspended and deleted and
\* their waits time out (scheduler.c:235-244, tasks.c:92).
THEOREM MutexListsCorrect == Spec => []ListsExact
<1>1. IInv => ListsExact
  BY DEF IInv, ListsExact, KernelExact, KernelInv, Lists
<1>. QED
  BY <1>1, MutexInvariant, PTL

\* The most important task that waits for a mutex is the first one on its list
\* (scheduler.c:116), whichever of inheritance, osTaskSetPriority or
\* osMutexUnlock changed a priority last.
THEOREM MutexListsSorted == Spec => []ListsSorted
<1>1. IInv => ListsSorted
  BY DEF IInv, ListsSorted, KernelInv, Lists, Ordered
<1>. QED
  BY <1>1, MutexInvariant, PTL

\* A task owns the mutexes osMutexTryLock returned true for and no others
\* (mutex.c:68-69), unless it has just been handed one, if tasks are not
\* suspended between being handed a mutex and returning (the run MutexSuspend
\* shows what happens then), and are not deleted while they own one which
\* nobody takes away from them: without inheritance it has no list to be on.
THEOREM ResultsAlwaysTruthful ==
  ASSUME ~MaySuspendWoken, OS_CFG_MUTEX_INHERITANCE \/ "Delete" \notin Calls
  PROVE  Spec => []ResultsTruthful
<1>1. IInv => ResultsTruthful
  <2>. SUFFICES ASSUME IInv, NEW m \in Mutex, NEW t \in Thread
                PROVE  k.owner[m] = t <=> m \in holds[t] \/ (call[t] = m /\ Woken(t))
    BY DEF ResultsTruthful
  <2>1. k.owner[m] = t <=>
          m \in holds[t] \/ (call[t] = m /\ k.state[t] # "BLOCKED" /\ k.result[t])
    BY DEF IInv, AlwaysTold, Told
  <2>. QED BY <2>1, KernelAssumption DEF Woken
<1>. QED
  BY <1>1, MutexInvariant, PTL

----------------------------------------------------------------------------
\* What tasks inherit.

\* The owner of a mutex has it on its list.
LEMMA BookkeptListed ==
  ASSUME NEW r, NEW c, Bookkept(r, c), Urgent(r)
  PROVE  Fine(r)
BY DEF Bookkept, Owns, Listed, Fine

\* The kernel osBlock is called with, whether there is inheritance or not: the
\* owner and all it waits for are at least as important as the current task.
LEMMA WaitRaises ==
  ASSUME IInv, Urgent(k), NEW m \in Mutex, k.owner[m] # NULL
  PROVE  \E q : /\ KernelInv(q) /\ Fine(q) /\ Reordered(q, k)
                /\ \A u \in Thread : \/ q.priority[u] = k.priority[u]
                                     \/ /\ k.priority[u] < k.priority[k.current]
                                        /\ q.priority[u] = k.priority[k.current]
                /\ OS_CFG_MUTEX_INHERITANCE => k.priority[k.current] <= q.priority[k.owner[m]]
                /\ WaitForMutex(m) = IF OS_CFG_MUTEX_INHERITANCE
                                     THEN [q EXCEPT !.flags[k.current] = @ \cup {"MUTEX"}] ELSE q
<1>. DEFINE p == k.priority[k.current]
            t == k.owner[m]
            raised == osPriorityRaise(k, t, p)
<1>1. KernelInv(k) /\ Lists(k) /\ t \in Thread /\ p \in Priority /\ Fine(k)
  <2>1. KernelInv(k) /\ Lists(k) /\ k \in KernelState /\ Bookkept(k, call)
    BY DEF IInv, KernelInv, Lists
  <2>2. t \in Thread /\ p \in Priority
    BY <2>1 DEF KernelState
  <2>. QED BY <2>1, <2>2, BookkeptListed
<1>2. CASE OS_CFG_MUTEX_INHERITANCE
  <2>1. /\ Reordered(raised, k)
        /\ \A u \in Thread :
             \/ raised.priority[u] = k.priority[u]
             \/ k.priority[u] < p /\ raised.priority[u] = p /\ (u = t \/ IsOwner(k, u))
    BY <1>1, PriorityRaise
  <2>2. Hurried(k) /\ Flagged(k) /\ Listed(k) /\ BasedBut(k, t) /\ k.basePriority[t] <= k.priority[t]
    BY <1>1 DEF Fine, Urgent, Based, BasedBut
  <2>3. Fine(raised) /\ p <= raised.priority[t]
    <3>. HIDE DEF p, t
    <3>. QED BY <1>1, <2>2, RaiseFine
  <2>4. KernelInv(raised)
    BY <1>1, <2>1, ReorderedInv
  <2>5. WaitForMutex(m) = [raised EXCEPT !.flags[k.current] = @ \cup {"MUTEX"}]
    BY <1>2 DEF WaitForMutex
  <2>. HIDE DEF raised
  <2>. QED BY <1>2, <2>1, <2>3, <2>4, <2>5
<1>3. CASE ~OS_CFG_MUTEX_INHERITANCE
  <2>1. Reordered(k, k)
    BY <1>1 DEF Reordered, Kept
  <2>2. WaitForMutex(m) = k
    BY <1>3 DEF WaitForMutex
  <2>. QED BY <1>1, <1>3, <2>1, <2>2
<1>. QED
  BY <1>2, <1>3

LEMMA WaitUrgent ==
  ASSUME IInv, Urgent(k), NEW m \in Mutex, NEW timeout \in OsTick,
         k.owner[m] # NULL, k.owner[m] = k.current => k.current = osIdleTask
  PROVE  LET r == osBlock(WaitForMutex(m), m, timeout)
         IN  /\ Urgent(r)
             /\ k.current = osIdleTask => r.current = k.current /\ (Top(k) => Top(r))
<1>. PICK task \in Thread : task = k.current
  BY CurrentTask
<1>. DEFINE kernel == WaitForMutex(m)
            r == osBlock(kernel, m, timeout)
            t == k.owner[m]
<1>1. /\ KernelInv(r)
      /\ task = osIdleTask => Unaffected(r, k) /\ Eased(r, kernel)
      /\ task # osIdleTask =>
           /\ Top(r) /\ Settled(r, kernel, task)
           /\ r.owner = k.owner /\ r.waitList[task] = m
  <2>. HIDE DEF kernel, r
  <2>1. LET b == osBlock(WaitForMutex(m), m, timeout)
            current == k.current
        IN  /\ KernelInv(b)
            /\ current = osIdleTask => Unaffected(b, k) /\ Eased(b, WaitForMutex(m))
            /\ current # osIdleTask =>
                 /\ Top(b) /\ Settled(b, WaitForMutex(m), current)
                 /\ b.owner = k.owner /\ \A u \in Thread : b.mutexes[u] = k.mutexes[u]
                 /\ b.state[current] = "BLOCKED" /\ b.waitList[current] = m
                 /\ \A u \in Thread \ {current} : Same(b, k, u)
    BY WaitBlocks
  <2>. QED BY <2>1 DEF r, kernel
<1>2. PICK q :
        /\ KernelInv(q) /\ Fine(q) /\ Reordered(q, k)
        /\ \A u \in Thread : \/ q.priority[u] = k.priority[u]
                             \/ /\ k.priority[u] < k.priority[k.current]
                                /\ q.priority[u] = k.priority[k.current]
        /\ OS_CFG_MUTEX_INHERITANCE => k.priority[k.current] <= q.priority[t]
        /\ kernel = IF OS_CFG_MUTEX_INHERITANCE
                    THEN [q EXCEPT !.flags[k.current] = @ \cup {"MUTEX"}] ELSE q
  BY WaitRaises
<1>3. /\ q \in KernelState /\ Lists(q) /\ Lists(k) /\ Bookkept(k, call)
      /\ q.current = task /\ q.owner = k.owner /\ q.waitList[task] = NULL
      /\ t \in Thread /\ (task # osIdleTask => t # task)
  <2>1. q.current = task /\ q.owner = k.owner
    BY <1>2 DEF Reordered, Kept
  <2>2. Lists(q) /\ q.waitList[task] = NULL
    BY <1>2, <2>1, CurrentRuns
  <2>3. Lists(k) /\ Bookkept(k, call) /\ k \in KernelState
    BY DEF IInv, KernelInv, Lists
  <2>4. t \in Thread /\ (task # osIdleTask => t # task)
    BY <2>3 DEF KernelState
  <2>. QED BY <2>1, <2>2, <2>3, <2>4 DEF Lists
<1>4. /\ kernel.priority = q.priority /\ kernel.basePriority = q.basePriority
      /\ kernel.owner = q.owner /\ kernel.mutexes = q.mutexes /\ kernel.waiters = q.waiters
      /\ kernel.waitList = q.waitList /\ kernel.current = task /\ kernel.readyList = q.readyList
      /\ \A u \in Thread \ {task} : kernel.flags[u] = q.flags[u]
      /\ OS_CFG_MUTEX_INHERITANCE => "MUTEX" \in kernel.flags[task]
  BY <1>2, <1>3 DEF KernelState
<1>5. r = IF task = osIdleTask THEN SetState(kernel, task, "RUNNING") ELSE r
  BY <1>4 DEF osBlock
<1>. HIDE DEF kernel, r, t
<1>6. CASE task = osIdleTask
  <2>1. r.current = task /\ r.readyList = kernel.readyList
    <3>1. DOMAIN kernel = DOMAIN q /\ "current" \in DOMAIN q /\ "readyList" \in DOMAIN q
      BY <1>2, <1>3 DEF KernelState
    <3>. QED BY <1>4, <1>5, <1>6, <3>1 DEF SetState
  <2>2. r.flags[task] = {} /\ r.waitList[task] = NULL
    BY <1>1, <2>1, CurrentRuns
  <2>3. /\ r.priority = q.priority /\ r.basePriority = q.basePriority /\ r.owner = q.owner
        /\ \A u \in Thread \ {task} : WaitEased(r, q, u)
    BY <1>1, <1>3, <1>4, <1>6 DEF Eased, WaitEased, Unaffected
  <2>4. Urgent(r)
    BY <1>2, <2>2, <2>3, JoinedUrgent, KernelAssumption DEF Fine
  <2>5. ASSUME Top(k) PROVE Top(r)
    <3>1. ToSet(r.readyList) = ToSet(k.readyList)
      BY <1>2, <1>3, <1>4, <2>1 DEF Reordered, Lists, ReadyListExact
    <3>2. ASSUME NEW u \in ToSet(k.readyList) PROVE r.priority[u] <= r.priority[task]
      <4>1. u \in Thread
        BY <1>3 DEF Lists, ReadyListExact
      <4>2. k.priority[u] <= k.priority[task]
        BY <2>5, <3>2 DEF Top
      <4>3. k.priority[u] \in Int /\ k.priority[task] \in Int
        BY <1>3, <4>1, PriorityInt
      <4>. QED BY <1>2, <2>3, <4>1, <4>2, <4>3
    <3>. QED BY <2>1, <3>1, <3>2 DEF Top
  <2>. QED BY <1>6, <2>1, <2>4, <2>5 DEF r, kernel
<1>7. CASE task # osIdleTask
  <2>. DEFINE s == osSettle(q, task)
  <2>1. /\ Fine(s) /\ Reordered(s, q)
        /\ s.priority[task] <= q.priority[task]
        /\ \A u \in Thread \ {task} : s.priority[u] = q.priority[u]
    BY <1>2, <1>3, SettleFine
  <2>2. osSettle(kernel, task).priority = s.priority
    <3>1. osInheritedPriority(kernel, task) = osInheritedPriority(q, task)
      BY <1>4 DEF osInheritedPriority
    <3>2. \A i : [kernel EXCEPT !.priority[task] = i].priority = [q EXCEPT !.priority[task] = i].priority
      <4>1. kernel = IF OS_CFG_MUTEX_INHERITANCE
                     THEN [q EXCEPT !.flags[k.current] = @ \cup {"MUTEX"}] ELSE q
        BY <1>2
      <4>. QED BY <1>3, <4>1 DEF KernelState
    <3>. QED BY <1>4, <3>1, <3>2 DEF osSettle
  <2>3. s.owner = q.owner /\ s.basePriority = q.basePriority /\ s.flags = q.flags
        /\ s.waitList = q.waitList /\ Lists(s)
    BY <2>1 DEF Reordered, Kept
  <2>. HIDE DEF s
  <2>4. /\ r.priority = s.priority /\ r.basePriority = s.basePriority /\ r.owner = s.owner
        /\ \A u \in Thread \ {task} : WaitEased(r, s, u)
    BY <1>1, <1>3, <1>4, <1>7, <2>2, <2>3 DEF Settled, WaitEased
  <2>5. OS_CFG_MUTEX_INHERITANCE => ("MUTEX" \in r.flags[task] /\ r.waitList[task] \in Mutex)
    BY <1>1, <1>4, <1>7 DEF Settled
  <2>6. ASSUME OS_CFG_MUTEX_INHERITANCE PROVE s.priority[task] <= s.priority[t]
    <3>1. k.priority[task] <= q.priority[t]
      BY <1>2, <2>6
    <3>2. q.priority[task] = k.priority[task] \/ q.priority[task] < k.priority[task]
      BY <1>2
    <3>3. s.priority[t] = q.priority[t]
      BY <1>3, <1>7, <2>1
    <3>4. /\ k.priority[task] \in Int /\ q.priority[task] \in Int /\ q.priority[t] \in Int
          /\ s.priority[task] \in Int
      BY <1>3, <2>3, PriorityInt
    <3>5. s.priority[task] <= q.priority[task]
      BY <2>1
    <3>. QED BY <3>1, <3>2, <3>3, <3>4, <3>5
  <2>7. ASSUME OS_CFG_MUTEX_INHERITANCE, NEW n \in Mutex, r.waitList[task] = n
        PROVE  r.owner[n] \in Thread /\ r.priority[task] <= r.priority[r.owner[n]]
    BY <1>1, <1>3, <1>7, <2>4, <2>6, <2>7 DEF t
  <2>8. Urgent(r)
    BY <2>1, <2>4, <2>5, <2>7, JoinedUrgent DEF Fine
  <2>. QED BY <1>7, <2>8 DEF r, kernel
<1>. QED
  BY <1>6, <1>7

LEMMA GiveUpFine ==
  ASSUME NEW r, KernelInv(r), Fine(r), NEW m \in Mutex
  PROVE  Fine(GiveUp(r, m))
<1>1. r.owner[m] \in Thread \cup {NULL} /\ Lists(r)
  BY DEF KernelInv, Lists, KernelState
<1>. QED
  BY <1>1, LowerFine DEF GiveUp

\* Nobody has waited for a mutex that is free.
LEMMA LockFreeUrgent ==
  ASSUME IInv, Urgent(k), NEW m \in Mutex, LockFree(m)
  PROVE  Urgent(k')
<1>1. k \in KernelState /\ k.owner[m] = NULL /\ k' = osMutexOwn(k, m, k.current) /\ NULL \notin Thread
  BY KernelAssumption DEF IInv, KernelInv, Lists, LockFree
<1>2. /\ k'.priority = k.priority /\ k'.basePriority = k.basePriority
      /\ k'.flags = k.flags /\ k'.waitList = k.waitList
      /\ \A n \in Mutex \ {m} : k'.owner[n] = k.owner[n]
  BY <1>1 DEF osMutexOwn, KernelState
<1>3. OS_CFG_MUTEX_INHERITANCE => \A t \in Thread : k.waitList[t] # m
  BY <1>1 DEF Urgent, Hurried
<1>4. Hurried(k')
  BY <1>2, <1>3 DEF Urgent, Hurried
<1>. QED
  BY <1>2, <1>4 DEF Urgent, Based, Flagged

LEMMA LockOwnedUrgent ==
  ASSUME IInv, Urgent(k), ~running => k.current = osIdleTask,
         NEW m \in Mutex, NEW timeout \in Timeout, LockOwned(m, timeout)
  PROVE  Urgent(k')
<1>. DEFINE r == osBlock(WaitForMutex(m), m, timeout)
<1>1. /\ timeout \in OsTick /\ k.owner[m] # NULL /\ Bookkept(k, call)
      /\ k.owner[m] = k.current => k.current = osIdleTask
      /\ k' = IF k.current = osIdleTask THEN GiveUp(r, m) ELSE r
  BY ApplicationAssumption DEF IInv, LockOwned
<1>2. Urgent(r)
  BY <1>1, WaitUrgent
<1>3. KernelInv(r) /\ (k.current = osIdleTask => Unaffected(r, k))
  BY <1>1, WaitBlocks
<1>. HIDE DEF r
<1>4. CASE k.current = osIdleTask
  <2>1. Fine(r)
    BY <1>1, <1>2, <1>3, <1>4, UnaffectedKeeps, BookkeptListed
  <2>. QED BY <1>1, <1>3, <1>4, <2>1, GiveUpFine DEF Fine
<1>. QED
  BY <1>1, <1>2, <1>4

LEMMA LockReturnsUrgent ==
  ASSUME IInv, Urgent(k), LockReturns
  PROVE  Urgent(k')
<1>. DEFINE m == call[k.current]
<1>1. KernelInv(k) /\ Fine(k) /\ call \in Pending /\ k.current \in Thread
  BY BookkeptListed, CurrentTask DEF IInv
<1>2. m \in Mutex /\ (k' = k \/ k' = GiveUp(k, m))
  BY <1>1 DEF LockReturns, Returns, Returning, Pending
<1>. HIDE DEF m
<1>. QED
  BY <1>1, <1>2, GiveUpFine DEF Fine

\* Whoever unlocks a mutex falls to what it still inherits.
LEMMA UnlockUrgent ==
  ASSUME IInv, Urgent(k), NEW m \in Mutex, Unlock(m)
  PROVE  Urgent(k') /\ Top(k')
<1>. PICK task \in Thread : task = k.current
  BY CurrentTask
<1>. DEFINE rest == RemoveFirst(k.mutexes[task], m)
            q == [k EXCEPT !.mutexes[task] = rest]
            passed == PassOn(k, task, rest, m)
            own == IF OS_CFG_MUTEX_INHERITANCE
                   THEN [passed EXCEPT !.priority[task] = osInheritedPriority(passed, task)]
                   ELSE passed
<1>0. /\ KernelInv(k) /\ Lists(k) /\ k.owner[m] = task /\ call[task] = NULL
      /\ call \in Pending /\ holds \in Holding /\ Bookkept(k, call)
      /\ k.state[task] = "RUNNING" /\ k.mutexes[task] \in Seq(Mutex) /\ Injective(k.mutexes[task])
      /\ k \in KernelState
  BY CurrentTask DEF IInv, Unlock, Returning, KernelInv, Lists, KernelState, Bookkept, Owns
<1>1. k' = osSchedule(own, 0)
  BY DEF Unlock, PassOn
<1>2. IsRest(rest, k, task, m)
  BY <1>0, RemoveFirstSet DEF IsRest
<1>3. passed = osMutexPass(q, m)
  BY DEF PassOn
<1>. HIDE DEF rest, passed
<1>4. Released(passed, k) /\ Bookkept(passed, call)
  BY <1>0, <1>2, PassKeeps DEF passed
<1>5. /\ q \in KernelState /\ q.state = k.state /\ q.flags = k.flags /\ q.waitList = k.waitList
      /\ q.timerList = k.timerList /\ q.readyList = k.readyList /\ q.waiters = k.waiters
      /\ q.priority = k.priority /\ q.basePriority = k.basePriority /\ q.owner = k.owner
  BY <1>0, <1>2 DEF KernelState, IsRest
<1>. HIDE DEF q
<1>6. Lists(q) /\ Urgent(q)
  BY <1>0, <1>5, Unmoved DEF Urgent, Based, Hurried, Flagged
<1>7. Urgent(passed)
  BY <1>3, <1>6, PassUrgent
<1>8. Fine(passed) /\ KernelInv(passed) /\ passed.state[task] = "RUNNING"
  BY <1>0, <1>4, <1>7, ReleasedInv, BookkeptListed
<1>9. Fine(own) /\ KernelInv(own)
  <2>1. CASE OS_CFG_MUTEX_INHERITANCE
    <3>1. passed \in KernelState /\ Lists(passed) /\ Queued(passed)
      BY <1>8, ListsQueued DEF KernelInv, Lists
    <3>2. osInheritedPriority(passed, task) \in Priority
      BY <3>1, InheritedType
    <3>3. Reordered(own, passed)
      BY <1>8, <2>1, <3>1, <3>2, SetPriority
    <3>4. own.priority = [passed.priority EXCEPT ![task] = osInheritedPriority(passed, task)]
      BY <2>1, <3>1 DEF KernelState
    <3>5. Lowered(own, passed, task)
      BY <3>3, <3>4 DEF Lowered, Reordered
    <3>. QED BY <1>8, <3>1, <3>3, <3>5, LoweredFine, ReorderedInv
  <2>2. CASE ~OS_CFG_MUTEX_INHERITANCE
    BY <1>8, <2>2
  <2>. QED BY <2>1, <2>2
<1>. HIDE DEF own
<1>. QED
  BY <1>1, <1>9, Schedule, ScheduleFine DEF Fine

\* What the deleted task owned has been handed over before anybody is scheduled.
LEMMA DeleteUrgent ==
  ASSUME IInv, Urgent(k), NEW t \in Thread, t # osIdleTask, k.state[t] # "DEAD"
  PROVE  Urgent(osTaskDelete(k, t))
<1>. DEFINE gone == Gone(k, t)
            emptied == Emptied(k, t)
            r == osTaskDelete(k, t)
            c == [call EXCEPT ![t] = NULL]
<1>1. KernelInv(k) /\ k.state \in [Thread -> TaskState]
  BY DEF IInv, KernelInv, Lists, KernelState
<1>2. /\ Eased(gone, k) /\ Lists(gone) /\ gone.state = [k.state EXCEPT ![t] = "DEAD"]
      /\ Kept(gone, k) /\ Unaffected(r, emptied)
      /\ t = k.current => Eased(r, emptied)
      /\ t # k.current => KernelInv(emptied) /\ r = osSchedule(emptied, 0)
  BY <1>1, DeleteParts
<1>3. Bookkept(emptied, c)
  BY EmptiedBookkept
<1>4. emptied = IF OS_CFG_MUTEX_INHERITANCE THEN osMutexReleaseAll(gone, t) ELSE gone
  BY DEF Emptied
<1>. HIDE DEF gone, emptied, r, c
<1>5. Urgent(gone)
  BY <1>2, EasedFine DEF Kept
<1>6. gone.state[t] # "BLOCKED"
  BY <1>1, <1>2
<1>7. Urgent(emptied)
  BY <1>2, <1>4, <1>5, <1>6, ReleaseAll
<1>8. CASE t = k.current
  BY <1>2, <1>7, <1>8, EasedFine DEF Unaffected, r
<1>9. CASE t # k.current
  BY <1>2, <1>3, <1>7, <1>9, BookkeptListed, ScheduleFine DEF Fine, r
<1>. QED
  BY <1>8, <1>9

----------------------------------------------------------------------------
(***************************************************************************)
(* Before osRun nobody but main() runs, so that nobody waits and main()    *)
(* keeps its priority, which no task has.                                  *)
(***************************************************************************)
Starting(r) ==
  /\ r.current = osIdleTask
  /\ r.priority[osIdleTask] = MainPriority /\ r.basePriority[osIdleTask] = MainPriority
  /\ \A t \in Task : r.priority[t] <= OS_PRIORITY_MAX
  /\ \A t \in Thread : r.state[t] # "BLOCKED"
  /\ \A m \in Mutex : r.owner[m] \in {NULL, osIdleTask}

LEMMA StartInit == Init => Starting(k) /\ Urgent(k)
<1>. SUFFICES ASSUME Init PROVE Starting(k) /\ Urgent(k)
  OBVIOUS
<1>1. k = osInit
  BY DEF Init, ApplicationInit
<1>2. \A t \in Task : t \in Thread /\ t # osIdleTask
  BY KernelAssumption DEF Thread
<1>3. osIdleTask \in Thread /\ 0 <= OS_PRIORITY_MAX /\ MainPriority \in Nat
  BY KernelAssumption DEF Thread, MainPriority
<1>4. Starting(k)
  BY <1>1, <1>2, <1>3 DEF osInit, Starting
<1>5. Urgent(k)
  BY <1>1, <1>3, KernelAssumption DEF osInit, Urgent, Based, Hurried, Flagged
<1>. QED
  BY <1>4, <1>5

LEMMA StartNothing ==
  ASSUME NEW r, KernelInv(r), Starting(r)
  PROVE  /\ \A t \in Thread : r.flags[t] = {} /\ r.waitList[t] = NULL
         /\ \A o \in Object : r.waiters[o] = << >>
<1>1. Lists(r) /\ r \in KernelState
  BY DEF KernelInv, Lists
<1>2. \A t \in Thread : r.flags[t] = {} /\ r.waitList[t] = NULL
  BY <1>1 DEF Starting, Lists, TimerListExact, WaitListsExact
<1>3. ASSUME NEW o \in Object PROVE r.waiters[o] = << >>
  <2>1. r.waiters[o] \in Seq(Thread)
    BY <1>1 DEF KernelState
  <2>2. \A t \in Thread : t \notin ToSet(r.waiters[o])
    BY <1>1, <1>2, KernelAssumption DEF Lists, WaitListsExact
  <2>. QED BY <2>1, <2>2, NothingOn
<1>. QED
  BY <1>2, <1>3

\* main() is not preempted.
LEMMA StartSchedule ==
  ASSUME NEW r, KernelInv(r), Starting(r), NEW yield \in {0, 1}
  PROVE  osSchedule(r, yield) = r
<1>1. r \in KernelState /\ r.state[osIdleTask] = "RUNNING"
  BY DEF KernelInv, Lists, CurrentExact, KernelState, Starting
<1>2. ASSUME r.readyList # << >>
      PROVE  ~(r.priority[Head(r.readyList)] + yield > r.priority[r.current])
  <2>. DEFINE t == Head(r.readyList)
  <2>1. t \in Thread /\ t \in ToSet(r.readyList)
    BY <1>1, <1>2, HeadTail DEF KernelInv, Lists, ReadyListExact, KernelState
  <2>2. r.state[t] = "READY"
    BY <2>1 DEF KernelInv, Lists, ReadyListExact
  <2>. HIDE DEF t
  <2>3. t \in Task
    BY <1>1, <2>1, <2>2 DEF Thread
  <2>4. r.priority[t] <= OS_PRIORITY_MAX /\ r.priority[r.current] = OS_PRIORITY_MAX + 1
    BY <2>3 DEF Starting, MainPriority
  <2>5. r.priority[t] \in Int
    BY <2>1, PriorityInt DEF KernelInv
  <2>. QED BY <2>4, <2>5, KernelAssumption DEF t
<1>3. ~osScheduleNeeded(r, yield)
  BY <1>2 DEF osScheduleNeeded
<1>. QED
  BY <1>3 DEF osSchedule

\* Nobody is as important as main().
LEMMA StartTop ==
  ASSUME NEW r, KernelInv(r), Starting(r)
  PROVE  Top(r)
<1>. SUFFICES ASSUME NEW t \in ToSet(r.readyList) PROVE r.priority[t] <= r.priority[r.current]
  BY DEF Top
<1>1. t \in Thread /\ r.priority[t] \in Priority
  BY DEF KernelInv, Lists, ReadyListExact, KernelState
<1>. QED BY <1>1, KernelAssumption DEF Starting, Priority, MainPriority

\* Another kernel in which nothing that matters has changed.
LEMMA StartSame ==
  ASSUME NEW q, Starting(q), NEW r, r.current = q.current, r.owner = q.owner,
         r.priority = q.priority, r.basePriority = q.basePriority,
         \A t \in Thread : r.state[t] = "BLOCKED" => q.state[t] = "BLOCKED"
  PROVE  Starting(r)
BY DEF Starting

LEMMA StartDelete ==
  ASSUME IInv, Starting(k), NEW t \in Task, k.state[t] # "DEAD"
  PROVE  Starting(osTaskDelete(k, t))
<1>. DEFINE gone == Gone(k, t)
            emptied == Emptied(k, t)
            r == osTaskDelete(k, t)
<1>1. /\ KernelInv(k) /\ k.state \in [Thread -> TaskState] /\ Bookkept(k, call)
      /\ k.mutexes \in [Thread -> Seq(Mutex)]
      /\ t \in Thread /\ t # osIdleTask /\ t # k.current /\ NULL \notin Thread
  BY KernelAssumption DEF IInv, KernelInv, Lists, KernelState, Thread, Starting
<1>2. /\ Eased(gone, k) /\ Lists(gone) /\ gone.state = [k.state EXCEPT ![t] = "DEAD"]
      /\ Kept(gone, k)
      /\ KernelInv(emptied) /\ emptied.current = k.current /\ r = osSchedule(emptied, 0)
  BY <1>1, DeleteParts
<1>3. emptied = IF OS_CFG_MUTEX_INHERITANCE THEN osMutexReleaseAll(gone, t) ELSE gone
  BY DEF Emptied
<1>. HIDE DEF gone, emptied, r
<1>4. gone.mutexes[t] = << >>
  <2>1. k.mutexes[t] \in Seq(Mutex)
    BY <1>1
  <2>2. \A m \in Mutex : k.owner[m] # t
    BY <1>1 DEF Starting
  <2>3. \A m \in Mutex : m \notin ToSet(k.mutexes[t])
    BY <1>1, <2>2 DEF Bookkept, Owns
  <2>4. k.mutexes[t] = << >>
    BY <2>1, <2>3, NothingOn
  <2>. QED BY <1>2, <2>4 DEF Kept
<1>5. emptied = gone
  BY <1>3, <1>4, ReleaseNothing
<1>6. Starting(emptied)
  <2>1. gone.priority = k.priority /\ gone.basePriority = k.basePriority /\ gone.owner = k.owner
    BY <1>2 DEF Eased, Kept
  <2>2. \A u \in Thread : gone.state[u] = "BLOCKED" => k.state[u] = "BLOCKED"
    BY <1>1, <1>2
  <2>3. gone.current = k.current
    BY <1>2, <1>5
  <2>4. Starting(gone)
    BY <2>1, <2>2, <2>3, StartSame
  <2>. QED BY <1>5, <2>4
<1>. QED
  BY <1>2, <1>6, StartSchedule DEF r

LEMMA StartSuspend ==
  ASSUME NEW r, KernelInv(r), Starting(r), NEW t \in Thread
  PROVE  Starting(osTaskSuspend(r, t))
<1>. DEFINE s == osTaskSuspend(r, t)
<1>1. /\ KernelInv(s) /\ Eased(s, r) /\ (Unaffected(s, r) \/ Unavailing(s, r, t))
      /\ s.current = r.current \/ s.state[r.current] = "SUSPENDED"
  BY SuspendInv
<1>. HIDE DEF s
<1>2. s.current = r.current
  BY <1>1 DEF KernelInv, Starting
<1>3. s.owner = r.owner /\ \A u \in Thread : s.state[u] = "BLOCKED" => r.state[u] = "BLOCKED"
  BY <1>1 DEF Unaffected, Unavailing, Only, Same, InVain
<1>. QED
  BY <1>1, <1>2, <1>3, StartSame DEF Eased, s

LEMMA StartResume ==
  ASSUME NEW r, KernelInv(r), Starting(r), NEW t \in Thread
  PROVE  Starting(osTaskResume(r, t))
<1>. DEFINE s == osTaskResumeFromISR(r, t)
<1>1. KernelInv(s) /\ Unaffected(s, r) /\ Eased(s, r) /\ s.current = r.current
  BY ResumeInv
<1>2. osTaskResume(r, t) = osSchedule(s, 0)
  BY DEF osTaskResume
<1>. HIDE DEF s
<1>3. Starting(s)
  BY <1>1, StartSame DEF Eased, Unaffected, Same
<1>. QED
  BY <1>1, <1>2, <1>3, StartSchedule

LEMMA TaskPriorityLow ==
  ASSUME NEW p \in Int
  PROVE  osTaskPriority(p) <= OS_PRIORITY_MAX
BY KernelAssumption DEF osTaskPriority, OS_PRIORITY_MIN

LEMMA StartCreate ==
  ASSUME NEW r, KernelInv(r), Starting(r), NEW t \in Task, r.state[t] = "DEAD",
         NEW p \in Priority
  PROVE  Starting(osTaskCreate(r, t, p))
<1>. DEFINE q == osTaskPriority(p)
            c == Cleared(r, t, p)
            s == osReady(c, t)
<1>0. t \in Thread /\ t # osIdleTask /\ osIdleTask \in Thread
      /\ r.priority \in [Thread -> Priority] /\ r.basePriority \in [Thread -> Priority]
      /\ r.state \in [Thread -> TaskState]
  BY KernelAssumption DEF Thread, KernelInv, Lists, KernelState
<1>1. /\ c.owner = r.owner
      /\ c.priority = [r.priority EXCEPT ![t] = q]
      /\ c.basePriority = [r.basePriority EXCEPT ![t] = q]
      /\ KernelInv(s) /\ Kept(s, c) /\ Eased(s, c)
      /\ s.state = [r.state EXCEPT ![t] = "READY"] /\ s.current = r.current
      /\ osTaskCreate(r, t, p) = osSchedule(s, 0)
  <2>. HIDE DEF q, c, s
  <2>1. LET d == Cleared(r, t, p)
            e == osReady(d, t)
        IN  /\ KernelInv(d) /\ d.state = r.state /\ d.current = r.current
            /\ d.waitList = r.waitList /\ d.owner = r.owner /\ d.flags = r.flags
            /\ d.result = [r.result EXCEPT ![t] = FALSE]
            /\ d.mutexes = [r.mutexes EXCEPT ![t] = << >>]
            /\ d.priority = [r.priority EXCEPT ![t] = osTaskPriority(p)]
            /\ d.basePriority = [r.basePriority EXCEPT ![t] = osTaskPriority(p)]
            /\ KernelInv(e) /\ Kept(e, d) /\ e.waitList = d.waitList
            /\ e.state = [r.state EXCEPT ![t] = "READY"] /\ e.current = r.current
            /\ Eased(e, d)
            /\ osTaskCreate(r, t, p) = osSchedule(e, 0)
    BY <1>0, CreateParts
  <2>. QED BY <2>1 DEF q, c, s
<1>2. q <= OS_PRIORITY_MAX
  BY TaskPriorityLow, KernelAssumption DEF Priority, MainPriority
<1>. HIDE DEF q, c, s
<1>3. /\ s.priority = [r.priority EXCEPT ![t] = q] /\ s.owner = r.owner
      /\ s.basePriority = [r.basePriority EXCEPT ![t] = q]
  BY <1>1 DEF Eased, Kept
<1>4. /\ \A u \in Thread \ {t} : s.priority[u] = r.priority[u] /\ s.state[u] = r.state[u]
      /\ s.basePriority[osIdleTask] = r.basePriority[osIdleTask]
      /\ s.priority[t] = q /\ s.state[t] = "READY"
  BY <1>0, <1>1, <1>3
<1>5. \A u \in Task : s.priority[u] <= OS_PRIORITY_MAX
  BY <1>2, <1>4 DEF Starting, Thread
<1>6. Starting(s)
  BY <1>0, <1>1, <1>3, <1>4, <1>5 DEF Starting
<1>. QED
  BY <1>1, <1>6, StartSchedule

LEMMA StartDelay ==
  ASSUME NEW r, KernelInv(r), Starting(r), NEW ticks \in OsTick
  PROVE  Starting(osDelay(r, ticks))
<1>1. CASE ticks = 0
  BY <1>1, StartSchedule DEF osDelay
<1>2. CASE ticks # 0
  <2>. DEFINE s == SetState(r, osIdleTask, "RUNNING")
  <2>1. osDelay(r, ticks) = s
    BY <1>2 DEF osDelay, osBlock, Starting
  <2>2. r \in KernelState
    BY DEF KernelInv, Lists
  <2>3. /\ s.current = r.current /\ s.owner = r.owner /\ s.priority = r.priority
        /\ s.basePriority = r.basePriority /\ s.state = [r.state EXCEPT ![osIdleTask] = "RUNNING"]
    BY <2>2 DEF SetState, KernelState
  <2>4. \A u \in Thread : s.state[u] = "BLOCKED" => r.state[u] = "BLOCKED"
    BY <2>2, <2>3 DEF KernelState
  <2>. HIDE DEF s
  <2>. QED BY <2>1, <2>3, <2>4, StartSame
<1>. QED
  BY <1>1, <1>2

LEMMA StartSetPriority ==
  ASSUME NEW r, KernelInv(r), Starting(r), NEW t \in Task, r.mutexes[t] = << >>,
         NEW p \in Priority
  PROVE  Starting(osTaskSetPriority(r, t, p))
<1>. DEFINE q == osTaskPriority(p)
            b == Rebased(r, t, p)
            s == Repositioned(r, t, p)
            i == osInheritedPriority(b, t)
<1>0. t \in Thread /\ t # osIdleTask /\ osIdleTask \in Thread /\ Lists(r)
      /\ r.basePriority \in [Thread -> Priority]
  BY KernelAssumption DEF Thread, KernelInv, Lists, KernelState
<1>1. /\ KernelInv(b) /\ b.priority = r.priority /\ b.owner = r.owner /\ b.mutexes = r.mutexes
      /\ b.basePriority = [r.basePriority EXCEPT ![t] = q]
      /\ b.state = r.state /\ b.current = r.current
      /\ i \in Priority
      /\ KernelInv(s) /\ Reordered(s, b)
      /\ osTaskSetPriority(r, t, p) = osSchedule(s, 0)
  BY <1>0, SetPriorityParts
<1>2. s = IF i > r.priority[t] THEN osPriorityRaise(b, t, i) ELSE LowerToInherited(b, t)
  BY DEF Repositioned
<1>3. q <= OS_PRIORITY_MAX
  BY TaskPriorityLow, KernelAssumption DEF Priority, MainPriority
<1>4. i = osInheritedPriority(b, t)
  OBVIOUS
<1>. HIDE DEF q, b, s, i
<1>5. i = q
  <2>1. Queued(b)
    BY <1>1, ListsQueued DEF KernelInv
  <2>2. i = b.basePriority[t]
    BY <1>0, <1>1, <1>4, <2>1, InheritedBounds
  <2>. QED BY <1>0, <1>1, <2>2
<1>6. \A u \in Thread : s.priority[u] = r.priority[u] \/ (s.priority[u] = q /\ (u = t \/ r.priority[u] < q))
  <2>1. Lists(b)
    BY <1>1 DEF KernelInv
  <2>2. CASE i > r.priority[t]
    <3>1. s = osPriorityRaise(b, t, i)
      BY <1>2, <2>2
    <3>2. \A u \in Thread : s.priority[u] = b.priority[u] \/ (b.priority[u] < i /\ s.priority[u] = i)
      BY <1>0, <1>1, <2>1, <3>1, PriorityRaise
    <3>. QED BY <1>1, <1>5, <3>2
  <2>3. CASE ~(i > r.priority[t])
    <3>1. s = LowerToInherited(b, t)
      BY <1>2, <2>3
    <3>2. s.priority = b.priority \/ s.priority = [b.priority EXCEPT ![t] = i]
      BY <1>0, <1>4, <2>1, <3>1, Lower
    <3>3. b.priority \in [Thread -> Priority]
      BY <2>1 DEF Lists, KernelState
    <3>. QED BY <1>0, <1>1, <1>5, <3>2, <3>3
  <2>. QED BY <2>2, <2>3
<1>7. s.priority[osIdleTask] = MainPriority
  BY <1>0, <1>3, <1>6, KernelAssumption DEF Starting, MainPriority, q, osTaskPriority, OS_PRIORITY_MIN, Priority
<1>8. \A u \in Task : s.priority[u] <= OS_PRIORITY_MAX
  BY <1>3, <1>6 DEF Starting, Thread
<1>9. /\ s.state = r.state /\ s.current = r.current /\ s.owner = r.owner
      /\ s.basePriority[osIdleTask] = r.basePriority[osIdleTask]
  BY <1>0, <1>1 DEF Reordered, Kept
<1>10. Starting(s)
  BY <1>7, <1>8, <1>9 DEF Starting
<1>. QED
  BY <1>1, <1>10, StartSchedule

\* Nothing to settle either: what main() inherits is what it has.
LEMMA StartInherits ==
  ASSUME NEW r, Lists(r), r.basePriority[osIdleTask] = MainPriority
  PROVE  osInheritedPriority(r, osIdleTask) = MainPriority
<1>1. osIdleTask \in Thread /\ Queued(r)
  BY ListsQueued DEF Thread
<1>. DEFINE i == osInheritedPriority(r, osIdleTask)
<1>2. i \in Priority /\ MainPriority <= i
  BY <1>1, InheritedBounds
<1>. HIDE DEF i
<1>3. i = MainPriority
  BY <1>2, KernelAssumption DEF Priority, MainPriority
<1>. QED
  BY <1>3 DEF i

LEMMA StartGiveUp ==
  ASSUME NEW r, KernelInv(r), Starting(r), NEW m \in Mutex
  PROVE  GiveUp(r, m) = r
<1>1. osInheritedPriority(r, osIdleTask) = MainPriority
  BY StartInherits DEF KernelInv, Starting
<1>2. ~(MainPriority < MainPriority)
  BY KernelAssumption DEF MainPriority
<1>3. LowerToInherited(r, osIdleTask) = r
  BY <1>1, <1>2 DEF LowerToInherited, Starting
<1>. QED
  BY <1>3 DEF GiveUp, Starting

\* main() may try to lock a mutex it owns: it neither waits nor lowers itself.
LEMMA StartLock ==
  ASSUME IInv, Starting(k), NEW m \in Mutex, NEW timeout \in Timeout, LockOwned(m, timeout)
  PROVE  Starting(k')
<1>. DEFINE p == k.priority[k.current]
            raised == osPriorityRaise(k, k.owner[m], p)
            r == osBlock(WaitForMutex(m), m, timeout)
<1>0. /\ KernelInv(k) /\ Lists(k) /\ k \in KernelState /\ p \in Priority /\ k.owner[m] \in Thread
      /\ timeout \in OsTick /\ osIdleTask \in Thread /\ k' = GiveUp(r, m)
      /\ k.owner[m] # NULL /\ k.current = osIdleTask
  BY KernelAssumption, ApplicationAssumption DEF IInv, KernelInv, Lists, KernelState, LockOwned, Starting, Thread
<1>1. Starting(raised) /\ Lists(raised)
  <2>1. /\ Reordered(raised, k)
        /\ \A u \in Thread :
             \/ raised.priority[u] = k.priority[u]
             \/ k.priority[u] < p /\ raised.priority[u] = p /\ (u = k.owner[m] \/ IsOwner(k, u))
    BY <1>0, PriorityRaise
  <2>2. ASSUME NEW u \in Thread PROVE ~IsOwner(k, u)
    BY <1>0, StartNothing DEF IsOwner
  <2>3. k.owner[m] = osIdleTask /\ p = k.priority[osIdleTask] /\ ~(p < p)
    BY <1>0, KernelAssumption DEF Starting, Priority, MainPriority
  <2>. HIDE DEF raised, p
  <2>4. \A u \in Thread : raised.priority[u] = k.priority[u]
    BY <2>1, <2>2, <2>3
  <2>5. raised.priority \in [Thread -> Priority] /\ k.priority \in [Thread -> Priority]
    BY <1>0, <2>1 DEF Reordered, Lists, KernelState
  <2>6. raised.priority = k.priority
    BY <2>4, <2>5
  <2>. QED BY <2>1, <2>6, StartSame DEF Reordered, Kept
<1>2. WaitForMutex(m) = IF OS_CFG_MUTEX_INHERITANCE
                        THEN [raised EXCEPT !.flags[k.current] = @ \cup {"MUTEX"}] ELSE k
  BY DEF WaitForMutex
<1>. HIDE DEF raised, p
<1>3. Starting(WaitForMutex(m)) /\ WaitForMutex(m) \in KernelState
  <2>1. raised \in KernelState
    BY <1>1 DEF Lists
  <2>. DEFINE flagged == [raised EXCEPT !.flags[k.current] = @ \cup {"MUTEX"}]
  <2>2. /\ flagged \in KernelState /\ flagged.current = raised.current
        /\ flagged.owner = raised.owner /\ flagged.priority = raised.priority
        /\ flagged.basePriority = raised.basePriority /\ flagged.state = raised.state
    BY <1>0, <2>1 DEF KernelState, Flag
  <2>. HIDE DEF flagged
  <2>3. Starting(flagged)
    BY <1>1, <2>2, StartSame
  <2>. QED BY <1>0, <1>2, <2>2, <2>3 DEF flagged
<1>4. r = SetState(WaitForMutex(m), osIdleTask, "RUNNING")
  BY <1>3 DEF osBlock, Starting
<1>5. KernelInv(r)
  BY <1>0, WaitBlocks
<1>. DEFINE kernel == WaitForMutex(m)
<1>. HIDE DEF r, kernel
<1>6. kernel \in KernelState /\ Starting(kernel) /\ r = SetState(kernel, osIdleTask, "RUNNING")
  BY <1>3, <1>4 DEF kernel
<1>7. Starting(r)
  BY <1>0, <1>6, StartSame DEF SetState, KernelState
<1>. QED BY <1>0, <1>5, <1>7, StartGiveUp

LEMMA StartUnlock ==
  ASSUME IInv, Starting(k), NEW m \in Mutex, Unlock(m)
  PROVE  Starting(k')
<1>. DEFINE task == osIdleTask
            rest == RemoveFirst(k.mutexes[task], m)
            q == [k EXCEPT !.mutexes[task] = rest]
            passed == PassOn(k, task, rest, m)
            own == IF OS_CFG_MUTEX_INHERITANCE
                   THEN [passed EXCEPT !.priority[task] = osInheritedPriority(passed, task)]
                   ELSE passed
<1>0. /\ KernelInv(k) /\ Lists(k) /\ k.owner[m] = task /\ call[task] = NULL /\ task \in Thread
      /\ call \in Pending /\ holds \in Holding /\ Bookkept(k, call) /\ k.current = task
      /\ k.state[task] = "RUNNING" /\ k.mutexes[task] \in Seq(Mutex) /\ Injective(k.mutexes[task])
      /\ k \in KernelState /\ Mutex \subseteq Object
  BY CurrentTask, KernelAssumption
     DEF IInv, Unlock, Returning, KernelInv, Lists, KernelState, Bookkept, Owns, Starting
<1>1. k' = osSchedule(own, 0)
  BY <1>0 DEF Unlock, PassOn
<1>2. IsRest(rest, k, task, m)
  BY <1>0, RemoveFirstSet DEF IsRest
<1>3. passed = osMutexPass(q, m)
  BY DEF PassOn
<1>4. k.waiters[m] = << >>
  BY <1>0, StartNothing
<1>. HIDE DEF rest, passed
<1>5. Released(passed, k) /\ Bookkept(passed, call)
  BY <1>0, <1>2, PassKeeps DEF passed
<1>6. KernelInv(passed) /\ passed.state[task] = "RUNNING"
  BY <1>0, <1>5, ReleasedInv
<1>7. /\ passed.current = k.current /\ passed.state = k.state /\ passed.priority = k.priority
      /\ passed.basePriority = k.basePriority /\ passed.owner = [k.owner EXCEPT ![m] = NULL]
  BY <1>0, <1>3, <1>4 DEF osMutexPass, KernelState
<1>8. Starting(passed)
  BY <1>0, <1>7 DEF Starting, KernelState
<1>. HIDE DEF q
<1>9. osInheritedPriority(passed, task) = MainPriority
  BY <1>6, <1>8, StartInherits DEF Starting, KernelInv
<1>10. [passed EXCEPT !.priority[task] = MainPriority] = passed
  <2>1. passed \in KernelState
    BY <1>6 DEF KernelInv, Lists
  <2>2. [passed.priority EXCEPT ![task] = MainPriority] = passed.priority
    BY <1>0, <1>8, <2>1 DEF Starting, KernelState
  <2>. QED BY <2>1, <2>2 DEF KernelState
<1>11. own = passed
  BY <1>9, <1>10
<1>. HIDE DEF own
<1>. QED
  BY <1>1, <1>6, <1>8, <1>11, StartSchedule

Begun == ~running => Starting(k)

LEMMA BegunOther ==
  ASSUME IInv, Begun, Other, ~running'
  PROVE  Starting(k')
<1>0. KernelInv(k) /\ Task \subseteq Thread /\ Bookkept(k, call) /\ TaskPriority \subseteq Priority
      /\ Timeout \subseteq OsTick /\ NULL \notin Thread /\ osIdleTask \notin Task
      /\ k.mutexes \in [Thread -> Seq(Mutex)] /\ Lists(k)
  BY KernelAssumption, ApplicationAssumption DEF IInv, Thread, KernelInv, Lists, KernelState
<1>1. ~running /\ ~Tick /\ ~Run
  BY DEF Other, ApplicationNext, Tick, Run, TaskDelete, TaskSuspend, TaskResume, TaskCreate,
         TaskSetPriority, DelayFor, SpareIdle, Call
<1>2. Starting(k)
  BY <1>1 DEF Begun
<1>3. ASSUME NEW t \in Task, TaskDelete(t) PROVE Starting(k')
  BY <1>2, <1>3, StartDelete DEF TaskDelete
<1>4. ASSUME NEW t \in Task, TaskSuspend(t) PROVE Starting(k')
  BY <1>0, <1>2, <1>4, StartSuspend DEF TaskSuspend, Call
<1>5. ASSUME NEW t \in Task, TaskResume(t) PROVE Starting(k')
  BY <1>0, <1>2, <1>5, StartResume DEF TaskResume, Call
<1>6. ASSUME NEW t \in Task, NEW p \in TaskPriority, TaskCreate(t, p) PROVE Starting(k')
  BY <1>0, <1>2, <1>6, StartCreate DEF TaskCreate, Call
<1>7. ASSUME NEW t \in Task, NEW p \in TaskPriority, TaskSetPriority(t, p) PROVE Starting(k')
  <2>1. \A m \in Mutex : k.owner[m] # t
    BY <1>0, <1>2 DEF Starting
  <2>2. \A m \in Mutex : m \notin ToSet(k.mutexes[t])
    BY <1>0, <2>1 DEF Bookkept, Owns
  <2>3. k.mutexes[t] = << >>
    BY <1>0, <2>2, NothingOn
  <2>. QED BY <1>0, <1>2, <1>7, <2>3, StartSetPriority DEF TaskSetPriority, Call
<1>8. ASSUME NEW n \in Timeout, DelayFor(n) PROVE Starting(k')
  BY <1>0, <1>2, <1>8, StartDelay DEF DelayFor, Call
<1>9. CASE SpareIdle
  BY <1>2, <1>9, Spared
<1>. QED
  BY <1>1, <1>3, <1>4, <1>5, <1>6, <1>7, <1>8, <1>9 DEF Other, ApplicationNext

LEMMA BegunNext ==
  ASSUME IInv, Begun, [Next]_vars
  PROVE  Begun'
<1>. SUFFICES ASSUME ~running' PROVE Starting(k')
  BY DEF Begun, Starting
<1>0. KernelInv(k) /\ Lists(k) /\ osIdleTask \in Thread /\ k \in KernelState
      /\ NULL \notin Thread /\ call \in Pending
  BY KernelAssumption DEF IInv, Thread, KernelInv, Lists
<1>1. ASSUME NEW m \in Mutex, LockFree(m) PROVE Starting(k')
  <2>1. Starting(k) /\ k' = osMutexOwn(k, m, osIdleTask)
    BY <1>1 DEF LockFree, Begun, Starting
  <2>2. /\ k'.current = k.current /\ k'.priority = k.priority
        /\ k'.basePriority = k.basePriority /\ k'.state = k.state
        /\ k'.owner = [k.owner EXCEPT ![m] = osIdleTask]
    BY <1>0, <2>1 DEF osMutexOwn, KernelState
  <2>. QED BY <1>0, <2>1, <2>2 DEF Starting, KernelState
<1>2. ASSUME NEW m \in Mutex, Unlock(m) PROVE Starting(k')
  BY <1>2, StartUnlock DEF Unlock, Begun
<1>3. ASSUME NEW m \in Mutex, NEW n \in Timeout, LockOwned(m, n) PROVE Starting(k')
  BY <1>3, StartLock DEF LockOwned, Begun
<1>4. CASE LockReturns
  <2>1. Starting(k)
    BY <1>4 DEF LockReturns, Returns, Begun
  <2>2. call[k.current] \in Mutex
    BY <1>0, <1>4, <2>1 DEF LockReturns, Returns, Returning, Pending, Starting
  <2>3. k' = k
    BY <1>0, <1>4, <2>1, <2>2, StartGiveUp DEF LockReturns, Returns
  <2>. QED BY <2>1, <2>3
<1>5. CASE Other
  BY <1>5, BegunOther
<1>6. CASE UNCHANGED vars
  BY <1>6 DEF vars, Begun
<1>. QED
  BY <1>1, <1>2, <1>3, <1>4, <1>5, <1>6 DEF Next

\* When osRun gives main() the priority of the idle task, nobody waits for it.
LEMMA RunFine ==
  ASSUME NEW r, KernelInv(r), Fine(r), Starting(r)
  PROVE  Fine(osRun(r))
<1>. DEFINE h == Humbled(r)
<1>0. osIdleTask \in Thread /\ r.current = osIdleTask
      /\ r.priority \in [Thread -> Priority] /\ r.basePriority \in [Thread -> Priority]
  BY DEF Thread, Starting, KernelInv, Lists, KernelState
<1>1. /\ KernelInv(h) /\ h.flags = r.flags /\ h.waitList = r.waitList
      /\ h.owner = r.owner /\ h.mutexes = r.mutexes
      /\ h.priority = [r.priority EXCEPT ![osIdleTask] = 0]
      /\ h.basePriority = [r.basePriority EXCEPT ![osIdleTask] = 0]
      /\ osRun(r) = osSchedule(h, 0)
  BY <1>0, RunParts
<1>2. \A t \in Thread : r.flags[t] = {} /\ r.waitList[t] = NULL
  BY StartNothing
<1>. HIDE DEF h
<1>3. Based(h)
  BY <1>0, <1>1 DEF Based, Fine, Urgent
<1>4. Hurried(h) /\ Flagged(h)
  BY <1>1, <1>2, KernelAssumption DEF Hurried, Flagged
<1>5. Fine(h)
  BY <1>1, <1>3, <1>4 DEF Fine, Urgent, Listed
<1>. QED
  BY <1>1, <1>5, ScheduleFine

LEMMA OtherUrgent ==
  ASSUME IInv, Urgent(k), Begun, Other
  PROVE  Urgent(k')
<1>0. KernelInv(k) /\ Fine(k) /\ Task \subseteq Thread /\ TaskPriority \subseteq Priority
      /\ Timeout \subseteq OsTick /\ osIdleTask \notin Task
      /\ \A t \in Thread : k.state[t] = "DEAD" => k.mutexes[t] = << >>
  BY KernelAssumption, ApplicationAssumption, BookkeptListed DEF IInv, Thread
<1>3. ASSUME NEW t \in Task, TaskDelete(t) PROVE Urgent(k')
  BY <1>0, <1>3, DeleteUrgent DEF TaskDelete
<1>4. ASSUME NEW t \in Task, TaskSuspend(t) PROVE Urgent(k')
  BY <1>0, <1>4, SuspendFine DEF TaskSuspend, Call, Fine
<1>5. ASSUME NEW t \in Task, TaskResume(t) PROVE Urgent(k')
  BY <1>0, <1>5, ResumeFine DEF TaskResume, Call, Fine
<1>6. ASSUME NEW t \in Task, NEW p \in TaskPriority, TaskCreate(t, p) PROVE Urgent(k')
  BY <1>0, <1>6, CreateFine DEF TaskCreate, Call, Fine
<1>7. ASSUME NEW t \in Task, NEW p \in TaskPriority, TaskSetPriority(t, p) PROVE Urgent(k')
  BY <1>0, <1>7, SetPriorityFine DEF TaskSetPriority, Call, Fine
<1>8. ASSUME NEW n \in Timeout, DelayFor(n) PROVE Urgent(k')
  BY <1>0, <1>8, DelayFine DEF DelayFor, Call, Fine
<1>9. CASE Tick
  BY <1>0, <1>9, TickFine DEF Tick, Call, Fine
<1>10. CASE Run
  BY <1>0, <1>10, RunFine DEF Run, Begun, Fine
<1>11. CASE SpareIdle
  BY <1>11, Spared
<1>. QED
  BY <1>3, <1>4, <1>5, <1>6, <1>7, <1>8, <1>9, <1>10, <1>11 DEF Other, ApplicationNext

\* What tasks inherit, before and after osRun.
HurryInv == IInv /\ Urgent(k) /\ Begun

LEMMA HurryNext == HurryInv /\ [Next]_vars => HurryInv'
<1>. SUFFICES ASSUME HurryInv, [Next]_vars PROVE HurryInv'
  OBVIOUS
<1>0. IInv /\ Urgent(k) /\ Begun
  BY DEF HurryInv
<1>1. IInv' /\ Begun'
  BY <1>0, NextIInv, BegunNext
<1>2. Urgent(k')
  <2>1. ASSUME NEW m \in Mutex, LockFree(m) PROVE Urgent(k')
    BY <1>0, <2>1, LockFreeUrgent
  <2>2. ASSUME NEW m \in Mutex, Unlock(m) PROVE Urgent(k')
    BY <1>0, <2>2, UnlockUrgent
  <2>3. ASSUME NEW m \in Mutex, NEW n \in Timeout, LockOwned(m, n) PROVE Urgent(k')
    BY <1>0, <2>3, LockOwnedUrgent DEF Begun, Starting
  <2>4. CASE LockReturns
    BY <1>0, <2>4, LockReturnsUrgent
  <2>5. CASE Other
    BY <1>0, <2>5, OtherUrgent
  <2>6. CASE UNCHANGED vars
    BY <1>0, <2>6 DEF vars
  <2>. QED BY <2>1, <2>2, <2>3, <2>4, <2>5, <2>6 DEF Next
<1>3. Urgent(k)' <=> Urgent(k')
  BY DEF Urgent, Based, Hurried, Flagged
<1>. QED
  BY <1>1, <1>2, <1>3 DEF HurryInv

\* Tasks wait only for a mutex somebody alive owns, and the owner is at least as
\* important as each of them (mutex.c:61-64, 103-105), although tasks on the way
\* are raised, lowered, aged and given other priorities, time out, are suspended
\* and are deleted.
THEOREM OwnerAlwaysHurries == Spec => []OwnerHurries
<1>1. HurryInv => OwnerHurries
  <2>. SUFFICES ASSUME HurryInv, OS_CFG_MUTEX_INHERITANCE, NEW m \in Mutex,
                       NEW w \in ToSet(k.waiters[m])
                PROVE  /\ k.owner[m] # NULL
                       /\ k.state[k.owner[m]] # "DEAD"
                       /\ k.priority[k.owner[m]] >= k.priority[w]
    BY DEF OwnerHurries
  <2>1. /\ Lists(k) /\ Bookkept(k, call) /\ Hurried(k) /\ NULL \notin Thread
        /\ Mutex \subseteq Object
        /\ \A t \in Thread : k.state[t] = "DEAD" => k.mutexes[t] = << >>
    BY KernelAssumption DEF HurryInv, IInv, KernelInv, Urgent
  <2>2. w \in Thread /\ k.waitList[w] = m
    BY <2>1 DEF Lists, WaitListsExact
  <2>3. k.owner[m] \in Thread /\ k.priority[w] <= k.priority[k.owner[m]]
    BY <2>1, <2>2 DEF Hurried
  <2>4. m \in ToSet(k.mutexes[k.owner[m]])
    BY <2>1, <2>3 DEF Bookkept, Owns
  <2>5. k.mutexes[k.owner[m]] # << >>
    BY <2>4 DEF ToSet
  <2>6. k.priority[w] \in Int /\ k.priority[k.owner[m]] \in Int
    BY <2>1, <2>2, <2>3, PriorityInt
  <2>. QED BY <2>1, <2>3, <2>5, <2>6
<1>2. Init => HurryInv
  BY InitIInv, StartInit DEF HurryInv, Begun
<1>. QED
  BY <1>1, <1>2, HurryNext, PTL DEF Spec

----------------------------------------------------------------------------
\* The current task is the most important one, and no task tries to lock a mutex
\* it has been told it owns.
Leading == Top(k) /\ \A t \in Thread : call[t] # NULL => call[t] \notin holds[t]

\* Somebody else than the current task has no reason to hurry any more.
LEMMA GiveUpTop ==
  ASSUME NEW r, KernelInv(r), Top(r), NEW m \in Mutex, r.owner[m] # r.current
  PROVE  Top(GiveUp(r, m))
<1>. DEFINE s == LowerToInherited(r, r.owner[m])
<1>1. Lists(r) /\ r.current \in Thread /\ r.owner[m] \in Thread \cup {NULL}
  BY DEF KernelInv, Lists, KernelState
<1>2. ASSUME r.owner[m] # NULL PROVE Top(s)
  <2>. PICK t \in Thread : t = r.owner[m]
    BY <1>1, <1>2
  <2>. DEFINE p == osInheritedPriority(r, t)
  <2>1. /\ Reordered(s, r)
        /\ s.priority = IF p < r.priority[t] THEN [r.priority EXCEPT ![t] = p] ELSE r.priority
    BY <1>1, Lower
  <2>2. r.priority \in [Thread -> Priority] /\ r.readyList \in Seq(Thread)
    BY <1>1 DEF Lists, KernelState
  <2>3. ToSet(s.readyList) = ToSet(r.readyList) /\ ToSet(r.readyList) \subseteq Thread
    BY <1>1, <2>1 DEF Reordered, Lists, ReadyListExact
  <2>4. p \in Int /\ \A u \in Thread : r.priority[u] \in Int
    <3>1. p \in Priority
      BY <1>1, InheritedType DEF Lists
    <3>. QED BY <1>1, <3>1, PriorityInt, KernelAssumption DEF Priority, MainPriority
  <2>. HIDE DEF p, s
  <2>5. s.priority[r.current] = r.priority[r.current]
    BY <1>1, <2>1, <2>2
  <2>6. \A u \in Thread : s.priority[u] <= r.priority[u]
    BY <2>1, <2>2, <2>4
  <2>7. s.current = r.current
    BY <2>1 DEF Reordered
  <2>8. \A u \in Thread : s.priority[u] \in Int
    BY <2>1, PriorityInt DEF Reordered
  <2>9. ASSUME NEW u \in ToSet(s.readyList) PROVE s.priority[u] <= s.priority[s.current]
    <3>1. u \in Thread /\ r.priority[u] <= r.priority[r.current]
      BY <2>3 DEF Top
    <3>2. s.priority[u] <= r.priority[u]
      BY <2>6, <3>1
    <3>. QED BY <1>1, <2>4, <2>5, <2>7, <2>8, <3>1, <3>2
  <2>. QED BY <2>9 DEF Top
<1>. HIDE DEF s
<1>. QED
  BY <1>2 DEF GiveUp, s

LEMMA OtherTop ==
  ASSUME IInv, Top(k), Other
  PROVE  Top(k')
<1>0. KernelInv(k) /\ Task \subseteq Thread /\ TaskPriority \subseteq Priority
      /\ Timeout \subseteq OsTick /\ osIdleTask \notin Task
  BY KernelAssumption, ApplicationAssumption DEF IInv, Thread
<1>1. ASSUME NEW t \in Task PROVE t \in Thread /\ t # osIdleTask
  BY <1>0
<1>3. ASSUME NEW t \in Task, TaskDelete(t) PROVE Top(k')
  BY <1>0, <1>1, <1>3, DeleteInv DEF TaskDelete
<1>4. ASSUME NEW t \in Task, TaskSuspend(t) PROVE Top(k')
  BY <1>0, <1>1, <1>4, SuspendInv DEF TaskSuspend, Call
<1>5. ASSUME NEW t \in Task, TaskResume(t) PROVE Top(k')
  BY <1>0, <1>5, ResumeInv DEF TaskResume, Call
<1>6. ASSUME NEW t \in Task, NEW p \in TaskPriority, TaskCreate(t, p) PROVE Top(k')
  BY <1>0, <1>6, CreateInv DEF TaskCreate, Call
<1>7. ASSUME NEW t \in Task, NEW p \in TaskPriority, TaskSetPriority(t, p) PROVE Top(k')
  BY <1>0, <1>7, SetPriorityInv DEF TaskSetPriority, Call
<1>8. ASSUME NEW n \in Timeout, DelayFor(n) PROVE Top(k')
  BY <1>0, <1>8, DelayInv DEF DelayFor, Call
<1>9. CASE Tick
  BY <1>0, <1>9, TickHandler DEF Tick, Call
<1>10. CASE Run
  BY <1>0, <1>10, RunInv DEF Run
<1>11. CASE SpareIdle
  BY <1>11, Spared
<1>. QED
  BY <1>3, <1>4, <1>5, <1>6, <1>7, <1>8, <1>9, <1>10, <1>11 DEF Other, ApplicationNext

\* A wait that fails is for the mutex of another task, if tasks are told what they
\* own.
LEMMA LeadingNext ==
  ASSUME HurryInv, AlwaysTold, Leading, [Next]_vars
  PROVE  Leading'
<1>0. /\ IInv /\ Urgent(k) /\ KernelInv(k) /\ call \in Pending /\ holds \in Holding /\ NULL \notin Thread
      /\ Top(k) /\ Told(k, holds, call) /\ k.current \in Thread /\ k.state[k.current] = "RUNNING"
      /\ \A t \in Thread : call[t] # NULL => call[t] \notin holds[t]
      /\ k \in KernelState /\ NULL \notin Mutex
  BY CurrentTask, KernelAssumption DEF HurryInv, IInv, Leading, KernelInv, Lists
<1>. DEFINE Apart(c, h) == \A t \in Thread : c[t] # NULL => c[t] \notin h[t]
<1>. SUFFICES Top(k') /\ Apart(call', holds')
  BY DEF Leading, Top
<1>1. ASSUME NEW m \in Mutex, LockFree(m) PROVE Top(k') /\ Apart(call', holds')
  <2>1. k' = osMutexOwn(k, m, k.current) /\ call' = call /\ call[k.current] = NULL
        /\ holds' = [holds EXCEPT ![k.current] = @ \cup {m}]
    BY <1>1 DEF LockFree, Returning
  <2>2. k'.current = k.current /\ k'.priority = k.priority /\ k'.readyList = k.readyList
    BY <1>0, <2>1 DEF osMutexOwn, KernelState
  <2>3. Apart(call', holds')
    BY <1>0, <2>1 DEF Holding
  <2>. QED BY <1>0, <2>2, <2>3 DEF Top
<1>2. ASSUME NEW m \in Mutex, Unlock(m) PROVE Top(k') /\ Apart(call', holds')
  <2>1. call' = call /\ holds' = [holds EXCEPT ![k.current] = @ \ {m}]
    BY <1>2 DEF Unlock
  <2>2. Apart(call', holds')
    BY <1>0, <2>1 DEF Holding
  <2>. QED BY <1>0, <1>2, <2>2, UnlockUrgent
<1>3. ASSUME NEW m \in Mutex, NEW n \in Timeout, LockOwned(m, n)
      PROVE  Top(k') /\ Apart(call', holds')
  <2>. DEFINE r == osBlock(WaitForMutex(m), m, n)
  <2>1. /\ n \in OsTick /\ k.owner[m] # NULL /\ holds' = holds
        /\ k.owner[m] = k.current => ~running /\ k.current = osIdleTask
        /\ IF k.current = osIdleTask
           THEN k' = GiveUp(r, m) /\ call' = call
           ELSE k' = r /\ call' = [call EXCEPT ![k.current] = m]
    BY <1>3, ApplicationAssumption DEF LockOwned, HurryInv, Begun, Starting
  <2>2. /\ KernelInv(r)
        /\ k.current = osIdleTask => Unaffected(r, k)
        /\ k.current # osIdleTask => Top(r)
    BY <1>0, <2>1, WaitBlocks
  <2>3. k.current = osIdleTask => r.current = k.current /\ Top(r)
    BY <1>0, <2>1, WaitUrgent
  <2>. HIDE DEF r
  <2>4. CASE k.current = osIdleTask
    <3>1. CASE k.owner[m] # k.current
      <4>1. r.owner[m] # r.current
        BY <2>2, <2>3, <2>4, <3>1 DEF Unaffected
      <4>. QED BY <1>0, <2>1, <2>2, <2>3, <2>4, <4>1, GiveUpTop
    <3>2. CASE k.owner[m] = k.current
      <4>1. Starting(k') /\ KernelInv(k)'
        BY <1>0, <1>3, <2>1, <3>2, StartLock, NextIInv DEF HurryInv, Begun, IInv, Next
      <4>2. Top(k')
        BY <4>1, StartTop
      <4>. QED BY <1>0, <2>1, <2>4, <4>2
    <3>. QED BY <3>1, <3>2
  <2>5. CASE k.current # osIdleTask
    <3>1. m \notin holds[k.current]
      BY <1>0, <2>1, <2>5 DEF Told
    <3>2. Apart(call', holds')
      BY <1>0, <2>1, <2>5, <3>1 DEF Pending
    <3>. QED BY <2>1, <2>2, <2>5, <3>2
  <2>. QED BY <2>4, <2>5
<1>4. CASE LockReturns
  <2>. DEFINE m == call[k.current]
  <2>1. m \in Mutex /\ call' = [call EXCEPT ![k.current] = NULL]
    BY <1>0, <1>4 DEF LockReturns, Returns, Returning, Pending
  <2>2. IF k.result[k.current] THEN k' = k /\ holds' = [holds EXCEPT ![k.current] = @ \cup {m}]
        ELSE k' = GiveUp(k, m) /\ holds' = holds
    BY <1>4 DEF LockReturns, Returns
  <2>3. ~k.result[k.current] => k.owner[m] # k.current
    BY <1>0, <2>1 DEF Told
  <2>4. Apart(call', holds')
    BY <1>0, <2>1, <2>2 DEF Pending, Holding
  <2>. HIDE DEF m
  <2>5. Top(k')
    BY <1>0, <2>1, <2>2, <2>3, GiveUpTop
  <2>. QED BY <2>4, <2>5
<1>5. CASE Other
  <2>1. Top(k')
    BY <1>0, <1>5, OtherTop
  <2>2. \A t \in Thread : call'[t] \in {call[t], NULL}
    BY <1>0, <1>5 DEF Other, ApplicationNext, Tick, Run, TaskDelete, TaskSuspend, TaskResume, TaskCreate,
         TaskSetPriority, DelayFor, SpareIdle, Call, Pending
  <2>3. \A t \in Thread : holds'[t] \in {holds[t], {}}
    BY <1>5 DEF Other
  <2>4. Apart(call', holds')
    BY <1>0, <2>2, <2>3
  <2>. QED BY <2>1, <2>4
<1>6. CASE UNCHANGED vars
  BY <1>0, <1>6 DEF vars
<1>. HIDE DEF Apart
<1>. QED
  BY <1>1, <1>2, <1>3, <1>4, <1>5, <1>6 DEF Next

----------------------------------------------------------------------------
\* Those who keep the tasks of S waiting, and all who do so for the task t.
Owners(S) == {k.owner[m] : m \in {m \in Mutex : \E u \in S : u \in ToSet(k.waiters[m])}}

IsReached(f, n, t) == f = [i \in 0 .. n |-> IF i = 0 THEN {t} ELSE f[i - 1] \cup Owners(f[i - 1])]

LEMMA ReachedExists ==
  ASSUME NEW n \in Nat, NEW t
  PROVE  \E f : IsReached(f, n, t)
<1>. USE DEF IsReached
<1>. DEFINE Exists(m) == \E f : IsReached(f, m, t)
<1>1. Exists(0)
  <2>. DEFINE f == [i \in 0 .. 0 |-> {t}]
  <2>1. f = [i \in 0 .. 0 |-> IF i = 0 THEN {t} ELSE f[i - 1] \cup Owners(f[i - 1])]
    OBVIOUS
  <2>2. IsReached(f, 0, t)
    BY <2>1
  <2>. QED BY <2>2
<1>2. ASSUME NEW m \in Nat, m # 0, Exists(m - 1)
      PROVE  Exists(m)
  <2>1. PICK g : IsReached(g, m - 1, t)
    BY <1>2
  <2>. DEFINE last == g[m - 1] \cup Owners(g[m - 1])
              f == [i \in 0 .. m |-> IF i < m THEN g[i] ELSE last]
  <2>. HIDE DEF last
  <2>2. \A i \in 0 .. m : f[i] = IF i < m THEN g[i] ELSE last
    OBVIOUS
  <2>3. f = [i \in 0 .. m |-> f[i]]
    OBVIOUS
  <2>. HIDE DEF f
  <2>4. ASSUME NEW i \in 0 .. m
        PROVE  f[i] = IF i = 0 THEN {t} ELSE f[i - 1] \cup Owners(f[i - 1])
    <3>1. CASE i = m
      <4>1. m - 1 \in 0 .. m /\ m - 1 < m /\ ~(m < m) /\ i # 0
        BY <1>2, <3>1
      <4>2. f[i] = last /\ f[i - 1] = g[m - 1]
        BY <2>2, <3>1, <4>1
      <4>. QED BY <3>1, <4>1, <4>2 DEF last
    <3>2. CASE i # m
      <4>1. i \in 0 .. m - 1 /\ i < m /\ (i # 0 => i - 1 \in 0 .. m /\ i - 1 < m)
        BY <1>2, <3>2
      <4>2. g[i] = IF i = 0 THEN {t} ELSE g[i - 1] \cup Owners(g[i - 1])
        BY <2>1, <4>1
      <4>3. f[i] = g[i] /\ (i # 0 => f[i - 1] = g[i - 1])
        BY <2>2, <4>1
      <4>. QED BY <4>2, <4>3
    <3>. QED BY <3>1, <3>2
  <2>5. IsReached(f, m, t)
    BY <2>3, <2>4
  <2>. QED BY <2>5
<1>. HIDE DEF Exists
<1>3. \A m \in Nat : Exists(m)
  <2>. DEFINE D == {m \in Nat : ~Exists(m)}
  <2>1. SUFFICES ASSUME D # {} PROVE FALSE
    BY <2>1
  <2>2. PICK m \in D : \A i \in D : m <= i
    BY <2>1, MinIsLeast
  <2>3. m \in Nat /\ m # 0 /\ m - 1 \in Nat /\ m - 1 \notin D
    BY <1>1, <2>2
  <2>. QED BY <1>2, <2>2, <2>3
<1>. QED
  BY <1>3 DEF Exists

\* All those a task waits for, through any number of mutexes, are at least as
\* important.
LEMMA WaitedForHurry ==
  ASSUME HurryInv, OS_CFG_MUTEX_INHERITANCE, NEW t \in Thread, NEW u \in WaitsFor(t)
  PROVE  u \in Thread /\ k.priority[t] <= k.priority[u]
<1>. DEFINE owners(S) == {k.owner[m] : m \in {m \in Mutex : \E w \in S : w \in ToSet(k.waiters[m])}}
            N == Cardinality(Mutex)
            reached[n \in 0 .. N] == IF n = 0 THEN {t} ELSE reached[n - 1] \cup owners(reached[n - 1])
            above == {w \in Thread : k.priority[t] <= k.priority[w]}
<1>1. WaitsFor(t) = reached[N] \ {t}
  BY DEF WaitsFor
<1>2. N \in Nat
  BY KernelAssumption, FS_CardinalityType
<1>. HIDE DEF N
<1>3. reached = [n \in 0 .. N |-> IF n = 0 THEN {t} ELSE reached[n - 1] \cup Owners(reached[n - 1])]
  <2>1. \E f : IsReached(f, N, t)
    BY <1>2, ReachedExists
  <2>2. \E f : f = [n \in 0 .. N |-> IF n = 0 THEN {t} ELSE f[n - 1] \cup owners(f[n - 1])]
    BY <2>1 DEF IsReached, Owners
  <2>. QED BY <2>2 DEF Owners
<1>. HIDE DEF reached, owners
<1>4. Lists(k) /\ Hurried(k) /\ Mutex \subseteq Object
  BY KernelAssumption DEF HurryInv, IInv, KernelInv, Urgent
<1>5. ASSUME NEW S \in SUBSET above PROVE Owners(S) \subseteq above
  <2>. SUFFICES ASSUME NEW m \in Mutex, NEW w \in S, w \in ToSet(k.waiters[m])
                PROVE  k.owner[m] \in above
    BY DEF Owners
  <2>1. w \in Thread /\ k.waitList[w] = m /\ k.priority[t] <= k.priority[w]
    BY <1>4 DEF Lists, WaitListsExact
  <2>2. k.owner[m] \in Thread /\ k.priority[w] <= k.priority[k.owner[m]]
    BY <1>4, <2>1 DEF Hurried
  <2>3. k.priority[t] \in Int /\ k.priority[w] \in Int /\ k.priority[k.owner[m]] \in Int
    BY <1>4, <2>1, <2>2, PriorityInt
  <2>. QED BY <2>1, <2>2, <2>3
<1>6. t \in above
  BY <1>4, PriorityInt
<1>. HIDE DEF above
<1>7. \A n \in 0 .. N : reached[n] \subseteq above
  <2>. DEFINE D == {n \in 0 .. N : ~(reached[n] \subseteq above)}
  <2>1. SUFFICES ASSUME D # {} PROVE FALSE
    BY <2>1
  <2>2. D \in SUBSET Nat
    BY <1>2
  <2>3. PICK n \in D : \A i \in D : n <= i
    BY <2>1, <2>2, MinIsLeast
  <2>4. reached[0] = {t} /\ 0 \in 0 .. N
    BY <1>2, <1>3
  <2>5. n \in 0 .. N /\ n # 0 /\ n - 1 \in 0 .. N /\ n - 1 \notin D
    BY <1>2, <1>6, <2>3, <2>4
  <2>6. reached[n - 1] \subseteq above
    BY <2>5
  <2>7. reached[n] = reached[n - 1] \cup Owners(reached[n - 1])
    BY <1>3, <2>5
  <2>. QED BY <1>5, <2>3, <2>6, <2>7
<1>. QED
  BY <1>1, <1>2, <1>7 DEF above

\* No priority inversion (mutex.c:61): while a task waits for mutexes, through
\* however many owners, and one of them could run, nobody less important than
\* the waiting task does, if tasks are not suspended between being handed a mutex
\* and returning: one could give up the mutex it has, and fall, without scheduling.
THEOREM NeverInverted ==
  ASSUME ~MaySuspendWoken
  PROVE  Spec => []NoPriorityInversion
<1>. DEFINE Inv == HurryInv /\ (OS_CFG_MUTEX_INHERITANCE => Leading)
<1>1. OS_CFG_MUTEX_INHERITANCE => AlwaysTold
  BY DEF AlwaysTold
<1>2. Init => Inv
  <2>. SUFFICES ASSUME Init PROVE Inv
    OBVIOUS
  <2>1. HurryInv
    BY InitIInv, StartInit DEF HurryInv, Begun
  <2>2. k.readyList = << >> /\ \A t \in Thread : call[t] = NULL
    BY DEF Init, ApplicationInit, osInit
  <2>3. Leading
    BY <2>2 DEF Leading, Top, ToSet
  <2>. QED BY <2>1, <2>3
<1>3. Inv /\ [Next]_vars => Inv'
  BY <1>1, HurryNext, LeadingNext
<1>4. Inv => NoPriorityInversion
  <2>. SUFFICES ASSUME HurryInv, Leading, OS_CFG_MUTEX_INHERITANCE, NEW t \in Thread,
                       NEW u \in WaitsFor(t), k.state[u] = "READY"
                PROVE  k.priority[k.current] >= k.priority[t]
    BY DEF NoPriorityInversion
  <2>1. Lists(k) /\ Top(k) /\ k.current \in Thread
    BY DEF HurryInv, IInv, KernelInv, Leading, Lists, KernelState
  <2>2. u \in Thread /\ k.priority[t] <= k.priority[u]
    BY WaitedForHurry
  <2>3. k.priority[u] <= k.priority[k.current]
    BY <2>1, <2>2 DEF Lists, ReadyListExact, Top
  <2>4. k.priority[t] \in Int /\ k.priority[u] \in Int /\ k.priority[k.current] \in Int
    BY <2>1, <2>2, PriorityInt
  <2>. QED BY <2>2, <2>3, <2>4
<1>. HIDE DEF Inv
<1>. QED
  BY <1>2, <1>3, <1>4, PTL DEF Spec
=============================================================================
