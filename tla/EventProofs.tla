---------------------------- MODULE EventProofs -----------------------------
(***************************************************************************)
(* What holds of event flags for any number of flags and tasks.            *)
(***************************************************************************)
EXTENDS Event, ApplicationProofs

Flags == SUBSET EventFlag
Waits == [Thread -> [flags : Flags, options : SUBSET {"ALL", "KEEP"}]]

\* Whoever waits is not satisfied with the flags that are set.
IInv ==
  /\ ApplicationInv(Object)
  /\ flags \in Flags
  /\ wait \in Waits
  /\ \A t \in Thread : k.waitList[t] # NULL => osEventMatch(flags, wait[t]) = {}

----------------------------------------------------------------------------
\* The requests.

\* Fewer flags satisfy no more.
LEMMA MatchMonotone ==
  ASSUME NEW set, NEW less \in SUBSET set, NEW request, osEventMatch(set, request) = {}
  PROVE  osEventMatch(less, request) = {}
BY DEF osEventMatch

\* What a request gets is some of what it wants, or all of it, and is gone
\* unless it is to be kept.
LEMMA MatchTakes ==
  ASSUME NEW set, NEW request, NEW matched, matched = osEventMatch(set, request), matched # {}
  PROVE  /\ matched \subseteq set /\ matched \subseteq request.flags
         /\ "ALL" \in request.options => matched = request.flags
         /\ Left(set, request) \subseteq set
         /\ "KEEP" \notin request.options => matched \cap Left(set, request) = {}
BY DEF osEventMatch, Left

----------------------------------------------------------------------------
\* One call to set flags.

\* One turn of the loop of osEventSetFromISR.
Serve(s, t) ==
  IF osEventMatch(s.flags, wait[t]) = {} THEN s
  ELSE [kernel |-> osWake(s.kernel, t, TRUE),
        flags |-> Left(s.flags, wait[t]),
        wait |-> [s.wait EXCEPT ![t].flags = osEventMatch(s.flags, wait[t])]]

IsServed(f, n, first, list) ==
  f = [i \in 0 .. n |-> IF i = 0 THEN first ELSE Serve(f[i - 1], list[i])]

\* The loop is well defined.
LEMMA ServedExists ==
  ASSUME NEW n \in Nat, NEW first, NEW list
  PROVE  \E f : IsServed(f, n, first, list)
<1>. USE DEF IsServed
<1>. DEFINE Exists(m) == \E f : IsServed(f, m, first, list)
<1>1. Exists(0)
  <2>. DEFINE f == [i \in 0 .. 0 |-> first]
  <2>1. f = [i \in 0 .. 0 |-> IF i = 0 THEN first ELSE Serve(f[i - 1], list[i])]
    OBVIOUS
  <2>2. IsServed(f, 0, first, list)
    BY <2>1
  <2>. QED BY <2>2
<1>2. ASSUME NEW m \in Nat, m # 0, Exists(m - 1)
      PROVE  Exists(m)
  <2>1. PICK g : IsServed(g, m - 1, first, list)
    BY <1>2
  <2>. DEFINE last == Serve(g[m - 1], list[m])
              f == [i \in 0 .. m |-> IF i < m THEN g[i] ELSE last]
  <2>. HIDE DEF last
  <2>2. \A i \in 0 .. m : f[i] = IF i < m THEN g[i] ELSE last
    OBVIOUS
  <2>3. f = [i \in 0 .. m |-> f[i]]
    OBVIOUS
  <2>. HIDE DEF f
  <2>4. ASSUME NEW i \in 0 .. m
        PROVE  f[i] = IF i = 0 THEN first ELSE Serve(f[i - 1], list[i])
    <3>1. CASE i = m
      <4>1. m - 1 \in 0 .. m /\ m - 1 < m /\ ~(m < m) /\ i # 0
        BY <1>2, <3>1
      <4>2. f[i] = last /\ f[i - 1] = g[m - 1]
        BY <2>2, <3>1, <4>1
      <4>. QED BY <3>1, <4>1, <4>2 DEF last
    <3>2. CASE i # m
      <4>1. i \in 0 .. m - 1 /\ i < m /\ (i # 0 => i - 1 \in 0 .. m /\ i - 1 < m)
        BY <1>2, <3>2
      <4>2. g[i] = IF i = 0 THEN first ELSE Serve(g[i - 1], list[i])
        BY <2>1, <4>1
      <4>3. f[i] = g[i] /\ (i # 0 => f[i - 1] = g[i - 1])
        BY <2>2, <4>1
      <4>. QED BY <4>2, <4>3
    <3>. QED BY <3>1, <3>2
  <2>5. IsServed(f, m, first, list)
    BY <2>3, <2>4
  <2>. QED BY <2>5
<1>. HIDE DEF Exists
<1>3. \A m \in Nat : Exists(m)
  <2>. DEFINE D == {m \in Nat : ~Exists(m)}
  <2>1. SUFFICES ASSUME D # {} PROVE FALSE
    BY <2>1
  <2>2. PICK m \in D : \A i \in D : m <= i
    BY <2>1, MinIsLeast
  <2>3. m \in Nat /\ m # 0 /\ m - 1 \in Nat /\ m - 1 \notin D
    BY <1>1, <2>2
  <2>. QED BY <1>2, <2>2, <2>3
<1>. QED
  BY <1>3 DEF Exists

\* Between two turns everything is in order,
InOrder(s) ==
  /\ KernelInv(s.kernel) /\ s.kernel.mutexes = k.mutexes
  /\ s.flags \in Flags /\ s.wait \in Waits

\* a task is as it was,
Untouched(s, t) == Same(s.kernel, k, t) /\ s.wait[t] = wait[t]

\* or it has got its flags.
Fed(s, t) ==
  /\ Given(s.kernel, t)
  /\ s.wait[t].flags # {} /\ s.wait[t].flags \subseteq wait[t].flags
  /\ "ALL" \in wait[t].options => s.wait[t].flags = wait[t].flags
  /\ "KEEP" \notin wait[t].options => s.wait[t].flags \cap s.flags = {}

\* What one turn does.
LEMMA ServeStep ==
  ASSUME IInv, NEW s, InOrder(s), NEW t \in Thread, Untouched(s, t), k.waitList[t] # NULL
  PROVE  LET r == Serve(s, t)
         IN  /\ InOrder(r) /\ r.flags \subseteq s.flags
             /\ \A u \in Thread \ {t} :
                  Same(r.kernel, s.kernel, u) /\ r.wait[u] = s.wait[u]
             /\ \/ Untouched(r, t) /\ osEventMatch(r.flags, wait[t]) = {}
                \/ Fed(r, t) /\ r.wait[t].flags \subseteq s.flags
<1>. DEFINE r == Serve(s, t)
            matched == osEventMatch(s.flags, wait[t])
<1>1. CASE matched = {}
  <2>1. r = s
    BY <1>1 DEF Serve
  <2>. QED BY <1>1, <2>1 DEF Same
<1>2. CASE matched # {}
  <2>1. KernelInv(s.kernel) /\ s.kernel.waitList[t] # NULL
    BY DEF InOrder, Untouched, Same
  <2>. DEFINE q == osWake(s.kernel, t, TRUE)
  <2>2. /\ r.kernel = q /\ r.flags = Left(s.flags, wait[t])
        /\ r.wait = [s.wait EXCEPT ![t].flags = matched]
    BY <1>2 DEF Serve
  <2>. HIDE DEF q, r
  <2>3. /\ KernelInv(q) /\ Given(q, t) /\ q.mutexes = s.kernel.mutexes
        /\ \A u \in Thread \ {t} : Same(q, s.kernel, u)
    <3>1. LET p == osWake(s.kernel, t, TRUE)
          IN  /\ KernelInv(p) /\ s.kernel.state[t] = "BLOCKED" /\ Given(p, t)
              /\ p.mutexes = s.kernel.mutexes
              /\ \A u \in Thread \ {t} : Same(p, s.kernel, u)
      BY <2>1, WakeGives
    <3>. QED BY <3>1 DEF q
  <2>. HIDE DEF matched
  <2>4. /\ matched \subseteq s.flags /\ matched \subseteq wait[t].flags
        /\ "ALL" \in wait[t].options => matched = wait[t].flags
        /\ r.flags \subseteq s.flags
        /\ "KEEP" \notin wait[t].options => matched \cap r.flags = {}
    BY <1>2, <2>2, MatchTakes DEF matched
  <2>5. s.flags \in Flags /\ s.wait \in Waits /\ s.wait[t] = wait[t]
    BY DEF InOrder, Untouched
  <2>6. /\ r.wait \in Waits /\ r.wait[t].flags = matched
        /\ \A u \in Thread \ {t} : r.wait[u] = s.wait[u]
    BY <2>2, <2>4, <2>5 DEF Waits, Flags
  <2>7. InOrder(r)
    BY <2>2, <2>3, <2>4, <2>5, <2>6 DEF InOrder, Flags
  <2>8. Fed(r, t)
    BY <1>2, <2>2, <2>3, <2>4, <2>6 DEF Fed
  <2>. QED BY <2>2, <2>3, <2>4, <2>6, <2>7, <2>8 DEF r
<1>. QED
  BY <1>1, <1>2

\* Who has been dealt with stays dealt with.
LEMMA ServeKeeps ==
  ASSUME NEW s, NEW r, NEW u, r.flags \subseteq s.flags,
         Same(r.kernel, s.kernel, u), r.wait[u] = s.wait[u]
  PROVE  /\ Untouched(s, u) => Untouched(r, u)
         /\ Fed(s, u) => Fed(r, u)
         /\ osEventMatch(s.flags, wait[u]) = {} => osEventMatch(r.flags, wait[u]) = {}
<1>1. Untouched(s, u) => Untouched(r, u)
  BY DEF Untouched, Same
<1>2. Fed(s, u) => Fed(r, u)
  BY DEF Fed, Given, Same
<1>. QED
  BY <1>1, <1>2, MatchMonotone

\* All of them: everybody who could be served has been, nobody with what
\* somebody before has taken.
LEMMA ServedEffect ==
  ASSUME IInv, NEW set \in Flags
  PROVE  LET s == Served(set)
         IN  /\ InOrder(s) /\ s.flags \subseteq set
             /\ \A t \in Thread :
                  \/ /\ Untouched(s, t)
                     /\ k.waitList[t] # NULL => osEventMatch(s.flags, wait[t]) = {}
                  \/ k.waitList[t] # NULL /\ Fed(s, t)
             /\ \A t, u \in Thread :
                  /\ Ahead(k.waiters[event], t, u) /\ "KEEP" \notin wait[t].options
                  /\ Given(s.kernel, t) /\ Given(s.kernel, u)
                  => s.wait[t].flags \cap s.wait[u].flags = {}
<1>. DEFINE list == k.waiters[event]
            first == [kernel |-> k, flags |-> set, wait |-> wait]
            served[i \in 0 .. Len(list)] ==
              IF i = 0 THEN [kernel |-> k, flags |-> set, wait |-> wait]
              ELSE LET s == served[i - 1]
                       matched == osEventMatch(s.flags, wait[list[i]])
                   IN  IF matched = {} THEN s
                       ELSE [kernel |-> osWake(s.kernel, list[i], TRUE),
                             flags |-> Left(s.flags, wait[list[i]]),
                             wait |-> [s.wait EXCEPT ![list[i]].flags = matched]]
<1>1. Served(set) = served[Len(list)]
  BY DEF Served
<1>2. /\ list \in Seq(Thread) /\ Len(list) \in Nat /\ Injective(list)
      /\ ToSet(list) = {t \in Thread : k.waitList[t] # NULL}
      /\ \A t \in Thread : k.waitList[t] # NULL => k.state[t] = "BLOCKED"
  <2>1. event \in Object /\ event # NULL /\ Object = {event}
    BY EventAssumption, KernelAssumption
  <2>2. /\ list \in Seq(Thread) /\ Injective(list)
        /\ ToSet(list) = {t \in Thread : k.waitList[t] = event}
        /\ \A t \in Thread : k.waitList[t] \in {event, NULL}
        /\ \A t \in Thread : k.waitList[t] # NULL => k.state[t] = "BLOCKED"
    BY <2>1 DEF IInv, ApplicationInv, KernelInv, Lists, WaitListsExact, KernelState
  <2>. HIDE DEF list
  <2>. QED BY <2>1, <2>2
<1>3. served = [i \in 0 .. Len(list) |-> IF i = 0 THEN first ELSE Serve(served[i - 1], list[i])]
  <2>1. \E f : IsServed(f, Len(list), first, list)
    BY <1>2, ServedExists
  <2>2. \E f : f = [i \in 0 .. Len(list) |->
                      IF i = 0 THEN [kernel |-> k, flags |-> set, wait |-> wait]
                      ELSE LET s == f[i - 1]
                               matched == osEventMatch(s.flags, wait[list[i]])
                           IN  IF matched = {} THEN s
                               ELSE [kernel |-> osWake(s.kernel, list[i], TRUE),
                                     flags |-> Left(s.flags, wait[list[i]]),
                                     wait |-> [s.wait EXCEPT ![list[i]].flags = matched]]]
    BY <2>1 DEF IsServed, Serve
  <2>3. served = [i \in 0 .. Len(list) |->
                      IF i = 0 THEN [kernel |-> k, flags |-> set, wait |-> wait]
                      ELSE LET s == served[i - 1]
                               matched == osEventMatch(s.flags, wait[list[i]])
                           IN  IF matched = {} THEN s
                               ELSE [kernel |-> osWake(s.kernel, list[i], TRUE),
                                     flags |-> Left(s.flags, wait[list[i]]),
                                     wait |-> [s.wait EXCEPT ![list[i]].flags = matched]]]
    BY <2>2
  <2>. HIDE DEF served
  <2>. QED BY <2>3 DEF Serve
<1>. HIDE DEF served
<1>4. \A i \in 1 .. Len(list) : list[i] \in Thread /\ k.waitList[list[i]] # NULL
  <2>. HIDE DEF list
  <2>. QED BY <1>2, InToSet
<1>. HIDE DEF list
<1>. DEFINE Pair(s, t, u) ==
       Fed(s, t) /\ Fed(s, u) /\ "KEEP" \notin wait[t].options
         => s.wait[t].flags \cap s.wait[u].flags = {}
     Inv(i) ==
       /\ InOrder(served[i]) /\ served[i].flags \subseteq set
       /\ \A t \in Thread : k.waitList[t] = NULL => Untouched(served[i], t)
       /\ \A j \in i + 1 .. Len(list) : Untouched(served[i], list[j])
       /\ \A j \in 1 .. i :
            \/ /\ Untouched(served[i], list[j])
               /\ osEventMatch(served[i].flags, wait[list[j]]) = {}
            \/ Fed(served[i], list[j])
       /\ \A a, b \in 1 .. i : a < b => Pair(served[i], list[a], list[b])
<1>5. Inv(0)
  <2>1. served[0] = first
    BY <1>2, <1>3
  <2>2. InOrder(first) /\ \A t \in Thread : Untouched(first, t)
    BY DEF IInv, ApplicationInv, InOrder, Untouched, Same
  <2>3. \A j \in 0 + 1 .. Len(list) : list[j] \in Thread
    BY <1>4
  <2>. HIDE DEF first
  <2>4. first.flags \subseteq set
    BY DEF first
  <2>. QED BY <2>1, <2>2, <2>3, <2>4
<1>6. ASSUME NEW i \in 1 .. Len(list), Inv(i - 1)
      PROVE  Inv(i)
  <2>. DEFINE s == served[i - 1]
              t == list[i]
              r == Serve(s, t)
  <2>0. i \in 0 .. Len(list) /\ i # 0 /\ (i - 1) + 1 = i /\ i \in Nat
    BY <1>2
  <2>1. served[i] = r
    BY <1>3, <2>0
  <2>2. /\ InOrder(s) /\ s.flags \subseteq set
        /\ \A u \in Thread : k.waitList[u] = NULL => Untouched(s, u)
        /\ \A j \in i .. Len(list) : Untouched(s, list[j])
        /\ \A j \in 1 .. i - 1 :
             \/ Untouched(s, list[j]) /\ osEventMatch(s.flags, wait[list[j]]) = {}
             \/ Fed(s, list[j])
        /\ \A a, b \in 1 .. i - 1 : a < b => Pair(s, list[a], list[b])
    BY <1>6, <2>0
  <2>3. t \in Thread /\ k.waitList[t] # NULL /\ Untouched(s, t)
    <3>1. i \in i .. Len(list)
      BY <2>0
    <3>. QED BY <1>4, <2>2, <3>1
  <2>4. \A j \in 1 .. Len(list) : list[j] \in Thread /\ (list[j] = t => j = i)
    BY <1>2, <1>4 DEF Injective
  <2>. HIDE DEF s, t, Pair
  <2>5. /\ InOrder(r) /\ r.flags \subseteq s.flags
        /\ \A u \in Thread \ {t} : Same(r.kernel, s.kernel, u) /\ r.wait[u] = s.wait[u]
        /\ \/ Untouched(r, t) /\ osEventMatch(r.flags, wait[t]) = {}
           \/ Fed(r, t) /\ r.wait[t].flags \subseteq s.flags
    <3>1. LET q == Serve(s, t)
          IN  /\ InOrder(q) /\ q.flags \subseteq s.flags
              /\ \A u \in Thread \ {t} :
                   Same(q.kernel, s.kernel, u) /\ q.wait[u] = s.wait[u]
              /\ \/ Untouched(q, t) /\ osEventMatch(q.flags, wait[t]) = {}
                 \/ Fed(q, t) /\ q.wait[t].flags \subseteq s.flags
      BY <2>2, <2>3, ServeStep
    <3>. QED BY <3>1
  <2>. HIDE DEF r
  <2>6. ASSUME NEW u \in Thread, u # t
        PROVE  /\ Untouched(s, u) => Untouched(r, u)
               /\ Fed(s, u) => Fed(r, u)
               /\ osEventMatch(s.flags, wait[u]) = {} => osEventMatch(r.flags, wait[u]) = {}
    <3>1. Same(r.kernel, s.kernel, u) /\ r.wait[u] = s.wait[u]
      BY <2>5, <2>6
    <3>. QED BY <2>5, <3>1, ServeKeeps
  <2>7. \A u \in Thread : k.waitList[u] = NULL => Untouched(r, u)
    BY <2>2, <2>3, <2>6
  <2>8. \A j \in i + 1 .. Len(list) : Untouched(r, list[j])
    <3>1. ASSUME NEW j \in i + 1 .. Len(list)
          PROVE  j \in i .. Len(list) /\ j \in 1 .. Len(list) /\ j # i
      BY <1>2, <2>0
    <3>. QED BY <2>2, <2>4, <2>6, <3>1
  <2>9. ASSUME NEW j \in 1 .. i
        PROVE  \/ Untouched(r, list[j]) /\ osEventMatch(r.flags, wait[list[j]]) = {}
               \/ Fed(r, list[j])
    <3>1. CASE j = i
      BY <2>5, <3>1 DEF t
    <3>2. CASE j # i
      <4>1. j \in 1 .. i - 1 /\ j \in 1 .. Len(list)
        BY <1>2, <2>0, <3>2
      <4>. QED BY <2>2, <2>4, <2>6, <3>2, <4>1
    <3>. QED BY <3>1, <3>2
  <2>10. ASSUME NEW a \in 1 .. i, NEW b \in 1 .. i, a < b
         PROVE  Pair(r, list[a], list[b])
    <3>. SUFFICES ASSUME Fed(r, list[a]), Fed(r, list[b]), "KEEP" \notin wait[list[a]].options
                  PROVE  r.wait[list[a]].flags \cap r.wait[list[b]].flags = {}
      BY DEF Pair
    <3>1. a \in 1 .. i - 1 /\ a \in 1 .. Len(list) /\ b \in 1 .. Len(list) /\ a # i
      BY <1>2, <2>0, <2>10
    <3>2. \A u \in Thread : k.waitList[u] # NULL /\ Untouched(s, u) /\ u # t => ~Fed(r, u)
      BY <1>2, <2>6 DEF Untouched, Fed, Given, Same
    <3>3. Fed(s, list[a]) /\ r.wait[list[a]] = s.wait[list[a]]
      BY <1>4, <2>2, <2>4, <2>5, <3>1, <3>2
    <3>4. CASE b = i
      <4>1. r.wait[t].flags \subseteq s.flags
        BY <1>2, <2>3, <2>5, <3>4 DEF Untouched, Fed, Given, Same, t
      <4>2. s.wait[list[a]].flags \cap s.flags = {}
        BY <3>3 DEF Fed
      <4>. QED BY <3>3, <3>4, <4>1, <4>2 DEF t
    <3>5. CASE b # i
      <4>1. b \in 1 .. i - 1
        BY <2>0, <3>5
      <4>2. Fed(s, list[b]) /\ r.wait[list[b]] = s.wait[list[b]]
        BY <1>4, <2>2, <2>4, <2>5, <3>1, <3>2, <3>5, <4>1
      <4>. QED BY <2>2, <2>10, <3>1, <3>3, <4>1, <4>2 DEF Pair
    <3>. QED BY <3>4, <3>5
  <2>. QED BY <2>1, <2>2, <2>5, <2>7, <2>8, <2>9, <2>10
<1>7. Inv(Len(list))
  <2>. HIDE DEF Inv
  <2>. DEFINE D == {i \in 0 .. Len(list) : ~Inv(i)}
  <2>1. SUFFICES ASSUME D # {} PROVE FALSE
    BY <1>2, <2>1
  <2>2. D \in SUBSET Nat
    OBVIOUS
  <2>3. PICK i \in D : \A j \in D : i <= j
    BY <2>1, <2>2, MinIsLeast
  <2>4. i # 0
    BY <1>5, <2>3
  <2>5. i \in 1 .. Len(list) /\ i - 1 \in 0 .. Len(list) /\ i - 1 \notin D
    BY <1>2, <2>3, <2>4
  <2>. QED BY <1>6, <2>3, <2>5
<1>. DEFINE s == served[Len(list)]
<1>8. /\ InOrder(s) /\ s.flags \subseteq set
      /\ \A t \in Thread : k.waitList[t] = NULL => Untouched(s, t)
      /\ \A j \in 1 .. Len(list) :
           \/ Untouched(s, list[j]) /\ osEventMatch(s.flags, wait[list[j]]) = {}
           \/ Fed(s, list[j])
      /\ \A a, b \in 1 .. Len(list) : a < b => Pair(s, list[a], list[b])
  BY <1>7
<1>. HIDE DEF s, Pair
<1>9. ASSUME NEW t \in Thread
      PROVE  \/ /\ Untouched(s, t)
                /\ k.waitList[t] # NULL => osEventMatch(s.flags, wait[t]) = {}
             \/ k.waitList[t] # NULL /\ Fed(s, t)
  <2>1. CASE k.waitList[t] = NULL
    BY <1>8, <2>1
  <2>2. CASE k.waitList[t] # NULL
    <3>1. PICK j \in 1 .. Len(list) : list[j] = t
      BY <1>2, <2>2, InToSet
    <3>. QED BY <1>8, <2>2, <3>1
  <2>. QED BY <2>1, <2>2
<1>10. ASSUME NEW t \in Thread, NEW u \in Thread, Ahead(list, t, u),
              "KEEP" \notin wait[t].options, Given(s.kernel, t), Given(s.kernel, u)
       PROVE  s.wait[t].flags \cap s.wait[u].flags = {}
  <2>1. PICK a \in 1 .. Len(list), b \in 1 .. Len(list) : a < b /\ list[a] = t /\ list[b] = u
    BY <1>10 DEF Ahead
  <2>2. Fed(s, t) /\ Fed(s, u)
    BY <1>2, <1>4, <1>9, <1>10, <2>1 DEF Untouched, Same, Given
  <2>. QED BY <1>8, <1>10, <2>1, <2>2 DEF Pair
<1>. QED
  BY <1>1, <1>8, <1>9, <1>10 DEF s, list

\* The same of a call that ends with osSchedule, or does not.
LEMMA SetStep ==
  ASSUME IInv, NEW set \in SUBSET EventFlag, Set(set)
  PROVE  /\ ApplicationInv(Object)' /\ call' = call
         /\ flags' \in Flags /\ wait' \in Waits
         /\ \A t \in Thread :
              \/ /\ Steady(t) /\ wait'[t] = wait[t]
                 /\ k.waitList[t] # NULL => osEventMatch(flags', wait[t]) = {}
              \/ /\ k.waitList[t] # NULL /\ Given(k', t)
                 /\ wait'[t].flags # {} /\ wait'[t].flags \subseteq wait[t].flags
                 /\ "ALL" \in wait[t].options => wait'[t].flags = wait[t].flags
                 /\ "KEEP" \notin wait[t].options => wait'[t].flags \cap flags' = {}
         /\ \A t, u \in Thread :
              /\ Ahead(k.waiters[event], t, u) /\ "KEEP" \notin wait[t].options
              /\ Given(k', t) /\ Given(k', u) /\ k.waitList[t] # NULL /\ k.waitList[u] # NULL
              => wait'[t].flags \cap wait'[u].flags = {}
<1>. DEFINE all == flags \cup set
            s == Served(all)
<1>1. all \in Flags
  BY DEF IInv, Flags
<1>2. /\ k' = osSchedule(s.kernel, 0) \/ k' = s.kernel
      /\ flags' = s.flags /\ wait' = s.wait /\ running' = running /\ call' = call
  BY DEF Set
<1>. HIDE DEF s, all
<1>3. /\ InOrder(s) /\ s.flags \subseteq all
      /\ \A t \in Thread :
           \/ /\ Untouched(s, t)
              /\ k.waitList[t] # NULL => osEventMatch(s.flags, wait[t]) = {}
           \/ k.waitList[t] # NULL /\ Fed(s, t)
      /\ \A t, u \in Thread :
           /\ Ahead(k.waiters[event], t, u) /\ "KEEP" \notin wait[t].options
           /\ Given(s.kernel, t) /\ Given(s.kernel, u)
           => s.wait[t].flags \cap s.wait[u].flags = {}
  <2>1. LET q == Served(all)
        IN  /\ InOrder(q) /\ q.flags \subseteq all
            /\ \A t \in Thread :
                 \/ /\ Untouched(q, t)
                    /\ k.waitList[t] # NULL => osEventMatch(q.flags, wait[t]) = {}
                 \/ k.waitList[t] # NULL /\ Fed(q, t)
            /\ \A t, u \in Thread :
                 /\ Ahead(k.waiters[event], t, u) /\ "KEEP" \notin wait[t].options
                 /\ Given(q.kernel, t) /\ Given(q.kernel, u)
                 => q.wait[t].flags \cap q.wait[u].flags = {}
    BY <1>1, ServedEffect
  <2>. QED BY <2>1 DEF s
<1>4. /\ ApplicationInv(Object)'
      /\ \A t \in Thread : /\ Same(s.kernel, k, t) => Steady(t)
                           /\ Given(s.kernel, t) => Given(k', t)
  <2>1. KernelInv(s.kernel) /\ s.kernel.mutexes = k.mutexes
    BY <1>3 DEF InOrder
  <2>2. \A t \in Thread :
          Same(s.kernel, k, t) \/ (k.waitList[t] # NULL /\ Given(s.kernel, t))
    BY <1>3 DEF Untouched, Fed
  <2>3. ApplicationInv(Object)
    BY DEF IInv
  <2>. DEFINE r == s.kernel
  <2>. HIDE DEF r
  <2>. QED BY <1>2, <2>1, <2>2, <2>3, GivesStep DEF r
<1>5. flags' \in Flags /\ wait' \in Waits
  BY <1>2, <1>3 DEF InOrder
<1>6. \A t \in Thread :
        \/ /\ Steady(t) /\ wait'[t] = wait[t]
           /\ k.waitList[t] # NULL => osEventMatch(flags', wait[t]) = {}
        \/ /\ k.waitList[t] # NULL /\ Given(k', t)
           /\ wait'[t].flags # {} /\ wait'[t].flags \subseteq wait[t].flags
           /\ "ALL" \in wait[t].options => wait'[t].flags = wait[t].flags
           /\ "KEEP" \notin wait[t].options => wait'[t].flags \cap flags' = {}
  BY <1>2, <1>3, <1>4 DEF Untouched, Fed
<1>7. ASSUME NEW t \in Thread, k.waitList[t] # NULL, Given(k', t)
      PROVE  Given(s.kernel, t)
  <2>1. k.state[t] = "BLOCKED"
    BY <1>7 DEF IInv, ApplicationInv
  <2>2. ~Steady(t)
    BY <1>7, <2>1 DEF Steady, Same, Given
  <2>. QED BY <1>3, <1>4, <2>2 DEF Untouched, Fed
<1>. QED
  BY <1>2, <1>3, <1>4, <1>5, <1>6, <1>7

----------------------------------------------------------------------------
\* The invariant.

LEMMA InitIInv == Init => IInv
BY ApplicationInitInv DEF Init, IInv, Flags, Waits, NoWait

LEMMA NextIInv == IInv /\ [Next]_vars => IInv'
<1>. SUFFICES ASSUME IInv, [Next]_vars PROVE IInv'
  OBVIOUS
<1>0. /\ ApplicationInv(Object) /\ KernelInv(k) /\ flags \in Flags /\ wait \in Waits
      /\ \A t \in Thread : k.waitList[t] # NULL => osEventMatch(flags, wait[t]) = {}
      /\ event \in Object /\ event # NULL
  BY EventAssumption, KernelAssumption DEF IInv, ApplicationInv
<1>. PICK task \in Thread : task = k.current
  BY <1>0 DEF KernelInv, Lists, KernelState
<1>1. ASSUME flags' \subseteq flags, ApplicationInv(Object)', wait' \in Waits,
             \A t \in Thread :
               k'.waitList[t] # NULL => k.waitList[t] # NULL /\ wait'[t] = wait[t]
      PROVE  IInv'
  <2>1. \A t \in Thread : k'.waitList[t] # NULL => osEventMatch(flags', wait'[t]) = {}
    BY <1>0, <1>1, MatchMonotone
  <2>. QED BY <1>0, <1>1, <2>1 DEF IInv, Flags
<1>2. ASSUME NEW r \in Request, WaitAtOnce(r)
      PROVE  IInv'
  <2>1. flags' \subseteq flags /\ k' = k /\ running' = running /\ call' = call /\ wait' = wait
    BY <1>2 DEF WaitAtOnce, Left
  <2>2. ApplicationInv(Object)'
    BY <1>0, <2>1 DEF ApplicationInv
  <2>. QED BY <1>0, <1>1, <2>1, <2>2
<1>3. ASSUME NEW r \in Request, NEW n \in Timeout, WaitBlocks(r, n)
      PROVE  IInv'
  <2>1. /\ ~Returning /\ osEventMatch(flags, r) = {} /\ task # osIdleTask
        /\ wait' = [wait EXCEPT ![task] = r] /\ flags' = flags
        /\ Blocks(k, event, n, event) /\ n \in OsTick
    BY <1>3, ApplicationAssumption DEF WaitBlocks
  <2>2. /\ ApplicationInv(Object)'
        /\ \A u \in Thread \ {task} : Steady(u)
    BY <1>0, <2>1, BlocksStep
  <2>3. wait' \in Waits
    <3>1. r \in [flags : Flags, options : SUBSET {"ALL", "KEEP"}]
      BY EventAssumption DEF Request, Flags
    <3>. QED BY <1>0, <2>1, <3>1 DEF Waits
  <2>4. \A t \in Thread : k'.waitList[t] # NULL => osEventMatch(flags', wait'[t]) = {}
    <3>1. wait'[task] = r /\ \A u \in Thread \ {task} : wait'[u] = wait[u]
      BY <1>0, <2>1 DEF Waits
    <3>. QED BY <1>0, <2>1, <2>2, <3>1 DEF Steady, Same
  <2>. QED BY <1>0, <2>1, <2>2, <2>3, <2>4 DEF IInv
<1>4. CASE WaitReturns
  <2>1. Returns(k) /\ wait' = [wait EXCEPT ![task] = NoWait] /\ flags' = flags
    BY <1>4 DEF WaitReturns
  <2>2. /\ ApplicationInv(Object)' /\ k.state[task] = "RUNNING"
        /\ \A t \in Thread : Same(k', k, t)
    <3>1. Unaffected(k, k)
      BY DEF Unaffected, Same
    <3>. QED BY <1>0, <2>1, <3>1, ReturnsStep
  <2>3. k.waitList[task] = NULL
    BY <1>0, <2>2 DEF ApplicationInv
  <2>4. wait' \in Waits /\ \A u \in Thread \ {task} : wait'[u] = wait[u]
    BY <1>0, <2>1 DEF Waits, NoWait, Flags
  <2>. QED BY <1>1, <2>1, <2>2, <2>3, <2>4 DEF Same
<1>5. ASSUME NEW set \in SUBSET EventFlag, Set(set)
      PROVE  IInv'
  <2>1. /\ ApplicationInv(Object)' /\ flags' \in Flags /\ wait' \in Waits
        /\ \A t \in Thread :
             \/ /\ Steady(t) /\ wait'[t] = wait[t]
                /\ k.waitList[t] # NULL => osEventMatch(flags', wait[t]) = {}
             \/ k'.waitList[t] = NULL
    BY <1>5, SetStep DEF Given
  <2>. QED BY <2>1 DEF IInv, Steady, Same
<1>6. ASSUME NEW set \in SUBSET EventFlag, Clear(set)
      PROVE  IInv'
  <2>1. flags' \subseteq flags /\ k' = k /\ running' = running /\ call' = call /\ wait' = wait
    BY <1>6 DEF Clear
  <2>2. ApplicationInv(Object)'
    BY <1>0, <2>1 DEF ApplicationInv
  <2>. QED BY <1>0, <1>1, <2>1, <2>2
<1>7. CASE Other
  <2>1. /\ ApplicationNext /\ flags' = flags
        /\ wait' = [t \in Thread |-> IF k'.state[t] = "DEAD" THEN NoWait ELSE wait[t]]
    BY <1>7 DEF Other
  <2>2. ApplicationInv(Object)' /\ ApplicationEffect
    BY <1>0, <2>1, ApplicationStep
  <2>3. wait' \in Waits
    BY <1>0, <2>1 DEF Waits, NoWait, Flags
  <2>4. ASSUME NEW t \in Thread, k'.waitList[t] # NULL
        PROVE  k.waitList[t] # NULL /\ wait'[t] = wait[t]
    <3>1. Steady(t) \/ Fails(t) \/ Delayed(t) \/ Dies(t)
      BY <2>2 DEF ApplicationEffect
    <3>2. k.waitList[t] # NULL
      BY <2>4, <3>1 DEF Steady, Fails, Delayed, Dies, Same, InVain
    <3>3. k'.state[t] # "DEAD"
      BY <2>2, <2>4 DEF ApplicationInv
    <3>. QED BY <2>1, <3>2, <3>3
  <2>. QED BY <1>1, <2>1, <2>2, <2>3, <2>4
<1>8. CASE UNCHANGED vars
  BY <1>8 DEF vars, IInv, ApplicationInv
<1>. QED
  BY <1>2, <1>3, <1>4, <1>5, <1>6, <1>7, <1>8 DEF Next

\* In every state nobody waits for flags that satisfy its request already: a
\* call that sets flags serves everybody they satisfy (event.c).
THEOREM EventInvariant == Spec => []IInv
BY InitIInv, NextIInv, PTL DEF Spec

(***************************************************************************)
(* The kernel stays in order under event.c, and so do the flags a task     *)
(* waits for and those it got, which share one field.                      *)
(***************************************************************************)
THEOREM EventTypeCorrect == Spec => []TypeOK
<1>1. IInv => TypeOK
  BY DEF IInv, ApplicationInv, KernelInv, Lists, TypeOK, ApplicationTypeOK, Waits, Flags
<1>. QED
  BY <1>1, EventInvariant, PTL

(***************************************************************************)
(* Nobody keeps waiting for flags that are set: the walk of one call over  *)
(* a list it takes tasks off passes nobody who could be served with what   *)
(* those before have left, and nothing is left that satisfies somebody it  *)
(* has passed (event.c:74-90).                                             *)
(***************************************************************************)
THEOREM NobodyIsOverlooked == Spec => []NobodyOverlooked
<1>1. IInv => NobodyOverlooked
  <2>. SUFFICES ASSUME IInv, NEW t \in ToSet(k.waiters[event])
                PROVE  osEventMatch(flags, wait[t]) = {}
    BY DEF NobodyOverlooked
  <2>1. t \in Thread /\ k.waitList[t] = event /\ event # NULL
    BY EventAssumption, KernelAssumption
       DEF IInv, ApplicationInv, KernelInv, Lists, WaitListsExact
  <2>. QED BY <2>1 DEF IInv
<1>. QED
  BY <1>1, EventInvariant, PTL

(***************************************************************************)
(* "the most important tasks are served first, flags taken by them are     *)
(* gone" (event.c:73), for every number of tasks woken up by one call.     *)
(***************************************************************************)
THEOREM FlagsAreTakenOnce == Spec => FlagsTakenOnce
<1>. DEFINE Once ==
       \A t \in Task : Granted(t) =>
         /\ wait'[t].flags # {} /\ wait'[t].flags \subseteq wait[t].flags
         /\ "ALL" \in wait[t].options => wait'[t].flags = wait[t].flags
         /\ "KEEP" \notin wait[t].options =>
              /\ wait'[t].flags \cap flags' = {}
              /\ \A u \in Task : Granted(u) /\ Ahead(k.waiters[event], t, u)
                   => wait'[t].flags \cap wait'[u].flags = {}
<1>1. IInv /\ [Next]_vars => [Once]_vars
  <2>. SUFFICES ASSUME IInv, [Next]_vars PROVE [Once]_vars
    OBVIOUS
  <2>0. /\ ApplicationInv(Object) /\ KernelInv(k) /\ event \in Object /\ event # NULL
        /\ \A t \in Task : t \in Thread
    BY EventAssumption, KernelAssumption DEF IInv, ApplicationInv, Thread
  <2>. PICK task \in Thread : task = k.current
    BY <2>0 DEF KernelInv, Lists, KernelState
  <2>1. ASSUME NEW t \in Thread, Steady(t) \/ Fails(t) \/ Delayed(t) \/ Dies(t)
        PROVE  ~Granted(t)
    BY <2>1 DEF Granted, Woken, Steady, Fails, Delayed, Dies, Same, InVain
  <2>2. ASSUME \A t \in Thread : ~Granted(t)
        PROVE  Once
    BY <2>0, <2>2
  <2>3. ASSUME k' = k, call' = call
        PROVE  Once
    <3>1. \A t \in Thread : Steady(t)
      BY <2>3 DEF Steady, Same
    <3>. HIDE DEF Once
    <3>. QED BY <2>1, <2>2, <3>1
  <2>4. ASSUME NEW r \in Request, NEW n \in Timeout, WaitBlocks(r, n)
        PROVE  Once
    <3>1. /\ ~Returning /\ task # osIdleTask
          /\ Blocks(k, event, n, event) /\ n \in OsTick
      BY <2>4, ApplicationAssumption DEF WaitBlocks
    <3>2. k'.state[task] = "BLOCKED" /\ \A u \in Thread \ {task} : Steady(u)
      BY <2>0, <3>1, BlocksStep
    <3>3. ~Granted(task)
      BY <3>2 DEF Granted, Woken
    <3>. HIDE DEF Once
    <3>. QED BY <2>1, <2>2, <3>2, <3>3
  <2>5. CASE WaitReturns
    <3>1. \A t \in Thread : Same(k', k, t)
      <4>1. Returns(k)
        BY <2>5 DEF WaitReturns
      <4>2. Unaffected(k, k)
        BY DEF Unaffected, Same
      <4>. QED BY <2>0, <4>1, <4>2, ReturnsStep
    <3>2. \A t \in Thread : ~Granted(t)
      BY <3>1 DEF Granted, Woken, Same
    <3>. HIDE DEF Once
    <3>. QED BY <2>2, <3>2
  <2>6. ASSUME NEW set \in SUBSET EventFlag, Set(set)
        PROVE  Once
    <3>1. /\ \A t \in Thread :
               \/ Steady(t)
               \/ /\ k.waitList[t] # NULL /\ Given(k', t)
                  /\ wait'[t].flags # {} /\ wait'[t].flags \subseteq wait[t].flags
                  /\ "ALL" \in wait[t].options => wait'[t].flags = wait[t].flags
                  /\ "KEEP" \notin wait[t].options => wait'[t].flags \cap flags' = {}
          /\ \A t, u \in Thread :
               /\ Ahead(k.waiters[event], t, u) /\ "KEEP" \notin wait[t].options
               /\ Given(k', t) /\ Given(k', u) /\ k.waitList[t] # NULL /\ k.waitList[u] # NULL
               => wait'[t].flags \cap wait'[u].flags = {}
      BY <2>6, SetStep
    <3>2. \A t \in Thread : Granted(t) => ~Steady(t)
      BY <2>1
    <3>. QED BY <2>0, <3>1, <3>2
  <2>7. CASE Other
    <3>1. ApplicationEffect
      BY <2>0, <2>7, ApplicationStep DEF Other
    <3>2. \A t \in Thread : ~Granted(t)
      BY <2>1, <3>1 DEF ApplicationEffect
    <3>. HIDE DEF Once
    <3>. QED BY <2>2, <3>2
  <2>. HIDE DEF Once
  <2>8. CASE Next
    <3>1. ASSUME NEW r \in Request, WaitAtOnce(r) PROVE Once
      BY <2>3, <3>1 DEF WaitAtOnce
    <3>2. ASSUME NEW set \in SUBSET EventFlag, Clear(set) PROVE Once
      BY <2>3, <3>2 DEF Clear
    <3>. QED BY <2>4, <2>5, <2>6, <2>7, <2>8, <3>1, <3>2 DEF Next
  <2>. QED BY <2>8
<1>. QED
  BY <1>1, EventInvariant, PTL DEF Spec, FlagsTakenOnce
=============================================================================
