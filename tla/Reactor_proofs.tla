--------------------------- MODULE Reactor_proofs ---------------------------
(***************************************************************************)
(* Proofs about the reactor's loop and job queue.  All that matters of     *)
(* the list of jobs is what is in it and what is before what, so a first   *)
(* part says how prepending, removing and taking the head change these     *)
(* two; the rest never looks at a position of the list again.              *)
(***************************************************************************)
EXTENDS Reactor, SequenceTheorems, FiniteSetTheorems, WellFoundedInduction, TLAPS

-----------------------------------------------------------------------------
(* Lists without repetition. *)

In(list, x) == \E a \in 1..Len(list) : list[a] = x
Before(list, x, y) == \E a, b \in 1..Len(list) : a < b /\ list[a] = x /\ list[b] = y
Once(list) == \A a, b \in 1..Len(list) : list[a] = list[b] => a = b
Lists(S) == {list \in Seq(S) : Once(list)}

\* r is the list without x, with x in front, and without its head.
LessOne(r, list, x) ==
  /\ \A y : In(r, y) <=> In(list, y) /\ y # x
  /\ \A y, z : Before(r, y, z) <=> Before(list, y, z) /\ y # x /\ z # x

WithFirst(r, list, x) ==
  /\ \A y : In(r, y) <=> y = x \/ In(list, y)
  /\ \A y, z : Before(r, y, z) <=> z # x /\ (IF y = x THEN In(list, z) ELSE Before(list, y, z))

\* The place in the list of the k-th element once the i-th is gone.
Was(i, k) == IF k < i THEN k ELSE k + 1

LEMMA WasFacts ==
  ASSUME NEW n \in Nat, NEW i \in 1..n
  PROVE  /\ \A k \in 1..(n - 1) : Was(i, k) \in 1..n /\ Was(i, k) # i
         /\ \A k, l \in 1..(n - 1) : (Was(i, k) = Was(i, l) => k = l) /\ (Was(i, k) < Was(i, l) <=> k < l)
         /\ \A m \in 1..n : m # i => \E k \in 1..(n - 1) : Was(i, k) = m
  <1>1. ASSUME NEW m \in 1..n, m # i PROVE \E k \in 1..(n - 1) : Was(i, k) = m
    <2>1. CASE m < i
      BY <2>1 DEF Was
    <2>2. CASE ~(m < i)
      <3>1. m - 1 \in 1..(n - 1) /\ Was(i, m - 1) = m
        BY <1>1, <2>2 DEF Was
      <3> QED
        BY <3>1
    <2> QED
      BY <2>1, <2>2
  <1> QED
    BY <1>1 DEF Was

LEMMA RemoveAtFacts ==
  ASSUME NEW S, NEW list \in Seq(S), NEW i \in 1..Len(list),
         NEW r, r = SubSeq(list, 1, i - 1) \o SubSeq(list, i + 1, Len(list))
  PROVE  /\ r \in Seq(S) /\ Len(r) = Len(list) - 1 /\ Len(list) \in Nat
         /\ \A k \in 1..(Len(list) - 1) : r[k] = list[Was(i, k)]
  <1> DEFINE f == SubSeq(list, 1, i - 1)
             g == SubSeq(list, i + 1, Len(list))
  <1>1. /\ f \in Seq(S) /\ Len(f) = i - 1 /\ \A k \in 1..(i - 1) : f[k] = list[k]
        /\ Len(list) \in Nat
    OBVIOUS
  <1>2. g \in Seq(S) /\ Len(g) = Len(list) - i /\ \A k \in 1..(Len(list) - i) : g[k] = list[i + k]
    OBVIOUS
  <1>3. r = f \o g
    OBVIOUS
  <1> HIDE DEF f, g
  <1>4. /\ r \in Seq(S) /\ Len(r) = Len(list) - 1
        /\ \A k \in 1..(Len(list) - 1) : r[k] = IF k <= i - 1 THEN f[k] ELSE g[k - (i - 1)]
    <2>1. /\ f \o g \in Seq(S) /\ Len(f \o g) = Len(f) + Len(g)
          /\ \A k \in 1..(Len(f) + Len(g)) : (f \o g)[k] = IF k <= Len(f) THEN f[k] ELSE g[k - Len(f)]
      BY <1>1, <1>2, ConcatProperties, Zenon
    <2>2. Len(f) + Len(g) = Len(list) - 1 /\ Len(f) = i - 1
      BY <1>1, <1>2
    <2> QED
      BY <1>3, <2>1, <2>2
  <1>5. ASSUME NEW k \in 1..(Len(list) - 1) PROVE r[k] = list[Was(i, k)]
    <2>1. CASE k < i
      <3>1. k \in 1..(i - 1) /\ k <= i - 1
        BY <1>1, <2>1
      <3> QED
        BY <1>1, <1>4, <2>1, <3>1 DEF Was
    <2>2. CASE ~(k < i)
      <3>1. k - (i - 1) \in 1..(Len(list) - i) /\ i + (k - (i - 1)) = k + 1 /\ ~(k <= i - 1)
        BY <1>1, <2>2
      <3> QED
        BY <1>2, <1>4, <2>2, <3>1 DEF Was
    <2> QED
      BY <2>1, <2>2
  <1> QED
    BY <1>1, <1>4, <1>5

LEMMA RemoveFirstIs ==
  ASSUME NEW S, NEW list \in Lists(S), NEW i \in 1..Len(list)
  PROVE  RemoveFirst(list, list[i]) = SubSeq(list, 1, i - 1) \o SubSeq(list, i + 1, Len(list))
  <1>1. {k \in 1..Len(list) : list[k] = list[i]} = {i}
    BY DEF Lists, Once
  <1>2. RemoveFirst(list, list[i]) = RemoveAt(list, Min({k \in 1..Len(list) : list[k] = list[i]}))
    BY <1>1 DEF RemoveFirst, SelectInSeq
  <1>3. Min({i}) = i
    BY DEF Min
  <1> QED
    BY <1>1, <1>2, <1>3 DEF RemoveAt

\* Removing the i-th of a list.
LEMMA RemovedOne ==
  ASSUME NEW S, NEW list \in Lists(S), NEW i \in 1..Len(list)
  PROVE  LET r == SubSeq(list, 1, i - 1) \o SubSeq(list, i + 1, Len(list))
         IN r \in Lists(S) /\ LessOne(r, list, list[i])
  <1>1. PICK r : r = SubSeq(list, 1, i - 1) \o SubSeq(list, i + 1, Len(list))
    OBVIOUS
  <1>2. list \in Seq(S) /\ Once(list)
    BY DEF Lists
  <1>3. /\ r \in Seq(S) /\ Len(r) = Len(list) - 1 /\ Len(list) \in Nat
        /\ \A k \in 1..(Len(list) - 1) : r[k] = list[Was(i, k)]
    BY <1>1, <1>2, RemoveAtFacts
  <1>4. /\ \A k \in 1..(Len(list) - 1) : Was(i, k) \in 1..Len(list) /\ Was(i, k) # i
        /\ \A k, l \in 1..(Len(list) - 1) :
             (Was(i, k) = Was(i, l) => k = l) /\ (Was(i, k) < Was(i, l) <=> k < l)
        /\ \A m \in 1..Len(list) : m # i => \E k \in 1..(Len(list) - 1) : Was(i, k) = m
    BY <1>3, WasFacts
  <1>5. Once(r)
    BY <1>2, <1>3, <1>4 DEF Once
  <1>6. ASSUME NEW y PROVE In(r, y) <=> In(list, y) /\ y # list[i]
    <2>1. ASSUME In(r, y) PROVE In(list, y) /\ y # list[i]
      BY <1>2, <1>3, <1>4, <2>1 DEF In, Once
    <2>2. ASSUME In(list, y), y # list[i] PROVE In(r, y)
      BY <1>3, <1>4, <2>2 DEF In
    <2> QED
      BY <2>1, <2>2
  <1>7. ASSUME NEW y, NEW z
        PROVE  Before(r, y, z) <=> Before(list, y, z) /\ y # list[i] /\ z # list[i]
    <2>1. ASSUME Before(r, y, z) PROVE Before(list, y, z) /\ y # list[i] /\ z # list[i]
      <3>1. PICK a, b \in 1..(Len(list) - 1) : a < b /\ r[a] = y /\ r[b] = z
        BY <1>3, <2>1 DEF Before
      <3>2. /\ Was(i, a) \in 1..Len(list) /\ Was(i, b) \in 1..Len(list) /\ Was(i, a) < Was(i, b)
            /\ list[Was(i, a)] = y /\ list[Was(i, b)] = z /\ Was(i, a) # i /\ Was(i, b) # i
        BY <1>3, <1>4, <3>1
      <3> QED
        BY <1>2, <3>2 DEF Before, Once
    <2>2. ASSUME Before(list, y, z), y # list[i], z # list[i] PROVE Before(r, y, z)
      <3>1. PICK a, b \in 1..Len(list) : a < b /\ list[a] = y /\ list[b] = z
        BY <2>2 DEF Before
      <3>2. a # i /\ b # i
        BY <2>2, <3>1
      <3>3. PICK k, l \in 1..(Len(list) - 1) : Was(i, k) = a /\ Was(i, l) = b
        BY <1>4, <3>2
      <3>4. k < l /\ r[k] = y /\ r[l] = z
        BY <1>3, <1>4, <3>1, <3>3
      <3> QED
        BY <1>3, <3>4 DEF Before
    <2> QED
      BY <2>1, <2>2
  <1>8. r \in Lists(S) /\ LessOne(r, list, list[i])
    BY <1>3, <1>5, <1>6, <1>7 DEF Lists, LessOne
  <1> QED
    BY <1>1, <1>8

LEMMA RemoveFacts ==
  ASSUME NEW S, NEW list \in Lists(S), NEW x
  PROVE  RemoveFirst(list, x) \in Lists(S) /\ LessOne(RemoveFirst(list, x), list, x)
  <1>1. CASE In(list, x)
    <2>1. PICK i \in 1..Len(list) : list[i] = x
      BY <1>1 DEF In
    <2> QED
      BY <2>1, RemoveFirstIs, RemovedOne
  <1>2. CASE ~In(list, x)
    <2>1. RemoveFirst(list, x) = list
      BY <1>2 DEF RemoveFirst, In
    <2>2. LessOne(list, list, x)
      BY <1>2 DEF LessOne, In, Before
    <2> QED
      BY <2>1, <2>2
  <1> QED
    BY <1>1, <1>2

LEMMA PrependFacts ==
  ASSUME NEW S, NEW list \in Lists(S), NEW x \in S, ~In(list, x)
  PROVE  <<x>> \o list \in Lists(S) /\ WithFirst(<<x>> \o list, list, x)
  <1>1. PICK r : r = <<x>> \o list
    OBVIOUS
  <1>2. list \in Seq(S) /\ Once(list) /\ Len(list) \in Nat
    BY DEF Lists
  <1>3. r \in Seq(S) /\ Len(r) = Len(list) + 1 /\ r[1] = x /\ \A k \in 1..Len(list) : r[k + 1] = list[k]
    BY <1>1, <1>2
  <1>4. \A k \in 1..(Len(list) + 1) : k # 1 => k - 1 \in 1..Len(list) /\ r[k] = list[k - 1]
    <2> TAKE k \in 1..(Len(list) + 1)
    <2> HAVE k # 1
    <2>1. k - 1 \in 1..Len(list) /\ (k - 1) + 1 = k
      BY <1>2
    <2> QED
      BY <1>3, <2>1
  <1>5. Once(r)
    <2> SUFFICES ASSUME NEW a \in 1..(Len(list) + 1), NEW b \in 1..(Len(list) + 1), r[a] = r[b]
                 PROVE  a = b
      BY <1>3 DEF Once
    <2>1. a = 1 <=> b = 1
      BY <1>3, <1>4 DEF In
    <2>2. CASE a # 1 /\ b # 1
      <3>1. a - 1 = b - 1
        BY <1>2, <1>4, <2>2 DEF Once
      <3> QED
        BY <1>2, <3>1
    <2> QED
      BY <2>1, <2>2
  <1>6. ASSUME NEW y PROVE In(r, y) <=> y = x \/ In(list, y)
    <2>1. ASSUME In(r, y) PROVE y = x \/ In(list, y)
      BY <1>2, <1>3, <1>4, <2>1 DEF In
    <2>2. In(r, x)
      BY <1>2, <1>3 DEF In
    <2>3. ASSUME In(list, y) PROVE In(r, y)
      <3>1. PICK k \in 1..Len(list) : list[k] = y
        BY <2>3 DEF In
      <3>2. k + 1 \in 1..(Len(list) + 1)
        BY <1>2
      <3> QED
        BY <1>3, <3>1, <3>2 DEF In
    <2> QED
      BY <2>1, <2>2, <2>3
  <1>7. ASSUME NEW y, NEW z
        PROVE  Before(r, y, z) <=> z # x /\ (IF y = x THEN In(list, z) ELSE Before(list, y, z))
    <2>1. ASSUME Before(r, y, z)
          PROVE  z # x /\ (IF y = x THEN In(list, z) ELSE Before(list, y, z))
      <3>1. PICK a, b \in 1..(Len(list) + 1) : a < b /\ r[a] = y /\ r[b] = z
        BY <1>3, <2>1 DEF Before
      <3>2. b # 1 /\ b - 1 \in 1..Len(list) /\ list[b - 1] = z
        BY <1>2, <1>4, <3>1
      <3>3. z # x /\ In(list, z)
        BY <3>2 DEF In
      <3>4. CASE a = 1
        BY <1>3, <3>1, <3>3, <3>4
      <3>5. CASE a # 1
        <4>1. a - 1 \in 1..Len(list) /\ list[a - 1] = y /\ a - 1 < b - 1
          BY <1>2, <1>4, <3>1, <3>5
        <4>2. Before(list, y, z) /\ In(list, y)
          BY <3>2, <4>1 DEF Before, In
        <4> QED
          BY <3>3, <4>2
      <3> QED
        BY <3>4, <3>5
    <2>2. ASSUME z # x, y = x, In(list, z) PROVE Before(r, y, z)
      <3>1. PICK k \in 1..Len(list) : list[k] = z
        BY <2>2 DEF In
      <3>2. k + 1 \in 1..(Len(list) + 1) /\ 1 \in 1..(Len(list) + 1) /\ 1 < k + 1
        BY <1>2
      <3> QED
        BY <1>3, <2>2, <3>1, <3>2 DEF Before
    <2>3. ASSUME y # x, Before(list, y, z) PROVE Before(r, y, z)
      <3>1. PICK a, b \in 1..Len(list) : a < b /\ list[a] = y /\ list[b] = z
        BY <2>3 DEF Before
      <3>2. a + 1 \in 1..(Len(list) + 1) /\ b + 1 \in 1..(Len(list) + 1) /\ a + 1 < b + 1
        BY <1>2, <3>1
      <3> QED
        BY <1>3, <3>1, <3>2 DEF Before
    <2> QED
      BY <2>1, <2>2, <2>3
  <1>8. r \in Lists(S) /\ WithFirst(r, list, x)
    BY <1>3, <1>5, <1>6, <1>7 DEF Lists, WithFirst
  <1> QED
    BY <1>1, <1>8

LEMMA TailFacts ==
  ASSUME NEW S, NEW list \in Lists(S), list # <<>>
  PROVE  /\ Tail(list) \in Lists(S) /\ LessOne(Tail(list), list, Head(list))
         /\ In(list, Head(list)) /\ \A y : ~Before(list, y, Head(list))
         /\ \A y : In(list, y) /\ y # Head(list) => Before(list, Head(list), y)
  <1>1. list \in Seq(S) /\ Once(list) /\ Len(list) \in Nat /\ 1 \in 1..Len(list) /\ list[1] = Head(list)
    BY DEF Lists
  <1>2. Tail(list) = SubSeq(list, 1, 1 - 1) \o SubSeq(list, 1 + 1, Len(list))
    BY <1>1
  <1>3. Tail(list) \in Lists(S) /\ LessOne(Tail(list), list, Head(list))
    BY <1>1, <1>2, RemovedOne
  <1> QED
    BY <1>1, <1>3 DEF In, Before, Once
LEMMA PrependedFacts ==
  ASSUME NEW S, NEW list \in Lists(S), NEW x \in S
  PROVE  Prepended(x, list) \in Lists(S) /\ WithFirst(Prepended(x, list), list, x)
  <1> DEFINE r == RemoveFirst(list, x)
  <1>1. r \in Lists(S) /\ LessOne(r, list, x)
    BY RemoveFacts
  <1> HIDE DEF r
  <1>2. ~In(r, x)
    BY <1>1 DEF LessOne
  <1>3. <<x>> \o r \in Lists(S) /\ WithFirst(<<x>> \o r, r, x)
    BY <1>1, <1>2, PrependFacts
  <1>4. Prepended(x, list) = <<x>> \o r
    BY DEF Prepended, r
  <1>5. WithFirst(<<x>> \o r, list, x)
    BY <1>1, <1>3, Zenon DEF WithFirst, LessOne
  <1> QED
    BY <1>3, <1>4, <1>5

-----------------------------------------------------------------------------
(* The handlers that are running and the list of jobs. *)

\* Only the innermost handler is not in BReactor_Synchronize.
Waits(st) ==
  \A i \in 1..Len(st) :
    /\ st[i].waiting => st[i].mark # None /\ i < MaxDepth
    /\ i < Len(st) => st[i].waiting
    /\ st[i].runs \notin Marks

MarksIn(list, st) == \A m \in Marks : In(list, m) <=> \E i \in 1..Len(st) : st[i].mark = m

MarksOrdered(list, st) ==
  \A i, k \in 1..Len(st) :
    i < k /\ st[i].mark # None /\ st[k].mark # None => Before(list, st[k].mark, st[i].mark)

SinceBefore(list, st) ==
  \A i \in 1..Len(st) : st[i].mark # None =>
    \A j \in Jobs : j \in st[i].since <=> Before(list, j, st[i].mark)

Marking(list, st) == MarksIn(list, st) /\ MarksOrdered(list, st) /\ SinceBefore(list, st)

QueueTypes ==
  /\ alive \subseteq Jobs /\ exiting \in BOOLEAN
  /\ jobs \in Lists(Jobs \union Marks) /\ stack \in Seq(Frame)

QInv ==
  /\ QueueTypes
  /\ \A j \in Jobs : In(jobs, j) => j \in alive
  /\ Waits(stack) /\ Marking(jobs, stack)

\* What happens to the handlers: st1 is st but for what they remember, ...
Alike(st1, st) ==
  /\ st1 \in Seq(Frame) /\ Len(st1) = Len(st)
  /\ \A i \in 1..Len(st) :
       st1[i].mark = st[i].mark /\ st1[i].waiting = st[i].waiting /\ st1[i].runs = st[i].runs

IsRemembered(st1, st, j) ==
  /\ Alike(st1, st)
  /\ \A i \in 1..Len(st) : st[i].mark # None => st1[i].since = st[i].since \union {j}

IsForgotten(st1, st, j) ==
  /\ Alike(st1, st)
  /\ \A i \in 1..Len(st) : st1[i].since = st[i].since \ {j}

\* ... or only the innermost differs, or there is one more, or one less.
SameBelow(st1, st) ==
  /\ st1 \in Seq(Frame) /\ Len(st1) = Len(st)
  /\ \A i \in 1..Len(st) : i # Len(st) => st1[i] = st[i]

IsPushed(st1, st, frame) ==
  /\ st1 \in Seq(Frame) /\ Len(st1) = Len(st) + 1
  /\ (\A i \in 1..Len(st) : st1[i] = st[i]) /\ st1[Len(st) + 1] = frame

LEMMA FrameFields ==
  ASSUME NEW f \in Frame
  PROVE  /\ f.runs \in Jobs \union {Event} /\ f.mark \in Marks \union {None}
         /\ f.waiting \in BOOLEAN /\ f.since \in SUBSET Jobs
  BY DEF Frame

LEMMA RunningFacts ==
  ASSUME NEW j \in Jobs \union {Event}
  PROVE  /\ Running(j) \in Frame /\ Running(j).runs = j /\ Running(j).mark = None
         /\ Running(j).waiting = FALSE /\ Running(j).since = {}
  BY DEF Running, Frame

LEMMA RememberFacts ==
  ASSUME NEW st \in Seq(Frame), NEW j \in Jobs
  PROVE  IsRemembered(Remember(st, j), st, j)
  <1> DEFINE F(i) == IF st[i].mark # None THEN [st[i] EXCEPT !.since = @ \union {j}] ELSE st[i]
  <1>1. Remember(st, j) = [i \in 1..Len(st) |-> F(i)] /\ Len(st) \in Nat
    BY DEF Remember
  <1>2. ASSUME NEW i \in 1..Len(st)
        PROVE  /\ F(i) \in Frame
               /\ F(i).mark = st[i].mark /\ F(i).waiting = st[i].waiting /\ F(i).runs = st[i].runs
               /\ st[i].mark # None => F(i).since = st[i].since \union {j}
    <2>1. st[i] \in Frame
      OBVIOUS
    <2>2. CASE st[i].mark # None
      <3>1. F(i) = [st[i] EXCEPT !.since = @ \union {j}]
        BY <2>2
      <3> QED
        BY <2>1, <3>1 DEF Frame
    <2>3. CASE st[i].mark = None
      BY <2>1, <2>3
    <2> QED
      BY <2>2, <2>3
  <1> HIDE DEF F
  <1>3. Remember(st, j) \in Seq(Frame) /\ Len(Remember(st, j)) = Len(st)
    BY <1>1, <1>2
  <1>4. \A i \in 1..Len(st) : Remember(st, j)[i] = F(i)
    BY <1>1
  <1> QED
    BY <1>2, <1>3, <1>4 DEF IsRemembered, Alike

LEMMA ForgetFacts ==
  ASSUME NEW st \in Seq(Frame), NEW j
  PROVE  IsForgotten(Forget(st, j), st, j)
  <1> DEFINE F(i) == [st[i] EXCEPT !.since = @ \ {j}]
  <1>1. Forget(st, j) = [i \in 1..Len(st) |-> F(i)] /\ Len(st) \in Nat
    BY DEF Forget
  <1>2. ASSUME NEW i \in 1..Len(st)
        PROVE  /\ F(i) \in Frame
               /\ F(i).mark = st[i].mark /\ F(i).waiting = st[i].waiting /\ F(i).runs = st[i].runs
               /\ F(i).since = st[i].since \ {j}
    <2>1. st[i] \in Frame
      OBVIOUS
    <2> QED
      BY <2>1 DEF Frame
  <1> HIDE DEF F
  <1>3. Forget(st, j) \in Seq(Frame) /\ Len(Forget(st, j)) = Len(st)
    BY <1>1, <1>2
  <1>4. \A i \in 1..Len(st) : Forget(st, j)[i] = F(i)
    BY <1>1
  <1> QED
    BY <1>2, <1>3, <1>4 DEF IsForgotten, Alike

LEMMA PushFacts ==
  ASSUME NEW st \in Seq(Frame), NEW f \in Frame
  PROVE  IsPushed(st \o <<f>>, st, f)
  BY DEF IsPushed

LEMMA AlikeWaits ==
  ASSUME NEW st, NEW st1, Alike(st1, st), Waits(st)
  PROVE  Waits(st1)
  BY DEF Alike, Waits

\* A job is set: it comes before every mark.
LEMMA SetMarking ==
  ASSUME NEW list, NEW list1, NEW st, NEW st1, NEW j \in Jobs, Marking(list, st),
         st \in Seq(Frame), WithFirst(list1, list, j), IsRemembered(st1, st, j)
  PROVE  Marking(list1, st1)
  <1>1. \A m \in Marks : m # j
    BY BPendingAssumption
  <1>2. \A i \in 1..Len(st) : st[i].mark \in Marks \union {None}
    BY FrameFields
  <1>3. MarksIn(list1, st1)
    BY <1>1 DEF Marking, MarksIn, WithFirst, IsRemembered, Alike
  <1>4. MarksOrdered(list1, st1)
    BY <1>1, <1>2 DEF Marking, MarksOrdered, WithFirst, IsRemembered, Alike
  <1>5. ASSUME NEW i \in 1..Len(st), st[i].mark # None, NEW k \in Jobs
        PROVE  k \in st1[i].since <=> Before(list1, k, st1[i].mark)
    <2>1. st[i].mark \in Marks /\ st[i].mark # j /\ In(list, st[i].mark)
      BY <1>1, <1>2, <1>5 DEF Marking, MarksIn
    <2>2. st1[i].since = st[i].since \union {j} /\ st1[i].mark = st[i].mark
      BY <1>5 DEF IsRemembered, Alike
    <2>3. k \in st[i].since <=> Before(list, k, st[i].mark)
      BY <1>5 DEF Marking, SinceBefore
    <2> QED
      BY <2>1, <2>2, <2>3 DEF WithFirst
  <1>6. SinceBefore(list1, st1)
    BY <1>5 DEF SinceBefore, IsRemembered, Alike
  <1> QED
    BY <1>3, <1>4, <1>6 DEF Marking

\* A job is unset, freed, or taken to run.
LEMMA UnsetMarking ==
  ASSUME NEW list, NEW list1, NEW st, NEW st1, NEW j \in Jobs, Marking(list, st),
         st \in Seq(Frame), LessOne(list1, list, j), IsForgotten(st1, st, j)
  PROVE  Marking(list1, st1)
  <1>1. \A m \in Marks : m # j
    BY BPendingAssumption
  <1>2. \A i \in 1..Len(st) : st[i].mark \in Marks \union {None}
    BY FrameFields
  <1>3. MarksIn(list1, st1)
    BY <1>1 DEF Marking, MarksIn, LessOne, IsForgotten, Alike
  <1>4. MarksOrdered(list1, st1)
    BY <1>1, <1>2 DEF Marking, MarksOrdered, LessOne, IsForgotten, Alike
  <1>5. ASSUME NEW i \in 1..Len(st), st[i].mark # None, NEW k \in Jobs
        PROVE  k \in st1[i].since <=> Before(list1, k, st1[i].mark)
    <2>1. st[i].mark # j
      BY <1>1, <1>2, <1>5
    <2>2. st1[i].since = st[i].since \ {j} /\ st1[i].mark = st[i].mark
      BY DEF IsForgotten, Alike
    <2>3. k \in st[i].since <=> Before(list, k, st[i].mark)
      BY <1>5 DEF Marking, SinceBefore
    <2> QED
      BY <2>1, <2>2, <2>3 DEF LessOne
  <1>6. SinceBefore(list1, st1)
    BY <1>5 DEF SinceBefore, IsForgotten, Alike
  <1> QED
    BY <1>3, <1>4, <1>6 DEF Marking

\* A handler without a mark comes on top, or the one on top, without a mark, returns.
LEMMA PushMarking ==
  ASSUME NEW list, NEW st, NEW st1, NEW f, Marking(list, st), st \in Seq(Frame),
         IsPushed(st1, st, f), f.mark = None
  PROVE  Marking(list, st1)
  <1>1. /\ Len(st) \in Nat /\ Len(st1) = Len(st) + 1
        /\ \A i \in 1..Len(st1) : st1[i].mark # None => i \in 1..Len(st) /\ st1[i] = st[i]
        /\ \A i \in 1..Len(st) : i \in 1..Len(st1) /\ st1[i] = st[i]
    BY DEF IsPushed
  <1>2. \A m \in Marks : m # None
    BY BPendingAssumption
  <1>3. MarksIn(list, st1)
    BY <1>1, <1>2 DEF Marking, MarksIn
  <1>4. MarksOrdered(list, st1)
    BY <1>1 DEF Marking, MarksOrdered
  <1>5. SinceBefore(list, st1)
    BY <1>1 DEF Marking, SinceBefore
  <1> QED
    BY <1>3, <1>4, <1>5 DEF Marking

LEMMA PopMarking ==
  ASSUME NEW list, NEW st, NEW st1, NEW f, Marking(list, st), st1 \in Seq(Frame),
         IsPushed(st, st1, f), f.mark = None
  PROVE  Marking(list, st1)
  <1>1. /\ Len(st1) \in Nat /\ Len(st) = Len(st1) + 1
        /\ \A i \in 1..Len(st) : st[i].mark # None => i \in 1..Len(st1) /\ st1[i] = st[i]
        /\ \A i \in 1..Len(st1) : i \in 1..Len(st) /\ st1[i] = st[i]
    BY DEF IsPushed
  <1>2. \A m \in Marks : m # None
    BY BPendingAssumption
  <1>3. MarksIn(list, st1)
    BY <1>1, <1>2 DEF Marking, MarksIn
  <1>4. MarksOrdered(list, st1)
    BY <1>1 DEF Marking, MarksOrdered
  <1>5. SinceBefore(list, st1)
    BY <1>1 DEF Marking, SinceBefore
  <1> QED
    BY <1>3, <1>4, <1>5 DEF Marking

\* The handler on top gets a mark, which no other has, or gives it up.
LEMMA MarkMarking ==
  ASSUME NEW list, NEW list1, NEW st, NEW st1, NEW m \in Marks, Marking(list, st),
         st \in Seq(Frame), st # <<>>, WithFirst(list1, list, m), SameBelow(st1, st),
         \A i \in 1..Len(st) : st[i].mark # m, st[Len(st)].mark = None,
         st1[Len(st)].mark = m, st1[Len(st)].since = {}
  PROVE  Marking(list1, st1)
  <1> DEFINE n == Len(st)
  <1>1. /\ n \in Nat /\ n \in 1..n /\ Len(st1) = n /\ m # None
        /\ \A i \in 1..n : (i # n => st1[i] = st[i] /\ i < n) /\ st[i].mark \in Marks \union {None}
        /\ \A i \in 1..n : i < n \/ i = n
    BY FrameFields, BPendingAssumption DEF SameBelow
  <1>2. ~In(list, m) /\ \A i \in 1..n : st[i].mark # None => In(list, st[i].mark) /\ st[i].mark # m
    BY <1>1 DEF Marking, MarksIn
  <1>3. st1[n].mark = m /\ st1[n].since = {} /\ st[n].mark = None /\ \A i \in 1..n : st[i].mark # m
    OBVIOUS
  <1> HIDE DEF n
  <1>4. ASSUME NEW a \in Marks PROVE In(list1, a) <=> \E i \in 1..n : st1[i].mark = a
    <2>1. In(list1, a) <=> a = m \/ \E i \in 1..n : st[i].mark = a
      BY DEF Marking, MarksIn, WithFirst, n
    <2>2. a # None
      BY BPendingAssumption
    <2>3. CASE a = m
      BY <1>1, <1>3, <2>1, <2>3
    <2>4. CASE a # m
      BY <1>1, <1>3, <2>1, <2>2, <2>4
    <2> QED
      BY <2>3, <2>4
  <1>5. ASSUME NEW i \in 1..n, NEW k \in 1..n, i < k, st1[i].mark # None, st1[k].mark # None
        PROVE  Before(list1, st1[k].mark, st1[i].mark)
    <2>1. i # n /\ st1[i] = st[i]
      BY <1>1, <1>5
    <2>2. CASE k = n
      BY <1>2, <1>3, <1>5, <2>1, <2>2 DEF WithFirst
    <2>3. CASE k # n
      <3>1. st1[k] = st[k]
        BY <1>1, <2>3
      <3>2. Before(list, st[k].mark, st[i].mark)
        BY <1>5, <2>1, <3>1 DEF Marking, MarksOrdered, n
      <3> QED
        BY <1>2, <1>5, <2>1, <3>1, <3>2 DEF WithFirst
    <2> QED
      BY <2>2, <2>3
  <1>6. ASSUME NEW i \in 1..n, st1[i].mark # None, NEW j \in Jobs
        PROVE  j \in st1[i].since <=> Before(list1, j, st1[i].mark)
    <2>1. CASE i = n
      BY <1>3, <2>1 DEF WithFirst
    <2>2. CASE i # n
      <3>1. st1[i] = st[i] /\ j # m
        BY <1>1, <2>2, BPendingAssumption
      <3>2. j \in st[i].since <=> Before(list, j, st[i].mark)
        BY <1>6, <3>1 DEF Marking, SinceBefore, n
      <3> QED
        BY <1>2, <1>6, <3>1, <3>2 DEF WithFirst
    <2> QED
      BY <2>1, <2>2
  <1> QED
    BY <1>1, <1>4, <1>5, <1>6 DEF Marking, MarksIn, MarksOrdered, SinceBefore

LEMMA UnmarkMarking ==
  ASSUME NEW S, NEW list \in Lists(S), NEW list1, NEW st, NEW st1, Marking(list, st),
         st \in Seq(Frame), st # <<>>, LessOne(list1, list, st[Len(st)].mark), SameBelow(st1, st),
         st[Len(st)].mark # None, st1[Len(st)].mark = None
  PROVE  Marking(list1, st1)
  <1> DEFINE n == Len(st)
             m == st[n].mark
  <1>1. /\ n \in Nat /\ n \in 1..n /\ Len(st1) = n
        /\ \A i \in 1..n : (i # n => st1[i] = st[i] /\ i < n) /\ st[i].mark \in Marks \union {None}
        /\ \A i \in 1..n : i < n \/ i = n
    BY FrameFields DEF SameBelow
  <1>2. m \in Marks /\ m # None /\ st1[n].mark = None
    BY <1>1
  <1> HIDE DEF n, m
  <1>3. \A i \in 1..n : i # n => st[i].mark # m
    <2> SUFFICES ASSUME NEW i \in 1..n, i # n, st[i].mark = m PROVE FALSE
      OBVIOUS
    <2>1. Before(list, m, m)
      BY <1>1, <1>2 DEF Marking, MarksOrdered, n, m
    <2> QED
      BY <2>1 DEF Lists, Once, Before
  <1>4. LessOne(list1, list, m)
    BY DEF n, m
  <1>5. ASSUME NEW a \in Marks PROVE In(list1, a) <=> \E i \in 1..n : st1[i].mark = a
    <2>1. In(list1, a) <=> a # m /\ \E i \in 1..n : st[i].mark = a
      BY <1>4 DEF Marking, MarksIn, LessOne, n
    <2>2. a # None
      BY BPendingAssumption
    <2>3. st[n].mark = m
      BY DEF m
    <2>4. ASSUME NEW i \in 1..n, st1[i].mark = a PROVE a # m /\ st[i].mark = a
      BY <1>1, <1>2, <1>3, <2>2, <2>4
    <2>5. ASSUME NEW i \in 1..n, st[i].mark = a, a # m PROVE st1[i].mark = a
      BY <1>1, <2>3, <2>5
    <2> QED
      BY <2>1, <2>4, <2>5
  <1>6. \A i \in 1..n : st1[i].mark # None => i # n /\ st1[i] = st[i] /\ st[i].mark # m
    BY <1>1, <1>2, <1>3
  <1>7. ASSUME NEW i \in 1..n, NEW k \in 1..n, i < k, st1[i].mark # None, st1[k].mark # None
        PROVE  Before(list1, st1[k].mark, st1[i].mark)
    <2>1. Before(list, st[k].mark, st[i].mark)
      BY <1>6, <1>7 DEF Marking, MarksOrdered, n
    <2> QED
      BY <1>4, <1>6, <1>7, <2>1 DEF LessOne
  <1>8. ASSUME NEW i \in 1..n, st1[i].mark # None, NEW j \in Jobs
        PROVE  j \in st1[i].since <=> Before(list1, j, st1[i].mark)
    <2>1. j \in st[i].since <=> Before(list, j, st[i].mark)
      BY <1>6, <1>8 DEF Marking, SinceBefore, n
    <2>2. j # m
      BY <1>2, BPendingAssumption
    <2> QED
      BY <1>4, <1>6, <1>8, <2>1, <2>2 DEF LessOne
  <1> QED
    BY <1>1, <1>5, <1>7, <1>8 DEF Marking, MarksIn, MarksOrdered, SinceBefore
-----------------------------------------------------------------------------
(* The steps of the handlers and of the queue. *)

LEMMA QueueFacts ==
  ASSUME QInv
  PROVE  /\ alive \subseteq Jobs /\ exiting \in BOOLEAN
         /\ jobs \in Lists(Jobs \union Marks) /\ stack \in Seq(Frame)
         /\ \A j \in Jobs : In(jobs, j) => j \in alive
         /\ Waits(stack) /\ Marking(jobs, stack) /\ Len(stack) \in Nat
  BY DEF QInv, QueueTypes

LEMMA QueueNext ==
  ASSUME alive' \subseteq Jobs, exiting' \in BOOLEAN, jobs' \in Lists(Jobs \union Marks), stack' \in Seq(Frame),
         \A j \in Jobs : In(jobs', j) => j \in alive', Waits(stack'), Marking(jobs', stack')
  PROVE  QInv'
  BY DEF QInv, QueueTypes, In, Waits, Marking, MarksIn, MarksOrdered, SinceBefore, Before

LEMMA SetInv ==
  ASSUME QInv, NEW j \in Jobs, BPending_Set(j)
  PROVE  QInv'
  <1>1. /\ alive' = alive /\ exiting' = exiting /\ j \in alive
        /\ jobs' = Prepended(j, jobs) /\ stack' = Remember(stack, j)
    BY DEF BPending_Set
  <1>2. /\ jobs \in Lists(Jobs \union Marks) /\ stack \in Seq(Frame) /\ j \in Jobs \union Marks
        /\ Waits(stack) /\ Marking(jobs, stack)
    BY QueueFacts
  <1>3. jobs' \in Lists(Jobs \union Marks) /\ WithFirst(jobs', jobs, j)
    BY <1>1, <1>2, PrependedFacts, Zenon
  <1>4. IsRemembered(stack', stack, j)
    BY <1>1, <1>2, RememberFacts, Zenon
  <1>5. Marking(jobs', stack')
    BY <1>2, <1>3, <1>4, SetMarking
  <1>6. Alike(stack', stack)
    BY <1>4 DEF IsRemembered
  <1>7. Waits(stack')
    BY <1>2, <1>6, AlikeWaits
  <1>8. stack' \in Seq(Frame)
    BY <1>6 DEF Alike
  <1>9. \A k \in Jobs : In(jobs', k) => k \in alive'
    BY <1>1, <1>3, QueueFacts DEF WithFirst
  <1> QED
    BY <1>1, <1>3, <1>5, <1>7, <1>8, <1>9, QueueFacts, QueueNext

\* The list loses a job, and the marks forget it.
LEMMA LessOneInv ==
  ASSUME QInv, NEW j \in Jobs, alive' \in SUBSET alive, alive \subseteq alive' \union {j}, exiting' = exiting,
         jobs' \in Lists(Jobs \union Marks), LessOne(jobs', jobs, j), stack' = Forget(stack, j)
  PROVE  QInv'
  <1>1. stack \in Seq(Frame) /\ Waits(stack) /\ Marking(jobs, stack)
    BY QueueFacts
  <1>2. IsForgotten(stack', stack, j)
    BY <1>1, ForgetFacts, Zenon
  <1>3. Marking(jobs', stack')
    BY <1>1, <1>2, UnsetMarking
  <1>4. Alike(stack', stack)
    BY <1>2 DEF IsForgotten
  <1>5. Waits(stack')
    BY <1>1, <1>4, AlikeWaits
  <1>6. stack' \in Seq(Frame)
    BY <1>4 DEF Alike
  <1>7. \A k \in Jobs : In(jobs', k) => k \in alive'
    BY QueueFacts DEF LessOne
  <1> QED
    BY <1>3, <1>5, <1>6, <1>7, QueueFacts, QueueNext

LEMMA UnsetInv ==
  ASSUME QInv, NEW j \in Jobs, BPending_Unset(j) \/ BPending_Free(j)
  PROVE  QInv'
  <1>1. /\ alive' \in SUBSET alive /\ alive \subseteq alive' \union {j} /\ exiting' = exiting
        /\ jobs' = RemoveFirst(jobs, j) /\ stack' = Forget(stack, j)
    BY DEF BPending_Unset, BPending_Free, Removed
  <1>2. jobs \in Lists(Jobs \union Marks)
    BY QueueFacts
  <1>3. jobs' \in Lists(Jobs \union Marks) /\ LessOne(jobs', jobs, j)
    BY <1>1, <1>2, RemoveFacts, Zenon
  <1> QED
    BY <1>1, <1>3, LessOneInv

\* The next job runs, in a loop that has made sure it is no mark.
LEMMA ExecuteInv ==
  ASSUME QInv, BPendingGroup_ExecuteJob, Head(jobs) \in Jobs,
         \A i \in 1..Len(stack) : stack[i].waiting
  PROVE  QInv' /\ Len(stack') = Len(stack) + 1
  <1> DEFINE j == Head(jobs)
             st == Forget(stack, j)
  <1>1. /\ jobs # <<>> /\ alive' = alive /\ exiting' = exiting
        /\ jobs' = Tail(jobs) /\ stack' = st \o <<Running(j)>>
    BY DEF BPendingGroup_ExecuteJob
  <1>2. /\ jobs \in Lists(Jobs \union Marks) /\ stack \in Seq(Frame) /\ Len(stack) \in Nat
        /\ Waits(stack) /\ Marking(jobs, stack)
    BY QueueFacts
  <1>3. /\ Tail(jobs) \in Lists(Jobs \union Marks) /\ LessOne(Tail(jobs), jobs, j)
    BY <1>1, <1>2, TailFacts
  <1>4. IsForgotten(st, stack, j)
    BY <1>2, ForgetFacts
  <1>5. Alike(st, stack) /\ Marking(Tail(jobs), st)
    <2>1. Alike(st, stack)
      BY <1>4, Zenon DEF IsForgotten
    <2>2. Marking(Tail(jobs), st)
      BY <1>2, <1>3, <1>4, UnsetMarking
    <2> QED
      BY <2>1, <2>2
  <1>6. Waits(st) /\ st \in Seq(Frame) /\ Len(st) = Len(stack)
    <2>1. Waits(st)
      BY <1>2, <1>5, AlikeWaits
    <2> QED
      BY <1>5, <2>1 DEF Alike
  <1>7. /\ Running(j) \in Frame /\ Running(j).runs = j /\ Running(j).mark = None
        /\ Running(j).waiting = FALSE /\ j \notin Marks
    BY RunningFacts, BPendingAssumption
  <1>8. \A i \in 1..Len(st) : st[i].waiting
    BY <1>5 DEF Alike
  <1> HIDE DEF st, j
  <1>9. IsPushed(stack', st, Running(j))
    BY <1>1, <1>6, <1>7, PushFacts, Zenon
  <1>10. Marking(jobs', stack')
    BY <1>1, <1>5, <1>6, <1>7, <1>9, PushMarking
  <1>11. Waits(stack')
    BY <1>2, <1>6, <1>7, <1>8, <1>9 DEF Waits, IsPushed
  <1>12. stack' \in Seq(Frame) /\ Len(stack') = Len(stack) + 1
    BY <1>6, <1>9 DEF IsPushed
  <1>13. jobs' \in Lists(Jobs \union Marks) /\ \A k \in Jobs : In(jobs', k) => k \in alive'
    BY <1>1, <1>3, QueueFacts DEF LessOne
  <1>14. QInv'
    BY <1>1, <1>10, <1>11, <1>12, <1>13, QueueFacts, QueueNext
  <1> QED
    BY <1>12, <1>14

LEMMA TopFacts ==
  ASSUME QInv, stack # <<>>
  PROVE  /\ Len(stack) \in Nat /\ Len(stack) \in 1..Len(stack) /\ Top \in Frame
         /\ \A i \in 1..Len(stack) : i # Len(stack) => i < Len(stack) /\ stack[i].waiting
         /\ Top.runs \in Jobs \union {Event} /\ Top.runs \notin Marks
         /\ Top.waiting => Top.mark # None /\ Len(stack) < MaxDepth
  <1>1. stack \in Seq(Frame) /\ Waits(stack)
    BY QueueFacts
  <1>2. Len(stack) \in Nat /\ Len(stack) \in 1..Len(stack) /\ Top \in Frame
    BY <1>1 DEF Top
  <1>3. \A i \in 1..Len(stack) : i # Len(stack) => i < Len(stack)
    BY <1>2
  <1> QED
    BY <1>1, <1>2, <1>3, FrameFields DEF Waits, Top

\* The handler on top is replaced by one that is not in BReactor_Synchronize, or may be.
LEMMA TopWaits ==
  ASSUME QInv, stack # <<>>, SameBelow(stack', stack),
         LET top == stack'[Len(stack)]
         IN top.runs \notin Marks /\ (top.waiting => top.mark # None /\ Len(stack) < MaxDepth)
  PROVE  Waits(stack') /\ stack' \in Seq(Frame)
  <1>1. /\ Len(stack') = Len(stack) /\ stack' \in Seq(Frame)
        /\ \A i \in 1..Len(stack) : i # Len(stack) => stack'[i] = stack[i]
    BY DEF SameBelow
  <1>2. Waits(stack)
    BY QueueFacts
  <1> QED
    BY <1>1, <1>2, TopFacts DEF Waits

LEMMA SyncFromHereInv ==
  ASSUME QInv, NEW m \in Marks, SyncFromHere(m)
  PROVE  QInv'
  <1> DEFINE n == Len(stack)
  <1>1. /\ stack # <<>> /\ ~Top.waiting /\ Top.mark = None /\ alive' = alive /\ exiting' = exiting
        /\ \A i \in DOMAIN stack : stack[i].mark # m
        /\ stack' = [stack EXCEPT ![n].mark = m, ![n].since = {}] /\ jobs' = Prepended(m, jobs)
    BY DEF SyncFromHere, InHandler
  <1>2. /\ jobs \in Lists(Jobs \union Marks) /\ stack \in Seq(Frame) /\ m \in Jobs \union Marks
        /\ Marking(jobs, stack)
    BY QueueFacts
  <1>3. jobs' \in Lists(Jobs \union Marks) /\ WithFirst(jobs', jobs, m)
    BY <1>1, <1>2, PrependedFacts, Zenon
  <1>4. /\ SameBelow(stack', stack) /\ stack'[n].mark = m /\ stack'[n].since = {}
        /\ stack'[n].runs = Top.runs /\ stack'[n].waiting = Top.waiting
    <2>1. n \in 1..n /\ n \in Nat /\ Top \in Frame /\ Top = stack[n]
      BY <1>1, TopFacts DEF Top
    <2>2. PICK f : f = [stack[n] EXCEPT !.mark = m, !.since = {}]
      OBVIOUS
    <2>3. /\ f \in Frame /\ f.mark = m /\ f.since = {} /\ f.runs = Top.runs /\ f.waiting = Top.waiting
      BY <2>1, <2>2 DEF Frame
    <2>4. stack' = [stack EXCEPT ![n] = f]
      BY <1>1, <1>2, <2>1, <2>2
    <2> QED
      BY <1>2, <2>1, <2>3, <2>4 DEF SameBelow
  <1>5. Marking(jobs', stack')
    <2>1. \A i \in 1..Len(stack) : stack[i].mark # m
      BY <1>1, <1>2
    <2> QED
      BY <1>1, <1>2, <1>3, <1>4, <2>1, MarkMarking DEF Top
  <1>6. Waits(stack') /\ stack' \in Seq(Frame)
    BY <1>1, <1>4, TopFacts, TopWaits
  <1>7. \A k \in Jobs : In(jobs', k) => k \in alive'
    BY <1>1, <1>3, QueueFacts, BPendingAssumption DEF WithFirst
  <1> QED
    BY <1>1, <1>3, <1>5, <1>6, <1>7, QueueFacts, QueueNext

LEMMA UnmarkInv ==
  ASSUME QInv, stack # <<>>, Top.mark # None, Unmark
  PROVE  QInv'
  <1> DEFINE n == Len(stack)
  <1>1. /\ alive' = alive /\ exiting' = exiting /\ jobs' = RemoveFirst(jobs, stack[n].mark)
        /\ stack' = [stack EXCEPT ![n] = Running(Top.runs)]
    BY DEF Unmark, Removed, Top
  <1>2. jobs \in Lists(Jobs \union Marks) /\ stack \in Seq(Frame) /\ Marking(jobs, stack)
    BY QueueFacts
  <1>3. jobs' \in Lists(Jobs \union Marks) /\ LessOne(jobs', jobs, stack[n].mark)
    BY <1>1, <1>2, RemoveFacts, Zenon
  <1>4. /\ n \in 1..n /\ n \in Nat /\ Top = stack[n]
        /\ Top.runs \in Jobs \union {Event} /\ Top.runs \notin Marks
    BY TopFacts DEF Top
  <1>5. /\ Running(Top.runs) \in Frame /\ Running(Top.runs).runs = Top.runs
        /\ Running(Top.runs).mark = None /\ Running(Top.runs).waiting = FALSE
    BY <1>4, RunningFacts
  <1>6. SameBelow(stack', stack) /\ stack'[n] = Running(Top.runs)
    BY <1>1, <1>2, <1>4, <1>5 DEF SameBelow
  <1>7. Marking(jobs', stack')
    BY <1>2, <1>3, <1>4, <1>5, <1>6, UnmarkMarking
  <1>8. Waits(stack') /\ stack' \in Seq(Frame)
    BY <1>4, <1>5, <1>6, TopWaits
  <1>9. \A k \in Jobs : In(jobs', k) => k \in alive'
    BY <1>1, <1>3, QueueFacts DEF LessOne
  <1> QED
    BY <1>1, <1>3, <1>7, <1>8, <1>9, QueueFacts, QueueNext

LEMMA SyncCommitInv ==
  ASSUME QInv, SyncCommit
  PROVE  QInv'
  <1> DEFINE n == Len(stack)
  <1>1. /\ stack # <<>> /\ Top.mark # None /\ n < MaxDepth
        /\ alive' = alive /\ exiting' = exiting /\ jobs' = jobs
        /\ stack' = [stack EXCEPT ![n].waiting = TRUE]
    BY DEF SyncCommit, InHandler
  <1>2. jobs \in Lists(Jobs \union Marks) /\ stack \in Seq(Frame) /\ Marking(jobs, stack)
    BY QueueFacts
  <1>3. /\ SameBelow(stack', stack) /\ stack'[n].mark = Top.mark /\ stack'[n].since = Top.since
        /\ stack'[n].runs = Top.runs
    <2>1. n \in 1..n /\ n \in Nat /\ Top \in Frame /\ Top = stack[n]
      BY <1>1, TopFacts DEF Top
    <2>2. PICK f : f = [stack[n] EXCEPT !.waiting = TRUE]
      OBVIOUS
    <2>3. f \in Frame /\ f.mark = Top.mark /\ f.since = Top.since /\ f.runs = Top.runs
      BY <2>1, <2>2 DEF Frame
    <2>4. stack' = [stack EXCEPT ![n] = f]
      BY <1>1, <1>2, <2>1, <2>2
    <2> QED
      BY <1>2, <2>1, <2>3, <2>4 DEF SameBelow
  <1>4. \A i \in 1..n : stack'[i].mark = stack[i].mark /\ stack'[i].since = stack[i].since
    BY <1>3 DEF SameBelow, Top
  <1>5. Marking(jobs', stack')
    BY <1>1, <1>2, <1>3, <1>4 DEF Marking, MarksIn, MarksOrdered, SinceBefore, SameBelow
  <1>6. Waits(stack') /\ stack' \in Seq(Frame)
    BY <1>1, <1>3, TopFacts, TopWaits
  <1> QED
    BY <1>1, <1>5, <1>6, QueueFacts, QueueNext

LEMMA ReturnInv ==
  ASSUME QInv, Return
  PROVE  QInv'
  <1>1. /\ stack # <<>> /\ ~Top.waiting /\ Top.mark = None
        /\ alive' = alive /\ exiting' = exiting /\ jobs' = jobs /\ stack' = Front(stack)
    BY DEF Return, InHandler
  <1>2. stack \in Seq(Frame) /\ Marking(jobs, stack) /\ Waits(stack) /\ Len(stack) \in Nat
    BY QueueFacts
  <1>3. stack' \in Seq(Frame) /\ IsPushed(stack, stack', Top)
    <2>1. PICK t : t = SubSeq(stack, 1, Len(stack) - 1)
      OBVIOUS
    <2>2. t \in Seq(Frame) /\ IsPushed(stack, t, Top)
      <3>1. Len(stack) \in 1..Len(stack) /\ Len(stack) - 1 \in Nat /\ (Len(stack) - 1) + 1 = Len(stack)
        BY <1>1, <1>2
      <3>2. /\ t \in Seq(Frame) /\ Len(t) = Len(stack) - 1
            /\ \A i \in 1..(Len(stack) - 1) : t[i] = stack[i]
        BY <1>2, <2>1, <3>1
      <3> QED
        BY <1>2, <3>1, <3>2 DEF IsPushed, Top
    <2> QED
      BY <1>1, <2>1, <2>2 DEF Front
  <1>4. Marking(jobs', stack')
    BY <1>1, <1>2, <1>3, PopMarking
  <1>5. Waits(stack')
    BY <1>2, <1>3 DEF Waits, IsPushed
  <1> QED
    BY <1>1, <1>3, <1>4, <1>5, QueueFacts, QueueNext

\* While a handler waits for its mark, the next job is none of the outer marks.
LEMMA NextIsJob ==
  ASSUME QInv, stack # <<>>, Top.waiting, jobs # <<>>, ~MarkReached
  PROVE  Head(jobs) \in Jobs
  <1>1. /\ jobs \in Lists(Jobs \union Marks) /\ Marking(jobs, stack)
        /\ Head(jobs) # Top.mark /\ Top.mark # None
    BY QueueFacts, TopFacts DEF MarkReached
  <1>2. In(jobs, Head(jobs)) /\ (\A y : ~Before(jobs, y, Head(jobs))) /\ Head(jobs) \in Jobs \union Marks
    BY <1>1, TailFacts DEF Lists
  <1> SUFFICES ASSUME Head(jobs) \in Marks PROVE FALSE
    BY <1>2
  <1>3. PICK i \in 1..Len(stack) : stack[i].mark = Head(jobs)
    BY <1>1, <1>2 DEF Marking, MarksIn
  <1>4. i < Len(stack) /\ Head(jobs) # None
    BY <1>1, <1>3, TopFacts, BPendingAssumption DEF Top
  <1>5. Before(jobs, Top.mark, Head(jobs))
    BY <1>1, <1>3, <1>4, TopFacts DEF Marking, MarksOrdered, Top
  <1> QED
    BY <1>2, <1>5

\* BReactor_Synchronize's ASSERT: there is a job as long as it waits.
LEMMA MarkIsThere ==
  ASSUME QInv, stack # <<>>, Top.waiting
  PROVE  jobs # <<>> /\ In(jobs, Top.mark)
  <1>1. Top.mark \in Marks /\ Marking(jobs, stack) /\ jobs \in Seq(Jobs \union Marks)
    BY QueueFacts, TopFacts, FrameFields DEF Lists
  <1>2. In(jobs, Top.mark)
    BY <1>1, TopFacts DEF Marking, MarksIn, Top
  <1> QED
    BY <1>1, <1>2 DEF In

LEMMA HandlerInv ==
  ASSUME QInv, Handler
  PROVE  QInv'
  <1>1. ASSUME NEW j \in Jobs, BPending_Init(j) PROVE QInv'
    BY <1>1, QueueFacts, QueueNext DEF BPending_Init
  <1>2. ASSUME Synchronize PROVE QInv'
    <2>1. /\ stack # <<>> /\ Top.waiting /\ ~MarkReached /\ BPendingGroup_ExecuteJob /\ jobs # <<>>
      BY <1>2 DEF Synchronize, BPendingGroup_ExecuteJob
    <2>2. \A i \in 1..Len(stack) : stack[i].waiting
      BY <2>1, TopFacts DEF Top
    <2> QED
      BY <2>1, <2>2, NextIsJob, ExecuteInv
  <1>3. ASSUME SyncBreak \/ SyncReturn PROVE QInv'
    BY <1>3, TopFacts, UnmarkInv DEF SyncBreak, SyncReturn, InHandler
  <1>4. ASSUME BReactor_Quit PROVE QInv'
    BY <1>4, QueueFacts, QueueNext DEF BReactor_Quit
  <1> QED
    BY <1>1, <1>2, <1>3, <1>4, SetInv, UnsetInv, SyncFromHereInv, SyncCommitInv, ReturnInv DEF Handler
-----------------------------------------------------------------------------
(* The loop and its timers. *)

\* What is left of a timer by the clock and really differ by the adjustments.
KeptTime ==
  \A t \in Set : really[t] <= left[t] + forth /\ left[t] <= really[t] + back

\* kevent()'s timeout ends no earlier than the first timer by more than the clock has been
\* put forward, and no later by more than it has been put back.
SleepsRight ==
  sleeping =>
    /\ stack = <<>>
    /\ \A t \in First : \A n \in timeout : really[t] <= n + forth
    /\ \A t \in running : \E n \in timeout : n <= really[t] + back

ExpiredRight ==
  /\ Once(expired) /\ \A t \in Range(expired) : t \notin running /\ really[t] <= forth

TimerTypes ==
  /\ running \subseteq Timers /\ IsFiniteSet(running) /\ expired \in Seq(Timers)
  /\ left \in [Timers -> Nat] /\ really \in [Timers -> Nat]
  /\ ready \in 0..MaxResults /\ sleeping \in BOOLEAN
  /\ timeout \subseteq Nat /\ (\A m, n \in timeout : m = n)
  /\ forth \in Nat /\ back \in Nat

TInv == TimerTypes /\ KeptTime /\ SleepsRight /\ ExpiredRight

RInv == QInv /\ TInv
LEMMA RangeIn ==
  ASSUME NEW S, NEW list \in Seq(S)
  PROVE  /\ \A t : t \in Range(list) <=> In(list, t)
         /\ \A t : In(list, t) => t \in S
  BY DEF Range, In

LEMMA TimerFacts ==
  ASSUME TInv
  PROVE  /\ expired \in Lists(Timers) /\ TimerTypes
         /\ \A t : t \in Set <=> t \in running \/ In(expired, t)
         /\ \A t : In(expired, t) => t \in Timers /\ t \notin running /\ really[t] <= forth
         /\ \A t \in Set : t \in Timers /\ really[t] <= left[t] + forth /\ left[t] <= really[t] + back
  <1>1. TimerTypes /\ expired \in Seq(Timers) /\ Once(expired)
    BY DEF TInv, TimerTypes, ExpiredRight
  <1>2. \A t : (t \in Range(expired) <=> In(expired, t)) /\ (In(expired, t) => t \in Timers)
    BY <1>1, RangeIn
  <1> QED
    BY <1>1, <1>2 DEF TInv, TimerTypes, Lists, Set, KeptTime, ExpiredRight

\* The invariant in the next state, from what the lists hold there.
LEMMA TimerNext ==
  ASSUME TimerTypes', Once(expired'),
         \A t : In(expired', t) => t \notin running' /\ really'[t] <= forth',
         \A t : t \in running' \/ In(expired', t) =>
           really'[t] <= left'[t] + forth' /\ left'[t] <= really'[t] + back',
         SleepsRight'
  PROVE  TInv'
  <1>1. expired' \in Seq(Timers)
    BY DEF TimerTypes
  <1>2. \A t : t \in Range(expired') <=> In(expired', t)
    BY <1>1, RangeIn
  <1>3. ExpiredRight'
    BY <1>2 DEF ExpiredRight, Once
  <1>4. KeptTime'
    BY <1>2 DEF KeptTime, Set
  <1> QED
    BY <1>3, <1>4 DEF TInv

LEMMA NotAsleep ==
  ASSUME TInv, stack # <<>>
  PROVE  ~sleeping
  BY DEF TInv, SleepsRight

LEMMA SetTimerInv ==
  ASSUME RInv, NEW t \in Timers, BReactor_SetTimer(t)
  PROVE  RInv'
  <1>1. /\ stack # <<>> /\ running' = running \union {t} /\ expired' = RemoveFirst(expired, t)
        /\ left' = [left EXCEPT ![t] = Interval[t]] /\ really' = [really EXCEPT ![t] = Interval[t]]
        /\ UNCHANGED <<alive, jobs, stack, exiting, ready, sleeping, timeout, forth, back>>
    BY DEF BReactor_SetTimer, InHandler, ExpiredWithout, queueVars, waitVars, clockVars
  <1>2. QInv /\ TInv
    BY DEF RInv
  <1>3. ~sleeping /\ expired \in Lists(Timers) /\ TimerTypes
    BY <1>1, <1>2, NotAsleep, TimerFacts
  <1>4. expired' \in Lists(Timers) /\ LessOne(expired', expired, t)
    BY <1>1, <1>3, RemoveFacts, Zenon
  <1>5. Interval[t] \in Nat
    BY ReactorAssumption
  <1>6. TimerTypes'
    <2>1. IsFiniteSet(running')
      BY <1>1, <1>3, FS_AddElement DEF TimerTypes
    <2> QED
      BY <1>1, <1>3, <1>4, <1>5, <2>1 DEF TimerTypes, Lists
  <1>7. \A u : In(expired', u) <=> In(expired, u) /\ u # t
    BY <1>4 DEF LessOne
  <1>8. ASSUME NEW u, u \in running' \/ In(expired', u)
        PROVE  really'[u] <= left'[u] + forth' /\ left'[u] <= really'[u] + back'
    <2>1. CASE u = t
      BY <1>1, <1>3, <1>5, <2>1 DEF TimerTypes
    <2>2. CASE u # t
      <3>1. u \in Set /\ u \in Timers
        BY <1>1, <1>2, <1>7, <1>8, <2>2, TimerFacts
      <3>2. really[u] <= left[u] + forth /\ left[u] <= really[u] + back
        BY <1>2, <3>1, TimerFacts
      <3> QED
        BY <1>1, <1>3, <2>2, <3>1, <3>2 DEF TimerTypes
    <2> QED
      BY <2>1, <2>2
  <1>9. ASSUME NEW u, In(expired', u) PROVE u \notin running' /\ really'[u] <= forth'
    <2>1. u # t /\ u \in Timers /\ u \notin running /\ really[u] <= forth
      BY <1>2, <1>7, <1>9, TimerFacts
    <2> QED
      BY <1>1, <1>3, <2>1 DEF TimerTypes
  <1>10. SleepsRight'
    BY <1>1, <1>3 DEF SleepsRight
  <1>11. TInv'
    BY <1>4, <1>6, <1>8, <1>9, <1>10, TimerNext DEF Lists
  <1>12. QInv'
    BY <1>1, <1>2, QueueFacts, QueueNext
  <1> QED
    BY <1>11, <1>12 DEF RInv

LEMMA RemoveTimerInv ==
  ASSUME RInv, NEW t \in Timers, BReactor_RemoveTimer(t)
  PROVE  RInv'
  <1>1. /\ stack # <<>> /\ running' = running \ {t} /\ expired' = RemoveFirst(expired, t)
        /\ left' = [left EXCEPT ![t] = 0] /\ really' = [really EXCEPT ![t] = 0]
        /\ UNCHANGED <<alive, jobs, stack, exiting, ready, sleeping, timeout, forth, back>>
    BY DEF BReactor_RemoveTimer, InHandler, ExpiredWithout, queueVars, waitVars, clockVars
  <1>2. QInv /\ TInv
    BY DEF RInv
  <1>3. ~sleeping /\ expired \in Lists(Timers) /\ TimerTypes
    BY <1>1, <1>2, NotAsleep, TimerFacts
  <1>4. expired' \in Lists(Timers) /\ LessOne(expired', expired, t)
    BY <1>1, <1>3, RemoveFacts, Zenon
  <1>5. TimerTypes'
    <2>1. IsFiniteSet(running')
      BY <1>1, <1>3, FS_Subset DEF TimerTypes
    <2> QED
      BY <1>1, <1>3, <1>4, <2>1 DEF TimerTypes, Lists
  <1>6. \A u : In(expired', u) <=> In(expired, u) /\ u # t
    BY <1>4 DEF LessOne
  <1>7. ASSUME NEW u, u \in running' \/ In(expired', u)
        PROVE  really'[u] <= left'[u] + forth' /\ left'[u] <= really'[u] + back'
    <2>1. u # t /\ u \in Set /\ u \in Timers
      BY <1>1, <1>2, <1>6, <1>7, TimerFacts
    <2>2. really[u] <= left[u] + forth /\ left[u] <= really[u] + back
      BY <1>2, <2>1, TimerFacts
    <2> QED
      BY <1>1, <1>3, <2>1, <2>2 DEF TimerTypes
  <1>8. ASSUME NEW u, In(expired', u) PROVE u \notin running' /\ really'[u] <= forth'
    <2>1. u # t /\ u \in Timers /\ u \notin running /\ really[u] <= forth
      BY <1>2, <1>6, <1>8, TimerFacts
    <2> QED
      BY <1>1, <1>3, <2>1 DEF TimerTypes
  <1>9. SleepsRight'
    BY <1>1, <1>3 DEF SleepsRight
  <1>10. TInv'
    BY <1>4, <1>5, <1>7, <1>8, <1>9, TimerNext DEF Lists
  <1>11. QInv'
    BY <1>1, <1>2, QueueFacts, QueueNext
  <1> QED
    BY <1>10, <1>11 DEF RInv

\* The handler of a timer or a descriptor starts; nothing else is running.
LEMMA DispatchInv ==
  ASSUME QInv, stack = <<>>, Dispatch
  PROVE  QInv'
  <1>1. stack' = <<Running(Event)>> /\ alive' = alive /\ jobs' = jobs /\ exiting' = exiting
    BY DEF Dispatch
  <1>2. /\ stack \in Seq(Frame) /\ Marking(jobs, stack) /\ Len(stack) = 0
        /\ jobs \in Lists(Jobs \union Marks)
    BY QueueFacts
  <1>3. /\ Running(Event) \in Frame /\ Running(Event).runs = Event /\ Running(Event).mark = None
        /\ Running(Event).waiting = FALSE /\ Event \notin Marks
    BY RunningFacts, BPendingAssumption
  <1>4. IsPushed(stack', stack, Running(Event))
    BY <1>1, <1>2, <1>3 DEF IsPushed
  <1>5. Marking(jobs', stack')
    BY <1>1, <1>2, <1>3, <1>4, PushMarking
  <1>6. Waits(stack') /\ stack' \in Seq(Frame)
    BY <1>2, <1>3, <1>4 DEF Waits, IsPushed
  <1> QED
    BY <1>1, <1>2, <1>5, <1>6, QueueFacts, QueueNext

LEMMA DispatchTimerInv ==
  ASSUME RInv, DispatchTimer
  PROVE  RInv'
  <1> DEFINE t == Head(expired)
  <1>1. /\ stack = <<>> /\ ~sleeping /\ expired # <<>> /\ expired' = Tail(expired)
        /\ left' = [left EXCEPT ![t] = 0] /\ really' = [really EXCEPT ![t] = 0] /\ Dispatch
        /\ UNCHANGED <<running, ready, sleeping, timeout, forth, back>>
    BY DEF DispatchTimer, Between, waitVars, clockVars
  <1>2. QInv /\ TInv
    BY DEF RInv
  <1>3. expired \in Lists(Timers) /\ TimerTypes
    BY <1>2, TimerFacts
  <1>4. expired' \in Lists(Timers) /\ LessOne(expired', expired, t) /\ In(expired, t)
    BY <1>1, <1>3, TailFacts
  <1>5. t \in Timers /\ t \notin running
    BY <1>2, <1>4, TimerFacts
  <1> HIDE DEF t
  <1>6. TimerTypes'
    BY <1>1, <1>3, <1>4, <1>5 DEF TimerTypes, Lists
  <1>7. \A u : In(expired', u) <=> In(expired, u) /\ u # t
    BY <1>4 DEF LessOne
  <1>8. ASSUME NEW u, u \in running' \/ In(expired', u)
        PROVE  really'[u] <= left'[u] + forth' /\ left'[u] <= really'[u] + back'
    <2>1. u # t /\ u \in Set /\ u \in Timers
      BY <1>1, <1>2, <1>5, <1>7, <1>8, TimerFacts
    <2>2. really[u] <= left[u] + forth /\ left[u] <= really[u] + back
      BY <1>2, <2>1, TimerFacts
    <2> QED
      BY <1>1, <1>3, <2>1, <2>2 DEF TimerTypes
  <1>9. ASSUME NEW u, In(expired', u) PROVE u \notin running' /\ really'[u] <= forth'
    <2>1. u # t /\ u \in Timers /\ u \notin running /\ really[u] <= forth
      BY <1>2, <1>7, <1>9, TimerFacts
    <2> QED
      BY <1>1, <1>3, <2>1 DEF TimerTypes
  <1>10. SleepsRight'
    BY <1>1 DEF SleepsRight
  <1>11. TInv'
    BY <1>4, <1>6, <1>8, <1>9, <1>10, TimerNext DEF Lists
  <1>12. QInv'
    BY <1>1, <1>2, DispatchInv
  <1> QED
    BY <1>11, <1>12 DEF RInv

\* The timers and the clocks stay as they are; the loop is not in kevent(), or is no more.
LEMMA AwakeTInv ==
  ASSUME TInv, UNCHANGED <<timerVars, clockVars>>, ~sleeping', sleeping' \in BOOLEAN,
         ready' \in 0..MaxResults, timeout' \subseteq Nat, \A m, n \in timeout' : m = n
  PROVE  TInv'
  <1>1. UNCHANGED <<running, expired, left, really, forth, back>>
    BY DEF timerVars, clockVars
  <1>2. TimerTypes'
    BY <1>1 DEF TInv, TimerTypes
  <1>3. SleepsRight'
    BY DEF SleepsRight
  <1>4. Once(expired') /\ ExpiredRight' /\ KeptTime'
    BY <1>1 DEF TInv, ExpiredRight, KeptTime, Set, Once, Range
  <1> QED
    BY <1>2, <1>3, <1>4 DEF TInv

LEMMA DispatchEventInv ==
  ASSUME RInv, DispatchEvent
  PROVE  RInv'
  <1>1. /\ stack = <<>> /\ ~sleeping /\ ready > 0 /\ ready' = ready - 1 /\ Dispatch
        /\ UNCHANGED <<timerVars, sleeping, timeout, clockVars>>
    BY DEF DispatchEvent, Between
  <1>2. QInv /\ TInv
    BY DEF RInv
  <1>3. TimerTypes
    BY <1>2, TimerFacts
  <1>4. ready' \in 0..MaxResults
    BY <1>1, <1>3, ReactorAssumption DEF TimerTypes
  <1>5. TInv'
    BY <1>1, <1>2, <1>3, <1>4, AwakeTInv DEF TimerTypes
  <1> QED
    BY <1>1, <1>2, <1>5, DispatchInv DEF RInv

\* Timers that are due, really so but for what the clock has been put forward, leave the tree.
LEMMA MoveTInv ==
  ASSUME TInv, NEW ts \in SUBSET running, Move(ts), \A t \in ts : really[t] <= forth,
         UNCHANGED <<forth, back>>, ~sleeping', sleeping' \in BOOLEAN,
         ready' \in 0..MaxResults, timeout' \subseteq Nat, \A m, n \in timeout' : m = n
  PROVE  TInv'
  <1>1. running' = running \ ts /\ left' = left /\ really' = really
    BY DEF Move
  <1>2. PICK s \in SetToSeqs(ts) : expired' = expired \o s
    BY DEF Move
  <1>3. expired \in Lists(Timers) /\ TimerTypes
    BY TimerFacts
  <1>4. IsFiniteSet(ts) /\ ts \subseteq Timers /\ Cardinality(ts) \in Nat
    <2>1. IsFiniteSet(ts)
      BY <1>3, FS_Subset DEF TimerTypes
    <2> QED
      BY <1>3, <2>1, FS_CardinalityType DEF TimerTypes
  <1>5. /\ s \in Seq(Timers) /\ Len(s) \in Nat /\ Once(s) /\ \A i \in 1..Len(s) : s[i] \in ts
    <2>1. s \in [1..Cardinality(ts) -> ts] /\ \A i, j \in 1..Cardinality(ts) : i # j => s[i] # s[j]
      BY DEF SetToSeqs
    <2>2. s \in Seq(Timers) /\ Len(s) = Cardinality(ts)
      BY <1>4, <2>1
    <2> QED
      BY <1>4, <2>1, <2>2 DEF Once
  <1>6. /\ expired' \in Seq(Timers) /\ Len(expired') = Len(expired) + Len(s) /\ Len(expired) \in Nat
        /\ \A k \in 1..(Len(expired) + Len(s)) :
             expired'[k] = IF k <= Len(expired) THEN expired[k] ELSE s[k - Len(expired)]
    BY <1>2, <1>3, <1>5 DEF Lists
  <1>7. \A u : In(expired, u) => u \notin ts /\ u \notin running
    BY TimerFacts
  <1>8. ASSUME NEW k \in 1..Len(expired')
        PROVE  IF k <= Len(expired) THEN k \in 1..Len(expired) /\ expired'[k] = expired[k] /\ expired'[k] \notin ts
               ELSE k - Len(expired) \in 1..Len(s) /\ expired'[k] = s[k - Len(expired)] /\ expired'[k] \in ts
    <2>1. CASE k <= Len(expired)
      <3>1. k \in 1..Len(expired) /\ expired'[k] = expired[k]
        BY <1>6, <2>1
      <3> QED
        BY <1>7, <2>1, <3>1 DEF In
    <2>2. CASE ~(k <= Len(expired))
      <3>1. k - Len(expired) \in 1..Len(s) /\ expired'[k] = s[k - Len(expired)]
        BY <1>5, <1>6, <2>2
      <3> QED
        BY <1>5, <2>2, <3>1
    <2> QED
      BY <2>1, <2>2
  <1>9. Once(expired')
    <2> SUFFICES ASSUME NEW a \in 1..Len(expired'), NEW b \in 1..Len(expired'), expired'[a] = expired'[b]
                 PROVE  a = b
      BY DEF Once
    <2>1. a <= Len(expired) <=> b <= Len(expired)
      BY <1>8
    <2>2. CASE a <= Len(expired)
      BY <1>3, <1>8, <2>1, <2>2 DEF Lists, Once
    <2>3. CASE ~(a <= Len(expired))
      <3>1. a - Len(expired) = b - Len(expired)
        BY <1>5, <1>8, <2>1, <2>3 DEF Once
      <3> QED
        BY <1>6, <3>1
    <2> QED
      BY <2>2, <2>3
  <1>10. ASSUME NEW u, In(expired', u) PROVE u \in ts \/ In(expired, u)
    BY <1>8, <1>10 DEF In
  <1>11. TimerTypes'
    <2>1. IsFiniteSet(running')
      BY <1>1, <1>3, FS_Subset DEF TimerTypes
    <2> QED
      BY <1>1, <1>3, <1>6, <2>1 DEF TimerTypes
  <1>12. ASSUME NEW u, In(expired', u) PROVE u \notin running' /\ really'[u] <= forth'
    BY <1>1, <1>7, <1>10, <1>12, TimerFacts
  <1>13. ASSUME NEW u, u \in running' \/ In(expired', u)
         PROVE  really'[u] <= left'[u] + forth' /\ left'[u] <= really'[u] + back'
    <2>1. u \in Set
      BY <1>1, <1>10, <1>13, TimerFacts
    <2> QED
      BY <1>1, <2>1, TimerFacts
  <1>14. SleepsRight'
    BY DEF SleepsRight
  <1> QED
    BY <1>9, <1>11, <1>12, <1>13, <1>14, TimerNext
LEMMA LeastNumber ==
  ASSUME NEW T \in SUBSET Nat, T # {}
  PROVE  \E x \in T : \A y \in T : x <= y
  <1>1. PICK R : R = {z \in Nat \X Nat : z[1] < z[2]}
    OBVIOUS
  <1>2. IsWellFoundedOn(R, Nat)
    <2>1. OpToRel(<, Nat) = {z \in Nat \X Nat : z[1] < z[2]}
      BY Zenon DEF OpToRel
    <2> QED
      BY <1>1, <2>1, NatLessThanWellFounded, Zenon
  <1>3. PICK x \in T : \A y \in T : ~(<<y, x>> \in R)
    BY <1>2, WFMin, Zenon
  <1>4. \A a, y \in Nat : y < a => <<y, a>> \in R
    BY <1>1
  <1>5. \A y \in T : x <= y
    <2> TAKE y \in T
    <2>1. x \in Nat /\ y \in Nat
      OBVIOUS
    <2>2. ~(y < x)
      BY <1>3, <1>4, <2>1
    <2> QED
      BY <2>1, <2>2
  <1> QED
    BY <1>5

\* The tree has a first timer.
LEMMA FirstExists ==
  ASSUME TInv, running # {}
  PROVE  First # {}
  <1> DEFINE T == {left[t] : t \in running}
  <1>1. T \in SUBSET Nat /\ T # {}
    BY DEF TInv, TimerTypes
  <1>2. PICK x \in T : \A y \in T : x <= y
    BY <1>1, LeastNumber
  <1>3. PICK t \in running : left[t] = x
    OBVIOUS
  <1>4. \A u \in running : left[t] <= left[u]
    BY <1>2, <1>3
  <1> QED
    BY <1>4 DEF First

\* The loop goes to sleep, or sleeps again, with the time of the first timer.
LEMMA SleepTInv ==
  ASSUME TInv, stack' = <<>>, sleeping' = TRUE, timeout' = Timeout, ready' = ready,
         UNCHANGED <<timerVars, clockVars>>
  PROVE  TInv'
  <1>1. UNCHANGED <<running, expired, left, really, forth, back>>
    BY DEF timerVars, clockVars
  <1>2. TimerTypes
    BY TimerFacts
  <1>3. First \subseteq running /\ \A t, u \in First : left[t] = left[u]
    BY <1>2 DEF First, TimerTypes
  <1>4. Timeout \subseteq Nat /\ \A m, n \in Timeout : m = n
    BY <1>2, <1>3 DEF TimerTypes, Timeout
  <1>5. TimerTypes'
    BY <1>1, <1>2, <1>4 DEF TimerTypes
  <1>6. \A t \in First : \A n \in Timeout : really[t] <= n + forth
    BY <1>3, TimerFacts DEF Timeout
  <1>7. ASSUME NEW t \in running PROVE \E n \in Timeout : n <= really[t] + back
    <2>1. PICK f \in First : left[f] <= left[t]
      BY FirstExists DEF First
    <2>2. left[t] <= really[t] + back /\ left[f] \in Timeout
      BY TimerFacts DEF Timeout
    <2>3. left[f] \in Nat /\ left[t] \in Nat /\ really[t] \in Nat /\ back \in Nat
      BY <1>2, <1>3 DEF TimerTypes
    <2> QED
      BY <2>1, <2>2, <2>3
  <1>8. SleepsRight'
    BY <1>1, <1>6, <1>7 DEF SleepsRight, First
  <1>9. ExpiredRight' /\ KeptTime'
    BY <1>1 DEF TInv, ExpiredRight, KeptTime, Set, Once, Range
  <1> QED
    BY <1>5, <1>8, <1>9 DEF TInv

LEMMA WaitForEventsInv ==
  ASSUME RInv, WaitForEvents
  PROVE  RInv'
  <1>1. /\ stack = <<>> /\ ~sleeping
        /\ UNCHANGED <<alive, jobs, stack, exiting, forth, back>>
    BY DEF WaitForEvents, Between, queueVars, clockVars
  <1>2. QInv /\ TInv
    BY DEF RInv
  <1>3. TimerTypes
    BY <1>2, TimerFacts
  <1>4. CASE Due # {}
    <2>1. Move(Due) /\ UNCHANGED <<ready, sleeping, timeout>>
      BY <1>4 DEF WaitForEvents, waitVars
    <2>2. Due \in SUBSET running /\ \A t \in Due : really[t] <= forth
      BY <1>2, <1>3, TimerFacts DEF Due, TimerTypes
    <2>3. TInv'
      BY <1>1, <1>2, <1>3, <2>1, <2>2, MoveTInv DEF TimerTypes
    <2> QED
      BY <1>1, <1>2, <2>3, QueueFacts, QueueNext DEF RInv
  <1>5. CASE Due = {}
    <2>1. sleeping' = TRUE /\ timeout' = Timeout /\ UNCHANGED <<timerVars, ready>>
      BY <1>5 DEF WaitForEvents
    <2>2. TInv'
      BY <1>1, <1>2, <2>1, SleepTInv DEF clockVars
    <2> QED
      BY <1>1, <1>2, <2>2, QueueFacts, QueueNext DEF RInv
  <1> QED
    BY <1>4, <1>5

LEMMA EventsReturnedInv ==
  ASSUME RInv, EventsReturned
  PROVE  RInv'
  <1>1. /\ sleeping' = FALSE /\ timeout' = {} /\ ready' \in 1..MaxResults
        /\ UNCHANGED <<alive, jobs, stack, exiting>> /\ UNCHANGED <<timerVars, clockVars>>
    BY DEF EventsReturned, queueVars
  <1>2. QInv /\ TInv
    BY DEF RInv
  <1>3. ready' \in 0..MaxResults
    BY <1>1, ReactorAssumption
  <1>4. TInv'
    BY <1>1, <1>2, <1>3, AwakeTInv
  <1> QED
    BY <1>1, <1>2, <1>4, QueueFacts, QueueNext DEF RInv

\* move_first_timers takes timers whose time has come.
LEMMA MoveFirstInv ==
  ASSUME RInv, MoveFirst, \A t \in First : really[t] <= forth, sleeping' = FALSE, timeout' = {},
         UNCHANGED <<queueVars, ready, clockVars>>
  PROVE  RInv'
  <1>1. UNCHANGED <<alive, jobs, stack, exiting, forth, back, ready>>
    BY DEF queueVars, clockVars
  <1>2. QInv /\ TInv /\ TimerTypes
    BY TimerFacts DEF RInv
  <1>3. PICK ts \in SUBSET First : Move(ts)
    BY DEF MoveFirst
  <1>4. ts \in SUBSET running /\ \A t \in ts : really[t] <= forth
    BY <1>3 DEF First
  <1>5. TInv'
    BY <1>1, <1>2, <1>3, <1>4, MoveTInv DEF TimerTypes
  <1> QED
    BY <1>1, <1>2, <1>5, QueueFacts, QueueNext DEF RInv

LEMMA TimedOutInv ==
  ASSUME RInv, TimedOut
  PROVE  RInv'
  <1>1. /\ sleeping /\ 0 \in timeout /\ MoveFirst /\ sleeping' = FALSE /\ timeout' = {}
        /\ UNCHANGED <<queueVars, ready, clockVars>>
    BY DEF TimedOut
  <1>2. TInv /\ TimerTypes /\ SleepsRight
    BY TimerFacts DEF RInv, TInv
  <1>3. \A t \in First : really[t] <= forth
    BY <1>1, <1>2 DEF SleepsRight, TimerTypes
  <1> QED
    BY <1>1, <1>3, MoveFirstInv

LEMMA InterruptedInv ==
  ASSUME RInv, Interrupted
  PROVE  RInv'
  <1>1. sleeping /\ UNCHANGED <<queueVars, ready, clockVars>>
    BY DEF Interrupted
  <1>2. QInv /\ TInv /\ TimerTypes /\ SleepsRight
    BY TimerFacts DEF RInv, TInv
  <1>3. CASE Due # {}
    <2>1. sleeping' = FALSE /\ timeout' = {} /\ MoveFirst
      BY <1>3 DEF Interrupted
    <2>2. ASSUME NEW t \in First PROVE really[t] <= forth
      <3>1. left[t] = 0 /\ t \in Set
        BY <1>2, <1>3 DEF First, Due, TimerTypes, Set
      <3> QED
        BY <1>2, <3>1, TimerFacts DEF TimerTypes
    <2> QED
      BY <1>1, <2>1, <2>2, MoveFirstInv
  <1>4. CASE Due = {}
    <2>1. timeout' = Timeout /\ UNCHANGED <<sleeping, timerVars>>
      BY <1>4 DEF Interrupted
    <2>2. UNCHANGED <<alive, jobs, stack, exiting>>
      BY <1>1 DEF queueVars
    <2>3. stack' = <<>>
      BY <1>1, <1>2, <2>2 DEF SleepsRight
    <2>4. sleeping' = TRUE
      BY <1>1, <1>2, <2>1 DEF TimerTypes
    <2>5. TInv'
      BY <1>1, <1>2, <2>1, <2>3, <2>4, SleepTInv
    <2> QED
      BY <1>2, <2>2, <2>5, QueueFacts, QueueNext DEF RInv
  <1> QED
    BY <1>3, <1>4

LEMMA ShiftedFacts ==
  ASSUME NEW times \in [Timers -> Nat], NEW n \in {-1, 1}
  PROVE  /\ Shifted(times, n) \in [Timers -> Nat]
         /\ \A t \in Timers : Shifted(times, n)[t] = IF t \in Set /\ times[t] + n > 0 THEN times[t] + n ELSE 0
  BY DEF Shifted

\* The timers keep their places while the clocks move.
LEMMA ClockTInv ==
  ASSUME TInv, UNCHANGED <<stack, running, expired, sleeping, ready>>,
         left' \in [Timers -> Nat], really' \in [Timers -> Nat], forth' \in Nat, back' \in Nat,
         timeout' \subseteq Nat, \A m, n \in timeout' : m = n,
         \A t \in Set : really'[t] <= left'[t] + forth' /\ left'[t] <= really'[t] + back',
         \A t : In(expired, t) => really'[t] <= forth',
         sleeping => \A t \in running :
           /\ (\A u \in running : left'[t] <= left'[u]) => \A n \in timeout' : really'[t] <= n + forth'
           /\ \E n \in timeout' : n <= really'[t] + back'
  PROVE  TInv'
  <1>1. TimerTypes'
    BY DEF TInv, TimerTypes
  <1>2. Once(expired')
    BY DEF TInv, ExpiredRight
  <1>3. SleepsRight'
    BY DEF TInv, SleepsRight, First
  <1>4. \A t : In(expired', t) => t \notin running' /\ really'[t] <= forth'
    BY TimerFacts
  <1>5. \A t : t \in running' \/ In(expired', t) =>
           really'[t] <= left'[t] + forth' /\ left'[t] <= really'[t] + back'
    BY TimerFacts
  <1> QED
    BY <1>1, <1>2, <1>3, <1>4, <1>5, TimerNext

LEMMA TickInv ==
  ASSUME RInv, Tick
  PROVE  RInv'
  <1>1. /\ left' = Shifted(left, -1) /\ really' = Shifted(really, -1)
        /\ timeout' = {IF n = 0 THEN 0 ELSE n - 1 : n \in timeout}
        /\ UNCHANGED <<alive, jobs, stack, exiting>>
        /\ UNCHANGED <<running, expired, ready, sleeping, forth, back>>
    BY DEF Tick, queueVars, clockVars
  <1>2. QInv /\ TInv /\ TimerTypes /\ SleepsRight
    BY TimerFacts DEF RInv, TInv
  <1>3. left \in [Timers -> Nat] /\ really \in [Timers -> Nat] /\ forth \in Nat /\ back \in Nat
    BY <1>2 DEF TimerTypes
  <1>4. /\ left' \in [Timers -> Nat] /\ really' \in [Timers -> Nat]
        /\ \A t \in Timers : left'[t] = IF t \in Set /\ left[t] + (-1) > 0 THEN left[t] + (-1) ELSE 0
        /\ \A t \in Timers : really'[t] = IF t \in Set /\ really[t] + (-1) > 0 THEN really[t] + (-1) ELSE 0
    BY <1>1, <1>3, ShiftedFacts
  <1>5. ASSUME NEW t \in Set
        PROVE  /\ t \in Timers /\ left[t] \in Nat /\ really[t] \in Nat
               /\ left'[t] = IF left[t] = 0 THEN 0 ELSE left[t] - 1
               /\ really'[t] = IF really[t] = 0 THEN 0 ELSE really[t] - 1
    <2>1. t \in Timers /\ left[t] \in Nat /\ really[t] \in Nat
      BY <1>2, <1>3, TimerFacts
    <2> QED
      BY <1>4, <2>1
  <1>6. ASSUME NEW t \in Set
        PROVE  really'[t] <= left'[t] + forth' /\ left'[t] <= really'[t] + back'
    <2>1. really[t] <= left[t] + forth /\ left[t] <= really[t] + back
      BY <1>2, TimerFacts
    <2> QED
      BY <1>1, <1>3, <1>5, <2>1
  <1>7. ASSUME NEW t, In(expired, t) PROVE really'[t] <= forth'
    <2>1. t \in Set /\ really[t] <= forth
      BY <1>2, <1>7, TimerFacts
    <2> QED
      BY <1>1, <1>3, <1>5, <2>1
  <1>8. timeout \subseteq Nat /\ \A m, n \in timeout : m = n
    BY <1>2 DEF TimerTypes
  <1>9. timeout' \subseteq Nat /\ \A m, n \in timeout' : m = n
    BY <1>1, <1>8
  <1>10. ASSUME sleeping, NEW t \in running, \A u \in running : left'[t] <= left'[u], NEW n \in timeout'
         PROVE  really'[t] <= n + forth'
    <2>1. running \subseteq Set
      BY DEF Set
    <2>2. CASE left'[t] = 0
      <3>1. really'[t] <= left'[t] + forth' /\ t \in Timers
        BY <1>5, <1>6, <2>1
      <3>2. n \in Nat /\ really'[t] \in Nat /\ forth' \in Nat
        BY <1>1, <1>3, <1>4, <1>9, <3>1
      <3> QED
        BY <2>2, <3>1, <3>2
    <2>3. CASE left'[t] # 0
      <3>1. \A u \in running : left[t] <= left[u]
        BY <1>4, <1>5, <1>10, <2>1, <2>3
      <3>2. PICK m \in timeout : n = IF m = 0 THEN 0 ELSE m - 1
        BY <1>1
      <3>3. really[t] <= m + forth
        BY <1>2, <1>10, <3>1 DEF SleepsRight, First
      <3> QED
        BY <1>1, <1>3, <1>5, <1>8, <2>1, <3>2, <3>3
    <2> QED
      BY <2>2, <2>3
  <1>11. ASSUME sleeping, NEW t \in running PROVE \E n \in timeout' : n <= really'[t] + back'
    <2>1. PICK m \in timeout : m <= really[t] + back
      BY <1>2, <1>11 DEF SleepsRight
    <2>2. (IF m = 0 THEN 0 ELSE m - 1) \in timeout'
      BY <1>1
    <2>3. t \in Set
      BY DEF Set
    <2>4. (IF m = 0 THEN 0 ELSE m - 1) <= really'[t] + back'
      BY <1>1, <1>3, <1>5, <1>8, <2>1, <2>3
    <2> QED
      BY <2>2, <2>4
  <1>12. TInv'
    BY <1>1, <1>2, <1>3, <1>4, <1>6, <1>7, <1>9, <1>10, <1>11, ClockTInv
  <1> QED
    BY <1>1, <1>2, <1>12, QueueFacts, QueueNext DEF RInv

LEMMA AdjustInv ==
  ASSUME RInv, Adjust
  PROVE  RInv'
  <1>1. /\ UNCHANGED <<alive, jobs, stack, exiting>>
        /\ UNCHANGED <<running, expired, really, ready, sleeping, timeout>>
    BY DEF Adjust, queueVars, waitVars
  <1>2. QInv /\ TInv /\ TimerTypes /\ SleepsRight
    BY TimerFacts DEF RInv, TInv
  <1>3. /\ left \in [Timers -> Nat] /\ really \in [Timers -> Nat] /\ forth \in Nat /\ back \in Nat
        /\ timeout \subseteq Nat /\ \A m, n \in timeout : m = n
    BY <1>2 DEF TimerTypes
  <1>4. running \subseteq Set
    BY DEF Set
  <1>5. ASSUME NEW n \in {-1, 1}, left' = Shifted(left, n)
        PROVE  /\ left' \in [Timers -> Nat]
               /\ \A t \in Set : /\ t \in Timers /\ left[t] \in Nat /\ really[t] \in Nat
                                 /\ left'[t] = IF left[t] + n > 0 THEN left[t] + n ELSE 0
                                 /\ really[t] <= left[t] + forth /\ left[t] <= really[t] + back
    BY <1>2, <1>3, <1>5, ShiftedFacts, TimerFacts
  <1>6. ASSUME forth' = forth + 1, left' = Shifted(left, -1), back' = back PROVE TInv'
    <2>1. /\ left' \in [Timers -> Nat]
          /\ \A t \in Set : /\ t \in Timers /\ left[t] \in Nat /\ really[t] \in Nat
                            /\ left'[t] = IF left[t] + (-1) > 0 THEN left[t] + (-1) ELSE 0
                            /\ really[t] <= left[t] + forth /\ left[t] <= really[t] + back
      BY <1>5, <1>6
    <2>2. \A t \in Set : really'[t] <= left'[t] + forth' /\ left'[t] <= really'[t] + back'
      BY <1>1, <1>3, <1>6, <2>1
    <2>3. ASSUME NEW t, In(expired, t) PROVE really'[t] <= forth'
      <3>1. t \in Set /\ really[t] <= forth /\ really[t] \in Nat
        BY <1>2, <2>1, <2>3, TimerFacts
      <3> QED
        BY <1>1, <1>3, <1>6, <3>1
    <2>4. ASSUME sleeping, NEW t \in running, \A u \in running : left'[t] <= left'[u], NEW n \in timeout'
          PROVE  really'[t] <= n + forth'
      <3>1. CASE left'[t] = 0
        BY <1>1, <1>3, <1>4, <1>6, <2>1, <2>2, <3>1
      <3>2. CASE left'[t] # 0
        <4>1. \A u \in running : left[t] <= left[u]
          BY <1>4, <2>1, <2>4, <3>2
        <4>2. really[t] <= n + forth
          BY <1>1, <1>2, <2>4, <4>1 DEF SleepsRight, First
        <4> QED
          BY <1>1, <1>3, <1>4, <1>6, <2>1, <4>2
      <3> QED
        BY <3>1, <3>2
    <2>5. ASSUME sleeping, NEW t \in running PROVE \E n \in timeout' : n <= really'[t] + back'
      BY <1>1, <1>2, <1>6, <2>5 DEF SleepsRight
    <2> QED
      BY <1>1, <1>2, <1>3, <1>6, <2>1, <2>2, <2>3, <2>4, <2>5, ClockTInv
  <1>7. ASSUME back' = back + 1, left' = Shifted(left, 1), forth' = forth PROVE TInv'
    <2>1. /\ left' \in [Timers -> Nat]
          /\ \A t \in Set : /\ t \in Timers /\ left[t] \in Nat /\ really[t] \in Nat
                            /\ left'[t] = IF left[t] + 1 > 0 THEN left[t] + 1 ELSE 0
                            /\ really[t] <= left[t] + forth /\ left[t] <= really[t] + back
      BY <1>5, <1>7
    <2>2. \A t \in Set : really'[t] <= left'[t] + forth' /\ left'[t] <= really'[t] + back'
      BY <1>1, <1>3, <1>7, <2>1
    <2>3. ASSUME NEW t, In(expired, t) PROVE really'[t] <= forth'
      BY <1>1, <1>2, <1>7, <2>3, TimerFacts
    <2>4. ASSUME sleeping, NEW t \in running, \A u \in running : left'[t] <= left'[u], NEW n \in timeout'
          PROVE  really'[t] <= n + forth'
      <3>1. \A u \in running : left[t] <= left[u]
        BY <1>4, <2>1, <2>4
      <3> QED
        BY <1>1, <1>2, <1>7, <2>4, <3>1 DEF SleepsRight, First
    <2>5. ASSUME sleeping, NEW t \in running PROVE \E n \in timeout' : n <= really'[t] + back'
      <3>1. PICK n \in timeout : n <= really[t] + back
        BY <1>2, <2>5 DEF SleepsRight
      <3>2. n <= really'[t] + back'
        BY <1>1, <1>3, <1>4, <1>7, <2>1, <3>1
      <3> QED
        BY <1>1, <3>1, <3>2
    <2> QED
      BY <1>1, <1>2, <1>3, <1>7, <2>1, <2>2, <2>3, <2>4, <2>5, ClockTInv
  <1>8. TInv'
    BY <1>6, <1>7 DEF Adjust
  <1> QED
    BY <1>1, <1>2, <1>8, QueueFacts, QueueNext DEF RInv
LEMMA LoopExecuteInv ==
  ASSUME RInv, ExecuteJob
  PROVE  RInv'
  <1>1. stack = <<>> /\ ~sleeping /\ BPendingGroup_ExecuteJob /\ jobs # <<>>
    BY DEF ExecuteJob, Between, BPendingGroup_ExecuteJob
  <1>2. QInv /\ TInv /\ TimerTypes
    BY TimerFacts DEF RInv
  <1>3. jobs \in Lists(Jobs \union Marks) /\ Marking(jobs, stack)
    BY <1>2, QueueFacts
  <1>4. Head(jobs) \in Jobs
    <2>1. In(jobs, Head(jobs)) /\ Head(jobs) \in Jobs \union Marks
      BY <1>1, <1>3, TailFacts DEF Lists
    <2> QED
      BY <1>1, <1>3, <2>1 DEF Marking, MarksIn
  <1>5. QInv'
    BY <1>1, <1>2, <1>4, ExecuteInv
  <1>6. UNCHANGED <<ready, sleeping, timeout>> /\ UNCHANGED <<timerVars, clockVars>>
    BY DEF ExecuteJob, waitVars
  <1>7. TInv'
    BY <1>1, <1>2, <1>6, AwakeTInv DEF TimerTypes
  <1> QED
    BY <1>5, <1>7 DEF RInv

LEMMA LoopHandlerInv ==
  ASSUME RInv, Handler, UNCHANGED <<timerVars, waitVars, clockVars>>
  PROVE  RInv'
  <1>1. UNCHANGED <<ready, sleeping, timeout>> /\ UNCHANGED <<timerVars, clockVars>>
    BY DEF waitVars
  <1>2. QInv /\ TInv /\ TimerTypes
    BY TimerFacts DEF RInv
  <1>3. stack # <<>>
    BY DEF Handler, BPending_Init, BPending_Set, BPending_Unset, BPending_Free, SyncFromHere,
           SyncBreak, SyncCommit, Synchronize, SyncReturn, BReactor_Quit, Return, InHandler
  <1>4. ~sleeping
    BY <1>2, <1>3, NotAsleep
  <1>5. TInv'
    BY <1>1, <1>2, <1>4, AwakeTInv DEF TimerTypes
  <1> QED
    BY <1>2, <1>5, HandlerInv DEF RInv

LEMMA SameInv ==
  ASSUME RInv, UNCHANGED vars
  PROVE  RInv'
  <1>1. /\ UNCHANGED <<alive, jobs, stack, exiting>>
        /\ UNCHANGED <<running, expired, left, really, ready, sleeping, timeout, forth, back>>
    BY DEF vars, queueVars, timerVars, waitVars, clockVars
  <1>2. QInv /\ TInv
    BY DEF RInv
  <1>3. TInv'
    BY <1>1, <1>2 DEF TInv, TimerTypes, KeptTime, SleepsRight, ExpiredRight, Set, First, Range, Once
  <1> QED
    BY <1>1, <1>2, <1>3, QueueFacts, QueueNext DEF RInv

LEMMA InitInv == Init => RInv
  <1> SUFFICES ASSUME Init PROVE RInv
    OBVIOUS
  <1>1. /\ alive = {} /\ jobs = <<>> /\ stack = <<>> /\ exiting = FALSE
        /\ running = {} /\ expired = <<>>
        /\ left = [t \in Timers |-> 0] /\ really = [t \in Timers |-> 0]
        /\ ready = 0 /\ sleeping = FALSE /\ timeout = {} /\ forth = 0 /\ back = 0
    BY DEF Init, QueueInit
  <1>2. \A x : ~In(jobs, x)
    BY <1>1 DEF In
  <1>3. QInv
    <2>1. /\ jobs \in Seq(Jobs \union Marks) /\ stack \in Seq(Frame)
          /\ \A i : i \notin 1..Len(jobs) /\ i \notin 1..Len(stack)
      BY <1>1
    <2>2. QueueTypes
      BY <1>1, <2>1 DEF QueueTypes, Lists, Once
    <2>3. Waits(stack)
      BY <2>1, Zenon DEF Waits
    <2>4. MarksIn(jobs, stack)
      BY <2>1, <1>2, Zenon DEF MarksIn
    <2>5. MarksOrdered(jobs, stack)
      BY <2>1, Zenon DEF MarksOrdered
    <2>6. SinceBefore(jobs, stack)
      BY <2>1, Zenon DEF SinceBefore
    <2> QED
      BY <1>2, <2>2, <2>3, <2>4, <2>5, <2>6 DEF QInv, Marking
  <1>4. TimerTypes
    <2>1. IsFiniteSet(running)
      BY <1>1, FS_EmptySet
    <2>2. expired \in Seq(Timers) /\ ready \in 0..MaxResults
      BY <1>1, ReactorAssumption
    <2>3. left \in [Timers -> Nat] /\ really \in [Timers -> Nat]
      BY <1>1
    <2> QED
      BY <1>1, <2>1, <2>2, <2>3 DEF TimerTypes
  <1>5. Range(expired) = {}
    BY <1>1 DEF Range
  <1>6. KeptTime /\ SleepsRight /\ ExpiredRight
    BY <1>1, <1>5 DEF KeptTime, SleepsRight, ExpiredRight, Set, Once
  <1> QED
    BY <1>3, <1>4, <1>6 DEF RInv, TInv

LEMMA NextInv == RInv /\ [Next]_vars => RInv'
  <1> SUFFICES ASSUME RInv, [Next]_vars PROVE RInv'
    OBVIOUS
  <1>1. CASE Handler /\ UNCHANGED <<timerVars, waitVars, clockVars>>
    BY <1>1, LoopHandlerInv
  <1>2. CASE \E t \in Timers : BReactor_SetTimer(t) \/ BReactor_RemoveTimer(t)
    BY <1>2, SetTimerInv, RemoveTimerInv
  <1>3. CASE ExecuteJob \/ DispatchTimer \/ DispatchEvent
    BY <1>3, LoopExecuteInv, DispatchTimerInv, DispatchEventInv
  <1>4. CASE WaitForEvents \/ EventsReturned \/ TimedOut \/ Interrupted
    BY <1>4, WaitForEventsInv, EventsReturnedInv, TimedOutInv, InterruptedInv
  <1>5. CASE Tick \/ Adjust
    BY <1>5, TickInv, AdjustInv
  <1>6. CASE Stopped \/ UNCHANGED vars
    BY <1>6, SameInv DEF Stopped
  <1> QED
    BY <1>1, <1>2, <1>3, <1>4, <1>5, <1>6 DEF Next

LEMMA InvAlways == Spec => []RInv
  BY InitInv, NextInv, PTL DEF Spec

-----------------------------------------------------------------------------
(* What follows. *)

\* The types of the reactor's state: a timer's times are never negative however the clock
\* is put back and forth, and handlers nest no deeper than the bound.
THEOREM TypeCorrect == Spec => []TypeOK
  <1>1. RInv => TypeOK
    <2> SUFFICES ASSUME RInv PROVE TypeOK
      OBVIOUS
    <2>1. QInv /\ TimerTypes
      BY DEF RInv, TInv
    <2>2. Len(stack) <= MaxDepth
      <3>1. CASE stack = <<>>
        BY <3>1, BPendingAssumption
      <3>2. CASE Len(stack) = 1
        BY <3>2, BPendingAssumption
      <3>3. CASE stack # <<>> /\ Len(stack) # 1
        <4>a. Len(stack) \in Nat /\ Waits(stack)
          BY <2>1, QueueFacts
        <4>b. Len(stack) # 0
          BY <4>a, <3>3
        <4>1. Len(stack) \in Nat /\ Len(stack) - 1 \in 1..Len(stack) /\ Len(stack) - 1 < Len(stack)
          <5>1. \A n \in Nat : n # 0 /\ n # 1 => n - 1 \in 1..n /\ n - 1 < n
            OBVIOUS
          <5> QED
            BY <4>a, <4>b, <3>3, <5>1, Zenon
        <4>2. Len(stack) - 1 < MaxDepth
          BY <4>a, <4>1, Zenon DEF Waits
        <4> QED
          BY <4>1, <4>2, BPendingAssumption
      <3> QED
        BY <3>1, <3>2, <3>3
    <2>3. QueueTypeOK
      BY <2>1, <2>2, QueueFacts DEF QueueTypeOK, Lists
    <2> QED
      BY <2>1, <2>3 DEF TypeOK, TimerTypes
  <1> QED
    BY <1>1, InvAlways, PTL

\* The list of jobs and the handlers that run inside each other stay in step, whatever
\* handlers set, unset, free and wait for: no job is in the list twice or after it has been
\* freed, BReactor_Synchronize always has a job to run and never runs a mark, and what
\* stands before a mark is what has been set since.
THEOREM AlwaysWellNested == Spec => []WellNested
  <1>1. RInv => WellNested
    <2> SUFFICES ASSUME RInv PROVE WellNested
      OBVIOUS
    <2>1. /\ jobs \in Seq(Jobs \union Marks) /\ Once(jobs) /\ stack \in Seq(Frame)
          /\ \A j \in Jobs : In(jobs, j) => j \in alive
          /\ Waits(stack) /\ Marking(jobs, stack)
          /\ DOMAIN jobs = 1..Len(jobs) /\ DOMAIN stack = 1..Len(stack)
      BY QueueFacts DEF RInv, Lists
    <2>2. ListWellFormed
      BY <2>1 DEF ListWellFormed, Once, In
    <2>3. MarksNested
      <3>1. \A m \in Marks : Contains(jobs, m) <=> \E i \in DOMAIN stack : stack[i].mark = m
        BY <2>1 DEF Marking, MarksIn, In, Contains
      <3>2. \A i, k \in Marked : i < k => \E a, b \in DOMAIN jobs :
              a < b /\ jobs[a] = stack[k].mark /\ jobs[b] = stack[i].mark
        <4> SUFFICES ASSUME NEW i \in Marked, NEW k \in Marked, i < k
                     PROVE  \E a, b \in DOMAIN jobs :
                              a < b /\ jobs[a] = stack[k].mark /\ jobs[b] = stack[i].mark
          OBVIOUS
        <4>1. i \in 1..Len(stack) /\ k \in 1..Len(stack) /\ stack[i].mark # None /\ stack[k].mark # None
          BY <2>1, Zenon DEF Marked
        <4>2. MarksOrdered(jobs, stack)
          BY <2>1 DEF Marking
        <4>3. Before(jobs, stack[k].mark, stack[i].mark)
          BY <4>1, <4>2, Zenon DEF MarksOrdered
        <4> QED
          BY <2>1, <4>3, Zenon DEF Before
      <3>3. \A i \in DOMAIN stack : stack[i].runs \notin Marks
        BY <2>1 DEF Waits
      <3> QED
        BY <3>1, <3>2, <3>3 DEF MarksNested
    <2>4. BeforeMarkIsSince
      BY <2>1 DEF BeforeMarkIsSince, Marking, SinceBefore, Before, Marked
    <2> QED
      BY <2>2, <2>3, <2>4 DEF WellNested
  <1> QED
    BY <1>1, InvAlways, PTL

\* When BReactor_Synchronize returns and the reactor goes on, nothing that was set since
\* SYNC_FROMHERE is left, for any jobs, marks and depth of nesting.
THEOREM SyncAlwaysRunsAll == Spec => SyncRunsAll
  <1>1. ASSUME RInv, [Next]_vars, stack # <<>>, Top.waiting, ~exiting,
               Len(stack') = Len(stack), stack' # stack
        PROVE  Top.since = {}
    <2>1. QInv /\ Len(stack) \in Nat
      BY <1>1, QueueFacts DEF RInv
    <2>2. Handler
      <3>1. ~InHandler /\ ~Between /\ stack # <<>>
        BY <1>1 DEF InHandler, Between
      <3>2. ~sleeping
        BY <1>1, NotAsleep DEF RInv
      <3> QED
        BY <1>1, <3>1, <3>2 DEF Next, vars, queueVars, BReactor_SetTimer, BReactor_RemoveTimer, ExecuteJob,
           DispatchTimer, DispatchEvent, WaitForEvents, EventsReturned, TimedOut, Interrupted, Tick,
           Adjust, Stopped
    <2>3. ~Synchronize
      <3> SUFFICES ASSUME Synchronize PROVE FALSE
        OBVIOUS
      <3>1. BPendingGroup_ExecuteJob /\ jobs # <<>> /\ ~MarkReached
        BY DEF Synchronize, BPendingGroup_ExecuteJob
      <3>2. \A i \in 1..Len(stack) : stack[i].waiting
        BY <1>1, <2>1, TopFacts DEF Top
      <3>3. Len(stack') = Len(stack) + 1
        BY <1>1, <2>1, <3>1, <3>2, NextIsJob, ExecuteInv
      <3> QED
        BY <1>1, <2>1, <3>3
    <2>4. SyncReturn
      BY <1>1, <2>2, <2>3 DEF Handler, BPending_Init, BPending_Set, BPending_Unset, BPending_Free,
         SyncFromHere, SyncBreak, SyncCommit, BReactor_Quit, Return, InHandler
    <2>5. Head(jobs) = Top.mark
      BY <1>1, <2>4 DEF SyncReturn, MarkReached
    <2>6. /\ Top \in Frame /\ Top.mark # None /\ Len(stack) \in 1..Len(stack)
          /\ Marking(jobs, stack) /\ jobs \in Lists(Jobs \union Marks) /\ jobs # <<>>
      BY <1>1, <2>1, TopFacts, QueueFacts, MarkIsThere
    <2>7. \A j \in Jobs : j \in Top.since <=> Before(jobs, j, Top.mark)
      BY <2>6 DEF Marking, SinceBefore, Top
    <2>8. \A y : ~Before(jobs, y, Top.mark)
      BY <2>5, <2>6, TailFacts
    <2>9. Top.since \subseteq Jobs
      BY <2>6, FrameFields
    <2> QED
      BY <2>7, <2>8, <2>9
  <1>2. ASSUME RInv, [Next]_vars
        PROVE  [stack # <<>> /\ Top.waiting /\ ~exiting /\ Len(stack') = Len(stack) => Top.since = {}]_queueVars
    <2>1. CASE stack' # stack
      BY <1>1, <1>2, <2>1
    <2>2. CASE stack' = stack
      <3> SUFFICES ASSUME stack # <<>>, Top.waiting PROVE UNCHANGED queueVars
        OBVIOUS
      <3>1. ~InHandler /\ ~Between
        BY DEF InHandler, Between
      <3>2. ~sleeping /\ QInv /\ Len(stack) \in Nat
        BY <1>2, NotAsleep, QueueFacts DEF RInv
      <3>3. ~Synchronize
        <4> SUFFICES ASSUME Synchronize PROVE FALSE
          OBVIOUS
        <4>1. BPendingGroup_ExecuteJob /\ jobs # <<>> /\ ~MarkReached
          BY DEF Synchronize, BPendingGroup_ExecuteJob
        <4>2. \A i \in 1..Len(stack) : stack[i].waiting
          BY <3>2, TopFacts DEF Top
        <4>3. Len(stack') = Len(stack) + 1
          BY <3>2, <4>1, <4>2, NextIsJob, ExecuteInv
        <4> QED
          BY <2>2, <3>2, <4>3
      <3>4. ~SyncReturn
        <4> SUFFICES ASSUME SyncReturn PROVE FALSE
          OBVIOUS
        <4>1. /\ stack' = [stack EXCEPT ![Len(stack)] = Running(Top.runs)]
              /\ stack \in Seq(Frame) /\ Len(stack) \in 1..Len(stack)
          BY <3>2, TopFacts, QueueFacts DEF SyncReturn, Unmark
        <4>a. Top.runs \in Jobs \union {Event}
          BY <3>2, TopFacts
        <4>b. Running(Top.runs).waiting = FALSE
          BY <4>a, RunningFacts
        <4>c. stack'[Len(stack)] = Running(Top.runs)
          BY <4>1
        <4>2. stack'[Len(stack)].waiting = FALSE
          BY <4>b, <4>c
        <4> QED
          BY <2>2, <4>2 DEF Top
      <3> QED
        BY <1>2, <3>1, <3>2, <3>3, <3>4 DEF Next, vars, queueVars, BReactor_SetTimer, BReactor_RemoveTimer,
           ExecuteJob, DispatchTimer, DispatchEvent, WaitForEvents, EventsReturned, TimedOut, Interrupted,
           Tick, Adjust, Stopped, Handler, BPending_Init, BPending_Set, BPending_Unset, BPending_Free,
           SyncFromHere, SyncBreak, SyncCommit, BReactor_Quit, Return, InHandler
    <2> QED
      BY <2>1, <2>2
  <1> QED
    BY <1>2, InvAlways, PTL DEF Spec, SyncRunsAll

\* No timer is dispatched early by more than the clock has been put forward, whatever is
\* set again or removed while it waits to be dispatched; and kevent() never sleeps past a
\* timer by more than the clock has been put back, for any timers and adjustments.
THEOREM TimersAlwaysKeepTime == Spec => []TimersKeepTime
  <1>1. RInv => TimersKeepTime
    <2> SUFFICES ASSUME RInv PROVE TimersKeepTime
      OBVIOUS
    <2>1. TInv /\ SleepsRight /\ Once(expired) /\ expired \in Seq(Timers) /\ DOMAIN expired = 1..Len(expired)
      BY DEF RInv, TInv, SleepsRight, ExpiredRight, TimerTypes
    <2>2. \A i \in DOMAIN expired : In(expired, expired[i])
      BY <2>1 DEF In
    <2> QED
      BY <2>1, <2>2, TimerFacts DEF TimersKeepTime, SleepsRight, Once
  <1> QED
    BY <1>1, InvAlways, PTL
=============================================================================
