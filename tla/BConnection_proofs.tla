-------------------------- MODULE BConnection_proofs --------------------------
(***************************************************************************)
(* Proofs about connections on the reactor, for any number of them, any    *)
(* limit and any number of results of kevent().  The functions of the      *)
(* model are called by jobs with what is left of the list, and by handlers *)
(* of events with one result less to come; so the invariant is stated of a *)
(* list of jobs and a place in the results, and each function is shown     *)
(* once to bring the next state to it (Good, Events).                      *)
(***************************************************************************)
EXTENDS BConnection, SequenceTheorems, WellFoundedInduction, TLAPS

-----------------------------------------------------------------------------
(* Names of descriptors and jobs. *)

LEMMA DescriptorFacts ==
  /\ \A c \in Conns : Connector(c) \in Owned /\ Connection(c) \in Owned
  /\ \A x \in Owned : x \in Descriptors /\ x # Device /\ x # Removed
  /\ \A x \in Descriptors : x # Removed /\ (x # Device => x \in Owned)
  /\ Device \in Descriptors
  /\ \A x \in Owned : \E c \in Conns : x = Connector(c) \/ x = Connection(c)
  /\ \A c, e \in Conns : Connector(c) # Connection(e)
  /\ \A c, e \in Conns : Connector(c) = Connector(e) \/ Connection(c) = Connection(e) => c = e
  BY DEF Connector, Connection, Device, Removed, Owned, Descriptors

LEMMA OfFacts ==
  ASSUME NEW c \in Conns
  PROVE  /\ Of(c) \subseteq Owned /\ Connector(c) \in Of(c) /\ Connection(c) \in Of(c)
         /\ \A x \in Of(c) : x = Connector(c) \/ x = Connection(c)
         /\ \A e \in Conns \ {c} : Connector(e) \notin Of(c) /\ Connection(e) \notin Of(c)
  BY DescriptorFacts DEF Of

LEMMA JobFacts ==
  /\ \A c \in Conns : /\ ConnectedJob(c) \in Jobs /\ ConnectedJob(c) \in JobsOf(c)
                      /\ JobsOf(c) \subseteq Jobs
  /\ \A c \in Conns, d \in Dirs :
       /\ OpJob(c, d) \in Jobs /\ DoneJob(c, d) \in Jobs
       /\ OpJob(c, d) \in JobsOf(c) /\ DoneJob(c, d) \in JobsOf(c)
  /\ \A c \in Conns : \A j \in JobsOf(c) :
       j = ConnectedJob(c) \/ \E d \in Dirs : j = OpJob(c, d) \/ j = DoneJob(c, d)
  BY DEF Jobs, JobsOf

LEMMA JobNames ==
  /\ \A c, e, d, f : OpJob(c, d) # DoneJob(e, f) /\ OpJob(c, d) # ConnectedJob(e)
                     /\ DoneJob(c, d) # ConnectedJob(e)
  /\ \A c, e, d, f : OpJob(c, d) = OpJob(e, f) \/ DoneJob(c, d) = DoneJob(e, f) => c = e /\ d = f
  /\ \A c, e : ConnectedJob(c) = ConnectedJob(e) => c = e
  BY DEF OpJob, DoneJob, ConnectedJob

LEMMA DifferentJobs ==
  ASSUME NEW c \in Conns, NEW e \in Conns \ {c}
  PROVE  \A j \in JobsOf(e) : j \notin JobsOf(c)
  BY JobNames DEF JobsOf

-----------------------------------------------------------------------------
(* Lists without repetition. *)

In(list, x) == \E a \in 1..Len(list) : list[a] = x
Once(list) == \A a, b \in 1..Len(list) : list[a] = list[b] => a = b
Lists(S) == {list \in Seq(S) : Once(list)}

\* r is the list without x.
LessOne(r, list, x) == \A y : In(r, y) <=> In(list, y) /\ y # x

\* The place in the list of the k-th element once the i-th is gone.
Was(i, k) == IF k < i THEN k ELSE k + 1

LEMMA WasFacts ==
  ASSUME NEW n \in Nat, NEW i \in 1..n
  PROVE  /\ \A k \in 1..(n - 1) : Was(i, k) \in 1..n /\ Was(i, k) # i
         /\ \A k, l \in 1..(n - 1) : Was(i, k) = Was(i, l) => k = l
         /\ \A m \in 1..n : m # i => \E k \in 1..(n - 1) : Was(i, k) = m
  <1>1. ASSUME NEW m \in 1..n, m # i PROVE \E k \in 1..(n - 1) : Was(i, k) = m
    <2>1. CASE m < i
      BY <2>1 DEF Was
    <2>2. CASE ~(m < i)
      <3>1. m - 1 \in 1..(n - 1) /\ Was(i, m - 1) = m
        BY <1>1, <2>2 DEF Was
      <3> QED
        BY <3>1
    <2> QED
      BY <2>1, <2>2
  <1> QED
    BY <1>1 DEF Was

LEMMA RemoveAtFacts ==
  ASSUME NEW S, NEW list \in Seq(S), NEW i \in 1..Len(list),
         NEW r, r = SubSeq(list, 1, i - 1) \o SubSeq(list, i + 1, Len(list))
  PROVE  /\ r \in Seq(S) /\ Len(r) = Len(list) - 1 /\ Len(list) \in Nat
         /\ \A k \in 1..(Len(list) - 1) : r[k] = list[Was(i, k)]
  <1> DEFINE f == SubSeq(list, 1, i - 1)
             g == SubSeq(list, i + 1, Len(list))
  <1>1. /\ f \in Seq(S) /\ Len(f) = i - 1 /\ \A k \in 1..(i - 1) : f[k] = list[k]
        /\ Len(list) \in Nat
    OBVIOUS
  <1>2. g \in Seq(S) /\ Len(g) = Len(list) - i /\ \A k \in 1..(Len(list) - i) : g[k] = list[i + k]
    OBVIOUS
  <1>3. r = f \o g
    OBVIOUS
  <1> HIDE DEF f, g
  <1>4. /\ r \in Seq(S) /\ Len(r) = Len(list) - 1
        /\ \A k \in 1..(Len(list) - 1) : r[k] = IF k <= i - 1 THEN f[k] ELSE g[k - (i - 1)]
    <2>1. /\ f \o g \in Seq(S) /\ Len(f \o g) = Len(f) + Len(g)
          /\ \A k \in 1..(Len(f) + Len(g)) : (f \o g)[k] = IF k <= Len(f) THEN f[k] ELSE g[k - Len(f)]
      BY <1>1, <1>2, ConcatProperties, Zenon
    <2>2. Len(f) + Len(g) = Len(list) - 1 /\ Len(f) = i - 1
      BY <1>1, <1>2
    <2> QED
      BY <1>3, <2>1, <2>2
  <1>5. ASSUME NEW k \in 1..(Len(list) - 1) PROVE r[k] = list[Was(i, k)]
    <2>1. CASE k < i
      <3>1. k \in 1..(i - 1) /\ k <= i - 1
        BY <1>1, <2>1
      <3> QED
        BY <1>1, <1>4, <2>1, <3>1 DEF Was
    <2>2. CASE ~(k < i)
      <3>1. k - (i - 1) \in 1..(Len(list) - i) /\ i + (k - (i - 1)) = k + 1 /\ ~(k <= i - 1)
        BY <1>1, <2>2
      <3> QED
        BY <1>2, <1>4, <2>2, <3>1 DEF Was
    <2> QED
      BY <2>1, <2>2
  <1> QED
    BY <1>1, <1>4, <1>5

LEMMA RemoveFirstIs ==
  ASSUME NEW S, NEW list \in Lists(S), NEW i \in 1..Len(list)
  PROVE  RemoveFirst(list, list[i]) = SubSeq(list, 1, i - 1) \o SubSeq(list, i + 1, Len(list))
  <1>1. {k \in 1..Len(list) : list[k] = list[i]} = {i}
    BY DEF Lists, Once
  <1>2. RemoveFirst(list, list[i]) = RemoveAt(list, Min({k \in 1..Len(list) : list[k] = list[i]}))
    BY <1>1 DEF RemoveFirst, SelectInSeq
  <1>3. Min({i}) = i
    BY DEF Min
  <1> QED
    BY <1>1, <1>2, <1>3 DEF RemoveAt

LEMMA RemovedOne ==
  ASSUME NEW S, NEW list \in Lists(S), NEW i \in 1..Len(list)
  PROVE  LET r == SubSeq(list, 1, i - 1) \o SubSeq(list, i + 1, Len(list))
         IN r \in Lists(S) /\ LessOne(r, list, list[i])
  <1>1. PICK r : r = SubSeq(list, 1, i - 1) \o SubSeq(list, i + 1, Len(list))
    OBVIOUS
  <1>2. list \in Seq(S) /\ Once(list)
    BY DEF Lists
  <1>3. /\ r \in Seq(S) /\ Len(r) = Len(list) - 1 /\ Len(list) \in Nat
        /\ \A k \in 1..(Len(list) - 1) : r[k] = list[Was(i, k)]
    BY <1>1, <1>2, RemoveAtFacts
  <1>4. /\ \A k \in 1..(Len(list) - 1) : Was(i, k) \in 1..Len(list) /\ Was(i, k) # i
        /\ \A k, l \in 1..(Len(list) - 1) : Was(i, k) = Was(i, l) => k = l
        /\ \A m \in 1..Len(list) : m # i => \E k \in 1..(Len(list) - 1) : Was(i, k) = m
    BY <1>3, WasFacts
  <1>5. Once(r)
    BY <1>2, <1>3, <1>4 DEF Once
  <1>6. ASSUME NEW y PROVE In(r, y) <=> In(list, y) /\ y # list[i]
    <2>1. ASSUME In(r, y) PROVE In(list, y) /\ y # list[i]
      BY <1>2, <1>3, <1>4, <2>1 DEF In, Once
    <2>2. ASSUME In(list, y), y # list[i] PROVE In(r, y)
      BY <1>3, <1>4, <2>2 DEF In
    <2> QED
      BY <2>1, <2>2
  <1>8. r \in Lists(S) /\ LessOne(r, list, list[i])
    BY <1>3, <1>5, <1>6 DEF Lists, LessOne
  <1> QED
    BY <1>1, <1>8

LEMMA RemoveFacts ==
  ASSUME NEW S, NEW list \in Lists(S), NEW x
  PROVE  RemoveFirst(list, x) \in Lists(S) /\ LessOne(RemoveFirst(list, x), list, x)
  <1>1. CASE In(list, x)
    <2>1. PICK i \in 1..Len(list) : list[i] = x
      BY <1>1 DEF In
    <2> QED
      BY <2>1, RemoveFirstIs, RemovedOne
  <1>2. CASE ~In(list, x)
    <2>1. RemoveFirst(list, x) = list
      BY <1>2 DEF RemoveFirst, In
    <2>2. LessOne(list, list, x)
      BY <1>2 DEF LessOne, In
    <2> QED
      BY <2>1, <2>2
  <1> QED
    BY <1>1, <1>2

LEMMA TailFacts ==
  ASSUME NEW S, NEW list \in Lists(S), list # <<>>
  PROVE  /\ Tail(list) \in Lists(S) /\ LessOne(Tail(list), list, Head(list))
         /\ In(list, Head(list)) /\ Head(list) \in S
  <1>1. list \in Seq(S) /\ Once(list) /\ Len(list) \in Nat /\ 1 \in 1..Len(list) /\ list[1] = Head(list)
    BY DEF Lists
  <1>2. Tail(list) = SubSeq(list, 1, 1 - 1) \o SubSeq(list, 1 + 1, Len(list))
    BY <1>1
  <1>3. Tail(list) \in Lists(S) /\ LessOne(Tail(list), list, Head(list))
    BY <1>1, <1>2, RemovedOne
  <1> QED
    BY <1>1, <1>3 DEF In

\* Lists that have nothing in common, one before the other.
LEMMA ConcatFacts ==
  ASSUME NEW S, NEW list \in Lists(S), NEW more \in Lists(S), \A y : ~(In(list, y) /\ In(more, y))
  PROVE  more \o list \in Lists(S) /\ \A y : In(more \o list, y) <=> In(more, y) \/ In(list, y)
  <1>1. /\ list \in Seq(S) /\ Once(list) /\ Len(list) \in Nat
        /\ more \in Seq(S) /\ Once(more) /\ Len(more) \in Nat
    BY DEF Lists
  <1>2. PICK r : r = more \o list
    OBVIOUS
  <1>3. /\ r \in Seq(S) /\ Len(r) = Len(more) + Len(list)
        /\ \A k \in 1..Len(r) : r[k] = IF k <= Len(more) THEN more[k] ELSE list[k - Len(more)]
    BY <1>1, <1>2, ConcatProperties
  <1>4. /\ \A k \in 1..Len(r) : k <= Len(more) => k \in 1..Len(more) /\ r[k] = more[k]
        /\ \A k \in 1..Len(r) : ~(k <= Len(more)) => k - Len(more) \in 1..Len(list) /\ r[k] = list[k - Len(more)]
    BY <1>1, <1>3
  <1>5. /\ \A k \in 1..Len(more) : k \in 1..Len(r) /\ r[k] = more[k]
        /\ \A k \in 1..Len(list) : k + Len(more) \in 1..Len(r) /\ r[k + Len(more)] = list[k]
    <2>1. ASSUME NEW k \in 1..Len(list) PROVE k + Len(more) \in 1..Len(r) /\ r[k + Len(more)] = list[k]
      <3>1. k + Len(more) \in 1..Len(r) /\ ~(k + Len(more) <= Len(more)) /\ (k + Len(more)) - Len(more) = k
        BY <1>1, <1>3
      <3> QED
        BY <1>3, <3>1
    <2> QED
      BY <1>1, <1>3, <2>1
  <1>6. \A y : In(r, y) <=> In(more, y) \/ In(list, y)
    <2> TAKE y
    <2>1. ASSUME In(r, y) PROVE In(more, y) \/ In(list, y)
      BY <1>4, <2>1 DEF In
    <2>2. ASSUME In(more, y) \/ In(list, y) PROVE In(r, y)
      BY <1>5, <2>2 DEF In
    <2> QED
      BY <2>1, <2>2
  <1>7. Once(r)
    <2> SUFFICES ASSUME NEW a \in 1..Len(r), NEW b \in 1..Len(r), r[a] = r[b] PROVE a = b
      BY DEF Once
    <2>1. CASE a <= Len(more) /\ b <= Len(more)
      BY <1>1, <1>4, <2>1 DEF Once
    <2>2. CASE ~(a <= Len(more)) /\ ~(b <= Len(more))
      <3>1. a - Len(more) = b - Len(more)
        BY <1>1, <1>4, <2>2 DEF Once
      <3> QED
        BY <1>1, <1>3, <3>1
    <2>3. CASE (a <= Len(more) /\ ~(b <= Len(more))) \/ (b <= Len(more) /\ ~(a <= Len(more)))
      BY <1>4, <2>3 DEF In
    <2> QED
      BY <2>1, <2>2, <2>3
  <1>8. r \in Lists(S)
    BY <1>3, <1>7 DEF Lists
  <1> QED
    BY <1>2, <1>6, <1>8

LEMMA FirstFacts ==
  ASSUME NEW S, NEW list \in Lists(S), NEW x \in S, ~In(list, x)
  PROVE  <<x>> \o list \in Lists(S) /\ \A y : In(<<x>> \o list, y) <=> y = x \/ In(list, y)
  <1>1. <<x>> \in Seq(S) /\ Len(<<x>>) = 1 /\ <<x>>[1] = x /\ 1..1 = {1}
    OBVIOUS
  <1>2. <<x>> \in Lists(S) /\ \A y : In(<<x>>, y) <=> y = x
    BY <1>1 DEF Lists, Once, In
  <1> QED
    BY <1>2, ConcatFacts

-----------------------------------------------------------------------------
(* What is done to the list of jobs. *)

\* Freeing an object frees its jobs.
LEMMA JobsLeftFacts ==
  ASSUME NEW js \in Lists(Jobs), NEW c \in Conns
  PROVE  /\ JobsLeft(js, c) \in Lists(Jobs)
         /\ \A y : In(JobsLeft(js, c), y) <=> In(js, y) /\ y \notin JobsOf(c)
  <1> DEFINE a1 == RemoveFirst(js, OpJob(c, "WRITE"))
             a2 == RemoveFirst(a1, DoneJob(c, "WRITE"))
             a3 == RemoveFirst(a2, OpJob(c, "READ"))
             a4 == RemoveFirst(a3, DoneJob(c, "READ"))
             a5 == RemoveFirst(a4, ConnectedJob(c))
  <1>0. JobsLeft(js, c) = a5
    BY DEF JobsLeft
  <1> HIDE DEF a5
  <1>5. a4 \in Lists(Jobs) => a5 \in Lists(Jobs) /\ LessOne(a5, a4, ConnectedJob(c))
    BY RemoveFacts, Zenon DEF a5
  <1> HIDE DEF a4
  <1>4. a3 \in Lists(Jobs) => a4 \in Lists(Jobs) /\ LessOne(a4, a3, DoneJob(c, "READ"))
    BY RemoveFacts, Zenon DEF a4
  <1> HIDE DEF a3
  <1>3. a2 \in Lists(Jobs) => a3 \in Lists(Jobs) /\ LessOne(a3, a2, OpJob(c, "READ"))
    BY RemoveFacts, Zenon DEF a3
  <1> HIDE DEF a2
  <1>2. a1 \in Lists(Jobs) => a2 \in Lists(Jobs) /\ LessOne(a2, a1, DoneJob(c, "WRITE"))
    BY RemoveFacts, Zenon DEF a2
  <1> HIDE DEF a1
  <1>1. a1 \in Lists(Jobs) /\ LessOne(a1, js, OpJob(c, "WRITE"))
    BY RemoveFacts, Zenon DEF a1
  <1>6. \A y : y \in JobsOf(c) <=> \/ y = OpJob(c, "WRITE") \/ y = DoneJob(c, "WRITE")
                                  \/ y = OpJob(c, "READ") \/ y = DoneJob(c, "READ") \/ y = ConnectedJob(c)
    BY DEF JobsOf, Dirs
  <1> QED
    BY <1>0, <1>1, <1>2, <1>3, <1>4, <1>5, <1>6, Zenon DEF LessOne

\* The jobs of the operations that are started are all different.
LEMMA StartedFacts ==
  ASSUME NEW c \in Conns, NEW D, D \subseteq Dirs, NEW ds \in BoundedSeq(D, 2), IsInjective(ds)
  PROVE  /\ [i \in DOMAIN ds |-> OpJob(c, ds[i])] \in Lists(Jobs)
         /\ \A y : In([i \in DOMAIN ds |-> OpJob(c, ds[i])], y) => \E d \in D : y = OpJob(c, d)
  <1>1. PICK m \in 0..2 : ds \in [1..m -> D]
    BY DEF BoundedSeq, SeqOf
  <1> DEFINE r == [i \in DOMAIN ds |-> OpJob(c, ds[i])]
  <1>2. r = [i \in 1..m |-> OpJob(c, ds[i])] /\ \A i \in 1..m : ds[i] \in D /\ OpJob(c, ds[i]) \in Jobs
    BY <1>1, JobFacts
  <1>3. r \in Seq(Jobs) /\ Len(r) = m /\ \A i \in 1..m : r[i] = OpJob(c, ds[i])
    BY <1>1, <1>2
  <1> HIDE DEF r
  <1>4. Once(r)
    BY <1>1, <1>3, JobNames DEF Once, IsInjective
  <1> QED
    BY <1>2, <1>3, <1>4 DEF Lists, In, r

-----------------------------------------------------------------------------
(* The invariant. *)

IoStates == {"none", "ready", "busy"}

\* A direction that has a job is not busy, and has one; a connector has succeeded before
\* there is a connection.
OneJob(act, js, st) ==
  \A c \in Conns :
    /\ \A d \in Dirs :
         /\ ~(In(js, OpJob(c, d)) /\ In(js, DoneJob(c, d)))
         /\ In(js, OpJob(c, d)) \/ In(js, DoneJob(c, d)) => st[c][d] = "ready"
    /\ In(js, ConnectedJob(c)) => Connector(c) \notin act /\ Connection(c) \notin act
    /\ ~(Connector(c) \in act /\ Connection(c) \in act)

\* The kernel has been asked exactly about what is busy.
Armed(act, w, st) ==
  \A c \in Conns :
    /\ \A d \in Dirs :
         /\ d \in w[Connection(c)] <=> st[c][d] = "busy"
         /\ st[c][d] # "none" <=> Connection(c) \in act
    /\ w[Connector(c)] = IF Connector(c) \in act THEN {"WRITE"} ELSE {}

Good(act, w, js, st) ==
  /\ act \subseteq Descriptors /\ Device \in act
  /\ w \in [Descriptors -> SUBSET Dirs] /\ js \in Lists(Jobs)
  /\ st \in [Conns -> [Dirs -> IoStates]]
  /\ OneJob(act, js, st) /\ Armed(act, w, st)

EventTypes(p, rs, ret, dbl, cnt) ==
  /\ rs \in Seq(Results) /\ Len(rs) <= MaxResults /\ p \in 0..Len(rs)
  /\ ret \in [Descriptors -> Nat] /\ dbl \subseteq Descriptors
  /\ cnt \in [Conns -> [Dirs -> 0..Limit]]

\* A descriptor points to an event of its own that is still to come, and to the only
\* one if it has one only.
Pointed(p, rs, ret, act, dbl) ==
  /\ \A x \in Descriptors : ret[x] # 0 =>
       x \in act /\ ret[x] \in (p + 1)..Len(rs) /\ rs[ret[x]].bfd = x
  /\ \A x \in Owned : \A i \in (p + 1)..Len(rs) : x \notin dbl /\ rs[i].bfd = x => ret[x] = i

\* What an event to come is for still waits, and has not been tried in this turn.
Untried(p, rs, dbl, w, cnt) ==
  \A i \in (p + 1)..Len(rs) : \A c \in Conns :
    Connection(c) \notin dbl /\ rs[i].bfd = Connection(c) =>
      rs[i].filter \in w[Connection(c)] /\ cnt[c][rs[i].filter] = 0

Events(p, rs, ret, act, dbl, w, cnt) ==
  EventTypes(p, rs, ret, dbl, cnt) /\ Pointed(p, rs, ret, act, dbl) /\ Untried(p, rs, dbl, w, cnt)

IInv ==
  /\ Good(active, wait, jobs, io)
  /\ Events(pos, results, returned, active, doubled, wait, count)
  /\ stale \in BOOLEAN

LEMMA EventsTypes ==
  ASSUME NEW p, NEW rs, NEW ret, NEW act, NEW dbl, NEW w, NEW cnt, Events(p, rs, ret, act, dbl, w, cnt)
  PROVE  /\ rs \in Seq(Results) /\ Len(rs) \in Nat /\ p \in 0..Len(rs) /\ p \in Nat
         /\ ret \in [Descriptors -> Nat] /\ cnt \in [Conns -> [Dirs -> 0..Limit]]
         /\ \A i \in (p + 1)..Len(rs) : i \in 1..Len(rs) /\ i # 0
         /\ \A i \in 1..Len(rs) : rs[i].filter \in Dirs /\ rs[i].bfd \in Descriptors \union {Removed}
  <1>1. rs \in Seq(Results) /\ Len(rs) \in Nat /\ p \in 0..Len(rs) /\ p \in Nat
    BY DEF Events, EventTypes
  <1>2. \A i \in 1..Len(rs) : rs[i].filter \in Dirs /\ rs[i].bfd \in Descriptors \union {Removed}
    <2>1. \A r \in Results : r.filter \in Dirs /\ r.bfd \in Descriptors \union {Removed}
      BY DEF Results
    <2>2. \A i \in 1..Len(rs) : rs[i] \in Results
      BY <1>1
    <2> QED
      BY <2>1, <2>2, Zenon
  <1> QED
    BY <1>1, <1>2 DEF Events, EventTypes

LEMMA NextInv ==
  ASSUME Good(active', wait', jobs', io'), Events(pos', results', returned', active', doubled', wait', count'),
         stale' = stale, IInv
  PROVE  IInv'
  BY DEF IInv, Good, OneJob, Armed, Events, EventTypes, Pointed, Untried, In

\* One result less to come, which the descriptor it is for does not point to any more.
LEMMA OneLess ==
  ASSUME NEW p, NEW rs, NEW ret, NEW act, NEW dbl, NEW w, NEW cnt,
         Events(p, rs, ret, act, dbl, w, cnt), p < Len(rs),
         NEW ret1 \in [Descriptors -> Nat], \A x \in Descriptors : ret1[x] = IF x = rs[p + 1].bfd THEN 0 ELSE ret[x]
  PROVE  /\ Events(p + 1, rs, ret1, act, dbl, w, cnt)
         /\ \A i \in (p + 2)..Len(rs) : rs[i].bfd \in Owned /\ rs[i].bfd \notin dbl => rs[i].bfd # rs[p + 1].bfd
  <1>1. /\ rs \in Seq(Results) /\ Len(rs) \in Nat /\ p \in Nat /\ p + 1 \in (p + 1)..Len(rs) /\ p + 1 \in 0..Len(rs)
        /\ \A i \in (p + 2)..Len(rs) : i \in (p + 1)..Len(rs) /\ i # p + 1
        /\ \A i \in (p + 1)..Len(rs) : i # p + 1 => i \in (p + 2)..Len(rs)
        /\ (p + 1) + 1 = p + 2
    BY EventsTypes
  <1>2. Pointed(p, rs, ret, act, dbl) /\ Untried(p, rs, dbl, w, cnt) /\ EventTypes(p, rs, ret, dbl, cnt)
    BY DEF Events
  <1>3. \A i \in (p + 2)..Len(rs) : rs[i].bfd \in Owned /\ rs[i].bfd \notin dbl => rs[i].bfd # rs[p + 1].bfd
    <2> SUFFICES ASSUME NEW i \in (p + 2)..Len(rs), rs[i].bfd \in Owned, rs[i].bfd \notin dbl,
                        rs[i].bfd = rs[p + 1].bfd
                 PROVE  FALSE
      OBVIOUS
    <2>1. PICK x \in Owned : x = rs[i].bfd
      OBVIOUS
    <2>2. ret[x] = i /\ ret[x] = p + 1
      BY <1>1, <1>2, <2>1 DEF Pointed
    <2> QED
      BY <1>1, <2>2
  <1>4. ASSUME NEW x \in Descriptors, ret1[x] # 0
        PROVE  x \in act /\ ret1[x] \in (p + 2)..Len(rs) /\ rs[ret1[x]].bfd = x
    <2>1. x # rs[p + 1].bfd /\ ret1[x] = ret[x]
      BY <1>4
    <2>2. x \in act /\ ret[x] \in (p + 1)..Len(rs) /\ rs[ret[x]].bfd = x
      BY <1>2, <1>4, <2>1, Zenon DEF Pointed
    <2> QED
      BY <1>1, <2>1, <2>2
  <1>5. ASSUME NEW x \in Owned, NEW i \in (p + 2)..Len(rs), x \notin dbl, rs[i].bfd = x
        PROVE  ret1[x] = i
    <2>1. ret[x] = i /\ x # rs[p + 1].bfd /\ x \in Descriptors
      BY <1>1, <1>2, <1>3, <1>5, DescriptorFacts, Zenon DEF Pointed
    <2> QED
      BY <2>1
  <1>6. Pointed(p + 1, rs, ret1, act, dbl)
    BY <1>1, <1>4, <1>5 DEF Pointed
  <1>7. Untried(p + 1, rs, dbl, w, cnt)
    BY <1>1, <1>2 DEF Untried
  <1>8. EventTypes(p + 1, rs, ret1, dbl, cnt)
    BY <1>1, <1>2 DEF EventTypes
  <1> QED
    BY <1>3, <1>6, <1>7, <1>8 DEF Events

\* Descriptors are added, the kernel is asked about more and nothing is forgotten.
LEMMA EventsStay ==
  ASSUME NEW p, NEW rs, NEW ret, NEW act, NEW dbl, NEW w, NEW cnt,
         Events(p, rs, ret, act, dbl, w, cnt),
         NEW act1, act \subseteq act1, NEW w1, NEW cnt1 \in [Conns -> [Dirs -> 0..Limit]],
         Untried(p, rs, dbl, w1, cnt1)
  PROVE  Events(p, rs, ret, act1, dbl, w1, cnt1)
  BY DEF Events, EventTypes, Pointed

\* Descriptors are removed, and their events.
LEMMA EventsCleared ==
  ASSUME NEW p, NEW ret, NEW dbl, NEW w, NEW cnt, NEW gone, gone \subseteq Owned,
         Events(p, results, ret, active, dbl, w, cnt),
         NEW act1, active \ gone \subseteq act1,
         NEW ret1 \in [Descriptors -> Nat], \A x \in Descriptors : ret1[x] = IF x \in gone THEN 0 ELSE ret[x],
         NEW w1, \A x \in Owned \ gone : w1[x] = w[x],
         NEW cnt1 \in [Conns -> [Dirs -> 0..Limit]],
         \A c \in Conns : Connection(c) \notin gone => cnt1[c] = cnt[c]
  PROVE  Events(p, Cleared(gone, ret), ret1, act1, dbl, w1, cnt1)
  <1> DEFINE rs1 == Cleared(gone, ret)
  <1>1. /\ results \in Seq(Results) /\ Len(results) \in Nat /\ p \in Nat
        /\ Pointed(p, results, ret, active, dbl) /\ Untried(p, results, dbl, w, cnt)
        /\ EventTypes(p, results, ret, dbl, cnt)
        /\ \A i \in (p + 1)..Len(results) : i \in 1..Len(results) /\ i # 0
    BY EventsTypes DEF Events
  <1>2. /\ rs1 \in Seq(Results) /\ Len(rs1) = Len(results)
        /\ \A i \in 1..Len(results) :
             /\ rs1[i].filter = results[i].filter
             /\ rs1[i].bfd = IF \E x \in gone \intersect active : ret[x] = i THEN Removed ELSE results[i].bfd
    <2> DEFINE R(i) == IF \E x \in gone \intersect active : ret[x] = i
                       THEN [results[i] EXCEPT !.bfd = Removed] ELSE results[i]
    <2>1. rs1 = [i \in 1..Len(results) |-> R(i)]
      BY <1>1 DEF Cleared
    <2>2. ASSUME NEW i \in 1..Len(results)
          PROVE  /\ R(i) \in Results /\ R(i).filter = results[i].filter
                 /\ R(i).bfd = IF \E x \in gone \intersect active : ret[x] = i THEN Removed ELSE results[i].bfd
      <3>1. results[i] \in Results
        BY <1>1
      <3>2. [results[i] EXCEPT !.bfd = Removed] \in Results
        BY <3>1 DEF Results
      <3> QED
        BY <3>1, <3>2 DEF Results
    <2> HIDE DEF R
    <2>3. rs1 \in Seq(Results) /\ Len(rs1) = Len(results) /\ \A i \in 1..Len(results) : rs1[i] = R(i)
      BY <1>1, <2>1, <2>2
    <2> QED
      BY <2>2, <2>3
  <1> HIDE DEF rs1
  <1>3. ASSUME NEW x \in Descriptors, x \notin gone, NEW i \in (p + 1)..Len(results)
        PROVE  results[i].bfd = x <=> rs1[i].bfd = x
    <2>1. i \in 1..Len(results) /\ i # 0
      BY <1>1
    <2>2. CASE \E y \in gone \intersect active : ret[y] = i
      <3>1. PICK y \in gone \intersect active : ret[y] = i
        BY <2>2
      <3>2. results[i].bfd = y
        BY <1>1, <2>1, <3>1, DescriptorFacts, Zenon DEF Pointed
      <3>3. rs1[i].bfd = Removed
        BY <1>2, <2>1, <2>2
      <3> QED
        BY <1>3, <3>1, <3>2, <3>3, DescriptorFacts
    <2> QED
      BY <1>2, <2>1, <2>2
  <1>4. ASSUME NEW x \in gone, x \notin dbl, NEW i \in (p + 1)..Len(results)
        PROVE  rs1[i].bfd # x
    <2>1. i \in 1..Len(results) /\ i # 0 /\ x \in Owned /\ x \in Descriptors /\ x # Removed
      BY <1>1, DescriptorFacts
    <2>2. CASE results[i].bfd = x
      <3>1. ret[x] = i
        BY <1>1, <1>4, <2>1, <2>2, Zenon DEF Pointed
      <3>2. x \in active
        BY <1>1, <2>1, <3>1, Zenon DEF Pointed
      <3> QED
        BY <1>2, <2>1, <3>1, <3>2
    <2> QED
      BY <1>2, <2>1, <2>2
  <1>5. Pointed(p, rs1, ret1, act1, dbl)
    <2>1. ASSUME NEW x \in Descriptors, ret1[x] # 0
          PROVE  x \in act1 /\ ret1[x] \in (p + 1)..Len(rs1) /\ rs1[ret1[x]].bfd = x
      <3>1. x \notin gone /\ ret1[x] = ret[x]
        BY <2>1
      <3>2. x \in active /\ ret[x] \in (p + 1)..Len(results) /\ results[ret[x]].bfd = x
        BY <1>1, <2>1, <3>1, Zenon DEF Pointed
      <3> QED
        BY <1>2, <1>3, <3>1, <3>2
    <2>2. ASSUME NEW x \in Owned, NEW i \in (p + 1)..Len(rs1), x \notin dbl, rs1[i].bfd = x
          PROVE  ret1[x] = i
      <3>1. x \in Descriptors /\ i \in (p + 1)..Len(results)
        BY <1>2, DescriptorFacts
      <3>2. x \notin gone /\ results[i].bfd = x
        BY <1>3, <1>4, <2>2, <3>1
      <3>3. ret[x] = i
        BY <1>1, <2>2, <3>1, <3>2, Zenon DEF Pointed
      <3> QED
        BY <3>1, <3>2, <3>3
    <2> QED
      BY <2>1, <2>2 DEF Pointed
  <1>6. Untried(p, rs1, dbl, w1, cnt1)
    <2> SUFFICES ASSUME NEW i \in (p + 1)..Len(rs1), NEW c \in Conns,
                        Connection(c) \notin dbl, rs1[i].bfd = Connection(c)
                 PROVE  rs1[i].filter \in w1[Connection(c)] /\ cnt1[c][rs1[i].filter] = 0
      BY DEF Untried
    <2>1. /\ i \in (p + 1)..Len(results) /\ i \in 1..Len(results)
          /\ Connection(c) \in Owned /\ Connection(c) \in Descriptors
      BY <1>1, <1>2, DescriptorFacts
    <2>2. Connection(c) \notin gone
      BY <1>4, <2>1
    <2>3. results[i].bfd = Connection(c) /\ rs1[i].filter = results[i].filter
      BY <1>2, <1>3, <2>1, <2>2
    <2>4. results[i].filter \in w[Connection(c)] /\ cnt[c][results[i].filter] = 0
      BY <1>1, <2>1, <2>3, Zenon DEF Untried
    <2> QED
      BY <2>1, <2>2, <2>3, <2>4
  <1>7. EventTypes(p, rs1, ret1, dbl, cnt1)
    BY <1>1, <1>2 DEF EventTypes
  <1> QED
    BY <1>5, <1>6, <1>7 DEF Events, rs1

-----------------------------------------------------------------------------
(* The functions that jobs and handlers call. *)

\* What they find, the list js being left and p results dispatched, and what they leave.
Here(p, js, ret) ==
  Good(active, wait, js, io) /\ Events(p, results, ret, active, doubled, wait, count)
There(p) ==
  Good(active', wait', jobs', io') /\ Events(p, results', returned', active', doubled, wait', count')

LEMMA HereFacts ==
  ASSUME NEW p, NEW js, NEW ret, Here(p, js, ret)
  PROVE  /\ active \subseteq Descriptors /\ Device \in active
         /\ wait \in [Descriptors -> SUBSET Dirs] /\ js \in Lists(Jobs)
         /\ io \in [Conns -> [Dirs -> IoStates]] /\ count \in [Conns -> [Dirs -> 0..Limit]]
         /\ ret \in [Descriptors -> Nat] /\ results \in Seq(Results)
         /\ OneJob(active, js, io) /\ Armed(active, wait, io)
  BY DEF Here, Good, Events, EventTypes

LEMMA Zeros == None \in [Dirs -> IoStates] /\ Zero \in [Dirs -> 0..Limit] /\ \A d \in Dirs : None[d] = "none" /\ Zero[d] = 0
  BY BConnectionAssumption DEF None, Zero, IoStates

LEMMA FreeThere ==
  ASSUME NEW c \in Conns, NEW p, NEW js, NEW ret, Here(p, js, ret), Free(c, js, ret)
  PROVE  There(p)
  <1>1. /\ active \subseteq Descriptors /\ Device \in active
        /\ wait \in [Descriptors -> SUBSET Dirs] /\ js \in Lists(Jobs)
        /\ io \in [Conns -> [Dirs -> IoStates]] /\ count \in [Conns -> [Dirs -> 0..Limit]]
        /\ ret \in [Descriptors -> Nat]
        /\ OneJob(active, js, io) /\ Armed(active, wait, io)
    BY HereFacts
  <1>2. /\ active' = active \ Of(c) /\ results' = Cleared(Of(c), ret) /\ jobs' = JobsLeft(js, c)
        /\ wait' \in [Descriptors -> SUBSET Dirs] /\ returned' \in [Descriptors -> Nat]
        /\ \A x \in Descriptors : wait'[x] = IF x \in Of(c) THEN {} ELSE wait[x]
        /\ \A x \in Descriptors : returned'[x] = IF x \in Of(c) THEN 0 ELSE ret[x]
    BY <1>1 DEF Free
  <1>3. /\ io' \in [Conns -> [Dirs -> IoStates]] /\ count' \in [Conns -> [Dirs -> 0..Limit]]
        /\ \A e \in Conns : io'[e] = IF e = c THEN None ELSE io[e]
        /\ \A e \in Conns : count'[e] = IF e = c THEN Zero ELSE count[e]
    BY <1>1, Zeros DEF Free
  <1>4. jobs' \in Lists(Jobs) /\ \A y : In(jobs', y) <=> In(js, y) /\ y \notin JobsOf(c)
    BY <1>1, <1>2, JobsLeftFacts
  <1>5. OneJob(active', jobs', io')
    <2> SUFFICES ASSUME NEW e \in Conns
                 PROVE  /\ \A d \in Dirs :
                             /\ ~(In(jobs', OpJob(e, d)) /\ In(jobs', DoneJob(e, d)))
                             /\ In(jobs', OpJob(e, d)) \/ In(jobs', DoneJob(e, d)) => io'[e][d] = "ready"
                        /\ In(jobs', ConnectedJob(e)) => Connector(e) \notin active' /\ Connection(e) \notin active'
                        /\ ~(Connector(e) \in active' /\ Connection(e) \in active')
      BY Zenon DEF OneJob
    <2>1. CASE e = c
      BY <1>2, <1>4, <2>1, JobFacts, OfFacts
    <2>2. CASE e # c
      <3>1. io'[e] = io[e]
        BY <1>3, <2>2
      <3> QED
        BY <1>1, <1>2, <1>4, <3>1, Zenon DEF OneJob
    <2> QED
      BY <2>1, <2>2
  <1>6. Armed(active', wait', io')
    <2> SUFFICES ASSUME NEW e \in Conns
                 PROVE  /\ \A d \in Dirs :
                             /\ d \in wait'[Connection(e)] <=> io'[e][d] = "busy"
                             /\ io'[e][d] # "none" <=> Connection(e) \in active'
                        /\ wait'[Connector(e)] = IF Connector(e) \in active' THEN {"WRITE"} ELSE {}
      BY Zenon DEF Armed
    <2>0. Connector(e) \in Descriptors /\ Connection(e) \in Descriptors
      BY DescriptorFacts
    <2>1. CASE e = c
      <3>1. /\ Connector(e) \in Of(c) /\ Connection(e) \in Of(c)
            /\ wait'[Connector(e)] = {} /\ wait'[Connection(e)] = {} /\ io'[e] = None
        BY <1>2, <1>3, <2>0, <2>1, OfFacts
      <3> QED
        BY <1>2, <3>1, Zeros
    <2>2. CASE e # c
      <3>1. /\ io'[e] = io[e] /\ Connector(e) \notin Of(c) /\ Connection(e) \notin Of(c)
            /\ wait'[Connector(e)] = wait[Connector(e)] /\ wait'[Connection(e)] = wait[Connection(e)]
        BY <1>2, <1>3, <2>0, <2>2, OfFacts
      <3> QED
        BY <1>1, <1>2, <3>1 DEF Armed
    <2> QED
      BY <2>1, <2>2
  <1>7. Good(active', wait', jobs', io')
    BY <1>1, <1>2, <1>3, <1>4, <1>5, <1>6, DescriptorFacts, OfFacts DEF Good
  <1>8. Events(p, Cleared(Of(c), ret), returned', active', doubled, wait', count')
    <2>1. Events(p, results, ret, active, doubled, wait, count)
      BY DEF Here
    <2>2. \A e \in Conns : Connection(e) \notin Of(c) => count'[e] = count[e]
      BY <1>3, OfFacts
    <2>3. Of(c) \subseteq Owned /\ active \ Of(c) \subseteq active' /\ \A x \in Owned \ Of(c) : wait'[x] = wait[x]
      BY <1>2, OfFacts, DescriptorFacts
    <2> QED
      BY <1>2, <1>3, <2>1, <2>2, <2>3, EventsCleared
  <1> QED
    BY <1>2, <1>7, <1>8 DEF There

LEMMA ConnectedThere ==
  ASSUME NEW c \in Conns, NEW p, NEW js, NEW ret, Here(p, js, ret), Connected(c, js, ret),
         Connection(c) \notin active, ~In(js, ConnectedJob(c))
  PROVE  There(p)
  <1>1. /\ active \subseteq Descriptors /\ Device \in active
        /\ wait \in [Descriptors -> SUBSET Dirs] /\ js \in Lists(Jobs)
        /\ io \in [Conns -> [Dirs -> IoStates]] /\ count \in [Conns -> [Dirs -> 0..Limit]]
        /\ ret \in [Descriptors -> Nat]
        /\ OneJob(active, js, io) /\ Armed(active, wait, io)
    BY HereFacts
  <1>0. /\ Connector(c) \in Descriptors /\ Connection(c) \in Descriptors /\ Connector(c) # Connection(c)
        /\ Connector(c) \in Owned /\ Connector(c) # Device
    BY DescriptorFacts
  <1>a. \A d \in Dirs : io[c][d] = "none" /\ d \notin wait[Connection(c)]
    BY <1>1 DEF Armed
  <1>b. ret[Connection(c)] = 0
    BY <1>0 DEF Here, Events, Pointed
  <1>2. /\ active' = (active \ {Connector(c)}) \union {Connection(c)} /\ results' = Cleared({Connector(c)}, ret)
        /\ jobs' = <<OpJob(c, "WRITE")>> \o js /\ count' = count
        /\ wait' \in [Descriptors -> SUBSET Dirs] /\ returned' \in [Descriptors -> Nat]
        /\ \A x \in Descriptors : wait'[x] = IF x = Connector(c) THEN {} ELSE wait[x]
        /\ \A x \in Descriptors : returned'[x] = IF x \in {Connector(c)} THEN 0 ELSE ret[x]
    BY <1>0, <1>1, <1>b DEF Connected
  <1>3. /\ io' \in [Conns -> [Dirs -> IoStates]]
        /\ \A e \in Conns : e # c => io'[e] = io[e]
        /\ \A d \in Dirs : io'[c][d] = "ready"
    BY <1>1 DEF Connected, IoStates
  <1>c. "WRITE" \in Dirs
    BY DEF Dirs
  <1>d. \A d \in Dirs : ~In(js, OpJob(c, d)) /\ ~In(js, DoneJob(c, d))
    BY <1>1, <1>a DEF OneJob
  <1>4. jobs' \in Lists(Jobs) /\ \A y : In(jobs', y) <=> y = OpJob(c, "WRITE") \/ In(js, y)
    BY <1>1, <1>2, <1>c, <1>d, JobFacts, FirstFacts
  <1>5. OneJob(active', jobs', io')
    <2> SUFFICES ASSUME NEW e \in Conns
                 PROVE  /\ \A d \in Dirs :
                             /\ ~(In(jobs', OpJob(e, d)) /\ In(jobs', DoneJob(e, d)))
                             /\ In(jobs', OpJob(e, d)) \/ In(jobs', DoneJob(e, d)) => io'[e][d] = "ready"
                        /\ In(jobs', ConnectedJob(e)) => Connector(e) \notin active' /\ Connection(e) \notin active'
                        /\ ~(Connector(e) \in active' /\ Connection(e) \in active')
      BY Zenon DEF OneJob
    <2>1. CASE e = c
      BY <1>0, <1>2, <1>3, <1>4, <1>d, <2>1, JobNames
    <2>2. CASE e # c
      <3>1. /\ io'[e] = io[e] /\ Connection(e) # Connection(c)
            /\ \A d \in Dirs : OpJob(e, d) # OpJob(c, "WRITE") /\ DoneJob(e, d) # OpJob(c, "WRITE")
            /\ ConnectedJob(e) # OpJob(c, "WRITE") /\ Connector(e) # Connection(c)
        BY <1>3, <2>2, DescriptorFacts, JobNames
      <3> QED
        BY <1>1, <1>2, <1>4, <3>1, Zenon DEF OneJob
    <2> QED
      BY <2>1, <2>2
  <1>6. Armed(active', wait', io')
    <2> SUFFICES ASSUME NEW e \in Conns
                 PROVE  /\ \A d \in Dirs :
                             /\ d \in wait'[Connection(e)] <=> io'[e][d] = "busy"
                             /\ io'[e][d] # "none" <=> Connection(e) \in active'
                        /\ wait'[Connector(e)] = IF Connector(e) \in active' THEN {"WRITE"} ELSE {}
      BY Zenon DEF Armed
    <2>0. /\ Connector(e) \in Descriptors /\ Connection(e) \in Descriptors /\ Connector(c) # Connection(e)
          /\ Connector(e) # Connection(c)
      BY DescriptorFacts
    <2>1. CASE e = c
      BY <1>0, <1>2, <1>3, <1>a, <2>1
    <2>2. CASE e # c
      <3>1. /\ io'[e] = io[e] /\ Connector(e) # Connector(c) /\ Connection(e) # Connection(c)
            /\ wait'[Connector(e)] = wait[Connector(e)] /\ wait'[Connection(e)] = wait[Connection(e)]
            /\ Connection(e) \in active' <=> Connection(e) \in active
            /\ Connector(e) \in active' <=> Connector(e) \in active
        BY <1>2, <1>3, <2>0, <2>2, DescriptorFacts
      <3> QED
        BY <1>1, <3>1, Zenon DEF Armed
    <2> QED
      BY <2>1, <2>2
  <1>7. Good(active', wait', jobs', io')
    BY <1>0, <1>1, <1>2, <1>3, <1>4, <1>5, <1>6 DEF Good
  <1>8. Events(p, Cleared({Connector(c)}, ret), returned', active', doubled, wait', count')
    <2>1. Events(p, results, ret, active, doubled, wait, count)
      BY DEF Here
    <2>2. /\ {Connector(c)} \subseteq Owned /\ active \ {Connector(c)} \subseteq active'
          /\ \A x \in Owned \ {Connector(c)} : wait'[x] = wait[x]
      BY <1>0, <1>2, DescriptorFacts
    <2> QED
      BY <1>1, <1>2, <2>1, <2>2, EventsCleared
  <1> QED
    BY <1>2, <1>7, <1>8 DEF There

LEMMA ConnectorInitThere ==
  ASSUME NEW c \in Conns, NEW p, NEW js, NEW ret, Here(p, js, ret), BConnector_Init(c, js, ret)
  PROVE  There(p)
  <1>1. /\ active \subseteq Descriptors /\ Device \in active
        /\ wait \in [Descriptors -> SUBSET Dirs] /\ js \in Lists(Jobs)
        /\ io \in [Conns -> [Dirs -> IoStates]] /\ count \in [Conns -> [Dirs -> 0..Limit]]
        /\ ret \in [Descriptors -> Nat]
        /\ OneJob(active, js, io) /\ Armed(active, wait, io)
    BY HereFacts
  <1>2. /\ Connector(c) \notin active /\ Connection(c) \notin active
        /\ \A j \in JobsOf(c) : ~In(js, j)
        /\ io' = io /\ count' = count /\ results' = results
    BY <1>1, OfFacts DEF BConnector_Init, In, Lists
  <1>0. /\ Connector(c) \in Descriptors /\ Connection(c) \in Descriptors /\ Connector(c) # Connection(c)
    BY DescriptorFacts
  <1>b. ret[Connector(c)] = 0
    BY <1>0, <1>2 DEF Here, Events, Pointed
  <1>3. returned' = ret
    BY <1>0, <1>1, <1>b DEF BConnector_Init
  <1>4. CASE active' = active \union {Connector(c)}
    <2>1. /\ jobs' = js /\ wait' = [wait EXCEPT ![Connector(c)] = {"WRITE"}]
      BY <1>0, <1>2, <1>4 DEF BConnector_Init
    <2>2. wait' \in [Descriptors -> SUBSET Dirs]
          /\ \A x \in Descriptors : wait'[x] = IF x = Connector(c) THEN {"WRITE"} ELSE wait[x]
      BY <1>0, <1>1, <2>1 DEF Dirs
    <2>3. OneJob(active', jobs', io')
      <3>1. /\ ~In(js, ConnectedJob(c)) /\ \A e \in Conns : e # c => Connector(e) # Connector(c)
            /\ \A e \in Conns : Connection(e) # Connector(c)
        BY <1>2, JobFacts, DescriptorFacts
      <3> QED
        BY <1>1, <1>2, <1>4, <2>1, <3>1 DEF OneJob
    <2>4. Armed(active', wait', io')
      <3>1. \A e \in Conns : /\ e # c => Connector(e) # Connector(c)
                             /\ Connection(e) # Connector(c)
                             /\ Connection(e) \in Descriptors /\ Connector(e) \in Descriptors
        BY DescriptorFacts
      <3> QED
        BY <1>1, <1>2, <1>4, <2>2, <3>1 DEF Armed
    <2>5. Events(p, results, ret, active', doubled, wait', count)
      <3>1. Untried(p, results, doubled, wait', count)
        <4>1. Untried(p, results, doubled, wait, count)
          BY DEF Here, Events
        <4>2. \A e \in Conns : wait'[Connection(e)] = wait[Connection(e)]
          BY <2>2, DescriptorFacts
        <4> QED
          BY <4>1, <4>2, Zenon DEF Untried
      <3> QED
        BY <1>1, <1>4, <3>1, EventsStay DEF Here
    <2> QED
      BY <1>0, <1>1, <1>2, <1>3, <1>4, <2>1, <2>2, <2>3, <2>4, <2>5 DEF There, Good
  <1>5. CASE active' = active /\ wait' = wait
    <2>1. jobs' = <<ConnectedJob(c)>> \o js
      BY <1>0, <1>1, <1>2, <1>5 DEF BConnector_Init
    <2>2. jobs' \in Lists(Jobs) /\ \A y : In(jobs', y) <=> y = ConnectedJob(c) \/ In(js, y)
      BY <1>1, <1>2, <2>1, JobFacts, FirstFacts
    <2>3. OneJob(active', jobs', io')
      BY <1>1, <1>2, <1>5, <2>2, JobNames DEF OneJob
    <2> QED
      BY <1>1, <1>2, <1>3, <1>5, <2>2, <2>3 DEF There, Good, Here
  <1> QED
    BY <1>4, <1>5 DEF BConnector_Init

LEMMA StartOperationsThere ==
  ASSUME NEW c \in Conns, NEW p, NEW js, NEW ret, Here(p, js, ret), StartOperations(c, js),
         returned' = ret, UNCHANGED <<active, wait, results, io, count>>
  PROVE  There(p)
  <1> DEFINE D == {d \in Dirs : io[c][d] = "ready" /\ PendingJobs(js, c, d) = {}}
  <1>1. js \in Lists(Jobs) /\ DOMAIN js = 1..Len(js) /\ OneJob(active, js, io)
    BY HereFacts DEF Lists
  <1>2. \A d \in D : d \in Dirs /\ io[c][d] = "ready" /\ ~In(js, OpJob(c, d)) /\ ~In(js, DoneJob(c, d))
    BY <1>1 DEF PendingJobs, In
  <1>3. PICK ds \in BoundedSeq(D, 2) :
          IsInjective(ds) /\ jobs' = [i \in DOMAIN ds |-> OpJob(c, ds[i])] \o js
    BY DEF StartOperations
  <1>4. D \subseteq Dirs
    OBVIOUS
  <1> HIDE DEF D
  <1>5. PICK more \in Lists(Jobs) : /\ jobs' = more \o js
                                    /\ \A y : In(more, y) => \E d \in D : y = OpJob(c, d)
    BY <1>3, <1>4, StartedFacts
  <1>6. jobs' \in Lists(Jobs) /\ \A y : In(jobs', y) <=> In(more, y) \/ In(js, y)
    BY <1>1, <1>2, <1>5, ConcatFacts
  <1>7. OneJob(active', jobs', io')
    <2> SUFFICES ASSUME NEW e \in Conns
                 PROVE  /\ \A d \in Dirs :
                             /\ ~(In(jobs', OpJob(e, d)) /\ In(jobs', DoneJob(e, d)))
                             /\ In(jobs', OpJob(e, d)) \/ In(jobs', DoneJob(e, d)) => io[e][d] = "ready"
                        /\ In(jobs', ConnectedJob(e)) => Connector(e) \notin active /\ Connection(e) \notin active
                        /\ ~(Connector(e) \in active /\ Connection(e) \in active)
      BY Zenon DEF OneJob
    <2>1. /\ ~In(more, ConnectedJob(e))
          /\ \A d \in Dirs : ~In(more, DoneJob(e, d)) /\ (In(more, OpJob(e, d)) => e = c /\ d \in D)
      BY <1>5, JobNames
    <2> QED
      BY <1>1, <1>2, <1>6, <2>1 DEF OneJob
  <1> QED
    BY <1>6, <1>7 DEF Here, There, Good

\* The direction that is tried has no job, does not wait in w and has no event to come.
LEMMA TryThere ==
  ASSUME NEW c \in Conns, NEW d \in Dirs, NEW p, NEW js, NEW ret, NEW w \in [Descriptors -> SUBSET Dirs],
         Here(p, js, ret), Try(c, d, w, js, ret), Connection(c) \in active,
         ~In(js, OpJob(c, d)), ~In(js, DoneJob(c, d)),
         \A x \in Descriptors : w[x] = IF x = Connection(c) THEN wait[x] \ {d} ELSE wait[x],
         \A i \in (p + 1)..Len(results) :
           Connection(c) \notin doubled /\ results[i].bfd = Connection(c) => results[i].filter # d
  PROVE  There(p)
  <1>1. /\ active \subseteq Descriptors /\ Device \in active
        /\ wait \in [Descriptors -> SUBSET Dirs] /\ js \in Lists(Jobs)
        /\ io \in [Conns -> [Dirs -> IoStates]] /\ count \in [Conns -> [Dirs -> 0..Limit]]
        /\ ret \in [Descriptors -> Nat]
        /\ OneJob(active, js, io) /\ Armed(active, wait, io)
    BY HereFacts
  <1>0. /\ Connector(c) \in Descriptors /\ Connection(c) \in Descriptors /\ Connector(c) # Connection(c)
        /\ \A e \in Conns : /\ e # c => Connection(e) # Connection(c)
                            /\ Connector(e) # Connection(c)
                            /\ Connection(e) \in Descriptors /\ Connector(e) \in Descriptors
    BY DescriptorFacts
  <1>a. \A f \in Dirs : (f \in wait[Connection(c)] <=> io[c][f] = "busy") /\ io[c][f] # "none"
    BY <1>1 DEF Armed
  <1>2. Events(p, results, ret, active, doubled, wait, count)
    BY DEF Here
  <1>3. MayTry(c, d) => /\ Counted(c, d) \in [Conns -> [Dirs -> 0..Limit]]
                        /\ \A e \in Conns, f \in Dirs : e # c \/ f # d => Counted(c, d)[e][f] = count[e][f]
    <2>1. count[c] \in [Dirs -> 0..Limit] /\ Limit \in Nat
      BY <1>1, BConnectionAssumption
    <2>2. MayTry(c, d) => [count[c] EXCEPT ![d] = @ + 1] \in [Dirs -> 0..Limit]
      <3>1. MayTry(c, d) => count[c][d] + 1 \in 0..Limit
        BY <2>1 DEF MayTry
      <3> QED
        BY <2>1, <3>1
    <2> QED
      BY <1>1, <2>1, <2>2 DEF Counted
  \* Events to come are for other directions.
  <1>4. ASSUME NEW cnt1 \in [Conns -> [Dirs -> 0..Limit]], NEW w1 \in [Descriptors -> SUBSET Dirs],
               \A e \in Conns, f \in Dirs : e # c \/ f # d =>
                 cnt1[e][f] = count[e][f] /\ (f \in wait[Connection(e)] => f \in w1[Connection(e)])
        PROVE  Events(p, results, ret, active, doubled, w1, cnt1)
    <2>1. Untried(p, results, doubled, w1, cnt1)
      <3> SUFFICES ASSUME NEW i \in (p + 1)..Len(results), NEW e \in Conns,
                          Connection(e) \notin doubled, results[i].bfd = Connection(e)
                   PROVE  results[i].filter \in w1[Connection(e)] /\ cnt1[e][results[i].filter] = 0
        BY DEF Untried
      <3>1. results[i].filter \in wait[Connection(e)] /\ count[e][results[i].filter] = 0
        BY <1>2 DEF Events, Untried
      <3>2. results[i].filter \in Dirs
        BY <1>2, EventsTypes
      <3>3. e # c \/ results[i].filter # d
        OBVIOUS
      <3> QED
        BY <1>4, <3>1, <3>2, <3>3
    <2> QED
      BY <1>2, <1>4, <2>1, EventsStay
  <1>5. CASE /\ io' = [io EXCEPT ![c][d] = "busy"]
             /\ WaitForFd(c, d, w)
             /\ count' = (IF MayTry(c, d) THEN Counted(c, d) ELSE count)
             /\ jobs' = js /\ returned' = ret /\ UNCHANGED <<active, results>>
    <2>1. /\ io' \in [Conns -> [Dirs -> IoStates]]
          /\ \A e \in Conns, f \in Dirs : io'[e][f] = IF e = c /\ f = d THEN "busy" ELSE io[e][f]
      BY <1>1, <1>5 DEF IoStates
    <2>2. /\ wait' \in [Descriptors -> SUBSET Dirs]
          /\ \A x \in Descriptors : wait'[x] = IF x = Connection(c) THEN wait[x] \union {d} ELSE wait[x]
      BY <1>0, <1>1, <1>5 DEF WaitForFd
    <2>3. /\ count' \in [Conns -> [Dirs -> 0..Limit]]
          /\ \A e \in Conns, f \in Dirs : e # c \/ f # d => count'[e][f] = count[e][f]
      BY <1>1, <1>3, <1>5
    <2>4. OneJob(active', jobs', io')
      <3> SUFFICES ASSUME NEW e \in Conns
                   PROVE  /\ \A f \in Dirs :
                               /\ ~(In(js, OpJob(e, f)) /\ In(js, DoneJob(e, f)))
                               /\ In(js, OpJob(e, f)) \/ In(js, DoneJob(e, f)) => io'[e][f] = "ready"
                          /\ In(js, ConnectedJob(e)) => Connector(e) \notin active /\ Connection(e) \notin active
                          /\ ~(Connector(e) \in active /\ Connection(e) \in active)
        BY <1>5, Zenon DEF OneJob
      <3> QED
        BY <1>1, <2>1 DEF OneJob
    <2>5. Armed(active', wait', io')
      <3> SUFFICES ASSUME NEW e \in Conns
                   PROVE  /\ \A f \in Dirs :
                               /\ f \in wait'[Connection(e)] <=> io'[e][f] = "busy"
                               /\ io'[e][f] # "none" <=> Connection(e) \in active
                          /\ wait'[Connector(e)] = IF Connector(e) \in active THEN {"WRITE"} ELSE {}
        BY <1>5, Zenon DEF Armed
      <3>1. wait'[Connector(e)] = wait[Connector(e)]
        BY <1>0, <2>2
      <3>2. ASSUME NEW f \in Dirs
            PROVE  /\ f \in wait'[Connection(e)] <=> io'[e][f] = "busy"
                   /\ io'[e][f] # "none" <=> Connection(e) \in active
        <4>1. CASE e = c
          BY <1>0, <1>a, <2>1, <2>2, <4>1
        <4>2. CASE e # c
          BY <1>0, <1>1, <2>1, <2>2, <4>2 DEF Armed
        <4> QED
          BY <4>1, <4>2
      <3> QED
        BY <1>1, <3>1, <3>2 DEF Armed
    <2>6. Events(p, results, ret, active, doubled, wait', count')
      <3>1. \A e \in Conns, f \in Dirs : f \in wait[Connection(e)] => f \in wait'[Connection(e)]
        BY <1>0, <2>2
      <3> QED
        BY <1>4, <2>2, <2>3, <3>1
    <2> QED
      BY <1>1, <1>5, <2>1, <2>2, <2>4, <2>5, <2>6 DEF There, Good
  <1>6. CASE /\ MayTry(c, d)
             /\ count' = Counted(c, d)
             /\ io' = [io EXCEPT ![c][d] = "ready"]
             /\ jobs' = <<DoneJob(c, d)>> \o js
             /\ wait' = w /\ returned' = ret /\ UNCHANGED <<active, results>>
    <2>1. /\ io' \in [Conns -> [Dirs -> IoStates]]
          /\ \A e \in Conns, f \in Dirs : io'[e][f] = IF e = c /\ f = d THEN "ready" ELSE io[e][f]
      BY <1>1, <1>6 DEF IoStates
    <2>2. jobs' \in Lists(Jobs) /\ \A y : In(jobs', y) <=> y = DoneJob(c, d) \/ In(js, y)
      BY <1>1, <1>6, JobFacts, FirstFacts
    <2>4. OneJob(active', jobs', io')
      <3> SUFFICES ASSUME NEW e \in Conns
                   PROVE  /\ \A f \in Dirs :
                               /\ ~(In(jobs', OpJob(e, f)) /\ In(jobs', DoneJob(e, f)))
                               /\ In(jobs', OpJob(e, f)) \/ In(jobs', DoneJob(e, f)) => io'[e][f] = "ready"
                          /\ In(jobs', ConnectedJob(e)) => Connector(e) \notin active /\ Connection(e) \notin active
                          /\ ~(Connector(e) \in active /\ Connection(e) \in active)
        BY <1>6, Zenon DEF OneJob
      <3>1. /\ ConnectedJob(e) # DoneJob(c, d)
            /\ \A f \in Dirs : OpJob(e, f) # DoneJob(c, d) /\ (DoneJob(e, f) = DoneJob(c, d) => e = c /\ f = d)
        BY JobNames
      <3> QED
        BY <1>1, <2>1, <2>2, <3>1 DEF OneJob
    <2>5. Armed(active', wait', io')
      <3> SUFFICES ASSUME NEW e \in Conns
                   PROVE  /\ \A f \in Dirs :
                               /\ f \in w[Connection(e)] <=> io'[e][f] = "busy"
                               /\ io'[e][f] # "none" <=> Connection(e) \in active
                          /\ w[Connector(e)] = IF Connector(e) \in active THEN {"WRITE"} ELSE {}
        BY <1>6, Zenon DEF Armed
      <3>1. w[Connector(e)] = wait[Connector(e)]
        BY <1>0
      <3>2. ASSUME NEW f \in Dirs
            PROVE  /\ f \in w[Connection(e)] <=> io'[e][f] = "busy"
                   /\ io'[e][f] # "none" <=> Connection(e) \in active
        <4>1. CASE e = c
          <5>1. w[Connection(c)] = wait[Connection(c)] \ {d} /\ io'[c][f] = IF f = d THEN "ready" ELSE io[c][f]
            BY <1>0, <2>1
          <5> QED
            BY <1>a, <4>1, <5>1
        <4>2. CASE e # c
          BY <1>0, <1>1, <2>1, <4>2 DEF Armed
        <4> QED
          BY <4>1, <4>2
      <3> QED
        BY <1>1, <3>1, <3>2 DEF Armed
    <2>6. Events(p, results, ret, active, doubled, wait', count')
      <3>1. \A e \in Conns, f \in Dirs : e # c \/ f # d =>
              (f \in wait[Connection(e)] => f \in wait'[Connection(e)])
        BY <1>0, <1>6
      <3> QED
        BY <1>3, <1>4, <1>6, <3>1
    <2> QED
      BY <1>1, <1>6, <2>1, <2>2, <2>4, <2>5, <2>6 DEF There, Good
  <1>7. CASE MayTry(c, d) /\ Free(c, js, ret)
    BY <1>7, FreeThere
  <1> QED
    BY <1>5, <1>6, <1>7 DEF Try

-----------------------------------------------------------------------------
(* The steps. *)

LEMMA FewerJobs ==
  ASSUME IInv, jobs # <<>>
  PROVE  /\ Here(pos, Tail(jobs), returned) /\ jobs \in Lists(Jobs) /\ In(jobs, Head(jobs))
         /\ LessOne(Tail(jobs), jobs, Head(jobs))
  <1>1. /\ Good(active, wait, jobs, io) /\ OneJob(active, jobs, io) /\ jobs \in Lists(Jobs)
        /\ Events(pos, results, returned, active, doubled, wait, count)
    BY DEF IInv, Good
  <1>2. /\ Tail(jobs) \in Lists(Jobs) /\ LessOne(Tail(jobs), jobs, Head(jobs)) /\ In(jobs, Head(jobs))
    BY <1>1, TailFacts
  <1>3. OneJob(active, Tail(jobs), io)
    BY <1>1, <1>2, Zenon DEF OneJob, LessOne
  <1> QED
    BY <1>1, <1>2, <1>3 DEF Good, Here

LEMMA ExecuteJobInv ==
  ASSUME IInv, ExecuteJob
  PROVE  IInv'
  <1>1. jobs # <<>> /\ UNCHANGED <<pos, stale, doubled>>
    BY DEF ExecuteJob
  <1>2. /\ Here(pos, Tail(jobs), returned) /\ jobs \in Lists(Jobs) /\ In(jobs, Head(jobs))
        /\ LessOne(Tail(jobs), jobs, Head(jobs)) /\ OneJob(active, jobs, io) /\ Armed(active, wait, io)
        /\ wait \in [Descriptors -> SUBSET Dirs]
        /\ Events(pos, results, returned, active, doubled, wait, count)
    BY <1>1, FewerJobs DEF IInv, Good
  <1>3. PICK c \in Conns : \/ \E d \in Dirs : Operation(c, d, Tail(jobs)) \/ Done(c, d, Tail(jobs))
                           \/ ConnectorJob(c, Tail(jobs))
    BY DEF ExecuteJob
  <1>0. Connection(c) \in Descriptors
    BY DescriptorFacts
  <1>4. ASSUME NEW d \in Dirs, Operation(c, d, Tail(jobs)) PROVE There(pos)
    <2>1. Head(jobs) = OpJob(c, d) /\ Try(c, d, wait, Tail(jobs), returned)
      BY <1>4 DEF Operation
    <2>2. io[c][d] = "ready" /\ ~In(jobs, DoneJob(c, d))
      BY <1>2, <2>1 DEF OneJob
    <2>3. Connection(c) \in active /\ d \notin wait[Connection(c)]
      BY <1>2, <2>2 DEF Armed
    <2>4. ~In(Tail(jobs), OpJob(c, d)) /\ ~In(Tail(jobs), DoneJob(c, d))
      BY <1>2, <2>1, <2>2, Zenon DEF LessOne
    <2>5. \A x \in Descriptors : wait[x] = IF x = Connection(c) THEN wait[x] \ {d} ELSE wait[x]
      BY <2>3
    <2>6. \A i \in (pos + 1)..Len(results) :
            Connection(c) \notin doubled /\ results[i].bfd = Connection(c) => results[i].filter # d
      BY <1>2, <2>3 DEF Events, Untried
    <2> QED
      BY <1>2, <2>1, <2>3, <2>4, <2>5, <2>6, TryThere
  <1>5. ASSUME NEW d \in Dirs, Done(c, d, Tail(jobs)) PROVE There(pos)
    <2>1. CASE StartOperations(c, Tail(jobs)) /\ UNCHANGED <<active, wait, results, returned, io, count>>
      BY <1>2, <2>1, StartOperationsThere
    <2>2. CASE Free(c, Tail(jobs), returned)
      BY <1>2, <2>2, FreeThere
    <2> QED
      BY <1>5, <2>1, <2>2 DEF Done
  <1>6. ASSUME ConnectorJob(c, Tail(jobs)) PROVE There(pos)
    <2>1. Head(jobs) = ConnectedJob(c)
      BY <1>6 DEF ConnectorJob
    <2>2. Connection(c) \notin active /\ ~In(Tail(jobs), ConnectedJob(c))
      BY <1>2, <2>1, Zenon DEF OneJob, LessOne
    <2> QED
      <3>1. CASE Connected(c, Tail(jobs), returned)
        BY <1>2, <2>2, <3>1, ConnectedThere
      <3>2. CASE Free(c, Tail(jobs), returned)
        BY <1>2, <3>2, FreeThere
      <3> QED
        BY <1>6, <3>1, <3>2 DEF ConnectorJob
  <1>7. There(pos)
    BY <1>3, <1>4, <1>5, <1>6, Zenon
  <1> QED
    BY <1>1, <1>7, NextInv DEF There

LEMMA DispatchKeventInv ==
  ASSUME IInv, DispatchKevent
  PROVE  IInv'
  <1> DEFINE bfd == results[pos + 1].bfd
             d == results[pos + 1].filter
             ret == [returned EXCEPT ![bfd] = 0]
  <1>1. pos < Len(results) /\ pos' = pos + 1 /\ doubled' = doubled /\ jobs = <<>>
    BY DEF DispatchKevent
  <1>2. /\ Good(active, wait, jobs, io) /\ Events(pos, results, returned, active, doubled, wait, count)
        /\ results \in Seq(Results) /\ Len(results) \in Nat /\ pos \in Nat
        /\ returned \in [Descriptors -> Nat] /\ OneJob(active, jobs, io) /\ Armed(active, wait, io)
        /\ wait \in [Descriptors -> SUBSET Dirs]
    BY EventsTypes DEF IInv, Good
  <1>3. pos + 1 \in 1..Len(results) /\ pos + 1 \in (pos + 1)..Len(results) /\ (pos + 1) + 1 = pos + 2
    BY <1>1, <1>2
  <1>4. bfd \in Descriptors \union {Removed} /\ d \in Dirs
    BY <1>2, <1>3, EventsTypes
  <1>5. \A x : ~In(jobs, x)
    BY <1>1 DEF In
  <1>6. /\ ret \in [Descriptors -> Nat] /\ \A x \in Descriptors : ret[x] = IF x = bfd THEN 0 ELSE returned[x]
    BY <1>2, <1>4
  <1> HIDE DEF ret
  <1>7. /\ Here(pos + 1, jobs, ret)
        /\ \A i \in (pos + 2)..Len(results) : results[i].bfd \in Owned /\ results[i].bfd \notin doubled => results[i].bfd # bfd
    BY <1>1, <1>2, <1>6, OneLess DEF Here
  <1>8. bfd = Removed => Here(pos + 1, jobs, returned)
    <2>1. bfd = Removed => \A x \in Descriptors : returned[x] = IF x = bfd THEN 0 ELSE returned[x]
      BY DescriptorFacts
    <2> QED
      BY <1>1, <1>2, <2>1, OneLess DEF Here
  <1>9. bfd \notin active => ~(bfd \in Descriptors /\ returned[bfd] # 0)
    BY <1>2 DEF Events, Pointed
  <1>10. bfd \in Owned \ active => Here(pos + 1, jobs, returned)
    <2>1. bfd \in Owned \ active => \A x \in Descriptors : returned[x] = IF x = bfd THEN 0 ELSE returned[x]
      BY <1>9, DescriptorFacts
    <2> QED
      BY <1>1, <1>2, <2>1, OneLess DEF Here
  <1>11. \/ bfd = Removed /\ NoEvent(returned)
         \/ bfd = Device /\ DeviceHandler(ret)
         \/ bfd \in active /\ d \notin wait[bfd] /\ NoEvent(ret)
         \/ /\ bfd \in active /\ d \in wait[bfd]
            /\ \E c \in Conns :
                 \/ bfd = Connector(c) /\ connector_fd_handler(c, ret)
                 \/ bfd = Connection(c) /\ connection_fd_handler(c, d, ret)
         \/ /\ bfd \in Owned \ active /\ stale' = TRUE
            /\ UNCHANGED <<active, wait, results, returned, jobs, io, count>>
    BY DEF DispatchKevent, ret
  <1>12. \A r : Here(pos + 1, jobs, r) /\ NoEvent(r) => There(pos + 1) /\ stale' = stale
    BY DEF Here, There, NoEvent
  <1> HIDE DEF bfd, d
  <1>13. ASSUME bfd = Removed, NoEvent(returned) PROVE There(pos + 1) /\ stale' = stale
    BY <1>8, <1>12, <1>13, Zenon
  <1>14. ASSUME DeviceHandler(ret) PROVE There(pos + 1) /\ stale' = stale
    <2>1. stale' = stale
      BY <1>14 DEF DeviceHandler
    <2>2. PICK c \in Conns :
            \/ BConnector_Init(c, jobs, ret)
            \/ Free(c, jobs, ret)
            \/ StartOperations(c, jobs) /\ returned' = ret /\ UNCHANGED <<active, wait, results, io, count>>
      BY <1>14 DEF DeviceHandler
    <2>3. CASE BConnector_Init(c, jobs, ret)
      BY <1>7, <2>1, <2>3, ConnectorInitThere, Zenon
    <2>4. CASE Free(c, jobs, ret)
      BY <1>7, <2>1, <2>4, FreeThere, Zenon
    <2>5. CASE StartOperations(c, jobs) /\ returned' = ret /\ UNCHANGED <<active, wait, results, io, count>>
      BY <1>7, <2>1, <2>5, StartOperationsThere, Zenon
    <2> QED
      BY <2>1, <2>2, <2>3, <2>4, <2>5
  <1>15. ASSUME NoEvent(ret) PROVE There(pos + 1) /\ stale' = stale
    BY <1>7, <1>12, <1>15, Zenon
  <1>16. ASSUME NEW c \in Conns, bfd \in active, bfd = Connector(c), connector_fd_handler(c, ret)
         PROVE  There(pos + 1) /\ stale' = stale
    <2>1. Connection(c) \notin active /\ ~In(jobs, ConnectedJob(c))
      BY <1>2, <1>5, <1>16, Zenon DEF OneJob
    <2>2. stale' = stale /\ (Connected(c, jobs, ret) \/ Free(c, jobs, ret))
      BY <1>16 DEF connector_fd_handler
    <2>3. CASE Connected(c, jobs, ret)
      BY <1>7, <2>1, <2>2, <2>3, ConnectedThere, Zenon
    <2>4. CASE Free(c, jobs, ret)
      BY <1>7, <2>2, <2>4, FreeThere, Zenon
    <2> QED
      BY <2>2, <2>3, <2>4
  <1>17. ASSUME NEW c \in Conns, bfd \in active, bfd = Connection(c), connection_fd_handler(c, d, ret)
         PROVE  There(pos + 1) /\ stale' = stale
    <2> DEFINE w == [wait EXCEPT ![Connection(c)] = @ \ {d}]
    <2>1. Connection(c) \in Owned /\ Connection(c) \in Descriptors
      BY DescriptorFacts
    <2>2. /\ w \in [Descriptors -> SUBSET Dirs]
          /\ \A x \in Descriptors : w[x] = IF x = Connection(c) THEN wait[x] \ {d} ELSE wait[x]
      BY <1>2, <2>1
    <2>3. Try(c, d, w, jobs, ret) /\ stale' = stale
      BY <1>17 DEF connection_fd_handler
    <2> HIDE DEF w
    <2>4. \A i \in ((pos + 1) + 1)..Len(results) :
            Connection(c) \notin doubled /\ results[i].bfd = Connection(c) => results[i].filter # d
      BY <1>3, <1>7, <1>17, <2>1
    <2> QED
      <3>1. Connection(c) \in active
        BY <1>17
      <3>2. There(pos + 1)
        BY <1>4, <1>5, <1>7, <3>1, <2>2, <2>3, <2>4, TryThere
      <3> QED
        BY <2>3, <3>2
  <1>18. ASSUME bfd \in Owned \ active, UNCHANGED <<active, wait, results, returned, jobs, io, count>>
         PROVE  There(pos + 1)
    <2>1. Here(pos + 1, jobs, returned)
      BY <1>10, <1>18, Zenon
    <2> QED
      BY <1>18, <2>1 DEF Here, There
  <1>19. There(pos + 1) /\ (stale' = stale \/ stale' = TRUE)
    BY <1>11, <1>13, <1>14, <1>15, <1>16, <1>17, <1>18, Zenon
  <1>20. stale' \in BOOLEAN
    BY <1>19 DEF IInv
  <1> QED
    BY <1>1, <1>19, <1>20 DEF There, IInv, Good, OneJob, Armed, Events, EventTypes, Pointed, Untried, In

LEMMA LeastNumber ==
  ASSUME NEW T \in SUBSET Nat, T # {}
  PROVE  \E x \in T : \A y \in T : x <= y
  <1>1. PICK R : R = {z \in Nat \X Nat : z[1] < z[2]}
    OBVIOUS
  <1>2. IsWellFoundedOn(R, Nat)
    <2>1. OpToRel(<, Nat) = {z \in Nat \X Nat : z[1] < z[2]}
      BY Zenon DEF OpToRel
    <2> QED
      BY <1>1, <2>1, NatLessThanWellFounded, Zenon
  <1>3. PICK x \in T : \A y \in T : ~(<<y, x>> \in R)
    BY <1>2, WFMin, Zenon
  <1>4. \A a, y \in Nat : y < a => <<y, a>> \in R
    BY <1>1
  <1>5. \A y \in T : x <= y
    <2> TAKE y \in T
    <2>1. x \in Nat /\ y \in Nat
      OBVIOUS
    <2>2. ~(y < x)
      BY <1>3, <1>4, <2>1
    <2> QED
      BY <2>1, <2>2
  <1> QED
    BY <1>5

LEMMA GreatestNumber ==
  ASSUME NEW n \in Nat, NEW N, N \subseteq 1..n, N # {}
  PROVE  \E i \in N : \A j \in N : j <= i
  <1>1. PICK M : M = {n - j : j \in N}
    OBVIOUS
  <1>2. M \in SUBSET Nat
    <2>1. \A j \in N : n - j \in Nat
      OBVIOUS
    <2> QED
      BY <1>1, <2>1
  <1>3. PICK m \in M : \A k \in M : m <= k
    <2>1. M # {}
      BY <1>1
    <2> QED
      BY <1>2, <2>1, LeastNumber
  <1>4. PICK i \in N : m = n - i
    BY <1>1
  <1>5. ASSUME NEW j \in N PROVE j <= i
    <2>1. n - i <= n - j
      BY <1>1, <1>3, <1>4
    <2>2. i \in Nat /\ j \in Nat
      OBVIOUS
    <2> QED
      BY <2>1, <2>2
  <1> QED
    BY <1>5

LEMMA WaitForEventsInv ==
  ASSUME IInv, WaitForEvents
  PROVE  IInv'
  <1> DEFINE At(x) == {i \in DOMAIN results' : results'[i].bfd = x}
  <1>1. /\ Good(active, wait, jobs, io) /\ Events(pos, results, returned, active, doubled, wait, count)
        /\ results \in Seq(Results) /\ Len(results) \in Nat /\ pos = Len(results)
        /\ returned \in [Descriptors -> Nat] /\ active \subseteq Descriptors
        /\ wait \in [Descriptors -> SUBSET Dirs]
    BY EventsTypes DEF IInv, Good, WaitForEvents
  <1>2. PICK n \in 0..MaxResults : results' \in [1..n -> Registered] /\ IsInjective(results')
    BY DEF WaitForEvents, Returned, BoundedSeq, SeqOf
  <1>3. ASSUME NEW r \in Registered
        PROVE  r \in Results /\ r.bfd \in active /\ r.filter \in Dirs /\ r.filter \in wait[r.bfd]
    BY <1>1 DEF Registered, Results
  <1>4. /\ results' \in Seq(Results) /\ Len(results') = n /\ DOMAIN results' = 1..n /\ n \in Nat
        /\ n <= MaxResults
        /\ \A i \in 1..n : /\ results'[i].bfd \in active /\ results'[i].filter \in Dirs
                           /\ results'[i].filter \in wait[results'[i].bfd]
    BY <1>2, <1>3, BConnectionAssumption
  <1>5. /\ pos' = 0 /\ count' = [c \in Conns |-> Zero] /\ UNCHANGED <<active, wait, jobs, io, stale>>
        /\ returned' = [x \in Descriptors |->
             IF At(x) = {} THEN returned[x] ELSE CHOOSE i \in At(x) : \A j \in At(x) : j <= i]
        /\ doubled' = {x \in Descriptors : \E i, j \in DOMAIN results' :
             i # j /\ results'[i].bfd = x /\ results'[j].bfd = x}
    BY DEF WaitForEvents, set_kevent_fd_pointers, CountsReset
  <1>6. \A x \in Descriptors : returned[x] = 0
    <2>1. (pos + 1)..Len(results) = {}
      BY <1>1
    <2> QED
      BY <1>1, <2>1, Zenon DEF Events, Pointed
  <1>7. ASSUME NEW x \in Descriptors
        PROVE  /\ At(x) = {} => returned'[x] = 0
               /\ At(x) # {} => returned'[x] \in At(x)
    <2>1. At(x) = {} => returned'[x] = 0
      BY <1>5, <1>6
    <2>2. ASSUME At(x) # {} PROVE returned'[x] \in At(x)
      <3>1. At(x) \subseteq 1..n
        BY <1>4
      <3>2. returned'[x] = CHOOSE i \in At(x) : \A j \in At(x) : j <= i
        BY <1>5, <2>2
      <3> HIDE DEF At
      <3>3. \E i \in At(x) : \A j \in At(x) : j <= i
        BY <1>4, <2>2, <3>1, GreatestNumber
      <3> QED
        BY <3>2, <3>3
    <2> QED
      BY <2>1, <2>2
  <1>8. \A x \in Descriptors : returned'[x] # 0 => returned'[x] \in 1..n /\ results'[returned'[x]].bfd = x
    BY <1>4, <1>7
  <1>9. \A x \in Descriptors : \A i \in 1..n : x \notin doubled' /\ results'[i].bfd = x => returned'[x] = i
    <2> SUFFICES ASSUME NEW x \in Descriptors, NEW i \in 1..n, x \notin doubled', results'[i].bfd = x
                 PROVE  returned'[x] = i
      OBVIOUS
    <2>1. i \in At(x)
      BY <1>4
    <2>2. \A j \in At(x) : j = i
      BY <1>4, <1>5
    <2> QED
      BY <1>7, <2>1, <2>2
  <1>10. returned' \in [Descriptors -> Nat]
    <2>1. \A x \in Descriptors : returned'[x] \in Nat
      BY <1>4, <1>7
    <2>2. returned' = [x \in Descriptors |-> returned'[x]]
      BY <1>5
    <2> QED
      BY <2>1, <2>2
  <1> HIDE DEF At
  <1>11. \A i \in (0 + 1)..n : i \in 1..n
    OBVIOUS
  <1>12. count' \in [Conns -> [Dirs -> 0..Limit]] /\ \A c \in Conns : \A d \in Dirs : count'[c][d] = 0
    BY <1>5, Zeros
  <1>13. EventTypes(0, results', returned', doubled', count')
    <2>1. doubled' \subseteq Descriptors
      BY <1>5
    <2> QED
      BY <1>4, <1>10, <1>12, <2>1 DEF EventTypes
  <1>14. Pointed(0, results', returned', active, doubled')
    <2>1. \A x \in Descriptors : returned'[x] # 0 =>
            x \in active /\ returned'[x] \in (0 + 1)..n /\ results'[returned'[x]].bfd = x
      BY <1>4, <1>8
    <2>2. \A x \in Owned : \A i \in (0 + 1)..n : x \notin doubled' /\ results'[i].bfd = x => returned'[x] = i
      BY <1>9, <1>11, DescriptorFacts
    <2> QED
      BY <1>4, <2>1, <2>2 DEF Pointed
  <1>15. Untried(0, results', doubled', wait, count')
    BY <1>4, <1>11, <1>12 DEF Untried
  <1> QED
    BY <1>1, <1>5, <1>13, <1>14, <1>15, NextInv DEF Events

LEMMA InitInv == Init => IInv
  <1> SUFFICES ASSUME Init PROVE IInv
    OBVIOUS
  <1>1. /\ active = {Device} /\ wait = [x \in Descriptors |-> IF x = Device THEN {"READ"} ELSE {}]
        /\ results = <<>> /\ pos = 0 /\ returned = [x \in Descriptors |-> 0]
        /\ jobs = <<>> /\ io = [c \in Conns |-> None] /\ count = [c \in Conns |-> Zero]
        /\ stale = FALSE /\ doubled = {}
    BY DEF Init
  <1>2. jobs \in Lists(Jobs) /\ \A x : ~In(jobs, x)
    BY <1>1 DEF Lists, Once, In
  <1>3. /\ io \in [Conns -> [Dirs -> IoStates]] /\ count \in [Conns -> [Dirs -> 0..Limit]]
        /\ \A c \in Conns : \A d \in Dirs : io[c][d] = "none"
    BY <1>1, Zeros
  <1>4. \A c \in Conns : /\ Connector(c) \notin active /\ Connection(c) \notin active
                         /\ wait[Connector(c)] = {} /\ wait[Connection(c)] = {}
    BY <1>1, DescriptorFacts
  <1>5. wait \in [Descriptors -> SUBSET Dirs]
    BY <1>1 DEF Dirs
  <1>6. Good(active, wait, jobs, io)
    <2>1. OneJob(active, jobs, io)
      BY <1>2, <1>4, Zenon DEF OneJob
    <2>2. Armed(active, wait, io)
      BY <1>3, <1>4 DEF Armed
    <2> QED
      BY <1>1, <1>2, <1>3, <1>5, <2>1, <2>2, DescriptorFacts DEF Good
  <1>7. Events(pos, results, returned, active, doubled, wait, count)
    <2>1. /\ results \in Seq(Results) /\ Len(results) = 0 /\ pos \in 0..Len(results)
          /\ Len(results) <= MaxResults /\ \A i : i \notin (pos + 1)..Len(results)
      BY <1>1, BConnectionAssumption
    <2>2. returned \in [Descriptors -> Nat] /\ \A x \in Descriptors : returned[x] = 0
      BY <1>1
    <2>3. EventTypes(pos, results, returned, doubled, count)
      BY <1>1, <1>3, <2>1, <2>2 DEF EventTypes
    <2>4. Pointed(pos, results, returned, active, doubled)
      BY <2>1, <2>2, Zenon DEF Pointed
    <2>5. Untried(pos, results, doubled, wait, count)
      BY <2>1, Zenon DEF Untried
    <2> QED
      BY <2>3, <2>4, <2>5 DEF Events
  <1> QED
    BY <1>1, <1>6, <1>7 DEF IInv

LEMMA SpecInv == Spec => []IInv
  <1>1. IInv /\ [Next]_vars => IInv'
    <2> SUFFICES ASSUME IInv, [Next]_vars PROVE IInv'
      OBVIOUS
    <2>1. CASE Next
      BY <2>1, ExecuteJobInv, DispatchKeventInv, WaitForEventsInv DEF Next
    <2>2. CASE UNCHANGED vars
      BY <2>2 DEF vars, IInv, Good, OneJob, Armed, Events, EventTypes, Pointed, Untried, In
    <2> QED
      BY <2>1, <2>2
  <1> QED
    BY <1>1, InitInv, PTL DEF Spec

-----------------------------------------------------------------------------
(* What follows. *)

\* The types of the state; in particular kevent() is never asked about more results than
\* there is room for and no limit is counted beyond what it allows.
THEOREM TypeCorrect == Spec => []TypeOK
  <1>1. IInv => TypeOK
    <2> SUFFICES ASSUME IInv PROVE TypeOK
      OBVIOUS
    <2>1. /\ Good(active, wait, jobs, io) /\ Events(pos, results, returned, active, doubled, wait, count)
          /\ stale \in BOOLEAN
      BY DEF IInv
    <2>2. \A x \in Descriptors : returned[x] \in 0..Len(results)
      <3>1. Len(results) \in Nat /\ pos \in Nat /\ returned \in [Descriptors -> Nat]
        BY <2>1, EventsTypes
      <3>2. \A x \in Descriptors : returned[x] # 0 => returned[x] \in (pos + 1)..Len(results)
        BY <2>1 DEF Events, Pointed
      <3> QED
        BY <3>1, <3>2
    <2>3. returned \in [Descriptors -> 0..Len(results)]
      BY <2>1, <2>2 DEF Events, EventTypes
    <2> QED
      BY <2>1, <2>3 DEF TypeOK, Good, Events, EventTypes, IoStates, Lists
  <1> QED
    BY <1>1, SpecInv, PTL

\* Whatever is done in whichever order, an operation in progress is registered with the
\* kernel and one that is not is not, and a direction has one operation at a time and none
\* once its connection is gone, for any number of connections.
THEOREM OperationsAlwaysMatch == Spec => []Operations
  <1>1. IInv => Operations
    <2> SUFFICES ASSUME IInv PROVE Operations
      OBVIOUS
    <2>1. /\ jobs \in Lists(Jobs) /\ Once(jobs) /\ DOMAIN jobs = 1..Len(jobs)
          /\ OneJob(active, jobs, io) /\ Armed(active, wait, io)
          /\ wait \in [Descriptors -> SUBSET Dirs] /\ io \in [Conns -> [Dirs -> IoStates]]
      BY DEF IInv, Good, Lists
    <2>2. BusyIsArmed
      <3> SUFFICES ASSUME NEW c \in Conns
                   PROVE  /\ wait[Connection(c)] = {d \in Dirs : io[c][d] = "busy"}
                          /\ wait[Connector(c)] = IF Connector(c) \in active THEN {"WRITE"} ELSE {}
                          /\ io[c] # None <=> Connection(c) \in active
        BY DEF BusyIsArmed
      <3>1. wait[Connection(c)] \subseteq Dirs
        BY <2>1, DescriptorFacts
      <3>2. \A d \in Dirs : (d \in wait[Connection(c)] <=> io[c][d] = "busy")
                            /\ (io[c][d] # "none" <=> Connection(c) \in active)
        BY <2>1 DEF Armed
      <3>3. wait[Connector(c)] = IF Connector(c) \in active THEN {"WRITE"} ELSE {}
        BY <2>1 DEF Armed
      <3>4. io[c] # None <=> Connection(c) \in active
        <4>1. io[c] \in [Dirs -> IoStates] /\ "READ" \in Dirs
          BY <2>1 DEF Dirs
        <4>2. CASE Connection(c) \in active
          BY <3>2, <4>1, <4>2, Zeros
        <4>3. CASE Connection(c) \notin active
          BY <3>2, <4>1, <4>3 DEF None
        <4> QED
          BY <4>2, <4>3
      <3> QED
        BY <3>1, <3>2, <3>3, <3>4
    <2>3. OneOperation
      <3> SUFFICES ASSUME NEW c \in Conns
                   PROVE  /\ \A d \in Dirs : \A i, j \in PendingJobs(jobs, c, d) : i = j /\ io[c][d] = "ready"
                          /\ \A i, j \in DOMAIN jobs : jobs[i] = ConnectedJob(c) /\ jobs[j] = ConnectedJob(c) =>
                               i = j /\ Of(c) \intersect active = {}
                          /\ ~(Of(c) \subseteq active)
        BY DEF OneOperation
      <3>1. ASSUME NEW d \in Dirs, NEW i \in PendingJobs(jobs, c, d), NEW j \in PendingJobs(jobs, c, d)
            PROVE  i = j /\ io[c][d] = "ready"
        <4>1. /\ i \in 1..Len(jobs) /\ j \in 1..Len(jobs)
              /\ jobs[i] = OpJob(c, d) \/ jobs[i] = DoneJob(c, d)
              /\ jobs[j] = OpJob(c, d) \/ jobs[j] = DoneJob(c, d)
          BY <2>1, <3>1 DEF PendingJobs
        <4>2. io[c][d] = "ready" /\ jobs[i] = jobs[j]
          BY <2>1, <4>1 DEF OneJob, In
        <4> QED
          BY <2>1, <4>1, <4>2 DEF Once
      <3>2. ASSUME NEW i \in DOMAIN jobs, NEW j \in DOMAIN jobs,
                   jobs[i] = ConnectedJob(c), jobs[j] = ConnectedJob(c)
            PROVE  i = j /\ Of(c) \intersect active = {}
        <4>1. i = j /\ In(jobs, ConnectedJob(c))
          BY <2>1, <3>2 DEF Once, In
        <4> QED
          BY <2>1, <4>1 DEF OneJob, Of
      <3>3. ~(Of(c) \subseteq active)
        BY <2>1 DEF OneJob, Of
      <3> QED
        BY <3>1, <3>2, <3>3
    <2> QED
      BY <2>2, <2>3 DEF Operations
  <1> QED
    BY <1>1, SpecInv, PTL

\* BReactor_RemoveFileDescriptor clears the event of a descriptor that has one, wherever it
\* is in the results and whoever removes it.
THEOREM RemovedAlwaysCleared == Spec => []RemovedIsCleared
  <1>1. IInv => RemovedIsCleared
    <2> SUFFICES ASSUME IInv, NEW i \in (pos + 1)..Len(results), results[i].bfd \in Owned \ active,
                        results[i].bfd \notin doubled
                 PROVE  FALSE
      BY DEF RemovedIsCleared
    <2>1. Events(pos, results, returned, active, doubled, wait, count)
      BY DEF IInv
    <2>2. i # 0 /\ results[i].bfd \in Descriptors
      BY <2>1, EventsTypes, DescriptorFacts
    <2>3. returned[results[i].bfd] = i
      BY <2>1 DEF Events, Pointed
    <2> QED
      BY <2>1, <2>2, <2>3 DEF Events, Pointed
  <1> QED
    BY <1>1, SpecInv, PTL

\* The limit of a direction never forbids what an event of kevent() is for, for any limit.
THEOREM EventsAlwaysHeeded == Spec => []EventIsHeeded
  <1>1. IInv => EventIsHeeded
    <2> SUFFICES ASSUME IInv, NEW i \in (pos + 1)..Len(results), NEW c \in Conns,
                        results[i].bfd = Connection(c), results[i].bfd \notin doubled
                 PROVE  MayTry(c, results[i].filter)
      BY DEF EventIsHeeded
    <2>1. count[c][results[i].filter] = 0
      BY DEF IInv, Events, Untried
    <2> QED
      BY <2>1, BConnectionAssumption DEF MayTry
  <1> QED
    BY <1>1, SpecInv, PTL
=============================================================================
