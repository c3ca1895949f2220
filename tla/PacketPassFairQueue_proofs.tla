--------------------- MODULE PacketPassFairQueue_proofs ---------------------
(***************************************************************************)
(* Proofs about the fair queue, for any set of flows, any MTU and weight   *)
(* and any width of the times: they never overflow, the order in the tree  *)
(* outlives every change of the times, and the flows share fairly.         *)
(***************************************************************************)
EXTENDS PacketPassFairQueue, TLAPS

\* TypeOK in two parts: the flags, and the rest.
FlagsOK == schedule_job \in BOOLEAN /\ handler_busy \in BOOLEAN /\ freeing \in BOOLEAN

DataOK ==
  /\ flows \subseteq Flows /\ time \in [Flows -> 0..MaxTime]
  /\ queued \subseteq flows /\ data_len \in [Flows -> 0..MTU]
  /\ sending_flow \in flows \union {None} /\ sending_len \in 0..MTU
  /\ previous_flow \in flows \union {None}
  /\ stale \subseteq flows

LEMMA TypeParts == TypeOK <=> FlagsOK /\ DataOK
BY Zenon DEF TypeOK, FlagsOK, DataOK

\* A flow object that is not in use has no time.
UnusedAtZero == \A f \in Flows \ flows : time[f] = 0

\* The flow that sends, and the one that has sent, are in no tree, and the one that
\* sends is due before those in the tree.
Chosen ==
  /\ sending_flow # None =>
       /\ sending_flow \notin queued /\ previous_flow = None
       /\ \A f \in queued : time[sending_flow] <= time[f]
  /\ previous_flow # None => previous_flow \notin queued

\* schedule_job is pending only between two packets, and something is under way
\* whenever a flow is queued.
Conserving ==
  /\ sending_flow # None => ~schedule_job
  /\ previous_flow # None => schedule_job
  /\ queued # {} => sending_flow # None \/ schedule_job \/ freeing

\* A flow that is not stale is at most a packet ahead of the current time.
FreshAt(fl, old, t, current) ==
  \A f \in fl \ old :
    /\ current = {} => t[f] = 0
    /\ \A c \in current : t[f] <= t[c] + MaxCost
Fresh == FreshAt(flows, stale, time, Current)

IInv == FlagsOK /\ DataOK /\ UnusedAtZero /\ Chosen /\ Conserving /\ Fresh

-----------------------------------------------------------------------------
LEMMA NowIsLeast ==
  ASSUME DataOK, NEW now \in get_current_time
  PROVE  /\ Current \subseteq Flows /\ now \in 0..MaxTime
         /\ Current = {} => now = 0
         /\ Current # {} => \E c \in Current : now = time[c]
         /\ \A c \in Current : now <= time[c]
<1>1. Current \subseteq Flows
  BY FairQueueAssumption DEF DataOK, Current
<1>2. CASE Current = {}
  BY <1>1, <1>2, FairQueueAssumption DEF get_current_time
<1>3. CASE Current # {}
  <2>1. now \in Least({time[f] : f \in Current})
    BY <1>3 DEF get_current_time
  <2>2. PICK c \in Current : now = time[c]
    BY <2>1 DEF Least
  <2>3. \A d \in Current : now <= time[d]
    BY <2>1 DEF Least
  <2>. QED BY <1>1, <1>3, <2>2, <2>3 DEF DataOK
<1>. QED BY <1>2, <1>3

\* What increment_sent_flow leaves: nothing below zero or above MaxTime, and all
\* queued flows as far from each other as they were.
Incremented(f, amount, s, after) ==
  /\ s \in 0..MaxTime /\ (s = 0 \/ time[f] <= s)
  /\ after \in [Flows -> 0..MaxTime]
  /\ \A g \in queued : s <= time[g]
  /\ \A g \in Flows \ {f} : after[g] = IF s > time[g] THEN 0 ELSE time[g] - s
  /\ after[f] = time[f] + amount - s

LEMMA IncrementEffect ==
  ASSUME DataOK, Chosen, sending_flow # None, NEW amount \in 0..MaxCost,
         NEW s \in Subtracted(sending_flow)
  PROVE  \E r \in 0..MaxTime :
           Incremented(sending_flow, amount, r, increment_sent_flow(sending_flow, amount, s))
<1>. DEFINE f == sending_flow
            after == increment_sent_flow(f, amount, s)
<1>1. f \in Flows /\ f \notin queued /\ queued \subseteq Flows /\ \A g \in queued : time[f] <= time[g]
  BY DEF DataOK, Chosen
<1>2. s \in 0..MaxTime /\ time[f] <= s /\ \A g \in queued : s <= time[g]
  <2>1. CASE queued = {}
    BY <1>1, <2>1 DEF DataOK, Subtracted
  <2>2. CASE queued # {}
    <3>1. s \in Least({time[g] : g \in queued})
      BY <2>2 DEF Subtracted
    <3>2. PICK h \in queued : s = time[h]
      BY <3>1 DEF Least
    <3>3. \A g \in queued : s <= time[g]
      BY <3>1 DEF Least
    <3>. QED BY <1>1, <2>2, <3>2, <3>3 DEF DataOK
  <2>. QED BY <2>1, <2>2
<1>3. CASE amount > MaxTime - time[f]
  <2>1. after = [MovedBack(f, s) EXCEPT ![f] = Plus(@, amount)]
    BY <1>3 DEF increment_sent_flow
  <2>2. after[f] = Plus(Minus(time[f], s), amount)
    BY <1>1, <2>1 DEF MovedBack
  <2>3. time[f] + amount - s \in 0..MaxTime /\ after[f] = time[f] + amount - s
    BY <1>1, <1>2, <1>3, <2>2, FairQueueAssumption DEF DataOK, Plus, Minus, MaxCost
  <2>4. \A g \in Flows \ {f} : after[g] = IF s > time[g] THEN 0 ELSE time[g] - s
    BY <1>2, <2>1, FairQueueAssumption DEF MovedBack, Minus, DataOK
  <2>5. after \in [Flows -> 0..MaxTime]
    <3>1. DOMAIN after = Flows /\ after = [g \in Flows |-> after[g]]
      BY <2>1 DEF MovedBack
    <3>. HIDE DEF after
    <3>2. \A g \in Flows : time[g] \in 0..MaxTime
      BY DEF DataOK
    <3>3. \A g \in Flows \ {f} : after[g] \in 0..MaxTime
      <4>. SUFFICES ASSUME NEW g \in Flows \ {f} PROVE after[g] \in 0..MaxTime
        OBVIOUS
      <4>. QED BY <1>2, <2>4, <3>2, FairQueueAssumption
    <3>. QED BY <2>3, <3>1, <3>3
  <2>. QED BY <1>2, <2>3, <2>4, <2>5 DEF Incremented
<1>4. CASE ~(amount > MaxTime - time[f])
  <2>1. after = [time EXCEPT ![f] = Plus(@, amount)]
    BY <1>4 DEF increment_sent_flow
  <2>2. Plus(time[f], amount) = time[f] + amount /\ time[f] + amount \in 0..MaxTime
    BY <1>1, <1>4, FairQueueAssumption DEF DataOK, Plus, MaxCost
  <2>3. Incremented(f, amount, 0, after)
    BY <1>1, <2>1, <2>2, FairQueueAssumption DEF DataOK, Incremented
  <2>. QED BY <2>3, FairQueueAssumption
<1>. QED BY <1>3, <1>4, FairQueueAssumption DEF DataOK, MaxCost

-----------------------------------------------------------------------------
\* Remembered keeps the flows that are not stale fresh, if a step keeps those fresh
\* that neither were stale nor are sending now.
LEMMA StillFresh ==
  ASSUME DataOK', Remembered,
         Current' # {} => \A f \in flows' \ stale : \A c \in Current' : time'[f] <= time'[c] + MaxCost
  PROVE  Fresh'
<1>1. CASE Current' = {}
  BY <1>1, FairQueueAssumption DEF Fresh, FreshAt, Remembered, DataOK
<1>2. CASE Current' # {}
  <2>1. stale' = (stale \intersect flows') \ {sending_flow'}
    BY <1>2 DEF Remembered
  <2>2. SUFFICES ASSUME NEW f \in flows' \ stale', NEW c \in Current'
                 PROVE  time'[f] <= time'[c] + MaxCost
    BY <1>2 DEF Fresh, FreshAt
  <2>3. CASE f = sending_flow'
    <3>1. c = f
      BY <2>3, FairQueueAssumption DEF DataOK, Current
    <3>. QED BY <3>1, FairQueueAssumption DEF DataOK, MaxCost
  <2>4. CASE f # sending_flow'
    BY <1>2, <2>1, <2>4
  <2>. QED BY <2>3, <2>4
<1>. QED BY <1>1, <1>2

LEMMA StaleKnown == ASSUME DataOK, flows' \subseteq Flows, Remembered PROVE stale' \subseteq flows'
BY DEF Remembered, DataOK

LEMMA InitHolds == Init => IInv
<1>. SUFFICES ASSUME Init PROVE IInv
  OBVIOUS
<1>1. FlagsOK /\ Conserving
  BY Zenon DEF Init, FlagsOK, Conserving
<1>2. DataOK /\ UnusedAtZero /\ Chosen /\ Fresh
  BY FairQueueAssumption DEF Init, DataOK, UnusedAtZero, Chosen, Fresh, FreshAt
<1>. QED BY <1>1, <1>2, Zenon DEF IInv

LEMMA InitFlow ==
  ASSUME IInv, Remembered, NEW f \in Flows, PacketPassFairQueueFlow_Init(f)
  PROVE  IInv'
<1>. USE DEF IInv, PacketPassFairQueueFlow_Init
<1>1. FlagsOK' /\ Conserving'
  BY Zenon DEF FlagsOK, Conserving
<1>2. DataOK' /\ UnusedAtZero' /\ Chosen' /\ Current' = Current
  BY StaleKnown DEF DataOK, UnusedAtZero, Chosen, Current
<1>3. \A g \in flows' \ stale : \A c \in Current' : time'[g] <= time'[c] + MaxCost
  <2>1. Current \subseteq Flows
    BY FairQueueAssumption DEF DataOK, Current
  <2>2. time[f] = 0
    BY DEF UnusedAtZero
  <2>. QED BY <1>2, <2>1, <2>2, FairQueueAssumption DEF Fresh, FreshAt, MaxCost, DataOK
<1>. QED BY <1>1, <1>2, <1>3, StillFresh

LEMMA FreeFlow ==
  ASSUME IInv, Remembered, NEW f \in Flows, PacketPassFairQueueFlow_Free(f)
  PROVE  IInv'
<1>. USE DEF IInv, PacketPassFairQueueFlow_Free
<1>1. FlagsOK' /\ (sending_flow' # None => ~schedule_job') /\ (previous_flow' # None => schedule_job')
  <2>1. (sending_flow' # None => sending_flow # None) /\ (previous_flow' # None => previous_flow # None)
    BY Zenon DEF Unless
  <2>. QED BY <2>1, Zenon DEF FlagsOK, Conserving
<1>2. /\ DataOK' /\ UnusedAtZero' /\ Chosen'
      /\ \A c \in Current' : c \in Flows \ {f} /\ \E d \in Current : time[d] <= time[c]
  <2>1. /\ flows' = flows \ {f} /\ time' = [time EXCEPT ![f] = 0]
        /\ sending_flow' = Unless(sending_flow, f) /\ previous_flow' = Unless(previous_flow, f)
        /\ sending_len' = IF sending_flow = f THEN 0 ELSE sending_len
        /\ queued' = queued \ {f} /\ data_len' = [data_len EXCEPT ![f] = 0]
    BY Zenon
  <2>. HIDE DEF IInv, PacketPassFairQueueFlow_Free
  <2>2. DataOK /\ UnusedAtZero /\ Chosen
    BY Zenon DEF IInv
  <2>3. DataOK'
    <3>1. time' \in [Flows -> 0..MaxTime] /\ data_len' \in [Flows -> 0..MTU] /\ sending_len' \in 0..MTU
      BY <2>1, <2>2, FairQueueAssumption DEF DataOK
    <3>. QED BY <2>1, <2>2, <3>1, StaleKnown DEF DataOK, Unless
  <2>4. UnusedAtZero'
    BY <2>1, <2>2 DEF UnusedAtZero, DataOK
  <2>5. Chosen'
    BY <2>1, <2>2, FairQueueAssumption DEF Chosen, Unless, DataOK
  <2>6. SUFFICES ASSUME NEW c \in Current'
                 PROVE  c \in Flows \ {f} /\ \E d \in Current : time[d] <= time[c]
    BY <2>3, <2>4, <2>5
  <2>7. c \in Flows \ {f}
    BY <2>1, <2>2, <2>3, FairQueueAssumption DEF DataOK, Current, Unless
  <2>8. time[c] <= time[c]
    BY <2>2, <2>7, FairQueueAssumption DEF DataOK
  <2>9. CASE sending_flow = f
    <3>1. sending_flow # None /\ f \in Current
      BY <2>9, FairQueueAssumption DEF Current
    <3>2. c \in queued
      BY <2>1, <2>2, <2>9, <3>1 DEF Current, Unless, Chosen
    <3>. QED BY <2>2, <2>7, <2>9, <3>1, <3>2 DEF Chosen
  <2>10. CASE sending_flow # f
    <3>1. c \in Current
      BY <2>1, <2>10 DEF Current, Unless
    <3>. QED BY <2>7, <2>8, <3>1
  <2>. QED BY <2>9, <2>10
<1>3. queued' # {} => sending_flow' # None \/ schedule_job' \/ freeing'
  <2>1. queued' # {} => queued # {}
    BY Zenon
  <2>2. ~freeing => sending_flow' = sending_flow
    BY Zenon DEF Unless
  <2>. QED BY <2>1, <2>2, Zenon DEF Conserving
<1>4. \A g \in flows' \ stale : \A c \in Current' : time'[g] <= time'[c] + MaxCost
  <2>1. Current \subseteq Flows
    BY FairQueueAssumption DEF DataOK, Current
  <2>2. time' = [time EXCEPT ![f] = 0] /\ flows' = flows \ {f} /\ time \in [Flows -> 0..MaxTime]
        /\ flows \subseteq Flows
    BY DEF DataOK
  <2>3. SUFFICES ASSUME NEW g \in flows' \ stale, NEW c \in Current' PROVE time'[g] <= time'[c] + MaxCost
    OBVIOUS
  <2>4. PICK d \in Current : time[d] <= time[c]
    BY <1>2
  <2>5. time'[g] = time[g] /\ time'[c] = time[c] /\ time[g] \in 0..MaxTime /\ time[c] \in 0..MaxTime
        /\ time[d] \in 0..MaxTime /\ MaxCost \in Nat
    BY <1>2, <2>1, <2>2, FairQueueAssumption DEF MaxCost
  <2>6. time[g] <= time[d] + MaxCost
    BY <2>2, FairQueueAssumption DEF Fresh, FreshAt
  <2>. QED BY <2>4, <2>5, <2>6, FairQueueAssumption
<1>5. Conserving'
  BY <1>1, <1>3, Zenon DEF Conserving
<1>. QED BY <1>1, <1>2, <1>4, <1>5, StillFresh

LEMMA SetHandler ==
  ASSUME IInv, Remembered, PacketPassFairQueueFlow_SetBusyHandler
  PROVE  IInv'
<1>. USE DEF IInv, PacketPassFairQueueFlow_SetBusyHandler
<1>1. FlagsOK' /\ Conserving'
  BY Zenon DEF FlagsOK, Conserving
<1>2. DataOK' /\ UnusedAtZero' /\ Chosen' /\ Current' = Current
  BY StaleKnown DEF DataOK, UnusedAtZero, Chosen, Current
<1>3. \A g \in flows' \ stale : \A c \in Current' : time'[g] <= time'[c] + MaxCost
  BY <1>2 DEF Fresh, FreshAt
<1>. QED BY <1>1, <1>2, <1>3, StillFresh

LEMMA PrepareFree ==
  ASSUME IInv, Remembered, PacketPassFairQueue_PrepareFree
  PROVE  IInv'
<1>. USE DEF IInv, PacketPassFairQueue_PrepareFree
<1>1. FlagsOK' /\ Conserving'
  BY Zenon DEF FlagsOK, Conserving
<1>2. DataOK' /\ UnusedAtZero' /\ Chosen' /\ Current' = Current
  BY StaleKnown DEF DataOK, UnusedAtZero, Chosen, Current
<1>3. \A g \in flows' \ stale : \A c \in Current' : time'[g] <= time'[c] + MaxCost
  BY <1>2 DEF Fresh, FreshAt
<1>. QED BY <1>1, <1>2, <1>3, StillFresh

LEMMA FreeQueue ==
  ASSUME IInv, Remembered, PacketPassFairQueue_Free
  PROVE  IInv'
<1>. USE DEF IInv, PacketPassFairQueue_Free
<1>1. FlagsOK'
  BY Zenon DEF FlagsOK
<1>2. sending_flow = None /\ previous_flow = None /\ queued = {}
  BY DEF DataOK
<1>3. Conserving'
  BY <1>2, Zenon DEF Conserving
<1>4. DataOK' /\ UnusedAtZero' /\ Chosen' /\ Current' = {}
  BY <1>2, StaleKnown DEF DataOK, UnusedAtZero, Chosen, Current
<1>. QED BY <1>1, <1>3, <1>4, StillFresh

\* schedule leaves in the tree all but the flow that now sends, which is due first.
LEMMA Schedules ==
  ASSUME NEW q \in SUBSET Flows, NEW t, NEW l \in [Flows -> 0..MTU], schedule(q, t, l)
  PROVE  /\ sending_flow' \in q /\ queued' = q \ {sending_flow'}
         /\ \A g \in q : t[sending_flow'] <= t[g]
         /\ data_len' \in [Flows -> 0..MTU] /\ sending_len' \in 0..MTU
BY FairQueueAssumption DEF schedule, First

LEMMA ScheduleJob ==
  ASSUME IInv, Remembered, schedule_job_handler
  PROVE  IInv'
<1>. USE DEF IInv
<1>1. sending_flow = None /\ schedule_job' = FALSE /\ previous_flow' = None /\ time' = time
      /\ flows' = flows
  BY Zenon DEF schedule_job_handler, Conserving
<1>2. FlagsOK'
  BY Zenon DEF FlagsOK, schedule_job_handler
<1>3. CASE queued # {}
  <2>1. schedule(queued, time, data_len)
    BY <1>3, Zenon DEF schedule_job_handler
  <2>2. /\ sending_flow' \in queued /\ queued' = queued \ {sending_flow'}
        /\ \A g \in queued : time[sending_flow'] <= time[g]
        /\ data_len' \in [Flows -> 0..MTU] /\ sending_len' \in 0..MTU
    <3>1. queued \in SUBSET Flows /\ data_len \in [Flows -> 0..MTU]
      BY DEF DataOK
    <3>. QED BY <2>1, <3>1, Schedules
  <2>3. sending_flow' # None
    BY <2>2, FairQueueAssumption DEF DataOK
  <2>4. DataOK' /\ UnusedAtZero' /\ Chosen'
    BY <1>1, <2>2, StaleKnown DEF DataOK, UnusedAtZero, Chosen
  <2>5. Conserving'
    BY <1>1, <2>3, Zenon DEF Conserving
  <2>6. Current' = {sending_flow'} /\ queued \subseteq Current
    BY <1>1, <2>3 DEF Current
  <2>7. \A g \in flows' \ stale : \A c \in Current' : time'[g] <= time'[c] + MaxCost
    BY <1>1, <2>2, <2>6 DEF Fresh, FreshAt
  <2>. QED BY <1>2, <2>4, <2>5, <2>7, StillFresh
<1>4. CASE queued = {}
  <2>1. UNCHANGED <<queued, data_len, sending_flow, sending_len>>
    BY <1>4, Zenon DEF schedule_job_handler
  <2>2. DataOK' /\ UnusedAtZero' /\ Chosen' /\ Current' = {}
    BY <1>1, <1>4, <2>1, StaleKnown DEF DataOK, UnusedAtZero, Chosen, Current
  <2>3. Conserving'
    BY <1>1, <1>4, <2>1, Zenon DEF Conserving
  <2>. QED BY <1>2, <2>2, <2>3, StillFresh
<1>. QED BY <1>3, <1>4

\* What happens to the times when f sends: only its own is raised, to the current one.
LEMMA SendRaises ==
  ASSUME IInv, NEW f \in Flows, NEW len \in 0..MTU, input_handler_send(f, len)
  PROVE  /\ Current \subseteq Flows
         /\ time' \in [Flows -> 0..MaxTime] /\ \A g \in Flows \ {f} : time'[g] = time[g]
         /\ f # previous_flow => previous_flow' = previous_flow
         /\ f # previous_flow => \A c \in Current : \E d \in Current : time[d] <= time'[f] /\ time[d] <= time[c]
         /\ f = previous_flow => previous_flow' = None /\ time' = time
         /\ f \notin stale => \A c \in Current : time'[f] <= time[c] + MaxCost
<1>. USE DEF IInv
<1>1. f \in flows
  BY Zenon DEF input_handler_send
<1>2. CASE f = previous_flow
  <2>1. previous_flow' = None /\ time' = time
    BY <1>2, Zenon DEF input_handler_send
  <2>2. Current \subseteq Flows
    BY FairQueueAssumption DEF DataOK, Current
  <2>. QED BY <1>1, <1>2, <2>1, <2>2 DEF DataOK, Fresh, FreshAt
<1>3. CASE f # previous_flow
  <2>1. previous_flow' = previous_flow
        /\ \E now \in get_current_time : time' = [time EXCEPT ![f] = Raised(@, now)]
    BY <1>3, Zenon DEF input_handler_send
  <2>2. PICK now \in get_current_time : time' = [time EXCEPT ![f] = Raised(@, now)]
    BY <2>1
  <2>3. /\ Current \subseteq Flows /\ now \in 0..MaxTime
        /\ Current # {} => \E c \in Current : now = time[c]
        /\ \A c \in Current : now <= time[c]
    BY NowIsLeast
  <2>4. time'[f] \in 0..MaxTime /\ now <= time'[f] /\ time'[f] \in {time[f], now}
    BY <2>2, <2>3, FairQueueAssumption DEF DataOK, Raised
  <2>5. time' \in [Flows -> 0..MaxTime] /\ \A g \in Flows \ {f} : time'[g] = time[g]
    BY <2>2, <2>4 DEF DataOK
  <2>6. f \notin stale => \A c \in Current : time'[f] <= time[c] + MaxCost
    <3>1. SUFFICES ASSUME f \notin stale, NEW c \in Current PROVE time'[f] <= time[c] + MaxCost
      OBVIOUS
    <3>2. time[f] <= time[c] + MaxCost /\ now <= time[c] /\ time[c] \in 0..MaxTime /\ MaxCost \in Nat
      BY <1>1, <2>3, <3>1, FairQueueAssumption DEF DataOK, Fresh, FreshAt, MaxCost
    <3>. QED BY <2>3, <2>4, <3>2
  <2>7. \A c \in Current : \E d \in Current : time[d] <= time'[f] /\ time[d] <= time[c]
    <3>1. SUFFICES ASSUME NEW c \in Current
                   PROVE  \E d \in Current : time[d] <= time'[f] /\ time[d] <= time[c]
      OBVIOUS
    <3>2. PICK d \in Current : now = time[d]
      BY <2>3, <3>1
    <3>. QED BY <2>3, <2>4, <3>2
  <2>. QED BY <1>3, <2>1, <2>3, <2>5, <2>6, <2>7
<1>. QED BY <1>2, <1>3

LEMMA Send ==
  ASSUME IInv, Remembered, NEW f \in Flows, NEW len \in 0..MTU, input_handler_send(f, len)
  PROVE  IInv'
<1>. USE DEF IInv
<1>. DEFINE q == queued \union {f}
            l == [data_len EXCEPT ![f] = len]
<1>1. /\ f \in flows \ queued /\ f # sending_flow /\ ~freeing
      /\ flows' = flows /\ schedule_job' = schedule_job /\ freeing' = freeing
      /\ handler_busy' = handler_busy
  BY Zenon DEF input_handler_send
<1>2. FlagsOK'
  BY <1>1, Zenon DEF FlagsOK
<1>3. /\ Current \subseteq Flows
      /\ time' \in [Flows -> 0..MaxTime] /\ \A g \in Flows \ {f} : time'[g] = time[g]
      /\ f # previous_flow => previous_flow' = previous_flow
      /\ f # previous_flow => \A c \in Current : \E d \in Current : time[d] <= time'[f] /\ time[d] <= time[c]
      /\ f = previous_flow => previous_flow' = None /\ time' = time
      /\ f \notin stale => \A c \in Current : time'[f] <= time[c] + MaxCost
  BY SendRaises
<1>4. l \in [Flows -> 0..MTU] /\ q \in SUBSET Flows
  BY <1>1 DEF DataOK
<1>5. CASE sending_flow = None /\ ~schedule_job
  <2>1. queued = {} /\ previous_flow = None
    BY <1>1, <1>5, Zenon DEF Conserving
  <2>2. schedule(q, time', l)
    BY <1>5, Zenon DEF input_handler_send
  <2>3. /\ sending_flow' = f /\ queued' = {}
        /\ data_len' \in [Flows -> 0..MTU] /\ sending_len' \in 0..MTU
    BY <1>4, <2>1, <2>2, Schedules
  <2>4. f # None /\ previous_flow' = None
    BY <1>3, <2>1, FairQueueAssumption
  <2>5. DataOK' /\ UnusedAtZero' /\ Chosen' /\ Current' = {f}
    BY <1>1, <1>3, <2>3, <2>4, StaleKnown DEF DataOK, UnusedAtZero, Chosen, Current
  <2>6. Conserving'
    BY <1>1, <1>5, <2>3, <2>4, Zenon DEF Conserving
  <2>7. Current = {}
    BY <1>5, <2>1 DEF Current
  <2>8. \A g \in flows' \ stale : \A c \in Current' : time'[g] <= time'[c] + MaxCost
    BY <1>1, <1>3, <2>5, <2>7, FairQueueAssumption DEF Fresh, FreshAt, DataOK, MaxCost
  <2>. QED BY <1>2, <2>5, <2>6, <2>8, StillFresh
<1>6. CASE ~(sending_flow = None /\ ~schedule_job)
  <2>1. queued' = q /\ data_len' = l /\ sending_flow' = sending_flow /\ sending_len' = sending_len
    BY <1>6, Zenon DEF input_handler_send
  <2>2. f = previous_flow => sending_flow = None
    BY <1>1, FairQueueAssumption DEF Chosen, DataOK
  <2>3. sending_flow # None => time'[sending_flow] <= time'[f]
    BY <1>3, <2>2 DEF Current, DataOK, Chosen
  <2>4. DataOK' /\ UnusedAtZero' /\ Chosen'
    <3>1. DataOK'
      BY <1>1, <1>3, <1>4, <2>1, StaleKnown DEF DataOK
    <3>2. UnusedAtZero'
      BY <1>1, <1>3 DEF UnusedAtZero
    <3>3. Chosen'
      BY <1>1, <1>3, <2>1, <2>2, <2>3 DEF Chosen, DataOK
    <3>. QED BY <3>1, <3>2, <3>3
  <2>5. Conserving'
    <3>1. previous_flow' # None => previous_flow # None
      BY <1>3
    <3>2. sending_flow # None \/ schedule_job
      BY <1>6, Zenon DEF FlagsOK
    <3>. QED BY <1>1, <2>1, <3>1, <3>2, Zenon DEF Conserving
  <2>6. Current' \subseteq Current \union {f} /\ (f \in Current' => f = previous_flow \/ Current' = Current \union {f})
    BY <1>1, <1>3, <2>1, FairQueueAssumption DEF Current, DataOK
  <2>7. f \in Current => f = previous_flow
    BY <1>1 DEF Current
  <2>8. SUFFICES ASSUME NEW g \in flows' \ stale, NEW c \in Current'
                 PROVE  time'[g] <= time'[c] + MaxCost
    BY <1>2, <2>4, <2>5, StillFresh
  <2>9. MaxCost \in Nat /\ g \in flows /\ time'[g] \in 0..MaxTime /\ c \in Flows /\ time'[c] \in 0..MaxTime
    BY <1>1, <1>3, <2>6, FairQueueAssumption DEF MaxCost, DataOK
  <2>10. CASE g = c
    BY <2>9, <2>10, FairQueueAssumption
  <2>11. CASE g # c /\ c # f
    <3>1. c \in Current /\ time'[c] = time[c]
      BY <1>3, <2>6, <2>9, <2>11
    <3>2. CASE g = f
      BY <1>3, <2>8, <3>1, <3>2
    <3>3. CASE g # f
      BY <1>3, <2>8, <2>9, <3>1, <3>3 DEF Fresh, FreshAt, DataOK
    <3>. QED BY <3>2, <3>3
  <2>12. CASE g # c /\ c = f /\ f = previous_flow
    BY <1>1, <1>3, <2>2, <2>8, <2>9, <2>12, FairQueueAssumption DEF Fresh, FreshAt, Current, DataOK
  <2>13. CASE g # c /\ c = f /\ f # previous_flow
    <3>1. time'[g] = time[g] /\ time[g] \in 0..MaxTime
      BY <1>3, <2>9, <2>13 DEF DataOK
    <3>2. CASE Current = {}
      BY <2>8, <2>9, <3>1, <3>2, FairQueueAssumption DEF Fresh, FreshAt
    <3>3. CASE Current # {}
      <4>1. PICK d \in Current : time[d] <= time'[f]
        BY <1>3, <2>13, <3>3
      <4>2. time[g] <= time[d] + MaxCost /\ time[d] \in 0..MaxTime
        BY <1>3, <2>8, <2>9, <4>1 DEF Fresh, FreshAt, DataOK
      <4>. QED BY <2>9, <2>13, <3>1, <4>1, <4>2, FairQueueAssumption
    <3>. QED BY <3>2, <3>3
  <2>. QED BY <2>10, <2>11, <2>12, <2>13
<1>. QED BY <1>5, <1>6

LEMMA OutputDone ==
  ASSUME IInv, Remembered, output_handler_done
  PROVE  IInv'
<1>. USE DEF IInv
<1>. DEFINE f == sending_flow
<1>1. /\ f # None /\ ~freeing /\ sending_flow' = None /\ sending_len' = 0
      /\ handler_busy' = FALSE /\ schedule_job' = TRUE
      /\ queued' = queued /\ data_len' = data_len /\ freeing' = freeing
  BY Zenon DEF output_handler_done
<1>2. FlagsOK' /\ Conserving'
  BY <1>1, Zenon DEF FlagsOK, Conserving
<1>3. \E subtract \in Subtracted(f) :
        LET after == increment_sent_flow(f, Cost(sending_len), subtract) IN
        \/ flows' = flows \ {f} /\ time' = [after EXCEPT ![f] = 0] /\ previous_flow' = None
        \/ flows' = flows /\ time' = after /\ previous_flow' = f
  BY Zenon DEF output_handler_done
<1>4. PICK subtract \in Subtracted(f) :
        LET after == increment_sent_flow(f, Cost(sending_len), subtract) IN
        \/ flows' = flows \ {f} /\ time' = [after EXCEPT ![f] = 0] /\ previous_flow' = None
        \/ flows' = flows /\ time' = after /\ previous_flow' = f
  BY <1>3
<1>. DEFINE after == increment_sent_flow(f, Cost(sending_len), subtract)
<1>5. Cost(sending_len) \in 0..MaxCost /\ MaxCost \in Nat
  BY FairQueueAssumption DEF DataOK, Cost, MaxCost
<1>6. PICK r \in 0..MaxTime : Incremented(f, Cost(sending_len), r, after)
  BY <1>1, <1>5, IncrementEffect
<1>. HIDE DEF after
<1>7. /\ r \in 0..MaxTime /\ (r = 0 \/ time[f] <= r)
      /\ after \in [Flows -> 0..MaxTime]
      /\ \A g \in queued : r <= time[g]
      /\ \A g \in Flows \ {f} : after[g] = IF r > time[g] THEN 0 ELSE time[g] - r
      /\ after[f] = time[f] + Cost(sending_len) - r
  BY <1>6 DEF Incremented
<1>8. f \in flows /\ flows \subseteq Flows /\ queued \subseteq flows \ {f} /\ Current = {f}
      /\ \A g \in queued : time[f] <= time[g]
  BY <1>1 DEF DataOK, Chosen, Current
<1>9. \A g \in flows \ stale : time[g] <= time[f] + MaxCost
  BY <1>8 DEF Fresh, FreshAt
<1>10. (flows' = flows \ {f} /\ time' = [after EXCEPT ![f] = 0] /\ previous_flow' = None)
       \/ (flows' = flows /\ time' = after /\ previous_flow' = f)
  BY <1>4 DEF after
<1>11. time' \in [Flows -> 0..MaxTime] /\ \A g \in Flows \ {f} : time'[g] = after[g]
  BY <1>7, <1>8, <1>10, FairQueueAssumption
<1>12. flows' \in {flows, flows \ {f}} /\ (f \in flows' => time'[f] = after[f])
       /\ (f \notin flows' => previous_flow' = None /\ time'[f] = 0)
       /\ previous_flow' \in {None, f}
  BY <1>7, <1>8, <1>10
<1>13. DataOK'
  <2>1. flows' \subseteq Flows /\ queued' \subseteq flows' /\ previous_flow' \in flows' \union {None}
    BY <1>1, <1>8, <1>10, <1>12
  <2>. QED BY <1>1, <1>11, <2>1, FairQueueAssumption, StaleKnown DEF DataOK
<1>14. UnusedAtZero'
  <2>. SUFFICES ASSUME NEW g \in Flows \ flows' PROVE time'[g] = 0
    BY DEF UnusedAtZero
  <2>1. CASE g = f
    BY <1>12, <2>1
  <2>2. CASE g # f
    <3>1. time[g] = 0
      BY <1>12, <2>2 DEF UnusedAtZero
    <3>. QED BY <1>7, <1>11, <2>2, <3>1
  <2>. QED BY <2>1, <2>2
<1>15. Chosen'
  BY <1>1, <1>8, <1>12 DEF Chosen
<1>16. Current' \subseteq queued \union {f} /\ (f \in Current' => f \in flows')
  BY <1>1, <1>8, <1>10, <1>12 DEF Current
<1>17. SUFFICES ASSUME NEW g \in flows' \ stale, NEW c \in Current'
                PROVE  time'[g] <= time'[c] + MaxCost
  BY <1>2, <1>13, <1>14, <1>15, StillFresh
<1>18. g \in flows /\ c \in flows /\ time[g] \in 0..MaxTime /\ time[c] \in 0..MaxTime
       /\ time[f] \in 0..MaxTime /\ time'[g] \in 0..MaxTime /\ time'[c] \in 0..MaxTime
  BY <1>8, <1>11, <1>12, <1>16 DEF DataOK
<1>19. time'[g] <= IF r > time[f] + MaxCost THEN 0 ELSE time[f] + MaxCost - r
  <2>1. CASE g = f
    <3>1. time'[g] = time[f] + Cost(sending_len) - r
      BY <1>7, <1>12, <1>17, <2>1
    <3>. QED BY <1>5, <1>7, <1>18, <3>1, FairQueueAssumption DEF MaxCost
  <2>2. CASE g # f
    <3>1. time'[g] = IF r > time[g] THEN 0 ELSE time[g] - r
      BY <1>7, <1>8, <1>11, <1>18, <2>2
    <3>2. time[g] <= time[f] + MaxCost
      BY <1>9, <1>17, <1>18
    <3>. QED BY <1>5, <1>7, <1>18, <3>1, <3>2, FairQueueAssumption
  <2>. QED BY <2>1, <2>2
<1>20. c # f => time'[c] = time[c] - r /\ time[f] <= time[c]
  BY <1>7, <1>8, <1>11, <1>16, <1>18
<1>21. c = f => time'[c] = time[f] + Cost(sending_len) - r
  BY <1>7, <1>12, <1>16
<1>. QED BY <1>5, <1>7, <1>18, <1>19, <1>20, <1>21, FairQueueAssumption

-----------------------------------------------------------------------------
LEMMA NextHolds == IInv /\ [Next]_vars => IInv'
<1>. SUFFICES ASSUME IInv, [Next]_vars PROVE IInv'
  OBVIOUS
<1>1. CASE UNCHANGED vars
  <2>1. FlagsOK' /\ Conserving'
    BY <1>1, Zenon DEF IInv, FlagsOK, Conserving, vars, queueVars
  <2>2. DataOK' /\ UnusedAtZero' /\ Chosen' /\ Fresh'
    BY <1>1 DEF IInv, DataOK, UnusedAtZero, Chosen, Fresh, Current, vars, queueVars
  <2>. QED BY <2>1, <2>2, Zenon DEF IInv
<1>2. CASE Step /\ Remembered
  <2>1. CASE \E f \in Flows :
               \/ PacketPassFairQueueFlow_Init(f)
               \/ PacketPassFairQueueFlow_Free(f)
               \/ \E len \in 0..MTU : input_handler_send(f, len)
    BY <1>2, <2>1, InitFlow, FreeFlow, Send
  <2>2. CASE PacketPassFairQueueFlow_SetBusyHandler
    BY <1>2, <2>2, SetHandler
  <2>3. CASE output_handler_done
    BY <1>2, <2>3, OutputDone
  <2>4. CASE schedule_job_handler
    BY <1>2, <2>4, ScheduleJob
  <2>5. CASE PacketPassFairQueue_PrepareFree
    BY <1>2, <2>5, PrepareFree
  <2>6. CASE PacketPassFairQueue_Free
    BY <1>2, <2>6, FreeQueue
  <2>. QED BY <1>2, <2>1, <2>2, <2>3, <2>4, <2>5, <2>6, Zenon DEF Step
<1>. QED BY <1>1, <1>2, Zenon DEF Next

LEMMA Inductive == Spec => []IInv
<1>1. Init => IInv
  BY InitHolds
<1>2. IInv /\ [Next]_vars => IInv'
  BY NextHolds
<1>. QED BY <1>1, <1>2, PTL DEF Spec

\* Types, and with them that no time overflows: what increment_sent_flow lets wrap
\* below zero always wraps back when the packet's cost is added.
THEOREM TypeCorrect == Spec => []TypeOK
<1>1. IInv => TypeOK
  BY TypeParts, Zenon DEF IInv
<1>. QED BY <1>1, Inductive, PTL

\* The queue sends what is due first, and never stands still with a packet in it.
THEOREM AlwaysLeastFirst == Spec => []LeastFirst
<1>1. IInv => LeastFirst
  BY Zenon DEF IInv, LeastFirst, Chosen, Conserving
<1>. QED BY <1>1, Inductive, PTL

\* Fairness: two flows that are not stale are never more than a packet apart.
THEOREM LagAlwaysBounded == Spec => []LagBounded
<1>1. IInv => LagBounded
  <2>. SUFFICES ASSUME IInv, NEW f \in Busy \ stale, NEW g \in Busy \ stale
                PROVE  time[f] <= time[g] + MaxCost
    BY DEF LagBounded
  <2>. USE DEF IInv
  <2>1. f \in flows /\ g \in flows /\ time[f] \in 0..MaxTime /\ time[g] \in 0..MaxTime
        /\ MaxCost \in Nat
    BY FairQueueAssumption DEF DataOK, Busy, MaxCost
  <2>2. CASE sending_flow # None
    <3>1. time[f] <= time[sending_flow] + MaxCost
      BY <2>1, <2>2 DEF Fresh, FreshAt, Current
    <3>2. time[sending_flow] <= time[g] /\ time[sending_flow] \in 0..MaxTime
      BY <2>1, <2>2 DEF Busy, Chosen, DataOK
    <3>. QED BY <2>1, <3>1, <3>2, FairQueueAssumption
  <2>3. CASE sending_flow = None
    <3>1. g \in Current
      BY <2>3 DEF Busy, Current
    <3>. QED BY <2>1, <3>1 DEF Fresh, FreshAt
  <2>. QED BY <2>2, <2>3
<1>. QED BY <1>1, Inductive, PTL

\* Changing the times leaves the tree in order.
THEOREM OrderAlwaysKept == Spec => OrderKept
<1>. DEFINE Kept == \A f, g \in queued \intersect queued' : time[f] <= time[g] => time'[f] <= time'[g]
<1>1. IInv /\ [Next]_vars => [Kept]_vars
  <2>. SUFFICES ASSUME IInv, Next, NEW f \in queued, NEW g \in queued,
                       f \in queued', g \in queued', time[f] <= time[g]
                PROVE  time'[f] <= time'[g]
    BY Zenon
  <2>. USE DEF IInv
  <2>1. f \in Flows /\ g \in Flows /\ time[f] \in 0..MaxTime /\ time[g] \in 0..MaxTime
    BY DEF DataOK
  <2>2. CASE time'[f] = time[f] /\ time'[g] = time[g]
    BY <2>2
  <2>3. CASE output_handler_done
    <3>1. sending_flow # None /\ Cost(sending_len) \in 0..MaxCost
      BY <2>3, FairQueueAssumption DEF output_handler_done, DataOK, Cost, MaxCost
    <3>2. f # sending_flow /\ g # sending_flow
      BY <3>1 DEF Chosen
    <3>3. PICK subtract \in Subtracted(sending_flow) :
            LET after == increment_sent_flow(sending_flow, Cost(sending_len), subtract)
            IN time' = [after EXCEPT ![sending_flow] = 0] \/ time' = after
      BY <2>3, Zenon DEF output_handler_done
    <3>. DEFINE after == increment_sent_flow(sending_flow, Cost(sending_len), subtract)
    <3>4. PICK r \in 0..MaxTime : Incremented(sending_flow, Cost(sending_len), r, after)
      BY <3>1, IncrementEffect
    <3>. HIDE DEF after
    <3>5. after[f] = time[f] - r /\ after[g] = time[g] - r
      BY <2>1, <3>2, <3>4, FairQueueAssumption DEF Incremented
    <3>6. time'[f] = after[f] /\ time'[g] = after[g]
      <4>1. after \in [Flows -> 0..MaxTime]
        BY <3>4 DEF Incremented
      <4>2. time' = [after EXCEPT ![sending_flow] = 0] \/ time' = after
        BY <3>3 DEF after
      <4>. QED BY <2>1, <3>2, <4>1, <4>2
    <3>. QED BY <2>1, <3>5, <3>6, FairQueueAssumption
  <2>4. CASE \E h \in Flows : PacketPassFairQueueFlow_Free(h)
    BY <2>1, <2>4 DEF PacketPassFairQueueFlow_Free, DataOK
  <2>5. CASE \E h \in Flows, len \in 0..MTU : input_handler_send(h, len)
    <3>1. PICK h \in Flows, len \in 0..MTU : input_handler_send(h, len)
      BY <2>5
    <3>2. h \notin queued
      BY <3>1, Zenon DEF input_handler_send
    <3>3. \A k \in Flows \ {h} : time'[k] = time[k]
      BY <3>1, SendRaises
    <3>. QED BY <2>1, <3>2, <3>3
  <2>6. CASE UNCHANGED time
    BY <2>6
  <2>7. Step
    BY Zenon DEF Next
  <2>. QED BY <2>3, <2>4, <2>5, <2>6, <2>7, Zenon DEF Step, PacketPassFairQueueFlow_Init,
          PacketPassFairQueueFlow_SetBusyHandler, schedule_job_handler,
          PacketPassFairQueue_PrepareFree, PacketPassFairQueue_Free
<1>2. Spec => [][Kept]_vars
  BY <1>1, Inductive, PTL DEF Spec
<1>. QED BY <1>2 DEF OrderKept
=============================================================================
