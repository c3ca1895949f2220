------------------------ MODULE PacketPassFairQueue ------------------------
(***************************************************************************)
(* The fair queue of flow/PacketPassFairQueue.c, through which the flows   *)
(* of the UDP gateway's client and of its server share one connection.     *)
(* Each flow has a virtual time, which grows by the size of what it sends; *)
(* the queued flow with the least time is next.  Times are 64 bits wide    *)
(* and are moved back together before one would overflow, while the tree   *)
(* that is ordered by them holds the queued flows.                         *)
(***************************************************************************)
EXTENDS Integers

CONSTANTS
  Flows,          \* the flow objects that may exist
  None,           \* NULL
  MTU,            \* largest packet of the output
  packet_weight,  \* what a packet costs besides its bytes
  MaxTime,        \* FAIRQUEUE_MAX_TIME
  Word            \* 2^64: values of uint64_t are below it

\* PacketPassFairQueue_Init refuses an output for which the last conjunct is false.
ASSUME FairQueueAssumption ==
  /\ None \notin Flows
  /\ MTU \in Nat /\ packet_weight \in Nat \ {0}
  /\ MaxTime \in Nat /\ Word \in Nat /\ MaxTime < Word
  /\ MTU + packet_weight <= MaxTime

VARIABLES
  flows,          \* flows_list
  time,           \* of each flow
  queued,         \* the flows in queued_tree
  data_len,       \* of the packet of a queued flow
  sending_flow,   \* the flow whose packet the output has, or None
  sending_len,
  previous_flow,  \* the flow that has just sent, until schedule_job runs
  schedule_job,   \* whether it is pending
  handler_busy,   \* whether the sending flow has one
  freeing,        \* PacketPassFairQueue_PrepareFree has been called
  stale           \* history: flows with a time from before the queue was last idle

queueVars == <<flows, time, queued, data_len, sending_flow, sending_len,
               previous_flow, schedule_job, handler_busy, freeing>>
vars == <<queueVars, stale>>

FlowOrNone == Flows \union {None}
MaxCost == MTU + packet_weight

\* GetFirst on the tree of the flows q, which are ordered by their times t and, where
\* these are the same, by their addresses.
First(f, q, t) == f \in q /\ \A g \in q : t[f] <= t[g]

\* The set of the least element of a set of times, if it has any.
Least(S) == {n \in S : \A m \in S : n <= m}

Init ==
  /\ flows = {} /\ time = [f \in Flows |-> 0]
  /\ queued = {} /\ data_len = [f \in Flows |-> 0]
  /\ sending_flow = None /\ sending_len = 0 /\ previous_flow = None
  /\ schedule_job = FALSE /\ handler_busy = FALSE /\ freeing = FALSE
  /\ stale = {}

-----------------------------------------------------------------------------
\* The flows of which the current time is the least.
Current ==
  IF sending_flow # None THEN {sending_flow}
  ELSE queued \union (IF previous_flow # None THEN {previous_flow} ELSE {})

\* Faulty variant: the current time is that of the flow which would be next.
get_current_time_Queued == IF queued = {} THEN {0} ELSE Least({time[f] : f \in queued})

\* The one value it returns: 0 if nothing is sent or queued, and nothing has just been sent.
get_current_time == IF Current = {} THEN {0} ELSE Least({time[f] : f \in Current})

\* Arithmetic of uint64_t.
Plus(a, b) == IF a + b < Word THEN a + b ELSE a + b - Word
Minus(a, b) == IF a >= b THEN a - b ELSE a - b + Word

\* Faulty variant: a packet costs its bytes.
Cost_Bytes(len) == len

Cost(len) == packet_weight + len

\* Faulty variants: times that are not above `subtract` are left alone; all wrap as
\* that of f does.
MovedBack_Left(f, subtract) ==
  [g \in Flows |-> IF subtract >= time[g] /\ g # f THEN time[g] ELSE Minus(time[g], subtract)]
MovedBack_Wrapped(f, subtract) == [g \in Flows |-> Minus(time[g], subtract)]

\* All times less `subtract`, but not below zero, except that of the flow f that has
\* sent, which may wrap and wraps back when its packet is added.
MovedBack(f, subtract) ==
  [g \in Flows |-> IF subtract > time[g] /\ g # f THEN 0 ELSE Minus(time[g], subtract)]

\* What the times are moved back by: the time of the first flow in the tree.
Subtracted(f) == IF queued = {} THEN {time[f]} ELSE Least({time[g] : g \in queued})

\* The times after the flow f, which is in no tree, has sent `amount`.
increment_sent_flow(f, amount, subtract) ==
  LET back == IF amount > MaxTime - time[f] THEN MovedBack(f, subtract) ELSE time
  IN [back EXCEPT ![f] = Plus(@, amount)]

\* schedule: the first of the flows q, which have the times t and lengths l, sends.
schedule(q, t, l) ==
  \E f \in q :
    /\ First(f, q, t)
    /\ queued' = q \ {f} /\ data_len' = [l EXCEPT ![f] = 0]
    /\ sending_flow' = f /\ sending_len' = l[f]

-----------------------------------------------------------------------------
PacketPassFairQueueFlow_Init(f) ==
  /\ f \notin flows /\ ~freeing
  /\ flows' = flows \union {f}
  /\ UNCHANGED <<time, queued, data_len, sending_flow, sending_len, previous_flow,
                 schedule_job, handler_busy, freeing>>

Unless(flow, f) == IF flow = f THEN None ELSE flow

\* A busy flow is freed only while the whole queue is.
PacketPassFairQueueFlow_Free(f) ==
  /\ f \in flows /\ (freeing \/ f # sending_flow)
  /\ flows' = flows \ {f} /\ time' = [time EXCEPT ![f] = 0]
  /\ sending_flow' = Unless(sending_flow, f)
  /\ sending_len' = IF sending_flow = f THEN 0 ELSE sending_len
  /\ handler_busy' = (handler_busy /\ sending_flow # f)
  /\ previous_flow' = Unless(previous_flow, f)
  /\ queued' = queued \ {f} /\ data_len' = [data_len EXCEPT ![f] = 0]
  /\ UNCHANGED <<schedule_job, freeing>>

Raised(t, now) == IF t >= now THEN t ELSE now

\* A flow that sends again before schedule_job keeps its time, any other is raised
\* to the current one.
input_handler_send(f, len) ==
  /\ f \in flows \ queued /\ f # sending_flow /\ ~freeing
  /\ IF f = previous_flow
       THEN previous_flow' = None /\ time' = time
       ELSE /\ previous_flow' = previous_flow
            /\ \E now \in get_current_time : time' = [time EXCEPT ![f] = Raised(@, now)]
  /\ LET q == queued \union {f}
         l == [data_len EXCEPT ![f] = len] IN
     IF sending_flow = None /\ ~schedule_job
       THEN schedule(q, time', l)
       ELSE queued' = q /\ data_len' = l /\ UNCHANGED <<sending_flow, sending_len>>
  /\ UNCHANGED <<flows, schedule_job, handler_busy, freeing>>

PacketPassFairQueueFlow_SetBusyHandler ==
  /\ sending_flow # None /\ ~freeing /\ ~handler_busy
  /\ handler_busy' = TRUE
  /\ UNCHANGED <<flows, time, queued, data_len, sending_flow, sending_len,
                 previous_flow, schedule_job, freeing>>

\* The output has sent the packet.  The busy handler is that of udpgw.c, which frees
\* the flow at once.
output_handler_done ==
  /\ sending_flow # None /\ ~freeing
  /\ sending_flow' = None /\ sending_len' = 0 /\ handler_busy' = FALSE
  /\ schedule_job' = TRUE
  /\ \E subtract \in Subtracted(sending_flow) :
       LET f == sending_flow
           after == increment_sent_flow(f, Cost(sending_len), subtract) IN
       IF handler_busy
         THEN flows' = flows \ {f} /\ time' = [after EXCEPT ![f] = 0] /\ previous_flow' = None
         ELSE flows' = flows /\ time' = after /\ previous_flow' = f
  /\ UNCHANGED <<queued, data_len, freeing>>

\* schedule_job_handler.
schedule_job_handler ==
  /\ schedule_job /\ ~freeing
  /\ schedule_job' = FALSE /\ previous_flow' = None
  /\ IF queued # {}
       THEN schedule(queued, time, data_len)
       ELSE UNCHANGED <<queued, data_len, sending_flow, sending_len>>
  /\ UNCHANGED <<flows, time, handler_busy, freeing>>

PacketPassFairQueue_PrepareFree ==
  /\ ~freeing /\ freeing' = TRUE
  /\ UNCHANGED <<flows, time, queued, data_len, sending_flow, sending_len,
                 previous_flow, schedule_job, handler_busy>>

\* PacketPassFairQueue_Free, which frees schedule_job; a new queue may be made.
PacketPassFairQueue_Free ==
  /\ freeing /\ flows = {}
  /\ freeing' = FALSE /\ schedule_job' = FALSE
  /\ UNCHANGED <<flows, time, queued, data_len, sending_flow, sending_len,
                 previous_flow, handler_busy>>

Step ==
  \/ \E f \in Flows :
       \/ PacketPassFairQueueFlow_Init(f)
       \/ PacketPassFairQueueFlow_Free(f)
       \/ \E len \in 0..MTU : input_handler_send(f, len)
  \/ PacketPassFairQueueFlow_SetBusyHandler
  \/ output_handler_done
  \/ schedule_job_handler
  \/ PacketPassFairQueue_PrepareFree
  \/ PacketPassFairQueue_Free

\* When the queue falls idle the flows keep their times, and the current time starts
\* at 0 again; a flow with a time from before is stale until it has its turn.
Remembered ==
  stale' = IF Current' = {} THEN {f \in flows' : time'[f] > 0}
           ELSE (stale \intersect flows') \ {sending_flow'}

Next == Step /\ Remembered

Spec == Init /\ [][Next]_vars

\* The output goes on sending, and jobs run.
FairSpec == Spec /\ WF_vars(output_handler_done /\ Remembered) /\ WF_vars(schedule_job_handler /\ Remembered)

-----------------------------------------------------------------------------
\* That times are at most MaxTime says that none ever overflows: what wraps in
\* increment_sent_flow always wraps back.
TypeOK ==
  /\ flows \subseteq Flows /\ time \in [Flows -> 0..MaxTime]
  /\ queued \subseteq flows /\ data_len \in [Flows -> 0..MTU]
  /\ sending_flow \in flows \union {None} /\ sending_len \in 0..MTU
  /\ previous_flow \in flows \union {None}
  /\ schedule_job \in BOOLEAN /\ handler_busy \in BOOLEAN /\ freeing \in BOOLEAN
  /\ stale \subseteq flows

\* A flow that sends is not queued, none that is queued is due before it, and the
\* queue is never left with something to send and nobody to send it.
LeastFirst ==
  /\ sending_flow # None =>
       /\ sending_flow \notin queued /\ previous_flow = None /\ ~schedule_job
       /\ \A f \in queued : time[sending_flow] <= time[f]
  /\ queued # {} => sending_flow # None \/ schedule_job \/ freeing

Busy == queued \union (IF sending_flow # None THEN {sending_flow} ELSE {})

\* Fairness: of two flows that have packets one is never ahead of the other by more
\* than a packet.  A stale flow is, by all it has sent before the queue was idle.
LagBounded == \A f, g \in Busy \ stale : time[f] <= time[g] + MaxCost

\* The order of the flows in the tree does not change while they are in it, although
\* their times do.
OrderKept ==
  [][\A f, g \in queued \intersect queued' : time[f] <= time[g] => time'[f] <= time'[g]]_vars

\* A flow with a packet has its turn unless it is freed or new flows come for ever:
\* each of those starts at the time of the one that waits, and if its address is lower
\* it is first.
NoStarvation ==
  \/ []<><<~(flows' \subseteq flows)>>_flows
  \/ \A f \in Flows : f \in queued ~> (sending_flow = f \/ f \notin flows \/ freeing)
=============================================================================
