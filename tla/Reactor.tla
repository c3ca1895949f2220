------------------------------- MODULE Reactor -------------------------------
(***************************************************************************)
(* The loop of the reactor, BReactor_Exec and wait_for_events of           *)
(* system/BReactor_badvpn.c: jobs first, then the timers that have         *)
(* expired, then the events kevent() has returned, and then it sleeps in   *)
(* kevent() for as long as the first timer allows.  Handlers set and       *)
(* remove timers as they like, also those that wait to be dispatched.      *)
(* The clock of system/BTime.c is the calendar's (CALENDAR_CLOCK), so it   *)
(* is put forward and back while timers run.                               *)
(***************************************************************************)
EXTENDS BPending, Integers

CONSTANTS
  Timers,      \* BTimer objects
  Interval,    \* msTime of each of them, in ticks
  MaxResults,  \* bound on the events of one call of kevent()
  MaxAdjusted  \* bound on the ticks the clock is put forward and back

ASSUME ReactorAssumption ==
  /\ Interval \in [Timers -> Nat \ {0}]
  /\ MaxResults \in Nat \ {0} /\ MaxAdjusted \in Nat

VARIABLES
  running,   \* timers_tree
  expired,   \* timers_expired_list
  left,      \* absTime of a timer that is not inactive, less what the clock says; 0 if it has passed
  ready,     \* events that have been returned and not been dispatched
  sleeping,  \* in kevent()
  timeout,   \* what is left of its timeout: {} without one, else the set of the one number
  really,    \* history: the ticks that are really left to each timer
  forth,     \* history: the ticks by which the clock has been put forward
  back       \* history: and back

timerVars == <<running, expired, left, really>>
waitVars == <<ready, sleeping, timeout>>
clockVars == <<forth, back>>
vars == <<queueVars, timerVars, waitVars, clockVars>>

Set == running \union Range(expired)

TypeOK ==
  /\ QueueTypeOK
  /\ running \subseteq Timers /\ expired \in Seq(Timers)
  /\ left \in [Timers -> Nat] /\ really \in [Timers -> Nat]
  /\ ready \in 0..MaxResults /\ sleeping \in BOOLEAN
  /\ timeout \subseteq Nat /\ \A m, n \in timeout : m = n

Init ==
  /\ QueueInit
  /\ running = {} /\ expired = <<>>
  /\ left = [t \in Timers |-> 0] /\ really = [t \in Timers |-> 0]
  /\ ready = 0 /\ sleeping = FALSE /\ timeout = {} /\ forth = 0 /\ back = 0

-----------------------------------------------------------------------------
\* Faulty variant: a timer that has expired stays in its list.
Expired_Left(t) == expired

\* BReactor_RemoveSmallTimer takes a timer from the tree or from the list.
ExpiredWithout(t) == RemoveFirst(expired, t)

\* BReactor_SetTimer, called by the handler that runs.
BReactor_SetTimer(t) ==
  /\ InHandler
  /\ running' = running \union {t} /\ expired' = ExpiredWithout(t)
  /\ left' = [left EXCEPT ![t] = Interval[t]] /\ really' = [really EXCEPT ![t] = Interval[t]]
  /\ UNCHANGED <<queueVars, waitVars, clockVars>>

BReactor_RemoveTimer(t) ==
  /\ InHandler /\ t \in Set
  /\ running' = running \ {t} /\ expired' = ExpiredWithout(t)
  /\ left' = [left EXCEPT ![t] = 0] /\ really' = [really EXCEPT ![t] = 0]
  /\ UNCHANGED <<queueVars, waitVars, clockVars>>

-----------------------------------------------------------------------------
\* The loop is between two handlers.
Between == stack = <<>> /\ ~exiting /\ ~sleeping

ExecuteJob == Between /\ BPendingGroup_ExecuteJob /\ UNCHANGED <<timerVars, waitVars, clockVars>>

\* The handler of a timer or of a descriptor is called.
Dispatch == stack' = <<Running(Event)>> /\ UNCHANGED <<alive, jobs, exiting>>

DispatchTimer ==
  /\ Between /\ jobs = <<>> /\ expired # <<>>
  /\ expired' = Tail(expired)
  /\ left' = [left EXCEPT ![Head(expired)] = 0] /\ really' = [really EXCEPT ![Head(expired)] = 0]
  /\ Dispatch
  /\ UNCHANGED <<running, waitVars, clockVars>>

DispatchEvent ==
  /\ Between /\ jobs = <<>> /\ expired = <<>> /\ ready > 0
  /\ ready' = ready - 1
  /\ Dispatch
  /\ UNCHANGED <<timerVars, sleeping, timeout, clockVars>>

\* Timers of the tree become expired, the earlier first.
Move(ts) ==
  /\ running' = running \ ts
  /\ expired' \in {expired \o s : s \in
       {s \in SetToSeqs(ts) : \A i, j \in DOMAIN s : i < j => left[s[i]] <= left[s[j]]}}
  /\ UNCHANGED <<left, really>>

First == {t \in running : \A u \in running : left[t] <= left[u]}

\* move_first_timers moves those with the time of the first; of the timers whose time
\* has passed `left` does not say which was first.
MoveFirst ==
  \E ts \in SUBSET First :
    ts # {} /\ (ts = First \/ \A t \in First : left[t] = 0) /\ Move(ts)

\* Faulty variant: timers expire by the timeout of kevent() only.
Due_None == {}

Due == {t \in running : left[t] = 0}

Timeout == {left[t] : t \in First}

\* wait_for_events up to kevent(): move_expired_timers, or sleep.
WaitForEvents ==
  /\ Between /\ jobs = <<>> /\ expired = <<>> /\ ready = 0
  /\ IF Due # {} THEN Move(Due) /\ UNCHANGED waitVars
     ELSE /\ sleeping' = TRUE /\ timeout' = Timeout
          /\ UNCHANGED <<timerVars, ready>>
  /\ UNCHANGED <<queueVars, clockVars>>

\* kevent() returns events, ...
EventsReturned ==
  /\ sleeping /\ sleeping' = FALSE /\ timeout' = {}
  /\ ready' \in 1..MaxResults
  /\ UNCHANGED <<queueVars, timerVars, clockVars>>

\* ... or nothing, after its timeout: move_first_timers, without a look at the clock, ...
TimedOut ==
  /\ sleeping /\ 0 \in timeout
  /\ sleeping' = FALSE /\ timeout' = {}
  /\ MoveFirst
  /\ UNCHANGED <<queueVars, ready, clockVars>>

\* ... or has been interrupted: by the clock it is time, or it sleeps again.
Interrupted ==
  /\ sleeping /\ timeout # {}
  /\ IF Due # {} THEN sleeping' = FALSE /\ timeout' = {} /\ MoveFirst
     ELSE timeout' = Timeout /\ UNCHANGED <<sleeping, timerVars>>
  /\ UNCHANGED <<queueVars, ready, clockVars>>

-----------------------------------------------------------------------------
Shifted(times, n) == [t \in Timers |-> IF t \in Set /\ times[t] + n > 0 THEN times[t] + n ELSE 0]

\* A tick of time.
Tick ==
  /\ left' = Shifted(left, -1) /\ really' = Shifted(really, -1)
  /\ timeout' = {IF n = 0 THEN 0 ELSE n - 1 : n \in timeout}
  /\ UNCHANGED <<queueVars, running, expired, ready, sleeping, clockVars>>

\* The clock is put forward or back by a tick; kevent() does not go by it.
Adjust ==
  /\ forth + back < MaxAdjusted
  /\ \/ forth' = forth + 1 /\ left' = Shifted(left, -1) /\ UNCHANGED back
     \/ back' = back + 1 /\ left' = Shifted(left, 1) /\ UNCHANGED forth
  /\ UNCHANGED <<queueVars, running, expired, really, waitVars>>

\* BReactor_Exec has returned.
Stopped == stack = <<>> /\ exiting /\ UNCHANGED vars

Loop == ExecuteJob \/ DispatchTimer \/ DispatchEvent \/ WaitForEvents

Next ==
  \/ Handler /\ UNCHANGED <<timerVars, waitVars, clockVars>>
  \/ \E t \in Timers : BReactor_SetTimer(t) \/ BReactor_RemoveTimer(t)
  \/ ExecuteJob
  \/ DispatchTimer
  \/ DispatchEvent
  \/ WaitForEvents
  \/ EventsReturned
  \/ TimedOut
  \/ Interrupted
  \/ Tick
  \/ Adjust
  \/ Stopped

Spec == Init /\ [][Next]_vars

\* Time goes on, the loop does, and kevent() keeps its timeout.
FairSpec == Spec /\ WF_vars(Tick) /\ WF_vars(Loop) /\ WF_vars(TimedOut)

-----------------------------------------------------------------------------
\* A timer is dispatched early by no more than the clock has been put forward: one
\* that waits to be dispatched and is set again or removed does not fire for what it
\* was set before.  And kevent() never sleeps past a timer, but for as long as the clock
\* has been put back.
TimersKeepTime ==
  /\ \A i \in DOMAIN expired : really[expired[i]] <= forth
  /\ \A i, j \in DOMAIN expired : expired[i] \notin running /\ (expired[i] = expired[j] => i = j)
  /\ sleeping => \A t \in running : \E n \in timeout : n <= really[t] + back

\* However many events there are, a timer that is set and whose time has passed is
\* dispatched in the end, or set again or removed - if handlers come to an end with
\* their jobs.
Overdue(t) == t \in Set /\ left[t] = 0
Quiet == stack = <<>> /\ jobs = <<>>
TimersFire == []<>Quiet => \A t \in Timers : []<>(~Overdue(t) \/ exiting)
=============================================================================
