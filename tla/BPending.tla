------------------------------ MODULE BPending ------------------------------
(***************************************************************************)
(* The job queue of the reactor (base/BPending.c), the handlers that use   *)
(* it, and the nested loop of BReactor_Synchronize, which tun2socks.c      *)
(* enters from the callbacks of lwIP by SYNC_FROMHERE and SYNC_COMMIT to   *)
(* run the jobs those callbacks have set, and no others.  The outer loop   *)
(* is in Reactor.                                                          *)
(***************************************************************************)
EXTENDS Naturals, Sequences, SequencesExt

CONSTANTS
  Jobs,      \* BPending and BSmallPending objects of the program
  Marks,     \* sync_mark objects, one for each handler that may synchronise
  Event,     \* stands for a handler called for a timer or a file descriptor
  MaxDepth   \* bound on handlers that run inside each other: no SYNC_COMMIT at it

None == 0

ASSUME BPendingAssumption ==
  /\ Event \notin Jobs \union Marks /\ Jobs \intersect Marks = {} /\ None \notin Jobs \union Marks
  /\ MaxDepth \in Nat \ {0}

VARIABLES
  alive,    \* jobs between Init and Free
  jobs,     \* the list, the next job first
  stack,    \* the handlers that are running, the innermost last
  exiting   \* BReactor_Quit has been called

queueVars == <<alive, jobs, stack, exiting>>

(* A handler runs for the job `runs`; `mark` is its sync_mark, `waiting` says  *)
(* that it is in BReactor_Synchronize.  History: `since` holds the jobs set    *)
(* since SYNC_FROMHERE that have not run.                                      *)
Frame == [runs : Jobs \union {Event}, mark : Marks \union {None},
          waiting : BOOLEAN, since : SUBSET Jobs]

Running(j) == [runs |-> j, mark |-> None, waiting |-> FALSE, since |-> {}]
Top == stack[Len(stack)]
InHandler == stack # <<>> /\ ~Top.waiting
Marked == {i \in DOMAIN stack : stack[i].mark # None}

QueueTypeOK ==
  /\ alive \subseteq Jobs /\ exiting \in BOOLEAN
  /\ jobs \in Seq(Jobs \union Marks)
  /\ stack \in Seq(Frame) /\ Len(stack) <= MaxDepth

QueueInit == alive = {} /\ jobs = <<>> /\ stack = <<>> /\ exiting = FALSE

\* Every mark that is set remembers that j has been set, or is no longer.
Remember(st, j) ==
  [i \in DOMAIN st |-> IF st[i].mark # None THEN [st[i] EXCEPT !.since = @ \union {j}] ELSE st[i]]
Forget(st, j) == [i \in DOMAIN st |-> [st[i] EXCEPT !.since = @ \ {j}]]

-----------------------------------------------------------------------------
\* Faulty variant: jobs are queued at the end.
Prepended_AtEnd(j, list) == RemoveFirst(list, j) \o <<j>>

\* The list with j first, and the list without j.
Prepended(j, list) == <<j>> \o RemoveFirst(list, j)
Removed(j, list) == RemoveFirst(list, j)

\* BSmallPending_Init, _Set, _Unset and _Free, called by the handler that runs.
BPending_Init(j) ==
  /\ InHandler /\ j \notin alive
  /\ alive' = alive \union {j}
  /\ UNCHANGED <<jobs, stack, exiting>>

BPending_Set(j) ==
  /\ InHandler /\ j \in alive
  /\ jobs' = Prepended(j, jobs) /\ stack' = Remember(stack, j)
  /\ UNCHANGED <<alive, exiting>>

BPending_Unset(j) ==
  /\ InHandler /\ j \in alive
  /\ jobs' = Removed(j, jobs) /\ stack' = Forget(stack, j)
  /\ UNCHANGED <<alive, exiting>>

BPending_Free(j) ==
  /\ InHandler /\ j \in alive
  /\ alive' = alive \ {j}
  /\ jobs' = Removed(j, jobs) /\ stack' = Forget(stack, j)
  /\ UNCHANGED exiting

\* BPendingGroup_ExecuteJob: the job is taken from the list before it runs.
BPendingGroup_ExecuteJob ==
  /\ jobs # <<>>
  /\ jobs' = Tail(jobs)
  /\ stack' = Forget(stack, Head(jobs)) \o <<Running(Head(jobs))>>
  /\ UNCHANGED <<alive, exiting>>

-----------------------------------------------------------------------------
\* SYNC_FROMHERE
SyncFromHere(m) ==
  /\ InHandler /\ Top.mark = None
  /\ \A i \in DOMAIN stack : stack[i].mark # m
  /\ stack' = [stack EXCEPT ![Len(stack)].mark = m, ![Len(stack)].since = {}]
  /\ jobs' = Prepended(m, jobs)
  /\ UNCHANGED <<alive, exiting>>

\* The top handler has done with its mark and goes on.
Unmark ==
  /\ jobs' = Removed(Top.mark, jobs)
  /\ stack' = [stack EXCEPT ![Len(stack)] = Running(Top.runs)]
  /\ UNCHANGED <<alive, exiting>>

\* SYNC_BREAK
SyncBreak == InHandler /\ Top.mark # None /\ Unmark

\* SYNC_COMMIT calls BReactor_Synchronize, ...
SyncCommit ==
  /\ InHandler /\ Top.mark # None /\ Len(stack) < MaxDepth
  /\ stack' = [stack EXCEPT ![Len(stack)].waiting = TRUE]
  /\ UNCHANGED <<alive, jobs, exiting>>

\* Faulty variant: it does not wait.
MarkReached_AtOnce == Contains(jobs, Top.mark)

\* ... which runs jobs until the mark is first ...
MarkReached == Head(jobs) = Top.mark

Synchronize ==
  /\ stack # <<>> /\ Top.waiting /\ ~exiting /\ ~MarkReached
  /\ BPendingGroup_ExecuteJob

\* ... or the reactor is told to quit; then the mark is freed.
SyncReturn ==
  /\ stack # <<>> /\ Top.waiting
  /\ exiting \/ MarkReached
  /\ Unmark

\* BReactor_Quit
BReactor_Quit == InHandler /\ exiting' = TRUE /\ UNCHANGED <<alive, jobs, stack>>

\* The handler returns.
Return ==
  /\ InHandler /\ Top.mark = None
  /\ stack' = Front(stack)
  /\ UNCHANGED <<alive, jobs, exiting>>

\* What handlers do, and the end of what they have waited for.
Handler ==
  \/ \E j \in Jobs : BPending_Init(j) \/ BPending_Set(j) \/ BPending_Unset(j) \/ BPending_Free(j)
  \/ \E m \in Marks : SyncFromHere(m)
  \/ SyncBreak
  \/ SyncCommit
  \/ Synchronize
  \/ SyncReturn
  \/ BReactor_Quit
  \/ Return

-----------------------------------------------------------------------------
\* The list, whose nodes are embedded in the jobs, holds each job at most once and
\* none that has been freed: a job set, run, freed and set again in any order
\* leaves no second link and no link into freed memory.
ListWellFormed ==
  /\ \A i, k \in DOMAIN jobs : jobs[i] = jobs[k] => i = k
  /\ \A i \in DOMAIN jobs : jobs[i] \in Jobs => jobs[i] \in alive

\* A mark is in the list exactly while its handler has it, and the mark of an
\* inner handler stands before those of the outer ones: BReactor_Synchronize
\* always finds a job (its ASSERT), and never runs a mark, whose handler is NULL.
MarksNested ==
  /\ \A m \in Marks : Contains(jobs, m) <=> \E i \in DOMAIN stack : stack[i].mark = m
  /\ \A i, k \in Marked : i < k => \E a, b \in DOMAIN jobs :
        a < b /\ jobs[a] = stack[k].mark /\ jobs[b] = stack[i].mark
  /\ \A i \in DOMAIN stack : stack[i].runs \notin Marks

\* The jobs before a mark are those set since it was set and not yet run: the
\* synchronising callback runs what it has caused and nothing that was pending
\* before, which belongs to code that has not expected it yet.
BeforeMarkIsSince ==
  \A i \in Marked : \A j \in Jobs :
    j \in stack[i].since <=>
      \E a, b \in DOMAIN jobs : a < b /\ jobs[a] = j /\ jobs[b] = stack[i].mark

\* The three parts of what the list and the nested handlers rely on.
WellNested == ListWellFormed /\ MarksNested /\ BeforeMarkIsSince

\* When BReactor_Synchronize returns without the reactor quitting, no job set
\* since SYNC_FROMHERE is left over, by whatever handler it was set.
SyncRunsAll ==
  [][stack # <<>> /\ Top.waiting /\ ~exiting /\ Len(stack') = Len(stack) => Top.since = {}]_queueVars
=============================================================================
