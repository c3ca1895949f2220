---------------------------- MODULE BConnection ----------------------------
(***************************************************************************)
(* Connections of system/BConnection_unix.c on the reactor as the app      *)
(* builds it, over kqueue: a connector, then a connection with one         *)
(* operation at a time in each direction, the jobs in between, the limit   *)
(* on operations per turn, and the array of events one call of kevent()    *)
(* has returned.  An owner frees its connection when it fails, and at      *)
(* any time from the handler of another descriptor, the device.            *)
(***************************************************************************)
EXTENDS Integers, Sequences, SequencesExt

CONSTANTS
  Conns,      \* memory for clients: each holds a BConnector and a BConnection
  Limit,      \* BCONNECTION_SEND_LIMIT and BCONNECTION_RECV_LIMIT
  MaxResults  \* bound: BSYSTEM_MAX_RESULTS

ASSUME BConnectionAssumption == Limit \in Nat \ {0} /\ MaxResults \in Nat \ {0}

VARIABLES
  active,    \* descriptors added to the reactor
  wait,      \* waitEvents of each descriptor: the filters registered with the kernel
  results,   \* kevent_results: descriptor, or Removed, and filter
  pos,       \* kevent_results_pos
  returned,  \* kevent_returned_ptr of each descriptor: its place in results, or 0
  jobs,      \* pending jobs, in the order they will run
  io,        \* send.state and recv.state of each connection
  count,     \* count of the BReactorLimit of each direction
  stale,     \* a handler was called for a descriptor that had been removed
  doubled    \* history: descriptors with two events in results

vars == <<active, wait, results, pos, returned, jobs, io, count, stale, doubled>>

Dirs == {"READ", "WRITE"}
Connector(c) == <<c, "connector">>
Connection(c) == <<c, "connection">>
Device == <<"device", "device">>
Removed == <<"removed", "removed">>
Owned == Conns \X {"connector", "connection"}
Descriptors == Owned \union {Device}
Of(c) == {Connector(c), Connection(c)}
Results == [bfd : Descriptors \union {Removed}, filter : Dirs]
OpJob(c, d) == <<c, d, "operation">>
DoneJob(c, d) == <<c, d, "done">>
ConnectedJob(c) == <<c, "connected", "job">>
JobsOf(c) == {OpJob(c, d) : d \in Dirs} \union {DoneJob(c, d) : d \in Dirs} \union {ConnectedJob(c)}
Jobs == UNION {JobsOf(c) : c \in Conns}
None == [d \in Dirs |-> "none"]
Zero == [d \in Dirs |-> 0]

TypeOK ==
  /\ active \subseteq Descriptors /\ Device \in active
  /\ wait \in [Descriptors -> SUBSET Dirs]
  /\ results \in Seq(Results) /\ Len(results) <= MaxResults /\ pos \in 0..Len(results)
  /\ returned \in [Descriptors -> 0..Len(results)]
  /\ jobs \in Seq(Jobs)
  /\ io \in [Conns -> [Dirs -> {"none", "ready", "busy"}]]
  /\ count \in [Conns -> [Dirs -> 0..Limit]]
  /\ stale \in BOOLEAN /\ doubled \subseteq Descriptors

Init ==
  /\ active = {Device} /\ wait = [x \in Descriptors |-> IF x = Device THEN {"READ"} ELSE {}]
  /\ results = <<>> /\ pos = 0 /\ returned = [x \in Descriptors |-> 0]
  /\ jobs = <<>> /\ io = [c \in Conns |-> None] /\ count = [c \in Conns |-> Zero]
  /\ stale = FALSE /\ doubled = {}

-----------------------------------------------------------------------------
\* Faulty variant: the events that have been returned are left as they are.
Cleared_Not(gone, ret) == results

\* BReactor_RemoveFileDescriptor writes through kevent_returned_ptr.
Cleared(gone, ret) ==
  [i \in DOMAIN results |->
     IF \E x \in gone \intersect active : ret[x] = i
     THEN [results[i] EXCEPT !.bfd = Removed] ELSE results[i]]

\* SendAsync_Free, RecvAsync_Free and BConnector_Free each free their jobs.
JobsLeft(js, c) ==
  LET Without(list, d) == RemoveFirst(RemoveFirst(list, OpJob(c, d)), DoneJob(c, d))
  IN RemoveFirst(Without(Without(js, "WRITE"), "READ"), ConnectedJob(c))

\* The owner frees the I/O, the connection and the connector of c.
Free(c, js, ret) ==
  /\ active' = active \ Of(c)
  /\ wait' = [x \in Descriptors |-> IF x \in Of(c) THEN {} ELSE wait[x]]
  /\ results' = Cleared(Of(c), ret)
  /\ returned' = [x \in Descriptors |-> IF x \in Of(c) THEN 0 ELSE ret[x]]
  /\ jobs' = JobsLeft(js, c)
  /\ io' = [io EXCEPT ![c] = None]
  /\ count' = [count EXCEPT ![c] = Zero]

PendingJobs(js, c, d) == {i \in DOMAIN js : js[i] \in {OpJob(c, d), DoneJob(c, d)}}

\* The owner starts an operation in some of the directions that have none, or in
\* none: Sender_Send and Receiver_Recv make each a job.
StartOperations(c, js) ==
  \E ds \in BoundedSeq({d \in Dirs : io[c][d] = "ready" /\ PendingJobs(js, c, d) = {}}, 2) :
    /\ IsInjective(ds)
    /\ jobs' = [i \in DOMAIN ds |-> OpJob(c, ds[i])] \o js

\* BConnector_InitFrom: connect() is in progress, or done at once, or fails.
BConnector_Init(c, js, ret) ==
  /\ Of(c) \intersect active = {} /\ \A i \in DOMAIN js : js[i] \notin JobsOf(c)
  /\ \/ /\ active' = active \union {Connector(c)}
        /\ wait' = [wait EXCEPT ![Connector(c)] = {"WRITE"}]
        /\ returned' = [ret EXCEPT ![Connector(c)] = 0] /\ jobs' = js
     \/ /\ jobs' = <<ConnectedJob(c)>> \o js
        /\ returned' = ret /\ UNCHANGED <<active, wait>>
  /\ UNCHANGED <<results, io, count>>

\* connector_handler of the owner: the connector's descriptor, if it had one, has
\* been removed; BConnection_Init, the I/O of both directions, and the first send.
Connected(c, js, ret) ==
  /\ active' = (active \ {Connector(c)}) \union {Connection(c)}
  /\ wait' = [wait EXCEPT ![Connector(c)] = {}]
  /\ results' = Cleared({Connector(c)}, ret)
  /\ returned' = [ret EXCEPT ![Connector(c)] = 0, ![Connection(c)] = 0]
  /\ io' = [io EXCEPT ![c] = [d \in Dirs |-> "ready"]]
  /\ jobs' = <<OpJob(c, "WRITE")>> \o js
  /\ UNCHANGED count

-----------------------------------------------------------------------------
\* BReactorLimit_Increment
MayTry(c, d) == count[c][d] < Limit

\* Faulty variant: what has been tried is not counted.
Counted_Not(c, d) == count

Counted(c, d) == [count EXCEPT ![c][d] = @ + 1]

\* Faulty variant: the state is set, the kernel is not asked.
WaitForFd_Forgotten(c, d, w) == wait' = w

\* Have the kernel tell when the operation can be tried again.
WaitForFd(c, d, w) == wait' = [w EXCEPT ![Connection(c)] = @ \union {d}]

\* connection_send and connection_recv, with the events w registered: over the
\* limit, or EAGAIN, wait; or done; or failed or closed, and the owner frees it.
Try(c, d, w, js, ret) ==
  \/ /\ io' = [io EXCEPT ![c][d] = "busy"]
     /\ WaitForFd(c, d, w)
     /\ count' = IF MayTry(c, d) THEN Counted(c, d) ELSE count
     /\ jobs' = js /\ returned' = ret /\ UNCHANGED <<active, results>>
  \/ /\ MayTry(c, d)
     /\ count' = Counted(c, d)
     /\ io' = [io EXCEPT ![c][d] = "ready"]
     /\ jobs' = <<DoneJob(c, d)>> \o js
     /\ wait' = w /\ returned' = ret /\ UNCHANGED <<active, results>>
  \/ MayTry(c, d) /\ Free(c, js, ret)

\* The job j of a connection runs, js being left.
Operation(c, d, js) ==
  Head(jobs) = OpJob(c, d) /\ Try(c, d, wait, js, returned)

\* The owner goes on, with one direction or both, or is done with the connection.
Done(c, d, js) ==
  /\ Head(jobs) = DoneJob(c, d)
  /\ \/ StartOperations(c, js) /\ UNCHANGED <<active, wait, results, returned, io, count>>
     \/ Free(c, js, returned)

\* connector_job_handler
ConnectorJob(c, js) ==
  /\ Head(jobs) = ConnectedJob(c)
  /\ Connected(c, js, returned) \/ Free(c, js, returned)

ExecuteJob ==
  /\ ~stale /\ jobs # <<>>
  /\ \E c \in Conns :
       \/ \E d \in Dirs : Operation(c, d, Tail(jobs)) \/ Done(c, d, Tail(jobs))
       \/ ConnectorJob(c, Tail(jobs))
  /\ UNCHANGED <<pos, stale, doubled>>

-----------------------------------------------------------------------------
\* Nothing is to be done for an event: it was for a descriptor that has been
\* removed since, or that does not wait for it any more.
NoEvent(ret) ==
  returned' = ret /\ UNCHANGED <<active, wait, results, jobs, io, count, stale>>

\* An event of the device: one packet, on which lwIP may open a connection, lose
\* one, or have one send and receive.
DeviceHandler(ret) ==
  /\ \E c \in Conns :
       \/ BConnector_Init(c, jobs, ret)
       \/ Of(c) \intersect active # {} /\ Free(c, jobs, ret)
       \/ StartOperations(c, jobs) /\ returned' = ret /\ UNCHANGED <<active, wait, results, io, count>>
  /\ UNCHANGED stale

\* connector_fd_handler: the descriptor is removed before the owner is called.
connector_fd_handler(c, ret) ==
  /\ Connected(c, jobs, ret) \/ Free(c, jobs, ret)
  /\ UNCHANGED stale

\* connection_fd_handler.  An event of kqueue is a single filter, never an error
\* or a hang-up.
connection_fd_handler(c, d, ret) ==
  /\ Try(c, d, [wait EXCEPT ![Connection(c)] = @ \ {d}], jobs, ret)
  /\ UNCHANGED stale

\* BReactor_Exec, the part for kqueue, once there are no jobs left.
DispatchKevent ==
  /\ ~stale /\ jobs = <<>> /\ pos < Len(results)
  /\ pos' = pos + 1
  /\ LET bfd == results[pos + 1].bfd
         d == results[pos + 1].filter
         ret == [returned EXCEPT ![bfd] = 0]
     IN
     \/ bfd = Removed /\ NoEvent(returned)
     \/ bfd = Device /\ DeviceHandler(ret)
     \/ bfd \in active /\ d \notin wait[bfd] /\ NoEvent(ret)
     \/ /\ bfd \in active /\ d \in wait[bfd]
        /\ \E c \in Conns :
             \/ bfd = Connector(c) /\ connector_fd_handler(c, ret)
             \/ bfd = Connection(c) /\ connection_fd_handler(c, d, ret)
     \/ /\ bfd \in Owned \ active /\ stale' = TRUE
        /\ UNCHANGED <<active, wait, results, returned, jobs, io, count>>
  /\ UNCHANGED doubled

\* The filters registered with the kernel, one event each.
Registered == {r \in [bfd : active, filter : Dirs] : r.filter \in wait[r.bfd]}

\* What one call of kevent() may return: each filter at most once, in any order,
\* and none after a timeout.
Returned == {s \in BoundedSeq(Registered, MaxResults) : IsInjective(s)}

\* Faulty variant: the counts go on from turn to turn.
CountsReset_Never == count

\* The limit objects of all connections start again.
CountsReset == [c \in Conns |-> Zero]

\* A descriptor is left with the place of the last of its events in rs.
set_kevent_fd_pointers(rs) ==
  [x \in Descriptors |->
     LET at == {i \in DOMAIN rs : rs[i].bfd = x}
     IN IF at = {} THEN returned[x] ELSE CHOOSE i \in at : \A j \in at : j <= i]

\* wait_for_events, as far as it is about descriptors: kevent() returns events.
WaitForEvents ==
  /\ ~stale /\ jobs = <<>> /\ pos = Len(results)
  /\ results' \in Returned /\ pos' = 0
  /\ returned' = set_kevent_fd_pointers(results')
  /\ doubled' = {x \in Descriptors : \E i, j \in DOMAIN results' :
       i # j /\ results'[i].bfd = x /\ results'[j].bfd = x}
  /\ count' = CountsReset
  /\ UNCHANGED <<active, wait, jobs, io, stale>>

Next == ExecuteJob \/ DispatchKevent \/ WaitForEvents

Spec == Init /\ [][Next]_vars

\* The reactor runs the jobs there are and dispatches the events it has.
FairSpec == Spec /\ WF_vars(ExecuteJob) /\ WF_vars(DispatchKevent)
-----------------------------------------------------------------------------
\* connection_fd_handler asserts that an event it gets is for an operation in
\* progress; and an operation in progress that the kernel has not been asked about
\* would never be tried again, the connection would hang.
BusyIsArmed ==
  \A c \in Conns :
    /\ wait[Connection(c)] = {d \in Dirs : io[c][d] = "busy"}
    /\ wait[Connector(c)] = IF Connector(c) \in active THEN {"WRITE"} ELSE {}
    /\ io[c] # None <=> Connection(c) \in active

\* A direction has one operation at a time - waiting to start, in progress, or
\* waiting to be reported - and none once the connection has been freed, from
\* whichever handler; a client has at most one of connector and connection.
OneOperation ==
  \A c \in Conns :
    /\ \A d \in Dirs : \A i, j \in PendingJobs(jobs, c, d) : i = j /\ io[c][d] = "ready"
    /\ \A i, j \in DOMAIN jobs : jobs[i] = ConnectedJob(c) /\ jobs[j] = ConnectedJob(c) =>
         i = j /\ Of(c) \intersect active = {}
    /\ ~(Of(c) \subseteq active)

\* What the connection, its jobs and the kernel hold of an operation goes together.
Operations == BusyIsArmed /\ OneOperation

\* An event that has been returned and not yet dispatched is forgotten when its
\* descriptor is removed - if the descriptor has just that one event.
RemovedIsCleared ==
  \A i \in (pos + 1)..Len(results) :
    results[i].bfd \in Owned \ active => results[i].bfd \in doubled

\* An event of a connection is never wasted: its limit does not forbid the
\* operation it is for, however much the connection did since kevent() returned.
EventIsHeeded ==
  \A i \in (pos + 1)..Len(results) : \A c \in Conns :
    /\ results[i].bfd = Connection(c) /\ results[i].bfd \notin doubled
    /\ results[i].filter \in wait[results[i].bfd]
    => MayTry(c, results[i].filter)

\* Jobs come before events, and an owner may start the next operation in the job
\* that reports the last; yet the reactor gets through its jobs and events and asks
\* the kernel again: no connection keeps it from the others and from the timers.
TurnEnds == (jobs # <<>> \/ pos < Len(results)) ~> (stale \/ (jobs = <<>> /\ pos = Len(results)))

\* BReactor_Exec says ASSERT(bfd->active) of the descriptor of an event.
DispatchedIsActive == ~stale
=============================================================================
