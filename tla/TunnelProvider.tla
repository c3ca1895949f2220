--------------------------- MODULE TunnelProvider ---------------------------
(***************************************************************************)
(* Start and stop of the packet tunnel: PacketTunnelProvider.m on the      *)
(* queue of the extension, the two proxies of ProxyManager.m on threads of *)
(* their own, and tun2socks_main with its reactor on another.  Stopping    *)
(* only sets the flags quitting and exiting from a foreign thread; the     *)
(* reactor sees them when it next looks.                                   *)
(***************************************************************************)
EXTENDS Naturals, Sequences

CONSTANTS
  Assertions,  \* NSAssert is compiled in: a Debug build
  MaxStops     \* bound on "stopTunnel" messages from the app

ASSUME TunnelProviderAssumption == Assertions \in BOOLEAN /\ MaxStops \in Nat

VARIABLES
  provider,    \* how far startTunnelWithOptions has come
  proxy,       \* the proxy being waited for: running, or what it has called back with
  ports,       \* proxies whose port is known to be greater than 0
  startCalls,  \* calls of the start completion
  observing,   \* onTun2SocksFinished is registered
  stopPending, \* _pendingStopCompletion is set
  stopCalls,   \* calls of the stop completion
  stopper,     \* what the threads that stop the tunnel have still to do
  asked,       \* stopTunnelWithReason has been called
  stops,       \* "stopTunnel" messages so far
  owed,        \* history: the system's stop has come before the end of tun2socks
  tun,         \* how far tun2socks_main has come
  quitting,    \* the flag of tun2socks.c
  exiting,     \* the flag of the reactor
  process      \* the extension: running, or how it ended

start == <<provider, proxy, ports, startCalls, observing>>
stop == <<stopPending, stopCalls, stopper, asked, stops, owed>>
flags == <<quitting, exiting>>
vars == <<start, stop, flags, tun, process>>

Proxies == {"shadowsocks", "http"}
Stoppers == {"system", "app"}
StopSteps == {"completion", "quitting", "exiting"}

TypeOK ==
  /\ provider \in Proxies \union {"idle", "settings", "up", "failed"}
  /\ proxy \in {"off", "starting", "port", "no port", "error"}
  /\ ports \subseteq Proxies
  /\ startCalls \in 0..1 /\ stopCalls \in 0..1 /\ stops \in 0..MaxStops
  /\ stopper \in [Stoppers -> Seq(StopSteps)]
  /\ tun \in {"off", "queued", "init", "set up", "loop", "poll", "notify", "cancel"}
  /\ process \in {"running", "exit 0", "exit 1", "exception"}
  /\ observing \in BOOLEAN /\ stopPending \in BOOLEAN /\ asked \in BOOLEAN
  /\ owed \in BOOLEAN /\ quitting \in BOOLEAN /\ exiting \in BOOLEAN

Init ==
  /\ provider = "idle" /\ proxy = "off" /\ ports = {} /\ startCalls = 0
  /\ observing = FALSE /\ stopPending = FALSE /\ stopCalls = 0
  /\ stopper = [s \in Stoppers |-> <<>>] /\ asked = FALSE /\ stops = 0 /\ owed = FALSE
  /\ tun = "off" /\ process = "running"
  /\ quitting = FALSE /\ exiting = FALSE

Running == process = "running"

-----------------------------------------------------------------------------
\* startTunnelWithOptions up to the first wait.  The interface may not be set up,
\* the profile be incomplete or the server not be reached.
startTunnel ==
  /\ Running /\ provider = "idle"
  /\ \/ provider' = "shadowsocks" /\ proxy' = "starting" /\ UNCHANGED <<startCalls, process>>
     \/ provider' = "failed" /\ startCalls' = 1 /\ process' = "exit 1" /\ UNCHANGED proxy
     \/ provider' = "failed" /\ startCalls' = 1 /\ UNCHANGED <<proxy, process>>
  /\ UNCHANGED <<ports, observing, stop, flags, tun>>

\* The completion that startShadowsocks or startHttpProxyServer was given: an
\* error, a port, or neither - a profile without password, a socket without name.
ProxyCompletion ==
  /\ Running /\ provider \in Proxies /\ proxy = "starting"
  /\ \/ proxy' = "port" /\ ports' = ports \union {provider}
     \/ proxy' \in {"no port", "error"} /\ UNCHANGED ports
  /\ UNCHANGED <<provider, startCalls, observing, stop, flags, tun, process>>

\* Faulty variant: dispatch_group_wait without a time limit.
TimedOut_Never == FALSE

\* dispatch_group_wait gives up after WAIT_TIME seconds.
TimedOut == proxy = "starting"

\* The rest of syncStartProxy: an error or a timeout ends the process.
SyncFailed ==
  /\ Running /\ provider \in Proxies
  /\ TimedOut \/ proxy = "error"
  /\ process' = "exit 1"
  /\ UNCHANGED <<start, stop, flags, tun>>

\* startHttpProxyServer follows startShadowsocks.
ShadowsocksStarted ==
  /\ Running /\ provider = "shadowsocks" /\ proxy \in {"port", "no port"}
  /\ provider' = "http" /\ proxy' = "starting"
  /\ UNCHANGED <<ports, startCalls, observing, stop, flags, tun, process>>

\* NSAssert
Asserted(condition) == Assertions => condition

\* Faulty variant: nobody listens for the end of tun2socks.
startPacketForwarders_Unheard ==
  /\ Running /\ provider = "http" /\ proxy \in {"port", "no port"}
  /\ provider' = "settings" /\ UNCHANGED <<process, observing>>
  /\ UNCHANGED <<proxy, ports, startCalls, stop, flags, tun>>

\* startPacketForwarders: listen for the end of tun2socks, applyTunnelSettings.
startPacketForwarders ==
  /\ Running /\ provider = "http" /\ proxy \in {"port", "no port"}
  /\ observing' = TRUE
  /\ \/ Asserted("http" \in ports) /\ provider' = "settings" /\ UNCHANGED process
     \/ ~Asserted("http" \in ports) /\ process' = "exception" /\ UNCHANGED provider
  /\ UNCHANGED <<proxy, ports, startCalls, stop, flags, tun>>

\* The settings are in force: startTun2Socks detaches the thread of tun2socks, ...
SettingsApplied ==
  /\ Running /\ provider = "settings"
  /\ \/ /\ Asserted("shadowsocks" \in ports)
        /\ provider' = "up" /\ tun' = "queued"
        /\ UNCHANGED process
     \/ /\ ~Asserted("shadowsocks" \in ports)
        /\ process' = "exception" /\ UNCHANGED <<provider, tun>>
  /\ UNCHANGED <<proxy, ports, startCalls, observing, stop, flags>>

\* ... which may have run, or ended and taken the process with it, before the
\* completion of the start is called.
StartCompletion ==
  /\ Running /\ provider = "up" /\ startCalls = 0
  /\ startCalls' = startCalls + 1
  /\ UNCHANGED <<provider, proxy, ports, observing, stop, flags, tun, process>>

\* The system has refused the settings.
SettingsRefused ==
  /\ Running /\ provider = "settings"
  /\ provider' = "failed" /\ startCalls' = startCalls + 1
  /\ UNCHANGED <<proxy, ports, observing, stop, flags, tun, process>>

-----------------------------------------------------------------------------
\* Faulty variant: the completion is kept only when the tunnel has been stopped.
SystemStop_Late == <<"quitting", "exiting", "completion">>

\* What stopTunnelWithReason does: it keeps the completion, then goes on as the
\* listener for "stopTunnel" does, which is terminate() of tun2socks.c.
SystemStop == <<"completion", "quitting", "exiting">>
AppStop == <<"quitting", "exiting">>

\* Either may come as soon as startTunnelWithOptions has returned.
AskedToStop ==
  /\ Running /\ provider \in {"settings", "up", "failed"}
  /\ \/ /\ ~asked /\ asked' = TRUE /\ stopper' = [stopper EXCEPT !.system = SystemStop]
        /\ UNCHANGED stops
     \/ /\ stopper.app = <<>> /\ stops < MaxStops
        /\ stops' = stops + 1 /\ stopper' = [stopper EXCEPT !.app = AppStop]
        /\ UNCHANGED asked
  /\ UNCHANGED <<stopPending, stopCalls, owed, start, flags, tun, process>>

\* The thread of s takes its next step.
Step(s, what) ==
  /\ Running /\ stopper[s] # <<>> /\ Head(stopper[s]) = what
  /\ stopper' = [stopper EXCEPT ![s] = Tail(@)]
  /\ UNCHANGED <<asked, stops, stopCalls, start, tun, process>>

\* _pendingStopCompletion = completionHandler
KeepCompletion(s) ==
  Step(s, "completion") /\ stopPending' = TRUE /\ UNCHANGED <<owed, flags>>

\* terminate: ASSERT(!quitting) only prints; quitting = 1, ...
SetQuitting(s) ==
  /\ Step(s, "quitting")
  /\ quitting' = TRUE
  /\ owed' = (owed \/ (s = "system" /\ tun \notin {"notify", "cancel"}))
  /\ UNCHANGED <<stopPending, exiting>>

\* ... and BReactor_Quit.
BReactor_Quit(s) ==
  /\ Step(s, "exiting") /\ exiting' = TRUE
  /\ UNCHANGED <<stopPending, owed, quitting>>

-----------------------------------------------------------------------------
\* tun2socks_main: from one step to another.
Tun(from, to) == Running /\ tun = from /\ tun' = to /\ UNCHANGED <<start, process>>

\* BReactor_Init, which sets bsys->exiting, unless the arguments are refused before.
ReactorInit ==
  \/ Tun("queued", "init") /\ exiting' = FALSE /\ UNCHANGED <<quitting, stop>>
  \/ Tun("queued", "notify") /\ UNCHANGED <<flags, stop>>

\* quitting = 0
SetNotQuitting == Tun("init", "set up") /\ quitting' = FALSE /\ UNCHANGED <<exiting, stop>>

\* The rest of the set-up, which may fail.
EnterLoop ==
  /\ Tun("set up", "loop") \/ Tun("set up", "notify")
  /\ UNCHANGED <<flags, stop>>

\* BReactor_Exec looks at exiting, and otherwise waits.
ReactorLooks ==
  /\ \/ ~exiting /\ Tun("loop", "poll")
     \/ exiting /\ Tun("loop", "notify")
  /\ UNCHANGED <<flags, stop>>

\* Faulty variant: no timer is running while there is nothing to do.
TimerRuns_Never == FALSE

\* tcp_timer is set before the loop is entered and again each time it expires.
TimerRuns == TRUE

\* A timer or a file descriptor ends the wait.
ReactorWakes == TimerRuns /\ Tun("poll", "loop") /\ UNCHANGED <<flags, stop>>

\* device_error_handler
DeviceError ==
  /\ Tun("poll", "loop")
  /\ quitting' = TRUE /\ exiting' = TRUE
  /\ UNCHANGED stop

\* onTun2SocksFinished, if it has been registered, ...
onTun2SocksFinished ==
  /\ observing /\ Tun("notify", "cancel")
  /\ stopPending' = FALSE
  /\ stopCalls' = IF stopPending THEN stopCalls + 1 ELSE stopCalls
  /\ UNCHANGED <<stopper, asked, stops, owed, flags>>

\* ... which ends the process.
Exit ==
  /\ Running /\ tun = "cancel" /\ process' = "exit 0"
  /\ UNCHANGED <<start, stop, flags, tun>>

Starting ==
  \/ ProxyCompletion
  \/ SyncFailed
  \/ ShadowsocksStarted
  \/ startPacketForwarders
  \/ SettingsApplied
  \/ StartCompletion
  \/ SettingsRefused

Stopping == \E s \in Stoppers : KeepCompletion(s) \/ SetQuitting(s) \/ BReactor_Quit(s)

TunSteps ==
  \/ ReactorInit
  \/ SetNotQuitting
  \/ EnterLoop
  \/ ReactorLooks
  \/ ReactorWakes
  \/ onTun2SocksFinished
  \/ Exit

Next == startTunnel \/ Starting \/ AskedToStop \/ Stopping \/ TunSteps \/ DeviceError

Spec == Init /\ [][Next]_vars

(* The threads run, dispatch_group_wait has a time limit, and the system answers *)
(* setTunnelNetworkSettings.  A proxy need never call back, and nobody need ever *)
(* ask to stop.                                                                  *)
Fairness ==
  /\ WF_vars(SyncFailed) /\ WF_vars(ShadowsocksStarted) /\ WF_vars(startPacketForwarders)
  /\ WF_vars(SettingsApplied \/ SettingsRefused) /\ WF_vars(StartCompletion)
  /\ \A s \in Stoppers : WF_vars(KeepCompletion(s)) /\ WF_vars(SetQuitting(s)) /\ WF_vars(BReactor_Quit(s))
  /\ WF_vars(TunSteps)

FairSpec == Spec /\ Fairness

-----------------------------------------------------------------------------
\* A start always comes to an answer - its completion is called, or the process is
\* gone and with it the connection - also when a proxy never calls back.
StartIsAnswered == provider # "idle" ~> startCalls = 1 \/ ~Running

\* A stop that reaches the reactor once it exists ends the process, although it comes
\* from a thread that does not wake the reactor up: no order of the two flags and
\* the set-up that clears one of them loses it.
StopEndsTunnel ==
  exiting /\ tun \in {"init", "set up", "loop", "poll"} ~> ~Running

\* If the system's stop came before tun2socks had ended, for whatever reason, the
\* system hears that the tunnel has stopped before the process is gone.
StopIsAnswered == process = "exit 0" /\ owed => stopCalls = 1

\* tun2socks begins only when its end will be heard: an end that nobody hears would
\* leave a process without a tunnel.  And the system is told that the start is done
\* only when tun2socks is on its way; it may be told too late, or never, if tun2socks
\* ends the process first (startPacketForwarders).
TunnelIsWatched ==
  /\ tun # "off" => observing
  /\ startCalls = 1 => tun # "off" \/ provider = "failed"
=============================================================================
