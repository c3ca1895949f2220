------------------------ MODULE TunnelProvider_proofs ------------------------
(***************************************************************************)
(* Proofs about the start and stop of the tunnel, for any number of stops  *)
(* asked for by the app, with and without assertions compiled in.          *)
(***************************************************************************)
EXTENDS TunnelProvider, TLAPS

\* TypeOK in two parts: the flags, and the rest.
FlagsOK ==
  /\ observing \in BOOLEAN /\ stopPending \in BOOLEAN /\ asked \in BOOLEAN
  /\ owed \in BOOLEAN /\ quitting \in BOOLEAN /\ exiting \in BOOLEAN

RestOK ==
  /\ provider \in Proxies \union {"idle", "settings", "up", "failed"}
  /\ proxy \in {"off", "starting", "port", "no port", "error"}
  /\ ports \subseteq Proxies
  /\ startCalls \in 0..1 /\ stopCalls \in 0..1 /\ stops \in 0..MaxStops
  /\ stopper \in [Stoppers -> Seq(StopSteps)]
  /\ tun \in {"off", "queued", "init", "set up", "loop", "poll", "notify", "cancel"}
  /\ process \in {"running", "exit 0", "exit 1", "exception"}

LEMMA TypeParts == TypeOK <=> FlagsOK /\ RestOK
BY Zenon DEF TypeOK, FlagsOK, RestOK

\* What a thread that stops the tunnel may have left to do.
AfterCompletion == <<"quitting", "exiting">>
AfterQuitting == <<"exiting">>

\* The steps are done in the order they stand in.
StepsInOrder ==
  /\ stopper.system \in {<<>>, SystemStop, AfterCompletion, AfterQuitting}
  /\ stopper.app \in {<<>>, AfterCompletion, AfterQuitting}
  /\ ~asked => stopper.system = <<>>

\* The completion of the start is not called before the start ends.
StartOnce == provider \in {"idle", "shadowsocks", "http", "settings"} => startCalls = 0

\* By then the end of tun2socks will be heard.
Heard == provider \in {"settings", "up"} => observing

\* tun2socks has been started in a tunnel that is up, and only there.
TunOfProvider == tun # "off" <=> provider = "up"

\* The system's completion is kept before the system's stop takes effect, and
\* called when tun2socks has ended.
Kept ==
  /\ asked /\ stopper.system \in {<<>>, AfterCompletion, AfterQuitting} /\ tun # "cancel" =>
       stopPending
  /\ tun # "cancel" => stopCalls = 0
  /\ owed => asked /\ stopper.system \in {<<>>, AfterQuitting}
  /\ owed /\ tun = "cancel" => stopCalls = 1
  /\ process = "exit 0" => tun = "cancel"

IInv == FlagsOK /\ RestOK /\ StepsInOrder /\ StartOnce /\ Heard /\ TunOfProvider /\ Kept

\* What has been left of the steps after one of them.
LEMMA Steps ==
  /\ Head(SystemStop) = "completion" /\ Tail(SystemStop) = AfterCompletion
  /\ Head(AfterCompletion) = "quitting" /\ Tail(AfterCompletion) = AfterQuitting
  /\ Head(AfterQuitting) = "exiting" /\ Tail(AfterQuitting) = <<>>
  /\ SystemStop # <<>> /\ AfterCompletion # <<>> /\ AfterQuitting # <<>>
  /\ {<<>>, SystemStop, AfterCompletion, AfterQuitting} \subseteq Seq(StopSteps)
  /\ AppStop = AfterCompletion
  /\ SystemStop \notin {AfterCompletion, AfterQuitting} /\ AfterCompletion # AfterQuitting
BY DEF SystemStop, AppStop, AfterCompletion, AfterQuitting, StopSteps

THEOREM InitIInv == Init => IInv
<1> SUFFICES ASSUME Init PROVE IInv
  OBVIOUS
<1>1. stopper.system = <<>> /\ stopper.app = <<>> /\ stopper \in [Stoppers -> Seq(StopSteps)]
  BY Steps DEF Init, Stoppers
<1>2. RestOK
  BY <1>1, TunnelProviderAssumption DEF Init, RestOK, Proxies
<1>2a. FlagsOK
  BY Zenon DEF Init, FlagsOK
<1>3. StepsInOrder /\ StartOnce /\ Heard /\ TunOfProvider /\ Kept
  BY <1>1 DEF Init, StepsInOrder, StartOnce, Heard, TunOfProvider, Kept
<1> QED
  BY <1>2, <1>2a, <1>3 DEF IInv

\* Steps that leave the threads that stop the tunnel alone, and tun2socks too.
LEMMA StartingStep ==
  ASSUME IInv, Running, UNCHANGED <<stop, flags>>,
         \/ startTunnel
         \/ Starting
  PROVE  IInv'
<1> USE DEF Running
<1>1. FlagsOK /\ RestOK /\ StartOnce /\ Heard /\ TunOfProvider /\ StepsInOrder /\ Kept
  BY DEF IInv
<1>1a. provider = "settings" => startCalls = 0 /\ startCalls + 1 = 1
  BY <1>1 DEF StartOnce
<1>1b. 0 \in 0..1 /\ 1 \in 0..1 /\ 0 + 1 = 1
  OBVIOUS
<1>2. RestOK'
  <2>1. CASE startTunnel
    BY <1>1, <1>1b, <2>1, Zenon DEF startTunnel, RestOK, Proxies, stop
  <2>2. CASE ProxyCompletion \/ SyncFailed \/ ShadowsocksStarted
    BY <1>1, <2>2 DEF ProxyCompletion, SyncFailed, ShadowsocksStarted, RestOK, Proxies, start, stop, flags
  <2>3. CASE startPacketForwarders \/ SettingsApplied \/ StartCompletion \/ SettingsRefused
    BY <1>1, <1>1a, <1>1b, <2>3, Zenon
    DEF startPacketForwarders, SettingsApplied, StartCompletion, SettingsRefused, RestOK, Proxies, stop
  <2> QED
    BY <2>1, <2>2, <2>3 DEF Starting
<1>2a. FlagsOK'
  BY <1>1, Zenon DEF FlagsOK, stop, flags, startTunnel, Starting, ProxyCompletion, SyncFailed,
     ShadowsocksStarted, startPacketForwarders, SettingsApplied, StartCompletion, SettingsRefused, start
<1>3. StartOnce' /\ TunOfProvider'
  <2>1. CASE startTunnel
    BY <1>1, <2>1 DEF startTunnel, StartOnce, TunOfProvider
  <2>2. CASE ProxyCompletion \/ SyncFailed \/ ShadowsocksStarted
    BY <1>1, <2>2 DEF ProxyCompletion, SyncFailed, ShadowsocksStarted, StartOnce, TunOfProvider, Proxies, start
  <2>3. CASE startPacketForwarders \/ SettingsApplied \/ StartCompletion \/ SettingsRefused
    BY <1>1, <2>3
    DEF startPacketForwarders, SettingsApplied, StartCompletion, SettingsRefused, StartOnce, TunOfProvider
  <2> QED
    BY <2>1, <2>2, <2>3 DEF Starting
<1>3a. Heard'
  BY <1>1, Zenon DEF Heard, startTunnel, Starting, ProxyCompletion, SyncFailed, ShadowsocksStarted,
     startPacketForwarders, SettingsApplied, StartCompletion, SettingsRefused, start, Proxies
<1>4. StepsInOrder'
  BY <1>1 DEF StepsInOrder, stop
<1>5. tun' \in {tun, "queued"} /\ (tun' # tun => tun = "off") /\ process' # "exit 0"
  BY <1>1 DEF TunOfProvider, startTunnel, Starting, ProxyCompletion, SyncFailed, ShadowsocksStarted,
              startPacketForwarders, SettingsApplied, StartCompletion, SettingsRefused, start
<1>6. Kept'
  BY <1>1, <1>5 DEF Kept, stop
<1> QED
  BY <1>2, <1>2a, <1>3, <1>3a, <1>4, <1>6 DEF IInv

LEMMA AskedStep == IInv /\ AskedToStop => IInv'
<1> SUFFICES ASSUME IInv, AskedToStop PROVE IInv'
  OBVIOUS
<1>1. FlagsOK /\ RestOK /\ StartOnce /\ Heard /\ TunOfProvider /\ StepsInOrder /\ Kept
  BY DEF IInv
<1>2. /\ process = "running" /\ process' = process /\ tun' = tun
      /\ UNCHANGED <<start, stopPending, stopCalls, owed, flags>>
  BY DEF AskedToStop, Running
<1>2a. FlagsOK'
  BY <1>1, <1>2, Zenon DEF FlagsOK, AskedToStop, start, flags
<1>3. StartOnce' /\ Heard' /\ TunOfProvider'
  BY <1>1, <1>2 DEF StartOnce, Heard, TunOfProvider, start
<1>4. CASE ~asked /\ asked' = TRUE /\ stopper' = [stopper EXCEPT !.system = SystemStop]
           /\ UNCHANGED stops
  <2>1. /\ stopper' \in [Stoppers -> Seq(StopSteps)]
        /\ stopper'.system = SystemStop /\ stopper'.app = stopper.app
    BY <1>1, <1>4, Steps DEF RestOK, Stoppers
  <2>2. RestOK'
    BY <1>1, <1>2, <1>4, <2>1 DEF RestOK, start, flags
  <2>3. StepsInOrder'
    BY <1>1, <1>4, <2>1 DEF StepsInOrder
  <2>4. Kept'
    BY <1>1, <1>2, <1>4, <2>1, Steps DEF Kept
  <2> QED
    BY <1>2a, <1>3, <2>2, <2>3, <2>4 DEF IInv
<1>5. CASE /\ stopper.app = <<>> /\ stops < MaxStops
           /\ stops' = stops + 1 /\ stopper' = [stopper EXCEPT !.app = AppStop]
           /\ UNCHANGED asked
  <2>1. /\ stopper' \in [Stoppers -> Seq(StopSteps)]
        /\ stopper'.system = stopper.system /\ stopper'.app = AfterCompletion
    BY <1>1, <1>5, Steps DEF RestOK, Stoppers
  <2>2. RestOK'
    <3>1. MaxStops \in Nat
      BY TunnelProviderAssumption
    <3>2. stops' = stops + 1 /\ stops < MaxStops
      BY <1>5
    <3>3. stops \in 0..MaxStops
      BY <1>1, Zenon DEF RestOK
    <3>4. stops' \in 0..MaxStops
      BY <3>1, <3>2, <3>3
    <3> QED
      BY <1>1, <1>2, <2>1, <3>4, Zenon DEF RestOK, start
  <2>3. StepsInOrder'
    BY <1>1, <1>5, <2>1 DEF StepsInOrder
  <2>4. Kept'
    BY <1>1, <1>2, <1>5, <2>1 DEF Kept
  <2> QED
    BY <1>2a, <1>3, <2>2, <2>3, <2>4 DEF IInv
<1> QED
  BY <1>4, <1>5 DEF AskedToStop

\* What one step of a thread leaves of its steps.
LEMMA StepLeaves ==
  ASSUME RestOK, StepsInOrder, NEW s \in Stoppers, NEW what, Step(s, what)
  PROVE  /\ stopper' \in [Stoppers -> Seq(StopSteps)]
         /\ \A r \in Stoppers \ {s} : stopper'[r] = stopper[r]
         /\ what = "completion" => s = "system" /\ stopper.system = SystemStop /\ stopper'.system = AfterCompletion
         /\ what = "quitting" => stopper[s] = AfterCompletion /\ stopper'[s] = AfterQuitting
         /\ what = "exiting" => stopper[s] = AfterQuitting /\ stopper'[s] = <<>>
<1>1. /\ stopper[s] # <<>> /\ Head(stopper[s]) = what
      /\ stopper' = [stopper EXCEPT ![s] = Tail(stopper[s])]
  BY DEF Step
<1>2. /\ stopper \in [Stoppers -> Seq(StopSteps)]
      /\ s = "system" \/ s = "app"
  BY DEF RestOK, Stoppers
<1>3. /\ stopper[s] \in {SystemStop, AfterCompletion, AfterQuitting}
      /\ stopper[s] = SystemStop => s = "system"
  BY <1>1, <1>2, Steps DEF StepsInOrder
<1>4. Tail(stopper[s]) \in Seq(StopSteps)
  BY <1>3, Steps
<1>5. stopper' \in [Stoppers -> Seq(StopSteps)] /\ stopper'[s] = Tail(stopper[s])
      /\ \A r \in Stoppers \ {s} : stopper'[r] = stopper[r]
  BY <1>1, <1>2, <1>4
<1>6. CASE stopper[s] = SystemStop
  BY <1>1, <1>3, <1>5, <1>6, Steps
<1>7. CASE stopper[s] = AfterCompletion
  BY <1>1, <1>5, <1>7, Steps
<1>8. CASE stopper[s] = AfterQuitting
  BY <1>1, <1>5, <1>8, Steps
<1> QED
  BY <1>3, <1>5, <1>6, <1>7, <1>8

LEMMA StoppingStep == IInv /\ Stopping => IInv'
<1> SUFFICES ASSUME IInv, NEW s \in Stoppers,
                    KeepCompletion(s) \/ SetQuitting(s) \/ BReactor_Quit(s)
             PROVE  IInv'
  BY DEF Stopping
<1>1. FlagsOK /\ RestOK /\ StartOnce /\ Heard /\ TunOfProvider /\ StepsInOrder /\ Kept
  BY DEF IInv
<1>2. process = "running" /\ UNCHANGED <<asked, stops, stopCalls, start, tun, process>>
  BY DEF KeepCompletion, SetQuitting, BReactor_Quit, Step, Running
<1>3. StartOnce' /\ Heard' /\ TunOfProvider'
  BY <1>1, <1>2 DEF StartOnce, Heard, TunOfProvider, start
<1>4. PICK what \in StopSteps : Step(s, what)
  BY DEF KeepCompletion, SetQuitting, BReactor_Quit, StopSteps
<1>5. stopper' \in [Stoppers -> Seq(StopSteps)]
  BY <1>1, <1>4, StepLeaves
<1>6. RestOK'
  BY <1>1, <1>2, <1>5 DEF RestOK, start
<1>6a. FlagsOK'
  BY <1>1, <1>2, Zenon DEF FlagsOK, KeepCompletion, SetQuitting, BReactor_Quit, flags, start
<1>7. s = "system" \/ s = "app"
  BY DEF Stoppers
<1>8. s = "app" => stopper'.system = stopper.system
  BY <1>1, <1>4, StepLeaves DEF Stoppers
<1>9. s = "system" => stopper'.app = stopper.app /\ stopper.system # <<>>
  BY <1>1, <1>4, StepLeaves DEF Stoppers, Step
<1>10. CASE KeepCompletion(s)
  <2>1. s = "system" /\ stopper.system = SystemStop /\ stopper'.system = AfterCompletion
    BY <1>1, <1>10, StepLeaves DEF KeepCompletion
  <2>2. StepsInOrder'
    BY <1>1, <1>2, <1>9, <2>1, Steps DEF StepsInOrder
  <2>3. stopPending' /\ ~owed /\ owed' = owed
    BY <1>1, <1>10, <2>1, Steps DEF KeepCompletion, Kept
  <2>4. Kept'
    BY <1>1, <1>2, <2>3 DEF Kept
  <2> QED
    BY <1>3, <1>6, <1>6a, <2>2, <2>4 DEF IInv
<1>11. CASE SetQuitting(s)
  <2>1. stopper[s] = AfterCompletion /\ stopper'[s] = AfterQuitting
    BY <1>1, <1>11, StepLeaves DEF SetQuitting
  <2>2. StepsInOrder'
    BY <1>1, <1>2, <1>7, <1>8, <1>9, <2>1, Steps DEF StepsInOrder
  <2>3. /\ stopPending' = stopPending
        /\ owed' = (owed \/ (s = "system" /\ tun \notin {"notify", "cancel"}))
    BY <1>11 DEF SetQuitting
  <2>4. Kept'
    <3>1. CASE s = "app"
      BY <1>1, <1>2, <1>8, <2>3, <3>1 DEF Kept
    <3>2. CASE s = "system"
      <4>1. asked /\ asked' /\ stopper.system = AfterCompletion /\ stopper'.system = AfterQuitting
        BY <1>1, <1>2, <2>1, <3>2, Steps DEF StepsInOrder
      <4>2. ~owed
        BY <1>1, <4>1, Steps DEF Kept
      <4> QED
        BY <1>1, <1>2, <2>3, <4>1, <4>2 DEF Kept
    <3> QED
      BY <1>7, <3>1, <3>2
  <2> QED
    BY <1>3, <1>6, <1>6a, <2>2, <2>4 DEF IInv
<1>12. CASE BReactor_Quit(s)
  <2>1. stopper[s] = AfterQuitting /\ stopper'[s] = <<>>
    BY <1>1, <1>12, StepLeaves DEF BReactor_Quit
  <2>2. StepsInOrder'
    BY <1>1, <1>2, <1>7, <1>8, <1>9, <2>1 DEF StepsInOrder
  <2>3. stopPending' = stopPending /\ owed' = owed
    BY <1>12 DEF BReactor_Quit
  <2>4. Kept'
    <3>1. CASE s = "app"
      BY <1>1, <1>2, <1>8, <2>3, <3>1 DEF Kept
    <3>2. CASE s = "system"
      <4>1. asked /\ asked' /\ stopper.system = AfterQuitting /\ stopper'.system = <<>>
        BY <1>1, <1>2, <2>1, <3>2, Steps DEF StepsInOrder
      <4> QED
        BY <1>1, <1>2, <2>3, <4>1 DEF Kept
    <3> QED
      BY <1>7, <3>1, <3>2
  <2> QED
    BY <1>3, <1>6, <1>6a, <2>2, <2>4 DEF IInv
<1> QED
  BY <1>10, <1>11, <1>12

\* The steps of tun2socks, and the error of its device.
LEMMA TunStep == IInv /\ (TunSteps \/ DeviceError) => IInv'
<1> SUFFICES ASSUME IInv, TunSteps \/ DeviceError PROVE IInv'
  OBVIOUS
<1>1. FlagsOK /\ RestOK /\ StartOnce /\ Heard /\ TunOfProvider /\ StepsInOrder /\ Kept
  BY DEF IInv
<1>2. CASE onTun2SocksFinished
  <2>1. /\ process = "running" /\ process' = process /\ tun = "notify" /\ tun' = "cancel"
        /\ UNCHANGED <<start, stopper, asked, stops, owed, flags>>
        /\ stopPending' = FALSE
        /\ stopCalls' = IF stopPending THEN stopCalls + 1 ELSE stopCalls
    BY <1>2 DEF onTun2SocksFinished, Tun, Running
  <2>2. stopCalls = 0 /\ stopCalls' \in 0..1 /\ (stopPending => stopCalls' = 1)
    BY <1>1, <2>1 DEF Kept
  <2>3. RestOK'
    BY <1>1, <2>1, <2>2 DEF RestOK, start
  <2>3a. FlagsOK'
    BY <1>1, <2>1, Zenon DEF FlagsOK, start, flags
  <2>4. StepsInOrder' /\ StartOnce' /\ Heard' /\ TunOfProvider'
    BY <1>1, <2>1 DEF StepsInOrder, StartOnce, Heard, TunOfProvider, start
  <2>5. Kept'
    BY <1>1, <2>1, <2>2 DEF Kept
  <2> QED
    BY <2>3, <2>3a, <2>4, <2>5 DEF IInv
<1>3. CASE Exit
  <2>1. /\ process' = "exit 0" /\ tun = "cancel" /\ UNCHANGED <<start, stop, flags, tun>>
    BY <1>3 DEF Exit
  <2>2. RestOK' /\ Kept'
    BY <1>1, <2>1 DEF RestOK, Kept, start, stop
  <2>3. FlagsOK' /\ StepsInOrder' /\ StartOnce' /\ Heard' /\ TunOfProvider'
    BY <1>1, <2>1, Zenon DEF FlagsOK, StepsInOrder, StartOnce, Heard, TunOfProvider, start, stop, flags
  <2> QED
    BY <2>2, <2>3 DEF IInv
<1>4. ASSUME /\ process = "running" /\ process' = process
             /\ UNCHANGED <<start, stop>>
             /\ quitting' \in BOOLEAN /\ exiting' \in BOOLEAN
             /\ tun \in {"queued", "init", "set up", "loop", "poll"}
             /\ tun' \in {"queued", "init", "set up", "loop", "poll", "notify"}
      PROVE  IInv'
  <2>1. RestOK'
    BY <1>1, <1>4 DEF RestOK, start, stop
  <2>1a. FlagsOK'
    BY <1>1, <1>4, Zenon DEF FlagsOK, start, stop
  <2>2. StepsInOrder' /\ StartOnce' /\ Heard' /\ TunOfProvider' /\ Kept'
    BY <1>1, <1>4 DEF StepsInOrder, StartOnce, Heard, TunOfProvider, Kept, start, stop
  <2> QED
    BY <2>1, <2>1a, <2>2 DEF IInv
<1>5. quitting \in BOOLEAN /\ exiting \in BOOLEAN
  BY <1>1 DEF FlagsOK
<1>6. CASE ReactorInit
  BY <1>4, <1>5, <1>6 DEF ReactorInit, Tun, Running, flags
<1>7. CASE SetNotQuitting
  BY <1>4, <1>5, <1>7 DEF SetNotQuitting, Tun, Running
<1>8. CASE EnterLoop \/ ReactorLooks \/ ReactorWakes
  BY <1>4, <1>5, <1>8 DEF EnterLoop, ReactorLooks, ReactorWakes, Tun, Running, flags
<1>9. CASE DeviceError
  BY <1>4, <1>9 DEF DeviceError, Tun, Running
<1> QED
  BY <1>2, <1>3, <1>6, <1>7, <1>8, <1>9 DEF TunSteps

\* Every step keeps the invariant.
THEOREM NextIInv == IInv /\ [Next]_vars => IInv'
<1> SUFFICES ASSUME IInv, [Next]_vars PROVE IInv'
  OBVIOUS
<1>1. CASE startTunnel \/ Starting
  <2>1. Running /\ UNCHANGED <<stop, flags>>
    BY <1>1 DEF startTunnel, Starting, ProxyCompletion, SyncFailed, ShadowsocksStarted,
                startPacketForwarders, SettingsApplied, StartCompletion, SettingsRefused
  <2> QED
    BY <1>1, <2>1, StartingStep
<1>2. CASE AskedToStop \/ Stopping \/ TunSteps \/ DeviceError
  BY <1>2, AskedStep, StoppingStep, TunStep
<1>3. CASE UNCHANGED vars
  <2>1. RestOK'
    BY <1>3, Zenon DEF vars, IInv, RestOK, start, stop
  <2>1a. Kept'
    BY <1>3 DEF vars, IInv, Kept, start, stop
  <2>2. FlagsOK' /\ StepsInOrder' /\ StartOnce' /\ Heard' /\ TunOfProvider'
    BY <1>3, Zenon DEF vars, IInv, FlagsOK, StepsInOrder, StartOnce, Heard, TunOfProvider,
                       start, stop, flags
  <2> QED
    BY <2>1, <2>1a, <2>2 DEF IInv
<1> QED
  BY <1>1, <1>2, <1>3 DEF Next

\* The inductive invariant holds in every state.
THEOREM Inductive == Spec => []IInv
BY InitIInv, NextIInv, PTL DEF Spec

\* Type correctness: among others, neither completion is ever called twice.
THEOREM TypeCorrect == Spec => []TypeOK
<1>1. IInv => TypeOK
  BY TypeParts DEF IInv
<1> QED
  BY <1>1, Inductive, PTL

\* tun2socks never begins before its end will be heard, and the start is never
\* reported as done before tun2socks has been started.
THEOREM TunnelAlwaysWatched == Spec => []TunnelIsWatched
<1>1. IInv => TunnelIsWatched
  <2> SUFFICES ASSUME IInv PROVE TunnelIsWatched
    OBVIOUS
  <2>1. tun # "off" => observing
    BY Zenon DEF IInv, TunOfProvider, Heard
  <2>2. startCalls = 1 => provider \notin {"idle", "shadowsocks", "http", "settings"}
    BY DEF IInv, StartOnce
  <2>3. startCalls = 1 => tun # "off" \/ provider = "failed"
    BY <2>2 DEF IInv, RestOK, Proxies, TunOfProvider
  <2> QED
    BY <2>1, <2>3 DEF TunnelIsWatched
<1> QED
  BY <1>1, Inductive, PTL

\* A stop of the system that came before the end of tun2socks is answered before
\* the process is gone, however the app, the device and the system interleave.
THEOREM StopAlwaysAnswered == Spec => []StopIsAnswered
<1>1. IInv => StopIsAnswered
  BY DEF IInv, Kept, StopIsAnswered
<1> QED
  BY <1>1, Inductive, PTL
=============================================================================
