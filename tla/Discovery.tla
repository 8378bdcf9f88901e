----------------------------- MODULE Discovery -----------------------------
(***************************************************************************)
(* How the client finds its server and notices that it has lost it: the    *)
(* worker that discovers (gui-app/src/Utils/mDNS/mDnsAutoFind.cpp), the    *)
(* watcher of the channel (Service/ChannelStateChangeService.cpp), the     *)
(* change of channel (Utils/Globals.hpp), the light that shows the state   *)
(* (Ui/SemaphoreWidget.cpp), and the end of the program (Ui/MainWindow.cpp,*)
(* Ui/MainApp.hpp).                                                        *)
(*                                                                         *)
(* Signals of the worker and of a watcher are queued to the thread of the  *)
(* event loop (gui).  An action is what a thread does between two places   *)
(* where it waits or where another thread can tell the difference.         *)
(***************************************************************************)
EXTENDS Mdns

CONSTANTS
  Servers,                \* the <<address, port>> on which a server listens
  Local,                  \* the address given to the first channel
  AUTO_CONNECT_MAX_TRIES, \* how many failures start a discovery
  MaxChannels,            \* bound: channels made by one run of the program
  MaxWakes,               \* bound: clicks on the light and spurious wakeups
  MaxEvents               \* bound: signals that are queued

ASSUME DiscoveryAssumption ==
  /\ AUTO_CONNECT_MAX_TRIES \in Nat \ {0}
  /\ MaxChannels \in Nat \ {0} /\ MaxWakes \in Nat /\ MaxEvents \in Nat \ {0}

\* What one packet says is about one server.
ASSUME PacketsOfServers ==
  \A packet \in Answers : \A m, n \in DOMAIN packet :
    packet[m].type = "A" /\ packet[n].type = "SRV" =>
      <<packet[m].value, packet[n].value>> \in Servers

VARIABLES
  worker,         \* where the worker of CMDnsAutoFinder is
  advertised,     \* whether the current discovery has found our service
  m_stop, m_interrupted,
  channel,        \* the channels made so far: where to, what gRPC says of them
  watcher,        \* the watcher of each channel and its thread
  events,         \* the signals queued to the event loop
  light,          \* the colour of the light, and whether a failed discovery set it
  gui,            \* where the main thread is
  wakes,
  missed,         \* the worker was busy when it was notified of the stop
  late,           \* a watcher was at work when the program stopped it
  crashed         \* the misuse that ended the process, or "no"

worker_vars == <<worker, advertised, m_interrupted>>
vars == <<worker_vars, m_stop, channel, watcher, events, light, gui, wakes,
          missed, late, crashed>>

States == {"IDLE", "CONNECTING", "READY", "TRANSIENT_FAILURE"}

Running == crashed = "no" /\ gui # "finished"
Looping == gui \in {"starting", "loop", "replacing"}
Current == Len(channel)

\* A queued signal; once the event loop has ended nobody takes it.
Emit(signals) ==
  /\ Looping => Len(events) + Len(signals) <= MaxEvents
  /\ events' = IF Looping THEN events \o signals ELSE events

Signal(type) == [type |-> type]
StateChanged(state) == [type |-> "state", state |-> state]
Discovered(found) == [type |-> "discovered", found |-> found]

Watcher == [pc |-> "none", m_started |-> FALSE, m_state |-> "IDLE",
            m_connection_failure_count |-> 0]

\* Mutant: nobody starts the watcher.
NotStarted == Watcher
Started == [Watcher EXCEPT !.pc = "sleep", !.m_started = TRUE]

\* Mutant: m_started is not cleared.
NotStopped(w) == w
Stopped(w) == [w EXCEPT !.m_started = FALSE]

Channel(endpoint, balanced) ==
  [endpoint |-> endpoint, balanced |-> balanced, state |-> "IDLE"]

\* The main window is made, and with it the worker, which starts to discover.
Init ==
  /\ worker = "begin" /\ advertised = FALSE
  /\ m_stop = FALSE /\ m_interrupted = FALSE
  /\ channel = <<[Channel(Local, TRUE) EXCEPT !.state = "TRANSIENT_FAILURE"]>>
  /\ watcher = [g \in 1..MaxChannels |-> Watcher]
  /\ events = <<>> /\ light = [status |-> "Red", overruled |-> FALSE]
  /\ gui = "starting" /\ wakes = 0
  /\ missed = FALSE /\ late = FALSE /\ crashed = "no"

-----------------------------------------------------------------------------
(* The worker.                                                             *)

\* notify_one, notify_all: lost when the worker does not wait.
Notified == IF worker = "waiting" THEN "woken" ELSE worker

\* The worker starts before its signals are connected to the light.
BeginDiscovery ==
  /\ Running /\ worker = "begin"
  /\ worker' = "discovering"
  /\ \/ Emit(<<Signal("discovering")>>)
     \/ gui = "starting" /\ UNCHANGED events
  /\ UNCHANGED <<advertised, m_interrupted, m_stop, channel, watcher, light, gui,
                 wakes, missed, late, crashed>>

DiscoverFails ==
  /\ Running /\ worker = "discovering" /\ CanFail
  /\ worker' = "idle"
  /\ Emit(<<Signal("failed")>>)
  /\ UNCHANGED <<advertised, m_interrupted, m_stop, channel, watcher, light, gui,
                 wakes, missed, late, crashed>>

\* With the guard that follows: an interrupt ends the discovery.
Discover ==
  /\ Running /\ worker = "discovering"
  /\ advertised' \in DiscoverResults
  /\ m_interrupted' = FALSE
  /\ worker' = IF m_interrupted THEN "idle" ELSE "querying"
  /\ UNCHANGED <<m_stop, channel, watcher, events, light, gui, wakes, missed, late,
                 crashed>>

\* The error that is logged is that of the discovery, which has none: the
\* process ends, or what is in its place is reported.
QueryFails ==
  /\ Running /\ worker = "querying" /\ query_fails(advertised)
  /\ worker' = "idle" /\ advertised' = FALSE
  /\ \/ crashed' = "error_of_value" /\ UNCHANGED events
     \/ Emit(<<Signal("failed")>>) /\ UNCHANGED crashed
  /\ UNCHANGED <<m_interrupted, m_stop, channel, watcher, light, gui, wakes, missed,
                 late>>

\* Channels there are or will be, when all signals have been handled.
Replaces(e) == e.type = "discovered" /\ e.found.results # <<>>
Promised == Current + Cardinality({n \in DOMAIN events : Replaces(events[n])})

Query ==
  /\ Running /\ worker = "querying"
  /\ \E found \in query_services(advertised) :
       /\ found.results # <<>> => Promised < MaxChannels
       /\ Emit(<<Discovered(found)>>)
  /\ worker' = "idle" /\ advertised' = FALSE
  /\ m_interrupted' = FALSE
  /\ UNCHANGED <<m_stop, channel, watcher, light, gui, wakes, missed, late, crashed>>

\* The wait has no predicate: m_stop is not looked at before it.
Wait ==
  /\ Running /\ worker = "idle"
  /\ worker' = "waiting"
  /\ UNCHANGED <<advertised, m_interrupted, m_stop, channel, watcher, events, light,
                 gui, wakes, missed, late, crashed>>

Wake ==
  /\ Running /\ worker = "woken"
  /\ worker' = IF m_stop THEN "ended" ELSE "begin"
  /\ UNCHANGED <<advertised, m_interrupted, m_stop, channel, watcher, events, light,
                 gui, wakes, missed, late, crashed>>

\* The standard permits a wait to return without a notification.
SpuriousWake ==
  /\ Running /\ worker = "waiting" /\ wakes < MaxWakes
  /\ wakes' = wakes + 1
  /\ worker' = "woken"
  /\ UNCHANGED <<advertised, m_interrupted, m_stop, channel, watcher, events, light,
                 gui, missed, late, crashed>>

-----------------------------------------------------------------------------
(* Watchers, and the channels they watch.                                  *)

\* The first channel is made without credentials, so it is in failure for
\* ever.  Another goes through the states of a channel.
ChannelMoves(from, to) ==
  /\ Running /\ Looping /\ Current > 1
  /\ channel[Current].state = from
  /\ channel' = [channel EXCEPT ![Current].state = to]
  /\ UNCHANGED <<worker_vars, m_stop, watcher, events, light, gui, wakes, missed, late,
                 crashed>>

Dial == ChannelMoves("IDLE", "CONNECTING") \/ ChannelMoves("TRANSIENT_FAILURE", "CONNECTING")
Connects    == channel[Current].endpoint \in Servers /\ ChannelMoves("CONNECTING", "READY")
Refused     == ChannelMoves("CONNECTING", "TRANSIENT_FAILURE")
Disconnects == ChannelMoves("READY", "IDLE")

\* wait_for: the interval is over, or stop() was called.
WatcherWakes(g) ==
  /\ Running /\ watcher[g].pc = "sleep"
  /\ watcher' = [watcher EXCEPT ![g] =
                   IF @.m_started THEN [@ EXCEPT !.pc = "look"]
                   ELSE [Watcher EXCEPT !.pc = "exited"]]
  /\ UNCHANGED <<worker_vars, m_stop, channel, events, light, gui, wakes, missed, late,
                 crashed>>

\* Mutant: one try too many.
TriesOnceMore(w, state) ==
  state = "TRANSIENT_FAILURE" /\ w.m_connection_failure_count <= AUTO_CONNECT_MAX_TRIES

Tries(w, state) ==
  state = "TRANSIENT_FAILURE" /\ w.m_connection_failure_count < AUTO_CONNECT_MAX_TRIES

\* The signals of a watcher that was replaced are disconnected.
Look(g) ==
  LET s     == channel[g].state
      w     == watcher[g]
      tries == Tries(w, s)
      count == w.m_connection_failure_count + (IF tries THEN 1 ELSE 0)
      stops == IF tries /\ count = AUTO_CONNECT_MAX_TRIES
               THEN <<Signal("stopping")>> ELSE <<>>
      moved == IF w.m_state = s THEN <<>> ELSE <<StateChanged(s)>>
  IN
  /\ Running /\ w.pc = "look"
  /\ watcher' = [watcher EXCEPT ![g] =
       [@ EXCEPT !.pc = "sleep", !.m_state = s, !.m_connection_failure_count =
          IF w.m_state # s /\ s \in {"IDLE", "READY"} THEN 0 ELSE count]]
  /\ Emit(IF g = Current THEN stops \o moved ELSE <<>>)
  /\ worker' = IF tries THEN Notified ELSE worker
  /\ crashed' = IF tries /\ gui = "services" THEN "dead_finder" ELSE crashed
  /\ UNCHANGED <<advertised, m_interrupted, m_stop, channel, light, gui, wakes, missed,
                 late>>

-----------------------------------------------------------------------------
(* The event loop.                                                         *)

\* CMainApp::exec.
Exec ==
  /\ Running /\ gui = "starting"
  /\ gui' = "loop"
  /\ watcher' = [watcher EXCEPT ![1] = Started]
  /\ worker' = Notified
  /\ UNCHANGED <<advertised, m_interrupted, m_stop, channel, events, light, wakes,
                 missed, late, crashed>>

AtSignal(type) ==
  Running /\ gui = "loop" /\ events # <<>> /\ Head(events).type = type
Shows(status, overruled) == light' = [status |-> status, overruled |-> overruled]
Handled == events' = Tail(events)

sl_discovering ==
  /\ AtSignal("discovering") /\ Handled
  /\ Shows("Yellow", FALSE)
  /\ UNCHANGED <<worker_vars, m_stop, channel, watcher, gui, wakes, missed, late, crashed>>

\* Either kind of failure, and the end of automatic discovery.
sl_failed ==
  /\ AtSignal("failed") \/ AtSignal("stopping")
  /\ Handled
  /\ Shows("Red", TRUE)
  /\ UNCHANGED <<worker_vars, m_stop, channel, watcher, gui, wakes, missed, late, crashed>>

LightOf(state) ==
  CASE state \in {"IDLE", "READY"} -> "Green"
    [] state = "CONNECTING" -> "Yellow"
    [] OTHER -> "Red"

sl_channel_state_changed ==
  /\ AtSignal("state") /\ Handled
  /\ Shows(LightOf(Head(events).state), FALSE)
  /\ UNCHANGED <<worker_vars, m_stop, channel, watcher, gui, wakes, missed, late, crashed>>

sl_nothing_discovered ==
  /\ AtSignal("discovered") /\ Head(events).found.results = <<>> /\ Handled
  /\ Shows("Red", TRUE)
  /\ UNCHANGED <<worker_vars, m_stop, channel, watcher, gui, wakes, missed, late, crashed>>

\* To the first address found: the old watcher is told to stop, a new channel
\* and watcher are made, and the proxies are connected to them.
change_channel ==
  /\ AtSignal("discovered") /\ Replaces(Head(events))
  /\ watcher' = [watcher EXCEPT ![Current] = Stopped(@), ![Current + 1] = Started]
  /\ channel' = Append(channel, Channel(Head(events).found.results[1],
                                        Head(events).found.balanced))
  /\ gui' = "replacing"
  /\ UNCHANGED <<worker_vars, m_stop, events, light, wakes, missed, late, crashed>>

\* The old services are deleted, which joins the thread of the old watcher;
\* then the light's slot for the same signal.
OldServicesDeleted ==
  /\ Running /\ gui = "replacing" /\ watcher[Current - 1].pc = "exited"
  /\ gui' = "loop" /\ Handled
  /\ channel' = [channel EXCEPT ![Current - 1].state = "SHUTDOWN"]
  /\ Shows("Green", FALSE)
  /\ UNCHANGED <<worker_vars, m_stop, watcher, wakes, missed, late, crashed>>

sl_rediscover ==
  /\ Running /\ gui = "loop" /\ wakes < MaxWakes
  /\ wakes' = wakes + 1
  /\ worker' = Notified
  /\ UNCHANGED <<advertised, m_interrupted, m_stop, channel, watcher, events, light, gui,
                 missed, late, crashed>>

-----------------------------------------------------------------------------
(* The end of the program.                                                 *)

\* The running discovery is interrupted only if there are unsaved changes.
closeEvent ==
  /\ Running /\ gui = "loop"
  /\ gui' = "closing"
  /\ m_interrupted' \in {m_interrupted, TRUE}
  /\ events' = <<>>
  /\ UNCHANGED <<worker, advertised, m_stop, channel, watcher, light, wakes, missed, late,
                 crashed>>

\* ~CMainApp.
StopWatcher ==
  /\ Running /\ gui = "closing"
  /\ gui' = "stopping"
  /\ watcher' = [watcher EXCEPT ![Current] = Stopped(@)]
  /\ late' = (watcher[Current].pc = "look")
  /\ UNCHANGED <<worker_vars, m_stop, channel, events, light, wakes, missed, crashed>>

\* ~CMDnsAutoFinder sets m_stop, notifies and joins.
StopWorker ==
  /\ Running /\ gui = "stopping" /\ ~m_stop
  /\ m_stop' = TRUE
  /\ UNCHANGED <<worker_vars, channel, watcher, events, light, gui, wakes, missed, late,
                 crashed>>

NotifyStop ==
  /\ Running /\ gui = "stopping" /\ m_stop
  /\ gui' = "joining"
  /\ worker' = Notified
  /\ missed' = (worker \notin {"waiting", "woken", "ended"})
  /\ UNCHANGED <<advertised, m_interrupted, m_stop, channel, watcher, events, light, wakes,
                 late, crashed>>

JoinWorker ==
  /\ Running /\ gui = "joining" /\ worker = "ended"
  /\ gui' = "services"
  /\ UNCHANGED <<worker_vars, m_stop, channel, watcher, events, light, wakes, missed,
                 late, crashed>>

\* The static Globals, made before the worker, ends after it: its watcher is
\* deleted, which joins the watcher's thread.
JoinWatcher ==
  /\ Running /\ gui = "services" /\ watcher[Current].pc = "exited"
  /\ gui' = "finished"
  /\ UNCHANGED <<worker_vars, m_stop, channel, watcher, events, light, wakes, missed,
                 late, crashed>>

WorkerStep ==
  BeginDiscovery \/ DiscoverFails \/ Discover \/ QueryFails \/ Query \/ Wait \/ Wake
WatcherStep(g) == WatcherWakes(g) \/ Look(g)
LoopStep ==
  \/ Exec \/ sl_discovering \/ sl_failed \/ sl_channel_state_changed
  \/ sl_nothing_discovered \/ change_channel \/ OldServicesDeleted
EndStep == StopWatcher \/ StopWorker \/ NotifyStop \/ JoinWorker \/ JoinWatcher

Next ==
  \/ WorkerStep \/ SpuriousWake
  \/ \E g \in 1..MaxChannels : WatcherStep(g)
  \/ Dial \/ Connects \/ Refused \/ Disconnects
  \/ LoopStep \/ sl_rediscover \/ closeEvent
  \/ EndStep

\* Threads run on, and a select or a timed wait ends.  A channel whose state is
\* asked for as the watcher asks is not idle for ever.  Nothing is assumed of
\* the network, the user or the order of the threads.
Fairness ==
  /\ WF_vars(WorkerStep)
  /\ \A g \in 1..MaxChannels : WF_vars(WatcherStep(g))
  /\ WF_vars(LoopStep \/ EndStep)
  /\ WF_vars(ChannelMoves("IDLE", "CONNECTING"))

Spec == Init /\ [][Next]_vars /\ Fairness

-----------------------------------------------------------------------------
(* Properties.                                                             *)

TypeOK ==
  /\ worker \in {"begin", "discovering", "querying", "idle", "waiting", "woken", "ended"}
  /\ {advertised, m_stop, m_interrupted, missed, late} \subseteq BOOLEAN
  /\ Current \in 1..MaxChannels
  /\ \A g \in 1..Current : channel[g].state \in States \cup {"SHUTDOWN"}
  /\ watcher \in [1..MaxChannels ->
       [pc : {"none", "sleep", "look", "exited"}, m_started : BOOLEAN, m_state : States,
        m_connection_failure_count : 0..AUTO_CONNECT_MAX_TRIES]]
  /\ Len(events) <= MaxEvents
  /\ light \in [status : {"Red", "Yellow", "Green"}, overruled : BOOLEAN]
  /\ gui \in {"starting", "loop", "replacing", "closing", "stopping", "joining",
              "services", "finished"}
  /\ wakes \in 0..MaxWakes
  /\ crashed \in {"no", "error_of_value", "dead_finder"}

\* The callback of the query is given records without their packets.  What it
\* makes of them is the address and port of one server, and the client changes
\* to no other, unless a packet had more records of one kind than of the other:
\* the half that is left over is paired with the next server's.
ConnectsToServer ==
  /\ \A n \in DOMAIN events :
       events[n].type = "discovered" /\ events[n].found.balanced =>
         ToSet(events[n].found.results) \subseteq Servers
  /\ \A g \in 2..Current : channel[g].balanced => channel[g].endpoint \in Servers

\* A program whose window was closed ends, with its threads, except
\* - when the worker was busy at the notification of the stop, of which it has
\*   no other knowledge: it then waits for ever, and the program for it;
\* - when a watcher that was past its wait when it was stopped asks a worker
\*   for a discovery that is deleted;
\* - when the network was gone between a discovery and its query.
QuitEnds ==
  gui = "closing" ~>
    \/ gui = "finished" /\ worker = "ended"
         /\ \A g \in 1..Current : watcher[g].pc = "exited"
    \/ missed
    \/ crashed = "dead_finder" /\ late
    \/ crashed = "error_of_value"

\* The light comes to show what gRPC says of the channel when that stays so: the
\* signals of a channel that was replaced, and those of a discovery that is
\* over, do not last.  Except that a discovery that finds no server, or the
\* message that there will be no more of them, leaves the light red although
\* the channel may be ready.
LightSettles ==
  \A state \in States :
    <>[](channel[Current].state = state /\ Looping /\ Running)
      => <>[](light.status = LightOf(state) \/ light.overruled)
=============================================================================
