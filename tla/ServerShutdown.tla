--------------------------- MODULE ServerShutdown ---------------------------
(***************************************************************************)
(* The threads of the server and how they end                              *)
(* (server/src/StartupOrchestrator.cpp, server/src/IPC/IPC.cpp,            *)
(* serverctl/src/main.cpp): the workers for standard input, gRPC, Avahi    *)
(* and the control socket, main() joining them (the worker for the first   *)
(* list of scanners, which returns by itself, is left to ScannerService),  *)
(* and init_shutdown(), which runs for the command "stop" on the thread    *)
(* that read it, and for a SIGINT inside the thread it interrupts.         *)
(*                                                                         *)
(* The kernel interrupts the main thread, unless that is in a handler      *)
(* already, in which the signal is blocked: then any other thread, one of  *)
(* gRPC's that runs a call included.                                       *)
(*                                                                         *)
(* grpc::Server::Shutdown, as init_shutdown uses it, holds the server's    *)
(* mutex until no call is left.                                            *)
(*                                                                         *)
(* Whatever is called on a deleted object has no defined outcome: the      *)
(* model records it in "undefined" and stops there.                        *)
(***************************************************************************)
EXTENDS AvahiRegistration, Sequences, FiniteSets

CONSTANTS
  MaxSignals,  \* bound: SIGINTs sent
  MaxCalls,    \* bound: calls in progress at a time
  MaxInputs,   \* bound: lines, parts of lines and the end of standard input
  MaxEvents,   \* bound: of all these but calls, and of connections
  Terminal,    \* standard input is a terminal, read a line at a time
  Ctls,        \* programs that connect to the control socket
  Silent,      \* those of them that keep their connection open
  NoOne

ASSUME ShutdownAssumption ==
  /\ MaxSignals \in Nat /\ MaxCalls \in Nat
  /\ MaxInputs \in Nat /\ MaxEvents \in Nat
  /\ Terminal \in BOOLEAN
  /\ Silent \subseteq Ctls /\ NoOne \notin Ctls

Signals == 1..MaxSignals
Initiators == {0} \cup Signals   \* 0 is the command
Threads == {"main", "stdin", "grpc", "avahi", "ipc", "call"}

VARIABLES
  at,             \* where each init_shutdown is
  on,             \* the thread each signal has interrupted, else "main"
  saw,            \* the pointer each holds in CAutoRestartableAvahiService::shutdown
  m_grpc_server,  \* the pointer is not null
  grpc_state,     \* "serving", "shutdown" (its mutex held), "drained", "deleted"
  calls,          \* calls in progress
  m_read_stdin,
  ended,          \* the threads that returned, "main" when main() did
  stdin_pc,       \* "test", "poll", "getline", "init_shutdown"
  typed,          \* the lines the kernel holds
  partial,        \* they end in a part of a line
  buffered,       \* the lines read from the kernel that getline did not return
  eof,            \* standard input was closed
  inputs,         \* see MaxInputs
  ipc_shutdown,   \* CIPC::m_shutdown
  ipc_pc,         \* "bind", "loop", "serving"
  served,         \* the program whose connection is read
  ctl             \* what each program does

stdin_vars == <<stdin_pc, typed, partial, buffered, eof, inputs>>
ipc_vars   == <<ipc_pc, served, ctl>>
grpc_vars  == <<m_grpc_server, grpc_state, calls>>
init_vars  == <<at, on, saw>>
vars == <<avahi_vars, init_vars, grpc_vars, m_read_stdin, ended, stdin_vars,
          ipc_shutdown, ipc_vars>>

TypeOK ==
  /\ AvahiTypeOK
  /\ at \in [Initiators -> {"none", "test_grpc", "grpc", "drain", "avahi",
                            "quit_avahi", "flags", "done"}]
  /\ on \in [Signals -> Threads]
  /\ saw \in [Initiators -> Objects]
  /\ m_grpc_server \in BOOLEAN
  /\ grpc_state \in {"serving", "shutdown", "drained", "deleted"}
  /\ calls \in 0..MaxCalls
  /\ m_read_stdin \in BOOLEAN /\ ipc_shutdown \in BOOLEAN
  /\ ended \subseteq Threads
  /\ stdin_pc \in {"test", "poll", "getline", "init_shutdown"}
  /\ typed \in Seq({"stop", "other"}) /\ buffered \in Seq({"stop", "other"})
  /\ partial \in BOOLEAN /\ eof \in BOOLEAN /\ inputs \in 0..MaxInputs
  /\ ipc_pc \in {"bind", "loop", "serving"}
  /\ served \in Ctls \cup {NoOne}
  /\ ctl \in [Ctls -> {"start", "sent", "answered", "ended"}]

Init ==
  /\ AvahiInit
  /\ at = [i \in Initiators |-> "none"]
  /\ on = [s \in Signals |-> "main"]
  /\ saw = [i \in Initiators |-> 0]
  /\ m_grpc_server = TRUE /\ grpc_state = "serving" /\ calls = 0
  /\ m_read_stdin = TRUE /\ ipc_shutdown = FALSE
  /\ ended = {}
  /\ stdin_pc = "test" /\ typed = <<>> /\ buffered = <<>>
  /\ partial = FALSE /\ eof = FALSE /\ inputs = 0
  /\ ipc_pc = "bind" /\ served = NoOne
  /\ ctl = [c \in Ctls |-> "start"]

InProgress(i) == at[i] \notin {"none", "done"}
Interrupted(t) == \E s \in Signals : InProgress(s) /\ on[s] = t
Runs(t) == undefined = "none" /\ t \notin ended /\ ~Interrupted(t)

\* What came from outside, together.
Events == failures + inputs + Cardinality({s \in Signals : at[s] # "none"})
            + Cardinality({c \in Ctls : ctl[c] # "start"})
MoreEvents == Events < MaxEvents

Initiated == \E i \in Initiators : at[i] # "none"

-----------------------------------------------------------------------------
(* init_shutdown.                                                          *)

InitGoto(i, from, to) ==
  /\ at[i] = from
  /\ undefined = "none" /\ (i = 0 => ~Interrupted("stdin"))
  /\ at' = [at EXCEPT ![i] = to]
  /\ on' = [s \in Signals |-> IF s = i /\ to = "done" THEN "main" ELSE on[s]]
  /\ UNCHANGED <<ended, stdin_vars, ipc_vars>>

TestGrpc(i) ==
  /\ InitGoto(i, "test_grpc", IF m_grpc_server THEN "grpc" ELSE "avahi")
  /\ UNCHANGED <<avahi_vars, saw, grpc_vars, m_read_stdin, ipc_shutdown>>

\* The pointer may be read again, and be null by now.
ShutdownOnNothing(i) ==
  /\ InitGoto(i, "grpc", "grpc")
  /\ ~m_grpc_server \/ grpc_state = "deleted"
  /\ undefined' = "grpc"
  /\ UNCHANGED <<m_shutdown, avahi_pointer, avahi_pc, quit, avahi_object, failures,
                 saw, grpc_vars, m_read_stdin, ipc_shutdown>>

ShutdownGrpc(i) ==
  /\ InitGoto(i, "grpc", IF grpc_state = "serving" THEN "drain" ELSE "avahi")
  /\ grpc_state \in {"serving", "drained"}
  /\ grpc_state' = IF grpc_state = "serving" THEN "shutdown" ELSE grpc_state
  /\ UNCHANGED <<avahi_vars, saw, m_grpc_server, calls, m_read_stdin, ipc_shutdown>>

Drained(i) ==
  /\ InitGoto(i, "drain", "avahi")
  /\ calls = 0
  /\ grpc_state' = "drained"
  /\ UNCHANGED <<avahi_vars, saw, m_grpc_server, calls, m_read_stdin, ipc_shutdown>>

\* m_avahi_service.shutdown(): the flag and the test of the pointer, then
\* the call through it.
ShutdownAvahi(i) ==
  /\ InitGoto(i, "avahi", IF m_avahi_service = 0 THEN "flags" ELSE "quit_avahi")
  /\ StoreShutdown
  /\ saw' = [saw EXCEPT ![i] = m_avahi_service]
  /\ UNCHANGED <<grpc_vars, m_read_stdin, ipc_shutdown>>

QuitAvahi(i) ==
  /\ InitGoto(i, "quit_avahi", "flags")
  /\ QuitPoll(saw[i])
  /\ saw' = [saw EXCEPT ![i] = 0]
  /\ UNCHANGED <<grpc_vars, m_read_stdin, ipc_shutdown>>

\* Mutant: the worker of standard input is not told.
ClearIpcOnly(i) ==
  /\ InitGoto(i, "flags", "done")
  /\ ipc_shutdown' = TRUE
  /\ UNCHANGED <<avahi_vars, saw, grpc_vars, m_read_stdin>>

\* m_read_stdin, then m_ipc.shutdown().
ClearFlags(i) ==
  /\ InitGoto(i, "flags", "done")
  /\ m_read_stdin' = FALSE /\ ipc_shutdown' = TRUE
  /\ UNCHANGED <<avahi_vars, saw, grpc_vars>>

InitShutdown(i) ==
  \/ TestGrpc(i) \/ ShutdownOnNothing(i) \/ ShutdownGrpc(i) \/ Drained(i)
  \/ ShutdownAvahi(i) \/ QuitAvahi(i) \/ ClearFlags(i)

\* sigint_handler, entered on the thread the kernel picks.
Sigint(s) ==
  /\ MoreEvents /\ at[s] = "none"
  /\ s > 1 => at[s - 1] # "none"
  /\ undefined = "none" /\ "main" \notin ended
  /\ \E t \in Threads :
       /\ IF Interrupted("main")
          THEN t \notin ended /\ ~Interrupted(t) /\ (t = "call" => calls > 0)
          ELSE t = "main"
       /\ on' = [on EXCEPT ![s] = t]
  /\ at' = [at EXCEPT ![s] = "test_grpc"]
  /\ UNCHANGED <<avahi_vars, saw, grpc_vars, m_read_stdin, ended, stdin_vars,
                 ipc_shutdown, ipc_vars>>

-----------------------------------------------------------------------------
(* SStdinWorker, and whoever writes to standard input.                     *)

StdinStep ==
  /\ Runs("stdin")
  /\ UNCHANGED <<avahi_vars, on, saw, grpc_vars, m_read_stdin, ipc_shutdown, ipc_vars>>

TestReadStdin ==
  /\ StdinStep /\ stdin_pc = "test"
  /\ IF m_read_stdin THEN stdin_pc' = "poll" /\ UNCHANGED ended
                     ELSE ended' = ended \cup {"stdin"} /\ UNCHANGED stdin_pc
  /\ UNCHANGED <<at, typed, partial, buffered, eof, inputs>>

\* Input is there, or 500 ms have passed.  A closed terminal or file counts
\* as input, a closed pipe does not.
Poll ==
  /\ StdinStep /\ stdin_pc = "poll"
  /\ \/ /\ typed # <<>> \/ partial \/ eof
        /\ stdin_pc' = "getline"
     \/ /\ typed = <<>> /\ ~partial
        /\ stdin_pc' = "test"
  /\ UNCHANGED <<at, ended, typed, partial, buffered, eof, inputs>>

\* What getline finds: its buffer, or else one read of what the kernel holds.
Available == IF buffered # <<>> THEN buffered
             ELSE IF Terminal /\ typed # <<>> THEN <<Head(typed)>> ELSE typed
Unread == IF buffered # <<>> THEN typed
          ELSE IF Terminal /\ typed # <<>> THEN Tail(typed) ELSE <<>>

\* Mutant: any line ends the worker.
GetOneLine ==
  /\ StdinStep /\ stdin_pc = "getline"
  /\ Available # <<>>
  /\ IF Head(Available) = "stop"
     THEN /\ stdin_pc' = "init_shutdown" /\ at' = [at EXCEPT ![0] = "test_grpc"]
          /\ UNCHANGED ended
     ELSE ended' = ended \cup {"stdin"} /\ UNCHANGED <<at, stdin_pc>>
  /\ buffered' = Tail(Available) /\ typed' = Unread
  /\ UNCHANGED <<partial, eof, inputs>>

GetLine ==
  /\ StdinStep /\ stdin_pc = "getline"
  /\ Available # <<>>
  /\ IF Head(Available) = "stop"
     THEN stdin_pc' = "init_shutdown" /\ at' = [at EXCEPT ![0] = "test_grpc"]
     ELSE stdin_pc' = "test" /\ UNCHANGED at
  /\ buffered' = Tail(Available) /\ typed' = Unread
  /\ UNCHANGED <<ended, partial, eof, inputs>>

GetLineFails ==
  /\ StdinStep /\ stdin_pc = "getline"
  /\ Available = <<>> /\ eof
  /\ ended' = ended \cup {"stdin"}
  /\ UNCHANGED <<at, stdin_vars>>

StdinReturns ==
  /\ StdinStep /\ stdin_pc = "init_shutdown" /\ at[0] = "done"
  /\ ended' = ended \cup {"stdin"}
  /\ UNCHANGED <<at, stdin_vars>>

StdinWorker == TestReadStdin \/ Poll \/ GetLine \/ GetLineFails \/ StdinReturns

Gives == MoreEvents /\ ~eof /\ inputs < MaxInputs /\ inputs' = inputs + 1

TypeLine ==
  /\ Gives
  /\ \E l \in {"stop", "other"} : typed' = Append(typed, l)
  /\ partial' = FALSE
  /\ UNCHANGED <<avahi_vars, init_vars, grpc_vars, m_read_stdin, ended, stdin_pc,
                 buffered, eof, ipc_shutdown, ipc_vars>>

\* A terminal keeps a line until it is whole.
WritePart ==
  /\ Gives /\ ~Terminal /\ partial' = TRUE
  /\ UNCHANGED <<avahi_vars, init_vars, grpc_vars, m_read_stdin, ended, stdin_pc,
                 typed, buffered, eof, ipc_shutdown, ipc_vars>>

CloseStdin ==
  /\ Gives /\ ~partial /\ eof' = TRUE
  /\ UNCHANGED <<avahi_vars, init_vars, grpc_vars, m_read_stdin, ended, stdin_pc,
                 typed, partial, buffered, ipc_shutdown, ipc_vars>>

-----------------------------------------------------------------------------
(* SGrpcServerWorker, SAvahiServiceWorker, and main() that joins them.     *)

OtherStep == UNCHANGED <<init_vars, m_read_stdin, stdin_vars, ipc_shutdown, ipc_vars>>

\* Mutant: the worker does not wait for the server to be drained.
ResetServerUnwaited ==
  /\ Runs("grpc") /\ OtherStep
  /\ m_grpc_server /\ m_grpc_server' = FALSE
  /\ UNCHANGED <<avahi_vars, grpc_state, calls, ended>>

\* Wait() returned; unique_ptr::reset clears the pointer before it deletes.
ResetServer ==
  /\ Runs("grpc") /\ OtherStep
  /\ grpc_state = "drained" /\ m_grpc_server
  /\ m_grpc_server' = FALSE
  /\ UNCHANGED <<avahi_vars, grpc_state, calls, ended>>

DeleteServer ==
  /\ Runs("grpc") /\ OtherStep
  /\ ~m_grpc_server
  /\ grpc_state' = "deleted"
  /\ ended' = ended \cup {"grpc"}
  /\ UNCHANGED <<avahi_vars, m_grpc_server, calls>>

AvahiRuns ==
  /\ Runs("avahi") /\ avahi_pc # "ended" /\ OtherStep
  /\ failures' > failures => MoreEvents
  /\ UNCHANGED <<grpc_vars, ended>>

AvahiReturns ==
  /\ Runs("avahi") /\ avahi_pc = "ended" /\ OtherStep
  /\ ended' = ended \cup {"avahi"}
  /\ UNCHANGED <<avahi_vars, grpc_vars>>

MainReturns ==
  /\ Runs("main") /\ OtherStep
  /\ {"stdin", "grpc", "avahi", "ipc"} \subseteq ended
  /\ ended' = ended \cup {"main"}
  /\ UNCHANGED <<avahi_vars, grpc_vars>>

CallBegins ==
  /\ undefined = "none" /\ OtherStep
  /\ grpc_state = "serving" /\ calls < MaxCalls
  /\ calls' = calls + 1
  /\ UNCHANGED <<avahi_vars, m_grpc_server, grpc_state, ended>>

\* A call whose thread a signal has interrupted does not end.
CallEnds ==
  /\ undefined = "none" /\ OtherStep
  /\ calls > IF Interrupted("call") THEN 1 ELSE 0
  /\ calls' = calls - 1
  /\ UNCHANGED <<avahi_vars, m_grpc_server, grpc_state, ended>>

-----------------------------------------------------------------------------
(* SIPCWorker: CIPC::start_blocking, and the programs that connect.        *)

IpcStep ==
  /\ Runs("ipc")
  /\ UNCHANGED <<avahi_vars, init_vars, grpc_vars, m_read_stdin, stdin_vars,
                 ipc_shutdown>>

Bind ==
  /\ IpcStep /\ ipc_pc = "bind"
  /\ \/ ipc_pc' = "loop" /\ UNCHANGED ended
     \/ ended' = ended \cup {"ipc"} /\ UNCHANGED ipc_pc
  /\ UNCHANGED <<served, ctl>>

Accept ==
  /\ IpcStep /\ ipc_pc = "loop" /\ ~ipc_shutdown
  /\ \E c \in Ctls : ctl[c] = "sent" /\ served' = c
  /\ ipc_pc' = "serving"
  /\ UNCHANGED <<ctl, ended>>

\* Mutant: no request is answered.
AnswerNothing == FALSE

\* A request is read, and answered.
Answer ==
  /\ IpcStep /\ ipc_pc = "serving"
  /\ ctl[served] = "sent" /\ ctl' = [ctl EXCEPT ![served] = "answered"]
  /\ UNCHANGED <<ipc_pc, served, ended>>

\* read() answers 0.
Close ==
  /\ IpcStep /\ ipc_pc = "serving"
  /\ ctl[served] = "ended"
  /\ ipc_pc' = "loop" /\ served' = NoOne
  /\ UNCHANGED <<ctl, ended>>

\* The socket is closed, with the connections that were not accepted.
IpcReturns ==
  /\ IpcStep /\ ipc_pc = "loop" /\ ipc_shutdown
  /\ ctl' = [c \in Ctls |-> IF ctl[c] = "sent" THEN "ended" ELSE ctl[c]]
  /\ ended' = ended \cup {"ipc"}
  /\ UNCHANGED <<ipc_pc, served>>

IpcWorker == Bind \/ Accept \/ Answer \/ Close \/ IpcReturns

CtlStep ==
  UNCHANGED <<avahi_vars, init_vars, grpc_vars, m_read_stdin, ended, stdin_vars,
              ipc_shutdown, ipc_pc, served>>

\* serverctl connects and sends at once; it exits if nobody listens.
Connect(c) ==
  /\ CtlStep /\ MoreEvents /\ ctl[c] = "start"
  /\ ctl' = [ctl EXCEPT ![c] = IF ipc_pc # "bind" /\ "ipc" \notin ended
                               THEN "sent" ELSE "ended"]

\* It closes its end when it has its answer, or when it is killed before.
CtlCloses(c) ==
  /\ CtlStep
  /\ \/ ctl[c] = "sent"
     \/ ctl[c] = "answered" /\ c \notin Silent
  /\ ctl' = [ctl EXCEPT ![c] = "ended"]

-----------------------------------------------------------------------------
CloseAnswered(c) == ctl[c] = "answered" /\ CtlCloses(c)

Next ==
  \/ \E i \in Initiators : InitShutdown(i)
  \/ \E s \in Signals : Sigint(s)
  \/ StdinWorker \/ TypeLine \/ WritePart \/ CloseStdin
  \/ ResetServer \/ DeleteServer \/ CallBegins \/ CallEnds
  \/ AvahiStep /\ AvahiRuns
  \/ AvahiReturns \/ MainReturns
  \/ IpcWorker
  \/ \E c \in Ctls : Connect(c) \/ CtlCloses(c)

Fairness ==
  /\ \A i \in Initiators : WF_vars(InitShutdown(i))
  /\ WF_vars(StdinWorker) /\ WF_vars(IpcWorker)
  /\ WF_vars(ResetServer \/ DeleteServer)
  /\ WF_vars(AvahiThread /\ AvahiRuns) /\ WF_vars(DaemonAnswers /\ AvahiRuns)
  /\ WF_vars(AvahiReturns) /\ WF_vars(MainReturns)
  /\ WF_vars(CallEnds)
  /\ \A c \in Ctls : WF_vars(CloseAnswered(c))

Spec == Init /\ [][Next]_vars /\ Fairness

-----------------------------------------------------------------------------
(* What main() returning after a shutdown hangs on.                        *)

\* The flag came after the restart loop's test of it, and the quit before
\* its new object, or to none: nobody quits the poll of that one.
ShutdownLost ==
  /\ m_shutdown /\ avahi_pc = "loop" /\ ~quit
  /\ \A i \in Initiators : ~InProgress(i)

\* A connection is kept open after its answer.
ConnectionHeld == \E c \in Silent : served = c /\ ctl[c] = "answered"

\* A line is begun and not finished.
LineHeld == stdin_pc = "getline" /\ Available = <<>> /\ ~eof

\* A second SIGINT took the thread of a call, for which the first waits, or
\* the thread on which the command waits for the calls.
SelfBlocked ==
  \E s \in Signals :
    /\ at[s] \in {"grpc", "drain"}
    /\ \/ on[s] = "call"
       \/ on[s] = "stdin" /\ at[0] = "drain"

\* SIGINT or "stop" leads to main() returning, whatever scans, registrations
\* and connections there are, but for the cases named above and for a call
\* on an object that another thread deleted (StartupOrchestrator.cpp:50-58,
\* 162-172).
ShutdownEnds ==
  Initiated ~> \/ "main" \in ended \/ undefined # "none"
               \/ ShutdownLost \/ ConnectionHeld \/ LineHeld \/ SelfBlocked

\* The pointers that the threads share without a lock are misused only where
\* Avahi failed and its object was made anew, or where two shutdowns met
\* (StartupOrchestrator.cpp:119,163-165; AvahiServiceRegistration.hpp:194-206).
MisuseHasCause ==
  /\ undefined \in {"avahi", "group"} => failures > 0
  /\ undefined = "grpc" => Cardinality({i \in Initiators : at[i] # "none"}) > 1

\* A "stop" given to the server shuts it down, unless it was read from a pipe
\* together with the line before it: poll does not see what std::cin keeps
\* (StartupOrchestrator.cpp:88-105).
StopObeyed ==
  (\E n \in 1..Len(typed) : typed[n] = "stop")
    ~> Initiated \/ undefined # "none" \/ \E n \in 1..Len(buffered) : buffered[n] = "stop"

\* serverctl gets its answer or an end of the connection, also while the
\* server shuts down, unless another connection is kept open (IPC.cpp:46-87,
\* serverctl/src/main.cpp:43-62).
CtlEnds ==
  \A c \in Ctls :
    ctl[c] = "sent" ~> ctl[c] # "sent" \/ ConnectionHeld \/ undefined # "none"

\* The server is published again and again after any failure of the daemon,
\* until it shuts down, or meets its name on its own host: it retries that
\* name and gives up (AvahiServiceRegistration.hpp:92-100,180-191).
PublishedAgain ==
  []<>(m_shutdown \/ undefined # "none" \/ m_group = "established" \/ GaveUp)
=============================================================================
