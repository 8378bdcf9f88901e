----------------------- MODULE ServerShutdown_proofs -----------------------
(***************************************************************************)
(* What can go wrong where the threads of the server share pointers, for   *)
(* any number of signals, calls, failures of the daemon and programs that  *)
(* connect.                                                                *)
(*                                                                         *)
(* A deleted Avahi object is called only after a failure, since without    *)
(* one there is one object, which is made once and deleted by nobody       *)
(* (OneObject).  The gRPC server is called when it is deleted only by a    *)
(* second shutdown, since the first is past its own call by then           *)
(* (ServerStopped).  The objects made are bounded by the failures: the     *)
(* loop is left only for a failure or for good (ObjectsOfFailures).        *)
(***************************************************************************)
EXTENDS ServerShutdown, SequenceTheorems, FiniteSetTheorems, TLAPS

\* An object is made only for a failure that was not answered by one yet.
ObjectsOfFailures ==
  /\ made <= failures + 1
  /\ avahi_pc \in {"reset", "forget", "new"} => made <= failures
  /\ avahi_pc = "test" /\ ~m_shutdown => made <= failures
  /\ quit /\ ~m_shutdown => made <= failures

\* Whoever is about to call the object has told its loop; where nothing has
\* failed, that object is the only one.
OneObject ==
  /\ \A i \in Initiators : at[i] = "quit_avahi" => m_shutdown
  /\ failures = 0 =>
       /\ m_avahi_service = alive /\ avahi_pc # "forget"
       /\ quit => m_shutdown
       /\ avahi_pc \in {"reset", "new"} => alive = 0
       /\ avahi_pc = "test" /\ alive # 0 => m_shutdown
       /\ \A i \in Initiators : at[i] = "quit_avahi" => saw[i] = alive /\ alive # 0

Called == {"drain", "avahi", "quit_avahi", "flags", "done"}

\* Whoever has shut the gRPC server down is past that call; the command is
\* given once.
ServerStopped ==
  /\ grpc_state # "serving" => \E i \in Initiators : at[i] \in Called
  /\ ~m_grpc_server => grpc_state \in {"drained", "deleted"}
  /\ at[0] # "none" => stdin_pc = "init_shutdown"

Inv ==
  TypeOK /\ ObjectsOfFailures /\ OneObject /\ ServerStopped /\ MisuseHasCause

-----------------------------------------------------------------------------
LEMMA Constants ==
  /\ MaxSignals \in Nat /\ MaxCalls \in Nat /\ MaxInputs \in Nat /\ MaxFailures \in Nat
  /\ 0 \in Initiators /\ Signals \subseteq Initiators /\ Initiators \subseteq Nat
  /\ 0 \notin Signals /\ IsFiniteSet(Initiators) /\ 0 \in Objects
<1>1. IsFiniteSet(Signals)
  BY ShutdownAssumption, FS_Interval DEF Signals
<1>2. IsFiniteSet(Initiators)
  BY <1>1, FS_AddElement, FS_Union, FS_Singleton DEF Initiators
<1>3. QED
  BY <1>2, ShutdownAssumption, AvahiAssumption DEF Initiators, Signals, Objects

-----------------------------------------------------------------------------
(* The registration with Avahi.                                            *)

\* What every step of the registration's thread leaves or counts.
LEMMA AvahiKeeps ==
  ASSUME AvahiTypeOK, AvahiStep
  PROVE  /\ UNCHANGED m_shutdown
         /\ failures' \in 0..MaxFailures /\ failures' >= failures
         /\ undefined' = undefined \/ (undefined' = "group" /\ failures' > 0)
<1> USE DEF AvahiTypeOK
<1>1. failures \in 0..MaxFailures /\ MaxFailures \in Nat
  BY Constants
<1>2. Fails => failures' \in 0..MaxFailures /\ failures' > failures /\ failures' > 0
  BY <1>1 DEF Fails
<1>3. CASE TestShutdown \/ Reset \/ Forget \/ LoopEnds \/ LocalCollision \/ GiveUp
  BY <1>1, <1>3 DEF TestShutdown, Reset, Forget, LoopEnds, LocalCollision, GiveUp
<1>4. CASE New
  BY <1>1, <1>2, <1>4 DEF New
<1>5. CASE NoGroup
  BY <1>1, <1>2, <1>5 DEF NoGroup
<1>6. CASE AddEntry
  BY <1>1, <1>2, <1>6 DEF AddEntry
<1>7. CASE ClientRunning \/ GroupEstablished
  BY <1>1, <1>7 DEF ClientRunning, GroupEstablished
<1>8. CASE ClientRegistering \/ DaemonFails \/ GroupCollision
  BY <1>1, <1>2, <1>8 DEF ClientRegistering, DaemonFails, GroupCollision
<1>9. QED
  BY <1>3, <1>4, <1>5, <1>6, <1>7, <1>8 DEF AvahiStep, AvahiThread, DaemonAnswers

LEMMA AvahiTypes ==
  ASSUME AvahiTypeOK, ObjectsOfFailures, AvahiStep
  PROVE  AvahiTypeOK'
<1>1. /\ MaxFailures \in Nat /\ Objects = 0..MaxFailures + 1
      /\ m_service_count \in Nat /\ collision_count \in 0..6
  BY Constants DEF AvahiTypeOK, Objects
<1>2. UNCHANGED m_shutdown /\ failures' \in 0..MaxFailures
      /\ undefined' \in {"none", "avahi", "group", "grpc"}
  BY AvahiKeeps DEF AvahiTypeOK
<1>3. CASE TestShutdown
  BY <1>2, <1>3 DEF TestShutdown, AvahiTypeOK, AvahiGoto, avahi_pointer, avahi_object
<1>4. CASE Reset
  BY <1>1, <1>2, <1>4 DEF Reset, AvahiTypeOK, AvahiGoto, avahi_object
<1>5. CASE Forget
  BY <1>1, <1>2, <1>5 DEF Forget, AvahiTypeOK, AvahiGoto, avahi_object
<1>6. CASE New
  <2>1. made + 1 \in Objects
    BY <1>1, <1>6 DEF New, AvahiTypeOK, AvahiGoto, ObjectsOfFailures
  <2>2. avahi_pc' \in {"test", "loop", "create"} /\ client' \in {"none", "waiting", "running"}
        /\ m_group' = "none" /\ m_service_count' = 0 /\ UNCHANGED collision_count
        /\ quit' = FALSE /\ made' = made + 1 /\ alive' = made + 1 /\ m_avahi_service' = made + 1
    BY <1>6 DEF New, AvahiGoto
  <2>3. QED
    BY <1>1, <1>2, <2>1, <2>2 DEF AvahiTypeOK
<1>7. CASE LoopEnds
  BY <1>2, <1>7 DEF LoopEnds, AvahiTypeOK, AvahiGoto, avahi_pointer, avahi_object
<1>8. CASE NoGroup
  BY <1>2, <1>8 DEF NoGroup, AvahiTypeOK, AvahiGoto, avahi_pointer, avahi_object
<1>9. CASE LocalCollision
  BY <1>1, <1>2, <1>9 DEF LocalCollision, AvahiTypeOK, AvahiGoto, avahi_pointer
<1>10. CASE GiveUp
  BY <1>1, <1>2, <1>10 DEF GiveUp, AvahiTypeOK, AvahiGoto, avahi_pointer
<1>11. CASE AddEntry
  <2>1. /\ avahi_pc' = "loop" /\ UNCHANGED <<avahi_pointer, client, m_service_count, collision_count>>
        /\ m_group' \in {m_group, "registering", "empty", "filled"} /\ quit' \in {quit, TRUE}
    BY <1>11 DEF AddEntry, AvahiGoto
  <2>2. QED
    BY <1>1, <1>2, <2>1 DEF AvahiTypeOK, avahi_pointer
<1>12. CASE ClientRunning
  BY <1>1, <1>2, <1>12 DEF ClientRunning, AvahiTypeOK, AvahiGoto, avahi_pointer
<1>13. CASE ClientRegistering
  BY <1>1, <1>2, <1>13 DEF ClientRegistering, AvahiTypeOK, AvahiGoto, avahi_pointer
<1>14. CASE DaemonFails
  BY <1>1, <1>2, <1>14 DEF DaemonFails, AvahiTypeOK, AvahiGoto, avahi_pointer, avahi_object
<1>15. CASE GroupEstablished
  BY <1>1, <1>2, <1>15 DEF GroupEstablished, AvahiTypeOK, AvahiGoto, avahi_pointer
<1>16. CASE GroupCollision
  <2>1. m_service_count' = m_service_count + 1 /\ avahi_pc' = "create" /\ m_group' = "empty"
        /\ UNCHANGED <<avahi_pointer, quit, client, collision_count>>
    BY <1>16 DEF GroupCollision, AvahiGoto
  <2>2. QED
    BY <1>1, <1>2, <2>1 DEF AvahiTypeOK, avahi_pointer
<1>17. QED
  BY <1>3, <1>4, <1>5, <1>6, <1>7, <1>8, <1>9, <1>10, <1>11, <1>12, <1>13, <1>14, <1>15, <1>16
     DEF AvahiStep, AvahiThread, DaemonAnswers

\* The loop is entered with one object for each failure and one more, and
\* left for a failure or for good.
LEMMA AvahiObjects ==
  ASSUME AvahiTypeOK, ObjectsOfFailures, AvahiStep
  PROVE  ObjectsOfFailures'
<1>1. failures' \in Nat /\ failures' >= failures
  BY AvahiKeeps DEF AvahiTypeOK
<1>2. PICK f \in Nat : f = failures'
  BY <1>1
<1>3. failures \in Nat /\ made \in Nat /\ m_shutdown \in BOOLEAN /\ quit \in BOOLEAN
      /\ failures <= f /\ UNCHANGED m_shutdown
  BY <1>1, <1>2, AvahiKeeps DEF AvahiTypeOK, Objects
<1>4. SUFFICES /\ made' <= f + 1
               /\ avahi_pc' \in {"reset", "forget", "new"} => made' <= f
               /\ avahi_pc' = "test" /\ ~m_shutdown' => made' <= f
               /\ quit' /\ ~m_shutdown' => made' <= f
  BY <1>2 DEF ObjectsOfFailures
<1>5. /\ made <= failures + 1 /\ made <= f + 1
      /\ made <= failures => made <= f /\ made + 1 <= f + 1
      /\ Fails => f = failures + 1 /\ made <= f
  <2>1. made <= failures + 1
    BY DEF ObjectsOfFailures
  <2>2. Fails => f = failures + 1
    BY <1>2 DEF Fails
  <2>3. QED
    BY <1>3, <2>1, <2>2
<1>6. CASE New
  <2>1. made' = made + 1 /\ quit' = FALSE /\ made <= failures
        /\ avahi_pc' \in {"test", "loop", "create"}
        /\ (avahi_pc' = "test" => Fails)
    BY <1>6 DEF New, AvahiGoto, ObjectsOfFailures
  <2>2. made' <= f + 1 /\ (Fails => made' <= f)
    BY <1>3, <1>5, <2>1
  <2>3. QED
    BY <2>1, <2>2
<1>7. CASE TestShutdown \/ Reset \/ Forget \/ LoopEnds
  BY <1>3, <1>5, <1>7
     DEF TestShutdown, Reset, Forget, LoopEnds, AvahiGoto, ObjectsOfFailures, avahi_pointer
<1>8. CASE NoGroup \/ LocalCollision \/ GiveUp \/ ClientRunning \/ ClientRegistering
           \/ GroupEstablished \/ GroupCollision
  <2>1. UNCHANGED <<made, quit>> /\ avahi_pc' \in {"create", "loop"}
    BY <1>8 DEF NoGroup, LocalCollision, GiveUp, ClientRunning, ClientRegistering,
       GroupEstablished, GroupCollision, AvahiGoto, avahi_pointer
  <2>2. QED
    BY <1>3, <1>5, <2>1 DEF ObjectsOfFailures
<1>9. CASE AddEntry \/ DaemonFails
  <2>1. UNCHANGED made /\ avahi_pc' = "loop" /\ (UNCHANGED quit \/ Fails)
    BY <1>9 DEF AddEntry, DaemonFails, AvahiGoto, avahi_pointer
  <2>2. QED
    BY <1>3, <1>5, <2>1 DEF ObjectsOfFailures
<1>10. QED
  BY <1>6, <1>7, <1>8, <1>9 DEF AvahiStep, AvahiThread, DaemonAnswers

\* The one object that there is without a failure stays.
LEMMA AvahiOneObject ==
  ASSUME AvahiTypeOK, OneObject, AvahiStep, UNCHANGED init_vars
  PROVE  OneObject'
<1>1. UNCHANGED <<m_shutdown, at, saw>> /\ failures \in Nat /\ failures' >= failures
      /\ failures' \in Nat /\ made \in Nat
  BY AvahiKeeps DEF AvahiTypeOK, init_vars, Objects
<1>2. \A i \in Initiators : at'[i] = "quit_avahi" => m_shutdown'
  BY <1>1 DEF OneObject
<1>3. SUFFICES ASSUME failures' = 0
               PROVE  /\ m_avahi_service' = alive' /\ avahi_pc' # "forget"
                      /\ quit' => m_shutdown'
                      /\ avahi_pc' \in {"reset", "new"} => alive' = 0
                      /\ avahi_pc' = "test" /\ alive' # 0 => m_shutdown'
                      /\ \A i \in Initiators :
                           at'[i] = "quit_avahi" => saw'[i] = alive' /\ alive' # 0
  BY <1>2 DEF OneObject
<1>4. failures = 0 /\ ~Fails
  BY <1>1, <1>3 DEF Fails
<1>5. /\ m_avahi_service = alive /\ avahi_pc # "forget"
      /\ quit => m_shutdown
      /\ avahi_pc \in {"reset", "new"} => alive = 0
      /\ avahi_pc = "test" /\ alive # 0 => m_shutdown
      /\ \A i \in Initiators : at[i] = "quit_avahi" => saw[i] = alive /\ alive # 0
  BY <1>4 DEF OneObject
<1>6. CASE TestShutdown
  BY <1>1, <1>5, <1>6 DEF TestShutdown, AvahiGoto, avahi_pointer
<1>7. CASE Reset
  BY <1>1, <1>5, <1>7 DEF Reset, AvahiGoto
<1>8. CASE New
  BY <1>1, <1>4, <1>5, <1>8 DEF New, AvahiGoto
<1>9. CASE LoopEnds
  BY <1>1, <1>5, <1>9 DEF LoopEnds, AvahiGoto, avahi_pointer
<1>10. CASE LocalCollision \/ GiveUp \/ ClientRunning \/ GroupEstablished
  BY <1>1, <1>5, <1>10 DEF LocalCollision, GiveUp, ClientRunning, GroupEstablished,
     AvahiGoto, avahi_pointer
<1>11. CASE AddEntry \/ GroupCollision
  <2>1. UNCHANGED <<avahi_pointer, quit>> /\ avahi_pc' \in {"loop", "create"}
    BY <1>4, <1>11 DEF AddEntry, GroupCollision, AvahiGoto
  <2>2. QED
    BY <1>1, <1>5, <2>1 DEF avahi_pointer
<1>12. ~Forget /\ ~NoGroup /\ ~ClientRegistering /\ ~DaemonFails
  BY <1>4, <1>5 DEF Forget, NoGroup, ClientRegistering, DaemonFails, AvahiGoto
<1>13. QED
  BY <1>6, <1>7, <1>8, <1>9, <1>10, <1>11, <1>12 DEF AvahiStep, AvahiThread, DaemonAnswers
-----------------------------------------------------------------------------
(* Types.                                                                  *)

Places == {"none", "test_grpc", "grpc", "drain", "avahi", "quit_avahi", "flags", "done"}

LEMMA GotoTypes ==
  ASSUME TypeOK, NEW i \in Initiators, NEW from, NEW to \in Places, InitGoto(i, from, to)
  PROVE  /\ at' \in [Initiators -> Places] /\ on' \in [Signals -> Threads]
         /\ at[i] = from /\ at'[i] = to /\ \A j \in Initiators \ {i} : at'[j] = at[j]
         /\ undefined = "none"
         /\ UNCHANGED <<ended, stdin_vars, ipc_vars>>
<1>1. at \in [Initiators -> Places] /\ on \in [Signals -> Threads] /\ "main" \in Threads
  BY DEF TypeOK, Places, Threads
<1>2. at' = [at EXCEPT ![i] = to]
      /\ on' = [s \in Signals |-> IF s = i /\ to = "done" THEN "main" ELSE on[s]]
      /\ at[i] = from /\ undefined = "none" /\ UNCHANGED <<ended, stdin_vars, ipc_vars>>
  BY DEF InitGoto
<1>3. QED
  BY <1>1, <1>2

\* Every step of init_shutdown is from one place to another.
LEMMA InitGoes ==
  ASSUME NEW i \in Initiators, InitShutdown(i)
  PROVE  \E from \in Places, to \in Places : InitGoto(i, from, to)
<1>1. CASE TestGrpc(i)
  BY <1>1 DEF TestGrpc, Places
<1>2. CASE ShutdownOnNothing(i)
  BY <1>2 DEF ShutdownOnNothing, Places
<1>3. CASE ShutdownGrpc(i)
  BY <1>3 DEF ShutdownGrpc, Places
<1>4. CASE Drained(i)
  BY <1>4 DEF Drained, Places
<1>5. CASE ShutdownAvahi(i)
  BY <1>5 DEF ShutdownAvahi, Places
<1>6. CASE QuitAvahi(i)
  BY <1>6 DEF QuitAvahi, Places
<1>7. CASE ClearFlags(i)
  BY <1>7 DEF ClearFlags, Places
<1>8. QED
  BY <1>1, <1>2, <1>3, <1>4, <1>5, <1>6, <1>7 DEF InitShutdown

LEMMA InitTypes ==
  ASSUME TypeOK, NEW i \in Initiators, InitShutdown(i)
  PROVE  TypeOK'
<1>1. /\ at' \in [Initiators -> Places] /\ on' \in [Signals -> Threads]
      /\ UNCHANGED <<ended, stdin_vars, ipc_vars>>
  BY InitGoes, GotoTypes
<1>2. 0 \in Objects /\ m_avahi_service \in Objects /\ saw \in [Initiators -> Objects]
  BY Constants DEF TypeOK, AvahiTypeOK
<1>3. AvahiTypeOK'
  <2>1. CASE UNCHANGED avahi_vars
    BY <2>1 DEF TypeOK, AvahiTypeOK, avahi_vars, avahi_pointer, avahi_object
  <2>2. CASE ShutdownOnNothing(i)
    BY <2>2 DEF TypeOK, ShutdownOnNothing, AvahiTypeOK, avahi_pointer, avahi_object
  <2>3. CASE ShutdownAvahi(i)
    BY <2>3 DEF TypeOK, ShutdownAvahi, StoreShutdown, AvahiTypeOK, avahi_pointer, avahi_object
  <2>4. CASE QuitAvahi(i)
    <3>1. /\ UNCHANGED <<m_shutdown, avahi_pointer, avahi_pc, avahi_object, failures>>
      BY <2>4 DEF QuitAvahi, QuitPoll
    <3>2. quit' \in BOOLEAN /\ undefined' \in {"none", "avahi", "group", "grpc"}
      BY <2>4 DEF QuitAvahi, QuitPoll, TypeOK, AvahiTypeOK
    <3>3. QED
      BY <3>1, <3>2 DEF TypeOK, AvahiTypeOK, avahi_pointer, avahi_object
  <2>5. QED
    BY <2>1, <2>2, <2>3, <2>4
       DEF InitShutdown, TestGrpc, ShutdownGrpc, Drained, ClearFlags
<1>4. saw' \in [Initiators -> Objects]
  BY <1>2 DEF InitShutdown, TestGrpc, ShutdownOnNothing, ShutdownGrpc, Drained, ShutdownAvahi,
     QuitAvahi, ClearFlags
<1>5. UNCHANGED <<m_grpc_server, calls>>
      /\ grpc_state' \in {"serving", "shutdown", "drained", "deleted"}
  BY DEF TypeOK, InitShutdown, TestGrpc, ShutdownOnNothing, ShutdownGrpc, Drained,
     ShutdownAvahi, QuitAvahi, ClearFlags, grpc_vars
<1>6. m_read_stdin' \in BOOLEAN /\ ipc_shutdown' \in BOOLEAN
  BY DEF TypeOK, InitShutdown, TestGrpc, ShutdownOnNothing, ShutdownGrpc, Drained,
     ShutdownAvahi, QuitAvahi, ClearFlags
<1>7. QED
  BY <1>1, <1>3, <1>4, <1>5, <1>6 DEF TypeOK, Places, stdin_vars, ipc_vars

LEMMA SigintTypes ==
  ASSUME TypeOK, NEW s \in Signals, Sigint(s)
  PROVE  /\ TypeOK' /\ at[s] = "none" /\ at' = [at EXCEPT ![s] = "test_grpc"]
         /\ s \in Initiators
         /\ UNCHANGED <<avahi_vars, saw, grpc_vars, stdin_vars>>
<1>1. PICK t \in Threads : on' = [on EXCEPT ![s] = t]
  BY DEF Sigint
<1>2. /\ at' = [at EXCEPT ![s] = "test_grpc"]
      /\ UNCHANGED <<avahi_vars, saw, grpc_vars, m_read_stdin, ended, stdin_vars,
                     ipc_shutdown, ipc_vars>>
      /\ at[s] = "none"
  BY DEF Sigint
<1>3. s \in Initiators
  BY Constants
<1>4. at' \in [Initiators -> Places] /\ on' \in [Signals -> Threads]
  BY <1>1, <1>2, <1>3 DEF TypeOK, Places
<1>5. AvahiTypeOK'
  BY <1>2 DEF TypeOK, AvahiTypeOK, avahi_vars, avahi_pointer, avahi_object
<1>6. QED
  BY <1>2, <1>3, <1>4, <1>5 DEF TypeOK, Places, grpc_vars, stdin_vars, ipc_vars

\* Standard input: its worker gives the command, once, on a line "stop".
LEMMA StdinTypes ==
  ASSUME TypeOK, StdinWorker \/ TypeLine \/ WritePart \/ CloseStdin
  PROVE  /\ TypeOK'
         /\ \/ UNCHANGED at /\ (stdin_pc = "init_shutdown" => stdin_pc' = "init_shutdown")
            \/ /\ at' = [at EXCEPT ![0] = "test_grpc"]
               /\ stdin_pc = "getline" /\ stdin_pc' = "init_shutdown"
         /\ UNCHANGED <<avahi_vars, saw, grpc_vars>>
<1> DEFINE Lines == Seq({"stop", "other"})
<1>1. typed \in Lines /\ buffered \in Lines /\ 0 \in Initiators
  BY Constants DEF TypeOK
<1>2. Available \in Lines /\ Unread \in Lines
  <2>1. typed # <<>> => Head(typed) \in {"stop", "other"} /\ Tail(typed) \in Lines
    BY <1>1
  <2>2. typed # <<>> => <<Head(typed)>> \in Lines
    BY <2>1
  <2>3. <<>> \in Lines
    OBVIOUS
  <2>4. QED
    BY <1>1, <2>1, <2>2, <2>3 DEF Available, Unread
<1>3. Available # <<>> => Tail(Available) \in Lines
  BY <1>2
<1>4. UNCHANGED <<avahi_vars, saw, grpc_vars, on, m_read_stdin, ipc_shutdown, ipc_vars>>
  BY DEF StdinWorker, TestReadStdin, Poll, GetLine, GetLineFails, StdinReturns, StdinStep,
     TypeLine, WritePart, CloseStdin, init_vars
<1>5. \/ UNCHANGED at /\ (stdin_pc = "init_shutdown" => stdin_pc' = "init_shutdown")
      \/ /\ at' = [at EXCEPT ![0] = "test_grpc"]
         /\ stdin_pc = "getline" /\ stdin_pc' = "init_shutdown"
  BY DEF StdinWorker, TestReadStdin, Poll, GetLine, GetLineFails, StdinReturns, StdinStep,
     TypeLine, WritePart, CloseStdin, init_vars, stdin_vars
<1>6. at' \in [Initiators -> Places]
  BY <1>1, <1>5 DEF TypeOK, Places
<1>7. AvahiTypeOK'
  BY <1>4 DEF TypeOK, AvahiTypeOK, avahi_vars, avahi_pointer, avahi_object
<1>8. ended' \subseteq Threads /\ stdin_pc' \in {"test", "poll", "getline", "init_shutdown"}
      /\ partial' \in BOOLEAN /\ eof' \in BOOLEAN
  BY DEF StdinWorker, TestReadStdin, Poll, GetLine, GetLineFails, StdinReturns,
     TypeLine, WritePart, CloseStdin, stdin_vars, TypeOK, Threads
<1>9. typed' \in Lines
  <2>1. \A l \in {"stop", "other"} : Append(typed, l) \in Lines
    BY <1>1
  <2>2. QED
    BY <1>1, <1>2, <2>1 DEF StdinWorker, TestReadStdin, Poll, GetLine, GetLineFails, StdinReturns,
       TypeLine, WritePart, CloseStdin, stdin_vars
<1>10. buffered' \in Lines
  BY <1>1, <1>3 DEF StdinWorker, TestReadStdin, Poll, GetLine, GetLineFails, StdinReturns,
     TypeLine, WritePart, CloseStdin, stdin_vars
<1>11. inputs' \in 0..MaxInputs
  <2>1. Gives => inputs' \in 0..MaxInputs
    BY Constants DEF Gives, TypeOK
  <2>2. CASE TypeLine \/ WritePart \/ CloseStdin
    BY <2>1, <2>2 DEF TypeLine, WritePart, CloseStdin
  <2>3. CASE StdinWorker
    BY <2>3 DEF StdinWorker, TestReadStdin, Poll, GetLine, GetLineFails, StdinReturns,
       stdin_vars, TypeOK
  <2>4. QED
    BY <2>2, <2>3
<1>12. QED
  BY <1>4, <1>5, <1>6, <1>7, <1>8, <1>9, <1>10, <1>11 DEF TypeOK, Places, grpc_vars, ipc_vars

LEMMA GrpcTypes ==
  ASSUME TypeOK, ResetServer \/ DeleteServer \/ CallBegins \/ CallEnds \/ MainReturns \/ AvahiReturns
  PROVE  TypeOK' /\ UNCHANGED <<avahi_vars, init_vars, stdin_vars>>
<1>1. UNCHANGED <<avahi_vars, init_vars, m_read_stdin, stdin_vars, ipc_shutdown, ipc_vars>>
  BY DEF ResetServer, DeleteServer, CallBegins, CallEnds, MainReturns, AvahiReturns, OtherStep
<1>2. calls' \in 0..MaxCalls
  <2>1. calls \in 0..MaxCalls /\ MaxCalls \in Nat
    BY Constants DEF TypeOK
  <2>2. CASE CallBegins
    BY <2>1, <2>2 DEF CallBegins
  <2>3. CASE CallEnds
    <3>1. calls > 0 /\ calls' = calls - 1
      BY <2>1, <2>3 DEF CallEnds
    <3>2. QED
      BY <2>1, <3>1
  <2>4. CASE ResetServer \/ DeleteServer \/ MainReturns \/ AvahiReturns
    BY <2>1, <2>4 DEF ResetServer, DeleteServer, MainReturns, AvahiReturns, grpc_vars
  <2>5. QED
    BY <2>2, <2>3, <2>4
<1>3. m_grpc_server' \in BOOLEAN /\ ended' \subseteq Threads
      /\ grpc_state' \in {"serving", "shutdown", "drained", "deleted"}
  BY DEF ResetServer, DeleteServer, CallBegins, CallEnds, MainReturns, AvahiReturns, grpc_vars,
     TypeOK, Threads
<1>4. AvahiTypeOK'
  BY <1>1 DEF TypeOK, AvahiTypeOK, avahi_vars, avahi_pointer, avahi_object
<1>5. QED
  BY <1>1, <1>2, <1>3, <1>4 DEF TypeOK, init_vars, stdin_vars, ipc_vars

LEMMA IpcTypes ==
  ASSUME TypeOK, IpcWorker \/ \E c \in Ctls : Connect(c) \/ CtlCloses(c)
  PROVE  TypeOK' /\ UNCHANGED <<avahi_vars, init_vars, grpc_vars, stdin_vars>>
<1>1. UNCHANGED <<avahi_vars, init_vars, grpc_vars, m_read_stdin, stdin_vars, ipc_shutdown>>
  BY DEF IpcWorker, Bind, Accept, Answer, Close, IpcReturns, IpcStep, Connect, CtlCloses, CtlStep
<1>2. ended' \subseteq Threads /\ ipc_pc' \in {"bind", "loop", "serving"}
      /\ served' \in Ctls \cup {NoOne}
  BY DEF IpcWorker, Bind, Accept, Answer, Close, IpcReturns, IpcStep, Connect, CtlCloses, CtlStep,
     TypeOK, Threads
<1>3. ctl' \in [Ctls -> {"start", "sent", "answered", "ended"}]
  <2>1. ctl \in [Ctls -> {"start", "sent", "answered", "ended"}]
    BY DEF TypeOK
  <2>2. CASE UNCHANGED ctl
    BY <2>1, <2>2
  <2>3. CASE Answer
    BY <2>1, <2>3 DEF Answer
  <2>4. CASE IpcReturns
    BY <2>1, <2>4 DEF IpcReturns
  <2>5. ASSUME NEW c \in Ctls, Connect(c) \/ CtlCloses(c)
        PROVE  ctl' \in [Ctls -> {"start", "sent", "answered", "ended"}]
    BY <2>1, <2>5 DEF Connect, CtlCloses
  <2>6. QED
    BY <2>2, <2>3, <2>4, <2>5 DEF IpcWorker, Bind, Accept, Close
<1>4. AvahiTypeOK'
  BY <1>1 DEF TypeOK, AvahiTypeOK, avahi_vars, avahi_pointer, avahi_object
<1>5. QED
  BY <1>1, <1>2, <1>3, <1>4 DEF TypeOK, init_vars, grpc_vars, stdin_vars
\* What an initiator that goes on does to the registration: it tells the loop,
\* and calls the object that it saw.
LEMMA InitAvahi ==
  ASSUME TypeOK, NEW i \in Initiators, InitShutdown(i)
  PROVE  /\ UNCHANGED <<avahi_pointer, avahi_pc, avahi_object, failures>>
         /\ \/ UNCHANGED <<m_shutdown, quit, saw>> /\ at'[i] # "quit_avahi"
               /\ undefined' \in {undefined, "grpc"}
            \/ ShutdownAvahi(i) \/ QuitAvahi(i)
         /\ undefined' = "grpc" => ShutdownOnNothing(i)
<1>1. \A from \in Places, to \in Places : InitGoto(i, from, to) => at'[i] = to /\ undefined = "none"
  BY GotoTypes
<1>2. CASE TestGrpc(i) \/ ShutdownGrpc(i) \/ Drained(i) \/ ClearFlags(i)
  <2>1. UNCHANGED <<avahi_vars, saw>>
    BY <1>2 DEF TestGrpc, ShutdownGrpc, Drained, ClearFlags
  <2>2. at'[i] # "quit_avahi" /\ undefined = "none"
    BY <1>1, <1>2 DEF TestGrpc, ShutdownGrpc, Drained, ClearFlags, Places
  <2>3. QED
    BY <2>1, <2>2 DEF avahi_vars
<1>3. CASE ShutdownOnNothing(i)
  <2>1. at'[i] = "grpc"
    BY <1>1, <1>3 DEF ShutdownOnNothing, Places
  <2>2. QED
    BY <1>3, <2>1 DEF ShutdownOnNothing, avahi_object, avahi_pointer
<1>4. CASE ShutdownAvahi(i)
  <2>1. undefined = "none"
    BY <1>1, <1>4 DEF ShutdownAvahi, Places
  <2>2. QED
    BY <1>4, <2>1 DEF ShutdownAvahi, StoreShutdown
<1>5. CASE QuitAvahi(i)
  <2>1. undefined = "none"
    BY <1>1, <1>5 DEF QuitAvahi, Places
  <2>2. QED
    BY <1>5, <2>1 DEF QuitAvahi, QuitPoll
<1>6. QED
  BY <1>2, <1>3, <1>4, <1>5 DEF InitShutdown

-----------------------------------------------------------------------------
(* The steps together.                                                     *)

\* A step is of one part of the server.
Part ==
  \/ \E i \in Initiators : InitShutdown(i)
  \/ \E s \in Signals : Sigint(s)
  \/ StdinWorker \/ TypeLine \/ WritePart \/ CloseStdin
  \/ ResetServer \/ DeleteServer \/ CallBegins \/ CallEnds \/ MainReturns \/ AvahiReturns
  \/ AvahiStep /\ AvahiRuns
  \/ IpcWorker \/ \E c \in Ctls : Connect(c) \/ CtlCloses(c)
  \/ UNCHANGED vars

LEMMA Parts == [Next]_vars => Part
  BY DEF Next, Part

LEMMA RunsKeeps ==
  ASSUME AvahiRuns
  PROVE  UNCHANGED <<init_vars, m_read_stdin, stdin_vars, ipc_shutdown, ipc_vars, grpc_vars, ended>>
  BY DEF AvahiRuns, OtherStep

LEMMA TypeStep ==
  ASSUME TypeOK, ObjectsOfFailures, Part
  PROVE  TypeOK'
<1>1. CASE AvahiStep /\ AvahiRuns
  <2>1. AvahiTypeOK'
    BY <1>1, AvahiTypes DEF TypeOK
  <2>2. QED
    BY <1>1, <2>1, RunsKeeps DEF TypeOK, init_vars, stdin_vars, ipc_vars, grpc_vars
<1>2. CASE UNCHANGED vars
  <2>1. AvahiTypeOK'
    BY <1>2 DEF TypeOK, AvahiTypeOK, vars, avahi_vars, avahi_pointer, avahi_object
  <2>2. QED
    BY <1>2, <2>1 DEF TypeOK, vars, init_vars, stdin_vars, ipc_vars, grpc_vars
<1>3. QED
  BY <1>1, <1>2, InitTypes, SigintTypes, StdinTypes, GrpcTypes, IpcTypes DEF Part

LEMMA ObjectsStep ==
  ASSUME TypeOK, ObjectsOfFailures, OneObject, Part
  PROVE  ObjectsOfFailures'
<1>1. CASE AvahiStep
  BY <1>1, AvahiObjects DEF TypeOK
<1>2. ASSUME NEW i \in Initiators, InitShutdown(i)
      PROVE  ObjectsOfFailures'
  <2>1. UNCHANGED <<made, failures, avahi_pc>>
    BY <1>2, InitAvahi DEF avahi_pointer
  <2>2. UNCHANGED <<m_shutdown, quit>> \/ m_shutdown'
    <3>1. CASE ShutdownAvahi(i)
      BY <3>1 DEF ShutdownAvahi, StoreShutdown
    <3>2. CASE QuitAvahi(i)
      <4>1. at[i] = "quit_avahi" /\ UNCHANGED m_shutdown
        BY <3>2 DEF QuitAvahi, QuitPoll, InitGoto
      <4>2. QED
        BY <4>1 DEF OneObject
    <3>3. QED
      BY <1>2, <3>1, <3>2, InitAvahi
  <2>3. QED
    BY <2>1, <2>2 DEF ObjectsOfFailures
<1>3. CASE UNCHANGED avahi_vars
  BY <1>3 DEF ObjectsOfFailures, avahi_vars, avahi_pointer
<1>4. QED
  BY <1>1, <1>2, <1>3, SigintTypes, StdinTypes, GrpcTypes, IpcTypes DEF Part, vars
LEMMA OneObjectStep ==
  ASSUME TypeOK, OneObject, Part
  PROVE  OneObject'
<1>0. at \in [Initiators -> Places] /\ saw \in [Initiators -> Objects]
  BY DEF TypeOK, Places
<1>1. CASE AvahiStep /\ AvahiRuns
  BY <1>1, AvahiOneObject, RunsKeeps DEF TypeOK
<1>2. ASSUME NEW i \in Initiators, InitShutdown(i)
      PROVE  OneObject'
  <2>1. /\ UNCHANGED <<avahi_pointer, avahi_pc, failures>>
        /\ \A j \in Initiators \ {i} : at'[j] = at[j]
        /\ i \in Initiators
    BY <1>2, InitAvahi, InitGoes, GotoTypes
  <2>2. CASE UNCHANGED <<m_shutdown, quit, saw>> /\ at'[i] # "quit_avahi"
    <3>1. \A j \in Initiators : at'[j] = "quit_avahi" => at[j] = "quit_avahi"
      BY <2>1, <2>2
    <3>2. QED
      BY <2>1, <2>2, <3>1 DEF OneObject, avahi_pointer
  <2>3. CASE ShutdownAvahi(i)
    <3>1. /\ m_shutdown' = TRUE /\ UNCHANGED quit
          /\ saw' = [saw EXCEPT ![i] = m_avahi_service]
          /\ at' = [at EXCEPT ![i] = IF m_avahi_service = 0 THEN "flags" ELSE "quit_avahi"]
      BY <2>3 DEF ShutdownAvahi, StoreShutdown, InitGoto
    <3>2. \A j \in Initiators : at'[j] = "quit_avahi" =>
            \/ j = i /\ saw'[j] = m_avahi_service /\ m_avahi_service # 0
            \/ j # i /\ at[j] = "quit_avahi" /\ saw'[j] = saw[j]
      BY <1>0, <3>1
    <3>3. QED
      BY <2>1, <3>1, <3>2 DEF OneObject, avahi_pointer
  <2>4. CASE QuitAvahi(i)
    <3>1. /\ UNCHANGED m_shutdown /\ saw' = [saw EXCEPT ![i] = 0]
          /\ at[i] = "quit_avahi" /\ at' = [at EXCEPT ![i] = "flags"]
      BY <2>4 DEF QuitAvahi, QuitPoll, InitGoto
    <3>2. m_shutdown
      BY <3>1 DEF OneObject
    <3>3. \A j \in Initiators : at'[j] = "quit_avahi" => at[j] = "quit_avahi" /\ saw'[j] = saw[j]
      BY <1>0, <3>1
    <3>4. QED
      BY <2>1, <3>1, <3>2, <3>3 DEF OneObject, avahi_pointer
  <2>5. QED
    BY <1>2, <2>2, <2>3, <2>4, InitAvahi
<1>3. ASSUME UNCHANGED <<avahi_vars, saw>>,
             \A j \in Initiators : at'[j] = "quit_avahi" => at[j] = "quit_avahi"
      PROVE  OneObject'
  BY <1>3 DEF OneObject, avahi_vars, avahi_pointer
<1>4. ASSUME NEW s \in Signals, Sigint(s)
      PROVE  OneObject'
  BY <1>0, <1>3, <1>4, SigintTypes
<1>5. CASE StdinWorker \/ TypeLine \/ WritePart \/ CloseStdin
  <2>1. 0 \in Initiators
    BY Constants
  <2>2. \A j \in Initiators : at'[j] = "quit_avahi" => at[j] = "quit_avahi"
    BY <1>0, <1>5, <2>1, StdinTypes
  <2>3. QED
    BY <1>3, <1>5, <2>2, StdinTypes
<1>6. CASE UNCHANGED <<avahi_vars, init_vars>>
  BY <1>3, <1>6 DEF init_vars
<1>7. QED
  BY <1>1, <1>2, <1>4, <1>5, <1>6, GrpcTypes, IpcTypes DEF Part, vars

\* Nobody takes a call of the gRPC server back.
LEMMA StoppedStep ==
  ASSUME TypeOK, ServerStopped, Part
  PROVE  ServerStopped'
<1>0. at \in [Initiators -> Places] /\ 0 \in Initiators /\ 0 \notin Signals
  BY Constants DEF TypeOK, Places
<1>1. ASSUME UNCHANGED <<m_grpc_server, grpc_state>>, at'[0] # "none" => stdin_pc' = "init_shutdown",
             \A i \in Initiators : at[i] \in Called => at'[i] \in Called
      PROVE  ServerStopped'
  BY <1>1 DEF ServerStopped
<1>2. CASE UNCHANGED <<init_vars, m_grpc_server, grpc_state, stdin_vars>>
  <2>1. UNCHANGED <<at, stdin_pc>>
    BY <1>2 DEF init_vars, stdin_vars
  <2>2. QED
    BY <1>1, <1>2, <2>1 DEF ServerStopped
<1>3. CASE StdinWorker \/ TypeLine \/ WritePart \/ CloseStdin
  <2>1. UNCHANGED <<m_grpc_server, grpc_state>>
    BY <1>3, StdinTypes DEF grpc_vars
  <2>2. CASE UNCHANGED at /\ (stdin_pc = "init_shutdown" => stdin_pc' = "init_shutdown")
    BY <1>1, <2>1, <2>2 DEF ServerStopped
  <2>3. CASE at' = [at EXCEPT ![0] = "test_grpc"] /\ stdin_pc = "getline"
             /\ stdin_pc' = "init_shutdown"
    <3>1. at[0] = "none"
      BY <2>3 DEF ServerStopped
    <3>2. \A i \in Initiators : at[i] \in Called => at'[i] \in Called
      BY <1>0, <2>3, <3>1 DEF Called
    <3>3. QED
      BY <1>1, <2>1, <2>3, <3>2
  <2>4. QED
    BY <1>3, <2>2, <2>3, StdinTypes
<1>4. ASSUME NEW s \in Signals, Sigint(s)
      PROVE  ServerStopped'
  <2>1. /\ at[s] = "none" /\ at' = [at EXCEPT ![s] = "test_grpc"] /\ s \in Initiators /\ s # 0
        /\ UNCHANGED <<m_grpc_server, grpc_state, stdin_pc>>
    BY <1>0, <1>4, SigintTypes DEF grpc_vars, stdin_vars
  <2>2. at'[0] = at[0] /\ \A i \in Initiators : at[i] \in Called => at'[i] \in Called
    BY <1>0, <2>1 DEF Called
  <2>3. QED
    BY <1>1, <2>1, <2>2 DEF ServerStopped
<1>5. ASSUME NEW i \in Initiators, InitShutdown(i)
      PROVE  ServerStopped'
  <2>1. /\ \A j \in Initiators \ {i} : at'[j] = at[j]
        /\ UNCHANGED <<stdin_pc, m_grpc_server>>
        /\ at[i] # "none"
    <3>1. at[i] # "none"
      BY <1>5 DEF InitShutdown, TestGrpc, ShutdownOnNothing, ShutdownGrpc, Drained, ShutdownAvahi,
         QuitAvahi, ClearFlags, InitGoto
    <3>2. UNCHANGED m_grpc_server
      BY <1>5 DEF InitShutdown, TestGrpc, ShutdownOnNothing, ShutdownGrpc, Drained, ShutdownAvahi,
         QuitAvahi, ClearFlags, grpc_vars
    <3>3. QED
      BY <1>5, <3>1, <3>2, InitGoes, GotoTypes DEF stdin_vars
  <2>2. \/ UNCHANGED grpc_state /\ (at[i] \in Called => at'[i] \in Called)
        \/ /\ grpc_state = "serving" /\ grpc_state' = "shutdown" /\ at'[i] = "drain"
           /\ m_grpc_server'
        \/ grpc_state' = "drained" /\ at'[i] \in Called
    <3>1. CASE TestGrpc(i) \/ ShutdownOnNothing(i)
      BY <3>1 DEF TestGrpc, ShutdownOnNothing, InitGoto, Called, grpc_vars
    <3>2. CASE ShutdownGrpc(i)
      <4>1. at[i] = "grpc" /\ UNCHANGED m_grpc_server
            /\ at' = [at EXCEPT ![i] = IF grpc_state = "serving" THEN "drain" ELSE "avahi"]
            /\ grpc_state' = (IF grpc_state = "serving" THEN "shutdown" ELSE grpc_state)
        BY <3>2 DEF ShutdownGrpc, InitGoto
      <4>2. grpc_state = "serving" => m_grpc_server \in BOOLEAN /\ m_grpc_server
        BY DEF ServerStopped, TypeOK
      <4>3. QED
        BY <1>0, <4>1, <4>2 DEF Called
    <3>3. CASE Drained(i)
      <4>1. at' = [at EXCEPT ![i] = "avahi"] /\ grpc_state' = "drained"
        BY <3>3 DEF Drained, InitGoto
      <4>2. QED
        BY <1>0, <4>1 DEF Called
    <3>4. CASE ShutdownAvahi(i) \/ QuitAvahi(i) \/ ClearFlags(i)
      <4>1. at'[i] \in Called
        BY <1>0, <3>4 DEF ShutdownAvahi, QuitAvahi, ClearFlags, InitGoto, Called
      <4>2. UNCHANGED grpc_state
        BY <3>4 DEF ShutdownAvahi, QuitAvahi, ClearFlags, grpc_vars
      <4>3. QED
        BY <4>1, <4>2
    <3>5. QED
      BY <1>5, <3>1, <3>2, <3>3, <3>4 DEF InitShutdown
  <2>3. at'[0] # "none" => stdin_pc' = "init_shutdown"
    BY <1>0, <2>1 DEF ServerStopped
  <2>4. CASE UNCHANGED grpc_state /\ (at[i] \in Called => at'[i] \in Called)
    BY <1>1, <2>1, <2>3, <2>4
  <2>5. CASE grpc_state' = "shutdown" /\ at'[i] = "drain" /\ m_grpc_server'
    BY <2>3, <2>5 DEF ServerStopped, Called
  <2>6. CASE grpc_state' = "drained" /\ at'[i] \in Called
    BY <2>3, <2>6 DEF ServerStopped
  <2>7. QED
    BY <2>2, <2>4, <2>5, <2>6
<1>6. CASE ResetServer \/ DeleteServer
  <2>1. UNCHANGED <<at, stdin_pc>>
    BY <1>6 DEF ResetServer, DeleteServer, OtherStep, init_vars, stdin_vars
  <2>2. \/ grpc_state = "drained" /\ UNCHANGED grpc_state
        \/ ~m_grpc_server /\ grpc_state' = "deleted"
    BY <1>6 DEF ResetServer, DeleteServer
  <2>3. grpc_state # "serving" /\ grpc_state' \in {"drained", "deleted"}
    BY <2>2 DEF ServerStopped
  <2>4. QED
    BY <2>1, <2>3 DEF ServerStopped
<1>7. CASE CallBegins \/ CallEnds \/ MainReturns \/ AvahiReturns
  BY <1>2, <1>7 DEF CallBegins, CallEnds, MainReturns, AvahiReturns, OtherStep, grpc_vars
<1>8. CASE AvahiStep /\ AvahiRuns
  BY <1>2, <1>8, RunsKeeps DEF grpc_vars
<1>9. CASE UNCHANGED vars
  BY <1>2, <1>9 DEF vars, grpc_vars
<1>10. CASE IpcWorker \/ \E c \in Ctls : Connect(c) \/ CtlCloses(c)
  BY <1>2, <1>10, IpcTypes DEF grpc_vars
<1>11. QED
  BY <1>3, <1>4, <1>5, <1>6, <1>7, <1>8, <1>9, <1>10 DEF Part

\* A misuse comes of a failure or of a second shutdown.
LEMMA MisuseStep ==
  ASSUME TypeOK, OneObject, ServerStopped, MisuseHasCause, Part
  PROVE  MisuseHasCause'
<1> DEFINE Gone == {i \in Initiators : at[i] # "none"}
<1>0. /\ at \in [Initiators -> Places] /\ failures \in Nat /\ 0 \in Initiators
      /\ IsFiniteSet(Initiators) /\ undefined \in {"none", "avahi", "group", "grpc"}
  BY Constants DEF TypeOK, AvahiTypeOK, Places
<1>1. ASSUME \A i \in Initiators : at[i] # "none" => at'[i] # "none",
             undefined' = undefined \/ (undefined' \in {"avahi", "group"} /\ failures' > 0),
             failures' \in Nat, failures' >= failures
      PROVE  MisuseHasCause'
  <2>1. undefined' \in {"avahi", "group"} => failures' > 0
    BY <1>0, <1>1 DEF MisuseHasCause
  <2>2. CASE undefined' = "grpc"
    <3>1. Cardinality(Gone) > 1
      BY <1>1, <2>2 DEF MisuseHasCause
    <3>2. Gone \subseteq Gone' /\ Gone' \subseteq Initiators
      BY <1>1
    <3>3. IsFiniteSet(Gone') /\ Cardinality(Gone) <= Cardinality(Gone')
          /\ Cardinality(Gone) \in Nat /\ Cardinality(Gone') \in Nat
      <4>1. IsFiniteSet(Gone')
        BY <1>0, <3>2, FS_Subset
      <4>2. IsFiniteSet(Gone) /\ Cardinality(Gone) <= Cardinality(Gone')
        BY <3>2, <4>1, FS_Subset
      <4>3. QED
        BY <4>1, <4>2, FS_CardinalityType
    <3>4. Cardinality(Gone') > 1
      BY <3>1, <3>3
    <3>5. QED
      BY <2>1, <3>4 DEF MisuseHasCause
  <2>3. QED
    BY <2>1, <2>2 DEF MisuseHasCause
<1>2. CASE AvahiStep /\ AvahiRuns
  <2>1. /\ failures' \in Nat /\ failures' >= failures
        /\ undefined' = undefined \/ (undefined' = "group" /\ failures' > 0)
    BY <1>2, AvahiKeeps DEF TypeOK
  <2>2. UNCHANGED at
    BY <1>2, RunsKeeps DEF init_vars
  <2>3. QED
    BY <1>1, <2>1, <2>2
<1>3. ASSUME NEW i \in Initiators, InitShutdown(i)
      PROVE  MisuseHasCause'
  <2>1. UNCHANGED failures /\ \A j \in Initiators : at[j] # "none" => at'[j] # "none"
    <3>1. \E to \in Places \ {"none"} : at' = [at EXCEPT ![i] = to]
      BY <1>3 DEF InitShutdown, TestGrpc, ShutdownOnNothing, ShutdownGrpc, Drained, ShutdownAvahi,
         QuitAvahi, ClearFlags, InitGoto, Places
    <3>2. QED
      BY <1>0, <1>3, <3>1, InitAvahi
  <2>2. CASE ShutdownOnNothing(i)
    <3>1. /\ undefined' = "grpc" /\ at[i] = "grpc" /\ at' = [at EXCEPT ![i] = "grpc"]
          /\ ~m_grpc_server \/ grpc_state = "deleted"
      BY <2>2 DEF ShutdownOnNothing, InitGoto
    <3>2. PICK j \in Initiators : at[j] \in Called
      BY <3>1 DEF ServerStopped
    <3>3. i # j /\ at[j] # "none" /\ at[i] # "none"
      BY <3>1, <3>2 DEF Called
    <3>4. {i, j} \subseteq Gone' /\ Gone' \subseteq Initiators
      BY <2>1, <3>3
    <3>5. IsFiniteSet(Gone')
      BY <1>0, <3>4, FS_Subset
    <3>6. Cardinality({i, j}) = 2
      <4>1. IsFiniteSet({i}) /\ Cardinality({i}) = 1 /\ j \notin {i} /\ {i} \cup {j} = {i, j}
        BY <3>3, FS_Singleton
      <4>2. QED
        BY <4>1, FS_AddElement
    <3>7. Cardinality({i, j}) <= Cardinality(Gone') /\ Cardinality(Gone') \in Nat
      BY <3>4, <3>5, FS_Subset, FS_CardinalityType
    <3>8. Cardinality(Gone') > 1
      BY <3>6, <3>7
    <3>9. QED
      BY <3>1, <3>8 DEF MisuseHasCause
  <2>3. CASE QuitAvahi(i)
    <3>1. /\ at[i] = "quit_avahi" /\ undefined' \in {undefined, "avahi"}
          /\ \E p \in {saw[i], m_avahi_service} :
               undefined' # undefined => ~(p # 0 /\ p = alive)
      BY <2>3 DEF QuitAvahi, QuitPoll, InitGoto
    <3>2. failures = 0 => saw[i] = alive /\ m_avahi_service = alive /\ alive # 0
      BY <3>1 DEF OneObject
    <3>3. undefined' = undefined \/ (undefined' = "avahi" /\ failures > 0)
      BY <1>0, <3>1, <3>2
    <3>4. QED
      BY <1>0, <1>1, <2>1, <3>3
  <2>4. CASE ~ShutdownOnNothing(i) /\ ~QuitAvahi(i)
    <3>1. undefined' = undefined
      <4>1. CASE ShutdownAvahi(i)
        BY <4>1 DEF ShutdownAvahi, StoreShutdown
      <4>2. QED
        BY <1>3, <2>4, <4>1, InitAvahi
    <3>2. QED
      BY <1>0, <1>1, <2>1, <3>1
  <2>5. QED
    BY <2>2, <2>3, <2>4
<1>4. ASSUME NEW s \in Signals, Sigint(s)
      PROVE  MisuseHasCause'
  <2>1. UNCHANGED <<failures, undefined>> /\ at' = [at EXCEPT ![s] = "test_grpc"]
    BY <1>4, SigintTypes DEF avahi_vars
  <2>2. QED
    BY <1>0, <1>1, <2>1
<1>5. CASE StdinWorker \/ TypeLine \/ WritePart \/ CloseStdin
  <2>1. UNCHANGED <<failures, undefined>>
        /\ (UNCHANGED at \/ at' = [at EXCEPT ![0] = "test_grpc"])
    BY <1>5, StdinTypes DEF avahi_vars
  <2>2. QED
    BY <1>0, <1>1, <2>1
<1>6. CASE UNCHANGED <<avahi_vars, init_vars>>
  <2>1. UNCHANGED <<failures, undefined, at>>
    BY <1>6 DEF avahi_vars, init_vars
  <2>2. QED
    BY <1>0, <1>1, <2>1
<1>7. QED
  BY <1>2, <1>3, <1>4, <1>5, <1>6, GrpcTypes, IpcTypes DEF Part, vars
-----------------------------------------------------------------------------
LEMMA InvInit == Init => Inv
<1> SUFFICES ASSUME Init PROVE Inv
  OBVIOUS
<1>1. AvahiTypeOK
  <2>1. 0 \in Objects /\ 0 \in 0..MaxFailures /\ 0 \in 0..6 /\ 0 \in Nat
    BY Constants
  <2>2. AvahiInit
    BY DEF Init
  <2>3. QED
    BY <2>1, <2>2 DEF AvahiInit, AvahiTypeOK
<1>2. TypeOK
  <2>1. \A S : <<>> \in Seq(S)
    OBVIOUS
  <2>2. 0 \in Objects /\ 0 \in 0..MaxCalls /\ 0 \in 0..MaxInputs
    BY Constants
  <2>3. QED
    BY <1>1, <2>1, <2>2 DEF Init, TypeOK, Threads
<1>3. ObjectsOfFailures /\ OneObject /\ ServerStopped /\ MisuseHasCause
  <2>1. failures = 0 /\ made = 0 /\ alive = 0 /\ m_avahi_service = 0 /\ avahi_pc = "test"
        /\ quit = FALSE /\ undefined = "none" /\ m_grpc_server = TRUE
        /\ grpc_state = "serving" /\ at = [i \in Initiators |-> "none"]
    BY DEF Init, AvahiInit
  <2>2. \A i \in Initiators : at[i] = "none"
    BY <2>1
  <2>3. QED
    BY <2>1, <2>2, Constants DEF ObjectsOfFailures, OneObject, ServerStopped, MisuseHasCause
<1>4. QED
  BY <1>2, <1>3 DEF Inv

LEMMA InvStep == Inv /\ [Next]_vars => Inv'
<1> SUFFICES ASSUME Inv, [Next]_vars PROVE Inv'
  OBVIOUS
<1>1. /\ TypeOK /\ ObjectsOfFailures /\ OneObject /\ ServerStopped /\ MisuseHasCause
      /\ Part
  BY Parts DEF Inv
<1>2. TypeOK' /\ ObjectsOfFailures'
  BY <1>1, TypeStep, ObjectsStep
<1>3. OneObject' /\ ServerStopped' /\ MisuseHasCause'
  BY <1>1, OneObjectStep, StoppedStep, MisuseStep
<1>4. QED
  BY <1>2, <1>3 DEF Inv

LEMMA InvHolds == Spec => []Inv
  BY InvInit, InvStep, PTL DEF Spec

(* Everything the server keeps has its type; in particular there are at    *)
(* most as many Avahi objects as failures and one more: its restart loop   *)
(* makes none for nothing (CAutoRestartableAvahiService::start).           *)
THEOREM TypeCorrect == Spec => []TypeOK
  BY InvHolds, PTL DEF Inv

(* Calls on a deleted Avahi object come only of a failure of the daemon,   *)
(* and calls on a deleted gRPC server only of two shutdowns, however many  *)
(* signals, calls, lines and connections there are (init_shutdown and the  *)
(* workers of StartupOrchestrator).                                        *)
THEOREM MisusesHaveCauses == Spec => []MisuseHasCause
  BY InvHolds, PTL DEF Inv
=============================================================================
