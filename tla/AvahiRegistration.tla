-------------------------- MODULE AvahiRegistration --------------------------
(***************************************************************************)
(* The mDNS registration of the server: CAvahiService, and the loop of     *)
(* CAutoRestartableAvahiService that makes a new one when it gave up       *)
(* (server/src/mDns/AvahiServiceRegistration.hpp).                         *)
(*                                                                         *)
(* Everything but shutdown() runs on one thread, whose place is avahi_pc;  *)
(* the callbacks run on it inside avahi_simple_poll_loop.  m_avahi_service *)
(* is a plain pointer that shutdown() reads from other threads.            *)
(*                                                                         *)
(* A failure is whatever the daemon does against the registration: it      *)
(* cannot be reached, goes away, rejects it, or revokes it.                *)
(***************************************************************************)
EXTENDS Naturals

CONSTANTS
  LocalNames,   \* names (their count) registered by others on this host
  RemoteNames,  \* names registered on the network
  MaxFailures   \* bound: failures of the daemon

ASSUME AvahiAssumption ==
  LocalNames \subseteq Nat /\ RemoteNames \subseteq Nat /\ MaxFailures \in Nat

VARIABLES
  m_shutdown,       \* CAutoRestartableAvahiService::m_shutdown
  m_avahi_service,  \* the object pointed to, 0 for nullptr
  alive,            \* the object that exists, 0 for none
  made,             \* how many were made
  avahi_pc,         \* where the thread is
  quit,             \* avahi_simple_poll_quit was called on the object
  client,           \* the state of m_client; "waiting" for the daemon, or for
                    \* the daemon to register the host's name
  m_group,          \* the state of m_group
  m_service_count,  \* the number in m_service_name
  collision_count,  \* the static of create_service
  failures,         \* see MaxFailures
  undefined         \* what was called on a deleted or null object, or "none"

avahi_object  == <<client, m_group, m_service_count, collision_count>>
avahi_pointer == <<m_avahi_service, alive, made>>
avahi_vars    == <<m_shutdown, avahi_pointer, avahi_pc, quit, avahi_object,
                   failures, undefined>>

Objects == 0..MaxFailures + 1

AvahiTypeOK ==
  /\ m_shutdown \in BOOLEAN
  /\ m_avahi_service \in Objects /\ alive \in Objects /\ made \in Objects
  /\ avahi_pc \in {"test", "reset", "forget", "new", "create", "loop", "ended"}
  /\ quit \in BOOLEAN
  /\ client \in {"none", "waiting", "running"}
  /\ m_group \in {"none", "empty", "filled", "registering", "established"}
  /\ m_service_count \in Nat
  /\ collision_count \in 0..6
  /\ failures \in 0..MaxFailures
  /\ undefined \in {"none", "avahi", "group", "grpc"}

AvahiInit ==
  /\ m_shutdown = FALSE
  /\ m_avahi_service = 0 /\ alive = 0 /\ made = 0
  /\ avahi_pc = "test"
  /\ quit = FALSE
  /\ client = "none" /\ m_group = "none" /\ m_service_count = 0
  /\ collision_count = 0
  /\ failures = 0
  /\ undefined = "none"

AvahiGoto(from, to) == avahi_pc = from /\ avahi_pc' = to

Fails == failures < MaxFailures /\ failures' = failures + 1

-----------------------------------------------------------------------------
(* CAutoRestartableAvahiService::start.                                    *)

TestShutdown ==
  /\ AvahiGoto("test", IF m_shutdown THEN "ended" ELSE "reset")
  /\ UNCHANGED <<m_shutdown, avahi_pointer, quit, avahi_object, failures, undefined>>

\* reset(): the object is deleted, then the pointer cleared.
Reset ==
  /\ AvahiGoto("reset", IF m_avahi_service = 0 THEN "new" ELSE "forget")
  /\ alive' = 0
  /\ UNCHANGED <<m_shutdown, m_avahi_service, made, quit, avahi_object, failures,
                 undefined>>

Forget ==
  /\ AvahiGoto("forget", "new")
  /\ m_avahi_service' = 0
  /\ UNCHANGED <<m_shutdown, alive, made, quit, avahi_object, failures, undefined>>

\* A new object, and its start_and_wait up to the loop: avahi_client_new
\* calls the callback with the state it finds.
New ==
  /\ made' = made + 1 /\ alive' = made + 1 /\ m_avahi_service' = made + 1
  /\ quit' = FALSE
  /\ \/ AvahiGoto("new", "test") /\ client' = "none" /\ Fails
     \/ AvahiGoto("new", "loop") /\ client' = "waiting" /\ UNCHANGED failures
     \/ AvahiGoto("new", "create") /\ client' = "running" /\ UNCHANGED failures
  /\ m_group' = "none" /\ m_service_count' = 0
  /\ UNCHANGED <<m_shutdown, collision_count, undefined>>

LoopEnds ==
  /\ AvahiGoto("loop", "test")
  /\ quit
  /\ UNCHANGED <<m_shutdown, avahi_pointer, quit, avahi_object, failures, undefined>>

-----------------------------------------------------------------------------
(* create_service, one call of it after the other.                         *)

\* avahi_entry_group_new answers null, which the next line hands to Avahi.
NoGroup ==
  /\ AvahiGoto("create", "create")
  /\ collision_count <= 5 /\ m_group = "none"
  /\ Fails
  /\ undefined' = "group"
  /\ UNCHANGED <<m_shutdown, avahi_pointer, quit, avahi_object>>

\* Mutant: there is no limit to it.
LocalCollisionForEver ==
  /\ AvahiGoto("create", "create")
  /\ m_group \in {"none", "empty"} /\ m_service_count \in LocalNames
  /\ collision_count' = collision_count + 1
  /\ m_group' = "empty"
  /\ UNCHANGED <<m_shutdown, avahi_pointer, quit, client, m_service_count, failures,
                 undefined>>

\* A name taken on this host is tried again, unchanged, six times in all.
LocalCollision ==
  /\ AvahiGoto("create", "create")
  /\ collision_count <= 5 /\ m_group \in {"none", "empty"}
  /\ m_service_count \in LocalNames
  /\ collision_count' = collision_count + 1
  /\ m_group' = "empty"
  /\ UNCHANGED <<m_shutdown, avahi_pointer, quit, client, m_service_count, failures,
                 undefined>>

GiveUp ==
  /\ AvahiGoto("create", "loop")
  /\ collision_count > 5 /\ collision_count' = 0
  /\ UNCHANGED <<m_shutdown, avahi_pointer, quit, client, m_group, m_service_count,
                 failures, undefined>>

\* Mutant: what fails is only logged.
AddEntryOrLog ==
  /\ AvahiGoto("create", "loop")
  /\ collision_count <= 5
  /\ \/ /\ m_group \in {"none", "empty"} /\ m_service_count \notin LocalNames
        /\ \/ m_group' = "registering" /\ UNCHANGED failures
           \/ m_group' \in {"empty", "filled"} /\ Fails
     \/ m_group \notin {"none", "empty"} /\ UNCHANGED <<m_group, failures>>
  /\ UNCHANGED <<m_shutdown, avahi_pointer, quit, client, m_service_count,
                 collision_count, undefined>>

\* The entry is added and committed, or one of these fails, or the group has
\* its entry.
AddEntry ==
  /\ AvahiGoto("create", "loop")
  /\ collision_count <= 5
  /\ \/ /\ m_group \in {"none", "empty"} /\ m_service_count \notin LocalNames
        /\ \/ m_group' = "registering" /\ UNCHANGED <<quit, failures>>
           \/ m_group' \in {"empty", "filled"} /\ quit' = TRUE /\ Fails
     \/ m_group \notin {"none", "empty"} /\ UNCHANGED <<m_group, quit, failures>>
  /\ UNCHANGED <<m_shutdown, avahi_pointer, client, m_service_count,
                 collision_count, undefined>>

-----------------------------------------------------------------------------
(* The callbacks.                                                          *)

\* AVAHI_CLIENT_S_RUNNING.
ClientRunning ==
  /\ AvahiGoto("loop", "create")
  /\ client = "waiting" /\ client' = "running"
  /\ UNCHANGED <<m_shutdown, avahi_pointer, quit, m_group, m_service_count,
                 collision_count, failures, undefined>>

\* AVAHI_CLIENT_S_REGISTERING and _S_COLLISION, of the host's own name.
ClientRegistering ==
  /\ AvahiGoto("loop", "loop")
  /\ client = "running" /\ Fails
  /\ client' = "waiting"
  /\ m_group' = IF m_group = "none" THEN "none" ELSE "empty"
  /\ UNCHANGED <<m_shutdown, avahi_pointer, quit, m_service_count,
                 collision_count, undefined>>

\* AVAHI_CLIENT_FAILURE and AVAHI_ENTRY_GROUP_FAILURE.
DaemonFails ==
  /\ AvahiGoto("loop", "loop")
  /\ Fails
  /\ quit' = TRUE
  /\ UNCHANGED <<m_shutdown, avahi_pointer, avahi_object, undefined>>

GroupEstablished ==
  /\ AvahiGoto("loop", "loop")
  /\ m_group = "registering" /\ m_service_count \notin RemoteNames
  /\ m_group' = "established"
  /\ UNCHANGED <<m_shutdown, avahi_pointer, quit, client, m_service_count,
                 collision_count, failures, undefined>>

\* AVAHI_ENTRY_GROUP_COLLISION: alternative_service_name, then once more.
GroupCollision ==
  /\ AvahiGoto("loop", "create")
  /\ \/ m_group = "registering" /\ m_service_count \in RemoteNames /\ UNCHANGED failures
     \/ m_group = "established" /\ Fails
  /\ m_service_count' = m_service_count + 1
  /\ m_group' = "empty"
  /\ UNCHANGED <<m_shutdown, avahi_pointer, quit, client, collision_count, undefined>>

-----------------------------------------------------------------------------
(* shutdown(), on the thread of whoever calls it: the flag, a test of the  *)
(* pointer (saw), and a call through the pointer, read again or not.       *)

StoreShutdown ==
  /\ m_shutdown' = TRUE
  /\ UNCHANGED <<avahi_pointer, avahi_pc, quit, avahi_object, failures, undefined>>

QuitPoll(saw) ==
  /\ \E p \in {saw, m_avahi_service} :
       IF p # 0 /\ p = alive THEN quit' = TRUE /\ UNCHANGED undefined
                             ELSE undefined' = "avahi" /\ UNCHANGED quit
  /\ UNCHANGED <<m_shutdown, avahi_pointer, avahi_pc, avahi_object, failures>>

-----------------------------------------------------------------------------
\* What the thread does by itself, and what the daemon owes it.
AvahiThread ==
  \/ TestShutdown \/ Reset \/ Forget \/ New \/ LoopEnds
  \/ NoGroup \/ LocalCollision \/ GiveUp \/ AddEntry
DaemonAnswers == ClientRunning \/ GroupEstablished \/ GroupCollision
AvahiStep == AvahiThread \/ DaemonAnswers \/ ClientRegistering \/ DaemonFails

\* The registration has given a name up that another server on this host has.
GaveUp ==
  /\ avahi_pc = "loop" /\ client = "running" /\ m_group = "empty"
  /\ m_service_count \in LocalNames
=============================================================================
