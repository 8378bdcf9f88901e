--------------------------- MODULE ScannerService ---------------------------
(***************************************************************************)
(* The list of scanners of the server: CScannerService and its handlers    *)
(* (server/src/Service/ScannerService.cpp) on CSane::get_devices           *)
(* (sane_wrapper/src/Sane.cpp).                                            *)
(*                                                                         *)
(* A handler is one RPC, run by a gRPC thread of its own.  The list is an  *)
(* UniqueAccess: access() holds its lock until the guard is destroyed.  In *)
(* the loops over "*m_devices.access()" that is the end of the loop when   *)
(* the compiler implements P2718R0 (C++23), and before the first iteration *)
(* when it does not: LockedLoop tells the two builds apart.                *)
(*                                                                         *)
(* A CSaneDevice is <<generation, name>>: every refresh makes new ones.    *)
(* Time is reduced to whether the last fetch is more than 30 seconds old.  *)
(***************************************************************************)
EXTENDS Naturals, FiniteSets

CONSTANTS
  Handlers,    \* the RPCs of a behaviour
  Rpc,         \* which RPC each is
  Wanted,      \* the scanner_name of its request (used by Scan)
  Names,       \* the scanners there can be
  NoOne,       \* a lock that is free
  LockedLoop,  \* the lock is held until the end of a range-for
  MaxEvents    \* bound: how often time passes or a scanner comes or goes

ASSUME ServiceAssumption ==
  /\ IsFiniteSet(Handlers) /\ NoOne \notin Handlers
  /\ Rpc \in [Handlers -> {"GetScanners", "Scan", "RefreshScanners"}]
  /\ Wanted \in [Handlers -> Names]
  /\ LockedLoop \in BOOLEAN /\ MaxEvents \in Nat

VARIABLES
  attached,       \* the scanners SANE can see
  raw_list,       \* the generation sane_get_devices returned last
  sane_devices,   \* CSane::m_devices, the only owner of what is listed
  raw_device,     \* the list m_raw_device of a device points into; 0: nullptr
  m_devices,      \* CScannerService::m_devices, weak references
  stale,          \* m_last_device_fetch is more than 30 seconds ago
  devices_lock,   \* who holds the lock of m_devices
  fetch_lock,     \* who holds the lock of m_last_device_fetch
  pc,             \* where each handler is
  todo,           \* what the loop of a handler has not visited
  answer,         \* the devices of a response, or the one Scan was given
  events,         \* see MaxEvents
  crashed         \* a destroyed object was used

sane_service_vars == <<raw_list, sane_devices, raw_device>>
locks == <<devices_lock, fetch_lock>>
vars  == <<attached, sane_service_vars, m_devices, stale, locks, pc, todo,
           answer, events, crashed>>

Generations == 0..Cardinality(Handlers)
SaneDevices == Generations \X Names
Generation(d) == d[1]
Name(d) == d[2]

Pc == {"called", "empty", "should_refresh", "lock_devices", "lock_fetch",
       "clear", "sane_get_devices", "assign", "loop", "visit", "replied"}

TypeOK ==
  /\ attached \subseteq Names
  /\ raw_list \in Generations
  /\ sane_devices \subseteq SaneDevices
  /\ raw_device \in [SaneDevices -> Generations]
  /\ m_devices \subseteq SaneDevices
  /\ stale \in BOOLEAN
  /\ devices_lock \in Handlers \cup {NoOne}
  /\ fetch_lock \in Handlers \cup {NoOne}
  /\ pc \in [Handlers -> Pc]
  /\ todo \in [Handlers -> SUBSET SaneDevices]
  /\ answer \in [Handlers -> SUBSET SaneDevices]
  /\ events \in 0..MaxEvents
  /\ crashed \in BOOLEAN

\* The time_point of a new server is the epoch: the first fetch is due.
Init ==
  /\ attached \in SUBSET Names
  /\ raw_list = 0
  /\ sane_devices = {} /\ m_devices = {}
  /\ raw_device = [d \in SaneDevices |-> 0]
  /\ stale = TRUE
  /\ devices_lock = NoOne /\ fetch_lock = NoOne
  /\ pc = [h \in Handlers |-> "called"]
  /\ todo = [h \in Handlers |-> {}]
  /\ answer = [h \in Handlers |-> {}]
  /\ events = 0
  /\ crashed = FALSE

\* A weak reference is alive while CSane or a reactor owns the device.
Alive(d) ==
  d \in sane_devices \/ \E h \in Handlers : Rpc[h] = "Scan" /\ d \in answer[h]

Goto(h, from, to) ==
  /\ ~crashed /\ pc[h] = from
  /\ pc' = [pc EXCEPT ![h] = to]
  /\ UNCHANGED <<attached, events>>

-----------------------------------------------------------------------------
(* The handlers up to their loops.                                         *)

Begin(h) ==
  /\ Goto(h, "called", CASE Rpc[h] = "GetScanners"     -> "empty"
                         [] Rpc[h] = "Scan"            -> "loop"
                         [] Rpc[h] = "RefreshScanners" -> "should_refresh")
  /\ UNCHANGED <<sane_service_vars, m_devices, stale, locks, todo, answer, crashed>>

\* GetScanners: m_devices.shared_access()->empty(), then no lock.
TestEmpty(h) ==
  /\ devices_lock = NoOne
  /\ Goto(h, "empty", IF m_devices = {} THEN "should_refresh" ELSE "loop")
  /\ UNCHANGED <<sane_service_vars, m_devices, stale, locks, todo, answer, crashed>>

\* Mutant: GetScanners fetches again while the list is empty.
AfterRefreshRetries(h) == IF Rpc[h] = "GetScanners" THEN "empty" ELSE "replied"

AfterRefresh(h) == IF Rpc[h] = "GetScanners" THEN "loop" ELSE "replied"

\* refresh_devices tests the age of the list with no lock on the list.
should_refresh_devices(h) ==
  /\ fetch_lock = NoOne
  /\ Goto(h, "should_refresh", IF stale THEN "lock_devices" ELSE AfterRefresh(h))
  /\ UNCHANGED <<sane_service_vars, m_devices, stale, locks, todo, answer, crashed>>

LockDevices(h) ==
  /\ Goto(h, "lock_devices", "lock_fetch")
  /\ devices_lock = NoOne /\ devices_lock' = h
  /\ UNCHANGED <<sane_service_vars, m_devices, stale, fetch_lock, todo, answer, crashed>>

LockFetch(h) ==
  /\ Goto(h, "lock_fetch", "clear")
  /\ fetch_lock = NoOne /\ fetch_lock' = h
  /\ UNCHANGED <<sane_service_vars, m_devices, stale, devices_lock, todo, answer, crashed>>

\* Mutants: clear_raw_device is not called; the old devices are kept.
ClearKeepsRaw(h) ==
  /\ Goto(h, "clear", "sane_get_devices")
  /\ sane_devices' = {}
  /\ UNCHANGED <<raw_list, raw_device, m_devices, stale, locks, todo, answer, crashed>>

ClearKeepsDevices(h) ==
  /\ Goto(h, "clear", "sane_get_devices")
  /\ raw_device' = [d \in SaneDevices |-> IF d \in sane_devices THEN 0
                                          ELSE raw_device[d]]
  /\ UNCHANGED <<raw_list, sane_devices, m_devices, stale, locks, todo, answer, crashed>>

\* get_devices: the devices forget their raw devices and are let go.
Clear(h) ==
  /\ Goto(h, "clear", "sane_get_devices")
  /\ raw_device' = [d \in SaneDevices |-> IF d \in sane_devices THEN 0
                                          ELSE raw_device[d]]
  /\ sane_devices' = {}
  /\ UNCHANGED <<raw_list, m_devices, stale, locks, todo, answer, crashed>>

\* sane_get_devices invalidates the list it returned before; it can fail.
SaneGetDevices(h) ==
  /\ Goto(h, "sane_get_devices", "assign")
  /\ raw_list' = raw_list + 1
  /\ \E fetched \in {{raw_list + 1} \X attached, {}} :
       /\ sane_devices' = sane_devices \cup fetched
       /\ raw_device' = [d \in SaneDevices |-> IF d \in fetched THEN raw_list + 1
                                               ELSE raw_device[d]]
  /\ UNCHANGED <<m_devices, stale, locks, todo, answer, crashed>>

\* Mutants: the lock of the fetch time is not released; the list is kept when
\* SANE found nothing.
AssignKeepsLock(h) ==
  /\ Goto(h, "assign", AfterRefresh(h))
  /\ m_devices' = sane_devices
  /\ stale' = FALSE
  /\ devices_lock' = NoOne
  /\ UNCHANGED <<sane_service_vars, fetch_lock, todo, answer, crashed>>

AssignUnlessEmpty(h) ==
  /\ Goto(h, "assign", AfterRefresh(h))
  /\ m_devices' = IF sane_devices = {} THEN m_devices ELSE sane_devices
  /\ stale' = FALSE
  /\ devices_lock' = NoOne /\ fetch_lock' = NoOne
  /\ UNCHANGED <<sane_service_vars, todo, answer, crashed>>

Assign(h) ==
  /\ Goto(h, "assign", AfterRefresh(h))
  /\ m_devices' = sane_devices
  /\ stale' = FALSE
  /\ devices_lock' = NoOne /\ fetch_lock' = NoOne
  /\ UNCHANGED <<sane_service_vars, todo, answer, crashed>>

-----------------------------------------------------------------------------
(* The loops of GetScanners and find_device.                               *)

\* Mutant: the loop does not hold the lock.
LoopUnlocked(h) ==
  /\ devices_lock = NoOne
  /\ Goto(h, "loop", "visit")
  /\ todo' = [todo EXCEPT ![h] = m_devices]
  /\ UNCHANGED <<sane_service_vars, m_devices, stale, locks, answer, crashed>>

Loop(h) ==
  /\ devices_lock = NoOne
  /\ Goto(h, "loop", "visit")
  /\ todo' = [todo EXCEPT ![h] = m_devices]
  /\ devices_lock' = IF LockedLoop THEN h ELSE NoOne
  /\ UNCHANGED <<sane_service_vars, m_devices, stale, fetch_lock, answer, crashed>>

Unlock(h) == devices_lock' = IF devices_lock = h THEN NoOne ELSE devices_lock

\* One element: expired() and lock(), its name and, in GetScanners, its raw
\* device.  The vector is freed when m_devices is assigned, the strings of a
\* raw device by the next sane_get_devices.
Visit(h) ==
  \E d \in todo[h] :
    LET refreshed == devices_lock \notin {h, NoOne}
        found == Rpc[h] = "Scan" /\ Alive(d) /\ Name(d) = Wanted[h]
        given == Rpc[h] = "GetScanners" /\ Alive(d)
        freed == d \notin m_devices
                 \/ (given /\ raw_device[d] \notin {0, raw_list})
    IN /\ Goto(h, "visit", IF found THEN "replied" ELSE "visit")
       /\ todo' = [todo EXCEPT ![h] = IF found THEN {} ELSE @ \ {d}]
       /\ answer' = [answer EXCEPT ![h] = IF found \/ given THEN @ \cup {d} ELSE @]
       /\ crashed' \in IF freed THEN {TRUE} ELSE {FALSE, refreshed}
       /\ IF found THEN Unlock(h) ELSE UNCHANGED devices_lock
       /\ UNCHANGED <<sane_service_vars, m_devices, stale, fetch_lock>>

LoopEnds(h) ==
  /\ todo[h] = {}
  /\ Goto(h, "visit", "replied")
  /\ Unlock(h)
  /\ UNCHANGED <<sane_service_vars, m_devices, stale, fetch_lock, todo, answer, crashed>>

\* The reactor of a Scan deletes itself (ScanReactor) and lets its device go.
ScanEnds(h) ==
  /\ Rpc[h] = "Scan" /\ answer[h] # {}
  /\ Goto(h, "replied", "replied")
  /\ answer' = [answer EXCEPT ![h] = {}]
  /\ UNCHANGED <<sane_service_vars, m_devices, stale, locks, todo, crashed>>

-----------------------------------------------------------------------------
Event ==
  /\ ~crashed
  /\ events < MaxEvents /\ events' = events + 1
  /\ UNCHANGED <<sane_service_vars, m_devices, locks, pc, todo, answer, crashed>>

\* 30 seconds pass.
TimePasses == Event /\ ~stale /\ stale' = TRUE /\ UNCHANGED attached

\* A scanner is plugged in or goes away.
PlugOrUnplug ==
  /\ Event
  /\ \E n \in Names : attached' \in {attached \cup {n}, attached \ {n}}
  /\ attached' # attached
  /\ UNCHANGED stale

HandlerStep(h) ==
  \/ Begin(h) \/ TestEmpty(h) \/ should_refresh_devices(h)
  \/ LockDevices(h) \/ LockFetch(h) \/ Clear(h) \/ SaneGetDevices(h)
  \/ Assign(h) \/ Loop(h) \/ Visit(h) \/ LoopEnds(h)

Next ==
  \/ \E h \in Handlers : HandlerStep(h) \/ ScanEnds(h)
  \/ TimePasses
  \/ PlugOrUnplug

\* The thread of a handler runs on.  A lock is taken a bounded number of times
\* by each handler, so nobody waits for it forever.
Fairness == \A h \in Handlers : WF_vars(HandlerStep(h))

Spec == Init /\ [][Next]_vars /\ Fairness

-----------------------------------------------------------------------------
(* Properties.                                                             *)

\* No handler uses a list, a device or a raw device that another handler's
\* refresh has destroyed.
NothingStaleUsed == ~crashed

\* Whenever the list is not locked it holds exactly the devices that CSane
\* owns, of the last fetch, none expired, whether or not SANE failed and
\* however many handlers refreshed at once.
ListIsOfLastFetch ==
  devices_lock = NoOne =>
    /\ m_devices = sane_devices
    /\ \A d \in m_devices : Generation(d) = raw_list /\ raw_device[d] = raw_list

\* No device anyone can still reach, a scan of an earlier list among them,
\* points into a list that sane_get_devices has freed.
RawDevicesValid ==
  \A d \in SaneDevices : Alive(d) => raw_device[d] \in {0, raw_list}

\* A response is made from one list: it never mixes scanners of before and
\* after a refresh, so no scanner in it twice.
AnswersFromOneList ==
  \A h \in Handlers : \A d, e \in answer[h] : Generation(d) = Generation(e)

\* Every RPC is answered: the two locks are never waited for in a circle.
EveryHandlerReplies ==
  \A h \in Handlers : <>(pc[h] = "replied")
=============================================================================
