------------------------ MODULE ScannerService_proofs ------------------------
(***************************************************************************)
(* Proofs about ScannerService, for every set of RPCs and scanners and     *)
(* every number of events.                                                 *)
(***************************************************************************)
EXTENDS ScannerService, FiniteSetTheorems, TLAPS

\* Every RPC fetches at most once, so generations are bounded by how many did.
Fetched == {h \in Handlers : pc[h] \in {"assign", "loop", "visit", "replied"}}

FetchInv == raw_list <= Cardinality(Fetched)

TypeInv == TypeOK /\ FetchInv

LEMMA FetchedFinite ==
  /\ IsFiniteSet(Fetched)
  /\ Cardinality(Fetched) \in Nat
  /\ Cardinality(Fetched) <= Cardinality(Handlers)
  /\ Cardinality(Handlers) \in Nat
  BY ServiceAssumption, FS_Subset, FS_CardinalityType DEF Fetched

\* A step that leads nobody back behind the fetch and does not fetch.
LEMMA FetchKept ==
  ASSUME TypeInv, raw_list' = raw_list, Fetched \subseteq Fetched'
  PROVE  FetchInv'
<1>1. IsFiniteSet(Fetched') /\ Cardinality(Fetched') \in Nat
  BY ServiceAssumption, FS_Subset, FS_CardinalityType DEF Fetched
<1>2. Cardinality(Fetched) <= Cardinality(Fetched')
  BY <1>1, FS_Subset
<1>3. QED
  BY <1>1, <1>2, FetchedFinite DEF TypeInv, TypeOK, FetchInv, Generations

\* Where a step of one handler leaves the places of all.
LEMMA GotoPc ==
  ASSUME TypeInv, NEW h \in Handlers, NEW from, NEW to \in Pc, Goto(h, from, to)
  PROVE  /\ pc' \in [Handlers -> Pc]
         /\ pc[h] = from /\ pc'[h] = to
         /\ \A g \in Handlers \ {h} : pc'[g] = pc[g]
         /\ attached' = attached /\ events' = events /\ ~crashed
  BY DEF Goto, TypeInv, TypeOK

LEMMA TypeInit == Init => TypeInv
<1>1. ASSUME Init PROVE TypeOK
  <2>1. 0 \in Generations /\ SaneDevices = Generations \X Names
    BY FetchedFinite DEF Generations, SaneDevices
  <2>2. raw_device \in [SaneDevices -> Generations] /\ raw_list \in Generations
    BY <1>1, <2>1 DEF Init
  <2>3. /\ pc \in [Handlers -> Pc]
        /\ todo \in [Handlers -> SUBSET SaneDevices]
        /\ answer \in [Handlers -> SUBSET SaneDevices]
    BY <1>1 DEF Init, Pc
  <2>4. stale \in BOOLEAN /\ crashed \in BOOLEAN
    BY <1>1 DEF Init
  <2>5. events \in 0..MaxEvents
    BY <1>1, ServiceAssumption DEF Init
  <2>6. attached \subseteq Names
    BY <1>1 DEF Init
  <2>7. QED
    BY <1>1, <2>2, <2>3, <2>4, <2>5, <2>6 DEF Init, TypeOK
<1>2. ASSUME Init PROVE FetchInv
  BY <1>2, FetchedFinite DEF Init, FetchInv
<1>3. QED
  BY <1>1, <1>2 DEF TypeInv

\* The types of the steps of a handler.
LEMMA TypeHandler ==
  ASSUME TypeInv, NEW h \in Handlers, HandlerStep(h) \/ ScanEnds(h)
  PROVE  TypeInv'
<1> USE DEF TypeInv
<1>1. ASSUME NEW from \in Pc, NEW to \in Pc, Goto(h, from, to),
             from \in {"assign", "loop", "visit", "replied"}
               => to \in {"assign", "loop", "visit", "replied"}
      PROVE  Fetched \subseteq Fetched'
  BY <1>1, GotoPc DEF Fetched
<1>2. CASE Begin(h)
  <2>1. PICK to \in {"empty", "loop", "should_refresh"} : Goto(h, "called", to)
    BY <1>2, ServiceAssumption DEF Begin
  <2>2. to \in Pc /\ "called" \in Pc
    BY DEF Pc
  <2>3. FetchInv'
    BY <1>1, <1>2, <2>1, <2>2, FetchKept DEF Begin, sane_service_vars
  <2>4. TypeOK'
    BY <1>2, <2>1, <2>2, GotoPc DEF Begin, TypeOK, sane_service_vars, locks
  <2>5. QED
    BY <2>3, <2>4
<1>3. CASE TestEmpty(h) \/ should_refresh_devices(h)
  <2>1. PICK from \in {"empty", "should_refresh"},
             to \in {"should_refresh", "lock_devices", "loop", "replied"} : Goto(h, from, to)
    BY <1>3 DEF TestEmpty, should_refresh_devices, AfterRefresh
  <2>2. to \in Pc /\ from \in Pc
    BY DEF Pc
  <2>3. FetchInv'
    BY <1>1, <1>3, <2>1, <2>2, FetchKept
    DEF TestEmpty, should_refresh_devices, sane_service_vars
  <2>4. TypeOK'
    BY <1>3, <2>1, <2>2, GotoPc
    DEF TestEmpty, should_refresh_devices, TypeOK, sane_service_vars, locks
  <2>5. QED
    BY <2>3, <2>4
<1>4. CASE LockDevices(h) \/ LockFetch(h)
  <2>1. PICK from \in {"lock_devices", "lock_fetch"}, to \in {"lock_fetch", "clear"} :
          Goto(h, from, to)
    BY <1>4 DEF LockDevices, LockFetch
  <2>2. to \in Pc /\ from \in Pc
    BY DEF Pc
  <2>3. FetchInv'
    BY <1>1, <1>4, <2>1, <2>2, FetchKept DEF LockDevices, LockFetch, sane_service_vars
  <2>4. TypeOK'
    BY <1>4, <2>1, <2>2, GotoPc
    DEF LockDevices, LockFetch, TypeOK, sane_service_vars, locks
  <2>5. QED
    BY <2>3, <2>4
<1>5. CASE Clear(h)
  <2>1. Goto(h, "clear", "sane_get_devices") /\ {"clear", "sane_get_devices"} \subseteq Pc
    BY <1>5 DEF Clear, Pc
  <2>2. FetchInv'
    BY <1>1, <1>5, <2>1, FetchKept DEF Clear
  <2>3. raw_device' \in [SaneDevices -> Generations]
    BY <1>5, FetchedFinite DEF Clear, TypeOK, Generations
  <2>4. TypeOK'
    BY <1>5, <2>1, <2>3, GotoPc DEF Clear, TypeOK, locks
  <2>5. QED
    BY <2>2, <2>4
<1>6. CASE SaneGetDevices(h)
  <2>1. Goto(h, "sane_get_devices", "assign") /\ {"assign", "sane_get_devices"} \subseteq Pc
    BY <1>6 DEF SaneGetDevices, Pc
  <2>2. h \notin Fetched /\ Fetched' = Fetched \cup {h}
    BY <2>1, GotoPc DEF Fetched
  <2>3. raw_list' = raw_list + 1
    BY <1>6 DEF SaneGetDevices
  <2>4. FetchInv'
    <3>1. Cardinality(Fetched') = Cardinality(Fetched) + 1
      BY <2>2, FetchedFinite, FS_AddElement
    <3>2. QED
      BY <2>3, <3>1, FetchedFinite DEF FetchInv, TypeOK, Generations
  <2>5. IsFiniteSet(Fetched') /\ Cardinality(Fetched') \in Nat
        /\ Cardinality(Fetched') <= Cardinality(Handlers)
    BY ServiceAssumption, FS_Subset, FS_CardinalityType DEF Fetched
  <2>6. raw_list + 1 \in Generations
    BY <2>3, <2>4, <2>5, FetchedFinite DEF FetchInv, Generations, TypeOK
  <2>7. PICK fetched \in {{raw_list + 1} \X attached, {}} :
          /\ sane_devices' = sane_devices \cup fetched
          /\ raw_device' = [d \in SaneDevices |-> IF d \in fetched THEN raw_list + 1
                                                  ELSE raw_device[d]]
    BY <1>6 DEF SaneGetDevices
  <2>8. fetched \subseteq SaneDevices
    BY <2>6 DEF SaneDevices, TypeOK
  <2>9. TypeOK'
    BY <1>6, <2>1, <2>3, <2>6, <2>7, <2>8, GotoPc DEF SaneGetDevices, TypeOK, locks
  <2>10. QED
    BY <2>4, <2>9
<1>7. CASE Assign(h)
  <2>1. PICK to \in {"loop", "replied"} : Goto(h, "assign", to)
    BY <1>7 DEF Assign, AfterRefresh
  <2>2. to \in Pc /\ "assign" \in Pc
    BY DEF Pc
  <2>3. FetchInv'
    BY <1>1, <1>7, <2>1, <2>2, FetchKept DEF Assign, sane_service_vars
  <2>4. TypeOK'
    BY <1>7, <2>1, <2>2, GotoPc DEF Assign, TypeOK, sane_service_vars
  <2>5. QED
    BY <2>3, <2>4
<1>8. CASE Loop(h)
  <2>1. Goto(h, "loop", "visit") /\ {"loop", "visit"} \subseteq Pc
    BY <1>8 DEF Loop, Pc
  <2>2. FetchInv'
    BY <1>1, <1>8, <2>1, FetchKept DEF Loop, sane_service_vars
  <2>3. TypeOK'
    BY <1>8, <2>1, GotoPc DEF Loop, TypeOK, sane_service_vars
  <2>4. QED
    BY <2>2, <2>3
<1>9. CASE Visit(h)
  <2>1. PICK to \in {"visit", "replied"} : Goto(h, "visit", to)
    BY <1>9 DEF Visit
  <2>2. to \in Pc /\ "visit" \in Pc
    BY DEF Pc
  <2>3. FetchInv'
    BY <1>1, <1>9, <2>1, <2>2, FetchKept DEF Visit, sane_service_vars
  <2>4. PICK d \in todo[h] :
          /\ \/ todo' = [todo EXCEPT ![h] = {}]
             \/ todo' = [todo EXCEPT ![h] = @ \ {d}]
          /\ \/ answer' = [answer EXCEPT ![h] = @ \cup {d}]
             \/ answer' = answer
    BY <1>9 DEF Visit, TypeOK
  <2>5. d \in SaneDevices
    BY <2>4 DEF TypeOK
  <2>6. todo' \in [Handlers -> SUBSET SaneDevices] /\ answer' \in [Handlers -> SUBSET SaneDevices]
    BY <2>4, <2>5 DEF TypeOK
  <2>7. crashed' \in BOOLEAN /\ devices_lock' \in Handlers \cup {NoOne}
    BY <1>9 DEF Visit, Unlock, TypeOK
  <2>8. TypeOK'
    BY <1>9, <2>1, <2>2, <2>6, <2>7, GotoPc DEF Visit, TypeOK, sane_service_vars
  <2>9. QED
    BY <2>3, <2>8
<1>10. CASE LoopEnds(h)
  <2>1. Goto(h, "visit", "replied") /\ {"visit", "replied"} \subseteq Pc
    BY <1>10 DEF LoopEnds, Pc
  <2>2. FetchInv'
    BY <1>1, <1>10, <2>1, FetchKept DEF LoopEnds, sane_service_vars
  <2>3. TypeOK'
    BY <1>10, <2>1, GotoPc DEF LoopEnds, Unlock, TypeOK, sane_service_vars
  <2>4. QED
    BY <2>2, <2>3
<1>11. CASE ScanEnds(h)
  <2>1. Goto(h, "replied", "replied") /\ "replied" \in Pc
    BY <1>11 DEF ScanEnds, Pc
  <2>2. FetchInv'
    BY <1>1, <1>11, <2>1, FetchKept DEF ScanEnds, sane_service_vars
  <2>3. TypeOK'
    BY <1>11, <2>1, GotoPc DEF ScanEnds, TypeOK, sane_service_vars, locks
  <2>4. QED
    BY <2>2, <2>3
<1>12. QED
  BY <1>2, <1>3, <1>4, <1>5, <1>6, <1>7, <1>8, <1>9, <1>10, <1>11 DEF HandlerStep

LEMMA TypeStep == TypeInv /\ [Next]_vars => TypeInv'
<1> SUFFICES ASSUME TypeInv, [Next]_vars PROVE TypeInv'
  OBVIOUS
<1>1. ASSUME TimePasses \/ PlugOrUnplug PROVE TypeInv'
  <2>1. pc' = pc /\ raw_list' = raw_list
    BY <1>1 DEF TimePasses, PlugOrUnplug, Event, sane_service_vars
  <2>2. FetchInv'
    BY <2>1, FetchKept DEF Fetched
  <2>3. attached' \subseteq Names /\ stale' \in BOOLEAN
    BY <1>1 DEF TimePasses, PlugOrUnplug, TypeInv, TypeOK
  <2>4. events' \in 0..MaxEvents
    BY <1>1, ServiceAssumption DEF TimePasses, PlugOrUnplug, Event, TypeInv, TypeOK
  <2>5. TypeOK'
    BY <1>1, <2>3, <2>4
    DEF TimePasses, PlugOrUnplug, Event, TypeInv, TypeOK, sane_service_vars, locks
  <2>6. QED
    BY <2>2, <2>5 DEF TypeInv
<1>2. ASSUME UNCHANGED vars PROVE TypeInv'
  BY <1>2 DEF TypeInv, TypeOK, FetchInv, Fetched, vars, sane_service_vars, locks
<1>3. QED
  BY <1>1, <1>2, TypeHandler DEF Next

LEMMA TypeAlways == Spec => []TypeInv
  BY TypeInit, TypeStep, PTL DEF Spec

\* Every variable of the service always has its type; in particular there are
\* never more generations of devices than RPCs.
THEOREM TypeCorrect == Spec => []TypeOK
<1>1. TypeInv => TypeOK
  BY DEF TypeInv
<1>2. QED
  BY <1>1, TypeAlways, PTL

-----------------------------------------------------------------------------
(* The locks: who is where holds what.                                     *)

Refreshing == {"lock_fetch", "clear", "sane_get_devices", "assign"}
Fetching   == {"clear", "sane_get_devices", "assign"}

LockInv ==
  \A h \in Handlers :
    /\ devices_lock = h <=> pc[h] \in Refreshing \/ (LockedLoop /\ pc[h] = "visit")
    /\ fetch_lock = h <=> pc[h] \in Fetching

\* Only one handler at a time is between the locks.
LEMMA LocksExclude ==
  ASSUME LockInv, NEW h \in Handlers, pc[h] \in Refreshing, NEW g \in Handlers \ {h}
  PROVE  pc[g] \notin Refreshing /\ ~(LockedLoop /\ pc[g] = "visit")
  BY DEF LockInv

LEMMA LockHandler ==
  ASSUME TypeInv, LockInv, NEW h \in Handlers, HandlerStep(h) \/ ScanEnds(h)
  PROVE  LockInv'
<1> USE ServiceAssumption DEF LockInv, Refreshing, Fetching
<1>1. CASE Begin(h)
  <2>1. PICK to \in {"empty", "loop", "should_refresh"} : Goto(h, "called", to)
    BY <1>1 DEF Begin
  <2>2. QED
    BY <1>1, <2>1, GotoPc DEF Begin, locks, Pc
<1>2. CASE TestEmpty(h) \/ should_refresh_devices(h)
  <2>1. PICK from \in {"empty", "should_refresh"},
             to \in {"should_refresh", "lock_devices", "loop", "replied"} : Goto(h, from, to)
    BY <1>2 DEF TestEmpty, should_refresh_devices, AfterRefresh
  <2>2. QED
    BY <1>2, <2>1, GotoPc DEF TestEmpty, should_refresh_devices, locks, Pc
<1>3. CASE LockDevices(h)
  BY <1>3, GotoPc DEF LockDevices, Pc, TypeInv, TypeOK
<1>4. CASE LockFetch(h)
  BY <1>4, GotoPc DEF LockFetch, Pc, TypeInv, TypeOK
<1>5. CASE Clear(h) \/ SaneGetDevices(h)
  BY <1>5, GotoPc DEF Clear, SaneGetDevices, Pc, locks
<1>6. CASE Assign(h)
  <2>1. PICK to \in {"loop", "replied"} : Goto(h, "assign", to)
    BY <1>6 DEF Assign, AfterRefresh
  <2>2. QED
    BY <1>6, <2>1, GotoPc DEF Assign, Pc
<1>7. CASE Loop(h)
  BY <1>7, GotoPc DEF Loop, Pc
<1>8. CASE Visit(h)
  <2>1. fetch_lock' = fetch_lock
    BY <1>8 DEF Visit
  <2>2. CASE Goto(h, "visit", "visit") /\ UNCHANGED devices_lock
    BY <2>1, <2>2, GotoPc DEF Pc
  <2>3. CASE Goto(h, "visit", "replied") /\ Unlock(h)
    BY <2>1, <2>3, GotoPc DEF Unlock, Pc
  <2>4. QED
    BY <1>8, <2>2, <2>3 DEF Visit
<1>9. CASE LoopEnds(h)
  BY <1>9, GotoPc DEF LoopEnds, Unlock, Pc
<1>10. CASE ScanEnds(h)
  BY <1>10, GotoPc DEF ScanEnds, Pc, locks
<1>11. QED
  BY <1>1, <1>2, <1>3, <1>4, <1>5, <1>6, <1>7, <1>8, <1>9, <1>10 DEF HandlerStep

\* What the steps outside the handlers leave alone.
LEMMA EventFrame ==
  ASSUME TimePasses \/ PlugOrUnplug \/ UNCHANGED vars
  PROVE  UNCHANGED <<sane_service_vars, m_devices, locks, pc, todo, answer, crashed>>
  BY DEF TimePasses, PlugOrUnplug, Event, vars

LEMMA LockStep == TypeInv /\ LockInv /\ [Next]_vars => LockInv'
<1>1. ASSUME LockInv, TimePasses \/ PlugOrUnplug \/ UNCHANGED vars PROVE LockInv'
  BY <1>1, EventFrame DEF LockInv, locks
<1>2. QED
  BY <1>1, LockHandler DEF Next

-----------------------------------------------------------------------------
(* The devices: those CSane owns are of the last fetch and know their raw  *)
(* device, all others have forgotten it; and only a handler between its    *)
(* fetch and its assignment sees the service's list differ from CSane's.   *)

DeviceInv ==
  /\ \A d \in SaneDevices :
       raw_device[d] = IF d \in sane_devices THEN raw_list ELSE 0
  /\ \A d \in sane_devices : Generation(d) = raw_list
  /\ \A h \in Handlers : pc[h] = "sane_get_devices" => sane_devices = {}
  /\ (\A h \in Handlers : pc[h] \notin {"sane_get_devices", "assign"})
       => m_devices = sane_devices
  /\ \A d, e \in m_devices : Generation(d) = Generation(e)

\* A step that leaves the devices alone, and takes nobody to or from the places
\* at which the lists differ.
LEMMA DeviceKept ==
  ASSUME DeviceInv, UNCHANGED <<sane_service_vars, m_devices>>,
         \A h \in Handlers : pc'[h] \in {"sane_get_devices", "assign"} <=>
                             pc[h] \in {"sane_get_devices", "assign"},
         \A h \in Handlers : pc'[h] = "sane_get_devices" => pc[h] = "sane_get_devices"
  PROVE  DeviceInv'
  BY DEF DeviceInv, sane_service_vars

\* The steps of a handler outside get_devices and the assignment.
LEMMA OtherStep ==
  ASSUME TypeInv, NEW h \in Handlers,
         \/ Begin(h) \/ TestEmpty(h) \/ should_refresh_devices(h)
         \/ LockDevices(h) \/ LockFetch(h) \/ Loop(h) \/ Visit(h) \/ LoopEnds(h)
         \/ ScanEnds(h)
  PROVE  /\ UNCHANGED <<sane_service_vars, m_devices>>
         /\ pc[h] \notin {"sane_get_devices", "assign"}
         /\ pc'[h] \notin {"sane_get_devices", "assign"}
         /\ \A g \in Handlers \ {h} : pc'[g] = pc[g]
<1>1. UNCHANGED <<sane_service_vars, m_devices>>
  BY DEF Begin, TestEmpty, should_refresh_devices, LockDevices, LockFetch, Loop,
         Visit, LoopEnds, ScanEnds
<1>2. \E from, to \in Pc \ {"sane_get_devices", "assign"} : Goto(h, from, to)
  <2>1. CASE Begin(h)
    BY <2>1, ServiceAssumption DEF Begin, Pc
  <2>2. CASE TestEmpty(h) \/ should_refresh_devices(h)
    BY <2>2 DEF TestEmpty, should_refresh_devices, AfterRefresh, Pc
  <2>3. CASE LockDevices(h) \/ LockFetch(h) \/ Loop(h)
    BY <2>3 DEF LockDevices, LockFetch, Loop, Pc
  <2>4. CASE Visit(h)
    BY <2>4 DEF Visit, Pc
  <2>5. CASE LoopEnds(h) \/ ScanEnds(h)
    BY <2>5 DEF LoopEnds, ScanEnds, Pc
  <2>6. QED
    BY <2>1, <2>2, <2>3, <2>4, <2>5
<1>3. QED
  BY <1>1, <1>2, GotoPc

LEMMA DeviceHandler ==
  ASSUME TypeInv, LockInv, DeviceInv, NEW h \in Handlers, HandlerStep(h) \/ ScanEnds(h)
  PROVE  DeviceInv'
<1>0. ASSUME pc[h] \in Refreshing, NEW g \in Handlers \ {h}
      PROVE  pc[g] \notin {"sane_get_devices", "assign"}
  BY <1>0, LocksExclude DEF Refreshing
<1>1. CASE Clear(h)
  <2>1. /\ pc[h] = "clear" /\ pc'[h] = "sane_get_devices"
        /\ \A g \in Handlers \ {h} : pc'[g] = pc[g]
    BY <1>1, GotoPc DEF Clear, Pc
  <2>2. sane_devices' = {} /\ raw_list' = raw_list /\ m_devices' = m_devices
    BY <1>1 DEF Clear
  <2>3. \A d \in SaneDevices : raw_device'[d] = 0
    BY <1>1 DEF Clear, DeviceInv
  <2>4. QED
    BY <2>1, <2>2, <2>3 DEF DeviceInv
<1>2. CASE SaneGetDevices(h)
  <2>1. /\ pc[h] = "sane_get_devices" /\ pc'[h] = "assign"
        /\ \A g \in Handlers \ {h} : pc'[g] = pc[g]
    BY <1>2, GotoPc DEF SaneGetDevices, Pc
  <2>2. sane_devices = {} /\ \A d \in SaneDevices : raw_device[d] = 0
    BY <2>1 DEF DeviceInv
  <2>3. raw_list' = raw_list + 1 /\ m_devices' = m_devices
    BY <1>2 DEF SaneGetDevices
  <2>4. PICK fetched \in {{raw_list + 1} \X attached, {}} :
          /\ sane_devices' = sane_devices \cup fetched
          /\ raw_device' = [d \in SaneDevices |-> IF d \in fetched THEN raw_list + 1
                                                  ELSE raw_device[d]]
    BY <1>2 DEF SaneGetDevices
  <2>5. \A d \in fetched : Generation(d) = raw_list'
    BY <2>3, <2>4 DEF Generation
  <2>6. \A d \in SaneDevices :
          raw_device'[d] = IF d \in sane_devices' THEN raw_list' ELSE 0
    BY <2>2, <2>3, <2>4
  <2>7. \A g \in Handlers : pc'[g] # "sane_get_devices"
    BY <1>0, <2>1 DEF Refreshing
  <2>8. \A d \in sane_devices' : Generation(d) = raw_list'
    BY <2>2, <2>4, <2>5
  <2>9. QED
    BY <2>1, <2>3, <2>6, <2>7, <2>8 DEF DeviceInv
<1>3. CASE Assign(h)
  <2>1. /\ pc[h] = "assign" /\ pc'[h] \in {"loop", "replied"}
        /\ \A g \in Handlers \ {h} : pc'[g] = pc[g]
    BY <1>3, GotoPc DEF Assign, AfterRefresh, Pc
  <2>2. m_devices' = sane_devices /\ UNCHANGED sane_service_vars
    BY <1>3 DEF Assign
  <2>3. \A g \in Handlers : pc'[g] \notin {"sane_get_devices", "assign"}
    BY <1>0, <2>1 DEF Refreshing
  <2>4. QED
    BY <2>2, <2>3 DEF DeviceInv, sane_service_vars
<1>4. CASE ~(Clear(h) \/ SaneGetDevices(h) \/ Assign(h))
  BY <1>4, OtherStep, DeviceKept DEF HandlerStep
<1>5. QED
  BY <1>1, <1>2, <1>3, <1>4

LEMMA DeviceStep == TypeInv /\ LockInv /\ DeviceInv /\ [Next]_vars => DeviceInv'
<1>1. ASSUME DeviceInv, TimePasses \/ PlugOrUnplug \/ UNCHANGED vars PROVE DeviceInv'
  BY <1>1, EventFrame, DeviceKept
<1>2. QED
  BY <1>1, DeviceHandler DEF Next

ListInv == TypeInv /\ LockInv /\ DeviceInv

LEMMA ListAlways == Spec => []ListInv
<1>1. Init => LockInv /\ DeviceInv
  BY ServiceAssumption DEF Init, LockInv, DeviceInv, Refreshing, Fetching
<1>2. QED
  BY <1>1, TypeInit, TypeStep, LockStep, DeviceStep, PTL DEF Spec, ListInv

\* Outside the lock the service's list is CSane's, of the last fetch, whoever
\* refreshes and whether or not SANE fails, in either build of the loops.
THEOREM ListOfLastFetch == Spec => []ListIsOfLastFetch
<1>1. ListInv => ListIsOfLastFetch
  <2>1. ASSUME ListInv, devices_lock = NoOne, NEW h \in Handlers
        PROVE  pc[h] \notin {"sane_get_devices", "assign"}
    BY <2>1, ServiceAssumption DEF ListInv, LockInv, Refreshing
  <2>2. ASSUME ListInv, devices_lock = NoOne
        PROVE  m_devices = sane_devices
    BY <2>1, <2>2 DEF ListInv, DeviceInv
  <2>3. QED
    BY <2>2 DEF ListInv, DeviceInv, ListIsOfLastFetch, TypeInv, TypeOK
<1>2. QED
  BY <1>1, ListAlways, PTL

\* No refresh leaves a device, listed or kept by a scan, with a raw device that
\* SANE has freed.
THEOREM RawDevicesStayValid == Spec => []RawDevicesValid
<1>1. ListInv => RawDevicesValid
  BY DEF ListInv, DeviceInv, RawDevicesValid
<1>2. QED
  BY <1>1, ListAlways, PTL

-----------------------------------------------------------------------------
(* The answers.  A loop runs over what the list was when it began, so what *)
(* it has found and what it will find are of one generation; that holds    *)
(* whether or not the list is locked meanwhile.                            *)

OneGeneration(devices) == \A d, e \in devices : Generation(d) = Generation(e)

AnswerInv ==
  \A h \in Handlers :
    /\ OneGeneration(todo[h] \cup answer[h])
    /\ pc[h] \notin {"visit", "replied"} => answer[h] = {}

\* A step that only ever takes devices away.
LEMMA AnswerShrinks ==
  ASSUME AnswerInv, NEW h \in Handlers,
         todo'[h] \cup answer'[h] \subseteq todo[h] \cup answer[h],
         pc'[h] \notin {"visit", "replied"} =>
           pc[h] \notin {"visit", "replied"} /\ answer'[h] = answer[h]
  PROVE  /\ OneGeneration(todo'[h] \cup answer'[h])
         /\ pc'[h] \notin {"visit", "replied"} => answer'[h] = {}
  BY DEF AnswerInv, OneGeneration

LEMMA AnswerHandler ==
  ASSUME TypeInv, DeviceInv, AnswerInv, NEW h \in Handlers, HandlerStep(h) \/ ScanEnds(h)
  PROVE  AnswerInv'
<1>1. ASSUME NEW g \in Handlers \ {h}
      PROVE  pc'[g] = pc[g] /\ todo'[g] = todo[g] /\ answer'[g] = answer[g]
  <2>1. pc'[g] = pc[g]
    BY DEF HandlerStep, ScanEnds, Begin, TestEmpty, should_refresh_devices, LockDevices,
           LockFetch, Clear, SaneGetDevices, Assign, Loop, Visit, LoopEnds, Goto,
           TypeInv, TypeOK
  <2>2. todo'[g] = todo[g]
    BY DEF HandlerStep, ScanEnds, Begin, TestEmpty, should_refresh_devices, LockDevices,
           LockFetch, Clear, SaneGetDevices, Assign, Loop, Visit, LoopEnds, TypeInv, TypeOK
  <2>3. answer'[g] = answer[g]
    BY DEF HandlerStep, ScanEnds, Begin, TestEmpty, should_refresh_devices, LockDevices,
           LockFetch, Clear, SaneGetDevices, Assign, Loop, Visit, LoopEnds, TypeInv, TypeOK
  <2>4. QED
    BY <2>1, <2>2, <2>3
<1>2. SUFFICES /\ OneGeneration(todo'[h] \cup answer'[h])
               /\ pc'[h] \notin {"visit", "replied"} => answer'[h] = {}
  BY <1>1 DEF AnswerInv
<1>3. CASE Begin(h) \/ TestEmpty(h) \/ should_refresh_devices(h) \/ LockDevices(h)
           \/ LockFetch(h) \/ Clear(h) \/ SaneGetDevices(h) \/ Assign(h)
  <2>1. pc[h] \notin {"visit", "replied"} /\ UNCHANGED <<todo, answer>>
    BY <1>3 DEF Begin, TestEmpty, should_refresh_devices, LockDevices, LockFetch,
                Clear, SaneGetDevices, Assign, Goto
  <2>2. QED
    BY <2>1, AnswerShrinks
<1>4. CASE Loop(h)
  <2>1. pc[h] = "loop" /\ pc'[h] = "visit"
    BY <1>4, GotoPc DEF Loop, Pc
  <2>2. todo'[h] = m_devices /\ answer'[h] = {}
    BY <1>4, <2>1 DEF Loop, AnswerInv, TypeInv, TypeOK
  <2>3. QED
    BY <2>1, <2>2 DEF DeviceInv, OneGeneration
<1>5. CASE Visit(h)
  <2>1. pc'[h] \in {"visit", "replied"}
    BY <1>5, GotoPc DEF Visit, Pc
  <2>2. PICK d \in todo[h] :
          /\ \/ todo' = [todo EXCEPT ![h] = {}]
             \/ todo' = [todo EXCEPT ![h] = @ \ {d}]
          /\ \/ answer' = [answer EXCEPT ![h] = @ \cup {d}]
             \/ answer' = answer
    BY <1>5 DEF Visit, TypeInv, TypeOK
  <2>3. todo'[h] \cup answer'[h] \subseteq todo[h] \cup answer[h]
    BY <2>2 DEF TypeInv, TypeOK
  <2>4. QED
    BY <2>1, <2>3, AnswerShrinks
<1>6. CASE LoopEnds(h)
  <2>1. pc'[h] = "replied" /\ UNCHANGED <<todo, answer>>
    BY <1>6, GotoPc DEF LoopEnds, Pc
  <2>2. QED
    BY <2>1, AnswerShrinks
<1>7. CASE ScanEnds(h)
  <2>1. pc'[h] = "replied" /\ todo' = todo /\ answer'[h] = {}
    BY <1>7, GotoPc DEF ScanEnds, Pc, TypeInv, TypeOK
  <2>2. QED
    BY <2>1, AnswerShrinks
<1>8. QED
  BY <1>3, <1>4, <1>5, <1>6, <1>7 DEF HandlerStep

\* No response mixes the scanners of two fetches.
THEOREM AnswersAreOfOneList == Spec => []AnswersFromOneList
<1>1. Init => AnswerInv
  BY DEF Init, AnswerInv, OneGeneration
<1>2. ListInv /\ AnswerInv /\ [Next]_vars => AnswerInv'
  <2>1. ASSUME AnswerInv, TimePasses \/ PlugOrUnplug \/ UNCHANGED vars PROVE AnswerInv'
    BY <2>1, EventFrame DEF AnswerInv, OneGeneration
  <2>2. QED
    BY <2>1, AnswerHandler DEF Next, ListInv
<1>3. AnswerInv => AnswersFromOneList
  BY DEF AnswerInv, OneGeneration, AnswersFromOneList
<1>4. QED
  BY <1>1, <1>2, <1>3, ListAlways, PTL DEF Spec

-----------------------------------------------------------------------------
(* Nothing freed is used, in a build in which the guard of the list lives  *)
(* to the end of a loop: a loop then visits the list as it is.             *)

VisitsInv ==
  /\ ~crashed
  /\ \A h \in Handlers : pc[h] = "visit" => todo[h] \subseteq m_devices

LEMMA VisitsHandler ==
  ASSUME LockedLoop, ListInv, VisitsInv, NEW h \in Handlers, HandlerStep(h) \/ ScanEnds(h)
  PROVE  VisitsInv'
<1> USE DEF ListInv
<1>1. CASE Assign(h)
  <2>1. pc[h] = "assign" /\ pc'[h] # "visit" /\ \A g \in Handlers \ {h} : pc'[g] = pc[g]
    BY <1>1, GotoPc DEF Assign, AfterRefresh, Pc
  <2>2. \A g \in Handlers : pc'[g] # "visit"
    BY <2>1, LocksExclude DEF Refreshing
  <2>3. ~crashed'
    BY <1>1 DEF Assign, VisitsInv
  <2>4. QED
    BY <2>2, <2>3 DEF VisitsInv
<1>2. CASE Loop(h)
  <2>1. /\ todo'[h] = m_devices /\ UNCHANGED <<m_devices, crashed>>
        /\ \A g \in Handlers \ {h} : todo'[g] = todo[g] /\ pc'[g] = pc[g]
    BY <1>2, GotoPc DEF Loop, Pc, TypeInv, TypeOK
  <2>2. QED
    BY <2>1 DEF VisitsInv
<1>3. CASE Visit(h)
  <2>1. pc[h] = "visit" /\ devices_lock = h
    BY <1>3 DEF Visit, Goto, LockInv
  <2>2. \A g \in Handlers : pc[g] \notin {"sane_get_devices", "assign"}
    BY <2>1 DEF LockInv, Refreshing
  <2>3. m_devices = sane_devices /\ m_devices \subseteq SaneDevices
    BY <2>2 DEF DeviceInv, TypeInv, TypeOK
  <2>4. \A d \in todo[h] : d \in m_devices /\ raw_device[d] = raw_list
    BY <2>1, <2>3 DEF VisitsInv, DeviceInv
  <2>5. ~crashed'
    BY <1>3, <2>1, <2>4 DEF Visit
  <2>6. \A g \in Handlers : todo'[g] \subseteq todo[g]
    BY <1>3 DEF Visit, TypeInv, TypeOK
  <2>7. /\ m_devices' = m_devices
        /\ \A g \in Handlers \ {h} : pc'[g] = pc[g]
    BY <1>3, GotoPc DEF Visit, Pc
  <2>8. QED
    BY <2>1, <2>5, <2>6, <2>7 DEF VisitsInv
<1>4. CASE ~(Assign(h) \/ Loop(h) \/ Visit(h))
  <2>1. UNCHANGED <<todo, m_devices, crashed>>
    BY <1>4 DEF HandlerStep, ScanEnds, Begin, TestEmpty, should_refresh_devices,
                LockDevices, LockFetch, Clear, SaneGetDevices, LoopEnds
  <2>2. \E from \in Pc, to \in Pc \ {"visit"} : Goto(h, from, to)
    <3>1. CASE Begin(h)
      BY <3>1, ServiceAssumption DEF Begin, Pc
    <3>2. CASE TestEmpty(h) \/ should_refresh_devices(h)
      BY <3>2 DEF TestEmpty, should_refresh_devices, AfterRefresh, Pc
    <3>3. CASE LockDevices(h) \/ LockFetch(h) \/ Clear(h) \/ SaneGetDevices(h)
      BY <3>3 DEF LockDevices, LockFetch, Clear, SaneGetDevices, Pc
    <3>4. CASE LoopEnds(h) \/ ScanEnds(h)
      BY <3>4 DEF LoopEnds, ScanEnds, Pc
    <3>5. QED
      BY <1>4, <3>1, <3>2, <3>3, <3>4 DEF HandlerStep
  <2>3. \A g \in Handlers : pc'[g] = "visit" => pc[g] = "visit"
    BY <2>2, GotoPc
  <2>4. QED
    BY <2>1, <2>3 DEF VisitsInv
<1>5. QED
  BY <1>1, <1>2, <1>3, <1>4

\* No handler uses a list, a device or a raw device that a refresh has freed,
\* however many refresh and scan at once.
THEOREM NothingFreedIsUsed ==
  ASSUME LockedLoop
  PROVE  Spec => []NothingStaleUsed
<1>1. Init => VisitsInv
  BY DEF Init, VisitsInv
<1>2. ListInv /\ VisitsInv /\ [Next]_vars => VisitsInv'
  <2>1. ASSUME VisitsInv, TimePasses \/ PlugOrUnplug \/ UNCHANGED vars PROVE VisitsInv'
    BY <2>1, EventFrame DEF VisitsInv
  <2>2. QED
    BY <2>1, VisitsHandler DEF Next
<1>3. VisitsInv => NothingStaleUsed
  BY DEF VisitsInv, NothingStaleUsed
<1>4. QED
  BY <1>1, <1>2, <1>3, ListAlways, PTL DEF Spec
=============================================================================
