------------------------- MODULE ScanClient_proofs -------------------------
(***************************************************************************)
(* Proofs about ScanClient, for any scanners, any document, any widths of  *)
(* the parts of a file name and any bounds.                                *)
(*                                                                         *)
(* FileHoldsScan rests on two facts.  A file and a call are made together, *)
(* and while a call is open the reader writes to the file of that call     *)
(* (OfReader); so the file of a call begins with what the call has read,   *)
(* if its name was new (Holds).  And a name is new unless the sequence     *)
(* number has gone all the way round since (DistinctNames), as the numbers *)
(* that the calls were made with only grow (Made).                         *)
(*                                                                         *)
(* MisuseHasCause rests on these and on the way of one press of Refresh:   *)
(* the call, the signal of its end and, for a list, the signal to the list *)
(* before it are never there twice (OneFetch), so a list that has become   *)
(* empty after a scan is a second one (SecondList).                        *)
(***************************************************************************)
EXTENDS ScanClient, FiniteSets, SequenceTheorems, FiniteSetTheorems,
  FunctionTheorems, TLAPS

Chunks == {Document[i] : i \in DOMAIN Document}

CallRecords ==
  [on : 1..MaxChannels, at : {"open", "cleared", "reset", "over"},
   read : 0..Len(Document) + 1, status : {"none", "OK", "failed"},
   file : Nat, made : Nat, overtook : SUBSET Nat]

FileRecords == [path : Names, size : Nat]

\* The signals of the end of a call for the list.
EndsOfRefresh == {"sig_refresh_scanners", "sig_refresh_scanners_failed",
                  "sig_get_scanners", "sig_get_scanners_failed"}

Signals ==
  [type : EndsOfRefresh]
    \cup [type : {"sl_get_scanners"}, scanners : SUBSET Scanners]
    \cup [type : {"sig_done"}, call : Nat, file : Nat]

Types ==
  /\ channel \in 1..MaxChannels
  /\ refresh_enabled \in BOOLEAN /\ scan_enabled \in BOOLEAN /\ items \subseteq Scanners
  /\ fetch \in [rpc : {"none", "refresh_scanners", "get_scanners"}, on : Nat]
  /\ fetch.on <= channel
  /\ fetches \in 0..MaxFetches
  /\ reader \in [in_progress : BOOLEAN, context : Nat, file : Nat]
  /\ reader.context <= Len(calls) /\ reader.file <= Len(files)
  /\ calls \in Seq(CallRecords) /\ Len(calls) <= MaxScans
  /\ \A c \in DOMAIN calls : calls[c].on <= channel
  /\ files \in Seq(FileRecords) /\ Len(files) = Len(calls)
  /\ disk \in [Names -> Seq(Nat \X Chunks)]
  /\ sequence_number \in Nat
  /\ queue \in Seq(Signals)
  /\ lost \subseteq {"refresh", "scan"}
  /\ crashed \in {"no", "null_scanner", "context", "short_file", "freed"}

-----------------------------------------------------------------------------
(* The calls of scans, their files and the reader.                         *)

\* The reader belongs to the last call while that is open, and until it has
\* signalled its end if none was made meanwhile.
OfReader ==
  /\ \A c \in DOMAIN calls : calls[c].on = channel =>
       /\ reader.file # None
       /\ calls[c].at = "open" => c = Len(calls) /\ reader.in_progress /\ reader.file = c
       /\ calls[c].at \in {"cleared", "reset"} /\ ~Overtaken(c) =>
            c = Len(calls) /\ reader.file = c
  /\ reader.context # None => calls[reader.context].on = channel

\* A call has the file made with it, whose name has the number that the
\* sequence was at; the numbers grow.
Made ==
  /\ \A c \in DOMAIN calls :
       /\ calls[c].file = c
       /\ calls[c].made < sequence_number
       /\ \E time \in Ticks : files[c].path = id(time, calls[c].made, 0)
  /\ \A c, d \in DOMAIN calls : d < c => calls[d].made < calls[c].made

ReadAll ==
  \A c \in DOMAIN calls : calls[c].status = "OK" => calls[c].read = Len(Document) + 1

\* How many chunks c has written.
Wrote(c) == IF calls[c].read = 0 THEN 0 ELSE calls[c].read - 1

\* The file of a call begins with what the call wrote, and ends there as long
\* as it is the last, unless its name was used before.
HoldsOf(c) ==
  LET data == disk[files[c].path] IN
  /\ Len(data) >= Wrote(c)
  /\ \/ NameCameUpAgain(c)
     \/ /\ \A i \in 1..Wrote(c) : data[i] = <<c, Document[i]>>
        /\ c = Len(calls) => Len(data) = Wrote(c)

Holds ==
  /\ \A c \in DOMAIN calls : HoldsOf(c)
  /\ \A name \in Names : (\A f \in DOMAIN files : files[f].path # name) => disk[name] = <<>>

\* The end of a call is signalled with the call's own file, unless another was
\* made before the signal.
OwnFileOf(c, f) ==
  /\ c \in DOMAIN calls /\ f \in DOMAIN files
  /\ calls[c].at = "over"
  /\ Overtaken(c) \/ f = c

OwnFile ==
  \A k \in DOMAIN queue :
    queue[k].type = "sig_done" => OwnFileOf(queue[k].call, queue[k].file)

PagesOfCalls == \A page \in pages : page.call \in DOMAIN calls

-----------------------------------------------------------------------------
(* Refresh and the list of scanners.                                       *)

IsEnd(k)  == queue[k].type \in EndsOfRefresh
IsList(k) == queue[k].type = "sl_get_scanners"

\* Of what a press of Refresh leads to there is one thing at a time, and
\* nothing when the button is enabled; a list comes before the signal of the
\* end that enables it.
OneFetch ==
  /\ \A j, k \in DOMAIN queue : IsEnd(j) /\ IsEnd(k) => j = k
  /\ \A j, k \in DOMAIN queue : IsList(j) /\ IsList(k) => j = k
  /\ \A j \in DOMAIN queue : IsList(j) =>
       \E k \in DOMAIN queue : j < k /\ queue[k].type = "sig_get_scanners"
  /\ fetch.rpc # "none" \/ refresh_enabled => \A k \in DOMAIN queue : ~IsEnd(k)
  /\ refresh_enabled => fetch.rpc = "none"

\* No list is to come from the presses of Refresh there were.
NoneToCome ==
  /\ fetch.rpc = "none"
  /\ \A k \in DOMAIN queue : queue[k].type \notin {"sig_refresh_scanners", "sl_get_scanners"}

\* Whoever has seen scanners and then sees none has fetched two lists.
SecondList ==
  /\ fetches = 0 => NoneToCome /\ items = {}
  /\ fetches = 1 /\ items # {} => NoneToCome
  /\ calls # <<>> => fetches > 1 \/ items # {}
  /\ scan_enabled /\ items = {} =>
       fetches > 1 /\ \E c \in DOMAIN calls : calls[c].at = "over"

ScanInv == OfReader /\ Made /\ ReadAll /\ Holds /\ OwnFile /\ PagesOfCalls
ListInv == OneFetch /\ SecondList
Inv == Types /\ ScanInv /\ ListInv /\ FileHoldsScan /\ MisuseHasCause
-----------------------------------------------------------------------------
(* The names of files.  The laws of powers of two that they need are laws  *)
(* about sets of subsets: 1..n has 2^n of them.                            *)

LEMMA PowerIsCount ==
  ASSUME NEW S, IsFiniteSet(S)
  PROVE  2^Cardinality(S) \in Nat \ {0}
<1>1. IsFiniteSet(SUBSET S) /\ Cardinality(SUBSET S) = 2^Cardinality(S)
  BY FS_SUBSET
<1>2. SUBSET S # {}
  OBVIOUS
<1>3. Cardinality(SUBSET S) # 0
  BY <1>1, <1>2, FS_EmptySet
<1>4. Cardinality(SUBSET S) \in Nat
  BY <1>1, FS_CardinalityType
<1>5. QED
  BY <1>1, <1>3, <1>4

LEMMA PowerIsPositive ==
  ASSUME NEW n \in Nat
  PROVE  2^n \in Nat \ {0}
<1>1. IsFiniteSet(1..n) /\ Cardinality(1..n) = n
  BY FS_Interval
<1>2. QED
  BY <1>1, PowerIsCount

\* A subset of 1..m+n is one of 1..m with one of m+1..m+n.
LEMMA PowerOfSum ==
  ASSUME NEW m \in Nat, NEW n \in Nat
  PROVE  2^(m + n) = 2^m * 2^n
<1> DEFINE A == 1..m
           B == m+1..m+n
           P == (SUBSET A) \X (SUBSET B)
           f == [p \in P |-> p[1] \cup p[2]]
<1>1. IsFiniteSet(A) /\ Cardinality(A) = m
  BY FS_Interval
<1>2. IsFiniteSet(B) /\ Cardinality(B) = n
  <2>1. m + 1 \in Int /\ m + n \in Int /\ (m + 1 > m + n <=> n = 0)
    BY SMT
  <2>2. IsFiniteSet(B) /\ Cardinality(B) = IF m + 1 > m + n THEN 0 ELSE (m + n) - (m + 1) + 1
    BY <2>1, FS_Interval
  <2>3. QED
    BY <2>1, <2>2
<1>3. IsFiniteSet(1..m+n) /\ Cardinality(1..m+n) = m + n
  <2>1. 1 \in Int /\ m + n \in Int /\ (1 > m + n <=> m + n = 0)
    BY SMT
  <2>2. IsFiniteSet(1..m+n) /\ Cardinality(1..m+n) = IF 1 > m + n THEN 0 ELSE (m + n) - 1 + 1
    BY <2>1, FS_Interval
  <2>3. QED
    BY <2>1, <2>2
<1>4. /\ IsFiniteSet(SUBSET A) /\ Cardinality(SUBSET A) = 2^m
      /\ IsFiniteSet(SUBSET B) /\ Cardinality(SUBSET B) = 2^n
      /\ Cardinality(SUBSET (1..m+n)) = 2^(m + n)
  BY <1>1, <1>2, <1>3, FS_SUBSET
<1>5. IsFiniteSet(P) /\ Cardinality(P) = 2^m * 2^n
  <2>1. IsFiniteSet(P) /\ Cardinality(P) = Cardinality(SUBSET A) * Cardinality(SUBSET B)
    BY <1>4, FS_Product
  <2>2. QED
    BY <1>4, <2>1, Zenon
<1>6. A \cap B = {} /\ A \cup B = 1..m+n
  BY SMT
<1>7. f \in Bijection(P, SUBSET (1..m+n))
  <2>1. f \in [P -> SUBSET (1..m+n)]
    <3>1. \A p \in P : p[1] \cup p[2] \subseteq 1..m+n
      <4> HIDE DEF A, B
      <4>1. QED
        BY <1>6
    <3>2. QED
      BY <3>1
  <2>2. ASSUME NEW p \in P, NEW q \in P, f[p] = f[q] PROVE p = q
    <3> HIDE DEF A, B
    <3>1. p[1] \subseteq A /\ p[2] \subseteq B /\ q[1] \subseteq A /\ q[2] \subseteq B
      OBVIOUS
    <3>2. p[1] \cup p[2] = q[1] \cup q[2]
      BY <2>2
    <3>3. p[1] = q[1] /\ p[2] = q[2]
      BY <3>1, <3>2, <1>6
    <3>4. QED
      BY <3>3
  <2>3. ASSUME NEW T \in SUBSET (1..m+n) PROVE \E p \in P : f[p] = T
    <3> DEFINE p == <<T \cap A, T \cap B>>
    <3> HIDE DEF A, B
    <3>1. p \in P /\ p[1] \cup p[2] = T
      BY <1>6, <2>3
    <3>2. QED
      BY <3>1
  <2>4. QED
    <3> HIDE DEF P, f
    <3>1. QED
      BY <2>1, <2>2, <2>3, Fun_IsBij
<1>8. Cardinality(SUBSET (1..m+n)) = Cardinality(P)
  BY <1>5, <1>7, FS_Bijection DEF ExistsBijection
<1>9. QED
  BY <1>4, <1>5, <1>8, Zenon
LEMMA Cancel ==
  ASSUME NEW a \in Int, NEW b \in Int, NEW c \in Nat \ {0}, a * c = b * c
  PROVE  a = b
<1>1. (a - b) * c = 0
  BY SMT
<1>2. QED
  BY <1>1, SMT

LEMMA Grows ==
  ASSUME NEW a \in Nat, NEW b \in Nat, a < b, NEW c \in Nat
  PROVE  b * c >= a * c + c
<1>1. PICK d \in Nat : b = a + 1 + d
  <2>1. b - a - 1 \in Nat /\ b = a + 1 + (b - a - 1)
    OBVIOUS
  <2>2. QED
    BY <2>1
<1>2. b * c = a * c + c + d * c
  BY <1>1, SMT
<1>3. d * c \in Nat /\ a * c \in Nat
  BY SMT
<1>4. QED
  BY <1>2, <1>3

\* Two digits are told from the number they make.
LEMMA Digits ==
  ASSUME NEW A \in Nat \ {0}, NEW B \in Nat \ {0},
         NEW x1 \in Nat, NEW x2 \in Nat, NEW y1 \in 0..A-1, NEW y2 \in 0..A-1,
         x1 * (A * B) + y1 * B = x2 * (A * B) + y2 * B
  PROVE  y1 = y2
<1>1. x1 * A \in Nat /\ x2 * A \in Nat
  BY SMT
<1>2. /\ x1 * (A * B) + y1 * B = (x1 * A + y1) * B
      /\ x2 * (A * B) + y2 * B = (x2 * A + y2) * B
  BY SMT
<1>3. x1 * A + y1 = x2 * A + y2
  <2>1. x1 * A + y1 \in Int /\ x2 * A + y2 \in Int
    BY <1>1
  <2>2. (x1 * A + y1) * B = (x2 * A + y2) * B
    BY <1>2
  <2>3. QED
    BY <2>1, <2>2, Cancel
<1>4. x1 < x2 => x2 * A >= x1 * A + A
  BY Grows
<1>5. x2 < x1 => x1 * A >= x2 * A + A
  BY Grows
<1>6. x1 = x2
  BY <1>1, <1>3, <1>4, <1>5
<1>7. QED
  BY <1>1, <1>3, <1>6

\* Numbers that are the same modulo A are that far apart.
LEMMA SameRemainder ==
  ASSUME NEW A \in Nat \ {0}, NEW s \in Nat, NEW t \in Nat, s < t, s % A = t % A
  PROVE  t - s >= A
<1>1. /\ s = A * (s \div A) + (s % A) /\ s \div A \in Nat /\ s % A \in 0..A-1
      /\ t = A * (t \div A) + (t % A) /\ t \div A \in Nat /\ t % A \in 0..A-1
  BY SMT
<1> DEFINE q == s \div A
           r == t \div A
<1> HIDE DEF q, r
<1>2. q \in Nat /\ r \in Nat /\ A * r - A * q = t - s
  BY <1>1 DEF q, r
<1>3. q < r
  <2>1. q = r => A * r = A * q
    OBVIOUS
  <2>2. r < q => q * A >= r * A + A
    BY <1>2, Grows
  <2>3. A * q = q * A /\ A * r = r * A /\ A * q \in Nat /\ A * r \in Nat
    BY <1>2, SMT
  <2>4. QED
    BY <1>2, <2>1, <2>2, <2>3
<1>4. r * A >= q * A + A
  BY <1>2, <1>3, Grows
<1>5. A * q = q * A /\ A * r = r * A /\ A * q \in Nat /\ A * r \in Nat
  BY <1>2, SMT
<1>6. QED
  BY <1>2, <1>4, <1>5

\* A name comes up again only when the sequence number has gone round.
LEMMA DistinctNames ==
  ASSUME NEW t1 \in Ticks, NEW t2 \in Ticks, NEW s1 \in Nat, NEW s2 \in Nat,
         s1 < s2, id(t1, s1, 0) = id(t2, s2, 0)
  PROVE  s2 - s1 >= 2^SEQ_BITS
<1> DEFINE A == 2^SEQ_BITS
           B == 2^THREAD_BITS
           T == 2^TIME_BITS
           C == 2^(SEQ_BITS + THREAD_BITS)
<1>1. /\ A \in Nat \ {0} /\ B \in Nat \ {0} /\ T \in Nat \ {0}
      /\ C = A * B
      /\ t1 \in Nat /\ t2 \in Nat
  BY PowerIsPositive, PowerOfSum, TempFilesAssumption
<1>2. (t1 % T) * C + (s1 % A) * B + (0 % B) = (t2 % T) * C + (s2 % A) * B + (0 % B)
  BY DEF id
<1> HIDE DEF A, B, T, C
<1>3. /\ t1 % T \in Nat /\ t2 % T \in Nat
      /\ s1 % A \in 0..A-1 /\ s2 % A \in 0..A-1 /\ 0 % B = 0
  BY <1>1, SMT
<1>4. (t1 % T) * (A * B) + (s1 % A) * B = (t2 % T) * (A * B) + (s2 % A) * B
  <2> DEFINE u == (t1 % T) * C
             v == (t2 % T) * C
             w == (s1 % A) * B
             z == (s2 % A) * B
  <2>1. u \in Nat /\ v \in Nat /\ w \in Nat /\ z \in Nat
    BY <1>1, <1>3, SMT
  <2>2. u + w + 0 = v + z + 0
    BY <1>2, <1>3
  <2> HIDE DEF u, v, w, z
  <2>3. u + w = v + z
    BY <2>1, <2>2
  <2>4. QED
    BY <2>3, <1>1 DEF u, v, w, z
<1>5. s1 % A = s2 % A
  BY <1>1, <1>3, <1>4, Digits
<1>6. QED
  BY <1>1, <1>5, SameRemainder DEF A

LEMMA NameIsName ==
  ASSUME NEW t \in Ticks, NEW s \in Nat
  PROVE  id(t, s, 0) \in Names
<1> DEFINE A == 2^SEQ_BITS
           B == 2^THREAD_BITS
           T == 2^TIME_BITS
<1>1. /\ A \in Nat \ {0} /\ B \in Nat \ {0} /\ T \in Nat \ {0} /\ t \in Nat
      /\ 2^(SEQ_BITS + THREAD_BITS) = A * B
      /\ 2^(TIME_BITS + SEQ_BITS) = T * A
      /\ 2^(TIME_BITS + SEQ_BITS + THREAD_BITS) = (T * A) * B
  <2>1. TIME_BITS + SEQ_BITS \in Nat
    BY TempFilesAssumption
  <2>2. QED
    BY <2>1, PowerIsPositive, PowerOfSum, TempFilesAssumption
<1>2. id(t, s, 0) = (t % T) * (A * B) + (s % A) * B + (0 % B)
  BY <1>1 DEF id
<1>3. Names = 0..(T * A) * B - 1
  BY <1>1 DEF Names
<1> HIDE DEF A, B, T
<1>4. t % T \in 0..T-1 /\ s % A \in 0..A-1 /\ 0 % B = 0
  BY <1>1, SMT
<1> DEFINE x == t % T
           y == s % A
<1> HIDE DEF x, y
<1>5. x \in Nat /\ x < T /\ y \in Nat /\ y < A
  BY <1>1, <1>4 DEF x, y
<1>6. T * (A * B) >= x * (A * B) + A * B
  <2>1. A * B \in Nat
    BY <1>1, SMT
  <2>2. QED
    BY <1>1, <1>5, <2>1, Grows
<1>7. A * B >= y * B + B
  BY <1>1, <1>5, Grows
<1>8. T * (A * B) = (T * A) * B /\ x * (A * B) \in Nat /\ y * B \in Nat /\ T * (A * B) \in Nat
  BY <1>1, <1>5, SMT
<1>9. x * (A * B) + y * B + 0 \in 0..(T * A) * B - 1
  <2> DEFINE k == A * B
             u == x * (A * B)
             v == y * B
             w == T * (A * B)
  <2>1. k \in Nat /\ u \in Nat /\ v \in Nat /\ w \in Nat
    BY <1>1, <1>8, SMT
  <2>2. w >= u + k /\ k >= v + B
    BY <1>6, <1>7
  <2> HIDE DEF k, u, v, w
  <2>3. u + v + 0 \in 0..w - 1
    BY <1>1, <2>1, <2>2
  <2>4. QED
    BY <2>3, <1>8 DEF u, v, w
<1>10. QED
  BY <1>2, <1>3, <1>4, <1>9 DEF x, y
-----------------------------------------------------------------------------
(* Types.                                                                  *)

LEMMA Constants ==
  /\ Document \in Seq(Chunks) /\ Len(Document) \in Nat \ {0} /\ SizeChecked \in Nat
  /\ MaxScans \in Nat \ {0} /\ MaxFetches \in Nat /\ MaxChannels \in Nat \ {0}
  /\ Ticks \subseteq Nat
<1>1. Document \in Seq(Chunks) /\ Document # <<>>
  BY ScanClientAssumption DEF Chunks
<1>2. Len(Document) \in Nat /\ Len(Document) # 0
  BY <1>1, EmptySeq
<1>3. QED
  BY <1>1, <1>2, ScanClientAssumption, TempFilesAssumption

LEMMA SignalsAre ==
  ASSUME NEW s \in Signals
  PROVE  /\ \/ s.type \in EndsOfRefresh
            \/ s.type = "sl_get_scanners" /\ s.scanners \subseteq Scanners
            \/ s.type = "sig_done" /\ s.call \in Nat /\ s.file \in Nat
         /\ s.type \in EndsOfRefresh \cup {"sl_get_scanners", "sig_done"}
  BY DEF Signals

LEMMA SignalIsSignal ==
  /\ \A type \in EndsOfRefresh : Signal(type) \in Signals
  /\ \A found \in SUBSET Scanners : [type |-> "sl_get_scanners", scanners |-> found] \in Signals
  /\ \A c, f \in Nat : [type |-> "sig_done", call |-> c, file |-> f] \in Signals
  BY DEF Signals, Signal

LEMMA TypesInit == Init => Types
<1> SUFFICES ASSUME Init PROVE Types
  OBVIOUS
<1>1. disk \in [Names -> Seq(Nat \X Chunks)]
  BY EmptySeq DEF Init
<1>2. calls \in Seq(CallRecords) /\ Len(calls) = 0 /\ files \in Seq(FileRecords)
      /\ Len(files) = 0 /\ queue \in Seq(Signals)
  BY EmptySeq DEF Init
<1>3. reader \in [in_progress : BOOLEAN, context : Nat, file : Nat]
      /\ reader.context = 0 /\ reader.file = 0
  BY DEF Init, IdleReader, None
<1>4. fetch \in [rpc : {"none", "refresh_scanners", "get_scanners"}, on : Nat]
      /\ fetch.on = 0
  BY DEF Init, NoFetch, None
<1>5. \A c \in DOMAIN calls : calls[c].on <= channel
  BY DEF Init
<1>6. channel \in 1..MaxChannels /\ fetches \in 0..MaxFetches /\ sequence_number \in Nat
  BY Constants DEF Init
<1>7. /\ refresh_enabled \in BOOLEAN /\ scan_enabled \in BOOLEAN /\ items \subseteq Scanners
      /\ lost \subseteq {"refresh", "scan"} /\ crashed = "no" /\ channel = 1
  BY DEF Init
<1>8. QED
  BY <1>1, <1>2, <1>3, <1>4, <1>5, <1>6, <1>7, Constants DEF Types

\* What a signal's handler, and dropping one, leave of a queue.
LEMMA QueueShrinks ==
  ASSUME queue \in Seq(Signals)
  PROVE  /\ queue # <<>> => /\ Head(queue) \in Signals /\ Tail(queue) \in Seq(Signals)
                            /\ Head(queue) = queue[1] /\ 1 \in DOMAIN queue
                            /\ Len(Tail(queue)) = Len(queue) - 1
                            /\ \A k \in DOMAIN Tail(queue) :
                                 Tail(queue)[k] = queue[k + 1] /\ k + 1 \in DOMAIN queue
         /\ \A k \in DOMAIN queue :
              LET rest == SubSeq(queue, 1, k - 1) \o SubSeq(queue, k + 1, Len(queue)) IN
              /\ rest \in Seq(Signals) /\ Len(rest) = Len(queue) - 1
              /\ \A i \in DOMAIN rest :
                   LET j == IF i < k THEN i ELSE i + 1 IN
                   j \in DOMAIN queue /\ rest[i] = queue[j]
<1>1. ASSUME queue # <<>>
      PROVE  /\ Head(queue) \in Signals /\ Tail(queue) \in Seq(Signals)
             /\ Head(queue) = queue[1] /\ 1 \in DOMAIN queue
             /\ Len(Tail(queue)) = Len(queue) - 1
             /\ \A k \in DOMAIN Tail(queue) :
                  Tail(queue)[k] = queue[k + 1] /\ k + 1 \in DOMAIN queue
  <2>1. Len(queue) \in Nat /\ Len(queue) > 0
    BY <1>1, EmptySeq
  <2>2. /\ Head(queue) \in Signals /\ Tail(queue) \in Seq(Signals)
        /\ Len(Tail(queue)) = Len(queue) - 1
        /\ \A i \in 1..Len(queue)-1 : Tail(queue)[i] = queue[i + 1]
    BY <1>1, HeadTailProperties
  <2>3. Head(queue) = queue[1]
    BY <1>1
  <2>4. QED
    BY <2>1, <2>2, <2>3
<1>2. ASSUME NEW k \in DOMAIN queue
      PROVE  LET rest == SubSeq(queue, 1, k - 1) \o SubSeq(queue, k + 1, Len(queue)) IN
             /\ rest \in Seq(Signals) /\ Len(rest) = Len(queue) - 1
             /\ \A i \in DOMAIN rest :
                  LET j == IF i < k THEN i ELSE i + 1 IN
                  j \in DOMAIN queue /\ rest[i] = queue[j]
  <2> DEFINE s == SubSeq(queue, 1, k - 1)
             t == SubSeq(queue, k + 1, Len(queue))
  <2>1. k \in 1..Len(queue) /\ Len(queue) \in Nat
    OBVIOUS
  <2>2. s \in Seq(Signals) /\ Len(s) = k - 1 /\ \A i \in 1..k-1 : s[i] = queue[i]
    BY <2>1
  <2>3. t \in Seq(Signals) /\ Len(t) = Len(queue) - k
        /\ \A i \in 1..Len(queue)-k : t[i] = queue[k + i]
    BY <2>1
  <2> HIDE DEF s, t
  <2>4. /\ s \o t \in Seq(Signals) /\ Len(s \o t) = Len(s) + Len(t)
        /\ \A i \in 1..Len(s) + Len(t) :
             (s \o t)[i] = IF i <= Len(s) THEN s[i] ELSE t[i - Len(s)]
    BY <2>2, <2>3, ConcatProperties
  <2>5. Len(s \o t) = Len(queue) - 1
    BY <2>1, <2>2, <2>3, <2>4
  <2>6. ASSUME NEW i \in DOMAIN (s \o t)
        PROVE  /\ (IF i < k THEN i ELSE i + 1) \in DOMAIN queue
               /\ (s \o t)[i] = queue[IF i < k THEN i ELSE i + 1]
    <3>1. i \in 1..Len(queue)-1
      BY <2>4, <2>5
    <3>2. CASE i < k
      <4>1. i <= Len(s) /\ i \in 1..k-1 /\ i \in 1..Len(s) + Len(t)
        BY <2>1, <2>2, <2>4, <3>1, <3>2
      <4>2. QED
        BY <2>1, <2>2, <2>4, <3>1, <3>2, <4>1
    <3>3. CASE ~(i < k)
      <4> DEFINE n == i - Len(s)
      <4>1. n \in 1..Len(queue)-k /\ ~(i <= Len(s)) /\ i \in 1..Len(s) + Len(t)
        <5>1. Len(s) = k - 1 /\ Len(t) = Len(queue) - k
          BY <2>2, <2>3
        <5>2. QED
          BY <5>1, <2>1, <3>1, <3>3
      <4>2. (s \o t)[i] = t[n]
        BY <2>4, <4>1
      <4>3. k + n = i + 1 /\ i + 1 \in DOMAIN queue
        BY <2>1, <2>2, <3>1, <3>3
      <4>4. t[n] = queue[k + n]
        BY <2>3, <4>1
      <4>5. QED
        BY <3>3, <4>2, <4>3, <4>4
    <3>4. QED
      BY <3>2, <3>3
  <2>7. QED
    BY <2>4, <2>5, <2>6 DEF s, t
<1>3. QED
  BY <1>1, <1>2
\* What is made of the record of one call leaves the other calls.
LEMMA CallChanges ==
  ASSUME Types, NEW c \in DOMAIN calls, NEW r \in CallRecords,
         r.on = calls[c].on, r.file = calls[c].file, r.made = calls[c].made,
         r.overtook = calls[c].overtook, calls' = [calls EXCEPT ![c] = r]
  PROVE  /\ calls' \in Seq(CallRecords) /\ Len(calls') = Len(calls)
         /\ DOMAIN calls' = DOMAIN calls
         /\ calls'[c] = r /\ \A d \in DOMAIN calls : d # c => calls'[d] = calls[d]
         /\ \A d \in DOMAIN calls :
              /\ calls'[d].on = calls[d].on /\ calls'[d].file = calls[d].file
              /\ calls'[d].made = calls[d].made /\ calls'[d].overtook = calls[d].overtook
<1>1. calls \in Seq(CallRecords) /\ Len(calls) \in Nat /\ c \in 1..Len(calls)
  BY DEF Types
<1>2. calls' \in Seq(CallRecords) /\ Len(calls') = Len(calls)
  BY <1>1, ExceptSeq
<1>3. QED
  BY <1>1, <1>2

\* The file that is written is one of the files.
LEMMA ReadsInto ==
  ASSUME Types, OfReader, NEW c \in DOMAIN calls, calls[c].on = channel
  PROVE  reader.file \in DOMAIN files
<1>1. reader.file # 0 /\ reader.file \in Nat /\ reader.file <= Len(files) /\ Len(files) \in Nat
  BY DEF Types, OfReader, None
<1>2. QED
  BY <1>1 DEF Types

LEMMA CallReads ==
  ASSUME Types, OfReader, NEW c \in DOMAIN calls, OnReadDone(c)
  PROVE  LET f == reader.file
             path == files[f].path IN
         /\ calls' = [calls EXCEPT ![c] = [calls[c] EXCEPT !.read = @ + 1]]
         /\ [calls[c] EXCEPT !.read = @ + 1] \in CallRecords
         /\ f \in DOMAIN files /\ path \in Names
         /\ \/ calls[c].read = 0 /\ UNCHANGED <<files, disk>>
            \/ /\ calls[c].read \in 1..Len(Document)
               /\ files' = [files EXCEPT ![f] = [files[f] EXCEPT !.size = @ + 1]]
               /\ [files[f] EXCEPT !.size = @ + 1] \in FileRecords
               /\ disk' = [disk EXCEPT ![path] = Append(@, <<c, Document[calls[c].read]>>)]
               /\ <<c, Document[calls[c].read]>> \in Nat \X Chunks
<1>1. /\ calls[c] \in CallRecords /\ calls[c].read \in 0..Len(Document) + 1
      /\ c \in Nat /\ Len(Document) \in Nat /\ calls[c].read <= Len(Document)
  <2>1. calls[c] \in CallRecords /\ c \in Nat
    BY DEF Types
  <2>2. calls[c].read <= Len(Document)
    BY DEF OnReadDone
  <2>3. QED
    BY <2>1, <2>2, Constants DEF CallRecords
<1>2. calls' = [calls EXCEPT ![c] = [calls[c] EXCEPT !.read = @ + 1]]
  BY DEF OnReadDone
<1>3. [calls[c] EXCEPT !.read = @ + 1] \in CallRecords
  BY <1>1 DEF CallRecords
<1>4. reader.file \in DOMAIN files
  BY ReadsInto DEF OnReadDone, Callback
<1>5. files[reader.file] \in FileRecords /\ files[reader.file].path \in Names
  <2>1. files[reader.file] \in FileRecords
    BY <1>4 DEF Types
  <2>2. QED
    BY <2>1 DEF FileRecords
<1>6. CASE calls[c].read = 0
  BY <1>2, <1>3, <1>4, <1>5, <1>6 DEF OnReadDone
<1>7. CASE calls[c].read # 0
  <2>1. calls[c].read \in 1..Len(Document)
    BY <1>1, <1>7
  <2>2. files' = [files EXCEPT ![reader.file] = [files[reader.file] EXCEPT !.size = @ + 1]]
    BY <1>7 DEF OnReadDone, Written
  <2>3. [files[reader.file] EXCEPT !.size = @ + 1] \in FileRecords
    BY <1>5 DEF FileRecords
  <2>4. disk' = [disk EXCEPT ![files[reader.file].path] =
                   Append(@, <<c, Document[calls[c].read]>>)]
    BY <1>7 DEF OnReadDone, Appended
  <2>5. Document[calls[c].read] \in Chunks
    BY <2>1, Constants DEF Chunks
  <2>6. <<c, Document[calls[c].read]>> \in Nat \X Chunks
    BY <2>5, <1>1
  <2>7. QED
    BY <1>2, <1>3, <1>4, <1>5, <2>1, <2>2, <2>3, <2>4, <2>6
<1>8. QED
  BY <1>6, <1>7

LEMMA CallIsMade ==
  ASSUME Types, sl_clicked, Len(calls') # Len(calls)
  PROVE  LET c == Len(calls) + 1
             r == calls'[c] IN
         /\ items # {} /\ ~reader.in_progress /\ Len(calls) < MaxScans
         /\ r \in CallRecords /\ r.on = channel /\ r.at = "open" /\ r.read = 0
         /\ r.status = "none" /\ r.file = c /\ r.made = sequence_number
         /\ r.overtook = Overtakes
         /\ calls' = Append(calls, r)
         /\ reader' = [in_progress |-> TRUE, context |-> c, file |-> c]
         /\ \E time \in Ticks :
              LET path == id(time, sequence_number, 0) IN
              path \in Names /\ files' = Append(files, [path |-> path, size |-> 0])
         /\ UNCHANGED disk /\ sequence_number' = sequence_number + 1
         /\ Resets(reader.context, Overtakes # {})
<1>1. items # {} /\ scan_allowed /\ scan
  BY DEF sl_clicked, scan
<1>2. ~reader.in_progress
  BY <1>1 DEF scan_allowed
<1>3. PICK time \in Ticks :
        LET new == start_new_file(time) IN
        /\ Len(calls) < MaxScans
        /\ Resets(reader.context, Overtakes # {})
        /\ files' = new.files
        /\ reader' = [in_progress |-> TRUE, context |-> Len(calls) + 1,
                      file |-> new.index]
        /\ calls' = Append(calls,
             [on |-> channel, at |-> "open", read |-> 0, status |-> "none",
              file |-> new.index, made |-> sequence_number,
              overtook |-> Overtakes])
        /\ sequence_number' = sequence_number + 1
        /\ UNCHANGED disk
  BY <1>1 DEF scan
<1> DEFINE r == [on |-> channel, at |-> "open", read |-> 0, status |-> "none",
                 file |-> Len(calls) + 1, made |-> sequence_number,
                 overtook |-> Overtakes]
           path == id(time, sequence_number, 0)
<1>4. start_new_file(time).index = Len(calls) + 1
      /\ start_new_file(time).files = Append(files, [path |-> path, size |-> 0])
  BY DEF start_new_file, NewFile, new_temp_file, generate_temp_filepath, Types
<1>5. path \in Names
  BY NameIsName DEF Types
<1>6. r \in CallRecords
  <2>1. Overtakes \in SUBSET Nat
    BY DEF Overtakes, Types
  <2>2. Len(calls) + 1 \in Nat
    BY DEF Types
  <2>3. channel \in 1..MaxChannels /\ sequence_number \in Nat
    BY DEF Types
  <2>4. 0 \in 0..Len(Document) + 1
    BY Constants
  <2>5. QED
    BY <2>1, <2>2, <2>3, <2>4 DEF CallRecords
<1>7. calls' = Append(calls, r)
  BY <1>3, <1>4
<1>8. calls'[Len(calls) + 1] = r
  BY <1>6, <1>7 DEF Types
<1>9. QED
  BY <1>1, <1>2, <1>3, <1>4, <1>5, <1>6, <1>7, <1>8

\* Otherwise a click leaves the calls and their files.
LEMMA NoCallIsMade ==
  ASSUME sl_clicked, Len(calls') = Len(calls), Types
  PROVE  /\ UNCHANGED <<reader, calls, disk_vars>>
         /\ \/ items = {} /\ crashed' = "null_scanner"
            \/ UNCHANGED crashed
<1>1. CASE items = {}
  BY <1>1 DEF sl_clicked
<1>2. CASE items # {}
  <2>1. CASE ~scan_allowed
    BY <1>2, <2>1 DEF sl_clicked, scan
  <2>2. CASE scan_allowed
    <3>1. \E r : calls' = Append(calls, r)
      BY <1>2, <2>2 DEF sl_clicked, scan
    <3>2. QED
      BY <3>1 DEF Types
  <2>3. QED
    BY <2>1, <2>2
<1>3. QED
  BY <1>1, <1>2
\* The scan and its status change in one step of a call's end.
LEMMA CallEnds ==
  ASSUME Types, NEW c \in DOMAIN calls,
         OnDone(c) \/ OnDoneResets(c) \/ OnDoneSignals(c) \/ FreedReader(c)
  PROVE  \/ UNCHANGED calls
         \/ \E r \in CallRecords :
              /\ calls' = [calls EXCEPT ![c] = r]
              /\ r.on = calls[c].on /\ r.file = calls[c].file /\ r.made = calls[c].made
              /\ r.overtook = calls[c].overtook /\ r.read = calls[c].read
              /\ r.at # "open"
              /\ \/ r.status = calls[c].status
                 \/ /\ OnDone(c) /\ r.at = "cleared"
                    /\ r.status = "OK" => r.read = Len(Document) + 1
              /\ OnDoneResets(c) => r.at = "reset" /\ calls[c].at = "cleared"
              /\ OnDoneSignals(c) => r.at = "over" /\ calls[c].at = "reset"
              /\ FreedReader(c) => r.at = "over"
<1>1. calls[c] \in CallRecords
  BY DEF Types
<1>2. ASSUME NEW status \in {"OK", "failed"}, OnDone(c),
             calls' = [calls EXCEPT ![c].at = "cleared", ![c].status = status],
             status = "OK" => calls[c].read = Len(Document) + 1
      PROVE  \E r \in CallRecords :
              /\ calls' = [calls EXCEPT ![c] = r]
              /\ r.on = calls[c].on /\ r.file = calls[c].file /\ r.made = calls[c].made
              /\ r.overtook = calls[c].overtook /\ r.read = calls[c].read
              /\ r.at = "cleared" /\ r.status = status
  <2> DEFINE r == [calls[c] EXCEPT !.at = "cleared", !.status = status]
  <2>1. calls' = [calls EXCEPT ![c] = r]
    BY <1>2
  <2>2. r \in CallRecords
    BY <1>1 DEF CallRecords
  <2>3. /\ r.on = calls[c].on /\ r.file = calls[c].file /\ r.made = calls[c].made
        /\ r.overtook = calls[c].overtook /\ r.read = calls[c].read
        /\ r.at = "cleared" /\ r.status = status
    BY <1>1 DEF CallRecords
  <2>4. QED
    BY <2>1, <2>2, <2>3
<1>3. ASSUME NEW at \in {"reset", "over"}, calls' = [calls EXCEPT ![c].at = at]
      PROVE  \E r \in CallRecords :
              /\ calls' = [calls EXCEPT ![c] = r]
              /\ r.on = calls[c].on /\ r.file = calls[c].file /\ r.made = calls[c].made
              /\ r.overtook = calls[c].overtook /\ r.read = calls[c].read
              /\ r.at = at /\ r.status = calls[c].status
  <2> DEFINE r == [calls[c] EXCEPT !.at = at]
  <2>1. calls' = [calls EXCEPT ![c] = r]
    BY <1>3
  <2>2. r \in CallRecords
    BY <1>1 DEF CallRecords
  <2>3. /\ r.on = calls[c].on /\ r.file = calls[c].file /\ r.made = calls[c].made
        /\ r.overtook = calls[c].overtook /\ r.read = calls[c].read
        /\ r.at = at /\ r.status = calls[c].status
    BY <1>1 DEF CallRecords
  <2>4. QED
    BY <2>1, <2>2, <2>3
<1>4. CASE OnDone(c)
  <2>1. /\ calls[c].at = "open"
        /\ \E status \in {"OK", "failed"} :
             /\ status = "OK" => calls[c].read = Len(Document) + 1
             /\ calls' = [calls EXCEPT ![c].at = "cleared", ![c].status = status]
    BY <1>4 DEF OnDone
  <2>2. ~OnDoneResets(c) /\ ~OnDoneSignals(c) /\ (FreedReader(c) => FALSE)
    BY <1>4 DEF OnDone, OnDoneResets, OnDoneSignals, FreedReader, Callback, Types
  <2>3. QED
    BY <1>2, <1>4, <2>1, <2>2
<1>5. CASE OnDoneResets(c)
  <2>1. calls[c].at = "cleared" /\ calls' = [calls EXCEPT ![c].at = "reset"]
    BY <1>5 DEF OnDoneResets
  <2>2. ~OnDoneSignals(c) /\ ~FreedReader(c)
    BY <1>5 DEF OnDoneResets, OnDoneSignals, FreedReader, Callback, Types
  <2>3. QED
    BY <1>3, <2>1, <2>2
<1>6. CASE OnDoneSignals(c)
  <2>1. calls[c].at = "reset" /\ calls' = [calls EXCEPT ![c].at = "over"]
    BY <1>6 DEF OnDoneSignals
  <2>2. ~OnDoneResets(c)
    BY <2>1 DEF OnDoneResets
  <2>3. QED
    BY <1>3, <2>1, <2>2
<1>7. CASE FreedReader(c)
  <2>1. UNCHANGED calls \/ calls' = [calls EXCEPT ![c].at = "over"]
    BY <1>7 DEF FreedReader
  <2>2. ~OnDoneResets(c) /\ ~OnDoneSignals(c)
    <3>1. calls[c].on \in Int /\ channel \in Int
      BY <1>1, Constants DEF CallRecords, Types
    <3>2. calls[c].on < channel
      BY <1>7 DEF FreedReader
    <3>3. calls[c].on # channel
      BY <3>1, <3>2
    <3>4. QED
      BY <3>3 DEF OnDoneResets, OnDoneSignals, Callback
  <2>3. QED
    BY <1>3, <2>1, <2>2
<1>8. QED
  BY <1>4, <1>5, <1>6, <1>7

LEMMA TypesStep ==
  ASSUME Types, OfReader, [Next]_vars
  PROVE  Types'
<1>1. CASE on_clicked_get_scanners
  <2>1. UNCHANGED <<channel, scan_enabled, items, reader, calls, disk_vars, queue,
                    pages, lost, crashed>>
        /\ refresh_enabled' = FALSE
    BY <1>1 DEF on_clicked_get_scanners
  <2>2. fetches' \in 0..MaxFetches
    BY <1>1, Constants DEF on_clicked_get_scanners, Types
  <2>3. fetch' \in [rpc : {"none", "refresh_scanners", "get_scanners"}, on : Nat]
        /\ fetch'.on = channel /\ channel \in Nat
    BY <1>1, Constants DEF on_clicked_get_scanners, Types
  <2>4. fetch'.on <= channel'
    BY <2>1, <2>3
  <2>5. QED
    BY <2>1, <2>2, <2>3, <2>4 DEF Types, disk_vars
<1>2. CASE Answered
  <2>1. queue' \in Seq(Signals)
    <3>1. ASSUME NEW s \in Signals, queue' = queue \o <<s>> PROVE queue' \in Seq(Signals)
      BY <3>1 DEF Types
    <3>2. ASSUME NEW s \in Signals, NEW t \in Signals, queue' = queue \o <<s, t>>
          PROVE queue' \in Seq(Signals)
      BY <3>2 DEF Types
    <3>3. CASE refresh_scanners
      <4>1. PICK type \in EndsOfRefresh : queue' = queue \o <<Signal(type)>>
        BY <3>3 DEF refresh_scanners, Emit, EndsOfRefresh
      <4>2. QED
        BY <3>1, <4>1, SignalIsSignal
    <3>4. CASE get_scanners
      <4>1. Signal("sig_get_scanners_failed") \in Signals /\ Signal("sig_get_scanners") \in Signals
        BY SignalIsSignal DEF EndsOfRefresh
      <4>2. CASE Emit(<<Signal("sig_get_scanners_failed")>>)
        BY <3>1, <4>1, <4>2 DEF Emit
      <4>3. CASE \E found \in SUBSET Scanners :
                   Emit(<<[type |-> "sl_get_scanners", scanners |-> found],
                          Signal("sig_get_scanners")>>)
        <5>1. PICK found \in SUBSET Scanners :
                queue' = queue \o <<[type |-> "sl_get_scanners", scanners |-> found],
                                    Signal("sig_get_scanners")>>
          BY <4>3 DEF Emit
        <5>2. QED
          BY <3>2, <4>1, <5>1, SignalIsSignal
      <4>4. QED
        BY <3>4, <4>2, <4>3 DEF get_scanners
    <3>5. QED
      BY <1>2, <3>3, <3>4 DEF Answered
  <2>2. fetch' = NoFetch /\ UNCHANGED <<channel, buttons, fetches, reader, calls, disk_vars,
                                        pages, lost, crashed>>
    BY <1>2 DEF Answered
  <2>3. NoFetch \in [rpc : {"none", "refresh_scanners", "get_scanners"}, on : Nat]
        /\ NoFetch.on = 0
    BY DEF NoFetch, None
  <2>4. QED
    BY <2>1, <2>2, <2>3, Constants DEF Types, buttons, disk_vars
<1>3. CASE FreedFetch
  <2>1. NoFetch \in [rpc : {"none", "refresh_scanners", "get_scanners"}, on : Nat]
        /\ NoFetch.on = 0
    BY DEF NoFetch, None
  <2>2. fetch' \in {fetch, NoFetch} /\ lost' \subseteq {"refresh", "scan"}
        /\ crashed' \in {"no", "null_scanner", "context", "short_file", "freed"}
    BY <1>3 DEF FreedFetch, Types
  <2>3. UNCHANGED <<channel, buttons, fetches, reader, calls, disk_vars, queue, pages>>
    BY <1>3 DEF FreedFetch
  <2>4. QED
    BY <2>1, <2>2, <2>3, Constants DEF Types, buttons, disk_vars
<1>4. CASE sl_clicked
  <2>1. UNCHANGED <<channel, refresh_enabled, items, fetch, fetches, queue, pages, lost>>
        /\ scan_enabled' = FALSE
    BY <1>4 DEF sl_clicked
  <2>2. CASE Len(calls') = Len(calls)
    BY <1>4, <2>1, <2>2, NoCallIsMade DEF Types, disk_vars
  <2>3. CASE Len(calls') # Len(calls)
    <3> DEFINE c == Len(calls) + 1
               r == calls'[c]
    <3>1. /\ Len(calls) < MaxScans /\ r \in CallRecords /\ r.on = channel
          /\ calls' = Append(calls, r)
          /\ reader' = [in_progress |-> TRUE, context |-> c, file |-> c]
          /\ UNCHANGED disk /\ sequence_number' = sequence_number + 1
          /\ crashed' \in {"no", "context"}
      <4>1. Resets(reader.context, Overtakes # {}) => crashed' \in {"no", "context"}
        BY DEF Resets
      <4>2. QED
        BY <1>4, <2>3, <4>1, CallIsMade
    <3>2. PICK path \in Names : files' = Append(files, [path |-> path, size |-> 0])
      BY <1>4, <2>3, CallIsMade
    <3>3. /\ calls' \in Seq(CallRecords) /\ Len(calls') = c
          /\ \A d \in DOMAIN calls' : d = c \/ (d \in DOMAIN calls /\ calls'[d] = calls[d])
      <4>1. calls \in Seq(CallRecords) /\ r \in CallRecords /\ Len(calls) \in Nat
        BY <3>1 DEF Types
      <4>2. calls' = Append(calls, r)
        BY <3>1
      <4> HIDE DEF r
      <4>3. /\ calls' \in Seq(CallRecords) /\ Len(calls') = c
            /\ \A d \in 1..Len(calls) : calls'[d] = calls[d]
        BY <4>1, <4>2, AppendProperties
      <4>4. DOMAIN calls' = 1..Len(calls) + 1 /\ DOMAIN calls = 1..Len(calls)
        BY <4>1, <4>3
      <4>5. QED
        BY <4>1, <4>3, <4>4
    <3>4. [path |-> path, size |-> 0] \in FileRecords
      BY <3>2 DEF FileRecords
    <3>5. files' \in Seq(FileRecords) /\ Len(files') = c
      BY <3>2, <3>4 DEF Types
    <3>6. \A d \in DOMAIN calls' : calls'[d].on <= channel'
      <4>1. channel \in Int /\ channel' = channel /\ r.on = channel
        BY <2>1, <3>1, Constants DEF Types
      <4>2. \A d \in DOMAIN calls : calls[d].on <= channel
        BY DEF Types
      <4>3. ASSUME NEW d \in DOMAIN calls' PROVE calls'[d].on <= channel'
        <5>1. CASE d = c
          BY <4>1, <5>1
        <5>2. CASE d \in DOMAIN calls /\ calls'[d] = calls[d]
          BY <4>1, <4>2, <5>2
        <5>3. QED
          BY <3>3, <5>1, <5>2
      <4>4. QED
        BY <4>3
    <3>7. c \in Nat /\ reader' \in [in_progress : BOOLEAN, context : Nat, file : Nat]
          /\ reader'.context = c /\ reader'.file = c
      BY <3>1 DEF Types
    <3>8. Len(calls') <= MaxScans /\ sequence_number' \in Nat
      BY <3>1, <3>3, Constants DEF Types
    <3>9. /\ UNCHANGED <<channel, refresh_enabled, items, fetch, fetches, queue, lost, disk>>
          /\ scan_enabled' = FALSE /\ crashed' \in {"no", "context"}
      BY <2>1, <3>1
    <3>10. /\ reader'.context <= Len(calls') /\ reader'.file <= Len(files')
           /\ Len(files') = Len(calls')
      BY <3>3, <3>5, <3>7
    <3> HIDE DEF r, c
    <3>11. QED
      BY <3>3, <3>5, <3>6, <3>7, <3>8, <3>9, <3>10 DEF Types
  <2>4. QED
    BY <2>2, <2>3
<1>5. ASSUME NEW c \in DOMAIN calls, OnReadDone(c)
      PROVE  Types'
  <2>1. UNCHANGED <<channel, buttons, fetch, fetches, reader, sequence_number, queue,
                    pages, lost, crashed>>
    BY <1>5 DEF OnReadDone
  <2> DEFINE r == [calls[c] EXCEPT !.read = @ + 1]
             f == reader.file
             path == files[f].path
  <2>2. calls' = [calls EXCEPT ![c] = r] /\ r \in CallRecords /\ f \in DOMAIN files
        /\ path \in Names
    BY <1>5, CallReads
  <2>3. r.on = calls[c].on /\ r.file = calls[c].file /\ r.made = calls[c].made
        /\ r.overtook = calls[c].overtook
    <3>1. calls[c] \in CallRecords
      BY DEF Types
    <3>2. QED
      BY <3>1 DEF CallRecords
  <2>4. calls' \in Seq(CallRecords) /\ Len(calls') = Len(calls) /\ DOMAIN calls' = DOMAIN calls
        /\ \A d \in DOMAIN calls : calls'[d].on = calls[d].on
    <3> HIDE DEF r
    <3>1. QED
      BY <2>2, <2>3, CallChanges
  <2>5. files' \in Seq(FileRecords) /\ Len(files') = Len(files)
    <3>1. CASE UNCHANGED files
      BY <3>1 DEF Types
    <3>2. CASE files' = [files EXCEPT ![f] = [files[f] EXCEPT !.size = @ + 1]]
               /\ [files[f] EXCEPT !.size = @ + 1] \in FileRecords
      BY <2>2, <3>2, ExceptSeq DEF Types
    <3>3. QED
      BY <1>5, <3>1, <3>2, CallReads
  <2>6. disk' \in [Names -> Seq(Nat \X Chunks)]
    <3>1. CASE UNCHANGED disk
      BY <3>1 DEF Types
    <3>2. ASSUME NEW x \in Nat \X Chunks, disk' = [disk EXCEPT ![path] = Append(@, x)]
          PROVE  disk' \in [Names -> Seq(Nat \X Chunks)]
      <4>1. Append(disk[path], x) \in Seq(Nat \X Chunks)
        BY <2>2 DEF Types
      <4>2. QED
        BY <2>2, <3>2, <4>1 DEF Types
    <3>3. QED
      BY <1>5, <3>1, <3>2, CallReads
  <2> HIDE DEF r, f, path
  <2>7. QED
    BY <2>1, <2>4, <2>5, <2>6 DEF Types, buttons
<1>6. ASSUME NEW c \in DOMAIN calls,
             OnDone(c) \/ OnDoneResets(c) \/ OnDoneSignals(c) \/ FreedReader(c)
      PROVE  Types'
  <2>1. calls' \in Seq(CallRecords) /\ Len(calls') = Len(calls) /\ DOMAIN calls' = DOMAIN calls
        /\ \A d \in DOMAIN calls : calls'[d].on = calls[d].on
    <3>1. CASE UNCHANGED calls
      BY <3>1 DEF Types
    <3>2. QED
      BY <1>6, <3>1, CallEnds, CallChanges
  <2>2. UNCHANGED <<channel, buttons, fetch, fetches, disk_vars, pages>>
    BY <1>6 DEF OnDone, OnDoneResets, OnDoneSignals, FreedReader
  <2>3. reader' \in [in_progress : BOOLEAN, context : Nat, file : Nat]
        /\ reader'.context <= Len(calls) /\ reader'.file <= Len(files)
    <3>1. \/ UNCHANGED reader
          \/ reader' = [reader EXCEPT !.in_progress = FALSE]
          \/ reader' = [reader EXCEPT !.context = None]
      BY <1>6 DEF OnDone, OnDoneResets, OnDoneSignals, FreedReader
    <3>2. /\ reader \in [in_progress : BOOLEAN, context : Nat, file : Nat]
          /\ reader.context <= Len(calls) /\ reader.file <= Len(files) /\ Len(calls) \in Nat
      BY DEF Types
    <3>3. CASE reader' = [reader EXCEPT !.in_progress = FALSE]
      BY <3>2, <3>3
    <3>4. CASE reader' = [reader EXCEPT !.context = None]
      BY <3>2, <3>4 DEF None
    <3>5. QED
      BY <3>1, <3>2, <3>3, <3>4
  <2>4. queue' \in Seq(Signals)
    <3>1. UNCHANGED queue
          \/ queue' = queue \o <<[type |-> "sig_done", call |-> c, file |-> reader.file]>>
      BY <1>6 DEF OnDone, OnDoneResets, OnDoneSignals, FreedReader, Emit
    <3>2. c \in Nat /\ reader.file \in Nat /\ queue \in Seq(Signals)
      BY DEF Types
    <3> DEFINE s == [type |-> "sig_done", call |-> c, file |-> reader.file]
    <3>3. s \in Signals
      BY <3>2, SignalIsSignal
    <3> HIDE DEF s
    <3>4. <<s>> \in Seq(Signals)
      BY <3>3
    <3>5. queue \o <<s>> \in Seq(Signals)
      BY <3>2, <3>4, ConcatProperties
    <3>6. QED
      BY <3>1, <3>2, <3>5 DEF s
  <2>5. lost' \subseteq {"refresh", "scan"}
    BY <1>6 DEF OnDone, OnDoneResets, OnDoneSignals, FreedReader, Types
  <2>6. crashed' \in {"no", "null_scanner", "context", "short_file", "freed"}
    BY <1>6 DEF OnDone, OnDoneResets, OnDoneSignals, FreedReader, Types, Resets
  <2>7. QED
    BY <2>1, <2>2, <2>3, <2>4, <2>5, <2>6 DEF Types, buttons, disk_vars
<1>7. CASE Exec
  <2>1. Tail(queue) \in Seq(Signals) /\ Head(queue) \in Signals /\ queue' = Tail(queue)
    BY <1>7, QueueShrinks DEF Exec, Types
  <2>2. UNCHANGED <<channel, fetches, reader, calls, files, disk, lost>>
    BY <1>7 DEF Exec
  <2>3. /\ refresh_enabled' \in BOOLEAN /\ scan_enabled' \in BOOLEAN /\ items' \subseteq Scanners
        /\ fetch' \in [rpc : {"none", "refresh_scanners", "get_scanners"}, on : Nat]
        /\ fetch'.on <= channel /\ sequence_number' \in Nat
        /\ crashed' \in {"no", "null_scanner", "context", "short_file", "freed"}
    <3>1. CASE sl_sig_done(Head(queue))
      <4>1. UNCHANGED <<refresh_enabled, items, fetch>> /\ scan_enabled' \in BOOLEAN
        BY <3>1 DEF sl_sig_done, enabled_by_done
      <4>2. sequence_number' \in {sequence_number, sequence_number + 1}
            /\ crashed' \in {"no", "short_file", crashed}
        BY <3>1 DEF sl_sig_done, AddPage
      <4>3. QED
        BY <4>1, <4>2 DEF Types
    <3>2. CASE Head(queue).type = "sl_get_scanners" /\ sl_get_scanners(Head(queue).scanners)
      <4>1. Head(queue).scanners \subseteq Scanners
        BY <2>1, <3>2, SignalsAre DEF EndsOfRefresh
      <4>2. QED
        BY <3>2, <4>1 DEF sl_get_scanners, Types
    <3>3. CASE sl_refresh_scanners
      BY <3>3, Constants DEF sl_refresh_scanners, buttons, Types
    <3>4. CASE enable_button
      BY <3>4 DEF enable_button, Types
    <3>5. QED
      BY <1>7, <3>1, <3>2, <3>3, <3>4 DEF Exec
  <2>4. QED
    BY <2>1, <2>2, <2>3 DEF Types
<1>8. CASE change_channel
  <2>1. channel' = channel + 1 /\ channel < MaxChannels /\ channel' \in 1..MaxChannels
    BY <1>8, Constants DEF change_channel, Types
  <2>2. UNCHANGED <<buttons, fetch, fetches, calls, disk_vars, pages, lost, crashed>>
    BY <1>8 DEF change_channel
  <2>3. queue' \in Seq(Signals)
    <3>1. queue \in Seq(Signals)
      BY DEF Types
    <3>2. \A k \in DOMAIN queue :
            SubSeq(queue, 1, k - 1) \o SubSeq(queue, k + 1, Len(queue)) \in Seq(Signals)
      BY <3>1, QueueShrinks
    <3>3. UNCHANGED queue \/ \E k \in DOMAIN queue :
            queue' = SubSeq(queue, 1, k - 1) \o SubSeq(queue, k + 1, Len(queue))
      BY <1>8 DEF change_channel, drop_list_signal
    <3>4. QED
      BY <3>1, <3>2, <3>3
  <2>4. reader' \in [in_progress : BOOLEAN, context : Nat, file : Nat]
        /\ reader'.context = 0 /\ reader'.file = 0
    BY <1>8 DEF change_channel, IdleReader, None
  <2>5. \A c \in DOMAIN calls : calls[c].on <= channel'
    <3>1. \A c \in DOMAIN calls : calls[c] \in CallRecords /\ calls[c].on <= channel
      BY DEF Types
    <3>2. QED
      BY <2>1, <3>1, Constants DEF CallRecords, Types
  <2>6. fetch'.on <= channel' /\ Len(calls) \in Nat /\ Len(files) \in Nat
    BY <2>1, <2>2, Constants DEF Types
  <2>7. QED
    BY <2>1, <2>2, <2>3, <2>4, <2>5, <2>6 DEF Types, buttons, disk_vars
<1>9. CASE UNCHANGED vars
  BY <1>9 DEF vars, Types, buttons, disk_vars
<1>10. QED
  BY <1>1, <1>2, <1>3, <1>4, <1>5, <1>6, <1>7, <1>8, <1>9
     DEF Next, User, FetchStep, CallStep
-----------------------------------------------------------------------------
(* What stays of calls, files and names.                                   *)

\* The steps that have to do with one call.
Called(c) ==
  OnReadDone(c) \/ OnDone(c) \/ OnDoneResets(c) \/ OnDoneSignals(c) \/ FreedReader(c)

\* The steps that leave the calls.
Elsewhere ==
  \/ on_clicked_get_scanners \/ Answered \/ FreedFetch \/ Exec \/ change_channel
  \/ sl_clicked /\ Len(calls') = Len(calls)
  \/ UNCHANGED vars

LEMMA Steps ==
  ASSUME [Next]_vars
  PROVE  \/ Elsewhere
         \/ sl_clicked /\ Len(calls') # Len(calls)
         \/ \E c \in DOMAIN calls : Called(c)
  BY DEF Next, User, FetchStep, CallStep, Called, Elsewhere

LEMMA ElsewhereKeeps ==
  ASSUME Types, Elsewhere
  PROVE  UNCHANGED <<calls, files, disk>> /\ sequence_number' >= sequence_number
<1>1. CASE sl_clicked /\ Len(calls') = Len(calls)
  BY <1>1, NoCallIsMade DEF disk_vars, Types
<1>2. CASE Exec
  <2>1. UNCHANGED <<calls, files, disk>>
    BY <1>2 DEF Exec
  <2>2. sequence_number' \in {sequence_number, sequence_number + 1}
    BY <1>2 DEF Exec, sl_sig_done, AddPage, sl_get_scanners, sl_refresh_scanners, enable_button
  <2>3. QED
    BY <2>1, <2>2 DEF Types
<1>3. CASE on_clicked_get_scanners \/ Answered \/ FreedFetch \/ change_channel \/ UNCHANGED vars
  BY <1>3 DEF on_clicked_get_scanners, Answered, FreedFetch, change_channel, vars,
     disk_vars, Types
<1>4. QED
  BY <1>1, <1>2, <1>3 DEF Elsewhere

LEMMA CalledKeeps ==
  ASSUME Types, OfReader, NEW c \in DOMAIN calls, Called(c)
  PROVE  /\ Len(calls') = Len(calls) /\ DOMAIN calls' = DOMAIN calls
         /\ UNCHANGED sequence_number
         /\ \A d \in DOMAIN calls :
              /\ calls'[d].on = calls[d].on /\ calls'[d].file = calls[d].file
              /\ calls'[d].made = calls[d].made /\ calls'[d].overtook = calls[d].overtook
         /\ \A d \in DOMAIN calls : d # c => calls'[d] = calls[d]
         /\ Len(files') = Len(files) /\ DOMAIN files' = DOMAIN files
         /\ \A f \in DOMAIN files : files'[f].path = files[f].path
<1>1. CASE OnReadDone(c)
  <2> DEFINE r == [calls[c] EXCEPT !.read = @ + 1]
             f == reader.file
  <2>1. calls' = [calls EXCEPT ![c] = r] /\ r \in CallRecords /\ f \in DOMAIN files
    BY <1>1, CallReads
  <2>2. r.on = calls[c].on /\ r.file = calls[c].file /\ r.made = calls[c].made
        /\ r.overtook = calls[c].overtook
    <3>1. calls[c] \in CallRecords
      BY DEF Types
    <3>2. QED
      BY <3>1 DEF CallRecords
  <2>3. UNCHANGED files \/ files' = [files EXCEPT ![f] = [files[f] EXCEPT !.size = @ + 1]]
    BY <1>1, CallReads
  <2>4. Len(files') = Len(files) /\ DOMAIN files' = DOMAIN files
    BY <2>1, <2>3 DEF Types
  <2>5. \A g \in DOMAIN files : files'[g].path = files[g].path
    <3>1. files[f] \in FileRecords
      BY <2>1 DEF Types
    <3>2. [files[f] EXCEPT !.size = @ + 1].path = files[f].path
      BY <3>1 DEF FileRecords
    <3>3. CASE UNCHANGED files
      BY <3>3
    <3>4. CASE files' = [files EXCEPT ![f] = [files[f] EXCEPT !.size = @ + 1]]
      BY <2>1, <3>2, <3>4
    <3>5. QED
      BY <2>3, <3>3, <3>4
  <2>6. UNCHANGED sequence_number
    BY <1>1 DEF OnReadDone
  <2> HIDE DEF r, f
  <2>7. QED
    BY <2>1, <2>2, <2>4, <2>5, <2>6, CallChanges
<1>2. CASE OnDone(c) \/ OnDoneResets(c) \/ OnDoneSignals(c) \/ FreedReader(c)
  <2>1. UNCHANGED disk_vars
    BY <1>2 DEF OnDone, OnDoneResets, OnDoneSignals, FreedReader
  <2>2. UNCHANGED <<files, sequence_number>>
    BY <2>1 DEF disk_vars
  <2>3. CASE UNCHANGED calls
    BY <2>2, <2>3
  <2>4. CASE ~UNCHANGED calls
    BY <1>2, <2>2, <2>4, CallEnds, CallChanges
  <2>5. QED
    BY <2>3, <2>4
<1>3. QED
  BY <1>1, <1>2 DEF Called

LEMMA ScanKeeps ==
  ASSUME Types, sl_clicked, Len(calls') # Len(calls)
  PROVE  /\ Len(calls') = Len(calls) + 1 /\ DOMAIN calls' = DOMAIN calls \cup {Len(calls) + 1}
         /\ DOMAIN calls = 1..Len(calls) /\ Len(calls) \in Nat
         /\ \A d \in DOMAIN calls : calls'[d] = calls[d]
         /\ Len(files') = Len(files) + 1 /\ DOMAIN files' = DOMAIN files \cup {Len(files) + 1}
         /\ DOMAIN files = 1..Len(files)
         /\ \A f \in DOMAIN files : files'[f] = files[f]
         /\ sequence_number' = sequence_number + 1 /\ UNCHANGED disk
<1> DEFINE r == calls'[Len(calls) + 1]
<1>1. calls' = Append(calls, r) /\ r \in CallRecords
      /\ sequence_number' = sequence_number + 1 /\ UNCHANGED disk
  BY CallIsMade
<1>2. PICK path \in Names : files' = Append(files, [path |-> path, size |-> 0])
  BY CallIsMade
<1>3. [path |-> path, size |-> 0] \in FileRecords
  BY DEF FileRecords
<1>4. calls \in Seq(CallRecords) /\ files \in Seq(FileRecords)
  BY DEF Types
<1> HIDE DEF r
<1>5. /\ Len(calls') = Len(calls) + 1 /\ Len(calls) \in Nat
      /\ DOMAIN calls = 1..Len(calls) /\ DOMAIN calls' = 1..Len(calls) + 1
      /\ \A d \in 1..Len(calls) : calls'[d] = calls[d]
  BY <1>1, <1>4, AppendProperties
<1> DEFINE g == [path |-> path, size |-> 0]
<1> HIDE DEF g
<1>6. /\ Len(files') = Len(files) + 1 /\ Len(files) \in Nat
      /\ DOMAIN files = 1..Len(files) /\ DOMAIN files' = 1..Len(files) + 1
      /\ \A d \in 1..Len(files) : files'[d] = files[d]
  BY <1>2, <1>3, <1>4, AppendProperties DEF g
<1>7. \A n \in Nat : 1..n+1 = 1..n \cup {n + 1}
  OBVIOUS
<1>8. DOMAIN calls' = DOMAIN calls \cup {Len(calls) + 1}
      /\ DOMAIN files' = DOMAIN files \cup {Len(files) + 1}
  BY <1>5, <1>6, <1>7
<1>9. QED
  BY <1>1, <1>5, <1>6, <1>8

\* A call, its file and its name are what they were.
LEMMA Stays ==
  ASSUME Types, OfReader, [Next]_vars
  PROVE  /\ DOMAIN calls \subseteq DOMAIN calls' /\ DOMAIN files \subseteq DOMAIN files'
         /\ Len(calls') >= Len(calls) /\ sequence_number' >= sequence_number
         /\ \A d \in DOMAIN calls :
              /\ calls'[d].on = calls[d].on /\ calls'[d].file = calls[d].file
              /\ calls'[d].made = calls[d].made /\ calls'[d].overtook = calls[d].overtook
         /\ \A f \in DOMAIN files : files'[f].path = files[f].path
<1>1. Len(calls) \in Nat /\ sequence_number \in Nat
  BY DEF Types
<1>2. CASE Elsewhere
  BY <1>1, <1>2, ElsewhereKeeps
<1>3. CASE sl_clicked /\ Len(calls') # Len(calls)
  <2>1. /\ Len(calls') = Len(calls) + 1 /\ sequence_number' = sequence_number + 1
        /\ DOMAIN calls \subseteq DOMAIN calls' /\ DOMAIN files \subseteq DOMAIN files'
    BY <1>3, ScanKeeps
  <2>2. \A d \in DOMAIN calls : calls'[d] = calls[d]
    BY <1>3, ScanKeeps
  <2>3. \A f \in DOMAIN files : files'[f] = files[f]
    BY <1>3, ScanKeeps
  <2>4. Len(calls') >= Len(calls) /\ sequence_number' >= sequence_number
    BY <1>1, <2>1
  <2>5. QED
    BY <2>1, <2>2, <2>3, <2>4
<1>4. CASE \E c \in DOMAIN calls : Called(c)
  BY <1>1, <1>4, CalledKeeps
<1>5. QED
  BY <1>2, <1>3, <1>4, Steps

LEMMA OvertakenStays ==
  ASSUME Types, OfReader, [Next]_vars, NEW c, Overtaken(c)
  PROVE  Overtaken(c)'
<1>1. PICK d \in DOMAIN calls : c \in calls[d].overtook
  BY DEF Overtaken
<1>2. DOMAIN calls \subseteq DOMAIN calls' /\ calls'[d].overtook = calls[d].overtook
  BY Stays
<1>3. QED
  BY <1>1, <1>2 DEF Overtaken

LEMMA NameStays ==
  ASSUME Types, OfReader, Made, [Next]_vars, NEW c \in DOMAIN calls
  PROVE  NameCameUpAgain(c)' <=> NameCameUpAgain(c)
<1>1. c \in 1..Len(calls) /\ Len(calls) \in Nat /\ DOMAIN calls = 1..Len(calls)
      /\ DOMAIN files = 1..Len(calls)
  BY DEF Types
<1>2. \A d \in 1..c : /\ d \in DOMAIN calls /\ d \in DOMAIN files
                      /\ calls[d].file = d /\ calls'[d].file = d
                      /\ calls'[d].made = calls[d].made
                      /\ files'[d].path = files[d].path
  BY <1>1, Stays DEF Made
<1>3. \A d \in 1..c-1 : d \in 1..c /\ c \in 1..c
  BY <1>1
<1>4. QED
  BY <1>2, <1>3 DEF NameCameUpAgain
-----------------------------------------------------------------------------
(* The calls, their files and the reader.                                  *)

LEMMA MadeStep ==
  ASSUME Types, OfReader, Made, [Next]_vars
  PROVE  Made'
<1>1. sequence_number \in Nat /\ sequence_number' >= sequence_number
      /\ sequence_number' \in Nat /\ Len(calls) \in Nat
      /\ \A d \in DOMAIN calls : calls[d].made \in Nat
  <2>1. sequence_number' \in Nat
    BY TypesStep DEF Types
  <2>2. \A d \in DOMAIN calls : calls[d] \in CallRecords
    BY DEF Types
  <2>3. QED
    BY <2>1, <2>2, Stays DEF Types, CallRecords
<1>2. \A d \in DOMAIN calls :
        /\ d \in DOMAIN files
        /\ calls'[d].file = d /\ calls'[d].made = calls[d].made
        /\ calls'[d].made < sequence_number'
        /\ \E time \in Ticks : files'[d].path = id(time, calls'[d].made, 0)
  <2>1. ASSUME NEW d \in DOMAIN calls
        PROVE  /\ d \in DOMAIN files
               /\ calls'[d].file = d /\ calls'[d].made = calls[d].made
               /\ calls'[d].made < sequence_number'
               /\ \E time \in Ticks : files'[d].path = id(time, calls'[d].made, 0)
    <3>1. d \in DOMAIN files
      BY DEF Types
    <3>2. calls'[d].file = calls[d].file /\ calls'[d].made = calls[d].made
          /\ files'[d].path = files[d].path
      BY <3>1, Stays
    <3>3. /\ calls[d].file = d /\ calls[d].made < sequence_number
          /\ \E time \in Ticks : files[d].path = id(time, calls[d].made, 0)
      BY DEF Made
    <3>4. calls[d].made < sequence_number'
      BY <1>1, <3>3
    <3>5. QED
      BY <3>1, <3>2, <3>3, <3>4
  <2>2. QED
    BY <2>1
<1>3. \A c, d \in DOMAIN calls : d < c => calls'[d].made < calls'[c].made
  BY <1>2 DEF Made
<1>4. CASE DOMAIN calls' = DOMAIN calls
  BY <1>2, <1>3, <1>4 DEF Made
<1>5. CASE sl_clicked /\ Len(calls') # Len(calls)
  <2> DEFINE n == Len(calls) + 1
  <2>1. DOMAIN calls' = DOMAIN calls \cup {n} /\ DOMAIN calls = 1..Len(calls)
        /\ sequence_number' = sequence_number + 1
    BY <1>5, ScanKeeps
  <2>2. calls'[n].file = n /\ calls'[n].made = sequence_number
    BY <1>5, CallIsMade
  <2>3. \E time \in Ticks : files'[n].path = id(time, sequence_number, 0)
    <3>1. PICK time \in Ticks :
            LET path == id(time, sequence_number, 0) IN
            path \in Names /\ files' = Append(files, [path |-> path, size |-> 0])
      BY <1>5, CallIsMade
    <3>2. files \in Seq(FileRecords) /\ Len(files) = Len(calls)
      BY DEF Types
    <3>3. files'[n] = [path |-> id(time, sequence_number, 0), size |-> 0]
      BY <3>1, <3>2
    <3>4. QED
      BY <3>3
  <2>4. calls'[n].made < sequence_number'
    BY <1>1, <2>1, <2>2
  <2>5. \A d \in DOMAIN calls : calls'[d].made < calls'[n].made
    <3>1. \A d \in DOMAIN calls : calls[d].made < sequence_number
      BY DEF Made
    <3>2. QED
      BY <1>2, <2>2, <3>1
  <2>6. \A c \in DOMAIN calls' : c \in DOMAIN calls \/ c = n
    BY <2>1
  <2>7. \A c \in DOMAIN calls : c < n /\ ~(n < c)
    BY <1>1, <2>1
  <2>8. ~(n < n)
    BY <1>1
  <2> HIDE DEF n
  <2>9. \A c, d \in DOMAIN calls' : d < c => calls'[d].made < calls'[c].made
    BY <1>3, <2>5, <2>6, <2>7, <2>8
  <2>10. \A c \in DOMAIN calls' :
           /\ calls'[c].file = c /\ calls'[c].made < sequence_number'
           /\ \E time \in Ticks : files'[c].path = id(time, calls'[c].made, 0)
    BY <1>2, <2>2, <2>3, <2>4, <2>6
  <2>11. QED
    BY <2>9, <2>10 DEF Made
<1>6. CASE ~(sl_clicked /\ Len(calls') # Len(calls))
  <2>1. DOMAIN calls' = DOMAIN calls
    BY <1>6, Steps, ElsewhereKeeps, CalledKeeps
  <2>2. QED
    BY <2>1, <1>4
<1>7. QED
  BY <1>5, <1>6

LEMMA ReadAllStep ==
  ASSUME Types, OfReader, ReadAll, [Next]_vars
  PROVE  ReadAll'
<1>1. CASE Elsewhere
  BY <1>1, ElsewhereKeeps DEF ReadAll
<1>2. CASE sl_clicked /\ Len(calls') # Len(calls)
  <2>1. calls'[Len(calls) + 1].status = "none"
    BY <1>2, CallIsMade
  <2>2. DOMAIN calls' = DOMAIN calls \cup {Len(calls) + 1}
        /\ \A d \in DOMAIN calls : calls'[d] = calls[d]
    BY <1>2, ScanKeeps
  <2>3. QED
    BY <2>1, <2>2 DEF ReadAll
<1>3. ASSUME NEW c \in DOMAIN calls, Called(c) PROVE ReadAll'
  <2>1. DOMAIN calls' = DOMAIN calls /\ \A d \in DOMAIN calls : d # c => calls'[d] = calls[d]
    BY <1>3, CalledKeeps
  <2>2. calls'[c].status = "OK" => calls'[c].read = Len(Document) + 1
    <3>1. CASE OnReadDone(c)
      <4>1. calls[c].read <= Len(Document) /\ calls[c].read \in Int /\ calls[c] \in CallRecords
        <5>1. calls[c] \in CallRecords
          BY DEF Types
        <5>2. QED
          BY <3>1, <5>1 DEF OnReadDone, CallRecords
      <4>2. calls[c].status # "OK"
        BY <4>1, Constants DEF ReadAll
      <4>3. calls' = [calls EXCEPT ![c] = [calls[c] EXCEPT !.read = @ + 1]]
        BY <3>1, CallReads
      <4>4. calls'[c].status = calls[c].status
        BY <4>1, <4>3 DEF CallRecords
      <4>5. QED
        BY <4>2, <4>4
    <3>2. CASE ~OnReadDone(c)
      <4>1. OnDone(c) \/ OnDoneResets(c) \/ OnDoneSignals(c) \/ FreedReader(c)
        BY <1>3, <3>2 DEF Called
      <4>2. CASE UNCHANGED calls
        BY <4>2 DEF ReadAll
      <4>3. CASE ~UNCHANGED calls
        <5>1. PICK r \in CallRecords :
                /\ calls' = [calls EXCEPT ![c] = r] /\ r.read = calls[c].read
                /\ \/ r.status = calls[c].status
                   \/ r.status = "OK" => r.read = Len(Document) + 1
          BY <4>1, <4>3, CallEnds
        <5>2. calls'[c] = r
          BY <5>1
        <5>3. QED
          BY <5>1, <5>2 DEF ReadAll
      <4>4. QED
        BY <4>2, <4>3
    <3>3. QED
      BY <3>1, <3>2
  <2>3. QED
    BY <2>1, <2>2 DEF ReadAll
<1>4. QED
  BY <1>1, <1>2, <1>3, Steps

\* Who is overtaken by a step is in the calls that a scan overtakes.
LEMMA WhoIsOvertaken ==
  ASSUME Types, OfReader, [Next]_vars, NEW c \in DOMAIN calls, ~Overtaken(c)'
  PROVE  ~Overtaken(c)
         /\ (sl_clicked /\ Len(calls') # Len(calls) => c \notin Overtakes)
<1>1. ~Overtaken(c)
  BY OvertakenStays
<1>2. ASSUME sl_clicked, Len(calls') # Len(calls) PROVE c \notin Overtakes
  <2>1. calls'[Len(calls) + 1].overtook = Overtakes /\ Len(calls) + 1 \in DOMAIN calls'
    BY <1>2, CallIsMade, ScanKeeps
  <2>2. QED
    BY <2>1 DEF Overtaken
<1>3. QED
  BY <1>1, <1>2

LEMMA OfReaderStep ==
  ASSUME Types, OfReader, Made, [Next]_vars
  PROVE  OfReader'
<1> DEFINE Of(c) ==
      calls[c].on = channel =>
       /\ reader.file # None
       /\ calls[c].at = "open" => c = Len(calls) /\ reader.in_progress /\ reader.file = c
       /\ calls[c].at \in {"cleared", "reset"} /\ ~Overtaken(c) =>
            c = Len(calls) /\ reader.file = c
<1>0. /\ \A c \in DOMAIN calls : Of(c)
      /\ reader.context # None => calls[reader.context].on = channel
  BY DEF OfReader
<1>1. CASE Elsewhere /\ ~change_channel
  <2>1. UNCHANGED <<calls, channel, reader>>
    BY <1>1, ElsewhereKeeps, NoCallIsMade DEF Elsewhere, on_clicked_get_scanners,
       Answered, FreedFetch, Exec, sl_clicked, vars
  <2>2. \A c : Overtaken(c)' = Overtaken(c)
    BY <2>1 DEF Overtaken
  <2>3. QED
    BY <2>1, <2>2 DEF OfReader
<1>2. CASE change_channel
  <2>1. channel' = channel + 1 /\ UNCHANGED calls /\ reader'.context = None
    BY <1>2 DEF change_channel, IdleReader
  <2>2. \A c \in DOMAIN calls : calls[c].on # channel + 1
    <3>1. \A c \in DOMAIN calls : calls[c] \in CallRecords /\ calls[c].on <= channel
      BY DEF Types
    <3>2. QED
      BY <3>1 DEF CallRecords, Types
  <2>3. QED
    BY <2>1, <2>2 DEF OfReader
<1>3. CASE sl_clicked /\ Len(calls') # Len(calls)
  <2> DEFINE n == Len(calls) + 1
  <2>1. /\ calls'[n].on = channel /\ calls'[n].at = "open" /\ ~reader.in_progress
        /\ reader' = [in_progress |-> TRUE, context |-> n, file |-> n]
    BY <1>3, CallIsMade
  <2>2. /\ DOMAIN calls' = DOMAIN calls \cup {n} /\ Len(calls') = n /\ Len(calls) \in Nat
        /\ \A d \in DOMAIN calls : calls'[d] = calls[d]
    BY <1>3, ScanKeeps
  <2>3. UNCHANGED channel
    BY <1>3 DEF sl_clicked
  <2>4. n # None
    BY <2>2 DEF None
  <2>5. ASSUME NEW c \in DOMAIN calls PROVE Of(c)'
    <3>1. SUFFICES ASSUME calls[c].on = channel
                   PROVE  calls[c].at # "open"
                          /\ (calls[c].at \in {"cleared", "reset"} => Overtaken(c)')
      BY <2>1, <2>2, <2>3, <2>4
    <3>2. calls[c].at # "open"
      BY <1>0, <2>1, <3>1
    <3>3. ASSUME calls[c].at \in {"cleared", "reset"} PROVE Overtaken(c)'
      <4>1. c \in Overtakes
        BY <3>1, <3>3 DEF Overtakes, InOnDone
      <4>2. QED
        BY <1>3, <4>1, WhoIsOvertaken
    <3>4. QED
      BY <3>2, <3>3
  <2> HIDE DEF n
  <2>6. ASSUME NEW c, c = n PROVE Of(c)'
    <3>1. reader'.file = c /\ reader'.in_progress /\ c = Len(calls') /\ calls'[c].at = "open"
      BY <2>1, <2>2, <2>6
    <3>2. QED
      BY <2>4, <2>6, <3>1
  <2>7. (reader.context # None => calls[reader.context].on = channel)'
    BY <2>1, <2>3
  <2>8. ASSUME NEW c \in DOMAIN calls' PROVE Of(c)'
    BY <2>2, <2>5, <2>6
  <2>9. QED
    BY <2>7, <2>8 DEF OfReader
<1>4. ASSUME NEW c \in DOMAIN calls, Called(c) PROVE OfReader'
  <2>1. /\ DOMAIN calls' = DOMAIN calls /\ Len(calls') = Len(calls)
        /\ \A d \in DOMAIN calls : calls'[d].on = calls[d].on
        /\ \A d \in DOMAIN calls : d # c => calls'[d] = calls[d]
    BY <1>4, CalledKeeps
  <2>2. UNCHANGED channel
    BY <1>4 DEF Called, OnReadDone, OnDone, OnDoneResets, OnDoneSignals, FreedReader
  <2>3. \/ UNCHANGED reader
        \/ OnDone(c) /\ reader' = [reader EXCEPT !.in_progress = FALSE]
        \/ reader' = [reader EXCEPT !.context = None]
    BY <1>4 DEF Called, OnReadDone, OnDone, OnDoneResets, OnDoneSignals, FreedReader
  <2>4. reader'.file = reader.file /\ (reader'.context = reader.context \/ reader'.context = None)
        /\ (~OnDone(c) => reader'.in_progress = reader.in_progress)
    <3>1. reader \in [in_progress : BOOLEAN, context : Nat, file : Nat]
      BY DEF Types
    <3>2. QED
      BY <2>3, <3>1
  <2>5. \A d \in DOMAIN calls : ~Overtaken(d)' => ~Overtaken(d)
    BY WhoIsOvertaken
  <2>6. reader'.context # None => reader'.context \in DOMAIN calls
    BY <2>4 DEF Types, None
  <2>7. ASSUME NEW d \in DOMAIN calls, d # c PROVE Of(d)'
    <3>1. CASE OnDone(c)
      <4>1. calls[c].on = channel /\ calls[c].at = "open"
        BY <3>1 DEF OnDone, Callback
      <4>2. c = Len(calls)
        BY <1>0, <4>1
      <4>3. calls'[d] = calls[d]
        BY <2>1, <2>7
      <4>4. calls[d].on = channel => calls[d].at # "open"
        BY <1>0, <2>7, <4>2
      <4>5. QED
        BY <1>0, <2>1, <2>2, <2>4, <2>5, <4>3, <4>4
    <3>2. CASE ~OnDone(c)
      BY <1>0, <2>1, <2>2, <2>4, <2>5, <2>7, <3>2
    <3>3. QED
      BY <3>1, <3>2
  <2>8. Of(c)'
    <3>1. CASE OnReadDone(c)
      <4>1. calls[c] \in CallRecords /\ calls[c].at = "open"
            /\ calls' = [calls EXCEPT ![c] = [calls[c] EXCEPT !.read = @ + 1]]
        BY <3>1, CallReads DEF OnReadDone, Types
      <4>2. calls'[c].at = "open"
        BY <4>1 DEF CallRecords
      <4>3. UNCHANGED reader
        BY <3>1 DEF OnReadDone
      <4>4. QED
        BY <1>0, <2>1, <2>2, <4>1, <4>2, <4>3
    <3>2. CASE ~OnReadDone(c)
      <4>1. SUFFICES ASSUME calls[c].on = channel PROVE Of(c)'
        BY <2>1, <2>2
      <4>2. /\ ~FreedReader(c)
            /\ OnDone(c) \/ OnDoneResets(c) \/ OnDoneSignals(c)
        <5>1. channel \in Int
          BY DEF Types
        <5>2. QED
          BY <1>4, <3>2, <4>1, <5>1 DEF Called, FreedReader
      <4>3. PICK r \in CallRecords : calls' = [calls EXCEPT ![c] = r] /\ r.at # "open"
                                     /\ (OnDoneSignals(c) => r.at = "over")
        <5>1. ~UNCHANGED calls
          <6>1. calls[c] \in CallRecords
            BY DEF Types
          <6>2. CASE OnDone(c)
            <7>1. calls[c].at = "open" /\ \E status : calls' =
                     [calls EXCEPT ![c].at = "cleared", ![c].status = status]
              BY <6>2 DEF OnDone
            <7>2. calls'[c].at = "cleared"
              BY <6>1, <7>1 DEF CallRecords
            <7>3. QED
              BY <7>1, <7>2
          <6>3. CASE OnDoneResets(c)
            <7>1. calls[c].at = "cleared" /\ calls'[c].at = "reset"
              BY <6>1, <6>3 DEF OnDoneResets, CallRecords
            <7>2. QED
              BY <7>1
          <6>4. CASE OnDoneSignals(c)
            <7>1. calls[c].at = "reset" /\ calls'[c].at = "over"
              BY <6>1, <6>4 DEF OnDoneSignals, CallRecords
            <7>2. QED
              BY <7>1
          <6>5. QED
            BY <4>2, <6>2, <6>3, <6>4
        <5>2. QED
          BY <4>2, <5>1, CallEnds
      <4>4. calls'[c].at # "open" /\ (OnDoneSignals(c) => calls'[c].at = "over")
        BY <4>3
      <4>5. calls[c].at = "open" \/ OnDoneSignals(c) \/ calls[c].at \in {"cleared", "reset"}
        BY <4>2 DEF OnDone, OnDoneResets
      <4>6. QED
        BY <1>0, <2>1, <2>2, <2>4, <2>5, <4>1, <4>4, <4>5
    <3>3. QED
      BY <3>1, <3>2
  <2>9. (reader.context # None => calls[reader.context].on = channel)'
    BY <1>0, <2>1, <2>2, <2>4, <2>6
  <2>10. QED
    BY <2>1, <2>7, <2>8, <2>9 DEF OfReader
<1>5. QED
  BY <1>1, <1>2, <1>3, <1>4, Steps
\* A chunk read by c is written to the end of c's own file.
LEMMA ChunkIsWritten ==
  ASSUME Types, OfReader, NEW c \in DOMAIN calls, OnReadDone(c)
  PROVE  /\ c = Len(calls)
         /\ calls'[c].read = calls[c].read + 1 /\ calls[c].read \in Nat
         /\ \/ calls[c].read = 0 /\ UNCHANGED disk
            \/ /\ calls[c].read \in 1..Len(Document)
               /\ disk' = [disk EXCEPT ![files[c].path] =
                             Append(@, <<c, Document[calls[c].read]>>)]
               /\ <<c, Document[calls[c].read]>> \in Nat \X Chunks
<1>1. calls[c].on = channel /\ calls[c].at = "open"
  BY DEF OnReadDone, Callback
<1>2. c = Len(calls) /\ reader.file = c
  BY <1>1 DEF OfReader
<1>3. calls[c] \in CallRecords
  BY DEF Types
<1>4. calls' = [calls EXCEPT ![c] = [calls[c] EXCEPT !.read = @ + 1]]
  BY CallReads
<1>5. calls'[c].read = calls[c].read + 1 /\ calls[c].read \in Nat
  BY <1>3, <1>4 DEF CallRecords
<1>6. QED
  BY <1>2, <1>5, CallReads

LEMMA HoldsStep ==
  ASSUME Types, OfReader, Made, Holds, [Next]_vars
  PROVE  Holds'
<1>1. /\ Len(calls) \in Nat /\ DOMAIN calls = 1..Len(calls) /\ DOMAIN files = DOMAIN calls
      /\ disk \in [Names -> Seq(Nat \X Chunks)]
  BY DEF Types
<1>2. \A c \in DOMAIN calls : /\ calls[c].read \in Nat /\ Wrote(c) \in Nat
                              /\ files[c].path \in Names
  <2>1. ASSUME NEW c \in DOMAIN calls
        PROVE  calls[c].read \in Nat /\ Wrote(c) \in Nat /\ files[c].path \in Names
    <3>1. calls[c] \in CallRecords /\ files[c] \in FileRecords
      BY <1>1 DEF Types
    <3>2. calls[c].read \in Nat /\ files[c].path \in Names
      BY <3>1 DEF CallRecords, FileRecords
    <3>3. QED
      BY <3>2 DEF Wrote
  <2>2. QED
    BY <2>1
<1>3. CASE UNCHANGED <<calls, files, disk>>
  <2>1. \A c \in DOMAIN calls : HoldsOf(c)'
    BY <1>3 DEF Holds, HoldsOf, Wrote, NameCameUpAgain
  <2>2. QED
    BY <1>3, <2>1 DEF Holds
<1>4. CASE sl_clicked /\ Len(calls') # Len(calls)
  <2> DEFINE n == Len(calls) + 1
  <2>1. /\ DOMAIN calls' = DOMAIN calls \cup {n} /\ Len(calls') = n
        /\ \A d \in DOMAIN calls : calls'[d] = calls[d]
        /\ DOMAIN files' = DOMAIN files \cup {n}
        /\ \A f \in DOMAIN files : files'[f] = files[f]
        /\ UNCHANGED disk
    <3>1. Len(files) = Len(calls)
      BY DEF Types
    <3>2. QED
      BY <1>4, <3>1, ScanKeeps
  <2>2. ASSUME NEW c \in DOMAIN calls PROVE HoldsOf(c)'
    <3>1. HoldsOf(c)
      BY DEF Holds
    <3>2. NameCameUpAgain(c)' <=> NameCameUpAgain(c)
      BY NameStays
    <3>3. calls'[c] = calls[c] /\ files'[c] = files[c] /\ c # Len(calls')
      BY <1>1, <2>1
    <3>4. QED
      BY <2>1, <3>1, <3>2, <3>3 DEF HoldsOf, Wrote
  <2>3. ASSUME NEW c, c = n PROVE HoldsOf(c)'
    <3>1. calls'[c].read = 0 /\ calls'[c].file = c
      BY <1>4, <2>3, CallIsMade
    <3>2. Wrote(c)' = 0
      BY <3>1 DEF Wrote
    <3>3. files'[c].path \in Names
      <4>1. files' \in Seq(FileRecords)
        BY TypesStep DEF Types
      <4>2. c \in DOMAIN files'
        BY <2>1, <2>3
      <4>3. files'[c] \in FileRecords
        BY <4>1, <4>2
      <4>4. QED
        BY <4>3 DEF FileRecords
    <3>4. Len(disk[files'[c].path]) \in Nat
      BY <1>1, <3>3
    <3>5. ASSUME ~NameCameUpAgain(c)' PROVE disk[files'[c].path] = <<>>
      <4>1. ASSUME NEW d \in DOMAIN files, files[d].path = files'[c].path PROVE FALSE
        <5>1. d \in DOMAIN calls /\ d \in DOMAIN calls' /\ c \in DOMAIN calls' /\ d < c
              /\ d \in 1..c-1
          BY <1>1, <2>1, <2>3
        <5>2. Made'
          BY MadeStep
        <5>3. calls'[d].file = d /\ calls'[c].file = c
              /\ calls'[d].made < calls'[c].made
          BY <5>1, <5>2 DEF Made
        <5>4. PICK s \in Ticks : files'[d].path = id(s, calls'[d].made, 0)
          BY <5>1, <5>2 DEF Made
        <5>5. PICK u \in Ticks : files'[c].path = id(u, calls'[c].made, 0)
          BY <5>1, <5>2 DEF Made
        <5>6. files'[d].path = files'[c].path
          BY <2>1, <4>1
        <5>7. calls'[d].made \in Nat /\ calls'[c].made \in Nat
          <6>1. calls'[d] \in CallRecords /\ calls'[c] \in CallRecords
            <7>1. calls' \in Seq(CallRecords)
              BY TypesStep DEF Types
            <7>2. QED
              BY <5>1, <7>1
          <6>2. QED
            BY <6>1 DEF CallRecords
        <5>8. calls'[c].made - calls'[d].made >= 2^SEQ_BITS
          BY <5>3, <5>4, <5>5, <5>6, <5>7, DistinctNames
        <5>9. QED
          BY <3>5, <5>1, <5>3, <5>6, <5>8 DEF NameCameUpAgain
      <4>2. QED
        BY <3>3, <4>1 DEF Holds
    <3>6. ~NameCameUpAgain(c)' => Len(disk[files'[c].path]) = 0
      BY <3>5, EmptySeq
    <3>7. \A i \in 1..0 : FALSE
      OBVIOUS
    <3>8. QED
      BY <2>1, <3>2, <3>4, <3>6, <3>7 DEF HoldsOf
  <2>4. \A name \in Names : (\A f \in DOMAIN files' : files'[f].path # name) => disk'[name] = <<>>
    BY <2>1 DEF Holds
  <2>5. \A c \in DOMAIN calls' : HoldsOf(c)'
    BY <2>1, <2>2, <2>3
  <2>6. QED
    BY <2>4, <2>5 DEF Holds
<1>5. ASSUME NEW c \in DOMAIN calls, Called(c) PROVE Holds'
  <2>1. /\ DOMAIN calls' = DOMAIN calls /\ Len(calls') = Len(calls)
        /\ \A d \in DOMAIN calls : d # c => calls'[d] = calls[d]
        /\ DOMAIN files' = DOMAIN files
        /\ \A f \in DOMAIN files : files'[f].path = files[f].path
    BY <1>5, CalledKeeps
  <2>2. \A d \in DOMAIN calls : NameCameUpAgain(d)' <=> NameCameUpAgain(d)
    BY NameStays
  <2>3. CASE UNCHANGED disk /\ Wrote(c)' = Wrote(c)
    <3>1. \A d \in DOMAIN calls : Wrote(d)' = Wrote(d)
      BY <2>1, <2>3 DEF Wrote
    <3>2. \A d \in DOMAIN calls : files'[d].path = files[d].path
      BY <1>1, <2>1
    <3>3. \A d \in DOMAIN calls : HoldsOf(d)'
      BY <2>1, <2>2, <2>3, <3>1, <3>2 DEF HoldsOf, Holds
    <3>4. QED
      BY <2>1, <2>3, <3>3 DEF Holds
  <2>4. CASE OnReadDone(c) /\ calls[c].read # 0
    <3> DEFINE path == files[c].path
               x == <<c, Document[calls[c].read]>>
    <3>1. /\ c = Len(calls) /\ calls'[c].read = calls[c].read + 1
          /\ disk' = [disk EXCEPT ![path] = Append(@, x)] /\ x \in Nat \X Chunks
      BY <2>4, ChunkIsWritten
    <3>2. Wrote(c)' = calls[c].read /\ Wrote(c) = calls[c].read - 1
      BY <1>2, <2>4, <3>1 DEF Wrote
    <3>3. path \in Names /\ disk[path] \in Seq(Nat \X Chunks)
      BY <1>1, <1>2
    <3>4. /\ disk'[path] = Append(disk[path], x)
          /\ \A name \in Names : name # path => disk'[name] = disk[name]
      BY <1>1, <3>1, <3>3
    <3> HIDE DEF path, x
    <3>5. /\ Len(disk'[path]) = Len(disk[path]) + 1 /\ Len(disk[path]) \in Nat
          /\ \A i \in 1..Len(disk[path]) : disk'[path][i] = disk[path][i]
          /\ disk'[path][Len(disk[path]) + 1] = x
      BY <3>1, <3>3, <3>4, AppendProperties
    <3>6. ASSUME NEW d \in DOMAIN calls, d # c PROVE HoldsOf(d)'
      <4>1. HoldsOf(d) /\ Wrote(d)' = Wrote(d) /\ files'[d].path = files[d].path
            /\ d # Len(calls') /\ Wrote(d) \in Nat /\ files[d].path \in Names
        BY <1>1, <1>2, <2>1, <3>1, <3>6 DEF Holds, Wrote
      <4>2. CASE files[d].path = path
        <5>1. Len(disk[path]) >= Wrote(d) /\ Len(disk'[path]) >= Wrote(d)
          BY <3>5, <4>1, <4>2 DEF HoldsOf
        <5>2. \A i \in 1..Wrote(d) : disk'[path][i] = disk[path][i]
          BY <3>5, <4>1, <5>1
        <5>3. QED
          BY <2>2, <4>1, <4>2, <5>1, <5>2 DEF HoldsOf
      <4>3. CASE files[d].path # path
        <5>1. disk'[files[d].path] = disk[files[d].path]
          BY <3>4, <4>1, <4>3
        <5>2. QED
          BY <2>2, <4>1, <5>1 DEF HoldsOf
      <4>4. QED
        BY <4>2, <4>3
    <3>7. HoldsOf(c)'
      <4>1. HoldsOf(c)
        BY DEF Holds
      <4>2. files'[c].path = path /\ files[c].path = path
        BY <1>1, <2>1 DEF path
      <4>3. Len(disk'[path]) >= Wrote(c)'
        BY <1>2, <3>2, <3>5, <4>1, <4>2 DEF HoldsOf
      <4>4. ASSUME ~NameCameUpAgain(c)'
            PROVE  /\ \A i \in 1..Wrote(c)' : disk'[path][i] = <<c, Document[i]>>
                   /\ Len(disk'[path]) = Wrote(c)'
        <5>1. /\ \A i \in 1..Wrote(c) : disk[path][i] = <<c, Document[i]>>
              /\ Len(disk[path]) = Wrote(c)
          BY <2>2, <3>1, <4>1, <4>2, <4>4 DEF HoldsOf
        <5>2. Wrote(c)' = Len(disk[path]) + 1 /\ calls[c].read = Len(disk[path]) + 1
          BY <1>2, <3>2, <5>1
        <5>3. ASSUME NEW i \in 1..Wrote(c)' PROVE disk'[path][i] = <<c, Document[i]>>
          <6>1. CASE i = Len(disk[path]) + 1
            BY <3>5, <5>2, <6>1 DEF x
          <6>2. CASE i # Len(disk[path]) + 1
            <7>1. i \in 1..Len(disk[path])
              BY <3>5, <5>2, <6>2
            <7>2. QED
              BY <3>5, <5>1, <7>1
          <6>3. QED
            BY <6>1, <6>2
        <5>4. QED
          BY <3>5, <5>2, <5>3
      <4>5. QED
        BY <4>2, <4>3, <4>4 DEF HoldsOf
    <3>8. \A name \in Names : (\A f \in DOMAIN files' : files'[f].path # name) => disk'[name] = <<>>
      <4>1. c \in DOMAIN files
        BY <1>1
      <4>2. QED
        BY <2>1, <3>4, <4>1 DEF Holds, path
    <3>9. QED
      BY <2>1, <3>6, <3>7, <3>8 DEF Holds
  <2>5. CASE OnReadDone(c) /\ calls[c].read = 0
    <3>1. calls'[c].read = 1 /\ UNCHANGED disk
      <4>1. calls'[c].read = calls[c].read + 1
        BY <2>5, ChunkIsWritten
      <4>2. UNCHANGED disk \/ calls[c].read \in 1..Len(Document)
        BY <2>5, ChunkIsWritten
      <4>3. 0 + 1 = 1 /\ 0 \notin 1..Len(Document)
        BY Constants
      <4>4. QED
        BY <2>5, <4>1, <4>2, <4>3
    <3>2. Wrote(c)' = 0 /\ Wrote(c) = 0
      BY <2>5, <3>1 DEF Wrote
    <3>3. QED
      BY <2>3, <3>1, <3>2
  <2>6. CASE ~OnReadDone(c)
    <3>1. OnDone(c) \/ OnDoneResets(c) \/ OnDoneSignals(c) \/ FreedReader(c)
      BY <1>5, <2>6 DEF Called
    <3>2. UNCHANGED disk
      BY <3>1 DEF OnDone, OnDoneResets, OnDoneSignals, FreedReader, disk_vars
    <3>3. calls'[c].read = calls[c].read
      BY <3>1, CallEnds
    <3>4. QED
      BY <2>3, <3>2, <3>3 DEF Wrote
  <2>7. QED
    BY <2>4, <2>5, <2>6
<1>6. QED
  BY <1>3, <1>4, <1>5, Steps, ElsewhereKeeps
-----------------------------------------------------------------------------
(* The queue, the pages and the misuses.                                   *)

LEMMA OverStays ==
  ASSUME Types, OfReader, [Next]_vars, NEW c \in DOMAIN calls, calls[c].at = "over"
  PROVE  calls'[c].at = "over" /\ c \in DOMAIN calls'
<1>1. CASE Elsewhere
  BY <1>1, ElsewhereKeeps
<1>2. CASE sl_clicked /\ Len(calls') # Len(calls)
  BY <1>2, ScanKeeps
<1>3. ASSUME NEW d \in DOMAIN calls, Called(d)
      PROVE  calls'[c].at = "over" /\ c \in DOMAIN calls'
  <2>1. d # c
    BY <1>3 DEF Called, OnReadDone, OnDone, OnDoneResets, OnDoneSignals, FreedReader
  <2>2. QED
    BY <1>3, <2>1, CalledKeeps
<1>4. QED
  BY <1>1, <1>2, <1>3, Steps

\* What an answer puts into the queue.
LEMMA AnsweredQueue ==
  ASSUME Types, Answered
  PROVE  \/ \E type \in EndsOfRefresh : queue' = Append(queue, Signal(type))
         \/ \E found \in SUBSET Scanners :
              queue' = queue \o <<[type |-> "sl_get_scanners", scanners |-> found],
                                  Signal("sig_get_scanners")>>
<1>0. queue \in Seq(Signals)
  BY DEF Types
<1>1. ASSUME NEW s \in Signals PROVE queue \o <<s>> = Append(queue, s)
  BY <1>0, AppendIsConcat
<1>2. CASE refresh_scanners
  <2>1. PICK type \in EndsOfRefresh : queue' = queue \o <<Signal(type)>>
    BY <1>2 DEF refresh_scanners, Emit, EndsOfRefresh
  <2>2. QED
    BY <1>1, <2>1, SignalIsSignal
<1>3. CASE get_scanners
  <2>1. CASE Emit(<<Signal("sig_get_scanners_failed")>>)
    <3>1. Signal("sig_get_scanners_failed") \in Signals
          /\ "sig_get_scanners_failed" \in EndsOfRefresh
      BY SignalIsSignal DEF EndsOfRefresh
    <3>2. queue' = Append(queue, Signal("sig_get_scanners_failed"))
      BY <1>1, <2>1, <3>1 DEF Emit
    <3>3. QED
      BY <3>1, <3>2
  <2>2. QED
    BY <1>3, <2>1 DEF get_scanners, Emit
<1>4. QED
  BY <1>2, <1>3 DEF Answered

\* What becomes of the queue.
LEMMA QueueSteps ==
  ASSUME Types, [Next]_vars
  PROVE  \/ UNCHANGED queue /\ ~Exec /\ ~Answered
         \/ /\ Exec /\ queue # <<>> /\ queue' = Tail(queue)
         \/ /\ change_channel
            /\ drop_list_signal
         \/ \E c \in DOMAIN calls :
              /\ OnDoneSignals(c)
              /\ queue' = Append(queue, [type |-> "sig_done", call |-> c, file |-> reader.file])
         \/ /\ Answered
            /\ \/ \E type \in EndsOfRefresh : queue' = Append(queue, Signal(type))
               \/ \E found \in SUBSET Scanners :
                    queue' = queue \o <<[type |-> "sl_get_scanners", scanners |-> found],
                                        Signal("sig_get_scanners")>>
<1>0. queue \in Seq(Signals)
  BY DEF Types
<1>1. ASSUME NEW s \in Signals PROVE queue \o <<s>> = Append(queue, s)
  BY <1>0, AppendIsConcat
<1>2. CASE Exec
  BY <1>2 DEF Exec
<1>3. CASE change_channel
  BY <1>3 DEF change_channel
<1>4. ASSUME NEW c \in DOMAIN calls, OnDoneSignals(c)
      PROVE  queue' = Append(queue, [type |-> "sig_done", call |-> c, file |-> reader.file])
  <2>1. c \in Nat /\ reader.file \in Nat
    BY DEF Types
  <2>2. QED
    BY <1>1, <1>4, <2>1, SignalIsSignal DEF OnDoneSignals, Emit
<1>5. CASE Answered
  BY <1>5, AnsweredQueue
<1>6. ASSUME ~Exec, ~change_channel, ~Answered, \A c \in DOMAIN calls : ~OnDoneSignals(c)
      PROVE  UNCHANGED queue
  <2>1. \/ on_clicked_get_scanners \/ sl_clicked \/ FreedFetch \/ UNCHANGED vars
        \/ \E c \in DOMAIN calls :
             OnReadDone(c) \/ OnDone(c) \/ OnDoneResets(c) \/ FreedReader(c)
    BY <1>6 DEF Next, User, FetchStep, CallStep
  <2>2. QED
    BY <2>1 DEF on_clicked_get_scanners, sl_clicked, FreedFetch, vars, OnReadDone, OnDone,
       OnDoneResets, FreedReader
<1>7. QED
  BY <1>2, <1>3, <1>4, <1>5, <1>6

\* A signal in the queue after a step was there, or is of that step.
LEMMA SignalIsOldOrNew ==
  ASSUME Types, [Next]_vars, NEW k \in DOMAIN queue', queue'[k].type = "sig_done"
  PROVE  \/ \E j \in DOMAIN queue : queue'[k] = queue[j]
         \/ \E c \in DOMAIN calls :
              OnDoneSignals(c)
              /\ queue'[k] = [type |-> "sig_done", call |-> c, file |-> reader.file]
<1>0. queue \in Seq(Signals)
  BY DEF Types
<1>1. CASE UNCHANGED queue
  BY <1>1
<1>2. CASE queue # <<>> /\ queue' = Tail(queue)
  BY <1>0, <1>2, QueueShrinks
<1>3. CASE drop_list_signal
  <2>1. CASE UNCHANGED queue
    BY <2>1
  <2>2. ASSUME NEW i \in DOMAIN queue,
               queue' = SubSeq(queue, 1, i - 1) \o SubSeq(queue, i + 1, Len(queue))
        PROVE  \E j \in DOMAIN queue : queue'[k] = queue[j]
    BY <1>0, <2>2, QueueShrinks
  <2>3. QED
    BY <1>3, <2>1, <2>2 DEF drop_list_signal
<1>4. ASSUME NEW s \in Signals, queue' = Append(queue, s)
      PROVE  queue'[k] = s \/ \E j \in DOMAIN queue : queue'[k] = queue[j]
  <2>1. /\ Len(queue') = Len(queue) + 1 /\ Len(queue) \in Nat
        /\ queue' \in Seq(Signals)
        /\ \A i \in 1..Len(queue) : queue'[i] = queue[i]
        /\ queue'[Len(queue) + 1] = s
    BY <1>0, <1>4, AppendProperties
  <2>2. k \in 1..Len(queue) + 1 /\ DOMAIN queue = 1..Len(queue)
    BY <1>0, <2>1
  <2>3. k = Len(queue) + 1 \/ k \in 1..Len(queue)
    BY <2>1, <2>2
  <2>4. QED
    BY <2>1, <2>2, <2>3
<1>5. ASSUME NEW s \in Signals, NEW t \in Signals, queue' = queue \o <<s, t>>
      PROVE  queue'[k] \in {s, t} \/ \E j \in DOMAIN queue : queue'[k] = queue[j]
  <2>1. <<s, t>> \in Seq(Signals) /\ Len(<<s, t>>) = 2
        /\ <<s, t>>[1] = s /\ <<s, t>>[2] = t
    OBVIOUS
  <2>2. /\ Len(queue') = Len(queue) + 2 /\ Len(queue) \in Nat /\ queue' \in Seq(Signals)
        /\ \A i \in 1..Len(queue) + 2 :
             queue'[i] = IF i <= Len(queue) THEN queue[i] ELSE <<s, t>>[i - Len(queue)]
    BY <1>0, <1>5, <2>1, ConcatProperties
  <2>3. k \in 1..Len(queue) + 2 /\ DOMAIN queue = 1..Len(queue)
    BY <1>0, <2>2
  <2>4. CASE k <= Len(queue)
    BY <2>2, <2>3, <2>4
  <2>5. CASE ~(k <= Len(queue))
    <3>1. k - Len(queue) \in {1, 2}
      BY <2>2, <2>3, <2>5
    <3>2. QED
      BY <2>1, <2>2, <2>3, <2>5, <3>1
  <2>6. QED
    BY <2>4, <2>5
<1>6. ASSUME NEW c \in DOMAIN calls, OnDoneSignals(c),
             queue' = Append(queue, [type |-> "sig_done", call |-> c, file |-> reader.file])
      PROVE  \/ \E j \in DOMAIN queue : queue'[k] = queue[j]
             \/ queue'[k] = [type |-> "sig_done", call |-> c, file |-> reader.file]
  <2>1. c \in Nat /\ reader.file \in Nat
    BY DEF Types
  <2>2. QED
    BY <1>4, <1>6, <2>1, SignalIsSignal
<1>7. ASSUME NEW type \in EndsOfRefresh, queue' = Append(queue, Signal(type))
      PROVE  \E j \in DOMAIN queue : queue'[k] = queue[j]
  <2>1. Signal(type) \in Signals /\ Signal(type).type # "sig_done"
    BY SignalIsSignal DEF Signal, EndsOfRefresh
  <2>2. QED
    BY <1>4, <1>7, <2>1
<1>8. ASSUME NEW found \in SUBSET Scanners,
             queue' = queue \o <<[type |-> "sl_get_scanners", scanners |-> found],
                                 Signal("sig_get_scanners")>>
      PROVE  \E j \in DOMAIN queue : queue'[k] = queue[j]
  <2>1. [type |-> "sl_get_scanners", scanners |-> found] \in Signals
        /\ Signal("sig_get_scanners") \in Signals
    BY SignalIsSignal DEF EndsOfRefresh
  <2>2. Signal("sig_get_scanners").type # "sig_done"
    BY DEF Signal
  <2>3. QED
    BY <1>5, <1>8, <2>1, <2>2
<1>9. QED
  BY <1>1, <1>2, <1>3, <1>6, <1>7, <1>8, QueueSteps
LEMMA OwnFileStep ==
  ASSUME Types, OfReader, OwnFile, [Next]_vars
  PROVE  OwnFile'
<1> SUFFICES ASSUME NEW k \in DOMAIN queue', queue'[k].type = "sig_done",
                    NEW c, c = queue'[k].call, NEW f, f = queue'[k].file
             PROVE  OwnFileOf(c, f)'
  BY DEF OwnFile
<1>1. ASSUME NEW j \in DOMAIN queue, queue'[k] = queue[j]
      PROVE  OwnFileOf(c, f)'
  <2>1. OwnFileOf(c, f)
    BY <1>1 DEF OwnFile
  <2>2. c \in DOMAIN calls /\ f \in DOMAIN files'
    BY <2>1, Stays DEF OwnFileOf
  <2>3. c \in DOMAIN calls' /\ calls'[c].at = "over"
    BY <2>1, <2>2, OverStays DEF OwnFileOf
  <2>4. Overtaken(c) => Overtaken(c)'
    BY OvertakenStays
  <2>5. QED
    BY <2>1, <2>2, <2>3, <2>4 DEF OwnFileOf
<1>2. ASSUME NEW d \in DOMAIN calls, OnDoneSignals(d),
             queue'[k] = [type |-> "sig_done", call |-> d, file |-> reader.file]
      PROVE  OwnFileOf(c, f)'
  <2>1. /\ calls[d].on = channel /\ calls[d].at = "reset"
        /\ calls' = [calls EXCEPT ![d].at = "over"] /\ UNCHANGED disk_vars
    BY <1>2 DEF OnDoneSignals, Callback
  <2>2. d \in DOMAIN calls' /\ calls'[d].at = "over"
    <3>1. calls[d] \in CallRecords
      BY DEF Types
    <3>2. QED
      BY <2>1, <3>1 DEF CallRecords
  <2>3. reader.file \in DOMAIN files'
    BY <2>1, ReadsInto DEF disk_vars
  <2>4. ~Overtaken(d)' => reader.file = d
    BY <2>1, WhoIsOvertaken DEF OfReader
  <2>5. c = d /\ f = reader.file
    BY <1>2
  <2>6. QED
    BY <2>2, <2>3, <2>4, <2>5 DEF OwnFileOf
<1>3. QED
  BY <1>1, <1>2, SignalIsOldOrNew

\* The page that an answer adds.
LEMMA PageIsOfScan ==
  ASSUME Types, ReadAll, Holds, OwnFile, NEW k \in DOMAIN queue,
         queue[k].type = "sig_done", calls[queue[k].call].status = "OK"
  PROVE  LET c == queue[k].call
             data == Contents(disk, files[queue[k].file])
             shows == SubSeq(data, 1, IF Len(data) < Len(Document)
                                      THEN Len(data) ELSE Len(Document))
         IN \/ Overtaken(c)
            \/ /\ Len(data) >= Len(Document)
               /\ \/ NameCameUpAgain(c)
                  \/ shows = [i \in DOMAIN Document |-> <<c, Document[i]>>]
<1> DEFINE c == queue[k].call
           data == Contents(disk, files[queue[k].file])
           shows == SubSeq(data, 1, IF Len(data) < Len(Document)
                                    THEN Len(data) ELSE Len(Document))
<1>1. c \in DOMAIN calls /\ (Overtaken(c) \/ queue[k].file = c)
  BY DEF OwnFile, OwnFileOf
<1>2. SUFFICES ASSUME ~Overtaken(c)
               PROVE  /\ Len(data) >= Len(Document)
                      /\ \/ NameCameUpAgain(c)
                         \/ shows = [i \in DOMAIN Document |-> <<c, Document[i]>>]
  OBVIOUS
<1>3. data = disk[files[c].path]
  BY <1>1, <1>2 DEF Contents
<1>4. Wrote(c) = Len(Document) /\ Len(Document) \in Nat
  <2>1. calls[c].read = Len(Document) + 1
    BY <1>1 DEF ReadAll
  <2>2. QED
    BY <2>1, Constants DEF Wrote
<1>5. data \in Seq(Nat \X Chunks)
  <2>1. c \in DOMAIN files
    BY <1>1 DEF Types
  <2>2. files[c] \in FileRecords
    BY <2>1 DEF Types
  <2>3. files[c].path \in Names
    BY <2>2 DEF FileRecords
  <2>4. QED
    BY <1>3, <2>3 DEF Types
<1>6. HoldsOf(c)
  BY <1>1 DEF Holds
<1>7. Len(data) >= Len(Document)
  BY <1>3, <1>4, <1>6 DEF HoldsOf
<1>8. ASSUME ~NameCameUpAgain(c)
      PROVE  shows = [i \in DOMAIN Document |-> <<c, Document[i]>>]
  <2>1. \A i \in 1..Len(Document) : data[i] = <<c, Document[i]>>
    BY <1>3, <1>4, <1>6, <1>8 DEF HoldsOf
  <2> HIDE DEF data, c
  <2>2. shows = SubSeq(data, 1, Len(Document))
    BY <1>4, <1>5, <1>7
  <2>3. SubSeq(data, 1, Len(Document)) = [i \in 1..Len(Document) |-> data[i]]
    BY <1>4, <1>5, <1>7
  <2>4. DOMAIN Document = 1..Len(Document)
    BY Constants
  <2>5. QED
    BY <2>1, <2>2, <2>3, <2>4
<1>9. QED
  BY <1>7, <1>8

LEMMA PagesStep ==
  ASSUME Types, OfReader, Made, ReadAll, Holds, OwnFile, PagesOfCalls, FileHoldsScan,
         [Next]_vars
  PROVE  PagesOfCalls' /\ FileHoldsScan'
<1> DEFINE Good(page) == \/ page.shows = [i \in DOMAIN Document |-> <<page.call, Document[i]>>]
                         \/ Overtaken(page.call)
                         \/ NameCameUpAgain(page.call)
<1>1. ASSUME NEW page, page.call \in DOMAIN calls, Good(page)
      PROVE  page.call \in DOMAIN calls' /\ Good(page)'
  <2>1. PICK c \in DOMAIN calls : c = page.call
    BY <1>1
  <2>2. c \in DOMAIN calls' /\ (Overtaken(c) => Overtaken(c)')
        /\ (NameCameUpAgain(c)' <=> NameCameUpAgain(c))
    BY Stays, OvertakenStays, NameStays
  <2>3. QED
    BY <1>1, <2>1, <2>2
<1>2. \A page \in pages : page.call \in DOMAIN calls /\ Good(page)
  BY DEF PagesOfCalls, FileHoldsScan
<1>3. CASE UNCHANGED pages
  <2>1. \A page \in pages' : page.call \in DOMAIN calls' /\ Good(page)'
    BY <1>1, <1>2, <1>3
  <2>2. QED
    BY <2>1 DEF PagesOfCalls, FileHoldsScan
<1>4. CASE Exec /\ sl_sig_done(Head(queue)) /\ Head(queue).type = "sig_done" /\ ~UNCHANGED pages
  <2>1. Head(queue) = queue[1] /\ 1 \in DOMAIN queue
    BY <1>4, QueueShrinks DEF Exec, Types
  <2> DEFINE done == queue[1]
             data == Contents(disk, files[done.file])
             shows == SubSeq(data, 1, IF Len(data) < Len(Document)
                                      THEN Len(data) ELSE Len(Document))
             new == [call |-> done.call, shows |-> shows]
  <2>2. calls[done.call].status = "OK" /\ pages' = pages \cup {new}
    BY <1>4, <2>1 DEF sl_sig_done, AddPage
  <2>3. new.call \in DOMAIN calls
    BY <1>4, <2>1 DEF OwnFile, OwnFileOf
  <2>4. Good(new)
    BY <1>4, <2>1, <2>2, PageIsOfScan
  <2>5. \A page \in pages' : page.call \in DOMAIN calls /\ Good(page)
    BY <1>2, <2>2, <2>3, <2>4
  <2>6. \A page \in pages' : page.call \in DOMAIN calls' /\ Good(page)'
    BY <1>1, <2>5
  <2>7. QED
    BY <2>6 DEF PagesOfCalls, FileHoldsScan
<1>5. CASE Exec /\ ~UNCHANGED pages
  <2>1. sl_sig_done(Head(queue)) /\ Head(queue).type = "sig_done"
    BY <1>5 DEF Exec, sl_get_scanners, sl_refresh_scanners, enable_button
  <2>2. QED
    BY <1>4, <1>5, <2>1
<1>6. CASE ~Exec
  <2>1. UNCHANGED pages
    BY <1>6 DEF Next, User, FetchStep, CallStep, on_clicked_get_scanners, sl_clicked,
       Answered, FreedFetch, OnReadDone, OnDone, OnDoneResets, OnDoneSignals, FreedReader,
       change_channel, vars
  <2>2. QED
    BY <1>3, <2>1
<1>7. QED
  BY <1>3, <1>5, <1>6
-----------------------------------------------------------------------------
(* Refresh and the list of scanners.                                       *)

\* The part of OneFetch that is about the queue alone.
QueueOrder ==
  /\ \A j, k \in DOMAIN queue : IsEnd(j) /\ IsEnd(k) => j = k
  /\ \A j, k \in DOMAIN queue : IsList(j) /\ IsList(k) => j = k
  /\ \A j \in DOMAIN queue : IsList(j) =>
       \E k \in DOMAIN queue : j < k /\ queue[k].type = "sig_get_scanners"

NoEnd == \A k \in DOMAIN queue : ~IsEnd(k)

LEMMA OneFetchParts ==
  OneFetch <=> /\ QueueOrder
               /\ fetch.rpc # "none" \/ refresh_enabled => NoEnd
               /\ refresh_enabled => fetch.rpc = "none"
  BY DEF OneFetch, QueueOrder, NoEnd

LEMMA NoEndNoList ==
  ASSUME QueueOrder, NoEnd
  PROVE  \A k \in DOMAIN queue : ~IsList(k)
  BY DEF QueueOrder, NoEnd, IsEnd, IsList, EndsOfRefresh

\* The first signal is handled.
LEMMA TailKeepsOrder ==
  ASSUME queue \in Seq(Signals), QueueOrder, queue # <<>>, queue' = Tail(queue)
  PROVE  /\ QueueOrder'
         /\ NoEnd => NoEnd'
         /\ Head(queue).type \in EndsOfRefresh => NoEnd'
         /\ Head(queue).type = "sl_get_scanners" => \A k \in DOMAIN queue' : ~IsList(k)'
         /\ \A k \in DOMAIN queue' : queue'[k] = queue[k + 1] /\ k + 1 \in DOMAIN queue
<1>1. /\ Head(queue) = queue[1] /\ 1 \in DOMAIN queue
      /\ \A k \in DOMAIN queue' : queue'[k] = queue[k + 1] /\ k + 1 \in DOMAIN queue
      /\ Len(queue') = Len(queue) - 1 /\ Len(queue) \in Nat
      /\ DOMAIN queue' = 1..Len(queue) - 1 /\ DOMAIN queue = 1..Len(queue)
  BY QueueShrinks
<1>2. \A k \in DOMAIN queue' : /\ k \in Nat /\ k + 1 # 1
                               /\ IsEnd(k)' = (queue[k + 1].type \in EndsOfRefresh)
                               /\ IsList(k)' = (queue[k + 1].type = "sl_get_scanners")
  BY <1>1 DEF IsEnd, IsList
<1>3. \A j, k \in DOMAIN queue' : IsEnd(j)' /\ IsEnd(k)' => j = k
  <2>1. ASSUME NEW j \in DOMAIN queue', NEW k \in DOMAIN queue', IsEnd(j)', IsEnd(k)'
        PROVE  j = k
    <3>1. j + 1 = k + 1
      BY <1>1, <1>2, <2>1 DEF QueueOrder, IsEnd
    <3>2. QED
      BY <1>2, <3>1
  <2>2. QED
    BY <2>1
<1>4. \A j, k \in DOMAIN queue' : IsList(j)' /\ IsList(k)' => j = k
  <2>1. ASSUME NEW j \in DOMAIN queue', NEW k \in DOMAIN queue', IsList(j)', IsList(k)'
        PROVE  j = k
    <3>1. j + 1 = k + 1
      BY <1>1, <1>2, <2>1 DEF QueueOrder, IsList
    <3>2. QED
      BY <1>2, <3>1
  <2>2. QED
    BY <2>1
<1>5. ASSUME NEW j \in DOMAIN queue', IsList(j)'
      PROVE  \E k \in DOMAIN queue' : j < k /\ queue'[k].type = "sig_get_scanners"
  <2>1. PICK k \in DOMAIN queue : j + 1 < k /\ queue[k].type = "sig_get_scanners"
    BY <1>1, <1>2, <1>5 DEF QueueOrder, IsList
  <2>2. k - 1 \in DOMAIN queue' /\ (k - 1) + 1 = k /\ j < k - 1
    BY <1>1, <1>2, <2>1
  <2>3. QED
    BY <1>1, <2>1, <2>2
<1>6. NoEnd => NoEnd'
  BY <1>1, <1>2 DEF NoEnd, IsEnd
<1>7. ASSUME Head(queue).type \in EndsOfRefresh PROVE NoEnd'
  BY <1>1, <1>2, <1>7 DEF NoEnd, QueueOrder, IsEnd
<1>8. ASSUME Head(queue).type = "sl_get_scanners" PROVE \A k \in DOMAIN queue' : ~IsList(k)'
  BY <1>1, <1>2, <1>8 DEF QueueOrder, IsList
<1>9. QED
  BY <1>1, <1>3, <1>4, <1>5, <1>6, <1>7, <1>8 DEF QueueOrder

\* A signal is added; an end of a refresh only where there is none.
LEMMA AppendKeepsOrder ==
  ASSUME queue \in Seq(Signals), QueueOrder, NEW s \in Signals, queue' = Append(queue, s),
         s.type # "sl_get_scanners", s.type \in EndsOfRefresh => NoEnd
  PROVE  /\ QueueOrder'
         /\ NoEnd /\ s.type \notin EndsOfRefresh => NoEnd'
<1>1. /\ Len(queue') = Len(queue) + 1 /\ Len(queue) \in Nat
      /\ DOMAIN queue' = 1..Len(queue) + 1 /\ DOMAIN queue = 1..Len(queue)
      /\ \A i \in 1..Len(queue) : queue'[i] = queue[i]
      /\ queue'[Len(queue) + 1] = s
  BY AppendProperties
<1>2. \A k \in DOMAIN queue' : k \in DOMAIN queue \/ k = Len(queue) + 1
  BY <1>1
<1>3. \A k \in DOMAIN queue : /\ k \in DOMAIN queue' /\ k # Len(queue) + 1
                              /\ IsEnd(k)' = IsEnd(k) /\ IsList(k)' = IsList(k)
  BY <1>1 DEF IsEnd, IsList
<1>4. ASSUME NEW k, k = Len(queue) + 1
      PROVE  IsEnd(k)' = (s.type \in EndsOfRefresh) /\ ~IsList(k)'
  BY <1>1, <1>4 DEF IsEnd, IsList
<1>5. \A j, k \in DOMAIN queue' : IsEnd(j)' /\ IsEnd(k)' => j = k
  BY <1>2, <1>3, <1>4 DEF QueueOrder, NoEnd
<1>6. \A j, k \in DOMAIN queue' : IsList(j)' /\ IsList(k)' => j = k
  BY <1>2, <1>3, <1>4 DEF QueueOrder
<1>7. ASSUME NEW j \in DOMAIN queue', IsList(j)'
      PROVE  \E k \in DOMAIN queue' : j < k /\ queue'[k].type = "sig_get_scanners"
  <2>1. j \in DOMAIN queue /\ IsList(j)
    BY <1>2, <1>3, <1>4, <1>7
  <2>2. PICK k \in DOMAIN queue : j < k /\ queue[k].type = "sig_get_scanners"
    BY <2>1 DEF QueueOrder
  <2>3. k \in DOMAIN queue' /\ queue'[k] = queue[k]
    BY <1>1, <1>3
  <2>4. QED
    BY <2>2, <2>3
<1>8. NoEnd /\ s.type \notin EndsOfRefresh => NoEnd'
  BY <1>2, <1>3, <1>4 DEF NoEnd
<1>9. QED
  BY <1>5, <1>6, <1>7, <1>8 DEF QueueOrder

\* A list comes, with the signal of its end after it.
LEMMA ListKeepsOrder ==
  ASSUME queue \in Seq(Signals), QueueOrder, NoEnd, NEW found \in SUBSET Scanners,
         queue' = queue \o <<[type |-> "sl_get_scanners", scanners |-> found],
                             Signal("sig_get_scanners")>>
  PROVE  QueueOrder'
<1> DEFINE s == [type |-> "sl_get_scanners", scanners |-> found]
           t == Signal("sig_get_scanners")
<1>1. /\ s \in Signals /\ t \in Signals
      /\ s.type = "sl_get_scanners" /\ t.type = "sig_get_scanners"
  BY SignalIsSignal DEF EndsOfRefresh, Signal
<1>2. "sig_get_scanners" \in EndsOfRefresh /\ "sl_get_scanners" \notin EndsOfRefresh
  BY DEF EndsOfRefresh
<1> HIDE DEF s, t
<1>3. /\ Len(queue) \in Nat /\ DOMAIN queue = 1..Len(queue)
      /\ <<s, t>> \in Seq(Signals) /\ Len(<<s, t>>) = 2 /\ <<s, t>>[1] = s /\ <<s, t>>[2] = t
  BY <1>1
<1>4. queue' = queue \o <<s, t>>
  BY DEF s, t
<1>5. /\ Len(queue') = Len(queue) + 2 /\ queue' \in Seq(Signals)
      /\ \A i \in 1..Len(queue) + 2 :
           queue'[i] = IF i <= Len(queue) THEN queue[i] ELSE <<s, t>>[i - Len(queue)]
  BY <1>3, <1>4, ConcatProperties
<1>6. DOMAIN queue' = 1..Len(queue) + 2
  BY <1>3, <1>5
<1>7. /\ \A i \in 1..Len(queue) : queue'[i] = queue[i]
      /\ queue'[Len(queue) + 1] = s /\ queue'[Len(queue) + 2] = t
  <2>1. \A i \in 1..Len(queue) : queue'[i] = queue[i]
    BY <1>3, <1>5
  <2>2. /\ Len(queue) + 1 \in 1..Len(queue) + 2 /\ ~(Len(queue) + 1 <= Len(queue))
        /\ (Len(queue) + 1) - Len(queue) = 1
        /\ Len(queue) + 2 \in 1..Len(queue) + 2 /\ ~(Len(queue) + 2 <= Len(queue))
        /\ (Len(queue) + 2) - Len(queue) = 2
    BY <1>3
  <2>3. QED
    BY <1>3, <1>5, <2>1, <2>2
<1>8. \A k \in DOMAIN queue : ~IsEnd(k) /\ ~IsList(k)
  BY NoEndNoList DEF NoEnd
<1>9. \A k \in DOMAIN queue' : k \in DOMAIN queue \/ k = Len(queue) + 1 \/ k = Len(queue) + 2
  BY <1>3, <1>6
<1>10. \A k \in DOMAIN queue' : /\ IsEnd(k)' => k = Len(queue) + 2
                                /\ IsList(k)' => k = Len(queue) + 1
  BY <1>1, <1>2, <1>3, <1>7, <1>8, <1>9 DEF IsEnd, IsList
<1>11. ASSUME NEW j \in DOMAIN queue', IsList(j)'
       PROVE  \E k \in DOMAIN queue' : j < k /\ queue'[k].type = "sig_get_scanners"
  <2>1. j = Len(queue) + 1
    BY <1>10, <1>11
  <2>2. Len(queue) + 2 \in DOMAIN queue' /\ j < Len(queue) + 2
    BY <1>3, <1>6, <2>1
  <2>3. QED
    BY <1>1, <1>7, <2>2
<1>12. QED
  BY <1>10, <1>11 DEF QueueOrder

\* The list that is queued is dropped.
LEMMA DropKeepsOrder ==
  ASSUME queue \in Seq(Signals), QueueOrder, drop_list_signal
  PROVE  /\ QueueOrder' /\ (NoEnd => NoEnd')
         /\ \A k \in DOMAIN queue' : ~IsList(k)' /\ \E j \in DOMAIN queue : queue'[k] = queue[j]
<1>1. CASE UNCHANGED queue /\ \A k \in DOMAIN queue : ~IsList(k)
  BY <1>1 DEF QueueOrder, NoEnd, IsEnd, IsList
<1>2. ASSUME NEW k \in DOMAIN queue, IsList(k),
             queue' = SubSeq(queue, 1, k - 1) \o SubSeq(queue, k + 1, Len(queue))
      PROVE  /\ QueueOrder' /\ (NoEnd => NoEnd')
             /\ \A i \in DOMAIN queue' :
                  ~IsList(i)' /\ \E j \in DOMAIN queue : queue'[i] = queue[j]
  <2> DEFINE J(i) == IF i < k THEN i ELSE i + 1
  <2>1. /\ queue' \in Seq(Signals) /\ Len(queue') = Len(queue) - 1
        /\ \A i \in DOMAIN queue' : J(i) \in DOMAIN queue /\ queue'[i] = queue[J(i)]
    BY <1>2, QueueShrinks
  <2>2. k \in Nat /\ Len(queue) \in Nat /\ DOMAIN queue' \subseteq Nat
        /\ \A i, j \in Nat : J(i) # k /\ (J(i) = J(j) => i = j)
    BY <2>1
  <2> HIDE DEF J
  <2>3. \A i \in DOMAIN queue' : /\ IsEnd(i)' = IsEnd(J(i)) /\ IsList(i)' = IsList(J(i))
    BY <2>1 DEF IsEnd, IsList
  <2>4. \A i \in DOMAIN queue' : ~IsList(i)'
    BY <1>2, <2>1, <2>2, <2>3 DEF QueueOrder
  <2>5. \A i, j \in DOMAIN queue' : IsEnd(i)' /\ IsEnd(j)' => i = j
    BY <2>1, <2>2, <2>3 DEF QueueOrder
  <2>6. NoEnd => NoEnd'
    BY <2>1, <2>3 DEF NoEnd
  <2>7. QED
    BY <2>1, <2>4, <2>5, <2>6 DEF QueueOrder
<1>3. QED
  BY <1>1, <1>2 DEF drop_list_signal, IsList

LEMMA OneFetchStep ==
  ASSUME Types, OneFetch, [Next]_vars
  PROVE  OneFetch'
<1>0. /\ queue \in Seq(Signals) /\ QueueOrder
      /\ fetch.rpc # "none" \/ refresh_enabled => NoEnd
      /\ refresh_enabled => fetch.rpc = "none"
  BY OneFetchParts DEF Types
<1> SUFFICES /\ QueueOrder'
             /\ fetch'.rpc # "none" \/ refresh_enabled' => NoEnd'
             /\ refresh_enabled' => fetch'.rpc = "none"
  BY DEF OneFetch, QueueOrder, NoEnd
<1>1. CASE UNCHANGED queue /\ ~Exec /\ ~Answered
  <2>1. QueueOrder' /\ NoEnd' = NoEnd
    BY <1>0, <1>1 DEF QueueOrder, NoEnd, IsEnd, IsList
  <2>2. \/ UNCHANGED <<fetch, refresh_enabled>>
        \/ refresh_enabled /\ refresh_enabled' = FALSE
        \/ fetch'.rpc = "none" /\ UNCHANGED refresh_enabled
    <3>1. CASE on_clicked_get_scanners
      BY <3>1 DEF on_clicked_get_scanners
    <3>2. CASE FreedFetch
      <4>1. fetch' \in {fetch, NoFetch} /\ UNCHANGED buttons
        BY <3>2 DEF FreedFetch
      <4>2. QED
        BY <4>1 DEF NoFetch, buttons
    <3>3. CASE sl_clicked \/ change_channel \/ UNCHANGED vars
      BY <3>3 DEF sl_clicked, change_channel, vars, buttons
    <3>4. ASSUME NEW c \in DOMAIN calls, Called(c)
          PROVE  UNCHANGED <<fetch, refresh_enabled>>
      BY <3>4 DEF Called, OnReadDone, OnDone, OnDoneResets, OnDoneSignals, FreedReader, buttons
    <3>5. QED
      BY <1>1, <3>1, <3>2, <3>3, <3>4 DEF Next, User, FetchStep, CallStep, Called
  <2>3. QED
    BY <1>0, <2>1, <2>2
<1>2. CASE Exec /\ queue # <<>> /\ queue' = Tail(queue)
  <2>1. QueueOrder' /\ (NoEnd => NoEnd') /\ (Head(queue).type \in EndsOfRefresh => NoEnd')
    BY <1>0, <1>2, TailKeepsOrder
  <2>2. Head(queue) = queue[1] /\ 1 \in DOMAIN queue
    BY <1>0, <1>2, QueueShrinks
  <2>3. Head(queue).type \in EndsOfRefresh => fetch.rpc = "none" /\ ~refresh_enabled
    BY <1>0, <2>2 DEF NoEnd, IsEnd
  <2>4. \/ UNCHANGED <<fetch, refresh_enabled>>
        \/ Head(queue).type \in EndsOfRefresh /\ UNCHANGED refresh_enabled
        \/ Head(queue).type \in EndsOfRefresh /\ UNCHANGED fetch
    BY <1>2 DEF Exec, sl_sig_done, sl_get_scanners, sl_refresh_scanners, enable_button,
       EndsOfRefresh, buttons
  <2>5. QED
    BY <1>0, <2>1, <2>3, <2>4
<1>3. CASE change_channel /\ drop_list_signal
  <2>1. QueueOrder' /\ (NoEnd => NoEnd')
    BY <1>0, <1>3, DropKeepsOrder
  <2>2. UNCHANGED <<fetch, refresh_enabled>>
    BY <1>3 DEF change_channel, buttons
  <2>3. QED
    BY <1>0, <2>1, <2>2
<1>4. ASSUME NEW c \in DOMAIN calls, OnDoneSignals(c),
             queue' = Append(queue, [type |-> "sig_done", call |-> c, file |-> reader.file])
      PROVE  /\ QueueOrder'
             /\ fetch'.rpc # "none" \/ refresh_enabled' => NoEnd'
             /\ refresh_enabled' => fetch'.rpc = "none"
  <2> DEFINE s == [type |-> "sig_done", call |-> c, file |-> reader.file]
  <2>1. s \in Signals /\ s.type \notin EndsOfRefresh /\ s.type # "sl_get_scanners"
    <3>1. c \in Nat /\ reader.file \in Nat
      BY DEF Types
    <3>2. QED
      BY <3>1, SignalIsSignal DEF EndsOfRefresh
  <2> HIDE DEF s
  <2>2. queue' = Append(queue, s)
    BY <1>4 DEF s
  <2>3. QueueOrder' /\ (NoEnd => NoEnd')
    BY <1>0, <2>1, <2>2, AppendKeepsOrder
  <2>4. UNCHANGED <<fetch, refresh_enabled>>
    BY <1>4 DEF OnDoneSignals, buttons
  <2>5. QED
    BY <1>0, <2>3, <2>4
<1>5. CASE Answered
  <2>1. fetch.rpc # "none" /\ fetch'.rpc = "none" /\ UNCHANGED refresh_enabled
    BY <1>5 DEF Answered, refresh_scanners, get_scanners, NoFetch, buttons
  <2>2. NoEnd /\ ~refresh_enabled
    BY <1>0, <2>1
  <2>3. ASSUME NEW type \in EndsOfRefresh, queue' = Append(queue, Signal(type))
        PROVE  QueueOrder'
    <3>1. Signal(type) \in Signals /\ Signal(type).type # "sl_get_scanners"
      BY SignalIsSignal DEF Signal, EndsOfRefresh
    <3>2. QED
      BY <1>0, <2>2, <2>3, <3>1, AppendKeepsOrder
  <2>4. ASSUME NEW found \in SUBSET Scanners,
               queue' = queue \o <<[type |-> "sl_get_scanners", scanners |-> found],
                                   Signal("sig_get_scanners")>>
        PROVE  QueueOrder'
    BY <1>0, <2>2, <2>4, ListKeepsOrder
  <2>5. QED
    BY <1>5, <2>1, <2>2, <2>3, <2>4, AnsweredQueue
<1>6. QED
  BY <1>1, <1>2, <1>3, <1>4, <1>5, QueueSteps
\* What is to come of the presses of Refresh does not grow by other steps.
LEMMA NoneStays ==
  ASSUME Types, OneFetch, [Next]_vars, NoneToCome, fetch' \in {fetch, NoFetch}
  PROVE  NoneToCome'
<1>0. queue \in Seq(Signals) /\ QueueOrder
  BY OneFetchParts DEF Types
<1>1. fetch'.rpc = "none"
  BY DEF NoneToCome, NoFetch
<1>2. CASE UNCHANGED queue
  BY <1>1, <1>2 DEF NoneToCome
<1>3. CASE queue # <<>> /\ queue' = Tail(queue)
  <2>1. \A k \in DOMAIN queue' : queue'[k] = queue[k + 1] /\ k + 1 \in DOMAIN queue
    BY <1>0, <1>3, TailKeepsOrder
  <2>2. QED
    BY <1>1, <2>1 DEF NoneToCome
<1>4. CASE drop_list_signal
  <2>1. \A k \in DOMAIN queue' : \E j \in DOMAIN queue : queue'[k] = queue[j]
    BY <1>0, <1>4, DropKeepsOrder
  <2>2. QED
    BY <1>1, <2>1 DEF NoneToCome
<1>5. ASSUME NEW c \in DOMAIN calls, OnDoneSignals(c),
             queue' = Append(queue, [type |-> "sig_done", call |-> c, file |-> reader.file])
      PROVE  NoneToCome'
  <2> DEFINE s == [type |-> "sig_done", call |-> c, file |-> reader.file]
  <2>1. s.type = "sig_done" /\ s \in Signals
    <3>1. c \in Nat /\ reader.file \in Nat
      BY DEF Types
    <3>2. QED
      BY <3>1, SignalIsSignal
  <2> HIDE DEF s
  <2>2. queue' = Append(queue, s)
    BY <1>5 DEF s
  <2>3. \A k \in DOMAIN queue' : (k \in DOMAIN queue /\ queue'[k] = queue[k]) \/ queue'[k] = s
    <3>1. /\ Len(queue') = Len(queue) + 1 /\ Len(queue) \in Nat
          /\ DOMAIN queue' = 1..Len(queue) + 1 /\ DOMAIN queue = 1..Len(queue)
          /\ \A i \in 1..Len(queue) : queue'[i] = queue[i]
          /\ queue'[Len(queue) + 1] = s
      BY <1>0, <2>1, <2>2, AppendProperties
    <3>2. QED
      BY <3>1
  <2>4. QED
    BY <1>1, <2>1, <2>3 DEF NoneToCome
<1>6. ~Answered
  BY DEF Answered, refresh_scanners, get_scanners, NoneToCome
<1>7. QED
  BY <1>2, <1>3, <1>4, <1>5, <1>6, QueueSteps

LEMMA SecondListStep ==
  ASSUME Types, OfReader, OneFetch, OwnFile, SecondList, [Next]_vars
  PROVE  SecondList'
<1>0. /\ queue \in Seq(Signals) /\ QueueOrder /\ calls \in Seq(CallRecords)
      /\ fetch.rpc # "none" \/ refresh_enabled => NoEnd
      /\ fetches \in Nat
  BY OneFetchParts, Constants DEF Types
<1>1. ASSUME UNCHANGED <<items, fetches>>, NoneToCome => NoneToCome',
             calls' # <<>> => calls # <<>> \/ items # {},
             scan_enabled' => scan_enabled,
             \A c \in DOMAIN calls : c \in DOMAIN calls' /\ (calls[c].at = "over" => calls'[c].at = "over")
      PROVE  SecondList'
  BY <1>1 DEF SecondList
<1>2. \A c \in DOMAIN calls :
        c \in DOMAIN calls' /\ (calls[c].at = "over" => calls'[c].at = "over")
  BY OverStays, Stays
<1>3. CASE on_clicked_get_scanners
  <2>1. /\ fetches' = fetches + 1
        /\ UNCHANGED <<scan_enabled, items, calls>>
    BY <1>3 DEF on_clicked_get_scanners
  <2>2. QED
    BY <1>0, <2>1 DEF SecondList
<1>4. CASE Answered
  <2>1. fetch.rpc # "none" /\ UNCHANGED <<fetches, scan_enabled, items, calls>>
    BY <1>4 DEF Answered, refresh_scanners, get_scanners, buttons
  <2>2. fetches # 0 /\ ~(fetches = 1 /\ items # {})
    BY <2>1 DEF SecondList, NoneToCome
  <2>3. QED
    BY <2>1, <2>2 DEF SecondList
<1>5. CASE FreedFetch
  <2>1. fetch' \in {fetch, NoFetch} /\ UNCHANGED <<items, fetches, calls, scan_enabled>>
    BY <1>5 DEF FreedFetch, buttons
  <2>2. NoneToCome => NoneToCome'
    BY <2>1, NoneStays
  <2>3. QED
    BY <1>1, <2>1, <2>2
<1>6. CASE sl_clicked
  <2>1. UNCHANGED <<items, fetch, fetches, queue>> /\ scan_enabled' = FALSE
    BY <1>6 DEF sl_clicked
  <2>2. items = {} => UNCHANGED calls
    BY <1>6 DEF sl_clicked
  <2>3. NoneToCome => NoneToCome'
    BY <2>1 DEF NoneToCome
  <2>4. QED
    BY <1>1, <1>2, <2>1, <2>2, <2>3
<1>7. ASSUME NEW c \in DOMAIN calls, Called(c)
      PROVE  SecondList'
  <2>1. UNCHANGED <<items, fetch, fetches, scan_enabled>>
    BY <1>7 DEF Called, OnReadDone, OnDone, OnDoneResets, OnDoneSignals, FreedReader, buttons
  <2>2. calls # <<>>
    OBVIOUS
  <2>3. NoneToCome => NoneToCome'
    BY <2>1, NoneStays
  <2>4. QED
    BY <1>1, <1>2, <2>1, <2>2, <2>3
<1>8. CASE Exec
  <2>1. queue # <<>> /\ queue' = Tail(queue) /\ UNCHANGED <<fetches, calls>>
    BY <1>8 DEF Exec
  <2>2. Head(queue) = queue[1] /\ 1 \in DOMAIN queue
    BY <1>0, <2>1, QueueShrinks
  <2>3. CASE Head(queue).type = "sig_done" /\ sl_sig_done(Head(queue))
    <3>1. UNCHANGED <<items, fetch>>
      BY <2>3 DEF sl_sig_done
    <3>2. NoneToCome => NoneToCome'
      BY <3>1, NoneStays
    <3>3. \E c \in DOMAIN calls : calls[c].at = "over"
      BY <2>2, <2>3 DEF OwnFile, OwnFileOf
    <3>4. calls # <<>>
      BY <3>3
    <3>5. QED
      BY <2>1, <3>1, <3>2, <3>3, <3>4 DEF SecondList
  <2>4. CASE Head(queue).type = "sl_get_scanners" /\ sl_get_scanners(Head(queue).scanners)
    <3>1. /\ items' = Head(queue).scanners /\ scan_enabled' = (items' # {})
          /\ UNCHANGED fetch
      BY <2>4 DEF sl_get_scanners
    <3>2. ~NoneToCome
      BY <2>2, <2>4 DEF NoneToCome
    <3>3. fetches # 0 /\ ~(fetches = 1 /\ items # {})
      BY <3>2 DEF SecondList
    <3>4. PICK e \in DOMAIN queue : queue[e].type = "sig_get_scanners"
      BY <1>0, <2>2, <2>4 DEF QueueOrder, IsList
    <3>5. fetch.rpc = "none"
      BY <1>0, <3>4 DEF NoEnd, IsEnd, EndsOfRefresh
    <3>6. \A k \in DOMAIN queue : queue[k].type # "sig_refresh_scanners"
      <4>1. ASSUME NEW k \in DOMAIN queue, queue[k].type = "sig_refresh_scanners"
            PROVE  FALSE
        <5>1. IsEnd(k) /\ IsEnd(e)
          BY <3>4, <4>1 DEF IsEnd, EndsOfRefresh
        <5>2. k = e
          BY <1>0, <5>1 DEF QueueOrder
        <5>3. QED
          BY <3>4, <4>1, <5>2
      <4>2. QED
        BY <4>1
    <3>7. NoneToCome'
      <4>1. /\ \A k \in DOMAIN queue' : ~IsList(k)'
            /\ \A k \in DOMAIN queue' : queue'[k] = queue[k + 1] /\ k + 1 \in DOMAIN queue
        BY <1>0, <2>1, <2>4, TailKeepsOrder
      <4>2. QED
        BY <3>1, <3>5, <3>6, <4>1 DEF NoneToCome, IsList
    <3>8. calls # <<>> => fetches > 1
      BY <1>0, <3>3 DEF SecondList
    <3>9. QED
      BY <2>1, <3>1, <3>3, <3>7, <3>8 DEF SecondList
  <2>5. CASE Head(queue).type = "sig_refresh_scanners" /\ sl_refresh_scanners
    <3>1. UNCHANGED <<scan_enabled, items>>
      BY <2>5 DEF sl_refresh_scanners, buttons
    <3>2. ~NoneToCome
      BY <2>2, <2>5 DEF NoneToCome
    <3>3. QED
      BY <2>1, <3>1, <3>2 DEF SecondList
  <2>6. CASE enable_button
    <3>1. UNCHANGED <<scan_enabled, items, fetch>>
      BY <2>6 DEF enable_button
    <3>2. NoneToCome => NoneToCome'
      BY <3>1, NoneStays
    <3>3. QED
      BY <1>1, <1>2, <2>1, <3>1, <3>2
  <2>7. QED
    BY <1>8, <2>3, <2>4, <2>5, <2>6 DEF Exec
<1>9. CASE change_channel \/ UNCHANGED vars
  <2>1. UNCHANGED <<scan_enabled, items, fetch, fetches, calls>>
    BY <1>9 DEF change_channel, vars, buttons
  <2>2. NoneToCome => NoneToCome'
    BY <2>1, NoneStays
  <2>3. QED
    BY <1>1, <1>2, <2>1, <2>2
<1>10. QED
  BY <1>3, <1>4, <1>5, <1>6, <1>7, <1>8, <1>9 DEF Next, User, FetchStep, CallStep, Called
-----------------------------------------------------------------------------
(* What ends the process.                                                  *)

\* A click ends it where no scanner is left, or a scan was started in OnDone.
LEMMA ClickMisuse ==
  ASSUME Types, OfReader, SecondList, Running, sl_clicked
  PROVE  MisuseHasCause'
<1>1. crashed = "no" /\ UNCHANGED <<items, fetches>> /\ scan_enabled
  BY DEF sl_clicked, Running
<1>2. CASE Len(calls') = Len(calls)
  <2>1. UNCHANGED calls /\ ((items = {} /\ crashed' = "null_scanner") \/ crashed' = "no")
    BY <1>1, <1>2, NoCallIsMade
  <2>2. items = {} => fetches > 1 /\ \E c \in DOMAIN calls : calls[c].at = "over"
    BY <1>1 DEF SecondList
  <2>3. QED
    BY <1>1, <2>1, <2>2 DEF MisuseHasCause
<1>3. CASE Len(calls') # Len(calls)
  <2> DEFINE n == Len(calls) + 1
  <2>1. /\ ~reader.in_progress /\ Resets(reader.context, Overtakes # {})
        /\ calls'[n].overtook = Overtakes
    BY <1>3, CallIsMade
  <2>2. n \in DOMAIN calls'
    BY <1>3, ScanKeeps
  <2>3. reader.context # None => calls[reader.context].at # "open"
    <3>1. reader.context # None => reader.context \in DOMAIN calls
      BY DEF Types, None
    <3>2. QED
      BY <2>1, <3>1 DEF OfReader
  <2>4. CASE Overtakes = {}
    <3>1. crashed' = "no"
      BY <2>1, <2>3, <2>4 DEF Resets
    <3>2. QED
      BY <3>1 DEF MisuseHasCause
  <2>5. CASE Overtakes # {}
    <3>1. PICK c \in Overtakes : TRUE
      BY <2>5
    <3>2. Overtaken(c)'
      BY <2>1, <2>2 DEF Overtaken
    <3>3. c \in DOMAIN calls'
      BY <1>3, ScanKeeps DEF Overtakes
    <3>4. crashed' \in {"no", "context"}
      BY <2>1 DEF Resets
    <3>5. QED
      BY <3>2, <3>3, <3>4 DEF MisuseHasCause
  <2>6. QED
    BY <2>4, <2>5
<1>4. QED
  BY <1>2, <1>3

\* OnDone deletes the context of a scan that was started in it.
LEMMA ResetMisuse ==
  ASSUME Types, OfReader, Running, [Next]_vars, NEW c \in DOMAIN calls, OnDoneResets(c)
  PROVE  MisuseHasCause'
<1>1. calls[c].on = channel /\ calls[c].at = "cleared" /\ Resets(reader.context, FALSE)
  BY DEF OnDoneResets, Callback
<1>2. CASE crashed' = "no"
  BY <1>2 DEF MisuseHasCause
<1>3. CASE crashed' # "no"
  <2> DEFINE d == reader.context
  <2>1. crashed' = "context" /\ d # None /\ calls[d].at = "open"
    BY <1>1, <1>3 DEF Resets
  <2>2. d \in DOMAIN calls /\ calls[d].on = channel
    BY <2>1 DEF Types, None, OfReader
  <2>3. d = Len(calls)
    BY <2>1, <2>2 DEF OfReader
  <2>4. c # Len(calls)
    BY <1>1, <2>1, <2>3
  <2>5. Overtaken(c)
    BY <1>1, <2>4 DEF OfReader
  <2>6. Overtaken(c)' /\ c \in DOMAIN calls'
    BY <2>5, OvertakenStays, Stays
  <2>7. QED
    BY <2>1, <2>6 DEF MisuseHasCause
<1>4. QED
  BY <1>2, <1>3

\* A page is made of a file that is too short where a scan was started in OnDone.
LEMMA PageMisuse ==
  ASSUME Types, ReadAll, Holds, OwnFile, Running, Exec
  PROVE  MisuseHasCause'
<1>1. crashed = "no" /\ Head(queue) = queue[1] /\ 1 \in DOMAIN queue /\ UNCHANGED calls
  BY QueueShrinks DEF Exec, Types, Running
<1>2. CASE crashed' = "no"
  BY <1>2 DEF MisuseHasCause
<1>3. CASE crashed' # "no"
  <2> DEFINE done == queue[1]
             data == Contents(disk, files[done.file])
  <2>1. done.type = "sig_done" /\ sl_sig_done(done)
    BY <1>1, <1>3 DEF Exec, sl_get_scanners, sl_refresh_scanners, enable_button
  <2>2. /\ calls[done.call].status = "OK"
        /\ crashed' \in IF Len(data) < Len(Document) THEN {"no", "short_file"} ELSE {"no"}
    BY <1>1, <1>3, <2>1 DEF sl_sig_done, AddPage
  <2>3. crashed' = "short_file" /\ Len(data) < Len(Document)
    BY <1>3, <2>2
  <2>4. Overtaken(done.call) \/ Len(data) >= Len(Document)
    BY <1>1, <2>1, <2>2, PageIsOfScan
  <2>5. Len(data) \in Nat /\ Len(Document) \in Nat
    <3>1. done.file \in DOMAIN files
      BY <1>1, <2>1 DEF OwnFile, OwnFileOf
    <3>2. files[done.file].path \in Names
      <4>1. files[done.file] \in FileRecords
        BY <3>1 DEF Types
      <4>2. QED
        BY <4>1 DEF FileRecords
    <3>3. data = disk[files[done.file].path]
      BY DEF Contents
    <3>4. disk[files[done.file].path] \in Seq(Nat \X Chunks)
      BY <3>2 DEF Types
    <3>5. Len(data) \in Nat
      BY <3>3, <3>4
    <3>6. QED
      BY <3>5, Constants
  <2>6. Overtaken(done.call) /\ done.call \in DOMAIN calls
    BY <1>1, <2>1, <2>3, <2>4, <2>5 DEF OwnFile, OwnFileOf
  <2>7. PICK c \in DOMAIN calls : Overtaken(c)
    BY <2>6
  <2>8. Overtaken(c)' /\ c \in DOMAIN calls'
    BY <1>1, <2>7 DEF Overtaken
  <2>9. QED
    BY <2>3, <2>8 DEF MisuseHasCause
<1>4. QED
  BY <1>2, <1>3

LEMMA MisuseStep ==
  ASSUME Types, ScanInv, ListInv, MisuseHasCause, [Next]_vars
  PROVE  MisuseHasCause'
<1>1. OfReader /\ ReadAll /\ Holds /\ OwnFile /\ SecondList
  BY DEF ScanInv, ListInv
<1>2. CASE UNCHANGED vars
  BY <1>2 DEF vars, buttons, disk_vars, MisuseHasCause, Overtaken
<1>3. CASE on_clicked_get_scanners \/ Answered \/ change_channel
  <2>1. crashed' = "no"
    BY <1>3 DEF on_clicked_get_scanners, Answered, change_channel, Running
  <2>2. QED
    BY <2>1 DEF MisuseHasCause
<1>4. CASE sl_clicked
  <2>1. Running
    BY <1>4 DEF sl_clicked
  <2>2. QED
    BY <1>1, <1>4, <2>1, ClickMisuse
<1>5. CASE Exec
  <2>1. Running
    BY <1>5 DEF Exec
  <2>2. QED
    BY <1>1, <1>5, <2>1, PageMisuse
<1>6. CASE FreedFetch
  <2>1. fetch.on \in 1..channel - 1 /\ UNCHANGED channel
        /\ (crashed' = "no" \/ (crashed' = "freed" /\ UNCHANGED fetch))
    BY <1>6 DEF FreedFetch, Running
  <2>2. QED
    BY <2>1 DEF MisuseHasCause
<1>7. ASSUME NEW c \in DOMAIN calls, OnReadDone(c) \/ OnDone(c) \/ OnDoneSignals(c)
      PROVE  MisuseHasCause'
  <2>1. crashed' = "no"
    BY <1>7 DEF OnReadDone, OnDone, OnDoneSignals, Callback, Running
  <2>2. QED
    BY <2>1 DEF MisuseHasCause
<1>8. ASSUME NEW c \in DOMAIN calls, OnDoneResets(c)
      PROVE  MisuseHasCause'
  <2>1. Running
    BY <1>8 DEF OnDoneResets, Callback
  <2>2. QED
    BY <1>1, <1>8, <2>1, ResetMisuse
<1>9. ASSUME NEW c \in DOMAIN calls, FreedReader(c)
      PROVE  MisuseHasCause'
  <2>1. calls[c].on < channel /\ calls[c].at # "over" /\ UNCHANGED channel
        /\ (crashed' = "no" \/ (crashed' = "freed" /\ UNCHANGED calls))
    BY <1>9 DEF FreedReader, Running
  <2>2. QED
    BY <2>1 DEF MisuseHasCause
<1>10. QED
  BY <1>2, <1>3, <1>4, <1>5, <1>6, <1>7, <1>8, <1>9 DEF Next, User, FetchStep, CallStep

-----------------------------------------------------------------------------
LEMMA InvInit == Init => Inv
<1> SUFFICES ASSUME Init PROVE Inv
  OBVIOUS
<1>1. Types
  BY TypesInit
<1>2. /\ calls = <<>> /\ files = <<>> /\ queue = <<>> /\ pages = {} /\ items = {}
      /\ reader.context = None /\ fetch.rpc = "none" /\ scan_enabled = FALSE
      /\ crashed = "no" /\ disk = [n \in Names |-> <<>>] /\ fetches = 0
  BY DEF Init, IdleReader, NoFetch
<1>3. DOMAIN calls = {} /\ DOMAIN files = {} /\ DOMAIN queue = {}
  BY <1>2
<1>4. ScanInv
  BY <1>2, <1>3 DEF ScanInv, OfReader, Made, ReadAll, Holds, OwnFile, PagesOfCalls
<1>5. ListInv
  BY <1>2, <1>3 DEF ListInv, OneFetch, SecondList, NoneToCome
<1>6. FileHoldsScan /\ MisuseHasCause
  BY <1>2 DEF FileHoldsScan, MisuseHasCause
<1>7. QED
  BY <1>1, <1>4, <1>5, <1>6 DEF Inv

LEMMA InvStep == Inv /\ [Next]_vars => Inv'
<1> SUFFICES ASSUME Inv, [Next]_vars PROVE Inv'
  OBVIOUS
<1>1. /\ Types /\ OfReader /\ Made /\ ReadAll /\ Holds /\ OwnFile /\ PagesOfCalls
      /\ OneFetch /\ SecondList /\ FileHoldsScan /\ MisuseHasCause
  BY DEF Inv, ScanInv, ListInv
<1>2. Types' /\ OfReader' /\ Made'
  BY <1>1, TypesStep, OfReaderStep, MadeStep
<1>3. ReadAll' /\ Holds'
  BY <1>1, ReadAllStep, HoldsStep
<1>4. OwnFile' /\ PagesOfCalls' /\ FileHoldsScan'
  BY <1>1, OwnFileStep, PagesStep
<1>5. OneFetch' /\ SecondList'
  BY <1>1, OneFetchStep, SecondListStep
<1>6. MisuseHasCause'
  BY <1>1, MisuseStep DEF ScanInv, ListInv
<1>7. QED
  BY <1>2, <1>3, <1>4, <1>5, <1>6 DEF Inv, ScanInv, ListInv

LEMMA InvHolds == Spec => []Inv
<1>1. Inv /\ UNCHANGED vars => Inv'
  BY InvStep
<1>2. QED
  BY InvInit, InvStep, PTL DEF Spec

(* Everything the client keeps has its type: in particular the reader's    *)
(* context and file are those of a call and of a file that were made.      *)
THEOREM TypeCorrect == Spec => []TypeOK
<1>1. Types => TypeOK
  <2> SUFFICES ASSUME Types PROVE TypeOK
    OBVIOUS
  <2>1. fetch.rpc \in {"none", "refresh_scanners", "get_scanners"} /\ fetch.on \in 0..channel
        /\ reader.in_progress \in BOOLEAN
    BY Constants DEF Types
  <2>2. reader.context \in {None} \cup DOMAIN calls /\ reader.file \in {None} \cup DOMAIN files
    BY DEF Types, None
  <2>3. Len(calls) \in 0..MaxScans
    BY Constants DEF Types
  <2>4. ASSUME NEW c \in DOMAIN calls
        PROVE  /\ calls[c].on \in 1..channel /\ calls[c].read \in 0..Len(Document) + 1
               /\ calls[c].at \in {"open", "cleared", "reset", "over"}
               /\ calls[c].status \in {"none", "OK", "failed"}
    <3>1. calls[c] \in CallRecords /\ calls[c].on <= channel
      BY DEF Types
    <3>2. QED
      BY <3>1, Constants DEF CallRecords, Types
  <2>5. ASSUME NEW f \in DOMAIN files
        PROVE  files[f].path \in Names /\ files[f].size \in Nat
    <3>1. files[f] \in FileRecords
      BY DEF Types
    <3>2. QED
      BY <3>1 DEF FileRecords
  <2>6. QED
    BY <2>1, <2>2, <2>3, <2>4, <2>5 DEF Types, TypeOK
<1>2. QED
  BY <1>1, InvHolds, PTL DEF Inv

(* A page shows the scan whose status let it in (sl_sig_done of            *)
(* ScannerDevice), for documents, bounds and names of any size: only a     *)
(* scan started inside OnDone of the one before, or a name that came up    *)
(* again, makes it show another.                                           *)
THEOREM FilesHoldScans == Spec => []FileHoldsScan
  BY InvHolds, PTL DEF Inv

(* The process ends only by the three misuses that have their cause in an  *)
(* emptied list, a scan started inside OnDone or a change of channel with  *)
(* a call in flight (get_scanner, CScanResponseReader, replace_services).  *)
THEOREM MisusesHaveCauses == Spec => []MisuseHasCause
  BY InvHolds, PTL DEF Inv
=============================================================================
