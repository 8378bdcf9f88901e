--------------------------- MODULE ScanReactorMC ---------------------------
(***************************************************************************)
(* Instances of ScanReactor for TLC.  Which devices the calls were given   *)
(* is what distinguishes them.                                             *)
(***************************************************************************)
EXTENDS ScanReactorProps, TLC

CONSTANTS a, b, c, d1, d2, s1, w1, w2

\* One call with a device of its own, and one whose device is not found.
OwnDevice == (a :> d1) @@ (b :> NoDevice)

\* Two calls that got the same CSaneDevice; a third that got another
\* CSaneDevice of the same scanner, because the list was refreshed.
RefreshedList == (a :> d1) @@ (b :> d1) @@ (c :> d2)

\* Two calls that got the same CSaneDevice.
SharedDevice == (a :> d1) @@ (b :> d1)

OneScanner == [d \in Devices |-> s1]

\* The two calls on the shared list entry are interchangeable.
SameCalls == Permutations({a, b})

\* The promise to the client of call a, with its liveness.
StreamA == INSTANCE ScanStream WITH
  Document  <- Scanned(a, Chunks),
  called    <- pc_ctor[a] # "new",
  announced <- Item(a, "params"),
  data      <- sent[a],
  status    <- Status(a)

PromiseToA == StreamA!Spec
=============================================================================
