--------------------------- MODULE TelemetryProofs ---------------------------
(***************************************************************************)
(* Proofs about Telemetry, for any sensors, types and readers: who shares  *)
(* a holder with whom, and what a report has of a holder of one's own.     *)
(***************************************************************************)
EXTENDS Telemetry, TLAPS

\* What a weak pointer still leads to.
LEMMA Locks ==
  ASSUME TypeOK, NEW t \in Types
  PROVE  /\ Lock(t) \in {weak[t], None}
         /\ Lock(t) = None => \/ weak[t] = None
                              \/ ~Held(weak[t]) /\ weak[t] \notin active
BY DEF Lock

LEMMA RegistersOneWay ==
  ASSUME NEW s \in Sensors
  PROVE  RegistersAs(s) \in {"shared", "unique", "none"} /\ TypeOf[s] \in Types
<1>1. \A t : AutoKind(t) \in {"shared", "unique", "none"}
  BY DEF AutoKind
<1> QED BY <1>1, TelemetryAssumption DEF RegistersAs

\* A step of a sensor, one way or another.
LEMMA UserSteps ==
  ASSUME TypeOK, NEW s \in Sensors, User(s)
  PROVE  \/ FindShared(s) /\ handle' = handle /\ UNCHANGED <<made, scount, registry, adopted>>
         \/ /\ handle[s] = None /\ Lock(TypeOf[s]) # None /\ RegistersAs(s) = "shared"
            /\ Adopt(s, Lock(TypeOf[s])) /\ UNCHANGED <<creating, collectVars>>
         \/ RegisterShared(s)
         \/ RegisterUnique(s)
         \/ Disable(s)
BY DEF User, FindShared

\* The type invariant holds.
LEMMA TypeStep == TypeOK /\ [Next]_vars => TypeOK'
<1> SUFFICES ASSUME TypeOK, [Next]_vars PROVE TypeOK'
  OBVIOUS
<1> USE TelemetryAssumption DEF TypeOK, Holders, sensorVars, registry, collectVars, vars
<1>1. CASE UNCHANGED vars
  BY <1>1
<1>2. CASE CollectBegin
  BY <1>2 DEF CollectBegin
<1>3. CASE CollectReported
  BY <1>3 DEF CollectReported
<1>4. CASE CollectEnd
  BY <1>4 DEF CollectEnd
<1>5. ASSUME NEW x \in todo, CollectRead(x) PROVE TypeOK'
  <2>1. x \in Holders
    BY <1>5
  <2> QED BY <1>5, <2>1 DEF CollectRead
<1>6. ASSUME NEW x \in todo, CollectErase(x) PROVE TypeOK'
  BY <1>6 DEF CollectErase
<1>7. ASSUME NEW s \in Sensors, NEW t \in Types, Adopt(s, Lock(t)), Lock(t) # None,
             creating' \subseteq creating, UNCHANGED collectVars
      PROVE  TypeOK'
  <2>1. Lock(t) \in Holders
    BY <1>7, Locks
  <2> QED BY <1>7, <2>1 DEF Adopt
<1>8. ASSUME NEW s \in Sensors, Make(s), creating' \subseteq creating,
             UNCHANGED collectVars, \/ weak' = weak
                                    \/ weak' = [weak EXCEPT ![TypeOf[s]] = made']
      PROVE  TypeOK'
  <2>1. made' \in Holders /\ made' \in 0..MaxMade
    BY <1>8 DEF Make
  <2>2. weak' \in [Types -> Holders \cup {None}]
    BY <1>8, <2>1
  <2>3. scount' \in [Holders -> 0..(Wrap - 1)] /\ active' \subseteq 1..made'
    BY <1>8, <2>1 DEF Make
  <2> QED BY <1>8, <2>1, <2>2, <2>3 DEF Make
<1>9. ASSUME NEW s \in Sensors, Disable(s) PROVE TypeOK'
  <2>1. handle[s] \in Holders
    BY <1>9 DEF Disable
  <2>2. (scount[handle[s]] - 1) % Wrap \in 0..(Wrap - 1)
    BY <2>1
  <2> QED BY <1>9, <2>1, <2>2 DEF Disable
<1>10. ASSUME NEW s \in Sensors, User(s) PROVE TypeOK'
  <2>1. CASE FindShared(s) /\ handle' = handle /\ UNCHANGED <<made, scount, registry, adopted>>
    BY <2>1 DEF FindShared, Adopt
  <2>2. CASE RegisterShared(s)
    BY <1>7, <1>8, <2>2, RegistersOneWay DEF RegisterShared
  <2>3. CASE RegisterUnique(s)
    BY <1>8, <2>3 DEF RegisterUnique
  <2> QED BY <1>7, <1>9, <1>10, <2>1, <2>2, <2>3, UserSteps, RegistersOneWay
<1> QED BY <1>1, <1>2, <1>3, <1>4, <1>5, <1>6, <1>10 DEF Next, Collect

THEOREM TelemetryTypes == Spec => []TypeOK
<1>1. Init => TypeOK
  BY TelemetryAssumption DEF Init, TypeOK, Holders
<1> QED BY <1>1, TypeStep, PTL DEF Spec
-----------------------------------------------------------------------------
(* Who shares a holder.                                                    *)

\* A sensor gets the holder of its type.
LEMMA SharedAdopts ==
  ASSUME TypeOK, SharedInv, NEW s \in Sensors, handle[s] = None,
         RegistersAs(s) = "shared", Lock(TypeOf[s]) # None, Adopt(s, Lock(TypeOf[s])),
         creating' = creating \ {s}
  PROVE  SharedInv'
<1>1. Lock(TypeOf[s]) = weak[TypeOf[s]] /\ TypeOf[s] \in Types
  BY Locks, RegistersOneWay
<1>2. /\ handle' = [handle EXCEPT ![s] = weak[TypeOf[s]]] /\ weak' = weak /\ made' = made
      /\ weak[TypeOf[s]] # None
  BY <1>1 DEF Adopt, registry
<1>3. /\ handle'[s] = weak[TypeOf[s]]
      /\ \A u \in Sensors : u # s => handle'[u] = handle[u]
  BY <1>2 DEF TypeOK
<1>4. ASSUME NEW u \in Sensors, u # s, handle[u] # None, RegistersAs(u) = "unique"
      PROVE  handle[u] # weak[TypeOf[s]]
  BY <1>1, <1>4 DEF SharedInv
<1> QED BY <1>1, <1>2, <1>3, <1>4 DEF SharedInv

\* A sensor makes the first holder of its type.
LEMMA SharedMakes ==
  ASSUME TypeOK, SharedInv, NEW s \in Sensors, handle[s] = None,
         RegistersAs(s) = "shared", Lock(TypeOf[s]) = None, Make(s),
         weak' = [weak EXCEPT ![TypeOf[s]] = made'], creating' = creating \ {s}
  PROVE  SharedInv'
<1> DEFINE T == TypeOf[s]
<1>1. T \in Types /\ \A u \in Sensors : TypeOf[u] \in Types
  BY RegistersOneWay
<1>2. made \in Nat /\ made' = made + 1 /\ made' # None
  BY TelemetryAssumption DEF TypeOK, Make
<1>3. /\ handle'[s] = made' /\ weak'[T] = made'
      /\ \A u \in Sensors : u # s => handle'[u] = handle[u]
      /\ \A t \in Types : t # T => weak'[t] = weak[t]
  BY <1>1 DEF TypeOK, Make
<1>4. ASSUME NEW t \in Types, weak[t] # None PROVE weak[t] \in Nat /\ weak[t] <= made
  BY <1>4 DEF TypeOK, SharedInv, Holders
<1>5. ASSUME NEW u \in Sensors, handle[u] # None
      PROVE  handle[u] \in Nat /\ handle[u] <= made
  BY <1>5 DEF TypeOK, SharedInv, Holders
<1>6. ASSUME NEW u \in Sensors, handle[u] # None, RegistersAs(u) = "shared"
      PROVE  TypeOf[u] # T /\ handle[u] = weak[TypeOf[u]]
  BY <1>1, <1>6, Locks DEF SharedInv, Held
<1>7. \A t \in Types : weak'[t] # None => weak'[t] <= made'
  BY <1>2, <1>3, <1>4
<1>8. \A t, v \in Types : weak'[t] = weak'[v] /\ weak'[t] # None => t = v
  BY <1>2, <1>3, <1>4 DEF SharedInv
<1>9. \A u \in creating' : handle'[u] = None /\ RegistersAs(u) = "shared"
  BY <1>3 DEF SharedInv, TypeOK
<1>10. ASSUME NEW u \in Sensors, u # s, handle[u] # None, RegistersAs(u) = "unique"
       PROVE  /\ \A t \in Types : handle[u] # weak'[t]
              /\ \A v \in Sensors : handle'[v] = handle[u] => v = u
  BY <1>2, <1>3, <1>5, <1>10 DEF SharedInv
<1>11. ASSUME NEW u \in Sensors, handle'[u] # None
       PROVE  /\ handle'[u] <= made'
              /\ \/ RegistersAs(u) = "shared" /\ handle'[u] = weak'[TypeOf[u]]
                 \/ /\ RegistersAs(u) = "unique"
                    /\ \A t \in Types : handle'[u] # weak'[t]
                    /\ \A v \in Sensors : handle'[v] = handle'[u] => v = u
  <2>1. CASE u = s
    BY <1>2, <1>3, <2>1
  <2>2. CASE u # s /\ RegistersAs(u) = "shared"
    BY <1>1, <1>2, <1>3, <1>5, <1>6, <1>11, <2>2
  <2>3. CASE u # s /\ RegistersAs(u) # "shared"
    <3>1. RegistersAs(u) = "unique"
      BY <1>3, <1>11, <2>3 DEF SharedInv
    <3> QED BY <1>2, <1>3, <1>5, <1>10, <1>11, <2>3, <3>1
  <2> QED BY <2>1, <2>2, <2>3
<1> QED BY <1>7, <1>8, <1>9, <1>11 DEF SharedInv

\* A sensor makes a holder of its own.
LEMMA UniqueMakes ==
  ASSUME TypeOK, SharedInv, NEW s \in Sensors, RegisterUnique(s)
  PROVE  SharedInv'
<1>1. made \in Nat /\ made' = made + 1 /\ made' # None /\ weak' = weak /\ creating' = creating
  BY TelemetryAssumption DEF TypeOK, RegisterUnique, Make
<1>2. /\ handle'[s] = made' /\ handle[s] = None /\ RegistersAs(s) = "unique"
      /\ \A u \in Sensors : u # s => handle'[u] = handle[u]
  BY DEF TypeOK, RegisterUnique, Make
<1>3. ASSUME NEW t \in Types, weak[t] # None PROVE weak[t] \in Nat /\ weak[t] <= made
  BY <1>3 DEF TypeOK, SharedInv, Holders
<1>4. ASSUME NEW u \in Sensors, handle[u] # None
      PROVE  handle[u] \in Nat /\ handle[u] <= made
  BY <1>4 DEF TypeOK, SharedInv, Holders
<1>5. ASSUME NEW u \in Sensors, handle'[u] # None
      PROVE  /\ handle'[u] <= made'
             /\ \/ RegistersAs(u) = "shared" /\ handle'[u] = weak'[TypeOf[u]]
                \/ /\ RegistersAs(u) = "unique"
                   /\ \A t \in Types : handle'[u] # weak'[t]
                   /\ \A v \in Sensors : handle'[v] = handle'[u] => v = u
  <2>1. CASE u = s
    BY <1>1, <1>2, <1>3, <1>4, <2>1
  <2>2. CASE u # s
    BY <1>1, <1>2, <1>4, <1>5, <2>2 DEF SharedInv
  <2> QED BY <2>1, <2>2
<1>6. \A u \in creating' : handle'[u] = None /\ RegistersAs(u) = "shared"
  BY <1>1, <1>2 DEF SharedInv, TypeOK
<1> QED BY <1>1, <1>3, <1>5, <1>6 DEF SharedInv

LEMMA SharedStep == TypeOK /\ SharedInv /\ [Next]_vars => SharedInv'
<1> SUFFICES ASSUME TypeOK, SharedInv, [Next]_vars PROVE SharedInv'
  OBVIOUS
<1>1. CASE UNCHANGED <<sensorVars, weak>>
  BY <1>1 DEF SharedInv, sensorVars
<1>2. ASSUME NEW s \in Sensors, FindShared(s), handle' = handle,
             UNCHANGED <<made, scount, registry, adopted>>
      PROVE  SharedInv'
  <2>1. creating' \subseteq creating \cup {s} /\ handle[s] = None /\ RegistersAs(s) = "shared"
    BY <1>2 DEF FindShared
  <2> QED BY <1>2, <2>1 DEF SharedInv, registry
<1>3. ASSUME NEW s \in Sensors, RegisterShared(s) PROVE SharedInv'
  <2>1. handle[s] = None /\ RegistersAs(s) = "shared"
    BY <1>3 DEF RegisterShared, SharedInv
  <2> QED BY <1>3, <2>1, SharedAdopts, SharedMakes DEF RegisterShared
<1>4. ASSUME NEW s \in Sensors, Disable(s) PROVE SharedInv'
  <2>1. /\ handle'[s] = None /\ \A u \in Sensors : u # s => handle'[u] = handle[u]
        /\ weak' = weak /\ made' = made /\ creating' = creating
    BY <1>4 DEF Disable, TypeOK, registry
  <2> QED BY <2>1 DEF SharedInv, TypeOK
<1>5. ASSUME NEW s \in Sensors, handle[s] = None, Lock(TypeOf[s]) # None,
             RegistersAs(s) = "shared", Adopt(s, Lock(TypeOf[s])), creating' = creating,
             FindShared(s)
      PROVE  SharedInv'
  <2>1. creating = creating \ {s}
    BY <1>5 DEF FindShared
  <2> QED BY <1>5, <2>1, SharedAdopts
<1>6. ASSUME NEW s \in Sensors, User(s) PROVE SharedInv'
  BY <1>2, <1>3, <1>4, <1>5, <1>6, UniqueMakes, UserSteps DEF User
<1>7. Collect \/ UNCHANGED vars => UNCHANGED <<sensorVars, weak>>
  BY DEF Collect, CollectBegin, CollectRead, CollectReported, CollectErase, CollectEnd,
         vars, sensorVars, registry
<1> QED BY <1>1, <1>6, <1>7 DEF Next

\* Threads that race to enable sensors of one type get one structure, and a unique
\* sensor one of its own (get_shared_sensor, register_shared_sensor).
THEOREM SharedIsOneAlways == Spec => []SharedIsOne
<1>1. Init => SharedInv
  BY DEF Init, SharedInv
<1>2. TypeOK /\ SharedInv => SharedIsOne
  <2> SUFFICES ASSUME TypeOK, SharedInv, NEW s \in Sensors, NEW u \in Sensors, s # u,
                      handle[s] # None, handle[u] # None
               PROVE  handle[s] = handle[u] <=>
                        /\ TypeOf[s] = TypeOf[u]
                        /\ RegistersAs(s) = "shared" /\ RegistersAs(u) = "shared"
    BY DEF SharedIsOne
  <2> QED BY RegistersOneWay DEF SharedInv
<1> QED BY <1>1, <1>2, SharedStep, TelemetryTypes, PTL DEF Spec
-----------------------------------------------------------------------------
(* What the report has of a holder of one's own.                           *)

\* What OwnInv says of holder x.
OwnAt(x) ==
  \/ /\ x \in active /\ scount[x] = 1 /\ x \notin told
     /\ \E s \in Sensors : \A u \in Sensors : handle[u] = x <=> u = s
  \/ /\ ~Held(x) /\ scount[x] = 0
     /\ x \in told => \/ x \notin active
                      \/ phase = "read" /\ x \notin todo
                      \/ phase = "erase" /\ x \in todo

LEMMA OwnInvIs ==
  OwnInv <=> /\ adopted \subseteq 1..made /\ told \subseteq 1..made /\ retold \subseteq adopted
             /\ \A x \in (1..made) \ adopted : OwnAt(x)
BY DEF OwnInv, OwnAt

\* A holder that is given away is no longer anybody's own.
LEMMA OwnAdopts ==
  ASSUME TypeOK, SharedInv, OwnInv, NEW s \in Sensors, handle[s] = None,
         Lock(TypeOf[s]) # None, Adopt(s, Lock(TypeOf[s])), UNCHANGED collectVars
  PROVE  OwnInv'
<1>1. Lock(TypeOf[s]) = weak[TypeOf[s]] /\ TypeOf[s] \in Types
  BY Locks, RegistersOneWay
<1>2. PICK y : y = weak[TypeOf[s]]
  OBVIOUS
<1>3. /\ y \in 1..made /\ handle' = [handle EXCEPT ![s] = y] /\ adopted' = adopted \cup {y}
      /\ made' = made /\ scount' = scount /\ active' = active
      /\ told' = told /\ retold' = retold /\ phase' = phase /\ todo' = todo
  BY <1>1, <1>2, TelemetryAssumption
     DEF Adopt, registry, collectVars, SharedInv, TypeOK, Holders
<1>4. ASSUME NEW x \in (1..made) \ adopted, x # y PROVE OwnAt(x)'
  <2>1. OwnAt(x)
    BY <1>4, OwnInvIs
  <2>2. \A u \in Sensors : handle'[u] = x <=> handle[u] = x
    <3>1. x # None
      BY TelemetryAssumption DEF TypeOK
    <3> QED BY <1>3, <1>4, <3>1 DEF TypeOK
  <2> QED BY <1>3, <2>1, <2>2 DEF OwnAt, Held
<1>5. /\ adopted' \subseteq 1..made' /\ told' \subseteq 1..made' /\ retold' \subseteq adopted'
      /\ \A x \in (1..made') \ adopted' : OwnAt(x)'
  BY <1>3, <1>4, OwnInvIs
<1> QED BY <1>5 DEF OwnInv, OwnAt

\* A holder that is made is counted, registered and in one sensor's hands.
LEMMA OwnMakes ==
  ASSUME TypeOK, SharedInv, OwnInv, NEW s \in Sensors, handle[s] = None, Make(s),
         UNCHANGED collectVars
  PROVE  OwnInv'
<1>1. PICK n \in Nat : n = made + 1
  BY DEF TypeOK
<1>2. /\ made \in Nat /\ made' = n /\ n \in Holders /\ n # None
      /\ active' = active \cup {n} /\ adopted' = adopted
      /\ told' = told /\ retold' = retold /\ phase' = phase /\ todo' = todo
  BY <1>1, TelemetryAssumption DEF TypeOK, Holders, Make, collectVars
<1>3. /\ handle'[s] = n /\ \A u \in Sensors : u # s => handle'[u] = handle[u]
      /\ scount'[n] = 1 /\ \A x \in 1..made : scount'[x] = scount[x]
  BY <1>1, <1>2 DEF TypeOK, Holders, Make
<1>4. \A u \in Sensors : handle[u] # n
  BY <1>1, <1>2 DEF SharedInv, TypeOK, Holders
<1>5. OwnAt(n)'
  <2>1. n \notin told
    BY <1>1, <1>2, OwnInvIs
  <2> QED BY <1>2, <1>3, <1>4, <2>1 DEF OwnAt
<1>6. ASSUME NEW x \in (1..made) \ adopted PROVE OwnAt(x)'
  <2>1. OwnAt(x) /\ x # n /\ x # None
    BY <1>1, <1>2, <1>6, OwnInvIs, TelemetryAssumption
  <2>2. \A u \in Sensors : handle'[u] = x <=> handle[u] = x
    BY <1>3, <2>1
  <2>3. x \in active' <=> x \in active
    BY <1>2, <2>1
  <2> QED BY <1>2, <1>3, <2>1, <2>2, <2>3 DEF OwnAt, Held
<1>7. ASSUME NEW x \in (1..made') \ adopted' PROVE OwnAt(x)'
  <2>1. CASE x = n
    BY <1>5, <2>1
  <2>2. CASE x # n
    <3>1. x \in (1..made) \ adopted
      BY <1>1, <1>2, <1>7, <2>2
    <3> QED BY <1>6, <3>1
  <2> QED BY <2>1, <2>2
<1>8. adopted' \subseteq 1..made' /\ told' \subseteq 1..made' /\ retold' \subseteq adopted'
  BY <1>1, <1>2, OwnInvIs
<1> QED BY <1>7, <1>8 DEF OwnInv, OwnAt

\* The last sensor of a holder of its own leaves.
LEMMA OwnDisables ==
  ASSUME TypeOK, OwnInv, NEW s \in Sensors, Disable(s)
  PROVE  OwnInv'
<1> DEFINE y == handle[s]
<1>1. /\ y \in Holders /\ handle'[s] = None
      /\ \A u \in Sensors : u # s => handle'[u] = handle[u]
      /\ scount'[y] = (scount[y] - 1) % Wrap
      /\ \A x \in Holders : x # y => scount'[x] = scount[x]
  BY DEF Disable, TypeOK
<1>2. /\ adopted' = adopted /\ made' = made /\ active' = active
      /\ told' = told /\ retold' = retold /\ phase' = phase /\ todo' = todo
  BY DEF Disable, registry, collectVars
<1>3. 0 % Wrap = 0
  BY TelemetryAssumption
<1>4. ASSUME NEW x \in (1..made) \ adopted PROVE OwnAt(x)'
  <2>1. OwnAt(x) /\ x # None /\ x \in Holders
    BY <1>4, OwnInvIs, TelemetryAssumption DEF TypeOK, Holders
  <2>2. CASE x = y
    <3>1. Held(x)
      BY <2>2 DEF Held
    <3>2. scount[x] = 1 /\ x \notin told /\ \A u \in Sensors : handle[u] = x <=> u = s
      BY <2>1, <2>2, <3>1 DEF OwnAt
    <3>3. scount'[x] = 0 /\ ~Held(x)'
      BY <1>1, <1>3, <2>1, <2>2, <3>2 DEF Held
    <3> QED BY <1>2, <3>2, <3>3 DEF OwnAt
  <2>3. CASE x # y
    <3>1. \A u \in Sensors : handle'[u] = x <=> handle[u] = x
      BY <1>1, <2>1, <2>3
    <3> QED BY <1>1, <1>2, <2>1, <2>3, <3>1 DEF OwnAt, Held
  <2> QED BY <2>2, <2>3
<1>5. /\ adopted' \subseteq 1..made' /\ told' \subseteq 1..made' /\ retold' \subseteq adopted'
      /\ \A x \in (1..made') \ adopted' : OwnAt(x)'
  BY <1>2, <1>4, OwnInvIs
<1> QED BY <1>5 DEF OwnInv, OwnAt

\* A step of the collector: what has left is reported, dropped and not reported again.
LEMMA OwnCollects ==
  ASSUME TypeOK, OwnInv, Collect
  PROVE  OwnInv'
<1>1. /\ handle' = handle /\ made' = made /\ scount' = scount /\ adopted' = adopted
      /\ \A x : Held(x)' <=> Held(x)
  BY DEF Collect, CollectBegin, CollectRead, CollectReported, CollectErase, CollectEnd,
         sensorVars, Held
<1>2. todo \subseteq active /\ active \subseteq 1..made
  BY DEF TypeOK
<1>3. CASE CollectBegin \/ CollectReported \/ CollectEnd
  <2>1. /\ active' = active /\ told' = told /\ retold' = retold
        /\ \/ phase = "off" /\ phase' = "read" /\ todo' = active
           \/ phase = "read" /\ todo = {} /\ phase' = "erase" /\ todo' = active
           \/ phase = "erase" /\ todo = {} /\ phase' = "off" /\ todo' = todo
    BY <1>3 DEF CollectBegin, CollectReported, CollectEnd, registry
  <2>2. ASSUME NEW x \in (1..made) \ adopted PROVE OwnAt(x)'
    <3>1. OwnAt(x)
      BY <2>2, OwnInvIs
    <3> QED BY <1>1, <2>1, <3>1 DEF OwnAt
  <2> QED BY <1>1, <2>1, <2>2 DEF OwnInv, OwnAt
<1>4. ASSUME NEW y \in todo, CollectRead(y) PROVE OwnInv'
  <2>1. /\ active' = active /\ phase = "read" /\ phase' = "read" /\ todo' = todo \ {y}
        /\ \/ Held(y) /\ told' = told /\ retold' = retold
           \/ ~Held(y) /\ told' = told \cup {y} /\ retold' = retold \cup ({y} \cap told)
    BY <1>4 DEF CollectRead, registry
  <2>2. y \notin adopted => OwnAt(y)
    BY <1>2, OwnInvIs
  <2>3. retold' \subseteq adopted' /\ told' \subseteq 1..made'
    BY <1>1, <1>2, <2>1, <2>2, OwnInvIs DEF OwnAt, Held
  <2>4. ASSUME NEW x \in (1..made) \ adopted PROVE OwnAt(x)'
    <3>1. OwnAt(x)
      BY <2>4, OwnInvIs
    <3> QED BY <1>1, <2>1, <3>1 DEF OwnAt, Held
  <2> QED BY <1>1, <2>3, <2>4, OwnInvIs DEF OwnInv, OwnAt
<1>5. ASSUME NEW y \in todo, CollectErase(y) PROVE OwnInv'
  <2>1. /\ told' = told /\ retold' = retold /\ phase = "erase" /\ phase' = "erase"
        /\ todo' = todo \ {y}
        /\ active' = IF scount[y] > 0 THEN active ELSE active \ {y}
    BY <1>5 DEF CollectErase, any_sensor
  <2>2. ASSUME NEW x \in (1..made) \ adopted PROVE OwnAt(x)'
    <3>1. OwnAt(x)
      BY <2>2, OwnInvIs
    <3> QED BY <1>1, <2>1, <3>1 DEF OwnAt
  <2> QED BY <1>1, <2>1, <2>2, OwnInvIs DEF OwnInv, OwnAt
<1> QED BY <1>3, <1>4, <1>5 DEF Collect

LEMMA OwnStep == TypeOK /\ SharedInv /\ OwnInv /\ [Next]_vars => OwnInv'
<1> SUFFICES ASSUME TypeOK, SharedInv, OwnInv, [Next]_vars PROVE OwnInv'
  OBVIOUS
<1>1. CASE UNCHANGED <<handle, made, scount, active, adopted, collectVars>>
  BY <1>1 DEF OwnInv, Held, collectVars
<1>2. UNCHANGED vars => UNCHANGED <<handle, made, scount, active, adopted, collectVars>>
  BY DEF vars, sensorVars, registry
<1>3. ASSUME NEW s \in Sensors, FindShared(s), handle' = handle,
             UNCHANGED <<made, scount, registry, adopted>>
      PROVE  OwnInv'
  <2>1. UNCHANGED collectVars
    BY <1>3 DEF FindShared
  <2> QED BY <1>1, <1>3, <2>1 DEF registry
<1>4. ASSUME NEW s \in Sensors, RegisterShared(s) PROVE OwnInv'
  <2>1. handle[s] = None
    BY <1>4 DEF RegisterShared, SharedInv
  <2> QED BY <1>4, <2>1, OwnAdopts, OwnMakes DEF RegisterShared
<1>5. ASSUME NEW s \in Sensors, RegisterUnique(s) PROVE OwnInv'
  BY <1>5, OwnMakes DEF RegisterUnique, collectVars
<1>6. ASSUME NEW s \in Sensors, User(s) PROVE OwnInv'
  BY <1>3, <1>4, <1>5, <1>6, OwnAdopts, OwnDisables, UserSteps
<1> QED BY <1>1, <1>2, <1>6, OwnCollects DEF Next

\* collect drops by a count that disable changes under its hands; yet an own holder is
\* in every report until its sensor is disabled, and once more afterwards at most.
THEOREM OwnIsReportedAlways == Spec => []OwnIsReported
<1>1. Init => SharedInv /\ OwnInv
  BY DEF Init, SharedInv, OwnInv
<1>2. TypeOK /\ SharedInv /\ OwnInv => OwnIsReported
  <2> SUFFICES ASSUME TypeOK, SharedInv, OwnInv PROVE OwnIsReported
    OBVIOUS
  <2>1. ASSUME NEW s \in Sensors, handle[s] \notin adopted \cup {None}
        PROVE  handle[s] \in active
    <3>1. handle[s] \in (1..made) \ adopted
      BY <2>1 DEF TypeOK, Holders, SharedInv
    <3> QED BY <3>1, OwnInvIs DEF OwnAt, Held
  <2> QED BY <2>1, OwnInvIs DEF OwnIsReported
<1> QED BY <1>1, <1>2, SharedStep, OwnStep, TelemetryTypes, PTL DEF Spec
=============================================================================
