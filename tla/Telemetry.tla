------------------------------ MODULE Telemetry ------------------------------
(***************************************************************************)
(* Sensors and their collector: the threads that enable and disable        *)
(* telemetry::Sensor objects, and Collector::collect, which reports what   *)
(* is registered and then drops what nobody counts on any more.            *)
(* Registering and collecting exclude each other by the collector's _mx;   *)
(* disable() takes no lock.  What a sensor measures is left out.           *)
(***************************************************************************)
EXTENDS Integers, FiniteSets

CONSTANTS Sensors,        \* Sensor objects
          Types,          \* types of measured structures
          TypeOf, ModeOf, \* the type of each sensor; "shared", "unique" or "auto"
          SharedReaders,  \* types the collector has a reader for, as shared
          UniqueReaders,  \* and as unique sensors
          None,           \* nullptr
          Wrap,           \* 2^64: the width of _scount
          MaxMade         \* bound on the holders made

Modes == {"shared", "unique", "auto"}
Holders == 1..MaxMade

ASSUME TelemetryAssumption ==
  /\ TypeOf \in [Sensors -> Types] /\ ModeOf \in [Sensors -> Modes]
  /\ SharedReaders \subseteq Types /\ UniqueReaders \subseteq Types
  /\ None \notin Nat
  /\ Wrap \in Nat /\ Wrap > 1 /\ MaxMade \in Nat

VARIABLES
  handle,   \* Sensor::_h: the SensorHolder each sensor has, or None
  creating, \* sensors whose enable found no shared holder and goes on to make one
  made,     \* how many holders were made
  scount,   \* SensorHolder::_scount
  weak,     \* Collector::_shared_sensors: a weak pointer for each type
  active,   \* Collector::_active_shared; _active_unique is never filled
  phase,    \* of collect, which holds _mx: "off", "read", "erase"
  todo,     \* the entries the phase has not come to
  adopted,  \* history: holders given to a sensor that did not make them
  told,     \* history: holders reported after their last sensor was disabled
  retold    \* history: those reported so again

sensorVars == <<handle, creating, made, scount>>
registry == <<weak, active>>
collectVars == <<phase, todo, told, retold>>
vars == <<sensorVars, registry, collectVars, adopted>>

\* The values the variables range over; counts are size_t.
TypeOK ==
  /\ handle \in [Sensors -> Holders \cup {None}]
  /\ creating \subseteq Sensors
  /\ made \in 0..MaxMade
  /\ scount \in [Holders -> 0..(Wrap - 1)]
  /\ weak \in [Types -> Holders \cup {None}]
  /\ active \subseteq 1..made
  /\ phase \in {"off", "read", "erase"}
  /\ todo \subseteq active
  /\ adopted \subseteq Holders /\ told \subseteq Holders /\ retold \subseteq Holders

Init ==
  /\ handle = [s \in Sensors |-> None] /\ creating = {}
  /\ made = 0 /\ scount = [x \in Holders |-> 0]
  /\ weak = [t \in Types |-> None] /\ active = {}
  /\ phase = "off" /\ todo = {}
  /\ adopted = {} /\ told = {} /\ retold = {}

-----------------------------------------------------------------------------
(* Enabling a sensor.  All users enable a sensor that is disabled.         *)

\* can_register_sensor_auto: a type with both readers is not enabled.
AutoKind(t) ==
  CASE t \in SharedReaders \ UniqueReaders -> "shared"
    [] t \in UniqueReaders \ SharedReaders -> "unique"
    [] OTHER -> "none"

\* How enable, enable_shared or enable_unique registers the sensor.
RegistersAs(s) ==
  CASE ModeOf[s] = "auto" -> AutoKind(TypeOf[s])
    [] ModeOf[s] = "shared" /\ TypeOf[s] \in SharedReaders -> "shared"
    [] ModeOf[s] = "unique" /\ TypeOf[s] \in UniqueReaders -> "unique"
    [] OTHER -> "none"

Held(x) == \E s \in Sensors : handle[s] = x

\* weak_ptr::lock: the collector's list keeps a holder alive, too.
Lock(t) == IF Held(weak[t]) \/ weak[t] \in active THEN weak[t] ELSE None

\* The sensor gets a holder that is there; _scount stays as it is.
Adopt(s, x) ==
  /\ handle' = [handle EXCEPT ![s] = x]
  /\ adopted' = adopted \cup {x}
  /\ UNCHANGED <<made, scount, registry>>

\* Faulty variant: the holder is registered without being counted.
Make_Uncounted(s) ==
  /\ made < MaxMade /\ made' = made + 1
  /\ handle' = [handle EXCEPT ![s] = made']
  /\ active' = active \cup {made'}
  /\ UNCHANGED <<scount, adopted>>

\* A new holder, counted once and registered with its reader.
Make(s) ==
  /\ made < MaxMade /\ made' = made + 1
  /\ handle' = [handle EXCEPT ![s] = made']
  /\ scount' = [scount EXCEPT ![made'] = 1]
  /\ active' = active \cup {made'}
  /\ UNCHANGED adopted

\* get_shared_sensor: the collector has a holder of this type, or the sensor makes one.
FindShared(s) ==
  /\ handle[s] = None /\ s \notin creating /\ RegistersAs(s) = "shared"
  /\ phase = "off"
  /\ \/ Lock(TypeOf[s]) # None /\ Adopt(s, Lock(TypeOf[s])) /\ UNCHANGED creating
     \/ /\ Lock(TypeOf[s]) = None /\ creating' = creating \cup {s}
        /\ UNCHANGED <<handle, made, scount, registry, adopted>>
  /\ UNCHANGED collectVars

\* Faulty variant: the registered holder is replaced, whoever was first.
RegisterShared_NoSecondLook(s) ==
  /\ s \in creating /\ phase = "off" /\ creating' = creating \ {s}
  /\ Make(s) /\ weak' = [weak EXCEPT ![TypeOf[s]] = made']
  /\ UNCHANGED collectVars

\* register_shared_sensor: another thread may have been faster; then its holder is used
\* and the new one destroyed.
RegisterShared(s) ==
  /\ s \in creating /\ phase = "off" /\ creating' = creating \ {s}
  /\ \/ Lock(TypeOf[s]) # None /\ Adopt(s, Lock(TypeOf[s]))
     \/ /\ Lock(TypeOf[s]) = None
        /\ Make(s) /\ weak' = [weak EXCEPT ![TypeOf[s]] = made']
  /\ UNCHANGED collectVars

RegisterUnique(s) ==
  /\ handle[s] = None /\ RegistersAs(s) = "unique"
  /\ phase = "off"
  /\ Make(s)
  /\ UNCHANGED <<creating, weak, collectVars>>

\* Faulty variant: the count is left as it is.
Disable_Uncounted(s) ==
  /\ handle[s] # None
  /\ handle' = [handle EXCEPT ![s] = None]
  /\ UNCHANGED <<creating, made, scount, registry, collectVars, adopted>>

\* disable, also by the destructor, at any time.
Disable(s) ==
  /\ handle[s] # None
  /\ scount' = [scount EXCEPT ![handle[s]] = (@ - 1) % Wrap]
  /\ handle' = [handle EXCEPT ![s] = None]
  /\ UNCHANGED <<creating, made, registry, collectVars, adopted>>

-----------------------------------------------------------------------------
(* Collector::collect.                                                     *)

CollectBegin ==
  /\ phase = "off" /\ phase' = "read" /\ todo' = active
  /\ UNCHANGED <<sensorVars, registry, adopted, told, retold>>

\* The reader of an entry adds its metrics to the report.
CollectRead(x) ==
  /\ phase = "read" /\ x \in todo /\ todo' = todo \ {x}
  /\ \/ Held(x) /\ UNCHANGED <<told, retold>>
     \/ /\ ~Held(x) /\ told' = told \cup {x}
        /\ retold' = retold \cup ({x} \cap told)
  /\ UNCHANGED <<sensorVars, registry, phase, adopted>>

CollectReported ==
  /\ phase = "read" /\ todo = {}
  /\ phase' = "erase" /\ todo' = active
  /\ UNCHANGED <<sensorVars, registry, adopted, told, retold>>

any_sensor(x) == scount[x] > 0

\* One entry of remove_if.
CollectErase(x) ==
  /\ phase = "erase" /\ x \in todo /\ todo' = todo \ {x}
  /\ active' = IF any_sensor(x) THEN active ELSE active \ {x}
  /\ UNCHANGED <<sensorVars, weak, phase, adopted, told, retold>>

CollectEnd ==
  /\ phase = "erase" /\ todo = {} /\ phase' = "off"
  /\ UNCHANGED <<sensorVars, registry, todo, adopted, told, retold>>

Collect ==
  \/ CollectBegin \/ CollectReported \/ CollectEnd
  \/ \E x \in todo : CollectRead(x) \/ CollectErase(x)

User(s) == FindShared(s) \/ RegisterShared(s) \/ RegisterUnique(s) \/ Disable(s)

Next == (\E s \in Sensors : User(s)) \/ Collect

Spec == Init /\ [][Next]_vars

-----------------------------------------------------------------------------
\* get_shared_sensor and register_shared_sensor take the lock one after the other, and
\* threads race between them: still, all enabled shared sensors of a type measure into
\* one structure, and each unique sensor into its own.
SharedIsOne ==
  \A s, u \in Sensors :
    s # u /\ handle[s] # None /\ handle[u] # None =>
      (handle[s] = handle[u] <=> /\ TypeOf[s] = TypeOf[u]
                                 /\ RegistersAs(s) = "shared" /\ RegistersAs(u) = "shared")

\* collect drops by a count that disable changes under its hands: a sensor whose
\* holder was never given to another one is in every report until it is disabled, and
\* then ("no longer monitored") it is reported once more at most.
OwnIsReported ==
  /\ \A s \in Sensors : handle[s] \notin adopted \cup {None} => handle[s] \in active
  /\ retold \subseteq adopted
-----------------------------------------------------------------------------
(* The inductive invariants behind them.                                   *)

\* The weak pointer of a type is to the holder of all its shared sensors; no other
\* sensor has it.
SharedInv ==
  /\ \A t \in Types : weak[t] # None => weak[t] <= made
  /\ \A t, v \in Types : weak[t] = weak[v] /\ weak[t] # None => t = v
  /\ \A s \in creating : handle[s] = None /\ RegistersAs(s) = "shared"
  /\ \A s \in Sensors : handle[s] # None =>
       /\ handle[s] <= made
       /\ \/ RegistersAs(s) = "shared" /\ handle[s] = weak[TypeOf[s]]
          \/ /\ RegistersAs(s) = "unique"
             /\ \A t \in Types : handle[s] # weak[t]
             /\ \A u \in Sensors : handle[u] = handle[s] => u = s

\* A holder that was never given away is counted for the one sensor that has it, and
\* once it has been reported as left, it has no sensor and is on its way out.
OwnInv ==
  /\ adopted \subseteq 1..made /\ told \subseteq 1..made /\ retold \subseteq adopted
  /\ \A x \in (1..made) \ adopted :
       \/ /\ x \in active /\ scount[x] = 1 /\ x \notin told
          /\ \E s \in Sensors : \A u \in Sensors : handle[u] = x <=> u = s
       \/ /\ ~Held(x) /\ scount[x] = 0
          /\ x \in told => \/ x \notin active
                           \/ phase = "read" /\ x \notin todo
                           \/ phase = "erase" /\ x \in todo
=============================================================================
