--------------------------- MODULE SnowflakeProofs ---------------------------
(***************************************************************************)
(* Proofs about Snowflake for any processes, threads, addresses, widths of *)
(* the parts of an id and settings of the clock: the "or" of the shifted   *)
(* parts is a number with the parts for digits, and the ids of a process   *)
(* grow until its clock is set far back.  At the end, what holds of Rpc    *)
(* and of Snowflake is carried to the instance that uses both.             *)
(***************************************************************************)
EXTENDS MCRpc, RpcProofs, TLAPS

-----------------------------------------------------------------------------
(* The parts of an id.                                                      *)

LEMMA PowersArePositive == PowersOfTwo \subseteq Nat \ {0}
  BY DEF PowersOfTwo

\* Below a power of two there are only its halves.
LEMMA PowersHalve ==
    ASSUME NEW u \in PowersOfTwo, NEW p \in PowersOfTwo, p < u
    PROVE  u \div (2 * p) \in Nat /\ u = (2 * (u \div (2 * p))) * p
  BY DEF PowersOfTwo

\* A number shifted by a unit has no bit in common with a number below the unit.
LEMMA NoCommonBit ==
    ASSUME NEW u \in PowersOfTwo, NEW q \in Int, NEW y \in 0..(u - 1), NEW p \in PowersOfTwo
    PROVE  ~ (HasBit(q * u, p) /\ HasBit(y, p))
<1>1. u \in Nat \ {0} /\ p \in Nat \ {0}
  BY PowersArePositive
<1>2. CASE p < u
  <2> DEFINE m == u \div (2 * p)
  <2>1. m \in Nat /\ u = (2 * m) * p
    BY <1>2, PowersHalve
  <2> HIDE DEF m
  <2>2. q * u = (2 * (q * m)) * p /\ q * m \in Int
    BY <1>1, <2>1
  <2>3. \A n \in Int : (n * p) \div p = n
    BY <1>1
  <2>4. (q * u) \div p = 2 * (q * m)
    BY <2>2, <2>3
  <2>5. \A n \in Int : (2 * n) % 2 = 0
    OBVIOUS
  <2> QED
    BY <2>2, <2>4, <2>5 DEF HasBit
<1>3. CASE p >= u
  <2>1. y \div p = 0
    BY <1>1, <1>3
  <2> QED
    BY <2>1 DEF HasBit
<1> QED
  BY <1>1, <1>2, <1>3

LEMMA OrIsSum ==
    ASSUME NEW u \in PowersOfTwo, NEW q \in Int, NEW y \in 0..(u - 1)
    PROVE  BitOr(q * u, y) = q * u + y
<1>1. {p \in PowersOfTwo : HasBit(q * u, p) /\ HasBit(y, p)} = {}
  BY NoCommonBit
<1>2. SumSet({}) = 0
  BY DEF SumSet, FoldSet, MapThenFoldSet
<1>3. q * u \in Int /\ y \in Int
  BY PowersArePositive
<1>4. BitOr(q * u, y) = q * u + y - SumSet({})
  BY <1>1 DEF BitOr
<1> QED
  BY <1>2, <1>3, <1>4

\* The id of generator g for a time since its start and a sequence.
Number(g, time, seq) ==
    ((time * Datacenters + Address[g].datacenter) * Machines + Address[g].machine) * Sequences + seq

LEMMA WidthTypes ==
    /\ Datacenters \in Nat \ {0} /\ Machines \in Nat \ {0} /\ Sequences \in Nat \ {0}
    /\ MachineUnit \in PowersOfTwo /\ DatacenterUnit \in PowersOfTwo /\ TimestampUnit \in PowersOfTwo
    /\ \A g \in Generator : Address[g] \in [datacenter : Nat, machine : Nat]
<1>1. {Sequences, Machines, Datacenters, DatacenterUnit, TimestampUnit} \subseteq PowersOfTwo
  BY SnowflakeAssumption
<1>2. /\ Sequences \in PowersOfTwo /\ Machines \in PowersOfTwo /\ Datacenters \in PowersOfTwo
      /\ DatacenterUnit \in PowersOfTwo /\ TimestampUnit \in PowersOfTwo
  BY <1>1
<1>3. MachineUnit \in PowersOfTwo
  BY <1>2 DEF MachineUnit
<1>4. \A g \in Generator : Address[g] \in [datacenter : Nat, machine : Nat]
  <2>1. \A g \in Generator : Address[g] \in [datacenter : 0..255, machine : 0..255]
    BY SnowflakeAssumption
  <2>2. \A x \in [datacenter : 0..255, machine : 0..255] : x \in [datacenter : Nat, machine : Nat]
    OBVIOUS
  <2> QED
    BY <2>1, <2>2
<1> QED
  BY <1>2, <1>3, <1>4, PowersArePositive

\* The least digit and the rest of a number.
LEMMA DigitsAreUnique ==
    ASSUME NEW n \in Nat \ {0}, NEW q \in Int, NEW r \in Int,
           NEW x \in 0..(n - 1), NEW y \in 0..(n - 1), q * n + x = r * n + y
    PROVE  q = r /\ x = y
<1>1. \A k, l \in Int : k < l => k * n + n <= l * n
  <2> SUFFICES ASSUME NEW k \in Int, NEW l \in Int, k < l PROVE k * n + n <= l * n
    OBVIOUS
  <2>1. l - k - 1 \in Nat /\ (l - k - 1) * n >= 0
    OBVIOUS
  <2>2. (l - k - 1) * n = l * n - k * n - n
    OBVIOUS
  <2> QED
    BY <2>1, <2>2
<1>2. ~(q < r) /\ ~(r < q)
  BY <1>1
<1> QED
  BY <1>2

\* Two ids agree in all of their parts.
LEMMA NumberIsUnique ==
    ASSUME NEW g \in Generator, NEW h \in Generator, Fits(g), Fits(h),
           NEW time \in Int, NEW other \in Int,
           NEW seq \in 0..(Sequences - 1), NEW next \in 0..(Sequences - 1),
           Number(g, time, seq) = Number(h, other, next)
    PROVE  time = other /\ seq = next /\ Address[g] = Address[h]
<1> DEFINE x == Address[g]
           y == Address[h]
           p == time * Datacenters + x.datacenter
           q == other * Datacenters + y.datacenter
           v == p * Machines + x.machine
           w == q * Machines + y.machine
<1>1. /\ x.datacenter \in 0..(Datacenters - 1) /\ x.machine \in 0..(Machines - 1)
      /\ y.datacenter \in 0..(Datacenters - 1) /\ y.machine \in 0..(Machines - 1)
      /\ x = [datacenter |-> x.datacenter, machine |-> x.machine]
      /\ y = [datacenter |-> y.datacenter, machine |-> y.machine]
  BY WidthTypes DEF Fits
<1>2. Number(g, time, seq) = v * Sequences + seq /\ Number(h, other, next) = w * Sequences + next
  BY DEF Number
<1> HIDE DEF x, y
<1>3. p \in Int /\ q \in Int
  BY <1>1, WidthTypes
<1> HIDE DEF p, q
<1>4. v \in Int /\ w \in Int
  BY <1>1, <1>3, WidthTypes
<1> HIDE DEF v, w
<1>5. v = w /\ seq = next
  BY <1>2, <1>4, WidthTypes, DigitsAreUnique
<1>6. p * Machines + x.machine = q * Machines + y.machine
  BY <1>5 DEF v, w
<1>7. p = q /\ x.machine = y.machine
  BY <1>1, <1>3, <1>6, WidthTypes, DigitsAreUnique
<1>8. time * Datacenters + x.datacenter = other * Datacenters + y.datacenter
  BY <1>7 DEF p, q
<1>9. time = other /\ x.datacenter = y.datacenter
  BY <1>1, <1>8, WidthTypes, DigitsAreUnique
<1>10. x = y
  BY <1>1, <1>7, <1>9
<1> QED
  BY <1>5, <1>9, <1>10 DEF x, y

-----------------------------------------------------------------------------
(* Types.                                                                   *)

IdTypeInv ==
    /\ SnowflakeTypeOK
    /\ asked \in [Asker -> Nat]
    /\ \A i \in issued : i.by \in Asker /\ i.era \in Nat /\ i.excused \in BOOLEAN

\* The "or" of the parts, when the address has the bits that it should have.
LEMMA IdIsNumber ==
    ASSUME IdTypeInv, NEW a \in Asker, Fits(Home[a])
    PROVE  Id(a) = Number(Home[a], timestamp[a] - startTimestamp[Home[a]], sequence[Home[a]])
<1> DEFINE g == Home[a]
           time == timestamp[a] - startTimestamp[g]
           d == Address[g].datacenter
           m == Address[g].machine
           high == time * Datacenters + d
           low == m * MachineUnit + sequence[g]
<1>1. /\ g \in Generator /\ time \in Int /\ sequence[g] \in 0..(Sequences - 1)
      /\ d \in 0..(Datacenters - 1) /\ m \in 0..(Machines - 1)
  <2>1. g \in Generator
    BY SnowflakeAssumption
  <2> QED
    BY <2>1, WidthTypes, SnowflakeAssumption DEF IdTypeInv, SnowflakeTypeOK, Fits, Epoch
<1> HIDE DEF time, d, m, g
<1>2. \A n, k \in Nat \ {0} : \A x \in 0..(n - 1) : \A y \in 0..(k - 1) : x * k + y \in 0..(k * n - 1)
  <2> SUFFICES ASSUME NEW n \in Nat \ {0}, NEW k \in Nat \ {0}, NEW x \in 0..(n - 1), NEW y \in 0..(k - 1)
               PROVE  x * k + y \in 0..(k * n - 1)
    OBVIOUS
  <2>1. (n - 1 - x) * k >= 0 /\ (n - 1 - x) * k = k * n - k - x * k /\ x * k >= 0
    OBVIOUS
  <2> QED
    BY <2>1
<1>3. DatacenterUnit \in Nat \ {0} /\ MachineUnit = Sequences
  BY WidthTypes, PowersArePositive DEF MachineUnit
<1>4. BitOr(m * MachineUnit, sequence[g]) = low /\ low \in 0..(DatacenterUnit - 1)
  BY <1>1, <1>2, <1>3, WidthTypes, OrIsSum DEF DatacenterUnit
<1>5. BitOr(time * TimestampUnit, d * DatacenterUnit) = high * DatacenterUnit
  <2>1. d * DatacenterUnit + 0 \in 0..(DatacenterUnit * Datacenters - 1)
    BY <1>1, <1>2, <1>3, WidthTypes
  <2>2. d * DatacenterUnit \in 0..(TimestampUnit - 1)
    BY <1>1, <1>3, <2>1 DEF TimestampUnit
  <2>3. BitOr(time * TimestampUnit, d * DatacenterUnit) = time * TimestampUnit + d * DatacenterUnit
    BY <1>1, <2>2, WidthTypes, OrIsSum
  <2>4. time * (DatacenterUnit * Datacenters) + d * DatacenterUnit = high * DatacenterUnit
    BY <1>1, <1>3, WidthTypes
  <2> QED
    BY <2>3, <2>4 DEF TimestampUnit
<1>6. high \in Int
  BY <1>1, WidthTypes
<1>7. BitOr(high * DatacenterUnit, low) = high * DatacenterUnit + low
  BY <1>4, <1>6, WidthTypes, OrIsSum
<1>8. high * (Sequences * Machines) + (m * Sequences + sequence[g]) = (high * Machines + m) * Sequences + sequence[g]
  BY <1>1, <1>6, WidthTypes
<1>9. Id(a) = BitOr(BitOr(time * TimestampUnit, d * DatacenterUnit), BitOr(m * MachineUnit, sequence[g]))
  BY DEF Id, time, d, m, g
<1> QED
  BY <1>3, <1>4, <1>5, <1>7, <1>8, <1>9 DEF Number, time, d, m, g, MachineUnit, DatacenterUnit

LEMMA IdTypeInit == SnowflakeInit => IdTypeInv
<1> SUFFICES ASSUME SnowflakeInit PROVE IdTypeInv
  OBVIOUS
<1>1. MaxTime \in Nat /\ MaxSetBacks \in Nat /\ MaxIds \in [Asker -> Nat] /\ Sequences \in Nat \ {0}
  BY SnowflakeAssumption, WidthTypes
<1> QED
  BY <1>1 DEF SnowflakeInit, IdTypeInv, SnowflakeTypeOK

\* The attributes of a generator and the clocks keep their types.
LEMMA IdTypeStep == IdTypeInv /\ [SnowflakeNext]_snowflakeVars => IdTypeInv'
<1> SUFFICES ASSUME IdTypeInv, [SnowflakeNext]_snowflakeVars PROVE IdTypeInv'
  OBVIOUS
<1> USE DEF IdTypeInv, SnowflakeTypeOK
<1>1. /\ MaxTime \in Nat /\ MaxSetBacks \in Nat /\ MaxIds \in [Asker -> Nat] /\ Sequences \in Nat \ {0}
      /\ \A a \in Asker : Home[a] \in Generator
  BY SnowflakeAssumption, WidthTypes
<1>2. CASE UNCHANGED snowflakeVars
  BY <1>2 DEF snowflakeVars, attributes
<1>3. CASE Tick
  BY <1>1, <1>3 DEF Tick, attributes
<1>4. CASE SetBack
  <2>1. /\ setBacks < MaxSetBacks /\ setBacks' = setBacks + 1 /\ now' \in 0..(now - 1)
        /\ UNCHANGED <<startTimestamp, lastTimestamp, sequence, apc, timestamp, asked, issued, era>>
    BY <1>4 DEF SetBack, attributes
  <2>2. excused' \in [Generator -> BOOLEAN]
    BY <1>4 DEF SetBack
  <2> QED
    BY <1>1, <2>1, <2>2
<1>5. ASSUME NEW a \in Asker, NEW from, NEW to \in {"idle", "compare", "sleep", "same", "spin", "store", "make"},
             Move(a, from, to)
      PROVE  apc' \in [Asker -> {"idle", "compare", "sleep", "same", "spin", "store", "make"}]
  BY <1>5 DEF Move
<1>6. ASSUME NEW a \in Asker, ReadClock(a) PROVE timestamp' \in [Asker -> 0..MaxTime]
  BY <1>6 DEF ReadClock
<1>7. ASSUME NEW a \in Asker, Generate(a) PROVE IdTypeInv'
  <2>1. /\ apc' \in [Asker -> {"idle", "compare", "sleep", "same", "spin", "store", "make"}]
        /\ timestamp' \in [Asker -> 0..MaxTime]
    BY <1>5, <1>6, <1>7 DEF Generate
  <2>2. asked' \in [Asker -> Nat] /\ \A b \in Asker : asked'[b] \in 0..MaxIds[b]
    BY <1>1, <1>7 DEF Generate
  <2>3. excused' \in [Generator -> BOOLEAN]
    <3>1. excused' = [excused EXCEPT ![Home[a]] =
                        excused[Home[a]] \/ \E b \in Asker : Home[b] = Home[a] /\ apc[b] # "idle"]
      BY <1>7 DEF Generate, Assign
    <3>2. (excused[Home[a]] \/ \E b \in Asker : Home[b] = Home[a] /\ apc[b] # "idle") \in BOOLEAN
      BY <1>1
    <3> QED
      BY <3>1, <3>2, Zenon
  <2> QED
    BY <1>7, <2>1, <2>2, <2>3 DEF Generate, attributes
<1>8. ASSUME NEW a \in Asker, ClockIsFine(a) \/ SmallRollbackSleeps(a) PROVE IdTypeInv'
  BY <1>5, <1>8 DEF ClockIsFine, SmallRollbackSleeps, attributes
<1>9. ASSUME NEW a \in Asker, Wakes(a) \/ TillNextMillis(a) PROVE IdTypeInv'
  BY <1>5, <1>6, <1>9 DEF Wakes, TillNextMillis, attributes
<1>10. ASSUME NEW a \in Asker, LargeRollbackResets(a) PROVE IdTypeInv'
  BY <1>1, <1>5, <1>10 DEF LargeRollbackResets, Assign
<1>11. ASSUME NEW a \in Asker, NewMillisecond(a) \/ SameMillisecond(a) PROVE IdTypeInv'
  <2>1. /\ apc' \in [Asker -> {"idle", "compare", "sleep", "same", "spin", "store", "make"}]
        /\ UNCHANGED <<now, startTimestamp, lastTimestamp, timestamp, asked, issued, excused, era, setBacks>>
    BY <1>5, <1>11 DEF NewMillisecond, SameMillisecond
  <2>2. NextSequence(a) \in 0..(Sequences - 1)
    BY <1>1 DEF NextSequence
  <2>3. sequence' \in [Generator -> 0..(Sequences - 1)]
    BY <1>1, <1>11, <2>2 DEF NewMillisecond, SameMillisecond, Assign
  <2> QED
    BY <2>1, <2>3
<1>12. ASSUME NEW a \in Asker, StoreTimestamp(a) PROVE IdTypeInv'
  BY <1>1, <1>5, <1>12 DEF StoreTimestamp, Assign
<1>13. ASSUME NEW a \in Asker, MakeId(a) PROVE IdTypeInv'
  <2>1. /\ apc' \in [Asker -> {"idle", "compare", "sleep", "same", "spin", "store", "make"}]
        /\ UNCHANGED <<now, startTimestamp, lastTimestamp, sequence, timestamp, asked, excused, era, setBacks>>
    BY <1>5, <1>13 DEF MakeId, attributes
  <2>2. \A i \in issued' : i.by \in Asker /\ i.era \in Nat /\ i.excused \in BOOLEAN
    BY <1>1, <1>13 DEF MakeId
  <2> QED
    BY <2>1, <2>2
<1> QED
  BY <1>2, <1>3, <1>4, <1>7, <1>8, <1>9, <1>10, <1>11, <1>12, <1>13 DEF SnowflakeNext

LEMMA TypeCorrect == SnowflakeSpec => []IdTypeInv
  BY IdTypeInit, IdTypeStep, PTL DEF SnowflakeSpec

(* Every attribute and local variable keeps its type; the sequence keeps    *)
(* its bits, and no time is above the clock's bound.                        *)
THEOREM SnowflakeTypeCorrect == SnowflakeSpec => []SnowflakeTypeOK
<1>1. IdTypeInv => SnowflakeTypeOK
  BY DEF IdTypeInv
<1> QED
  BY <1>1, TypeCorrect, PTL

-----------------------------------------------------------------------------
(* The calls of a generator, as long as it has no excuse.                   *)

\* Before the first reset times count from the epoch, afterwards from a time of the clock.
EraInv ==
    \A g \in Generator :
        IF era[g] = 0 THEN startTimestamp[g] = Epoch ELSE startTimestamp[g] \in 0..MaxTime

\* Calls of a generator have not overlapped.
OneCall ==
    \A a, b \in Asker :
        Home[a] = Home[b] /\ ~excused[Home[a]] /\ apc[a] # "idle" /\ apc[b] # "idle" => a = b

\* What a call has found out about the clock and the last id.
CallAt(a) ==
    ~excused[Home[a]] =>
        /\ apc[a] = "same" => lastTimestamp[Home[a]] <= timestamp[a]
        /\ apc[a] \in {"spin", "make"} => lastTimestamp[Home[a]] = timestamp[a]

CallInv == \A a \in Asker : CallAt(a)

Less(t, s, u, q) == t < u \/ (t = u /\ s < q)

\* The moment of an id of this era, in the order in which its generator gave them out.
Passed(g, t, s) ==
    /\ (\A a \in Asker : Home[a] = g => apc[a] \in {"idle", "compare", "sleep", "same"}) =>
          Less(t, s, lastTimestamp[g], sequence[g] + 1)
    /\ \A a \in Asker : Home[a] = g =>
          /\ apc[a] = "spin" => t <= timestamp[a]
          /\ apc[a] \in {"store", "make"} => Less(t, s, timestamp[a], sequence[g])

\* An id is made of a time and a sequence; times since the epoch are the longest.
Made(i, time, seq) ==
    /\ i.id = Number(Home[i.by], time, seq)
    /\ IF i.era = 0 THEN time > MaxTime ELSE time <= MaxTime
    /\ i.era = era[Home[i.by]] /\ ~excused[Home[i.by]] =>
          Passed(Home[i.by], time + startTimestamp[Home[i.by]], seq)

IssuedAt(i) ==
    /\ i.era <= era[Home[i.by]]
    /\ ~i.excused /\ Fits(Home[i.by]) =>
          \E time \in Int, seq \in 0..(Sequences - 1) : Made(i, time, seq)

IssuedInv == \A i \in issued : IssuedAt(i)

CountInv == EraInv /\ OneCall /\ CallInv /\ IssuedInv

\* What every call of a has in common: it moves a, and no attribute of other generators.
AskerStep(a) ==
    /\ \A b \in Asker : b # a => apc'[b] = apc[b] /\ timestamp'[b] = timestamp[b]
    /\ \A g \in Generator : g # Home[a] =>
          /\ startTimestamp'[g] = startTimestamp[g] /\ lastTimestamp'[g] = lastTimestamp[g]
          /\ sequence'[g] = sequence[g] /\ era'[g] = era[g]
    /\ \A g \in Generator : excused[g] => excused'[g]
    /\ \A g \in Generator : g # Home[a] => excused'[g] = excused[g]

LEMMA StepOfCall ==
    ASSUME IdTypeInv, NEW a \in Asker,
           \/ Generate(a) \/ ClockIsFine(a) \/ SmallRollbackSleeps(a) \/ Wakes(a)
           \/ LargeRollbackResets(a) \/ NewMillisecond(a) \/ SameMillisecond(a)
           \/ TillNextMillis(a) \/ StoreTimestamp(a) \/ MakeId(a)
    PROVE  AskerStep(a) /\ Home[a] \in Generator
<1> USE DEF IdTypeInv, SnowflakeTypeOK, AskerStep, Move, ReadClock, Assign, attributes
<1>1. Home[a] \in Generator
  BY SnowflakeAssumption
<1>2. CASE Generate(a)
  <2>1. \A g \in Generator : excused'[g] =
          IF g = Home[a] THEN excused[Home[a]] \/ \E b \in Asker : Home[b] = Home[a] /\ apc[b] # "idle"
          ELSE excused[g]
    BY <1>2 DEF Generate
  <2> QED
    BY <1>1, <1>2, <2>1 DEF Generate
<1>3. CASE ClockIsFine(a) \/ SmallRollbackSleeps(a) \/ Wakes(a) \/ TillNextMillis(a)
  BY <1>1, <1>3 DEF ClockIsFine, SmallRollbackSleeps, Wakes, TillNextMillis
<1>4. CASE LargeRollbackResets(a)
  BY <1>1, <1>4 DEF LargeRollbackResets
<1>5. CASE NewMillisecond(a) \/ SameMillisecond(a)
  BY <1>1, <1>5 DEF NewMillisecond, SameMillisecond
<1>6. CASE StoreTimestamp(a) \/ MakeId(a)
  BY <1>1, <1>6 DEF StoreTimestamp, MakeId
<1> QED
  BY <1>1, <1>2, <1>3, <1>4, <1>5, <1>6

\* After a step of a the other calls of its generator, if it has no excuse, are idle.
LEMMA OthersIdle ==
    ASSUME OneCall, NEW a \in Asker, NEW b \in Asker, b # a, Home[b] = Home[a],
           ~excused[Home[a]], apc[a] # "idle"
    PROVE  apc[b] = "idle"
  BY DEF OneCall

LEMMA EraStep ==
    ASSUME IdTypeInv, EraInv, [SnowflakeNext]_snowflakeVars
    PROVE  EraInv'
<1>1. ASSUME UNCHANGED <<era, startTimestamp>> PROVE EraInv'
  BY <1>1 DEF EraInv
<1>2. ASSUME NEW a \in Asker, LargeRollbackResets(a) PROVE EraInv'
  <2>1. /\ era' = [era EXCEPT ![Home[a]] = era[Home[a]] + 1]
        /\ startTimestamp' = [startTimestamp EXCEPT ![Home[a]] = timestamp[a]]
        /\ timestamp[a] \in 0..MaxTime
    BY <1>2 DEF LargeRollbackResets, Assign, IdTypeInv, SnowflakeTypeOK
  <2>2. era \in [Generator -> Nat] /\ startTimestamp \in [Generator -> {Epoch} \cup 0..MaxTime]
    BY DEF IdTypeInv, SnowflakeTypeOK
  <2> QED
    BY <2>1, <2>2 DEF EraInv
<1>3. CASE UNCHANGED snowflakeVars
  BY <1>1, <1>3 DEF snowflakeVars, attributes
<1>4. CASE Tick \/ SetBack
  BY <1>1, <1>4 DEF Tick, SetBack, attributes
<1>5. ASSUME NEW a \in Asker,
             \/ Generate(a) \/ ClockIsFine(a) \/ SmallRollbackSleeps(a) \/ Wakes(a)
             \/ NewMillisecond(a) \/ SameMillisecond(a)
             \/ TillNextMillis(a) \/ StoreTimestamp(a) \/ MakeId(a)
      PROVE  EraInv'
  BY <1>1, <1>5 DEF Generate, ClockIsFine, SmallRollbackSleeps, Wakes, NewMillisecond,
                    SameMillisecond, TillNextMillis, StoreTimestamp, MakeId, attributes
<1> QED
  BY <1>2, <1>3, <1>4, <1>5 DEF SnowflakeNext

LEMMA OneCallStep ==
    ASSUME IdTypeInv, OneCall, [SnowflakeNext]_snowflakeVars
    PROVE  OneCall'
<1>1. ASSUME UNCHANGED apc, \A g \in Generator : excused[g] => excused'[g] PROVE OneCall'
  <2>1. \A a \in Asker : Home[a] \in Generator
    BY SnowflakeAssumption
  <2> QED
    BY <1>1, <2>1 DEF OneCall
<1>2. CASE UNCHANGED snowflakeVars
  BY <1>1, <1>2 DEF snowflakeVars
<1>3. CASE Tick \/ SetBack
  <2>1. UNCHANGED apc
    BY <1>3 DEF Tick, SetBack
  <2>2. \A g \in Generator : excused[g] => excused'[g]
    BY <1>3 DEF Tick, SetBack
  <2> QED
    BY <1>1, <2>1, <2>2
<1>4. ASSUME NEW a \in Asker, Generate(a) PROVE OneCall'
  <2>1. AskerStep(a) /\ Home[a] \in Generator
    BY <1>4, StepOfCall
  <2>2. excused'[Home[a]] = (excused[Home[a]] \/ \E b \in Asker : Home[b] = Home[a] /\ apc[b] # "idle")
    BY <1>4, <2>1 DEF Generate, Assign, IdTypeInv, SnowflakeTypeOK
  <2> SUFFICES ASSUME NEW b \in Asker, NEW c \in Asker, Home[b] = Home[c], ~excused'[Home[b]],
                      apc'[b] # "idle", apc'[c] # "idle"
               PROVE  b = c
    BY DEF OneCall
  <2>3. Home[b] \in Generator /\ ~excused[Home[b]]
    BY <2>1, SnowflakeAssumption DEF AskerStep
  <2>4. CASE b # a /\ c # a
    BY <2>1, <2>3, <2>4 DEF AskerStep, OneCall
  <2>5. CASE b = a /\ c # a
    BY <2>1, <2>2, <2>5 DEF AskerStep
  <2>6. CASE b # a /\ c = a
    BY <2>1, <2>2, <2>6 DEF AskerStep
  <2> QED
    BY <2>4, <2>5, <2>6
<1>5. ASSUME NEW a \in Asker,
             \/ ClockIsFine(a) \/ SmallRollbackSleeps(a) \/ Wakes(a)
             \/ LargeRollbackResets(a) \/ NewMillisecond(a) \/ SameMillisecond(a)
             \/ TillNextMillis(a) \/ StoreTimestamp(a) \/ MakeId(a)
      PROVE  OneCall'
  <2>1. AskerStep(a) /\ apc[a] # "idle" /\ \A b \in Asker : Home[b] \in Generator
    BY <1>5, StepOfCall, SnowflakeAssumption
    DEF ClockIsFine, SmallRollbackSleeps, Wakes, LargeRollbackResets, NewMillisecond,
        SameMillisecond, TillNextMillis, StoreTimestamp, MakeId, Move
  <2> QED
    BY <2>1 DEF OneCall, AskerStep
<1> QED
  BY <1>2, <1>3, <1>4, <1>5 DEF SnowflakeNext

LEMMA CallStep ==
    ASSUME IdTypeInv, OneCall, CallInv, [SnowflakeNext]_snowflakeVars
    PROVE  CallInv'
<1> USE DEF IdTypeInv, SnowflakeTypeOK
<1>1. ASSUME UNCHANGED <<apc, timestamp, lastTimestamp>>, \A g \in Generator : excused[g] => excused'[g]
      PROVE  CallInv'
  <2>1. \A a \in Asker : Home[a] \in Generator
    BY SnowflakeAssumption
  <2> QED
    BY <1>1, <2>1 DEF CallInv, CallAt
<1>2. CASE UNCHANGED snowflakeVars
  BY <1>1, <1>2 DEF snowflakeVars, attributes
<1>3. CASE Tick \/ SetBack
  <2>1. UNCHANGED <<apc, timestamp, lastTimestamp>>
    BY <1>3 DEF Tick, SetBack, attributes
  <2>2. \A g \in Generator : excused[g] => excused'[g]
    BY <1>3 DEF Tick, SetBack
  <2> QED
    BY <1>1, <2>1, <2>2
<1>4. ASSUME NEW a \in Asker, AskerStep(a), Home[a] \in Generator, apc[a] # "idle" \/ lastTimestamp' = lastTimestamp,
             CallAt(a)'
      PROVE  CallInv'
  <2> SUFFICES ASSUME NEW b \in Asker, b # a PROVE CallAt(b)'
    BY <1>4 DEF CallInv
  <2>1. Home[b] \in Generator /\ apc'[b] = apc[b] /\ timestamp'[b] = timestamp[b] /\ CallAt(b)
    BY <1>4, SnowflakeAssumption DEF AskerStep, CallInv
  <2>2. CASE Home[b] # Home[a] \/ lastTimestamp' = lastTimestamp
    BY <1>4, <2>1, <2>2 DEF AskerStep, CallAt
  <2>3. CASE Home[b] = Home[a] /\ apc[a] # "idle"
    <3>1. ~excused'[Home[a]] => apc[b] = "idle"
      BY <1>4, <2>3, OthersIdle DEF AskerStep
    <3> QED
      BY <2>1, <2>3, <3>1 DEF CallAt
  <2> QED
    BY <1>4, <2>2, <2>3
<1>5. ASSUME NEW a \in Asker,
             \/ Generate(a) \/ ClockIsFine(a) \/ SmallRollbackSleeps(a) \/ Wakes(a)
             \/ LargeRollbackResets(a) \/ NewMillisecond(a) \/ SameMillisecond(a)
             \/ TillNextMillis(a) \/ StoreTimestamp(a) \/ MakeId(a)
      PROVE  CallInv'
  <2>1. AskerStep(a) /\ Home[a] \in Generator /\ CallAt(a)
    BY <1>5, StepOfCall DEF CallInv
  <2>2. CASE Generate(a)
    <3>1. apc'[a] = "compare" /\ lastTimestamp' = lastTimestamp
      BY <2>2 DEF Generate, Move, attributes
    <3>2. CallAt(a)'
      BY <3>1 DEF CallAt
    <3> QED
      BY <1>4, <2>1, <3>1, <3>2
  <2>3. CASE SmallRollbackSleeps(a) \/ NewMillisecond(a) \/ MakeId(a) \/ TillNextMillis(a)
    <3>1. apc'[a] \in {"sleep", "store", "idle"} /\ lastTimestamp' = lastTimestamp
      BY <2>3 DEF SmallRollbackSleeps, NewMillisecond, MakeId, TillNextMillis, Move, attributes
    <3>2. CallAt(a)'
      BY <3>1 DEF CallAt
    <3> QED
      BY <1>4, <2>1, <3>1, <3>2
  <2>4. CASE ClockIsFine(a)
    <3>1. /\ apc'[a] = "same" /\ lastTimestamp' = lastTimestamp /\ timestamp' = timestamp
          /\ lastTimestamp[Home[a]] - timestamp[a] <= 0
      BY <2>4 DEF ClockIsFine, Move, attributes, Rollback
    <3>2. lastTimestamp[Home[a]] \in Int /\ timestamp[a] \in Int
      BY <2>1, SnowflakeAssumption DEF Epoch
    <3>3. CallAt(a)'
      BY <3>1, <3>2 DEF CallAt
    <3> QED
      BY <1>4, <2>1, <3>1, <3>3
  <2>5. CASE Wakes(a)
    <3>1. /\ apc'[a] = "same" /\ lastTimestamp' = lastTimestamp /\ timestamp'[a] = now
          /\ excused' = excused
          /\ now > lastTimestamp[Home[a]] \/ excused[Home[a]]
      BY <2>5 DEF Wakes, Move, attributes, ReadClock
    <3>2. lastTimestamp[Home[a]] \in Int /\ now \in Int
      BY <2>1, SnowflakeAssumption DEF Epoch
    <3>3. CallAt(a)'
      BY <3>1, <3>2 DEF CallAt
    <3> QED
      BY <1>4, <2>1, <3>1, <3>3
  <2>6. CASE LargeRollbackResets(a)
    <3>1. /\ apc[a] = "compare" /\ apc'[a] = "same" /\ timestamp' = timestamp
          /\ lastTimestamp'[Home[a]] = timestamp[a]
      BY <2>1, <2>6 DEF LargeRollbackResets, Move, Assign
    <3>2. CallAt(a)'
      BY <3>1 DEF CallAt
    <3> QED
      BY <1>4, <2>1, <3>1, <3>2
  <2>7. CASE SameMillisecond(a)
    <3>1. /\ apc'[a] \in {"spin", "store"} /\ lastTimestamp' = lastTimestamp /\ timestamp' = timestamp
          /\ lastTimestamp[Home[a]] = timestamp[a]
      BY <2>7 DEF SameMillisecond, Move
    <3>2. CallAt(a)'
      BY <3>1 DEF CallAt
    <3> QED
      BY <1>4, <2>1, <3>1, <3>2
  <2>8. CASE StoreTimestamp(a)
    <3>1. /\ apc[a] = "store" /\ apc'[a] = "make" /\ timestamp' = timestamp
          /\ lastTimestamp'[Home[a]] = timestamp[a]
      BY <2>1, <2>8 DEF StoreTimestamp, Move, Assign
    <3>2. CallAt(a)'
      BY <3>1 DEF CallAt
    <3> QED
      BY <1>4, <2>1, <3>1, <3>2
  <2> QED
    BY <1>5, <2>2, <2>3, <2>4, <2>5, <2>6, <2>7, <2>8
<1> QED
  BY <1>2, <1>3, <1>5 DEF SnowflakeNext

\* While nobody else of the generator is busy, the call of a decides what has passed.
PassedBy(a, t, s) ==
    LET g == Home[a] IN
    /\ apc[a] \in {"idle", "compare", "sleep", "same"} => Less(t, s, lastTimestamp[g], sequence[g] + 1)
    /\ apc[a] = "spin" => t <= timestamp[a]
    /\ apc[a] \in {"store", "make"} => Less(t, s, timestamp[a], sequence[g])

LEMMA PassedAlone ==
    ASSUME NEW a \in Asker, NEW t, NEW s, AskerStep(a),
           \A b \in Asker : b # a /\ Home[b] = Home[a] => apc[b] = "idle"
    PROVE  /\ Passed(Home[a], t, s) => PassedBy(a, t, s)
           /\ PassedBy(a, t, s)' => Passed(Home[a], t, s)'
<1>1. \A b \in Asker : b # a /\ Home[b] = Home[a] => apc'[b] = "idle"
  BY DEF AskerStep
<1>2. Passed(Home[a], t, s) => PassedBy(a, t, s)
  BY DEF Passed, PassedBy
<1>3. PassedBy(a, t, s)' => Passed(Home[a], t, s)'
  <2> SUFFICES ASSUME PassedBy(a, t, s)' PROVE Passed(Home[a], t, s)'
    OBVIOUS
  <2>1. (\A b \in Asker : Home[b] = Home[a] => apc'[b] \in {"idle", "compare", "sleep", "same"}) =>
            Less(t, s, lastTimestamp'[Home[a]], sequence'[Home[a]] + 1)
    BY DEF PassedBy, Less
  <2>2. ASSUME NEW b \in Asker, Home[b] = Home[a]
        PROVE  /\ apc'[b] = "spin" => t <= timestamp'[b]
               /\ apc'[b] \in {"store", "make"} => Less(t, s, timestamp'[b], sequence'[Home[a]])
    BY <1>1, <2>2 DEF PassedBy, Less
  <2> QED
    BY <2>1, <2>2 DEF Passed, Less
<1> QED
  BY <1>2, <1>3

LEMMA PassedStep ==
    ASSUME IdTypeInv, OneCall, CallInv, NEW a \in Asker, NEW t \in Int, NEW s \in Nat,
           ~excused'[Home[a]], Passed(Home[a], t, s),
           \/ Generate(a) \/ ClockIsFine(a) \/ SmallRollbackSleeps(a) \/ Wakes(a)
           \/ NewMillisecond(a) \/ SameMillisecond(a)
           \/ TillNextMillis(a) \/ StoreTimestamp(a) \/ MakeId(a)
    PROVE  Passed(Home[a], t, s)'
<1> DEFINE g == Home[a]
<1> USE DEF IdTypeInv, SnowflakeTypeOK
<1>1. AskerStep(a) /\ g \in Generator /\ ~excused[g] /\ CallAt(a)
  BY StepOfCall DEF AskerStep, CallInv
<1>2. \A b \in Asker : b # a /\ Home[b] = Home[a] => apc[b] = "idle"
  <2>1. CASE Generate(a)
    <3>1. excused'[g] = (excused[g] \/ \E b \in Asker : Home[b] = Home[a] /\ apc[b] # "idle")
      BY <1>1, <2>1 DEF Generate, Assign
    <3> QED
      BY <3>1
  <2>2. CASE ~Generate(a)
    <3>1. apc[a] # "idle"
      BY <2>2 DEF ClockIsFine, SmallRollbackSleeps, Wakes, NewMillisecond, SameMillisecond,
                  TillNextMillis, StoreTimestamp, MakeId, Move
    <3> QED
      BY <1>1, <3>1, OthersIdle
  <2> QED
    BY <2>1, <2>2
<1>3. PassedBy(a, t, s)
  BY <1>1, <1>2, PassedAlone
<1>4. /\ lastTimestamp[g] \in Int /\ timestamp[a] \in Int /\ now \in Int
      /\ sequence[g] \in Nat /\ sequence[g] < Sequences /\ Sequences \in Nat \ {0}
  BY <1>1, WidthTypes, SnowflakeAssumption DEF Epoch
<1> SUFFICES PassedBy(a, t, s)'
  BY <1>1, <1>2, PassedAlone
<1>5. CASE Generate(a) \/ ClockIsFine(a) \/ SmallRollbackSleeps(a) \/ Wakes(a)
  <2>1. /\ apc[a] \in {"idle", "compare", "sleep"} /\ apc'[a] \in {"compare", "sleep", "same"}
        /\ lastTimestamp' = lastTimestamp /\ sequence' = sequence
    BY <1>5 DEF Generate, ClockIsFine, SmallRollbackSleeps, Wakes, Move, attributes
  <2> QED
    BY <1>3, <2>1 DEF PassedBy, Less
<1>6. CASE NewMillisecond(a)
  <2>1. /\ apc[a] = "same" /\ apc'[a] = "store" /\ timestamp' = timestamp
        /\ lastTimestamp[g] # timestamp[a] /\ sequence'[g] = 0
    BY <1>1, <1>6 DEF NewMillisecond, Move, Assign
  <2>2. lastTimestamp[g] < timestamp[a] /\ Less(t, s, lastTimestamp[g], sequence[g] + 1)
    BY <1>1, <1>3, <1>4, <2>1 DEF CallAt, PassedBy
  <2>3. t < timestamp[a]
    BY <1>4, <2>2 DEF Less
  <2> QED
    BY <2>1, <2>3 DEF PassedBy, Less
<1>7. CASE SameMillisecond(a)
  <2>1. /\ apc[a] = "same" /\ apc'[a] = (IF NextSequence(a) = 0 THEN "spin" ELSE "store")
        /\ timestamp' = timestamp /\ lastTimestamp[g] = timestamp[a] /\ sequence'[g] = NextSequence(a)
    BY <1>1, <1>7 DEF SameMillisecond, Move, Assign
  <2>2. Less(t, s, timestamp[a], sequence[g] + 1)
    BY <1>3, <2>1 DEF PassedBy
  <2>3. NextSequence(a) # 0 => NextSequence(a) = sequence[g] + 1
    BY <1>4 DEF NextSequence
  <2>4. CASE NextSequence(a) = 0
    <3>1. t <= timestamp[a] /\ apc'[a] = "spin"
      BY <1>4, <2>1, <2>2, <2>4 DEF Less
    <3> QED
      BY <2>1, <3>1 DEF PassedBy
  <2>5. CASE NextSequence(a) # 0
    <3>1. Less(t, s, timestamp[a], NextSequence(a)) /\ apc'[a] = "store"
      BY <2>1, <2>2, <2>3, <2>5
    <3> QED
      BY <2>1, <3>1 DEF PassedBy, Less
  <2> QED
    BY <2>4, <2>5
<1>8. CASE TillNextMillis(a)
  <2>1. /\ apc[a] = "spin" /\ apc'[a] = "store" /\ timestamp'[a] = now /\ now > timestamp[a]
    BY <1>8 DEF TillNextMillis, NextMillis, ReadClock, Move
  <2>2. t <= timestamp[a]
    BY <1>3, <2>1 DEF PassedBy
  <2>3. t < timestamp'[a]
    BY <1>4, <2>1, <2>2
  <2> QED
    BY <2>1, <2>3 DEF PassedBy, Less
<1>9. CASE StoreTimestamp(a)
  <2>1. /\ apc[a] = "store" /\ apc'[a] = "make" /\ timestamp' = timestamp /\ sequence' = sequence
    BY <1>9 DEF StoreTimestamp, Move
  <2> QED
    BY <1>3, <2>1 DEF PassedBy, Less
<1>10. CASE MakeId(a)
  <2>1. /\ apc[a] = "make" /\ apc'[a] = "idle" /\ lastTimestamp' = lastTimestamp /\ sequence' = sequence
    BY <1>10 DEF MakeId, Move, attributes
  <2>2. Less(t, s, lastTimestamp[g], sequence[g])
    BY <1>1, <1>3, <2>1 DEF CallAt, PassedBy
  <2>3. Less(t, s, lastTimestamp[g], sequence[g] + 1)
    BY <1>4, <2>2 DEF Less
  <2> QED
    BY <2>1, <2>3 DEF PassedBy, Less
<1> QED
  BY <1>5, <1>6, <1>7, <1>8, <1>9, <1>10

\* A step of another generator's call, or of the clock.
LEMMA PassedElsewhere ==
    ASSUME NEW g \in Generator, NEW t, NEW s, Passed(g, t, s),
           lastTimestamp'[g] = lastTimestamp[g], sequence'[g] = sequence[g],
           \A b \in Asker : Home[b] = g => apc'[b] = apc[b] /\ timestamp'[b] = timestamp[b]
    PROVE  Passed(g, t, s)'
  BY DEF Passed, Less

\* An id stays what it is if its generator's ids of the era stay behind.
LEMMA IssuedStays ==
    ASSUME IdTypeInv, NEW i \in issued, IssuedAt(i), Home[i.by] \in Generator,
           era'[Home[i.by]] \in Nat, era[Home[i.by]] <= era'[Home[i.by]],
           \A t \in Int, s \in Nat :
               /\ era'[Home[i.by]] = era[Home[i.by]] /\ ~excused'[Home[i.by]]
               /\ ~excused[Home[i.by]] => Passed(Home[i.by], t, s)
               => ~excused[Home[i.by]] /\ Passed(Home[i.by], t, s)'
                  /\ startTimestamp'[Home[i.by]] = startTimestamp[Home[i.by]]
    PROVE  IssuedAt(i)'
<1> DEFINE g == Home[i.by]
<1>1. i.era \in Nat /\ era[g] \in Nat /\ i.era <= era[g]
  BY DEF IdTypeInv, SnowflakeTypeOK, IssuedAt
<1>2. i.era <= era'[g]
  BY <1>1
<1>3. ASSUME ~i.excused, Fits(g) PROVE \E time \in Int, seq \in 0..(Sequences - 1) : Made(i, time, seq)'
  <2>1. PICK time \in Int, seq \in 0..(Sequences - 1) : Made(i, time, seq)
    BY <1>3 DEF IssuedAt
  <2>2. PICK t \in Int : t = time + startTimestamp[g]
    <3>1. startTimestamp[g] \in Int /\ time \in Int
      BY SnowflakeAssumption DEF IdTypeInv, SnowflakeTypeOK, Epoch
    <3>2. time + startTimestamp[g] \in Int
      BY <3>1
    <3> QED
      BY <3>2
  <2>3. ASSUME i.era = era'[g], ~excused'[g]
        PROVE  Passed(g, t, seq)' /\ startTimestamp'[g] = startTimestamp[g]
    <3>1. era'[g] = era[g] /\ i.era = era[g]
      BY <1>1, <2>3
    <3>2. ~excused[g] => Passed(g, t, seq)
      BY <2>1, <2>2, <3>1 DEF Made
    <3>3. seq \in Nat
      BY WidthTypes
    <3> QED
      BY <2>3, <3>1, <3>2, <3>3
  <2>4. i.era = era'[g] /\ ~excused'[g] => Passed(g, time + startTimestamp[g], seq)'
    BY <2>2, <2>3 DEF Passed, Less
  <2>5. Made(i, time, seq)'
    BY <2>1, <2>4 DEF Made
  <2> QED
    BY <2>5
<1> QED
  BY <1>2, <1>3 DEF IssuedAt

LEMMA OldIssued ==
    ASSUME IdTypeInv, IdTypeInv', OneCall, CallInv, IssuedInv, [SnowflakeNext]_snowflakeVars,
           NEW i \in issued
    PROVE  IssuedAt(i)'
<1> DEFINE g == Home[i.by]
<1>1. IssuedAt(i) /\ g \in Generator /\ era[g] \in Nat /\ era'[g] \in Nat
  BY SnowflakeAssumption DEF IssuedInv, IdTypeInv, SnowflakeTypeOK
<1>2. ASSUME era'[g] = era[g], startTimestamp'[g] = startTimestamp[g],
             excused[g] => excused'[g],
             ~excused'[g] => \A t \in Int, s \in Nat : Passed(g, t, s) => Passed(g, t, s)'
      PROVE  IssuedAt(i)'
  <2>1. era[g] <= era'[g]
    BY <1>1, <1>2
  <2>2. ASSUME NEW t \in Int, NEW s \in Nat, era'[g] = era[g], ~excused'[g], ~excused[g] => Passed(g, t, s)
        PROVE  ~excused[g] /\ Passed(g, t, s)' /\ startTimestamp'[g] = startTimestamp[g]
    BY <1>2, <2>2
  <2> QED
    BY <1>1, <2>1, <2>2, IssuedStays
<1>3. ASSUME UNCHANGED <<attributes, era, apc, timestamp>>, \A h \in Generator : excused[h] => excused'[h]
      PROVE  IssuedAt(i)'
  <2>1. \A t \in Int, s \in Nat : Passed(g, t, s) => Passed(g, t, s)'
    BY <1>1, <1>3, PassedElsewhere DEF attributes
  <2> QED
    BY <1>1, <1>2, <1>3, <2>1 DEF attributes
<1>4. CASE UNCHANGED snowflakeVars
  BY <1>3, <1>4 DEF snowflakeVars
<1>5. CASE Tick \/ SetBack
  <2>1. UNCHANGED <<attributes, era, apc, timestamp>>
    BY <1>5 DEF Tick, SetBack
  <2>2. \A h \in Generator : excused[h] => excused'[h]
    BY <1>5 DEF Tick, SetBack
  <2> QED
    BY <1>3, <2>1, <2>2
<1>6. ASSUME NEW a \in Asker, LargeRollbackResets(a), Home[a] = g PROVE IssuedAt(i)'
  <2>1. era'[g] = era[g] + 1
    BY <1>1, <1>6 DEF LargeRollbackResets, Assign, IdTypeInv, SnowflakeTypeOK
  <2>2. era[g] <= era'[g] /\ era'[g] # era[g]
    BY <1>1, <2>1
  <2> QED
    BY <1>1, <2>2, IssuedStays
<1>7. ASSUME NEW a \in Asker, Home[a] = g,
             \/ Generate(a) \/ ClockIsFine(a) \/ SmallRollbackSleeps(a) \/ Wakes(a)
             \/ NewMillisecond(a) \/ SameMillisecond(a)
             \/ TillNextMillis(a) \/ StoreTimestamp(a) \/ MakeId(a)
      PROVE  IssuedAt(i)'
  <2>1. AskerStep(a)
    BY <1>7, StepOfCall
  <2>2. era' = era /\ startTimestamp' = startTimestamp
    BY <1>7 DEF Generate, ClockIsFine, SmallRollbackSleeps, Wakes, NewMillisecond,
                SameMillisecond, TillNextMillis, StoreTimestamp, MakeId, attributes
  <2>3. excused[g] => excused'[g]
    BY <1>1, <2>1 DEF AskerStep
  <2>4. ASSUME ~excused'[g] PROVE \A t \in Int, s \in Nat : Passed(g, t, s) => Passed(g, t, s)'
    BY <1>7, <2>4, PassedStep
  <2> QED
    BY <1>2, <2>2, <2>3, <2>4
<1>8. ASSUME NEW a \in Asker, Home[a] # g,
             \/ Generate(a) \/ ClockIsFine(a) \/ SmallRollbackSleeps(a) \/ Wakes(a)
             \/ LargeRollbackResets(a) \/ NewMillisecond(a) \/ SameMillisecond(a)
             \/ TillNextMillis(a) \/ StoreTimestamp(a) \/ MakeId(a)
      PROVE  IssuedAt(i)'
  <2>1. AskerStep(a)
    BY <1>8, StepOfCall
  <2>2. /\ startTimestamp'[g] = startTimestamp[g] /\ lastTimestamp'[g] = lastTimestamp[g]
        /\ sequence'[g] = sequence[g] /\ era'[g] = era[g] /\ excused'[g] = excused[g]
        /\ \A b \in Asker : Home[b] = g => apc'[b] = apc[b] /\ timestamp'[b] = timestamp[b]
    BY <1>1, <1>8, <2>1 DEF AskerStep
  <2>3. \A t \in Int, s \in Nat : Passed(g, t, s) => Passed(g, t, s)'
    BY <1>1, <2>2, PassedElsewhere
  <2> QED
    BY <1>2, <2>2, <2>3
<1> QED
  BY <1>4, <1>5, <1>6, <1>7, <1>8 DEF SnowflakeNext

\* The id that a call makes is of this moment.
LEMMA NewIssued ==
    ASSUME IdTypeInv, EraInv, OneCall, CallInv, NEW a \in Asker, MakeId(a), NEW i \in issued',
           i \notin issued
    PROVE  /\ i.by = a /\ i.era = era[Home[a]] /\ i.excused = excused[Home[a]]
           /\ IssuedAt(i)'
           /\ Fits(Home[a]) =>
                 i.id = Number(Home[a], timestamp[a] - startTimestamp[Home[a]], sequence[Home[a]])
           /\ i.era # 0 => timestamp[a] - startTimestamp[Home[a]] <= MaxTime
<1> DEFINE g == Home[a]
           moment == timestamp[a] - startTimestamp[g]
<1>1. /\ i.id = Id(a) /\ i.by = a /\ i.era = era[g] /\ i.excused = excused[g]
      /\ apc[a] = "make" /\ apc'[a] = "idle"
      /\ UNCHANGED <<startTimestamp, lastTimestamp, sequence, timestamp, excused, era>>
  BY DEF MakeId, Move, attributes, IdTypeInv, SnowflakeTypeOK
<1>2. /\ g \in Generator /\ era[g] \in Nat /\ timestamp[a] \in 0..MaxTime
      /\ startTimestamp[g] \in {Epoch} \cup 0..MaxTime /\ sequence[g] \in 0..(Sequences - 1)
      /\ MaxTime \in Nat /\ Epoch = -(MaxTime + 1) /\ Sequences \in Nat \ {0}
  BY SnowflakeAssumption, WidthTypes DEF IdTypeInv, SnowflakeTypeOK, Epoch
<1>3. Fits(g) => i.id = Number(g, moment, sequence[g])
  BY <1>1, IdIsNumber
<1>4. moment \in Int /\ moment + startTimestamp[g] = timestamp[a]
  BY <1>2
<1>5. IF i.era = 0 THEN moment > MaxTime ELSE moment <= MaxTime
  <2>1. IF era[g] = 0 THEN startTimestamp[g] = Epoch ELSE startTimestamp[g] \in 0..MaxTime
    BY <1>2 DEF EraInv
  <2> QED
    BY <1>1, <1>2, <2>1
<1>6. ASSUME ~excused[g] PROVE Passed(g, timestamp[a], sequence[g])'
  <2>1. \A b \in Asker : b # a /\ Home[b] = g => apc[b] = "idle"
    BY <1>1, <1>6, OthersIdle
  <2>2. lastTimestamp[g] = timestamp[a]
    BY <1>1, <1>6 DEF CallInv, CallAt
  <2>3. Less(timestamp[a], sequence[g], lastTimestamp[g], sequence[g] + 1)
    BY <1>2, <2>2 DEF Less
  <2>4. \A b \in Asker : Home[b] = g => apc'[b] = "idle"
    <3>1. AskerStep(a)
      BY StepOfCall
    <3> QED
      BY <1>1, <2>1, <3>1 DEF AskerStep
  <2> QED
    BY <1>1, <2>3, <2>4 DEF Passed, Less
<1>7. i.era <= era'[g]
  BY <1>1, <1>2
<1>8. ASSUME Fits(g) PROVE Made(i, moment, sequence[g])'
  BY <1>1, <1>3, <1>4, <1>5, <1>6, <1>8 DEF Made
<1> QED
  BY <1>1, <1>2, <1>3, <1>4, <1>5, <1>7, <1>8 DEF IssuedAt

LEMMA IssuedStep ==
    ASSUME IdTypeInv, IdTypeInv', CountInv, [SnowflakeNext]_snowflakeVars
    PROVE  IssuedInv'
<1> SUFFICES ASSUME NEW i \in issued' PROVE IssuedAt(i)'
  BY DEF IssuedInv
<1>1. CASE i \in issued
  BY <1>1, OldIssued DEF CountInv
<1>2. CASE i \notin issued
  <2>1. PICK a \in Asker : MakeId(a)
    BY <1>2 DEF SnowflakeNext, Tick, SetBack, Generate, ClockIsFine, SmallRollbackSleeps, Wakes,
                LargeRollbackResets, NewMillisecond, SameMillisecond, TillNextMillis,
                StoreTimestamp, snowflakeVars
  <2> QED
    BY <1>2, <2>1, NewIssued DEF CountInv
<1> QED
  BY <1>1, <1>2

LEMMA CountStep ==
    ASSUME IdTypeInv, IdTypeInv', CountInv, [SnowflakeNext]_snowflakeVars
    PROVE  CountInv'
<1>1. EraInv'
  BY EraStep DEF CountInv
<1>2. OneCall'
  BY OneCallStep DEF CountInv
<1>3. CallInv'
  BY CallStep DEF CountInv
<1>4. IssuedInv'
  BY IssuedStep
<1> QED
  BY <1>1, <1>2, <1>3, <1>4 DEF CountInv

LEMMA CountInit == SnowflakeInit => CountInv
<1> SUFFICES ASSUME SnowflakeInit PROVE CountInv
  OBVIOUS
<1>1. EraInv /\ IssuedInv
  BY DEF SnowflakeInit, EraInv, IssuedInv
<1>2. OneCall /\ CallInv
  BY DEF SnowflakeInit, OneCall, CallInv, CallAt
<1> QED
  BY <1>1, <1>2 DEF CountInv

-----------------------------------------------------------------------------
(* A new id differs from those there are.                                   *)

LEMMA NewIsOther ==
    ASSUME IdTypeInv, CountInv, NEW a \in Asker, MakeId(a), NEW i \in issued', i \notin issued,
           NEW j \in issued, Comparable(i, j)
    PROVE  i.id # j.id
<1> SUFFICES ASSUME i.id = j.id PROVE FALSE
  OBVIOUS
<1> DEFINE g == Home[a]
           h == Home[j.by]
           moment == timestamp[a] - startTimestamp[g]
<1>1. /\ i.by = a /\ i.era = era[g] /\ i.excused = excused[g]
      /\ Fits(g) => i.id = Number(g, moment, sequence[g])
      /\ i.era # 0 => moment <= MaxTime
  BY NewIssued DEF CountInv
<1>2. /\ Fits(g) /\ Fits(h) /\ (g # h => Address[g] # Address[h])
      /\ ~excused[g] /\ ~j.excused
      /\ g = h => era[g] = j.era \/ era[g] = 0 \/ j.era = 0
  BY <1>1 DEF Comparable
<1>3. /\ g \in Generator /\ h \in Generator /\ era[g] \in Nat /\ j.era \in Nat
      /\ sequence[g] \in 0..(Sequences - 1) /\ MaxTime \in Int
      /\ startTimestamp[g] \in Int /\ timestamp[a] \in Int
  BY SnowflakeAssumption DEF IdTypeInv, SnowflakeTypeOK, Epoch
<1>4. j.era <= era[h] /\ \E time \in Int, seq \in 0..(Sequences - 1) : Made(j, time, seq)
  BY <1>2 DEF CountInv, IssuedInv, IssuedAt
<1>5. PICK time \in Int, seq \in 0..(Sequences - 1) : Made(j, time, seq)
  BY <1>4
<1>6. j.id = Number(h, time, seq)
  BY <1>5 DEF Made
<1>7. moment \in Int
  BY <1>3
<1>8. moment = time /\ sequence[g] = seq /\ Address[g] = Address[h]
  BY <1>1, <1>2, <1>3, <1>6, <1>7, NumberIsUnique
<1>9. g = h
  BY <1>2, <1>8
<1>10. CASE j.era = era[g]
  <2>1. time + startTimestamp[g] = timestamp[a]
    BY <1>3, <1>8
  <2>2. Passed(g, timestamp[a], seq)
    BY <1>2, <1>5, <1>9, <1>10, <2>1 DEF Made
  <2>3. apc[a] = "make"
    BY DEF MakeId, Move
  <2>4. Less(timestamp[a], seq, timestamp[a], sequence[g])
    BY <2>2, <2>3 DEF Passed
  <2> QED
    BY <1>3, <1>8, <2>4 DEF Less
<1>11. CASE j.era # era[g]
  <2>1. j.era = 0 /\ era[g] # 0
    BY <1>2, <1>3, <1>4, <1>9, <1>11
  <2>2. time > MaxTime
    BY <1>5, <2>1 DEF Made
  <2> QED
    BY <1>1, <1>3, <1>7, <1>8, <2>1, <2>2
<1> QED
  BY <1>10, <1>11

LEMMA ComparableEitherWay ==
    ASSUME NEW i, NEW j, Comparable(i, j)
    PROVE  Comparable(j, i)
  BY DEF Comparable

LEMMA UniqueStep ==
    ASSUME IdTypeInv, CountInv, UniqueUnlessExcused, [SnowflakeNext]_snowflakeVars
    PROVE  UniqueUnlessExcused'
<1>1. CASE issued' = issued
  BY <1>1 DEF UniqueUnlessExcused, Comparable
<1>2. ASSUME NEW a \in Asker, MakeId(a) PROVE UniqueUnlessExcused'
  <2> SUFFICES ASSUME NEW i \in issued', NEW j \in issued', i.id = j.id, Comparable(i, j), i # j
               PROVE  FALSE
    BY DEF UniqueUnlessExcused, Comparable
  <2>1. CASE i \in issued /\ j \in issued
    BY <2>1 DEF UniqueUnlessExcused
  <2>2. CASE i \notin issued /\ j \in issued
    BY <1>2, <2>2, NewIsOther
  <2>3. CASE i \in issued /\ j \notin issued
    BY <1>2, <2>3, NewIsOther, ComparableEitherWay
  <2>4. CASE i \notin issued /\ j \notin issued
    BY <1>2, <2>4 DEF MakeId
  <2> QED
    BY <2>1, <2>2, <2>3, <2>4
<1> QED
  BY <1>1, <1>2 DEF SnowflakeNext, Tick, SetBack, Generate, ClockIsFine, SmallRollbackSleeps, Wakes,
                    LargeRollbackResets, NewMillisecond, SameMillisecond, TillNextMillis,
                    StoreTimestamp, snowflakeVars

(* _id_generator.py:109: while calls of a process do not overlap, whatever  *)
(* becomes of the clock between them, with every sequence of a millisecond  *)
(* used up and across a first reset, no two ids are the same.               *)
THEOREM UniqueUnlessExcusedCorrect == SnowflakeSpec => []UniqueUnlessExcused
<1> DEFINE IInv == IdTypeInv /\ CountInv /\ UniqueUnlessExcused
<1>1. SnowflakeInit => IInv
  BY IdTypeInit, CountInit DEF SnowflakeInit, UniqueUnlessExcused
<1>2. IInv /\ [SnowflakeNext]_snowflakeVars => IInv'
  <2> SUFFICES ASSUME IInv, [SnowflakeNext]_snowflakeVars PROVE IInv'
    OBVIOUS
  <2>1. IdTypeInv'
    BY IdTypeStep
  <2>2. CountInv' /\ UniqueUnlessExcused'
    BY <2>1, CountStep, UniqueStep
  <2> QED
    BY <2>1, <2>2
<1>3. IInv => UniqueUnlessExcused
  OBVIOUS
<1> QED
  BY <1>1, <1>2, <1>3, PTL DEF SnowflakeSpec

\* The order of two ids of a generator is that of their moments.
LEMMA NumberIncreases ==
    ASSUME NEW g \in Generator, Fits(g), NEW time \in Int, NEW other \in Int,
           NEW seq \in 0..(Sequences - 1), NEW next \in 0..(Sequences - 1),
           Less(time, seq, other, next)
    PROVE  Number(g, time, seq) < Number(g, other, next)
<1> DEFINE d == Address[g].datacenter
           m == Address[g].machine
           p == time * Datacenters + d
           q == other * Datacenters + d
           v == p * Machines + m
           w == q * Machines + m
<1>1. d \in Nat /\ m \in Nat /\ Datacenters \in Nat \ {0} /\ Machines \in Nat \ {0} /\ Sequences \in Nat \ {0}
  BY WidthTypes DEF Fits
<1>2. Number(g, time, seq) = v * Sequences + seq /\ Number(g, other, next) = w * Sequences + next
  BY DEF Number
<1>3. \A n \in Nat \ {0}, k, l \in Int : k < l => k * n + n <= l * n
  <2> SUFFICES ASSUME NEW n \in Nat \ {0}, NEW k \in Int, NEW l \in Int, k < l PROVE k * n + n <= l * n
    OBVIOUS
  <2>1. l - k - 1 \in Nat /\ (l - k - 1) * n >= 0
    OBVIOUS
  <2>2. (l - k - 1) * n = l * n - k * n - n
    OBVIOUS
  <2> QED
    BY <2>1, <2>2
<1>4. CASE time = other /\ seq < next
  <2>1. v \in Int /\ v * Sequences \in Int
    BY <1>1
  <2>2. v = w
    BY <1>4
  <2> HIDE DEF v, w
  <2> QED
    BY <1>2, <1>4, <2>1, <2>2
<1>5. CASE time < other
  <2>1. time * Datacenters \in Int /\ other * Datacenters \in Int
        /\ time * Datacenters + Datacenters <= other * Datacenters
    BY <1>1, <1>3, <1>5
  <2>2. p \in Int /\ q \in Int /\ p < q
    BY <1>1, <2>1
  <2> HIDE DEF p, q
  <2>3. p * Machines \in Int /\ q * Machines \in Int /\ p * Machines + Machines <= q * Machines
    BY <1>1, <1>3, <2>2
  <2>4. v \in Int /\ w \in Int /\ v < w
    BY <1>1, <2>3
  <2> HIDE DEF v, w
  <2>5. v * Sequences \in Int /\ w * Sequences \in Int /\ v * Sequences + Sequences <= w * Sequences
    BY <1>1, <1>3, <2>4
  <2> QED
    BY <1>1, <1>2, <2>5
<1> QED
  BY <1>4, <1>5 DEF Less

LEMMA NewIsAbove ==
    ASSUME IdTypeInv, CountInv, NEW a \in Asker, MakeId(a), NEW i \in issued', i \notin issued,
           NEW j \in issued, Home[i.by] = Home[j.by], i.era = j.era,
           Fits(Home[i.by]), ~i.excused, ~j.excused
    PROVE  j.id < i.id
<1> DEFINE g == Home[a]
           moment == timestamp[a] - startTimestamp[g]
<1>1. /\ i.by = a /\ i.era = era[g] /\ i.excused = excused[g]
      /\ Fits(g) => i.id = Number(g, moment, sequence[g])
  BY NewIssued DEF CountInv
<1>2. Fits(g) /\ ~excused[g] /\ Home[j.by] = g /\ j.era = era[g]
  BY <1>1
<1>3. /\ g \in Generator /\ sequence[g] \in 0..(Sequences - 1)
      /\ startTimestamp[g] \in Int /\ timestamp[a] \in Int
  BY SnowflakeAssumption DEF IdTypeInv, SnowflakeTypeOK, Epoch
<1>4. \E time \in Int, seq \in 0..(Sequences - 1) : Made(j, time, seq)
  BY <1>2 DEF CountInv, IssuedInv, IssuedAt
<1>5. PICK time \in Int, seq \in 0..(Sequences - 1) : Made(j, time, seq)
  BY <1>4
<1>6. j.id = Number(g, time, seq) /\ Passed(g, time + startTimestamp[g], seq)
  BY <1>2, <1>5 DEF Made
<1>7. Less(time + startTimestamp[g], seq, timestamp[a], sequence[g])
  BY <1>6 DEF Passed, MakeId, Move
<1>8. moment \in Int /\ Less(time, seq, moment, sequence[g])
  BY <1>3, <1>5, <1>7 DEF Less
<1> HIDE DEF moment
<1>9. Number(g, time, seq) < Number(g, moment, sequence[g])
  BY <1>2, <1>3, <1>5, <1>8, NumberIncreases
<1> QED
  BY <1>1, <1>2, <1>6, <1>9

(* _id_generator.py:146: the ids of one process ascend in the order in      *)
(* which it made them, until its clock loses more than the threshold.       *)
THEOREM IdsIncreaseCorrect == SnowflakeSpec => IdsIncrease
<1> DEFINE IInv == IdTypeInv /\ CountInv
           Above == \A i \in issued' \ issued, j \in issued :
                       /\ Home[i.by] = Home[j.by] /\ i.era = j.era
                       /\ Fits(Home[i.by]) /\ ~i.excused /\ ~j.excused
                       => j.id < i.id
<1>1. SnowflakeInit => IInv
  BY IdTypeInit, CountInit
<1>2. IInv /\ [SnowflakeNext]_snowflakeVars => IInv'
  BY IdTypeStep, CountStep
<1>3. IInv /\ [SnowflakeNext]_snowflakeVars => [Above]_snowflakeVars
  <2> SUFFICES ASSUME IInv, SnowflakeNext PROVE Above
    BY DEF snowflakeVars
  <2>1. ASSUME NEW a \in Asker, MakeId(a) PROVE Above
    BY <2>1, NewIsAbove
  <2>2. CASE issued' = issued
    BY <2>2
  <2> QED
    BY <2>1, <2>2 DEF SnowflakeNext, Tick, SetBack, Generate, ClockIsFine, SmallRollbackSleeps,
                      Wakes, LargeRollbackResets, NewMillisecond, SameMillisecond,
                      TillNextMillis, StoreTimestamp
<1> HIDE DEF IInv, Above
<1>4. SnowflakeSpec => [][Above]_snowflakeVars
  BY <1>1, <1>2, <1>3, PTL DEF SnowflakeSpec
<1> QED
  BY <1>4 DEF IdsIncrease, Above

-----------------------------------------------------------------------------
(* Remote calls and ids share no state, so that together they still are the *)
(* two parts the theorems are about: each step of a behaviour of both is a  *)
(* step of one part, that the other does not notice.                        *)
THEOREM RemoteComposition == MCSpec => RpcSpec /\ SnowflakeSpec
<1>1. MCInit => RpcInit /\ SnowflakeInit
  BY DEF MCInit
<1>2. [MCNext]_mcVars => [RpcNext]_rpcVars /\ [SnowflakeNext]_snowflakeVars
  BY DEF MCNext, mcVars
<1> QED
  BY <1>1, <1>2, PTL DEF MCSpec, RpcSpec, SnowflakeSpec

(* Whatever mixture of calls and ids the application makes, the variables   *)
(* of both parts keep their types.                                          *)
THEOREM RemoteTypeOKCorrect == MCSpec => []RemoteTypeOK
<1>1. RpcTypeOK /\ SnowflakeTypeOK => RemoteTypeOK
  BY DEF RemoteTypeOK
<1> QED
  BY <1>1, RemoteComposition, RpcTypeOKCorrect, SnowflakeTypeCorrect, PTL
=============================================================================
