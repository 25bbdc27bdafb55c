----------------------------- MODULE Snowflake ------------------------------
(***************************************************************************)
(* SnowflakeGenerator of providers/_id_generator.py: one generator per     *)
(* process, used without a lock by the threads of the process, a clock     *)
(* that may be set back, and ids put together with shifts and "or".        *)
(* Statements that follow one another and touch the same attributes are    *)
(* one step.                                                               *)
(***************************************************************************)
EXTENDS Integers, FiniteSetsExt

CONSTANTS
    Generator,       \* processes, each with its SnowflakeGenerator
    Address,         \* of each: [datacenter, machine], the last octets of its address
    Asker,           \* threads
    Home,            \* the generator of each thread
    Datacenters, Machines, Sequences, \* 1 << the bits of each part of an id
    SmallRollback,   \* threshold of a small rollback
    MaxTime,         \* bound: the clock
    MaxSetBacks,     \* bound: times the clock is set back
    MaxIds           \* bound: ids of each thread

\* The bits that the sequence and the shifted octets of an address can have.
PowersOfTwo ==
    {1, 2, 4, 8, 16, 32, 64, 128, 256, 512, 1024, 2048, 4096, 8192, 16384, 32768, 65536,
     131072, 262144, 524288, 1048576, 2097152, 4194304, 8388608, 16777216}

MachineUnit    == Sequences                 \* 1 << machine_id_shift
DatacenterUnit == MachineUnit * Machines    \* 1 << datacenter_id_shift
TimestampUnit  == DatacenterUnit * Datacenters \* 1 << timestamp_left_shift

ASSUME SnowflakeAssumption ==
    /\ Home \in [Asker -> Generator]
    /\ Address \in [Generator -> [datacenter : 0..255, machine : 0..255]]
    /\ {Sequences, Machines, Datacenters, DatacenterUnit, TimestampUnit} \subseteq PowersOfTwo
    /\ 128 * DatacenterUnit \in PowersOfTwo \* the highest bit of a shifted octet
    /\ {SmallRollback, MaxTime, MaxSetBacks} \subseteq Nat /\ MaxIds \in [Asker -> Nat]

\* The epoch lies so far back that time since then exceeds time since any reset.
Epoch == -(MaxTime + 1)

VARIABLES
    now,            \* the clock in milliseconds
    startTimestamp, \* per generator: start_timestamp
    lastTimestamp,  \* per generator: last_timestamp
    sequence,       \* per generator: sequence
    apc,            \* per thread: where it is
    timestamp,      \* per thread: timestamp
    asked,          \* history: calls of each thread
    issued,         \* history: ids: [id, by, no, era, excused]
    excused,        \* history: per generator, calls have overlapped, or the clock
                    \* was set back while a call slept
    era,            \* history: resets of each generator
    setBacks        \* history: times the clock was set back

attributes    == <<startTimestamp, lastTimestamp, sequence>>
snowflakeVars == <<now, attributes, apc, timestamp, asked, issued, excused, era, setBacks>>

SnowflakeInit ==
    /\ now = 0
    /\ startTimestamp = [g \in Generator |-> Epoch]
    /\ lastTimestamp = [g \in Generator |-> Epoch - 1]
    /\ sequence = [g \in Generator |-> 0]
    /\ apc = [a \in Asker |-> "idle"] /\ timestamp = [a \in Asker |-> 0]
    /\ asked = [a \in Asker |-> 0] /\ issued = {}
    /\ excused = [g \in Generator |-> FALSE] /\ setBacks = 0
    /\ era = [g \in Generator |-> 0]

Tick ==
    /\ now < MaxTime /\ now' = now + 1
    /\ UNCHANGED <<attributes, apc, timestamp, asked, issued, excused, era, setBacks>>

SetBack ==
    /\ setBacks < MaxSetBacks /\ setBacks' = setBacks + 1
    /\ \E earlier \in 0..(now - 1) : now' = earlier
    /\ excused' = [g \in Generator |->
          excused[g] \/ \E a \in Asker : Home[a] = g /\ apc[a] = "sleep"]
    /\ UNCHANGED <<attributes, apc, timestamp, asked, issued, era>>

Move(a, from, to) == apc[a] = from /\ apc' = [apc EXCEPT ![a] = to]
ReadClock(a) == timestamp' = [timestamp EXCEPT ![a] = now]
Assign(f, a, value) == [f EXCEPT ![Home[a]] = value]

Generate(a) ==
    /\ Move(a, "idle", "compare") /\ asked[a] < MaxIds[a]
    /\ ReadClock(a)
    /\ asked' = [asked EXCEPT ![a] = @ + 1]
    /\ excused' = Assign(excused, a,
          excused[Home[a]] \/ \E b \in Asker : Home[b] = Home[a] /\ apc[b] # "idle")
    /\ UNCHANGED <<now, attributes, issued, era, setBacks>>

Rollback(a) == lastTimestamp[Home[a]] - timestamp[a]

ClockIsFine(a) ==
    /\ Move(a, "compare", "same") /\ Rollback(a) <= 0
    /\ UNCHANGED <<now, attributes, timestamp, asked, issued, excused, era, setBacks>>

SmallRollbackSleeps(a) ==
    /\ Move(a, "compare", "sleep") /\ Rollback(a) \in 1..SmallRollback
    /\ UNCHANGED <<now, attributes, timestamp, asked, issued, excused, era, setBacks>>

\* The sleep lasts for the rollback and one millisecond more, unless the clock is
\* set back meanwhile.
WakesStale(a) == \* seeded fault: the clock is not read again
    /\ Move(a, "sleep", "same")
    /\ now > lastTimestamp[Home[a]] \/ excused[Home[a]]
    /\ UNCHANGED <<now, attributes, timestamp, asked, issued, excused, era, setBacks>>
Wakes(a) ==
    /\ Move(a, "sleep", "same")
    /\ now > lastTimestamp[Home[a]] \/ excused[Home[a]]
    /\ ReadClock(a)
    /\ UNCHANGED <<now, attributes, asked, issued, excused, era, setBacks>>

LargeRollbackResets(a) ==
    /\ Move(a, "compare", "same") /\ Rollback(a) > SmallRollback
    /\ startTimestamp' = Assign(startTimestamp, a, timestamp[a])
    /\ lastTimestamp' = Assign(lastTimestamp, a, timestamp[a])
    /\ sequence' = Assign(sequence, a, 0)
    /\ era' = Assign(era, a, era[Home[a]] + 1)
    /\ UNCHANGED <<now, timestamp, asked, issued, excused, setBacks>>

NewMillisecond(a) ==
    /\ Move(a, "same", "store") /\ lastTimestamp[Home[a]] # timestamp[a]
    /\ sequence' = Assign(sequence, a, 0)
    /\ UNCHANGED <<now, startTimestamp, lastTimestamp, timestamp, asked, issued, excused, era, setBacks>>

NextSequence(a) == (sequence[Home[a]] + 1) % Sequences

SameMillisecond(a) ==
    /\ Move(a, "same", IF NextSequence(a) = 0 THEN "spin" ELSE "store")
    /\ lastTimestamp[Home[a]] = timestamp[a]
    /\ sequence' = Assign(sequence, a, NextSequence(a))
    /\ UNCHANGED <<now, startTimestamp, lastTimestamp, timestamp, asked, issued, excused, era, setBacks>>

NotBefore(a) == now >= timestamp[a] \* seeded fault: the same millisecond is enough
NextMillis(a) == now > timestamp[a]

\* _till_next_millis.
TillNextMillis(a) ==
    /\ Move(a, "spin", "store") /\ NextMillis(a)
    /\ ReadClock(a)
    /\ UNCHANGED <<now, attributes, asked, issued, excused, era, setBacks>>

StoreTimestamp(a) ==
    /\ Move(a, "store", "make")
    /\ lastTimestamp' = Assign(lastTimestamp, a, timestamp[a])
    /\ UNCHANGED <<now, startTimestamp, sequence, timestamp, asked, issued, excused, era, setBacks>>

HasBit(x, p) == (x \div p) % 2 = 1

\* x | y of Python, for any integer x and a y with bits among PowersOfTwo only.
BitOr(x, y) == x + y - SumSet({p \in PowersOfTwo : HasBit(x, p) /\ HasBit(y, p)})

\* Neither octet is masked to the bits it has.
Id(a) ==
    LET g == Home[a] IN
    BitOr(BitOr((timestamp[a] - startTimestamp[g]) * TimestampUnit,
                Address[g].datacenter * DatacenterUnit),
          BitOr(Address[g].machine * MachineUnit, sequence[g]))

MakeId(a) ==
    /\ Move(a, "make", "idle")
    /\ issued' = issued \cup {[id |-> Id(a), by |-> a, no |-> asked[a],
                              era |-> era[Home[a]], excused |-> excused[Home[a]]]}
    /\ UNCHANGED <<now, attributes, timestamp, asked, excused, era, setBacks>>

SnowflakeNext ==
    \/ Tick \/ SetBack
    \/ \E a \in Asker :
          \/ Generate(a) \/ ClockIsFine(a) \/ SmallRollbackSleeps(a) \/ Wakes(a)
          \/ LargeRollbackResets(a) \/ NewMillisecond(a) \/ SameMillisecond(a)
          \/ TillNextMillis(a) \/ StoreTimestamp(a) \/ MakeId(a)

SnowflakeSpec == SnowflakeInit /\ [][SnowflakeNext]_snowflakeVars
=============================================================================
