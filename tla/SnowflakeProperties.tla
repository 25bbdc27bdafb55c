------------------------ MODULE SnowflakeProperties -------------------------
(***************************************************************************)
(* When ids are unique.                                                    *)
(***************************************************************************)
EXTENDS Snowflake

\* The type of every variable; the sequence keeps its bits.
SnowflakeTypeOK ==
    /\ now \in 0..MaxTime /\ setBacks \in 0..MaxSetBacks
    /\ startTimestamp \in [Generator -> {Epoch} \cup 0..MaxTime]
    /\ lastTimestamp \in [Generator -> {Epoch - 1} \cup 0..MaxTime]
    /\ sequence \in [Generator -> 0..(Sequences - 1)]
    /\ apc \in [Asker -> {"idle", "compare", "sleep", "same", "spin", "store", "make"}]
    /\ timestamp \in [Asker -> 0..MaxTime] /\ \A a \in Asker : asked[a] \in 0..MaxIds[a]
    /\ era \in [Generator -> Nat]
    /\ excused \in [Generator -> BOOLEAN]

Fits(g) == Address[g].datacenter < Datacenters /\ Address[g].machine < Machines

\* Two ids that must differ: both addresses fit their bits and, for two processes,
\* differ; until then no two calls of the generator had overlapped, nor had the clock
\* been set back while one slept; and they are not of two eras that both began with a
\* reset.
Comparable(i, j) ==
    LET g == Home[i.by]
        h == Home[j.by]
    IN /\ Fits(g) /\ Fits(h) /\ (g # h => Address[g] # Address[h])
       /\ ~i.excused /\ ~j.excused
       /\ g = h => i.era = j.era \/ 0 \in {i.era, j.era}

\* _id_generator.py:109: with the sequence used up within a millisecond, after small
\* rollbacks and after a first large one, such ids differ.
UniqueUnlessExcused ==
    \A i, j \in issued : i.id = j.id /\ Comparable(i, j) => i = j

\* The time is the highest part of an id (_id_generator.py:146), so ids are in the order
\* in which a process made them: a new id of an era is above all that its generator made
\* in it, although the clock may have been set back in between.
IdsIncrease ==
    [][\A i \in issued' \ issued, j \in issued :
          /\ Home[i.by] = Home[j.by] /\ i.era = j.era
          /\ Fits(Home[i.by]) /\ ~i.excused /\ ~j.excused
          => j.id < i.id]_snowflakeVars

\* _id_generator.py:11 "ensures that the generated IDs are unique across different
\* machines and time".
UniqueIds == \A i, j \in issued : i.id = j.id => i = j
=============================================================================
