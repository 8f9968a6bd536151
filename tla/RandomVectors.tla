---------------------------- MODULE RandomVectors ----------------------------
(***************************************************************************)
(* The table of random vectors behind the hash functions of QLAD-flow      *)
(* (RandomVectors over SafeGrowTable).  The engines of all windows share   *)
(* it and call get(index) at the same time: the table grows under a write  *)
(* lock, and the thread that made it grow fills the new lines while the    *)
(* others spin on a line that is still NULL.  size() takes no lock, and a  *)
(* growing std::vector moves its two ends one after the other, so that a   *)
(* size read meanwhile may be anything (Torn).                             *)
(***************************************************************************)
EXTENDS Threads, Naturals

CONSTANTS MaxIndex, \* bound: the last vector anybody asks for
          Torn      \* whether size() can meet a vector half resized

Indices == 0..MaxIndex

\* A line is what its seed makes of it, and an object of its maker's own.
Lines == [seed : Nat, maker : Threads]

ASSUME VectorsAssumption ==
  /\ MaxIndex \in Nat
  /\ Torn \in BOOLEAN
  /\ NULL \notin Threads \cup Lines

VARIABLES pc,        \* pc[t]: where in get() thread t is
          index,     \* index[t]: the argument of get()
          i,         \* i[t]: the line addVectors() is at
          size,      \* mStore.size()
          mTable,    \* mTable[n]: the line, NULL until it has been made
          resizing   \* the thread between the two halves of a resize

vectorVars == <<pc, index, i, size, mTable, resizing>>

Places == {"out", "add", "resize", "generate", "write", "read", "thrown"}

VectorsTypeOK ==
  /\ pc \in [Threads -> Places]
  /\ index \in [Threads -> Indices]
  /\ i \in [Threads -> Nat]
  /\ size \in 0..(MaxIndex + 1)
  /\ mTable \in [Indices -> Lines \cup {NULL}]
  /\ resizing \in Threads \cup {NULL}

VectorsInit ==
  /\ pc = [t \in Threads |-> "out"]
  /\ index = [t \in Threads |-> 0]
  /\ i = [t \in Threads |-> 0]
  /\ size = 0
  /\ mTable = [n \in Indices |-> NULL]
  /\ resizing = NULL

\* What size() may return: between the two halves of a resize, the difference
\* of two pointers into different blocks: anything, beyond every index as well.
SizesRead == {size} \cup IF Torn /\ resizing # NULL THEN 0..(MaxIndex + 1) ELSE {}

\* get(n): "Value returned by size() might be already invalid so speculate here".
Get(t, n) ==
  /\ pc[t] = "out"
  /\ index' = [index EXCEPT ![t] = n]
  /\ \E s \in SizesRead : pc' = [pc EXCEPT ![t] = IF n >= s THEN "add" ELSE "read"]
  /\ UNCHANGED <<i, size, mTable, resizing>>

\* grow() has the write lock; "Someone must have done our job" if the table is
\* large enough by now.
Grow(t) ==
  /\ pc[t] = "add" /\ resizing = NULL
  /\ IF index[t] < size
       THEN /\ pc' = [pc EXCEPT ![t] = "read"]
            /\ UNCHANGED resizing
       ELSE /\ pc' = [pc EXCEPT ![t] = "resize"]
            /\ resizing' = t
  /\ UNCHANGED <<index, i, size, mTable>>

\* Faulty variant: the thread fills its own line only.
ResizedOwnLine(t) ==
  /\ pc[t] = "resize"
  /\ i' = [i EXCEPT ![t] = index[t]]
  /\ size' = index[t] + 1
  /\ resizing' = NULL
  /\ pc' = [pc EXCEPT ![t] = "generate"]
  /\ UNCHANGED <<index, mTable>>

\* resize() has ended and the lock is free; the lines from old_size on are ours.
Resized(t) ==
  /\ pc[t] = "resize"
  /\ i' = [i EXCEPT ![t] = size]
  /\ size' = index[t] + 1
  /\ resizing' = NULL
  /\ pc' = [pc EXCEPT ![t] = "generate"]
  /\ UNCHANGED <<index, mTable>>

\* A line is generated from its seed; read() asserts that it is NULL still.
Generate(t) ==
  /\ pc[t] = "generate" /\ resizing = NULL
  /\ pc' = [pc EXCEPT ![t] = "write"]
  /\ UNCHANGED <<index, i, size, mTable, resizing>>

\* Faulty variant: the lines get the seed of the vector that was asked for.
WriteWithSeedOfIndex(t) ==
  /\ pc[t] = "write" /\ resizing = NULL
  /\ mTable' = [mTable EXCEPT ![i[t]] = [seed |-> index[t] + 1, maker |-> t]]
  /\ i' = [i EXCEPT ![t] = @ + 1]
  /\ pc' = [pc EXCEPT ![t] = IF i[t] = index[t] THEN "read" ELSE "generate"]
  /\ UNCHANGED <<index, size, resizing>>

\* write() has a read lock only.
Write(t) ==
  /\ pc[t] = "write" /\ resizing = NULL
  /\ mTable' = [mTable EXCEPT ![i[t]] = [seed |-> i[t] + 1, maker |-> t]]
  /\ i' = [i EXCEPT ![t] = @ + 1]
  /\ pc' = [pc EXCEPT ![t] = IF i[t] = index[t] THEN "read" ELSE "generate"]
  /\ UNCHANGED <<index, size, resizing>>

\* read() of our line ends get(); "NULL means some other thread is working on
\* this", and beyond the table at() throws.
Read(t) ==
  /\ pc[t] = "read" /\ resizing = NULL
  /\ \/ index[t] >= size /\ pc' = [pc EXCEPT ![t] = "thrown"]
     \/ index[t] < size /\ mTable[index[t]] # NULL /\ pc' = [pc EXCEPT ![t] = "out"]
  /\ UNCHANGED <<index, i, size, mTable, resizing>>

\* An exception nobody catches ends the process.
Running == \A t \in Threads : pc[t] # "thrown"

VectorsNext ==
  /\ Running
  /\ \E t \in Threads :
       \/ \E n \in Indices : Get(t, n)
       \/ Grow(t) \/ Resized(t) \/ Generate(t) \/ Write(t) \/ Read(t)

VectorsSpec == VectorsInit /\ [][VectorsNext]_vectorVars

\* Threads get to run: one that waits for the lock gets it, as the table grows a
\* few times only and the other sections are short.  Nobody has to call get().
VectorsFairness ==
  \A t \in Threads :
    WF_vectorVars(Running /\ (Grow(t) \/ Resized(t) \/ Generate(t) \/ Write(t) \/ Read(t)))

VectorsFairSpec == VectorsSpec /\ VectorsFairness

-----------------------------------------------------------------------------
(* Properties *)

\* The lines thread t still has to fill.
ToFill(t) == IF pc[t] \in {"generate", "write"} THEN i[t]..index[t] ELSE {}

\* "Someone must have done our job, he will fill the NULL pointers too": every
\* line of the table that is NULL is about to be filled by exactly one thread,
\* so nobody spins on a line that will never come and no line is made twice.
NullIsBeingFilled ==
  /\ \A n \in Indices : n < size /\ mTable[n] = NULL => \E t \in Threads : n \in ToFill(t)
  /\ \A t \in Threads, n \in Indices : n \in ToFill(t) => n < size /\ mTable[n] = NULL
  /\ \A t, u \in Threads : t # u => ToFill(t) \cap ToFill(u) = {}

\* Whichever threads ask for whichever vectors first, each line is the one its
\* index stands for: all engines, and all runs, hash with the same functions.
SameFunctions ==
  \A n \in Indices : mTable[n] # NULL => mTable[n].seed = n + 1 /\ n < size

\* "As the table never shrinks, it is safe to access index below the value of
\* size()" (SafeGrowTable.h): no thread that gets to read reads beyond the table.
ReadsInRange ==
  resizing = NULL => \A t \in Threads : pc[t] = "read" => index[t] < size

\* Once a line is there it stays as it is: get() returned a pointer to it.
LinesStay ==
  [][\A n \in Indices : mTable[n] # NULL => mTable'[n] = mTable[n]]_vectorVars

\* get() returns, however the threads are scheduled, unless the process ends.
GetReturns ==
  \A t \in Threads : pc[t] # "out" ~> pc[t] = "out" \/ ~Running
=============================================================================
