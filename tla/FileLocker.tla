----------------------------- MODULE FileLocker -----------------------------
(***************************************************************************)
(* FileLocker: one lock per path, made on demand and thrown away when      *)
(* get_lock was not called for the path for longer than a timeout.  A      *)
(* thread holds on to the lock object it was given, whether or not the     *)
(* table still knows it; threads that ask for the path afterwards are      *)
(* given another object.  (core/file_lock/file_lock_manager.py, used by    *)
(* PandasTradePriceObjectStorageParquetSink as                             *)
(* "with FileLocker.get_lock(path): ...".)                                 *)
(*                                                                         *)
(* The clock is an integer and never goes back.  How long a use takes is   *)
(* the caller's matter: Patience bounds it, and the clock does not pass    *)
(* the end of a use that still goes on.                                    *)
(***************************************************************************)
EXTENDS Integers

CONSTANTS
    Threads,
    Paths,
    Timeout,    \* seconds after which an unused lock is thrown away
    Patience,   \* how long a use may take, from the call of get_lock to the
                \* release: the waiting, the writing, all of it
    LastMoment  \* bound: when the clock stops

ASSUME TimeAssumption ==
    Timeout \in Nat /\ Patience \in Nat /\ LastMoment \in Nat

Absent == -1    \* the path is no key of the dictionary

VARIABLES
    now,     \* time.time()
    locks,   \* _locks: the number of the path's lock object
    last,    \* _last_used
    made,    \* how many lock objects were made
    pc,      \* where a thread is
    path,    \* the path it asks for
    stamp,   \* the local variable now of get_lock
    mine     \* the lock object it was given

vars == <<now, locks, last, made, pc, path, stamp, mine>>

Init ==
    /\ now = 0
    /\ locks = [p \in Paths |-> Absent]
    /\ last = [p \in Paths |-> Absent]
    /\ made = 0
    /\ pc = [t \in Threads |-> "Idle"]
    /\ path \in [Threads -> Paths]
    /\ stamp = [t \in Threads |-> 0]
    /\ mine = [t \in Threads |-> 0]

(* get_lock reads the time before it takes the global lock.                *)
Call(t, p) ==
    /\ pc[t] = "Idle"
    /\ pc' = [pc EXCEPT ![t] = "Called"]
    /\ path' = [path EXCEPT ![t] = p]
    /\ stamp' = [stamp EXCEPT ![t] = now]
    /\ UNCHANGED <<now, locks, last, made, mine>>

(* _cleanup: the paths whose lock nobody asked for too long.               *)
Stale == {p \in Paths : last[p] # Absent /\ now - last[p] > Timeout}

(* Mutant of Cleaned: only _locks is cleaned up.                           *)
MutantCleaned(table) ==
    [p \in Paths |-> IF p \in Stale /\ table = locks THEN Absent ELSE table[p]]

Cleaned(table) == [p \in Paths |-> IF p \in Stale THEN Absent ELSE table[p]]

(* Mutant of LastUsed: only a new lock is stamped.                         *)
MutantLastUsed(t) ==
    IF Cleaned(last)[path[t]] = Absent
    THEN [Cleaned(last) EXCEPT ![path[t]] = stamp[t]]
    ELSE Cleaned(last)

LastUsed(t) == [Cleaned(last) EXCEPT ![path[t]] = stamp[t]]

(* The body of get_lock under the global lock: clean up, make the lock if  *)
(* it is missing, note the use with the time read in Call, return the lock. *)
Get(t) ==
    /\ pc[t] = "Called"
    /\ LET known == Cleaned(locks)[path[t]]
           new == known = Absent
           lock == IF new THEN made ELSE known
       IN  /\ made' = IF new THEN made + 1 ELSE made
           /\ locks' = [Cleaned(locks) EXCEPT ![path[t]] = lock]
           /\ mine' = [mine EXCEPT ![t] = lock]
    /\ last' = LastUsed(t)
    /\ pc' = [pc EXCEPT ![t] = "Waiting"]
    /\ UNCHANGED <<now, path, stamp>>

Held(lock) == \E u \in Threads : pc[u] = "Inside" /\ mine[u] = lock

Acquire(t) ==
    /\ pc[t] = "Waiting"
    /\ ~Held(mine[t])
    /\ pc' = [pc EXCEPT ![t] = "Inside"]
    /\ UNCHANGED <<now, locks, last, made, path, stamp, mine>>

Release(t) ==
    /\ pc[t] = "Inside"
    /\ pc' = [pc EXCEPT ![t] = "Idle"]
    /\ UNCHANGED <<now, locks, last, made, path, stamp, mine>>

(* Time passes; a use that has lasted Patience ends before it does.        *)
Tick ==
    /\ now < LastMoment
    /\ \A t \in Threads : pc[t] # "Idle" => now < stamp[t] + Patience
    /\ now' = now + 1
    /\ UNCHANGED <<locks, last, made, pc, path, stamp, mine>>

Next ==
    \/ \E t \in Threads, p \in Paths : Call(t, p)
    \/ \E t \in Threads : Get(t) \/ Acquire(t) \/ Release(t)
    \/ Tick

Spec == Init /\ [][Next]_vars

-----------------------------------------------------------------------------
(* The types, and that the two dictionaries have the same keys: _cleanup   *)
(* deletes from both, and would raise KeyError for a key of one only.      *)
TypeOK ==
    /\ now \in Nat
    /\ locks \in [Paths -> Nat \cup {Absent}]
    /\ last \in [Paths -> Nat \cup {Absent}]
    /\ \A p \in Paths : locks[p] = Absent <=> last[p] = Absent
    /\ made \in Nat
    /\ pc \in [Threads -> {"Idle", "Called", "Waiting", "Inside"}]
    /\ path \in [Threads -> Paths]
    /\ stamp \in [Threads -> Nat]
    /\ mine \in [Threads -> Nat]

(* What the class is for: two threads are never inside the same path       *)
(* together, although locks are thrown away and made again while they wait *)
(* and write.  (class docstring of FileLocker, lines 7-13)                 *)
MutualExclusion ==
    \A t, u \in Threads :
        pc[t] = "Inside" /\ pc[u] = "Inside" /\ path[t] = path[u] => t = u

(* A lock that somebody holds or waits for is never thrown away: the table *)
(* still knows it under the path.  get_lock may move _last_used back, to a *)
(* time read before another thread's, so this needs a timeout of at least  *)
(* twice the longest use.  (_cleanup, lines 38-53)                         *)
UsedLocksAreKept ==
    \A t \in Threads : pc[t] \in {"Waiting", "Inside"} => locks[path[t]] = mine[t]

=============================================================================
