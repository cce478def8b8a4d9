-------------------------- MODULE FileLockerProofs --------------------------
(***************************************************************************)
(* The locks of FileLocker exclude as long as twice the longest use fits   *)
(* into the timeout: for any number of threads and of paths, and a clock   *)
(* that goes on as long as it likes.                                       *)
(***************************************************************************)
EXTENDS FileLocker, TLAPS

USE DEF Absent

-----------------------------------------------------------------------------
(* A use has not lasted longer than Patience; a lock that is used is in    *)
(* the table and was asked for at most Patience before the use began.      *)
UsesAreShort ==
    \A t \in Threads :
        pc[t] # "Idle" => stamp[t] <= now /\ now <= stamp[t] + Patience

UsesAreNoted ==
    \A t \in Threads :
        pc[t] \in {"Waiting", "Inside"} =>
            /\ locks[path[t]] = mine[t]
            /\ stamp[t] <= last[path[t]] + Patience

IInv == TypeOK /\ UsesAreShort /\ UsesAreNoted /\ MutualExclusion

(* The dictionaries stay of their types and keep the same keys.            *)
THEOREM TypeCorrect == Spec => []TypeOK
<1>1. Init => TypeOK
  BY DEF Init, TypeOK
<1>2. TypeOK /\ [Next]_vars => TypeOK'
  <2> SUFFICES ASSUME TypeOK, [Next]_vars PROVE TypeOK'
    OBVIOUS
  <2>1. ASSUME NEW t \in Threads, NEW p \in Paths, Call(t, p) PROVE TypeOK'
    BY <2>1 DEF Call, TypeOK
  <2>2. ASSUME NEW t \in Threads, Get(t) PROVE TypeOK'
    <3> DEFINE q == path[t]
               known == Cleaned(locks)[q]
               lock == IF known = Absent THEN made ELSE known
    <3>1. q \in Paths /\ stamp[t] \in Nat /\ lock \in Nat
      BY <2>2 DEF TypeOK, Cleaned
    <3>2. /\ Cleaned(locks) \in [Paths -> Nat \cup {Absent}]
          /\ Cleaned(last) \in [Paths -> Nat \cup {Absent}]
          /\ \A p \in Paths : Cleaned(locks)[p] = Absent <=> Cleaned(last)[p] = Absent
      BY DEF TypeOK, Cleaned
    <3>3. /\ locks' = [Cleaned(locks) EXCEPT ![q] = lock]
          /\ last' = [Cleaned(last) EXCEPT ![q] = stamp[t]]
      BY <2>2 DEF Get, LastUsed
    <3>4. /\ locks' \in [Paths -> Nat \cup {Absent}]
          /\ last' \in [Paths -> Nat \cup {Absent}]
          /\ \A p \in Paths : locks'[p] = Absent <=> last'[p] = Absent
      <4> HIDE DEF lock, q
      <4> QED BY <3>1, <3>2, <3>3
    <3>5. mine' \in [Threads -> Nat] /\ made' \in Nat
      BY <2>2, <3>1 DEF Get, TypeOK
    <3> QED BY <2>2, <3>4, <3>5 DEF Get, TypeOK
  <2>3. ASSUME NEW t \in Threads, Acquire(t) \/ Release(t) PROVE TypeOK'
    BY <2>3 DEF Acquire, Release, TypeOK
  <2>4. CASE Tick
    BY <2>4 DEF Tick, TypeOK
  <2>5. CASE UNCHANGED vars
    BY <2>5 DEF vars, TypeOK
  <2> QED BY <2>1, <2>2, <2>3, <2>4, <2>5 DEF Next
<1> QED BY <1>1, <1>2, PTL DEF Spec

-----------------------------------------------------------------------------
(* What _cleanup leaves alone: the path of a lock in use.                  *)
LEMMA UsedPathIsNotStale ==
    ASSUME 2 * Patience <= Timeout, TypeOK, UsesAreShort, UsesAreNoted,
           NEW u \in Threads, pc[u] \in {"Waiting", "Inside"}
    PROVE  /\ path[u] \notin Stale
           /\ locks[path[u]] # Absent /\ last[path[u]] # Absent
           /\ Cleaned(locks)[path[u]] = locks[path[u]]
           /\ Cleaned(last)[path[u]] = last[path[u]]
<1>1. path[u] \in Paths /\ mine[u] \in Nat /\ stamp[u] \in Nat /\ now \in Nat
  BY DEF TypeOK
<1>2. locks[path[u]] # Absent /\ last[path[u]] \in Nat
  BY <1>1 DEF TypeOK, UsesAreNoted
<1>3. now - last[path[u]] <= Timeout
  BY <1>1, <1>2, TimeAssumption DEF UsesAreShort, UsesAreNoted
<1>4. path[u] \notin Stale
  BY <1>1, <1>2, <1>3, TimeAssumption DEF Stale
<1> QED BY <1>1, <1>2, <1>4 DEF Cleaned

(* What get_lock does to a lock in use: nothing but move its time, to one  *)
(* not further back than Patience.                                         *)
LEMMA GetKeepsUses ==
    ASSUME 2 * Patience <= Timeout, IInv,
           NEW t \in Threads, Get(t)
    PROVE  UsesAreNoted'
<1>1. TypeOK /\ UsesAreShort /\ UsesAreNoted
  BY DEF IInv
<1> DEFINE q == path[t]
           known == Cleaned(locks)[q]
           lock == IF known = Absent THEN made ELSE known
<1>2. /\ q \in Paths /\ path' = path /\ stamp' = stamp
      /\ locks' = [Cleaned(locks) EXCEPT ![q] = lock]
      /\ last' = [Cleaned(last) EXCEPT ![q] = stamp[t]]
      /\ mine' = [mine EXCEPT ![t] = lock]
      /\ pc' = [pc EXCEPT ![t] = "Waiting"]
  BY <1>1 DEF Get, LastUsed, TypeOK
<1>3. /\ locks' = [p \in Paths |-> IF p = q THEN lock ELSE Cleaned(locks)[p]]
      /\ last' = [p \in Paths |-> IF p = q THEN stamp[t] ELSE Cleaned(last)[p]]
  BY <1>2, Zenon DEF Cleaned
<1> SUFFICES ASSUME NEW u \in Threads, pc'[u] \in {"Waiting", "Inside"}
             PROVE  /\ locks'[path[u]] = mine'[u]
                    /\ stamp[u] <= last'[path[u]] + Patience
  BY <1>2 DEF UsesAreNoted
<1>4. path[u] \in Paths /\ stamp[u] \in Nat /\ stamp[t] \in Nat /\ now \in Nat
  BY <1>1 DEF TypeOK
<1>5. CASE u = t
  BY <1>1, <1>2, <1>3, <1>4, <1>5, TimeAssumption DEF TypeOK
<1>6. CASE u # t
  <2>1. pc[u] \in {"Waiting", "Inside"} /\ mine'[u] = mine[u]
    BY <1>1, <1>2, <1>6 DEF TypeOK
  <2>2. /\ locks[path[u]] # Absent
        /\ Cleaned(locks)[path[u]] = locks[path[u]]
        /\ Cleaned(last)[path[u]] = last[path[u]]
    BY <1>1, <2>1, UsedPathIsNotStale
  <2>3. locks[path[u]] = mine[u] /\ stamp[u] <= last[path[u]] + Patience
    BY <1>1, <2>1 DEF UsesAreNoted
  <2>4. stamp[u] <= stamp[t] + Patience
    <3>1. pc[t] # "Idle" /\ pc[u] # "Idle"
      BY <2>1 DEF Get
    <3> QED BY <1>1, <1>4, <3>1, TimeAssumption DEF UsesAreShort
  <2>5. CASE path[u] = q
    BY <1>3, <1>4, <2>1, <2>2, <2>3, <2>4, <2>5
  <2>6. CASE path[u] # q
    BY <1>3, <1>4, <2>1, <2>2, <2>3, <2>6
  <2> QED BY <2>5, <2>6
<1> QED BY <1>5, <1>6

LEMMA ShortUsesStep ==
    ASSUME IInv, TypeOK', [Next]_vars PROVE UsesAreShort'
<1>1. TypeOK /\ UsesAreShort
  BY DEF IInv
<1>2. ASSUME NEW t \in Threads, NEW p \in Paths, Call(t, p) PROVE UsesAreShort'
  BY <1>1, <1>2, TimeAssumption DEF Call, TypeOK, UsesAreShort
<1>3. ASSUME NEW t \in Threads, Get(t) PROVE UsesAreShort'
  BY <1>1, <1>3 DEF Get, TypeOK, UsesAreShort
<1>4. ASSUME NEW t \in Threads, Acquire(t) \/ Release(t) PROVE UsesAreShort'
  BY <1>1, <1>4 DEF Acquire, Release, TypeOK, UsesAreShort
<1>5. CASE Tick
  BY <1>1, <1>5, TimeAssumption DEF Tick, TypeOK, UsesAreShort
<1>6. CASE UNCHANGED vars
  BY <1>1, <1>6 DEF vars, UsesAreShort
<1> QED BY <1>2, <1>3, <1>4, <1>5, <1>6 DEF Next

LEMMA NotedUsesStep ==
    ASSUME 2 * Patience <= Timeout, IInv, [Next]_vars PROVE UsesAreNoted'
<1>1. TypeOK /\ UsesAreNoted
  BY DEF IInv
<1>2. ASSUME NEW t \in Threads, NEW p \in Paths, Call(t, p) PROVE UsesAreNoted'
  BY <1>1, <1>2 DEF Call, TypeOK, UsesAreNoted
<1>3. ASSUME NEW t \in Threads, Get(t) PROVE UsesAreNoted'
  BY <1>3, GetKeepsUses
<1>4. ASSUME NEW t \in Threads, Acquire(t) \/ Release(t) PROVE UsesAreNoted'
  BY <1>1, <1>4 DEF Acquire, Release, TypeOK, UsesAreNoted
<1>5. CASE Tick
  BY <1>1, <1>5 DEF Tick, UsesAreNoted
<1>6. CASE UNCHANGED vars
  BY <1>1, <1>6 DEF vars, UsesAreNoted
<1> QED BY <1>2, <1>3, <1>4, <1>5, <1>6 DEF Next

LEMMA ExclusionStep ==
    ASSUME IInv, [Next]_vars PROVE MutualExclusion'
<1>1. TypeOK /\ UsesAreNoted /\ MutualExclusion
  BY DEF IInv
<1>2. ASSUME NEW t \in Threads, NEW p \in Paths, Call(t, p) PROVE MutualExclusion'
  BY <1>1, <1>2 DEF Call, TypeOK, MutualExclusion
<1>3. ASSUME NEW t \in Threads, Get(t) PROVE MutualExclusion'
  BY <1>1, <1>3 DEF Get, TypeOK, MutualExclusion
<1>4. ASSUME NEW t \in Threads, Acquire(t) PROVE MutualExclusion'
  <2>1. \A u \in Threads : pc[u] = "Inside" => path[u] # path[t]
    BY <1>1, <1>4 DEF Acquire, Held, UsesAreNoted
  <2> QED BY <1>1, <1>4, <2>1 DEF Acquire, TypeOK, MutualExclusion
<1>5. ASSUME NEW t \in Threads, Release(t) PROVE MutualExclusion'
  BY <1>1, <1>5 DEF Release, TypeOK, MutualExclusion
<1>6. CASE Tick \/ UNCHANGED vars
  BY <1>1, <1>6 DEF Tick, vars, MutualExclusion
<1> QED BY <1>2, <1>3, <1>4, <1>5, <1>6 DEF Next

THEOREM InvariantHolds == 2 * Patience <= Timeout => (Spec => []IInv)
<1> SUFFICES ASSUME 2 * Patience <= Timeout PROVE Spec => []IInv
  OBVIOUS
<1>1. Init => IInv
  BY DEF Init, IInv, TypeOK, UsesAreShort, UsesAreNoted, MutualExclusion
<1>2. IInv /\ TypeOK' /\ [Next]_vars => IInv'
  BY ShortUsesStep, NotedUsesStep, ExclusionStep DEF IInv
<1> QED BY <1>1, <1>2, TypeCorrect, PTL DEF Spec

(* Two threads are never inside one path, if twice the longest use, from   *)
(* the call of get_lock to the release, fits into the timeout.             *)
THEOREM MutualExclusionHolds ==
    2 * Patience <= Timeout => (Spec => []MutualExclusion)
<1> SUFFICES ASSUME 2 * Patience <= Timeout PROVE Spec => []MutualExclusion
  OBVIOUS
<1>1. IInv => MutualExclusion
  BY DEF IInv
<1> QED BY <1>1, InvariantHolds, PTL

(* Under the same condition no lock that is held or waited for leaves the  *)
(* table.                                                                  *)
THEOREM UsedLocksAreKeptHolds ==
    2 * Patience <= Timeout => (Spec => []UsedLocksAreKept)
<1> SUFFICES ASSUME 2 * Patience <= Timeout PROVE Spec => []UsedLocksAreKept
  OBVIOUS
<1>1. IInv => UsedLocksAreKept
  BY DEF IInv, UsesAreNoted, UsedLocksAreKept
<1> QED BY <1>1, InvariantHolds, PTL
=============================================================================
