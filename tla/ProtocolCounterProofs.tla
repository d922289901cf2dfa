------------------------ MODULE ProtocolCounterProofs ------------------------
(* Proofs about ProtocolCounter, for every set of years, requests and codes    *)
(* stored before the counters existed.                                         *)
EXTENDS ProtocolCounter, TLAPS

(* The three counters in one: what an allocation may give. *)
LEMMA NextValueType ==
    ASSUME TypeOK, NEW k \in Keys, NEW first \in Nat \ {0}
    PROVE  /\ NextValue(k, first) \in Nat \ {0}
           /\ NextValue(k, first) > counter[k]
BY DEF TypeOK, NextValue, Larger

LEMMA CodeOfType ==
    ASSUME NEW t \in Allocations, t.pc = "commit"
    PROVE  /\ CodeOf(t) \in Codes /\ t.key \in Keys /\ t.number \in Nat \ {0}
           /\ CodeOf(t).key = t.key /\ CodeOf(t).number = t.number
BY DEF Allocations, CodeOf, Codes

LEMMA AllocationAt ==
    ASSUME TypeOK, NEW w \in Workers, tx[w].pc \in {"upsert", "commit"}
    PROVE  /\ tx[w] \in Allocations /\ tx[w].key \in Keys /\ tx[w].first \in Nat \ {0}
           /\ tx[w].pc = "commit" => tx[w].number \in Nat \ {0}
BY DEF TypeOK, Idle, Seeding, Allocations

(* What each step of w does to tx[w], and that the others keep theirs. *)
LEMMA Reads ==
    ASSUME TypeOK, NEW w \in Workers, Read(w)
    PROVE  \E k \in Keys : \E greatest \in Greatest(k) :
              /\ greatest \in Nat
              /\ tx' = [tx EXCEPT ![w] = [pc |-> "upsert", key |-> k, first |-> greatest + 1, number |-> 0]]
              /\ UNCHANGED <<stored, counter, given>> /\ requests' = requests + 1 /\ requests < MaxRequests
<1>1. ASSUME NEW k \in Keys, NEW greatest \in Greatest(k) PROVE greatest \in Nat
  BY ProcStartAssumption DEF Greatest, Numbers, TypeOK, Codes
<1> QED BY <1>1 DEF Read, Advance, Count

LEMMA Upserts ==
    ASSUME TypeOK, NEW w \in Workers, Upsert(w)
    PROVE  /\ tx[w] \in Allocations /\ tx[w].pc = "upsert"
           /\ \A v \in Workers : tx[v].pc = "commit" => tx[v].key # tx[w].key
           /\ tx' = [tx EXCEPT ![w] = tx'[w]]
           /\ tx'[w] \in Allocations
           /\ tx'[w].pc = "commit" /\ tx'[w].key = tx[w].key
           /\ tx'[w].number = NextValue(tx[w].key, tx[w].first)
           /\ UNCHANGED <<stored, counter, requests, given>>
<1> DEFINE n == NextValue(tx[w].key, tx[w].first)
           t == [tx[w] EXCEPT !.pc = "commit", !.number = n]
<1>1. tx[w] \in Allocations /\ tx[w].pc = "upsert" /\ tx[w].key \in Keys /\ tx[w].first \in Nat \ {0}
  BY AllocationAt DEF Upsert
<1>2. n \in Nat \ {0}
  BY <1>1, NextValueType
<1> HIDE DEF n
<1>3. t \in Allocations /\ t.pc = "commit" /\ t.key = tx[w].key /\ t.number = n
  BY <1>1, <1>2 DEF Allocations
<1>4. tx' = [tx EXCEPT ![w] = t] /\ UNCHANGED <<stored, counter, requests, given>>
  BY DEF Upsert, Advance, n
<1>5. tx'[w] = t
  BY <1>4 DEF TypeOK
<1> HIDE DEF t
<1> QED BY <1>1, <1>3, <1>4, <1>5 DEF Upsert, CounterFree, n

LEMMA Commits ==
    ASSUME TypeOK, NEW w \in Workers, Commit(w)
    PROVE  /\ tx[w] \in Allocations /\ tx[w].pc = "commit"
           /\ stored' = stored \cup {CodeOf(tx[w])}
           /\ counter' = [counter EXCEPT ![tx[w].key] = tx[w].number]
           /\ given' = [given EXCEPT ![tx[w].key] = @ + 1]
           /\ tx' = [tx EXCEPT ![w] = Idle] /\ UNCHANGED requests
BY AllocationAt DEF Commit, Answer, Advance

-----------------------------------------------------------------------------
LEMMA TypeInit == Init => TypeOK
BY InitialCodesAssumption, MaxRequestsAssumption DEF Init, TypeOK

LEMMA TypeStep == TypeOK /\ [Next]_vars => TypeOK'
<1> SUFFICES ASSUME TypeOK, [Next]_vars PROVE TypeOK'
  OBVIOUS
<1>1. CASE UNCHANGED vars
  BY <1>1 DEF vars, TypeOK
<1>2. CASE Remove
  BY <1>2 DEF Remove, TypeOK
<1>3. ASSUME NEW w \in Workers, Read(w) PROVE TypeOK'
  <2>1. PICK k \in Keys, greatest \in Nat :
          /\ tx' = [tx EXCEPT ![w] = [pc |-> "upsert", key |-> k, first |-> greatest + 1, number |-> 0]]
          /\ UNCHANGED <<stored, counter, given>> /\ requests' = requests + 1 /\ requests < MaxRequests
    BY <1>3, Reads
  <2>2. [pc |-> "upsert", key |-> k, first |-> greatest + 1, number |-> 0] \in Allocations
    BY DEF Allocations
  <2> QED BY <2>1, <2>2, MaxRequestsAssumption DEF TypeOK
<1>4. ASSUME NEW w \in Workers, Upsert(w) PROVE TypeOK'
  BY <1>4, Upserts DEF TypeOK
<1>5. ASSUME NEW w \in Workers, Commit(w) PROVE TypeOK'
  BY <1>5, Commits, CodeOfType DEF TypeOK
<1>6. ASSUME NEW w \in Workers, Abort(w) PROVE TypeOK'
  BY <1>6 DEF Abort, Answer, Advance, TypeOK
<1>7. ASSUME NEW w \in Workers, SeedRead(w) PROVE TypeOK'
  BY <1>7, MaxRequestsAssumption DEF SeedRead, Advance, Count, TypeOK
<1>8. ASSUME NEW w \in Workers, SeedCommit(w) PROVE TypeOK'
  <2>1. <<"PROC", SeedYear>> \in Keys
    BY SeedAssumption DEF Keys, Series
  <2>2. SeedCodes \subseteq Codes
    BY <2>1, SeedAssumption DEF SeedCodes, Codes
  <2> QED BY <1>8, <2>2 DEF SeedCommit, Answer, Advance, TypeOK
<1> QED BY <1>1, <1>2, <1>3, <1>4, <1>5, <1>6, <1>7, <1>8 DEF Next

(* Codes, counters and transactions always have their types; a number about to *)
(* be formatted is positive (protocols.py:16-19).                              *)
THEOREM ProtocolTypeCorrect == Spec => []TypeOK
BY TypeInit, TypeStep, PTL DEF Spec

-----------------------------------------------------------------------------
(* A transaction that holds a number holds the row of its counter, and its     *)
(* number is past the committed one.                                           *)
Held ==
    /\ \A v, w \in Workers :
         v # w /\ tx[v].pc = "commit" /\ tx[w].pc = "commit" => tx[v].key # tx[w].key
    /\ \A w \in Workers : tx[w].pc = "commit" => tx[w].number > counter[tx[w].key]

LEMMA HeldInit == Init => Held
BY DEF Init, Held, Idle

LEMMA HeldStep == TypeOK /\ Held /\ [Next]_vars => Held'
<1> SUFFICES ASSUME TypeOK, Held, [Next]_vars PROVE Held'
  OBVIOUS
<1>1. CASE UNCHANGED vars
  BY <1>1 DEF vars, Held
<1>2. CASE Remove
  BY <1>2 DEF Remove, Held
<1>3. ASSUME NEW w \in Workers, UNCHANGED counter, tx' = [tx EXCEPT ![w] = tx'[w]],
             tx'[w].pc # "commit"
      PROVE  Held'
  <2>1. \A v \in Workers : v # w => tx'[v] = tx[v]
    BY <1>3 DEF TypeOK
  <2> QED BY <1>3, <2>1 DEF Held
<1>4. ASSUME NEW w \in Workers, Upsert(w) PROVE Held'
  <2>1. \A v \in Workers : v # w => tx'[v] = tx[v]
    BY <1>4, Upserts DEF TypeOK
  <2>2. tx'[w].number > counter[tx'[w].key]
    BY <1>4, Upserts, NextValueType DEF Allocations
  <2> QED BY <1>4, <2>1, <2>2, Upserts DEF Held
<1>5. ASSUME NEW w \in Workers, Commit(w) PROVE Held'
  <2>1. /\ \A v \in Workers : v # w => tx'[v] = tx[v]
        /\ tx'[w] = Idle
    BY <1>5, Commits DEF TypeOK
  <2>2. \A k \in Keys : k # tx[w].key => counter'[k] = counter[k]
    BY <1>5, Commits DEF TypeOK
  <2>3. \A v \in Workers : v # w /\ tx[v].pc = "commit" => tx[v].key # tx[w].key /\ tx[v].key \in Keys
    BY <1>5, Commits, AllocationAt DEF Held
  <2> QED BY <2>1, <2>2, <2>3 DEF Held, Idle
<1>6. ASSUME NEW w \in Workers, Read(w) PROVE Held'
  <2>1. UNCHANGED counter /\ tx' = [tx EXCEPT ![w] = tx'[w]] /\ tx'[w].pc = "upsert"
    BY <1>6, Reads DEF TypeOK
  <2> QED BY <1>3, <2>1
<1>7. ASSUME NEW w \in Workers, Abort(w) \/ SeedRead(w) \/ SeedCommit(w) PROVE Held'
  <2>1. UNCHANGED counter /\ tx' = [tx EXCEPT ![w] = tx'[w]] /\ tx'[w].pc # "commit"
    BY <1>7 DEF Abort, SeedRead, SeedCommit, Answer, Advance, Idle, Seeding, TypeOK
  <2> QED BY <1>3, <2>1
<1> QED BY <1>1, <1>2, <1>4, <1>5, <1>6, <1>7 DEF Next

LEMMA AlwaysHeld == Spec => [](TypeOK /\ Held)
<1>1. TypeOK /\ Held /\ [Next]_vars => (TypeOK /\ Held)'
  BY TypeStep, HeldStep
<1> QED BY <1>1, TypeInit, HeldInit, PTL DEF Spec

-----------------------------------------------------------------------------
LEMMA SequenceInit == Init => Sequence!Init
BY DEF Init, Sequence!Init

LEMMA SequenceStep == TypeOK /\ Held /\ [Next]_vars => [Sequence!Next]_<<counter, given>>
<1> SUFFICES ASSUME TypeOK, Held, [Next]_vars
             PROVE  Sequence!Next \/ UNCHANGED <<counter, given>>
  OBVIOUS
<1>1. ASSUME NEW w \in Workers, Commit(w) PROVE Sequence!Next
  <2> DEFINE k == tx[w].key
             n == tx[w].number
  <2>1. k \in Keys /\ n \in Nat /\ n > counter[k]
    BY <1>1, Commits, CodeOfType DEF Held
  <2>2. counter' = [counter EXCEPT ![k] = n] /\ given' = [given EXCEPT ![k] = @ + 1]
    BY <1>1, Commits
  <2>3. counter'[k] = n
    BY <2>1, <2>2 DEF TypeOK
  <2> HIDE DEF k, n
  <2>4. Sequence!HandOut(k)
    BY <2>1, <2>2, <2>3 DEF Sequence!HandOut
  <2> QED BY <2>1, <2>4 DEF Sequence!Next
<1>2. ASSUME NEW w \in Workers,
             Read(w) \/ Upsert(w) \/ Abort(w) \/ SeedRead(w) \/ SeedCommit(w)
      PROVE  UNCHANGED <<counter, given>>
  BY <1>2 DEF Read, Upsert, Abort, SeedRead, SeedCommit
<1>3. CASE Remove
  BY <1>3 DEF Remove
<1>4. CASE UNCHANGED vars
  BY <1>4 DEF vars
<1> QED BY <1>1, <1>2, <1>3, <1>4 DEF Next

(* ProtocolCounter implements ProtocolSequence: the numbers of a series only   *)
(* grow, so none is ever given twice, whatever overlaps, rolls back or is      *)
(* removed meanwhile.                                                          *)
THEOREM ProtocolsAreUnique == Spec => NeverTwice
<1>1. Spec => Sequence!Init
  BY SequenceInit, PTL DEF Spec
<1>2. Spec => [][Sequence!Next]_<<counter, given>>
  BY AlwaysHeld, SequenceStep, PTL DEF Spec
<1> QED BY <1>1, <1>2, PTL DEF NeverTwice, Sequence!Spec

-----------------------------------------------------------------------------
(* No VEI or HESP row is past the counter of its year once that has started,   *)
(* past what a transaction will take, or past what one holds.                  *)
Behind(c) ==
    /\ counter[c.key] > 0 => c.number <= counter[c.key]
    /\ \A w \in Workers : tx[w].pc = "upsert" /\ tx[w].key = c.key =>
         c.number <= counter[c.key] \/ c.number <= tx[w].first - 1
    /\ \A w \in Workers : tx[w].pc = "commit" /\ tx[w].key = c.key => c.number < tx[w].number

AllBehind == \A c \in stored : c.key[1] # "PROC" => Behind(c)

LEMMA GreatestIs ==
    ASSUME TypeOK, NEW k \in Keys, NEW greatest \in Greatest(k)
    PROVE  /\ \A c \in stored : c.key = k => c.number <= greatest
           /\ \/ \E c \in stored : c.key = k /\ c.number = greatest
              \/ greatest = (IF k[1] = "PROC" THEN ProcStart ELSE 0)
BY DEF Greatest, Numbers

LEMMA BehindInit == Init => AllBehind
BY InitialCodesAssumption DEF Init, AllBehind, Behind, Idle, Codes

LEMMA BehindStep == TypeOK /\ Held /\ AllBehind /\ [Next]_vars => AllBehind'
<1> SUFFICES ASSUME TypeOK, Held, AllBehind, [Next]_vars, NEW c \in stored', c.key[1] # "PROC"
             PROVE  Behind(c)'
  BY DEF AllBehind
<1>1. CASE UNCHANGED vars
  BY <1>1 DEF vars, AllBehind, Behind
<1>2. CASE Remove
  BY <1>2 DEF Remove, AllBehind, Behind
<1>3. ASSUME NEW w \in Workers, Read(w) PROVE Behind(c)'
  <2>0. PICK k \in Keys : \E greatest \in Greatest(k) :
          /\ greatest \in Nat
          /\ tx' = [tx EXCEPT ![w] = [pc |-> "upsert", key |-> k, first |-> greatest + 1, number |-> 0]]
          /\ UNCHANGED <<stored, counter, given>>
    BY <1>3, Reads
  <2>1. PICK greatest \in Greatest(k) :
          /\ greatest \in Nat
          /\ tx' = [tx EXCEPT ![w] = [pc |-> "upsert", key |-> k, first |-> greatest + 1, number |-> 0]]
          /\ UNCHANGED <<stored, counter, given>>
    BY <2>0
  <2>2. c \in stored /\ Behind(c) /\ c.number \in Nat
    BY <2>1 DEF AllBehind, TypeOK, Codes
  <2>3. c.key = k => c.number <= (greatest + 1) - 1
    BY <2>1, <2>2, GreatestIs
  <2>4. tx'[w] = [pc |-> "upsert", key |-> k, first |-> greatest + 1, number |-> 0]
        /\ \A v \in Workers : v # w => tx'[v] = tx[v]
    BY <2>1 DEF TypeOK
  <2> QED BY <2>1, <2>2, <2>3, <2>4 DEF Behind
<1>4. ASSUME NEW w \in Workers, Upsert(w) PROVE Behind(c)'
  <2>1. c \in stored /\ Behind(c) /\ c.number \in Nat \ {0} /\ c.key \in Keys
    BY <1>4, Upserts DEF AllBehind, TypeOK, Codes
  <2>2. \A v \in Workers : v # w => tx'[v] = tx[v]
    BY <1>4, Upserts DEF TypeOK
  <2>3. tx[w].pc = "upsert" /\ tx[w].key \in Keys /\ tx[w].first \in Nat \ {0}
        /\ counter[c.key] \in Nat
    BY <1>4, <2>1, Upserts, AllocationAt DEF TypeOK
  <2>4. c.key = tx[w].key => c.number < NextValue(tx[w].key, tx[w].first)
    BY <2>1, <2>3 DEF Behind, NextValue, Larger
  <2> QED BY <1>4, <2>1, <2>2, <2>4, Upserts DEF Behind
<1>5. ASSUME NEW w \in Workers, Commit(w) PROVE Behind(c)'
  <2>1. /\ \A v \in Workers : v # w => tx'[v] = tx[v]
        /\ tx'[w] = Idle
    BY <1>5, Commits DEF TypeOK
  <2>2. tx[w].key \in Keys /\ tx[w].number \in Nat \ {0} /\ tx[w].number > counter[tx[w].key]
    BY <1>5, Commits, AllocationAt DEF Held
  <2>3. \A v \in Workers : tx'[v].pc = "commit" => tx'[v].key # tx[w].key
    BY <1>5, <2>1, Commits DEF Held, Idle
  <2>4. counter'[tx[w].key] = tx[w].number
        /\ \A k \in Keys : k # tx[w].key => counter'[k] = counter[k]
    BY <1>5, <2>2, Commits DEF TypeOK
  <2>5. CASE c = CodeOf(tx[w])
    <3>1. c.key = tx[w].key /\ c.number = tx[w].number
      BY <2>5 DEF CodeOf
    <3> QED BY <2>2, <2>3, <2>4, <3>1 DEF Behind
  <2>6. CASE c \in stored
    <3>1. Behind(c) /\ c.key \in Keys /\ c.number \in Nat
      BY <2>6 DEF AllBehind, TypeOK, Codes
    <3>2. CASE c.key = tx[w].key
      <4>1. c.number < tx[w].number
        BY <1>5, <3>1, <3>2, Commits DEF Behind
      <4> QED BY <2>2, <2>3, <2>4, <3>1, <3>2, <4>1 DEF Behind
    <3>3. CASE c.key # tx[w].key
      BY <2>1, <2>4, <3>1, <3>3 DEF Behind, Idle
    <3> QED BY <3>2, <3>3
  <2> QED BY <1>5, <2>5, <2>6, Commits
<1>6. ASSUME NEW w \in Workers, Abort(w) \/ SeedRead(w) \/ SeedCommit(w) PROVE Behind(c)'
  <2>1. /\ UNCHANGED counter
        /\ \A v \in Workers : v # w => tx'[v] = tx[v]
        /\ tx'[w].pc \notin {"upsert", "commit"}
    BY <1>6 DEF Abort, SeedRead, SeedCommit, Answer, Advance, Idle, Seeding, TypeOK
  <2>2. c \in stored
    BY <1>6 DEF Abort, SeedRead, SeedCommit, SeedCodes
  <2> QED BY <2>1, <2>2 DEF AllBehind, Behind
<1> QED BY <1>1, <1>2, <1>3, <1>4, <1>5, <1>6 DEF Next

(* A VEI or HESP protocol is greater than every one its year has when it is    *)
(* given, those older than the counters too (README.md:35).                    *)
THEOREM ProtocolsContinue == Spec => ContinuesFromGreatest
<1>1. TypeOK /\ Held /\ AllBehind /\ [Next]_vars => (TypeOK /\ Held /\ AllBehind)'
  BY TypeStep, HeldStep, BehindStep
<1>2. TypeOK /\ AllBehind =>
        \A w \in Workers :
            Commit(w) /\ tx[w].key[1] # "PROC" =>
                \A n \in Numbers(tx[w].key) : n < tx[w].number
  BY DEF AllBehind, Behind, Numbers, Commit
<1> QED BY <1>1, <1>2, TypeInit, HeldInit, BehindInit, PTL DEF Spec, ContinuesFromGreatest

-----------------------------------------------------------------------------
(* Where each number comes from: the one before it was given by the counter or *)
(* by no counter.                                                              *)
Before(k, n) ==
    \/ n <= counter[k]
    \/ n \in Ungiven(k)
    \/ k[1] = "PROC" /\ n = ProcStart

Follows(t) ==
    \/ t.number = counter[t.key] + 1
    \/ t.number - 1 \in Ungiven(t.key)
    \/ counter[t.key] = 0 /\ t.key[1] = "PROC" /\ t.number = ProcStart + 1

Traced ==
    /\ \A c \in stored : c.number <= counter[c.key] \/ c.number \in Ungiven(c.key)
    /\ \A w \in Workers : tx[w].pc = "upsert" => Before(tx[w].key, tx[w].first - 1)
    /\ \A w \in Workers : tx[w].pc = "commit" => Follows(tx[w])

LEMMA TracedInit == Init => Traced
BY DEF Init, Traced, Idle, Ungiven

LEMMA TracedStep == TypeOK /\ Held /\ Traced /\ [Next]_vars => Traced'
<1> SUFFICES ASSUME TypeOK, Held, Traced, [Next]_vars PROVE Traced'
  OBVIOUS
<1>0. \A k : Ungiven(k)' = Ungiven(k)
  BY DEF Ungiven, SeedCodes
<1>1. CASE UNCHANGED vars
  BY <1>0, <1>1 DEF vars, Traced, Before, Follows
<1>2. CASE Remove
  BY <1>0, <1>2 DEF Remove, Traced, Before, Follows
<1>3. ASSUME NEW w \in Workers, Read(w) PROVE Traced'
  <2>0. PICK k \in Keys : \E greatest \in Greatest(k) :
          /\ greatest \in Nat
          /\ tx' = [tx EXCEPT ![w] = [pc |-> "upsert", key |-> k, first |-> greatest + 1, number |-> 0]]
          /\ UNCHANGED <<stored, counter, given>>
    BY <1>3, Reads
  <2>1. PICK greatest \in Greatest(k) :
          /\ greatest \in Nat
          /\ tx' = [tx EXCEPT ![w] = [pc |-> "upsert", key |-> k, first |-> greatest + 1, number |-> 0]]
          /\ UNCHANGED <<stored, counter, given>>
    BY <2>0
  <2>2. (greatest + 1) - 1 = greatest /\ Before(k, greatest)
    <3>1. ASSUME NEW c \in stored, c.key = k, c.number = greatest PROVE Before(k, greatest)
      BY <3>1 DEF Traced, Before
    <3>2. ASSUME greatest = (IF k[1] = "PROC" THEN ProcStart ELSE 0) PROVE Before(k, greatest)
      BY <3>2 DEF Before, TypeOK
    <3> QED BY <2>1, <3>1, <3>2, GreatestIs
  <2>3. /\ tx'[w] = [pc |-> "upsert", key |-> k, first |-> greatest + 1, number |-> 0]
        /\ \A v \in Workers : v # w => tx'[v] = tx[v]
    BY <2>1 DEF TypeOK
  <2> QED BY <1>0, <2>1, <2>2, <2>3 DEF Traced, Before, Follows
<1>4. ASSUME NEW w \in Workers, Upsert(w) PROVE Traced'
  <2>1. \A v \in Workers : v # w => tx'[v] = tx[v]
    BY <1>4, Upserts DEF TypeOK
  <2>2. tx[w].key \in Keys /\ tx[w].first \in Nat \ {0} /\ counter[tx[w].key] \in Nat
        /\ Before(tx[w].key, tx[w].first - 1)
    BY <1>4, Upserts, AllocationAt DEF TypeOK, Traced
  <2>3. Follows(tx'[w])
    <3> DEFINE k == tx[w].key
               first == tx[w].first
    <3>1. tx'[w].key = k /\ tx'[w].number = NextValue(k, first)
      BY <1>4, Upserts
    <3>2. ProcStart \in Nat
      BY ProcStartAssumption
    <3>3. \/ NextValue(k, first) = counter[k] + 1
          \/ NextValue(k, first) - 1 \in Ungiven(k)
          \/ counter[k] = 0 /\ k[1] = "PROC" /\ NextValue(k, first) = ProcStart + 1
      BY <2>2, <3>2 DEF Before, NextValue, Larger
    <3> QED BY <3>1, <3>3 DEF Follows
  <2> QED BY <1>0, <1>4, <2>1, <2>3, Upserts DEF Traced, Before, Follows
<1>5. ASSUME NEW w \in Workers, Commit(w) PROVE Traced'
  <2>1. /\ \A v \in Workers : v # w => tx'[v] = tx[v]
        /\ tx'[w] = Idle
    BY <1>5, Commits DEF TypeOK
  <2>2. tx[w].key \in Keys /\ tx[w].number \in Nat \ {0} /\ tx[w].number > counter[tx[w].key]
    BY <1>5, Commits, AllocationAt DEF Held
  <2>3. \A v \in Workers : tx'[v].pc = "commit" => tx'[v].key # tx[w].key /\ tx'[v].key \in Keys
    BY <1>5, <2>1, Commits, AllocationAt DEF Held, Idle
  <2>4. counter'[tx[w].key] = tx[w].number
        /\ \A k \in Keys : k # tx[w].key => counter'[k] = counter[k]
    BY <1>5, <2>2, Commits DEF TypeOK
  <2>5. \A k \in Keys : counter[k] \in Nat /\ counter'[k] \in Nat /\ counter[k] <= counter'[k]
    BY <2>2, <2>4 DEF TypeOK
  <2>6. \A c \in stored' : c.number <= counter'[c.key] \/ c.number \in Ungiven(c.key)
    <3>1. ASSUME NEW c \in stored PROVE c.number <= counter'[c.key] \/ c.number \in Ungiven(c.key)
      <4>1. c.key \in Keys /\ c.number \in Nat
        BY DEF TypeOK, Codes
      <4>2. c.number <= counter[c.key] \/ c.number \in Ungiven(c.key)
        BY DEF Traced
      <4> QED BY <2>5, <4>1, <4>2
    <3>2. CodeOf(tx[w]).number <= counter'[CodeOf(tx[w]).key]
      BY <2>2, <2>4 DEF CodeOf
    <3> QED BY <1>5, <3>1, <3>2, Commits
  <2>7. ASSUME NEW v \in Workers, tx'[v].pc = "upsert"
        PROVE  Before(tx[v].key, tx[v].first - 1)' /\ tx'[v] = tx[v]
    <3>1. tx'[v] = tx[v] /\ tx[v].key \in Keys /\ tx[v].first \in Nat \ {0}
      BY <2>1, <2>7, AllocationAt DEF Idle
    <3>2. Before(tx[v].key, tx[v].first - 1)
      BY <2>7, <3>1 DEF Traced
    <3> QED BY <1>0, <2>5, <3>1, <3>2 DEF Before
  <2>8. ASSUME NEW v \in Workers, tx'[v].pc = "commit"
        PROVE  Follows(tx[v])' /\ tx'[v] = tx[v]
    <3>1. tx'[v] = tx[v]
      BY <2>1, <2>8 DEF Idle
    <3>2. Follows(tx[v]) /\ counter'[tx[v].key] = counter[tx[v].key]
      BY <2>3, <2>4, <2>8, <3>1 DEF Traced
    <3> QED BY <1>0, <3>1, <3>2 DEF Follows
  <2> QED BY <1>0, <2>6, <2>7, <2>8 DEF Traced
<1>6. ASSUME NEW w \in Workers, Abort(w) \/ SeedRead(w) \/ SeedCommit(w) PROVE Traced'
  <2>1. /\ UNCHANGED counter
        /\ \A v \in Workers : v # w => tx'[v] = tx[v]
        /\ tx'[w].pc \notin {"upsert", "commit"}
    BY <1>6 DEF Abort, SeedRead, SeedCommit, Answer, Advance, Idle, Seeding, TypeOK
  <2>2. \A c \in stored' : c \in stored \/ c \in SeedCodes
    BY <1>6 DEF Abort, SeedRead, SeedCommit
  <2>3. \A c \in SeedCodes : c.number \in Ungiven(c.key)
    BY DEF Ungiven
  <2> QED BY <1>0, <2>1, <2>2, <2>3 DEF Traced, Before, Follows
<1> QED BY <1>1, <1>2, <1>3, <1>4, <1>5, <1>6 DEF Next

(* No number is lost: a protocol follows the last one committed, or one that   *)
(* no counter gave (the counter rolls back with its transaction).              *)
THEOREM ProtocolsSkipNone == Spec => NoneSkipped
<1>1. TypeOK /\ Held /\ Traced /\ [Next]_vars => (TypeOK /\ Held /\ Traced)'
  BY TypeStep, HeldStep, TracedStep
<1>2. Traced =>
        \A w \in Workers :
          Commit(w) =>
            LET k == tx[w].key IN
            \/ tx[w].number = counter[k] + 1
            \/ tx[w].number - 1 \in Ungiven(k)
            \/ counter[k] = 0 /\ k[1] = "PROC" /\ tx[w].number = ProcStart + 1
  BY DEF Traced, Follows, Commit
<1> QED BY <1>1, <1>2, TypeInit, HeldInit, TracedInit, PTL DEF Spec, NoneSkipped
=============================================================================
