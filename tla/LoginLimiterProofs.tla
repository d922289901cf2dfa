------------------------- MODULE LoginLimiterProofs -------------------------
(* Proofs about LoginLimiter, for any number of server processes, keys and     *)
(* concurrent logins, and for any limit and window.                            *)
EXTENDS LoginLimiter, TLAPS

TypeOK ==
    /\ now \in Nat
    /\ attempts \in [Servers -> [Keys -> Seq(Nat)]]
    /\ admitted \in [Servers -> [Keys -> Seq(Nat)]]
    /\ tx \in [Workers -> {Idle} \cup Logins]

(* What a process remembers is the end of what it admitted, no longer than the *)
(* limit, and what it forgot lies before the window.                           *)
Remembered(kept, all, at) ==
    /\ Len(kept) <= Len(all)
    /\ Len(kept) <= Limit
    /\ \A j \in 1..Len(kept) : kept[j] = all[Len(all) - Len(kept) + j]
    /\ \A i \in 1..(Len(all) - Len(kept)) : all[i] < at - Window
    /\ \A i \in 1..(Len(all) - Limit) : all[i + Limit] - all[i] > Window

Inv == TypeOK /\ \A s \in Servers, k \in Keys : Remembered(attempts[s][k], admitted[s][k], now)

-----------------------------------------------------------------------------
(* The popleft loop forgets only what has left the window. *)
LEMMA PoppingRemembers ==
    ASSUME now \in Nat, NEW kept \in Seq(Nat), NEW all \in Seq(Nat), Remembered(kept, all, now),
           NEW n \in Popped(kept)
    PROVE  /\ Remaining(kept, n) \in Seq(Nat)
           /\ Len(Remaining(kept, n)) = Len(kept) - n
           /\ Remembered(Remaining(kept, n), all, now)
<1> DEFINE left == Remaining(kept, n)
           gone == Len(all) - Len(left)
<1>1. n \in 0..Len(kept) /\ \A i \in 1..n : kept[i] < now - Window
  BY DEF Popped
<1>2. /\ left \in Seq(Nat)
      /\ Len(left) = Len(kept) - n
      /\ \A j \in 1..Len(left) : left[j] = kept[n + j]
  BY <1>1 DEF Remaining
<1>3. ASSUME NEW j \in 1..Len(left)
      PROVE  left[j] = all[gone + j]
  <2>1. n + j \in 1..Len(kept) /\ gone + j = Len(all) - Len(kept) + (n + j)
    BY <1>1, <1>2
  <2> QED BY <1>2, <2>1 DEF Remembered
<1>4. ASSUME NEW i \in 1..gone
      PROVE  all[i] < now - Window
  <2>1. CASE i <= Len(all) - Len(kept)
    BY <2>1 DEF Remembered
  <2>2. CASE i > Len(all) - Len(kept)
    <3> DEFINE j == i - (Len(all) - Len(kept))
    <3>1. j \in 1..n /\ j \in 1..Len(kept) /\ Len(all) - Len(kept) + j = i
      BY <1>1, <1>2, <2>2
    <3>2. all[i] = kept[j]
      BY <3>1 DEF Remembered
    <3> QED BY <1>1, <3>1, <3>2
  <2> QED BY <1>1, <1>2, <2>1, <2>2
<1>5. Len(left) <= Len(all) /\ Len(left) <= Limit
  BY <1>1, <1>2, LimitAssumption DEF Remembered
<1> QED
  <2>1. \A i \in 1..(Len(all) - Limit) : all[i + Limit] - all[i] > Window
    BY DEF Remembered
  <2> QED BY <1>2, <1>3, <1>4, <1>5, <2>1 DEF Remembered

(* An admitted attempt is remembered: Limit attempts before it the history was *)
(* forgotten, hence before the window.                                         *)
LEMMA AdmittingRemembers ==
    ASSUME now \in Nat, NEW kept \in Seq(Nat), NEW all \in Seq(Nat), Remembered(kept, all, now),
           Len(kept) < Limit
    PROVE  Remembered(Append(kept, now), Append(all, now), now)
<1> DEFINE longer == Append(kept, now)
           history == Append(all, now)
<1>1. /\ Len(kept) \in Nat /\ Len(all) \in Nat /\ Limit \in Nat /\ Limit >= 1
      /\ Len(longer) = Len(kept) + 1 /\ Len(history) = Len(all) + 1
      /\ \A i \in 1..Len(all) : history[i] = all[i]
      /\ history[Len(all) + 1] = now
      /\ \A j \in 1..Len(kept) : longer[j] = kept[j]
      /\ longer[Len(kept) + 1] = now
  BY LimitAssumption
<1>2. Len(kept) <= Len(all) /\ Len(longer) <= Limit
  BY <1>1 DEF Remembered
<1> HIDE DEF longer, history
<1>3. ASSUME NEW j \in 1..Len(longer)
      PROVE  longer[j] = history[Len(history) - Len(longer) + j]
  <2>1. CASE j = Len(kept) + 1
    BY <1>1, <2>1
  <2>2. CASE j \in 1..Len(kept)
    <3>1. Len(all) - Len(kept) + j \in 1..Len(all)
      BY <1>2, <2>2
    <3>2. kept[j] = all[Len(all) - Len(kept) + j]
      BY <2>2 DEF Remembered
    <3>3. Len(history) - Len(longer) + j = Len(all) - Len(kept) + j
      BY <1>1
    <3> QED BY <1>1, <2>2, <3>1, <3>2, <3>3
  <2> QED BY <1>1, <2>1, <2>2
<1>4. ASSUME NEW i \in 1..(Len(all) - Len(kept))
      PROVE  i \in 1..Len(all) /\ history[i] < now - Window
  BY <1>1, <1>2 DEF Remembered
<1>5. ASSUME NEW i \in 1..(Len(history) - Limit)
      PROVE  history[i + Limit] - history[i] > Window
  <2>1. i \in Int /\ 1 <= i /\ i + Limit <= Len(all) + 1
    BY <1>1
  <2> DEFINE last == i + Limit
  <2>2. last \in Int /\ Len(all) + 1 \in Int /\ last <= Len(all) + 1
    BY <1>1, <2>1
  <2>3. CASE i + Limit = Len(all) + 1
    <3>1. i \in 1..(Len(all) - Len(kept))
      BY <1>1, <2>1, <2>3
    <3>2. history[i + Limit] = now /\ history[i] < now - Window
      BY <1>1, <1>4, <2>3, <3>1
    <3>3. i \in 1..Len(all) /\ history[i] = all[i]
      BY <1>1, <1>4, <3>1
    <3>4. all[i] \in Nat
      BY <3>3
    <3> QED BY <2>3, <3>2, <3>3, <3>4, WindowAssumption
  <2>4. CASE i + Limit < Len(all) + 1
    <3>1. i \in 1..(Len(all) - Limit) /\ i \in 1..Len(all) /\ i + Limit \in 1..Len(all)
      BY <1>1, <2>1, <2>4
    <3>2. all[i + Limit] - all[i] > Window
      BY <3>1 DEF Remembered
    <3> QED BY <1>1, <3>1, <3>2
  <2>5. last = Len(all) + 1 \/ last < Len(all) + 1
    <3> HIDE DEF last
    <3> QED BY <2>2
  <2> QED BY <2>3, <2>4, <2>5
<1> QED
  <2>1. Len(history) - Len(longer) = Len(all) - Len(kept)
    BY <1>1
  <2>2. Len(longer) <= Len(history)
    BY <1>1, <1>2
  <2>3. \A i \in 1..(Len(history) - Len(longer)) : history[i] < now - Window
    BY <1>4, <2>1
  <2>4. Remembered(longer, history, now)
    BY <1>2, <1>3, <1>5, <2>2, <2>3 DEF Remembered
  <2> QED BY <2>4 DEF longer, history

LEMMA NothingRemembered == ASSUME now \in Nat PROVE Remembered(<<>>, <<>>, now)
BY LimitAssumption DEF Remembered

(* As time passes, what was before the window stays before it. *)
LEMMA PassingRemembers ==
    ASSUME now \in Nat, NEW kept \in Seq(Nat), NEW all \in Seq(Nat), Remembered(kept, all, now)
    PROVE  Remembered(kept, all, now + 1)
<1>1. ASSUME NEW i \in 1..(Len(all) - Len(kept))
      PROVE  all[i] < now + 1 - Window
  <2>1. i \in 1..Len(all) /\ all[i] < now - Window
    BY DEF Remembered
  <2> QED BY <2>1, WindowAssumption
<1>2. /\ Len(kept) <= Len(all) /\ Len(kept) <= Limit
      /\ \A j \in 1..Len(kept) : kept[j] = all[Len(all) - Len(kept) + j]
      /\ \A i \in 1..(Len(all) - Limit) : all[i + Limit] - all[i] > Window
  BY DEF Remembered
<1>3. \A i \in 1..(Len(all) - Len(kept)) : all[i] < now + 1 - Window
  BY <1>1
<1> DEFINE later == now + 1
<1> HIDE DEF later
<1>4. \A i \in 1..(Len(all) - Len(kept)) : all[i] < later - Window
  BY <1>3, WindowAssumption DEF later
<1>5. Remembered(kept, all, later)
  BY <1>2, <1>4 DEF Remembered
<1> QED BY <1>5 DEF later

-----------------------------------------------------------------------------
LEMMA LimiterInit == Init => Inv
<1> SUFFICES ASSUME Init PROVE Inv
  OBVIOUS
<1>1. TypeOK
  BY DEF Init, TypeOK, Idle, Logins
<1>2. ASSUME NEW s \in Servers, NEW k \in Keys
      PROVE  Remembered(attempts[s][k], admitted[s][k], now)
  BY NothingRemembered, <1>1 DEF Init, TypeOK
<1> QED BY <1>1, <1>2 DEF Inv

LEMMA LimiterStep == Inv /\ [Next]_vars => Inv'
<1> SUFFICES ASSUME Inv, [Next]_vars PROVE Inv'
  OBVIOUS
<1> DEFINE Kept(s, k) == Remembered(attempts[s][k], admitted[s][k], now)
<1>0. /\ TypeOK
      /\ \A s \in Servers, k \in Keys : /\ attempts[s][k] \in Seq(Nat)
                                        /\ admitted[s][k] \in Seq(Nat)
                                        /\ Kept(s, k)
  BY DEF Inv, TypeOK
<1>1. ASSUME NEW w \in Workers, Admit(w) PROVE Inv'
  <2>0. PICK s \in Servers, k \in Keys : \E n \in Popped(attempts[s][k]) :
           /\ ~Refused(s, k)
           /\ attempts' = [attempts EXCEPT ![s][k] = Append(Remaining(attempts[s][k], n), now)]
           /\ admitted' = [admitted EXCEPT ![s][k] = Append(admitted[s][k], now)]
           /\ tx' = [tx EXCEPT ![w] = [pc |-> "verify", server |-> s, key |-> k]]
           /\ now' = now
    BY <1>1 DEF Admit
  <2>1. PICK n \in Popped(attempts[s][k]) :
           /\ ~Refused(s, k)
           /\ attempts' = [attempts EXCEPT ![s][k] = Append(Remaining(attempts[s][k], n), now)]
           /\ admitted' = [admitted EXCEPT ![s][k] = Append(admitted[s][k], now)]
           /\ tx' = [tx EXCEPT ![w] = [pc |-> "verify", server |-> s, key |-> k]]
           /\ now' = now
    BY <2>0
  <2> DEFINE left == Remaining(attempts[s][k], n)
  <2>2. left \in Seq(Nat) /\ Len(left) < Limit /\ Remembered(left, admitted[s][k], now)
    <3>1. Len(attempts[s][k]) \in Nat /\ n \in 0..Len(attempts[s][k])
      BY <1>0 DEF Popped
    <3>2. Len(attempts[s][k]) - n < Limit
      BY <2>1, <3>1, LimitAssumption DEF Refused
    <3> QED BY <1>0, <2>1, <3>2, PoppingRemembers DEF TypeOK
  <2>3. Remembered(Append(left, now), Append(admitted[s][k], now), now)
    BY <1>0, <2>2, AdmittingRemembers DEF TypeOK
  <2>4. TypeOK'
    BY <1>0, <2>1, <2>2 DEF TypeOK, Logins
  <2>5. ASSUME NEW r \in Servers, NEW j \in Keys PROVE Kept(r, j)'
    <3>1. CASE r = s /\ j = k
      BY <1>0, <2>1, <2>3, <3>1 DEF TypeOK
    <3>2. CASE ~(r = s /\ j = k)
      BY <1>0, <2>1, <3>2 DEF TypeOK
    <3> QED BY <3>1, <3>2
  <2> QED BY <2>4, <2>5 DEF Inv
<1>2. ASSUME NEW w \in Workers, Succeed(w) PROVE Inv'
  <2> DEFINE s == tx[w].server
             k == tx[w].key
  <2>1. /\ attempts' = [attempts EXCEPT ![s][k] = <<>>]
        /\ admitted' = [admitted EXCEPT ![s][k] = <<>>]
        /\ tx' = [tx EXCEPT ![w] = Idle]
        /\ now' = now
    BY <1>2 DEF Succeed
  <2>2. TypeOK'
    <3>1. s \in Servers /\ k \in Keys
      BY <1>0, <1>2 DEF Succeed, TypeOK, Logins
    <3> HIDE DEF s, k
    <3>2. /\ attempts' \in [Servers -> [Keys -> Seq(Nat)]]
          /\ admitted' \in [Servers -> [Keys -> Seq(Nat)]]
      BY <1>0, <2>1, <3>1 DEF TypeOK
    <3>3. tx' \in [Workers -> {Idle} \cup Logins]
      BY <1>0, <2>1 DEF TypeOK
    <3> QED BY <1>0, <2>1, <3>2, <3>3 DEF TypeOK
  <2>3. Remembered(<<>>, <<>>, now)
    BY <1>0, NothingRemembered DEF TypeOK
  <2>4. ASSUME NEW r \in Servers, NEW j \in Keys PROVE Kept(r, j)'
    <3>1. CASE r = s /\ j = k
      BY <1>0, <2>1, <2>3, <3>1 DEF TypeOK
    <3>2. CASE ~(r = s /\ j = k)
      BY <1>0, <2>1, <3>2 DEF TypeOK
    <3> QED BY <3>1, <3>2
  <2> QED BY <2>2, <2>4 DEF Inv
<1>3. ASSUME NEW w \in Workers, Fail(w) PROVE Inv'
  BY <1>0, <1>3 DEF Fail, Inv, TypeOK
<1>4. ASSUME NEW s \in Servers, NEW k \in Keys, Refuse(s, k) PROVE Inv'
  <2>1. PICK n \in Popped(attempts[s][k]) :
           /\ attempts' = [attempts EXCEPT ![s][k] = Remaining(attempts[s][k], n)]
           /\ now' = now /\ tx' = tx /\ admitted' = admitted
    BY <1>4 DEF Refuse
  <2> DEFINE left == Remaining(attempts[s][k], n)
  <2>2. left \in Seq(Nat) /\ Remembered(left, admitted[s][k], now)
    BY <1>0, <2>1, PoppingRemembers DEF TypeOK
  <2>3. TypeOK'
    BY <1>0, <2>1, <2>2 DEF TypeOK
  <2>4. ASSUME NEW r \in Servers, NEW j \in Keys PROVE Kept(r, j)'
    <3>1. CASE r = s /\ j = k
      BY <1>0, <2>1, <2>2, <3>1 DEF TypeOK
    <3>2. CASE ~(r = s /\ j = k)
      BY <1>0, <2>1, <3>2 DEF TypeOK
    <3> QED BY <3>1, <3>2
  <2> QED BY <2>3, <2>4 DEF Inv
<1>5. ASSUME NEW s \in Servers, Restart(s) PROVE Inv'
  <2>1. /\ attempts' = [attempts EXCEPT ![s] = [k \in Keys |-> <<>>]]
        /\ admitted' = [admitted EXCEPT ![s] = [k \in Keys |-> <<>>]]
        /\ tx' = [w \in Workers |-> IF tx[w] # Idle /\ tx[w].server = s THEN Idle ELSE tx[w]]
        /\ now' = now
    BY <1>5 DEF Restart
  <2>2. TypeOK'
    BY <1>0, <2>1 DEF TypeOK
  <2>3. Remembered(<<>>, <<>>, now)
    BY <1>0, NothingRemembered DEF TypeOK
  <2>4. ASSUME NEW r \in Servers, NEW j \in Keys PROVE Kept(r, j)'
    <3>1. CASE r = s
      BY <1>0, <2>1, <2>3, <3>1 DEF TypeOK
    <3>2. CASE r # s
      BY <1>0, <2>1, <3>2 DEF TypeOK
    <3> QED BY <3>1, <3>2
  <2> QED BY <2>2, <2>4 DEF Inv
<1>6. ASSUME Pass PROVE Inv'
  <2>1. now' = now + 1 /\ attempts' = attempts /\ admitted' = admitted /\ tx' = tx
    BY <1>6 DEF Pass
  <2>2. TypeOK'
    BY <1>0, <2>1 DEF TypeOK
  <2>3. ASSUME NEW r \in Servers, NEW j \in Keys PROVE Kept(r, j)'
    <3>1. Remembered(attempts[r][j], admitted[r][j], now + 1)
      BY <1>0, PassingRemembers DEF TypeOK
    <3> QED BY <2>1, <3>1
  <2> QED BY <2>2, <2>3 DEF Inv
<1>7. ASSUME UNCHANGED vars PROVE Inv'
  BY <1>0, <1>7 DEF vars, Inv, TypeOK
<1> QED BY <1>1, <1>2, <1>3, <1>4, <1>5, <1>6, <1>7 DEF Next

LEMMA AlwaysRemembered == Spec => []Inv
BY LimiterInit, LimiterStep, PTL DEF Spec

(* For any limit and window, and however many logins a server process verifies *)
(* at once, no window holds more admitted attempts on a key than the limit.    *)
THEOREM LoginsLimited == Spec => []Limited
<1>1. Inv => Limited
  BY DEF Inv, Limited, Remembered
<1> QED BY <1>1, AlwaysRemembered, PTL

(* A login is refused exactly while Limit admitted attempts lie in the window. *)
(* Refused: no more than Limit are remembered, so none was popped, and the     *)
(* oldest of them is the Limit-th last admitted.  Full: what was forgotten     *)
(* lies before the window, so these Limit are still remembered.                *)
THEOREM LoginsRefusedExactlyWhenFull == Spec => []RefusedExactlyWhenFull
<1>1. ASSUME Inv, NEW s \in Servers, NEW k \in Keys
      PROVE  Refused(s, k) <=> WindowFull(s, k)
  <2> DEFINE kept == attempts[s][k]
             all == admitted[s][k]
             first == Len(all) - Limit + 1
  <2>1. /\ kept \in Seq(Nat) /\ all \in Seq(Nat) /\ Remembered(kept, all, now)
        /\ now \in Nat /\ Limit \in Nat /\ Limit >= 1 /\ Window \in Nat
    BY <1>1, LimitAssumption, WindowAssumption DEF Inv, TypeOK
  <2>2. ASSUME Refused(s, k) PROVE WindowFull(s, k)
    <3>1. PICK n \in Popped(kept) : Len(kept) - n >= Limit
      BY <2>2 DEF Refused
    <3>2. n = 0 /\ Len(kept) = Limit
      BY <2>1, <3>1 DEF Popped, Remembered
    <3>3. kept[1] >= now - Window
      BY <2>1, <3>2 DEF Popped
    <3>4. kept[1] = all[first] /\ Len(all) >= Limit
      BY <2>1, <3>2 DEF Remembered
    <3> QED BY <3>3, <3>4 DEF WindowFull
  <2>3. ASSUME WindowFull(s, k) PROVE Refused(s, k)
    <3>1. Len(all) >= Limit /\ all[first] >= now - Window
      BY <2>3 DEF WindowFull
    <3>2. /\ Len(all) \in Nat /\ Len(kept) \in Nat
          /\ first \in Nat /\ 1 <= first /\ first <= Len(all)
      BY <2>1, <3>1
    <3> HIDE DEF first
    <3>3. all[first] \in Nat
      BY <2>1, <3>2
    <3>4. Len(kept) = Limit
      <4>1. Len(kept) <= Limit
        BY <2>1 DEF Remembered
      <4>2. ASSUME Len(kept) < Limit PROVE FALSE
        <5>1. first \in 1..(Len(all) - Len(kept))
          <6>1. first = Len(all) - Limit + 1
            BY DEF first
          <6>2. first <= Len(all) - Len(kept)
            <7>1. \A total, few, most \in Int : few < most => total - most + 1 <= total - few
              OBVIOUS
            <7>2. Len(all) \in Int /\ Len(kept) \in Int /\ Limit \in Int
              BY <2>1, <3>2
            <7> QED BY <4>2, <6>1, <7>1, <7>2
          <6>3. Len(all) - Len(kept) \in Int
            BY <3>2
          <6> QED BY <3>2, <6>2, <6>3
        <5>2. all[first] < now - Window
          BY <2>1, <5>1 DEF Remembered
        <5> QED BY <2>1, <3>1, <3>3, <5>2
      <4> QED BY <2>1, <3>2, <4>1, <4>2
    <3>5. kept[1] = all[first]
      <4>1. 1 \in 1..Len(kept) /\ Len(all) - Len(kept) + 1 = first
        BY <2>1, <3>2, <3>4 DEF first
      <4> QED BY <2>1, <4>1 DEF Remembered
    <3>6. 0 \in Popped(kept)
      BY <2>1, <3>1, <3>2, <3>4, <3>5 DEF Popped
    <3> QED BY <2>1, <3>4, <3>6 DEF Refused
  <2> QED BY <2>2, <2>3
<1>2. Inv => RefusedExactlyWhenFull
  BY <1>1 DEF RefusedExactlyWhenFull
<1> QED BY <1>2, AlwaysRemembered, PTL
=============================================================================
