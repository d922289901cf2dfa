---------------------------- MODULE LoginLimiter ----------------------------
(* The limit on login attempts of app/api/routes/auth.py: every server process *)
(* keeps in its memory, for each client address and username, the moments of   *)
(* the attempts it admitted.  enforce_login_rate_limit runs without an await;  *)
(* the account is read and the password verified after it, while other         *)
(* attempts come in; a success forgets the key.                                *)
EXTENDS Integers, Sequences

CONSTANTS
    Servers,        \* server processes, each with a memory of its own
    Keys,           \* "<client address>:<username>"
    Workers,        \* concurrent requests
    Limit,          \* LOGIN_MAX_ATTEMPTS
    Window,         \* LOGIN_WINDOW_SECONDS
    MaxTime         \* bound: the last moment of a behaviour

ASSUME LimitAssumption == Limit \in Nat \ {0}
ASSUME WindowAssumption == Window \in Nat /\ MaxTime \in Nat

VARIABLES
    now,            \* monotonic()
    attempts,       \* login_attempts[k] of server s, oldest first
    tx,             \* tx[w]: the login whose password is being verified
    admitted        \* history: the attempts admitted since the key was last forgotten

vars == <<now, attempts, tx, admitted>>

Idle == [pc |-> "idle"]
Logins == [pc : {"verify"}, server : Servers, key : Keys]

\* A mutant: the attempts that are one window old leave too early.
PoppedEarly(seq) ==
    {n \in 0..Len(seq) :
        /\ \A i \in 1..n : seq[i] <= now - Window + 1
        /\ n < Len(seq) => seq[n + 1] > now - Window + 1}

(* How many attempts the popleft loop removes, as a set of one number: it      *)
(* stops at the first attempt that is within the window.                       *)
Popped(seq) ==
    {n \in 0..Len(seq) :
        /\ \A i \in 1..n : seq[i] < now - Window
        /\ n < Len(seq) => seq[n + 1] >= now - Window}

Remaining(seq, n) == SubSeq(seq, n + 1, Len(seq))

(* The answer enforce_login_rate_limit would give now. *)
Refused(s, k) == \E n \in Popped(attempts[s][k]) : Len(attempts[s][k]) - n >= Limit

(* enforce_login_rate_limit, then the await of the account. *)
Admit(w) ==
    \E s \in Servers, k \in Keys : \E n \in Popped(attempts[s][k]) :
        /\ tx[w] = Idle
        /\ ~Refused(s, k)
        /\ attempts' = [attempts EXCEPT ![s][k] = Append(Remaining(attempts[s][k], n), now)]
        /\ admitted' = [admitted EXCEPT ![s][k] = Append(admitted[s][k], now)]
        /\ tx' = [tx EXCEPT ![w] = [pc |-> "verify", server |-> s, key |-> k]]
        /\ UNCHANGED now

\* A mutant: refused attempts count as attempts.
RefuseCounting(s, k) ==
    \E n \in Popped(attempts[s][k]) :
        /\ Refused(s, k)
        /\ attempts' = [attempts EXCEPT ![s][k] = Append(Remaining(attempts[s][k], n), now)]
        /\ UNCHANGED <<now, tx, admitted>>

(* 429: what left the window is forgotten all the same. *)
Refuse(s, k) ==
    \E n \in Popped(attempts[s][k]) :
        /\ Refused(s, k)
        /\ attempts' = [attempts EXCEPT ![s][k] = Remaining(attempts[s][k], n)]
        /\ UNCHANGED <<now, tx, admitted>>

(* The password is right and the account active: the key is forgotten, with    *)
(* the attempts that other requests have made meanwhile.                       *)
Succeed(w) ==
    LET s == tx[w].server
        k == tx[w].key
    IN /\ tx[w] # Idle
       /\ attempts' = [attempts EXCEPT ![s][k] = <<>>]
       /\ admitted' = [admitted EXCEPT ![s][k] = <<>>]
       /\ tx' = [tx EXCEPT ![w] = Idle]
       /\ UNCHANGED now

(* 401, or a request that dies before its answer. *)
Fail(w) ==
    /\ tx[w] # Idle
    /\ tx' = [tx EXCEPT ![w] = Idle]
    /\ UNCHANGED <<now, attempts, admitted>>

(* A server process ends, with its memory and its requests, and another takes  *)
(* its place.                                                                  *)
Restart(s) ==
    /\ attempts' = [attempts EXCEPT ![s] = [k \in Keys |-> <<>>]]
    /\ admitted' = [admitted EXCEPT ![s] = [k \in Keys |-> <<>>]]
    /\ tx' = [w \in Workers |-> IF tx[w] # Idle /\ tx[w].server = s THEN Idle ELSE tx[w]]
    /\ UNCHANGED now

Pass ==
    /\ now < MaxTime
    /\ now' = now + 1
    /\ UNCHANGED <<attempts, tx, admitted>>

Next ==
    \/ \E w \in Workers : Admit(w) \/ Succeed(w) \/ Fail(w)
    \/ \E s \in Servers, k \in Keys : Refuse(s, k)
    \/ \E s \in Servers : Restart(s)
    \/ Pass

Init ==
    /\ now = 0
    /\ attempts = [s \in Servers |-> [k \in Keys |-> <<>>]]
    /\ tx = [w \in Workers |-> Idle]
    /\ admitted = [s \in Servers |-> [k \in Keys |-> <<>>]]

Spec == Init /\ [][Next]_vars

-----------------------------------------------------------------------------
(* At most Limit attempts on a key are admitted by one server process in any   *)
(* window, between a success or a restart and the next, however many logins    *)
(* are being verified at once (auth.py:19-29): the attempt Limit places later  *)
(* comes after the window.                                                     *)
Limited ==
    \A s \in Servers, k \in Keys :
        LET seq == admitted[s][k] IN
        \A i \in 1..(Len(seq) - Limit) : seq[i + Limit] - seq[i] > Window

(* The Limit last attempts admitted on a key all lie in the window. *)
WindowFull(s, k) ==
    LET seq == admitted[s][k] IN
    Len(seq) >= Limit /\ seq[Len(seq) - Limit + 1] >= now - Window

(* At every moment a login would be refused exactly if Limit admitted attempts *)
(* lie in the window: a process never refuses one attempt early, nor lets one  *)
(* more in, and trying again while refused does not prolong the wait           *)
(* (auth.py:21-29), whatever was popped, forgotten or admitted before.         *)
RefusedExactlyWhenFull ==
    \A s \in Servers, k \in Keys : Refused(s, k) <=> WindowFull(s, k)
=============================================================================
