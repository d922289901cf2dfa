---------------------------- MODULE ProtocolCounter ----------------------------
(* How a protocol gets its number: next_process_code (PROC, media_assets.py),  *)
(* next_public_process_code (VEI, public_submissions.py) and                   *)
(* next_requirement_response_code (HESP, requirement_responses.py), inside the *)
(* transaction of the handler that stores it.                                  *)
(*                                                                             *)
(* Each reads the codes already stored, then increments the counter of its     *)
(* year with INSERT ... ON CONFLICT DO UPDATE, which waits for the row and     *)
(* keeps it until the transaction ends: what a rolled-back transaction took is *)
(* given again.  The row that carries the code is inserted and committed last. *)
EXTENDS Integers, FiniteSets

CONSTANTS
    Years,          \* years a request may fall in (UTC for PROC, Campo Grande otherwise)
    Workers,        \* concurrent requests
    ProcStart,      \* the number a year without PROC codes starts after: 100
    SeedNumbers,    \* the PROC numbers of SEED_ASSETS: 101..105
    SeedYear,       \* and their year: 2026
    InitialCodes,   \* codes stored before the counters existed
    MaxRequests     \* bound: requests over a behaviour

Series == {"PROC", "VEI", "HESP"}
Keys == Series \X Years
Codes == [key : Keys, number : Nat \ {0}]

ASSUME ProcStartAssumption == ProcStart \in Nat
ASSUME SeedAssumption == SeedNumbers \subseteq Nat \ {0} /\ SeedYear \in Years
ASSUME InitialCodesAssumption == InitialCodes \subseteq Codes
ASSUME MaxRequestsAssumption == MaxRequests \in Nat

VARIABLES
    stored,         \* codes in committed rows (media_assets, public_submission_drafts)
    counter,        \* counter[k]: last_value of the year's row, 0 when there is none
    tx,             \* tx[w]: the transaction of worker w
    requests,
    given           \* history: given[k], how many codes of k were committed

vars == <<stored, counter, tx, requests, given>>

Idle == [pc |-> "idle"]
(* format_protocol refuses a number below 1. *)
Allocations ==
    [pc : {"upsert"}, key : Keys, first : Nat \ {0}, number : {0}]
        \cup [pc : {"commit"}, key : Keys, first : Nat \ {0}, number : Nat \ {0}]
Seeding == [pc |-> "seed"]

SeedCodes == [key : {<<"PROC", SeedYear>>}, number : SeedNumbers]

Numbers(k) == {c.number : c \in {d \in stored : d.key = k}}
(* HESP codes live on drafts, the others on processes. *)
ProcessCodes == {c \in stored : c.key[1] # "HESP"}

Advance(w, t) == tx' = [tx EXCEPT ![w] = t]
Answer(w) == Advance(w, Idle)
Count == requests < MaxRequests /\ requests' = requests + 1

-----------------------------------------------------------------------------
(* max(existing_numbers, default=...) as a set of one element. *)
Greatest(k) ==
    LET default == IF k[1] = "PROC" THEN ProcStart ELSE 0
        numbers == IF Numbers(k) = {} THEN {default} ELSE Numbers(k)
    IN {m \in numbers : \A n \in numbers : n <= m}

(* SELECT process_code ... LIKE: the committed codes of this series and year. *)
Read(w) ==
    \E k \in Keys : \E greatest \in Greatest(k) :
        /\ tx[w] = Idle
        /\ Count
        /\ Advance(w, [pc |-> "upsert", key |-> k, first |-> greatest + 1, number |-> 0])
        /\ UNCHANGED <<stored, counter, given>>

\* A mutant: the row is not locked.
CounterFreeUnlocked(k) == TRUE

CounterFree(k) == \A w \in Workers : ~(tx[w].pc = "commit" /\ tx[w].key = k)

Larger(m, n) == IF m < n THEN n ELSE m

\* A mutant: GREATEST(last_value, first_value) + 1.
NextValueSkipping(k, first) ==
    IF counter[k] = 0 THEN first ELSE Larger(counter[k], first) + 1

\* A mutant: the counter ignores the codes stored before it.
NextValueFromCounter(k, first) == counter[k] + 1

\* A mutant: the first value is the greatest itself.
NextValueOffByOne(k, first) == IF counter[k] = 0 THEN first - 1 ELSE counter[k] + 1

(* The value RETURNING gives: first_value when the row is new; otherwise       *)
(* last_value + 1, which VEI and HESP never let fall behind first_value.       *)
NextValue(k, first) ==
    IF counter[k] = 0 THEN first
    ELSE IF k[1] = "PROC" THEN counter[k] + 1 ELSE Larger(counter[k], first - 1) + 1

Upsert(w) ==
    LET t == tx[w] IN
    /\ t.pc = "upsert"
    /\ CounterFree(t.key)
    /\ Advance(w, [t EXCEPT !.pc = "commit", !.number = NextValue(t.key, t.first)])
    /\ UNCHANGED <<stored, counter, requests, given>>

CodeOf(t) == [key |-> t.key, number |-> t.number]

(* process_code is unique among processes; a draft's is not. *)
Unique(t) == t.key[1] # "HESP" => CodeOf(t) \notin stored

(* The row is inserted (for HESP, the draft updated) and all of it commits. *)
Commit(w) ==
    LET t == tx[w] IN
    /\ t.pc = "commit"
    /\ Unique(t)
    /\ stored' = stored \cup {CodeOf(t)}
    /\ counter' = [counter EXCEPT ![t.key] = t.number]
    /\ given' = [given EXCEPT ![t.key] = @ + 1]
    /\ Answer(w)
    /\ UNCHANGED requests

(* IntegrityError on the unique index, a later error of the handler, a lost    *)
(* connection: everything rolls back, the counter too.                         *)
Abort(w) ==
    /\ tx[w] # Idle
    /\ Answer(w)
    /\ UNCHANGED <<stored, counter, requests, given>>

(* delete_media_asset and delete_application_form; drafts are never deleted. *)
Remove ==
    \E c \in ProcessCodes :
        /\ stored' = stored \ {c}
        /\ UNCHANGED <<counter, tx, requests, given>>

(* seed(): returns unless media_assets is empty, then inserts SEED_ASSETS with *)
(* their fixed codes, past every counter.                                      *)
SeedRead(w) ==
    /\ tx[w] = Idle
    /\ Count
    /\ ProcessCodes = {}
    /\ Advance(w, Seeding)
    /\ UNCHANGED <<stored, counter, given>>

SeedCommit(w) ==
    /\ tx[w] = Seeding
    /\ SeedCodes \cap stored = {}
    /\ stored' = stored \cup SeedCodes
    /\ Answer(w)
    /\ UNCHANGED <<counter, requests, given>>

-----------------------------------------------------------------------------
Init ==
    /\ stored \in SUBSET InitialCodes
    /\ counter = [k \in Keys |-> 0]
    /\ tx = [w \in Workers |-> Idle]
    /\ requests = 0
    /\ given = [k \in Keys |-> 0]

Next ==
    \/ Remove
    \/ \E w \in Workers :
        \/ Read(w) \/ Upsert(w) \/ Commit(w) \/ Abort(w)
        \/ SeedRead(w) \/ SeedCommit(w)

Spec == Init /\ [][Next]_vars

-----------------------------------------------------------------------------
(* Every variable has its type. *)
TypeOK ==
    /\ stored \subseteq Codes
    /\ counter \in [Keys -> Nat]
    /\ tx \in [Workers -> {Idle, Seeding} \cup Allocations]
    /\ requests \in 0..MaxRequests
    /\ given \in [Keys -> Nat]

(* No number is ever handed out twice, however many requests overlap or roll   *)
(* back and whatever is removed meanwhile (public_submissions.py:292-300,      *)
(* requirement_responses.py:128-136, media_assets.py:167-175).  HESP has no    *)
(* unique index behind it.                                                     *)
Sequence == INSTANCE ProtocolSequence WITH last <- counter
NeverTwice == Sequence!Spec

(* A VEI or HESP protocol is greater than every one its year has, those of     *)
(* rows older than the counter too (README.md:35).                             *)
ContinuesFromGreatest ==
    [][\A w \in Workers :
        Commit(w) /\ tx[w].key[1] # "PROC" =>
            \A n \in Numbers(tx[w].key) : n < tx[w].number]_vars

(* No number is lost to a request that rolled back: a protocol follows         *)
(* immediately the last one committed, or one that no counter gave.            *)
Ungiven(k) == {c.number : c \in {d \in InitialCodes \cup SeedCodes : d.key = k}}
NoneSkipped ==
    [][\A w \in Workers :
        Commit(w) =>
            LET k == tx[w].key IN
            \/ tx[w].number = counter[k] + 1
            \/ tx[w].number - 1 \in Ungiven(k)
            \/ counter[k] = 0 /\ k[1] = "PROC" /\ tx[w].number = ProcStart + 1]_vars
=============================================================================
