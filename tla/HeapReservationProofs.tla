----------------------- MODULE HeapReservationProofs -----------------------
(***************************************************************************)
(* Proofs about HeapReservation for every value of its constants: the      *)
(* arithmetic of pages, and the capacity of a memory.                      *)
(***************************************************************************)
EXTENDS HeapReservation, TLAPS

-----------------------------------------------------------------------------
(***************************************************************************)
(* Multiples of a page size O: what is a whole number of pages stays one,  *)
(* and rounding it up to pages changes nothing.                            *)
(***************************************************************************)
\* A multiple of O is O times something.
LEMMA MultipleIs ==
  ASSUME NEW O \in Nat \ {0}, NEW n \in Nat, n % O = 0
  PROVE  \E k \in Nat : n = k * O
PROOF
<1>1. n \div O \in Nat /\ n = (n \div O) * O + (n % O)
  OBVIOUS
<1>2. n = (n \div O) * O
  BY <1>1
<1> QED
  BY <1>1, <1>2

\* And the other way round.
LEMMA IsMultipleOf ==
  ASSUME NEW O \in Nat \ {0}, NEW k \in Nat
  PROVE  (k * O) % O = 0
PROOF
<1> DEFINE n == k * O
           q == n \div O
           r == n % O
<1>1. n \in Nat
  OBVIOUS
<1>2. q \in Nat /\ r \in 0 .. O - 1 /\ n = q * O + r
  BY <1>1
<1>3. (k - q) * O = r
  BY <1>2
<1>4. k - q = 0
  <2>1. CASE k - q >= 1
    <3>1. (k - q) * O >= O
      BY <2>1, <1>2
    <3> QED BY <3>1, <1>2, <1>3
  <2>2. CASE k - q <= -1
    <3>1. (k - q) * O <= -O
      BY <2>2, <1>2
    <3> QED BY <3>1, <1>2, <1>3
  <2> QED BY <2>1, <2>2, <1>2
<1> QED
  BY <1>3, <1>4, <1>2

\* Sums and differences of whole pages are whole pages.
LEMMA SumOfMultiples ==
  ASSUME NEW O \in Nat \ {0}, NEW x \in Nat, NEW y \in Nat, x % O = 0, y % O = 0
  PROVE  (x + y) % O = 0 /\ (x >= y => (x - y) % O = 0)
PROOF
<1>1. PICK k \in Nat : x = k * O
  BY MultipleIs
<1>2. PICK l \in Nat : y = l * O
  BY MultipleIs
<1>3. x + y = (k + l) * O
  BY <1>1, <1>2
<1>4. (x + y) % O = 0
  BY <1>3, IsMultipleOf, k + l \in Nat
<1>5. ASSUME x >= y PROVE (x - y) % O = 0
  <2>1. x - y = (k - l) * O
    BY <1>1, <1>2
  <2>2. k - l \in Nat
    <3>1. CASE k - l <= -1
      <4>1. (k - l) * O <= -O
        BY <3>1
      <4> QED BY <4>1, <2>1, <1>5
    <3> QED BY <3>1
  <2> QED BY <2>1, <2>2, IsMultipleOf
<1> QED
  BY <1>4, <1>5

\* So are products.
LEMMA ProductOfMultiple ==
  ASSUME NEW O \in Nat \ {0}, NEW x \in Nat, NEW k \in Nat, x % O = 0
  PROVE  (k * x) % O = 0
PROOF
<1>1. PICK l \in Nat : x = l * O
  BY MultipleIs
<1>2. k * x = (k * l) * O
  BY <1>1
<1> QED
  BY <1>2, IsMultipleOf, k * l \in Nat

\* So is a size truncated to an integer width that is a multiple of a page.
LEMMA RemainderOfMultiples ==
  ASSUME NEW O \in Nat \ {0}, NEW x \in Nat, NEW S \in Nat \ {0}, x % O = 0, S % O = 0
  PROVE  (x % S) % O = 0
PROOF
<1> DEFINE q == x \div S
           r == x % S
           p == q * S
<1>1. q \in Nat /\ p \in Nat /\ r \in Nat /\ x = p + r
  OBVIOUS
<1> HIDE DEF q
<1>2. p % O = 0
  BY <1>1, ProductOfMultiple
<1> HIDE DEF p, r
<1>3. r = x - p /\ x >= p
  BY <1>1
<1>4. (x - p) % O = 0
  BY <1>1, <1>2, <1>3, SumOfMultiples
<1> QED
  BY <1>3, <1>4 DEF r

\* request_size of os_mmap and os_munmap is the size itself, for whole pages.
LEMMA RoundUpMultiple ==
  ASSUME NEW O \in Nat \ {0}, NEW n \in Nat, n % O = 0
  PROVE  ((n + O - 1) \div O) * O = n
PROOF
<1>1. PICK k \in Nat : n = k * O
  BY MultipleIs
<1> DEFINE m == n + O - 1
           q == m \div O
<1>2. m \in Nat /\ q \in Nat /\ m = q * O + (m % O) /\ m % O \in 0 .. O - 1
  OBVIOUS
<1> DEFINE r == m % O
<1>3. q \in Nat /\ r \in 0 .. O - 1 /\ n + O - 1 = q * O + r
  BY <1>2
<1> HIDE DEF q, r
<1>7. (k - q) * O = k * O - q * O
  BY <1>3
<1>8. (k - q) * O = r - (O - 1)
  BY <1>1, <1>3, <1>7
<1>4. CASE k - q >= 1
  <2>1. (k - q) * O >= O
    BY <1>4, <1>3
  <2> QED BY <2>1, <1>3, <1>8
<1>5. CASE k - q <= -1
  <2>1. (k - q) * O <= -O
    BY <1>5, <1>3
  <2> QED BY <2>1, <1>3, <1>8
<1>6. CASE k - q = 0
  BY <1>1, <1>3, <1>6 DEF q
<1> QED
  BY <1>3, <1>4, <1>5, <1>6

-----------------------------------------------------------------------------
(***************************************************************************)
(* The capacity that is computed                                           *)
(***************************************************************************)
\* A quotient by P - 1 rounded up: q pages of P - 1 bytes and one more hold
\* n + 1 bytes.
LEMMA RoundedUpQuotient ==
  ASSUME NEW n \in Nat, NEW P \in Nat, P > 1
  PROVE  /\ (n \div (P - 1)) + 1 \in Nat
         /\ ((n \div (P - 1)) + 1) * P >= n + 1
PROOF
<1> DEFINE d == P - 1
           q == n \div d
<1>1. d \in Nat /\ d > 0
  OBVIOUS
<1>2. q \in Nat /\ n = q * d + (n % d) /\ n % d \in 0 .. d - 1
  BY <1>1
<1> HIDE DEF q
<1>3. (q + 1) * P = q * d + d + q + 1
  BY <1>1, <1>2
<1> QED
  BY <1>1, <1>2, <1>3 DEF q

\* A valid capacity has the pages that were asked for.
LEMMA ValidCapacityHolds ==
  ASSUME NEW min \in Nat, get_valid_wasm2c_memory_capacity(min).is_valid
  PROVE  /\ get_valid_wasm2c_memory_capacity(min).max_pages \in Nat
         /\ get_valid_wasm2c_memory_capacity(min).max_pages * WASM_PAGE_SIZE >= min
PROOF
<1> DEFINE capacity == get_valid_wasm2c_memory_capacity(min)
<1>1. /\ WASM_PAGE_SIZE \in Nat /\ WASM_PAGE_SIZE > 1
      /\ WASM_HEAP_DEFAULT_MAX_PAGES \in Nat /\ UINT32_MAX \in Nat
  BY HeapReservationAssumption
<1>2. CASE min <= DefaultCapacity
  <2>1. capacity.max_pages = WASM_HEAP_DEFAULT_MAX_PAGES
    BY <1>2 DEF get_valid_wasm2c_memory_capacity
  <2> QED
    BY <1>1, <1>2, <2>1 DEF DefaultCapacity
<1>3. CASE ~(min <= DefaultCapacity)
  <2>1. DefaultCapacity \in Nat
    BY <1>1 DEF DefaultCapacity
  <2>2. min > DefaultCapacity /\ min - 1 \in Nat
    BY <1>3, <2>1
  <2>3. ~(min > UINT32_MAX)
    BY <1>3, <2>2 DEF get_valid_wasm2c_memory_capacity
  <2>4. capacity.max_pages = (min - 1) \div (WASM_PAGE_SIZE - 1) + 1
    BY <1>3, <2>3 DEF get_valid_wasm2c_memory_capacity
  <2>5. /\ ((min - 1) \div (WASM_PAGE_SIZE - 1)) + 1 \in Nat
        /\ (((min - 1) \div (WASM_PAGE_SIZE - 1)) + 1) * WASM_PAGE_SIZE >= (min - 1) + 1
    BY <1>1, <2>2, RoundedUpQuotient
  <2> QED
    BY <2>4, <2>5
<1> QED
  BY <1>2, <1>3

-----------------------------------------------------------------------------
(***************************************************************************)
(* Capacities.  A capacity never changes between the create that computed  *)
(* it and the return of that create or the destroy of its memory, so the   *)
(* invariant speaks of every thread that is in a call, not of live ones.   *)
(***************************************************************************)
CapacityInv ==
  /\ pc \in [Threads -> Stages]
  /\ min_capacity \in [Threads -> Nat]
  /\ max_pages \in [Threads -> Nat]
  /\ \A t \in Threads :
       pc[t] # "idle" => max_pages[t] * WASM_PAGE_SIZE >= min_capacity[t]

USE DEF Stages

\* A thread that leaves its call leaves the capacities of the others alone.
LEMMA ReturnKeepsCapacities ==
  ASSUME CapacityInv, NEW t \in Threads, Return(t)
  PROVE  CapacityInv'
PROOF
  BY DEF CapacityInv, Return, Goto

\* So does a step that keeps the arguments of its thread and stays in its call.
LEMMA MoveKeepsCapacities ==
  ASSUME CapacityInv, NEW t \in Threads, NEW stage \in Stages,
         pc[t] # "idle", Goto(t, stage), UNCHANGED argVars
  PROVE  CapacityInv'
PROOF
  BY DEF CapacityInv, Goto, argVars

LEMMA NextTryKeepsCapacities ==
  ASSUME CapacityInv, NEW t \in Threads, pc[t] # "idle", NextTry(t)
  PROVE  CapacityInv'
PROOF
<1>1. CASE Goto(t, "reserve") /\ UNCHANGED argVars
  BY <1>1, MoveKeepsCapacities
<1>2. CASE Return(t)
  BY <1>2, ReturnKeepsCapacities
<1> QED
  BY <1>1, <1>2 DEF NextTry

LEMMA CreateKeepsCapacities ==
  ASSUME CapacityInv, NEW t \in Threads, Create(t)
  PROVE  CapacityInv'
PROOF
<1>1. PICK min \in MinCapacities :
        LET capacity == get_valid_wasm2c_memory_capacity(min)
        IN  /\ capacity.is_valid
            /\ min_capacity' = [min_capacity EXCEPT ![t] = min]
            /\ max_pages' = [max_pages EXCEPT ![t] = capacity.max_pages]
  BY DEF Create
<1>2. min \in Nat
  BY HeapReservationAssumption
<1> DEFINE pages == get_valid_wasm2c_memory_capacity(min).max_pages
<1>3. pages \in Nat /\ pages * WASM_PAGE_SIZE >= min
  BY <1>1, <1>2, ValidCapacityHolds
<1>4. /\ pc' = [pc EXCEPT ![t] = "reserve"]
      /\ min_capacity' = [min_capacity EXCEPT ![t] = min]
      /\ max_pages' = [max_pages EXCEPT ![t] = pages]
  BY <1>1 DEF Create, Goto
<1> HIDE DEF pages
<1> QED
  BY <1>2, <1>3, <1>4 DEF CapacityInv

LEMMA NextKeepsCapacities == CapacityInv /\ [Next]_vars => CapacityInv'
PROOF
<1> SUFFICES ASSUME CapacityInv, [Next]_vars
             PROVE  CapacityInv'
  OBVIOUS
<1>1. CASE UNCHANGED vars
  BY <1>1 DEF vars, argVars, CapacityInv
<1>2. ASSUME NEW t \in Threads, Create(t)
      PROVE  CapacityInv'
  BY <1>2, CreateKeepsCapacities
<1>3. ASSUME NEW t \in Threads, ReserveFails(t) \/ RemapFails(t)
      PROVE  CapacityInv'
  BY <1>3, NextTryKeepsCapacities DEF ReserveFails, RemapFails
<1>4. ASSUME NEW t \in Threads, Abandon(t) \/ Destroy(t)
      PROVE  CapacityInv'
  BY <1>4, ReturnKeepsCapacities DEF Abandon, Destroy
<1>5. ASSUME NEW t \in Threads, Reserve(t)
      PROVE  CapacityInv'
  <2>1. PICK stage \in {"trim_front", "commit", "release"} : Goto(t, stage)
    BY <1>5 DEF Reserve
  <2> QED
    BY <1>5, <2>1, MoveKeepsCapacities DEF Reserve
<1>6. ASSUME NEW t \in Threads, TrimFront(t) \/ TrimBack(t) \/ Release(t)
      PROVE  CapacityInv'
  BY <1>6, MoveKeepsCapacities DEF TrimFront, TrimBack, Release
<1>7. ASSUME NEW t \in Threads, Remap(t) \/ Commit(t) \/ CommitFails(t)
      PROVE  CapacityInv'
  BY <1>7, MoveKeepsCapacities DEF Remap, Commit, CommitFails
<1> QED
  BY <1>1, <1>2, <1>3, <1>4, <1>5, <1>6, <1>7 DEF Next, CreateStep

\* A memory that create_wasm2c_memory hands out can grow to the capacity that
\* get_valid_wasm2c_memory_capacity was asked for, whatever the page size, the
\* limits, and the interleaving with other threads.
THEOREM CapacityCorrect == Spec => []CapacityHonoured
PROOF
<1>1. Init => CapacityInv
  BY DEF Init, CapacityInv
<1>2. CapacityInv => CapacityHonoured
  BY DEF CapacityInv, CapacityHonoured, Live
<1> QED
  BY <1>1, <1>2, NextKeepsCapacities, PTL DEF Spec
=============================================================================
