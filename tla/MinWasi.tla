------------------------------ MODULE MinWasi ------------------------------
(***************************************************************************)
(* One call of the small WASI runtime src/wasm2c_rt_minwasi.c, made by     *)
(* sandboxed code on its linear memory: fd_write and fd_read on the three  *)
(* standard streams, args and environ, the clocks, fd_prestat_get,         *)
(* proc_exit and the calls that are not supported.  The calls share no     *)
(* state but the memory, which sandboxed code may fill as it likes before  *)
(* each, so a behaviour is one call.                                       *)
(*                                                                         *)
(* A cell of memory is the unit: it holds a u32 or one character, so that  *)
(* sizeof(u32) is 1, an iovec has 2 cells and a u64 as well.  Arithmetic   *)
(* on u32 is modulo U32; the checks of the code add in 64 bits.            *)
(***************************************************************************)
EXTENDS Integers, SequencesExt

CONSTANTS
  U32,                   \* 2^32, in cells
  MemorySizes,           \* instance_memory->size
  Memories,              \* what sandboxed code may have put into memory
  Fds, Iovcnts,          \* arguments of the calls
  Pointers,              \* u32 addresses among the arguments
  Inputs,                \* what is there to read on stdin
  StringLists,           \* main_argv or env, as sequences of characters
  ARGV_AND_ENV_LIMIT,
  ClockIds, Clocks,      \* clock ids passed, and the clocks behind them
  THOUSAND,              \* 1000
  WASM2C_WASI_TRAP_ON_EXIT

ASSUME MinWasiAssumption ==
  /\ U32 \in Nat \ {0}
  /\ MemorySizes \subseteq 1 .. U32
  /\ Memories \subseteq Seq(0 .. U32 - 1)
  /\ Fds \cup Iovcnts \cup Pointers \cup ClockIds \subseteq 0 .. U32 - 1
  /\ Inputs \subseteq Seq(0 .. U32 - 1)
  /\ StringLists \subseteq Seq(Seq(0 .. U32 - 1))
  /\ ARGV_AND_ENV_LIMIT \in 0 .. U32 - 1
  /\ THOUSAND \in Nat \ {0}
  /\ Clocks \subseteq
       [os : {"windows"}, count : Nat, counts_per_sec : Int, refused : BOOLEAN]
         \cup [os : {"mac"}, ticks : Nat, numer : Nat \ {0}, denom : Nat \ {0}, sec : Nat, usec : Nat]
         \cup [os : {"posix"}, sec : Nat, nsec : Nat, res : Nat, refused : BOOLEAN]
  /\ WASM2C_WASI_TRAP_ON_EXIT \in BOOLEAN

VARIABLES
  memory,      \* instance_memory->data
  stdin, out,  \* what is left to read, what was written to stdout or stderr
  pc,          \* where the call is
  call,        \* its name and arguments
  i, sum,      \* loop index; num or curr_buf_loc of the loop
  ret,         \* its result
  touched,     \* history: cells the host has accessed, counted from data[0]
  moved        \* history: characters read or written, without any wrapping

vars == <<memory, stdin, out, pc, call, i, sum, ret, touched, moved>>

WASI_SUCCESS == 0
WASI_BADF_ERROR == 8
WASI_INVAL_ERROR == 28
WASI_NOSYS_ERROR == 53
WASI_PERM_ERROR == 63

NoCall == [op |-> "none"]
Smaller(a, b) == IF a < b THEN a ELSE b

-----------------------------------------------------------------------------
(***************************************************************************)
(* Memory accesses                                                         *)
(***************************************************************************)
Size == Len(memory)

\* Broken variant: the sum is a u32.
InMemoryWraps(a, sz) == (a + sz) % U32 <= Size

\* WASI_MEMCHECK_SIZE(mem, a, sz), the access traps otherwise.
InMemory(a, sz) == a + sz <= Size

\* memory is a sequence, its cell 0 the first element.
Peek(a) == IF a < Size THEN memory[a + 1] ELSE 0
Poke(mem, a, cells) ==
  [k \in DOMAIN mem |-> IF k - 1 \in a .. a + Len(cells) - 1 THEN cells[k - a] ELSE mem[k]]
Cells(a, n) == a .. a + n - 1

\* Broken variant: the sum is never checked.
OverflowsNever(a, b) == FALSE

\* safe_add_u32
Overflows(a, b) == U32 - 1 - a < b

Trap ==
  /\ pc' = "trapped"
  /\ UNCHANGED <<memory, stdin, out, call, i, sum, ret, touched, moved>>

\* The call returns.
Ends(result) == pc' = "done" /\ ret' = result

-----------------------------------------------------------------------------
(***************************************************************************)
(* fd_write and fd_read                                                    *)
(***************************************************************************)
\* Sandboxed code lays out iovecs and buffers.
Prepare ==
  /\ pc = "idle"
  /\ \E m \in Memories : Len(m) = Size /\ memory' = m
  /\ pc' = "prepared"
  /\ UNCHANGED <<stdin, out, call, i, sum, ret, touched, moved>>

Allowed(op) == IF op = "fd_write" THEN {1, 2} ELSE {0}

FdCall ==
  /\ pc = "prepared"
  /\ \E op \in {"fd_write", "fd_read"}, fd \in Fds, iov, pnum \in Pointers, iovcnt \in Iovcnts :
       /\ call' = [op |-> op, fd |-> fd, iov |-> iov, iovcnt |-> iovcnt, pnum |-> pnum]
       /\ IF fd \in Allowed(op) THEN pc' = "iovec" /\ UNCHANGED ret ELSE Ends(WASI_BADF_ERROR)
  /\ UNCHANGED <<memory, stdin, out, i, sum, touched, moved>>

\* The addresses of the two u32 of iovec k: iov + k * 8 is a u32.
Iovec(k, n) == (call.iov + 2 * k + n) % U32
Ptr(k) == Peek(Iovec(k, 0))
BufLen(k) == Peek(Iovec(k, 1))

IovecInMemory(k) ==
  InMemory(Iovec(k, 0), 1) /\ InMemory(Iovec(k, 1), 1) /\ InMemory(Ptr(k), BufLen(k))

MoreIovecs == pc = "iovec" /\ i < call.iovcnt

TrapAtIovec == MoreIovecs /\ ~IovecInMemory(i) /\ Trap

TouchIovec ==
  touched' = touched \cup {Iovec(i, 0), Iovec(i, 1)} \cup Cells(Ptr(i), BufLen(i))

\* Broken variants: the sum wraps around; a short write goes on.
AfterTransferWraps(n) ==
  /\ moved' = moved + n
  /\ sum' = (sum + n) % U32
  /\ IF n = BufLen(i) THEN i' = i + 1 /\ UNCHANGED <<pc, ret>>
     ELSE /\ i' = i /\ pc' = "store_num"
          /\ ret' = IF call.op = "fd_write" THEN WASI_PERM_ERROR ELSE WASI_SUCCESS
AfterTransferGoesOn(n) ==
  /\ moved' = moved + n
  /\ i' = i + 1
  /\ IF Overflows(sum, n) THEN sum' = 0 /\ Ends(WASI_INVAL_ERROR)
     ELSE sum' = sum + n /\ UNCHANGED <<pc, ret>>

\* After fwrite or fread moved n characters of the iovec: what the loop does
\* next.  A short write ends the call in an error, a short read does not.
AfterTransfer(n) ==
  /\ moved' = moved + n
  /\ IF Overflows(sum, n) THEN sum' = 0 /\ i' = i /\ Ends(WASI_INVAL_ERROR)
     ELSE /\ sum' = sum + n
          /\ IF n = BufLen(i) THEN i' = i + 1 /\ UNCHANGED <<pc, ret>>
             ELSE /\ i' = i /\ pc' = "store_num"
                  /\ ret' = IF call.op = "fd_write" THEN WASI_PERM_ERROR ELSE WASI_SUCCESS

FdWrite ==
  /\ MoreIovecs /\ call.op = "fd_write"
  /\ IovecInMemory(i)
  /\ TouchIovec
  /\ \E n \in 0 .. BufLen(i) :
       /\ out' = out \o [k \in 1 .. n |-> Peek(Ptr(i) + k - 1)]
       /\ AfterTransfer(n)
  /\ UNCHANGED <<memory, stdin, call>>

FdRead ==
  /\ MoreIovecs /\ call.op = "fd_read"
  /\ IovecInMemory(i)
  /\ TouchIovec
  /\ \E n \in 0 .. Smaller(BufLen(i), Len(stdin)) :
       /\ memory' = Poke(memory, Ptr(i), SubSeq(stdin, 1, n))
       /\ stdin' = SubSeq(stdin, n + 1, Len(stdin))
       /\ AfterTransfer(n)
  /\ UNCHANGED <<out, call>>

NoMoreIovecs ==
  /\ pc = "iovec" /\ i >= call.iovcnt
  /\ pc' = "store_num" /\ ret' = WASI_SUCCESS
  /\ UNCHANGED <<memory, stdin, out, call, i, sum, touched, moved>>

\* wasm_i32_store(pnum, num)
StoreNum ==
  /\ pc = "store_num"
  /\ InMemory(call.pnum, 1)
  /\ memory' = Poke(memory, call.pnum, <<sum>>)
  /\ touched' = touched \cup {call.pnum}
  /\ pc' = "done"
  /\ UNCHANGED <<stdin, out, call, i, sum, ret, moved>>

TrapAtNum == pc = "store_num" /\ ~InMemory(call.pnum, 1) /\ Trap
-----------------------------------------------------------------------------
(***************************************************************************)
(* args and environ                                                        *)
(***************************************************************************)
\* The strings that both calls look at: at most ARGV_AND_ENV_LIMIT.
Chosen(strings) == SubSeq(strings, 1, Smaller(Len(strings), ARGV_AND_ENV_LIMIT))

TooLong(str) == Len(str) >= U32 - 1

\* Broken variant: the terminating zero is not counted.
BufSizeWithoutNull(strings) ==
  LET size[k \in 0 .. Len(Chosen(strings))] == IF k = 0 THEN 0 ELSE size[k - 1] + Len(strings[k])
  IN  size[Len(Chosen(strings))]

\* curr_buf_size after k iterations, had it more than 32 bits: k strings with
\* their terminating zeros.
Sizes(strings) ==
  LET size[k \in 0 .. Len(strings)] == IF k = 0 THEN 0 ELSE size[k - 1] + Len(strings[k]) + 1
  IN  size

\* The loop of strings_sizes_get adds with safe_add_u32; it fails at some point
\* just when this sum does not fit into a u32.
BufSize(strings) == Sizes(Chosen(strings))[Len(Chosen(strings))]

SizesInvalid(strings) ==
  (\E k \in DOMAIN Chosen(strings) : TooLong(strings[k])) \/ BufSize(strings) >= U32

\* strings_sizes_get, behind args_sizes_get and environ_sizes_get.  The count
\* is stored before the store of the size may trap.
StringsSizesGet ==
  /\ pc = "idle"
  /\ \E strings \in StringLists, p_count, p_size \in Pointers :
       LET counted == Poke(memory, p_count, <<Len(Chosen(strings))>>)
       IN  /\ call' = [op |-> "sizes_get", strings |-> strings, p_count |-> p_count, p_size |-> p_size]
           /\ IF SizesInvalid(strings) THEN Ends(WASI_INVAL_ERROR) /\ UNCHANGED <<memory, touched>>
              ELSE IF ~InMemory(p_count, 1)
              THEN pc' = "trapped" /\ UNCHANGED <<memory, touched, ret>>
              ELSE IF ~InMemory(p_size, 1)
              THEN /\ pc' = "trapped" /\ memory' = counted
                   /\ touched' = {p_count} /\ UNCHANGED ret
              ELSE /\ memory' = Poke(counted, p_size, <<BufSize(strings)>>)
                   /\ touched' = {p_count, p_size}
                   /\ Ends(WASI_SUCCESS)
  /\ UNCHANGED <<stdin, out, i, sum, moved>>

\* strings_get, behind args_get and environ_get: one iteration a step.
StringsGet ==
  /\ pc = "idle"
  /\ \E strings \in StringLists, arr, buf \in Pointers :
       call' = [op |-> "strings_get", strings |-> strings, arr |-> arr, buf |-> buf]
  /\ pc' = "string"
  /\ UNCHANGED <<memory, stdin, out, i, sum, ret, touched, moved>>

MoreStrings == pc = "string" /\ i < Len(Chosen(call.strings))
StringRef == call.arr + i
BufRef == call.buf + sum
Terminated == Append(call.strings[i + 1], 0)
RefsOverflow == Overflows(call.arr, i) \/ Overflows(call.buf, sum)

StringRefInvalid ==
  /\ MoreStrings /\ RefsOverflow
  /\ Ends(WASI_INVAL_ERROR)
  /\ UNCHANGED <<memory, stdin, out, call, i, sum, touched, moved>>

TrapAtStringRef == MoreStrings /\ ~RefsOverflow /\ ~InMemory(StringRef, 1) /\ Trap

\* The pointer is stored, then the string is copied: it may be too long, not
\* fit into memory, or bring curr_buf_loc past a u32.
WithRef == Poke(memory, StringRef, <<BufRef>>)

StringFails ==
  /\ MoreStrings /\ ~RefsOverflow /\ InMemory(StringRef, 1)
  /\ memory' = WithRef
  /\ touched' = touched \cup {StringRef}
  /\ IF TooLong(call.strings[i + 1]) THEN Ends(WASI_INVAL_ERROR)
     ELSE ~InMemory(BufRef, Len(Terminated)) /\ pc' = "trapped" /\ UNCHANGED ret
  /\ UNCHANGED <<stdin, out, call, i, sum, moved>>

CopyString ==
  /\ MoreStrings /\ ~RefsOverflow /\ InMemory(StringRef, 1)
  /\ ~TooLong(call.strings[i + 1]) /\ InMemory(BufRef, Len(Terminated))
  /\ memory' = Poke(WithRef, BufRef, Terminated)
  /\ touched' = touched \cup {StringRef} \cup Cells(BufRef, Len(Terminated))
  /\ IF Overflows(sum, Len(Terminated))
     THEN sum' = 0 /\ i' = i /\ Ends(WASI_INVAL_ERROR)
     ELSE sum' = sum + Len(Terminated) /\ i' = i + 1 /\ UNCHANGED <<pc, ret>>
  /\ UNCHANGED <<stdin, out, call, moved>>

NoMoreStrings ==
  /\ pc = "string" /\ i >= Len(Chosen(call.strings))
  /\ Ends(WASI_SUCCESS)
  /\ UNCHANGED <<memory, stdin, out, call, i, sum, touched, moved>>

-----------------------------------------------------------------------------
(***************************************************************************)
(* Clocks.  A clock is what the operating system answers: a performance    *)
(* counter on Windows, ticks since init and the time of init on macOS, a   *)
(* timespec or a failure elsewhere.  A timespec is <<tv_sec, tv_nsec>>.    *)
(***************************************************************************)
BILLION == THOUSAND * THOUSAND * THOUSAND
U64 == U32 * U32

ClockFails(clock) ==
  CASE clock.os = "windows" -> clock.counts_per_sec <= 0 \/ clock.refused
    [] clock.os = "mac" -> FALSE
    [] OTHER -> clock.refused

\* The product of the conversion: a signed 64-bit LONGLONG on Windows, whose
\* overflow is undefined (it takes a counter of more than 9.2 GHz), a u64 on
\* macOS (190 years from init at 24 MHz with a timebase of 125/3).
WindowsProduct(clock) == (clock.count % clock.counts_per_sec) * BILLION
MacProduct(clock) == clock.ticks * clock.numer

\* Of a clock that did not fail.
SignedOverflow(clock) == clock.os = "windows" /\ WindowsProduct(clock) >= U64 \div 2
ProductFits(clock) ==
  ~SignedOverflow(clock) /\ (clock.os = "mac" => MacProduct(clock) < U64)

\* Broken variant: nanoseconds per count first.
WindowsTimeRounds(clock) ==
  <<clock.count \div clock.counts_per_sec,
    (clock.count % clock.counts_per_sec) * (BILLION \div clock.counts_per_sec)>>

WindowsTime(clock) ==
  <<clock.count \div clock.counts_per_sec,
    WindowsProduct(clock) \div clock.counts_per_sec>>

MacTime(clock) ==
  LET nano == (MacProduct(clock) % U64) \div clock.denom
      nsec == clock.usec * THOUSAND + (nano % BILLION)
  IN  <<clock.sec + (nano \div BILLION) + (nsec \div BILLION), nsec % BILLION>>

Gettime(clock) ==
  CASE clock.os = "windows" -> WindowsTime(clock)
    [] clock.os = "mac" -> MacTime(clock)
    [] OTHER -> <<clock.sec, clock.nsec>>

Getres(clock) ==
  CASE clock.os = "windows" -> <<0, THOUSAND>>
    [] clock.os = "mac" -> <<0, 1>>
    [] OTHER -> <<0, clock.res>>

GetresFails(clock) == clock.os = "posix" /\ clock.refused

\* wasm_i64_store of a timespec in nanoseconds.
Nanoseconds(timespec) == (timespec[1] * THOUSAND * THOUSAND * THOUSAND + timespec[2]) % U64
I64(v) == <<v % U32, v \div U32>>

\* clock_time_get and clock_res_get store their out_struct also when the
\* clock failed and left it uninitialized: then, as after a signed overflow, any
\* value may be stored.
ClockGet(op) ==
  LET Fails(clock) == IF op = "clock_time_get" THEN ClockFails(clock) ELSE GetresFails(clock)
      Undefined(clock) == Fails(clock) \/ (op = "clock_time_get" /\ SignedOverflow(clock))
      Time(clock) == IF op = "clock_time_get" THEN Gettime(clock) ELSE Getres(clock)
  IN
  /\ pc = "idle"
  /\ \E clock_id \in ClockIds, clock \in Clocks, p \in Pointers :
       /\ call' = [op |-> op, clock |-> clock, out |-> p]
       /\ IF clock_id \notin 0 .. 3 THEN Ends(WASI_INVAL_ERROR) /\ UNCHANGED <<memory, touched>>
          ELSE IF ~InMemory(p, 2) THEN pc' = "trapped" /\ UNCHANGED <<memory, touched, ret>>
          ELSE /\ \E v \in IF Undefined(clock) THEN 0 .. U64 - 1 ELSE {Nanoseconds(Time(clock))} :
                    memory' = Poke(memory, p, I64(v))
               /\ touched' = Cells(p, 2)
               /\ Ends(IF Fails(clock) THEN -1 ELSE 0)
  /\ UNCHANGED <<stdin, out, i, sum, moved>>

ClockTimeGet == ClockGet("clock_time_get")
ClockResGet == ClockGet("clock_res_get")

-----------------------------------------------------------------------------
(***************************************************************************)
(* Calls without memory                                                    *)
(***************************************************************************)
FdPrestatGet ==
  /\ pc = "idle"
  /\ \E fd \in Fds :
       /\ call' = [op |-> "fd_prestat_get", fd |-> fd]
       /\ Ends(IF fd \in 0 .. 2 THEN WASI_PERM_ERROR ELSE WASI_BADF_ERROR)
  /\ UNCHANGED <<memory, stdin, out, i, sum, touched, moved>>

ProcExit ==
  /\ pc = "idle"
  /\ call' = [op |-> "proc_exit"]
  /\ pc' = IF WASM2C_WASI_TRAP_ON_EXIT THEN "trapped" ELSE "exited"
  /\ UNCHANGED <<memory, stdin, out, i, sum, ret, touched, moved>>

\* The imports that STUB_IMPORT_IMPL defines.
Unsupported ==
  /\ pc = "idle"
  /\ call' = [op |-> "unsupported"]
  /\ Ends(WASI_NOSYS_ERROR)
  /\ UNCHANGED <<memory, stdin, out, i, sum, touched, moved>>

-----------------------------------------------------------------------------
Init ==
  /\ memory \in {[k \in 1 .. n |-> 0] : n \in MemorySizes}
  /\ stdin \in Inputs
  /\ out = <<>>
  /\ pc = "idle" /\ call = NoCall
  /\ i = 0 /\ sum = 0 /\ ret = WASI_SUCCESS
  /\ touched = {} /\ moved = 0

Next ==
  \/ Prepare \/ FdCall \/ FdWrite \/ FdRead
  \/ NoMoreIovecs \/ TrapAtIovec \/ StoreNum \/ TrapAtNum
  \/ StringsSizesGet \/ StringsGet \/ StringRefInvalid \/ TrapAtStringRef
  \/ StringFails \/ CopyString \/ NoMoreStrings
  \/ ClockTimeGet \/ ClockResGet
  \/ FdPrestatGet \/ ProcExit \/ Unsupported

Spec == Init /\ [][Next]_vars

-----------------------------------------------------------------------------
(***************************************************************************)
(* Properties                                                              *)
(***************************************************************************)
Ended(ops, results) == pc = "done" /\ call.op \in ops /\ ret \in results

Cell == 0 .. U32 - 1
FdCalls ==
  [op : {"fd_write", "fd_read"}, fd : Fds, iov : Pointers, iovcnt : Iovcnts, pnum : Pointers]
SizesCalls == [op : {"sizes_get"}, strings : StringLists, p_count : Pointers, p_size : Pointers]
StringsCalls == [op : {"strings_get"}, strings : StringLists, arr : Pointers, buf : Pointers]
ClockCalls == [op : {"clock_time_get", "clock_res_get"}, clock : Clocks, out : Pointers]
OtherCalls == [op : {"fd_prestat_get"}, fd : Fds] \cup [op : {"none", "proc_exit", "unsupported"}]

\* Every variable has a value of its type; memory keeps its size.
TypeOK ==
  /\ memory \in [1 .. Size -> Cell] /\ Size \in MemorySizes
  /\ stdin \in Seq(Cell) /\ out \in Seq(Cell)
  /\ pc \in {"idle", "prepared", "iovec", "store_num", "string", "done", "trapped", "exited"}
  /\ call \in FdCalls \cup SizesCalls \cup StringsCalls \cup ClockCalls \cup OtherCalls
  /\ i \in 0 .. U32 /\ sum \in Cell /\ moved \in Nat
  /\ ret \in {-1, WASI_SUCCESS, WASI_BADF_ERROR, WASI_INVAL_ERROR, WASI_NOSYS_ERROR, WASI_PERM_ERROR}
  /\ touched \subseteq Nat

\* Whatever pointers, lengths and counts sandboxed code passes, at the end of
\* memory and around 2^32, and also when fd_read overwrites the iovecs that it
\* has yet to read, the host accesses cells of the sandbox memory only.
InsideMemory == touched \subseteq 0 .. Size - 1

\* The number that fd_write and fd_read leave at pnum, also after a short
\* write, is the number of characters that left or entered the stream, and
\* never one that wrapped around.
CountsReported ==
  Ended({"fd_write", "fd_read"}, {WASI_SUCCESS, WASI_PERM_ERROR}) => Peek(call.pnum) = moved

\* A successful fd_write wrote the characters of all its buffers in order,
\* whatever it wrote before on the way there (before num is stored, which may
\* be in one of the buffers).
WrittenIsGathered ==
  pc = "store_num" /\ call.op = "fd_write" /\ ret = WASI_SUCCESS =>
    LET buffer(k) == LET ptr == Peek((call.iov + 2 * (k - 1)) % U32)
                         len == Peek((call.iov + 2 * (k - 1) + 1) % U32)
                     IN  [n \in 1 .. len |-> Peek(ptr + n - 1)]
    IN  out = FlattenSeq([k \in 1 .. call.iovcnt |-> buffer(k)])

\* Of what strings_get writes, nothing lies outside of the array and the buffer
\* of the size that strings_sizes_get reports, although each of the two counts
\* and sums on its own; and every pointer it writes leads to its string, when
\* the two areas are apart.
StringsFit ==
  Ended({"strings_get"}, {WASI_SUCCESS}) =>
    LET n == Len(Chosen(call.strings))
        array == Cells(call.arr, n)
        buffer == Cells(call.buf, BufSize(call.strings))
    IN  /\ ~SizesInvalid(call.strings)
        /\ touched \subseteq array \cup buffer
        /\ array \cap buffer = {} =>
             \A k \in 1 .. n :
               LET str == Append(call.strings[k], 0)
               IN  [j \in DOMAIN str |-> Peek(Peek(call.arr + k - 1) + j - 1)] = str

\* When clock_time_get succeeds and its 64-bit product did not overflow, what it
\* stored is the time of the clock in whole nanoseconds: the counter of Windows
\* converted without losing more than the last one, on macOS the time of init
\* and the time since then.
ClockIsTime ==
  Ended({"clock_time_get"}, {0}) /\ ProductFits(call.clock) =>
    LET clock == call.clock
        time == CASE clock.os = "windows" -> (clock.count * BILLION) \div clock.counts_per_sec
                  [] clock.os = "mac" -> clock.sec * BILLION + clock.usec * THOUSAND
                                           + ((clock.ticks * clock.numer) \div clock.denom)
                  [] OTHER -> clock.sec * BILLION + clock.nsec
    IN  Peek(call.out) + U32 * Peek(call.out + 1) = time % U64
=============================================================================
