--------------------------- MODULE MinWasiProofs ---------------------------
(***************************************************************************)
(* Proofs about MinWasi, for any size of u32, memory contents, arguments,  *)
(* inputs and strings.                                                     *)
(***************************************************************************)
EXTENDS MinWasi, SequenceTheorems, NaturalsInduction, WellFoundedInduction, TLAPS

-----------------------------------------------------------------------------
(***************************************************************************)
(* Memory                                                                  *)
(***************************************************************************)
LEMMA CellIs == U32 \in Nat /\ U32 > 0 /\ Cell = 0 .. U32 - 1 /\ 0 \in Cell /\ Cell \subseteq Nat
BY MinWasiAssumption DEF Cell

LEMMA MemoryIs ==
  ASSUME NEW n \in Nat, NEW mem \in [1 .. n -> Cell]
  PROVE  mem \in Seq(Cell) /\ Len(mem) = n /\ DOMAIN mem = 1 .. n
BY SeqDef, LenProperties

LEMMA PokeIs ==
  ASSUME NEW n \in Nat, NEW mem \in [1 .. n -> Cell], NEW a \in Nat, NEW cells \in Seq(Cell)
  PROVE  LET new == Poke(mem, a, cells)
         IN  /\ new \in [1 .. n -> Cell] /\ Len(new) = n
             /\ \A c \in 1 .. n :
                  new[c] = IF c - 1 \in Cells(a, Len(cells)) THEN cells[c - a] ELSE mem[c]
<1> DEFINE new == Poke(mem, a, cells)
<1>1. Len(cells) \in Nat /\ \A k \in 1 .. Len(cells) : cells[k] \in Cell
  BY ElementOfSeq, LenProperties
<1>2. \A c \in 1 .. n : c - 1 \in Cells(a, Len(cells)) => cells[c - a] \in Cell
  BY <1>1 DEF Cells
<1>3. new = [c \in 1 .. n |-> IF c - 1 \in Cells(a, Len(cells)) THEN cells[c - a] ELSE mem[c]]
  BY DEF Poke, Cells
<1> HIDE DEF new
<1>4. new \in [1 .. n -> Cell]
  BY <1>2, <1>3
<1> QED
  BY <1>3, <1>4, MemoryIs DEF new

LEMMA CellAlone == \A c \in Cell : <<c>> \in Seq(Cell) /\ Len(<<c>>) = 1 /\ <<c>>[1] = c
OBVIOUS

-----------------------------------------------------------------------------
(***************************************************************************)
(* Types                                                                   *)
(***************************************************************************)
\* Where a call is says which call it is; before it starts nothing is done.
AtCall ==
  /\ pc \in {"iovec", "store_num"} => call \in FdCalls
  /\ pc = "string" => call \in StringsCalls
  /\ pc \in {"idle", "prepared"} =>
       i = 0 /\ sum = 0 /\ moved = 0 /\ touched = {} /\ out = <<>> /\ call = NoCall
  /\ pc = "prepared" => memory \in Memories

Typed == TypeOK /\ AtCall /\ InsideMemory

LEMMA PeekIs == ASSUME TypeOK PROVE /\ Size \in Nat /\ Size > 0 /\ Size <= U32
                                    /\ \A a \in Nat : Peek(a) \in Cell
BY CellIs, MinWasiAssumption DEF TypeOK, Peek

\* What a step that writes one run of cells leaves.
LEMMA Written ==
  ASSUME TypeOK, NEW a \in Nat, NEW cells \in Seq(Cell), memory' = Poke(memory, a, cells)
  PROVE  memory' \in [1 .. Size -> Cell] /\ Size' = Size
<1>1. Size \in Nat /\ memory \in [1 .. Size -> Cell]
  BY PeekIs DEF TypeOK
<1> DEFINE n == Size
<1>2. Poke(memory, a, cells) \in [1 .. n -> Cell] /\ Len(Poke(memory, a, cells)) = n
  BY <1>1, PokeIs
<1> QED
  BY <1>2 DEF Size

\* The arguments of calls.
LEMMA ArgumentsAre ==
  /\ \A c \in FdCalls : c.iov \in Cell /\ c.pnum \in Cell /\ c.iovcnt \in Cell /\ c.fd \in Cell
  /\ \A c \in StringsCalls : c.arr \in Cell /\ c.buf \in Cell /\ c.strings \in Seq(Seq(Cell))
BY MinWasiAssumption DEF FdCalls, StringsCalls, Cell

LEMMA TrapTyped == ASSUME Typed, Trap PROVE Typed'
BY DEF Typed, TypeOK, AtCall, InsideMemory, Trap, Size

LEMMA PrepareTyped == ASSUME Typed, Prepare PROVE Typed'
<1>1. PICK m \in Memories : Len(m) = Size /\ memory' = m
  BY DEF Prepare
<1>2. m \in Seq(Cell)
  BY MinWasiAssumption DEF Cell
<1>3. m \in [1 .. Len(m) -> Cell]
  BY <1>2, LenProperties, ElementOfSeq
<1>4. memory' \in [1 .. Size' -> Cell] /\ Size' = Size
  BY <1>1, <1>3 DEF Size
<1> QED
  BY <1>1, <1>4 DEF Prepare, Typed, TypeOK, AtCall, InsideMemory

LEMMA FdCallTyped == ASSUME Typed, FdCall PROVE Typed'
<1>1. PICK op \in {"fd_write", "fd_read"}, fd \in Fds, iov \in Pointers, pnum \in Pointers, iovcnt \in Iovcnts :
        /\ call' = [op |-> op, fd |-> fd, iov |-> iov, iovcnt |-> iovcnt, pnum |-> pnum]
        /\ IF fd \in Allowed(op) THEN pc' = "iovec" /\ UNCHANGED ret ELSE Ends(WASI_BADF_ERROR)
  BY DEF FdCall
<1>2. call' \in FdCalls
  BY <1>1 DEF FdCalls
<1>3. \/ pc' = "iovec" /\ UNCHANGED ret
      \/ pc' = "done" /\ ret' = WASI_BADF_ERROR
  BY <1>1 DEF Ends
<1> QED
  BY <1>2, <1>3 DEF FdCall, Typed, TypeOK, AtCall, InsideMemory, Size

\* The addresses and contents of an iovec.
LEMMA IovecIs ==
  ASSUME TypeOK, call \in FdCalls, NEW k \in Nat
  PROVE  Iovec(k, 0) \in Cell /\ Iovec(k, 1) \in Cell /\ Ptr(k) \in Cell /\ BufLen(k) \in Cell
<1>1. call.iov + 2 * k + 0 \in Nat /\ call.iov + 2 * k + 1 \in Nat
  BY CellIs, ArgumentsAre
<1>2. \A x \in Nat : x % U32 \in Cell
  BY CellIs
<1>3. Iovec(k, 0) \in Cell /\ Iovec(k, 1) \in Cell
  BY <1>1, <1>2 DEF Iovec
<1> QED
  BY <1>3, CellIs, PeekIs DEF Ptr, BufLen

LEMMA InMemoryIs ==
  ASSUME TypeOK, NEW a \in Nat, NEW n \in Nat, InMemory(a, n)
  PROVE  Cells(a, n) \subseteq 0 .. Size - 1
BY PeekIs DEF InMemory, Cells

LEMMA TouchIovecIs ==
  ASSUME Typed, call \in FdCalls, i \in Nat, IovecInMemory(i), TouchIovec
  PROVE  touched' \subseteq 0 .. Size - 1 /\ touched' \subseteq Nat
<1>1. Iovec(i, 0) \in Nat /\ Iovec(i, 1) \in Nat /\ Ptr(i) \in Nat /\ BufLen(i) \in Nat
  BY IovecIs, CellIs DEF Typed
<1>2. Cells(Ptr(i), BufLen(i)) \subseteq 0 .. Size - 1
  BY <1>1, InMemoryIs DEF IovecInMemory, Typed
<1>3. Iovec(i, 0) \in 0 .. Size - 1 /\ Iovec(i, 1) \in 0 .. Size - 1
  BY <1>1, PeekIs DEF IovecInMemory, InMemory, Typed
<1> HIDE DEF TouchIovec
<1>4. touched' \subseteq 0 .. Size - 1
  BY <1>2, <1>3 DEF TouchIovec, Typed, InsideMemory
<1> QED
  BY <1>4, PeekIs DEF Typed

\* What a transfer does to the loop: the sum stays a u32.
LEMMA AfterTransferTyped ==
  ASSUME Typed, MoreIovecs, call \in FdCalls, NEW n \in Nat, n <= BufLen(i), AfterTransfer(n)
  PROVE  /\ moved' = moved + n /\ moved' \in Nat /\ sum' \in Cell /\ i' \in 0 .. U32
         /\ \/ pc' = pc /\ UNCHANGED ret /\ sum' = sum + n
            \/ pc' = "store_num" /\ ret' \in {WASI_PERM_ERROR, WASI_SUCCESS} /\ sum' = sum + n
            \/ pc' = "done" /\ ret' = WASI_INVAL_ERROR
<1>1. i < call.iovcnt /\ i \in Nat /\ call.iovcnt \in Cell
  BY ArgumentsAre, CellIs DEF Typed, TypeOK, MoreIovecs
<1>2. i \in 0 .. U32 /\ i + 1 \in 0 .. U32
  BY <1>1, CellIs
<1>3. ~Overflows(sum, n) => sum + n \in Cell
  BY CellIs DEF Overflows, Typed, TypeOK
<1> QED
  BY <1>2, <1>3, CellIs DEF AfterTransfer, Typed, TypeOK, Ends

LEMMA FdWriteTyped == ASSUME Typed, FdWrite PROVE Typed'
<1>1. call \in FdCalls /\ pc = "iovec" /\ i \in Nat /\ MoreIovecs /\ IovecInMemory(i) /\ TouchIovec
  BY CellIs DEF FdWrite, MoreIovecs, Typed, AtCall, TypeOK
<1>2. Iovec(i, 0) \in Cell /\ Iovec(i, 1) \in Cell /\ Ptr(i) \in Cell /\ BufLen(i) \in Cell
  BY <1>1, IovecIs DEF Typed
<1>3. PICK n \in 0 .. BufLen(i) :
        out' = out \o [c \in 1 .. n |-> Peek(Ptr(i) + c - 1)] /\ AfterTransfer(n)
  BY DEF FdWrite
<1>4. n \in Nat /\ n <= BufLen(i)
  BY <1>2, CellIs
<1>5. out' \in Seq(Cell)
  <2>1. \A c \in 1 .. n : Ptr(i) + c - 1 \in Nat
    BY <1>2, CellIs
  <2>2. \A c \in 1 .. n : Peek(Ptr(i) + c - 1) \in Cell
    BY <2>1, PeekIs DEF Typed
  <2>3. [c \in 1 .. n |-> Peek(Ptr(i) + c - 1)] \in Seq(Cell)
    BY <1>4, <2>2, SeqDef
  <2> QED BY <1>3, <2>3, ConcatProperties DEF Typed, TypeOK
<1>6. touched' \subseteq 0 .. Size - 1 /\ touched' \subseteq Nat
  BY <1>1, TouchIovecIs
<1>7. /\ moved' = moved + n /\ moved' \in Nat /\ sum' \in Cell /\ i' \in 0 .. U32
      /\ \/ pc' = pc /\ UNCHANGED ret /\ sum' = sum + n
         \/ pc' = "store_num" /\ ret' \in {WASI_PERM_ERROR, WASI_SUCCESS} /\ sum' = sum + n
         \/ pc' = "done" /\ ret' = WASI_INVAL_ERROR
  BY <1>1, <1>3, <1>4, AfterTransferTyped
<1> QED
  BY <1>1, <1>5, <1>6, <1>7 DEF FdWrite, Typed, TypeOK, AtCall, InsideMemory, Size

LEMMA FdReadTyped == ASSUME Typed, FdRead PROVE Typed'
<1>1. call \in FdCalls /\ pc = "iovec" /\ i \in Nat /\ MoreIovecs /\ IovecInMemory(i) /\ TouchIovec
  BY CellIs DEF FdRead, MoreIovecs, Typed, AtCall, TypeOK
<1>2. Iovec(i, 0) \in Cell /\ Iovec(i, 1) \in Cell /\ Ptr(i) \in Cell /\ BufLen(i) \in Cell
  BY <1>1, IovecIs DEF Typed
<1>3. PICK n \in 0 .. Smaller(BufLen(i), Len(stdin)) :
        /\ memory' = Poke(memory, Ptr(i), SubSeq(stdin, 1, n))
        /\ stdin' = SubSeq(stdin, n + 1, Len(stdin))
        /\ AfterTransfer(n)
  BY DEF FdRead
<1>4. stdin \in Seq(Cell) /\ Len(stdin) \in Nat /\ \A c \in 1 .. Len(stdin) : stdin[c] \in Cell
  BY ElementOfSeq, LenProperties DEF Typed, TypeOK
<1>5. n \in Nat /\ n <= BufLen(i) /\ n <= Len(stdin)
  BY <1>2, <1>4, CellIs DEF Smaller
<1>6. SubSeq(stdin, 1, n) \in Seq(Cell) /\ SubSeq(stdin, n + 1, Len(stdin)) \in Seq(Cell)
  <2> DEFINE q == stdin
             l == Len(stdin)
             m == n + 1
             one == 1
  <2>1. /\ one \in Int /\ n \in Int /\ m \in Int /\ l \in Int /\ q \in Seq(Cell)
        /\ \A c \in one .. n : q[c] \in Cell
        /\ \A c \in m .. l : q[c] \in Cell
    BY <1>4, <1>5
  <2> HIDE DEF q, l, m, one
  <2>2. SubSeq(q, one, n) \in Seq(Cell)
    BY <2>1, SubSeqProperties
  <2>3. SubSeq(q, m, l) \in Seq(Cell)
    BY <2>1, SubSeqProperties
  <2> QED BY <2>2, <2>3 DEF q, l, m, one
<1>7. memory' \in [1 .. Size -> Cell] /\ Size' = Size
  BY <1>2, <1>3, <1>6, CellIs, Written DEF Typed
<1>8. touched' \subseteq 0 .. Size - 1 /\ touched' \subseteq Nat
  BY <1>1, TouchIovecIs
<1>9. /\ moved' = moved + n /\ moved' \in Nat /\ sum' \in Cell /\ i' \in 0 .. U32
      /\ \/ pc' = pc /\ UNCHANGED ret /\ sum' = sum + n
         \/ pc' = "store_num" /\ ret' \in {WASI_PERM_ERROR, WASI_SUCCESS} /\ sum' = sum + n
         \/ pc' = "done" /\ ret' = WASI_INVAL_ERROR
  BY <1>1, <1>3, <1>5, AfterTransferTyped
<1> QED
  BY <1>1, <1>3, <1>6, <1>7, <1>8, <1>9 DEF FdRead, Typed, TypeOK, AtCall, InsideMemory

LEMMA NoMoreIovecsTyped == ASSUME Typed, NoMoreIovecs PROVE Typed'
BY DEF NoMoreIovecs, Typed, TypeOK, AtCall, InsideMemory, Size

LEMMA StoreNumTyped == ASSUME Typed, StoreNum PROVE Typed'
<1>1. call \in FdCalls /\ call.pnum \in Nat /\ sum \in Cell
  BY ArgumentsAre, CellIs DEF StoreNum, Typed, TypeOK, AtCall
<1>2. <<sum>> \in Seq(Cell) /\ memory' = Poke(memory, call.pnum, <<sum>>)
  BY <1>1, CellAlone DEF StoreNum
<1>3. memory' \in [1 .. Size -> Cell] /\ Size' = Size
  BY <1>1, <1>2, Written DEF Typed
<1>4. touched' \subseteq 0 .. Size - 1 /\ touched' \subseteq Nat
  <2>1. call.pnum \in 0 .. Size - 1 /\ Size \in Nat
    BY <1>1, PeekIs DEF StoreNum, InMemory, Typed
  <2>2. touched' = touched \cup {call.pnum} /\ touched \subseteq 0 .. Size - 1
    BY DEF StoreNum, Typed, InsideMemory
  <2>3. 0 .. Size - 1 \subseteq Nat
    BY <2>1
  <2> QED BY ONLY <2>1, <2>2, <2>3
<1> QED
  BY <1>1, <1>3, <1>4 DEF StoreNum, Typed, TypeOK, AtCall, InsideMemory

LEMMA TrapAtIovecTyped == ASSUME Typed, TrapAtIovec PROVE Typed'
BY TrapTyped DEF TrapAtIovec

LEMMA TrapAtNumTyped == ASSUME Typed, TrapAtNum PROVE Typed'
BY TrapTyped DEF TrapAtNum

LEMMA TrapAtStringRefTyped == ASSUME Typed, TrapAtStringRef PROVE Typed'
BY TrapTyped DEF TrapAtStringRef

LEMMA StringsGetTyped == ASSUME Typed, StringsGet PROVE Typed'
<1>1. call' \in StringsCalls
  BY DEF StringsGet, StringsCalls
<1> QED
  BY <1>1 DEF StringsGet, Typed, TypeOK, AtCall, InsideMemory, Size

-----------------------------------------------------------------------------
(***************************************************************************)
(* Strings                                                                 *)
(***************************************************************************)
\* g is the table of the sums of the first lengths, up to m.
Summed(strings, m, g) ==
  /\ g \in [0 .. m -> Nat] /\ g[0] = 0
  /\ \A k \in 1 .. m : g[k] = g[k - 1] + Len(strings[k]) + 1

\* There is such a table: otherwise take the least m that has none.
LEMMA SummedExists ==
  ASSUME NEW S, NEW strings \in Seq(Seq(S)), NEW m \in 0 .. Len(strings)
  PROVE  \E g : Summed(strings, m, g)
<1>1. Len(strings) \in Nat /\ \A k \in 1 .. Len(strings) : Len(strings[k]) \in Nat
  BY ElementOfSeq, LenProperties
<1> DEFINE Bad == {k \in Nat : k <= Len(strings) /\ ~\E g : Summed(strings, k, g)}
<1>2. SUFFICES ASSUME Bad # {} PROVE FALSE
  BY <1>1
<1>3. PICK l \in Bad : \A k \in Bad : <<k, l>> \notin OpToRel(<, Nat)
  BY <1>2, NatLessThanWellFounded, WFMin
<1>4. l \in Nat /\ l <= Len(strings) /\ ~\E g : Summed(strings, l, g)
  BY <1>3
<1>5. l # 0
  <2>1. Summed(strings, 0, [k \in 0 .. 0 |-> 0])
    BY DEF Summed
  <2> QED BY <1>4, <2>1
<1>6. l - 1 \in Nat /\ l - 1 < l /\ l - 1 <= Len(strings)
  BY <1>1, <1>4, <1>5
<1>7. l - 1 \notin Bad
  BY <1>3, <1>4, <1>6 DEF OpToRel
<1>8. PICK g : Summed(strings, l - 1, g)
  BY <1>6, <1>7
<1> DEFINE new == [k \in 0 .. l |-> IF k = l THEN g[l - 1] + Len(strings[l]) + 1 ELSE g[k]]
<1>9. Len(strings[l]) \in Nat
  BY <1>1, <1>4, <1>5
<1>10. new \in [0 .. l -> Nat] /\ new[0] = 0
  BY <1>4, <1>5, <1>6, <1>8, <1>9 DEF Summed
<1>11. \A k \in 1 .. l : new[k] = new[k - 1] + Len(strings[k]) + 1
  <2> TAKE k \in 1 .. l
  <2>1. k \in 0 .. l /\ k - 1 \in 0 .. l /\ k - 1 # l /\ k - 1 \in 0 .. l - 1
    BY <1>4
  <2>2. CASE k = l
    BY <2>1, <2>2
  <2>3. CASE k # l
    <3>1. k \in 1 .. l - 1
      BY <1>4, <2>3
    <3>2. g[k] = g[k - 1] + Len(strings[k]) + 1
      BY <1>8, <3>1 DEF Summed
    <3> QED BY <2>1, <2>3, <3>2
  <2> QED BY <2>2, <2>3
<1>12. Summed(strings, l, new)
  BY <1>10, <1>11 DEF Summed
<1> QED
  BY <1>4, <1>12

LEMMA SizesIs ==
  ASSUME NEW S, NEW strings \in Seq(Seq(S))
  PROVE  Summed(strings, Len(strings), Sizes(strings))
<1>1. Len(strings) \in Nat
  BY LenProperties
<1>2. PICK g : Summed(strings, Len(strings), g)
  BY <1>1, SummedExists
<1> DEFINE rec == [k \in 0 .. Len(strings) |-> IF k = 0 THEN 0 ELSE g[k - 1] + Len(strings[k]) + 1]
<1>3. g = rec
  <2>1. g = [k \in 0 .. Len(strings) |-> g[k]]
    BY <1>2 DEF Summed
  <2>2. \A k \in 0 .. Len(strings) : g[k] = IF k = 0 THEN 0 ELSE g[k - 1] + Len(strings[k]) + 1
    BY <1>1, <1>2 DEF Summed
  <2> QED BY <2>1, <2>2
<1>4. Sizes(strings) = CHOOSE size : size = [k \in 0 .. Len(strings) |-> IF k = 0 THEN 0 ELSE size[k - 1] + Len(strings[k]) + 1]
  BY DEF Sizes
<1> DEFINE s == Sizes(strings)
<1>5. s = [k \in 0 .. Len(strings) |-> IF k = 0 THEN 0 ELSE s[k - 1] + Len(strings[k]) + 1]
  BY <1>3, <1>4
<1> HIDE DEF s
<1>6. /\ s = [k \in 0 .. Len(strings) |-> s[k]] /\ s[0] = 0
      /\ \A k \in 1 .. Len(strings) : s[k] = s[k - 1] + Len(strings[k]) + 1
  <2>1. \A k \in 0 .. Len(strings) : s[k] = IF k = 0 THEN 0 ELSE s[k - 1] + Len(strings[k]) + 1
    BY <1>5
  <2>2. 0 \in 0 .. Len(strings) /\ \A k \in 1 .. Len(strings) : k \in 0 .. Len(strings) /\ k # 0
    BY <1>1
  <2>3. DOMAIN s = 0 .. Len(strings) /\ s = [k \in DOMAIN s |-> s[k]]
    BY <1>5
  <2> QED BY <2>1, <2>2, <2>3
<1>7. \A k \in 0 .. Len(strings) : s[k] \in Nat
  <2> DEFINE Bad == {k \in Nat : k <= Len(strings) /\ s[k] \notin Nat}
  <2>1. SUFFICES ASSUME Bad # {} PROVE FALSE
    BY <1>1
  <2>2. PICK l \in Bad : \A k \in Bad : <<k, l>> \notin OpToRel(<, Nat)
    BY <2>1, NatLessThanWellFounded, WFMin
  <2>3. l \in Nat /\ l <= Len(strings) /\ s[l] \notin Nat
    BY <2>2
  <2>4. l # 0
    BY <1>6, <2>3
  <2>5. l - 1 \in Nat /\ l - 1 < l /\ l - 1 <= Len(strings) /\ l \in 1 .. Len(strings)
    BY <1>1, <2>3, <2>4
  <2>6. s[l - 1] \in Nat
    BY <2>2, <2>3, <2>5 DEF OpToRel
  <2>7. Len(strings[l]) \in Nat
    BY <2>5, ElementOfSeq, LenProperties
  <2>8. s[l] = s[l - 1] + Len(strings[l]) + 1
    BY <1>6, <2>5
  <2> HIDE DEF Bad
  <2> QED BY <2>3, <2>6, <2>7, <2>8
<1>8. s \in [0 .. Len(strings) -> Nat]
  BY <1>6, <1>7
<1> QED
  BY <1>6, <1>8 DEF Summed, s

\* The sums only grow.
LEMMA SummedGrows ==
  ASSUME NEW S, NEW strings \in Seq(Seq(S)), NEW g, Summed(strings, Len(strings), g),
         NEW k \in 0 .. Len(strings), NEW n \in k .. Len(strings)
  PROVE  g[k] <= g[n]
<1>1. /\ Len(strings) \in Nat /\ \A l \in 1 .. Len(strings) : Len(strings[l]) \in Nat
      /\ \A l \in 0 .. Len(strings) : g[l] \in Nat
      /\ \A l \in 1 .. Len(strings) : g[l] = g[l - 1] + Len(strings[l]) + 1
  BY ElementOfSeq, LenProperties DEF Summed
<1> DEFINE Bad == {l \in Nat : k <= l /\ l <= Len(strings) /\ ~(g[k] <= g[l])}
<1>0. n \in Nat /\ k <= n /\ n <= Len(strings)
  BY <1>1
<1>2. SUFFICES ASSUME Bad # {} PROVE FALSE
  BY <1>0
<1>3. PICK l \in Bad : \A j \in Bad : <<j, l>> \notin OpToRel(<, Nat)
  BY <1>2, NatLessThanWellFounded, WFMin
<1>4. l \in Nat /\ k <= l /\ l <= Len(strings) /\ ~(g[k] <= g[l])
  BY <1>3
<1>5. l # k
  BY <1>1, <1>4
<1>6. l - 1 \in Nat /\ l - 1 < l /\ k <= l - 1 /\ l - 1 <= Len(strings) /\ l \in 1 .. Len(strings)
  BY <1>1, <1>4, <1>5
<1>7. g[k] <= g[l - 1]
  BY <1>3, <1>4, <1>6 DEF OpToRel
<1>8. g[l] = g[l - 1] + Len(strings[l]) + 1 /\ g[l - 1] \in Nat /\ Len(strings[l]) \in Nat /\ g[k] \in Nat
  BY <1>1, <1>6
<1> HIDE DEF Bad
<1>9. g[l] \in Nat /\ g[l] >= g[l - 1]
  BY <1>8
<1> QED
  BY <1>4, <1>7, <1>8, <1>9

LEMMA ChosenIs ==
  ASSUME NEW strings \in Seq(Seq(Cell))
  PROVE  LET all == Chosen(strings)
         IN  /\ all \in Seq(Seq(Cell)) /\ Len(all) \in 0 .. U32 - 1 /\ Len(all) <= Len(strings)
             /\ \A k \in 1 .. Len(all) : all[k] = strings[k] /\ strings[k] \in Seq(Cell)
<1> DEFINE m == Smaller(Len(strings), ARGV_AND_ENV_LIMIT)
           q == strings
           one == 1
<1>1. Len(strings) \in Nat /\ \A k \in 1 .. Len(strings) : strings[k] \in Seq(Cell)
  BY ElementOfSeq, LenProperties
<1>2. m \in Nat /\ m <= Len(strings) /\ m <= U32 - 1
  BY <1>1, MinWasiAssumption DEF Smaller
<1>3. /\ one \in Int /\ m \in Int /\ q \in Seq(Seq(Cell))
      /\ \A k \in one .. m : q[k] \in Seq(Cell)
  BY <1>1, <1>2
<1>4. Chosen(strings) = SubSeq(q, one, m)
  BY DEF Chosen
<1> HIDE DEF m, q, one
<1>5. /\ SubSeq(q, one, m) \in Seq(Seq(Cell))
      /\ Len(SubSeq(q, one, m)) = IF one <= m THEN m - one + 1 ELSE 0
      /\ \A k \in 1 .. m - one + 1 : SubSeq(q, one, m)[k] = q[one + k - 1]
  BY <1>3, SubSeqProperties
<1>6. Len(Chosen(strings)) = m /\ \A k \in 1 .. m : Chosen(strings)[k] = strings[k]
  BY <1>2, <1>4, <1>5 DEF one, q
<1>7. Chosen(strings) \in Seq(Seq(Cell)) /\ m \in 0 .. U32 - 1
  BY <1>2, <1>4, <1>5, CellIs
<1>8. \A k \in 1 .. m : k \in 1 .. Len(strings)
  BY <1>1, <1>2
<1>9. m <= Len(strings)
  BY <1>2
<1> QED
  BY <1>1, <1>6, <1>7, <1>8, <1>9

\* BufSize is the last of the sums.
LEMMA BufSizeIs ==
  ASSUME NEW strings \in Seq(Seq(Cell))
  PROVE  /\ Summed(Chosen(strings), Len(Chosen(strings)), Sizes(Chosen(strings)))
         /\ BufSize(strings) \in Nat
<1>1. Summed(Chosen(strings), Len(Chosen(strings)), Sizes(Chosen(strings)))
  BY ChosenIs, SizesIs
<1>2. Len(Chosen(strings)) \in 0 .. Len(Chosen(strings))
  BY ChosenIs, CellIs
<1> QED
  BY <1>1, <1>2 DEF Summed, BufSize

LEMMA StringsSizesGetTyped == ASSUME Typed, StringsSizesGet PROVE Typed'
<1>1. PICK strings \in StringLists, p_count \in Pointers, p_size \in Pointers :
       LET counted == Poke(memory, p_count, <<Len(Chosen(strings))>>)
       IN  /\ call' = [op |-> "sizes_get", strings |-> strings, p_count |-> p_count, p_size |-> p_size]
           /\ IF SizesInvalid(strings) THEN Ends(WASI_INVAL_ERROR) /\ UNCHANGED <<memory, touched>>
              ELSE IF ~InMemory(p_count, 1)
              THEN pc' = "trapped" /\ UNCHANGED <<memory, touched, ret>>
              ELSE IF ~InMemory(p_size, 1)
              THEN /\ pc' = "trapped" /\ memory' = counted
                   /\ touched' = {p_count} /\ UNCHANGED ret
              ELSE /\ memory' = Poke(counted, p_size, <<BufSize(strings)>>)
                   /\ touched' = {p_count, p_size}
                   /\ Ends(WASI_SUCCESS)
  BY DEF StringsSizesGet
<1> DEFINE counted == Poke(memory, p_count, <<Len(Chosen(strings))>>)
<1>2. call' \in SizesCalls
  BY <1>1 DEF SizesCalls
<1>3. strings \in Seq(Seq(Cell)) /\ p_count \in Nat /\ p_size \in Nat
  BY MinWasiAssumption, CellIs DEF Cell
<1>4. Size \in Nat /\ memory \in [1 .. Size -> Cell] /\ Size \in MemorySizes
  BY PeekIs DEF Typed, TypeOK
<1>5. Len(Chosen(strings)) \in Cell
  BY <1>3, ChosenIs, CellIs
<1>6. <<Len(Chosen(strings))>> \in Seq(Cell)
  BY <1>5, CellAlone
<1> HIDE DEF counted
<1>7. counted \in [1 .. Size -> Cell] /\ Len(counted) = Size
  <2> DEFINE n == Size
  <2>1. Poke(memory, p_count, <<Len(Chosen(strings))>>) \in [1 .. n -> Cell]
        /\ Len(Poke(memory, p_count, <<Len(Chosen(strings))>>)) = n
    BY <1>3, <1>4, <1>6, PokeIs
  <2> QED BY <2>1 DEF counted
<1>8. ~SizesInvalid(strings) =>
        /\ Poke(counted, p_size, <<BufSize(strings)>>) \in [1 .. Size -> Cell]
        /\ Len(Poke(counted, p_size, <<BufSize(strings)>>)) = Size
  <2> HAVE ~SizesInvalid(strings)
  <2>1. BufSize(strings) \in Cell
    BY <1>3, BufSizeIs, CellIs DEF SizesInvalid
  <2>2. <<BufSize(strings)>> \in Seq(Cell)
    BY <2>1, CellAlone
  <2> DEFINE n == Size
  <2>3. counted \in [1 .. n -> Cell] /\ n \in Nat
    BY <1>4, <1>7
  <2>4. Poke(counted, p_size, <<BufSize(strings)>>) \in [1 .. n -> Cell]
        /\ Len(Poke(counted, p_size, <<BufSize(strings)>>)) = n
    BY <1>3, <2>2, <2>3, PokeIs
  <2> QED BY <2>4
<1>9. memory' \in [1 .. Size -> Cell] /\ Size' = Size
  <2>1. \/ memory' = memory \/ memory' = counted
        \/ ~SizesInvalid(strings) /\ (memory' = Poke(counted, p_size, <<BufSize(strings)>>))
    BY <1>1 DEF counted
  <2> QED BY <1>4, <1>7, <1>8, <2>1 DEF Size
<1>10. touched' \subseteq 0 .. Size - 1
  <2>1. \A a \in Nat : InMemory(a, 1) => a \in 0 .. Size - 1
    BY <1>4 DEF InMemory
  <2>2. \/ touched' = touched
        \/ InMemory(p_count, 1) /\ touched' = {p_count}
        \/ InMemory(p_count, 1) /\ InMemory(p_size, 1) /\ touched' = {p_count, p_size}
    BY <1>1
  <2>3. touched \subseteq 0 .. Size - 1
    BY DEF Typed, InsideMemory
  <2> HIDE DEF InMemory
  <2> QED BY <1>3, <2>1, <2>2, <2>3
<1>11. touched' \subseteq Nat
  BY <1>4, <1>10
<1>12. /\ pc' \in {"done", "trapped"}
       /\ ret' \in {ret, WASI_INVAL_ERROR, WASI_SUCCESS}
  BY <1>1 DEF Ends
<1> QED
  BY <1>2, <1>4, <1>9, <1>10, <1>11, <1>12 DEF StringsSizesGet, Typed, TypeOK, AtCall, InsideMemory

\* The two pokes of an iteration of strings_get.
LEMMA StringRefsAre ==
  ASSUME Typed, MoreStrings, ~RefsOverflow
  PROVE  /\ call \in StringsCalls /\ call.strings \in Seq(Seq(Cell)) /\ i \in Nat
         /\ call.arr \in Nat /\ call.buf \in Nat /\ sum \in Nat
         /\ StringRef \in Cell /\ BufRef \in Cell
         /\ call.strings[i + 1] \in Seq(Cell) /\ i + 1 \in 1 .. Len(Chosen(call.strings))
         /\ Terminated \in Seq(Cell) /\ Len(Terminated) = Len(call.strings[i + 1]) + 1
<1>1. /\ call \in StringsCalls /\ call.strings \in Seq(Seq(Cell)) /\ i \in Nat
      /\ call.arr \in Cell /\ call.buf \in Cell /\ sum \in Cell
  BY ArgumentsAre, CellIs DEF Typed, TypeOK, AtCall, MoreStrings
<1>2. i < Len(Chosen(call.strings)) /\ Len(Chosen(call.strings)) \in Nat
  BY <1>1, ChosenIs, CellIs DEF MoreStrings
<1>3. i + 1 \in 1 .. Len(Chosen(call.strings))
  BY <1>1, <1>2
<1>4. call.strings[i + 1] \in Seq(Cell)
  BY <1>1, <1>3, ChosenIs
<1>5. Terminated \in Seq(Cell) /\ Len(Terminated) = Len(call.strings[i + 1]) + 1
  BY <1>4, CellIs, AppendProperties DEF Terminated
<1>6. StringRef \in Cell /\ BufRef \in Cell
  BY <1>1, CellIs DEF RefsOverflow, Overflows, StringRef, BufRef
<1> QED
  BY <1>1, <1>3, <1>4, <1>5, <1>6, CellIs

LEMMA WithRefIs ==
  ASSUME Typed, MoreStrings, ~RefsOverflow
  PROVE  /\ WithRef \in [1 .. Size -> Cell] /\ Len(WithRef) = Size
         /\ \A c \in 1 .. Size : WithRef[c] = IF c - 1 = StringRef THEN BufRef ELSE memory[c]
<1> DEFINE n == Size
           a == StringRef
           cells == <<BufRef>>
           mem == memory
<1>1. n \in Nat /\ mem \in [1 .. n -> Cell]
  BY PeekIs DEF Typed, TypeOK
<1>2. a \in Nat /\ cells \in Seq(Cell)
  BY StringRefsAre, CellIs, CellAlone
<1>3. WithRef = Poke(mem, a, cells) /\ Len(cells) = 1 /\ cells[1] = BufRef
  BY StringRefsAre, CellAlone DEF WithRef
<1> HIDE DEF n, a, cells, mem
<1>4. /\ Poke(mem, a, cells) \in [1 .. n -> Cell] /\ Len(Poke(mem, a, cells)) = n
      /\ \A c \in 1 .. n :
           Poke(mem, a, cells)[c] = IF c - 1 \in Cells(a, Len(cells)) THEN cells[c - a] ELSE mem[c]
  BY <1>1, <1>2, PokeIs
<1>5. \A c \in 1 .. n : (c - 1 \in Cells(a, 1) <=> c - 1 = a) /\ (c - 1 = a => c - a = 1)
  BY <1>1, <1>2 DEF Cells
<1>6. \A c \in 1 .. n : WithRef[c] = IF c - 1 = a THEN BufRef ELSE mem[c]
  BY <1>2, <1>3, <1>4, <1>5
<1> QED
  BY <1>3, <1>4, <1>6 DEF n, a, mem

LEMMA StringFailsTyped == ASSUME Typed, StringFails PROVE Typed'
<1>1. MoreStrings /\ ~RefsOverflow /\ InMemory(StringRef, 1) /\ memory' = WithRef
  BY DEF StringFails
<1>2. StringRef \in Nat
  BY <1>1, StringRefsAre, CellIs
<1>3. memory' \in [1 .. Size -> Cell] /\ Size' = Size
  BY <1>1, WithRefIs DEF Size
<1>4. touched' \subseteq 0 .. Size - 1 /\ touched' \subseteq Nat
  <2>1. StringRef \in 0 .. Size - 1 /\ 0 .. Size - 1 \subseteq Nat
    BY <1>1, <1>2, PeekIs DEF InMemory, Typed
  <2>2. touched' = touched \cup {StringRef} /\ touched \subseteq 0 .. Size - 1
    BY DEF StringFails, Typed, InsideMemory
  <2> QED BY ONLY <2>1, <2>2
<1>5. pc' \in {"done", "trapped"} /\ ret' \in {ret, WASI_INVAL_ERROR}
  BY DEF StringFails, Ends
<1> QED
  BY <1>3, <1>4, <1>5 DEF StringFails, Typed, TypeOK, AtCall, InsideMemory

\* What copying a string leaves in memory.
LEMMA CopyStringIs ==
  ASSUME Typed, CopyString
  PROVE  /\ memory' \in [1 .. Size -> Cell] /\ Size' = Size
         /\ \A c \in 1 .. Size :
              memory'[c] = IF c - 1 \in Cells(BufRef, Len(Terminated)) THEN Terminated[c - BufRef]
                           ELSE IF c - 1 = StringRef THEN BufRef ELSE memory[c]
<1> DEFINE n == Size
           a == BufRef
           cells == Terminated
           mem == WithRef
<1>1. MoreStrings /\ ~RefsOverflow
  BY DEF CopyString
<1>2. n \in Nat /\ mem \in [1 .. n -> Cell] /\ a \in Nat /\ cells \in Seq(Cell)
  BY <1>1, StringRefsAre, WithRefIs, PeekIs, CellIs DEF Typed
<1>3. memory' = Poke(mem, a, cells)
  BY DEF CopyString
<1> HIDE DEF n, a, cells, mem
<1>4. /\ Poke(mem, a, cells) \in [1 .. n -> Cell] /\ Len(Poke(mem, a, cells)) = n
      /\ \A c \in 1 .. n :
           Poke(mem, a, cells)[c] = IF c - 1 \in Cells(a, Len(cells)) THEN cells[c - a] ELSE mem[c]
  BY <1>2, PokeIs
<1>5. \A c \in 1 .. n : mem[c] = IF c - 1 = StringRef THEN BufRef ELSE memory[c]
  BY <1>1, WithRefIs DEF mem, n
<1>6. memory' \in [1 .. n -> Cell] /\ Size' = n
  BY <1>3, <1>4 DEF Size
<1>7. \A c \in 1 .. n :
        memory'[c] = IF c - 1 \in Cells(a, Len(cells)) THEN cells[c - a]
                     ELSE IF c - 1 = StringRef THEN BufRef ELSE memory[c]
  BY <1>3, <1>4, <1>5
<1> QED
  BY <1>6, <1>7 DEF n, a, cells

LEMMA CopyStringTyped == ASSUME Typed, CopyString PROVE Typed'
<1>1. /\ MoreStrings /\ ~RefsOverflow /\ InMemory(StringRef, 1)
      /\ InMemory(BufRef, Len(Terminated))
  BY DEF CopyString
<1>2. /\ call \in StringsCalls /\ StringRef \in Nat /\ BufRef \in Nat /\ i \in Nat
      /\ Len(Terminated) \in Nat /\ i + 1 \in 1 .. Len(Chosen(call.strings))
      /\ call.strings \in Seq(Seq(Cell))
  BY <1>1, StringRefsAre, CellIs, LenProperties
<1>3. memory' \in [1 .. Size -> Cell] /\ Size' = Size
  BY CopyStringIs
<1>4. touched' \subseteq 0 .. Size - 1 /\ touched' \subseteq Nat
  <2>1. StringRef \in 0 .. Size - 1 /\ 0 .. Size - 1 \subseteq Nat
    BY <1>1, <1>2, PeekIs DEF InMemory, Typed
  <2>2. Cells(BufRef, Len(Terminated)) \subseteq 0 .. Size - 1
    BY <1>1, <1>2, InMemoryIs DEF Typed
  <2>3. touched' = touched \cup {StringRef} \cup Cells(BufRef, Len(Terminated))
        /\ touched \subseteq 0 .. Size - 1
    BY DEF CopyString, Typed, InsideMemory
  <2> QED BY ONLY <2>1, <2>2, <2>3
<1>5. i' \in 0 .. U32
  <2>1. Len(Chosen(call.strings)) \in 0 .. U32 - 1
    BY <1>2, ChosenIs
  <2>2. i \in 0 .. U32 /\ i + 1 \in 0 .. U32
    BY <1>2, <2>1, CellIs
  <2> QED BY <2>2 DEF CopyString
<1>6. sum' \in Cell
  <2> DEFINE len == Len(Terminated)
  <2>1. len \in Nat /\ sum \in Cell
    BY <1>2 DEF Typed, TypeOK
  <2>2. IF Overflows(sum, len) THEN sum' = 0 ELSE sum' = sum + len
    BY DEF CopyString
  <2> HIDE DEF len
  <2> QED BY <2>1, <2>2, CellIs DEF Overflows
<1>7. pc' \in {pc, "done"} /\ ret' \in {ret, WASI_INVAL_ERROR}
  BY DEF CopyString, Ends
<1>8. pc = "string"
  BY <1>1 DEF MoreStrings
<1> QED
  BY <1>2, <1>3, <1>4, <1>5, <1>6, <1>7, <1>8 DEF CopyString, Typed, TypeOK, AtCall, InsideMemory

-----------------------------------------------------------------------------
(***************************************************************************)
(* Clocks                                                                  *)
(***************************************************************************)
LEMMA DivIs ==
  ASSUME NEW x \in Nat, NEW d \in Nat, d > 0
  PROVE  /\ x \div d \in Nat /\ x % d \in 0 .. d - 1 /\ x = (x \div d) * d + (x % d)
OBVIOUS

LEMMA DivBelow ==
  ASSUME NEW d \in Nat, d > 0, NEW x \in 0 .. d * d - 1
  PROVE  x \div d \in 0 .. d - 1
<1>1. d * d \in Nat /\ x \in Nat /\ x < d * d
  OBVIOUS
<1> DEFINE q == x \div d
           r == x % d
<1>2. q \in Nat /\ r \in 0 .. d - 1 /\ x = q * d + r
  BY <1>1, DivIs
<1> HIDE DEF q, r
<1>3. ASSUME q >= d PROVE FALSE
  <2>1. q * d >= d * d
    BY <1>2, <1>3
  <2>2. q * d \in Nat
    BY <1>2
  <2> QED BY <1>1, <1>2, <2>1, <2>2
<1>4. q \in 0 .. d - 1
  BY <1>2, <1>3
<1> QED
  BY <1>4 DEF q

LEMMA U64Is == U64 \in Nat /\ U64 > 0
BY CellIs DEF U64

\* A u64 as two cells.
LEMMA I64Is ==
  ASSUME NEW v \in 0 .. U64 - 1
  PROVE  /\ I64(v) \in Seq(Cell) /\ Len(I64(v)) = 2
         /\ I64(v)[1] + U32 * I64(v)[2] = v
<1>1. v \in Nat /\ U32 \in Nat /\ U32 > 0
  BY U64Is, CellIs
<1>2. v % U32 \in Cell /\ v \div U32 \in Cell
  BY <1>1, DivIs, DivBelow, CellIs DEF U64
<1>3. v = (v \div U32) * U32 + (v % U32)
  BY <1>1, DivIs
<1> DEFINE lo == v % U32
           hi == v \div U32
<1>4. I64(v) = <<lo, hi>>
  BY DEF I64
<1>5. lo \in Nat /\ hi \in Nat /\ lo \in Cell /\ hi \in Cell /\ v = hi * U32 + lo
  BY <1>2, <1>3, CellIs
<1> HIDE DEF lo, hi
<1>6. lo + U32 * hi = v
  BY <1>1, <1>5
<1>7. <<lo, hi>> \in Seq(Cell) /\ Len(<<lo, hi>>) = 2 /\ <<lo, hi>>[1] = lo /\ <<lo, hi>>[2] = hi
  BY <1>5
<1> QED
  BY <1>4, <1>6, <1>7

\* What a clock answers.
LEMMA ClockIs ==
  ASSUME NEW clock \in Clocks
  PROVE  \/ /\ clock.os = "windows" /\ clock.count \in Nat /\ clock.counts_per_sec \in Int
            /\ clock.refused \in BOOLEAN
         \/ /\ clock.os = "mac" /\ clock.ticks \in Nat /\ clock.numer \in Nat /\ clock.denom \in Nat
            /\ clock.denom > 0 /\ clock.sec \in Nat /\ clock.usec \in Nat
         \/ /\ clock.os = "posix" /\ clock.sec \in Nat /\ clock.nsec \in Nat /\ clock.res \in Nat
            /\ clock.refused \in BOOLEAN
BY MinWasiAssumption

LEMMA BillionIs == THOUSAND \in Nat /\ BILLION \in Nat /\ BILLION > 0
<1>1. THOUSAND \in Nat /\ THOUSAND > 0
  BY MinWasiAssumption
<1>2. THOUSAND * THOUSAND \in Nat /\ THOUSAND * THOUSAND > 0
  BY <1>1
<1> DEFINE million == THOUSAND * THOUSAND
<1>3. million \in Nat /\ million > 0 /\ BILLION = million * THOUSAND
  BY <1>2 DEF BILLION
<1> HIDE DEF million
<1>4. BILLION \in Nat /\ BILLION > 0
  BY <1>1, <1>3
<1> QED
  BY <1>1, <1>4

\* Both numbers of a timespec are integers.
LEMMA TimespecIs ==
  ASSUME NEW clock \in Clocks
  PROVE  /\ ~ClockFails(clock) => Gettime(clock)[1] \in Nat /\ Gettime(clock)[2] \in Nat
         /\ Getres(clock)[1] \in Nat /\ Getres(clock)[2] \in Nat
<1>1. CASE clock.os = "windows"
  <2>1. Getres(clock) = <<0, THOUSAND>> /\ Gettime(clock) = WindowsTime(clock)
    BY <1>1 DEF Getres, Gettime
  <2>2. ASSUME ~ClockFails(clock)
        PROVE  WindowsTime(clock)[1] \in Nat /\ WindowsTime(clock)[2] \in Nat
    <3> DEFINE c == clock.count
               d == clock.counts_per_sec
    <3>1. c \in Nat /\ d \in Nat /\ d > 0
      BY <1>1, <2>2, ClockIs DEF ClockFails
    <3>2. WindowsTime(clock) = <<c \div d, ((c % d) * BILLION) \div d>>
      BY DEF WindowsTime, WindowsProduct
    <3> HIDE DEF c, d
    <3>3. c \div d \in Nat /\ c % d \in Nat
      BY <3>1, DivIs
    <3>4. (c % d) * BILLION \in Nat
      BY <3>3, BillionIs
    <3>5. ((c % d) * BILLION) \div d \in Nat
      BY <3>1, <3>4, DivIs
    <3> QED BY <3>2, <3>3, <3>5
  <2> QED BY <2>1, <2>2, BillionIs
<1>2. CASE clock.os = "mac"
  <2>1. Getres(clock) = <<0, 1>> /\ Gettime(clock) = MacTime(clock)
    BY <1>2 DEF Getres, Gettime
  <2> DEFINE all == clock.ticks * clock.numer
             d == clock.denom
             nano == (all % U64) \div d
             nsec == clock.usec * THOUSAND + (nano % BILLION)
  <2>2. all \in Nat /\ d \in Nat /\ d > 0 /\ clock.usec \in Nat /\ clock.sec \in Nat
    BY <1>2, ClockIs
  <2>3. MacTime(clock) = <<clock.sec + (nano \div BILLION) + (nsec \div BILLION), nsec % BILLION>>
    BY DEF MacTime, MacProduct
  <2> HIDE DEF all, d
  <2>4. all % U64 \in Nat
    BY <2>2, U64Is, DivIs
  <2>5. nano \in Nat
    BY <2>2, <2>4, DivIs
  <2> HIDE DEF nano
  <2>6. nano \div BILLION \in Nat /\ nano % BILLION \in Nat
    BY <2>5, BillionIs, DivIs
  <2>7. nsec \in Nat
    BY <2>2, <2>6, BillionIs
  <2> HIDE DEF nsec
  <2>8. nsec \div BILLION \in Nat /\ nsec % BILLION \in Nat
    BY <2>7, BillionIs, DivIs
  <2> QED BY <2>1, <2>2, <2>3, <2>6, <2>8
<1>3. CASE clock.os = "posix"
  BY <1>3, ClockIs DEF Getres, Gettime
<1> QED
  BY <1>1, <1>2, <1>3, ClockIs

LEMMA NanosecondsIs ==
  ASSUME NEW timespec, timespec[1] \in Nat, timespec[2] \in Nat
  PROVE  Nanoseconds(timespec) \in 0 .. U64 - 1
<1>1. timespec[1] * THOUSAND * THOUSAND * THOUSAND \in Nat
  BY BillionIs
<1>2. timespec[1] * THOUSAND * THOUSAND * THOUSAND + timespec[2] \in Nat
  BY <1>1
<1> QED
  BY <1>2, U64Is, DivIs DEF Nanoseconds

LEMMA ClockGetTyped ==
  ASSUME Typed, NEW op \in {"clock_time_get", "clock_res_get"}, ClockGet(op)
  PROVE  Typed'
<1> DEFINE Fails(clock) == IF op = "clock_time_get" THEN ClockFails(clock) ELSE GetresFails(clock)
           Undefined(clock) == Fails(clock) \/ (op = "clock_time_get" /\ SignedOverflow(clock))
           Time(clock) == IF op = "clock_time_get" THEN Gettime(clock) ELSE Getres(clock)
<1>1. PICK clock_id \in ClockIds, clock \in Clocks, p \in Pointers :
        /\ call' = [op |-> op, clock |-> clock, out |-> p]
        /\ IF clock_id \notin 0 .. 3 THEN Ends(WASI_INVAL_ERROR) /\ UNCHANGED <<memory, touched>>
           ELSE IF ~InMemory(p, 2) THEN pc' = "trapped" /\ UNCHANGED <<memory, touched, ret>>
           ELSE /\ \E v \in IF Undefined(clock) THEN 0 .. U64 - 1 ELSE {Nanoseconds(Time(clock))} :
                     memory' = Poke(memory, p, I64(v))
                /\ touched' = Cells(p, 2)
                /\ Ends(IF Fails(clock) THEN -1 ELSE 0)
  BY DEF ClockGet
<1>2. call' \in ClockCalls
  BY <1>1 DEF ClockCalls
<1>3. p \in Nat
  BY MinWasiAssumption, CellIs
<1>4. /\ pc' \in {"done", "trapped"} /\ ret' \in {ret, -1, WASI_SUCCESS, WASI_INVAL_ERROR}
      /\ \/ UNCHANGED <<memory, touched>>
         \/ /\ InMemory(p, 2) /\ touched' = Cells(p, 2)
            /\ \E v \in IF Undefined(clock) THEN 0 .. U64 - 1 ELSE {Nanoseconds(Time(clock))} :
                 memory' = Poke(memory, p, I64(v))
  BY <1>1 DEF Ends, WASI_SUCCESS
<1>5. ~Undefined(clock) => Nanoseconds(Time(clock)) \in 0 .. U64 - 1
  <2>1. ~Fails(clock) => Time(clock)[1] \in Nat /\ Time(clock)[2] \in Nat
    BY TimespecIs
  <2> QED BY <2>1, NanosecondsIs
<1> HIDE DEF Fails, Undefined, Time
<1>6. memory' \in [1 .. Size -> Cell] /\ Size' = Size
  <2>1. CASE memory' = memory
    BY <2>1 DEF Typed, TypeOK, Size
  <2>2. CASE \E v \in IF Undefined(clock) THEN 0 .. U64 - 1 ELSE {Nanoseconds(Time(clock))} :
               memory' = Poke(memory, p, I64(v))
    <3>1. PICK v \in 0 .. U64 - 1 : memory' = Poke(memory, p, I64(v))
      BY <1>5, <2>2
    <3>2. I64(v) \in Seq(Cell)
      BY I64Is
    <3> QED BY <1>3, <3>1, <3>2, Written DEF Typed
  <2> QED BY <1>4, <2>1, <2>2
<1>7. touched' \subseteq 0 .. Size - 1 /\ touched' \subseteq Nat
  <2>1. InMemory(p, 2) => Cells(p, 2) \subseteq 0 .. Size - 1
    BY <1>3, InMemoryIs DEF Typed
  <2>2. touched \subseteq 0 .. Size - 1 /\ 0 .. Size - 1 \subseteq Nat
    BY PeekIs DEF Typed, InsideMemory
  <2>3. touched' = touched \/ (InMemory(p, 2) /\ touched' = Cells(p, 2))
    BY <1>4
  <2> HIDE DEF InMemory, Cells
  <2> QED BY ONLY <2>1, <2>2, <2>3
<1>8. pc = "idle" /\ UNCHANGED <<stdin, out, i, sum, moved>>
  BY DEF ClockGet
<1> QED
  BY <1>2, <1>4, <1>6, <1>7, <1>8 DEF Typed, TypeOK, AtCall, InsideMemory

-----------------------------------------------------------------------------
LEMMA StringRefInvalidTyped == ASSUME Typed, StringRefInvalid PROVE Typed'
BY DEF StringRefInvalid, Ends, Typed, TypeOK, AtCall, InsideMemory, Size

LEMMA NoMoreStringsTyped == ASSUME Typed, NoMoreStrings PROVE Typed'
BY DEF NoMoreStrings, Ends, Typed, TypeOK, AtCall, InsideMemory, Size

LEMMA FdPrestatGetTyped == ASSUME Typed, FdPrestatGet PROVE Typed'
<1>1. call' \in OtherCalls
  BY DEF FdPrestatGet, OtherCalls
<1> QED
  BY <1>1 DEF FdPrestatGet, Ends, Typed, TypeOK, AtCall, InsideMemory, Size

LEMMA ProcExitTyped == ASSUME Typed, ProcExit PROVE Typed'
<1>1. call' \in OtherCalls
  BY DEF ProcExit, OtherCalls
<1> QED
  BY <1>1 DEF ProcExit, Typed, TypeOK, AtCall, InsideMemory, Size

LEMMA UnsupportedTyped == ASSUME Typed, Unsupported PROVE Typed'
<1>1. call' \in OtherCalls
  BY DEF Unsupported, OtherCalls
<1> QED
  BY <1>1 DEF Unsupported, Ends, Typed, TypeOK, AtCall, InsideMemory, Size
LEMMA InitTyped == ASSUME Init PROVE Typed
<1>1. PICK n \in MemorySizes : memory = [c \in 1 .. n |-> 0]
  BY DEF Init
<1>2. n \in Nat /\ n > 0
  BY MinWasiAssumption
<1>3. memory \in [1 .. n -> Cell]
  BY <1>1, CellIs
<1>4. Size = n
  BY <1>2, <1>3, MemoryIs DEF Size
<1>5. stdin \in Seq(Cell) /\ out \in Seq(Cell)
  BY MinWasiAssumption DEF Init, Cell
<1>6. i \in 0 .. U32 /\ sum \in Cell /\ moved \in Nat
  BY CellIs DEF Init
<1>7. call \in OtherCalls
  BY DEF Init, NoCall, OtherCalls
<1> QED
  BY <1>3, <1>4, <1>5, <1>6, <1>7 DEF Init, Typed, TypeOK, AtCall, InsideMemory

LEMMA StepTyped == ASSUME Typed, [Next]_vars PROVE Typed'
<1>1. CASE Prepare BY <1>1, PrepareTyped
<1>2. CASE FdCall BY <1>2, FdCallTyped
<1>3. CASE FdWrite BY <1>3, FdWriteTyped
<1>4. CASE FdRead BY <1>4, FdReadTyped
<1>5. CASE NoMoreIovecs BY <1>5, NoMoreIovecsTyped
<1>6. CASE TrapAtIovec BY <1>6, TrapAtIovecTyped
<1>7. CASE StoreNum BY <1>7, StoreNumTyped
<1>8. CASE TrapAtNum BY <1>8, TrapAtNumTyped
<1>9. CASE StringsSizesGet BY <1>9, StringsSizesGetTyped
<1>10. CASE StringsGet BY <1>10, StringsGetTyped
<1>11. CASE StringRefInvalid BY <1>11, StringRefInvalidTyped
<1>12. CASE TrapAtStringRef BY <1>12, TrapAtStringRefTyped
<1>13. CASE StringFails BY <1>13, StringFailsTyped
<1>14. CASE CopyString BY <1>14, CopyStringTyped
<1>15. CASE NoMoreStrings BY <1>15, NoMoreStringsTyped
<1>16. CASE ClockTimeGet BY <1>16, ClockGetTyped DEF ClockTimeGet
<1>17. CASE ClockResGet BY <1>17, ClockGetTyped DEF ClockResGet
<1>18. CASE FdPrestatGet BY <1>18, FdPrestatGetTyped
<1>19. CASE ProcExit BY <1>19, ProcExitTyped
<1>20. CASE Unsupported BY <1>20, UnsupportedTyped
<1>21. CASE UNCHANGED vars
  BY <1>21 DEF vars, Typed, TypeOK, AtCall, InsideMemory, Size
<1> QED
  BY <1>1, <1>2, <1>3, <1>4, <1>5, <1>6, <1>7, <1>8, <1>9, <1>10, <1>11, <1>12, <1>13, <1>14,
     <1>15, <1>16, <1>17, <1>18, <1>19, <1>20, <1>21 DEF Next

LEMMA TypedInvariant == Spec => []Typed
<1>1. Init => Typed
  BY InitTyped
<1>2. Typed /\ [Next]_vars => Typed'
  BY StepTyped
<1> QED
  BY <1>1, <1>2, PTL DEF Spec

\* Every variable has a value of its type whatever the call: in particular the
\* loop index and both sums stay inside a u32.
THEOREM TypeCorrect == Spec => []TypeOK
<1>1. Typed => TypeOK
  BY DEF Typed
<1> QED
  BY <1>1, TypedInvariant, PTL

\* The host accesses cells of the sandbox memory only, for any memory that
\* sandboxed code prepared and any arguments that it passes.
THEOREM InsideCorrect == Spec => []InsideMemory
<1>1. Typed => InsideMemory
  BY DEF Typed
<1> QED
  BY <1>1, TypedInvariant, PTL

-----------------------------------------------------------------------------
(***************************************************************************)
(* The numbers of fd_write and fd_read                                     *)
(***************************************************************************)
\* As long as a call transfers, the u32 counts what was transferred.
Counted ==
  /\ pc \in {"iovec", "store_num"} => sum = moved
  /\ CountsReported

LEMMA StoreNumCounted == ASSUME Typed, Counted, StoreNum PROVE Counted'
<1>1. sum = moved /\ sum \in Cell /\ call \in FdCalls
  BY DEF StoreNum, Counted, Typed, TypeOK, AtCall
<1> DEFINE a == call.pnum
           n == Size
           cells == <<sum>>
           mem == memory
<1>2. a \in Nat /\ n \in Nat /\ mem \in [1 .. n -> Cell] /\ cells \in Seq(Cell)
  BY <1>1, ArgumentsAre, CellIs, CellAlone, PeekIs DEF Typed, TypeOK
<1>3. memory' = Poke(mem, a, cells) /\ Len(cells) = 1 /\ cells[1] = sum /\ a + 1 <= n
  BY <1>1, CellAlone DEF StoreNum, InMemory
<1> HIDE DEF a, n, cells, mem
<1>4. /\ Poke(mem, a, cells) \in [1 .. n -> Cell] /\ Len(Poke(mem, a, cells)) = n
      /\ \A c \in 1 .. n :
           Poke(mem, a, cells)[c] = IF c - 1 \in Cells(a, Len(cells)) THEN cells[c - a] ELSE mem[c]
  BY <1>2, PokeIs
<1>5. a + 1 \in 1 .. n /\ (a + 1) - 1 \in Cells(a, 1) /\ (a + 1) - a = 1 /\ a < n
  BY <1>2, <1>3 DEF Cells
<1>6. memory'[a + 1] = sum /\ Size' = n
  BY <1>3, <1>4, <1>5 DEF Size
<1>7. call' = call /\ moved' = moved /\ pc' = "done"
  BY DEF StoreNum
<1> QED
  BY <1>1, <1>5, <1>6, <1>7 DEF Counted, CountsReported, Peek, a

LEMMA TransferCounted ==
  ASSUME Typed, Counted, FdWrite \/ FdRead
  PROVE  Counted'
<1>1. call \in FdCalls /\ i \in Nat /\ MoreIovecs /\ pc = "iovec"
  BY CellIs DEF FdWrite, FdRead, MoreIovecs, Typed, TypeOK, AtCall
<1>2. BufLen(i) \in Nat
  BY <1>1, IovecIs, CellIs DEF Typed
<1>3. PICK n \in Nat : n <= BufLen(i) /\ AfterTransfer(n)
  <2>1. CASE FdWrite
    <3>1. PICK n \in 0 .. BufLen(i) : AfterTransfer(n)
      BY <2>1 DEF FdWrite
    <3> QED BY <1>2, <3>1
  <2>2. CASE FdRead
    <3>1. PICK n \in 0 .. Smaller(BufLen(i), Len(stdin)) : AfterTransfer(n)
      BY <2>2 DEF FdRead
    <3>2. Len(stdin) \in Nat
      BY LenProperties DEF Typed, TypeOK
    <3>3. n \in Nat /\ n <= BufLen(i)
      BY <1>2, <3>2 DEF Smaller
    <3> QED BY <3>1, <3>3
  <2> QED BY <2>1, <2>2
<1>4. /\ moved' = moved + n
      /\ \/ pc' = pc /\ UNCHANGED ret /\ sum' = sum + n
         \/ pc' = "store_num" /\ ret' \in {WASI_PERM_ERROR, WASI_SUCCESS} /\ sum' = sum + n
         \/ pc' = "done" /\ ret' = WASI_INVAL_ERROR
  BY <1>1, <1>3, AfterTransferTyped
<1>5. sum = moved
  BY <1>1 DEF Counted
<1> QED
  BY <1>1, <1>4, <1>5 DEF Counted, CountsReported, Ended, WASI_INVAL_ERROR, WASI_PERM_ERROR, WASI_SUCCESS

\* The calls that do not transfer: none of them ends as fd_write or fd_read
\* with a number stored.
LEMMA OthersCounted ==
  ASSUME Typed, Counted, [Next]_vars, ~StoreNum, ~FdWrite, ~FdRead
  PROVE  Counted'
<1>1. CASE Prepare \/ FdCall
  <2>1. CASE Prepare
    BY <2>1 DEF Prepare, Counted, CountsReported, Ended
  <2>2. CASE FdCall
    <3>1. sum' = moved'
      BY <2>2 DEF FdCall, Typed, AtCall
    <3>2. pc' # "done" \/ ret' = WASI_BADF_ERROR
      BY <2>2 DEF FdCall, Ends
    <3> QED BY <3>1, <3>2 DEF Counted, CountsReported, Ended, WASI_BADF_ERROR, WASI_PERM_ERROR, WASI_SUCCESS
  <2> QED BY <1>1, <2>1, <2>2
<1>2. CASE NoMoreIovecs
  BY <1>2 DEF NoMoreIovecs, Counted, CountsReported, Ended
<1>3. CASE TrapAtIovec \/ TrapAtNum \/ TrapAtStringRef
  BY <1>3 DEF TrapAtIovec, TrapAtNum, TrapAtStringRef, Trap, Counted, CountsReported, Ended
<1>4. CASE StringsSizesGet \/ StringsGet
  <2>1. /\ pc' \in {"done", "trapped", "string"}
        /\ call'.op \in {"sizes_get", "strings_get"}
    <3>1. CASE StringsSizesGet
      BY <3>1 DEF StringsSizesGet, Ends
    <3>2. CASE StringsGet
      BY <3>2 DEF StringsGet
    <3> QED BY <1>4, <3>1, <3>2
  <2> QED BY <2>1 DEF Counted, CountsReported, Ended
<1>5. CASE StringRefInvalid \/ StringFails \/ CopyString \/ NoMoreStrings
  <2>1. call' = call /\ pc = "string" /\ pc' \in {"done", "trapped", "string"}
    BY <1>5 DEF StringRefInvalid, StringFails, CopyString, NoMoreStrings, MoreStrings, Ends
  <2>2. call.op = "strings_get"
    BY <2>1 DEF Typed, AtCall, StringsCalls
  <2> QED BY <2>1, <2>2 DEF Counted, CountsReported, Ended
<1>6. CASE ClockTimeGet \/ ClockResGet
  <2>1. /\ pc' \in {"done", "trapped"}
        /\ call'.op \in {"clock_time_get", "clock_res_get"}
    BY <1>6 DEF ClockTimeGet, ClockResGet, ClockGet, Ends
  <2> QED BY <2>1 DEF Counted, CountsReported, Ended
<1>7. CASE FdPrestatGet \/ ProcExit \/ Unsupported
  <2>1. /\ pc' \in {"done", "trapped", "exited"}
        /\ call'.op \in {"fd_prestat_get", "proc_exit", "unsupported"}
    BY <1>7 DEF FdPrestatGet, ProcExit, Unsupported, Ends
  <2> QED BY <2>1 DEF Counted, CountsReported, Ended
<1>8. CASE UNCHANGED vars
  BY <1>8 DEF vars, Counted, CountsReported, Ended, Peek, Size
<1> QED
  BY <1>1, <1>2, <1>3, <1>4, <1>5, <1>6, <1>7, <1>8 DEF Next

\* The number that fd_write and fd_read leave at pnum is the number of
\* characters moved, whatever the iovecs, also when their sum passes 2^32.
THEOREM CountsCorrect == Spec => []CountsReported
<1>1. Init => Counted
  BY DEF Init, Counted, CountsReported, Ended
<1>2. Typed /\ Counted /\ [Next]_vars => Counted'
  BY StoreNumCounted, TransferCounted, OthersCounted
<1>3. Counted => CountsReported
  BY DEF Counted
<1> QED
  BY <1>1, <1>2, <1>3, TypedInvariant, PTL DEF Spec

-----------------------------------------------------------------------------
(***************************************************************************)
(* The time of a clock                                                     *)
(***************************************************************************)
LEMMA DivUnique ==
  ASSUME NEW d \in Nat, d > 0, NEW q \in Nat, NEW r \in 0 .. d - 1
  PROVE  (q * d + r) \div d = q /\ (q * d + r) % d = r
<1> DEFINE x == q * d + r
           p == x \div d
           s == x % d
<1>1. x \in Nat
  OBVIOUS
<1> HIDE DEF x
<1>2. p \in Nat /\ s \in 0 .. d - 1 /\ x = p * d + s
  BY <1>1, DivIs
<1> HIDE DEF p, s
<1>3. q * d + r = p * d + s
  BY <1>2 DEF x
<1>4. ASSUME q > p PROVE FALSE
  <2>1. q * d >= (p + 1) * d
    BY <1>2, <1>4
  <2>2. (p + 1) * d = p * d + d
    BY <1>2
  <2>3. q * d \in Nat /\ p * d \in Nat
    BY <1>2
  <2> QED BY <1>2, <1>3, <2>1, <2>2, <2>3
<1>5. ASSUME p > q PROVE FALSE
  <2>1. p * d >= (q + 1) * d
    BY <1>2, <1>5
  <2>2. (q + 1) * d = q * d + d
    OBVIOUS
  <2>3. q * d \in Nat /\ p * d \in Nat
    BY <1>2
  <2> QED BY <1>2, <1>3, <2>1, <2>2, <2>3
<1>6. p = q
  BY <1>2, <1>4, <1>5
<1>7. s = r
  <2>1. q * d \in Nat
    OBVIOUS
  <2> QED BY <1>2, <1>3, <1>6, <2>1
<1> QED
  BY <1>6, <1>7 DEF p, s, x

\* Multiples of the divisor leave a sum unscathed.
LEMMA DivOfSum ==
  ASSUME NEW d \in Nat, d > 0, NEW q \in Nat, NEW y \in Nat
  PROVE  (q * d + y) \div d = q + (y \div d)
<1> DEFINE p == y \div d
           r == y % d
<1>1. p \in Nat /\ r \in 0 .. d - 1 /\ y = p * d + r
  BY DivIs
<1> HIDE DEF p, r
<1>2. q * d + y = (q + p) * d + r
  BY <1>1
<1>3. q + p \in Nat
  BY <1>1
<1>4. ((q + p) * d + r) \div d = q + p
  BY <1>1, <1>3, DivUnique
<1> QED
  BY <1>2, <1>4 DEF p

LEMMA ModSmall ==
  ASSUME NEW d \in Nat, NEW x \in Nat, x < d
  PROVE  x % d = x
<1>1. x = 0 * d + x /\ x \in 0 .. d - 1 /\ d > 0 /\ 0 \in Nat
  OBVIOUS
<1> QED
  BY <1>1, DivUnique

\* A counter split into seconds and the rest is converted as a whole.
LEMMA CounterIs ==
  ASSUME NEW c \in Nat, NEW d \in Nat, d > 0, NEW b \in Nat
  PROVE  (c \div d) * b + (((c % d) * b) \div d) = (c * b) \div d
<1> DEFINE q == c \div d
           r == c % d
<1>1. q \in Nat /\ r \in Nat /\ c = q * d + r
  BY DivIs
<1> HIDE DEF q, r
<1>2. q * b \in Nat /\ r * b \in Nat
  BY <1>1
<1>3. c * b = (q * b) * d + r * b
  <2>1. (q * d + r) * b = (q * d) * b + r * b
    BY <1>1
  <2>2. (q * d) * b = (q * b) * d
    BY <1>1
  <2> QED BY <1>1, <2>1, <2>2
<1> DEFINE x == q * b
           y == r * b
<1>4. x \in Nat /\ y \in Nat /\ c * b = x * d + y
  BY <1>2, <1>3
<1> HIDE DEF x, y
<1>5. (x * d + y) \div d = x + (y \div d)
  BY <1>4, DivOfSum
<1> QED
  BY <1>4, <1>5 DEF x, y, q, r

TimeOf(clock) ==
  CASE clock.os = "windows" -> (clock.count * BILLION) \div clock.counts_per_sec
    [] clock.os = "mac" -> clock.sec * BILLION + clock.usec * THOUSAND
                             + ((clock.ticks * clock.numer) \div clock.denom)
    [] OTHER -> clock.sec * BILLION + clock.nsec

LEMMA TimeIs ==
  ASSUME NEW clock \in Clocks, ~ClockFails(clock), ProductFits(clock)
  PROVE  Nanoseconds(Gettime(clock)) = TimeOf(clock) % U64
<1>1. \A timespec : timespec[1] \in Nat =>
        Nanoseconds(timespec) = (timespec[1] * BILLION + timespec[2]) % U64
  <2> TAKE timespec
  <2> HAVE timespec[1] \in Nat
  <2> DEFINE x == timespec[1]
             t == THOUSAND
  <2>1. x \in Nat /\ t \in Nat
    BY BillionIs
  <2> HIDE DEF x, t
  <2>2. x * t * t * t = x * (t * t * t)
    <3>1. t * t \in Nat /\ x * t \in Nat
      BY <2>1
    <3>2. x * t * t = x * (t * t)
      BY <2>1
    <3> DEFINE u == t * t
    <3>3. u \in Nat
      BY <3>1
    <3>4. x * u * t = x * (u * t)
      <4> HIDE DEF u
      <4> QED BY <2>1, <3>3
    <3> QED BY <3>2, <3>4
  <2> QED BY <2>2 DEF Nanoseconds, BILLION, x, t
<1>2. Gettime(clock)[1] \in Nat /\ Gettime(clock)[2] \in Nat
  BY TimespecIs
<1>3. Gettime(clock)[1] * BILLION + Gettime(clock)[2] = TimeOf(clock)
  <2>1. CASE clock.os = "windows"
    <3> DEFINE c == clock.count
               d == clock.counts_per_sec
    <3>1. c \in Nat /\ d \in Nat /\ d > 0
      BY <2>1, ClockIs DEF ClockFails
    <3>2. Gettime(clock) = <<c \div d, ((c % d) * BILLION) \div d>>
      BY <2>1 DEF Gettime, WindowsTime, WindowsProduct
    <3>3. TimeOf(clock) = (c * BILLION) \div d
      BY <2>1 DEF TimeOf
    <3> HIDE DEF c, d
    <3> QED BY <3>1, <3>2, <3>3, CounterIs, BillionIs
  <2>2. CASE clock.os = "mac"
    <3> DEFINE all == clock.ticks * clock.numer
               d == clock.denom
               b == BILLION
               sec == clock.sec
               us == clock.usec * THOUSAND
               nano == all \div d
               nsec == us + (nano % b)
    <3>1. all \in Nat /\ all < U64 /\ d \in Nat /\ d > 0 /\ sec \in Nat /\ us \in Nat
      BY <2>2, ClockIs, BillionIs DEF ProductFits, MacProduct
    <3>2. all % U64 = all
      BY <3>1, U64Is, ModSmall
    <3>3. Gettime(clock) = <<sec + (nano \div b) + (nsec \div b), nsec % b>>
      BY <2>2, <3>2 DEF Gettime, MacTime, MacProduct
    <3>4. TimeOf(clock) = sec * b + us + nano
      BY <2>2 DEF TimeOf
    <3>5. b \in Nat /\ b > 0
      BY BillionIs
    <3> HIDE DEF all, d, b, sec, us
    <3>6. nano \in Nat
      BY <3>1, DivIs
    <3> HIDE DEF nano
    <3> DEFINE x == nano \div b
               y == nano % b
    <3>7. x \in Nat /\ y \in Nat /\ nano = x * b + y
      BY <3>5, <3>6, DivIs
    <3>8. nsec = us + y
      OBVIOUS
    <3>8a. nsec \in Nat
      BY <3>1, <3>7
    <3> HIDE DEF nsec, x, y
    <3> DEFINE z == nsec \div b
               w == nsec % b
    <3>9. z \in Nat /\ w \in Nat /\ nsec = z * b + w
      BY <3>5, <3>8a, DivIs
    <3>10. Gettime(clock) = <<sec + x + z, w>>
      BY <3>3 DEF x, z, w
    <3> HIDE DEF z, w
    <3>11. (sec + x + z) * b = sec * b + x * b + z * b
      BY <3>1, <3>5, <3>7, <3>9
    <3>12. sec * b \in Nat /\ x * b \in Nat /\ z * b \in Nat
      BY <3>1, <3>5, <3>7, <3>9
    <3>13. (sec + x + z) * b + w = sec * b + us + nano
      BY <3>1, <3>7, <3>8, <3>9, <3>11, <3>12
    <3>14. Gettime(clock)[1] = sec + x + z /\ Gettime(clock)[2] = w
      BY <3>10
    <3> QED BY <3>4, <3>13, <3>14 DEF b
  <2>3. CASE clock.os = "posix"
    BY <2>3 DEF Gettime, TimeOf
  <2> QED BY <2>1, <2>2, <2>3, ClockIs
<1> QED
  BY <1>1, <1>2, <1>3

LEMMA ClockTimeGetIsTime ==
  ASSUME Typed, ClockTimeGet
  PROVE  ClockIsTime'
<1>1. PICK clock_id \in ClockIds, clock \in Clocks, p \in Pointers :
        /\ call' = [op |-> "clock_time_get", clock |-> clock, out |-> p]
        /\ IF clock_id \notin 0 .. 3 THEN Ends(WASI_INVAL_ERROR) /\ UNCHANGED <<memory, touched>>
           ELSE IF ~InMemory(p, 2) THEN pc' = "trapped" /\ UNCHANGED <<memory, touched, ret>>
           ELSE /\ \E v \in IF ClockFails(clock) \/ SignedOverflow(clock) THEN 0 .. U64 - 1 ELSE {Nanoseconds(Gettime(clock))} :
                     memory' = Poke(memory, p, I64(v))
                /\ touched' = Cells(p, 2)
                /\ Ends(IF ClockFails(clock) THEN -1 ELSE 0)
  BY DEF ClockTimeGet, ClockGet
<1>2. SUFFICES ASSUME pc' = "done", ret' = 0, ProductFits(clock)
              PROVE  Peek(call.out)' + U32 * Peek(call.out + 1)' = TimeOf(clock) % U64
  BY <1>1 DEF ClockIsTime, Ended, TimeOf
<1>3. InMemory(p, 2) /\ ~ClockFails(clock) /\ ~SignedOverflow(clock)
  BY <1>1, <1>2 DEF Ends, WASI_INVAL_ERROR, ProductFits
<1> DEFINE v == Nanoseconds(Gettime(clock))
           mem == memory
           n == Size
           cells == I64(v)
<1>4. memory' = Poke(mem, p, cells)
  BY <1>1, <1>2, <1>3 DEF Ends, WASI_INVAL_ERROR
<1>5. v \in 0 .. U64 - 1 /\ v = TimeOf(clock) % U64
  BY <1>2, <1>3, TimespecIs, NanosecondsIs, TimeIs
<1>5a. cells \in Seq(Cell)
  <2> HIDE DEF v
  <2> QED BY <1>5, I64Is
<1>6. Len(cells) = 2 /\ cells[1] + U32 * cells[2] = v
  <2> HIDE DEF v
  <2> QED BY <1>5, I64Is
<1>6a. p \in Nat /\ n \in Nat /\ mem \in [1 .. n -> Cell]
  BY MinWasiAssumption, CellIs, PeekIs DEF Typed, TypeOK
<1>7. p + 2 <= n
  BY <1>3 DEF InMemory
<1>8. call'.out = p
  BY <1>1
<1> HIDE DEF v, mem, n, cells
<1>9. /\ Poke(mem, p, cells) \in [1 .. n -> Cell] /\ Len(Poke(mem, p, cells)) = n
      /\ \A c \in 1 .. n :
           Poke(mem, p, cells)[c] = IF c - 1 \in Cells(p, Len(cells)) THEN cells[c - p] ELSE mem[c]
  BY <1>5a, <1>6a, PokeIs
<1>10. /\ p + 1 \in 1 .. n /\ (p + 1) - 1 \in Cells(p, 2) /\ (p + 1) - p = 1
       /\ p + 2 \in 1 .. n /\ (p + 2) - 1 \in Cells(p, 2) /\ (p + 2) - p = 2
  BY <1>7, <1>6a DEF Cells
<1>11. memory'[p + 1] = cells[1] /\ memory'[p + 2] = cells[2] /\ Size' = n
  BY <1>4, <1>6, <1>9, <1>10 DEF Size
<1>12. p < n /\ p + 1 < n /\ (p + 1) + 1 = p + 2
  BY <1>7, <1>6a
<1>13. Peek(call.out)' = cells[1] /\ Peek(call.out + 1)' = cells[2]
  BY <1>8, <1>11, <1>12 DEF Peek
<1> QED
  BY <1>5, <1>6, <1>13

LEMMA OthersKeepTime ==
  ASSUME Typed, ClockIsTime, [Next]_vars, ~ClockTimeGet
  PROVE  ClockIsTime'
<1>1. CASE Prepare \/ FdCall \/ NoMoreIovecs \/ StoreNum \/ FdWrite \/ FdRead
  <2>1. pc' # "done" \/ call' \in FdCalls
    <3>1. CASE Prepare BY <3>1 DEF Prepare
    <3>2. CASE FdCall
      BY <3>2 DEF FdCall, FdCalls
    <3>3. CASE NoMoreIovecs BY <3>3 DEF NoMoreIovecs
    <3>4. CASE StoreNum BY <3>4 DEF StoreNum, Typed, AtCall
    <3>5. CASE FdWrite BY <3>5 DEF FdWrite, MoreIovecs, Typed, AtCall
    <3>6. CASE FdRead BY <3>6 DEF FdRead, MoreIovecs, Typed, AtCall
    <3> QED BY <1>1, <3>1, <3>2, <3>3, <3>4, <3>5, <3>6
  <2> QED BY <2>1 DEF ClockIsTime, Ended, FdCalls
<1>2. CASE TrapAtIovec \/ TrapAtNum \/ TrapAtStringRef
  BY <1>2 DEF TrapAtIovec, TrapAtNum, TrapAtStringRef, Trap, ClockIsTime, Ended
<1>3. CASE StringsSizesGet
  <2>1. call'.op = "sizes_get"
    BY <1>3 DEF StringsSizesGet
  <2> QED BY <2>1 DEF ClockIsTime, Ended
<1>4. CASE StringsGet
  BY <1>4 DEF StringsGet, ClockIsTime, Ended
<1>5. CASE StringRefInvalid \/ StringFails \/ CopyString \/ NoMoreStrings
  <2>1. call' = call /\ pc = "string"
    BY <1>5 DEF StringRefInvalid, StringFails, CopyString, NoMoreStrings, MoreStrings
  <2>2. call.op = "strings_get"
    BY <2>1 DEF Typed, AtCall, StringsCalls
  <2> QED BY <2>1, <2>2 DEF ClockIsTime, Ended
<1>6. CASE ClockResGet
  <2>1. call'.op = "clock_res_get"
    BY <1>6 DEF ClockResGet, ClockGet
  <2> QED BY <2>1 DEF ClockIsTime, Ended
<1>7. CASE FdPrestatGet \/ ProcExit \/ Unsupported
  <2>1. call'.op \in {"fd_prestat_get", "proc_exit", "unsupported"}
    BY <1>7 DEF FdPrestatGet, ProcExit, Unsupported
  <2> QED BY <2>1 DEF ClockIsTime, Ended
<1>8. CASE UNCHANGED vars
  BY <1>8 DEF vars, ClockIsTime, Ended, Peek, Size
<1> QED
  BY <1>1, <1>2, <1>3, <1>4, <1>5, <1>6, <1>7, <1>8 DEF Next

\* What a successful clock_time_get stores is the time of the clock modulo a
\* u64 of nanoseconds, for every reading of every clock whose 64-bit product
\* does not overflow: the signed one of the Windows counter's remainder and 10^9,
\* the unsigned one of the ticks and the timebase of macOS.
THEOREM ClockCorrect == Spec => []ClockIsTime
<1>1. Init => ClockIsTime
  BY DEF Init, ClockIsTime, Ended
<1>2. Typed /\ ClockIsTime /\ [Next]_vars => ClockIsTime'
  BY ClockTimeGetIsTime, OthersKeepTime
<1> QED
  BY <1>1, <1>2, TypedInvariant, PTL DEF Spec

-----------------------------------------------------------------------------
(***************************************************************************)
(* strings_get                                                             *)
(***************************************************************************)
Table(strings) == Sizes(Chosen(strings))

\* Memory mem has the pointer to the k-th string in the array, and the string
\* with its zero where the pointer leads, behind the k - 1 strings before it.
Placed(mem, strings, arr, buf, k) ==
  /\ mem[arr + k] = buf + Table(strings)[k - 1]
  /\ \A c \in 1 .. Len(strings[k]) + 1 :
       mem[buf + Table(strings)[k - 1] + c] = Append(strings[k], 0)[c]

Apart(strings, arr, buf) ==
  Cells(arr, Len(Chosen(strings))) \cap Cells(buf, BufSize(strings)) = {}

\* What the loop of strings_get has done after i iterations.
StringLoop ==
  pc = "string" =>
    /\ i <= Len(Chosen(call.strings)) /\ sum = Table(call.strings)[i]
    /\ \A k \in 1 .. i : ~TooLong(call.strings[k])
    /\ i > 0 => call.arr + i <= Size /\ call.buf + sum <= Size
    /\ touched \subseteq Cells(call.arr, i) \cup Cells(call.buf, sum)
    /\ Apart(call.strings, call.arr, call.buf) =>
         \A k \in 1 .. i : Placed(memory, call.strings, call.arr, call.buf, k)

\* The table of the sums, string by string.
LEMMA TableIs ==
  ASSUME NEW strings \in Seq(Seq(Cell))
  PROVE  /\ Len(Chosen(strings)) \in Nat /\ Table(strings)[0] = 0
         /\ \A k \in 0 .. Len(Chosen(strings)) : Table(strings)[k] \in Nat
         /\ \A k \in 1 .. Len(Chosen(strings)) :
              /\ Len(strings[k]) \in Nat /\ strings[k] \in Seq(Cell)
              /\ Table(strings)[k] = Table(strings)[k - 1] + Len(strings[k]) + 1
         /\ \A n \in 0 .. Len(Chosen(strings)) : \A k \in 0 .. n : Table(strings)[k] <= Table(strings)[n]
         /\ BufSize(strings) = Table(strings)[Len(Chosen(strings))]
<1> DEFINE all == Chosen(strings)
           g == Table(strings)
<1>1. /\ all \in Seq(Seq(Cell)) /\ Len(all) \in Nat
      /\ \A k \in 1 .. Len(all) : all[k] = strings[k] /\ strings[k] \in Seq(Cell)
  BY ChosenIs, CellIs
<1>2. Summed(all, Len(all), g)
  BY BufSizeIs DEF Table
<1>3. BufSize(strings) = g[Len(all)]
  BY DEF BufSize, Table
<1> HIDE DEF all, g
<1>4. \A n \in 0 .. Len(all) : \A k \in 0 .. n : g[k] <= g[n]
  <2> TAKE n \in 0 .. Len(all)
  <2> TAKE k \in 0 .. n
  <2>1. k \in 0 .. Len(all) /\ n \in k .. Len(all)
    BY <1>1
  <2> QED BY <1>1, <1>2, <2>1, SummedGrows
<1>5. \A k \in 1 .. Len(all) : Len(strings[k]) \in Nat
  BY <1>1, LenProperties
<1>6. /\ g[0] = 0
      /\ \A k \in 0 .. Len(all) : g[k] \in Nat
      /\ \A k \in 1 .. Len(all) : g[k] = g[k - 1] + Len(strings[k]) + 1
  BY <1>1, <1>2 DEF Summed
<1> QED
  BY <1>1, <1>3, <1>4, <1>5, <1>6 DEF all, g

\* An iteration places one more string and leaves the others alone.
LEMMA PlacedStep ==
  ASSUME NEW strings \in Seq(Seq(Cell)), NEW arr \in Nat, NEW buf \in Nat, Apart(strings, arr, buf),
         NEW j \in Nat, j < Len(Chosen(strings)), NEW g, g = Table(strings),
         NEW n \in Nat, NEW old, NEW new,
         arr + j + 1 <= n, buf + g[j] + Len(strings[j + 1]) + 1 <= n,
         \A c \in 1 .. n :
           new[c] = IF c - 1 \in Cells(buf + g[j], Len(strings[j + 1]) + 1)
                    THEN Append(strings[j + 1], 0)[c - (buf + g[j])]
                    ELSE IF c - 1 = arr + j THEN buf + g[j] ELSE old[c],
         \A k \in 1 .. j : Placed(old, strings, arr, buf, k)
  PROVE  \A k \in 1 .. j + 1 : Placed(new, strings, arr, buf, k)
<1> DEFINE m == Len(Chosen(strings))
           l == Len(strings[j + 1])
           gj == g[j]
           gm == g[m]
<1>1. /\ m \in Nat /\ \A k \in 0 .. m : g[k] \in Nat
      /\ \A k \in 1 .. m : Len(strings[k]) \in Nat /\ g[k] = g[k - 1] + Len(strings[k]) + 1
      /\ \A x \in 0 .. m : \A k \in 0 .. x : g[k] <= g[x]
      /\ BufSize(strings) = gm
  BY TableIs
<1> HIDE DEF m
<1>2. j \in 0 .. m /\ j + 1 \in 1 .. m /\ j + 1 \in 0 .. m /\ (j + 1) - 1 = j /\ m \in 0 .. m
  BY <1>1 DEF m
<1>3. gj \in Nat /\ gm \in Nat /\ l \in Nat /\ gj + l + 1 <= gm
  <2>1. g[j] \in Nat /\ g[m] \in Nat /\ l \in Nat
    BY <1>1, <1>2
  <2>2. g[j + 1] = g[j] + l + 1
    BY <1>1, <1>2
  <2>3. g[j + 1] <= g[m]
    BY <1>1, <1>2
  <2> QED BY <2>1, <2>2, <2>3
<1>4. /\ arr + j + 1 <= n /\ buf + gj + l + 1 <= n
      /\ \A c \in 1 .. n :
           new[c] = IF c - 1 \in Cells(buf + gj, l + 1) THEN Append(strings[j + 1], 0)[c - (buf + gj)]
                    ELSE IF c - 1 = arr + j THEN buf + gj ELSE old[c]
  OBVIOUS
<1>5. Cells(arr, m) \cap Cells(buf, gm) = {}
  BY <1>1 DEF Apart, m
<1>6. j < m
  BY DEF m
<1> HIDE DEF l, gj, gm
<1>7. \A x, y \in Nat : x < m /\ y < gm => arr + x # buf + y
  <2> TAKE x, y \in Nat
  <2>1. SUFFICES ASSUME x < m, y < gm, arr + x = buf + y PROVE FALSE
    OBVIOUS
  <2>2. arr + x \in Cells(arr, m)
    BY <1>1, <2>1 DEF Cells
  <2>3. buf + y \in Cells(buf, gm)
    BY <1>3, <2>1 DEF Cells
  <2> QED BY <1>5, <2>1, <2>2, <2>3
<1>8. ASSUME NEW k \in 1 .. j PROVE Placed(new, strings, arr, buf, k)
  <2> DEFINE gk == g[k - 1]
             ll == Len(strings[k])
             x == k - 1
  <2>1. /\ k \in 1 .. m /\ k - 1 \in 0 .. m /\ k \in 0 .. j /\ k \in Nat /\ k >= 1 /\ k <= j
        /\ x \in Nat /\ x < m /\ x # j /\ (arr + k) - 1 = arr + x
    BY <1>1, <1>2, <1>6
  <2>2. gk \in Nat /\ ll \in Nat /\ gk + ll + 1 <= gj
    <3>1. g[k] = g[k - 1] + ll + 1 /\ ll \in Nat /\ g[k - 1] \in Nat
      BY <1>1, <2>1
    <3>2. g[k] <= g[j]
      BY <1>1, <1>2, <2>1
    <3> QED BY <3>1, <3>2 DEF gj
  <2>3. /\ old[arr + k] = buf + gk
        /\ \A c \in 1 .. ll + 1 : old[(buf + gk) + c] = Append(strings[k], 0)[c]
    BY DEF Placed
  <2> HIDE DEF gk, ll, x
  <2>4. new[arr + k] = buf + gk
    <3>1. arr + k \in 1 .. n
      BY <1>4, <2>1
    <3>2. (arr + k) - 1 # arr + j
      BY <2>1
    <3>3. (arr + k) - 1 \notin Cells(buf + gj, l + 1)
      <4>1. SUFFICES ASSUME arr + x \in Cells(buf + gj, l + 1) PROVE FALSE
        BY <2>1
      <4> DEFINE y == arr + x - buf
      <4>2. y \in Nat /\ y < gm /\ arr + x = buf + y
        BY <1>3, <2>1, <4>1 DEF Cells
      <4> HIDE DEF y
      <4> QED BY <1>7, <2>1, <4>2
    <3> QED BY <1>4, <2>3, <3>1, <3>2, <3>3
  <2>5. ASSUME NEW c \in 1 .. ll + 1 PROVE new[(buf + gk) + c] = Append(strings[k], 0)[c]
    <3> DEFINE d == (buf + gk) + c
               y == gk + c - 1
    <3>1. c \in Nat /\ c >= 1 /\ c <= ll + 1
      BY <2>2
    <3>2. /\ d \in Nat /\ d >= 1 /\ d <= buf + gj /\ d \in 1 .. n
          /\ y \in Nat /\ y < gm /\ d - 1 = buf + y
      <4>1. y \in Nat /\ y < gm
        BY ONLY <1>3, <2>2, <3>1
      <4>2. d \in Nat /\ d >= 1 /\ d <= buf + gj /\ d - 1 = buf + y
        BY ONLY <1>3, <2>2, <3>1, buf \in Nat
      <4>3. buf + gj <= n
        BY ONLY <1>3, <1>4, buf \in Nat, n \in Nat
      <4>4. d \in 1 .. n
        BY ONLY <1>3, <4>2, <4>3, buf \in Nat, n \in Nat
      <4> QED BY <4>1, <4>2, <4>4
    <3>3. old[d] = Append(strings[k], 0)[c]
      BY <2>3
    <3> HIDE DEF d, y
    <3>4. d - 1 \notin Cells(buf + gj, l + 1)
      BY <1>3, <3>2 DEF Cells
    <3>5. d - 1 # arr + j
      BY <1>6, <1>7, <3>2
    <3>6. new[d] = old[d]
      BY <1>4, <3>2, <3>4, <3>5
    <3> QED BY <3>3, <3>6 DEF d
  <2> QED BY <2>4, <2>5 DEF Placed, gk, ll
<1>9. Placed(new, strings, arr, buf, j + 1)
  <2>1. new[arr + (j + 1)] = buf + gj
    <3>1. arr + (j + 1) \in 1 .. n /\ (arr + (j + 1)) - 1 = arr + j
      BY <1>4
    <3>2. arr + j \notin Cells(buf + gj, l + 1)
      <4>1. SUFFICES ASSUME arr + j \in Cells(buf + gj, l + 1) PROVE FALSE
        OBVIOUS
      <4> DEFINE y == arr + j - buf
      <4>2. y \in Nat /\ y < gm /\ arr + j = buf + y
        BY <1>3, <4>1 DEF Cells
      <4> HIDE DEF y
      <4> QED BY <1>6, <1>7, <4>2
    <3> QED BY <1>4, <3>1, <3>2
  <2>2. ASSUME NEW c \in 1 .. l + 1 PROVE new[(buf + gj) + c] = Append(strings[j + 1], 0)[c]
    <3> DEFINE d == (buf + gj) + c
    <3>1. c \in Nat /\ c >= 1 /\ c <= l + 1
      BY <1>3
    <3>2. d \in 1 .. n /\ d - 1 \in Cells(buf + gj, l + 1) /\ d - (buf + gj) = c
      BY <1>3, <1>4, <3>1 DEF Cells
    <3> HIDE DEF d
    <3>3. new[d] = Append(strings[j + 1], 0)[d - (buf + gj)]
      BY <1>4, <3>2
    <3> QED BY <3>2, <3>3 DEF d
  <2> QED BY <1>2, <2>1, <2>2 DEF Placed, l, gj
<1> QED
  <2>1. \A k \in 1 .. j + 1 : k \in 1 .. j \/ k = j + 1
    OBVIOUS
  <2> QED BY <1>8, <1>9, <2>1

LEMMA CopyStringLoop == ASSUME Typed, StringLoop, CopyString PROVE StringLoop'
<1>1. /\ MoreStrings /\ ~RefsOverflow /\ InMemory(StringRef, 1)
      /\ ~TooLong(call.strings[i + 1]) /\ InMemory(BufRef, Len(Terminated))
      /\ touched' = touched \cup {StringRef} \cup Cells(BufRef, Len(Terminated))
      /\ call' = call
  BY DEF CopyString
<1>2. CASE Overflows(sum, Len(Terminated))
  BY <1>2 DEF CopyString, Ends, StringLoop
<1>3. CASE ~Overflows(sum, Len(Terminated))
  <2>1. PICK strings, arr, buf, j, s, n, old, new :
          /\ strings = call.strings /\ arr = call.arr /\ buf = call.buf /\ j = i /\ s = sum
          /\ n = Size /\ old = memory /\ new = memory'
    OBVIOUS
  <2>2. /\ strings \in Seq(Seq(Cell)) /\ arr \in Nat /\ buf \in Nat /\ j \in Nat /\ s \in Nat
        /\ n \in Nat /\ j + 1 \in 1 .. Len(Chosen(strings))
        /\ Len(Terminated) = Len(strings[j + 1]) + 1
        /\ Terminated = Append(strings[j + 1], 0) /\ StringRef = arr + j /\ BufRef = buf + s
    BY <1>1, <2>1, StringRefsAre, PeekIs DEF Typed, Terminated, StringRef, BufRef
  <2>3. /\ j <= Len(Chosen(strings)) /\ s = Table(strings)[j]
        /\ \A k \in 1 .. j : ~TooLong(strings[k])
        /\ touched \subseteq Cells(arr, j) \cup Cells(buf, s)
        /\ Apart(strings, arr, buf) => \A k \in 1 .. j : Placed(old, strings, arr, buf, k)
    BY <1>1, <2>1 DEF StringLoop, MoreStrings
  <2> DEFINE l == Len(strings[j + 1])
             g == Table(strings)
  <2>4. /\ g[j + 1] = s + l + 1 /\ l \in Nat /\ j < Len(Chosen(strings))
        /\ j + 1 <= Len(Chosen(strings))
    <3>1. (j + 1) - 1 = j /\ j < Len(Chosen(strings)) /\ j + 1 <= Len(Chosen(strings))
      BY <2>2, TableIs
    <3>2. g[j + 1] = g[(j + 1) - 1] + Len(strings[j + 1]) + 1 /\ Len(strings[j + 1]) \in Nat
      BY <2>2, TableIs
    <3> QED BY <2>3, <3>1, <3>2
  <2>5. arr + j + 1 <= n /\ buf + s + l + 1 <= n
    <3>1. StringRef + 1 <= n /\ BufRef + Len(Terminated) <= n
      BY <1>1, <2>1 DEF InMemory
    <3>2. arr + j + 1 <= n /\ (buf + s) + (l + 1) <= n
      BY <2>2, <3>1
    <3> HIDE DEF l
    <3> QED BY <2>2, <2>4, <3>2
  <2>6. \A c \in 1 .. n :
          new[c] = IF c - 1 \in Cells(buf + s, l + 1) THEN Append(strings[j + 1], 0)[c - (buf + s)]
                   ELSE IF c - 1 = arr + j THEN buf + s ELSE old[c]
    BY <2>1, <2>2, CopyStringIs
  <2>7. sum' = s + (l + 1) /\ i' = j + 1 /\ pc' = "string" /\ Size' = n
    BY <1>1, <1>3, <2>1, <2>2, CopyStringIs DEF CopyString, MoreStrings
  <2>8. \A k \in 1 .. j + 1 : ~TooLong(strings[k])
    <3>1. ~TooLong(strings[j + 1])
      BY <1>1, <2>1
    <3>2. \A k \in 1 .. j + 1 : k \in 1 .. j \/ k = j + 1
      BY <2>2
    <3> QED BY <2>3, <3>1, <3>2
  <2>9. touched' \subseteq Cells(arr, j + 1) \cup Cells(buf, s + (l + 1))
    <3>1. touched' = touched \cup {arr + j} \cup Cells(buf + s, l + 1)
      BY <1>1, <2>2
    <3> HIDE DEF l
    <3>2. Cells(arr, j) \subseteq Cells(arr, j + 1) /\ arr + j \in Cells(arr, j + 1)
      BY <2>2 DEF Cells
    <3>3. Cells(buf, s) \subseteq Cells(buf, s + (l + 1))
      BY <2>2, <2>4 DEF Cells
    <3>4. Cells(buf + s, l + 1) \subseteq Cells(buf, s + (l + 1))
      BY <2>2, <2>4 DEF Cells
    <3> QED BY <2>3, <3>1, <3>2, <3>3, <3>4
  <2>10. ASSUME Apart(strings, arr, buf)
         PROVE  \A k \in 1 .. j + 1 : Placed(new, strings, arr, buf, k)
    <3>1. \A k \in 1 .. j : Placed(old, strings, arr, buf, k)
      BY <2>3, <2>10
    <3>2. PICK h : h = g
      OBVIOUS
    <3>3. h = Table(strings) /\ s = h[j]
      BY <2>3, <3>2
    <3>4. /\ buf + h[j] + Len(strings[j + 1]) + 1 <= n
          /\ \A c \in 1 .. n :
               new[c] = IF c - 1 \in Cells(buf + h[j], Len(strings[j + 1]) + 1)
                        THEN Append(strings[j + 1], 0)[c - (buf + h[j])]
                        ELSE IF c - 1 = arr + j THEN buf + h[j] ELSE old[c]
      BY <2>5, <2>6, <3>3
    <3>5. j < Len(Chosen(strings)) /\ arr + j + 1 <= n
      BY <2>4, <2>5
    <3> HIDE DEF l, g
    <3> QED BY <2>2, <2>10, <3>1, <3>3, <3>4, <3>5, PlacedStep
  <2>11. /\ j + 1 <= Len(Chosen(strings)) /\ s + (l + 1) = g[j + 1]
         /\ arr + (j + 1) <= n /\ buf + (s + (l + 1)) <= n
    <3> HIDE DEF l, g
    <3> QED BY <2>2, <2>4, <2>5
  <2> HIDE DEF l
  <2>12. call'.strings = strings /\ call'.arr = arr /\ call'.buf = buf /\ memory' = new
    BY <1>1, <2>1
  <2> QED BY <2>7, <2>8, <2>9, <2>10, <2>11, <2>12 DEF StringLoop
<1> QED
  BY <1>2, <1>3

\* Before the loop the sum is that of no strings.
LEMMA StringsGetLoop == ASSUME Typed, StringsGet PROVE StringLoop'
<1>1. call' \in StringsCalls /\ i' = 0 /\ sum' = 0 /\ touched' = {}
  BY DEF StringsGet, StringsCalls, Typed, AtCall
<1>2. PICK strings : strings = call'.strings
  OBVIOUS
<1>3. strings \in Seq(Seq(Cell))
  BY <1>1, <1>2, ArgumentsAre
<1>4. 0 <= Len(Chosen(strings)) /\ Table(strings)[0] = 0
  BY <1>3, TableIs
<1>5. 1 .. 0 = {}
  OBVIOUS
<1> QED
  BY <1>1, <1>2, <1>4, <1>5 DEF StringLoop

LEMMA LoopStep == ASSUME Typed, StringLoop, [Next]_vars PROVE StringLoop'
<1>1. CASE CopyString BY <1>1, CopyStringLoop
<1>2. CASE StringsGet BY <1>2, StringsGetLoop
<1>3. CASE UNCHANGED vars
  BY <1>3 DEF vars, StringLoop, Size, Apart
<1>4. ASSUME ~CopyString, ~StringsGet, ~UNCHANGED vars PROVE pc' # "string"
  <2>1. CASE Prepare BY <2>1 DEF Prepare
  <2>2. CASE FdCall BY <2>2 DEF FdCall, Ends
  <2>3. CASE FdWrite BY <2>3 DEF FdWrite, AfterTransfer, MoreIovecs, Ends
  <2>4. CASE FdRead BY <2>4 DEF FdRead, AfterTransfer, MoreIovecs, Ends
  <2>5. CASE NoMoreIovecs BY <2>5 DEF NoMoreIovecs
  <2>6. CASE TrapAtIovec \/ TrapAtNum \/ TrapAtStringRef
    BY <2>6 DEF TrapAtIovec, TrapAtNum, TrapAtStringRef, Trap
  <2>7. CASE StoreNum BY <2>7 DEF StoreNum
  <2>8. CASE StringsSizesGet BY <2>8 DEF StringsSizesGet, Ends
  <2>9. CASE StringRefInvalid BY <2>9 DEF StringRefInvalid, Ends
  <2>10. CASE StringFails BY <2>10 DEF StringFails, Ends
  <2>11. CASE NoMoreStrings BY <2>11 DEF NoMoreStrings, Ends
  <2>12. CASE ClockTimeGet BY <2>12 DEF ClockTimeGet, ClockGet, Ends
  <2>13. CASE ClockResGet BY <2>13 DEF ClockResGet, ClockGet, Ends
  <2>14. CASE FdPrestatGet \/ ProcExit \/ Unsupported
    BY <2>14 DEF FdPrestatGet, ProcExit, Unsupported, Ends
  <2> QED
    BY <1>4, <2>1, <2>2, <2>3, <2>4, <2>5, <2>6, <2>7, <2>8, <2>9, <2>10, <2>11, <2>12, <2>13, <2>14
    DEF Next
<1> QED
  BY <1>1, <1>2, <1>3, <1>4 DEF StringLoop

\* What StringsFit says of a call that has succeeded.
Fits ==
  LET n == Len(Chosen(call.strings))
      array == Cells(call.arr, n)
      buffer == Cells(call.buf, BufSize(call.strings))
  IN  /\ ~SizesInvalid(call.strings)
      /\ touched \subseteq array \cup buffer
      /\ array \cap buffer = {} =>
           \A k \in 1 .. n :
             LET str == Append(call.strings[k], 0)
             IN  [c \in DOMAIN str |-> Peek(Peek(call.arr + k - 1) + c - 1)] = str

LEMMA NoMoreStringsFit == ASSUME Typed, StringLoop, NoMoreStrings PROVE StringsFit'
<1>1. PICK strings, arr, buf, n, mem :
        strings = call.strings /\ arr = call.arr /\ buf = call.buf /\ n = Size /\ mem = memory
  OBVIOUS
<1>2. /\ strings \in Seq(Seq(Cell)) /\ arr \in Nat /\ buf \in Nat /\ i \in Nat /\ n \in Nat /\ sum \in Cell
      /\ mem \in [1 .. n -> Cell]
  BY <1>1, ArgumentsAre, CellIs, PeekIs DEF NoMoreStrings, Typed, TypeOK, AtCall
<1> DEFINE m == Len(Chosen(strings))
           size == BufSize(strings)
<1>3. m \in Nat /\ i = m /\ sum = Table(strings)[m] /\ size = sum
  <2>1. m \in Nat
    BY <1>2, TableIs
  <2>2. i >= m /\ i <= m /\ sum = Table(strings)[i]
    BY <1>1 DEF NoMoreStrings, StringLoop
  <2>3. i = m
    BY <1>2, <2>1, <2>2
  <2>4. size = Table(strings)[m]
    BY <1>2, TableIs
  <2> QED BY <2>1, <2>2, <2>3, <2>4
<1>4. /\ \A k \in 1 .. m : ~TooLong(strings[k])
      /\ m > 0 => arr + m <= n /\ buf + size <= n
      /\ touched \subseteq Cells(arr, m) \cup Cells(buf, size)
      /\ Apart(strings, arr, buf) => \A k \in 1 .. m : Placed(mem, strings, arr, buf, k)
  BY <1>1, <1>3 DEF NoMoreStrings, StringLoop
<1>5. ~SizesInvalid(strings)
  <2>1. DOMAIN Chosen(strings) = 1 .. m
    <3>1. Chosen(strings) \in Seq(Seq(Cell))
      BY <1>2, ChosenIs
    <3> QED BY <3>1, LenProperties
  <2>2. size < U32
    BY <1>2, <1>3, CellIs
  <2>3. size \in Nat
    BY <1>2, <1>3, CellIs
  <2> QED BY <1>4, <2>1, <2>2, <2>3, CellIs DEF SizesInvalid
<1>6. ASSUME Apart(strings, arr, buf), NEW k \in 1 .. m
      PROVE  LET str == Append(strings[k], 0)
             IN  [c \in DOMAIN str |-> Peek(Peek(arr + k - 1) + c - 1)] = str
  <2> DEFINE str == Append(strings[k], 0)
             l == Len(strings[k])
             g == Table(strings)[k - 1]
             b == buf + g
  <2>1. Placed(mem, strings, arr, buf, k)
    BY <1>4, <1>6
  <2>2. /\ strings[k] \in Seq(Cell) /\ l \in Nat /\ g \in Nat /\ g + l + 1 <= size /\ k \in Nat /\ k >= 1
        /\ k <= m /\ m > 0
    <3>1. /\ k \in 1 .. m /\ k - 1 \in 0 .. m /\ k \in 0 .. m /\ m \in 0 .. m
          /\ k \in Nat /\ k >= 1 /\ k <= m /\ m > 0
      BY <1>3
    <3>2. strings[k] \in Seq(Cell) /\ l \in Nat /\ Table(strings)[k] = g + l + 1
      BY <1>2, <3>1, TableIs
    <3>3. Table(strings)[k] <= Table(strings)[m] /\ g \in Nat
      BY <1>2, <3>1, TableIs
    <3> QED BY <1>3, <3>1, <3>2, <3>3
  <2>3. str \in Seq(Cell) /\ Len(str) = l + 1
    BY <2>2, CellIs, AppendProperties
  <2>4. DOMAIN str = 1 .. l + 1 /\ str = [c \in 1 .. l + 1 |-> str[c]]
    <3> HIDE DEF str, l
    <3> QED BY <2>3, LenProperties, ElementOfSeq, SeqDef
  <2>5. mem[arr + k] = b /\ \A c \in 1 .. l + 1 : mem[b + c] = str[c]
    BY <2>1 DEF Placed
  <2> HIDE DEF g, l, str, m, size
  <2>6. arr + m <= n /\ buf + size <= n
    BY <1>4, <2>2
  <2>7. Peek(arr + k - 1) = b
    <3>1. arr + k - 1 < n /\ (arr + k - 1) + 1 = arr + k
      BY <1>2, <1>3, <2>2, <2>6
    <3> HIDE DEF b
    <3> QED BY <1>1, <2>5, <3>1 DEF Peek
  <2>8. \A c \in 1 .. l + 1 : Peek(b + c - 1) = str[c]
    <3> TAKE c \in 1 .. l + 1
    <3>1. size \in Nat
      BY <1>2, <1>3, CellIs
    <3>2. b + c - 1 < n /\ (b + c - 1) + 1 = b + c
      BY <1>2, <2>2, <2>6, <3>1
    <3>3. mem[b + c] = str[c]
      BY <2>5
    <3> HIDE DEF b
    <3> QED BY <1>1, <3>2, <3>3 DEF Peek
  <2> HIDE DEF b
  <2>9. [c \in 1 .. l + 1 |-> Peek(Peek(arr + k - 1) + c - 1)] = [c \in 1 .. l + 1 |-> str[c]]
    BY <2>7, <2>8
  <2>10. [c \in DOMAIN str |-> Peek(Peek(arr + k - 1) + c - 1)] = str
    BY <2>4, <2>9
  <2> QED BY <2>10 DEF str
<1>7. UNCHANGED <<memory, call, touched>>
  BY DEF NoMoreStrings
<1>8. touched \subseteq Cells(arr, m) \cup Cells(buf, size)
  BY <1>4
<1> HIDE DEF m, size
<1>9. Fits
  <2>1. Apart(strings, arr, buf) <=> Cells(arr, m) \cap Cells(buf, size) = {}
    BY DEF Apart, m, size
  <2> QED BY <1>1, <1>5, <1>6, <1>8, <2>1 DEF Fits, m, size
<1>10. Fits'
  BY <1>7, <1>9 DEF Fits, Peek, Size
<1> QED
  BY <1>10 DEF StringsFit, Fits

LEMMA OthersKeepStrings ==
  ASSUME Typed, StringsFit, [Next]_vars, ~NoMoreStrings
  PROVE  StringsFit'
<1>1. CASE Prepare \/ FdCall \/ NoMoreIovecs \/ StoreNum \/ FdWrite \/ FdRead
  <2>1. pc' # "done" \/ call' \in FdCalls
    <3>1. CASE Prepare BY <3>1 DEF Prepare
    <3>2. CASE FdCall
      BY <3>2 DEF FdCall, FdCalls
    <3>3. CASE NoMoreIovecs BY <3>3 DEF NoMoreIovecs
    <3>4. CASE StoreNum BY <3>4 DEF StoreNum, Typed, AtCall
    <3>5. CASE FdWrite BY <3>5 DEF FdWrite, MoreIovecs, Typed, AtCall
    <3>6. CASE FdRead BY <3>6 DEF FdRead, MoreIovecs, Typed, AtCall
    <3> QED BY <1>1, <3>1, <3>2, <3>3, <3>4, <3>5, <3>6
  <2> QED BY <2>1 DEF StringsFit, Ended, FdCalls
<1>2. CASE TrapAtIovec \/ TrapAtNum \/ TrapAtStringRef
  BY <1>2 DEF TrapAtIovec, TrapAtNum, TrapAtStringRef, Trap, StringsFit, Ended
<1>3. CASE StringsSizesGet
  <2>1. call'.op = "sizes_get"
    BY <1>3 DEF StringsSizesGet
  <2> QED BY <2>1 DEF StringsFit, Ended
<1>4. CASE StringsGet
  BY <1>4 DEF StringsGet, StringsFit, Ended
<1>5. CASE StringRefInvalid \/ StringFails \/ CopyString
  <2>1. pc' \in {"string", "trapped"} \/ ret' = WASI_INVAL_ERROR
    <3>1. CASE StringRefInvalid BY <3>1 DEF StringRefInvalid, Ends
    <3>2. CASE StringFails BY <3>2 DEF StringFails, Ends
    <3>3. CASE CopyString BY <3>3 DEF CopyString, MoreStrings, Ends
    <3> QED BY <1>5, <3>1, <3>2, <3>3
  <2> QED BY <2>1 DEF StringsFit, Ended, WASI_INVAL_ERROR, WASI_SUCCESS
<1>6. CASE ClockTimeGet \/ ClockResGet
  <2>1. call'.op \in {"clock_time_get", "clock_res_get"}
    BY <1>6 DEF ClockTimeGet, ClockResGet, ClockGet
  <2> QED BY <2>1 DEF StringsFit, Ended
<1>7. CASE FdPrestatGet \/ ProcExit \/ Unsupported
  <2>1. call'.op \in {"fd_prestat_get", "proc_exit", "unsupported"}
    BY <1>7 DEF FdPrestatGet, ProcExit, Unsupported
  <2> QED BY <2>1 DEF StringsFit, Ended
<1>8. CASE UNCHANGED vars
  <2>1. memory' = memory /\ call' = call /\ touched' = touched /\ pc' = pc /\ ret' = ret
    BY <1>8 DEF vars
  <2> QED
    BY <2>1 DEF StringsFit, Ended, Peek, Size
<1> QED
  BY <1>1, <1>2, <1>3, <1>4, <1>5, <1>6, <1>7, <1>8 DEF Next

\* What a successful strings_get wrote fits into the array and the buffer that
\* strings_sizes_get asks for, and every pointer leads to its string: for any
\* strings, any limit and any two addresses.
THEOREM StringsCorrect == Spec => []StringsFit
<1>1. Init => StringLoop /\ StringsFit
  BY DEF Init, StringLoop, StringsFit, Ended
<1>2. Typed /\ StringLoop /\ StringsFit /\ [Next]_vars => StringLoop' /\ StringsFit'
  BY LoopStep, NoMoreStringsFit, OthersKeepStrings
<1> QED
  BY <1>1, <1>2, TypedInvariant, PTL DEF Spec

-----------------------------------------------------------------------------
(***************************************************************************)
(* What fd_write wrote                                                     *)
(***************************************************************************)
\* g is the table of the concatenations of the first pieces, up to m.
Joined(pieces, m, g) ==
  g = [k \in 1 .. m |-> IF k = 1 THEN pieces[k] ELSE g[k - 1] \o pieces[k]]

\* There is such a table: otherwise take the least m that has none.
LEMMA JoinedExists ==
  ASSUME NEW pieces, NEW m \in Nat
  PROVE  \E g : Joined(pieces, m, g)
<1> DEFINE Bad == {k \in Nat : ~\E g : Joined(pieces, k, g)}
<1>1. SUFFICES ASSUME Bad # {} PROVE FALSE
  OBVIOUS
<1>2. PICK l \in Bad : \A k \in Bad : <<k, l>> \notin OpToRel(<, Nat)
  BY <1>1, NatLessThanWellFounded, WFMin
<1>3. l \in Nat /\ ~\E g : Joined(pieces, l, g)
  BY <1>2
<1>4. l # 0
  <2>1. ASSUME l = 0 PROVE FALSE
    <3> DEFINE g == [k \in 1 .. 0 |-> k]
    <3>1. g = [k \in 1 .. 0 |-> IF k = 1 THEN pieces[k] ELSE g[k - 1] \o pieces[k]]
      OBVIOUS
    <3> QED BY <1>3, <2>1, <3>1 DEF Joined
  <2> QED BY <2>1
<1>5. l - 1 \in Nat /\ l - 1 < l
  BY <1>3, <1>4
<1>6. l - 1 \notin Bad
  BY <1>2, <1>3, <1>5 DEF OpToRel
<1>7. PICK g : Joined(pieces, l - 1, g)
  BY <1>5, <1>6
<1> DEFINE new == [k \in 1 .. l |-> IF k = l THEN IF k = 1 THEN pieces[k] ELSE g[k - 1] \o pieces[k] ELSE g[k]]
<1>8. \A k \in 1 .. l : new[k] = IF k = 1 THEN pieces[k] ELSE new[k - 1] \o pieces[k]
  <2> TAKE k \in 1 .. l
  <2>1. \A x \in 1 .. l - 1 : x # l /\ x \in 1 .. l /\ new[x] = g[x]
    BY <1>3
  <2>2. CASE k = l
    <3>1. new[k] = IF k = 1 THEN pieces[k] ELSE g[k - 1] \o pieces[k]
      BY <2>2
    <3>2. k # 1 => k - 1 \in 1 .. l - 1
      BY <1>3, <2>2
    <3> QED BY <2>1, <3>1, <3>2
  <2>3. CASE k # l
    <3>1. k \in 1 .. l - 1 /\ (k # 1 => k - 1 \in 1 .. l - 1)
      BY <1>3, <2>3
    <3>2. g[k] = IF k = 1 THEN pieces[k] ELSE g[k - 1] \o pieces[k]
      BY <1>7, <3>1 DEF Joined
    <3> QED BY <2>1, <3>1, <3>2
  <2> QED BY <2>2, <2>3
<1>9. new = [k \in 1 .. l |-> new[k]]
  OBVIOUS
<1> HIDE DEF new
<1>10. Joined(pieces, l, new)
  BY <1>8, <1>9 DEF Joined
<1> QED
  BY <1>3, <1>10

Joins(pieces) == CHOOSE g : Joined(pieces, Len(pieces), g)

LEMMA FlattenIs ==
  ASSUME NEW S, NEW pieces \in Seq(S)
  PROVE  /\ FlattenSeq(pieces) = IF Len(pieces) = 0 THEN <<>> ELSE Joins(pieces)[Len(pieces)]
         /\ \A k \in 1 .. Len(pieces) :
              Joins(pieces)[k] = IF k = 1 THEN pieces[k] ELSE Joins(pieces)[k - 1] \o pieces[k]
<1>1. Len(pieces) \in Nat
  BY LenProperties
<1>2. Joined(pieces, Len(pieces), Joins(pieces))
  BY <1>1, JoinedExists DEF Joins
<1>3. CASE Len(pieces) = 0
  <2>1. pieces = <<>>
    BY <1>3, EmptySeq
  <2> QED BY <1>3, <2>1 DEF FlattenSeq
<1>4. CASE Len(pieces) # 0
  <2>1. FlattenSeq(pieces) = Joins(pieces)[Len(pieces)]
    BY <1>4 DEF FlattenSeq, Joins, Joined
  <2> QED BY <1>2, <1>4, <2>1 DEF Joined
<1> QED
  BY <1>3, <1>4

\* The buffers of the iovecs, as WrittenIsGathered names them.
Buffer(k) ==
  [n \in 1 .. Peek((call.iov + 2 * (k - 1) + 1) % U32) |-> Peek(Peek((call.iov + 2 * (k - 1)) % U32) + n - 1)]
Buffers == [k \in 1 .. call.iovcnt |-> Buffer(k)]

\* After i iovecs fd_write has written their buffers.
Gathered ==
  call \in FdCalls /\ call.op = "fd_write" =>
    /\ pc = "iovec" => i <= call.iovcnt /\ out = IF i = 0 THEN <<>> ELSE Joins(Buffers)[i]
    /\ pc = "store_num" /\ ret = WASI_SUCCESS => out = FlattenSeq(Buffers)

LEMMA BuffersAre ==
  ASSUME TypeOK, call \in FdCalls
  PROVE  /\ Buffers \in Seq(Seq(Cell)) /\ Len(Buffers) = call.iovcnt /\ call.iovcnt \in Nat
         /\ \A k \in 1 .. call.iovcnt : Buffers[k] = Buffer(k) /\ Buffer(k) \in Seq(Cell)
<1>1. call.iovcnt \in Nat /\ call.iov \in Nat
  BY ArgumentsAre, CellIs
<1>2. ASSUME NEW k \in 1 .. call.iovcnt PROVE Buffer(k) \in Seq(Cell)
  <2> DEFINE x == (call.iov + 2 * (k - 1)) % U32
             y == (call.iov + 2 * (k - 1) + 1) % U32
             ptr == Peek(x)
             len == Peek(y)
  <2>1. call.iov + 2 * (k - 1) \in Nat /\ call.iov + 2 * (k - 1) + 1 \in Nat
    BY <1>1
  <2>2. \A z \in Nat : z % U32 \in Nat
    BY CellIs
  <2>3. x \in Nat /\ y \in Nat
    BY <2>1, <2>2
  <2>4. Buffer(k) = [n \in 1 .. len |-> Peek(ptr + n - 1)]
    BY DEF Buffer
  <2> HIDE DEF x, y
  <2>5. ptr \in Nat /\ len \in Nat
    BY <2>3, PeekIs, CellIs
  <2> HIDE DEF ptr, len
  <2>6. \A n \in 1 .. len : ptr + n - 1 \in Nat
    BY <2>5
  <2>7. \A n \in 1 .. len : Peek(ptr + n - 1) \in Cell
    BY <2>6, PeekIs
  <2> QED BY <2>4, <2>5, <2>7, SeqDef
<1> DEFINE m == call.iovcnt
<1>3. Buffers \in [1 .. m -> Seq(Cell)] /\ m \in Nat
  BY <1>1, <1>2 DEF Buffers
<1>4. Buffers \in Seq(Seq(Cell)) /\ Len(Buffers) = m
  <2> HIDE DEF m
  <2> QED BY <1>3, SeqDef, LenProperties
<1> QED
  BY <1>1, <1>2, <1>4 DEF Buffers

LEMMA FdWriteGathers == ASSUME Typed, Gathered, FdWrite PROVE Gathered'
<1>1. /\ call \in FdCalls /\ call.op = "fd_write" /\ pc = "iovec" /\ i \in Nat /\ MoreIovecs
      /\ call' = call /\ memory' = memory
  BY CellIs DEF FdWrite, MoreIovecs, Typed, AtCall, TypeOK
<1>2. PICK n \in 0 .. BufLen(i) :
        out' = out \o [c \in 1 .. n |-> Peek(Ptr(i) + c - 1)] /\ AfterTransfer(n)
  BY DEF FdWrite
<1>3. /\ Buffers \in Seq(Seq(Cell)) /\ Len(Buffers) = call.iovcnt /\ call.iovcnt \in Nat
      /\ \A k \in 1 .. call.iovcnt : Buffers[k] = Buffer(k) /\ Buffer(k) \in Seq(Cell)
  BY <1>1, BuffersAre DEF Typed
<1>4. i + 1 \in 1 .. call.iovcnt /\ (i + 1) - 1 = i /\ i + 1 <= call.iovcnt
  BY <1>1, <1>3 DEF MoreIovecs
<1>5. [c \in 1 .. BufLen(i) |-> Peek(Ptr(i) + c - 1)] = Buffer(i + 1)
  <2>1. call.iov + 2 * i + 0 = call.iov + 2 * ((i + 1) - 1) /\ call.iov + 2 * i + 1 = call.iov + 2 * ((i + 1) - 1) + 1
    BY <1>1, ArgumentsAre, CellIs
  <2> QED BY <2>1 DEF Buffer, BufLen, Ptr, Iovec
<1>6. out' = out \o Buffer(i + 1) => out' = Joins(Buffers)[i + 1]
  <2>1. HAVE out' = out \o Buffer(i + 1)
  <2>2. Joins(Buffers)[i + 1] = IF i + 1 = 1 THEN Buffers[i + 1] ELSE Joins(Buffers)[(i + 1) - 1] \o Buffers[i + 1]
    BY <1>3, <1>4, FlattenIs
  <2>3. Buffers[i + 1] = Buffer(i + 1) /\ Buffer(i + 1) \in Seq(Cell)
    BY <1>3, <1>4
  <2>4. out = IF i = 0 THEN <<>> ELSE Joins(Buffers)[i]
    BY <1>1 DEF Gathered
  <2>5. CASE i = 0
    <3>1. out' = Buffer(i + 1)
      BY <2>1, <2>3, <2>4, <2>5, ConcatEmptySeq
    <3> QED BY <2>2, <2>3, <2>5, <3>1
  <2>6. CASE i # 0
    <3>1. i + 1 # 1
      BY <1>1, <2>6
    <3> QED BY <1>4, <2>1, <2>2, <2>3, <2>4, <2>6, <3>1
  <2> QED BY <2>5, <2>6
<1>7. Buffers' = Buffers
  BY <1>1 DEF Buffers, Buffer, Peek, Size
<1>8. \/ pc' = "done"
      \/ pc' = "store_num" /\ ret' = WASI_PERM_ERROR
      \/ pc' = "iovec" /\ n = BufLen(i) /\ i' = i + 1
  BY <1>1, <1>2 DEF AfterTransfer, Ends
<1>9. CASE pc' = "iovec" /\ n = BufLen(i) /\ i' = i + 1
  <2>1. out' = out \o Buffer(i + 1)
    BY <1>2, <1>5, <1>9
  <2>2. out' = Joins(Buffers)[i + 1]
    BY <1>6, <2>1
  <2>3. i' # 0 /\ i' <= call'.iovcnt
    BY <1>1, <1>4, <1>9
  <2> QED BY <1>7, <1>9, <2>2, <2>3 DEF Gathered
<1> QED
  BY <1>8, <1>9 DEF Gathered, WASI_PERM_ERROR, WASI_SUCCESS

LEMMA NoMoreIovecsGathers == ASSUME Typed, Gathered, NoMoreIovecs PROVE Gathered'
<1>1. /\ call \in FdCalls /\ pc = "iovec" /\ i \in Nat /\ i >= call.iovcnt /\ pc' = "store_num"
      /\ UNCHANGED <<memory, call, out>>
  BY CellIs DEF NoMoreIovecs, Typed, AtCall, TypeOK
<1>2. Buffers' = Buffers
  BY <1>1 DEF Buffers, Buffer, Peek, Size
<1>3. ASSUME call.op = "fd_write" PROVE out = FlattenSeq(Buffers)
  <2>1. Buffers \in Seq(Seq(Cell)) /\ Len(Buffers) = call.iovcnt /\ call.iovcnt \in Nat
    BY <1>1, BuffersAre DEF Typed
  <2>2. i <= call.iovcnt /\ out = IF i = 0 THEN <<>> ELSE Joins(Buffers)[i]
    BY <1>1, <1>3 DEF Gathered
  <2>3. i = Len(Buffers)
    BY <1>1, <2>1, <2>2
  <2>4. FlattenSeq(Buffers) = IF Len(Buffers) = 0 THEN <<>> ELSE Joins(Buffers)[Len(Buffers)]
    BY <2>1, FlattenIs
  <2> QED BY <2>2, <2>3, <2>4
<1> QED
  BY <1>1, <1>2, <1>3 DEF Gathered

LEMMA OthersGather ==
  ASSUME Typed, Gathered, [Next]_vars, ~FdWrite, ~NoMoreIovecs
  PROVE  Gathered'
<1>1. CASE FdCall
  <2>1. i' = 0 /\ out' = <<>> /\ (pc' = "iovec" \/ pc' = "done")
    BY <1>1 DEF FdCall, Ends, Typed, AtCall
  <2>2. call' \in FdCalls => 0 <= call'.iovcnt
    BY ArgumentsAre, CellIs
  <2> QED BY <2>1, <2>2 DEF Gathered
<1>2. CASE FdRead
  <2>1. call' = call /\ call.op = "fd_read"
    BY <1>2 DEF FdRead
  <2> QED BY <2>1 DEF Gathered
<1>3. CASE UNCHANGED vars
  BY <1>3 DEF vars, Gathered, Buffers, Buffer, Peek, Size
<1>4. ASSUME ~FdCall, ~FdRead, ~UNCHANGED vars PROVE pc' \notin {"iovec", "store_num"}
  <2>1. CASE Prepare BY <2>1 DEF Prepare
  <2>2. CASE TrapAtIovec \/ TrapAtNum \/ TrapAtStringRef
    BY <2>2 DEF TrapAtIovec, TrapAtNum, TrapAtStringRef, Trap
  <2>3. CASE StoreNum BY <2>3 DEF StoreNum
  <2>4. CASE StringsSizesGet BY <2>4 DEF StringsSizesGet, Ends
  <2>5. CASE StringsGet BY <2>5 DEF StringsGet
  <2>6. CASE StringRefInvalid BY <2>6 DEF StringRefInvalid, Ends
  <2>7. CASE StringFails BY <2>7 DEF StringFails, Ends
  <2>8. CASE CopyString BY <2>8 DEF CopyString, MoreStrings, Ends
  <2>9. CASE NoMoreStrings BY <2>9 DEF NoMoreStrings, Ends
  <2>10. CASE ClockTimeGet BY <2>10 DEF ClockTimeGet, ClockGet, Ends
  <2>11. CASE ClockResGet BY <2>11 DEF ClockResGet, ClockGet, Ends
  <2>12. CASE FdPrestatGet \/ ProcExit \/ Unsupported
    BY <2>12 DEF FdPrestatGet, ProcExit, Unsupported, Ends
  <2> QED
    BY <1>4, <2>1, <2>2, <2>3, <2>4, <2>5, <2>6, <2>7, <2>8, <2>9, <2>10, <2>11, <2>12 DEF Next
<1> QED
  BY <1>1, <1>2, <1>3, <1>4 DEF Gathered

\* A successful fd_write wrote the characters of its buffers in order, however
\* many there are and wherever they lie, also when they overlap.
THEOREM WrittenCorrect == Spec => []WrittenIsGathered
<1>1. Init => Gathered
  BY DEF Init, Gathered
<1>2. Typed /\ Gathered /\ [Next]_vars => Gathered'
  BY FdWriteGathers, NoMoreIovecsGathers, OthersGather
<1>3. Typed /\ Gathered => WrittenIsGathered
  <2>1. ASSUME Typed, Gathered, pc = "store_num", call.op = "fd_write", ret = WASI_SUCCESS
        PROVE  out = FlattenSeq(Buffers)
    BY <2>1 DEF Gathered, Typed, AtCall
  <2> QED BY <2>1 DEF WrittenIsGathered, Buffers, Buffer
<1> QED
  BY <1>1, <1>2, <1>3, TypedInvariant, PTL DEF Spec
=============================================================================
