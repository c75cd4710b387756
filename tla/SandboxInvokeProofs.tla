------------------------ MODULE SandboxInvokeProofs ------------------------
(***************************************************************************)
(* Proofs about SandboxInvoke, for any number of threads, sandboxes,       *)
(* functions and blocks and any depth of nesting.  StackInv says how the   *)
(* frames of a thread's stack and its thread_data hang together; the       *)
(* properties of thread_data and of callbacks follow from it.  HeapInv,    *)
(* on top of it, says who owns each block of a sandbox and what is written *)
(* there.                                                                  *)
(***************************************************************************)
EXTENDS SandboxInvoke, SequenceTheorems, NaturalsInduction, WellFoundedInduction, TLAPS

Frames == CallFrames \cup CallbackFrames
Odd(i) == i % 2 = 1

-----------------------------------------------------------------------------
(***************************************************************************)
(* The inductive invariant about stacks and thread data                    *)
(***************************************************************************)
\* TypeOK, with stack as a function to sequences.  Calls are at odd places.
Typed(frames) ==
  /\ frames \in Seq(Frames)
  /\ Len(frames) <= MaxDepth
  /\ \A i \in 1 .. Len(frames) :
       /\ Odd(i) => frames[i] \in CallFrames
       /\ ~Odd(i) => frames[i] \in CallbackFrames
Data == [sandbox : Sandboxes \cup {NoSandbox}, last_callback_invoked : Interceptors \cup {0}]

StackTypes == stack \in [Threads -> Seq(Frames)] /\ \A t \in Threads : Typed(stack[t])
DataTypes == thread_data \in [Threads -> Data]
ObjectTypes == object \in [Sandboxes -> Objects]

\* The sandbox that thread_data of t has to name.
Current(frames) ==
  IF frames = <<>> THEN NoSandbox
  ELSE IF Odd(Len(frames)) THEN frames[Len(frames)].sandbox
  ELSE frames[Len(frames) - 1].sandbox

\* Each call remembers the sandbox of the call around it, and waits in Wasm
\* while a callback runs; each callback but the last has looked up its key.
CallNested(frames, i) ==
  /\ frames[i].old_sandbox = IF i = 1 THEN NoSandbox ELSE frames[i - 2].sandbox
  /\ frames[i].touched \subseteq {frames[i].sandbox}
  /\ i < Len(frames) => frames[i].pc = "wasm"

CallbackNested(frames, i, last) ==
  /\ frames[i].pc = "entered" => i = Len(frames) /\ frames[i].number = last
  /\ frames[i].pc = "host" => frames[i].key = <<frames[i - 1].sandbox, frames[i].number>>

Nested(frames, data) ==
  /\ \A i \in 1 .. Len(frames) :
       /\ Odd(i) => CallNested(frames, i)
       /\ ~Odd(i) => CallbackNested(frames, i, data.last_callback_invoked)
  /\ data.sandbox = Current(frames)

StackInv ==
  /\ StackTypes /\ DataTypes /\ ObjectTypes
  /\ \A t \in Threads : Nested(stack[t], thread_data[t])

-----------------------------------------------------------------------------
(***************************************************************************)
(* Facts about sequences and frames                                        *)
(***************************************************************************)
\* Calls and callbacks alternate.
LEMMA Alternate ==
  ASSUME NEW i \in Nat
  PROVE  /\ Odd(1)
         /\ Odd(i + 1) <=> ~Odd(i)
         /\ Odd(i) => i >= 1 /\ (i # 1 => i >= 3)
         /\ ~Odd(i) /\ i # 0 => i >= 2
BY DEF Odd

\* Front drops the last element.
LEMMA FrontIs ==
  ASSUME NEW S, NEW q \in Seq(S), q # <<>>
  PROVE  /\ Len(q) \in Nat \ {0} /\ Last(q) \in S /\ Last(q) = q[Len(q)]
         /\ Front(q) \in Seq(S) /\ Len(Front(q)) = Len(q) - 1
         /\ \A i \in 1 .. Len(q) - 1 : Front(q)[i] = q[i]
<1>1. Len(q) \in Nat /\ Len(q) # 0
  BY EmptySeq, LenProperties
<1>2. \A i \in 1 .. Len(q) : q[i] \in S
  BY ElementOfSeq
<1>3. /\ SubSeq(q, 1, Len(q) - 1) \in Seq(S)
      /\ Len(SubSeq(q, 1, Len(q) - 1)) = IF 1 <= Len(q) - 1 THEN Len(q) - 1 - 1 + 1 ELSE 0
      /\ \A i \in 1 .. Len(q) - 1 - 1 + 1 : SubSeq(q, 1, Len(q) - 1)[i] = q[1 + i - 1]
  <2> DEFINE m == 1
             n == Len(q) - 1
  <2>1. m \in Int /\ n \in Int /\ \A i \in m .. n : q[i] \in S
    BY <1>1, <1>2
  <2> HIDE DEF m, n
  <2>2. /\ SubSeq(q, m, n) \in Seq(S)
        /\ Len(SubSeq(q, m, n)) = IF m <= n THEN n - m + 1 ELSE 0
        /\ \A i \in 1 .. n - m + 1 : SubSeq(q, m, n)[i] = q[m + i - 1]
    BY <2>1, SubSeqProperties
  <2> QED BY <2>2 DEF m, n
<1>4. /\ Front(q) \in Seq(S) /\ Len(Front(q)) = Len(q) - 1
      /\ \A i \in 1 .. Len(q) - 1 : Front(q)[i] = q[i]
  <2> DEFINE r == SubSeq(q, 1, Len(q) - 1)
  <2>1. Front(q) = r
    BY DEF Front
  <2>2. r \in Seq(S) /\ Len(r) = (IF 1 <= Len(q) - 1 THEN Len(q) - 1 - 1 + 1 ELSE 0)
        /\ \A i \in 1 .. Len(q) - 1 - 1 + 1 : r[i] = q[1 + i - 1]
    BY <1>3
  <2> HIDE DEF r
  <2>3. Len(r) = Len(q) - 1
    <3> DEFINE n == Len(q)
    <3>1. n \in Nat /\ n # 0
      BY <1>1
    <3>2. Len(r) = IF 1 <= n - 1 THEN n - 1 - 1 + 1 ELSE 0
      BY <2>2
    <3> HIDE DEF n
    <3>3. Len(r) = n - 1
      <4>1. CASE n = 1  BY <4>1, <3>2
      <4>2. CASE n > 1  BY <4>2, <3>1, <3>2
      <4> QED BY <4>1, <4>2, <3>1
    <3> QED BY <3>3 DEF n
  <2>4. ASSUME NEW i \in 1 .. Len(q) - 1 PROVE r[i] = q[i]
    <3>1. 1 + i - 1 = i /\ i \in 1 .. Len(q) - 1 - 1 + 1
      BY <1>1
    <3> QED BY <2>2, <3>1
  <2> QED BY <2>1, <2>2, <2>3, <2>4
<1>5. Last(q) \in S /\ Last(q) = q[Len(q)]
  BY <1>1, <1>2 DEF Last
<1> QED
  BY <1>1, <1>4, <1>5

\* Replacing the last element, as the interceptors do.
LEMMA LastReplaced ==
  ASSUME NEW S, NEW q \in Seq(S), q # <<>>, NEW e \in S
  PROVE  LET r == Front(q) \o <<e>>
         IN  /\ r \in Seq(S) /\ Len(r) = Len(q) /\ r[Len(q)] = e
             /\ \A i \in 1 .. Len(q) - 1 : r[i] = q[i]
<1>1. <<e>> \in Seq(S) /\ Len(<<e>>) = 1 /\ <<e>>[1] = e
  OBVIOUS
<1>2. /\ Len(q) \in Nat \ {0} /\ Front(q) \in Seq(S) /\ Len(Front(q)) = Len(q) - 1
      /\ \A i \in 1 .. Len(q) - 1 : Front(q)[i] = q[i]
  BY FrontIs
<1> DEFINE p == <<e>>
<1>3. p \in Seq(S) /\ Len(p) = 1 /\ p[1] = e
  BY <1>1
<1> HIDE DEF p
<1>4. /\ Front(q) \o p \in Seq(S) /\ Len(Front(q) \o p) = Len(Front(q)) + Len(p)
      /\ \A i \in 1 .. Len(Front(q)) + Len(p) :
           (Front(q) \o p)[i] = IF i <= Len(Front(q)) THEN Front(q)[i] ELSE p[i - Len(Front(q))]
  BY <1>2, <1>3, ConcatProperties
<1>5. /\ Front(q) \o p \in Seq(S) /\ Len(Front(q) \o p) = Len(q) /\ (Front(q) \o p)[Len(q)] = e
      /\ \A i \in 1 .. Len(q) - 1 : (Front(q) \o p)[i] = q[i]
  BY <1>2, <1>3, <1>4
<1> QED
  BY <1>5 DEF p

\* What the typing of a frame says.
LEMMA FrameFacts ==
  /\ \A f \in CallFrames : /\ f.kind = "call" /\ f.sandbox \in Sandboxes /\ f.func \in Functions
                           /\ f.pc \in {"slot", "args", "wasm", "done", "throwing"}
                           /\ f.old_sandbox \in Sandboxes \cup {NoSandbox}
                           /\ f.return_arg \in Addresses /\ f.args \in Seq(Addresses)
                           /\ f.touched \in SUBSET Sandboxes /\ f.stored \in BOOLEAN
                           /\ f.crossed \in BOOLEAN
  /\ \A f \in CallbackFrames : /\ f.kind = "callback" /\ f.number \in Interceptors
                               /\ f.pc \in {"entered", "host"}
BY DEF CallFrames, CallbackFrames

\* The frames of a typed stack.
LEMMA TypedFacts ==
  ASSUME NEW q, Typed(q)
  PROVE  /\ q \in Seq(Frames) /\ Len(q) \in Nat /\ DOMAIN q = 1 .. Len(q)
         /\ q # <<>> => Len(q) > 0 /\ Last(q) = q[Len(q)]
         /\ q = <<>> => Len(q) = 0
         /\ \A i \in 1 .. Len(q) :
              /\ q[i].kind = "call" <=> Odd(i)
              /\ q[i].kind = "callback" <=> ~Odd(i)
              /\ Odd(i) => q[i] \in CallFrames
              /\ ~Odd(i) => q[i] \in CallbackFrames
<1>1. q \in Seq(Frames)
  BY DEF Typed
<1>2. Len(q) \in Nat /\ DOMAIN q = 1 .. Len(q)
  BY <1>1, LenProperties
<1>3. q # <<>> => Len(q) > 0 /\ Last(q) = q[Len(q)]
  BY <1>1, <1>2, EmptySeq DEF Last
<1>4. \A i \in 1 .. Len(q) :
        /\ Odd(i) => q[i] \in CallFrames /\ q[i].kind = "call"
        /\ ~Odd(i) => q[i] \in CallbackFrames /\ q[i].kind = "callback"
  BY FrameFacts DEF Typed
<1> QED
  BY <1>1, <1>2, <1>3, <1>4, EmptySeq

-----------------------------------------------------------------------------
(***************************************************************************)
(* What happens to one stack keeps it typed and nested                     *)
(***************************************************************************)
Good(q, d) == Typed(q) /\ Nested(q, d) /\ d \in Data

\* A step of the call on top that leaves its sandboxes alone.
LEMMA TopCallChanges ==
  ASSUME NEW q, NEW d, Good(q, d), q # <<>>, Odd(Len(q)),
         NEW g \in CallFrames, g.sandbox = Last(q).sandbox,
         g.old_sandbox = Last(q).old_sandbox, g.touched \subseteq {g.sandbox}
  PROVE  Good([q EXCEPT ![Len(q)] = g], d)
<1> DEFINE n == Len(q)
           r == [q EXCEPT ![n] = g]
<1>1. /\ q \in Seq(Frames) /\ n \in Nat /\ n > 0 /\ DOMAIN q = 1 .. n /\ Last(q) = q[n]
      /\ g \in Frames /\ n \in 1 .. n
  BY TypedFacts DEF Good, Frames
<1>2. r \in Seq(Frames) /\ Len(r) = n /\ r[n] = g /\ \A i \in 1 .. n : i # n => r[i] = q[i]
  BY <1>1, ExceptSeq
<1> HIDE DEF r
<1>3. Typed(r)
  BY <1>1, <1>2 DEF Typed, Good
<1>4. \A i \in 1 .. n : r[i].sandbox = q[i].sandbox
  BY <1>1, <1>2
<1>5. ASSUME NEW i \in 1 .. n, Odd(i) PROVE CallNested(r, i)
  <2>1. CallNested(q, i)
    BY <1>5 DEF Good, Nested
  <2>2. r[i].old_sandbox = q[i].old_sandbox /\ r[i].touched \subseteq {r[i].sandbox}
    BY <1>1, <1>2, <2>1 DEF CallNested
  <2>3. i # 1 => r[i - 2].sandbox = q[i - 2].sandbox
    <3>1. i # 1 => i >= 3
      BY <1>1, <1>5, Alternate
    <3>2. i # 1 => i - 2 \in 1 .. n
      BY <1>1, <3>1
    <3> QED BY <1>4, <3>2
  <2>4. i < n => r[i] = q[i]
    BY <1>2
  <2> QED BY <1>2, <2>1, <2>2, <2>3, <2>4 DEF CallNested
<1>6. ASSUME NEW i \in 1 .. n, ~Odd(i) PROVE CallbackNested(r, i, d.last_callback_invoked)
  <2>1. i # n /\ CallbackNested(q, i, d.last_callback_invoked) /\ r[i] = q[i]
    BY <1>2, <1>6 DEF Good, Nested
  <2>2. r[i - 1].sandbox = q[i - 1].sandbox
    <3>1. i >= 2
      BY <1>1, <1>6, Alternate
    <3>2. i - 1 \in 1 .. n
      BY <1>1, <3>1
    <3> QED BY <1>4, <3>2
  <2> QED BY <2>1, <2>2, <1>2 DEF CallbackNested
<1>7. d.sandbox = Current(r)
  <2>1. r # <<>>
    BY <1>1, <1>2, EmptySeq
  <2> QED BY <2>1, <1>1, <1>2, <1>4 DEF Good, Nested, Current
<1> QED
  BY <1>2, <1>3, <1>5, <1>6, <1>7 DEF Good, Nested, r

\* The call or callback on top ends: the frames below stay as they are.
LEMMA Popped ==
  ASSUME NEW q, NEW d, Good(q, d), q # <<>>, NEW e \in Data,
         e.last_callback_invoked = d.last_callback_invoked,
         e.sandbox = IF Odd(Len(q)) THEN Last(q).old_sandbox ELSE d.sandbox
  PROVE  Good(Front(q), e)
<1> DEFINE n == Len(q)
           r == Front(q)
<1>1. /\ q \in Seq(Frames) /\ n \in Nat /\ n > 0 /\ Last(q) = q[n] /\ n \in 1 .. n
  BY TypedFacts DEF Good
<1>2. r \in Seq(Frames) /\ Len(r) = n - 1 /\ \A i \in 1 .. n - 1 : r[i] = q[i]
  BY <1>1, FrontIs
<1> HIDE DEF r
<1>3. Typed(r)
  <2>1. Len(r) <= MaxDepth
    BY <1>1, <1>2, SandboxInvokeAssumption DEF Typed, Good
  <2>2. \A i \in 1 .. n - 1 : i \in 1 .. n
    BY <1>1
  <2> QED BY <2>1, <2>2, <1>2 DEF Typed, Good
<1>4. ASSUME NEW i \in 1 .. n - 1, Odd(i) PROVE CallNested(r, i)
  <2>1. CallNested(q, i) /\ r[i] = q[i] /\ i < n
    BY <1>1, <1>2, <1>4 DEF Good, Nested
  <2>2. i # 1 => r[i - 2] = q[i - 2]
    <3>1. i # 1 => i >= 3
      BY <1>1, <1>4, Alternate
    <3>2. i # 1 => i - 2 \in 1 .. n - 1
      BY <1>1, <3>1
    <3> QED BY <1>2, <3>2
  <2> QED BY <1>2, <2>1, <2>2 DEF CallNested
<1>5. ASSUME NEW i \in 1 .. n - 1, ~Odd(i) PROVE CallbackNested(r, i, e.last_callback_invoked)
  <2>1. CallbackNested(q, i, d.last_callback_invoked) /\ r[i] = q[i] /\ i < n
    BY <1>1, <1>2, <1>5 DEF Good, Nested
  <2>2. r[i - 1] = q[i - 1]
    <3>1. i >= 2
      BY <1>1, <1>5, Alternate
    <3>2. i - 1 \in 1 .. n - 1
      BY <1>1, <3>1
    <3> QED BY <1>2, <3>2
  <2> QED BY <1>1, <2>1, <2>2, <1>2 DEF CallbackNested
<1>6. e.sandbox = Current(r)
  <2>1. CASE n = 1
    <3>1. r = <<>> /\ Odd(n)
      BY <2>1, <1>2, EmptySeq, Alternate, 1 \in Nat
    <3> QED BY <3>1, <2>1, <1>1 DEF Current, Good, Nested, CallNested
  <2>2. CASE n # 1 /\ Odd(n)
    <3>1. n >= 3 /\ ~Odd(n - 1) /\ r # <<>> /\ n - 2 \in 1 .. n - 1
      <4>1. n >= 3
        BY <2>2, <1>1, Alternate
      <4>2. n - 1 \in Nat /\ n - 1 + 1 = n
        BY <4>1, <1>1
      <4>3. ~Odd(n - 1)
        BY <2>2, <4>2, Alternate
      <4> QED BY <4>1, <4>2, <4>3, <1>2, EmptySeq
    <3>2. e.sandbox = q[n - 2].sandbox
      BY <2>2, <1>1 DEF Good, Nested, CallNested
    <3>3. Current(r) = r[n - 1 - 1].sandbox
      BY <3>1, <1>2 DEF Current
    <3>4. n - 1 - 1 = n - 2 /\ r[n - 2] = q[n - 2]
      BY <3>1, <1>2
    <3> QED BY <3>2, <3>3, <3>4
  <2>3. CASE ~Odd(n)
    <3>1. n >= 2 /\ Odd(n - 1) /\ r # <<>> /\ n - 1 \in 1 .. n - 1
      <4>1. n >= 2
        BY <2>3, <1>1, Alternate
      <4>2. n - 1 \in Nat /\ n - 1 + 1 = n
        BY <4>1, <1>1
      <4>3. Odd(n - 1)
        BY <2>3, <4>2, Alternate
      <4> QED BY <4>1, <4>2, <4>3, <1>2, EmptySeq
    <3>2. e.sandbox = q[n - 1].sandbox
      BY <2>3, <1>1 DEF Good, Nested, Current
    <3> QED BY <3>1, <3>2, <1>2 DEF Current
  <2> QED BY <2>1, <2>2, <2>3
<1> QED
  BY <1>2, <1>3, <1>4, <1>5, <1>6 DEF Good, Nested, r

\* A frame comes on top of a stack: a call that remembers thread_data, or a
\* callback of the call on top, which waits for it in Wasm.
LEMMA Pushed ==
  ASSUME NEW q, NEW d, Good(q, d), Len(q) < MaxDepth, NEW g \in Frames, NEW e \in Data,
         \/ /\ ~Odd(Len(q)) /\ g \in CallFrames /\ g.touched = {}
            /\ q # <<>> => Last(q).pc = "host"
            /\ g.old_sandbox = d.sandbox /\ e.sandbox = g.sandbox
            /\ e.last_callback_invoked = d.last_callback_invoked
         \/ /\ Odd(Len(q)) /\ g \in CallbackFrames /\ g.pc = "entered"
            /\ Last(q).pc = "wasm"
            /\ e.sandbox = d.sandbox /\ e.last_callback_invoked = g.number
  PROVE  Good(Append(q, g), e)
<1> DEFINE n == Len(q)
           r == Append(q, g)
<1>1. /\ q \in Seq(Frames) /\ n \in Nat /\ (q # <<>> <=> n > 0) /\ (n > 0 => Last(q) = q[n])
  BY TypedFacts DEF Good
<1>2. r \in Seq(Frames) /\ r # <<>> /\ Len(r) = n + 1 /\ r[n + 1] = g /\ \A i \in 1 .. n : r[i] = q[i]
  BY <1>1, AppendProperties
<1> HIDE DEF r
<1>3. Odd(n + 1) <=> ~Odd(n)
  BY <1>1, Alternate
<1>4. Typed(r)
  <2>1. ASSUME NEW i \in 1 .. n + 1
        PROVE  (Odd(i) => r[i] \in CallFrames) /\ (~Odd(i) => r[i] \in CallbackFrames)
    <3>1. CASE i = n + 1  BY <3>1, <1>2, <1>3
    <3>2. CASE i # n + 1
      <4>1. i \in 1 .. n  BY <3>2, <1>1
      <4> QED BY <4>1, <1>2 DEF Good, Typed
    <3> QED BY <3>1, <3>2
  <2>2. Len(r) <= MaxDepth
    BY <1>1, <1>2, SandboxInvokeAssumption
  <2> QED BY <2>1, <2>2, <1>2 DEF Typed
<1>5. ASSUME NEW i \in 1 .. n + 1, Odd(i) PROVE CallNested(r, i)
  <2>1. i # 1 => i - 2 \in 1 .. n
    <3>1. i # 1 => i >= 3
      BY <1>1, <1>5, Alternate
    <3> QED BY <1>1, <3>1
  <2>2. CASE i = n + 1
    <3>1. ~Odd(n) /\ g.old_sandbox = d.sandbox /\ g.touched = {}
      BY <2>2, <1>3, <1>5
    <3>2. d.sandbox = IF i = 1 THEN NoSandbox ELSE q[i - 2].sandbox
      <4>1. CASE i = 1
        <5>1. q = <<>>  BY <4>1, <2>2, <1>1
        <5> QED BY <5>1, <4>1 DEF Good, Nested, Current
      <4>2. CASE i # 1
        <5>1. q # <<>> /\ n - 1 = i - 2  BY <4>2, <2>2, <1>1
        <5> QED BY <5>1, <4>2, <3>1 DEF Good, Nested, Current
      <4> QED BY <4>1, <4>2
    <3> QED BY <3>1, <3>2, <2>1, <2>2, <1>2 DEF CallNested
  <2>3. CASE i # n + 1
    <3>1. i \in 1 .. n /\ r[i] = q[i]  BY <2>3, <1>1, <1>2
    <3>2. CallNested(q, i)  BY <3>1, <1>5 DEF Good, Nested
    <3>3. r[i].pc = "wasm"
      <4>1. CASE i < n  BY <4>1, <3>1, <3>2 DEF CallNested
      <4>2. CASE i = n  BY <4>2, <1>1, <1>5, <3>1
      <4> QED BY <4>1, <4>2, <3>1
    <3> QED BY <3>1, <3>2, <3>3, <2>1, <1>2 DEF CallNested
  <2> QED BY <2>2, <2>3
<1>6. ASSUME NEW i \in 1 .. n + 1, ~Odd(i) PROVE CallbackNested(r, i, e.last_callback_invoked)
  <2>1. i - 1 \in 1 .. n
    <3>1. i >= 2  BY <1>1, <1>6, Alternate
    <3> QED BY <1>1, <3>1
  <2>2. CASE i = n + 1
    <3>1. g.pc = "entered" /\ e.last_callback_invoked = g.number
      BY <2>2, <1>3, <1>6
    <3> QED BY <3>1, <2>2, <1>2 DEF CallbackNested
  <2>3. CASE i # n + 1
    <3>1. i \in 1 .. n /\ r[i] = q[i] /\ r[i - 1] = q[i - 1]  BY <2>1, <2>3, <1>1, <1>2
    <3>2. CallbackNested(q, i, d.last_callback_invoked)  BY <3>1, <1>6 DEF Good, Nested
    <3>3. r[i].pc # "entered"
      <4>1. CASE i < n  BY <4>1, <3>1, <3>2 DEF CallbackNested
      <4>2. CASE i = n
        <5>1. Last(q).pc = "host"  BY <4>2, <1>1, <1>6
        <5> QED BY <5>1, <4>2, <3>1, <1>1
      <4> QED BY <4>1, <4>2, <3>1
    <3> QED BY <3>1, <3>2, <3>3, <1>2 DEF CallbackNested
  <2> QED BY <2>2, <2>3
<1>7. e.sandbox = Current(r)
  <2>1. CASE ~Odd(n)
    BY <2>1, <1>2, <1>3 DEF Current
  <2>2. CASE Odd(n)
    <3>1. n >= 1 /\ n + 1 - 1 = n /\ q # <<>>
      BY <2>2, <1>1, Alternate
    <3>2. Current(r) = r[n].sandbox
      BY <2>2, <1>2, <1>3, <3>1 DEF Current
    <3> QED BY <3>1, <3>2, <2>2, <1>2 DEF Current, Good, Nested
  <2> QED BY <2>1, <2>2
<1> QED
  BY <1>2, <1>4, <1>5, <1>6, <1>7 DEF Good, Nested, r

\* A callback is told its key.
LEMMA KeyLookedUp ==
  ASSUME NEW q, NEW d, Good(q, d), q # <<>>, ~Odd(Len(q)), Last(q).pc = "entered",
         NEW g \in CallbackFrames, g.pc = "host", g.number = Last(q).number,
         g.key = <<d.sandbox, d.last_callback_invoked>>
  PROVE  Good([q EXCEPT ![Len(q)] = g], d)
<1> DEFINE n == Len(q)
           r == [q EXCEPT ![n] = g]
<1>1. /\ q \in Seq(Frames) /\ n \in Nat /\ n > 0 /\ DOMAIN q = 1 .. n /\ Last(q) = q[n]
      /\ g \in Frames /\ n \in 1 .. n
  BY TypedFacts DEF Good, Frames
<1>2. r \in Seq(Frames) /\ Len(r) = n /\ r[n] = g /\ \A i \in 1 .. n : i # n => r[i] = q[i]
  BY <1>1, ExceptSeq
<1> HIDE DEF r
<1>3. Typed(r)
  BY <1>1, <1>2 DEF Typed, Good
<1>4. ASSUME NEW i \in 1 .. n, Odd(i) PROVE CallNested(r, i)
  <2>1. CallNested(q, i) /\ i # n /\ r[i] = q[i]
    BY <1>2, <1>4 DEF Good, Nested
  <2>2. i # 1 => r[i - 2] = q[i - 2]
    <3>1. i # 1 => i >= 3
      BY <1>1, <1>4, Alternate
    <3>2. i # 1 => i - 2 \in 1 .. n /\ i - 2 # n
      BY <1>1, <3>1
    <3> QED BY <1>2, <3>2
  <2> QED BY <1>2, <2>1, <2>2 DEF CallNested
<1>5. n >= 2 /\ n - 1 \in 1 .. n /\ r[n - 1] = q[n - 1]
  <2>1. n >= 2  BY <1>1, Alternate
  <2> HIDE DEF n
  <2>2. n - 1 \in 1 .. n /\ n - 1 # n  BY <2>1, <1>1
  <2> QED BY <2>1, <2>2, <1>2
<1>6. ASSUME NEW i \in 1 .. n, ~Odd(i) PROVE CallbackNested(r, i, d.last_callback_invoked)
  <2>1. CASE i # n
    <3>1. CallbackNested(q, i, d.last_callback_invoked) /\ r[i] = q[i]
      BY <1>2, <1>6, <2>1 DEF Good, Nested
    <3>2. r[i - 1] = q[i - 1]
      <4>1. i >= 2
        BY <1>1, <1>6, Alternate
      <4>2. i - 1 \in 1 .. n /\ i - 1 # n
        BY <1>1, <4>1
      <4> QED BY <1>2, <4>2
    <3> QED BY <3>1, <3>2, <1>2 DEF CallbackNested
  <2>2. CASE i = n
    <3>1. d.sandbox = q[n - 1].sandbox /\ d.last_callback_invoked = g.number
      BY <1>1 DEF Good, Nested, Current, CallbackNested
    <3> QED BY <3>1, <2>2, <1>2, <1>5 DEF CallbackNested
  <2> QED BY <2>1, <2>2
<1>7. d.sandbox = Current(r)
  <2>1. r # <<>>
    BY <1>1, <1>2, EmptySeq
  <2> QED BY <2>1, <1>1, <1>2, <1>5 DEF Good, Nested, Current
<1> QED
  BY <1>2, <1>3, <1>4, <1>6, <1>7 DEF Good, Nested, r

\* The mark that Call leaves in calls it crosses changes nothing else.
LEMMA CrossedKeeps ==
  ASSUME NEW q, NEW d, Good(q, d), NEW s, NEW f
  PROVE  LET r == Crossed(q, s, f)
         IN  /\ Good(r, d) /\ Len(r) = Len(q)
             /\ \A i \in 1 .. Len(q) :
                  /\ r[i].pc = q[i].pc /\ r[i].sandbox = q[i].sandbox
                  /\ ~Odd(i) => r[i] = q[i]
<1> DEFINE n == Len(q)
           r == Crossed(q, s, f)
<1>1. /\ q \in Seq(Frames) /\ n \in Nat /\ DOMAIN q = 1 .. n
      /\ \A i \in 1 .. n : /\ q[i].kind = "call" <=> Odd(i)
                           /\ Odd(i) => q[i] \in CallFrames
                           /\ ~Odd(i) => q[i] \in CallbackFrames
  BY TypedFacts DEF Good
<1>2. \A g \in CallFrames : [g EXCEPT !.crossed = TRUE] \in CallFrames
  BY DEF CallFrames
<1>3. \A i \in 1 .. n :
        /\ ~Odd(i) => r[i] = q[i]
        /\ Odd(i) => /\ r[i] \in CallFrames
                     /\ r[i].pc = q[i].pc /\ r[i].sandbox = q[i].sandbox
                     /\ r[i].touched = q[i].touched /\ r[i].old_sandbox = q[i].old_sandbox
  <2> TAKE i \in 1 .. n
  <2>1. r[i] = IF ReturnSize[f] > 0 /\ ReturnsClass(q[i]) /\ q[i].sandbox = s
               THEN [q[i] EXCEPT !.crossed = TRUE] ELSE q[i]
    BY <1>1 DEF Crossed
  <2>2. CASE Odd(i)
    <3>1. q[i] \in CallFrames
      BY <1>1, <2>2
    <3>2. /\ [q[i] EXCEPT !.crossed = TRUE] \in CallFrames
          /\ [q[i] EXCEPT !.crossed = TRUE].pc = q[i].pc
          /\ [q[i] EXCEPT !.crossed = TRUE].sandbox = q[i].sandbox
          /\ [q[i] EXCEPT !.crossed = TRUE].touched = q[i].touched
          /\ [q[i] EXCEPT !.crossed = TRUE].old_sandbox = q[i].old_sandbox
      BY <3>1, <1>2 DEF CallFrames
    <3> QED BY <2>1, <2>2, <3>1, <3>2
  <2>3. CASE ~Odd(i)
    <3>1. ~ReturnsClass(q[i])
      BY <1>1, <2>3 DEF ReturnsClass
    <3> QED BY <2>1, <2>3, <3>1
  <2> QED BY <2>2, <2>3
<1>4. r \in Seq(Frames) /\ Len(r) = n
  <2>1. DOMAIN r = 1 .. n /\ r = [i \in 1 .. n |-> r[i]]
    BY <1>1 DEF Crossed
  <2>2. \A i \in 1 .. n : r[i] \in Frames
    BY <1>1, <1>3 DEF Frames
  <2> HIDE DEF r, n
  <2>3. r \in [1 .. n -> Frames]
    BY <2>1, <2>2
  <2> QED BY <2>3, <1>1, SeqDef, LenProperties
<1> HIDE DEF r
<1>5. Typed(r)
  BY <1>1, <1>3, <1>4 DEF Typed, Good
<1>6. ASSUME NEW i \in 1 .. n, Odd(i) PROVE CallNested(r, i)
  <2>1. CallNested(q, i)
    BY <1>6 DEF Good, Nested
  <2>2. i # 1 => r[i - 2].sandbox = q[i - 2].sandbox
    <3>1. i # 1 => i >= 3
      BY <1>1, <1>6, Alternate
    <3>2. i # 1 => i - 2 \in 1 .. n
      BY <1>1, <3>1
    <3> QED BY <1>3, <3>2
  <2> QED BY <1>3, <1>4, <1>6, <2>1, <2>2 DEF CallNested
<1>7. ASSUME NEW i \in 1 .. n, ~Odd(i) PROVE CallbackNested(r, i, d.last_callback_invoked)
  <2>1. CallbackNested(q, i, d.last_callback_invoked) /\ r[i] = q[i]
    BY <1>3, <1>7 DEF Good, Nested
  <2>2. r[i - 1].sandbox = q[i - 1].sandbox
    <3>1. i >= 2
      BY <1>1, <1>7, Alternate
    <3>2. i - 1 \in 1 .. n
      BY <1>1, <3>1
    <3> QED BY <1>3, <3>2
  <2> QED BY <2>1, <2>2, <1>4 DEF CallbackNested
<1>8. d.sandbox = Current(r)
  <2>1. q = <<>> <=> r = <<>>
    BY <1>1, <1>4, EmptySeq
  <2>2. CASE q = <<>>
    BY <2>1, <2>2 DEF Good, Nested, Current
  <2>3. CASE q # <<>>
    <3>1. n >= 1 /\ (~Odd(n) => n - 1 \in 1 .. n) /\ n \in 1 .. n
      <4>1. n >= 1 /\ (~Odd(n) => n >= 2)
        BY <2>3, <1>1, EmptySeq, Alternate
      <4> HIDE DEF n
      <4> QED BY <4>1, <1>1
    <3>2. r[n].sandbox = q[n].sandbox /\ (~Odd(n) => r[n - 1].sandbox = q[n - 1].sandbox)
      BY <3>1, <1>3
    <3> QED BY <2>1, <2>3, <3>2, <1>4 DEF Good, Nested, Current
  <2> QED BY <2>2, <2>3
<1>9. \A i \in 1 .. n : r[i].pc = q[i].pc /\ r[i].sandbox = q[i].sandbox
  BY <1>3
<1> QED
  BY <1>3, <1>4, <1>5, <1>6, <1>7, <1>8, <1>9 DEF Good, Nested, r

-----------------------------------------------------------------------------
(***************************************************************************)
(* The thread that moves                                                   *)
(***************************************************************************)
\* A step of thread t leaves the stacks of the others alone.
LEMMA ThreadStep ==
  ASSUME StackInv, NEW t \in Threads, NEW q, NEW d, Good(q, d),
         stack' = [stack EXCEPT ![t] = q], thread_data' = [thread_data EXCEPT ![t] = d],
         ObjectTypes'
  PROVE  StackInv'
<1>1. stack' \in [Threads -> Seq(Frames)] /\ thread_data' \in [Threads -> Data]
  BY DEF StackInv, StackTypes, DataTypes, Good, Typed
<1>2. \A u \in Threads : Good(stack[u], thread_data[u])
  BY DEF StackInv, StackTypes, DataTypes, Good
<1>3. \A u \in Threads : Good(stack'[u], thread_data'[u])
  BY <1>2 DEF StackInv, StackTypes, DataTypes
<1> QED
  BY <1>1, <1>3 DEF StackInv, StackTypes, DataTypes, Good

\* The same when thread_data does not change.
LEMMA StackStep ==
  ASSUME StackInv, NEW t \in Threads, NEW q, Good(q, thread_data[t]),
         stack' = [stack EXCEPT ![t] = q], UNCHANGED thread_data, ObjectTypes'
  PROVE  StackInv'
<1>1. thread_data' = [thread_data EXCEPT ![t] = thread_data[t]]
  BY DEF StackInv, DataTypes
<1> QED
  BY <1>1, ThreadStep

\* The object of one sandbox changes.
LEMMA ObjectStep ==
  ASSUME ObjectTypes, NEW s \in Sandboxes, NEW o \in Objects, Set(s, o)
  PROVE  ObjectTypes'
BY DEF ObjectTypes, Set

\* What is known of a thread whose stack has a call on top.
LEMMA CallOnTop ==
  ASSUME StackInv, NEW t \in Threads, stack[t] # <<>>, Top(t).kind = "call"
  PROVE  LET n == Len(stack[t])
         IN  /\ Good(stack[t], thread_data[t]) /\ Top(t) = stack[t][n]
             /\ n \in 1 .. MaxDepth /\ Odd(n)
             /\ Top(t) \in CallFrames /\ Top(t) = Last(stack[t])
             /\ Top(t).sandbox \in Sandboxes
             /\ Top(t).touched \subseteq {Top(t).sandbox}
             /\ thread_data[t].sandbox = Top(t).sandbox
             /\ object[Top(t).sandbox] \in Objects
<1> DEFINE n == Len(stack[t])
<1>1. Good(stack[t], thread_data[t])
  BY DEF StackInv, StackTypes, DataTypes, Good
<1>2. /\ n \in Nat /\ n > 0 /\ Top(t) = stack[t][n] /\ Top(t) = Last(stack[t])
      /\ \A i \in 1 .. n : (stack[t][i].kind = "call" <=> Odd(i))
                           /\ (Odd(i) => stack[t][i] \in CallFrames)
  BY <1>1, TypedFacts DEF Good, Top
<1>3. n \in 1 .. MaxDepth /\ n \in 1 .. n
  BY <1>1, <1>2, SandboxInvokeAssumption DEF Good, Typed
<1>4. Odd(n) /\ Top(t) \in CallFrames /\ Top(t).sandbox \in Sandboxes
  BY <1>2, <1>3, FrameFacts
<1>5. Top(t).touched \subseteq {Top(t).sandbox} /\ thread_data[t].sandbox = Top(t).sandbox
  BY <1>1, <1>2, <1>3, <1>4 DEF Good, Nested, CallNested, Current
<1> QED
  BY <1>1, <1>2, <1>3, <1>4, <1>5 DEF StackInv, ObjectTypes

\* And of one whose stack has a callback on top.
LEMMA CallbackOnTop ==
  ASSUME StackInv, NEW t \in Threads, stack[t] # <<>>, Top(t).kind = "callback"
  PROVE  LET n == Len(stack[t])
         IN  /\ Good(stack[t], thread_data[t]) /\ Top(t) = stack[t][n]
             /\ n \in 2 .. MaxDepth /\ ~Odd(n) /\ Odd(n - 1)
             /\ Top(t) \in CallbackFrames /\ Top(t) = Last(stack[t])
             /\ stack[t][n - 1] \in CallFrames /\ stack[t][n - 1].pc = "wasm"
             /\ stack[t][n - 1].touched \subseteq {stack[t][n - 1].sandbox}
             /\ thread_data[t].sandbox = stack[t][n - 1].sandbox
             /\ thread_data[t].sandbox \in Sandboxes
             /\ Top(t).pc = "entered" => thread_data[t].last_callback_invoked = Top(t).number
<1> DEFINE n == Len(stack[t])
<1>1. Good(stack[t], thread_data[t])
  BY DEF StackInv, StackTypes, DataTypes, Good
<1>2. /\ n \in Nat /\ n > 0 /\ Top(t) = stack[t][n] /\ Top(t) = Last(stack[t])
      /\ \A i \in 1 .. n : /\ stack[t][i].kind = "callback" <=> ~Odd(i)
                           /\ Odd(i) => stack[t][i] \in CallFrames
                           /\ ~Odd(i) => stack[t][i] \in CallbackFrames
  BY <1>1, TypedFacts DEF Good, Top
<1>3. n \in 1 .. MaxDepth /\ n \in 1 .. n /\ ~Odd(n)
  <2>1. n \in 1 .. MaxDepth /\ n \in 1 .. n
    BY <1>1, <1>2, SandboxInvokeAssumption DEF Good, Typed
  <2> QED BY <2>1, <1>2
<1>4. n >= 2
  BY <1>2, <1>3, Alternate
<1>5. n - 1 \in Nat /\ n - 1 \in 1 .. n /\ n - 1 < n /\ n - 1 + 1 = n
  <2> HIDE DEF n
  <2> QED BY <1>2, <1>4
<1>6. Odd(n - 1)
  BY <1>3, <1>5, Alternate
<1>7. stack[t][n - 1] \in CallFrames /\ stack[t][n - 1].sandbox \in Sandboxes
  BY <1>2, <1>5, <1>6, FrameFacts
<1>8. /\ stack[t][n - 1].pc = "wasm"
      /\ stack[t][n - 1].touched \subseteq {stack[t][n - 1].sandbox}
  BY <1>1, <1>5, <1>6 DEF Good, Nested, CallNested
<1>9. /\ thread_data[t].sandbox = stack[t][n - 1].sandbox
      /\ Top(t).pc = "entered" => thread_data[t].last_callback_invoked = Top(t).number
  BY <1>1, <1>2, <1>3 DEF Good, Nested, CallbackNested, Current
<1>10. n \in 2 .. MaxDepth
  BY <1>3, <1>4
<1> QED
  BY <1>1, <1>2, <1>3, <1>6, <1>7, <1>8, <1>9, <1>10

-----------------------------------------------------------------------------
(***************************************************************************)
(* Where PassArguments writes                                              *)
(***************************************************************************)
\* A set of natural numbers that has a bound has a largest element.
LEMMA LargestBelow ==
  ASSUME NEW n \in Nat, NEW S \in SUBSET (1 .. n), S # {}
  PROVE  \E j \in S : \A k \in S : k <= j
<1> DEFINE T == {m \in Nat : \E j \in S : m = n - j}
<1>1. T \subseteq Nat /\ T # {}
  <2>1. PICK j \in S : TRUE
    OBVIOUS
  <2>2. n - j \in Nat
    OBVIOUS
  <2> QED BY <2>1, <2>2
<1>2. PICK m \in T : \A k \in T : ~(<<k, m>> \in OpToRel(<, Nat))
  BY <1>1, WFMin, NatLessThanWellFounded
<1>3. \A k \in T : ~(k < m)
  BY <1>2 DEF OpToRel
<1>4. PICK j \in S : m = n - j
  OBVIOUS
<1>5. ASSUME NEW k \in S PROVE k <= j
  <2>1. n - k \in T
    OBVIOUS
  <2> QED BY <2>1, <1>3, <1>4
<1> QED BY <1>5

\* The placements of class arguments, and the objects that result.
LEMMA PlacementIs ==
  ASSUME NEW o \in Objects, NEW n \in Nat, NEW p \in Placements(o, n)
  PROVE  /\ p \in Seq(Addresses) /\ Len(p) = n /\ DOMAIN p = 1 .. n
         /\ \A j \in 1 .. n : p[j] \in FreeBlocks(o) \cup {Null} /\ p[j] \in Range(p)
         /\ \A j, k \in 1 .. n : p[j] = p[k] /\ p[j] # Null => j = k
         /\ \A a \in Range(p) : \E j \in 1 .. n : p[j] = a
<1>1. /\ p \in [1 .. n -> FreeBlocks(o) \cup {Null}]
      /\ \A j, k \in 1 .. n : p[j] = p[k] /\ p[j] # Null => j = k
  BY DEF Placements
<1>2. FreeBlocks(o) \cup {Null} \subseteq Addresses
  BY DEF FreeBlocks, Addresses
<1>3. p \in [1 .. n -> Addresses]
  BY <1>1, <1>2
<1>4. p \in Seq(Addresses) /\ Len(p) = n
  BY <1>3, SeqDef, LenProperties
<1> QED
  BY <1>1, <1>4 DEF Range

\* The last argument at an address is one of them.
LastPlace(n, p, a) == CHOOSE j \in 1 .. n : p[j] = a /\ \A k \in j + 1 .. n : p[k] # a

LEMMA LastArgument ==
  ASSUME NEW n \in Nat, NEW p, DOMAIN p = 1 .. n, NEW a, \E j \in 1 .. n : p[j] = a
  PROVE  LastPlace(n, p, a) \in 1 .. n /\ p[LastPlace(n, p, a)] = a
<1> DEFINE S == {j \in 1 .. n : p[j] = a}
<1>1. PICK j \in S : \A k \in S : k <= j
  BY LargestBelow
<1>2. j \in 1 .. n /\ p[j] = a /\ \A k \in j + 1 .. n : p[k] # a
  BY <1>1
<1> QED
  BY <1>2 DEF LastPlace

-----------------------------------------------------------------------------
(***************************************************************************)
(* Every step keeps StackInv                                               *)
(***************************************************************************)
LEMMA CallStack ==
  ASSUME StackInv, NEW t \in Threads, NEW s \in Sandboxes, NEW f \in Exports[s], Call(t, s, f)
  PROVE  StackInv'
<1> DEFINE q == stack[t]
           d == thread_data[t]
           e == [d EXCEPT !.sandbox = s]
           g == NewCall(s, f, d.sandbox)
           r == Crossed(q, s, f)
<1>1. Good(q, d) /\ d \in Data /\ f \in Functions
  BY SandboxInvokeAssumption DEF StackInv, StackTypes, DataTypes, Good
<1>2. /\ stack' = [stack EXCEPT ![t] = Append(r, g)]
      /\ thread_data' = [thread_data EXCEPT ![t] = e]
      /\ UNCHANGED object /\ Len(q) < MaxDepth
      /\ q = <<>> \/ (Last(q).kind = "callback" /\ Last(q).pc = "host")
  BY DEF Call, HostRuns, At, Top
<1>3. e \in Data /\ e.sandbox = s /\ e.last_callback_invoked = d.last_callback_invoked
  BY <1>1 DEF Data
<1>4. /\ g \in CallFrames /\ g.touched = {} /\ g.old_sandbox = d.sandbox /\ g.sandbox = s
  <2>1. <<>> \in Seq(Addresses) /\ Null \in Addresses /\ d.sandbox \in Sandboxes \cup {NoSandbox}
    BY <1>1 DEF Addresses, Data
  <2> QED BY <2>1, <1>1 DEF NewCall, CallFrames
<1>5. /\ q \in Seq(Frames) /\ Len(q) \in Nat /\ (q # <<>> => Len(q) > 0 /\ Last(q) = q[Len(q)])
      /\ \A i \in 1 .. Len(q) : q[i].kind = "callback" <=> ~Odd(i)
      /\ q = <<>> => Len(q) = 0
  BY <1>1, TypedFacts DEF Good
<1>6. Good(r, d) /\ Len(r) = Len(q) /\ \A i \in 1 .. Len(q) : r[i].pc = q[i].pc
  BY <1>1, CrossedKeeps
<1>7. ~Odd(Len(r)) /\ (r # <<>> => Last(r).pc = "host")
  <2>1. CASE q = <<>>
    <3>1. Len(r) = 0 /\ r = <<>>
      BY <2>1, <1>5, <1>6, EmptySeq DEF Good, Typed
    <3>2. ~Odd(0)
      BY DEF Odd
    <3> QED BY <3>1, <3>2
  <2>2. CASE q # <<>>
    <3>1. Len(q) \in 1 .. Len(q)
      BY <2>2, <1>5
    <3>2. ~Odd(Len(q)) /\ q[Len(q)].pc = "host"
      BY <2>2, <3>1, <1>2, <1>5
    <3> QED BY <3>1, <3>2, <1>6 DEF Last
  <2> QED BY <2>1, <2>2
<1> HIDE DEF q, d, e, g, r
<1>8. Good(Append(r, g), e)
  <2>1. g \in Frames /\ Len(r) < MaxDepth
    BY <1>2, <1>4, <1>6 DEF Frames
  <2> QED BY <2>1, <1>3, <1>4, <1>6, <1>7, Pushed
<1>9. ObjectTypes'
  BY <1>2 DEF StackInv, ObjectTypes
<1> QED
  BY <1>2, <1>8, <1>9, ThreadStep

\* The steps of a call that change only its own frame.
LEMMA OwnFrameStack ==
  ASSUME StackInv, NEW t \in Threads, stack[t] # <<>>, Top(t).kind = "call",
         NEW g \in CallFrames, g.sandbox = Top(t).sandbox, g.old_sandbox = Top(t).old_sandbox,
         g.touched = Top(t).touched, SetTop(t, g), UNCHANGED thread_data, ObjectTypes'
  PROVE  StackInv'
<1>1. /\ Good(stack[t], thread_data[t]) /\ Odd(Len(stack[t]))
      /\ Top(t) = Last(stack[t]) /\ Top(t).touched \subseteq {Top(t).sandbox}
  BY CallOnTop
<1>2. Good([stack[t] EXCEPT ![Len(stack[t])] = g], thread_data[t])
  BY <1>1, TopCallChanges
<1>3. stack' = [stack EXCEPT ![t] = [stack[t] EXCEPT ![Len(stack[t])] = g]]
  BY DEF SetTop
<1> QED
  BY <1>2, <1>3, StackStep

LEMMA SlotFitsStack ==
  ASSUME StackInv, NEW t \in Threads, SlotFits(t) PROVE StackInv'
<1> DEFINE o == object[Top(t).sandbox]
           g == [Top(t) EXCEPT !.pc = "args", !.return_arg = o.return_slot]
<1>1. stack[t] # <<>> /\ Top(t).kind = "call" /\ SetTop(t, g) /\ UNCHANGED <<thread_data, object>>
  BY DEF SlotFits, At
<1>2. Top(t) \in CallFrames /\ o \in Objects
  BY <1>1, CallOnTop
<1>3. /\ g \in CallFrames /\ g.sandbox = Top(t).sandbox /\ g.touched = Top(t).touched
      /\ g.old_sandbox = Top(t).old_sandbox
  BY <1>2 DEF CallFrames, Objects
<1>4. ObjectTypes'
  BY <1>1 DEF StackInv, ObjectTypes
<1> HIDE DEF g
<1> QED BY <1>1, <1>3, <1>4, OwnFrameStack

\* Freeing blocks keeps an object typed.
LEMMA FreedIs ==
  ASSUME NEW o \in Objects, NEW A
  PROVE  /\ Freed(o, A) \in Objects /\ WithoutSlot(o) \in Objects
         /\ \A a \in Blocks : Freed(o, A).heap[a] = IF a \in A THEN 0 ELSE o.heap[a]
         /\ Freed(o, A).memory = o.memory /\ Freed(o, A).leaked = o.leaked
         /\ Freed(o, A).return_slot = o.return_slot
         /\ Freed(o, A).return_slot_size = o.return_slot_size
<1>1. \A B : Freed(o, B) \in Objects
  BY DEF Freed, Objects
<1> QED
  BY <1>1 DEF Freed, WithoutSlot, Objects

LEMMA GrowSlotStack ==
  ASSUME StackInv, NEW t \in Threads, GrowSlot(t) PROVE StackInv'
<1> DEFINE size == ReturnSize[Top(t).func]
           o == object[Top(t).sandbox]
           w == WithoutSlot(o)
<1>1. /\ stack[t] # <<>> /\ Top(t).kind = "call" /\ UNCHANGED thread_data
  BY DEF GrowSlot, At
<1>2. /\ Top(t) \in CallFrames /\ o \in Objects /\ w \in Objects /\ size \in Nat
      /\ Top(t).sandbox \in Sandboxes
  BY <1>1, CallOnTop, FreedIs, FrameFacts, SandboxInvokeAssumption
<1>3. PICK a \in FreeBlocks(w) :
        /\ Set(Top(t).sandbox, [w EXCEPT !.return_slot = a, !.return_slot_size = size, !.heap[a] = size])
        /\ SetTop(t, [Top(t) EXCEPT !.pc = "args", !.return_arg = a])
  BY DEF GrowSlot
<1>4. a \in Blocks /\ a \in Addresses
  BY DEF FreeBlocks, Addresses
<1>5. [w EXCEPT !.return_slot = a, !.return_slot_size = size, !.heap[a] = size] \in Objects
  <2> HIDE DEF w, size
  <2> QED BY <1>2, <1>4 DEF Objects
<1>6. ObjectTypes'
  BY <1>2, <1>3, <1>5, ObjectStep DEF StackInv
<1> DEFINE g == [Top(t) EXCEPT !.pc = "args", !.return_arg = a]
<1>7. /\ g \in CallFrames /\ g.sandbox = Top(t).sandbox /\ g.touched = Top(t).touched
      /\ g.old_sandbox = Top(t).old_sandbox
  BY <1>2, <1>4 DEF CallFrames
<1>8. SetTop(t, g)
  BY <1>3
<1> HIDE DEF g
<1> QED BY <1>1, <1>6, <1>7, <1>8, OwnFrameStack

LEMMA SlotRefusedStack ==
  ASSUME StackInv, NEW t \in Threads, SlotRefused(t) PROVE StackInv'
<1> DEFINE o == object[Top(t).sandbox]
           w == WithoutSlot(o)
           g == [Top(t) EXCEPT !.pc = "throwing"]
<1>1. /\ stack[t] # <<>> /\ Top(t).kind = "call" /\ UNCHANGED thread_data
      /\ SetTop(t, g) /\ Set(Top(t).sandbox, [w EXCEPT !.return_slot = Null])
  BY DEF SlotRefused, At
<1>2. Top(t) \in CallFrames /\ w \in Objects /\ Top(t).sandbox \in Sandboxes
  BY <1>1, CallOnTop, FreedIs
<1>3. [w EXCEPT !.return_slot = Null] \in Objects
  <2> HIDE DEF w
  <2> QED BY <1>2 DEF Objects, Addresses
<1>4. ObjectTypes'
  BY <1>1, <1>2, <1>3, ObjectStep DEF StackInv
<1>5. /\ g \in CallFrames /\ g.sandbox = Top(t).sandbox /\ g.touched = Top(t).touched
      /\ g.old_sandbox = Top(t).old_sandbox
  BY <1>2 DEF CallFrames
<1> HIDE DEF g
<1> QED BY <1>1, <1>4, <1>5, OwnFrameStack

\* The tags of a call that is in progress.
LEMMA TagIs ==
  ASSUME StackInv, NEW t \in Threads, stack[t] # <<>>, Top(t).kind = "call", NEW j \in Nat
  PROVE  Tag(t, j) \in Tags
<1>1. Len(stack[t]) \in 1 .. MaxDepth
  BY CallOnTop
<1> QED BY <1>1 DEF Tag, Tags

\* What PassArguments makes of the object.
PlacedMemory(t, o, n, p) ==
  [a \in Addresses |-> IF a \in Range(p) THEN Tag(t, LastPlace(n, p, a)) ELSE o.memory[a]]
Placed(t, o, n, p) ==
  [o EXCEPT !.heap = [a \in Blocks |-> IF a \in Range(p) THEN ClassSize ELSE @[a]],
            !.memory = PlacedMemory(t, o, n, p)]

LEMMA PlacedIs ==
  ASSUME StackInv, NEW t \in Threads, At(t, "call", "args"),
         NEW p \in Placements(object[Top(t).sandbox], ClassArgs[Top(t).func])
  PROVE  LET o == object[Top(t).sandbox]
             n == ClassArgs[Top(t).func]
             x == Placed(t, o, n, p)
         IN  /\ n \in Nat /\ x \in Objects
             /\ \A a \in Blocks : x.heap[a] = IF a \in Range(p) THEN ClassSize ELSE o.heap[a]
             /\ \A j \in 1 .. n : p[j] # Null => x.memory[p[j]] = Tag(t, j)
             /\ \A a \in Addresses \ Range(p) : x.memory[a] = o.memory[a]
             /\ x.return_slot = o.return_slot /\ x.return_slot_size = o.return_slot_size
             /\ x.leaked = o.leaked
<1> DEFINE o == object[Top(t).sandbox]
           n == ClassArgs[Top(t).func]
           m == PlacedMemory(t, o, n, p)
           x == Placed(t, o, n, p)
           last(a) == LastPlace(n, p, a)
<1>1. o \in Objects /\ Top(t) \in CallFrames /\ n \in Nat
  BY CallOnTop, FrameFacts, SandboxInvokeAssumption DEF At
<1>2. /\ p \in Seq(Addresses) /\ DOMAIN p = 1 .. n
      /\ \A j \in 1 .. n : p[j] \in FreeBlocks(o) \cup {Null} /\ p[j] \in Range(p)
      /\ \A j, k \in 1 .. n : p[j] = p[k] /\ p[j] # Null => j = k
      /\ \A a \in Range(p) : \E j \in 1 .. n : p[j] = a
  BY <1>1, PlacementIs
<1> HIDE DEF o, n
<1>3. \A a \in Range(p) : last(a) \in 1 .. n /\ p[last(a)] = a
  BY <1>1, <1>2, LastArgument
<1>4. \A a \in Addresses : m[a] = IF a \in Range(p) THEN Tag(t, last(a)) ELSE o.memory[a]
  BY DEF PlacedMemory
<1>5. m \in [Addresses -> Tags \cup {Old}]
  <2>1. \A a \in Range(p) : Tag(t, last(a)) \in Tags
    <3>1. \A j \in Nat : Tag(t, j) \in Tags
      BY TagIs DEF At
    <3> QED BY <1>1, <1>3, <3>1
  <2>2. \A a \in Addresses : o.memory[a] \in Tags \cup {Old}
    BY <1>1 DEF Objects
  <2> QED BY <2>1, <2>2 DEF PlacedMemory
<1>6. \A j \in 1 .. n : p[j] # Null => m[p[j]] = Tag(t, j)
  <2> TAKE j \in 1 .. n
  <2> HAVE p[j] # Null
  <2>1. p[j] \in Range(p) /\ p[j] \in Addresses
    BY <1>2 DEF FreeBlocks, Addresses
  <2>2. last(p[j]) = j
    BY <1>2, <1>3, <2>1
  <2> QED BY <1>4, <2>1, <2>2
<1> HIDE DEF m
<1>7. x = [o EXCEPT !.heap = [a \in Blocks |-> IF a \in Range(p) THEN ClassSize ELSE @[a]], !.memory = m]
  BY DEF Placed, m
<1>8. /\ x \in Objects
      /\ x.memory = m
      /\ \A a \in Blocks : x.heap[a] = IF a \in Range(p) THEN ClassSize ELSE o.heap[a]
      /\ x.return_slot = o.return_slot /\ x.return_slot_size = o.return_slot_size
      /\ x.leaked = o.leaked
  <2> HIDE DEF x
  <2>1. ClassSize \in Nat
    BY DEF ClassSize
  <2> QED BY <1>1, <1>5, <1>7, <2>1 DEF Objects
<1> HIDE DEF x
<1> QED
  BY <1>1, <1>4, <1>6, <1>8 DEF x, o, n

\* PassArguments in terms of Placed.
LEMMA PassArgumentsIs ==
  ASSUME StackInv, NEW t \in Threads, PassArguments(t)
  PROVE  /\ At(t, "call", "args") /\ UNCHANGED thread_data
         /\ \E p \in Placements(object[Top(t).sandbox], ClassArgs[Top(t).func]) :
              /\ SetTop(t, [Top(t) EXCEPT !.pc = "wasm", !.args = p])
              /\ Set(Top(t).sandbox, Placed(t, object[Top(t).sandbox], ClassArgs[Top(t).func], p))
<1>1. object[Top(t).sandbox] \in Objects
  BY CallOnTop DEF PassArguments, At
<1>2. \A a \in Addresses : object[Top(t).sandbox].memory[a] = object[Top(t).sandbox].memory[a]
  OBVIOUS
<1> QED
  BY <1>1 DEF PassArguments, Placed, PlacedMemory, LastPlace

LEMMA PassArgumentsStack ==
  ASSUME StackInv, NEW t \in Threads, PassArguments(t) PROVE StackInv'
<1> DEFINE o == object[Top(t).sandbox]
           n == ClassArgs[Top(t).func]
<1>1. At(t, "call", "args") /\ UNCHANGED thread_data
  BY PassArgumentsIs
<1>2. PICK p \in Placements(o, n) :
        /\ SetTop(t, [Top(t) EXCEPT !.pc = "wasm", !.args = p])
        /\ Set(Top(t).sandbox, Placed(t, o, n, p))
  BY PassArgumentsIs
<1>3. /\ stack[t] # <<>> /\ Top(t).kind = "call" /\ Top(t) \in CallFrames
      /\ o \in Objects /\ Top(t).sandbox \in Sandboxes /\ n \in Nat
  BY <1>1, CallOnTop, FrameFacts, SandboxInvokeAssumption DEF At
<1>4. Placed(t, o, n, p) \in Objects
  BY <1>1, PlacedIs
<1>5. ObjectTypes'
  BY <1>2, <1>3, <1>4, ObjectStep DEF StackInv
<1>6. p \in Seq(Addresses)
  BY <1>3, PlacementIs
<1> DEFINE g == [Top(t) EXCEPT !.pc = "wasm", !.args = p]
<1>7. /\ g \in CallFrames /\ g.sandbox = Top(t).sandbox /\ g.touched = Top(t).touched
      /\ g.old_sandbox = Top(t).old_sandbox
  BY <1>3, <1>6 DEF CallFrames
<1>8. SetTop(t, g)
  BY <1>2
<1> HIDE DEF g
<1> QED BY <1>1, <1>3, <1>5, <1>7, <1>8, OwnFrameStack

LEMMA StoreResultStack ==
  ASSUME StackInv, NEW t \in Threads, StoreResult(t) PROVE StackInv'
<1> DEFINE o == object[Top(t).sandbox]
           x == [o EXCEPT !.memory[Top(t).return_arg] = Tag(t, 0)]
           g == [Top(t) EXCEPT !.stored = TRUE]
<1>1. /\ stack[t] # <<>> /\ Top(t).kind = "call" /\ UNCHANGED thread_data
      /\ SetTop(t, g) /\ Set(Top(t).sandbox, x)
  BY DEF StoreResult, At
<1>2. Top(t) \in CallFrames /\ o \in Objects /\ Top(t).sandbox \in Sandboxes
  BY <1>1, CallOnTop
<1>3. Tag(t, 0) \in Tags
  BY <1>1, TagIs
<1>4. x \in Objects
  BY <1>2, <1>3 DEF Objects
<1>5. ObjectTypes'
  BY <1>1, <1>2, <1>4, ObjectStep DEF StackInv
<1>6. /\ g \in CallFrames /\ g.sandbox = Top(t).sandbox /\ g.touched = Top(t).touched
      /\ g.old_sandbox = Top(t).old_sandbox
  BY <1>2 DEF CallFrames
<1> HIDE DEF g
<1> QED BY <1>1, <1>5, <1>6, OwnFrameStack

\* Recording blocks as lost keeps an object typed.
Lost(o, A) == [o EXCEPT !.leaked = @ \cup (A \ {Null})]

LEMMA LostIs ==
  ASSUME NEW o \in Objects, NEW A \in SUBSET Addresses
  PROVE  /\ Lost(o, A) \in Objects
         /\ Lost(o, A).heap = o.heap /\ Lost(o, A).memory = o.memory
         /\ Lost(o, A).leaked = o.leaked \cup (A \ {Null})
         /\ Lost(o, A).return_slot = o.return_slot
         /\ Lost(o, A).return_slot_size = o.return_slot_size
BY DEF Lost, Objects, Addresses

LEMMA ArgsAre ==
  ASSUME NEW g \in CallFrames
  PROVE  /\ Range(g.args) \in SUBSET Addresses
         /\ DOMAIN g.args = 1 .. Len(g.args) /\ Len(g.args) \in Nat
BY FrameFacts, RangeOfSeq, LenProperties

LEMMA ReturnStack ==
  ASSUME StackInv, NEW t \in Threads, Return(t) PROVE StackInv'
<1> DEFINE o == object[Top(t).sandbox]
           x == FreeArguments(o, Top(t))
           v == IF ReturnsClass(Top(t)) THEN o.memory[o.return_slot] ELSE Old
           g == [Top(t) EXCEPT !.pc = "done", !.args = <<>>, !.result = v]
<1>1. /\ stack[t] # <<>> /\ Top(t).kind = "call" /\ UNCHANGED thread_data
      /\ SetTop(t, g) /\ Set(Top(t).sandbox, x)
  BY DEF Return, At
<1>2. Top(t) \in CallFrames /\ o \in Objects /\ Top(t).sandbox \in Sandboxes
  BY <1>1, CallOnTop
<1>3. x \in Objects
  <2>1. Range(Top(t).args) \in SUBSET Addresses
    BY <1>2, ArgsAre
  <2>2. x = Lost(o, Range(Top(t).args)) \/ x = Freed(o, Range(Top(t).args))
    BY DEF FreeArguments, Lost
  <2> HIDE DEF o, x
  <2> QED
    BY <1>2, <2>1, <2>2, LostIs, FreedIs
<1>4. ObjectTypes'
  BY <1>1, <1>2, <1>3, ObjectStep DEF StackInv
<1>5. v \in Tags \cup {Old}
  BY <1>2 DEF Objects
<1> HIDE DEF v
<1>6. /\ g \in CallFrames /\ g.sandbox = Top(t).sandbox /\ g.touched = Top(t).touched
      /\ g.old_sandbox = Top(t).old_sandbox
  <2>1. <<>> \in Seq(Addresses)
    OBVIOUS
  <2> QED BY <2>1, <1>2, <1>5 DEF CallFrames
<1> HIDE DEF g
<1> QED BY <1>1, <1>4, <1>6, OwnFrameStack

\* The tags of a call that is over go, those of the other calls stay.
LEMMA RetiredIs ==
  ASSUME NEW o \in Objects, NEW t
  PROVE  LET x == Retired(o, t)
         IN  /\ x \in Objects /\ x.heap = o.heap /\ x.leaked = o.leaked
             /\ x.return_slot = o.return_slot /\ x.return_slot_size = o.return_slot_size
             /\ \A a \in Addresses : \A u, i, j :
                  o.memory[a] = <<u, i, j>> /\ i # Len(stack[t]) => x.memory[a] = <<u, i, j>>
<1> DEFINE x == Retired(o, t)
<1>1. /\ x \in Objects /\ x.heap = o.heap /\ x.leaked = o.leaked
      /\ x.return_slot = o.return_slot /\ x.return_slot_size = o.return_slot_size
      /\ \A a \in Addresses :
           x.memory[a] = IF IsPrefix(<<t, Len(stack[t])>>, o.memory[a]) THEN Old ELSE o.memory[a]
  BY DEF Retired, Objects
<1>2. ASSUME NEW u, NEW i, NEW j, i # Len(stack[t])
      PROVE  ~IsPrefix(<<t, Len(stack[t])>>, <<u, i, j>>)
  <2>1. Len(<<t, Len(stack[t])>>) = 2 /\ <<t, Len(stack[t])>>[2] = Len(stack[t]) /\ <<u, i, j>>[2] = i
    OBVIOUS
  <2>2. SubSeq(<<t, Len(stack[t])>>, 1, 2)[2] = Len(stack[t])
    BY <2>1
  <2>3. SubSeq(<<u, i, j>>, 1, 2)[2] = i
    BY <2>1
  <2> QED BY <1>2, <2>1, <2>2, <2>3 DEF IsPrefix
<1> QED
  BY <1>1, <1>2

\* A call ends, by its return or by an exception: on_exit restores the sandbox
\* of the call around it.
LEMMA CallEndsStack ==
  ASSUME StackInv, NEW t \in Threads, stack[t] # <<>>, Top(t).kind = "call",
         Pop(t), RestoreSandbox(t), NEW o \in Objects, Set(Top(t).sandbox, o)
  PROVE  StackInv'
<1> DEFINE q == stack[t]
           d == thread_data[t]
           e == [d EXCEPT !.sandbox = Top(t).old_sandbox]
<1>1. /\ Good(q, d) /\ Odd(Len(q)) /\ Top(t) = Last(q) /\ Top(t) \in CallFrames
      /\ Top(t).sandbox \in Sandboxes
  BY CallOnTop
<1>2. Top(t).old_sandbox \in Sandboxes \cup {NoSandbox} /\ d \in Data
  BY <1>1, FrameFacts DEF Good
<1>3. e \in Data /\ e.sandbox = Last(q).old_sandbox /\ e.last_callback_invoked = d.last_callback_invoked
  BY <1>1, <1>2 DEF Data
<1>4. stack' = [stack EXCEPT ![t] = Front(q)] /\ thread_data' = [thread_data EXCEPT ![t] = e]
  BY DEF Pop, RestoreSandbox
<1>5. ObjectTypes'
  BY <1>1, ObjectStep DEF StackInv
<1> HIDE DEF q, d, e
<1>6. Good(Front(q), e)
  <2>1. q # <<>>
    BY DEF q
  <2> QED BY <2>1, <1>1, <1>3, Popped
<1> QED
  BY <1>4, <1>5, <1>6, ThreadStep

LEMMA LeaveStack ==
  ASSUME StackInv, NEW t \in Threads, Leave(t) PROVE StackInv'
<1>1. stack[t] # <<>> /\ Top(t).kind = "call"
  BY DEF Leave, At
<1>2. Retired(object[Top(t).sandbox], t) \in Objects
  BY <1>1, CallOnTop, RetiredIs
<1> QED
  BY <1>1, <1>2, CallEndsStack DEF Leave

LEMMA UnwindStack ==
  ASSUME StackInv, NEW t \in Threads, Unwind(t) PROVE StackInv'
<1> DEFINE o == object[Top(t).sandbox]
           l == Lost(o, Range(Top(t).args))
<1>1. /\ stack[t] # <<>> /\ Top(t).kind = "call" /\ Pop(t) /\ RestoreSandbox(t)
      /\ Set(Top(t).sandbox, Retired(l, t))
  BY DEF Unwind, At, Lost
<1>2. l \in Objects
  BY <1>1, CallOnTop, ArgsAre, LostIs
<1>3. Retired(l, t) \in Objects
  <2> HIDE DEF l
  <2> QED BY <1>2, RetiredIs
<1> HIDE DEF l
<1> QED
  BY <1>1, <1>3, CallEndsStack

\* Replacing the last element in two ways.
LEMMA ReplacedIsExcept ==
  ASSUME NEW S, NEW q \in Seq(S), q # <<>>, NEW e \in S
  PROVE  Front(q) \o <<e>> = [q EXCEPT ![Len(q)] = e]
<1> DEFINE r == Front(q) \o <<e>>
           x == [q EXCEPT ![Len(q)] = e]
<1>1. Len(q) \in 1 .. Len(q)
  BY FrontIs
<1>2. r \in Seq(S) /\ Len(r) = Len(q) /\ r[Len(q)] = e /\ \A i \in 1 .. Len(q) - 1 : r[i] = q[i]
  BY LastReplaced
<1>3. x \in Seq(S) /\ Len(x) = Len(q) /\ \A j \in 1 .. Len(q) : x[j] = IF j = Len(q) THEN e ELSE q[j]
  BY <1>1, ExceptSeq
<1> HIDE DEF r, x
<1>4. ASSUME NEW i \in 1 .. Len(r) PROVE r[i] = x[i]
  <2>1. CASE i = Len(q)  BY <2>1, <1>1, <1>2, <1>3
  <2>2. CASE i # Len(q)
    <3>1. i \in 1 .. Len(q) - 1  BY <2>2, <1>1, <1>2
    <3> QED BY <3>1, <2>2, <1>1, <1>2, <1>3
  <2> QED BY <2>1, <2>2
<1>5. r = x
  BY <1>2, <1>3, <1>4, SeqEqual
<1> QED BY <1>5 DEF r, x

LEMMA TopCallReplaced ==
  ASSUME NEW q, NEW d, Good(q, d), q # <<>>, Odd(Len(q)),
         NEW g \in CallFrames, g.sandbox = Last(q).sandbox,
         g.old_sandbox = Last(q).old_sandbox, g.touched \subseteq {g.sandbox}
  PROVE  Good(Front(q) \o <<g>>, d)
<1>1. Good([q EXCEPT ![Len(q)] = g], d)
  BY TopCallChanges
<1>2. q \in Seq(Frames) /\ g \in Frames
  BY DEF Good, Typed, Frames
<1>3. Front(q) \o <<g>> = [q EXCEPT ![Len(q)] = g]
  BY <1>2, ReplacedIsExcept
<1> QED
  BY <1>1, <1>3

\* The frame that an interceptor leaves of the call it was made from.
LEMMA TouchedFrame ==
  ASSUME NEW g \in CallFrames, NEW s \in Sandboxes
  PROVE  LET h == Touch(g, s)
         IN  /\ h \in CallFrames /\ h \in Frames /\ h.touched = g.touched \cup {s}
             /\ h.sandbox = g.sandbox /\ h.old_sandbox = g.old_sandbox /\ h.pc = g.pc
             /\ h.args = g.args /\ h.func = g.func /\ h.stored = g.stored /\ h.kind = g.kind
             /\ h.crossed = g.crossed /\ h.return_arg = g.return_arg /\ h.result = g.result
BY DEF CallFrames, Frames, Touch

LEMMA EnterInterceptorStack ==
  ASSUME StackInv, NEW t \in Threads, NEW n \in Interceptors, EnterInterceptor(t, n)
  PROVE  StackInv'
<1> DEFINE q == stack[t]
           d == thread_data[t]
           h == Touch(Last(q), d.sandbox)
           r == Front(q) \o <<h>>
           e == [d EXCEPT !.last_callback_invoked = n]
           c == NewCallback(n)
<1>1. /\ q # <<>> /\ Top(t).kind = "call" /\ Last(q).pc = "wasm" /\ Len(q) < MaxDepth
      /\ stack' = [stack EXCEPT ![t] = Append(r, c)]
      /\ thread_data' = [thread_data EXCEPT ![t] = e] /\ UNCHANGED object
  <2>1. q # <<>> /\ Top(t).kind = "call" /\ Last(q).pc = "wasm" /\ Len(q) < MaxDepth
    BY DEF EnterInterceptor, At, Top
  <2>2. stack' = [stack EXCEPT ![t] = Append(r, c)]
    BY DEF EnterInterceptor
  <2>3. thread_data' = [thread_data EXCEPT ![t] = e] /\ UNCHANGED object
    BY DEF EnterInterceptor
  <2> QED BY <2>1, <2>2, <2>3
<1>2. /\ Good(q, d) /\ Odd(Len(q)) /\ Top(t) = Last(q) /\ Last(q) \in CallFrames
      /\ d.sandbox = Last(q).sandbox /\ d.sandbox \in Sandboxes
      /\ Last(q).touched \subseteq {d.sandbox}
  BY <1>1, CallOnTop
<1>3. /\ h \in CallFrames /\ h \in Frames /\ h.touched \subseteq {h.sandbox}
      /\ h.sandbox = Last(q).sandbox /\ h.old_sandbox = Last(q).old_sandbox /\ h.pc = "wasm"
  BY <1>1, <1>2, TouchedFrame
<1>4. e \in Data /\ e.sandbox = d.sandbox /\ e.last_callback_invoked = n
  BY <1>2 DEF Good, Data
<1>5. c \in CallbackFrames /\ c.pc = "entered" /\ c.number = n
  BY DEF NewCallback, CallbackFrames
<1> HIDE DEF q, d, h, e, c
<1>6. q \in Seq(Frames)
  BY <1>2 DEF Good, Typed
<1>7. Good(r, d)
  BY <1>1, <1>2, <1>3, TopCallReplaced
<1>8. Len(r) = Len(q) /\ Last(r).pc = "wasm"
  BY <1>1, <1>3, <1>6, LastReplaced DEF Last
<1> HIDE DEF r
<1>9. Good(Append(r, c), e)
  BY <1>1, <1>2, <1>4, <1>5, <1>7, <1>8, Pushed DEF Frames
<1>10. ObjectTypes'
  BY <1>1 DEF StackInv, ObjectTypes
<1> QED
  BY <1>1, <1>9, <1>10, ThreadStep

LEMMA GetExecutedKeyStack ==
  ASSUME StackInv, NEW t \in Threads, GetExecutedKey(t) PROVE StackInv'
<1> DEFINE d == thread_data[t]
           g == [Top(t) EXCEPT !.pc = "host", !.key = <<d.sandbox, d.last_callback_invoked>>]
<1>1. /\ stack[t] # <<>> /\ Top(t).kind = "callback" /\ Top(t).pc = "entered"
      /\ SetTop(t, g) /\ UNCHANGED <<thread_data, object>>
  BY DEF GetExecutedKey, At
<1>2. /\ Good(stack[t], d) /\ ~Odd(Len(stack[t])) /\ Top(t) = Last(stack[t])
      /\ Top(t) \in CallbackFrames /\ d.sandbox \in Sandboxes
      /\ d.last_callback_invoked = Top(t).number
  BY <1>1, CallbackOnTop
<1>3. <<d.sandbox, d.last_callback_invoked>> \in Sandboxes \X Interceptors
  BY <1>2, FrameFacts
<1>4. /\ g \in CallbackFrames /\ g.pc = "host" /\ g.number = Top(t).number
      /\ g.key = <<d.sandbox, d.last_callback_invoked>>
  BY <1>2, <1>3 DEF CallbackFrames
<1> HIDE DEF g, d
<1>5. Good([stack[t] EXCEPT ![Len(stack[t])] = g], d)
  BY <1>1, <1>2, <1>4, KeyLookedUp
<1>6. stack' = [stack EXCEPT ![t] = [stack[t] EXCEPT ![Len(stack[t])] = g]]
  BY <1>1 DEF SetTop
<1>7. ObjectTypes'
  BY <1>1 DEF StackInv, ObjectTypes
<1> QED
  BY <1>1, <1>5, <1>6, <1>7, StackStep DEF d

\* The stack under a callback.
LEMMA UnderCallback ==
  ASSUME StackInv, NEW t \in Threads, stack[t] # <<>>, Top(t).kind = "callback"
  PROVE  LET rest == Front(stack[t])
         IN  /\ Good(rest, thread_data[t]) /\ rest # <<>> /\ rest \in Seq(Frames)
             /\ Len(rest) = Len(stack[t]) - 1 /\ Odd(Len(rest))
             /\ Last(rest) = stack[t][Len(stack[t]) - 1] /\ Last(rest) \in CallFrames
             /\ Last(rest).touched \subseteq {Last(rest).sandbox}
             /\ Last(rest).pc = "wasm"
             /\ thread_data[t].sandbox = Last(rest).sandbox /\ Last(rest).sandbox \in Sandboxes
<1> DEFINE q == stack[t]
           n == Len(q)
           rest == Front(q)
<1>1. /\ Good(q, thread_data[t]) /\ n \in 2 .. MaxDepth /\ ~Odd(n) /\ Odd(n - 1)
      /\ q[n - 1] \in CallFrames /\ q[n - 1].pc = "wasm"
      /\ q[n - 1].touched \subseteq {q[n - 1].sandbox}
      /\ thread_data[t].sandbox = q[n - 1].sandbox
      /\ thread_data[t].sandbox \in Sandboxes
  BY CallbackOnTop
<1>2. rest \in Seq(Frames) /\ Len(rest) = n - 1 /\ \A i \in 1 .. n - 1 : rest[i] = q[i]
  BY <1>1, FrontIs DEF Good, Typed
<1>3. Good(rest, thread_data[t])
  BY <1>1, Popped DEF Good
<1> HIDE DEF rest, n
<1>4. n - 1 \in 1 .. n - 1
  BY <1>1
<1>5. rest # <<>>
  BY <1>2, <1>4, EmptySeq
<1>6. Last(rest) = q[n - 1]
  BY <1>2, <1>4 DEF Last
<1> QED
  BY <1>1, <1>2, <1>3, <1>5, <1>6 DEF rest, n

LEMMA CallbackReturnsStack ==
  ASSUME StackInv, NEW t \in Threads, CallbackReturns(t) PROVE StackInv'
<1> DEFINE rest == Front(stack[t])
           h == Touch(Last(rest), thread_data[t].sandbox)
           q == IF Top(t).number \in Promoted THEN Front(rest) \o <<h>> ELSE rest
<1>1. /\ stack[t] # <<>> /\ Top(t).kind = "callback" /\ UNCHANGED <<thread_data, object>>
      /\ stack' = [stack EXCEPT ![t] = q]
  BY DEF CallbackReturns, At
<1>2. /\ Good(rest, thread_data[t]) /\ rest # <<>> /\ rest \in Seq(Frames) /\ Odd(Len(rest))
      /\ Last(rest) \in CallFrames /\ Last(rest).touched \subseteq {Last(rest).sandbox}
      /\ thread_data[t].sandbox = Last(rest).sandbox /\ Last(rest).sandbox \in Sandboxes
  BY <1>1, UnderCallback
<1> HIDE DEF rest
<1>3. /\ h \in CallFrames /\ h \in Frames /\ h.touched \subseteq {h.sandbox}
      /\ h.sandbox = Last(rest).sandbox /\ h.old_sandbox = Last(rest).old_sandbox
  BY <1>2, TouchedFrame
<1> HIDE DEF h
<1>4. Good(q, thread_data[t])
  BY <1>2, <1>3, TopCallReplaced
<1>5. ObjectTypes'
  BY <1>1 DEF StackInv, ObjectTypes
<1> QED
  BY <1>1, <1>4, <1>5, StackStep

LEMMA CallbackThrowsStack ==
  ASSUME StackInv, NEW t \in Threads, CallbackThrows(t) PROVE StackInv'
<1> DEFINE rest == Front(stack[t])
           h == [Last(rest) EXCEPT !.pc = "throwing"]
<1>1. /\ stack[t] # <<>> /\ Top(t).kind = "callback" /\ UNCHANGED <<thread_data, object>>
      /\ stack' = [stack EXCEPT ![t] = Front(rest) \o <<h>>]
  BY DEF CallbackThrows, At
<1>2. /\ Good(rest, thread_data[t]) /\ rest # <<>> /\ rest \in Seq(Frames) /\ Odd(Len(rest))
      /\ Last(rest) \in CallFrames /\ Last(rest).touched \subseteq {Last(rest).sandbox}
  BY <1>1, UnderCallback
<1> HIDE DEF rest
<1>3. /\ h \in CallFrames /\ h \in Frames /\ h.touched \subseteq {h.sandbox}
      /\ h.sandbox = Last(rest).sandbox /\ h.old_sandbox = Last(rest).old_sandbox
  BY <1>2 DEF CallFrames, Frames
<1> HIDE DEF h
<1>4. Good(Front(rest) \o <<h>>, thread_data[t])
  BY <1>2, <1>3, TopCallReplaced
<1>5. ObjectTypes'
  BY <1>1 DEF StackInv, ObjectTypes
<1> QED
  BY <1>1, <1>4, <1>5, StackStep

-----------------------------------------------------------------------------
(***************************************************************************)
(* The theorems about thread data and callbacks                            *)
(***************************************************************************)
LEMMA StackInvInit == Init => StackInv
<1> SUFFICES ASSUME Init PROVE StackInv
  OBVIOUS
<1>1. <<>> \in Seq(Frames) /\ Len(<<>>) = 0 /\ 0 <= MaxDepth
  BY SandboxInvokeAssumption
<1>2. StackTypes
  BY <1>1 DEF Init, StackTypes, Typed
<1>3. DataTypes
  BY DEF Init, DataTypes, Data
<1>4. ObjectTypes
  BY DEF Init, ObjectTypes, NewObject, Objects, Addresses
<1>5. \A t \in Threads : Nested(stack[t], thread_data[t])
  BY <1>1 DEF Init, Nested, Current
<1> QED
  BY <1>2, <1>3, <1>4, <1>5 DEF StackInv

LEMMA StackInvStep == StackInv /\ [Next]_vars => StackInv'
<1> SUFFICES ASSUME StackInv, [Next]_vars PROVE StackInv'
  OBVIOUS
<1>1. CASE UNCHANGED vars
  <2>1. stack' = stack /\ thread_data' = thread_data /\ object' = object
    BY <1>1 DEF vars
  <2>2. StackTypes' /\ DataTypes' /\ ObjectTypes'
    BY <2>1 DEF StackInv, StackTypes, DataTypes, ObjectTypes
  <2>3. \A t \in Threads : Nested(stack[t], thread_data[t])'
    BY <2>1 DEF StackInv
  <2> QED
    BY <2>2, <2>3 DEF StackInv
<1>2. CASE Next
  BY <1>2, CallStack, SlotFitsStack, GrowSlotStack, SlotRefusedStack, PassArgumentsStack,
     StoreResultStack, ReturnStack, LeaveStack, EnterInterceptorStack, GetExecutedKeyStack,
     CallbackReturnsStack, CallbackThrowsStack, UnwindStack DEF Next
<1> QED
  BY <1>1, <1>2

LEMMA StackInvInductive == Spec => []StackInv
BY StackInvInit, StackInvStep, PTL DEF Spec

\* Every variable has a value of its type, and calls and callbacks alternate.
THEOREM TypeCorrect == Spec => []TypeOK
<1>1. StackInv => TypeOK
  <2> SUFFICES ASSUME StackInv PROVE TypeOK
    OBVIOUS
  <2>1. \A t \in Threads : DOMAIN stack[t] = 1 .. Len(stack[t])
    BY LenProperties DEF StackInv, StackTypes, Typed
  <2> QED
    BY <2>1 DEF StackInv, StackTypes, DataTypes, ObjectTypes, Typed, Data, TypeOK, Odd
<1> QED
  BY <1>1, StackInvInductive, PTL

\* The innermost call is the one on top or the one under the callback on top.
LEMMA Innermost ==
  ASSUME StackInv, NEW t \in Threads
  PROVE  LET n == Len(stack[t])
             k == CHOOSE i \in Calls(t) : \A j \in Calls(t) : j <= i
         IN  /\ Calls(t) = {} <=> stack[t] = <<>>
             /\ Calls(t) # {} => k = IF Odd(n) THEN n ELSE n - 1
<1> DEFINE n == Len(stack[t])
           m == IF Odd(n) THEN n ELSE n - 1
<1>1. /\ n \in Nat /\ DOMAIN stack[t] = 1 .. n
      /\ stack[t] # <<>> => n > 0
      /\ stack[t] = <<>> => n = 0
      /\ \A i \in 1 .. n : stack[t][i].kind = "call" <=> Odd(i)
  BY TypedFacts DEF StackInv, StackTypes
<1> HIDE DEF n
<1>2. Calls(t) = {i \in 1 .. n : Odd(i)}
  BY <1>1 DEF Calls
<1>3. stack[t] # <<>> => m \in 1 .. n /\ Odd(m)
  <2>1. n # 0 => n >= 1 /\ (~Odd(n) => n >= 2)
    BY <1>1, Alternate
  <2>2. n >= 2 /\ ~Odd(n) => n - 1 \in Nat /\ n - 1 + 1 = n
    BY <1>1
  <2>3. n >= 2 /\ ~Odd(n) => Odd(n - 1)
    BY <2>2, Alternate
  <2> QED BY <2>1, <2>3, <1>1
<1>4. stack[t] # <<>> => \A j \in Calls(t) : j <= m
  BY <1>1, <1>2
<1>5. stack[t] # <<>> => m \in Calls(t)
  BY <1>2, <1>3
<1>6. stack[t] # <<>> => (CHOOSE i \in Calls(t) : \A j \in Calls(t) : j <= i) = m
  <2>1. \A i, j \in Calls(t) : i <= j /\ j <= i => i = j
    BY <1>1, <1>2
  <2> HIDE DEF m
  <2> QED BY <1>4, <1>5, <2>1
<1> QED
  BY <1>1, <1>2, <1>5, <1>6 DEF n

\* thread_data.sandbox is that of the innermost call, after any nesting of
\* calls and after exceptions.
THEOREM ThreadDataCorrect == Spec => []ThreadDataIsCurrent
<1>1. StackInv => ThreadDataIsCurrent
  <2> SUFFICES ASSUME StackInv, NEW t \in Threads
               PROVE  thread_data[t].sandbox =
                        IF Calls(t) = {} THEN NoSandbox
                        ELSE stack[t][CHOOSE i \in Calls(t) : \A j \in Calls(t) : j <= i].sandbox
    BY DEF ThreadDataIsCurrent
  <2>1. thread_data[t].sandbox = Current(stack[t])
    BY DEF StackInv, Nested
  <2> QED
    BY <2>1, Innermost DEF Current
<1> QED
  BY <1>1, StackInvInductive, PTL

\* Interceptors work on the sandbox that called them.
THEOREM InterceptorCorrect == Spec => []InterceptorReachesCaller
<1>1. StackInv => InterceptorReachesCaller
  <2> SUFFICES ASSUME StackInv, NEW t \in Threads, NEW i \in Calls(t)
               PROVE  stack[t][i].touched \subseteq {stack[t][i].sandbox}
    BY DEF InterceptorReachesCaller
  <2>1. i \in 1 .. Len(stack[t]) /\ Odd(i)
    BY TypedFacts DEF StackInv, StackTypes, Calls
  <2> QED
    BY <2>1 DEF StackInv, Nested, CallNested
<1> QED
  BY <1>1, StackInvInductive, PTL

\* A callback is told the key of its own sandbox and interceptor.
THEOREM KeyCorrect == Spec => []KeyIsOwn
<1>1. StackInv => KeyIsOwn
  <2> SUFFICES ASSUME StackInv, NEW t \in Threads, NEW i \in DOMAIN stack[t],
                      stack[t][i].kind = "callback", stack[t][i].pc = "host"
               PROVE  stack[t][i].key = <<stack[t][i - 1].sandbox, stack[t][i].number>>
    BY DEF KeyIsOwn
  <2>1. i \in 1 .. Len(stack[t]) /\ ~Odd(i)
    BY TypedFacts DEF StackInv, StackTypes
  <2> QED
    BY <2>1 DEF StackInv, Nested, CallbackNested
<1> QED
  BY <1>1, StackInvInductive, PTL

-----------------------------------------------------------------------------
(***************************************************************************)
(* The inductive invariant about the heaps of sandboxes                    *)
(***************************************************************************)
\* The blocks of the class arguments of a call; the calls of t in sandbox s;
\* the calls that count on the return slot.
Passed(g) == Range(g.args) \ {Null}
CallsIn(t, s) == {i \in Calls(t) : stack[t][i].sandbox = s}
Busy(g) == ReturnsClass(g) /\ g.pc \in {"args", "wasm"}

\* The return slot and what is lost are held, and are not the same.
ObjectInv(o) ==
  /\ o.return_slot # Null =>
       /\ o.heap[o.return_slot] = o.return_slot_size
       /\ o.return_slot_size # 0
       /\ o.return_slot \notin o.leaked
  /\ \A a \in o.leaked : o.heap[a] # 0

\* What call g, at depth i of the stack of t, can rely on in its sandbox: its
\* arguments are in blocks of their own that still hold them, and so is the
\* class it returns, unless another call crossed it.
FrameInv(o, t, i, g) ==
  /\ g.pc \in {"slot", "args", "done"} => g.args = <<>>
  /\ \A j, k \in DOMAIN g.args : g.args[j] = g.args[k] /\ g.args[j] # Null => j = k
  /\ \A a \in Passed(g) : o.heap[a] = ClassSize /\ a # o.return_slot /\ a \notin o.leaked
  /\ g.pc = "wasm" =>
       \A j \in DOMAIN g.args : g.args[j] # Null => o.memory[g.args[j]] = <<t, i, j>>
  /\ g.pc \in {"slot", "args"} => ~g.stored /\ ~g.crossed
  /\ Busy(g) => g.return_arg \notin Passed(g)
  /\ Busy(g) /\ ~g.crossed =>
       /\ g.return_arg = o.return_slot
       /\ g.stored /\ g.return_arg # Null => o.memory[g.return_arg] = <<t, i, 0>>
  /\ g.pc = "done" /\ ReturnsClass(g) /\ ~g.crossed /\ g.return_arg # Null => g.result = <<t, i, 0>>

\* Two calls in the same sandbox, h made by a callback of g.
PairInv(g, h) ==
  /\ Passed(g) \cap Passed(h) = {}
  /\ ReturnsClass(g) /\ ReturnsClass(h) => g.crossed
  /\ Busy(h) => h.return_arg \notin Passed(g)

\* A sandbox serves one thread.
Exclusive ==
  \A t, u \in Threads : \A s \in Sandboxes : CallsIn(t, s) # {} /\ CallsIn(u, s) # {} => t = u

SandboxInv(s) ==
  /\ ObjectInv(object[s])
  /\ \A t \in Threads : \A i \in CallsIn(t, s) :
       /\ FrameInv(object[s], t, i, stack[t][i])
       /\ \A k \in CallsIn(t, s) : i < k => PairInv(stack[t][i], stack[t][k])
  /\ \A a \in Blocks \ FreeBlocks(object[s]) :
       \/ a = object[s].return_slot
       \/ a \in object[s].leaked
       \/ \E t \in Threads : \E i \in CallsIn(t, s) : a \in Passed(stack[t][i])

HeapInv == Exclusive /\ \A s \in Sandboxes : SandboxInv(s)

-----------------------------------------------------------------------------
(***************************************************************************)
(* How a step changes the calls of each sandbox                            *)
(***************************************************************************)
LEMMA CallsAre ==
  ASSUME StackInv, NEW t \in Threads
  PROVE  /\ Len(stack[t]) \in Nat
         /\ Calls(t) = {i \in 1 .. Len(stack[t]) : Odd(i)}
         /\ \A i \in Calls(t) : stack[t][i] \in CallFrames /\ stack[t][i].sandbox \in Sandboxes
BY TypedFacts, FrameFacts DEF StackInv, StackTypes, Calls

\* The call on top and its sandbox change.
LEMMA TopSandbox ==
  ASSUME StackInv, HeapInv, NEW t \in Threads, stack[t] # <<>>, Top(t).kind = "call",
         NEW g \in CallFrames, g.sandbox = Top(t).sandbox, SetTop(t, g),
         NEW x, Set(Top(t).sandbox, x), ObjectInv(x),
         FrameInv(x, t, Len(stack[t]), g),
         \A i \in CallsIn(t, Top(t).sandbox) : i < Len(stack[t]) =>
           FrameInv(x, t, i, stack[t][i]) /\ PairInv(stack[t][i], g),
         \A a \in Blocks \ FreeBlocks(x) :
           \/ a = x.return_slot \/ a \in x.leaked \/ a \in Passed(g)
           \/ \E i \in CallsIn(t, Top(t).sandbox) : i < Len(stack[t]) /\ a \in Passed(stack[t][i])
  PROVE  HeapInv'
<1>s. PICK s \in Sandboxes : s = Top(t).sandbox
  BY CallOnTop
<1>n. PICK n \in Nat : n = Len(stack[t])
  BY CallOnTop
<1> USE <1>s, <1>n
<1>1. /\ n \in Nat /\ n \in 1 .. n /\ Odd(n) /\ s \in Sandboxes /\ Top(t) = stack[t][n]
      /\ stack[t] \in Seq(Frames) /\ g \in Frames
  BY CallOnTop DEF Good, Typed, Frames
<1>2. /\ Len(stack'[t]) = n /\ stack'[t][n] = g
      /\ \A i \in 1 .. n : i # n => stack'[t][i] = stack[t][i]
      /\ DOMAIN stack'[t] = 1 .. n /\ DOMAIN stack[t] = 1 .. n
      /\ \A u \in Threads \ {t} : stack'[u] = stack[u]
  <2>1. stack' = [stack EXCEPT ![t] = [stack[t] EXCEPT ![n] = g]]
    BY DEF SetTop
  <2>2. stack'[t] = [stack[t] EXCEPT ![n] = g] /\ \A u \in Threads \ {t} : stack'[u] = stack[u]
    BY <2>1 DEF StackInv, StackTypes
  <2> DEFINE r == [stack[t] EXCEPT ![n] = g]
  <2>3. r \in Seq(Frames) /\ Len(r) = n /\ r[n] = g /\ \A i \in 1 .. n : i # n => r[i] = stack[t][i]
    BY <1>1, ExceptSeq
  <2> HIDE DEF r
  <2>4. DOMAIN r = 1 .. n /\ DOMAIN stack[t] = 1 .. n
    BY <1>1, <2>3, LenProperties
  <2> QED BY <2>2, <2>3, <2>4 DEF r
<1>3. /\ object'[s] = x
      /\ \A r \in Sandboxes \ {s} : object'[r] = object[r]
  BY <1>1 DEF Set, StackInv, ObjectTypes
<1>4. g.kind = "call" /\ stack[t][n].kind = "call"
  BY <1>1, FrameFacts
<1>5. \A u \in Threads, r \in Sandboxes : CallsIn(u, r)' = CallsIn(u, r)
  <2>1. \A u \in Threads \ {t}, r \in Sandboxes : CallsIn(u, r)' = CallsIn(u, r)
    BY <1>2 DEF CallsIn, Calls
  <2>2. \A r \in Sandboxes : CallsIn(t, r)' = CallsIn(t, r)
    BY <1>1, <1>2, <1>4 DEF CallsIn, Calls
  <2> QED BY <2>1, <2>2
<1>6. \A r \in Sandboxes : CallsIn(t, r) \subseteq 1 .. n
  BY <1>2 DEF CallsIn, Calls
<1>7. n \in CallsIn(t, s) /\ \A r \in Sandboxes \ {s} : n \notin CallsIn(t, r)
  BY <1>1, <1>2, <1>4 DEF CallsIn, Calls
<1>8. \A u \in Threads \ {t} : CallsIn(u, s) = {}
  BY <1>1, <1>7 DEF HeapInv, Exclusive
<1>9. Exclusive'
  BY <1>5 DEF HeapInv, Exclusive
<1>10. ASSUME NEW r \in Sandboxes \ {s} PROVE SandboxInv(r)'
  <2>1. SandboxInv(r) /\ object'[r] = object[r]
    BY <1>3 DEF HeapInv
  <2>2. \A u \in Threads : CallsIn(u, r)' = CallsIn(u, r) /\ \A i \in CallsIn(u, r) : stack'[u][i] = stack[u][i]
    BY <1>2, <1>5, <1>6, <1>7
  <2> QED BY <2>1, <2>2 DEF SandboxInv
<1>11. SandboxInv(s)'
  <2>1. SandboxInv(s)
    BY <1>1 DEF HeapInv
  <2>2. CallsIn(t, s)' = CallsIn(t, s) /\ \A u \in Threads \ {t} : CallsIn(u, s)' = {}
    BY <1>1, <1>5, <1>8
  <2>3. \A i \in CallsIn(t, s) : i = n \/ (i < n /\ stack'[t][i] = stack[t][i])
    BY <1>1, <1>2, <1>6
  <2>4. \A i \in CallsIn(t, s) : FrameInv(x, t, i, stack'[t][i])
    BY <1>2, <2>3
  <2>5. \A i, k \in CallsIn(t, s) : i < k => PairInv(stack'[t][i], stack'[t][k])
    <3> TAKE i, k \in CallsIn(t, s)
    <3> HAVE i < k
    <3>1. i \in 1 .. n /\ k \in 1 .. n
      BY <1>1, <1>6
    <3>2. i < n /\ stack'[t][i] = stack[t][i]
      BY <1>1, <2>3, <3>1
    <3>3. CASE k = n
      BY <3>2, <3>3, <1>2
    <3>4. CASE k # n
      <4>1. stack'[t][k] = stack[t][k]
        BY <2>3, <3>4
      <4> QED BY <4>1, <3>2, <2>1 DEF SandboxInv
    <3> QED BY <3>3, <3>4
  <2>6. \A a \in Blocks \ FreeBlocks(x) :
          \/ a = x.return_slot \/ a \in x.leaked
          \/ \E i \in CallsIn(t, s) : a \in Passed(stack'[t][i])
    BY <1>2, <1>7, <2>3
  <2>7. ObjectInv(x)
    OBVIOUS
  <2> QED
    BY <1>3, <2>2, <2>4, <2>5, <2>6, <2>7 DEF SandboxInv
<1> QED
  BY <1>9, <1>10, <1>11 DEF HeapInv

\* The call on top is over and its sandbox changes.
LEMMA PopSandbox ==
  ASSUME StackInv, HeapInv, NEW t \in Threads, stack[t] # <<>>, Top(t).kind = "call",
         Pop(t), NEW x, Set(Top(t).sandbox, x), ObjectInv(x),
         \A i \in CallsIn(t, Top(t).sandbox) : i < Len(stack[t]) => FrameInv(x, t, i, stack[t][i]),
         \A a \in Blocks \ FreeBlocks(x) :
           \/ a = x.return_slot \/ a \in x.leaked
           \/ \E i \in CallsIn(t, Top(t).sandbox) : i < Len(stack[t]) /\ a \in Passed(stack[t][i])
  PROVE  HeapInv'
<1>s. PICK s \in Sandboxes : s = Top(t).sandbox
  BY CallOnTop
<1>n. PICK n \in Nat : n = Len(stack[t])
  BY CallOnTop
<1> USE <1>s, <1>n
<1>1. /\ n \in 1 .. n /\ Odd(n) /\ Top(t) = stack[t][n] /\ stack[t] \in Seq(Frames)
  BY CallOnTop DEF Good, Typed
<1>2. /\ Len(stack'[t]) = n - 1
      /\ \A i \in 1 .. n - 1 : stack'[t][i] = stack[t][i]
      /\ DOMAIN stack'[t] = 1 .. n - 1 /\ DOMAIN stack[t] = 1 .. n
      /\ \A u \in Threads \ {t} : stack'[u] = stack[u]
  <2>1. stack'[t] = Front(stack[t]) /\ \A u \in Threads \ {t} : stack'[u] = stack[u]
    BY DEF Pop, StackInv, StackTypes
  <2> DEFINE r == Front(stack[t])
  <2>2. r \in Seq(Frames) /\ Len(r) = n - 1 /\ \A i \in 1 .. n - 1 : r[i] = stack[t][i]
    BY <1>1, FrontIs
  <2> HIDE DEF r
  <2>3. DOMAIN r = 1 .. n - 1 /\ DOMAIN stack[t] = 1 .. n
    BY <1>1, <2>2, LenProperties
  <2> QED BY <2>1, <2>2, <2>3 DEF r
<1>3. /\ object'[s] = x
      /\ \A r \in Sandboxes \ {s} : object'[r] = object[r]
  BY DEF Set, StackInv, ObjectTypes
<1>4. stack[t][n].kind = "call"
  BY <1>1
<1>5. /\ \A u \in Threads \ {t}, r \in Sandboxes : CallsIn(u, r)' = CallsIn(u, r)
      /\ \A r \in Sandboxes : CallsIn(t, r)' = CallsIn(t, r) \ {n}
  <2>1. \A u \in Threads \ {t}, r \in Sandboxes : CallsIn(u, r)' = CallsIn(u, r)
    BY <1>2 DEF CallsIn, Calls
  <2>2. \A r \in Sandboxes : CallsIn(t, r)' = CallsIn(t, r) \ {n}
    <3> TAKE r \in Sandboxes
    <3>1. CallsIn(t, r) =
            {i \in 1 .. n : stack[t][i].kind = "call" /\ stack[t][i].sandbox = r}
      BY <1>2 DEF CallsIn, Calls
    <3>2. CallsIn(t, r)' =
            {i \in 1 .. n - 1 : stack'[t][i].kind = "call" /\ stack'[t][i].sandbox = r}
      BY <1>2 DEF CallsIn, Calls
    <3>3. 1 .. n - 1 = (1 .. n) \ {n} /\ \A i \in 1 .. n - 1 : stack'[t][i] = stack[t][i]
      BY <1>2
    <3> QED
      BY ONLY <3>1, <3>2, <3>3
  <2> QED BY <2>1, <2>2
<1>6. \A r \in Sandboxes : CallsIn(t, r) \subseteq 1 .. n
  BY <1>2 DEF CallsIn, Calls
<1>7. n \in CallsIn(t, s) /\ \A r \in Sandboxes \ {s} : n \notin CallsIn(t, r)
  BY <1>1, <1>2, <1>4 DEF CallsIn, Calls
<1>8. \A u \in Threads \ {t} : CallsIn(u, s) = {}
  BY <1>7 DEF HeapInv, Exclusive
<1>9. Exclusive'
  BY <1>5 DEF HeapInv, Exclusive
<1>10. ASSUME NEW r \in Sandboxes \ {s} PROVE SandboxInv(r)'
  <2>1. SandboxInv(r) /\ object'[r] = object[r]
    BY <1>3 DEF HeapInv
  <2>2. \A u \in Threads : CallsIn(u, r)' = CallsIn(u, r) /\ \A i \in CallsIn(u, r) : stack'[u][i] = stack[u][i]
    <3>1. CallsIn(t, r)' = CallsIn(t, r)
      <4>1. CallsIn(t, r)' = CallsIn(t, r) \ {n} /\ n \notin CallsIn(t, r)
        BY <1>5, <1>7
      <4>2. CallsIn(t, r) \ {n} = CallsIn(t, r)
        BY <4>1
      <4> QED BY <4>1, <4>2
    <3>2. \A i \in CallsIn(t, r) : stack'[t][i] = stack[t][i]
      <4> TAKE i \in CallsIn(t, r)
      <4>1. i \in 1 .. n /\ i # n
        BY <1>6, <1>7
      <4> QED BY <4>1, <1>2
    <3> QED BY <3>1, <3>2, <1>2, <1>5
  <2> QED BY <2>1, <2>2 DEF SandboxInv
<1>11. SandboxInv(s)'
  <2>1. SandboxInv(s)
    BY DEF HeapInv
  <2>2. CallsIn(t, s)' = CallsIn(t, s) \ {n} /\ \A u \in Threads \ {t} : CallsIn(u, s)' = {}
    BY <1>5, <1>8
  <2>3. \A i \in CallsIn(t, s) \ {n} : i < n /\ stack'[t][i] = stack[t][i]
    <3> TAKE i \in CallsIn(t, s) \ {n}
    <3>1. i \in 1 .. n /\ i # n
      BY <1>6
    <3> QED BY <3>1, <1>2
  <2>4. \A i \in CallsIn(t, s) \ {n} : FrameInv(x, t, i, stack'[t][i])
    BY <2>3
  <2>5. \A i, k \in CallsIn(t, s) \ {n} : i < k => PairInv(stack'[t][i], stack'[t][k])
    BY <2>1, <2>3 DEF SandboxInv
  <2>6. \A a \in Blocks \ FreeBlocks(x) :
          \/ a = x.return_slot \/ a \in x.leaked
          \/ \E i \in CallsIn(t, s) \ {n} : a \in Passed(stack'[t][i])
    <3> TAKE a \in Blocks \ FreeBlocks(x)
    <3>1. CASE \E i \in CallsIn(t, s) : i < n /\ a \in Passed(stack[t][i])
      <4>1. PICK i \in CallsIn(t, s) : i < n /\ a \in Passed(stack[t][i])
        BY <3>1
      <4>2. i # n
        BY <4>1, <1>6
      <4> QED BY <4>1, <4>2, <2>3
    <3> QED BY <3>1
  <2>7. ObjectInv(x)
    OBVIOUS
  <2> QED
    BY <1>3, <2>2, <2>4, <2>5, <2>6, <2>7 DEF SandboxInv
<1> QED
  BY <1>9, <1>10, <1>11 DEF HeapInv

\* g and h are the same call as far as the heap goes; its callback may have
\* thrown, or called a function that returns a class.
Similar(g, h) ==
  /\ h.kind = g.kind /\ h.sandbox = g.sandbox /\ h.func = g.func /\ h.args = g.args
  /\ h.stored = g.stored /\ h.return_arg = g.return_arg /\ h.result = g.result
  /\ h.pc = g.pc \/ h.pc = "throwing"
  /\ g.crossed => h.crossed
  /\ h.crossed => g.crossed \/ g.pc = "wasm"

LEMMA SimilarFrames ==
  ASSUME NEW g, NEW h, Similar(g, h)
  PROVE  /\ \A o, t, i : FrameInv(o, t, i, g) => FrameInv(o, t, i, h)
         /\ \A f : PairInv(g, f) => PairInv(h, f)
         /\ \A f : PairInv(f, g) => PairInv(f, h)
         /\ Passed(g) = Passed(h)
<1>1. Passed(g) = Passed(h) /\ (ReturnsClass(h) <=> ReturnsClass(g)) /\ (Busy(h) => Busy(g))
  BY DEF Similar, Passed, ReturnsClass, Busy
<1>2. ASSUME NEW o, NEW t, NEW i, FrameInv(o, t, i, g) PROVE FrameInv(o, t, i, h)
  BY <1>1, <1>2 DEF FrameInv, Similar
<1>3. \A f : (PairInv(g, f) => PairInv(h, f)) /\ (PairInv(f, g) => PairInv(f, h))
  BY <1>1 DEF PairInv, Similar
<1> QED BY <1>1, <1>2, <1>3

\* Nothing happens but to callbacks.
LEMMA SameCalls ==
  ASSUME StackInv, HeapInv, NEW t \in Threads, UNCHANGED object,
         \A u \in Threads \ {t} : stack'[u] = stack[u], Calls(t)' = Calls(t),
         \A i \in Calls(t) : Similar(stack[t][i], stack'[t][i])
  PROVE  HeapInv'
<1>1. \A u \in Threads : \A i \in Calls(u) : Similar(stack[u][i], stack'[u][i])
  BY DEF Similar
<1>2. \A u \in Threads : Calls(u)' = Calls(u)
  BY DEF Calls
<1>3. \A u \in Threads : \A r \in Sandboxes : CallsIn(u, r)' = CallsIn(u, r)
  BY <1>1, <1>2 DEF CallsIn, Similar
<1>4. Exclusive'
  BY <1>3 DEF HeapInv, Exclusive
<1>5. ASSUME NEW r \in Sandboxes PROVE SandboxInv(r)'
  <2>1. SandboxInv(r)
    BY DEF HeapInv
  <2>2. \A u \in Threads : \A i \in CallsIn(u, r) :
          Similar(stack[u][i], stack'[u][i]) /\ Passed(stack'[u][i]) = Passed(stack[u][i])
    BY <1>1, SimilarFrames DEF CallsIn
  <2>3. ASSUME NEW u \in Threads, NEW i \in CallsIn(u, r)
        PROVE  FrameInv(object[r], u, i, stack'[u][i])
    BY <2>1, <2>2, SimilarFrames DEF SandboxInv
  <2>4. ASSUME NEW u \in Threads, NEW i \in CallsIn(u, r), NEW k \in CallsIn(u, r), i < k
        PROVE  PairInv(stack'[u][i], stack'[u][k])
    <3>1. PairInv(stack[u][i], stack[u][k])
      BY <2>1, <2>4 DEF SandboxInv
    <3>2. PairInv(stack'[u][i], stack[u][k])
      BY <2>2, <3>1, SimilarFrames
    <3> QED BY <2>2, <3>2, SimilarFrames
  <2> QED
    BY <1>3, <2>1, <2>2, <2>3, <2>4 DEF SandboxInv
<1> QED
  BY <1>4, <1>5 DEF HeapInv

-----------------------------------------------------------------------------
(***************************************************************************)
(* Every step keeps HeapInv                                                *)
(***************************************************************************)
LEMMA EnterInterceptorHeap ==
  ASSUME StackInv, HeapInv, StackInv', NEW t \in Threads, NEW n \in Interceptors,
         EnterInterceptor(t, n)
  PROVE  HeapInv'
<1> DEFINE q == stack[t]
           h == Touch(Last(q), thread_data[t].sandbox)
           r == Front(q) \o <<h>>
           c == NewCallback(n)
<1>1. /\ q # <<>> /\ Top(t).kind = "call" /\ UNCHANGED object
      /\ stack' = [stack EXCEPT ![t] = Append(r, c)]
  BY DEF EnterInterceptor, At
<1>2. /\ q \in Seq(Frames) /\ Odd(Len(q)) /\ Len(q) \in 1 .. Len(q) /\ Last(q) = q[Len(q)]
      /\ Last(q) \in CallFrames /\ thread_data[t].sandbox \in Sandboxes
  BY <1>1, CallOnTop DEF Good, Typed
<1>3. /\ h \in Frames /\ h.sandbox = Last(q).sandbox /\ Similar(Last(q), h)
  BY <1>2, TouchedFrame DEF Similar
<1>4. /\ r \in Seq(Frames) /\ Len(r) = Len(q) /\ r[Len(q)] = h
      /\ \A i \in 1 .. Len(q) - 1 : r[i] = q[i]
  <2>1. q \in Seq(Frames) /\ q # <<>> /\ h \in Frames
    BY <1>1, <1>2, <1>3
  <2> HIDE DEF q, h
  <2> QED
    BY ONLY <2>1, LastReplaced
<1>5. c \in Frames
  BY DEF NewCallback, CallbackFrames, Frames
<1> HIDE DEF c, h, r
<1>6. /\ Len(Append(r, c)) = Len(q) + 1
      /\ \A i \in 1 .. Len(q) : Append(r, c)[i] = r[i]
  BY <1>4, <1>5, AppendProperties
<1>7. stack'[t] = Append(r, c) /\ \A u \in Threads \ {t} : stack'[u] = stack[u]
  BY <1>1 DEF StackInv, StackTypes
<1>8. Calls(t) = {i \in 1 .. Len(q) : Odd(i)} /\ Calls(t)' = {i \in 1 .. Len(q) + 1 : Odd(i)}
  <2>1. Calls(t)' = {i \in 1 .. Len(stack'[t]) : Odd(i)}
    BY CallsAre, TypedFacts DEF StackInv, StackTypes, Calls
  <2> QED BY <2>1, <1>6, <1>7, CallsAre
<1>9. Calls(t)' = Calls(t)
  <2>1. ~Odd(Len(q) + 1)
    BY <1>2, Alternate
  <2> HIDE DEF q
  <2> QED BY <2>1, <1>2, <1>8
<1>10. ASSUME NEW i \in Calls(t) PROVE Similar(q[i], stack'[t][i])
  <2>1. i \in 1 .. Len(q) /\ stack'[t][i] = r[i]
    BY <1>6, <1>7, <1>8
  <2>2. CASE i = Len(q)
    BY <2>1, <2>2, <1>2, <1>3, <1>4
  <2>3. CASE i # Len(q)
    <3>1. i \in 1 .. Len(q) - 1
      BY <2>1, <2>3, <1>2
    <3> QED BY <3>1, <2>1, <1>4 DEF Similar
  <2> QED BY <2>2, <2>3
<1> QED
  BY <1>1, <1>7, <1>9, <1>10, SameCalls

LEMMA GetExecutedKeyHeap ==
  ASSUME StackInv, HeapInv, StackInv', NEW t \in Threads, GetExecutedKey(t)
  PROVE  HeapInv'
<1> DEFINE q == stack[t]
           g == [Top(t) EXCEPT !.pc = "host",
                   !.key = <<thread_data[t].sandbox, thread_data[t].last_callback_invoked>>]
<1>1. /\ q # <<>> /\ Top(t).kind = "callback" /\ UNCHANGED object
      /\ stack' = [stack EXCEPT ![t] = [q EXCEPT ![Len(q)] = g]]
  BY DEF GetExecutedKey, At, SetTop
<1>2. /\ q \in Seq(Frames) /\ ~Odd(Len(q)) /\ Len(q) \in Nat /\ DOMAIN q = 1 .. Len(q)
  BY <1>1, CallbackOnTop, LenProperties DEF Good, Typed
<1>3. stack'[t] = [q EXCEPT ![Len(q)] = g] /\ \A u \in Threads \ {t} : stack'[u] = stack[u]
  BY <1>1 DEF StackInv, StackTypes
<1>4. \A i \in 1 .. Len(q) : i # Len(q) => stack'[t][i] = q[i]
  BY <1>2, <1>3
<1>5. Calls(t) = {i \in 1 .. Len(q) : Odd(i)} /\ Calls(t)' = {i \in 1 .. Len(q) : Odd(i)}
  <2>1. DOMAIN stack'[t] = 1 .. Len(q)
    BY <1>2, <1>3
  <2>2. \A i \in DOMAIN stack'[t] : stack'[t][i].kind = "call" <=> Odd(i)
    BY TypedFacts DEF StackInv, StackTypes
  <2> QED BY <2>1, <2>2, CallsAre DEF Calls
<1>6. \A i \in Calls(t) : Similar(q[i], stack'[t][i])
  BY <1>2, <1>4, <1>5 DEF Similar
<1> QED
  BY <1>1, <1>3, <1>5, <1>6, SameCalls

\* A callback is over; the call it was made from may have changed.
LEMMA CallbackEndsHeap ==
  ASSUME StackInv, HeapInv, StackInv', NEW t \in Threads, stack[t] # <<>>, Top(t).kind = "callback",
         UNCHANGED object, NEW q, stack' = [stack EXCEPT ![t] = q],
         NEW h \in Frames, Similar(Last(Front(stack[t])), h),
         q = Front(stack[t]) \/ q = Front(Front(stack[t])) \o <<h>>
  PROVE  HeapInv'
<1> DEFINE rest == Front(stack[t])
           n == Len(stack[t])
<1>1. /\ rest \in Seq(Frames) /\ rest # <<>> /\ Len(rest) = n - 1 /\ Odd(n - 1) /\ Last(rest) = stack[t][n - 1]
  BY UnderCallback
<1>2. n \in 2 .. MaxDepth /\ ~Odd(n) /\ stack[t] \in Seq(Frames)
  BY CallbackOnTop DEF Good, Typed
<1>3. \A i \in 1 .. n - 1 : rest[i] = stack[t][i]
  BY <1>2, FrontIs
<1> HIDE DEF rest, n
<1>4. n - 1 \in 1 .. n - 1 /\ Len(rest) - 1 = n - 2
  BY <1>1, <1>2
<1>5. /\ q \in Seq(Frames) /\ Len(q) = n - 1
      /\ \A i \in 1 .. n - 1 : Similar(stack[t][i], q[i])
  <2>0. Similar(Last(rest), h) /\ (q = rest \/ q = Front(rest) \o <<h>>)
    BY DEF rest
  <2>1. CASE q = rest
    BY <2>1, <1>1, <1>3 DEF Similar
  <2>2. CASE q = Front(rest) \o <<h>>
    <3>2. /\ q \in Seq(Frames) /\ Len(q) = n - 1 /\ q[n - 1] = h
          /\ \A i \in 1 .. Len(rest) - 1 : q[i] = rest[i]
      <4>1. rest \in Seq(Frames) /\ rest # <<>>
        BY <1>1
      <4>2. h \in Frames
        OBVIOUS
      <4> DEFINE r == Front(rest) \o <<h>>
      <4>3. /\ r \in Seq(Frames) /\ Len(r) = Len(rest) /\ r[Len(rest)] = h
            /\ \A i \in 1 .. Len(rest) - 1 : r[i] = rest[i]
        BY ONLY <4>1, <4>2, LastReplaced
      <4>4. q = r
        BY <2>2
      <4> HIDE DEF r
      <4>5. /\ q \in Seq(Frames) /\ Len(q) = Len(rest) /\ q[Len(rest)] = h
            /\ \A i \in 1 .. Len(rest) - 1 : q[i] = rest[i]
        BY ONLY <4>3, <4>4
      <4>6. Len(rest) = n - 1
        BY <1>1
      <4> QED BY ONLY <4>5, <4>6
    <3>3. ASSUME NEW i \in 1 .. n - 1 PROVE Similar(stack[t][i], q[i])
      <4>1. CASE i = n - 1
        BY <4>1, <2>0, <3>2, <1>1
      <4>2. CASE i # n - 1
        <5>1. i \in 1 .. Len(rest) - 1
          BY <4>2, <1>2, <1>4
        <5> QED BY <5>1, <3>2, <1>3 DEF Similar
      <4> QED BY <4>1, <4>2
    <3> QED BY <3>2, <3>3
  <2> QED BY <2>0, <2>1, <2>2
<1>6. stack'[t] = q /\ \A u \in Threads \ {t} : stack'[u] = stack[u]
  BY DEF StackInv, StackTypes
<1>7. Calls(t) = {i \in 1 .. n : Odd(i)} /\ Calls(t)' = {i \in 1 .. n - 1 : Odd(i)}
  <2>1. DOMAIN stack'[t] = 1 .. n - 1 /\ Len(stack'[t]) = n - 1
    BY <1>5, <1>6, LenProperties
  <2>2. \A i \in 1 .. Len(stack'[t]) : stack'[t][i].kind = "call" <=> Odd(i)
    BY TypedFacts DEF StackInv, StackTypes
  <2> QED BY <2>1, <2>2, CallsAre DEF Calls, n
<1>8. Calls(t)' = Calls(t)
  BY <1>2, <1>7
<1>9. \A i \in Calls(t) : Similar(stack[t][i], stack'[t][i])
  BY <1>2, <1>5, <1>6, <1>7
<1> QED
  BY <1>6, <1>8, <1>9, SameCalls

LEMMA CallbackReturnsHeap ==
  ASSUME StackInv, HeapInv, StackInv', NEW t \in Threads, CallbackReturns(t)
  PROVE  HeapInv'
<1> DEFINE rest == Front(stack[t])
           h == Touch(Last(rest), thread_data[t].sandbox)
           q == IF Top(t).number \in Promoted THEN Front(rest) \o <<h>> ELSE rest
<1>1. /\ stack[t] # <<>> /\ Top(t).kind = "callback" /\ UNCHANGED object
      /\ stack' = [stack EXCEPT ![t] = q]
  BY DEF CallbackReturns, At
<1>2. Last(rest) \in CallFrames /\ thread_data[t].sandbox \in Sandboxes
  BY <1>1, UnderCallback
<1>3. h \in Frames /\ Similar(Last(rest), h)
  BY <1>2, TouchedFrame DEF Similar
<1>4. q = rest \/ q = Front(rest) \o <<h>>
  OBVIOUS
<1> HIDE DEF q, h
<1> QED
  BY <1>1, <1>3, <1>4, CallbackEndsHeap

LEMMA CallbackThrowsHeap ==
  ASSUME StackInv, HeapInv, StackInv', NEW t \in Threads, CallbackThrows(t)
  PROVE  HeapInv'
<1> DEFINE rest == Front(stack[t])
           h == [Last(rest) EXCEPT !.pc = "throwing"]
           q == Front(rest) \o <<h>>
<1>1. /\ stack[t] # <<>> /\ Top(t).kind = "callback" /\ UNCHANGED object
      /\ stack' = [stack EXCEPT ![t] = q]
  BY DEF CallbackThrows, At
<1>2. Last(rest) \in CallFrames
  BY <1>1, UnderCallback
<1>3. h \in Frames /\ Similar(Last(rest), h)
  BY <1>2 DEF CallFrames, Frames, Similar
<1>4. q = rest \/ q = Front(rest) \o <<h>>
  OBVIOUS
<1> HIDE DEF q, h
<1> QED
  BY <1>1, <1>3, <1>4, CallbackEndsHeap

\* The calls that a new call crosses.
LEMMA CrossedFrames ==
  ASSUME NEW q, NEW d, Good(q, d), NEW s, NEW f, NEW i \in 1 .. Len(q), Odd(i),
         q[i].pc = "wasm"
  PROVE  LET h == Crossed(q, s, f)[i]
         IN  /\ Similar(q[i], h)
             /\ ReturnSize[f] > 0 /\ ReturnsClass(q[i]) /\ q[i].sandbox = s => h.crossed
<1>1. q[i] \in CallFrames /\ i \in DOMAIN q
  BY TypedFacts DEF Good
<1> DEFINE g == q[i]
<1>2. g \in CallFrames /\ g.pc = "wasm"
  BY <1>1
<1>3. Crossed(q, s, f)[i] = IF ReturnSize[f] > 0 /\ ReturnsClass(g) /\ g.sandbox = s
                            THEN [g EXCEPT !.crossed = TRUE] ELSE g
  BY <1>1 DEF Crossed
<1> HIDE DEF g
<1>4. Similar(g, [g EXCEPT !.crossed = TRUE]) /\ [g EXCEPT !.crossed = TRUE].crossed
  BY <1>2 DEF CallFrames, Similar
<1>5. Similar(g, g)
  BY DEF Similar
<1> QED
  BY <1>3, <1>4, <1>5 DEF g

LEMMA CallHeap ==
  ASSUME StackInv, HeapInv, StackInv', NEW t \in Threads, NEW s \in Sandboxes, NEW f \in Exports[s],
         Call(t, s, f)
  PROVE  HeapInv'
<1> DEFINE q == stack[t]
           r == Crossed(q, s, f)
           g == NewCall(s, f, thread_data[t].sandbox)
<1>n. PICK n \in Nat : n = Len(q)
  BY CallsAre
<1>1. /\ stack' = [stack EXCEPT ![t] = Append(r, g)] /\ UNCHANGED object
      /\ q = <<>> \/ Top(t).kind = "callback"
      /\ \A u \in Threads \ {t} : s \notin InUseBy(u)
  BY DEF Call, HostRuns, At
<1>2. Good(q, thread_data[t]) /\ q \in Seq(Frames)
  BY DEF StackInv, StackTypes, DataTypes, Good, Typed
<1>3. Good(r, thread_data[t]) /\ r \in Seq(Frames) /\ Len(r) = n
  BY <1>n, <1>2, CrossedKeeps DEF Good, Typed
<1>4. /\ g.kind = "call" /\ g.sandbox = s /\ g.func = f /\ g.args = <<>> /\ g.crossed = FALSE
      /\ g.stored = FALSE /\ g.pc = IF ReturnSize[f] > 0 THEN "slot" ELSE "args"
  BY DEF NewCall
<1>5. \A u \in Threads \ {t} : stack'[u] = stack[u]
  BY <1>1 DEF StackInv, StackTypes
<1>6. stack'[t] = Append(r, g)
  BY <1>1 DEF StackInv, StackTypes
<1>7. /\ Len(Append(r, g)) = n + 1 /\ Append(r, g)[n + 1] = g
      /\ \A i \in 1 .. n : Append(r, g)[i] = r[i]
  <2>1. g \in {g} \cup Frames /\ r \in Seq({g} \cup Frames)
    <3>1. r \in Seq({g} \cup Frames)
      <4> DEFINE T == {g} \cup Frames
      <4>1. Frames \subseteq T
        OBVIOUS
      <4> HIDE DEF T
      <4>2. \A i \in 1 .. Len(r) : r[i] \in T
        BY <1>3, <4>1, ElementOfSeq
      <4>3. r \in [1 .. Len(r) -> T] /\ Len(r) \in Nat
        BY <1>3, <4>2, LenProperties
      <4>4. r \in Seq(T)
        BY <4>3, SeqDef
      <4> QED BY <4>4 DEF T
    <3> QED BY <3>1
  <2> DEFINE T == {g} \cup Frames
  <2>2. g \in T /\ r \in Seq(T)
    BY <2>1
  <2> HIDE DEF T, g, r
  <2>3. /\ Len(Append(r, g)) = Len(r) + 1 /\ Append(r, g)[Len(r) + 1] = g
        /\ \A i \in 1 .. Len(r) : Append(r, g)[i] = r[i]
    BY <2>2, AppendProperties
  <2> QED BY <2>3, <1>3
<1> HIDE DEF g, r
<1>8. /\ Calls(t) = {i \in 1 .. n : Odd(i)}
      /\ \A i \in Calls(t) : stack[t][i] \in CallFrames /\ stack[t][i].sandbox \in Sandboxes
  BY <1>n, CallsAre
<1>9. Calls(t)' = {i \in 1 .. n + 1 : Odd(i)}
  <2>1. Calls(t)' = {i \in 1 .. Len(stack'[t]) : Odd(i)}
    BY CallsAre, TypedFacts DEF StackInv, StackTypes, Calls
  <2> QED BY <2>1, <1>6, <1>7
<1>10. Odd(n + 1)
  <2>1. q # <<>> => ~Odd(n) /\ n \in Nat
    BY <1>n, <1>1, CallbackOnTop
  <2>2. q = <<>> => n = 0
    BY <1>n
  <2>3. ~Odd(0)
    BY DEF Odd
  <2> QED BY <2>1, <2>2, <2>3, Alternate
<1>11. Calls(t)' = Calls(t) \cup {n + 1} /\ n + 1 \notin Calls(t) /\ \A i \in Calls(t) : i < n + 1
  BY <1>8, <1>9, <1>10
<1>12. ASSUME NEW i \in Calls(t)
       PROVE  /\ Similar(stack[t][i], stack'[t][i])
              /\ ReturnSize[f] > 0 /\ ReturnsClass(stack[t][i]) /\ stack[t][i].sandbox = s
                   => stack'[t][i].crossed
  <2>1. i \in 1 .. n /\ Odd(i) /\ stack'[t][i] = r[i]
    BY <1>6, <1>7, <1>8
  <2>2. q[i].pc = "wasm"
    <3>1. i < n
      <4>1. q # <<>> => ~Odd(n)
        BY <1>n, <1>1, CallbackOnTop
      <4>2. q = <<>> => n = 0
        BY <1>n
      <4> QED BY <4>1, <4>2, <2>1
    <3> QED BY <3>1, <2>1, <1>2, <1>n DEF Good, Nested, CallNested
  <2> QED BY <2>1, <2>2, <1>2, <1>n, CrossedFrames DEF r
<1>13. \A u \in Threads \ {t} : \A x \in Sandboxes : CallsIn(u, x)' = CallsIn(u, x)
  BY <1>5 DEF CallsIn, Calls
<1>14. \A x \in Sandboxes : CallsIn(t, x)' = CallsIn(t, x) \cup (IF x = s THEN {n + 1} ELSE {})
  <2>1. stack'[t][n + 1].sandbox = s
    BY <1>4, <1>6, <1>7
  <2>2. \A i \in Calls(t) : stack'[t][i].sandbox = stack[t][i].sandbox
    BY <1>12 DEF Similar
  <2>3. \A x \in Sandboxes : CallsIn(t, x)' = {i \in Calls(t) \cup {n + 1} : stack'[t][i].sandbox = x}
    BY <1>11 DEF CallsIn
  <2> QED BY <2>1, <2>2, <2>3 DEF CallsIn
<1>15. /\ CallsIn(t, s)' = CallsIn(t, s) \cup {n + 1}
       /\ \A x \in Sandboxes \ {s} : CallsIn(t, x)' = CallsIn(t, x)
  BY <1>14
<1>16. \A u \in Threads \ {t} : CallsIn(u, s) = {}
  BY <1>1 DEF CallsIn, InUseBy
<1>17. Exclusive'
  BY <1>13, <1>15, <1>16 DEF HeapInv, Exclusive
<1>18. ASSUME NEW x \in Sandboxes, NEW u \in Threads, NEW i \in CallsIn(u, x)
       PROVE  /\ FrameInv(object[x], u, i, stack'[u][i])
              /\ Passed(stack'[u][i]) = Passed(stack[u][i])
              /\ \A k \in CallsIn(u, x) : i < k => PairInv(stack'[u][i], stack'[u][k])
  <2>1. SandboxInv(x)
    BY DEF HeapInv
  <2>2. \A k \in CallsIn(u, x) : Similar(stack[u][k], stack'[u][k])
    BY <1>5, <1>12 DEF CallsIn, Similar
  <2>3. FrameInv(object[x], u, i, stack'[u][i]) /\ Passed(stack'[u][i]) = Passed(stack[u][i])
    BY <2>1, <2>2, SimilarFrames DEF SandboxInv
  <2>4. ASSUME NEW k \in CallsIn(u, x), i < k PROVE PairInv(stack'[u][i], stack'[u][k])
    <3>1. PairInv(stack[u][i], stack[u][k])
      BY <2>1, <2>4 DEF SandboxInv
    <3>2. PairInv(stack'[u][i], stack[u][k])
      BY <2>2, <3>1, SimilarFrames
    <3> QED BY <2>2, <3>2, SimilarFrames
  <2> QED BY <2>3, <2>4
<1>19. ASSUME NEW x \in Sandboxes \ {s} PROVE SandboxInv(x)'
  <2>1. SandboxInv(x) /\ object'[x] = object[x]
    BY <1>1 DEF HeapInv
  <2>2. \A u \in Threads : CallsIn(u, x)' = CallsIn(u, x)
    BY <1>13, <1>15
  <2> QED BY <2>1, <2>2, <1>18 DEF SandboxInv
<1>20. SandboxInv(s)'
  <2>1. SandboxInv(s) /\ object'[s] = object[s]
    BY <1>1 DEF HeapInv
  <2>2. /\ CallsIn(t, s)' = CallsIn(t, s) \cup {n + 1}
        /\ \A u \in Threads \ {t} : CallsIn(u, s)' = {}
        /\ stack'[t][n + 1] = g
        /\ \A i \in CallsIn(t, s) : i < n + 1 /\ stack[t][i].sandbox = s
    BY <1>6, <1>7, <1>11, <1>13, <1>15, <1>16 DEF CallsIn
  <2>3. Passed(g) = {} /\ ~Busy(g)
    BY <1>4 DEF Passed, Range, Busy, ReturnsClass
  <2>4. FrameInv(object[s], t, n + 1, g)
    BY <1>4, <2>3 DEF FrameInv
  <2>5. ASSUME NEW i \in CallsIn(t, s) PROVE PairInv(stack'[t][i], g)
    <3>1. i \in Calls(t) /\ stack[t][i].sandbox = s
      BY DEF CallsIn
    <3>2. ReturnsClass(stack'[t][i]) /\ ReturnsClass(g) => stack'[t][i].crossed
      BY <3>1, <1>4, <1>12 DEF Similar, ReturnsClass
    <3> QED BY <2>3, <3>2 DEF PairInv
  <2>6. \A i \in CallsIn(t, s)' : /\ FrameInv(object[s], t, i, stack'[t][i])
                                  /\ \A k \in CallsIn(t, s)' : i < k => PairInv(stack'[t][i], stack'[t][k])
    <3> TAKE i \in CallsIn(t, s)'
    <3>1. FrameInv(object[s], t, i, stack'[t][i])
      BY <2>2, <2>4, <1>18
    <3>2. ASSUME NEW k \in CallsIn(t, s)', i < k PROVE PairInv(stack'[t][i], stack'[t][k])
      <4>1. CASE k = n + 1
        <5>1. i # n + 1
          BY <4>1, <3>2
        <5> QED BY <5>1, <4>1, <2>2, <2>5
      <4>2. CASE k # n + 1
        <5>1. k \in CallsIn(t, s) /\ k < n + 1
          BY <4>2, <2>2
        <5>2. k \in 1 .. n
          BY <5>1, <1>8 DEF CallsIn
        <5>3. i # n + 1
          BY <5>2, <3>2
        <5> QED BY <5>1, <5>3, <3>2, <2>2, <1>18
      <4> QED BY <4>1, <4>2
    <3> QED BY <3>1, <3>2
  <2>7. ASSUME NEW a \in Blocks \ FreeBlocks(object[s])
        PROVE  \/ a = object[s].return_slot \/ a \in object[s].leaked
               \/ \E i \in CallsIn(t, s)' : a \in Passed(stack'[t][i])
    <3>1. CASE \E u \in Threads : \E i \in CallsIn(u, s) : a \in Passed(stack[u][i])
      <4>1. PICK i \in CallsIn(t, s) : a \in Passed(stack[t][i])
        BY <3>1, <1>16
      <4> QED BY <4>1, <2>2, <1>18
    <3> QED BY <3>1, <2>1 DEF SandboxInv
  <2> QED
    BY <2>1, <2>2, <2>6, <2>7 DEF SandboxInv
<1> QED
  BY <1>17, <1>19, <1>20 DEF HeapInv

\* What HeapInv says of a thread with a call on top: o is the object of its
\* sandbox, the calls below it in this sandbox wait in Wasm.
LEMMA OwnCalls ==
  ASSUME StackInv, HeapInv, NEW t \in Threads, stack[t] # <<>>, Top(t).kind = "call"
  PROVE  LET s == Top(t).sandbox
             o == object[s]
             n == Len(stack[t])
         IN  /\ n \in Nat /\ s \in Sandboxes /\ o \in Objects /\ ObjectInv(o)
             /\ Top(t) \in CallFrames /\ FrameInv(o, t, n, Top(t))
             /\ \A i \in CallsIn(t, s) : i < n =>
                  /\ i \in Nat /\ stack[t][i] \in CallFrames /\ stack[t][i].pc = "wasm"
                  /\ FrameInv(o, t, i, stack[t][i]) /\ PairInv(stack[t][i], Top(t))
             /\ \A a \in Blocks \ FreeBlocks(o) :
                  \/ a = o.return_slot \/ a \in o.leaked \/ a \in Passed(Top(t))
                  \/ \E i \in CallsIn(t, s) : i < n /\ a \in Passed(stack[t][i])
<1>s. PICK s \in Sandboxes : s = Top(t).sandbox
  BY CallOnTop
<1>n. PICK n \in Nat : n = Len(stack[t])
  BY CallOnTop
<1> USE <1>s, <1>n
<1>1. /\ n \in 1 .. n /\ Odd(n) /\ Top(t) = stack[t][n] /\ Top(t) \in CallFrames
      /\ object[s] \in Objects /\ Good(stack[t], thread_data[t])
  BY CallOnTop
<1>2. SandboxInv(s)
  BY DEF HeapInv
<1>3. /\ CallsIn(t, s) \subseteq {i \in 1 .. n : Odd(i)}
      /\ \A i \in CallsIn(t, s) : stack[t][i] \in CallFrames
  BY CallsAre DEF CallsIn
<1>4. n \in CallsIn(t, s)
  BY <1>1, CallsAre DEF CallsIn
<1>5. \A u \in Threads : CallsIn(u, s) # {} => u = t
  BY <1>4 DEF HeapInv, Exclusive
<1>6. \A i \in CallsIn(t, s) : i < n => stack[t][i].pc = "wasm"
  BY <1>1, <1>3 DEF Good, Nested, CallNested
<1>7. \A i \in CallsIn(t, s) : i = n \/ i < n
  BY <1>3
<1>8. ASSUME NEW a \in Blocks \ FreeBlocks(object[s])
      PROVE  \/ a = object[s].return_slot \/ a \in object[s].leaked \/ a \in Passed(Top(t))
             \/ \E i \in CallsIn(t, s) : i < n /\ a \in Passed(stack[t][i])
  BY <1>1, <1>2, <1>5, <1>7 DEF SandboxInv
<1>9. \A i \in CallsIn(t, s) : i < n => PairInv(stack[t][i], Top(t))
  BY <1>1, <1>2, <1>4 DEF SandboxInv
<1>10. ObjectInv(object[s]) /\ \A i \in CallsIn(t, s) : FrameInv(object[s], t, i, stack[t][i])
  BY <1>2 DEF SandboxInv
<1>11. FrameInv(object[s], t, n, Top(t))
  BY <1>1, <1>4, <1>10
<1>12. \A i \in CallsIn(t, s) : i \in Nat
  BY <1>3
<1> QED
  BY <1>1, <1>3, <1>6, <1>8, <1>9, <1>10, <1>11, <1>12

LEMMA SlotFitsHeap ==
  ASSUME StackInv, HeapInv, NEW t \in Threads, SlotFits(t) PROVE HeapInv'
<1> DEFINE s == Top(t).sandbox
           o == object[s]
           n == Len(stack[t])
           g == [Top(t) EXCEPT !.pc = "args", !.return_arg = o.return_slot]
<1>1. /\ stack[t] # <<>> /\ Top(t).kind = "call" /\ Top(t).pc = "slot"
      /\ SetTop(t, g) /\ UNCHANGED object
  BY DEF SlotFits, At
<1>2. /\ s \in Sandboxes /\ o \in Objects /\ ObjectInv(o)
      /\ Top(t) \in CallFrames /\ FrameInv(o, t, n, Top(t))
      /\ \A i \in CallsIn(t, s) : i < n =>
           /\ FrameInv(o, t, i, stack[t][i]) /\ PairInv(stack[t][i], Top(t))
      /\ \A a \in Blocks \ FreeBlocks(o) :
           \/ a = o.return_slot \/ a \in o.leaked \/ a \in Passed(Top(t))
           \/ \E i \in CallsIn(t, s) : i < n /\ a \in Passed(stack[t][i])
  BY <1>1, OwnCalls
<1>3. /\ g \in CallFrames /\ g.sandbox = s /\ g.pc = "args" /\ g.return_arg = o.return_slot
      /\ g.args = Top(t).args /\ g.stored = Top(t).stored /\ g.crossed = Top(t).crossed
      /\ g.func = Top(t).func /\ g.kind = Top(t).kind
  BY <1>2 DEF CallFrames, Objects
<1>4. Set(s, o)
  BY <1>1 DEF Set, StackInv, ObjectTypes
<1> HIDE DEF g, o
<1>5. g.args = <<>> /\ ~g.stored /\ ~g.crossed /\ Passed(g) = {} /\ Passed(Top(t)) = {}
  BY <1>1, <1>2, <1>3 DEF FrameInv, Passed, Range
<1>6. FrameInv(o, t, n, g)
  BY <1>3, <1>5 DEF FrameInv
<1>7. ASSUME NEW i \in CallsIn(t, s), i < n PROVE PairInv(stack[t][i], g)
  <2>1. FrameInv(o, t, i, stack[t][i]) /\ PairInv(stack[t][i], Top(t))
    BY <1>2, <1>7
  <2>2. g.return_arg \notin Passed(stack[t][i])
    BY <2>1, <1>3 DEF FrameInv
  <2> QED BY <2>1, <2>2, <1>3, <1>5 DEF PairInv, ReturnsClass
<1> HIDE DEF s, n
<1> QED
  BY <1>1, <1>2, <1>3, <1>4, <1>5, <1>6, <1>7, TopSandbox DEF s, n

\* ensure_return_slot_size frees the slot it has, and nothing else.
LEMMA SlotFreed ==
  ASSUME NEW o \in Objects, ObjectInv(o)
  PROVE  LET w == WithoutSlot(o)
         IN  /\ w \in Objects /\ w.memory = o.memory /\ w.leaked = o.leaked
             /\ w.return_slot_size = o.return_slot_size
             /\ \A b \in Blocks : w.heap[b] = IF b = o.return_slot THEN 0 ELSE o.heap[b]
             /\ \A b \in o.leaked : w.heap[b] # 0
<1> DEFINE w == WithoutSlot(o)
<1>1. /\ o.return_slot_size \in Nat /\ o.leaked \subseteq Blocks
      /\ \A b \in Blocks : b # Null
  BY SandboxInvokeAssumption DEF Objects
<1>2. /\ w \in Objects /\ w.memory = o.memory /\ w.leaked = o.leaked
      /\ w.return_slot_size = o.return_slot_size
      /\ \A b \in Blocks :
           w.heap[b] = IF o.return_slot_size > 0 /\ b = o.return_slot THEN 0 ELSE o.heap[b]
  <2>1. CASE o.return_slot_size > 0
    <3>1. w = Freed(o, {o.return_slot})
      BY <2>1 DEF WithoutSlot
    <3> QED BY <3>1, <2>1, FreedIs
  <2>2. CASE ~(o.return_slot_size > 0)
    <3>1. w = o
      BY <2>2 DEF WithoutSlot
    <3> QED BY <3>1, <2>2
  <2> QED BY <2>1, <2>2
<1> HIDE DEF w
<1>3. \A b \in Blocks : b = o.return_slot => o.return_slot_size > 0
  BY <1>1 DEF ObjectInv
<1>4. \A b \in o.leaked : b # o.return_slot /\ o.heap[b] # 0
  BY <1>1 DEF ObjectInv
<1> QED
  BY <1>1, <1>2, <1>3, <1>4 DEF w

\* The arguments of calls are in blocks.
LEMMA PassedIs ==
  ASSUME NEW g \in CallFrames
  PROVE  /\ Passed(g) \subseteq Blocks
         /\ \A j \in DOMAIN g.args : g.args[j] # Null => g.args[j] \in Passed(g)
         /\ g.args = <<>> => Passed(g) = {}
<1>1. Range(g.args) \in SUBSET Addresses
  BY ArgsAre
<1> QED
  BY <1>1 DEF Passed, Addresses, Range

\* A call that waits while the slot is replaced or given up has been crossed:
\* of the heap it only needs its arguments.
LEMMA SlotReplaced ==
  ASSUME NEW o, NEW x, NEW t, NEW i, NEW g \in CallFrames, NEW h, FrameInv(o, t, i, g), PairInv(g, h),
         ReturnsClass(h), g.pc = "wasm", x.memory = o.memory, x.leaked = o.leaked,
         \A a \in Passed(g) : x.heap[a] = ClassSize /\ a # x.return_slot
  PROVE  FrameInv(x, t, i, g)
<1>1. Busy(g) => g.crossed
  BY DEF PairInv, Busy
<1> QED
  BY <1>1 DEF FrameInv

LEMMA GrowSlotHeap ==
  ASSUME StackInv, HeapInv, NEW t \in Threads, GrowSlot(t) PROVE HeapInv'
<1> DEFINE s == Top(t).sandbox
           o == object[s]
           n == Len(stack[t])
           w == WithoutSlot(o)
           size == ReturnSize[Top(t).func]
<1>1. /\ stack[t] # <<>> /\ Top(t).kind = "call" /\ Top(t).pc = "slot" /\ size > o.return_slot_size
  BY DEF GrowSlot, At
<1>2. /\ s \in Sandboxes /\ o \in Objects /\ ObjectInv(o) /\ n \in Nat
      /\ Top(t) \in CallFrames /\ FrameInv(o, t, n, Top(t))
      /\ \A i \in CallsIn(t, s) : i < n =>
           /\ i \in Nat /\ stack[t][i] \in CallFrames /\ stack[t][i].pc = "wasm"
           /\ FrameInv(o, t, i, stack[t][i]) /\ PairInv(stack[t][i], Top(t))
      /\ \A a \in Blocks \ FreeBlocks(o) :
           \/ a = o.return_slot \/ a \in o.leaked \/ a \in Passed(Top(t))
           \/ \E i \in CallsIn(t, s) : i < n /\ a \in Passed(stack[t][i])
  BY <1>1, OwnCalls
<1>3. PICK a \in FreeBlocks(w) :
        /\ Set(s, [w EXCEPT !.return_slot = a, !.return_slot_size = size, !.heap[a] = size])
        /\ SetTop(t, [Top(t) EXCEPT !.pc = "args", !.return_arg = a])
  BY DEF GrowSlot
<1> DEFINE x == [w EXCEPT !.return_slot = a, !.return_slot_size = size, !.heap[a] = size]
           g == [Top(t) EXCEPT !.pc = "args", !.return_arg = a]
<1>4. /\ w \in Objects /\ w.memory = o.memory /\ w.leaked = o.leaked
      /\ \A b \in Blocks : w.heap[b] = IF b = o.return_slot THEN 0 ELSE o.heap[b]
      /\ \A b \in o.leaked : w.heap[b] # 0
  BY <1>2, SlotFreed
<1>5. /\ size \in Nat /\ size # 0 /\ ReturnsClass(Top(t)) /\ size > 0
  <2>1. size \in Nat /\ o.return_slot_size \in Nat
    BY <1>2, FrameFacts, SandboxInvokeAssumption DEF Objects
  <2> HIDE DEF size
  <2>2. size > 0 /\ size # 0
    BY <2>1, <1>1
  <2> QED BY <2>1, <2>2, <1>1 DEF ReturnsClass, size
<1>6. a \in Blocks /\ a \in Addresses /\ w.heap[a] = 0
  BY DEF FreeBlocks, Addresses
<1> HIDE DEF w, size
<1>7. /\ x.return_slot = a /\ x.return_slot_size = size /\ x.memory = o.memory /\ x.leaked = o.leaked
      /\ \A b \in Blocks : x.heap[b] = IF b = a THEN size ELSE w.heap[b]
  BY <1>4, <1>6 DEF Objects
<1>8. /\ g \in CallFrames /\ g.sandbox = s /\ g.pc = "args" /\ g.return_arg = a
      /\ g.args = Top(t).args /\ g.stored = Top(t).stored /\ g.crossed = Top(t).crossed
      /\ g.func = Top(t).func /\ g.kind = Top(t).kind
  BY <1>2, <1>6 DEF CallFrames
<1>9. Set(s, x) /\ SetTop(t, g)
  BY <1>3
<1> HIDE DEF x, g, o
<1>10. g.args = <<>> /\ ~g.stored /\ ~g.crossed /\ Passed(g) = {} /\ Passed(Top(t)) = {}
  BY <1>1, <1>2, <1>8, PassedIs DEF FrameInv
<1>11. ObjectInv(x)
  <2>1. o.leaked \subseteq Blocks
    BY <1>2 DEF Objects
  <2> QED BY <2>1, <1>4, <1>5, <1>6, <1>7 DEF ObjectInv
<1>12. FrameInv(x, t, n, g)
  BY <1>7, <1>8, <1>10 DEF FrameInv
<1>13. ASSUME NEW i \in CallsIn(t, s), i < n
       PROVE  FrameInv(x, t, i, stack[t][i]) /\ PairInv(stack[t][i], g)
  <2> DEFINE f == stack[t][i]
  <2>1. /\ f \in CallFrames /\ f.pc = "wasm" /\ FrameInv(o, t, i, f) /\ PairInv(f, Top(t))
        /\ Passed(f) \subseteq Blocks
    BY <1>2, <1>13, PassedIs
  <2> HIDE DEF f
  <2>2. \A b \in Passed(f) : x.heap[b] = ClassSize /\ b # a
    <3> TAKE b \in Passed(f)
    <3>1. b \in Blocks /\ o.heap[b] = ClassSize /\ b # o.return_slot
      BY <2>1 DEF FrameInv
    <3>2. w.heap[b] = ClassSize /\ ClassSize # 0
      BY <3>1, <1>4 DEF ClassSize
    <3> QED BY <3>1, <3>2, <1>6, <1>7
  <2>3. FrameInv(x, t, i, f)
    BY <2>1, <2>2, <1>5, <1>7, SlotReplaced
  <2>4. PairInv(f, g)
    BY <2>1, <2>2, <1>8, <1>10 DEF PairInv, ReturnsClass
  <2> QED BY <2>3, <2>4 DEF f
<1>14. ASSUME NEW b \in Blocks \ FreeBlocks(x)
       PROVE  \/ b = x.return_slot \/ b \in x.leaked
              \/ \E i \in CallsIn(t, s) : i < n /\ b \in Passed(stack[t][i])
  <2>1. b = a \/ (b # o.return_slot /\ o.heap[b] # 0)
    BY <1>4, <1>7 DEF FreeBlocks
  <2> QED BY <2>1, <1>2, <1>7, <1>10 DEF FreeBlocks
<1> HIDE DEF s, n
<1> QED
  BY <1>1, <1>8, <1>9, <1>11, <1>12, <1>13, <1>14, TopSandbox DEF s, n

LEMMA SlotRefusedHeap ==
  ASSUME StackInv, HeapInv, NEW t \in Threads, SlotRefused(t) PROVE HeapInv'
<1> DEFINE s == Top(t).sandbox
           o == object[s]
           n == Len(stack[t])
           w == WithoutSlot(o)
           x == [w EXCEPT !.return_slot = Null]
           g == [Top(t) EXCEPT !.pc = "throwing"]
<1>1. /\ stack[t] # <<>> /\ Top(t).kind = "call" /\ Top(t).pc = "slot"
      /\ ReturnSize[Top(t).func] > o.return_slot_size /\ Set(s, x) /\ SetTop(t, g)
  BY DEF SlotRefused, At
<1>2. /\ s \in Sandboxes /\ o \in Objects /\ ObjectInv(o) /\ n \in Nat
      /\ Top(t) \in CallFrames /\ FrameInv(o, t, n, Top(t))
      /\ \A i \in CallsIn(t, s) : i < n =>
           /\ i \in Nat /\ stack[t][i] \in CallFrames /\ stack[t][i].pc = "wasm"
           /\ FrameInv(o, t, i, stack[t][i]) /\ PairInv(stack[t][i], Top(t))
      /\ \A a \in Blocks \ FreeBlocks(o) :
           \/ a = o.return_slot \/ a \in o.leaked \/ a \in Passed(Top(t))
           \/ \E i \in CallsIn(t, s) : i < n /\ a \in Passed(stack[t][i])
  BY <1>1, OwnCalls
<1>4. /\ w \in Objects /\ w.memory = o.memory /\ w.leaked = o.leaked
      /\ \A b \in Blocks : w.heap[b] = IF b = o.return_slot THEN 0 ELSE o.heap[b]
      /\ \A b \in o.leaked : w.heap[b] # 0
  BY <1>2, SlotFreed
<1>5. ReturnsClass(Top(t))
  <2> DEFINE size == ReturnSize[Top(t).func]
  <2>1. size \in Nat /\ o.return_slot_size \in Nat /\ size > o.return_slot_size
    BY <1>1, <1>2, FrameFacts, SandboxInvokeAssumption DEF Objects
  <2> HIDE DEF size
  <2>2. size > 0
    BY <2>1
  <2> QED BY <2>2, <1>1 DEF ReturnsClass, size
<1> HIDE DEF w
<1>7. /\ x.return_slot = Null /\ x.memory = o.memory /\ x.leaked = o.leaked /\ x.heap = w.heap
  <2>1. w \in Objects /\ w.memory = o.memory /\ w.leaked = o.leaked
    BY <1>4
  <2> QED
    BY ONLY <2>1 DEF Objects, x
<1>8. /\ g \in CallFrames /\ g.sandbox = s /\ g.pc = "throwing" /\ g.args = Top(t).args
      /\ g.func = Top(t).func /\ g.kind = Top(t).kind
  BY <1>2 DEF CallFrames
<1> HIDE DEF x, g, o
<1>10. g.args = <<>> /\ Passed(g) = {} /\ Passed(Top(t)) = {}
  BY <1>1, <1>2, <1>8, PassedIs DEF FrameInv
<1>11. ObjectInv(x)
  BY <1>4, <1>7 DEF ObjectInv
<1>12. FrameInv(x, t, n, g)
  BY <1>7, <1>8, <1>10 DEF FrameInv, Busy
<1>13. ASSUME NEW i \in CallsIn(t, s), i < n
       PROVE  FrameInv(x, t, i, stack[t][i]) /\ PairInv(stack[t][i], g)
  <2> DEFINE f == stack[t][i]
  <2>1. /\ f \in CallFrames /\ f.pc = "wasm" /\ FrameInv(o, t, i, f) /\ PairInv(f, Top(t))
        /\ Passed(f) \subseteq Blocks
    BY <1>2, <1>13, PassedIs
  <2> HIDE DEF f
  <2>2. \A b \in Passed(f) : x.heap[b] = ClassSize /\ b # Null
    <3> TAKE b \in Passed(f)
    <3>1. b \in Blocks /\ o.heap[b] = ClassSize /\ b # o.return_slot /\ b # Null
      BY <2>1 DEF FrameInv, Passed
    <3> QED BY <3>1, <1>4, <1>7
  <2>3. FrameInv(x, t, i, f)
    BY <2>1, <2>2, <1>5, <1>7, SlotReplaced
  <2>4. PairInv(f, g)
    BY <2>1, <1>8, <1>10 DEF PairInv, ReturnsClass, Busy
  <2> QED BY <2>3, <2>4 DEF f
<1>14. ASSUME NEW b \in Blocks \ FreeBlocks(x)
       PROVE  \/ b = x.return_slot \/ b \in x.leaked
              \/ \E i \in CallsIn(t, s) : i < n /\ b \in Passed(stack[t][i])
  <2>1. b # o.return_slot /\ o.heap[b] # 0
    BY <1>4, <1>7 DEF FreeBlocks
  <2> QED BY <2>1, <1>2, <1>7, <1>10 DEF FreeBlocks
<1> HIDE DEF s, n
<1> QED
  BY <1>1, <1>8, <1>11, <1>12, <1>13, <1>14, TopSandbox DEF s, n

LEMMA StoreResultHeap ==
  ASSUME StackInv, HeapInv, NEW t \in Threads, StoreResult(t) PROVE HeapInv'
<1> DEFINE s == Top(t).sandbox
           o == object[s]
           n == Len(stack[t])
           x == [o EXCEPT !.memory[Top(t).return_arg] = Tag(t, 0)]
           g == [Top(t) EXCEPT !.stored = TRUE]
<1>1. /\ stack[t] # <<>> /\ Top(t).kind = "call" /\ Top(t).pc = "wasm" /\ ReturnsClass(Top(t))
      /\ Set(s, x) /\ SetTop(t, g)
  BY DEF StoreResult, At
<1>2. /\ s \in Sandboxes /\ o \in Objects /\ ObjectInv(o) /\ n \in Nat
      /\ Top(t) \in CallFrames /\ FrameInv(o, t, n, Top(t))
      /\ \A i \in CallsIn(t, s) : i < n =>
           /\ i \in Nat /\ stack[t][i] \in CallFrames /\ stack[t][i].pc = "wasm"
           /\ FrameInv(o, t, i, stack[t][i]) /\ PairInv(stack[t][i], Top(t))
      /\ \A a \in Blocks \ FreeBlocks(o) :
           \/ a = o.return_slot \/ a \in o.leaked \/ a \in Passed(Top(t))
           \/ \E i \in CallsIn(t, s) : i < n /\ a \in Passed(stack[t][i])
  BY <1>1, OwnCalls
<1>3. Top(t).return_arg \in Addresses
  BY <1>2, FrameFacts
<1>4. /\ x.heap = o.heap /\ x.return_slot = o.return_slot /\ x.leaked = o.leaked
      /\ x.return_slot_size = o.return_slot_size
      /\ x.memory[Top(t).return_arg] = <<t, n, 0>>
      /\ \A a \in Addresses : a # Top(t).return_arg => x.memory[a] = o.memory[a]
  BY <1>2, <1>3 DEF Objects, Tag
<1>5. /\ g \in CallFrames /\ g.sandbox = s /\ g.pc = "wasm" /\ g.return_arg = Top(t).return_arg
      /\ g.args = Top(t).args /\ g.crossed = Top(t).crossed
      /\ g.func = Top(t).func /\ g.kind = Top(t).kind /\ Busy(g) /\ Busy(Top(t))
  BY <1>1, <1>2 DEF CallFrames, Busy, ReturnsClass
<1> HIDE DEF x, g, o
<1>6. Passed(g) = Passed(Top(t)) /\ Passed(g) \subseteq Blocks
  BY <1>2, <1>5, PassedIs DEF Passed
<1>7. ObjectInv(x)
  BY <1>2, <1>4 DEF ObjectInv
<1>8. FrameInv(x, t, n, g)
  <2>1. \A j \in DOMAIN g.args : g.args[j] # Null =>
          g.args[j] \in Passed(g) /\ x.memory[g.args[j]] = o.memory[g.args[j]]
    <3>1. \A j \in DOMAIN g.args : g.args[j] # Null => g.args[j] \in Passed(g)
      BY <1>5, PassedIs
    <3>2. Top(t).return_arg \notin Passed(g)
      BY <1>2, <1>5, <1>6 DEF FrameInv
    <3> QED BY <3>1, <3>2, <1>4, <1>6 DEF Addresses
  <2>2. /\ \A j, k \in DOMAIN g.args : g.args[j] = g.args[k] /\ g.args[j] # Null => j = k
        /\ \A a \in Passed(g) : x.heap[a] = ClassSize /\ a # x.return_slot /\ a \notin x.leaked
        /\ \A j \in DOMAIN g.args : g.args[j] # Null => o.memory[g.args[j]] = <<t, n, j>>
        /\ g.return_arg \notin Passed(g)
        /\ ~g.crossed => g.return_arg = x.return_slot
    <3>1. FrameInv(o, t, n, Top(t)) /\ Top(t).pc = "wasm" /\ Busy(Top(t))
      BY <1>1, <1>2, <1>5
    <3> DEFINE h == Top(t)
    <3>2. /\ \A j, k \in DOMAIN h.args : h.args[j] = h.args[k] /\ h.args[j] # Null => j = k
          /\ \A a \in Passed(h) : o.heap[a] = ClassSize /\ a # o.return_slot /\ a \notin o.leaked
          /\ \A j \in DOMAIN h.args : h.args[j] # Null => o.memory[h.args[j]] = <<t, n, j>>
          /\ h.return_arg \notin Passed(h)
          /\ ~h.crossed => h.return_arg = o.return_slot
      BY ONLY <3>1 DEF FrameInv
    <3> HIDE DEF h
    <3>3. /\ g.args = h.args /\ Passed(g) = Passed(h) /\ g.return_arg = h.return_arg
          /\ g.crossed = h.crossed
      BY <1>5, <1>6 DEF h
    <3> QED
      BY ONLY <3>2, <3>3, <1>4
  <2>3. \A j \in DOMAIN g.args : g.args[j] # Null => x.memory[g.args[j]] = <<t, n, j>>
    BY <2>1, <2>2
  <2>4. x.memory[g.return_arg] = <<t, n, 0>>
    BY <1>4, <1>5
  <2> QED BY <2>2, <2>3, <2>4, <1>5 DEF FrameInv
<1>9. ASSUME NEW i \in CallsIn(t, s), i < n
      PROVE  FrameInv(x, t, i, stack[t][i]) /\ PairInv(stack[t][i], g)
  <2> DEFINE f == stack[t][i]
  <2>1. /\ f \in CallFrames /\ f.pc = "wasm" /\ FrameInv(o, t, i, f) /\ PairInv(f, Top(t))
        /\ Passed(f) \subseteq Blocks /\ \A j \in DOMAIN f.args : f.args[j] # Null => f.args[j] \in Passed(f)
    BY <1>2, <1>9, PassedIs
  <2> HIDE DEF f
  <2>2. Busy(f) => f.crossed
    BY <2>1, <1>1 DEF PairInv, Busy
  <2>3. \A a \in Passed(f) : x.memory[a] = o.memory[a]
    BY <2>1, <1>4, <1>5 DEF PairInv, Addresses
  <2>4. FrameInv(x, t, i, f)
    BY <2>1, <2>2, <2>3, <1>4 DEF FrameInv
  <2>5. PairInv(f, g)
    BY <2>1, <1>5, <1>6 DEF PairInv, ReturnsClass
  <2> QED BY <2>4, <2>5 DEF f
<1>10. ASSUME NEW a \in Blocks \ FreeBlocks(x)
       PROVE  \/ a = x.return_slot \/ a \in x.leaked \/ a \in Passed(g)
              \/ \E i \in CallsIn(t, s) : i < n /\ a \in Passed(stack[t][i])
  BY <1>2, <1>4, <1>6 DEF FreeBlocks
<1> HIDE DEF s, n
<1> QED
  BY <1>1, <1>5, <1>7, <1>8, <1>9, <1>10, TopSandbox DEF s, n

LEMMA PassArgumentsHeap ==
  ASSUME StackInv, HeapInv, NEW t \in Threads, PassArguments(t) PROVE HeapInv'
<1> DEFINE s == Top(t).sandbox
           o == object[s]
           n == Len(stack[t])
           m == ClassArgs[Top(t).func]
<1>1. At(t, "call", "args") /\ stack[t] # <<>> /\ Top(t).kind = "call" /\ Top(t).pc = "args"
  BY PassArgumentsIs DEF At
<1>2. /\ s \in Sandboxes /\ o \in Objects /\ ObjectInv(o) /\ n \in Nat
      /\ Top(t) \in CallFrames /\ FrameInv(o, t, n, Top(t))
      /\ \A i \in CallsIn(t, s) : i < n =>
           /\ i \in Nat /\ stack[t][i] \in CallFrames /\ stack[t][i].pc = "wasm"
           /\ FrameInv(o, t, i, stack[t][i]) /\ PairInv(stack[t][i], Top(t))
      /\ \A a \in Blocks \ FreeBlocks(o) :
           \/ a = o.return_slot \/ a \in o.leaked \/ a \in Passed(Top(t))
           \/ \E i \in CallsIn(t, s) : i < n /\ a \in Passed(stack[t][i])
  BY <1>1, OwnCalls
<1>3. PICK p \in Placements(o, m) :
        SetTop(t, [Top(t) EXCEPT !.pc = "wasm", !.args = p]) /\ Set(s, Placed(t, o, m, p))
  BY PassArgumentsIs
<1> DEFINE x == Placed(t, o, m, p)
           g == [Top(t) EXCEPT !.pc = "wasm", !.args = p]
<1>4. /\ m \in Nat /\ x \in Objects
      /\ \A a \in Blocks : x.heap[a] = IF a \in Range(p) THEN ClassSize ELSE o.heap[a]
      /\ \A j \in 1 .. m : p[j] # Null => x.memory[p[j]] = Tag(t, j)
      /\ \A a \in Addresses \ Range(p) : x.memory[a] = o.memory[a]
      /\ x.return_slot = o.return_slot /\ x.return_slot_size = o.return_slot_size
      /\ x.leaked = o.leaked
  BY <1>1, PlacedIs
<1>5. /\ p \in Seq(Addresses) /\ DOMAIN p = 1 .. m
      /\ \A j \in 1 .. m : p[j] \in FreeBlocks(o) \cup {Null} /\ p[j] \in Range(p)
      /\ \A j, k \in 1 .. m : p[j] = p[k] /\ p[j] # Null => j = k
      /\ \A a \in Range(p) : \E j \in 1 .. m : p[j] = a
  BY <1>2, <1>4, PlacementIs
<1>6. /\ g \in CallFrames /\ g.sandbox = s /\ g.pc = "wasm" /\ g.return_arg = Top(t).return_arg
      /\ g.args = p /\ g.crossed = Top(t).crossed /\ g.stored = Top(t).stored
      /\ g.func = Top(t).func /\ g.kind = Top(t).kind
  BY <1>2, <1>5 DEF CallFrames
<1>7. \A j \in Nat : Tag(t, j) = <<t, n, j>>
  BY DEF Tag
<1> HIDE DEF x, g, o, m
\* What is held stays as it was.
<1>8. \A a \in Blocks : a \in Range(p) => o.heap[a] = 0
  BY <1>5, SandboxInvokeAssumption DEF FreeBlocks
<1>9. \A a \in Blocks : o.heap[a] # 0 => x.heap[a] = o.heap[a] /\ x.memory[a] = o.memory[a] /\ a \notin Range(p)
  BY <1>4, <1>8 DEF Addresses
<1>10. /\ \A a \in Passed(g) : a \in Blocks /\ a \in Range(p) /\ o.heap[a] = 0 /\ x.heap[a] = ClassSize
       /\ Passed(Top(t)) = {}
  <2>1. Passed(g) = Range(p) \ {Null} /\ Passed(g) \subseteq Blocks
    BY <1>6, PassedIs DEF Passed
  <2>2. Passed(Top(t)) = {}
    BY <1>1, <1>2, PassedIs DEF FrameInv
  <2> QED BY <2>1, <2>2, <1>4, <1>8
<1>11. /\ o.return_slot # Null => o.return_slot \in Blocks /\ o.heap[o.return_slot] # 0
       /\ \A a \in o.leaked : a \in Blocks /\ o.heap[a] # 0
  BY <1>2 DEF ObjectInv, Objects, Addresses
<1>12. ObjectInv(x)
  BY <1>2, <1>4, <1>9, <1>11 DEF ObjectInv
<1>13. ~g.stored /\ ~g.crossed /\ (Busy(g) => g.return_arg = o.return_slot)
  BY <1>1, <1>2, <1>6 DEF FrameInv, Busy, ReturnsClass
<1>14. \A a \in Passed(g) : a # o.return_slot /\ a \notin o.leaked
  <2> TAKE a \in Passed(g)
  <2>1. a # Null
    BY DEF Passed
  <2> QED BY <2>1, <1>10, <1>11
<1>15. FrameInv(x, t, n, g)
  <2>1. /\ \A j, k \in DOMAIN g.args : g.args[j] = g.args[k] /\ g.args[j] # Null => j = k
        /\ \A a \in Passed(g) : x.heap[a] = ClassSize /\ a # x.return_slot /\ a \notin x.leaked
    BY <1>4, <1>5, <1>6, <1>10, <1>14
  <2>2. \A j \in DOMAIN g.args : g.args[j] # Null => x.memory[g.args[j]] = <<t, n, j>>
    <3> TAKE j \in DOMAIN g.args
    <3> HAVE g.args[j] # Null
    <3>1. j \in 1 .. m /\ j \in Nat /\ g.args[j] = p[j]
      BY <1>4, <1>5, <1>6
    <3>2. x.memory[p[j]] = Tag(t, j)
      BY <3>1, <1>4
    <3> QED BY <3>1, <3>2, <1>7
  <2>3. Busy(g) => g.return_arg \notin Passed(g) /\ g.return_arg = x.return_slot
    BY <1>4, <1>13, <1>14
  <2> QED BY <2>1, <2>2, <2>3, <1>6, <1>13 DEF FrameInv
<1>16. ASSUME NEW i \in CallsIn(t, s), i < n
       PROVE  FrameInv(x, t, i, stack[t][i]) /\ PairInv(stack[t][i], g)
  <2> DEFINE f == stack[t][i]
  <2>1. /\ f \in CallFrames /\ f.pc = "wasm" /\ FrameInv(o, t, i, f) /\ PairInv(f, Top(t))
        /\ Passed(f) \subseteq Blocks /\ \A j \in DOMAIN f.args : f.args[j] # Null => f.args[j] \in Passed(f)
    BY <1>2, <1>16, PassedIs
  <2> HIDE DEF f
  <2>2. \A a \in Passed(f) : o.heap[a] # 0 /\ x.heap[a] = ClassSize /\ x.memory[a] = o.memory[a]
    <3> TAKE a \in Passed(f)
    <3>1. a \in Blocks /\ o.heap[a] = ClassSize /\ ClassSize # 0
      BY <2>1 DEF FrameInv, ClassSize
    <3> QED BY <3>1, <1>9
  <2>3. Busy(f) /\ ~f.crossed /\ f.stored /\ f.return_arg # Null =>
          f.return_arg \in Blocks /\ x.memory[f.return_arg] = o.memory[f.return_arg]
    <3>1. Busy(f) /\ ~f.crossed => f.return_arg = o.return_slot
      BY <2>1 DEF FrameInv
    <3> QED BY <3>1, <1>9, <1>11
  <2>4. FrameInv(x, t, i, f)
    BY <2>1, <2>2, <2>3, <1>4 DEF FrameInv
  <2>5. PairInv(f, g)
    <3>1. Passed(f) \cap Passed(g) = {}
      BY <2>2, <1>10
    <3>2. Busy(g) => Busy(Top(t))
      BY <1>1, <1>6 DEF Busy, ReturnsClass
    <3> QED BY <3>1, <3>2, <2>1, <1>6 DEF PairInv, ReturnsClass
  <2> QED BY <2>4, <2>5 DEF f
<1>17. ASSUME NEW a \in Blocks \ FreeBlocks(x)
       PROVE  \/ a = x.return_slot \/ a \in x.leaked \/ a \in Passed(g)
              \/ \E i \in CallsIn(t, s) : i < n /\ a \in Passed(stack[t][i])
  <2>1. a \in Range(p) => a \in Passed(g)
    BY <1>6, SandboxInvokeAssumption DEF Passed
  <2>2. a \notin Range(p) => a \in Blocks \ FreeBlocks(o)
    BY <1>4 DEF FreeBlocks
  <2> QED BY <2>1, <2>2, <1>2, <1>4, <1>10
<1>18. SetTop(t, g) /\ Set(s, x)
  BY <1>3 DEF g, x, o, m
<1> HIDE DEF s, n
<1> QED
  BY <1>1, <1>6, <1>12, <1>15, <1>16, <1>17, <1>18, TopSandbox DEF s, n

\* What the calls below and the object need when the blocks of a call that is
\* over are lost, or freed.
LEMMA ArgumentsGone ==
  ASSUME NEW o \in Objects, ObjectInv(o), NEW n, NEW t, NEW g \in CallFrames, FrameInv(o, t, n, g),
         NEW x, x = Lost(o, Range(g.args)) \/ x = Freed(o, Range(g.args))
  PROVE  /\ x \in Objects /\ ObjectInv(x) /\ x.memory = o.memory /\ x.return_slot = o.return_slot
         /\ \A i, f : f \in CallFrames /\ FrameInv(o, t, i, f) /\ PairInv(f, g) => FrameInv(x, t, i, f)
         /\ \A a \in Blocks \ FreeBlocks(x) :
              a \in Blocks \ FreeBlocks(o) /\ (a \in Passed(g) => a \in x.leaked)
         /\ o.leaked \subseteq x.leaked
<1>1. Range(g.args) \in SUBSET Addresses /\ Passed(g) = Range(g.args) \ {Null} /\ Passed(g) \subseteq Blocks
  BY ArgsAre, PassedIs DEF Passed
<1>2. \A a \in Passed(g) : o.heap[a] = ClassSize /\ a # o.return_slot /\ a \notin o.leaked /\ a # Null
  BY DEF FrameInv, Passed
<1>3. /\ o.leaked \subseteq Blocks /\ (o.return_slot # Null => o.return_slot \in Blocks)
      /\ ClassSize # 0 /\ \A a \in Blocks : a # Null
  BY SandboxInvokeAssumption DEF Objects, Addresses, ClassSize
<1>4. CASE x = Lost(o, Range(g.args))
  <2>1. /\ x \in Objects /\ x.heap = o.heap /\ x.memory = o.memory
        /\ x.leaked = o.leaked \cup Passed(g) /\ x.return_slot = o.return_slot
        /\ x.return_slot_size = o.return_slot_size
    BY <1>1, <1>4, LostIs
  <2>2. ObjectInv(x)
    BY <2>1, <1>2, <1>3 DEF ObjectInv
  <2>3. ASSUME NEW i, NEW f \in CallFrames, FrameInv(o, t, i, f), PairInv(f, g) PROVE FrameInv(x, t, i, f)
    <3>1. \A a \in Passed(f) : a \notin x.leaked
      BY <2>1, <2>3 DEF FrameInv, PairInv
    <3> QED BY <2>1, <2>3, <3>1 DEF FrameInv
  <2>4. \A a \in Blocks \ FreeBlocks(x) :
          a \in Blocks \ FreeBlocks(o) /\ (a \in Passed(g) => a \in x.leaked)
    BY <2>1 DEF FreeBlocks
  <2> QED BY <2>1, <2>2, <2>3, <2>4
<1>5. CASE x = Freed(o, Range(g.args))
  <2>1. /\ x \in Objects /\ x.memory = o.memory /\ x.leaked = o.leaked
        /\ x.return_slot = o.return_slot /\ x.return_slot_size = o.return_slot_size
        /\ \A a \in Blocks : x.heap[a] = IF a \in Passed(g) THEN 0 ELSE o.heap[a]
    <3>1. /\ x \in Objects /\ x.memory = o.memory /\ x.leaked = o.leaked
          /\ x.return_slot = o.return_slot /\ x.return_slot_size = o.return_slot_size
          /\ \A a \in Blocks : x.heap[a] = IF a \in Range(g.args) THEN 0 ELSE o.heap[a]
      BY <1>5, FreedIs
    <3> QED BY <3>1, <1>1, <1>3
  <2>2. ObjectInv(x)
    BY <2>1, <1>2, <1>3 DEF ObjectInv
  <2>3. ASSUME NEW i, NEW f \in CallFrames, FrameInv(o, t, i, f), PairInv(f, g) PROVE FrameInv(x, t, i, f)
    <3>1. \A a \in Passed(f) : x.heap[a] = o.heap[a]
      BY <2>1, <2>3, PassedIs DEF PairInv
    <3> QED BY <2>1, <2>3, <3>1 DEF FrameInv
  <2>4. \A a \in Blocks \ FreeBlocks(x) :
          a \in Blocks \ FreeBlocks(o) /\ (a \in Passed(g) => a \in x.leaked)
    BY <2>1 DEF FreeBlocks
  <2> QED BY <2>1, <2>2, <2>3, <2>4
<1> QED
  BY <1>4, <1>5

LEMMA ReturnHeap ==
  ASSUME StackInv, HeapInv, NEW t \in Threads, Return(t) PROVE HeapInv'
<1> DEFINE s == Top(t).sandbox
           o == object[s]
           n == Len(stack[t])
           x == FreeArguments(o, Top(t))
           v == IF ReturnsClass(Top(t)) THEN o.memory[o.return_slot] ELSE Old
           g == [Top(t) EXCEPT !.pc = "done", !.args = <<>>, !.result = v]
<1>1. /\ stack[t] # <<>> /\ Top(t).kind = "call" /\ Top(t).pc = "wasm"
      /\ ReturnsClass(Top(t)) => Top(t).stored
      /\ Set(s, x) /\ SetTop(t, g)
  BY DEF Return, At
<1>2. /\ s \in Sandboxes /\ o \in Objects /\ ObjectInv(o) /\ n \in Nat
      /\ Top(t) \in CallFrames /\ FrameInv(o, t, n, Top(t))
      /\ \A i \in CallsIn(t, s) : i < n =>
           /\ i \in Nat /\ stack[t][i] \in CallFrames /\ stack[t][i].pc = "wasm"
           /\ FrameInv(o, t, i, stack[t][i]) /\ PairInv(stack[t][i], Top(t))
      /\ \A a \in Blocks \ FreeBlocks(o) :
           \/ a = o.return_slot \/ a \in o.leaked \/ a \in Passed(Top(t))
           \/ \E i \in CallsIn(t, s) : i < n /\ a \in Passed(stack[t][i])
  BY <1>1, OwnCalls
<1>3. x = Lost(o, Range(Top(t).args)) \/ x = Freed(o, Range(Top(t).args))
  BY DEF FreeArguments, Lost
<1>4. /\ ObjectInv(x) /\ x.memory = o.memory /\ x.return_slot = o.return_slot
      /\ \A i, f : f \in CallFrames /\ FrameInv(o, t, i, f) /\ PairInv(f, Top(t)) => FrameInv(x, t, i, f)
      /\ \A a \in Blocks \ FreeBlocks(x) :
           a \in Blocks \ FreeBlocks(o) /\ (a \in Passed(Top(t)) => a \in x.leaked)
      /\ o.leaked \subseteq x.leaked
  <2> HIDE DEF x, o, n
  <2> QED BY <1>2, <1>3, ArgumentsGone
<1>5. v \in Tags \cup {Old}
  BY <1>2 DEF Objects
<1>6. v = IF ReturnsClass(Top(t)) THEN o.memory[o.return_slot] ELSE Old
  OBVIOUS
<1> HIDE DEF v
<1>7. /\ g \in CallFrames /\ g.sandbox = s /\ g.pc = "done" /\ g.return_arg = Top(t).return_arg
      /\ g.args = <<>> /\ g.crossed = Top(t).crossed /\ g.result = v
      /\ g.func = Top(t).func /\ g.kind = Top(t).kind
  <2>1. <<>> \in Seq(Addresses)
    OBVIOUS
  <2> QED BY <2>1, <1>2, <1>5 DEF CallFrames
<1> HIDE DEF x, g, o
<1>8. Passed(g) = {}
  BY <1>7, PassedIs
<1>9. FrameInv(x, t, n, g)
  <2>1. ReturnsClass(g) /\ ~g.crossed /\ g.return_arg # Null => g.result = <<t, n, 0>>
    <3>1. ReturnsClass(g) => ReturnsClass(Top(t)) /\ Busy(Top(t)) /\ Top(t).stored
      BY <1>1, <1>7 DEF Busy, ReturnsClass
    <3>2. Busy(Top(t)) /\ ~Top(t).crossed =>
            /\ Top(t).return_arg = o.return_slot
            /\ Top(t).stored /\ Top(t).return_arg # Null => o.memory[Top(t).return_arg] = <<t, n, 0>>
      BY <1>2 DEF FrameInv
    <3> QED BY <3>1, <3>2, <1>6, <1>7
  <2> QED BY <2>1, <1>7, <1>8 DEF FrameInv, Busy
<1>10. ASSUME NEW i \in CallsIn(t, s), i < n
       PROVE  FrameInv(x, t, i, stack[t][i]) /\ PairInv(stack[t][i], g)
  <2>1. stack[t][i] \in CallFrames /\ FrameInv(o, t, i, stack[t][i]) /\ PairInv(stack[t][i], Top(t))
    BY <1>2, <1>10
  <2>2. PairInv(stack[t][i], g)
    BY <2>1, <1>7, <1>8 DEF PairInv, ReturnsClass, Busy
  <2> QED BY <2>1, <2>2, <1>4
<1>11. ASSUME NEW a \in Blocks \ FreeBlocks(x)
       PROVE  \/ a = x.return_slot \/ a \in x.leaked \/ a \in Passed(g)
              \/ \E i \in CallsIn(t, s) : i < n /\ a \in Passed(stack[t][i])
  BY <1>2, <1>4
<1> HIDE DEF s, n
<1> QED
  BY <1>1, <1>4, <1>7, <1>9, <1>10, <1>11, TopSandbox DEF s, n

\* The end of a call takes its tags out of the memory.
LEMMA Forgotten ==
  ASSUME StackInv, HeapInv, NEW t \in Threads, stack[t] # <<>>, Top(t).kind = "call",
         Pop(t), NEW o \in Objects, Set(Top(t).sandbox, Retired(o, t)), ObjectInv(o),
         \A i \in CallsIn(t, Top(t).sandbox) : i < Len(stack[t]) => FrameInv(o, t, i, stack[t][i]),
         \A a \in Blocks \ FreeBlocks(o) :
           \/ a = o.return_slot \/ a \in o.leaked
           \/ \E i \in CallsIn(t, Top(t).sandbox) : i < Len(stack[t]) /\ a \in Passed(stack[t][i])
  PROVE  HeapInv'
<1> DEFINE s == Top(t).sandbox
           n == Len(stack[t])
           x == Retired(o, t)
<1>1. /\ x \in Objects /\ x.heap = o.heap /\ x.leaked = o.leaked
      /\ x.return_slot = o.return_slot /\ x.return_slot_size = o.return_slot_size
      /\ \A a \in Addresses : \A u, i, j : o.memory[a] = <<u, i, j>> /\ i # n => x.memory[a] = <<u, i, j>>
  BY RetiredIs
<1>2. \A i \in CallsIn(t, s) : i < n => stack[t][i] \in CallFrames /\ i \in Nat /\ i # n
  BY OwnCalls
<1>3. Set(s, x)
  OBVIOUS
<1> HIDE DEF x
<1>4. ObjectInv(x)
  BY <1>1 DEF ObjectInv
<1>5. ASSUME NEW i \in CallsIn(t, s), i < n PROVE FrameInv(x, t, i, stack[t][i])
  <2> DEFINE f == stack[t][i]
  <2>1. f \in CallFrames /\ i # n /\ FrameInv(o, t, i, f)
    BY <1>2, <1>5
  <2>2. f.return_arg \in Addresses /\ \A j \in DOMAIN f.args : f.args[j] \in Addresses
    <3>1. f.return_arg \in Addresses /\ f.args \in Seq(Addresses)
      BY <2>1, FrameFacts
    <3> QED BY <3>1, ElementOfSeq, LenProperties
  <2> HIDE DEF f, n
  <2>3. f.pc = "wasm" => \A j \in DOMAIN f.args : f.args[j] # Null => x.memory[f.args[j]] = <<t, i, j>>
    <3> SUFFICES ASSUME f.pc = "wasm", NEW j \in DOMAIN f.args, f.args[j] # Null
                 PROVE  x.memory[f.args[j]] = <<t, i, j>>
      OBVIOUS
    <3>1. o.memory[f.args[j]] = <<t, i, j>> /\ f.args[j] \in Addresses
      BY <2>1, <2>2 DEF FrameInv
    <3> QED BY <3>1, <2>1, <1>1
  <2>4. Busy(f) /\ ~f.crossed /\ f.stored /\ f.return_arg # Null => x.memory[f.return_arg] = <<t, i, 0>>
    BY <2>1, <2>2, <1>1 DEF FrameInv
  <2>5. FrameInv(x, t, i, f)
    BY <2>1, <2>3, <2>4, <1>1 DEF FrameInv
  <2> QED BY <2>5 DEF f
<1>6. ASSUME NEW a \in Blocks \ FreeBlocks(x)
      PROVE  \/ a = x.return_slot \/ a \in x.leaked
             \/ \E i \in CallsIn(t, s) : i < n /\ a \in Passed(stack[t][i])
  BY <1>1 DEF FreeBlocks
<1> HIDE DEF s, n
<1> QED
  BY <1>3, <1>4, <1>5, <1>6, PopSandbox DEF s, n

LEMMA LeaveHeap ==
  ASSUME StackInv, HeapInv, NEW t \in Threads, Leave(t) PROVE HeapInv'
<1> DEFINE s == Top(t).sandbox
           o == object[s]
           n == Len(stack[t])
<1>1. /\ stack[t] # <<>> /\ Top(t).kind = "call" /\ Top(t).pc = "done"
      /\ Pop(t) /\ Set(s, Retired(o, t))
  BY DEF Leave, At
<1>2. /\ s \in Sandboxes /\ o \in Objects /\ ObjectInv(o) /\ n \in Nat
      /\ Top(t) \in CallFrames /\ FrameInv(o, t, n, Top(t))
      /\ \A i \in CallsIn(t, s) : i < n =>
           /\ i \in Nat /\ stack[t][i] \in CallFrames /\ stack[t][i].pc = "wasm"
           /\ FrameInv(o, t, i, stack[t][i]) /\ PairInv(stack[t][i], Top(t))
      /\ \A a \in Blocks \ FreeBlocks(o) :
           \/ a = o.return_slot \/ a \in o.leaked \/ a \in Passed(Top(t))
           \/ \E i \in CallsIn(t, s) : i < n /\ a \in Passed(stack[t][i])
  BY <1>1, OwnCalls
<1>3. Passed(Top(t)) = {}
  BY <1>1, <1>2, PassedIs DEF FrameInv
<1> HIDE DEF s, o, n
<1> QED
  BY <1>1, <1>2, <1>3, Forgotten DEF s, n

LEMMA UnwindHeap ==
  ASSUME StackInv, HeapInv, NEW t \in Threads, Unwind(t) PROVE HeapInv'
<1> DEFINE s == Top(t).sandbox
           o == object[s]
           n == Len(stack[t])
           x == Lost(o, Range(Top(t).args))
<1>1. /\ stack[t] # <<>> /\ Top(t).kind = "call" /\ Pop(t) /\ Set(s, Retired(x, t))
  BY DEF Unwind, At, Lost
<1>2. /\ s \in Sandboxes /\ o \in Objects /\ ObjectInv(o) /\ n \in Nat
      /\ Top(t) \in CallFrames /\ FrameInv(o, t, n, Top(t))
      /\ \A i \in CallsIn(t, s) : i < n =>
           /\ i \in Nat /\ stack[t][i] \in CallFrames /\ stack[t][i].pc = "wasm"
           /\ FrameInv(o, t, i, stack[t][i]) /\ PairInv(stack[t][i], Top(t))
      /\ \A a \in Blocks \ FreeBlocks(o) :
           \/ a = o.return_slot \/ a \in o.leaked \/ a \in Passed(Top(t))
           \/ \E i \in CallsIn(t, s) : i < n /\ a \in Passed(stack[t][i])
  BY <1>1, OwnCalls
<1> HIDE DEF s, o, n
<1>3. /\ x \in Objects /\ ObjectInv(x) /\ x.return_slot = o.return_slot
      /\ \A i, f : f \in CallFrames /\ FrameInv(o, t, i, f) /\ PairInv(f, Top(t)) => FrameInv(x, t, i, f)
      /\ \A a \in Blocks \ FreeBlocks(x) :
           a \in Blocks \ FreeBlocks(o) /\ (a \in Passed(Top(t)) => a \in x.leaked)
      /\ o.leaked \subseteq x.leaked
  BY <1>2, ArgumentsGone
<1> HIDE DEF x
<1>4. \A i \in CallsIn(t, s) : i < n => FrameInv(x, t, i, stack[t][i])
  BY <1>2, <1>3
<1>5. ASSUME NEW a \in Blocks \ FreeBlocks(x)
      PROVE  \/ a = x.return_slot \/ a \in x.leaked
             \/ \E i \in CallsIn(t, s) : i < n /\ a \in Passed(stack[t][i])
  BY <1>2, <1>3
<1> QED
  BY <1>1, <1>3, <1>4, <1>5, Forgotten DEF s, n

LEMMA HeapInvInit == Init => HeapInv
<1> SUFFICES ASSUME Init PROVE HeapInv
  OBVIOUS
<1>1. \A t \in Threads : \A s \in Sandboxes : CallsIn(t, s) = {}
  BY DEF Init, CallsIn, Calls
<1>2. \A s \in Sandboxes : object[s] = NewObject
  BY DEF Init
<1>3. ObjectInv(NewObject) /\ Blocks \ FreeBlocks(NewObject) = {}
  BY DEF NewObject, ObjectInv, FreeBlocks
<1> QED
  BY <1>1, <1>2, <1>3 DEF HeapInv, Exclusive, SandboxInv

LEMMA HeapInvStep == StackInv /\ StackInv' /\ HeapInv /\ [Next]_vars => HeapInv'
<1> SUFFICES ASSUME StackInv, StackInv', HeapInv, [Next]_vars PROVE HeapInv'
  OBVIOUS
<1>1. CASE UNCHANGED vars
  BY <1>1 DEF vars, HeapInv, Exclusive, SandboxInv, CallsIn, Calls
<1>2. CASE Next
  BY <1>2, CallHeap, SlotFitsHeap, GrowSlotHeap, SlotRefusedHeap, PassArgumentsHeap,
     StoreResultHeap, ReturnHeap, LeaveHeap, EnterInterceptorHeap, GetExecutedKeyHeap,
     CallbackReturnsHeap, CallbackThrowsHeap, UnwindHeap DEF Next
<1> QED
  BY <1>1, <1>2

LEMMA HeapInvInductive == Spec => [](StackInv /\ HeapInv)
<1>1. Init => StackInv /\ HeapInv
  BY StackInvInit, HeapInvInit
<1>2. (StackInv /\ HeapInv) /\ [Next]_vars => (StackInv /\ HeapInv)'
  BY StackInvStep, HeapInvStep
<1> QED
  BY <1>1, <1>2, PTL DEF Spec

-----------------------------------------------------------------------------
(***************************************************************************)
(* The theorems about the heap                                             *)
(***************************************************************************)
\* What HeapInv says of a call in progress.
LEMMA CallInHeap ==
  ASSUME StackInv, HeapInv, NEW t \in Threads, NEW i \in Calls(t)
  PROVE  FrameInv(object[stack[t][i].sandbox], t, i, stack[t][i])
<1>1. stack[t][i].sandbox \in Sandboxes
  BY CallsAre
<1>2. i \in CallsIn(t, stack[t][i].sandbox)
  BY DEF CallsIn
<1> QED
  BY <1>1, <1>2 DEF HeapInv, SandboxInv

\* The class arguments of a call stay as they were passed until it returns.
THEOREM ArgumentsCorrect == Spec => []ArgumentsIntact
<1>1. StackInv /\ HeapInv => ArgumentsIntact
  <2> SUFFICES ASSUME StackInv, HeapInv, NEW t \in Threads, NEW i \in Calls(t),
                      stack[t][i].pc = "wasm", NEW j \in DOMAIN stack[t][i].args,
                      stack[t][i].args[j] # Null
               PROVE  LET frame == stack[t][i]
                      IN  /\ object[frame.sandbox].heap[frame.args[j]] = ClassSize
                          /\ object[frame.sandbox].memory[frame.args[j]] = <<t, i, j>>
    BY DEF ArgumentsIntact
  <2>1. stack[t][i] \in CallFrames
    BY CallsAre
  <2>2. stack[t][i].args[j] \in Passed(stack[t][i])
    BY <2>1, PassedIs
  <2> QED
    BY <2>2, CallInHeap DEF FrameInv
<1> QED
  BY <1>1, HeapInvInductive, PTL

\* A call whose slot no other call touched returns what its function stored.
THEOREM ResultCorrect == Spec => []ResultIsOwn
<1>1. StackInv /\ HeapInv => ResultIsOwn
  BY CallInHeap DEF ResultIsOwn, FrameInv
<1> QED
  BY <1>1, HeapInvInductive, PTL

\* Each block of a sandbox has exactly one owner, or is free.
THEOREM HeapCorrect == Spec => []HeapAccounted
<1>1. StackInv /\ HeapInv => HeapAccounted
  <2> SUFFICES ASSUME StackInv, HeapInv, NEW s \in Sandboxes
               PROVE  LET o == object[s]
                          slot == {o.return_slot} \ {Null}
                          passed == UNION {UNION {Range(stack[t][i].args) \ {Null} :
                                     i \in {k \in Calls(t) : stack[t][k].sandbox = s}} : t \in Threads}
                      IN  /\ Blocks \ FreeBlocks(o) = slot \cup passed \cup o.leaked
                          /\ slot \cap (passed \cup o.leaked) = {} /\ passed \cap o.leaked = {}
                          /\ slot # {} => o.heap[o.return_slot] = o.return_slot_size
    BY DEF HeapAccounted
  <2> DEFINE o == object[s]
             slot == {o.return_slot} \ {Null}
             passed == UNION {UNION {Range(stack[t][i].args) \ {Null} :
                         i \in {k \in Calls(t) : stack[t][k].sandbox = s}} : t \in Threads}
  <2>1. o \in Objects /\ SandboxInv(s)
    BY DEF StackInv, ObjectTypes, HeapInv
  <2>2. \A a : a \in passed <=> \E t \in Threads : \E i \in CallsIn(t, s) : a \in Passed(stack[t][i])
    BY DEF CallsIn, Passed
  <2> HIDE DEF passed
  <2>3. /\ o.leaked \subseteq Blocks /\ slot \subseteq Blocks
    BY <2>1 DEF Objects, Addresses
  <2>4. ASSUME NEW a \in passed
        PROVE  a \in Blocks /\ o.heap[a] = ClassSize /\ a # o.return_slot /\ a \notin o.leaked
    <3>0. PICK t \in Threads : \E i \in CallsIn(t, s) : a \in Passed(stack[t][i])
      BY <2>2
    <3>1. PICK i \in CallsIn(t, s) : a \in Passed(stack[t][i])
      BY <3>0
    <3>2. stack[t][i] \in CallFrames
      BY CallsAre DEF CallsIn
    <3>3. FrameInv(o, t, i, stack[t][i])
      BY <2>1 DEF SandboxInv
    <3> QED BY <3>1, <3>2, <3>3, PassedIs DEF FrameInv
  <2>5. /\ slot # {} => o.heap[o.return_slot] = o.return_slot_size
        /\ \A a \in slot : o.heap[a] # 0 /\ a \notin o.leaked
        /\ \A a \in o.leaked : o.heap[a] # 0
    BY <2>1 DEF SandboxInv, ObjectInv
  <2>6. \A a \in Blocks \ FreeBlocks(o) : a \in slot \/ a \in passed \/ a \in o.leaked
    BY <2>1, <2>2, SandboxInvokeAssumption DEF SandboxInv
  <2>7. Blocks \ FreeBlocks(o) = slot \cup passed \cup o.leaked
    <3>1. \A a \in slot \cup passed \cup o.leaked : a \in Blocks /\ o.heap[a] # 0
      BY <2>3, <2>4, <2>5 DEF ClassSize
    <3> QED BY <3>1, <2>6 DEF FreeBlocks
  <2>8. slot \cap (passed \cup o.leaked) = {} /\ passed \cap o.leaked = {}
    BY <2>4, <2>5
  <2> QED
    BY <2>5, <2>7, <2>8 DEF passed
<1> QED
  BY <1>1, HeapInvInductive, PTL
=============================================================================
