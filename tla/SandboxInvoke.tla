--------------------------- MODULE SandboxInvoke ---------------------------
(***************************************************************************)
(* Calls into sandboxes and callbacks out of them, as                      *)
(* include/rlbox_wasm2c_sandbox.hpp makes them: impl_invoke_with_func_ptr  *)
(* with class arguments and class results, the callback interceptors, the  *)
(* thread data of include/rlbox_wasm2c_tls.hpp, and exceptions that unwind *)
(* any of it.  Each thread has a stack of calls and callbacks; a callback  *)
(* may call its own or another sandbox.                                    *)
(*                                                                         *)
(* A sandbox serves one thread at a time: the Wasm instance has one stack  *)
(* pointer for all its callers.  The in-sandbox malloc and free are calls  *)
(* of impl_invoke_with_func_ptr as well, but run no callback and leave     *)
(* thread_data as it was: they are part of the step that makes them.  So   *)
(* is the call that a class-returning call makes of itself once it has a   *)
(* slot.  dynamic_check throws (RLBOX_USE_EXCEPTIONS); without exceptions  *)
(* the process ends there.                                                 *)
(***************************************************************************)
EXTENDS Integers, Sequences, SequencesExt

CONSTANTS
  Threads, Sandboxes,
  NoSandbox,      \* the null thread_data.sandbox
  Functions,      \* exported functions of Wasm modules
  Exports,        \* those of the module of each sandbox
  ReturnSize,     \* size of the class each function returns; 0: it returns none
  ClassArgs,      \* number of class parameters of each function
  Interceptors,   \* the N of the registered callbacks
  Promoted,       \* those whose callback returns a class
  Blocks,         \* addresses of the in-sandbox malloc
  Null,           \* address 0 of the sandbox, what a failed malloc returns
  MaxDepth        \* bound: calls and callbacks in progress on one thread

\* allocations_buff has one entry in the call that a class-returning call
\* makes of itself: a second class argument would be written past its end.
ASSUME SandboxInvokeAssumption ==
  /\ NoSandbox \notin Sandboxes
  /\ Null \notin Blocks
  /\ Exports \in [Sandboxes -> SUBSET Functions]
  /\ ReturnSize \in [Functions -> Nat]
  /\ ClassArgs \in [Functions -> Nat]
  /\ \A f \in Functions : ReturnSize[f] > 0 => ClassArgs[f] <= 1
  /\ Interceptors \subseteq Nat
  /\ Promoted \subseteq Interceptors
  /\ MaxDepth \in Nat

VARIABLES
  stack,         \* of each thread, outermost call first
  thread_data,   \* the thread_local rlbox_wasm2c_sandbox_thread_data
  object         \* return slot and Wasm heap of each sandbox

vars == <<stack, thread_data, object>>

Addresses == Blocks \cup {Null}

-----------------------------------------------------------------------------
(***************************************************************************)
(* The heap of a sandbox.  heap is the size of each block, 0 when free;    *)
(* memory is who wrote the block last: <<t, depth, j>> for argument j, or  *)
(* with j = 0 for the result, of the call at this depth of t's stack.      *)
(* leaked are the blocks that nobody will free.                            *)
(***************************************************************************)
Old == <<>>            \* written by a call that is over
ClassSize == 1         \* of class arguments

NewObject ==
  [return_slot |-> Null, return_slot_size |-> 0, heap |-> [a \in Blocks |-> 0],
   memory |-> [a \in Addresses |-> Old], leaked |-> {}]

Set(s, members) == object' = [object EXCEPT ![s] = members]

FreeBlocks(o) == {a \in Blocks : o.heap[a] = 0}

\* impl_free_in_sandbox; free(0) does nothing.
Freed(o, addresses) ==
  [o EXCEPT !.heap = [a \in Blocks |-> IF a \in addresses THEN 0 ELSE @[a]]]

-----------------------------------------------------------------------------
(***************************************************************************)
(* Stacks                                                                  *)
(***************************************************************************)
\* One invocation.  return_arg: the slot as it was passed to the function;
\* args: the addresses of its class arguments; result: what was copied out of
\* the slot; crossed: another call returned a class in the same sandbox while
\* this one was in progress; touched: the sandboxes that interceptors called
\* from here took callback and parameters from, or wrote results to.
NewCall(s, f, old) ==
  [kind |-> "call", pc |-> IF ReturnSize[f] > 0 THEN "slot" ELSE "args",
   sandbox |-> s, func |-> f, old_sandbox |-> old, return_arg |-> Null,
   args |-> <<>>, stored |-> FALSE, result |-> Old, crossed |-> FALSE, touched |-> {}]

\* One interceptor with the callback it calls.
NewCallback(n) == [kind |-> "callback", pc |-> "entered", number |-> n, key |-> <<>>]

Top(t) == Last(stack[t])
At(t, kind, pc) == stack[t] # <<>> /\ Top(t).kind = kind /\ Top(t).pc = pc
SetTop(t, frame) == stack' = [stack EXCEPT ![t][Len(stack[t])] = frame]
Pop(t) == stack' = [stack EXCEPT ![t] = Front(@)]

\* Broken variant: sandboxed code calls into sandboxes itself.
HostRunsInWasm(t) == stack[t] = <<>> \/ At(t, "callback", "host") \/ At(t, "call", "wasm")

\* The application's code runs, outside of any call or in a callback.
HostRuns(t) == stack[t] = <<>> \/ At(t, "callback", "host")

Calls(t) == {i \in DOMAIN stack[t] : stack[t][i].kind = "call"}
InUseBy(t) == {stack[t][i].sandbox : i \in Calls(t)}
ReturnsClass(frame) == frame.kind = "call" /\ ReturnSize[frame.func] > 0
Tag(t, j) == <<t, Len(stack[t]), j>>

\* What a call that is over wrote are bytes of nobody in particular.
Retired(o, t) ==
  [o EXCEPT !.memory =
     [a \in Addresses |-> IF IsPrefix(<<t, Len(stack[t])>>, @[a]) THEN Old ELSE @[a]]]

-----------------------------------------------------------------------------
(***************************************************************************)
(* impl_invoke_with_func_ptr                                               *)
(***************************************************************************)
\* History: calls in s that are to return a class are crossed by this one.
Crossed(frames, s, f) ==
  [i \in DOMAIN frames |->
     IF ReturnSize[f] > 0 /\ ReturnsClass(frames[i]) /\ frames[i].sandbox = s
     THEN [frames[i] EXCEPT !.crossed = TRUE] ELSE frames[i]]

Call(t, s, f) ==
  /\ HostRuns(t)
  /\ Len(stack[t]) < MaxDepth
  /\ \A u \in Threads \ {t} : s \notin InUseBy(u)
  /\ stack' = [stack EXCEPT ![t] =
                 Append(Crossed(@, s, f), NewCall(s, f, thread_data[t].sandbox))]
  /\ thread_data' = [thread_data EXCEPT ![t].sandbox = s]
  /\ UNCHANGED object

\* ensure_return_slot_size; what it leaves in return_slot is passed on by value.
WithoutSlot(o) == IF o.return_slot_size > 0 THEN Freed(o, {o.return_slot}) ELSE o

SlotFits(t) ==
  LET o == object[Top(t).sandbox]
  IN  /\ At(t, "call", "slot")
      /\ ReturnSize[Top(t).func] <= o.return_slot_size
      /\ SetTop(t, [Top(t) EXCEPT !.pc = "args", !.return_arg = o.return_slot])
      /\ UNCHANGED <<thread_data, object>>

\* Broken variant: the slot is passed on as it was before it grew.
GrowSlotPassesOld(t) ==
  LET size == ReturnSize[Top(t).func]
      o == object[Top(t).sandbox]
  IN  /\ At(t, "call", "slot")
      /\ size > o.return_slot_size
      /\ \E a \in FreeBlocks(WithoutSlot(o)) :
           /\ Set(Top(t).sandbox, [WithoutSlot(o) EXCEPT !.return_slot = a,
                                     !.return_slot_size = size, !.heap[a] = size])
           /\ SetTop(t, [Top(t) EXCEPT !.pc = "args", !.return_arg = o.return_slot])
      /\ UNCHANGED thread_data

GrowSlot(t) ==
  LET size == ReturnSize[Top(t).func]
      o == object[Top(t).sandbox]
  IN  /\ At(t, "call", "slot")
      /\ size > o.return_slot_size
      /\ \E a \in FreeBlocks(WithoutSlot(o)) :
           /\ Set(Top(t).sandbox, [WithoutSlot(o) EXCEPT !.return_slot = a,
                                     !.return_slot_size = size, !.heap[a] = size])
           /\ SetTop(t, [Top(t) EXCEPT !.pc = "args", !.return_arg = a])
      /\ UNCHANGED thread_data

\* Broken variant: return_slot is written after the check only.
SlotRefusedKeepsSlot(t) ==
  LET o == object[Top(t).sandbox]
  IN  /\ At(t, "call", "slot")
      /\ ReturnSize[Top(t).func] > o.return_slot_size
      /\ Set(Top(t).sandbox, WithoutSlot(o))
      /\ SetTop(t, [Top(t) EXCEPT !.pc = "throwing"])
      /\ UNCHANGED thread_data

\* The in-sandbox malloc fails: the check throws after return_slot is written.
SlotRefused(t) ==
  LET o == object[Top(t).sandbox]
  IN  /\ At(t, "call", "slot")
      /\ ReturnSize[Top(t).func] > o.return_slot_size
      /\ Set(Top(t).sandbox, [WithoutSlot(o) EXCEPT !.return_slot = Null])
      /\ SetTop(t, [Top(t) EXCEPT !.pc = "throwing"])
      /\ UNCHANGED thread_data

\* serialize_class_arg for every class argument.  The result of malloc is not
\* checked: with 0 the argument is written at the start of the sandbox.
Placements(o, n) ==
  {p \in [1 .. n -> FreeBlocks(o) \cup {Null}] :
     \A j, k \in 1 .. n : p[j] = p[k] /\ p[j] # Null => j = k}

PassArguments(t) ==
  LET o == object[Top(t).sandbox]
      n == ClassArgs[Top(t).func]
      LastAt(p, a) == CHOOSE j \in 1 .. n : p[j] = a /\ \A k \in j + 1 .. n : p[k] # a
  IN  /\ At(t, "call", "args")
      /\ \E p \in Placements(o, n) :
           /\ SetTop(t, [Top(t) EXCEPT !.pc = "wasm", !.args = p])
           /\ Set(Top(t).sandbox,
                  [o EXCEPT !.heap = [a \in Blocks |-> IF a \in Range(p) THEN ClassSize ELSE @[a]],
                            !.memory = [a \in Addresses |->
                               IF a \in Range(p) THEN Tag(t, LastAt(p, a)) ELSE @[a]]])
      /\ UNCHANGED thread_data

\* Sandboxed code fills in the class it returns, before or after any callback.
StoreResult(t) ==
  /\ At(t, "call", "wasm")
  /\ ReturnsClass(Top(t)) /\ ~Top(t).stored
  /\ SetTop(t, [Top(t) EXCEPT !.stored = TRUE])
  /\ Set(Top(t).sandbox, [object[Top(t).sandbox] EXCEPT !.memory[Top(t).return_arg] = Tag(t, 0)])
  /\ UNCHANGED thread_data

\* Broken variant: one argument too few is freed.
FreeArgumentsButLast(o, frame) ==
  IF ReturnsClass(frame) \/ frame.args = <<>>
  THEN [o EXCEPT !.leaked = @ \cup (Range(frame.args) \ {Null})]
  ELSE Freed(o, Range(Front(frame.args)))

\* The function returns.  alloc_length is 0 in the call that a class-returning
\* call makes of itself, because params are lvalues there: it frees none of its
\* class arguments.  The result is copied from where return_slot is by now.
FreeArguments(o, frame) ==
  IF ReturnsClass(frame)
  THEN [o EXCEPT !.leaked = @ \cup (Range(frame.args) \ {Null})]
  ELSE Freed(o, Range(frame.args))

Return(t) ==
  LET o == object[Top(t).sandbox]
  IN  /\ At(t, "call", "wasm")
      /\ ReturnsClass(Top(t)) => Top(t).stored
      /\ Set(Top(t).sandbox, FreeArguments(o, Top(t)))
      /\ SetTop(t, [Top(t) EXCEPT !.pc = "done", !.args = <<>>,
                      !.result = IF ReturnsClass(Top(t)) THEN o.memory[o.return_slot] ELSE Old])
      /\ UNCHANGED thread_data

\* Broken variant: on exit the thread is in no sandbox.
RestoreNull(t) == thread_data' = [thread_data EXCEPT ![t].sandbox = NoSandbox]

\* on_exit
RestoreSandbox(t) == thread_data' = [thread_data EXCEPT ![t].sandbox = Top(t).old_sandbox]

Leave(t) ==
  /\ At(t, "call", "done")
  /\ Pop(t)
  /\ RestoreSandbox(t)
  /\ Set(Top(t).sandbox, Retired(object[Top(t).sandbox], t))

-----------------------------------------------------------------------------
(***************************************************************************)
(* The interceptors                                                        *)
(***************************************************************************)
\* The frame of a call that an interceptor was called from, which worked on s.
Touch(frame, s) == [frame EXCEPT !.touched = @ \cup {s}]

\* Broken variant: last_callback_invoked is not thread local.
EnterInterceptorShared(t, n) ==
  /\ At(t, "call", "wasm")
  /\ Len(stack[t]) < MaxDepth
  /\ thread_data' = [u \in Threads |-> [thread_data[u] EXCEPT !.last_callback_invoked = n]]
  /\ stack' = [stack EXCEPT ![t] =
                 Append(Front(@) \o <<Touch(Last(@), thread_data[t].sandbox)>>,
                        NewCallback(n))]
  /\ UNCHANGED object

\* callback_interceptor and callback_interceptor_promoted take the callback,
\* and its class parameters, from thread_data.sandbox.
EnterInterceptor(t, n) ==
  /\ At(t, "call", "wasm")
  /\ Len(stack[t]) < MaxDepth
  /\ thread_data' = [thread_data EXCEPT ![t].last_callback_invoked = n]
  /\ stack' = [stack EXCEPT ![t] =
                 Append(Front(@) \o <<Touch(Last(@), thread_data[t].sandbox)>>,
                        NewCallback(n))]
  /\ UNCHANGED object

\* impl_get_executed_callback_sandbox_and_key, which RLBox's own callback calls
\* before anything else; the key is unique to the sandbox and N.
GetExecutedKey(t) ==
  /\ At(t, "callback", "entered")
  /\ SetTop(t, [Top(t) EXCEPT !.pc = "host",
                  !.key = <<thread_data[t].sandbox, thread_data[t].last_callback_invoked>>])
  /\ UNCHANGED <<thread_data, object>>

\* A promoted interceptor copies the class into thread_data.sandbox, to a place
\* on the stack of its caller.
CallbackReturns(t) ==
  LET rest == Front(stack[t])
  IN  /\ At(t, "callback", "host")
      /\ stack' = [stack EXCEPT ![t] =
                     IF Top(t).number \in Promoted
                     THEN Front(rest) \o <<Touch(Last(rest), thread_data[t].sandbox)>>
                     ELSE rest]
      /\ UNCHANGED <<thread_data, object>>

-----------------------------------------------------------------------------
(***************************************************************************)
(* Exceptions                                                              *)
(***************************************************************************)
\* A callback throws, by itself or because a call it made did.
CallbackThrows(t) ==
  /\ At(t, "callback", "host")
  /\ stack' = [stack EXCEPT ![t] =
                 Front(Front(@)) \o <<[Last(Front(@)) EXCEPT !.pc = "throwing"]>>]
  /\ UNCHANGED <<thread_data, object>>

\* Broken variant: the sandbox is restored after the call, not on exit.
UnwindKeepsSandbox(t) ==
  LET o == object[Top(t).sandbox]
  IN  /\ At(t, "call", "throwing")
      /\ Pop(t)
      /\ Set(Top(t).sandbox,
             Retired([o EXCEPT !.leaked = @ \cup (Range(Top(t).args) \ {Null})], t))
      /\ UNCHANGED thread_data

\* A call is left by an exception: on_exit runs, the frees of the class
\* arguments do not.  The application may catch it in the callback below.
Unwind(t) ==
  LET o == object[Top(t).sandbox]
  IN  /\ At(t, "call", "throwing")
      /\ Pop(t)
      /\ RestoreSandbox(t)
      /\ Set(Top(t).sandbox,
             Retired([o EXCEPT !.leaked = @ \cup (Range(Top(t).args) \ {Null})], t))

-----------------------------------------------------------------------------
Init ==
  /\ stack = [t \in Threads |-> <<>>]
  /\ thread_data = [t \in Threads |-> [sandbox |-> NoSandbox, last_callback_invoked |-> 0]]
  /\ object = [s \in Sandboxes |-> NewObject]

Next ==
  \E t \in Threads :
    \/ \E s \in Sandboxes : \E f \in Exports[s] : Call(t, s, f)
    \/ SlotFits(t) \/ GrowSlot(t) \/ SlotRefused(t)
    \/ PassArguments(t) \/ StoreResult(t) \/ Return(t) \/ Leave(t)
    \/ \E n \in Interceptors : EnterInterceptor(t, n)
    \/ GetExecutedKey(t) \/ CallbackReturns(t)
    \/ CallbackThrows(t) \/ Unwind(t)

Spec == Init /\ [][Next]_vars

-----------------------------------------------------------------------------
(***************************************************************************)
(* Properties                                                              *)
(***************************************************************************)
Tags == Threads \X (1 .. MaxDepth) \X Nat

CallFrames ==
  [kind : {"call"}, pc : {"slot", "args", "wasm", "done", "throwing"},
   sandbox : Sandboxes, func : Functions, old_sandbox : Sandboxes \cup {NoSandbox},
   return_arg : Addresses, args : Seq(Addresses), stored : BOOLEAN,
   result : Tags \cup {Old}, crossed : BOOLEAN, touched : SUBSET Sandboxes]
CallbackFrames ==
  [kind : {"callback"}, pc : {"entered", "host"}, number : Interceptors,
   key : (Sandboxes \X Interceptors) \cup {<<>>}]

Objects ==
  [return_slot : Addresses, return_slot_size : Nat, heap : [Blocks -> Nat],
   memory : [Addresses -> Tags \cup {Old}], leaked : SUBSET Blocks]

\* Every variable has a value of its type; calls and callbacks alternate.
TypeOK ==
  /\ DOMAIN stack = Threads
  /\ \A t \in Threads :
       /\ Len(stack[t]) <= MaxDepth
       /\ \A i \in DOMAIN stack[t] :
            stack[t][i] \in IF i % 2 = 1 THEN CallFrames ELSE CallbackFrames
  /\ thread_data \in [Threads -> [sandbox : Sandboxes \cup {NoSandbox},
                                  last_callback_invoked : Interceptors \cup {0}]]
  /\ object \in [Sandboxes -> Objects]

\* A thread's thread_data.sandbox is the sandbox of the innermost call it is
\* in, and null outside of all calls: after nested calls into the same and into
\* other sandboxes, and after exceptions that leave any number of them.
ThreadDataIsCurrent ==
  \A t \in Threads :
    thread_data[t].sandbox =
      IF Calls(t) = {} THEN NoSandbox
      ELSE stack[t][CHOOSE i \in Calls(t) : \A j \in Calls(t) : j <= i].sandbox

\* The interceptors that sandboxed code calls look up their function and read
\* their parameters in that very sandbox and write their result back to it,
\* whatever sandboxes the callback has called in between.
InterceptorReachesCaller ==
  \A t \in Threads : \A i \in Calls(t) : stack[t][i].touched \subseteq {stack[t][i].sandbox}

\* The key a callback is told belongs to the sandbox that called it and to the
\* interceptor that was called, although thread_data is all it goes by and
\* other threads and nested callbacks write theirs.
KeyIsOwn ==
  \A t \in Threads : \A i \in DOMAIN stack[t] :
    LET frame == stack[t][i]
    IN  frame.kind = "callback" /\ frame.pc = "host" =>
          frame.key = <<stack[t][i - 1].sandbox, frame.number>>

\* A call returns the class that its own function stored, although the slot is
\* reused by every call and moved when a larger class comes: unless a callback
\* of that function made another call that returns a class from the same
\* sandbox, or an earlier call failed to get a larger slot and the application
\* caught the exception.  (Then the slot is shared or gone, or it is address 0,
\* where arguments that malloc had no room for are written too.)
ResultIsOwn ==
  \A t \in Threads : \A i \in Calls(t) :
    LET frame == stack[t][i]
    IN  frame.pc = "done" /\ ReturnsClass(frame) /\ ~frame.crossed /\ frame.return_arg # Null
          => frame.result = <<t, i, 0>>

\* While a call is in progress its class arguments, those that malloc had room
\* for, are in blocks of their own and hold what was passed, despite the calls
\* that its callbacks make.
ArgumentsIntact ==
  \A t \in Threads : \A i \in Calls(t) :
    LET frame == stack[t][i]
    IN  frame.pc = "wasm" =>
          \A j \in DOMAIN frame.args : frame.args[j] # Null =>
            /\ object[frame.sandbox].heap[frame.args[j]] = ClassSize
            /\ object[frame.sandbox].memory[frame.args[j]] = <<t, i, j>>

\* The blocks held in a sandbox are its return slot, of at least the recorded
\* size, the class arguments of calls in progress, and those that were lost:
\* by exceptions and by class-returning calls with class arguments, and by
\* nothing else.  A slot that could not be replaced is not kept after its free.
HeapAccounted ==
  \A s \in Sandboxes :
    LET o == object[s]
        slot == {o.return_slot} \ {Null}
        passed == UNION {UNION {Range(stack[t][i].args) \ {Null} :
                                  i \in {k \in Calls(t) : stack[t][k].sandbox = s}} : t \in Threads}
    IN  /\ Blocks \ FreeBlocks(o) = slot \cup passed \cup o.leaked
        /\ slot \cap (passed \cup o.leaked) = {} /\ passed \cap o.leaked = {}
        /\ slot # {} => o.heap[o.return_slot] = o.return_slot_size
=============================================================================
