----------------------------- MODULE DalvikHook -----------------------------
(***************************************************************************)
(* Hooked methods in the Dalvik runtime: libxposed_dalvik.cpp.             *)
(*                                                                         *)
(* A hook saves a copy of the runtime's Method structure and then writes   *)
(* the fields of the structure, without a lock, while other threads call   *)
(* the method or hook it as well.  Of a field only matters who wrote it:   *)
(* 0 stands for what the runtime put there, i for the hook with the i-th   *)
(* XposedHookInfo.  All hooks write the same values, except to "insns".    *)
(* The stores of one hook to the structure may take effect in any order;   *)
(* the flag for the JIT is set behind them, as in the program.             *)
(***************************************************************************)
EXTENDS Naturals, Sequences

CONSTANTS
  Threads,
  Methods,
  Native,       \* the methods whose original is native code
  Static,
  Args(_),      \* the argument types of a method in its shorty: "I", "J" (wide), "L"
  Locals(_),    \* how many registers its code has beside the arguments
  JitOffsetOk,  \* whether the byte read as codeCacheFull is 0 or 1
  MaxHooks,     \* how many hooks and calls are made
  MaxCalls

ASSUME HookAssumption ==
  /\ Native \subseteq Methods
  /\ Methods # {}
  /\ MaxHooks \in Nat
  /\ MaxCalls \in Nat
  /\ JitOffsetOk \in BOOLEAN
  /\ \A m \in Methods : Args(m) \in Seq({"I", "J", "L"})

VARIABLES
  struct,      \* the fields of each method's Method structure
  infos,       \* the XposedHookInfo structures, in the order of their allocation
  translated,  \* the methods whose original code is in the JIT's cache
  cacheFull,   \* gDvmJit.codeCacheFull
  pc,          \* what each thread is doing
  target,      \* the method it is about
  mine,        \* the hook info it has allocated
  todo,        \* the fields its hook has yet to write
  at,          \* what it is calling: 0 the method itself, i the copy in infos[i]
  frame,       \* the registers of the frame made for the call
  handled,     \* history: what the handler got during this call, in order
  quiet,       \* history: no hook of the method was under way during this call
  before,      \* history: the method was hooked when the call began
  raced,       \* history: the methods that two threads hooked at the same time
  hooks,
  calls

hookVars == <<struct, infos, translated, cacheFull, mine, todo, raced, hooks>>
callVars == <<at, frame, handled, quiet, before, calls>>
vars == <<hookVars, pc, target, callVars>>

\* registersSize and outsSize are the frame; the flag is ACC_NATIVE.
Fields == {"flag", "nativeFunc", "insns", "frame"}

AnyMethod == CHOOSE m \in Methods : TRUE

Init ==
  /\ struct = [m \in Methods |-> [f \in Fields |-> 0]]
  /\ infos = <<>>
  /\ translated = {}
  /\ cacheFull = FALSE
  /\ pc = [t \in Threads |-> "idle"]
  /\ target = [t \in Threads |-> AnyMethod]
  /\ mine = [t \in Threads |-> 0]
  /\ todo = [t \in Threads |-> {}]
  /\ at = [t \in Threads |-> 0]
  /\ frame = [t \in Threads |-> <<>>]
  /\ handled = [t \in Threads |-> <<>>]
  /\ quiet = [t \in Threads |-> TRUE]
  /\ before = [t \in Threads |-> FALSE]
  /\ raced = {}
  /\ hooks = 0
  /\ calls = 0

isMethodHooked(s) == s["nativeFunc"] # 0

\* The threads inside hookMethodNative() for m, behind its check.
Hooking(m) == {t \in Threads : target[t] = m /\ pc[t] \in {"save", "write"}}

Calling(t) == pc[t] \in {"call", "handler"}

----------------------------------------------------------------------------
(* XposedBridge_hookMethodNative() *)

\* Mutant: a method is hooked again.
StartHookAlways(t, m) ==
  /\ pc[t] = "idle"
  /\ hooks < MaxHooks
  /\ pc' = [pc EXCEPT ![t] = "save"]
  /\ target' = [target EXCEPT ![t] = m]
  /\ hooks' = hooks + 1
  /\ raced' = IF Hooking(m) = {} THEN raced ELSE raced \cup {m}
  /\ quiet' = [u \in Threads |-> quiet[u] /\ ~(Calling(u) /\ target[u] = m)]
  /\ UNCHANGED <<struct, infos, translated, cacheFull, mine, todo, at, frame, handled, before, calls>>

\* The check; arguments that are NULL or name no method end the call as a hooked
\* method does, except for the exception.
StartHook(t, m) ==
  /\ pc[t] = "idle"
  /\ hooks < MaxHooks
  /\ ~isMethodHooked(struct[m])
  /\ pc' = [pc EXCEPT ![t] = "save"]
  /\ target' = [target EXCEPT ![t] = m]
  /\ hooks' = hooks + 1
  /\ raced' = IF Hooking(m) = {} THEN raced ELSE raced \cup {m}
  /\ quiet' = [u \in Threads |-> quiet[u] /\ ~(Calling(u) /\ target[u] = m)]
  /\ UNCHANGED <<struct, infos, translated, cacheFull, mine, todo, at, frame, handled, before, calls>>

\* Mutant: the copy is made when the insns have been replaced.
SaveCopyLate(t) ==
  /\ pc[t] = "save"
  /\ pc' = [pc EXCEPT ![t] = "write"]
  /\ mine' = [mine EXCEPT ![t] = Len(infos) + 1]
  /\ struct' = [struct EXCEPT ![target[t]]["insns"] = Len(infos) + 1]
  /\ infos' = Append(infos, [method |-> target[t], copy |-> struct'[target[t]]])
  /\ todo' = [todo EXCEPT ![t] = Fields]
  /\ UNCHANGED <<translated, cacheFull, target, callVars, raced, hooks>>

\* calloc() and memcpy().  A copy that is torn by another hook's stores is one made
\* between those stores, as they may come in any order.
SaveCopy(t) ==
  /\ pc[t] = "save"
  /\ pc' = [pc EXCEPT ![t] = "write"]
  /\ infos' = Append(infos, [method |-> target[t], copy |-> struct[target[t]]])
  /\ mine' = [mine EXCEPT ![t] = Len(infos) + 1]
  /\ todo' = [todo EXCEPT ![t] = Fields]
  /\ UNCHANGED <<struct, translated, cacheFull, target, callVars, raced, hooks>>

WriteField(t, f) ==
  /\ pc[t] = "write"
  /\ f \in todo[t]
  /\ struct' = [struct EXCEPT ![target[t]][f] = mine[t]]
  /\ todo' = [todo EXCEPT ![t] = @ \ {f}]
  /\ UNCHANGED <<infos, translated, cacheFull, pc, target, mine, callVars, raced, hooks>>

\* Mutant: the JIT's cache is left alone.
KeepJitCache(t) ==
  /\ pc[t] = "write"
  /\ todo[t] = {}
  /\ pc' = [pc EXCEPT ![t] = "idle"]
  /\ mine' = [mine EXCEPT ![t] = 0]
  /\ target' = [target EXCEPT ![t] = AnyMethod]
  /\ UNCHANGED <<struct, infos, translated, cacheFull, todo, callVars, raced, hooks>>

\* The JIT's cache is to be reset, if there is a JIT and its flag is where the
\* offset says.
ResetJitCache(t) ==
  /\ pc[t] = "write"
  /\ todo[t] = {}
  /\ pc' = [pc EXCEPT ![t] = "idle"]
  /\ mine' = [mine EXCEPT ![t] = 0]
  /\ target' = [target EXCEPT ![t] = AnyMethod]
  /\ cacheFull' = (cacheFull \/ JitOffsetOk)
  /\ UNCHANGED <<struct, infos, translated, todo, callVars, raced, hooks>>

----------------------------------------------------------------------------
(* The runtime's JIT *)

\* Only bytecode is translated; the compiler reads the flag and the code.
Translate(m) ==
  /\ m \notin Native
  /\ struct[m]["flag"] = 0 /\ struct[m]["insns"] = 0
  /\ m \notin translated
  /\ ~cacheFull
  /\ translated' = translated \cup {m}
  /\ UNCHANGED <<struct, infos, cacheFull, mine, todo, raced, hooks, pc, target, callVars>>

EmptyCache ==
  /\ cacheFull
  /\ cacheFull' = FALSE
  /\ translated' = {}
  /\ UNCHANGED <<struct, infos, mine, todo, raced, hooks, pc, target, callVars>>

----------------------------------------------------------------------------
(* Calls *)

Width(type) == IF type = "J" THEN 2 ELSE 1

\* The registers that hold an argument, as <<number of the argument, word>>.
Words(m, i) == [w \in 1..Width(Args(m)[i]) |-> <<i, w>>]

This == <<0, 1>>
Junk == <<0, 0>>

\* The registers of a call: "this", and the arguments from left to right.
Layout(m) ==
  LET upTo[i \in 0..Len(Args(m))] ==
        IF i = 0 THEN IF m \in Static THEN <<>> ELSE <<This>>
        ELSE upTo[i - 1] \o Words(m, i)
  IN  upTo[Len(Args(m))]

\* A frame of registersSize registers; native code is passed the first of them, but
\* the arguments are the last.
FrameOf(m, s) ==
  (IF s["frame"] = 0 THEN [i \in 1..Locals(m) |-> Junk] ELSE <<>>) \o Layout(m)

\* Mutant: wide arguments take one register.
BoxNarrow(m, regs) ==
  [i \in 1..Len(Args(m)) |-> <<regs[IF m \in Static THEN i ELSE i + 1]>>]

\* hookedMethodCallback(): srcIndex runs over the registers as the arguments are boxed.
Box(m, regs) ==
  LET src[i \in 1..Len(Args(m)) + 1] ==
        IF i = 1 THEN IF m \in Static THEN 1 ELSE 2
        ELSE src[i - 1] + Width(Args(m)[i - 1])
  IN  [i \in 1..Len(Args(m)) |-> SubSeq(regs, src[i], src[i + 1] - 1)]

\* The call reads the size of its frame first.
StartCall(t, m) ==
  /\ pc[t] = "idle"
  /\ calls < MaxCalls
  /\ pc' = [pc EXCEPT ![t] = "call"]
  /\ target' = [target EXCEPT ![t] = m]
  /\ calls' = calls + 1
  /\ at' = [at EXCEPT ![t] = 0]
  /\ frame' = [frame EXCEPT ![t] = FrameOf(m, struct[m])]
  /\ handled' = [handled EXCEPT ![t] = <<>>]
  /\ quiet' = [quiet EXCEPT ![t] = Hooking(m) = {}]
  /\ before' = [before EXCEPT ![t] = isMethodHooked(struct[m])]
  /\ UNCHANGED hookVars

\* XposedBridge_invokeOriginalMethodNative() for a method that is not resolved: the
\* original is in the insns, which a hook under way may not have written yet.
InvokeOriginal(t, m) ==
  /\ pc[t] = "idle"
  /\ calls < MaxCalls
  /\ target' = [target EXCEPT ![t] = m]
  /\ calls' = calls + 1
  /\ LET s == struct[m]
         i == IF isMethodHooked(s) THEN s["insns"] ELSE 0
     IN  /\ pc' = [pc EXCEPT ![t] = IF isMethodHooked(s) /\ i = 0 THEN "crashed" ELSE "call"]
         /\ at' = [at EXCEPT ![t] = i]
         /\ frame' = [frame EXCEPT ![t] = FrameOf(m, IF i = 0 THEN s ELSE infos[i].copy)]
  /\ handled' = [handled EXCEPT ![t] = <<>>]
  /\ quiet' = [quiet EXCEPT ![t] = Hooking(m) = {}]
  /\ before' = [before EXCEPT ![t] = FALSE]
  /\ UNCHANGED hookVars

Called(t) == IF at[t] = 0 THEN struct[target[t]] ELSE infos[at[t]].copy

\* The runtime looks at the structure: bytecode runs in a frame made for it, native
\* code gets the frame; a translation runs instead of the method itself.
Run(t) ==
  /\ pc[t] = "call"
  /\ LET s == Called(t)
         isNative == target[t] \in Native \/ s["flag"] # 0
         own == IF isNative THEN s["nativeFunc"] = 0 /\ target[t] \in Native
                ELSE s["frame"] = 0
     IN  /\ ~(isNative /\ isMethodHooked(s))
         /\ pc' = [pc EXCEPT ![t] = IF s["insns"] = 0 /\ own THEN "done" ELSE "crashed"]
  /\ UNCHANGED <<hookVars, target, callVars>>

RunTranslation(t) ==
  /\ pc[t] = "call"
  /\ at[t] = 0
  /\ target[t] \in translated
  /\ pc' = [pc EXCEPT ![t] = "translated"]
  /\ UNCHANGED <<hookVars, target, callVars>>

\* hookedMethodCallback() takes the insns for its hook info and calls the handler
\* with the boxed arguments; an array that cannot be allocated is an exception.
Callback(t) ==
  /\ pc[t] = "call"
  /\ target[t] \in Native \/ Called(t)["flag"] # 0
  /\ isMethodHooked(Called(t))
  /\ LET i == Called(t)["insns"]
     IN  IF i = 0
         THEN /\ pc' = [pc EXCEPT ![t] = "crashed"]
              /\ UNCHANGED <<at, handled>>
         ELSE /\ pc' = [pc EXCEPT ![t] = "handler"]
              /\ at' = [at EXCEPT ![t] = i]
              /\ handled' = [handled EXCEPT ![t] = Append(@, Box(target[t], frame[t]))]
  /\ UNCHANGED <<hookVars, target, frame, quiet, before, calls>>

\* The handler calls the original it was given, as a resolved method.
CallOriginal(t) ==
  /\ pc[t] = "handler"
  /\ pc' = [pc EXCEPT ![t] = "call"]
  /\ frame' = [frame EXCEPT ![t] = FrameOf(target[t], infos[at[t]].copy)]
  /\ UNCHANGED <<hookVars, target, at, handled, quiet, before, calls>>

\* The handler returns, or throws; the result is unboxed to the method's type, or an
\* exception says why not.
HandlerReturns(t) ==
  /\ pc[t] = "handler"
  /\ pc' = [pc EXCEPT ![t] = "done"]
  /\ UNCHANGED <<hookVars, target, callVars>>

Return(t) ==
  /\ pc[t] \in {"done", "translated"}
  /\ pc' = [pc EXCEPT ![t] = "idle"]
  /\ target' = [target EXCEPT ![t] = AnyMethod]
  /\ at' = [at EXCEPT ![t] = 0]
  /\ frame' = [frame EXCEPT ![t] = <<>>]
  /\ handled' = [handled EXCEPT ![t] = <<>>]
  /\ quiet' = [quiet EXCEPT ![t] = TRUE]
  /\ before' = [before EXCEPT ![t] = FALSE]
  /\ UNCHANGED <<hookVars, calls>>

HookStep(t) ==
  \/ \E m \in Methods : StartHook(t, m)
  \/ SaveCopy(t)
  \/ \E f \in Fields : WriteField(t, f)
  \/ ResetJitCache(t)

CallStep(t) ==
  \/ \E m \in Methods : StartCall(t, m) \/ InvokeOriginal(t, m)
  \/ Run(t) \/ RunTranslation(t) \/ Callback(t) \/ CallOriginal(t) \/ HandlerReturns(t)
  \/ Return(t)

\* A crash ends the process.
Next ==
  /\ \A t \in Threads : pc[t] # "crashed"
  /\ \/ \E t \in Threads : HookStep(t) \/ CallStep(t)
     \/ \E m \in Methods : Translate(m)
     \/ EmptyCache

Spec == Init /\ [][Next]_vars
=============================================================================
