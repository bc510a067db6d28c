--------------------------- MODULE HookProperties ---------------------------
(***************************************************************************)
(* What a hook promises to the threads that call the method: DalvikHook.   *)
(***************************************************************************)
EXTENDS DalvikHook

(* Every variable has its type. *)
TypeOK ==
  /\ infos \in Seq([method : Methods, copy : [Fields -> Nat]])
  /\ struct \in [Methods -> [Fields -> 0..Len(infos)]]
  /\ translated \subseteq Methods
  /\ cacheFull \in BOOLEAN
  /\ pc \in [Threads -> {"idle", "save", "write", "call", "handler", "done", "translated", "crashed"}]
  /\ target \in [Threads -> Methods]
  /\ mine \in [Threads -> 0..Len(infos)]
  /\ todo \in [Threads -> SUBSET Fields]
  /\ at \in [Threads -> 0..Len(infos)]
  /\ quiet \in [Threads -> BOOLEAN]
  /\ before \in [Threads -> BOOLEAN]
  /\ raced \subseteq Methods
  /\ hooks \in 0..MaxHooks
  /\ calls \in 0..MaxCalls

(* The original a handler is given is never the hook it came from, not even by way  *)
(* of others: hookMethodNative() copies a structure that other threads may be       *)
(* hooking, but the insns it saves are of a hook that made its copy before.         *)
(* So a handler that calls the original always ends.                                *)
OriginalsAreOlder ==
  \A i \in DOMAIN infos : infos[i].copy["insns"] < i

(* A call that no hook of its method overlaps is whole, if no two hooks of it ever    *)
(* did: it never crashes, and the handler sees it once if the method was hooked       *)
(* (unless the JIT has not dropped the old code yet), else never; for                 *)
(* invokeOriginalMethodNative() the handler never sees it.                            *)
CallsAreWhole ==
  \A t \in Threads :
    quiet[t] /\ target[t] \notin raced =>
      /\ pc[t] # "crashed"
      /\ ~before[t] => handled[t] = <<>>
      /\ Len(handled[t]) <= 1
      /\ pc[t] = "done" /\ before[t] => Len(handled[t]) = 1

(* The handler gets the caller's arguments, wide ones in one piece and without the    *)
(* registers before them, whenever no hook of the method overlaps the call.           *)
ArgumentsArrive ==
  \A t \in Threads : quiet[t] /\ target[t] \notin raced =>
    \A k \in DOMAIN handled[t] :
      handled[t][k] = [i \in 1..Len(Args(target[t])) |-> Words(target[t], i)]

(* Old code of a hooked method stays in the JIT's cache no longer than until the       *)
(* reset that is due, if its flag is where the offset says: no hook leaves callers     *)
(* on a translation for good.                                                          *)
NoStaleTranslation ==
  \A m \in translated :
    JitOffsetOk /\ isMethodHooked(struct[m]) /\ Hooking(m) = {} => cacheFull
=============================================================================
