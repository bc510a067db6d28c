--------------------------- MODULE ProcessProofs ---------------------------
(***************************************************************************)
(* What holds of a process whatever its command line is, whatever fails in *)
(* its initialisation, whatever its files refer to, and however many       *)
(* threads hook and call methods of whatever types.                        *)
(***************************************************************************)
EXTENDS ProcessProperties, WellFoundedInduction, SequenceTheorems, TLAPS

----------------------------------------------------------------------------
(* Induction, from there being a least number in every set that has one *)

LEMMA LeastNatural ==
  ASSUME NEW T, T \subseteq Nat, T # {}
  PROVE  \E x \in T : \A y \in T : x <= y
<1> DEFINE R == OpToRel(<, Nat)
<1>2. \A a, b \in Nat : b < a => <<b, a>> \in R
  BY DEF OpToRel
<1>4. IsWellFoundedOn(R, Nat)
  BY NatLessThanWellFounded
<1> HIDE DEF R
<1>1. PICK x \in T : \A y \in T : ~(<<y, x>> \in R)
  BY <1>4, WFMin
<1>3. \A y \in T : ~(y < x)
  BY <1>1, <1>2, Zenon
<1> QED BY <1>3

LEMMA InductionUpTo ==
  ASSUME NEW n \in Nat, NEW S, 0 \in S, \A i \in 0..n : i \in S /\ i # n => i + 1 \in S
  PROVE  0..n \subseteq S
<1> SUFFICES ASSUME (0..n) \ S # {} PROVE FALSE
  OBVIOUS
<1> DEFINE T == (0..n) \ S
<1>0. T \subseteq Nat /\ T # {}
  OBVIOUS
<1> HIDE DEF T
<1>1. PICK x \in T : \A y \in T : x <= y
  BY <1>0, LeastNatural
<1> USE DEF T
<1>2. x # 0 /\ x - 1 \in 0..n /\ x - 1 # n /\ x - 1 \in S
  BY <1>1
<1> QED BY <1>1, <1>2

(* A recursive definition over 0..n has a solution.                                      *)
LEMMA Recursion ==
  ASSUME NEW n \in Nat, NEW S, NEW s0 \in S, NEW next \in [1..n -> [S -> S]]
  PROVE  \E f \in [0..n -> S] : f[0] = s0 /\ \A i \in 1..n : f[i] = next[i][f[i - 1]]
<1> DEFINE Good(f, k) == /\ f \in [0..k -> S] /\ f[0] = s0
                         /\ \A i \in 1..k : f[i] = next[i][f[i - 1]]
           Reached == {k \in 0..n : \E f : Good(f, k)}
<1>1. 0 \in Reached
  <2>1. Good([i \in 0..0 |-> s0], 0)
    OBVIOUS
  <2> HIDE DEF Good
  <2> QED BY <2>1
<1>2. ASSUME NEW k \in 0..n, k \in Reached, k # n PROVE k + 1 \in Reached
  <2>1. PICK f : Good(f, k)
    BY <1>2
  <2> DEFINE g == [i \in 0..k + 1 |-> IF i = k + 1 THEN next[k + 1][f[k]] ELSE f[i]]
  <2>2. next[k + 1][f[k]] \in S /\ k + 1 \in 1..n
    BY <1>2, <2>1
  <2>3. Good(g, k + 1)
    BY <2>1, <2>2
  <2> HIDE DEF g, Good
  <2> QED BY <2>2, <2>3
<1> HIDE DEF Reached
<1>3. \A k \in 0..n : k \in Reached /\ k # n => k + 1 \in Reached
  BY <1>2
<1>4. n \in Reached
  <2>1. 0..n \subseteq Reached
    BY <1>1, <1>3, InductionUpTo
  <2> QED BY <2>1
<1> QED BY <1>4 DEF Reached

----------------------------------------------------------------------------
(* Hooks: types *)

LEMMA ElementOfSequence ==
  ASSUME NEW S, NEW s \in Seq(S), NEW i \in 1..Len(s)
  PROVE  s[i] \in S
OBVIOUS

Typed == TypeOK /\ OriginalsAreOlder

(* Every variable keeps its type, and a hook's original is an older one: both follow    *)
(* from the numbers that the structures hold when they are copied.                     *)
LEMMA TypedInvariant == Spec => []Typed
<1>0. /\ Native \subseteq Methods /\ Methods # {} /\ JitOffsetOk \in BOOLEAN
      /\ MaxHooks \in Nat /\ MaxCalls \in Nat
  BY HookAssumption DEF HookAssumption
<1> USE <1>0
<1>1. ASSUME Init PROVE Typed
  <2>1. /\ Len(infos) = 0
        /\ infos \in Seq([method : Methods, copy : [Fields -> Nat]])
        /\ DOMAIN infos = {}
    BY <1>1 DEF Init
  <2>2. AnyMethod \in Methods
    BY DEF AnyMethod
  <2>3. OriginalsAreOlder
    BY <2>1 DEF OriginalsAreOlder
  <2>4. struct \in [Methods -> [Fields -> 0..Len(infos)]]
    BY <1>1, <2>1 DEF Init
  <2>5. mine \in [Threads -> 0..Len(infos)] /\ at \in [Threads -> 0..Len(infos)]
    BY <1>1, <2>1 DEF Init
  <2>6. /\ pc \in [Threads -> {"idle", "save", "write", "call", "handler", "done",
                              "translated", "crashed"}]
        /\ todo \in [Threads -> SUBSET Fields]
        /\ target \in [Threads -> Methods]
    BY <1>1, <2>2 DEF Init
  <2>8. quiet \in [Threads -> BOOLEAN] /\ before \in [Threads -> BOOLEAN]
    BY <1>1, Zenon DEF Init
  <2>9. translated \subseteq Methods /\ raced \subseteq Methods /\ cacheFull \in BOOLEAN
    BY <1>1 DEF Init
  <2>7. /\ hooks \in 0..MaxHooks /\ calls \in 0..MaxCalls
    BY <1>1 DEF Init
  <2> QED BY <2>1, <2>3, <2>4, <2>5, <2>6, <2>7, <2>8, <2>9 DEF Typed, TypeOK
<1>2. Typed /\ [Next]_vars => Typed'
  <2> SUFFICES ASSUME Typed, [Next]_vars PROVE Typed'
    OBVIOUS
  <2> AnyMethod \in Methods
    BY DEF AnyMethod
  <2> USE DEF Typed, TypeOK, OriginalsAreOlder, hookVars, callVars
  <2>1. ASSUME NEW t \in Threads, NEW m \in Methods, StartHook(t, m) PROVE Typed'
    BY <2>1 DEF StartHook
  <2>2. ASSUME NEW t \in Threads, SaveCopy(t) PROVE Typed'
    <3>1. /\ Len(infos') = Len(infos) + 1
          /\ infos' \in Seq([method : Methods, copy : [Fields -> Nat]])
      BY <2>2 DEF SaveCopy
    <3>2. OriginalsAreOlder'
      <4> SUFFICES ASSUME NEW i \in DOMAIN infos' PROVE infos'[i].copy["insns"] < i
        OBVIOUS
      <4>1. CASE i = Len(infos) + 1
        BY <2>2, <4>1 DEF SaveCopy, Fields
      <4>2. CASE i # Len(infos) + 1
        BY <2>2, <4>2 DEF SaveCopy
      <4> QED BY <4>1, <4>2
    <3> QED BY <2>2, <3>1, <3>2 DEF SaveCopy
  <2>3. ASSUME NEW t \in Threads, NEW f \in Fields, WriteField(t, f) PROVE Typed'
    BY <2>3 DEF WriteField
  <2>4. ASSUME NEW t \in Threads, ResetJitCache(t) PROVE Typed'
    BY <2>4 DEF ResetJitCache
  <2>5. ASSUME NEW t \in Threads, NEW m \in Methods, StartCall(t, m) PROVE Typed'
    BY <2>5 DEF StartCall, isMethodHooked
  <2>6. ASSUME NEW t \in Threads, NEW m \in Methods, InvokeOriginal(t, m) PROVE Typed'
    <3>1. struct[m]["insns"] \in 0..Len(infos)
      BY DEF Fields
    <3> QED BY <2>6, <3>1 DEF InvokeOriginal
  <2>7. ASSUME NEW t \in Threads, Run(t) PROVE Typed'
    BY <2>7 DEF Run
  <2>8. ASSUME NEW t \in Threads, RunTranslation(t) PROVE Typed'
    BY <2>8 DEF RunTranslation
  <2>9. ASSUME NEW t \in Threads, Callback(t) PROVE Typed'
    <3>1. Called(t)["insns"] \in 0..Len(infos)
      <4>1. CASE at[t] = 0
        BY <4>1 DEF Called, Fields
      <4>2. CASE at[t] # 0
        <5>1. at[t] \in 1..Len(infos) /\ DOMAIN infos = 1..Len(infos)
          BY <4>2
        <5>2. infos[at[t]] \in [method : Methods, copy : [Fields -> Nat]]
          BY <5>1, ElementOfSequence DEF TypeOK
        <5>3. infos[at[t]].copy \in [Fields -> Nat]
          BY <5>2
        <5>4. infos[at[t]].copy["insns"] < at[t]
          BY <5>1
        <5>5. infos[at[t]].copy["insns"] \in Nat
          BY <5>3 DEF Fields
        <5> QED BY <4>2, <5>1, <5>4, <5>5 DEF Called
      <4> QED BY <4>1, <4>2
    <3> QED BY <2>9, <3>1 DEF Callback
  <2>10. ASSUME NEW t \in Threads, CallOriginal(t) PROVE Typed'
    BY <2>10 DEF CallOriginal
  <2>11. ASSUME NEW t \in Threads, HandlerReturns(t) PROVE Typed'
    BY <2>11 DEF HandlerReturns
  <2>12. ASSUME NEW t \in Threads, Return(t) PROVE Typed'
    BY <2>12 DEF Return
  <2>13. ASSUME NEW m \in Methods, Translate(m) PROVE Typed'
    BY <2>13 DEF Translate
  <2>14. CASE EmptyCache
    BY <2>14 DEF EmptyCache
  <2>15. CASE UNCHANGED vars
    BY <2>15 DEF vars
  <2> QED
    BY <2>1, <2>2, <2>3, <2>4, <2>5, <2>6, <2>7, <2>8, <2>9, <2>10, <2>11, <2>12, <2>13,
       <2>14, <2>15 DEF Next, HookStep, CallStep
<1> QED BY <1>1, <1>2, PTL DEF Spec

----------------------------------------------------------------------------
(* The structures, whoever writes them *)

\* A thread that writes has its own hook info, and has written what it need not any more.
Writers ==
  \A t \in Threads : pc[t] = "write" =>
    /\ mine[t] \in 1..Len(infos)
    /\ infos[mine[t]].method = target[t]
    /\ \A f \in Fields \ todo[t] : struct[target[t]][f] # 0

\* A structure that is partly written has someone who will write the rest.
Pending ==
  \A m \in Methods : \A f, g \in Fields :
    struct[m][f] # 0 /\ struct[m][g] = 0 =>
      \E t \in Threads : pc[t] = "write" /\ target[t] = m /\ g \in todo[t]

InfosOf(m) == {i \in 1..Len(infos) : infos[i].method = m}

\* A method that no two threads hooked at the same time is written by one at most, has
\* one hook info at most, and the copy there is what the runtime made.
AloneOn(m) ==
  /\ \A t, u \in Hooking(m) : t = u
  /\ \A i, j \in InfosOf(m) : i = j
  /\ \A i \in InfosOf(m) : \A f \in Fields : infos[i].copy[f] = 0
  /\ \A f \in Fields : struct[m][f] = 0 \/ struct[m][f] \in InfosOf(m)
  /\ \A t \in Hooking(m) : pc[t] = "save" => InfosOf(m) = {}
  /\ Hooking(m) = {} /\ InfosOf(m) # {} => \A f \in Fields : struct[m][f] # 0

Alone == \A m \in Methods : m \in raced \/ AloneOn(m)

StructInv == Writers /\ Pending /\ Alone

\* A step that no hook notices.
SameHooks ==
  /\ struct' = struct /\ infos' = infos /\ mine' = mine /\ todo' = todo /\ raced' = raced
  /\ \A u \in Threads :
       /\ pc'[u] = "write" <=> pc[u] = "write"
       /\ pc'[u] = "save" <=> pc[u] = "save"
       /\ pc[u] \in {"save", "write"} => target'[u] = target[u]

LEMMA CallsLeaveHooks ==
  ASSUME Typed, NEW t \in Threads, CallStep(t)
  PROVE  SameHooks /\ UNCHANGED <<translated, cacheFull>>
<1> USE DEF Typed, TypeOK, SameHooks, hookVars
<1>1. ASSUME NEW m \in Methods, StartCall(t, m)
      PROVE  SameHooks /\ UNCHANGED <<translated, cacheFull>>
  BY <1>1 DEF StartCall
<1>2. ASSUME NEW m \in Methods, InvokeOriginal(t, m)
      PROVE  SameHooks /\ UNCHANGED <<translated, cacheFull>>
  BY <1>2 DEF InvokeOriginal
<1>3. CASE Run(t)
  BY <1>3 DEF Run
<1>4. CASE RunTranslation(t)
  BY <1>4 DEF RunTranslation
<1>5. CASE Callback(t)
  BY <1>5 DEF Callback
<1>6. CASE CallOriginal(t)
  BY <1>6 DEF CallOriginal
<1>7. CASE HandlerReturns(t)
  BY <1>7 DEF HandlerReturns
<1>8. CASE Return(t)
  BY <1>8 DEF Return
<1> QED BY <1>1, <1>2, <1>3, <1>4, <1>5, <1>6, <1>7, <1>8 DEF CallStep

LEMMA SameHooksKeepStructs ==
  ASSUME Typed, StructInv, SameHooks
  PROVE  StructInv' /\ \A m \in Methods : Hooking(m)' = Hooking(m)
<1>1. \A m \in Methods : Hooking(m)' = Hooking(m)
  BY DEF SameHooks, Hooking, Typed, TypeOK
<1>2. \A m \in Methods : InfosOf(m)' = InfosOf(m)
  BY DEF SameHooks, InfosOf
<1>3. Writers'
  BY DEF SameHooks, StructInv, Writers
<1>4. Pending'
  BY DEF SameHooks, StructInv, Pending
<1>5. ASSUME NEW m \in Methods, m \notin raced' PROVE AloneOn(m)'
  <2>1. AloneOn(m)
    BY <1>5 DEF SameHooks, StructInv, Alone
  <2>2. \A t \in Hooking(m) : pc'[t] = "save" <=> pc[t] = "save"
    BY DEF SameHooks, Hooking
  <2> QED BY <1>1, <1>2, <2>1, <2>2 DEF AloneOn, SameHooks
<1> QED BY <1>1, <1>3, <1>4, <1>5 DEF StructInv, Alone

LEMMA StartHookKeepsStructs ==
  ASSUME Typed, StructInv, NEW t \in Threads, NEW m \in Methods, StartHook(t, m)
  PROVE  StructInv'
<1> USE DEF Typed, TypeOK
<1>1. /\ struct' = struct /\ infos' = infos /\ mine' = mine /\ todo' = todo
      /\ \A u \in Threads : pc'[u] = "write" <=> pc[u] = "write"
      /\ \A u \in Threads : pc[u] = "write" => target'[u] = target[u]
      /\ \A n \in Methods : InfosOf(n)' = InfosOf(n)
  BY DEF StartHook, InfosOf
<1>2. Writers'
  BY <1>1 DEF StructInv, Writers
<1>3. Pending'
  <2> SUFFICES ASSUME NEW n \in Methods, NEW f \in Fields, NEW g \in Fields,
                      struct[n][f] # 0, struct[n][g] = 0
               PROVE  \E u \in Threads : pc'[u] = "write" /\ target'[u] = n /\ g \in todo'[u]
    BY <1>1 DEF Pending
  <2>1. PICK u \in Threads : pc[u] = "write" /\ target[u] = n /\ g \in todo[u]
    BY DEF StructInv, Pending
  <2> QED BY <1>1, <2>1
<1>4. ASSUME NEW n \in Methods, n \notin raced' PROVE AloneOn(n)'
  <2>1. AloneOn(n)
    BY <1>4 DEF StartHook, StructInv, Alone
  <2>2. CASE n # m
    <3>1. Hooking(n)' = Hooking(n)
      BY <2>2 DEF StartHook, Hooking
    <3>2. \A u \in Hooking(n) : pc'[u] = pc[u]
      BY DEF StartHook, Hooking
    <3> QED BY <1>1, <2>1, <3>1, <3>2 DEF AloneOn
  <2>3. CASE n = m
    <3>1. Hooking(m) = {}
      BY <1>4, <2>3 DEF StartHook
    <3>2. Hooking(m)' = {t}
      BY <3>1 DEF StartHook, Hooking
    <3>3. struct[m]["nativeFunc"] = 0
      BY DEF StartHook, isMethodHooked
    <3>4. InfosOf(m) = {}
      BY <2>1, <2>3, <3>1, <3>3 DEF AloneOn, Fields
    <3> QED BY <1>1, <2>1, <2>3, <3>2, <3>4 DEF AloneOn
  <2> QED BY <2>2, <2>3
<1> QED BY <1>2, <1>3, <1>4 DEF StructInv, Alone

LEMMA SaveCopyKeepsStructs ==
  ASSUME Typed, StructInv, NEW t \in Threads, SaveCopy(t)
  PROVE  StructInv'
<1> USE DEF Typed, TypeOK
<1> DEFINE m == target[t]
           new == Len(infos) + 1
<1>1. /\ m \in Methods
      /\ Len(infos') = new
      /\ \A i \in 1..Len(infos) : infos'[i] = infos[i]
      /\ infos'[new].method = m
      /\ infos'[new].copy = struct[m]
      /\ struct' = struct /\ raced' = raced /\ target' = target
      /\ Len(infos) \in Nat
  BY DEF SaveCopy
<1>2. /\ pc'[t] = "write" /\ mine'[t] = new /\ todo'[t] = Fields /\ pc[t] = "save"
      /\ \A u \in Threads \ {t} : pc'[u] = pc[u] /\ mine'[u] = mine[u] /\ todo'[u] = todo[u]
  BY DEF SaveCopy
<1>3. Writers'
  <2> SUFFICES ASSUME NEW u \in Threads, pc'[u] = "write"
               PROVE  /\ mine'[u] \in 1..Len(infos')
                      /\ infos'[mine'[u]].method = target'[u]
                      /\ \A f \in Fields \ todo'[u] : struct'[target'[u]][f] # 0
    BY DEF Writers
  <2>1. CASE u = t
    BY <1>1, <1>2, <2>1
  <2>2. CASE u # t
    <3>1. pc[u] = "write"
      BY <1>2, <2>2
    <3>2. /\ mine[u] \in 1..Len(infos)
          /\ infos[mine[u]].method = target[u]
          /\ \A f \in Fields \ todo[u] : struct[target[u]][f] # 0
      BY <3>1 DEF StructInv, Writers
    <3>3. infos'[mine[u]] = infos[mine[u]] /\ mine[u] \in 1..Len(infos')
      BY <1>1, <3>2
    <3> QED BY <1>1, <1>2, <2>2, <3>2, <3>3
  <2> QED BY <2>1, <2>2
<1>4. Pending'
  <2> SUFFICES ASSUME NEW n \in Methods, NEW f \in Fields, NEW g \in Fields,
                      struct[n][f] # 0, struct[n][g] = 0
               PROVE  \E u \in Threads : pc'[u] = "write" /\ target'[u] = n /\ g \in todo'[u]
    BY <1>1 DEF Pending
  <2>1. PICK u \in Threads : pc[u] = "write" /\ target[u] = n /\ g \in todo[u]
    BY DEF StructInv, Pending
  <2> QED BY <1>1, <1>2, <2>1
<1>5. ASSUME NEW n \in Methods, n \notin raced' PROVE AloneOn(n)'
  <2>1. AloneOn(n)
    BY <1>1, <1>5 DEF StructInv, Alone
  <2>2. Hooking(n)' = Hooking(n)
    BY <1>1, <1>2 DEF Hooking
  <2>3. CASE n # m
    <3>1. InfosOf(n)' = InfosOf(n)
      BY <1>1, <2>3 DEF InfosOf
    <3>2. \A u \in Hooking(n) : u # t
      BY <2>3 DEF Hooking
    <3>3. \A i \in InfosOf(n) : infos'[i] = infos[i]
      BY <1>1 DEF InfosOf
    <3>4. \A u \in Hooking(n) : pc'[u] = pc[u]
      BY <1>2, <3>2 DEF Hooking
    <3>5. \A i \in InfosOf(n)' : \A f \in Fields : infos'[i].copy[f] = 0
      BY <2>1, <3>1, <3>3 DEF AloneOn
    <3>6. \A u \in Hooking(n)' : pc'[u] = "save" => InfosOf(n)' = {}
      BY <2>1, <2>2, <3>1, <3>4 DEF AloneOn
    <3> QED BY <1>1, <2>1, <2>2, <3>1, <3>5, <3>6 DEF AloneOn
  <2>4. CASE n = m
    <3>1. t \in Hooking(m)
      BY <1>2 DEF Hooking
    <3>2. InfosOf(m) = {}
      BY <1>2, <2>1, <2>4, <3>1 DEF AloneOn
    <3>3. InfosOf(m)' = {new}
      <4>1. \A i \in 1..Len(infos) : infos[i].method # m
        BY <3>2 DEF InfosOf
      <4>2. ASSUME NEW i \in 1..new PROVE infos'[i].method = m <=> i = new
        <5>1. CASE i = new
          BY <1>1, <5>1
        <5>2. CASE i # new
          <6>1. i \in 1..Len(infos)
            BY <1>1, <5>2
          <6> QED BY <1>1, <4>1, <5>2, <6>1
        <5> QED BY <5>1, <5>2
      <4>3. new \in 1..new
        BY <1>1
      <4> QED BY <1>1, <4>2, <4>3 DEF InfosOf
    <3>4. \A f \in Fields : struct[m][f] = 0
      BY <2>1, <2>4, <3>2 DEF AloneOn
    <3>5. \A u \in Hooking(m) : u = t
      BY <2>1, <2>4, <3>1 DEF AloneOn
    <3> QED BY <1>1, <1>2, <2>2, <2>4, <3>1, <3>3, <3>4, <3>5 DEF AloneOn
  <2> QED BY <2>3, <2>4
<1> QED BY <1>3, <1>4, <1>5 DEF StructInv, Alone

LEMMA WriteFieldKeepsStructs ==
  ASSUME Typed, StructInv, NEW t \in Threads, NEW f \in Fields, WriteField(t, f)
  PROVE  StructInv'
<1> USE DEF Typed, TypeOK
<1> DEFINE m == target[t]
<1>1. /\ m \in Methods
      /\ struct'[m][f] = mine[t]
      /\ \A g \in Fields \ {f} : struct'[m][g] = struct[m][g]
      /\ \A n \in Methods \ {m} : struct'[n] = struct[n]
      /\ pc[t] = "write" /\ pc' = pc /\ target' = target /\ mine' = mine
      /\ infos' = infos /\ raced' = raced
      /\ f \in todo[t] /\ todo'[t] = todo[t] \ {f}
      /\ \A u \in Threads \ {t} : todo'[u] = todo[u]
  BY DEF WriteField
<1>2. mine[t] \in 1..Len(infos) /\ infos[mine[t]].method = m
  BY <1>1 DEF StructInv, Writers
<1>3. mine[t] # 0 /\ mine[t] \in InfosOf(m)
  BY <1>2 DEF InfosOf
<1>4. \A n \in Methods, g \in Fields : struct[n][g] # 0 => struct'[n][g] # 0
  BY <1>1, <1>3
<1>5. Writers'
  BY <1>1, <1>3, <1>4 DEF StructInv, Writers
<1>6. Pending'
  <2> SUFFICES ASSUME NEW n \in Methods, NEW h \in Fields, NEW g \in Fields,
                      struct'[n][h] # 0, struct'[n][g] = 0
               PROVE  \E u \in Threads : pc'[u] = "write" /\ target'[u] = n /\ g \in todo'[u]
    BY DEF Pending
  <2>1. struct[n][g] = 0
    BY <1>4
  <2>2. CASE struct[n][h] # 0
    <3>1. PICK u \in Threads : pc[u] = "write" /\ target[u] = n /\ g \in todo[u]
      BY <2>1, <2>2 DEF StructInv, Pending
    <3>2. u = t => g # f
      BY <1>1, <1>3, <3>1
    <3> QED BY <1>1, <3>1, <3>2
  <2>3. CASE struct[n][h] = 0
    <3>1. n = m /\ h = f
      BY <1>1, <2>3
    <3>2. g # f
      BY <3>1
    <3>3. g \in todo[t]
      BY <1>1, <2>1, <3>1 DEF StructInv, Writers
    <3> QED BY <1>1, <3>1, <3>2, <3>3
  <2> QED BY <2>2, <2>3
<1>7. ASSUME NEW n \in Methods, n \notin raced' PROVE AloneOn(n)'
  <2>1. AloneOn(n)
    BY <1>1, <1>7 DEF StructInv, Alone
  <2>2. Hooking(n)' = Hooking(n) /\ InfosOf(n)' = InfosOf(n)
    BY <1>1 DEF Hooking, InfosOf
  <2>3. t \in Hooking(m)
    BY <1>1 DEF Hooking
  <2>4. \A g \in Fields : struct'[n][g] = 0 \/ struct'[n][g] \in InfosOf(n)
    <3>1. \A g \in Fields : struct[n][g] = 0 \/ struct[n][g] \in InfosOf(n)
      BY <2>1 DEF AloneOn
    <3>2. CASE n = m
      BY <1>1, <1>3, <3>1, <3>2
    <3>3. CASE n # m
      BY <1>1, <3>1, <3>3
    <3> QED BY <3>2, <3>3
  <2>5. Hooking(n) = {} => struct'[n] = struct[n]
    BY <1>1, <2>3
  <2> QED BY <1>1, <2>1, <2>2, <2>4, <2>5 DEF AloneOn
<1> QED BY <1>5, <1>6, <1>7 DEF StructInv, Alone

LEMMA ResetJitCacheKeepsStructs ==
  ASSUME Typed, StructInv, NEW t \in Threads, ResetJitCache(t)
  PROVE  StructInv'
<1> USE DEF Typed, TypeOK
<1> DEFINE m == target[t]
<1>1. /\ m \in Methods
      /\ struct' = struct /\ infos' = infos /\ raced' = raced /\ todo' = todo
      /\ pc[t] = "write" /\ pc'[t] = "idle" /\ todo[t] = {}
      /\ \A u \in Threads \ {t} : pc'[u] = pc[u] /\ mine'[u] = mine[u] /\ target'[u] = target[u]
  BY DEF ResetJitCache
<1>2. Writers'
  BY <1>1 DEF StructInv, Writers
<1>3. Pending'
  <2> SUFFICES ASSUME NEW n \in Methods, NEW f \in Fields, NEW g \in Fields,
                      struct[n][f] # 0, struct[n][g] = 0
               PROVE  \E u \in Threads : pc'[u] = "write" /\ target'[u] = n /\ g \in todo'[u]
    BY <1>1 DEF Pending
  <2>1. PICK u \in Threads : pc[u] = "write" /\ target[u] = n /\ g \in todo[u]
    BY DEF StructInv, Pending
  <2> QED BY <1>1, <2>1
<1>4. ASSUME NEW n \in Methods, n \notin raced' PROVE AloneOn(n)'
  <2>1. AloneOn(n)
    BY <1>1, <1>4 DEF StructInv, Alone
  <2>2. Hooking(n)' = Hooking(n) \ {t} /\ InfosOf(n)' = InfosOf(n)
    BY <1>1 DEF Hooking, InfosOf
  <2>3. n = m => \A f \in Fields : struct[n][f] # 0
    BY <1>1 DEF StructInv, Writers
  <2>4. n # m => Hooking(n)' = Hooking(n)
    BY <1>1, <2>2 DEF Hooking
  <2>5. \A u \in Hooking(n)' : pc'[u] = pc[u] /\ u \in Hooking(n)
    BY <1>1, <2>2 DEF Hooking
  <2>6. Hooking(n)' = {} /\ InfosOf(n)' # {} => \A f \in Fields : struct'[n][f] # 0
    BY <1>1, <2>1, <2>2, <2>3, <2>4 DEF AloneOn
  <2>7. \A u \in Hooking(n)' : pc'[u] = "save" => InfosOf(n)' = {}
    BY <2>1, <2>2, <2>5 DEF AloneOn
  <2>8. \A u, v \in Hooking(n)' : u = v
    BY <2>1, <2>5 DEF AloneOn
  <2>9. InfosOf(n)' = InfosOf(n) /\ struct' = struct /\ infos' = infos
    BY <1>1, <2>2
  <2> QED BY <2>1, <2>6, <2>7, <2>8, <2>9 DEF AloneOn
<1> QED BY <1>2, <1>3, <1>4 DEF StructInv, Alone

LEMMA StructInvariant == Spec => []StructInv
<1>1. ASSUME Init PROVE StructInv
  <2>1. Len(infos) = 0 /\ \A t \in Threads : pc[t] = "idle"
    BY <1>1 DEF Init
  <2>2. \A m \in Methods, f \in Fields : struct[m][f] = 0
    BY <1>1 DEF Init
  <2> QED BY <2>1, <2>2 DEF StructInv, Writers, Pending, Alone, AloneOn, InfosOf, Hooking
<1>2. ASSUME Typed, StructInv, [Next]_vars PROVE StructInv'
  <2>1. ASSUME NEW t \in Threads, HookStep(t) PROVE StructInv'
    BY <1>2, <2>1, StartHookKeepsStructs, SaveCopyKeepsStructs, WriteFieldKeepsStructs,
       ResetJitCacheKeepsStructs DEF HookStep
  <2>2. ASSUME NEW t \in Threads, CallStep(t) PROVE StructInv'
    BY <1>2, <2>2, CallsLeaveHooks, SameHooksKeepStructs
  <2>3. ASSUME NEW m \in Methods, Translate(m) PROVE StructInv'
    <3>1. SameHooks
      BY <2>3 DEF Translate, SameHooks
    <3> QED BY <1>2, <3>1, SameHooksKeepStructs
  <2>4. CASE EmptyCache
    <3>1. SameHooks
      BY <2>4 DEF EmptyCache, SameHooks
    <3> QED BY <1>2, <3>1, SameHooksKeepStructs
  <2>5. CASE UNCHANGED vars
    <3>1. SameHooks
      BY <2>5 DEF vars, hookVars, SameHooks
    <3> QED BY <1>2, <3>1, SameHooksKeepStructs
  <2> QED BY <1>2, <2>1, <2>2, <2>3, <2>4, <2>5 DEF Next
<1> QED BY <1>1, <1>2, TypedInvariant, PTL DEF Spec

----------------------------------------------------------------------------
(* Calls *)

LEMMA LengthOfOne ==
  ASSUME NEW x PROVE Len(Append(<<>>, x)) = 1
OBVIOUS

\* One history per thread.
PerThread == handled = [t \in Threads |-> handled[t]]

LEMMA PerThreadInvariant == Spec => []PerThread
<1>1. Init => PerThread
  BY DEF Init, PerThread
<1>2. PerThread /\ [Next]_vars => PerThread'
  <2> SUFFICES ASSUME PerThread, [Next]_vars PROVE PerThread'
    OBVIOUS
  <2> USE DEF PerThread
  <2>1. ASSUME NEW t \in Threads, HookStep(t) PROVE PerThread'
    BY <2>1 DEF HookStep, StartHook, SaveCopy, WriteField, ResetJitCache, callVars
  <2>2. ASSUME NEW t \in Threads, CallStep(t) PROVE PerThread'
    BY <2>2 DEF CallStep, StartCall, InvokeOriginal, Run, RunTranslation, Callback,
                CallOriginal, HandlerReturns, Return, callVars
  <2>3. CASE UNCHANGED handled
    BY <2>3
  <2> QED BY <2>1, <2>2, <2>3 DEF Next, Translate, EmptyCache, callVars, vars
<1> QED BY <1>1, <1>2, PTL DEF Spec

\* The handler has seen the call once, or never if the method was not hooked.
SeenOnce(t) == IF before[t] THEN Len(handled[t]) = 1 ELSE handled[t] = <<>>

\* A call of a method that nobody has hooked twice at once, or hooks during the call.
WholeSoFar(t) ==
  /\ pc[t] # "crashed"
  /\ Calling(t) => Hooking(target[t]) = {}
  /\ pc[t] = "call" /\ at[t] = 0 =>
       handled[t] = <<>> /\ (before[t] <=> isMethodHooked(struct[target[t]]))
  /\ pc[t] = "call" /\ at[t] # 0 => at[t] \in InfosOf(target[t]) /\ SeenOnce(t)
  /\ pc[t] = "handler" => before[t] /\ at[t] \in InfosOf(target[t]) /\ SeenOnce(t)
  /\ pc[t] = "done" => SeenOnce(t)
  /\ pc[t] = "translated" => handled[t] = <<>>

CallInvOf(t) ==
  /\ pc[t] \in {"idle", "save", "write"} => handled[t] = <<>> /\ ~before[t]
  /\ quiet[t] /\ target[t] \notin raced => WholeSoFar(t)

CallInv == \A t \in Threads : CallInvOf(t)

\* Every step but t's own leaves a call of t as it is, or it is not quiet any more.
Untouched(t) ==
  /\ pc'[t] = pc[t] /\ target'[t] = target[t] /\ at'[t] = at[t]
  /\ handled'[t] = handled[t] /\ before'[t] = before[t]
  /\ quiet'[t] => quiet[t]
  /\ raced \subseteq raced'
  /\ \A m \in Methods : InfosOf(m) \subseteq InfosOf(m)'
  /\ quiet'[t] /\ Calling(t) /\ Hooking(target[t]) = {} =>
       Hooking(target[t])' = {} /\ struct'[target[t]] = struct[target[t]]

LEMMA UntouchedKeepsCall ==
  ASSUME Typed, NEW t \in Threads, CallInvOf(t), Untouched(t)
  PROVE  CallInvOf(t)'
<1>1. target[t] \in Methods
  BY DEF Typed, TypeOK
<1>2. pc'[t] \in {"idle", "save", "write"} => handled'[t] = <<>> /\ ~before'[t]
  BY DEF CallInvOf, Untouched
<1>3. ASSUME quiet'[t], target'[t] \notin raced' PROVE WholeSoFar(t)'
  <2>1. WholeSoFar(t)
    BY <1>3 DEF CallInvOf, Untouched
  <2>2. SeenOnce(t) => SeenOnce(t)'
    BY DEF SeenOnce, Untouched
  <2>3. Calling(t)' <=> Calling(t)
    BY DEF Calling, Untouched
  <2>4. Calling(t) => Hooking(target[t])' = {} /\ struct'[target[t]] = struct[target[t]]
    BY <1>3, <2>1 DEF WholeSoFar, Untouched
  <2>5. Calling(t)' => Hooking(target[t])' = {}
    BY <2>3, <2>4
  <2>6. at[t] \in InfosOf(target[t]) => at'[t] \in InfosOf(target[t])'
    BY <1>1 DEF Untouched
  <2>7. pc[t] = "call" => Calling(t)
    BY DEF Calling
  <2>10. /\ pc'[t] = pc[t] /\ target'[t] = target[t] /\ at'[t] = at[t]
         /\ handled'[t] = handled[t] /\ before'[t] = before[t]
    BY DEF Untouched
  <2>12. (pc[t] = "call" /\ at[t] = 0 =>
             handled[t] = <<>> /\ (before[t] <=> isMethodHooked(struct[target[t]])))'
    BY <2>1, <2>4, <2>7, <2>10 DEF WholeSoFar, isMethodHooked
  <2>13. (pc[t] = "call" /\ at[t] # 0 => at[t] \in InfosOf(target[t]) /\ SeenOnce(t))'
    BY <2>1, <2>2, <2>6, <2>10 DEF WholeSoFar
  <2>14. (pc[t] = "handler" => before[t] /\ at[t] \in InfosOf(target[t]) /\ SeenOnce(t))'
    BY <2>1, <2>2, <2>6, <2>10 DEF WholeSoFar
  <2>15. (pc[t] = "done" => SeenOnce(t))' /\ (pc[t] = "translated" => handled[t] = <<>>)'
    BY <2>1, <2>2, <2>10 DEF WholeSoFar
  <2>16. (pc[t] # "crashed")' /\ (Calling(t) => Hooking(target[t]) = {})'
    BY <2>1, <2>5, <2>10, Zenon DEF WholeSoFar
  <2> QED BY <2>12, <2>13, <2>14, <2>15, <2>16 DEF WholeSoFar
<1> QED BY <1>2, <1>3 DEF CallInvOf

LEMMA HookStepLeavesOthers ==
  ASSUME Typed, NEW u \in Threads, HookStep(u), NEW t \in Threads, t # u
  PROVE  Untouched(t)
<1> USE DEF Typed, TypeOK, callVars
<1>1. ASSUME NEW m \in Methods, StartHook(u, m) PROVE Untouched(t)
  <2>1. /\ pc'[t] = pc[t] /\ target'[t] = target[t] /\ at' = at /\ handled' = handled
        /\ before' = before /\ struct' = struct /\ infos' = infos
        /\ raced \subseteq raced'
    BY <1>1 DEF StartHook
  <2>2. quiet'[t] <=> quiet[t] /\ ~(Calling(t) /\ target[t] = m)
    BY <1>1 DEF StartHook
  <2>3. target[t] # m => Hooking(target[t])' = Hooking(target[t])
    BY <1>1, <2>1 DEF StartHook, Hooking
  <2>4. \A n \in Methods : InfosOf(n) = InfosOf(n)'
    BY <2>1 DEF InfosOf
  <2> QED BY <2>1, <2>2, <2>3, <2>4 DEF Untouched
<1>2. CASE SaveCopy(u)
  <2>1. /\ pc'[t] = pc[t] /\ target' = target /\ at' = at /\ handled' = handled
        /\ before' = before /\ quiet' = quiet /\ raced' = raced /\ struct' = struct
    BY <1>2 DEF SaveCopy
  <2>2. \A n \in Methods : Hooking(n)' = Hooking(n)
    BY <1>2 DEF SaveCopy, Hooking
  <2>3. \A n \in Methods : InfosOf(n) \subseteq InfosOf(n)'
    BY <1>2 DEF SaveCopy, InfosOf
  <2>4. Hooking(target[t])' = Hooking(target[t])
    BY <2>1, <2>2 DEF Hooking
  <2> QED BY <2>1, <2>3, <2>4 DEF Untouched
<1>3. ASSUME NEW f \in Fields, WriteField(u, f) PROVE Untouched(t)
  <2>1. /\ pc' = pc /\ target' = target /\ at' = at /\ handled' = handled /\ infos' = infos
        /\ before' = before /\ quiet' = quiet /\ raced' = raced
    BY <1>3 DEF WriteField
  <2>2. u \in Hooking(target[u])
    BY <1>3 DEF WriteField, Hooking
  <2>3. target[t] # target[u] => struct'[target[t]] = struct[target[t]]
    BY <1>3 DEF WriteField
  <2>4. Hooking(target[t])' = Hooking(target[t])
    BY <2>1 DEF Hooking
  <2>5. \A n \in Methods : InfosOf(n) = InfosOf(n)'
    BY <2>1 DEF InfosOf
  <2> QED BY <2>1, <2>2, <2>3, <2>4, <2>5 DEF Untouched
<1>4. CASE ResetJitCache(u)
  <2>1. /\ pc'[t] = pc[t] /\ target'[t] = target[t] /\ at' = at /\ handled' = handled
        /\ before' = before /\ quiet' = quiet /\ raced' = raced /\ struct' = struct
        /\ infos' = infos
    BY <1>4 DEF ResetJitCache
  <2>2. Hooking(target[t])' \subseteq Hooking(target[t])
    BY <1>4, <2>1 DEF ResetJitCache, Hooking
  <2>3. \A n \in Methods : InfosOf(n) = InfosOf(n)'
    BY <2>1 DEF InfosOf
  <2> QED BY <2>1, <2>2, <2>3 DEF Untouched
<1> QED BY <1>1, <1>2, <1>3, <1>4 DEF HookStep

LEMMA HookStepKeepsOwnCall ==
  ASSUME Typed, NEW t \in Threads, HookStep(t), CallInvOf(t)
  PROVE  CallInvOf(t)'
<1>1. /\ pc[t] \in {"idle", "save", "write"}
      /\ pc'[t] \in {"idle", "save", "write"}
      /\ handled' = handled /\ before' = before
  BY DEF HookStep, StartHook, SaveCopy, WriteField, ResetJitCache, callVars, Typed, TypeOK
<1>2. WholeSoFar(t)'
  BY <1>1 DEF WholeSoFar, Calling
<1> QED BY <1>1, <1>2 DEF CallInvOf

LEMMA CallStepLeavesOthers ==
  ASSUME Typed, PerThread, StructInv, NEW u \in Threads, CallStep(u), NEW t \in Threads, t # u
  PROVE  Untouched(t)
<1>1. /\ pc'[t] = pc[t] /\ target'[t] = target[t] /\ at'[t] = at[t]
      /\ handled'[t] = handled[t] /\ before'[t] = before[t] /\ quiet'[t] = quiet[t]
  <2> USE DEF Typed, TypeOK, PerThread, callVars
  <2> DEFINE Same == /\ pc'[t] = pc[t] /\ target'[t] = target[t] /\ at'[t] = at[t]
                     /\ handled'[t] = handled[t] /\ before'[t] = before[t]
                     /\ quiet'[t] = quiet[t]
  <2>1. ASSUME NEW m \in Methods, StartCall(u, m) PROVE Same
    <3>1. before'[t] = before[t] /\ quiet'[t] = quiet[t]
      BY <2>1, Zenon DEF StartCall
    <3> QED BY <2>1, <3>1 DEF StartCall
  <2>2. ASSUME NEW m \in Methods, InvokeOriginal(u, m) PROVE Same
    <3>1. before'[t] = before[t] /\ quiet'[t] = quiet[t]
      BY <2>2, Zenon DEF InvokeOriginal
    <3> QED BY <2>2, <3>1 DEF InvokeOriginal
  <2>3. CASE Callback(u)
    BY <2>3 DEF Callback
  <2>4. CASE Run(u) \/ RunTranslation(u) \/ CallOriginal(u) \/ HandlerReturns(u) \/ Return(u)
    BY <2>4 DEF Run, RunTranslation, CallOriginal, HandlerReturns, Return
  <2> QED BY <2>1, <2>2, <2>3, <2>4 DEF CallStep
<1>2. SameHooks
  BY CallsLeaveHooks
<1>3. \A n \in Methods : Hooking(n)' = Hooking(n)
  BY <1>2, SameHooksKeepStructs
<1>4. Hooking(target[t])' = Hooking(target[t])
  BY <1>1, <1>3 DEF Hooking, Typed, TypeOK
<1>5. struct' = struct /\ raced' = raced /\ infos' = infos
  BY <1>2 DEF SameHooks
<1> QED BY <1>1, <1>4, <1>5 DEF Untouched, InfosOf

\* What a quiet call finds in the structures.
LEMMA QuietStructs ==
  ASSUME Typed, StructInv, NEW m \in Methods, Hooking(m) = {}
  PROVE  /\ isMethodHooked(struct[m]) => \A f \in Fields : struct[m][f] # 0
         /\ ~isMethodHooked(struct[m]) => \A f \in Fields : struct[m][f] = 0
         /\ m \notin raced =>
              /\ \A i \in InfosOf(m) : \A f \in Fields : infos[i].copy[f] = 0
              /\ isMethodHooked(struct[m]) => struct[m]["insns"] \in InfosOf(m)
<1>1. \A f, g \in Fields : struct[m][f] = 0 <=> struct[m][g] = 0
  BY DEF StructInv, Pending, Hooking
<1>2. "nativeFunc" \in Fields /\ "insns" \in Fields
  BY DEF Fields
<1>3. m \notin raced => AloneOn(m)
  BY DEF StructInv, Alone
<1> QED BY <1>1, <1>2, <1>3 DEF AloneOn, isMethodHooked

LEMMA CallStepKeepsOwnCall ==
  ASSUME Typed, PerThread, StructInv, NEW t \in Threads, CallStep(t), CallInvOf(t)
  PROVE  CallInvOf(t)'
<1> USE DEF Typed, TypeOK, PerThread
<1> DEFINE m == target[t]
<1>1. SameHooks
  BY CallsLeaveHooks
<1>2. /\ struct' = struct /\ infos' = infos /\ raced' = raced
      /\ \A n \in Methods : Hooking(n)' = Hooking(n) /\ InfosOf(n)' = InfosOf(n)
  BY <1>1, SameHooksKeepStructs DEF SameHooks, InfosOf
<1>3. m \in Methods /\ target'[t] \in Methods
  <2>1. AnyMethod \in Methods
    BY HookAssumption DEF HookAssumption, AnyMethod
  <2> QED BY <2>1 DEF CallStep, StartCall, InvokeOriginal, Run, RunTranslation, Callback,
                      CallOriginal, HandlerReturns, Return
<1>4. ASSUME NEW n \in Methods, StartCall(t, n) PROVE CallInvOf(t)'
  <2>1. pc'[t] = "call" /\ target'[t] = n /\ at'[t] = 0 /\ handled'[t] = <<>>
    BY <1>4 DEF StartCall
  <2>3. quiet'[t] <=> Hooking(n) = {}
    BY <1>4, Zenon DEF StartCall
  <2>4. before'[t] <=> isMethodHooked(struct[n])
    BY <1>4, Zenon DEF StartCall
  <2>2. quiet'[t] => (Hooking(target[t]) = {})'
    BY <1>2, <2>1, <2>3 DEF Hooking
  <2> QED BY <1>2, <2>1, <2>2, <2>4 DEF CallInvOf, WholeSoFar, Calling, isMethodHooked
<1>5. ASSUME NEW n \in Methods, InvokeOriginal(t, n) PROVE CallInvOf(t)'
  <2> DEFINE i == IF isMethodHooked(struct[n]) THEN struct[n]["insns"] ELSE 0
  <2>1. /\ target'[t] = n /\ at'[t] = i /\ handled'[t] = <<>>
        /\ pc'[t] = IF isMethodHooked(struct[n]) /\ i = 0 THEN "crashed" ELSE "call"
    BY <1>5 DEF InvokeOriginal
  <2>4. quiet'[t] <=> Hooking(n) = {}
    BY <1>5, Zenon DEF InvokeOriginal
  <2>5. ~before'[t]
    BY <1>5, Zenon DEF InvokeOriginal
  <2>2. quiet'[t] => (Hooking(target[t]) = {})'
    BY <1>2, <2>1, <2>4 DEF Hooking
  <2>3. ASSUME quiet'[t], n \notin raced PROVE WholeSoFar(t)'
    <3>1. isMethodHooked(struct[n]) => i # 0 /\ i \in InfosOf(n)
      BY <2>3, <2>4, QuietStructs DEF Fields, InfosOf
    <3>2. pc'[t] = "call"
      BY <2>1, <3>1
    <3>3. i # 0 => (at[t] \in InfosOf(target[t]) /\ SeenOnce(t))'
      BY <2>1, <2>5, <3>1, <1>2 DEF SeenOnce, InfosOf
    <3> QED BY <1>2, <2>1, <2>2, <2>3, <2>5, <3>1, <3>2, <3>3 DEF WholeSoFar, isMethodHooked
  <2> QED BY <1>2, <2>1, <2>3 DEF CallInvOf
<1>6. ASSUME Calling(t), quiet[t], m \notin raced
      PROVE  /\ WholeSoFar(t)
             /\ Hooking(m) = {}
             /\ at[t] = 0 => (before[t] <=> isMethodHooked(Called(t)))
             /\ isMethodHooked(Called(t)) =>
                  /\ at[t] = 0 /\ Called(t)["insns"] \in InfosOf(m)
                  /\ \A f \in Fields : Called(t)[f] # 0
             /\ ~isMethodHooked(Called(t)) => \A f \in Fields : Called(t)[f] = 0
  <2>1. WholeSoFar(t) /\ Hooking(m) = {}
    BY <1>6 DEF CallInvOf, WholeSoFar
  <2>2. at[t] # 0 => at[t] \in InfosOf(m) /\ Called(t) = infos[at[t]].copy
    BY <1>6, <2>1 DEF WholeSoFar, Calling, Called
  <2>3. at[t] = 0 => Called(t) = struct[m] /\ pc[t] = "call"
    <3>1. InfosOf(m) \subseteq 1..Len(infos)
      BY DEF InfosOf
    <3>2. 0 \notin InfosOf(m)
      BY <3>1
    <3> QED BY <1>6, <2>1, <3>2 DEF Called, WholeSoFar, Calling
  <2>7. \A j \in InfosOf(m) : \A f \in Fields : infos[j].copy[f] = 0
    BY <1>3, <1>6, <2>1, QuietStructs
  <2>4. \A f \in Fields : at[t] # 0 => Called(t)[f] = 0
    BY <2>2, <2>7
  <2>5. at[t] # 0 => ~isMethodHooked(Called(t))
    BY <2>4 DEF isMethodHooked, Fields
  <2>6. at[t] = 0 => (before[t] <=> isMethodHooked(Called(t)))
    BY <2>1, <2>3 DEF WholeSoFar
  <2> QED BY <1>3, <1>6, <2>1, <2>3, <2>4, <2>5, <2>6, QuietStructs
<1>7. CASE Run(t)
  <2>1. /\ pc[t] = "call" /\ pc'[t] \in {"done", "crashed"}
        /\ target'[t] = m /\ handled' = handled /\ before' = before /\ quiet' = quiet
    BY <1>7 DEF Run, callVars
  <2>2. ASSUME quiet[t], m \notin raced PROVE WholeSoFar(t)'
    <3>1. Calling(t)
      BY <2>1 DEF Calling
    <3>2. ~isMethodHooked(Called(t))
      <4>1. ~((m \in Native \/ Called(t)["flag"] # 0) /\ isMethodHooked(Called(t)))
        BY <1>7 DEF Run
      <4> QED BY <1>6, <2>2, <3>1, <4>1 DEF Fields
    <3>3. \A f \in Fields : Called(t)[f] = 0
      BY <1>6, <2>2, <3>1, <3>2
    <3>4. pc'[t] = "done"
      BY <1>7, <3>3 DEF Run, Fields
    <3>5. SeenOnce(t)
      BY <1>6, <2>1, <2>2, <3>1, <3>2 DEF WholeSoFar, SeenOnce
    <3> QED BY <2>1, <3>4, <3>5 DEF WholeSoFar, Calling, SeenOnce
  <2> QED BY <1>2, <2>1, <2>2 DEF CallInvOf
<1>8. CASE RunTranslation(t)
  <2>1. /\ pc[t] = "call" /\ at[t] = 0 /\ pc'[t] = "translated"
        /\ target'[t] = m /\ handled' = handled /\ before' = before /\ quiet' = quiet
    BY <1>8 DEF RunTranslation, callVars
  <2> QED BY <1>2, <2>1 DEF CallInvOf, WholeSoFar, Calling
<1>9. CASE Callback(t)
  <2> DEFINE i == Called(t)["insns"]
  <2>1. /\ pc[t] = "call" /\ pc'[t] \in {"crashed", "handler"} /\ isMethodHooked(Called(t))
        /\ target'[t] = m /\ before' = before /\ quiet' = quiet
        /\ i # 0 => pc'[t] = "handler" /\ at'[t] = i
                    /\ handled'[t] = Append(handled[t], Box(m, frame[t]))
    BY <1>9 DEF Callback
  <2>2. ASSUME quiet[t], m \notin raced PROVE WholeSoFar(t)'
    <3>1. Calling(t)
      BY <2>1 DEF Calling
    <3>2. at[t] = 0 /\ i \in InfosOf(m) /\ before[t] /\ i # 0
      BY <1>6, <2>1, <2>2, <3>1 DEF Fields
    <3>3. handled[t] = <<>>
      BY <1>6, <2>1, <2>2, <3>1, <3>2 DEF WholeSoFar
    <3>4. Len(handled'[t]) = 1
      BY <2>1, <3>2, <3>3, LengthOfOne
    <3>5. (at[t] \in InfosOf(target[t]) /\ SeenOnce(t))'
      BY <2>1, <3>2, <3>4, <1>2 DEF SeenOnce, InfosOf
    <3>6. (Hooking(target[t]) = {})'
      BY <1>2, <1>3, <1>6, <2>1, <2>2, <3>1 DEF Hooking
    <3> QED BY <2>1, <3>2, <3>5, <3>6, Zenon DEF WholeSoFar
  <2> QED BY <1>2, <2>1, <2>2 DEF CallInvOf
<1>10. CASE CallOriginal(t)
  <2>1. /\ pc[t] = "handler" /\ pc'[t] = "call" /\ target' = target /\ at' = at
        /\ handled' = handled /\ before' = before /\ quiet' = quiet
    BY <1>10 DEF CallOriginal
  <2>2. ASSUME quiet[t], m \notin raced PROVE WholeSoFar(t)'
    <3>1. Calling(t)
      BY <2>1 DEF Calling
    <3>2. at[t] \in InfosOf(m) /\ SeenOnce(t) /\ Hooking(m) = {}
      BY <1>6, <2>1, <2>2, <3>1 DEF WholeSoFar
    <3>3. at[t] # 0
      BY <3>2 DEF InfosOf
    <3>4. (at[t] \in InfosOf(target[t]) /\ SeenOnce(t) /\ Hooking(target[t]) = {})'
      BY <1>2, <1>3, <2>1, <3>2 DEF InfosOf, SeenOnce, Hooking
    <3> QED BY <2>1, <3>3, <3>4 DEF WholeSoFar
  <2> QED BY <1>2, <2>1, <2>2 DEF CallInvOf
<1>11. CASE HandlerReturns(t)
  <2>1. /\ pc[t] = "handler" /\ pc'[t] = "done" /\ target' = target
        /\ handled' = handled /\ before' = before /\ quiet' = quiet
    BY <1>11 DEF HandlerReturns, callVars
  <2> QED BY <1>2, <2>1 DEF CallInvOf, WholeSoFar, Calling, SeenOnce
<1>12. CASE Return(t)
  <2>1. pc'[t] = "idle" /\ handled'[t] = <<>>
    BY <1>12 DEF Return
  <2>2. ~before'[t]
    BY <1>12, Zenon DEF Return
  <2> QED BY <2>1, <2>2 DEF CallInvOf, WholeSoFar, Calling
<1> QED BY <1>4, <1>5, <1>7, <1>8, <1>9, <1>10, <1>11, <1>12 DEF CallStep

LEMMA CallInvariant == Spec => []CallInv
<1>1. ASSUME Init PROVE CallInv
  <2>1. \A t \in Threads : pc[t] = "idle" /\ handled[t] = <<>> /\ ~before[t]
    BY <1>1 DEF Init
  <2> QED BY <2>1 DEF CallInv, CallInvOf, WholeSoFar, Calling
<1>2. ASSUME Typed, PerThread, StructInv, CallInv, [Next]_vars PROVE CallInv'
  <2> SUFFICES ASSUME NEW t \in Threads PROVE CallInvOf(t)'
    BY DEF CallInv
  <2>1. CallInvOf(t)
    BY <1>2 DEF CallInv
  <2>2. ASSUME NEW u \in Threads, HookStep(u) PROVE CallInvOf(t)'
    <3>1. CASE u = t
      BY <1>2, <2>1, <2>2, <3>1, HookStepKeepsOwnCall
    <3>2. CASE u # t
      BY <1>2, <2>1, <2>2, <3>2, HookStepLeavesOthers, UntouchedKeepsCall
    <3> QED BY <3>1, <3>2
  <2>3. ASSUME NEW u \in Threads, CallStep(u) PROVE CallInvOf(t)'
    <3>1. CASE u = t
      BY <1>2, <2>1, <2>3, <3>1, CallStepKeepsOwnCall
    <3>2. CASE u # t
      BY <1>2, <2>1, <2>3, <3>2, CallStepLeavesOthers, UntouchedKeepsCall
    <3> QED BY <3>1, <3>2
  <2>4. CASE UNCHANGED <<struct, infos, raced, pc, target, callVars>>
    <3>1. Untouched(t)
      <4>1. Hooking(target[t])' = Hooking(target[t])
        BY <2>4 DEF Hooking
      <4> QED BY <2>4, <4>1 DEF Untouched, InfosOf, callVars
    <3> QED BY <1>2, <2>1, <3>1, UntouchedKeepsCall
  <2>5. CASE UNCHANGED vars
    BY <2>4, <2>5 DEF vars, hookVars
  <2>6. ASSUME NEW m \in Methods, Translate(m) PROVE CallInvOf(t)'
    BY <2>4, <2>6 DEF Translate
  <2>7. CASE EmptyCache
    BY <2>4, <2>7 DEF EmptyCache
  <2> QED BY <1>2, <2>2, <2>3, <2>5, <2>6, <2>7 DEF Next
<1> QED BY <1>1, <1>2, TypedInvariant, PerThreadInvariant, StructInvariant, PTL DEF Spec

----------------------------------------------------------------------------
(* The theorems about hooks *)

(* Every variable of the hooks has its type, however many methods are hooked and called. *)
THEOREM HookTypeCorrect == Spec => []TypeOK
<1>1. Typed => TypeOK
  BY DEF Typed
<1> QED BY <1>1, TypedInvariant, PTL

(* However hooks overlap, the original a handler is given is an older one.               *)
THEOREM OriginalsStayOlder == Spec => []OriginalsAreOlder
<1>1. Typed => OriginalsAreOlder
  BY DEF Typed
<1> QED BY <1>1, TypedInvariant, PTL

(* A call is whole unless a hook of its method overlaps it or two hooks of the method     *)
(* did, although hookMethodNative() writes the structure without a lock: once no one      *)
(* is hooking, all of its fields are the hook's or none is.                               *)
THEOREM QuietCallsAreWhole == Spec => []CallsAreWhole
<1>1. Typed /\ CallInv => CallsAreWhole
  <2> SUFFICES ASSUME Typed, CallInv, NEW t \in Threads, quiet[t], target[t] \notin raced
               PROVE  /\ pc[t] # "crashed"
                      /\ ~before[t] => handled[t] = <<>>
                      /\ Len(handled[t]) <= 1
                      /\ pc[t] = "done" /\ before[t] => Len(handled[t]) = 1
    BY DEF CallsAreWhole
  <2>1. CallInvOf(t) /\ WholeSoFar(t)
    BY DEF CallInv, CallInvOf
  <2>2. Len(<<>>) = 0
    OBVIOUS
  <2>3. pc[t] \in {"idle", "save", "write", "call", "handler", "done", "translated"}
    BY <2>1 DEF WholeSoFar, Typed, TypeOK
  <2>4. SeenOnce(t) \/ handled[t] = <<>>
    BY <2>1, <2>3 DEF CallInvOf, WholeSoFar
  <2>8. Len(handled[t]) \in {0, 1}
    BY <2>2, <2>4 DEF SeenOnce
  <2>9. \A n \in {0, 1} : n <= 1
    OBVIOUS
  <2>5. Len(handled[t]) <= 1
    BY <2>8, <2>9, Zenon
  <2>6. ~before[t] => handled[t] = <<>>
    BY <2>4 DEF SeenOnce
  <2>7. pc[t] = "done" /\ before[t] => Len(handled[t]) = 1
    BY <2>1 DEF WholeSoFar, SeenOnce
  <2> QED BY <2>1, <2>5, <2>6, <2>7 DEF WholeSoFar
<1> QED BY <1>1, TypedInvariant, CallInvariant, PTL

(* Old code leaves the JIT's cache: what was translated before a hook is dropped by the  *)
(* reset that the hook asks for last, and nothing is translated of a hooked method.      *)
THEOREM StaleTranslationsAreDue == Spec => []NoStaleTranslation
<1>1. Init => NoStaleTranslation
  BY DEF Init, NoStaleTranslation
<1>2. ASSUME Typed, StructInv, NoStaleTranslation, [Next]_vars PROVE NoStaleTranslation'
  <2> USE DEF Typed, TypeOK
  <2> SUFFICES ASSUME NEW m \in translated', JitOffsetOk, isMethodHooked(struct'[m]),
                      Hooking(m)' = {}
               PROVE  cacheFull'
    BY DEF NoStaleTranslation, isMethodHooked
  <2>1. ASSUME UNCHANGED <<struct, translated, cacheFull>>, Hooking(m) \subseteq Hooking(m)'
        PROVE  cacheFull'
    BY <1>2, <2>1 DEF NoStaleTranslation, isMethodHooked
  <2>2. ASSUME NEW n \in Methods, Translate(n) PROVE cacheFull'
    <3>1. /\ struct' = struct /\ cacheFull' = cacheFull /\ translated' = translated \cup {n}
          /\ struct[n]["flag"] = 0 /\ Hooking(m)' = Hooking(m) /\ m \in Methods
      BY <1>2, <2>2 DEF Translate, Hooking
    <3>2. m # n
      BY <1>2, <3>1, QuietStructs DEF isMethodHooked, Fields
    <3> QED BY <1>2, <3>1, <3>2 DEF NoStaleTranslation, isMethodHooked
  <2>3. CASE EmptyCache
    BY <2>3 DEF EmptyCache
  <2>4. ASSUME NEW t \in Threads, CallStep(t) PROVE cacheFull'
    <3>1. SameHooks /\ UNCHANGED <<translated, cacheFull>>
      BY <1>2, <2>4, CallsLeaveHooks
    <3>2. m \in Methods /\ Hooking(m)' = Hooking(m) /\ struct' = struct
      BY <1>2, <3>1, SameHooksKeepStructs DEF SameHooks
    <3> QED BY <2>1, <3>1, <3>2
  <2>5. ASSUME NEW t \in Threads, HookStep(t) PROVE cacheFull'
    <3>1. CASE ResetJitCache(t)
      BY <3>1, Zenon DEF ResetJitCache
    <3>2. ASSUME NEW n \in Methods, StartHook(t, n) PROVE cacheFull'
      <4>1. /\ UNCHANGED <<struct, translated, cacheFull>> /\ m \in Methods
            /\ Hooking(m) \subseteq Hooking(m)'
        BY <1>2, <3>2 DEF StartHook, Hooking
      <4> QED BY <2>1, <4>1
    <3>3. CASE SaveCopy(t)
      <4>1. UNCHANGED <<struct, translated, cacheFull>> /\ m \in Methods /\ Hooking(m)' = Hooking(m)
        BY <1>2, <3>3 DEF SaveCopy, Hooking
      <4> QED BY <2>1, <4>1
    <3>4. ASSUME NEW f \in Fields, WriteField(t, f) PROVE cacheFull'
      <4>1. /\ UNCHANGED <<translated, cacheFull>> /\ m \in Methods /\ Hooking(m)' = Hooking(m)
            /\ t \in Hooking(target[t])
            /\ m # target[t] => struct'[m] = struct[m]
        BY <1>2, <3>4 DEF WriteField, Hooking
      <4>2. m # target[t]
        BY <4>1
      <4> QED BY <1>2, <4>1, <4>2 DEF NoStaleTranslation, isMethodHooked
    <3> QED BY <2>5, <3>1, <3>2, <3>3, <3>4 DEF HookStep
  <2>6. CASE UNCHANGED vars
    <3>1. UNCHANGED <<struct, translated, cacheFull>> /\ m \in Methods /\ Hooking(m)' = Hooking(m)
      BY <1>2, <2>6 DEF vars, hookVars, Hooking
    <3> QED BY <2>1, <3>1
  <2> QED BY <1>2, <2>2, <2>3, <2>4, <2>5, <2>6 DEF Next
<1> QED BY <1>1, <1>2, TypedInvariant, StructInvariant, PTL DEF Spec

----------------------------------------------------------------------------
(* Arguments and registers *)

Registers == Nat \X Nat
Arity(m) == Len(Args(m))

LEMMA ArgumentTypes ==
  ASSUME NEW m \in Methods
  PROVE  /\ Arity(m) \in Nat
         /\ \A i \in 1..Arity(m) :
              /\ Width(Args(m)[i]) \in {1, 2}
              /\ Words(m, i) \in Seq(Registers) /\ Len(Words(m, i)) = Width(Args(m)[i])
              /\ \A w \in 1..Width(Args(m)[i]) : Words(m, i)[w] = <<i, w>>
<1>1. Args(m) \in Seq({"I", "J", "L"})
  BY HookAssumption DEF HookAssumption
<1>2. Arity(m) \in Nat
  BY <1>1 DEF Arity
<1>3. ASSUME NEW i \in 1..Arity(m)
      PROVE  /\ Width(Args(m)[i]) \in {1, 2}
             /\ Words(m, i) \in Seq(Registers) /\ Len(Words(m, i)) = Width(Args(m)[i])
             /\ \A w \in 1..Width(Args(m)[i]) : Words(m, i)[w] = <<i, w>>
  <2>1. Width(Args(m)[i]) \in {1, 2}
    BY DEF Width
  <2>2. \A w \in 1..Width(Args(m)[i]) : <<i, w>> \in Registers
    BY <1>2, <2>1 DEF Registers
  <2>3. Words(m, i) = [w \in 1..Width(Args(m)[i]) |-> <<i, w>>]
    BY DEF Words
  <2>4. Words(m, i) \in [1..Width(Args(m)[i]) -> Registers]
    BY <2>2, <2>3
  <2> HIDE DEF Registers
  <2> QED BY <2>1, <2>3, <2>4
<1> QED BY <1>2, <1>3

First(m) == IF m \in Static THEN <<>> ELSE <<This>>

(* Layout() appends the words of one argument after the other.                           *)
LEMMA LayoutByArgument ==
  ASSUME NEW m \in Methods
  PROVE  \E f \in [0..Arity(m) -> Seq(Registers)] :
           /\ f[0] = First(m)
           /\ \A i \in 1..Arity(m) : f[i] = f[i - 1] \o Words(m, i)
           /\ Layout(m) = f[Arity(m)]
<1> DEFINE n == Arity(m)
           Eq(f) == f = [i \in 0..Len(Args(m)) |->
                           IF i = 0 THEN IF m \in Static THEN <<>> ELSE <<This>>
                           ELSE f[i - 1] \o Words(m, i)]
           next == [i \in 1..n |-> [s \in Seq(Registers) |-> s \o Words(m, i)]]
<1>1. n \in Nat /\ \A i \in 1..n : Words(m, i) \in Seq(Registers)
  BY ArgumentTypes
<1>2. First(m) \in Seq(Registers)
  BY DEF First, This, Registers
<1>3. next \in [1..n -> [Seq(Registers) -> Seq(Registers)]]
  BY <1>1
<1>4. PICK f \in [0..n -> Seq(Registers)] :
        f[0] = First(m) /\ \A i \in 1..n : f[i] = next[i][f[i - 1]]
  <2> HIDE DEF next, n
  <2>1. n \in Nat
    BY <1>1
  <2> DEFINE S == Seq(Registers)
  <2>2. \A s0 \in S : \A nx \in [1..n -> [S -> S]] :
          \E f \in [0..n -> S] : f[0] = s0 /\ \A i \in 1..n : f[i] = nx[i][f[i - 1]]
    <3> HIDE DEF S
    <3> QED BY <2>1, Recursion
  <2> QED BY <1>2, <1>3, <2>2, Zenon
<1>5. \A i \in 1..n : f[i] = f[i - 1] \o Words(m, i)
  <2> SUFFICES ASSUME NEW i \in 1..n PROVE f[i] = f[i - 1] \o Words(m, i)
    OBVIOUS
  <2>1. i - 1 \in 0..n
    BY <1>1
  <2>2. f[i - 1] \in Seq(Registers)
    BY <1>4, <2>1
  <2>3. next[i] = [s \in Seq(Registers) |-> s \o Words(m, i)]
    OBVIOUS
  <2> HIDE DEF next
  <2> QED BY <1>4, <2>2, <2>3
<1>6. Eq(f)
  BY <1>1, <1>4, <1>5 DEF First, Arity
<1> DEFINE u == CHOOSE g : Eq(g)
<1>7. Eq(u)
  BY <1>6, Zenon
<1>8. Layout(m) = u[n]
  BY Zenon DEF Layout, Arity
<1> HIDE DEF u
<1>9. /\ u[0] = First(m) /\ DOMAIN u = 0..n /\ u = [i \in 0..n |-> u[i]]
      /\ \A i \in 1..n : u[i] = u[i - 1] \o Words(m, i)
  <2>1. u = [i \in 0..n |-> IF i = 0 THEN First(m) ELSE u[i - 1] \o Words(m, i)]
    BY <1>7, Zenon DEF First, Arity
  <2> HIDE DEF Eq, n
  <2>2. DOMAIN u = 0..n /\ u[0] = First(m) /\ u = [i \in 0..n |-> u[i]]
    BY <1>1, <2>1
  <2>3. ASSUME NEW i \in 1..n PROVE u[i] = u[i - 1] \o Words(m, i)
    <3>1. i \in 0..n /\ i # 0
      BY <1>1
    <3> QED BY <2>1, <3>1, Zenon
  <2> QED BY <2>2, <2>3
<1> HIDE DEF Eq
<1>10. u \in [0..n -> Seq(Registers)]
  <2> DEFINE S == {i \in 0..n : u[i] \in Seq(Registers)}
  <2>1. 0 \in S
    BY <1>1, <1>2, <1>9
  <2>2. ASSUME NEW i \in 0..n, i \in S, i # n PROVE i + 1 \in S
    <3>1. i + 1 \in 1..n /\ i + 1 \in 0..n /\ (i + 1) - 1 = i
      BY <1>1, <2>2
    <3>2. u[i + 1] = u[i] \o Words(m, i + 1)
      BY <1>9, <3>1
    <3>3. u[i] \in Seq(Registers) /\ Words(m, i + 1) \in Seq(Registers)
      BY <1>1, <2>2, <3>1
    <3>4. u[i + 1] \in Seq(Registers)
      BY <3>2, <3>3
    <3> QED BY <3>1, <3>4
  <2> HIDE DEF S
  <2>4. \A i \in 0..n : i \in S /\ i # n => i + 1 \in S
    BY <2>2
  <2>3. 0..n \subseteq S
    BY <1>1, <2>1, <2>4, InductionUpTo
  <2> QED BY <1>9, <2>3 DEF S
<1> QED BY <1>8, <1>9, <1>10

(* srcIndex goes on by the width of each argument.                                       *)
LEMMA BoxByArgument ==
  ASSUME NEW m \in Methods, NEW regs
  PROVE  \E c \in [1..Arity(m) + 1 -> Nat \ {0}] :
           /\ c[1] = IF m \in Static THEN 1 ELSE 2
           /\ \A i \in 1..Arity(m) : c[i + 1] = c[i] + Width(Args(m)[i])
           /\ Box(m, regs) = [i \in 1..Arity(m) |-> SubSeq(regs, c[i], c[i + 1] - 1)]
<1> DEFINE n == Arity(m)
           start == IF m \in Static THEN 1 ELSE 2
           Pos == Nat \ {0}
           Eq(f) == f = [i \in 1..Len(Args(m)) + 1 |->
                           IF i = 1 THEN IF m \in Static THEN 1 ELSE 2
                           ELSE f[i - 1] + Width(Args(m)[i - 1])]
           next == [i \in 1..n |-> [x \in Pos |-> x + Width(Args(m)[i])]]
<1>1. n \in Nat /\ \A i \in 1..n : Width(Args(m)[i]) \in {1, 2}
  BY ArgumentTypes
<1>2. start \in Pos
  OBVIOUS
<1>3. next \in [1..n -> [Pos -> Pos]]
  BY <1>1
<1> HIDE DEF start
<1>4. PICK f \in [0..n -> Pos] :
        f[0] = start /\ \A i \in 1..n : f[i] = next[i][f[i - 1]]
  <2> HIDE DEF next, n, Pos
  <2>1. n \in Nat
    BY <1>1
  <2>2. \A s0 \in Pos : \A nx \in [1..n -> [Pos -> Pos]] :
          \E f \in [0..n -> Pos] : f[0] = s0 /\ \A i \in 1..n : f[i] = nx[i][f[i - 1]]
    BY <2>1, Recursion
  <2> QED BY <1>2, <1>3, <2>2, Zenon
<1>5. \A i \in 1..n : f[i] = f[i - 1] + Width(Args(m)[i])
  <2> SUFFICES ASSUME NEW i \in 1..n PROVE f[i] = f[i - 1] + Width(Args(m)[i])
    OBVIOUS
  <2>1. i - 1 \in 0..n
    BY <1>1
  <2>2. f[i - 1] \in Pos
    BY <1>4, <2>1
  <2>3. next[i] = [x \in Pos |-> x + Width(Args(m)[i])]
    OBVIOUS
  <2> HIDE DEF next, Pos
  <2> QED BY <1>4, <2>2, <2>3
<1> DEFINE g == [i \in 1..n + 1 |-> f[i - 1]]
<1>6. Eq(g)
  <2>1. g[1] = start
    BY <1>1, <1>4
  <2>2. \A i \in 1..n + 1 : i # 1 => g[i] = g[i - 1] + Width(Args(m)[i - 1])
    BY <1>1, <1>5
  <2>3. DOMAIN g = 1..n + 1 /\ g = [i \in 1..n + 1 |-> g[i]]
    OBVIOUS
  <2> HIDE DEF g
  <2> QED BY <2>1, <2>2, <2>3 DEF start, Arity
<1> DEFINE u == CHOOSE h : Eq(h)
<1>7. Eq(u)
  BY <1>6, Zenon
<1>8. Box(m, regs) = [i \in 1..n |-> SubSeq(regs, u[i], u[i + 1] - 1)]
  BY Zenon DEF Box, Arity
<1> HIDE DEF u, g
<1>9. /\ u[1] = start /\ DOMAIN u = 1..n + 1 /\ u = [i \in 1..n + 1 |-> u[i]]
      /\ \A i \in 1..n : u[i + 1] = u[i] + Width(Args(m)[i])
  <2>1. u = [i \in 1..n + 1 |-> IF i = 1 THEN start ELSE u[i - 1] + Width(Args(m)[i - 1])]
    BY <1>7, Zenon DEF start, Arity
  <2> HIDE DEF Eq, n
  <2>2. DOMAIN u = 1..n + 1 /\ u[1] = start /\ u = [i \in 1..n + 1 |-> u[i]]
    BY <1>1, <2>1
  <2>3. ASSUME NEW i \in 1..n PROVE u[i + 1] = u[i] + Width(Args(m)[i])
    <3>1. i + 1 \in 1..n + 1 /\ i + 1 # 1 /\ (i + 1) - 1 = i
      BY <1>1
    <3>2. u[i + 1] = u[(i + 1) - 1] + Width(Args(m)[(i + 1) - 1])
      BY <2>1, <3>1, Zenon
    <3> QED BY <3>1, <3>2
  <2> QED BY <2>2, <2>3
<1> HIDE DEF Eq
<1>10. u \in [1..n + 1 -> Pos]
  <2> DEFINE S == {i \in 0..n : u[i + 1] \in Pos}
  <2>1. 0 \in S
    BY <1>1, <1>2, <1>9
  <2>2. \A i \in 0..n : i \in S /\ i # n => i + 1 \in S
    <3> SUFFICES ASSUME NEW i \in 0..n, i \in S, i # n PROVE i + 1 \in S
      OBVIOUS
    <3>1. i + 1 \in 1..n /\ i + 1 \in 0..n
      BY <1>1
    <3>2. u[(i + 1) + 1] = u[i + 1] + Width(Args(m)[i + 1])
      BY <1>9, <3>1
    <3> QED BY <1>1, <3>1, <3>2
  <2> HIDE DEF S
  <2>3. 0..n \subseteq S
    BY <1>1, <2>1, <2>2, InductionUpTo
  <2>4. \A i \in 1..n + 1 : u[i] \in Pos
    <3> SUFFICES ASSUME NEW i \in 1..n + 1 PROVE u[i] \in Pos
      OBVIOUS
    <3>1. i - 1 \in 0..n /\ (i - 1) + 1 = i
      BY <1>1
    <3> QED BY <2>3, <3>1 DEF S
  <2> QED BY <1>9, <2>4
<1> QED BY <1>8, <1>9, <1>10 DEF start

LEMMA Concatenation ==
  ASSUME NEW R, NEW s \in Seq(R), NEW t \in Seq(R)
  PROVE  /\ Len(s \o t) = Len(s) + Len(t)
         /\ \A j \in 1..Len(s) : (s \o t)[j] = s[j]
         /\ \A j \in 1..Len(t) : (s \o t)[Len(s) + j] = t[j]
OBVIOUS

(* The callback finds in the registers what the caller put there, whatever the types.    *)
LEMMA BoxTakesLayout ==
  ASSUME NEW m \in Methods
  PROVE  /\ Layout(m) \in Seq(Registers)
         /\ Box(m, Layout(m)) = [i \in 1..Len(Args(m)) |-> Words(m, i)]
<1> DEFINE n == Arity(m)
           a(i) == Width(Args(m)[i])
<1>1. PICK f \in [0..n -> Seq(Registers)] :
           /\ f[0] = First(m)
           /\ \A i \in 1..n : f[i] = f[i - 1] \o Words(m, i)
           /\ Layout(m) = f[n]
  BY LayoutByArgument
<1>2. PICK c \in [1..n + 1 -> Nat \ {0}] :
           /\ c[1] = IF m \in Static THEN 1 ELSE 2
           /\ \A i \in 1..n : c[i + 1] = c[i] + a(i)
           /\ Box(m, Layout(m)) = [i \in 1..n |-> SubSeq(Layout(m), c[i], c[i + 1] - 1)]
  BY BoxByArgument
<1>3. /\ n \in Nat
      /\ \A i \in 1..n : /\ a(i) \in {1, 2}
                         /\ Words(m, i) \in Seq(Registers) /\ Len(Words(m, i)) = a(i)
                         /\ \A w \in 1..a(i) : Words(m, i)[w] = <<i, w>>
  BY ArgumentTypes
<1> HIDE DEF a, n
<1> DEFINE Placed(k) ==
      /\ Len(f[k]) = c[k + 1] - 1
      /\ \A i \in 1..k : /\ c[i + 1] <= c[k + 1]
                         /\ \A w \in 1..a(i) : f[k][c[i] + w - 1] = <<i, w>>
           S == {k \in 0..n : Placed(k)}
<1>4. 0 \in S
  <2>1. Len(f[0]) = c[1] - 1
    BY <1>1, <1>2 DEF First
  <2> QED BY <1>3, <2>1
<1>5. ASSUME NEW k \in 0..n, k \in S, k # n PROVE k + 1 \in S
  <2>1. /\ k + 1 \in 1..n /\ f[k] \in Seq(Registers) /\ Len(f[k]) = c[k + 1] - 1
        /\ f[k + 1] = f[k] \o Words(m, k + 1)
        /\ c[k + 2] = c[k + 1] + a(k + 1) /\ c[k + 1] \in Nat \ {0} /\ c[k + 2] \in Nat \ {0}
        /\ a(k + 1) \in {1, 2} /\ Words(m, k + 1) \in Seq(Registers)
        /\ Len(Words(m, k + 1)) = a(k + 1)
    <3>1. k + 1 \in 1..n /\ (k + 1) - 1 = k /\ (k + 1) + 1 = k + 2 /\ k + 2 \in 1..n + 1
          /\ k + 1 \in 1..n + 1
      <4>1. k # n /\ n \in Nat
        BY <1>3, <1>5
      <4> HIDE DEF S, Placed
      <4> QED BY <4>1
    <3> QED BY <1>1, <1>2, <1>3, <1>5, <3>1
  <2>2. Len(f[k + 1]) = c[k + 2] - 1
    BY <2>1
  <2>3. /\ \A j \in 1..Len(f[k]) : f[k + 1][j] = f[k][j]
        /\ \A j \in 1..a(k + 1) : f[k + 1][Len(f[k]) + j] = Words(m, k + 1)[j]
    <3>1. f[k] \in Seq(Registers) /\ Words(m, k + 1) \in Seq(Registers)
      BY <2>1
    <3>2. /\ \A j \in 1..Len(f[k]) : (f[k] \o Words(m, k + 1))[j] = f[k][j]
          /\ \A j \in 1..Len(Words(m, k + 1)) :
               (f[k] \o Words(m, k + 1))[Len(f[k]) + j] = Words(m, k + 1)[j]
      <4> HIDE DEF S, Placed
      <4> QED BY <3>1, Concatenation
    <3>3. f[k + 1] = f[k] \o Words(m, k + 1) /\ Len(Words(m, k + 1)) = a(k + 1)
      BY <2>1
    <3> QED BY <3>2, <3>3, Zenon
  <2>4. ASSUME NEW i \in 1..k
        PROVE  c[i + 1] <= c[k + 2] /\ \A w \in 1..a(i) : f[k + 1][c[i] + w - 1] = <<i, w>>
    <3>4. c[i + 1] <= c[k + 1] /\ \A w \in 1..a(i) : f[k][c[i] + w - 1] = <<i, w>>
      BY <1>5
    <3>5. i \in 1..n /\ i \in 1..n + 1 /\ i + 1 \in 1..n + 1
      <4>1. n \in Nat /\ k \in 0..n
        BY <1>3
      <4> HIDE DEF S, Placed
      <4> QED BY <4>1
    <3>1. /\ c[i + 1] <= c[k + 1] /\ \A w \in 1..a(i) : f[k][c[i] + w - 1] = <<i, w>>
          /\ i \in 1..n /\ c[i] \in Nat \ {0} /\ c[i + 1] \in Nat \ {0} /\ c[i + 1] = c[i] + a(i)
          /\ a(i) \in {1, 2}
      <4> HIDE DEF S, Placed
      <4> QED BY <1>2, <1>3, <3>4, <3>5
    <3>2. c[k + 1] \in Nat /\ c[k + 2] \in Nat /\ c[k + 1] <= c[k + 2] /\ Len(f[k]) = c[k + 1] - 1
      BY <2>1
    <3> HIDE DEF S, Placed
    <3>3. \A w \in 1..a(i) : c[i] + w - 1 \in 1..Len(f[k])
      BY <3>1, <3>2
    <3>6. ASSUME NEW w \in 1..a(i) PROVE f[k + 1][c[i] + w - 1] = <<i, w>>
      BY <2>3, <3>1, <3>3, Zenon
    <3>7. c[i + 1] <= c[k + 2]
      BY <3>1, <3>2
    <3> QED BY <3>6, <3>7
  <2>5. ASSUME NEW w \in 1..a(k + 1) PROVE f[k + 1][c[k + 1] + w - 1] = <<k + 1, w>>
    <3>1. c[k + 1] + w - 1 = Len(f[k]) + w
      BY <2>1
    <3> QED BY <1>3, <2>1, <2>3, <3>1
  <2>6. Placed(k + 1)
    <3>1. (k + 1) + 1 = k + 2 /\ \A i \in 1..(k + 1) : i \in 1..k \/ i = k + 1
      BY <1>3
    <3>2. ASSUME NEW i \in 1..(k + 1)
          PROVE  /\ c[i + 1] <= c[(k + 1) + 1]
                 /\ \A w \in 1..a(i) : f[k + 1][c[i] + w - 1] = <<i, w>>
      <4>1. CASE i \in 1..k
        BY <2>4, <3>1, <4>1
      <4>2. CASE i = k + 1
        <5>1. c[i + 1] = c[k + 2] /\ c[k + 2] \in Nat /\ (k + 1) + 1 = k + 2
          BY <2>1, <3>1, <4>2
        <5>2. \A w \in 1..a(i) : f[k + 1][c[i] + w - 1] = <<i, w>>
          BY <2>5, <4>2
        <5> QED BY <5>1, <5>2
      <4> QED BY <3>1, <4>1, <4>2
    <3> HIDE DEF S
    <3> QED BY <2>2, <3>1, <3>2
  <2>7. k + 1 \in 0..n
    BY <2>1
  <2> HIDE DEF Placed
  <2> QED BY <2>6, <2>7
<1> HIDE DEF S
<1>6. n \in S
  <2>1. \A k \in 0..n : k \in S /\ k # n => k + 1 \in S
    BY <1>5
  <2>2. 0..n \subseteq S
    BY <1>3, <1>4, <2>1, InductionUpTo
  <2> QED BY <1>3, <2>2
<1>7. Placed(n)
  BY <1>6 DEF S
<1>8. ASSUME NEW i \in 1..n PROVE SubSeq(Layout(m), c[i], c[i + 1] - 1) = Words(m, i)
  <2>1. /\ c[i] \in Nat \ {0} /\ c[i + 1] \in Nat \ {0} /\ c[n + 1] \in Nat \ {0}
        /\ c[i + 1] = c[i] + a(i) /\ c[i + 1] <= c[n + 1] /\ a(i) \in {1, 2}
        /\ Layout(m) \in Seq(Registers) /\ Len(Layout(m)) = c[n + 1] - 1
        /\ \A w \in 1..a(i) : Layout(m)[c[i] + w - 1] = <<i, w>>
    <3>1. i \in 1..n + 1 /\ i + 1 \in 1..n + 1 /\ n + 1 \in 1..n + 1 /\ n \in 0..n
      BY <1>3
    <3>2. /\ c[i + 1] <= c[n + 1] /\ Len(Layout(m)) = c[n + 1] - 1
          /\ \A w \in 1..a(i) : Layout(m)[c[i] + w - 1] = <<i, w>>
      BY <1>1, <1>7
    <3>3. Layout(m) \in Seq(Registers)
      BY <1>1, <3>1
    <3> HIDE DEF Placed
    <3> QED BY <1>2, <1>3, <3>1, <3>2, <3>3
  <2> HIDE DEF Placed
  <2>4. \A s \in Seq(Registers), from \in Nat \ {0}, b \in {1, 2} :
          from + b - 1 <= Len(s) =>
            SubSeq(s, from, from + b - 1) = [w \in 1..b |-> s[from + w - 1]]
    <3> HIDE DEF n
    <3> QED BY SubSeqProperties
  <2>2. SubSeq(Layout(m), c[i], c[i + 1] - 1) = [w \in 1..a(i) |-> Layout(m)[c[i] + w - 1]]
    <3>1. c[i] + a(i) - 1 <= Len(Layout(m))
      BY <2>1
    <3>2. /\ c[i + 1] - 1 = c[i] + a(i) - 1 /\ c[i] \in Nat \ {0} /\ a(i) \in {1, 2}
          /\ Layout(m) \in Seq(Registers)
      BY <2>1
    <3>3. SubSeq(Layout(m), c[i], c[i] + a(i) - 1)
            = [w \in 1..a(i) |-> Layout(m)[c[i] + w - 1]]
      <4> HIDE DEF S
      <4> QED BY <2>4, <3>1, <3>2
    <3> QED BY <3>2, <3>3, Zenon
  <2>3. Words(m, i) = [w \in 1..a(i) |-> <<i, w>>]
    BY DEF Words, a
  <2> QED BY <2>1, <2>2, <2>3
<1>9. Layout(m) \in Seq(Registers)
  BY <1>1, <1>3
<1> QED BY <1>2, <1>8, <1>9 DEF Arity, n

\* One frame per thread.
FramePerThread == frame = [t \in Threads |-> frame[t]]

LEMMA FramePerThreadInvariant == Spec => []FramePerThread
<1>1. Init => FramePerThread
  BY DEF Init, FramePerThread
<1>2. FramePerThread /\ [Next]_vars => FramePerThread'
  <2> SUFFICES ASSUME FramePerThread, [Next]_vars PROVE FramePerThread'
    OBVIOUS
  <2> USE DEF FramePerThread
  <2>1. ASSUME NEW t \in Threads, HookStep(t) PROVE FramePerThread'
    BY <2>1 DEF HookStep, StartHook, SaveCopy, WriteField, ResetJitCache, callVars
  <2>2. ASSUME NEW t \in Threads, CallStep(t) PROVE FramePerThread'
    BY <2>2 DEF CallStep, StartCall, InvokeOriginal, Run, RunTranslation, Callback,
                CallOriginal, HandlerReturns, Return, callVars
  <2>3. CASE UNCHANGED frame
    BY <2>3
  <2> QED BY <2>1, <2>2, <2>3 DEF Next, Translate, EmptyCache, callVars, vars
<1> QED BY <1>1, <1>2, PTL DEF Spec

Given(m) == [i \in 1..Len(Args(m)) |-> Words(m, i)]

\* The frame of a call that will reach the handler holds just the arguments, as the
\* method has no registers of its own any more; and the handler has got no others.
ArgInvOf(t) ==
  quiet[t] /\ target[t] \notin raced =>
    /\ pc[t] = "call" /\ at[t] = 0 /\ isMethodHooked(struct[target[t]]) =>
         frame[t] = Layout(target[t])
    /\ \A k \in DOMAIN handled[t] : handled[t][k] = Given(target[t])

ArgInv == \A t \in Threads : ArgInvOf(t)

LEMMA UntouchedKeepsArguments ==
  ASSUME Typed, NEW t \in Threads, CallInvOf(t), ArgInvOf(t), Untouched(t), frame'[t] = frame[t]
  PROVE  ArgInvOf(t)'
<1> SUFFICES ASSUME quiet'[t], target'[t] \notin raced'
             PROVE  /\ pc'[t] = "call" /\ at'[t] = 0 /\ isMethodHooked(struct'[target'[t]]) =>
                         frame'[t] = Layout(target'[t])
                    /\ \A k \in DOMAIN handled'[t] : handled'[t][k] = Given(target'[t])
  BY DEF ArgInvOf
<1>1. /\ pc'[t] = pc[t] /\ target'[t] = target[t] /\ at'[t] = at[t]
      /\ handled'[t] = handled[t] /\ quiet[t] /\ target[t] \notin raced
  BY DEF Untouched
<1>2. WholeSoFar(t)
  BY <1>1 DEF CallInvOf
<1>3. pc[t] = "call" => struct'[target[t]] = struct[target[t]]
  BY <1>2 DEF WholeSoFar, Calling, Untouched
<1>4. /\ pc[t] = "call" /\ at[t] = 0 /\ isMethodHooked(struct[target[t]]) =>
           frame[t] = Layout(target[t])
      /\ \A k \in DOMAIN handled[t] : handled[t][k] = Given(target[t])
  BY <1>1 DEF ArgInvOf
<1>5. pc'[t] = "call" /\ at'[t] = 0 /\ isMethodHooked(struct'[target'[t]]) =>
        frame'[t] = Layout(target'[t])
  BY <1>1, <1>3, <1>4 DEF isMethodHooked
<1> QED BY <1>1, <1>4, <1>5

LEMMA OthersKeepFrame ==
  ASSUME FramePerThread, NEW u \in Threads, HookStep(u) \/ CallStep(u), NEW t \in Threads, t # u
  PROVE  frame'[t] = frame[t]
<1> USE DEF FramePerThread
<1>1. CASE HookStep(u)
  BY <1>1 DEF HookStep, StartHook, SaveCopy, WriteField, ResetJitCache, callVars
<1>2. CASE CallStep(u)
  BY <1>2 DEF CallStep, StartCall, InvokeOriginal, Run, RunTranslation, Callback,
              CallOriginal, HandlerReturns, Return, callVars
<1> QED BY <1>1, <1>2

LEMMA OwnStepKeepsArguments ==
  ASSUME Typed, PerThread, FramePerThread, StructInv, NEW t \in Threads, CallInvOf(t), ArgInvOf(t),
         HookStep(t) \/ CallStep(t)
  PROVE  ArgInvOf(t)'
<1> USE DEF Typed, TypeOK, PerThread, FramePerThread
<1> DEFINE m == target[t]
<1>0. DOMAIN <<>> = {}
  OBVIOUS
<1>1. CASE HookStep(t)
  <2>1. /\ pc[t] \in {"idle", "save", "write"} /\ pc'[t] \in {"idle", "save", "write"}
        /\ handled' = handled
    BY <1>1 DEF HookStep, StartHook, SaveCopy, WriteField, ResetJitCache, callVars
  <2>2. handled[t] = <<>>
    BY <2>1 DEF CallInvOf
  <2> QED BY <1>0, <2>1, <2>2 DEF ArgInvOf
<1> SUFFICES ASSUME CallStep(t) PROVE ArgInvOf(t)'
  BY <1>1
<1>2. SameHooks
  BY CallsLeaveHooks
<1>3. /\ struct' = struct /\ infos' = infos /\ raced' = raced
      /\ \A n \in Methods : Hooking(n)' = Hooking(n) /\ InfosOf(n)' = InfosOf(n)
  BY <1>2, SameHooksKeepStructs DEF SameHooks, InfosOf
<1>4. ASSUME NEW n \in Methods, StartCall(t, n) PROVE ArgInvOf(t)'
  <2>1. /\ target'[t] = n /\ handled'[t] = <<>> /\ frame'[t] = FrameOf(n, struct[n])
    BY <1>4 DEF StartCall
  <2>2. quiet'[t] => Hooking(n) = {}
    BY <1>4, Zenon DEF StartCall
  <2>3. ASSUME quiet'[t], isMethodHooked(struct[n]) PROVE frame'[t] = Layout(n)
    <3>1. struct[n]["frame"] # 0
      BY <2>2, <2>3, QuietStructs DEF Fields
    <3>2. frame'[t] = <<>> \o Layout(n)
      BY <2>1, <3>1 DEF FrameOf
    <3>3. Layout(n) \in Seq(Registers)
      BY BoxTakesLayout
    <3> QED BY <3>2, <3>3
  <2> QED BY <1>0, <1>3, <2>1, <2>3 DEF ArgInvOf
<1>5. ASSUME NEW n \in Methods, InvokeOriginal(t, n) PROVE ArgInvOf(t)'
  <2>1. /\ target'[t] = n /\ handled'[t] = <<>>
        /\ pc'[t] = "call" /\ at'[t] = 0 => ~isMethodHooked(struct[n])
    BY <1>5 DEF InvokeOriginal
  <2> QED BY <1>0, <1>3, <2>1 DEF ArgInvOf
<1>6. CASE Callback(t)
  <2>1. /\ pc[t] = "call" /\ target' = target /\ quiet' = quiet /\ isMethodHooked(Called(t))
        /\ pc'[t] \in {"crashed", "handler"}
        /\ handled'[t] \in {handled[t], Append(handled[t], Box(m, frame[t]))}
    BY <1>6 DEF Callback, callVars
  <2>2. ASSUME quiet[t], m \notin raced PROVE handled[t] = <<>> /\ frame[t] = Layout(m)
    <3>1. WholeSoFar(t) /\ m \in Methods
      BY <2>2 DEF CallInvOf
    <3>2. at[t] = 0
      <4> SUFFICES ASSUME at[t] # 0 PROVE FALSE
        OBVIOUS
      <4>1. at[t] \in InfosOf(m) /\ Hooking(m) = {}
        BY <2>1, <3>1 DEF WholeSoFar, Calling
      <4>2. infos[at[t]].copy["nativeFunc"] = 0
        BY <2>2, <3>1, <4>1, QuietStructs DEF Fields
      <4> QED BY <2>1, <4>2 DEF Called, isMethodHooked
    <3>3. isMethodHooked(struct[m])
      BY <2>1, <3>2 DEF Called
    <3> QED BY <2>1, <2>2, <3>1, <3>2, <3>3 DEF WholeSoFar, ArgInvOf
  <2>3. ASSUME quiet[t], m \notin raced, NEW k \in DOMAIN handled'[t]
        PROVE  handled'[t][k] = Given(m)
    <3>1. handled'[t] \in {<<>>, <<Box(m, Layout(m))>>}
      <4>1. \A x : Append(<<>>, x) = <<x>>
        OBVIOUS
      <4> QED BY <2>1, <2>2, <2>3, <4>1
    <3>2. Box(m, Layout(m)) = Given(m)
      BY BoxTakesLayout DEF Given
    <3> QED BY <2>3, <3>1, <3>2
  <2> QED BY <1>3, <2>1, <2>3 DEF ArgInvOf
<1>7. CASE CallOriginal(t)
  <2>1. /\ pc[t] = "handler" /\ target' = target /\ quiet' = quiet /\ at' = at
        /\ handled' = handled
    BY <1>7 DEF CallOriginal
  <2>2. quiet[t] /\ m \notin raced => at[t] # 0
    BY <2>1 DEF CallInvOf, WholeSoFar, InfosOf
  <2> QED BY <1>3, <2>1, <2>2 DEF ArgInvOf
<1>8. CASE Run(t) \/ RunTranslation(t) \/ HandlerReturns(t)
  <2>1. /\ pc'[t] # "call" /\ target' = target /\ quiet' = quiet /\ handled' = handled
    BY <1>8 DEF Run, RunTranslation, HandlerReturns, callVars
  <2> QED BY <1>3, <2>1 DEF ArgInvOf
<1>9. CASE Return(t)
  <2>1. pc'[t] = "idle" /\ handled'[t] = <<>>
    BY <1>9 DEF Return
  <2> QED BY <1>0, <2>1 DEF ArgInvOf
<1> QED BY <1>4, <1>5, <1>6, <1>7, <1>8, <1>9 DEF CallStep

LEMMA ArgInvariant == Spec => []ArgInv
<1>1. ASSUME Init PROVE ArgInv
  <2>1. \A t \in Threads : pc[t] = "idle" /\ handled[t] = <<>>
    BY <1>1 DEF Init
  <2> QED BY <2>1 DEF ArgInv, ArgInvOf
<1>2. ASSUME Typed, PerThread, FramePerThread, StructInv, CallInv, ArgInv, [Next]_vars
      PROVE  ArgInv'
  <2> SUFFICES ASSUME NEW t \in Threads PROVE ArgInvOf(t)'
    BY DEF ArgInv
  <2>1. CallInvOf(t) /\ ArgInvOf(t)
    BY <1>2 DEF CallInv, ArgInv
  <2>2. ASSUME NEW u \in Threads, HookStep(u) \/ CallStep(u) PROVE ArgInvOf(t)'
    <3>1. CASE u = t
      BY <1>2, <2>1, <2>2, <3>1, OwnStepKeepsArguments
    <3>2. CASE u # t
      <4>1. frame'[t] = frame[t]
        BY <1>2, <2>2, <3>2, OthersKeepFrame
      <4>2. Untouched(t)
        BY <1>2, <2>2, <3>2, HookStepLeavesOthers, CallStepLeavesOthers
      <4> QED BY <1>2, <2>1, <4>1, <4>2, UntouchedKeepsArguments
    <3> QED BY <3>1, <3>2
  <2>3. CASE UNCHANGED <<struct, infos, raced, pc, target, callVars>>
    <3>1. Untouched(t) /\ frame'[t] = frame[t]
      <4>1. Hooking(target[t])' = Hooking(target[t])
        BY <2>3 DEF Hooking
      <4> QED BY <2>3, <4>1 DEF Untouched, InfosOf, callVars
    <3> QED BY <1>2, <2>1, <3>1, UntouchedKeepsArguments
  <2>4. CASE UNCHANGED vars
    BY <2>3, <2>4 DEF vars, hookVars
  <2>5. ASSUME NEW m \in Methods, Translate(m) PROVE ArgInvOf(t)'
    BY <2>3, <2>5 DEF Translate
  <2>6. CASE EmptyCache
    BY <2>3, <2>6 DEF EmptyCache
  <2> QED BY <1>2, <2>2, <2>4, <2>5, <2>6 DEF Next
<1> QED BY <1>1, <1>2, TypedInvariant, PerThreadInvariant, FramePerThreadInvariant,
           StructInvariant, CallInvariant, PTL DEF Spec

(* Whatever types a method has, wide ones among them, and whatever registers of its own: *)
(* once it is hooked the handler gets what the caller passed.                             *)
THEOREM HandlersGetArguments == Spec => []ArgumentsArrive
<1>1. ArgInv => ArgumentsArrive
  BY DEF ArgInv, ArgInvOf, ArgumentsArrive, Given
<1> QED BY <1>1, ArgInvariant, PTL

----------------------------------------------------------------------------
(* Processes *)

(* In a process, methods are hooked and called as in DalvikHook: nothing that comes     *)
(* before touches a hook's state.                                                        *)
THEOREM ProcessImplementsHooks == ProcessSpec => Spec
<1>1. ProcessInit => Init
  BY DEF ProcessInit
<1>2. [ProcessNext]_<<vars, bootVars>> => [Next]_vars
  BY DEF ProcessNext, BeginHooking
<1> QED BY <1>1, <1>2, PTL DEF ProcessSpec, Spec

(* So the theorems about hooks hold in a process.                                        *)
THEOREM ProcessHooksAreWhole ==
  ProcessSpec =>
    [](OriginalsAreOlder /\ CallsAreWhole /\ ArgumentsArrive /\ NoStaleTranslation)
BY ProcessImplementsHooks, OriginalsStayOlder, QuietCallsAreWhole, HandlersGetArguments,
   StaleTranslationsAreDue, PTL

----------------------------------------------------------------------------

IsList(s) == Len(s) \in Nat /\ DOMAIN s = 1..Len(s)

LEMMA LookupsComplete ==
  ASSUME NEW steps, IsList(steps), NEW next, NEW failed, Lookups(steps, next, failed)
  PROVE  /\ refs \subseteq refs'
         /\ phase' \in {next, failed}
         /\ phase' # failed => RangeOf(steps) \subseteq refs'
<1>1. PICK n \in 0..Len(steps) :
        /\ refs' = refs \cup {steps[i] : i \in 1..n}
        /\ phase' = IF n = Len(steps) THEN next ELSE failed
  BY DEF Lookups
<1>2. phase' # failed => n = Len(steps)
  BY <1>1
<1>3. RangeOf(steps) = {steps[i] : i \in 1..Len(steps)}
  BY DEF RangeOf, IsList
<1> QED BY <1>1, <1>2, <1>3

LEMMA StepsAreLists ==
  /\ IsList(BridgeRefs) /\ IsList(ServiceRefs)
  /\ IsList(DalvikRefs) /\ IsList(ResourceRefs)
BY DEF IsList, BridgeRefs, ServiceRefs, DalvikRefs, ResourceRefs

Common == RangeOf(BridgeRefs) \cup RangeOf(ServiceRefs)
ForRuntime == runtime = "dalvik" => RangeOf(DalvikRefs) \subseteq refs

\* The phases in which Java code runs.
JavaPhases == {"java", "resources", "no resources", "rewritten", "hooking"}

\* How far the initialisation has come says what has been looked up.
BridgeInv ==
  /\ phase = "service" => RangeOf(BridgeRefs) \subseteq refs
  /\ phase = "runtime" => Common \subseteq refs
  /\ phase = "successful" => Common \subseteq refs /\ ForRuntime
  /\ successful => Common \subseteq refs /\ ForRuntime /\ phase \in JavaPhases
  /\ told = "no errors" => successful
  /\ phase \in {"resources", "rewritten"} => RangeOf(ResourceRefs) \subseteq refs
  /\ phase = "hooking" => successful /\ runtime = "dalvik"
  /\ infos # <<>> => phase = "hooking"
  /\ xml # None => phase = "rewritten"

LEMMA BridgeInvariant == ProcessSpec => []BridgeInv
<1> None \notin {"no errors", "errors", "link error"}
  BY BridgeAssumption DEF BridgeAssumption
<1> USE DEF startVars, bridgeVars, bootVars
<1>1. ASSUME ProcessInit PROVE BridgeInv
  BY <1>1 DEF ProcessInit, BootInit, Init, BridgeInv
<1>2. ASSUME BridgeInv, [ProcessNext]_<<vars, bootVars>> PROVE BridgeInv'
  <2> USE <1>2 DEF BridgeInv, ForRuntime
  <2>1. CASE BootNext /\ UNCHANGED vars
    <3>1. infos' = infos
      BY <2>1 DEF vars, hookVars
    <3>2. CASE Begin \/ ReadArguments \/ Start \/ LoadLibrary
      <4>1. /\ phase \in {"main", "read", "initialize", "load"}
            /\ phase' \in {"ended", "read", "initialize", "started", "bridge", "java"}
            /\ UNCHANGED bridgeVars
        BY <3>2 DEF Begin, ReadArguments, Start, LoadLibrary
      <4> QED BY <3>1, <4>1 DEF JavaPhases
    <3>3. CASE CreateVm
      BY <3>1, <3>3 DEF CreateVm, JavaPhases
    <3>4. CASE InitXposedBridge
      <4>1. /\ refs \subseteq refs' /\ phase' \in {"service", "java"}
            /\ phase' # "java" => RangeOf(BridgeRefs) \subseteq refs'
        BY <3>4, StepsAreLists, LookupsComplete DEF InitXposedBridge
      <4> QED BY <3>1, <3>4, <4>1 DEF InitXposedBridge, JavaPhases
    <3>5. CASE InitZygoteService
      <4>1. /\ refs \subseteq refs' /\ phase' \in {"runtime", "java"}
            /\ phase' # "java" => RangeOf(ServiceRefs) \subseteq refs'
        BY <3>5, StepsAreLists, LookupsComplete DEF InitZygoteService
      <4> QED BY <3>1, <3>5, <4>1 DEF InitZygoteService, JavaPhases, Common
    <3>6. CASE InitRuntime
      <4>1. /\ refs \subseteq refs' /\ phase' \in {"successful", "java"}
            /\ phase' # "java" /\ runtime = "dalvik" => RangeOf(DalvikRefs) \subseteq refs'
        BY <3>6, StepsAreLists, LookupsComplete DEF InitRuntime
      <4> QED BY <3>1, <3>6, <4>1 DEF InitRuntime, JavaPhases
    <3>7. CASE OnVmCreatedReturns
      BY <3>1, <3>7 DEF OnVmCreatedReturns, JavaPhases
    <3>8. CASE HadInitErrors
      BY <3>1, <3>8 DEF HadInitErrors, JavaPhases
    <3>9. CASE InitXResourcesNative
      <4>1. /\ refs \subseteq refs' /\ phase' \in {"resources", "no resources"}
            /\ phase' # "no resources" => RangeOf(ResourceRefs) \subseteq refs'
        BY <3>9, StepsAreLists, LookupsComplete DEF InitXResourcesNative
      <4> QED BY <3>1, <3>9, <4>1 DEF InitXResourcesNative, JavaPhases
    <3>10. CASE RewriteXml
      BY <3>1, <3>10 DEF RewriteXml, JavaPhases
    <3> QED BY <2>1, <3>2, <3>3, <3>4, <3>5, <3>6, <3>7, <3>8, <3>9, <3>10 DEF BootNext
  <2>2. CASE BeginHooking
    BY <2>2 DEF BeginHooking, JavaPhases, vars, hookVars
  <2>3. CASE phase = "hooking" /\ Next /\ UNCHANGED bootVars
    BY <2>3
  <2>4. CASE UNCHANGED <<vars, bootVars>>
    BY <2>4 DEF vars, hookVars
  <2> QED BY <2>1, <2>2, <2>3, <2>4 DEF ProcessNext
<1> QED BY <1>1, <1>2, PTL DEF ProcessSpec

(* Natives are registered before what they use is looked up, and each lookup may fail:   *)
(* still no native that Java is kept from by the answers it gets finds anything missing. *)
THEOREM NativesAlwaysFindTheirs == ProcessSpec => []NativesFindWhatTheyNeed
<1>1. BridgeInv => NativesFindWhatTheyNeed
  BY DEF BridgeInv, ForRuntime, Common, NativesFindWhatTheyNeed
<1> QED BY <1>1, BridgeInvariant, PTL

----------------------------------------------------------------------------
(* Rewriting a document, attribute by attribute *)

Translated(doc, by, k) ==
  IF IsReached(doc, by, k) /\ ~AttributeFails(doc, by, k) /\ RefersToApp(doc, k)
  THEN [doc.attrs[k] EXCEPT !.value = by[2][@]] ELSE doc.attrs[k]

\* rewriteXmlReferencesNative() on its way.
IsRewriting(s) == s = [ids |-> s.ids, attrs |-> s.attrs, left |-> s.left]

\* A document of which the first i attributes have been rewritten.
RewrittenUpTo(s, doc, by, i) ==
  /\ IsRewriting(s)
  /\ DOMAIN s.ids = DOMAIN doc.ids /\ DOMAIN s.attrs = DOMAIN doc.attrs
  /\ s.left \in BOOLEAN
  /\ s.left <=> \E j \in 1..i : AttributeFails(doc, by, j)
  /\ \A k \in DOMAIN doc.attrs :
       s.attrs[k] = IF k <= i THEN Translated(doc, by, k) ELSE doc.attrs[k]
  /\ \A n \in DOMAIN doc.ids :
       s.ids[n] = IF \E k \in 1..i : GivesName(doc, by, k, n) THEN by[1][n] ELSE doc.ids[n]

LEMMA DocumentTypes ==
  ASSUME NEW doc \in Documents
  PROVE  /\ Len(doc.attrs) \in Nat /\ DOMAIN doc.attrs = 1..Len(doc.attrs)
         /\ \A k \in 1..Len(doc.attrs) :
              /\ doc.attrs[k].value \in Ids /\ doc.attrs[k].name \in Nat
              /\ doc.attrs[k].isReference \in BOOLEAN
         /\ \A n \in DOMAIN doc.ids : doc.ids[n] \in Ids
<1> DEFINE Attribute == [name : Nat, isReference : BOOLEAN, value : Ids]
<1>1. doc.ids \in Seq(Ids) /\ doc.attrs \in Seq(Attribute)
  BY DocumentAssumption DEF DocumentAssumption
<1>2. \A a \in Attribute : a.value \in Ids /\ a.name \in Nat /\ a.isReference \in BOOLEAN
  OBVIOUS
<1> HIDE DEF Attribute
<1>3. \A k \in 1..Len(doc.attrs) : doc.attrs[k] \in Attribute
  BY <1>1
<1> QED BY <1>1, <1>2, <1>3

(* Ids are compared signed where they are references, which tells no difference below    *)
(* the sign bit.                                                                          *)
LEMMA SignedComparison ==
  ASSUME NEW v \in Ids, v < SignBit
  PROVE  IsAppReference(v) <=> v >= MinAppId
BY IdAssumption DEF IdAssumption, IsAppReference, Ids

(* What EXCEPT makes of such a record.                                                   *)
LEMMA LeftUpdate ==
  ASSUME NEW s, NEW v, IsRewriting(s)
  PROVE  [s EXCEPT !.left = v] = [ids |-> s.ids, attrs |-> s.attrs, left |-> v]
<1>1. \A i, t, l :
        [[ids |-> i, attrs |-> t, left |-> l] EXCEPT !.left = v]
          = [ids |-> i, attrs |-> t, left |-> v]
  OBVIOUS
<1> QED BY <1>1, Zenon DEF IsRewriting

(* One attribute more.                                                                    *)
LEMMA RewriteOne ==
  ASSUME NEW doc \in Documents, NEW by, NEW k \in 1..Len(doc.attrs), NEW s,
         HasPositiveReferences(doc), RewrittenUpTo(s, doc, by, k - 1)
  PROVE  RewrittenUpTo(RewriteAttribute(by, s, k), doc, by, k)
<1> DEFINE a == doc.attrs[k]
           x == a.name
           r == RewriteAttribute(by, s, k)
           renames == x \in DOMAIN doc.ids /\ IsAppName(s.ids[x])
           refers == a.isReference /\ IsAppReference(a.value)
           Renamed(n, i) == \E j \in 1..i : GivesName(doc, by, j, n)
<1>1. /\ k \in Nat \ {0} /\ k \in DOMAIN doc.attrs /\ DOMAIN doc.attrs = 1..Len(doc.attrs)
      /\ k - 1 \in Nat /\ ~(k <= k - 1)
      /\ \A i \in Nat : (i <= k <=> i <= k - 1 \/ i = k)
      /\ \A i \in Nat : (i \in 1..k <=> i \in 1..k - 1 \/ i = k)
  BY DocumentTypes
<1>2. /\ s.attrs[k] = a
      /\ refers <=> RefersToApp(doc, k)
  <2>1. s.attrs[k] = a
    BY <1>1 DEF RewrittenUpTo
  <2>2. a.value \in Ids /\ (a.isReference => a.value < SignBit)
    BY <1>1, DocumentTypes DEF HasPositiveReferences
  <2>3. refers <=> a.isReference /\ a.value >= MinAppId
    BY <2>2, SignedComparison
  <2> QED BY <2>1, <2>3 DEF RefersToApp
\* What the code does, case by case.
<1>3. /\ DOMAIN s.ids = DOMAIN doc.ids /\ DOMAIN s.attrs = DOMAIN doc.attrs
      /\ IsRewriting(s) /\ s.left \in BOOLEAN
  BY DEF RewrittenUpTo
<1> DEFINE ids == IF renames THEN [s.ids EXCEPT ![x] = by[1][x]] ELSE s.ids
           attrs == [s.attrs EXCEPT ![k] = [a EXCEPT !.value = by[2][a.value]]]
           Rec(i, t, l) == [ids |-> i, attrs |-> t, left |-> l]
<1>4. /\ s.left => r = s
      /\ ~s.left /\ renames /\ by[1][x] = Throws => r = Rec(s.ids, s.attrs, TRUE)
      /\ ~s.left /\ ~(renames /\ by[1][x] = Throws) =>
           r = IF ~refers THEN Rec(ids, s.attrs, FALSE)
               ELSE IF by[2][a.value] = Throws
                 THEN Rec(ids, s.attrs, TRUE)
                 ELSE Rec(ids, attrs, FALSE)
  <2> DEFINE named == IF renames THEN [s EXCEPT !.ids[x] = by[1][x]] ELSE s
  <2>1. r = CASE s.left -> s
              [] ~s.left /\ renames /\ by[1][x] = Throws -> [s EXCEPT !.left = TRUE]
              [] OTHER -> IF ~refers THEN named
                          ELSE IF by[2][a.value] = Throws THEN [named EXCEPT !.left = TRUE]
                          ELSE [named EXCEPT !.attrs[k].value = by[2][a.value]]
    BY <1>2, <1>3, Zenon DEF RewriteAttribute
  <2>2. [s EXCEPT !.left = TRUE] = Rec(s.ids, s.attrs, TRUE)
    BY <1>3, LeftUpdate, Zenon
  <2>3. named = Rec(ids, s.attrs, s.left)
    <3>1. CASE renames
      <4>1. [s EXCEPT !.ids[x] = by[1][x]] = Rec([s.ids EXCEPT ![x] = by[1][x]], s.attrs, s.left)
        <5> DEFINE v == by[1][x]
        <5>1. [s EXCEPT !.ids[x] = v] = Rec([s.ids EXCEPT ![x] = v], s.attrs, s.left)
          <6> HIDE DEF a, x, v, r, renames, refers, attrs, ids
          <6> QED BY <1>3 DEF IsRewriting
        <5> QED BY <5>1
      <4> QED BY <3>1, <4>1, Zenon
    <3>2. CASE ~renames
      BY <1>3, <3>2, Zenon DEF IsRewriting
    <3> QED BY <3>1, <3>2
  <2> HIDE DEF named, ids
  <2>4. /\ IsRewriting(named)
        /\ named.ids = ids /\ named.attrs = s.attrs /\ named.left = s.left
    BY <2>3 DEF IsRewriting
  <2>5. [named EXCEPT !.left = TRUE] = Rec(ids, s.attrs, TRUE)
    BY <2>4, LeftUpdate, Zenon
  <2>6. [named EXCEPT !.attrs[k].value = by[2][a.value]] = Rec(ids, attrs, s.left)
    <3> DEFINE v == by[2][a.value]
    <3>1. [named EXCEPT !.attrs[k].value = v]
            = [ids |-> named.ids,
               attrs |-> [named.attrs EXCEPT ![k] = [named.attrs[k] EXCEPT !.value = v]],
               left |-> named.left]
      <4> HIDE DEF a, v, r, renames, refers, attrs
      <4> QED BY <2>4 DEF IsRewriting
    <3> QED BY <1>2, <2>4, <3>1, Zenon
  <2> HIDE DEF r, renames, refers, attrs, Rec
  <2> QED BY <1>3, <2>1, <2>2, <2>3, <2>5, <2>6
\* What that comes to.
<1>5. /\ s.left <=> ~IsReached(doc, by, k)
      /\ \A j \in DOMAIN doc.attrs :
           s.attrs[j] = IF j <= k - 1 THEN Translated(doc, by, j) ELSE doc.attrs[j]
      /\ \A n \in DOMAIN doc.ids : s.ids[n] = IF Renamed(n, k - 1) THEN by[1][n] ELSE doc.ids[n]
  BY DEF RewrittenUpTo, IsReached
<1>6. \A n : Renamed(n, k) <=> Renamed(n, k - 1) \/ GivesName(doc, by, k, n)
  <2> HIDE DEF a, r, renames, refers
  <2> QED BY <1>1
<1>9. ASSUME NEW i, NEW t, NEW l \in BOOLEAN,
             DOMAIN i = DOMAIN doc.ids, DOMAIN t = DOMAIN doc.attrs,
             l <=> \E j \in 1..k : AttributeFails(doc, by, j),
             \A j \in DOMAIN doc.attrs :
               t[j] = IF j <= k THEN Translated(doc, by, j) ELSE doc.attrs[j],
             \A n \in DOMAIN doc.ids : i[n] = IF Renamed(n, k) THEN by[1][n] ELSE doc.ids[n]
      PROVE  RewrittenUpTo(Rec(i, t, l), doc, by, k)
  <2> DEFINE u == Rec(i, t, l)
  <2>1. u.ids = i /\ u.attrs = t /\ u.left = l /\ u = Rec(u.ids, u.attrs, u.left)
    OBVIOUS
  <2> HIDE DEF u
  <2> SUFFICES RewrittenUpTo(u, doc, by, k)
    BY DEF u
  <2> QED BY <1>9, <2>1, Zenon DEF RewrittenUpTo, IsRewriting
<1>7. CASE s.left
  <2>1. r = s /\ ~IsReached(doc, by, k)
    BY <1>4, <1>5, <1>7
  <2>2. Translated(doc, by, k) = a /\ \A n : ~GivesName(doc, by, k, n)
    BY <2>1 DEF Translated, GivesName
  <2>3. \E j \in 1..k : AttributeFails(doc, by, j)
    BY <1>1, <2>1 DEF IsReached
  <2>4. \A j \in DOMAIN doc.attrs :
          s.attrs[j] = IF j <= k THEN Translated(doc, by, j) ELSE doc.attrs[j]
    BY <1>1, <1>5, <2>2
  <2>5. \A n \in DOMAIN doc.ids : s.ids[n] = IF Renamed(n, k) THEN by[1][n] ELSE doc.ids[n]
    BY <1>5, <1>6, <2>2
  <2>6. RewrittenUpTo(s, doc, by, k)
    BY <1>3, <1>7, <2>3, <2>4, <2>5, Zenon DEF RewrittenUpTo
  <2> QED BY <2>1, <2>6
<1>8. CASE ~s.left
  <2>1. IsReached(doc, by, k)
    BY <1>5, <1>8
  <2>2. Renamed(x, k - 1) => MapsName(doc, k) /\ by[1][x] # Throws
    BY DEF GivesName, MapsName, NameFails
  <2>3. renames /\ by[1][x] = Throws <=> NameFails(doc, by, k)
    <3>1. CASE Renamed(x, k - 1)
      BY <2>2, <3>1 DEF NameFails
    <3>2. CASE ~Renamed(x, k - 1)
      BY <1>3, <1>5, <3>2 DEF NameFails, MapsName, IsAppName
    <3> QED BY <3>1, <3>2
  <2>4. CASE NameFails(doc, by, k)
    <3>1. r = Rec(s.ids, s.attrs, TRUE) /\ AttributeFails(doc, by, k)
      BY <1>4, <1>8, <2>3, <2>4 DEF AttributeFails
    <3>2. Translated(doc, by, k) = a /\ \A n : ~GivesName(doc, by, k, n)
      BY <2>4, <3>1 DEF Translated, GivesName
    <3>3. \A j \in DOMAIN doc.attrs :
            s.attrs[j] = IF j <= k THEN Translated(doc, by, j) ELSE doc.attrs[j]
      BY <1>1, <1>5, <3>2
    <3>4. \A n \in DOMAIN doc.ids : s.ids[n] = IF Renamed(n, k) THEN by[1][n] ELSE doc.ids[n]
      BY <1>5, <1>6, <3>2
    <3>5. \E j \in 1..k : AttributeFails(doc, by, j)
      BY <1>1, <3>1
    <3>6. RewrittenUpTo(Rec(s.ids, s.attrs, TRUE), doc, by, k)
      <4> HIDE DEF Rec, Renamed
      <4> QED BY <1>3, <1>9, <3>3, <3>4, <3>5
    <3> QED BY <3>1, <3>6
  <2>5. CASE ~NameFails(doc, by, k)
    <3> DEFINE fails == refers /\ by[2][a.value] = Throws
               new == IF refers /\ ~fails THEN attrs ELSE s.attrs
    <3>1. r = Rec(ids, new, fails)
      <4>1. ~s.left /\ ~(renames /\ by[1][x] = Throws)
        BY <1>8, <2>3, <2>5
      <4> HIDE DEF r, renames, refers, ids, attrs, a, x
      <4> QED BY <1>4, <4>1
    <3>2. fails <=> AttributeFails(doc, by, k)
      BY <1>2, <2>5 DEF AttributeFails
    <3>3. fails <=> \E j \in 1..k : AttributeFails(doc, by, j)
      <4> HIDE DEF fails, refers, a, x
      <4> QED BY <1>1, <2>1, <3>2 DEF IsReached
    <3>4. /\ DOMAIN new = DOMAIN doc.attrs
          /\ \A j \in DOMAIN doc.attrs :
               new[j] = IF j <= k THEN Translated(doc, by, j) ELSE doc.attrs[j]
      <4>1. Translated(doc, by, k)
              = IF refers /\ ~fails THEN [a EXCEPT !.value = by[2][a.value]] ELSE a
        BY <1>2, <2>1, <3>2 DEF Translated
      <4> HIDE DEF fails, refers, a
      <4>2. DOMAIN new = DOMAIN doc.attrs /\ new[k] = Translated(doc, by, k)
        BY <1>1, <1>2, <1>3, <4>1
      <4>3. \A j \in DOMAIN doc.attrs : j # k => new[j] = s.attrs[j]
        BY <1>3
      <4> HIDE DEF new
      <4> QED BY <1>1, <1>5, <4>2, <4>3
    <3>5. GivesName(doc, by, k, x) <=> MapsName(doc, k)
      BY <2>1, <2>5 DEF GivesName
    <3>6. /\ DOMAIN ids = DOMAIN doc.ids
          /\ \A n \in DOMAIN doc.ids : ids[n] = IF Renamed(n, k) THEN by[1][n] ELSE doc.ids[n]
      <4>1. DOMAIN ids = DOMAIN doc.ids /\ \A n \in DOMAIN doc.ids : n # x => ids[n] = s.ids[n]
        BY <1>3
      <4>2. \A n : n # x => ~GivesName(doc, by, k, n)
        BY DEF GivesName
      <4>3. ASSUME x \in DOMAIN doc.ids
            PROVE  ids[x] = IF Renamed(x, k) THEN by[1][x] ELSE doc.ids[x]
        <5>1. CASE Renamed(x, k - 1)
          <6>1. s.ids[x] = by[1][x] /\ Renamed(x, k)
            BY <1>5, <1>6, <4>3, <5>1
          <6>2. ids[x] = by[1][x]
            BY <1>3, <4>3, <6>1
          <6> QED BY <6>1, <6>2
        <5>2. CASE ~Renamed(x, k - 1)
          <6>1. s.ids[x] = doc.ids[x] /\ (Renamed(x, k) <=> MapsName(doc, k))
            BY <1>5, <1>6, <3>5, <4>3, <5>2
          <6>2. renames <=> MapsName(doc, k)
            BY <6>1, <4>3 DEF MapsName, IsAppName
          <6> HIDE DEF Renamed
          <6>3. ids[x] = IF renames THEN by[1][x] ELSE s.ids[x]
            BY <1>3, <4>3
          <6> QED BY <6>1, <6>2, <6>3
        <5> QED BY <5>1, <5>2
      <4> HIDE DEF ids, Renamed, x
      <4> QED BY <1>5, <1>6, <4>1, <4>2, <4>3
    <3> HIDE DEF r, ids, new, fails
    <3>7. fails \in BOOLEAN
      BY DEF fails
    <3>8. RewrittenUpTo(Rec(ids, new, fails), doc, by, k)
      <4> HIDE DEF Rec, Renamed
      <4> QED BY <1>9, <3>3, <3>4, <3>6, <3>7
    <3> QED BY <3>1, <3>8 DEF r
  <2> QED BY <2>4, <2>5
<1> QED BY <1>3, <1>7, <1>8

(* Rewrite() goes from attribute to attribute.                                            *)
LEMMA RewriteByAttribute ==
  ASSUME NEW doc \in Documents, NEW by
  PROVE  \E f : /\ f[0] = [ids |-> doc.ids, attrs |-> doc.attrs, left |-> FALSE]
                /\ \A k \in 1..Len(doc.attrs) : f[k] = RewriteAttribute(by, f[k - 1], k)
                /\ Rewrite(by, doc) = f[Len(doc.attrs)]
<1> DEFINE n == Len(doc.attrs)
           start == [ids |-> doc.ids, attrs |-> doc.attrs, left |-> FALSE]
           Eq(f, k) == f = [i \in 0..k |-> IF i = 0 THEN start
                                           ELSE RewriteAttribute(by, f[i - 1], i)]
           S == {k \in 0..n : \E f : Eq(f, k)}
<1>1. n \in Nat
  BY DocumentTypes
<1> HIDE DEF n, start
<1>2. 0 \in S
  <2> DEFINE g == [i \in 0..0 |-> start]
  <2>1. Eq(g, 0)
    OBVIOUS
  <2> HIDE DEF Eq, g
  <2> QED BY <1>1, <2>1
<1>3. ASSUME NEW k \in 0..n, k \in S, k # n PROVE k + 1 \in S
  <2>1. PICK f : Eq(f, k)
    BY <1>3
  <2> DEFINE last == RewriteAttribute(by, f[k], k + 1)
             g == [i \in 0..k + 1 |-> IF i = k + 1 THEN last ELSE f[i]]
  <2>2. k \in Nat /\ k + 1 \in 0..n
    BY <1>1, <1>3
  <2>3. ASSUME NEW i \in 0..k + 1
        PROVE  g[i] = IF i = 0 THEN start ELSE RewriteAttribute(by, g[i - 1], i)
    <3>1. CASE i = k + 1
      <4>1. g[i] = last /\ i - 1 = k /\ g[i - 1] = f[k] /\ i # 0
        BY <2>2, <3>1
      <4> HIDE DEF g
      <4> QED BY <3>1, <4>1
    <3>2. CASE i # k + 1
      <4>1. i \in 0..k /\ g[i] = f[i] /\ (i # 0 => g[i - 1] = f[i - 1])
        BY <2>2, <3>2
      <4>2. f[i] = IF i = 0 THEN start ELSE RewriteAttribute(by, f[i - 1], i)
        BY <2>1, <4>1, Zenon
      <4> HIDE DEF g
      <4> QED BY <4>1, <4>2
    <3> QED BY <3>1, <3>2
  <2>4. g = [i \in 0..k + 1 |-> g[i]]
    OBVIOUS
  <2> HIDE DEF g
  <2>5. Eq(g, k + 1)
    BY <2>3, <2>4
  <2> HIDE DEF Eq
  <2> QED BY <2>2, <2>5
<1> HIDE DEF S
<1>4. \A k \in 0..n : k \in S /\ k # n => k + 1 \in S
  BY <1>3
<1>5. n \in S
  <2>1. 0..n \subseteq S
    BY <1>1, <1>2, <1>4, InductionUpTo
  <2> QED BY <1>1, <2>1
<1> DEFINE u == CHOOSE f : Eq(f, n)
<1>6. Eq(u, n)
  <2>1. \E f : Eq(f, n)
    BY <1>5 DEF S
  <2> QED BY <2>1, Zenon
<1>7. Rewrite(by, doc) = u[n]
  BY Zenon DEF Rewrite, n, start
<1> HIDE DEF u
<1>8. \A k \in 0..n : u[k] = IF k = 0 THEN start ELSE RewriteAttribute(by, u[k - 1], k)
  BY <1>6, Zenon
<1> HIDE DEF Eq
<1>9. u[0] = start /\ \A k \in 1..n : u[k] = RewriteAttribute(by, u[k - 1], k)
  BY <1>1, <1>8
<1> QED BY <1>7, <1>9, Zenon DEF n, start

(* A document comes out as said of each attribute and each name.                          *)
LEMMA RewriteTranslates ==
  ASSUME NEW doc \in Documents, NEW by, HasPositiveReferences(doc)
  PROVE  IsTranslated(doc, by, Rewrite(by, doc))
<1> DEFINE n == Len(doc.attrs)
<1>1. PICK f : /\ f[0] = [ids |-> doc.ids, attrs |-> doc.attrs, left |-> FALSE]
               /\ \A k \in 1..n : f[k] = RewriteAttribute(by, f[k - 1], k)
               /\ Rewrite(by, doc) = f[n]
  BY RewriteByAttribute
<1>2. n \in Nat /\ DOMAIN doc.attrs = 1..n /\ \A k \in 1..n : k \in Nat \ {0}
  BY DocumentTypes
<1> DEFINE S == {k \in 0..n : RewrittenUpTo(f[k], doc, by, k)}
<1>3. 0 \in S
  <2> DEFINE s == f[0]
  <2>1. s.ids = doc.ids /\ s.attrs = doc.attrs /\ s.left = FALSE /\ IsRewriting(s)
    BY <1>1 DEF IsRewriting
  <2> HIDE DEF s
  <2>2. RewrittenUpTo(s, doc, by, 0)
    <3>1. 1..0 = {} /\ \A k \in DOMAIN doc.attrs : ~(k <= 0)
      BY <1>2
    <3> QED BY <2>1, <3>1, Zenon DEF RewrittenUpTo
  <2> QED BY <1>2, <2>2 DEF s
<1>4. \A k \in 0..n : k \in S /\ k # n => k + 1 \in S
  <2> SUFFICES ASSUME NEW k \in 0..n, RewrittenUpTo(f[k], doc, by, k), k # n
               PROVE  k + 1 \in S
    OBVIOUS
  <2>1. k + 1 \in 1..n /\ k + 1 \in 0..n /\ (k + 1) - 1 = k
    BY <1>2
  <2>2. f[k + 1] = RewriteAttribute(by, f[k], k + 1)
    BY <1>1, <2>1
  <2>3. RewrittenUpTo(RewriteAttribute(by, f[k], k + 1), doc, by, k + 1)
    BY <2>1, RewriteOne
  <2> QED BY <2>1, <2>2, <2>3
<1> HIDE DEF S
<1>5. RewrittenUpTo(f[n], doc, by, n)
  <2> HIDE DEF n
  <2>1. 0..n \subseteq S
    BY <1>2, <1>3, <1>4, InductionUpTo
  <2> QED BY <1>2, <2>1 DEF S
<1> HIDE DEF n
<1> QED BY <1>1, <1>2, <1>5 DEF RewrittenUpTo, IsTranslated, Translated

(* Only rewriteXmlReferencesNative() rewrites.                                            *)
XmlInv == xml # None => xml.doc \in Documents /\ xml.result = Rewrite(xml.by, xml.doc)

LEMMA XmlInvariant == ProcessSpec => []XmlInv
<1>1. ProcessInit => XmlInv
  BY DEF ProcessInit, BootInit, XmlInv
<1>2. ASSUME XmlInv, [ProcessNext]_<<vars, bootVars>> PROVE XmlInv'
  <2>1. CASE UNCHANGED xml
    BY <1>2, <2>1 DEF XmlInv
  <2>2. CASE RewriteXml
    <3>1. PICK doc \in Documents, by \in Translations :
            xml' = [doc |-> doc, by |-> by, result |-> Rewrite(by, doc)]
      BY <2>2 DEF RewriteXml
    <3>2. xml'.doc = doc /\ xml'.by = by /\ xml'.result = Rewrite(by, doc)
      BY <3>1
    <3> QED BY <3>2 DEF XmlInv
  <2>3. RewriteXml \/ UNCHANGED xml
    BY <1>2 DEF ProcessNext, BootNext, BeginHooking, Begin, ReadArguments, Start, CreateVm,
                LoadLibrary, InitXposedBridge, InitZygoteService, InitRuntime,
                OnVmCreatedReturns, HadInitErrors, InitXResourcesNative, bridgeVars, bootVars
  <2> QED BY <2>1, <2>2, <2>3
<1> QED BY <1>1, <1>2, PTL DEF ProcessSpec

(* However many attributes share a name and whichever translation throws, each reference *)
(* to an app's resource that is come to is translated once, as is each name, as long as   *)
(* no reference is at or above 0x80000000.                                                *)
THEOREM ReferencesAreAlwaysTranslated == ProcessSpec => []ReferencesAreTranslated
<1>1. XmlInv => ReferencesAreTranslated
  <2> SUFFICES ASSUME xml.doc \in Documents, xml.result = Rewrite(xml.by, xml.doc),
                      HasPositiveReferences(xml.doc)
               PROVE  IsTranslated(xml.doc, xml.by, xml.result)
    BY DEF XmlInv, ReferencesAreTranslated
  <2>1. IsTranslated(xml.doc, xml.by, Rewrite(xml.by, xml.doc))
    BY RewriteTranslates
  <2> QED BY <2>1
<1> QED BY <1>1, XmlInvariant, PTL

----------------------------------------------------------------------------
(* Reading a command line, argument by argument *)

\* What main() can know.
GivenNames == {"", "zygote"} \cup {NiceNames[x] : x \in DOMAIN NiceNames}
Knowledge ==
  [expects : {"vm option", "parent dir", "internal", "nothing"}, vm : Seq(STRING),
   zygote : BOOLEAN, systemServer : BOOLEAN, application : BOOLEAN, niceName : GivenNames,
   class : STRING \cup {None}, rest : Seq(STRING)]

LEMMA NotedKnowledge ==
  ASSUME NEW s \in Knowledge, NEW x \in STRING
  PROVE  LET r == Noted(s, x)
         IN  /\ r \in Knowledge
             /\ r.expects = s.expects /\ r.vm = s.vm /\ r.class = s.class /\ r.rest = s.rest
             /\ r.zygote <=> s.zygote \/ x = "--zygote"
             /\ r.systemServer <=> s.systemServer \/ x = "--start-system-server"
             /\ r.application <=> s.application \/ x = "--application"
             /\ r.niceName = IF x = "--zygote" THEN "zygote"
                             ELSE IF x \in DOMAIN NiceNames THEN NiceNames[x] ELSE s.niceName
<1> DEFINE r == Noted(s, x)
           name == CASE x = "--zygote" -> "zygote"
                     [] x \in DOMAIN NiceNames -> NiceNames[x]
                     [] OTHER -> s.niceName
           isZygote == s.zygote \/ x = "--zygote"
           server == s.systemServer \/ x = "--start-system-server"
           app == s.application \/ x = "--application"
<1>1. name = IF x = "--zygote" THEN "zygote"
             ELSE IF x \in DOMAIN NiceNames THEN NiceNames[x] ELSE s.niceName
  <2> "--zygote" \notin DOMAIN NiceNames
    BY CommandAssumption DEF CommandAssumption
  <2> QED OBVIOUS
<1>2. r = [s EXCEPT !.zygote = isZygote, !.systemServer = server, !.application = app,
                    !.niceName = name]
  BY Zenon DEF Noted
<1>3. name \in GivenNames /\ isZygote \in BOOLEAN /\ server \in BOOLEAN /\ app \in BOOLEAN
  <2> s.niceName \in GivenNames
    BY DEF Knowledge
  <2> HIDE DEF name
  <2> QED BY <1>1 DEF GivenNames
<1> HIDE DEF r, name, isZygote, server, app
<1>4. /\ r \in Knowledge
      /\ r.expects = s.expects /\ r.vm = s.vm /\ r.class = s.class /\ r.rest = s.rest
      /\ r.niceName = name
  BY <1>2, <1>3 DEF Knowledge
<1>5. r.zygote = isZygote /\ r.systemServer = server /\ r.application = app
  BY <1>2 DEF Knowledge
<1> QED BY <1>1, <1>4, <1>5 DEF isZygote, server, app, r

\* The first argument behind i that is not in S.
LEMMA FirstNotInIs ==
  ASSUME argv \in Seq(STRING), NEW S, NEW i \in 0..Len(argv)
  PROVE  LET k == FirstNotIn(S, i)
         IN  /\ k \in i + 1..Len(argv) + 1
             /\ k = Len(argv) + 1 \/ argv[k] \notin S
             /\ \A j \in i + 1..k - 1 : argv[j] \in S
<1> DEFINE T == {k \in i + 1..Len(argv) + 1 : k = Len(argv) + 1 \/ argv[k] \notin S}
<1>1. Len(argv) \in Nat /\ T \subseteq Nat /\ T # {}
  OBVIOUS
<1>2. PICK k \in T : \A y \in T : k <= y
  <2> HIDE DEF T
  <2> QED BY <1>1, LeastNatural
<1>3. \A j \in i + 1..k - 1 : argv[j] \in S
  <2> SUFFICES ASSUME NEW j \in i + 1..k - 1, argv[j] \notin S PROVE FALSE
    OBVIOUS
  <2>1. j \in T /\ j < k
    BY <1>1, <1>2
  <2> QED BY <1>1, <1>2, <2>1
<1>4. k \in i + 1..Len(argv) + 1 /\ (k = Len(argv) + 1 \/ argv[k] \notin S)
  BY <1>2
<1> HIDE DEF T
<1> QED BY <1>3, <1>4, Zenon DEF FirstNotIn

LEMMA OneElement ==
  ASSUME NEW T, NEW x \in T
  PROVE  <<x>> \in Seq(T) /\ <<>> \in Seq(T)
OBVIOUS

LEMMA SubSeqGrows ==
  ASSUME NEW T, NEW q \in Seq(T), NEW f \in 1..Len(q) + 1, NEW i \in f - 1..Len(q) - 1
  PROVE  SubSeq(q, f, i + 1) = Append(SubSeq(q, f, i), q[i + 1])
<1>1. i + 1 \in 1..Len(q) /\ Len(q) \in Nat /\ i \in Nat /\ f \in Nat \ {0} /\ f <= i + 1
  OBVIOUS
<1>2. /\ SubSeq(q, f, i + 1) = [j \in 1..i + 2 - f |-> q[f + j - 1]]
      /\ SubSeq(q, f, i) = [j \in 1..i + 1 - f |-> q[f + j - 1]]
  BY <1>1
<1>3. SubSeq(q, f, i) \in Seq(T) /\ Len(SubSeq(q, f, i)) = i + 1 - f
  BY <1>1
<1> DEFINE s == SubSeq(q, f, i)
<1> HIDE DEF s
<1>4. Append(s, q[i + 1]) = [j \in 1..i + 2 - f |-> IF j = i + 2 - f THEN q[i + 1] ELSE s[j]]
  BY <1>1, <1>3 DEF s
<1>5. \A j \in 1..i + 2 - f :
        q[f + j - 1] = IF j = i + 2 - f THEN q[i + 1] ELSE s[j]
  BY <1>1, <1>2 DEF s
<1> QED BY <1>2, <1>4, <1>5 DEF s

LEMMA Suffix ==
  ASSUME NEW T, NEW p \in Seq(T), NEW q \in Seq(T)
  PROVE  SubSeq(p \o q, Len(p) + 1, Len(p) + Len(q)) = q
<1>1. Len(p) \in Nat /\ Len(q) \in Nat
  OBVIOUS
<1>2. p \o q \in Seq(T) /\ Len(p \o q) = Len(p) + Len(q)
  OBVIOUS
<1>3. \A j \in 1..Len(q) : (p \o q)[Len(p) + j] = q[j]
  OBVIOUS
<1> DEFINE w == p \o q
           m == Len(p)
           n == Len(q)
<1> HIDE DEF w, m, n
<1>4. SubSeq(w, m + 1, m + n) = [j \in 1..n |-> w[m + j]]
  <2>1. SubSeq(w, m + 1, m + n) = [j \in 1..m + n - (m + 1) + 1 |-> w[m + 1 + j - 1]]
    BY <1>1, <1>2 DEF m, n, w
  <2>2. m \in Nat /\ n \in Nat /\ m + n - (m + 1) + 1 = n
    BY <1>1 DEF m, n
  <2>3. \A j \in 1..n : m + 1 + j - 1 = m + j
    BY <2>2
  <2> QED BY <2>1, <2>2, <2>3
<1>5. q = [j \in 1..n |-> q[j]]
  BY DEF n
<1>6. \A j \in 1..n : w[m + j] = q[j]
  BY <1>3 DEF w, m, n
<1>7. SubSeq(w, m + 1, m + n) = q
  BY <1>4, <1>5, <1>6
<1> QED BY <1>7 DEF w, m, n

\* Where the parts of the command line end.
LEMMA Parts ==
  ASSUME argv \in Seq(STRING)
  PROVE  /\ Len(argv) \in Nat
         /\ VmEnd \in 1..Len(argv) + 1
         /\ VmEnd <= Len(argv) => argv[VmEnd] \notin Options \ {"--"}
         /\ \A j \in 1..VmEnd - 1 : argv[j] \in Options \ {"--"}
         /\ ParentDir \in VmEnd..VmEnd + 1 /\ ParentDir <= Len(argv) + 1
         /\ ParentDir = VmEnd + 1 <=> VmEnd <= Len(argv) /\ argv[VmEnd] = "--"
         /\ OwnEnd \in 1..Len(argv) + 1
         /\ ParentDir <= Len(argv) => ParentDir < OwnEnd
         /\ ParentDir > Len(argv) => OwnEnd = Len(argv) + 1
         /\ OwnEnd <= Len(argv) => argv[OwnEnd] \notin Internal
         /\ \A j \in ParentDir + 1..OwnEnd - 1 : argv[j] \in Internal
<1>1. Len(argv) \in Nat /\ 0 \in 0..Len(argv)
  OBVIOUS
<1>2. /\ VmEnd \in 1..Len(argv) + 1
      /\ VmEnd = Len(argv) + 1 \/ argv[VmEnd] \notin Options \ {"--"}
      /\ \A j \in 1..VmEnd - 1 : argv[j] \in Options \ {"--"}
  BY <1>1, FirstNotInIs DEF VmEnd
<1>3. /\ ParentDir \in VmEnd..VmEnd + 1 /\ ParentDir <= Len(argv) + 1
      /\ ParentDir = VmEnd + 1 <=> VmEnd <= Len(argv) /\ argv[VmEnd] = "--"
  BY <1>1, <1>2 DEF ParentDir
<1>4. CASE ParentDir <= Len(argv)
  <2>1. ParentDir \in 0..Len(argv) /\ OwnEnd = FirstNotIn(Internal, ParentDir)
    BY <1>1, <1>2, <1>3, <1>4 DEF OwnEnd
  <2>2. /\ OwnEnd \in ParentDir + 1..Len(argv) + 1
        /\ OwnEnd = Len(argv) + 1 \/ argv[OwnEnd] \notin Internal
        /\ \A j \in ParentDir + 1..OwnEnd - 1 : argv[j] \in Internal
    BY <2>1, FirstNotInIs
  <2> QED BY <1>1, <1>2, <1>3, <1>4, <2>2
<1>5. CASE ParentDir > Len(argv)
  <2>1. OwnEnd = Len(argv) + 1
    BY <1>1, <1>2, <1>3, <1>5 DEF OwnEnd
  <2> QED BY <1>1, <1>2, <1>3, <1>5, <2>1
<1> QED BY <1>1, <1>2, <1>3, <1>4, <1>5

\* What the internal arguments before position k come to.
Notes(s, k) ==
  /\ s.zygote <=> Own({"--zygote"}, k) # {}
  /\ s.systemServer <=> Own({"--start-system-server"}, k) # {}
  /\ s.application <=> Own({"--application"}, k) # {}
  /\ \A p \in Own(Names, k) : (\A q \in Own(Names, k) : q <= p) =>
       s.niceName = IF argv[p] = "--zygote" THEN "zygote" ELSE NiceNames[argv[p]]

\* The class and what is behind it, when i arguments have been read.
Behind(s, i) ==
  IF main = "app_main2" /\ argv[OwnEnd] \in LongOptions
  THEN s.class = None /\ s.rest = SubSeq(argv, OwnEnd, i)
  ELSE s.class = argv[OwnEnd] /\ s.rest = SubSeq(argv, OwnEnd + 1, i)

\* What main() knows when it has read i arguments.
Knows(s, i) ==
  /\ s \in Knowledge
  /\ s.vm = SubSeq(argv, 1, IF i < VmEnd THEN i ELSE VmEnd - 1)
  /\ s.expects = IF i < VmEnd THEN "vm option" ELSE IF i < ParentDir THEN "parent dir"
                 ELSE IF i < OwnEnd THEN "internal" ELSE "nothing"
  /\ Notes(s, IF i < OwnEnd THEN i + 1 ELSE OwnEnd)
  /\ IF i < OwnEnd THEN s.class = None /\ s.rest = <<>> ELSE Behind(s, i)

LEMMA SameNotes ==
  ASSUME NEW s, NEW r, NEW j, NEW k, Notes(s, j), \A S : Own(S, k) = Own(S, j),
         r.zygote = s.zygote, r.systemServer = s.systemServer,
         r.application = s.application, r.niceName = s.niceName
  PROVE  Notes(r, k)
BY Zenon DEF Notes

LEMMA OwnByOne ==
  ASSUME argv \in Seq(STRING), NEW i \in 0..Len(argv) - 1
  PROVE  /\ i < ParentDir => \A S : Own(S, i + 1) = {} /\ Own(S, i + 2) = {}
         /\ i >= ParentDir =>
              \A S : Own(S, i + 2) = Own(S, i + 1) \cup IF argv[i + 1] \in S THEN {i + 1} ELSE {}
         /\ \A S : Own(S, i + 1) \subseteq 1..i
<1>1. Len(argv) \in Nat /\ ParentDir \in Nat \ {0}
  BY Parts
<1>2. ASSUME i < ParentDir, NEW S PROVE Own(S, i + 1) = {} /\ Own(S, i + 2) = {}
  BY <1>1, <1>2 DEF Own
<1>3. ASSUME i >= ParentDir, NEW S
      PROVE  Own(S, i + 2) = Own(S, i + 1) \cup IF argv[i + 1] \in S THEN {i + 1} ELSE {}
  <2>1. ParentDir + 1..(i + 2) - 1 = (ParentDir + 1..(i + 1) - 1) \cup {i + 1}
    BY <1>1, <1>3
  <2> QED BY <2>1 DEF Own
<1>4. ASSUME NEW S PROVE Own(S, i + 1) \subseteq 1..i
  BY <1>1 DEF Own
<1> QED BY <1>2, <1>3, <1>4

\* One argument more, before the internal ones.
LEMMA ReadEarly ==
  ASSUME argv \in Seq(STRING), NEW i \in 0..Len(argv) - 1, NEW s, Knows(s, i), i < ParentDir
  PROVE  Knows(Read(main, s, argv[i + 1]), i + 1)
<1> DEFINE a == argv[i + 1]
           r == Read(main, s, a)
<1>1. /\ i \in Nat /\ i < Len(argv) /\ Len(argv) \in Nat /\ VmEnd \in Nat \ {0} /\ OwnEnd \in Nat
      /\ ParentDir \in {VmEnd, VmEnd + 1}
      /\ ParentDir = VmEnd + 1 <=> VmEnd <= Len(argv) /\ argv[VmEnd] = "--"
      /\ VmEnd <= Len(argv) => argv[VmEnd] \notin Options \ {"--"}
      /\ \A j \in 1..VmEnd - 1 : argv[j] \in Options \ {"--"}
      /\ ParentDir <= Len(argv) => ParentDir < OwnEnd
      /\ ParentDir > Len(argv) => OwnEnd = Len(argv) + 1
  BY Parts
<1>2. i < OwnEnd /\ i + 1 < OwnEnd
  BY <1>1
<1>3. /\ s \in Knowledge /\ Notes(s, i + 1) /\ s.class = None /\ s.rest = <<>>
      /\ s.vm = SubSeq(argv, 1, IF i < VmEnd THEN i ELSE VmEnd - 1)
      /\ s.expects = IF i < VmEnd THEN "vm option" ELSE "parent dir"
  BY <1>2 DEF Knows
<1>4. a \in STRING
  BY <1>1
<1> SUFFICES Knows(r, i + 1)
  OBVIOUS
<1> HIDE DEF a, r
\* What is left is to say what main() then expects and has for the VM.
<1>5. ASSUME r \in Knowledge, r.class = s.class, r.rest = s.rest,
             r.zygote = s.zygote, r.systemServer = s.systemServer,
             r.application = s.application, r.niceName = s.niceName,
             r.vm = SubSeq(argv, 1, IF i + 1 < VmEnd THEN i + 1 ELSE VmEnd - 1),
             r.expects = IF i + 1 < VmEnd THEN "vm option"
                         ELSE IF i + 1 < ParentDir THEN "parent dir" ELSE "internal"
      PROVE  Knows(r, i + 1)
  <2>1. \A S : Own(S, i + 2) = Own(S, i + 1)
    BY OwnByOne
  <2>2. Notes(r, i + 2)
    BY <1>3, <1>5, <2>1, SameNotes, Zenon
  <2>3. (i + 1) + 1 = i + 2
    BY <1>1
  <2> QED BY <1>2, <1>3, <1>5, <2>2, <2>3 DEF Knows
<1>6. CASE i + 1 < VmEnd
  <2>1. a \in Options /\ a # "--"
    BY <1>1, <1>6 DEF a
  <2>2. s.expects = "vm option" /\ s.vm = SubSeq(argv, 1, i)
    <3>1. i < VmEnd
      BY <1>1, <1>6
    <3> QED BY <1>3, <3>1, Zenon
  <2>3. r = [s EXCEPT !.vm = Append(s.vm, a)]
    BY <2>1, <2>2 DEF r, Read, ReadFirst
  <2>4. Append(s.vm, a) = SubSeq(argv, 1, i + 1) /\ Append(s.vm, a) \in Seq(STRING)
    <3>1. Append(s.vm, a) = SubSeq(argv, 1, i + 1)
      <4>1. 1 \in 1..Len(argv) + 1 /\ i \in 1 - 1..Len(argv) - 1
        BY <1>1
      <4>2. SubSeq(argv, 1, i + 1) = Append(SubSeq(argv, 1, i), argv[i + 1])
        BY <4>1, SubSeqGrows
      <4> QED BY <2>2, <4>2, Zenon DEF a
    <3>2. s.vm \in Seq(STRING)
      BY <1>3 DEF Knowledge
    <3> QED BY <1>4, <3>1, <3>2
  <2>5. /\ r \in Knowledge /\ r.class = s.class /\ r.rest = s.rest
        /\ r.systemServer = s.systemServer /\ r.application = s.application
        /\ r.zygote = s.zygote /\ r.niceName = s.niceName
        /\ r.vm = SubSeq(argv, 1, i + 1) /\ r.expects = "vm option"
    BY <1>3, <2>2, <2>3, <2>4 DEF Knowledge
  <2> QED BY <1>5, <1>6, <2>5, Zenon
<1>7. CASE i + 1 = VmEnd
  <2> DEFINE v == IF a = "--" THEN "parent dir" ELSE "internal"
  <2>1. a \notin Options \/ a = "--"
    BY <1>1, <1>7 DEF a
  <2>2. s.expects = "vm option" /\ s.vm = SubSeq(argv, 1, VmEnd - 1)
    <3>1. i < VmEnd /\ i = VmEnd - 1
      BY <1>1, <1>7
    <3> QED BY <1>3, <3>1, Zenon
  <2>3. r = [s EXCEPT !.expects = v]
    <3>1. "--" \in Options
      BY DEF Options, LongOptions
    <3> QED BY <2>1, <2>2, <3>1 DEF r, Read, ReadFirst
  <2>4. v = IF i + 1 < ParentDir THEN "parent dir" ELSE "internal"
    <3>1. i + 1 < ParentDir <=> a = "--"
      BY <1>1, <1>7 DEF a
    <3> QED BY <3>1
  <2>5. /\ r \in Knowledge /\ r.class = s.class /\ r.rest = s.rest
        /\ r.systemServer = s.systemServer /\ r.application = s.application
        /\ r.zygote = s.zygote /\ r.niceName = s.niceName
        /\ r.vm = s.vm /\ r.expects = v
    BY <1>3, <2>3 DEF Knowledge
  <2> HIDE DEF v
  <2>6. ~(i + 1 < VmEnd)
    BY <1>1, <1>7
  <2> QED BY <1>5, <2>2, <2>4, <2>5, <2>6, Zenon
<1>8. CASE i >= VmEnd
  <2>1. i = VmEnd /\ i + 1 = ParentDir
    BY <1>1, <1>8
  <2>2. s.expects = "parent dir" /\ s.vm = SubSeq(argv, 1, VmEnd - 1)
    <3>1. ~(i < VmEnd)
      BY <1>1, <1>8
    <3> QED BY <1>3, <3>1, Zenon
  <2>3. r = [s EXCEPT !.expects = "internal"]
    BY <2>2 DEF r, Read
  <2>5. /\ r \in Knowledge /\ r.class = s.class /\ r.rest = s.rest
        /\ r.systemServer = s.systemServer /\ r.application = s.application
        /\ r.zygote = s.zygote /\ r.niceName = s.niceName
        /\ r.vm = s.vm /\ r.expects = "internal"
    BY <1>3, <2>3 DEF Knowledge
  <2>6. ~(i + 1 < VmEnd) /\ ~(i + 1 < ParentDir)
    BY <1>1, <2>1
  <2> QED BY <1>5, <2>2, <2>5, <2>6, Zenon
<1> QED BY <1>1, <1>6, <1>7, <1>8 DEF r, a

\* One of the internal arguments, and the class behind them, or what is none.
LEMMA ReadOwn ==
  ASSUME argv \in Seq(STRING), NEW i \in 0..Len(argv) - 1, NEW s, Knows(s, i),
         ParentDir <= i, i < OwnEnd
  PROVE  Knows(Read(main, s, argv[i + 1]), i + 1)
<1> DEFINE a == argv[i + 1]
           r == Read(main, s, a)
<1>1. /\ i \in Nat /\ i < Len(argv) /\ Len(argv) \in Nat /\ VmEnd \in Nat /\ OwnEnd \in Nat
      /\ ParentDir \in Nat /\ VmEnd <= ParentDir
      /\ OwnEnd <= Len(argv) => argv[OwnEnd] \notin Internal
      /\ \A j \in ParentDir + 1..OwnEnd - 1 : argv[j] \in Internal
  BY Parts
<1>2. /\ s \in Knowledge /\ Notes(s, i + 1) /\ s.class = None /\ s.rest = <<>>
      /\ s.vm = SubSeq(argv, 1, VmEnd - 1) /\ s.expects = "internal"
  <2>1. ~(i < VmEnd) /\ ~(i < ParentDir)
    BY <1>1
  <2> QED BY <2>1, Zenon DEF Knows
<1>3. a \in STRING
  BY <1>1
<1>4. CASE i + 1 < OwnEnd
  <2>1. a \in Internal
    BY <1>1, <1>4
  <2> HIDE DEF a
  <2>2. r = Noted(s, a)
    BY <1>2, <2>1 DEF Read
  <2> HIDE DEF r
  <2>3. /\ r \in Knowledge
        /\ r.expects = "internal" /\ r.vm = s.vm /\ r.class = None /\ r.rest = <<>>
        /\ r.zygote <=> s.zygote \/ a = "--zygote"
        /\ r.systemServer <=> s.systemServer \/ a = "--start-system-server"
        /\ r.application <=> s.application \/ a = "--application"
        /\ r.niceName = IF a = "--zygote" THEN "zygote"
                        ELSE IF a \in DOMAIN NiceNames THEN NiceNames[a] ELSE s.niceName
    BY <1>2, <1>3, <2>2, NotedKnowledge
  <2>4. \A S : Own(S, i + 2) = Own(S, i + 1) \cup IF a \in S THEN {i + 1} ELSE {}
    BY OwnByOne DEF a
  <2>5. ASSUME NEW p \in Own(Names, i + 2), \A q \in Own(Names, i + 2) : q <= p
        PROVE  r.niceName = IF argv[p] = "--zygote" THEN "zygote" ELSE NiceNames[argv[p]]
    <3>1. CASE a \in Names
      <4>1. p = i + 1
        <5>1. i + 1 \in Own(Names, i + 2) /\ Own(Names, i + 1) \subseteq 1..i
          BY <2>4, <3>1, OwnByOne
        <5>2. p \in 1..i \/ p = i + 1
          BY <2>4, <2>5, <5>1
        <5> QED BY <1>1, <2>5, <5>1, <5>2
      <4> QED BY <2>3, <3>1, <4>1 DEF a, Names
    <3>2. CASE a \notin Names
      <4>1. Own(Names, i + 2) = Own(Names, i + 1)
        BY <2>4, <3>2
      <4>2. r.niceName = s.niceName
        BY <2>3, <3>2 DEF Names
      <4> QED BY <1>2, <2>5, <4>1, <4>2, Zenon DEF Notes
    <3> QED BY <3>1, <3>2
  <2>6. Notes(r, i + 2)
    <3>1. ASSUME NEW x
          PROVE  Own({x}, i + 2) # {} <=> Own({x}, i + 1) # {} \/ a = x
      BY <2>4
    <3>2. /\ r.zygote <=> Own({"--zygote"}, i + 2) # {}
          /\ r.systemServer <=> Own({"--start-system-server"}, i + 2) # {}
          /\ r.application <=> Own({"--application"}, i + 2) # {}
      BY <1>2, <2>3, <3>1 DEF Notes
    <3> QED BY <2>5, <3>2, Zenon DEF Notes
  <2>7. (i + 1) + 1 = i + 2 /\ ~(i + 1 < VmEnd) /\ ~(i + 1 < ParentDir)
    BY <1>1
  <2> QED BY <1>2, <1>4, <2>3, <2>6, <2>7 DEF Knows, r, a
<1>5. CASE i + 1 = OwnEnd
  <2> DEFINE unknown == main = "app_main2" /\ a \in LongOptions
             class == IF unknown THEN None ELSE a
             rest == IF unknown THEN <<a>> ELSE <<>>
  <2>1. a \notin Internal /\ a = argv[OwnEnd]
    BY <1>1, <1>5
  <2> HIDE DEF a
  <2>2. r = [s EXCEPT !.expects = "nothing", !.class = class, !.rest = rest]
    <3>1. r = ReadLast(main, s, a)
      BY <1>2, <2>1 DEF Read
    <3>2. s.class = None /\ s.rest = <<>> /\ s \in Knowledge
      BY <1>2
    <3> HIDE DEF r
    <3> QED BY <3>1, <3>2 DEF ReadLast, Knowledge
  <2>3. class \in STRING \cup {None} /\ rest \in Seq(STRING)
    <3>1. <<a>> \in Seq(STRING) /\ <<>> \in Seq(STRING)
      BY <1>3, OneElement, Zenon
    <3> HIDE DEF unknown
    <3> QED BY <1>3, <3>1, Zenon
  <2> HIDE DEF r, class, rest
  <2>4. /\ r \in Knowledge /\ r.class = class /\ r.rest = rest
        /\ r.systemServer = s.systemServer /\ r.application = s.application
        /\ r.zygote = s.zygote /\ r.niceName = s.niceName
        /\ r.vm = s.vm /\ r.expects = "nothing"
    BY <1>2, <2>2, <2>3 DEF Knowledge
  <2>5. Behind(r, i + 1)
    <3>1. SubSeq(argv, OwnEnd, i + 1) = <<a>> /\ SubSeq(argv, OwnEnd + 1, i + 1) = <<>>
      <4>1. OwnEnd \in 1..Len(argv) /\ OwnEnd + 1 > OwnEnd
        BY <1>1, <1>5
      <4>2. \A k \in 1..Len(argv) :
              SubSeq(argv, k, k) = <<argv[k]>> /\ SubSeq(argv, k + 1, k) = <<>>
        <5>1. ASSUME NEW k \in 1..Len(argv) PROVE SubSeq(argv, k + 1, k) = <<>>
          OBVIOUS
        <5>2. ASSUME NEW k \in 1..Len(argv) PROVE SubSeq(argv, k, k) = <<argv[k]>>
          <6>1. SubSeq(argv, k, k) = [j \in 1..1 |-> argv[k + j - 1]]
            BY <1>1
          <6>2. 1..1 = {1} /\ k + 1 - 1 = k
            OBVIOUS
          <6> QED BY <6>1, <6>2
        <5> QED BY <5>1, <5>2
      <4> QED BY <1>5, <2>1, <4>1, <4>2
    <3> QED BY <2>1, <2>4, <3>1 DEF Behind, class, rest
  <2>6. Notes(r, OwnEnd)
    BY <1>2, <1>5, <2>4, SameNotes, Zenon
  <2>7. ~(i + 1 < VmEnd) /\ ~(i + 1 < ParentDir) /\ ~(i + 1 < OwnEnd)
    BY <1>1, <1>5
  <2> QED BY <1>2, <2>4, <2>5, <2>6, <2>7 DEF Knows, r, a
<1> QED BY <1>1, <1>4, <1>5

\* An argument that is only passed on.
LEMMA ReadRest ==
  ASSUME argv \in Seq(STRING), NEW i \in 0..Len(argv) - 1, NEW s, Knows(s, i), OwnEnd <= i
  PROVE  Knows(Read(main, s, argv[i + 1]), i + 1)
<1> DEFINE a == argv[i + 1]
           r == Read(main, s, a)
<1> SUFFICES Knows(r, i + 1)
  OBVIOUS
<1>1. /\ i \in Nat /\ i < Len(argv) /\ Len(argv) \in Nat /\ VmEnd \in Nat /\ OwnEnd \in Nat \ {0}
      /\ ParentDir \in Nat /\ VmEnd <= ParentDir /\ ParentDir <= OwnEnd
  <2>1. OwnEnd <= Len(argv)
    BY Parts
  <2> QED BY <2>1, Parts
<1>2. /\ ~(i < VmEnd) /\ ~(i < ParentDir) /\ ~(i < OwnEnd)
      /\ ~(i + 1 < VmEnd) /\ ~(i + 1 < ParentDir) /\ ~(i + 1 < OwnEnd)
  BY <1>1
<1>3. /\ s \in Knowledge /\ Notes(s, OwnEnd) /\ Behind(s, i)
      /\ s.vm = SubSeq(argv, 1, VmEnd - 1) /\ s.expects = "nothing"
  BY <1>2, Zenon DEF Knows
<1>4. a \in STRING
  BY <1>1
<1>5. r = [s EXCEPT !.rest = Append(s.rest, a)]
  BY <1>3 DEF Read
<1>6. /\ SubSeq(argv, OwnEnd, i + 1) = Append(SubSeq(argv, OwnEnd, i), a)
      /\ SubSeq(argv, OwnEnd + 1, i + 1) = Append(SubSeq(argv, OwnEnd + 1, i), a)
  <2>1. /\ OwnEnd \in 1..Len(argv) + 1 /\ i \in OwnEnd - 1..Len(argv) - 1
        /\ OwnEnd + 1 \in 1..Len(argv) + 1 /\ i \in (OwnEnd + 1) - 1..Len(argv) - 1
    BY <1>1
  <2> QED BY <2>1, SubSeqGrows
<1>7. s.rest \in Seq(STRING)
  BY <1>3 DEF Knowledge
<1> HIDE DEF a, r
<1>8. Append(s.rest, a) \in Seq(STRING)
  BY <1>4, <1>7
<1>9. /\ r \in Knowledge /\ r.class = s.class /\ r.rest = Append(s.rest, a)
      /\ r.systemServer = s.systemServer /\ r.application = s.application
      /\ r.zygote = s.zygote /\ r.niceName = s.niceName
      /\ r.vm = s.vm /\ r.expects = "nothing"
  BY <1>3, <1>5, <1>8 DEF Knowledge
<1>10. Notes(r, OwnEnd)
  BY <1>3, <1>9, SameNotes, Zenon
<1>11. Behind(r, i + 1)
  BY <1>3, <1>6, <1>9 DEF Behind
<1> QED BY <1>2, <1>3, <1>9, <1>10, <1>11, Zenon DEF Knows

\* main() reads one argument after the other.
LEMMA ParseByArgument ==
  ASSUME argv \in Seq(STRING)
  PROVE  \E f : /\ f[0] = Unread
                /\ \A i \in 1..Len(argv) : f[i] = Read(main, f[i - 1], argv[i])
                /\ Parse(main, argv) = f[Len(argv)]
<1> DEFINE n == Len(argv)
           Eq(f, k) == f = [i \in 0..k |-> IF i = 0 THEN Unread
                                           ELSE Read(main, f[i - 1], argv[i])]
           S == {k \in 0..n : \E f : Eq(f, k)}
<1>1. n \in Nat
  OBVIOUS
<1> HIDE DEF n
<1>2. 0 \in S
  <2> DEFINE g == [i \in 0..0 |-> Unread]
  <2>1. Eq(g, 0)
    OBVIOUS
  <2> HIDE DEF Eq, g
  <2> QED BY <1>1, <2>1
<1>3. ASSUME NEW k \in 0..n, k \in S, k # n PROVE k + 1 \in S
  <2>1. PICK f : Eq(f, k)
    BY <1>3
  <2> DEFINE last == Read(main, f[k], argv[k + 1])
             g == [i \in 0..k + 1 |-> IF i = k + 1 THEN last ELSE f[i]]
  <2>2. k \in Nat /\ k + 1 \in 0..n
    BY <1>1, <1>3
  <2>3. ASSUME NEW i \in 0..k + 1
        PROVE  g[i] = IF i = 0 THEN Unread ELSE Read(main, g[i - 1], argv[i])
    <3>1. CASE i = k + 1
      <4>1. g[i] = last /\ i - 1 = k /\ g[i - 1] = f[k] /\ i # 0
        BY <2>2, <3>1
      <4> HIDE DEF g
      <4> QED BY <3>1, <4>1
    <3>2. CASE i # k + 1
      <4>1. i \in 0..k /\ g[i] = f[i] /\ (i # 0 => g[i - 1] = f[i - 1])
        BY <2>2, <3>2
      <4>2. f[i] = IF i = 0 THEN Unread ELSE Read(main, f[i - 1], argv[i])
        BY <2>1, <4>1, Zenon
      <4> HIDE DEF g
      <4> QED BY <4>1, <4>2
    <3> QED BY <3>1, <3>2
  <2>4. g = [i \in 0..k + 1 |-> g[i]]
    OBVIOUS
  <2> HIDE DEF g
  <2>5. Eq(g, k + 1)
    BY <2>3, <2>4
  <2> HIDE DEF Eq
  <2> QED BY <2>2, <2>5
<1> HIDE DEF S
<1>4. \A k \in 0..n : k \in S /\ k # n => k + 1 \in S
  BY <1>3
<1>5. n \in S
  <2>1. 0..n \subseteq S
    BY <1>1, <1>2, <1>4, InductionUpTo
  <2> QED BY <1>1, <2>1
<1> DEFINE u == CHOOSE f : Eq(f, n)
<1>6. Eq(u, n)
  <2>1. \E f : Eq(f, n)
    BY <1>5 DEF S
  <2> QED BY <2>1, Zenon
<1>7. Parse(main, argv) = u[n]
  BY Zenon DEF Parse, n
<1> HIDE DEF u
<1>8. \A k \in 0..n : u[k] = IF k = 0 THEN Unread ELSE Read(main, u[k - 1], argv[k])
  BY <1>6, Zenon
<1> HIDE DEF Eq
<1>9. u[0] = Unread /\ \A k \in 1..n : u[k] = Read(main, u[k - 1], argv[k])
  BY <1>1, <1>8
<1> QED BY <1>7, <1>9, Zenon DEF n

LEMMA ParseKnows ==
  ASSUME argv \in Seq(STRING)
  PROVE  Knows(Parse(main, argv), Len(argv))
<1> DEFINE n == Len(argv)
<1>1. PICK f : /\ f[0] = Unread
               /\ \A i \in 1..n : f[i] = Read(main, f[i - 1], argv[i])
               /\ Parse(main, argv) = f[n]
  BY ParseByArgument
<1>2. n \in Nat
  OBVIOUS
<1> DEFINE S == {i \in 0..n : Knows(f[i], i)}
<1>3. 0 \in S
  <2>1. /\ 0 < VmEnd /\ 0 < OwnEnd /\ 0 < ParentDir
        /\ \A T : Own(T, 0 + 1) = {}
    <3>1. VmEnd \in Nat \ {0} /\ OwnEnd \in Nat \ {0} /\ ParentDir \in Nat \ {0}
      BY Parts
    <3> QED BY <3>1 DEF Own
  <2>2. Unread \in Knowledge
    <3>1. <<>> \in Seq(STRING)
      OBVIOUS
    <3> QED BY <3>1 DEF Unread, Knowledge, GivenNames
  <2>3. /\ Unread.vm = SubSeq(argv, 1, 0) /\ Unread.expects = "vm option"
        /\ Unread.class = None /\ Unread.rest = <<>>
        /\ ~Unread.zygote /\ ~Unread.systemServer /\ ~Unread.application
    BY DEF Unread
  <2>4. Notes(Unread, 0 + 1)
    BY <2>1, <2>3, Zenon DEF Notes
  <2>5. Knows(Unread, 0)
    BY <2>1, <2>2, <2>3, <2>4, Zenon DEF Knows
  <2> QED BY <1>1, <1>2, <2>5
<1>4. \A i \in 0..n : i \in S /\ i # n => i + 1 \in S
  <2> SUFFICES ASSUME NEW i \in 0..n, Knows(f[i], i), i # n PROVE i + 1 \in S
    OBVIOUS
  <2>1. i + 1 \in 1..n /\ i + 1 \in 0..n /\ (i + 1) - 1 = i /\ i \in 0..Len(argv) - 1
    BY <1>2
  <2>2. f[i + 1] = Read(main, f[i], argv[i + 1])
    BY <1>1, <2>1
  <2>3. i < ParentDir \/ (ParentDir <= i /\ i < OwnEnd) \/ OwnEnd <= i
    <3>1. OwnEnd \in Nat /\ ParentDir \in Nat
      BY Parts
    <3> QED BY <2>1, <3>1
  <2>4. Knows(Read(main, f[i], argv[i + 1]), i + 1)
    BY <2>1, <2>3, ReadEarly, ReadOwn, ReadRest
  <2> QED BY <2>1, <2>2, <2>4
<1> HIDE DEF S
<1>5. Knows(f[n], n)
  <2> HIDE DEF n
  <2>1. 0..n \subseteq S
    BY <1>2, <1>3, <1>4, InductionUpTo
  <2> QED BY <1>2, <2>1 DEF S
<1> QED BY <1>1, <1>5

\* What the runtime is started with.
LEMMA LaunchedAsKnown ==
  ASSUME argv \in Seq(STRING), main \in {"app_main", "app_main2"},
         NEW s, Knows(s, Len(argv)), NEW l, l = Launch(main, s)
  PROVE  /\ l.class # None =>
              /\ OwnEnd <= Len(argv) /\ l.class = argv[OwnEnd]
              /\ l.args = <<IF s.application THEN "application" ELSE "tool">>
              /\ l.mainArgs = From(OwnEnd + 1)
         /\ l.class = None =>
              /\ l.args # <<>> /\ l.args[1] = "start-system-server" <=> s.systemServer
              /\ main = "app_main2" /\ s.class = None =>
                   From(OwnEnd) = SubSeq(l.args, Len(l.args) - Len(argv) + OwnEnd, Len(l.args))
<1> DEFINE n == Len(argv)
           server == IF s.systemServer THEN <<"start-system-server">> ELSE <<>>
           args == server \o <<"--abi-list">> \o s.rest
           isTool == HasClass(main, s) /\ ~(main = "app_main" /\ s.zygote)
<1>1. /\ n \in Nat /\ OwnEnd \in 1..n + 1
      /\ s \in Knowledge
      /\ n < OwnEnd => s.class = None /\ s.rest = <<>>
      /\ n >= OwnEnd => Behind(s, n)
  <2>1. n \in Nat /\ OwnEnd \in 1..n + 1
    BY Parts
  <2>2. s \in Knowledge /\ IF n < OwnEnd THEN s.class = None /\ s.rest = <<>> ELSE Behind(s, n)
    BY DEF Knows
  <2> QED BY <2>1, <2>2
<1>2. /\ l.class = IF isTool THEN s.class ELSE None
      /\ l.mainArgs = IF isTool THEN s.rest ELSE <<>>
      /\ isTool => l.args = <<IF s.application THEN "application" ELSE "tool">>
      /\ ~isTool => l.args = IF main = "app_main" THEN server ELSE args
  BY DEF Launch
<1>3. isTool => s.class # None
  BY DEF HasClass
<1> HIDE DEF isTool
<1>4. ASSUME l.class # None
      PROVE  /\ OwnEnd <= Len(argv) /\ l.class = argv[OwnEnd]
             /\ l.args = <<IF s.application THEN "application" ELSE "tool">>
             /\ l.mainArgs = From(OwnEnd + 1)
  <2>1. isTool /\ l.class = s.class /\ l.mainArgs = s.rest /\ s.class # None
    BY <1>2, <1>3, <1>4
  <2>2. OwnEnd <= Len(argv) /\ Behind(s, n)
    BY <1>1, <2>1
  <2> QED BY <1>2, <2>1, <2>2 DEF Behind, From
<1>5. ASSUME l.class = None
      PROVE  /\ l.args # <<>> /\ l.args[1] = "start-system-server" <=> s.systemServer
             /\ main = "app_main2" /\ s.class = None =>
                  From(OwnEnd) = SubSeq(l.args, Len(l.args) - Len(argv) + OwnEnd, Len(l.args))
  <2>1. l.args = IF main = "app_main" THEN server ELSE args
    BY <1>2, <1>3, <1>5
  <2> DEFINE T == STRING \cup {"start-system-server", "--abi-list"}
  <2>2. /\ server \in Seq(T) /\ <<"--abi-list">> \in Seq(T) /\ s.rest \in Seq(T)
        /\ s.rest \in Seq(STRING)
    <3>1. /\ "start-system-server" \in T /\ "--abi-list" \in T
          /\ \A q \in Seq(STRING) : q \in Seq(T)
      OBVIOUS
    <3> HIDE DEF T
    <3>2. <<"start-system-server">> \in Seq(T) /\ <<>> \in Seq(T) /\ <<"--abi-list">> \in Seq(T)
      BY <3>1, OneElement, Zenon
    <3>3. s.rest \in Seq(STRING)
      BY <1>1 DEF Knowledge
    <3> QED BY <3>1, <3>2, <3>3, Zenon
  <2> HIDE DEF T
  <2>3. /\ args # <<>>
        /\ args[1] = IF s.systemServer THEN "start-system-server" ELSE "--abi-list"
    BY <2>2
  <2>4. l.args # <<>> /\ l.args[1] = "start-system-server" <=> s.systemServer
    BY <2>1, <2>3
  <2>5. ASSUME main = "app_main2", s.class = None
        PROVE  From(OwnEnd) = SubSeq(l.args, Len(l.args) - Len(argv) + OwnEnd, Len(l.args))
    <3>1. s.rest = From(OwnEnd)
      <4>1. CASE n < OwnEnd
        <5>1. OwnEnd = n + 1
          BY <1>1, <4>1
        <5>2. SubSeq(argv, OwnEnd, n) = <<>>
          BY <1>1, <5>1
        <5> QED BY <1>1, <4>1, <5>2 DEF From
      <4>2. CASE n >= OwnEnd
        <5>1. argv[OwnEnd] \in STRING /\ None \notin STRING
          BY <1>1, <4>2, CommandAssumption DEF CommandAssumption
        <5> QED BY <1>1, <2>5, <4>2, <5>1 DEF Behind, From
      <4> QED BY <1>1, <4>1, <4>2
    <3> DEFINE front == server \o <<"--abi-list">>
    <3>2. l.args = front \o s.rest
      BY <2>1, <2>2, <2>5
    <3>3. Len(s.rest) = n - OwnEnd + 1
      BY <1>1, <3>1 DEF From
    <3>4. front \in Seq(T)
      BY <2>2
    <3> HIDE DEF front
    <3>5. /\ Len(front) \in Nat
          /\ Len(l.args) = Len(front) + Len(s.rest)
      BY <2>2, <3>2, <3>4
    <3>6. Len(l.args) - Len(argv) + OwnEnd = Len(front) + 1
      BY <1>1, <3>3, <3>5
    <3>7. SubSeq(front \o s.rest, Len(front) + 1, Len(front) + Len(s.rest)) = s.rest
      BY <2>2, <3>4, Suffix
    <3> QED BY <3>1, <3>2, <3>5, <3>6, <3>7
  <2> QED BY <2>4, <2>5
<1> QED BY <1>4, <1>5

----------------------------------------------------------------------------
(* What main() has read, and done with it, until the VM is there *)

CommandInv ==
  /\ main \in {"app_main", "app_main2"}
  /\ phase \in {"main", "read", "initialize", "started"} => argv \in CommandLines
  /\ phase \in {"initialize", "started"} => parsed = Parse(main, argv)
  /\ phase = "started" =>
       zygote = parsed.zygote /\ (loaded => zygote) /\ launch = Launch(main, parsed)

LEMMA CommandInvariant == ProcessSpec => []CommandInv
<1>1. ProcessInit => CommandInv
  BY DEF ProcessInit, BootInit, CommandInv
<1>2. ASSUME CommandInv, [ProcessNext]_<<vars, bootVars>> PROVE CommandInv'
  <2> USE <1>2 DEF CommandInv, startVars, bootVars
  <2>1. CASE Begin
    BY <2>1 DEF Begin
  <2>2. CASE ReadArguments
    BY <2>2 DEF ReadArguments
  <2>3. CASE Start
    BY <2>3 DEF Start
  <2>4. CASE CreateVm
    BY <2>4 DEF CreateVm
  <2>5. CASE /\ main' = main
             /\ phase' \notin {"main", "read", "initialize", "started"}
    BY <2>5
  <2>6. CASE LoadLibrary \/ OnVmCreatedReturns \/ HadInitErrors \/ RewriteXml \/ BeginHooking
    BY <2>5, <2>6 DEF LoadLibrary, OnVmCreatedReturns, HadInitErrors, RewriteXml, BeginHooking
  <2>7. CASE InitXposedBridge \/ InitZygoteService \/ InitRuntime \/ InitXResourcesNative
    <3>1. /\ main' = main
          /\ phase' \in {"service", "runtime", "successful", "java", "resources", "no resources"}
      <4>1. CASE InitXposedBridge
        BY <4>1, LookupsComplete, StepsAreLists DEF InitXposedBridge
      <4>2. CASE InitZygoteService
        BY <4>2, LookupsComplete, StepsAreLists DEF InitZygoteService
      <4>3. CASE InitRuntime
        BY <4>3, LookupsComplete, StepsAreLists DEF InitRuntime
      <4>4. CASE InitXResourcesNative
        BY <4>4, LookupsComplete, StepsAreLists DEF InitXResourcesNative
      <4> QED BY <2>7, <4>1, <4>2, <4>3, <4>4
    <3> QED BY <2>5, <3>1
  <2>8. CASE UNCHANGED bootVars
    BY <2>8
  <2> QED BY <2>1, <2>2, <2>3, <2>4, <2>6, <2>7, <2>8 DEF ProcessNext, BootNext
<1> QED BY <1>1, <1>2, PTL DEF ProcessSpec

(* Whatever arguments come and however many, in whatever order, each goes where it is    *)
(* described to go, in both programs, unless a zygote is given a class.                   *)
THEOREM ArgumentsGoTheirWay == ProcessSpec => []ArgumentsGoWhereDescribed
<1>1. CommandInv => ArgumentsGoWhereDescribed
  <2> SUFFICES ASSUME CommandInv, phase = "started" PROVE ArgumentsGoWhereDescribed
    BY DEF ArgumentsGoWhereDescribed
  <2>1. /\ argv \in Seq(STRING) /\ main \in {"app_main", "app_main2"}
        /\ parsed = Parse(main, argv) /\ zygote = parsed.zygote /\ (loaded => zygote)
        /\ launch = Launch(main, parsed)
    BY BridgeAssumption DEF BridgeAssumption, CommandInv
  <2>2. Knows(parsed, Len(argv))
    BY <2>1, ParseKnows
  <2>3. parsed.vm = SubSeq(argv, 1, VmEnd - 1) /\ Notes(parsed, OwnEnd)
    <3>1. /\ (IF Len(argv) < VmEnd THEN Len(argv) ELSE VmEnd - 1) = VmEnd - 1
          /\ (IF Len(argv) < OwnEnd THEN Len(argv) + 1 ELSE OwnEnd) = OwnEnd
      BY <2>1, Parts
    <3> QED BY <2>2, <3>1, Zenon DEF Knows
  <2> DEFINE has(x) == Own({x}, OwnEnd) # {}
  <2>4. /\ zygote <=> has("--zygote")
        /\ parsed.systemServer <=> has("--start-system-server")
        /\ parsed.application <=> has("--application")
        /\ \A i \in Own(Names, OwnEnd) : (\A j \in Own(Names, OwnEnd) : j <= i) =>
             parsed.niceName = IF argv[i] = "--zygote" THEN "zygote" ELSE NiceNames[argv[i]]
    BY <2>1, <2>3, Zenon DEF Notes
  <2>5. /\ launch.class # None =>
             /\ OwnEnd <= Len(argv) /\ launch.class = argv[OwnEnd]
             /\ launch.args = <<IF parsed.application THEN "application" ELSE "tool">>
             /\ launch.mainArgs = From(OwnEnd + 1)
        /\ launch.class = None =>
             /\ launch.args # <<>> /\ launch.args[1] = "start-system-server" <=>
                  parsed.systemServer
             /\ main = "app_main2" /\ parsed.class = None =>
                  From(OwnEnd) =
                    SubSeq(launch.args, Len(launch.args) - Len(argv) + OwnEnd, Len(launch.args))
    BY <2>1, <2>2, LaunchedAsKnown
  <2> HIDE DEF has
  <2>6. launch.class # None /\ ~zygote =>
          launch.args = <<IF has("--application") THEN "application" ELSE "tool">>
    BY <2>4, <2>5
  <2>7. launch.class = None =>
          (launch.args # <<>> /\ launch.args[1] = "start-system-server" <=>
             has("--start-system-server"))
    BY <2>4, <2>5
  <2> QED BY <2>1, <2>3, <2>4, <2>5, <2>6, <2>7, Zenon DEF ArgumentsGoWhereDescribed, has
<1> QED BY <1>1, CommandInvariant, PTL
=============================================================================
