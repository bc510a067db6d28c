--------------------------- MODULE StartupProofs ---------------------------
(***************************************************************************)
(* The safety of a boot, for any set of secondary zygotes and whether or   *)
(* not service processes may be killed: the invariants of                  *)
(* StartupProperties follow from IInv, which adds to them what each        *)
(* process has done by the time it reaches a point of its program.         *)
(***************************************************************************)
EXTENDS StartupProperties, TLAPS

\* Nothing has been forked before its fork(), and only the primary zygote forks
\* the system service, as Xposed Installer's UID is known to it.
Forked ==
  /\ \A z \in Zygotes :
       pc[z] \in {"start", "uid", "init", "forkSystem", "forkHost"} => host[z] = "none"
  /\ pc[Primary] \in {"start", "uid", "init", "forkSystem"} => sys = "none"
  /\ \A z \in Zygotes : pc[z] \in {"uid", "forkSystem"} => z = Primary
  /\ pc[Primary] \in {"init", "forkSystem", "forkHost"} => uid[Primary] = "installer"

\* The credentials of a process, at each stage of its start.
HostConfined ==
  /\ \A z \in Zygotes :
       /\ host[z] \in {"none", "born", "switched"} => cred[z].context = "zygote"
       /\ host[z] \in {"confined", "looked", "registered", "serving"}
            => Confined(cred[z], "app")
  /\ host[Primary] # "none" => uid[Primary] = "installer"
  /\ host[Primary] \in {"switched", "confined", "looked", "registered", "serving"}
       => cred[Primary].uid = "installer"

SystemConfined ==
  /\ sys \in {"none", "born"} => sysCred.context = "zygote"
  /\ sys \in {"confined", "registered"} => Confined(sysCred, "system")

\* What the service manager knows.
Registered ==
  /\ "system" \in registry => sys = "registered"
  /\ host[Primary] \in {"looked", "registered", "serving"} => sys \in {"registered", "gone"}
  /\ "app" \in registry <=> host[Primary] \in {"registered", "serving"}

\* A zygote past safemode has an unshared region or none; one that has created the
\* flag file sees it, if nobody else was calling when it asked.
Restricted ==
  \A z \in Zygotes :
    /\ pc[z] \in {"start", "uid", "init"} => mem[z] = "none"
    /\ ~selinux => mem[z] = "none" /\ pc[z] \notin {"wait", "restrict"}
    /\ pc[z] \in {"safemode", "disabled", "jar", "loaded"} => mem[z] # "shared"

Stopped ==
  /\ asker = "asking" \/ disturbed => selinux
  /\ \A z \in Zygotes : stopped[z] = "created" =>
       /\ blocker
       /\ \/ pc[z] \in {"disabled", "plain"}
          \/ pc[z] \in {"jar", "loaded"} /\ z = Primary /\ disturbed

IInv ==
  /\ TypeOK
  /\ Forked
  /\ HostConfined
  /\ SystemConfined
  /\ Registered
  /\ WaitsForLivedService
  /\ Restricted
  /\ Stopped
  /\ LoadedForksUnmapped

(* The invariant holds initially. *)
LEMMA InitEstablishes == ASSUME ZygoteAssumption PROVE Init => IInv
<1> SUFFICES ASSUME Init PROVE IInv
  OBVIOUS
<1> USE DEF ZygoteAssumption, Init, Zygotes
<1>1. TypeOK
  <2>1. Root \in Credentials
    BY DEF Root, Credentials, Contexts, Uids
  <2>2. cred \in [Zygotes -> Credentials] /\ sysCred \in Credentials
    BY <2>1
  <2>3. /\ pc \in [Zygotes -> ZygotePcs]
        /\ uid \in [Zygotes -> {"unset", "installer"}]
        /\ mem \in [Zygotes -> {"none", "shared", "private"}]
        /\ host \in [Zygotes -> HostStates]
        /\ stopped \in [Zygotes -> {"no", "created", "failed"}]
    BY DEF ZygotePcs, HostStates
  <2>4. /\ sys \in {"none", "born", "confined", "registered", "gone"}
        /\ registry \subseteq {"system", "app"}
        /\ lookups \in 0..MaxRetries
        /\ asker \in {"none", "asking", "gone", "stuck"}
        /\ children \subseteq [zygote : Zygotes, loaded : BOOLEAN, mapped : BOOLEAN]
    OBVIOUS
  <2>5. selinux \in BOOLEAN /\ blocker \in BOOLEAN /\ disturbed \in BOOLEAN
    BY Zenon
  <2> QED BY <2>2, <2>3, <2>4, <2>5, Zenon DEF TypeOK
<1>2. Forked /\ HostConfined /\ SystemConfined /\ Registered
  BY DEF Forked, HostConfined, SystemConfined, Registered, Root
<1>3. WaitsForLivedService /\ Restricted /\ Stopped /\ LoadedForksUnmapped
  BY DEF WaitsForLivedService, Restricted, Stopped, LoadedForksUnmapped
<1> QED BY <1>1, <1>2, <1>3 DEF IInv

(* Every step of initialize(), and every later fork, keeps it. *)
LEMMA ZygoteKeeps ==
  ASSUME ZygoteAssumption, IInv, NEW z \in Zygotes,
         ZygoteStep(z) \/ ForkChild(z)
  PROVE  IInv'
<1> USE DEF ZygoteAssumption, zygoteVars, serviceVars, logcatVars, IInv, TypeOK, Forked,
       HostConfined, SystemConfined, Registered, WaitsForLivedService, Restricted, Stopped, LoadedForksUnmapped,
       Confined, Zygotes, Credentials, Contexts, Uids, ZygotePcs, HostStates
<1>1. CASE FailsAt(z)
  BY <1>1 DEF FailsAt
<1>2. CASE Begin(z)
  BY <1>2 DEF Begin, Goto
<1>3. CASE DetermineUid(z)
  BY <1>3 DEF DetermineUid, Goto
<1>4. CASE InitMembased(z)
  BY <1>4 DEF InitMembased, Goto
<1>5. CASE ForkSystem(z)
  BY <1>5 DEF ForkSystem, Goto
<1>6. CASE ForkHost(z)
  BY <1>6 DEF ForkHost, Goto
<1>7. CASE SeesRunning(z)
  BY <1>7 DEF SeesRunning, Goto
<1>8. CASE TimesOut(z)
  BY <1>8 DEF TimesOut, Goto
<1>9. CASE StartLogcat(z)
  BY <1>9 DEF StartLogcat, Goto
<1>10. CASE Restrict(z)
  BY <1>10 DEF Restrict, Goto
<1>11. CASE CheckSafemode(z)
  <2>1. TypeOK' /\ Stopped'
    <3>1. PICK outcome \in {"no", "created", "failed"} :
            /\ blocker' = (blocker \/ outcome = "created")
            /\ stopped' = [stopped EXCEPT ![z] = outcome]
      BY <1>11 DEF CheckSafemode
    <3>2. /\ pc[z] = "safemode" /\ pc' = [pc EXCEPT ![z] = "disabled"]
          /\ UNCHANGED <<selinux, uid, mem, serviceVars, logcatVars, children>>
      BY <1>11 DEF CheckSafemode, Goto
    <3>3. blocker' \in BOOLEAN /\ (blocker => blocker') /\ (outcome = "created" => blocker')
      BY <3>1, Zenon
    <3>4. TypeOK'
      BY <3>1, <3>2, <3>3
    <3>5. Stopped'
      BY <3>1, <3>2, <3>3
    <3> QED BY <3>4, <3>5
  <2>2. Forked' /\ HostConfined' /\ SystemConfined' /\ Registered'
    BY <1>11 DEF CheckSafemode, Goto
  <2>3. WaitsForLivedService' /\ Restricted' /\ LoadedForksUnmapped'
    BY <1>11 DEF CheckSafemode, Goto
  <2> QED BY <2>1, <2>2, <2>3
<1>12. CASE IsDisabled(z)
  BY <1>12 DEF IsDisabled, AnswersTo, MayBeAnothers, Goto
<1>13. CASE AddJar(z)
  BY <1>13 DEF AddJar, Goto
<1>14. CASE ForkChild(z)
  <2> DEFINE child == [zygote |-> z, loaded |-> pc[z] = "loaded",
                       mapped |-> mem[z] = "shared"]
  <2>1. /\ children' = children \cup {child}
        /\ UNCHANGED <<selinux, zygoteVars, serviceVars, blocker, logcatVars>>
    BY <1>14 DEF ForkChild
  <2>2. child \in [zygote : Zygotes, loaded : BOOLEAN, mapped : BOOLEAN]
    BY Zenon
  <2>3. child.loaded => ~child.mapped
    OBVIOUS
  <2> HIDE DEF child
  <2>4. TypeOK'
    BY <2>1, <2>2
  <2>5. LoadedForksUnmapped'
    BY <2>1, <2>3
  <2> QED  BY <2>1, <2>4, <2>5
<1> QED
  BY <1>1, <1>2, <1>3, <1>4, <1>5, <1>6, <1>7, <1>8, <1>9, <1>10, <1>11, <1>12, <1>13,
     <1>14 DEF ZygoteStep

(* Every step of a host of either kind, and its end, keep it. *)
LEMMA HostKeeps ==
  ASSUME ZygoteAssumption, IInv, NEW z \in Zygotes,
         HostStep(z) \/ HostDies(z)
  PROVE  IInv'
<1> USE DEF ZygoteAssumption, zygoteVars, serviceVars, logcatVars, IInv, TypeOK, Forked,
       HostConfined, SystemConfined, Registered, WaitsForLivedService, Restricted, Stopped, LoadedForksUnmapped,
       Confined, Zygotes, Credentials, Contexts, Uids, ZygotePcs, HostStates
<1>1. CASE SwitchUid(z)
  BY <1>1 DEF SwitchUid
<1>2. CASE ConfineHost(z)
  <2> DEFINE new == Confine(cred[z], "app")
  <2>a. cred[z] \in Credentials
    OBVIOUS
  <2>b. new \in Credentials /\ new.uid = cred[z].uid /\ Confined(new, "app")
    BY <1>2, <2>a DEF Confine, ConfineHost
  <2> HIDE DEF new
  <2>1. /\ cred'[z] = new
        /\ \A y \in Zygotes \ {z} : cred'[y] = cred[y]
        /\ cred' \in [Zygotes -> Credentials]
    BY <1>2, <2>b DEF ConfineHost, new
  <2>2. TypeOK'
    BY <1>2, <2>1 DEF ConfineHost
  <2>3. HostConfined'
    <3>1. cred'[z].uid = cred[z].uid /\ Confined(cred[z], "app")'
      BY <1>2, <2>b, <2>1 DEF ConfineHost
    <3>2. host[z] = "switched" /\ host'[z] = "confined"
      BY <1>2 DEF ConfineHost
    <3>3. \A y \in Zygotes \ {z} : host'[y] = host[y] /\ cred'[y] = cred[y]
      BY <1>2, <2>1 DEF ConfineHost
    <3>4. UNCHANGED <<selinux, uid>>
      BY <1>2 DEF ConfineHost
    <3> QED  BY <3>1, <3>2, <3>3, <3>4
  <2> QED  BY <1>2, <2>2, <2>3 DEF ConfineHost
<1>3. CASE HostFails(z)
  BY <1>3 DEF HostFails, HostExits
<1>4. CASE Serve(z)
  BY <1>4 DEF Serve
<1>5. CASE HostDies(z)
  BY <1>5 DEF HostDies
<1> QED  BY <1>1, <1>2, <1>3, <1>4, <1>5 DEF HostStep

(* The registration of the app service keeps it. *)
LEMMA AppKeeps ==
  ASSUME ZygoteAssumption, IInv,
         AppStep
  PROVE  IInv'
<1> USE DEF ZygoteAssumption, zygoteVars, serviceVars, logcatVars, IInv, TypeOK, Forked,
       HostConfined, SystemConfined, Registered, WaitsForLivedService, Restricted, Stopped, LoadedForksUnmapped,
       Confined, Zygotes, Credentials, Contexts, Uids, ZygotePcs, HostStates
<1>1. CASE AppLooksAgain
  BY <1>1 DEF AppLooksAgain
<1>2. CASE AppFindsNothing
  BY <1>2 DEF AppFindsNothing, HostExits
<1>3. CASE AppFindsSystem
  BY <1>3 DEF AppFindsSystem
<1>4. CASE RegisterApp
  BY <1>4 DEF RegisterApp
<1> QED  BY <1>1, <1>2, <1>3, <1>4 DEF AppStep

(* Every step of the system service, and of the process that becomes logcat, keeps it. *)
LEMMA SystemKeeps ==
  ASSUME ZygoteAssumption, IInv,
         ConfineSystem \/ RegisterSystem \/ SystemDies \/ LogcatAsked \/ LogcatDies
  PROVE  IInv'
<1> USE DEF ZygoteAssumption, zygoteVars, serviceVars, logcatVars, IInv, TypeOK, Forked,
       HostConfined, SystemConfined, Registered, WaitsForLivedService, Restricted, Stopped, LoadedForksUnmapped,
       Confined, Zygotes, Credentials, Contexts, Uids, ZygotePcs, HostStates
<1>1. CASE ConfineSystem
  <2>1. Confine(sysCred, "system") \in Credentials
    BY DEF Confine
  <2>2. Confined(Confine(sysCred, "system"), "system") \/ sysCred.context # "zygote"
    BY DEF Confine
  <2>3. TypeOK'
    BY <1>1, <2>1 DEF ConfineSystem
  <2>4. SystemConfined'
    BY <1>1, <2>2 DEF ConfineSystem
  <2> QED  BY <1>1, <2>3, <2>4 DEF ConfineSystem
<1>2. CASE RegisterSystem
  <2>1. TypeOK' /\ Stopped'
    BY <1>2 DEF RegisterSystem
  <2>2. Forked' /\ HostConfined' /\ SystemConfined' /\ Registered'
    BY <1>2 DEF RegisterSystem
  <2>3. WaitsForLivedService' /\ Restricted' /\ LoadedForksUnmapped'
    BY <1>2 DEF RegisterSystem
  <2> QED BY <2>1, <2>2, <2>3
<1>3. CASE SystemDies
  BY <1>3 DEF SystemDies
<1>4. CASE LogcatAsked \/ LogcatDies
  <2>1. /\ asker = "asking" /\ asker' \in {"gone", "stuck"}
        /\ UNCHANGED <<selinux, zygoteVars, serviceVars, blocker, disturbed, children>>
    BY <1>4 DEF LogcatAsked, LogcatDies
  <2>2. TypeOK' /\ Stopped'
    BY <2>1
  <2>3. Forked' /\ HostConfined' /\ SystemConfined' /\ Registered'
    BY <2>1
  <2>4. WaitsForLivedService' /\ Restricted' /\ LoadedForksUnmapped'
    BY <2>1
  <2> QED BY <2>2, <2>3, <2>4
<1> QED  BY <1>1, <1>2, <1>3, <1>4

(* The inductive invariant: every step of every process keeps it. *)
THEOREM StartupInvariant == Spec => []IInv
<1>1. ASSUME IInv, [Next]_vars PROVE IInv'
  <2>1. CASE \E z \in Zygotes : ZygoteStep(z) \/ HostStep(z) \/ ForkChild(z) \/ HostDies(z)
    <3>1. PICK z \in Zygotes : ZygoteStep(z) \/ HostStep(z) \/ ForkChild(z) \/ HostDies(z)
      BY <2>1
    <3> QED  BY <1>1, <3>1, ZygoteKeeps, HostKeeps, ZygoteAssumption DEF ZygoteStep, HostStep
  <2>2. CASE AppStep
    BY <1>1, <2>2, AppKeeps, ZygoteAssumption DEF AppStep
  <2>3. CASE ConfineSystem \/ RegisterSystem \/ SystemDies \/ LogcatAsked \/ LogcatDies
    BY <1>1, <2>3, SystemKeeps, ZygoteAssumption
  <2>4. CASE UNCHANGED vars
    BY <1>1, <2>4 DEF vars, zygoteVars, serviceVars, logcatVars, IInv, TypeOK, Forked, HostConfined,
       SystemConfined, Registered, WaitsForLivedService, Restricted, Stopped,
       LoadedForksUnmapped, Confined
  <2> QED  BY <1>1, <2>1, <2>2, <2>3, <2>4 DEF Next
<1> QED  BY <1>1, InitEstablishes, ZygoteAssumption, PTL DEF Spec

(* Every variable keeps its type, and getService() its bound. *)
THEOREM StartupTypes == Spec => []TypeOK
BY StartupInvariant, PTL DEF IInv

(* No process is known to the service manager, or runs a looper, before it has  *)
(* given up its privileges.                                                     *)
THEOREM ServicesAreConfined == Spec => []ServesConfined
<1>1. IInv => ServesConfined
  BY ZygoteAssumption DEF IInv, HostConfined, SystemConfined, Registered, ServesConfined,
     Zygotes
<1> QED  BY <1>1, StartupInvariant, PTL

(* The app service serves only once the system service has registered it. *)
THEOREM AppServiceComesSecond == Spec => []AppAfterSystem
<1>1. IInv => AppAfterSystem
  BY DEF IInv, Registered, AppAfterSystem
<1> QED  BY <1>1, StartupInvariant, PTL

(* A zygote's first access, which has no timeout, meets a service that has run. *)
THEOREM ZygoteWaitsForItsService == Spec => []WaitsForLivedService
BY StartupInvariant, PTL DEF IInv

(* A flag file created by the safemode trigger takes effect in the same boot, unless  *)
(* it is the primary zygote that asks for it, while logcat may be calling.             *)
THEOREM StoppedBootLoadsNothing == Spec => []StoppedNotLoaded
<1>1. IInv => StoppedNotLoaded
  BY DEF IInv, Stopped, StoppedNotLoaded
<1> QED  BY <1>1, StartupInvariant, PTL

(* What a zygote with Xposed forks cannot reach the shared memory. *)
THEOREM ForksOfLoadedAreUnmapped == Spec => []LoadedForksUnmapped
BY StartupInvariant, PTL DEF IInv
=============================================================================
