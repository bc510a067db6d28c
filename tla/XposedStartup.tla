--------------------------- MODULE XposedStartup ---------------------------
(***************************************************************************)
(* One boot: initialize() of xposed.cpp in the primary zygote and in the   *)
(* secondary ones, the service processes they fork (xposed_service.cpp)    *)
(* and what the processes forked later inherit.                            *)
(*                                                                         *)
(* Each zygote has a host, the process whose looper serves its shared      *)
(* memory: the app service for the primary zygote, the membased service    *)
(* for a secondary one.  Only the primary zygote also starts the system    *)
(* service, through which its host registers with the service manager.     *)
(* MembasedService models what goes on inside the shared memory; here a    *)
(* query gets an answer as long as the host serves, and it is the truth    *)
(* unless another client may be calling: the process that logcat::start()  *)
(* forks asks one question of its own, and the answer to a query is read   *)
(* from the shared memory when others may use that again.                  *)
(***************************************************************************)
EXTENDS Naturals

CONSTANTS
  Primary,     \* the zygote started with --start-system-server
  Secondary,   \* the others
  MayDie,      \* whether service processes may be killed
  MaxRetries   \* how often getService() looks before it returns NULL

Zygotes == {Primary} \cup Secondary

ASSUME ZygoteAssumption ==
  /\ Primary \notin Secondary
  /\ MayDie \in BOOLEAN
  /\ MaxRetries \in Nat \ {0}

VARIABLES
  selinux,    \* xposed->isSELinuxEnabled
  pc,         \* where each zygote is in initialize()
  uid,        \* xposed->installer_uid and _gid of each zygote
  mem,        \* the membased region of each zygote: "none", "shared", "private"
  host,       \* where the host of each zygote is
  cred,       \* the credentials each host runs with
  sys,        \* where the system service is
  sysCred,    \* the credentials it runs with
  registry,   \* the names the service manager knows
  lookups,    \* how often the app service has looked for the system service
  blocker,    \* whether the flag file XPOSED_LOAD_BLOCKER exists
  stopped,    \* per zygote: "no", or whether disableXposed() "created" the flag file
              \* or "failed" to
  asker,      \* the process that asks for XPOSEDLOG_CONF_ALL: "none", "asking", "gone",
              \* or "stuck", if it was killed with its request in the shared memory
  disturbed,  \* history: it may have been calling when isDisabled() was asked
  children    \* what the processes forked later have inherited

zygoteVars == <<pc, uid, mem, stopped>>
serviceVars == <<host, cred, sys, sysCred, registry, lookups>>
logcatVars == <<asker, disturbed>>
vars == <<selinux, zygoteVars, serviceVars, blocker, logcatVars, children>>

Root == [uid |-> "root", caps |-> TRUE, context |-> "zygote"]

Init ==
  /\ selinux \in BOOLEAN
  /\ pc = [z \in Zygotes |-> "start"]
  /\ uid = [z \in Zygotes |-> "unset"]
  /\ mem = [z \in Zygotes |-> "none"]
  /\ host = [z \in Zygotes |-> "none"]
  /\ cred = [z \in Zygotes |-> Root]
  /\ sys = "none"
  /\ sysCred = Root
  /\ registry = {}
  /\ lookups = 0
  /\ blocker \in BOOLEAN
  /\ stopped = [z \in Zygotes |-> "no"]
  /\ asker = "none"
  /\ disturbed = FALSE
  /\ children = {}

----------------------------------------------------------------------------
(* A zygote: initialize() *)

\* The next step of initialize(); "plain" is its return value false.
Goto(z, from, to) == pc[z] = from /\ pc' = [pc EXCEPT ![z] = to]

\* Any step that can fail may return false instead.
FailsAt(z) ==
  /\ pc[z] \in {"start", "uid", "init", "forkSystem", "forkHost", "jar"}
  /\ pc[z] = "init" => selinux
  /\ pc' = [pc EXCEPT ![z] = "plain"]
  /\ UNCHANGED <<selinux, uid, mem, stopped, serviceVars, blocker, logcatVars, children>>

\* isMinimalFramework() is false; a secondary zygote sleeps, which orders nothing.
Begin(z) ==
  /\ Goto(z, "start", IF z = Primary THEN "uid"
                      ELSE IF selinux THEN "init" ELSE "safemode")
  /\ UNCHANGED <<selinux, uid, mem, stopped, serviceVars, blocker, logcatVars, children>>

\* determineXposedInstallerUidGid(), which only the primary zygote calls.
DetermineUid(z) ==
  /\ Goto(z, "uid", "init")
  /\ uid' = [uid EXCEPT ![z] = "installer"]
  /\ UNCHANGED <<selinux, mem, stopped, serviceVars, blocker, logcatVars, children>>

\* membased::init(), if SELinux is enabled.
InitMembased(z) ==
  /\ Goto(z, "init", IF z = Primary THEN "forkSystem" ELSE "forkHost")
  /\ mem' = IF selinux THEN [mem EXCEPT ![z] = "shared"] ELSE mem
  /\ UNCHANGED <<selinux, uid, stopped, serviceVars, blocker, logcatVars, children>>

ForkSystem(z) ==
  /\ Goto(z, "forkSystem", "forkHost")
  /\ sys' = "born"
  /\ UNCHANGED <<selinux, uid, mem, stopped, host, cred, sysCred, registry, lookups,
                 blocker, logcatVars, children>>

ForkHost(z) ==
  /\ Goto(z, "forkHost", IF selinux THEN "wait" ELSE "logcat")
  /\ host' = [host EXCEPT ![z] = "born"]
  /\ UNCHANGED <<selinux, uid, mem, stopped, cred, sys, sysCred, registry, lookups,
                 blocker, logcatVars, children>>

\* checkMembasedRunning(); the state stays running when the host dies.
SeesRunning(z) ==
  /\ Goto(z, "wait", IF z = Primary THEN "logcat" ELSE "restrict")
  /\ host[z] \in {"serving", "stale"}
  /\ UNCHANGED <<selinux, uid, mem, stopped, serviceVars, blocker, logcatVars, children>>

\* Mutant: the result of checkMembasedRunning() is ignored.
TimeoutIgnored(z) ==
  /\ Goto(z, "wait", IF z = Primary THEN "logcat" ELSE "restrict")
  /\ UNCHANGED <<selinux, uid, mem, stopped, serviceVars, blocker, logcatVars, children>>

\* Mutant: the timeout only makes the wait start again.
WaitsAgain(z) ==
  /\ Goto(z, "wait", "wait")
  /\ UNCHANGED <<selinux, uid, mem, stopped, serviceVars, blocker, logcatVars, children>>

TimesOut(z) ==
  /\ Goto(z, "wait", "plain")
  /\ UNCHANGED <<selinux, uid, mem, stopped, serviceVars, blocker, logcatVars, children>>

\* logcat::start(): the daemon inherits the memory, on purpose; a failing fork
\* is only logged.
StartLogcat(z) ==
  /\ Goto(z, "logcat", IF selinux THEN "restrict" ELSE "safemode")
  /\ asker' \in IF selinux THEN {"asking", "gone"} ELSE {asker}
  /\ UNCHANGED <<selinux, uid, mem, stopped, serviceVars, blocker, disturbed, children>>

\* Mutant: the region stays inheritable.
RestrictNothing(z) ==
  /\ Goto(z, "restrict", "safemode")
  /\ UNCHANGED <<selinux, uid, mem, stopped, serviceVars, blocker, logcatVars, children>>

\* restrictMemoryInheritance()
Restrict(z) ==
  /\ Goto(z, "restrict", "safemode")
  /\ mem' = [mem EXCEPT ![z] = "private"]
  /\ UNCHANGED <<selinux, uid, stopped, serviceVars, blocker, logcatVars, children>>

\* zygote_access() answers; with SELinux it waits for the looper, and for the slot in
\* the shared memory, for ever.
Answers(z) == selinux => host[z] = "serving" /\ (z = Primary => asker # "stuck")

\* What it may answer: result and errno are read behind makeIdle(), so they may be those
\* of another client's call.
MayBeAnothers(z) == z = Primary /\ asker = "asking"
AnswersTo(z, truth) == IF MayBeAnothers(z) THEN BOOLEAN ELSE {truth}

\* detectSafemodeTrigger(), unless isSafemodeDisabled(), and disableXposed() if it is
\* triggered; creating the flag file may fail, which nobody looks at.
CheckSafemode(z) ==
  /\ Goto(z, "safemode", "disabled")
  /\ Answers(z)
  /\ \E outcome \in {"no", "created", "failed"} :
       /\ blocker' = (blocker \/ outcome = "created")
       /\ stopped' = [stopped EXCEPT ![z] = outcome]
  /\ UNCHANGED <<selinux, uid, mem, serviceVars, logcatVars, children>>

\* Mutant: isDisabled() was asked before the safemode trigger.
IsDisabledAskedBefore(z) ==
  /\ \E found \in AnswersTo(z, blocker /\ stopped[z] # "created") :
       Goto(z, "disabled", IF found THEN "plain" ELSE "jar")
  /\ Answers(z)
  /\ disturbed' = (disturbed \/ MayBeAnothers(z))
  /\ UNCHANGED <<selinux, uid, mem, stopped, serviceVars, blocker, asker, children>>

IsDisabled(z) ==
  /\ \E found \in AnswersTo(z, blocker) :
       Goto(z, "disabled", IF found THEN "plain" ELSE "jar")
  /\ Answers(z)
  /\ disturbed' = (disturbed \/ MayBeAnothers(z))
  /\ UNCHANGED <<selinux, uid, mem, stopped, serviceVars, blocker, asker, children>>

\* addJarToClasspath(); initialize() returns true.
AddJar(z) ==
  /\ Goto(z, "jar", "loaded")
  /\ UNCHANGED <<selinux, uid, mem, stopped, serviceVars, blocker, logcatVars, children>>

\* The runtime is up: the zygote forks processes from now on.
ForkChild(z) ==
  /\ pc[z] \in {"plain", "loaded"}
  /\ children' = children \cup
       {[zygote |-> z, loaded |-> pc[z] = "loaded", mapped |-> mem[z] = "shared"]}
  /\ UNCHANGED <<selinux, zygoteVars, serviceVars, blocker, logcatVars>>

ZygoteStep(z) ==
  \/ FailsAt(z) \/ Begin(z) \/ DetermineUid(z) \/ InitMembased(z) \/ ForkSystem(z)
  \/ ForkHost(z) \/ SeesRunning(z) \/ TimesOut(z) \/ StartLogcat(z) \/ Restrict(z)
  \/ CheckSafemode(z) \/ IsDisabled(z) \/ AddJar(z)

----------------------------------------------------------------------------
(* The process that becomes logcat: execLogcat() *)

\* It has its answer, or ends without asking.
LogcatAsked ==
  /\ asker = "asking"
  /\ asker' = "gone"
  /\ UNCHANGED <<selinux, zygoteVars, serviceVars, blocker, disturbed, children>>

----------------------------------------------------------------------------
(* The system service: systemService() *)

\* dropCapabilities() and setcon(); a failure ends the process.
Confine(c, context) ==
  [uid |-> c.uid, caps |-> FALSE, context |-> IF selinux THEN context ELSE c.context]

ConfineSystem ==
  /\ sys = "born"
  /\ \/ /\ sys' = "confined"
        /\ sysCred' = Confine(sysCred, "system")
     \/ selinux /\ sys' = "gone" /\ UNCHANGED sysCred
  /\ UNCHANGED <<selinux, zygoteVars, host, cred, registry, lookups, blocker, logcatVars, children>>

RegisterSystem ==
  /\ sys = "confined"
  /\ \/ sys' = "registered" /\ registry' = registry \cup {"system"}
     \/ sys' = "gone" /\ UNCHANGED registry
  /\ UNCHANGED <<selinux, zygoteVars, host, cred, sysCred, lookups, blocker, logcatVars, children>>

----------------------------------------------------------------------------
(* The hosts: appService(), and the child in startMembased() *)

\* Whenever a host ends, the service manager forgets its name.
HostExits(z) ==
  /\ host' = [host EXCEPT ![z] = "gone"]
  /\ registry' = IF z = Primary THEN registry \ {"app"} ELSE registry
  /\ UNCHANGED <<selinux, zygoteVars, cred, sys, sysCred, lookups, blocker, logcatVars, children>>

\* switchToXposedInstallerUidGid(): the fields are read as fork() copied them;
\* uninitialized ones hold whatever the allocator left there.
SwitchUid(z) ==
  /\ host[z] = "born"
  /\ host' = [host EXCEPT ![z] = "switched"]
  /\ \E u \in IF uid[z] = "unset" THEN {"installer", "root", "other"} ELSE {uid[z]} :
       cred' = [cred EXCEPT ![z].uid = u]
  /\ UNCHANGED <<selinux, zygoteVars, sys, sysCred, registry, lookups,
                 blocker, logcatVars, children>>

\* Mutant: the context is left as it is.
ConfineHostNoContext(z) ==
  /\ host[z] = "switched"
  /\ host' = [host EXCEPT ![z] = "confined"]
  /\ cred' = [cred EXCEPT ![z].caps = FALSE]
  /\ UNCHANGED <<selinux, zygoteVars, sys, sysCred, registry, lookups,
                 blocker, logcatVars, children>>

\* dropCapabilities() and setcon().
ConfineHost(z) ==
  /\ host[z] = "switched"
  /\ host' = [host EXCEPT ![z] = "confined"]
  /\ cred' = [cred EXCEPT ![z] = Confine(@, "app")]
  /\ UNCHANGED <<selinux, zygoteVars, sys, sysCred, registry, lookups,
                 blocker, logcatVars, children>>

\* The error paths that end a host: the switch of the UID, setcon(), the answer of
\* addService(), the creation of the looper's thread.
HostFails(z) ==
  /\ \/ host[z] \in {"born", "looked"}
     \/ host[z] \in {"switched", "registered"} /\ selinux
  /\ HostExits(z)

\* getService() of the system service: it looks again for a while, then returns
\* NULL, which the caller uses, so that the process dies.
\* Mutant: getService() never gives up.
AppLooksForEver ==
  /\ host[Primary] = "confined"
  /\ "system" \notin registry
  /\ lookups' = lookups + 1
  /\ UNCHANGED <<selinux, zygoteVars, host, cred, sys, sysCred, registry,
                 blocker, logcatVars, children>>

AppLooksAgain ==
  /\ host[Primary] = "confined"
  /\ "system" \notin registry
  /\ lookups < MaxRetries
  /\ lookups' = lookups + 1
  /\ UNCHANGED <<selinux, zygoteVars, host, cred, sys, sysCred, registry,
                 blocker, logcatVars, children>>

AppFindsNothing ==
  /\ host[Primary] = "confined"
  /\ "system" \notin registry
  /\ lookups = MaxRetries
  /\ HostExits(Primary)

AppFindsSystem ==
  /\ host[Primary] = "confined"
  /\ "system" \in registry
  /\ host' = [host EXCEPT ![Primary] = "looked"]
  /\ UNCHANGED <<selinux, zygoteVars, cred, sys, sysCred, registry, lookups,
                 blocker, logcatVars, children>>

\* Mutant: the result of the registration is not looked at.
RegisterAppUnchecked ==
  /\ host[Primary] = "looked"
  /\ host' = [host EXCEPT ![Primary] = "registered"]
  /\ registry' = IF sys = "registered" THEN registry \cup {"app"} ELSE registry
  /\ UNCHANGED <<selinux, zygoteVars, cred, sys, sysCred, lookups, blocker, logcatVars, children>>

\* addService() of the system service, which checks the caller's UID and passes
\* the registration on; a dead one answers with an error (see HostFails).
RegisterApp ==
  /\ host[Primary] = "looked"
  /\ sys = "registered"
  /\ cred[Primary].uid = uid[Primary]
  /\ host' = [host EXCEPT ![Primary] = "registered"]
  /\ registry' = registry \cup {"app"}
  /\ UNCHANGED <<selinux, zygoteVars, cred, sys, sysCred, lookups, blocker, logcatVars, children>>

\* The looper starts, in a thread of the app service or as the whole process.
Serve(z) ==
  /\ host[z] = IF z = Primary THEN "registered" ELSE "confined"
  /\ host' = [host EXCEPT ![z] = "serving"]
  /\ UNCHANGED <<selinux, zygoteVars, cred, sys, sysCred, registry, lookups,
                 blocker, logcatVars, children>>

HostStep(z) ==
  SwitchUid(z) \/ ConfineHost(z) \/ HostFails(z) \/ Serve(z)

AppStep == AppLooksAgain \/ AppFindsNothing \/ AppFindsSystem \/ RegisterApp

----------------------------------------------------------------------------
(* Processes may be killed; the service manager forgets their names. *)

SystemDies ==
  /\ MayDie
  /\ sys \notin {"none", "gone"}
  /\ sys' = "gone"
  /\ registry' = registry \ {"system"}
  /\ UNCHANGED <<selinux, zygoteVars, host, cred, sysCred, lookups, blocker, logcatVars, children>>

\* Once the looper has run, the state in the shared memory is left as it was.
HostDies(z) ==
  /\ MayDie
  /\ host[z] \notin {"none", "gone", "stale"}
  /\ host' = [host EXCEPT ![z] = IF @ = "serving" THEN "stale" ELSE "gone"]
  /\ registry' = IF z = Primary THEN registry \ {"app"} ELSE registry
  /\ UNCHANGED <<selinux, zygoteVars, cred, sys, sysCred, lookups, blocker, logcatVars, children>>

\* Killed between posting its request and makeIdle().
LogcatDies ==
  /\ MayDie
  /\ asker = "asking"
  /\ asker' = "stuck"
  /\ UNCHANGED <<selinux, zygoteVars, serviceVars, blocker, disturbed, children>>

Next ==
  \/ \E z \in Zygotes : ZygoteStep(z) \/ HostStep(z) \/ ForkChild(z) \/ HostDies(z)
  \/ ConfineSystem \/ RegisterSystem \/ AppStep \/ SystemDies \/ LogcatAsked \/ LogcatDies

Spec == Init /\ [][Next]_vars

\* The kernel schedules every process, and timed waits end.
FairSpec ==
  /\ Spec
  /\ \A z \in Zygotes : WF_vars(ZygoteStep(z)) /\ WF_vars(HostStep(z))
  /\ WF_vars(ConfineSystem \/ RegisterSystem)
  /\ WF_vars(AppStep)
=============================================================================
