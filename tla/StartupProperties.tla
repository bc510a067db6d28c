------------------------- MODULE StartupProperties -------------------------
(***************************************************************************)
(* What a boot promises: XposedStartup.                                    *)
(***************************************************************************)
EXTENDS XposedStartup

Contexts == {"zygote", "system", "app"}
Uids == {"root", "installer", "other"}
Credentials == [uid : Uids, caps : BOOLEAN, context : Contexts]
ZygotePcs == {"start", "uid", "init", "forkSystem", "forkHost", "wait", "logcat",
              "restrict", "safemode", "disabled", "jar", "plain", "loaded"}
HostStates == {"none", "born", "switched", "confined", "looked", "registered",
               "serving", "stale", "gone"}

(* Every variable has its type; getService() looks a bounded number of times. *)
TypeOK ==
  /\ selinux \in BOOLEAN
  /\ pc \in [Zygotes -> ZygotePcs]
  /\ uid \in [Zygotes -> {"unset", "installer"}]
  /\ mem \in [Zygotes -> {"none", "shared", "private"}]
  /\ host \in [Zygotes -> HostStates]
  /\ cred \in [Zygotes -> Credentials]
  /\ sys \in {"none", "born", "confined", "registered", "gone"}
  /\ sysCred \in Credentials
  /\ registry \subseteq {"system", "app"}
  /\ lookups \in 0..MaxRetries
  /\ blocker \in BOOLEAN
  /\ stopped \in [Zygotes -> {"no", "created", "failed"}]
  /\ asker \in {"none", "asking", "gone", "stuck"}
  /\ disturbed \in BOOLEAN
  /\ children \subseteq [zygote : Zygotes, loaded : BOOLEAN, mapped : BOOLEAN]

\* A process that is confined as its service requires.
Confined(c, context) == ~c.caps /\ c.context = IF selinux THEN context ELSE "zygote"

(* A process answers requests (its name is known to the service manager, or it  *)
(* runs a looper) only after it has given up its capabilities and has entered    *)
(* its SELinux context, and the app service only as Xposed Installer's user.      *)
ServesConfined ==
  /\ "system" \in registry => Confined(sysCred, "system")
  /\ "app" \in registry => cred[Primary].uid = "installer"
  /\ \A z \in Zygotes :
       host[z] \in {"registered", "serving"} => Confined(cred[z], "app")

(* The app service is registered through the system service: it serves only when  *)
(* the system service, which starts concurrently, has got as far as registering    *)
(* itself and has passed the registration on to the service manager.              *)
AppAfterSystem ==
  host[Primary] \in {"registered", "serving"} =>
    /\ "app" \in registry
    /\ sys \in {"registered", "gone"}

(* Where SELinux keeps the zygote from the files, it goes on to its first access,   *)
(* which waits without a timeout, only after its service has come up.              *)
WaitsForLivedService ==
  \A z \in Zygotes :
    selinux /\ pc[z] \in {"logcat", "restrict", "safemode", "disabled", "jar", "loaded"}
      => host[z] \in {"serving", "stale"}

(* A zygote in which the safemode trigger has made disableXposed() create the      *)
(* flag file does not load Xposed in the same boot, whatever the other zygote and  *)
(* the services do: only the primary zygote may, if SELinux makes it ask through    *)
(* the shared memory while logcat's question is not yet answered.  Where the file    *)
(* could not be created, any zygote may: xposed.cpp:255 does not look.              *)
StoppedNotLoaded ==
  \A z \in Zygotes :
    stopped[z] = "created" /\ pc[z] = "loaded" => z = Primary /\ selinux /\ disturbed

(* No process forked by a zygote that has loaded Xposed reaches the shared memory. *)
LoadedForksUnmapped == \A c \in children : c.loaded => ~c.mapped

(* xposed.cpp:128, "Don't let any further forks access the Zygote service": no     *)
(* process forked after initialize() reaches the shared memory.                  *)
FurtherForksUnmapped == \A c \in children : ~c.mapped

(* xposed.cpp:485, "Switch UID/GID to the ones of Xposed Installer.": a process    *)
(* that has switched and serves a zygote is that user's.                         *)
ServesAsInstaller ==
  \A z \in Zygotes : host[z] = "serving" => cred[z].uid = "installer"

(* initialize() returns, whichever way the services start or fail to, unless the   *)
(* zygote waits for the answer of a service that has died, or for the shared memory *)
(* a client has died in.                                                           *)
InitializeReturns ==
  \A z \in Zygotes :
    <>(\/ pc[z] \in {"plain", "loaded"}
       \/ selinux /\ host[z] = "stale"
       \/ z = Primary /\ asker = "stuck")
=============================================================================
