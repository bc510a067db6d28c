# A formal model of Xposed's native side

Xposed replaces Android's `app_process`. Its native code starts helper processes at boot, gives the
zygote a way to look at files that SELinux would keep from it, hooks methods in the Java runtime and
keeps the descriptors of application files out of forked processes. This directory models the parts
in which processes meet: TLA+ modules, TLC configurations for small instances, and theorems checked
by TLAPS for every value of the constants.

## 1. The system

| Component | State it keeps | Operations | Model |
|---|---|---|---|
| Memory-based Zygote service (`xposed_service.cpp`, `membased`) | one request slot in shared memory, a mutex, a condition variable; per process the pointer and `canAlwaysAccessService` | `looper`; `accessFile`, `statFile`, `readFile`; `waitForRunning`, `restrictMemoryInheritance` | `MembasedService`, abstractly `FileService` |
| Start-up (`xposed.cpp`, `xposed_service.cpp`) | the `XposedShared` structure, the forked services, the service manager's names, the flag file | `initialize`, `startAll`, `startMembased`, `systemService`, `appService`, `isDisabled`, `disableXposed` | `XposedStartup` |
| Safemode trigger (`xposed_safemode.cpp`) | open input devices, the key, the count, a deadline | `openKeyDevices`, `detectSafemodeTrigger` | `SafemodeTrigger` |
| Descriptor table (`fd_utils-inl.h`, `libxposed_art.cpp`) | what a descriptor led to before a fork | `Create`, `Detach`, `Reopen` | `FdTable` |
| Log daemon (`xposed_logcat.cpp`) | pipe, log files, whether the marker was seen | `printStartupMarker`, `start`, `runDaemon`, `execLogcat` | `LogcatDaemon` |
| Binder service (`xposed_service.cpp`, `binder`) | none between requests | `readFile`, `statFile`, `accessFile`, `addService`, `test` | `BinderFileService` (`readFile`), `XposedStartup` (`addService`) |
| Dalvik hooks (`libxposed_dalvik.cpp`) | the fields of a hooked `Method`, an `XposedHookInfo` for each hook, the JIT's cache | `hookMethodNative`, `hookedMethodCallback`, `invokeOriginalMethodNative` | `DalvikHook` |
| Command line (`app_main.cpp`, `app_main2.cpp`) | what was read of the arguments | `main`, `handleOptions` | `CommandLine`, used by `BridgeInit` |
| Library loading (`libxposed_common.cpp`, `xposed.cpp`) | class and method references, natives registered, `xposedLoadedSuccessfully` | `onVmCreated`, `initXposedBridge`, `initZygoteService`, `hadInitErrors`, `initXResourcesNative` | `BridgeInit` |
| Resources (`libxposed_common.cpp`) | none: it rewrites the XML file it is given | `rewriteXmlReferencesNative` | `XmlReferences`, used by `BridgeInit` |
| ART bridge (`libxposed_art.cpp`) | none | `onVmCreated`, the descriptor natives, hooks handed to the patched runtime | `BridgeInit`, `FdTable`; the runtime is not here |

How they interact. `initialize()` in the primary zygote forks the system service and the app service.
The app service registers through the system service (binder) and then runs `looper` in a thread; a
secondary zygote has a process of its own for that. The zygote waits for the looper, forks the log
daemon (whose logcat child is the one other client of the shared memory), calls
`restrictMemoryInheritance()`, and asks for flag files through the shared memory. Later, Java code
forks applications between `closeFilesBeforeForkNative` and `reopenFilesAfterForkNative`.

Every process, zygote or not, goes through `main()`, which reads the arguments, and the creation of
the VM, where `xposed::onVmCreated()` loads the library for the runtime. The library looks up what it
needs of `XposedBridge`, registers natives, and leaves `xposedLoadedSuccessfully`. Java code asks
`hadInitErrors()` and, if there were none, hooks methods and has resources rewritten.

What is hard: a slot that one process owns across several unlocks; one condition variable for four
kinds of waits; results read after the unlock; processes that die anywhere, with a mutex that is not
robust; services that race each other to the service manager; early returns that skip a later step;
events of several devices in one batch; files that change between two system calls; descriptors that
two processes share until both have opened them again; a structure of the runtime that is rewritten
field by field, without a lock, under the threads that use it; an initialisation of a dozen lookups,
each of which may fail behind natives that are already registered. `PROJECT.json` lists these hazards by line.

## 2. Modules

Each system module holds the state, one action per handler or per step between two points where
another process may act, and the specification. Its `...Properties` module states what is checked,
`MC...` gives values to constants, and `...Proofs` the theorems. Definitions introduced by "Mutant:"
are plausible bugs beside the definition they replace; no specification uses them.

**FileService** is what a caller is promised: a query is one look at the file between call and return;
a read gathers consecutive pieces, each of them a look of its own, or is given up and says so. Where
`fseek` may fail (`SeekFails`), a read may be given its last piece once more (`RepeatPiece`): it is
what the code promises less than one would like, and no more than that.

**MembasedService.** `shm` is `MemBasedState` without its mutex and condition, `mutex` the owner of
`workerMutex`, `waiting` the processes inside `pthread_cond_wait`. A broadcast empties `waiting`.
`pc[c]` tells where a client is: `waitIdle` (`waitForIdle`), `slot` (filling in the request, with the
mutex), `posted` (in `callService`, without it), `answered` (with it), `ret1..ret3` (behind
`makeIdle`, without it). `my[c]` holds the locals of the call; `got` is a history variable, the answer
at the moment of `makeIdle`. The union `data` is modelled by `layout`: a result read through another
member is any value. `space` and `dontfork` are what `fork` and `madvise` do to the region. The
looper's `stat` and `fopen`/`fread` are two steps, so a file can change between them. Critical
sections in which nothing outside can be seen (lock, look, wait) are one action; a death may leave the
mutex locked there all the same.

**XposedStartup.** `pc[z]` walks through `initialize()`; `host[z]` is the process that serves zygote
`z` (`stale`: it died after its looper had run, which leaves the state in the shared memory as it
was), `cred` its UID, capabilities and SELinux context, `registry` the service manager. `FailsAt` is
every early return. A query of the zygote waits for the host without a time-out. A flag file in
`XPOSED_LOAD_BLOCKER` is `blocker`. `asker` is the process that becomes logcat and asks one question
through the same shared memory: while it may be asking, the zygote may be given its answer
(`AnswersTo`, which is what `membased_flag` finds in `MembasedService`), and if it is killed with its
request in the slot the zygote waits for ever. `stopped` tells whether `disableXposed()` created the
flag file or failed to. In a secondary zygote `uid` is `unset`, as only the primary one
determines it, and what the service switches to is any UID.

**SafemodeTrigger.** The kernel's queues (`queue`, bounded), the user (`Press`, `Release`) and time
(`Tick`) go on beside the program. A device is opened (`OpenDevice`) and asked for its held keys
(`AskHeld`) in two steps, and a key pressed between them is held and queued. `Wait` is `epoll_wait`: it returns the set of ready devices, and one
event of each is read, in any order, before the loop's condition is looked at again.

**FdTable.** `open[p][fd]` is what a process sees through a descriptor and `shared` the descriptors
through which both processes see one open file, whose position moves for both. `Detach`, `fork` and
`Reopen` are actions, each system call may fail, files may be removed, the child runs along with the
zygote, and the zygote forks again. Two history variables name what went wrong: `undetached`, the files
the zygote could not detach before this fork, and `lost[p]`, what process `p`, or the zygote before it
was forked, could not open again.

**LogcatDaemon.** The system log is a ring of entries with the boots' markers; logcat prints what is
left of it; an entry is read in pieces as `fgets` returns them, of which only matters whether they
begin with `-`. Each `write` may fail, which nobody looks at (`failed`), and the line "Reached maximum log
size" is written behind the limit (`Notice`). A boot may begin at any moment, which ends the processes
of the one before.

**BinderFileService.** One request of a client that keeps its copy and sends its size and time.
`ToInt32` is the conversion to `int32_t` for a small `MaxInt`. Other programs write or replace the
file between the server's steps. Times are whole seconds, as in `st_mtime`; the reply carries them
whole, and only the comparison at line 712 takes them as `int32_t`. The name of the file is freed
before `stat` and `fopen` use it, so each of them may be about another file or none (`Elsewhere`);
`astray` tells for which of them it was.

**DalvikHook.** Of a field of a `Method` only matters who wrote it: 0 is what the runtime put there, `i`
the hook with the `i`-th `XposedHookInfo`, as all hooks write the same values except to `insns`. A hook
is the check (`StartHook`), the copy (`SaveCopy`), one `WriteField` for each store, in any order, as
neither the compiler nor the processor is told otherwise, and `ResetJitCache`. A call makes its frame
(`StartCall`), looks at the structure (`Run`, `Callback`) or runs a translation (`RunTranslation`); a
handler may call the original it was given (`CallOriginal`), and anybody may call
`invokeOriginalMethodNative`. `frame` holds the argument and word that each register carries, and `Box`
is the loop that boxes them. What the runtime does with a structure that is half written is `crashed`.
Four history variables tell the calls apart: `before`, the method was hooked when the call began;
`quiet`, no hook of it was under way since; `handled`, what the handler got; `raced`, the methods two
threads have hooked at once. The stores to the `Method` may take effect in any order; `codeCacheFull` is
set behind them all, where the program has it.

**CommandLine.** What both `main()` functions read, one argument at a time (`Read`), as a recursive
function over the arguments; an argument is one string, as only its class matters. **XmlReferences** is
`rewriteXmlReferencesNative` as a recursive function over the attributes, with Java's translations as
its input.

**BridgeInit.** One process from `main()` to Java's questions. `phase` is the place; `refs` is what has
been looked up or registered, in the code's order, and `Lookups` fails behind any prefix of it. What
`initialize()` answers is any Boolean here, and `XposedStartup` there.

**AppProcess** composes `BridgeInit` with `DalvikHook`: Java code hooks methods only in a process that
was told that there were no errors.

## 3. Runs

| Run | Bounds | Shows |
|---|---|---|
| `membased_slot` | zygote and one child, each operation, 4 file states, one path too long, one call each, one spurious wakeup, anyone may be killed | one owner of the slot, its request stays, no lost wakeup, no unmapped access, true answers; calls return and the start-up is decided |
| `membased_refine` | two clients, a file with two changes among 4 states, the child may be killed, `fseek` and `fread` may fail | the abstract service is implemented; a client that is alone gets its own answer back; only a first chunk can exceed the buffer |
| `membased_flag` | two clients, files that do not change | **violated**: a query can return another request's error |
| `startup` | a primary and a secondary zygote, with and without SELinux, services and the process that becomes logcat may be killed, `getService` looks twice | services serve only confined and in order; Xposed only behind a service that came up, and behind a trigger that created the flag file only where logcat's question disturbs the answer; `initialize()` returns |
| `startup_forks`, `startup_installer` | the same | **violated**, see section 6 |
| `safemode` | three devices (one without keys), two keys, 3 presses, 2 ticks, queues of 1 | no blocking read, no trigger from another key or fewer presses, but for the one that was both held and queued, no wait that is hopeless, termination |
| `safemode_first` | two devices | **violated**, see section 6 |
| `fd_table` | a file, a socket, a system file; two forks; any call may fail | private positions, nothing shared, a file that cannot be opened again is /dev/null in that process alone, other descriptors as they were |
| `logcat` | three boots, 5 entries, a limit of 2 pieces, any write may fail | the log is what follows the marker, less the failed writes, and the notice; the last log is kept; entries arrive |
| `binder_read` | files of up to 3 bytes, `INT32_MAX` = 3, 4 seconds, 2 requests, any call may fail, the freed name may lead to one other file or to none | while the name leads to the file "unchanged" means same and parts are exact; a buffer is lost only if the file shrinks or the name leads astray |
| `process` | three threads, a method of bytecode with a wide argument and a static native one, two hooks, one call; every command line of up to 4 of 10 arguments, the word `start-system-server` among them; XML files of up to two attributes with ids below and in the range of applications and beyond the sign bit | arguments go where the comment says, unless a zygote is given a class; no native lacks what it needs, whatever failed; names are translated, and references in documents that have none beyond the sign bit; calls no hook overlaps are whole and get their arguments; no stale translation stays |

Why the bounds are enough. After `restrictMemoryInheritance()` only the zygote can call, and before it
only what `logcat::start()` forked, so two clients are the system's own number. Files of a chunk, more
than one and more than two chunks meet every branch of `readFile`; a fifth byte makes a file outgrow
its buffer at the second chunk. One spurious wakeup and one call per client are enough for any pair of
steps to meet, and the theorems drop these bounds. Devices have at most two zygotes. Three presses
have a first, a middle and a last one; one key too many needs two. Two forks make a child that was
forked from a zygote whose files had been reopened. Three boots make a log that is renamed while an
older one is in its place. Two requests make a copy and a comparison with it; the fourth second is the
first that an `int32_t` shows as another. Two hooks make a race of hooks, and the third
thread the call that meets both; what more of them could do is left to the proofs. Four arguments
reach each state of the parser and one argument behind it: it keeps no count, so that longer lists
only repeat. Two attributes make one that comes behind a jump to the end.

Each system module except `BridgeInit` and what it is made of has its type invariant, and each of them is
a theorem; the runs check the first two, `MembasedService`'s and `XposedStartup`'s.

Deadlock is checked where the configuration does not say otherwise; it is not where processes may be
killed (everybody else may then wait for ever, as in the code) or where the system ends: the detection
ends, boots, hooks and calls are counted.

## 4. Fairness

`MembasedService!FairSpec`: weak fairness of the looper, of the zygote's start and of each client
inside a call. The kernel schedules runnable threads, and a timed wait ends. No fairness is assumed of
the mutex (a client may lose the race for it as long as another uses it; calls are bounded), of new
calls, of deaths or of writers. `EveryCallReturns` and `StartupDecided` except what a death leaves
behind: the code has no time-out there. `XposedStartup`: weak fairness of each zygote and service
process; `InitializeReturns` excepts a zygote whose service died after it came up, and the primary one
if logcat's process was killed with its request in the slot. Nothing is assumed of that process. `SafemodeTrigger`:
the program and time go on; none of the user or of failures. `LogcatDaemon`: the three processes run;
that logcat's first question to the zygote's service is answered is `EveryCallReturns`. The other
modules are about safety only and assume none.

## 5. Proofs

TLAPS checks these for every value of the constants that satisfies the module's assumptions: any
clients, files, devices, threads, methods and contents, every chunk size and every bound.

*MembasedProofs.* Types first (`TypeCorrect`), with `PathFits`: a client inside a call has a path that
fits, which makes the slot's path fit. `SlotExclusive` is not inductive, as it says nothing about the
mutex and the state. `SlotInv` adds three parts: `Holder` (whoever is at a place where the code has
the mutex does have it), `StateFits` (the state of the slot fits whoever uses it: while a client has
posted a request or has its answer the state is not idle, which keeps the others out) and
`RequestFits` (the slot's fields are the owner's request, at the offset its read has reached).
`SlotMutualExclusion` and `SlotKeepsRequest` follow.
`NoWakeupIsLost` adds where a sleeper can be: every change of the state is by a process that is not
asleep, with a broadcast. `TouchedMemoryIsMapped` adds that `canAlwaysAccessService` is only inherited
along with the mapping. `LaterPiecesFit` follows the room that is left in a read's buffer, and
`LoneCallerGetsItsAnswer` what stays in the slot behind `makeIdle` while no other client exists.

`AnswersAreTrue` is about what an answer says: as long as no file operation of the looper fails and no
file has changed yet, what a client finds in the slot is the truth about its file. `TruthInv` follows
it from piece to piece: what a read has gathered is the beginning of its file (`Gathered`), what the
looper is about to send is the file's size and the next bytes (`QueryTrue`, `PieceTrue`), and a read ends
when nothing is left, also where the size is a multiple of the chunk's.

*MembasedRefinement.* `MembasedImplementsFileService`: the detailed specification implements
`FileService` under the mapping of `MembasedProperties`. The commit point of a call is the looper's
reply: from then on the abstract call is decided, or has one more piece. The proof relates each
action to one abstract step or a stutter, by way of lemmas that say what a step of one client leaves
unchanged in the view of the others. There is no assumption about failures: if `fseek` fails and
`ferror` is 0 the slot keeps the previous chunk, and `PieceIsKept` shows that what is taken then is
that client's own previous piece, which the abstract service repeats.

*StartupProofs.* `IInv` joins the types with: a host exists only behind its fork (`Forked`), the
credentials each place of a host or of the system service implies (`HostConfined`, `SystemConfined`),
registration order (`Registered`), a zygote past its wait has a host that came up
(`WaitsForLivedService`), one past `restrictMemoryInheritance()` has its memory marked (`Restricted`),
a zygote that has created the flag file finds it, unless it may have been given another client's answer,
which is so only for the primary zygote, under SELinux, while logcat's question is open (`Stopped`).
Each of the six properties of the run is then a theorem.

*FdProofs.* Nothing is excepted but what could not be detached before this fork: sockets and files that
could not be opened again are followed to /dev/null, in the process where it happened. `Typed` says that what is shared looks the same to both processes and that nothing is
shared while the zygote prepares a fork: the properties alone allow a position to be moved by a
process that should not have it. `OtherInv` is about system files. `AppInv` follows one descriptor
through the phases (`PlaceOf`): it is `Good` while a process runs, `Detached` and `Recorded` from
`Detach` to the fork, and one or the other while it is reopened.

*BinderProofs.* `ServerInv` relates the request, the descriptor opened and the bytes read as long as
nobody writes and the name leads to the file (`PartsAreExact`, in spite of the sum that wraps).
`LeaksAreShrunkFiles` needs less: a file that is written but not made shorter costs no buffer. `HistoryInv` says
which versions of the file a copy, an opened file and a reply may be of, given the times they carry.
`UnchangedIsTheSame` assumes that no two times look the same as an `int32_t`
(`MaxTime \in 2..2 * MaxInt + 1`).

*SafemodeProofs.* `QueueInv` (only the program takes events away, and one for each device of the
batch) gives `NoReadBlocks`, `KeyInv` three others. `EnoughPresses` needs `CountInv`: for every key, the
presses the program has taken and those that wait in all the queues together are no more than the
user has made, and one more if that key was found held with a press of it already in the queue
(`Extra`): the key found held is the only press that is not taken from a queue, and once one key is
found no other can add to it. `Waiting` is the set of places of a key's events in the queues; what is left behind a
read has an injection into what there was, without the place that was read (`OneLessWaits`).

*LogcatProofs.* `LastInv` says under which of its names the last log is at each step of `start()`
(`LastLogIsKept`). For `LogFollowsMarker`, `PipeInv` says that a marker is an entry of one piece that
does not begin with `-`, so that it is never skipped, and `CopyInv` that the daemon has found the marker
exactly if it has read it and that the log is the selection of what it has read since, less the writes
that failed, with the notice behind it when the limit is passed. A selection
is stated by counting (`Selects`: the element at a wanted place is in the log at the number of wanted
places up to it), so that it needs no recursive operator.

*ProcessProofs* has the hooks, then the process around them. `OriginalsStayOlder` holds however hooks
race, as a structure only ever holds numbers of infos that exist. `StructInv`: a thread that writes has
written all it has not left to do (`Writers`); a structure that is written in part has someone who will
write the rest (`Pending`); a method that no two threads hooked at once has one info, with the runtime's
copy, and is all hooked or not at all once nobody hooks it (`Alone`). From this, `CallInv` follows a call
that is quiet: how often the handler has seen it and what structure it is about to use
(`QuietCallsAreWhole`). `HandlersGetArguments`: the words of the frame lie behind the method's registers in
the order of the arguments (`LayoutByArgument`), the loop of the callback advances by the width of each
(`BoxByArgument`), so that the boxes hold the arguments (`BoxTakesLayout`), by induction over them.

`ProcessImplementsHooks`: a process's hooks are those of `DalvikHook`, so that the theorems about them
hold there (`ProcessHooksAreWhole`). `BridgeInv` says what each phase has looked up, for
`NativesAlwaysFindTheirs`. `ReferencesAreAlwaysTranslated`, for documents whose references are below the
sign bit, goes from attribute to attribute: behind
each of them the document is translated so far and as it was from there on (`RewrittenUpTo`, `RewriteOne`).
`ArgumentsGoTheirWay` goes from argument to argument: `ParseKnows` says what `main()` knows after reading
`n` of them, in terms of the command line alone, and `CommandInv` that this is what a process has. It
says nothing of the arguments behind the class of a zygote that is given one. Here
the proof corrected the property: it had asked whether `start-system-server` is *among* what is launched,
which is also so if it is one of the caller's own remaining arguments. It now says where
`app_main2.cpp` puts it, first, and the run has such an argument.

Induction over data. The library's induction theorems take an operator as a parameter, which the provers
cannot instantiate. `LeastNatural` takes a least element from `NatLessThanWellFounded` and `WFMin`
instead, and `InductionUpTo` is induction for a set of numbers below a bound, which is first-order;
`Recursion` gives the recursive functions of the model their equations. A property of every prefix of a
list is then a set of numbers.

Type correctness of the other modules: `FdTypeCorrect`; `BinderTypeCorrect` (what was opened fits in
`int32_t`, so that what is read of it does; `MaxTime >= 2`, as the model's clock begins there);
`LogcatTypeCorrect` (the log is at most one piece and the notice beyond its limit); `SafemodeTypeCorrect` (one batch can
bring the count beyond `DETECTION_PRESSES`, by a press of each device at most).

Assumptions. Each module names what it assumes of its constants. Beyond types, bounds and that model
values differ: a method's arguments are words of three kinds (`HookAssumption`), the first id of an
application is below the sign bit (`IdAssumption`), documents and command lines are sequences of what
their elements can be (`DocumentAssumption`, `BridgeAssumption`), `--zygote` is not among the options that
only set a name (`CommandAssumption`). Two theorems assume more: `UnchangedIsTheSame` the range of times,
`AnswersAreTrue` that no file operation fails.

Only model-checked: liveness and termination (`EveryCallReturns`, `StartupDecided`, `InitializeReturns`,
`DetectionEnds`, `EntryArrives`), as TLAPS does not do liveness under fairness. Every other property of a
passing run is a theorem.

## 6. Where the code and its comments disagree

1. `xposed_service.cpp:287` reads `shared->error` and `data->result` after `makeIdle()`: with a second
   client, `isDisabled()` may miss the flag file (`membased_flag`).
2. `xposed.cpp:116` returns before `restrictMemoryInheritance()` (line 128, "Don't let any further
   forks access the Zygote service") if a service fails after `membased::init()` (`startup_forks`).
3. `xposed_service.cpp:927` switches to the UID of Xposed Installer, which a secondary zygote has never
   determined and which `new XposedShared` leaves uninitialised (`startup_installer`).
4. `xposed_safemode.cpp:4` wants exactly one key in the first phase; line 252 lets a later press of the
   same batch replace an earlier one, and does not look at keys held on other devices
   (`safemode_first`).

Five more disagreements are in the models. No run is about them; each is excepted by name from a property
of a passing run, which says what holds all the same:

5. `xposed.cpp:255` ("Create a flag file to disable Xposed", line 251) ignores that the file could not be
   created, and `isDisabled()` may be given the answer to logcat's question (1): Xposed is then loaded
   although the safemode trigger was found. `StoppedNotLoaded`: only where the file was not created, or
   in the primary zygote, under SELinux, while logcat's question is open.
6. `xposed_safemode.cpp:140` asks for held keys after line 113 has opened the device: a key pressed in
   between is found held and comes as an event, so that one press less than the "total of 5 consecutive
   presses" of line 5 is enough. `TriggerIsEnoughPresses`: this one press at most is counted twice.
7. `xposed_service.cpp:695` takes a file's name from a temporary that is freed before `stat` and `fopen`
   use it (so do lines 666 and 676, in `accessFile` and `statFile`). If another binder thread's name is in
   its place, another file is called unchanged (line 711, "Don't load again if file is unchanged") or
   read. `UnchangedMeansSame`, `ExactPart` and `LeakOnlyIfShrunk` hold as long as it is not (`astray`).
8. `--zygote` with a class gives the zygote none of the remaining arguments (`app_main2.cpp:315`), where
   line 268 says "For zygote starts, all remaining arguments are passed to the zygote."
   `ArgumentsGoWhereDescribed` leaves out where these go, and nothing else.
9. References from 0x80000000 on are not translated, as `libxposed_common.cpp:247` compares them signed;
   the ids of names are compared unsigned. Line 242 says "app packages only", and these are.
   `ReferencesAreTranslated` is about documents that have none, with names of any id.

Also seen, and part of the models, but not stated by a run of their own: `waitForRunning` returns false
although the looper started while the timed-out wait got the mutex back (`xposed_service.cpp:241`);
`dup2` in `Reopen` loses the recorded `FD_CLOEXEC` (`fd_utils-inl.h:195`); `offset + length` wraps
around in the range check (`xposed_service.cpp:727`); the log daemon skips what begins with `-` as the
beginning of a log buffer, although a piece of a long line may begin so (`xposed_logcat.cpp:97`);
`ferror` may be 0 after a failing `fseek` (`xposed_service.cpp:196` and `759`); a call that a hook
overlaps may meet a structure that is half written, and two threads that hook one method at once may
save a copy of a hook (`libxposed_dalvik.cpp:254`, `266`; Java's code hooks a method once, under a
lock); the branch "no class name or
--zygote supplied" of `app_main2.cpp:361` is never reached.

Seen, but in no model: `rewriteXmlReferencesNative` looks for a null parser behind its first use
(`libxposed_common.cpp:214`); a line of `xposed.prop` that begins with `=` has the loop at
`xposed.cpp:207` look in front of the buffer; `*buffer[bytesRead1] = 0` ends another string than the
one that was read (`xposed_service.cpp:503`).

## 7. What is left out

- The command line tools' branch of `initialize()` (`zygote` false; compiled only with
  `XPOSED_ENABLE_FOR_TOOLS`) with `shouldIgnoreCommand`, and `parseXposedProp`, which reads a version.
- In `BridgeInit`, the names of processes, what `handleOptions` prints, and the natives that only pass
  on to the memory-based service or return a field.
- In `DalvikHook`, `setObjectClassNative`, `cloneToSubclassNative` and `removeFinalFlagNative`, each one
  change to one object or class; the boxing and unboxing of a single value; arguments that are null.
- `libxposed_art.cpp` hands hooks to the patched runtime, which is in another repository.
- The binder service's `accessFile` and `statFile`, a system call each, and `test`, which logs.
- In `BinderFileService`, parcels and permissions beyond the caller's UID; in `XposedStartup`, what a
  registered service is asked.
- More than one child at a time in `FdTable`: each child and the zygote only share what `fork` left
  shared between those two, as the zygote itself reopens its files before it forks again.
- In `LogcatDaemon`, a `write` that writes a part of its piece.
- `app_main.cpp:193`, where a failing `execv` ends the program.
- The Java side, the ART runtime, logcat, the kernel: external, modelled from how the code uses them.
- Logging, `printRomInfo`, the vibrator, build files, `xposed_offsets.h`.

## 8. Plan

Done: all modules of section 2, with the runs of section 3 and the proofs of section 5. Left:

1. `FileHistory`: the shared memory as `XposedStartup` uses it, so that what the flag file's answer may
   be (`AnswersTo`) is derived from `MembasedService` instead of being stated.
2. `parseXposedProp` as a recursive function over the lines of a file.
