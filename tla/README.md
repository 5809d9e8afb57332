# Verification of keytap (sdiol)

`sdiol` grabs keyboards through evdev, resolves their events (layers, macros,
keys that mean one thing tapped and another held), and emits the result through
a uinput device of its own or, over a socket, of another machine.  This
directory holds TLA+ modules translated from the C sources, abstract
specifications of what three of the components promise, TLC configurations that
check them on small instances, and TLAPS proofs of the most important properties
for every configuration.

Run `tlc -config X.cfg M` for a row of the table of runs, and `tlapm M.tla` for
each module whose name ends in `Proofs`.

## 1. Inventory of the system

| component | files | state | operations | modelled in |
|---|---|---|---|---|
| resolver | `resolver.c/.h`, `key_action.c/.h` | queue of unresolved events, `input_counts`, `release_map`, current keymap, last tap, resolvable time (per grab) | `resolve_dedup_input`, `resolve` and what it calls | `KeyActions`, `Resolver` |
| output filter | `send_dedup` in `sdiol.c` | `press_count_map`, `sent_something` (one for all grabs) | `send_dedup` | `SendDedup` |
| select loop | `serve_loop` in `sdiol.c` | list of keyboards, time to exit, `keep_going` | start, wait, read and resolve events, notice lost keyboards, hotplug, stop | `Resolver` (events), `Devices` (the rest) |
| device discovery | `devices.c` | descriptors, inotify watch | `open_inputs`, `open_input`, `handle_inotify_events` | `Devices` |
| kbd server | `server.c` | clients, active client, outgoing buffer | `server_send_event`, `server_prep_select`, `server_handle_select` | `KbdServer` |
| event stream reader | `main_read`, `main_connect` in `sdiol.c` | line buffer | read, split lines, unmarshal, emit | `RemoteReader` |
| configuration | `config.c/.h`, `key_action.c` | Lua objects, list of grabs | `macro`, `shift` and its like, `dual_key`, `grab_keyboard`, `ignore_keyboard`, `fill_map`, garbage collection | `Keymaps` |
| command line | `main`, `parse_opts`, `runopts_build` in `sdiol.c` | options | parse, validate, choose the mode | `CommandLine` |
| socket lock, permissions | `main_serve_unix` in `sdiol.c`, `networking.c`, `permissions.c` | lock file, socket file with owner and mode | `unix_socket_open`, `set_file_perms`, `listen`, `unix_socket_close` | `ServeUnix` |
| time | `time_util.c` | none | `msec_diff`, `msec_after`, `timeval_diff` | `TimeUtil`, used by `Devices` |
| TCP sockets, names | `gai_open`, `names.c`, `khash.h` | constant tables | open a socket, look up a name | not modelled |

How they interact.  Everything in a process runs in one thread, in the loop of
`serve_loop`.  For each keyboard that `select()` reports it reads one event,
passes it through `resolve_dedup_input` (which counts the keyboards holding each
key), appends it to the queue of the grab's resolver and calls `resolve()` until
that returns false.  `resolve()` calls back `send_dedup()`, which calls back the
application: `send_event_locally` (uinput) or `server_send_event`, which appends
a line to a buffer that `server_handle_select` writes when the active client is
ready.  At the other end `main_read` turns lines into uinput events.  Processes
interact only through sockets, the lock file and the socket file: several may be
started as servers of the same path, and be killed.

What is hard about each, and what makes it correct:

* **resolver**: the oldest event may not be resolvable, and then the *newest* may
  be a release that is let through at once.  Releases therefore overtake presses.
  Correct: every press that was resolved has its release, to the same code, and
  no other; the queue and the counts agree; a layer ends with the key that made
  it; modifiers are not released under a key that was pressed with them; a quick
  tap is not a hold; the loop around `resolve()` ends.
* **output filter**: many keys, macros, layers and grabs send the same code.
  Correct: the sink sees the logical OR.
* **select loop, device discovery**: keyboards appear and vanish at any step, and
  signals and the time to exit arrive at any step.  Correct: each is grabbed
  once, those that are announced are grabbed, the loop ends in time.
* **kbd server, reader**: clients connect, hang up and are kicked in any order,
  events are dropped for want of a client or of room, the byte stream is cut
  anywhere.  Correct: no line is torn, no key sticks at the far end for any other
  reason than a dropped event, no descriptor leaks, and the server keeps serving.

* **socket lock, permissions**: servers of one path start, are refused, fail and
  are killed at any system call, and the kernel closes what a dead one had open in
  its own order.  The socket file outlives its server.  Owner and mode are set by
  name, after `bind()`.  Correct: a server that serves is the one that `connect()`
  reaches, with the permissions asked for; what the dead left stops nobody.
* **time**: microseconds borrow seconds; `select()` refuses what is negative.
  Correct: the loop does not end before its time, and ends at it.
* **configuration**: key actions are trees of C structs that are copied from Lua
  objects, and from each other, in any order, while Lua collects what is no longer
  used.  Correct: what the resolver gets is whole, every copy is its own, and the
  list of grabs means what its order says.

`PROJECT.json` lists these hazards at their lines, with the properties that
would catch each of them going wrong, or the reason no property does.

## 2. Modules

**`KeyActions`** defines key actions (simple, macro, dual, map) and events.  The
keymaps are the constant `KeymapOf`; `KeymapAssumption` says what `config.c`
guarantees, which `Keymaps` shows of every script: keymaps are total, a dual key holds
no dual key, and no keymap as its tap, and `HOLD_MS` is positive.

**`SendDedup`** is `send_dedup()`, one action per case, and `sink`, the codes the
application has been told are down.

**`Resolver`** extends it with the resolvers of all grabs, the part of
`serve_loop` that feeds them, keyboards with a kernel buffer each, and a clock in
milliseconds.

| action | code |
|---|---|
| `KeyDown`, `KeyUp`, `KeyRepeat`, `OtherInput`, `SynReport`, `Tick` | the kernel and the person at the keyboard |
| `Unplug` | `sdiol.c:236-247`: the resolver is told nothing |
| `ReadEvent` | `sdiol.c:231-273`, with `resolve_dedup_input` and the exit on overflow |
| `ResolvePress` with `DecideByAge`, `DecideTap`, `DecideHold` | `resolve_press`, `do_keypress`, `check_waveform` |
| `ResolveRelease`, `ResolveRepeat`, `ResolveOther` | the other cases of `resolve` |
| `KeepUnresolved` with `ReleaseEarly` | `WAVEFORM_NONE_YET`, and the `else` branch of `resolve` for the newest event |
| `Send` | the callbacks of `resolve`, one at a time |

`resolve()` calls `send` synchronously; the model queues those calls in `sends`
and lets nothing else of the loop happen before they are done.  The ring buffer
is a sequence of at most `URMAX` events.  The clock is read anew by every
`resolve()`, so time may pass between two calls.  The scan of `check_waveform`
is stated as *the first event that decides* (`FirstDecisive`), not as a loop.
`MaxLag` bounds how far the loop may be behind: time does not pass an event that has
waited that long to be read, or for `resolve()` to be done with what it lets decide
(`Tick`).  Nothing in the code bounds it, so it is a constant, and no theorem assumes
anything of it; `MaxLag = MaxTime` is no bound at all.

**`ResolverProperties`** states the properties over `Resolver`; **`MCResolver`**
gives the configurations for TLC (keymaps after the examples in the
repository's README).

**`KeyHolds`** says what the resolvers and `send_dedup()` amount to for who types.  A key
is held as one thing (a code, a layer, or nothing) from when it is decided until its
release; keys are decided in the order in which they were touched, by the keymap in
force; behind a key that is undecided, only a release of a key that is held and no
modifier may be let through; and a code that is not just being changed is down exactly
if some key is held as it.  Under the mapping in `ResolverProperties` the backlog of a
grab is its queue, a key is held as its entry of `release_map` while its press is
resolved and its release is not, and what is pending are the codes of `sends`.
`ReadEvent` is `Touch`, or `Overflow` when there is no room, or a stutter;
`ResolvePress` is `Press`; `ResolveRelease` is `Release`; `ResolveRepeat` and
`ResolveOther` are `Pass`; `KeepUnresolved` is `ReleaseEarly`, `Pass` or a stutter; and
`Send` is `Send` or a stutter.

**`KbdServer`** has the handlers of `server.c` as operators on the struct
`kbd_server_t`; **`RemoteReader`** has the server's loop and one reader per
connection as actions, with the bytes in between.  An event's line is `LineLen`
bytes, of which the last is a newline; reads may return any prefix of what was
written.  `unseen` is a history variable: the keys whose last event the active
client will not get to see, because it connected later or the buffer was full.
A client may send a byte (`Speak`), which the server takes for its end
(`server.c:99`); more than one at a time it ignores.

**`KeyStream`** says what that amounts to: one reader at a time is given whole
events, each once and in order; a newcomer gets those that the reader before it is
not given any more.  Under the mapping in `RemoteReader`, the events on the way to
a reader are those whose lines end in its buffer, on the wire or, for the active
one, in the server's buffer; `Read` is `Deliver` or a stutter, `AcceptNext` is
`HandOver`, `NoticeGone` is `Close`.

**`TimeUtil`** is the arithmetic of `time_util.c` on seconds and microseconds, with
C's division.  **`Devices`** has `serve_loop`'s start, `select()`, timed exit and
signals, and `devices.c`, with a clock of that form.  `Signal` at any `pc` but
`"select"` is only noticed at the next `while`, as in the code.  `--timeout` times 1000
is an `int` (`sdiol.c:153`): a product beyond `INT_MAX`, undefined in C, is one of two
numbers that builds make of it (`Products`: the low bits, with or without their sign).
Devices that no grab matches keep a descriptor each (`ignored`), and once those and the
keyboards are `MaxOpen`, `open()` fails (`HasDescriptor`).

**`CommandLine`** has `main()` up to the mode it runs, as operators from a command
line to runtime options; `chmod-socket` is refused there, as in the code
(section 4).  **`ServeUnix`** extends it with processes that run `main_serve_unix`,
one action for each system call that another process can notice: `OpenLock`,
`SetLock`, `Unlink`, `Socket`, `Bind`, `Chown`, `Chmod`, `Listen`, and on the way
out, also that of every failure, `CloseSock`, `Unlock`, `CloseLock`.  Any of them
but the last three may fail; `Crash` kills a process at any step, and `Die` is the
kernel closing its socket and its lock file in either order.
**`MCServeUnix`** gives command lines.

**`SocketService`** says what `sdiol serve` promises of its path: who connects
reaches at most one server, and nobody takes the path from one that serves.  Under
the mapping in `ServeUnix`, the server reached is the one whose listening socket is
at the path; `Listen` is `Serve`, the end of the loop or a crash is `Leave`, the
next server's `Unlink` is `Clear` and the close of the socket `Vanish`.

**`Keymaps`** has a Lua script as any sequence of table constructors, assignments
and calls, each function of `config.c` as an action that succeeds or ends the
script.  Key actions are trees, as functions from paths to structs, so that no
operator on them is recursive and all can be proved about; every block that C
allocates is marked with the Lua object or the grab that will free it, and `Collect`
is Lua's collector.
Fields of tables are keys with the code that `get_input_value()` gives them;
numbers in macros are cut to an `int` of `IntModulus` values before they are looked at
(`AsInt`), other numbers are not;
regular expressions are sets of keyboards; of `CONFIG` keys only the option they
are a prefix of counts.  `Resolver(map)` is the module `KeyActions` of a keymap that
was grabbed, with the paths to its keymaps for their names: that is how what the
one guarantees (`GrabsAreComplete`) is stated as what the other assumes
(`KeymapAssumption`).  **`MCKeymaps`** gives a small instance.

The theorems (section 5) are in **`ResolverProofs`**, **`ResolverOutputProofs`** and
**`ResolverWorldProofs`**, each of which extends the one before; **`DevicesProofs`**, with
those of `TimeUtil`; **`RemoteReaderProofs`**, with those of `KbdServer` and `KeyStream`;
**`ServeUnixProofs`**, with those of `CommandLine`; and **`KeymapsProofs`**.  Those of
`KeyHolds` are in `ResolverOutputProofs`.
**`FoldLemmas`** has what they need for loops: induction over the natural numbers, and
the existence of what a loop computes.  Loops of the code that theorems are about
(`parse_opts`, `open_inputs`, the scan of ready keyboards, `server_close_disconnected`,
the lines of `main_read`), and the events of a stream, are recursive functions over the
turns of the loop, not folds: the prover cannot unfold those.

Definitions whose comment says *variant* are not part of any specification: they
are ways in which the operator after them could be wrong, used to confirm that
each property notices.

## 3. Runs

| run | instance | checks |
|---|---|---|
| `resolver` | a loop that is behind by up to one tick; one keyboard with three keys, unplugged with keys down and back; two dual keys of different modes that can wait for each other, over a layer, with a modifier, and macros that are chords of it | `QueueAlternates`, `OutputJustified`, `LayerIsHeld`, `QuickReleaseIsNoHold`, `OutputIsAsHeld`, `ModifiersOutlastChords`, `ImplementsKeyHolds` |
| `keyboards` | two keyboards on one grab, two keys that send one code, scan codes, a queue of two that overflows | `TypeOK`, `InputsAreOred`, `SinkIsLogicalOr`, `OutputFrameCloses`, `LoopReturns` |
| `frames` | a loop that is behind by up to one tick, with a hold time of two, and two grabs with a keymap each that send the same code; macros, repeats, a key held since before the grab | `OutputFrameCloses`, `OutputJustified`, `QuickReleaseIsNoHold`, `SlowReleaseIsNoTap` |
| `remote` | a server whose buffer holds two events, two readers | `TypeOK`, `InSync`, `OneClientOpen`, `EveryoneIsAccepted`, `BufferDrains`, `ImplementsKeyStream` |
| `devices` | two keyboards and an ignored device, three descriptors, with and without `--timeout`, one of them too long for an `int`, signals | `TypeOK`, `GrabbedOnce`, `NewKeyboardIsGrabbed`, `ExitsInTime`, `NeverEarly` |
| `serve_unix` | two processes on one path, eight command lines, four starts, two crashes, one failing call | `SocketUnderLock`, `SocketIsAsAsked`, `ImplementsSocketService`, `RecoversFromCrash` |
| `config` | two key names, a number as a key, a modifier; scripts of up to five statements, of which two make key actions | `GrabsAreComplete`, `UnassignedKeysAreThemselves`, `MacrosLeaveNothingDown`, `BlocksHaveOneOwner`, `FirstMatchDecides` |

The properties in words:

* `QueueAlternates`: the presses and releases of each key waiting in the queue
  alternate and agree with the number of keyboards that hold it.
* `OutputJustified`: each outgoing code is held exactly by the keys that were
  resolved to it and whose release has not been resolved.  Once all keys are up
  and resolved, nothing is down.
* `LayerIsHeld`: away from the root keymap, a key is down that will bring it back.
* `ModifiersOutlastChords`: the release of a modifier takes effect after every
  press that came before it.
* `QuickReleaseIsNoHold`: a key is not held for its age when its release came within
  `HOLD_MS` less what the loop is behind.  Age is measured when the press is looked at
  (`timeval_now()`, `resolver.c:73`), so what the loop is behind counts as well, and a
  release may be queued but not read when the clock is taken.
* `SlowReleaseIsNoTap`: the other way round there is no error.  However late the loop, a
  natural tap was no longer than `HOLD_MS` by the times the kernel gave its events.
* `InputsAreOred`, `SinkIsLogicalOr`: the counts on the way in and out are those
  of keyboards, and of keys, that hold a key or a code.
* `OutputFrameCloses`: no event waits at the application for an `EV_SYN` that
  never comes, though `EV_SYN`s jump the queue.
* `LoopReturns`: `while(resolve(r))` ends.
* `ImplementsKeyHolds`: the resolvers and `send_dedup()` implement `KeyHolds`.
* `OutputIsAsHeld`: also while a macro or a release is on its way out, every other code
  is down exactly if some key is held as it (`OutputJustified` speaks only of the states
  in between, but counts the keys).
* `InSync`: after it has read what is on its way, the active client has exactly
  those keys down that are down at the server, except for keys in `unseen`.
* `OneClientOpen`, `EveryoneIsAccepted`, `BufferDrains`: descriptors are those of
  the one client; who connects is accepted; buffered events go out or are given up.
* `ImplementsKeyStream`: the server and its readers implement `KeyStream`.
* `GrabbedOnce`, `NewKeyboardIsGrabbed`: no keyboard is grabbed twice; one that the
  directory lists or `inotify` announces is grabbed while there is room, and a
  descriptor, for it.  (One that
  is plugged in after the last `readdir()` and before `inotify_add_watch()` is
  neither: `sdiol.c:170-171` read the directory before they watch it.)
* `ExitsInTime`, `NeverEarly`: with `--timeout`, the loop ends, also when the product
  overflows; and if it does not, no `select()` ends it before that time, be it with an
  error.
* `SocketUnderLock`: a living server with a socket has the lock.
* `SocketIsAsAsked`: while a server can be reached, the file has the owner and the
  mode its command line asks for.
* `ImplementsSocketService`: the processes implement `SocketService`.
* `RecoversFromCrash`: a server started alone, with good options, comes to serve,
  whatever was left behind.
* `GrabsAreComplete`: a grabbed keymap has an action for every key at every depth,
  in the form the resolver expects.
* `UnassignedKeysAreThemselves`: a key that the script never sets is itself in every
  layer.
* `MacrosLeaveNothingDown`: composed macros release what they press, in order.
* `BlocksHaveOneOwner`: no grab or Lua object refers to a block that another frees.
* `FirstMatchDecides`: later grabs do not change what an earlier one has decided.

Bounds.  `MaxTime` ticks of the clock, one `EvdevSize` event in each kernel
buffer, `URMAX` events in the queue, and hold times of one or two ticks let every
order of press, release, time-out and double tap happen, with up to two dual keys
undecided at once; `MaxCount` ends repeated unplugging with a key down, which
otherwise counts up for ever.  A queue of two is full in `keyboards`; the one of three
in `resolver` has room for all its keys, or for one that waits with another's press and
release behind it, and is full after that.  `MaxLag` is 1 in `resolver` and `frames`, so
that releases wait unread while the clock moves, and 0 elsewhere: two ticks of hold time
in `frames` put a release at the border, of an event that waits as long as it may.  Times
are small integers because only their differences are compared.  In `remote` two
connections make each of: a kick, a hang-up before or after `accept`, an empty
server between two clients; a buffer of two lines fills up.  Lines of two bytes can be
cut in one place, and the buffer has room for two and a half.  In `devices` two plugs
and `MAX_KBS = 2` make replugging between an event and its handling, and a full list,
possible; three descriptors are used up by a device that is ignored twice; of the
timeouts of 1 and 3 seconds, the milliseconds of the second do not fit an `INT_MAX` of
1023, and become 952 or -1096; a clock that starts at 0.2 s and ticks every 0.7 s makes the
microseconds of a difference borrow, and passes the time to exit while events are
handled.  In `serve_unix` two processes with four starts make a start before,
during and after the end of the other, and a restart after each of two crashes; a
third process would only wait like the second.  In `config`, five statements nest a
dual key in a keymap under another, copy a macro into a dual key into a keymap, and
make two grabs that overlap.  Runs have no deadlock check: they may stop at a bound.

Fairness.  `FairSpec` of `Resolver` is weak fairness of the clock and of each step
of the loop: a single-threaded loop that is never blocked outside `select()`.
`RemoteReader` assumes that `select()` reports what stays ready and readers keep
reading; `Devices` that the loop and the clock keep going; `ServeUnix` that a process
outside its loop goes on, and that the kernel closes what a dead one had open.  None
assumes that a key is pressed, a client connects, a signal arrives, or a server is
started, stopped or killed.

## 4. Disagreements with the source's own statements

Each is a run that ends in a counterexample.

| run | property | what happens |
|---|---|---|
| `timeout_only` | `QueueAlternates` | The comment at `resolver.c:292` argues that the press of an early release must have been resolved.  Behind a `TIMEOUT_ONLY` key it need not be: the release is discarded, the press stays, and its code sticks. |
| `stale_release` | `ReleasesAreValid` | The early release leaves `release_map` set; a later press of the key that resolves to a macro does not overwrite it, and its release releases the old code. |
| `no_timeout` | `ResolvedByTimeout` | `select_timeout()` is never called, so a held dual key waits for the next event of any kind (in practice the kernel's autorepeat) and not for `HOLD_MS`. |
| `leds` | `OthersPassUnchanged` | `resolver.c:281` says that events of other types are passed through unchanged.  The early release (`resolver.c:298`) looks at value and code of the newest event and not at its type: a light that goes off while a dual key waits goes out as another light, the one with the number that escape was resolved to. |
| `fall_through` | `MissingKeysFallThrough` | Comments say that keys missing from a nested keymap refer to the keymap around it; `fill_map()` is always called without one, and they become themselves. |

Smaller ones, with no run.  The comment at `resolver.h:10` says that events are dropped
once the queue is full; `serve_loop` exits (`sdiol.c:266`), and so does the model
(`ReadEvent`).  A key is "held" if it is pressed for longer than its `HOLD_TIMEOUT`
(`README.md:174`), but its age is taken when the loop comes to it, so one released in
time is a hold if the loop is that far behind (`QuickReleaseIsNoHold`).  A `--timeout` of
more than 2147483 seconds overflows (`sdiol.c:153`), and the loop ends at once, or some
time before it should.  A number in a macro is cut to an `int` before it is compared with
`KEY_MAX` (`config.c:190`, `218`), while `copy_to_key_action()` compares all of it: a
macro takes `2^32 + 2` for key 2, a keymap refuses it.  A keyboard that is unplugged with a key down counts as
holding it for ever (the source has a TODO, `sdiol.c:240`); `resolver` shows what
still holds then.  The error message at `config.c:109` allows numbers as keys of
keymaps, but `lua_isstring()` is true of numbers and none is a name.  Any prefix of
`MODE`, `HOLD_MS` or `DOUBLE_TAP_MS` is taken for it.  `--chmod-socket`, which the help
text offers, has the value `'p'` in `longopts` and is handled as `'m'`
(`sdiol.c:524`, `556`), so it is always refused, and the mode is always 600.
`msec_after()` carries a second if the milliseconds exceed 1000 and not if they
reach it (`time_util.c:31`); `--timeout` adds whole seconds, and what the resolver
computes with it only `select_timeout()` reads.  `gai_open()` sets `SO_REUSEADDR`
after `bind()`, where it is too late for it.  On TCP a `send()` that is cut short by
the loss of the client (`server.c:89`) leaves a buffer of which the next one is
given the beginning again.

## 5. Proofs

All theorems hold for every value of the constants that satisfies the named
assumptions (`KeysAssumption`, `KeymapAssumption`, `ResolverAssumption`,
`DevicesAssumption`, `ServerAssumption`, `ReaderAssumption`, `ServeAssumption`,
`StreamAssumption`, `CommandLinesAssumption`, `KeymapsAssumption`), which TLC evaluates on the runs of their
modules.  They say what the source fixes: that keymaps are total (`config.c`), that a line is no longer than half the
reader's buffer (`main_read`), that what is not there is not one of the things
themselves, that grabs and keyboards are finitely many (`kbs` is an array, the
grabs a list), the form of a command line, and what Lua's tables are (each key of one
has a code and is there once, an integer is an integer).  `KeymapAssumption`, which the
theorems about the resolver rest on, is itself a theorem about scripts
(`CompleteGrabs`).  A hypothesis in a theorem itself is a
condition without which it is false; each is named below with what breaks it.

* `TypeCorrect` and `SinkCorrect` (`ResolverProofs`).  `TypeOK` is inductive.  It
  is where `Len(unresolved[g]) <= URMAX` and counts that stay natural are shown;
  one lemma per action, split by the cases of the actions.  `SinkIsLogicalOr` is
  inductive with `TypeOK`.
* `QueueCorrect`, `LayersCorrect`, `ChordsCorrect` (`ResolverProofs`).  They
  assume `NoTimeoutOnly`, without which `timeout_only` refutes them.
  `QueueAlternates` is inductive with `TypeOK`.  The argument is the one the
  comment at `resolver.c:292` makes: if the oldest event is undecided then no
  event behind it is a release that follows its own press, since that would have
  been decisive; so the newest event, if it is a release, is the only waiting
  event of its key (lemma `EarlyReleaseIsSole`), and taking it off leaves the
  others alternating.  `LayerIsHeld` follows because only a press that leaves
  `RESET_KEYMAP` behind changes the keymap, and the entry stays until the key is
  released; `ModifiersOutlastChords` because a release is resolved either at the
  head of the queue or early, and early ones are not of modifiers.

* `OutputCorrect` (`ResolverOutputProofs`): `OutputJustified`, *nothing gets stuck*, through
  layers, macros, early releases, and any number of keyboards and grabs.  The property
  speaks of states in which every send has been run; the invariant says of every state
  that the sends that are left lead each count of `press_count_map` to the number of keys
  that hold the code, never releasing what nobody holds (`CodesAddUp`, `Leads`).  Resolving
  a key changes the number of its sources by one and puts as many sends into the queue
  (`PressAddsUp`, `ReleaseAddsUp`, `KeepAddsUp`); running a send takes one off.  Two more
  conjuncts are about what an early release leaves behind in `release_map`: it is never a
  macro's code, nor a modifier's (`ReleasesAreActions`, `ModifiersAreDown`).  Hypotheses:
  `NoTimeoutOnly`, without which `timeout_only` refutes the queue it rests on;
  `MacroKeysAreNoOthers`, without which `stale_release` shows the code that is left behind;
  and `MacrosAreClosed`, a macro releases what it presses, which `ResolverMacros` says of
  every script.  The configurations of the runs `frames` and `resolver`, which have
  macros, satisfy all three.
* `KeyHoldsImplemented` (`ResolverOutputProofs`): the resolvers and `send_dedup()`
  implement `KeyHolds`, for any keymaps within the hypotheses, grabs and keyboards, and a
  queue of any size.  A resolved press is a `Press` (`PressIsStep`), a resolved release a
  `Release` (`ReleaseIsStep`), what is kept an early release, an event passed on, or
  nothing (`KeepIsStep`), and each call of `send_dedup()` changes at most one code, which
  with its last call is down if and only if some key is held as it (`SendIsStep`, from the
  counts of `OutputCorrect`).  `HoldsWell` adds to the earlier invariants that only a key
  that may be a layer leaves `RESET_KEYMAP` behind, and that what is no key event and waits
  does not look like a release.  Hypotheses, beside those of `OutputCorrect`:
  `MacroKeysAreNoLayers`, since the release of a macro whose key was a layer before, and
  was released early, resets the keymap a second time (the entry that `stale_release`
  is about); and `OthersAreNoReleases`, without which `leds` shows an event taken for a
  release.  The configuration of the run `resolver` satisfies all of them.
* `OutputFollows` (`ResolverOutputProofs`), under the same hypotheses: `OutputIsAsHeld`,
  by the steps of `KeyHolds` alone (`HoldsKeepOutput`).
* `InputsCorrect` (`ResolverWorldProofs`): `InputsAreOred`.  A count is the number of the
  grab's keyboards that hold the key as far as has been read (`CountsHolders`), and what a
  keyboard has still to be read ends with what is physically down (`EvdevAlternates`).
  Hypotheses: no keyboard is unplugged, which leaves its keys counted (`sdiol.c:240`, run
  `resolver`); and none has a key down when it is grabbed, which nobody counts.
* `QuickReleaseCorrect` (`ResolverWorldProofs`): `QuickReleaseIsNoHold`, for every
  `MaxLag`.  An event that is not read has waited no longer than that (`ReadInTime`), and
  no press waits in a queue together with its release, unless that release is the newest
  event, is being resolved, and has waited no longer either (`TapsAreResolved`), because it
  would have decided the press.  Hypothesis: `NoTimeoutOnly`, since a `TIMEOUT_ONLY` key
  waits with its release behind it, to be held for its age.
* `SlowReleaseCorrect` (`ResolverWorldProofs`): `SlowReleaseIsNoTap`, with no hypothesis.
  No event that is read or waits is from the future (`PastEvents`), so the age that
  `check_waveform()` looks at first is no less than the time to any release it has read.
* `FramesCorrect` (`ResolverWorldProofs`): `OutputFrameCloses`.  At each step there is a
  place where the `EV_SYN` is that will end the frame of output: still in a keyboard, the
  newest event of the queue being resolved, or the last of the sends (`FrameWillClose`);
  for it to get from one to the next, the kernel must end its groups (`GroupsEnd`), and
  what `resolve()` takes for the release of code 0 must remain one (`SynsAreReports`: no
  key action ever replaces code 0).  Hypothesis: no keyboard is unplugged, since the kernel
  then drops the `EV_SYN` of a group of which the first event has been read.

* `TimevalDiffExact`, `MsecDiffWithinOne`, `WholeSecondsExact` (`DevicesProofs`).
  For all times: `timeval_diff()` is exact and has its microseconds in range, also if it
  is given a time to exit that has overflowed;
  `msec_diff()` is less than a millisecond off; `msec_after()` is exact for whole
  seconds.  No assumption but that times are in the form `clock_gettime()` gives.
* `NeverEarlyCorrect` (`DevicesProofs`), for every `--timeout` of which the milliseconds
  fit an `int` (`FitsInt`, a condition of the property; of a longer one it is false), and
  every clock that does not go back.  The invariant `TimeInv` says that `exit_time` is `--timeout` after
  the start (`WholeSecondsExact`) and that what `select()` was given ends at `exit_time`
  (`TimevalDiffExact`); so a timeout that `select()` refuses has passed, and one that it
  waits out ends no earlier (`EndsAfterExitTime`).
* `DevicesTypeCorrect`, `GrabbedOnceCorrect` (`DevicesProofs`), for any devices, any length
  of the array and any order of plugging.  `KeyboardsInv` says that a list of keyboards has
  each device alive at most once, has only wanted ones, and fits.  It is kept by one call of
  `open_input()` because the kernel refuses a second grab; by a directory of any length
  because it is kept by each turn of the loop (`OpenedAll`); and by the scan of `serve_loop`
  because what it leaves are some of the same entries, each once (`Remaining`).
* `ReaderInvariant`, and from it `RemoteTypeCorrect`, `OneClientCorrect`, `SyncCorrect`
  (`RemoteReaderProofs`), for any number of connections and keys and any sizes of lines and
  buffers, with no hypothesis.  `InSync` alone says nothing of a client that is about to be
  accepted, or of lines that are cut.  `ReaderInv` adds that the bytes for a client, those on
  its wire and those in its buffer are whole lines, however a `read()` cuts them
  (`StreamsAreLines`); that who waits to be accepted has been written nothing
  (`NewcomersAreNew`); that nothing waits when there is no client (`NoClientNoEvents`); and
  that what waits for a client says of each of its keys what is true of it now, so that a
  newcomer that is handed the rest of another's buffer comes into step (`BufferInSync`).
  The argument is that a device after two strings in a row is the device after the second
  that started as the first had left it, also when the joint is in the middle of a line
  (`DeviceAfterRest`).
* `KeyStreamImplemented` (`RemoteReaderProofs`): the server and its readers implement
  `KeyStream`, for any number of connections and keys and any sizes of lines and buffers,
  with no hypothesis.  `EventsIn` maps bytes to events; what has to be shown of it is that
  the events of a stream are those of what `main_read` has parsed, followed by those of
  the incomplete line it keeps and of the bytes it reads next (`EventsOfRest`), and that
  the device after the bytes is the device after the events (`DeviceIsAfter`).  Then what is
  on the way to the active reader is what was written, followed by what waits in the server
  (`Ways`), and each step moves the border between the two: `Read` takes a prefix
  (`ReadIsDeliver`), an event comes at the end (`SendIsSend`), a `select()` that accepts a
  connection cuts the events in two (`SelectIsHandOver`, `CutsExist`), and one that does not
  changes nothing, or closes a client that has gone or spoken (`SelectIsClose`).  To
  `ReaderInv` it adds that nothing is on the way to a reader that has gone (`GoneIsEmpty`),
  without which a write that vanishes would leave the events before it.
* `SocketUnderLockCorrect`, `SocketServiceImplemented` (`ServeUnixProofs`), for any
  number of processes, starts, kills and faults, and any command lines.  That a socket
  is open only under the lock is not inductive: `Inv` adds how far each label of
  `main_serve_unix` has come with its socket, that the lock is held from `unlink()` to
  `unlock`, that the path is a server's own from `bind()` to its last step in the loop,
  and that whoever owns the path still has the socket.  Every step then maps to a step
  of `SocketService` or to none; the two that need an argument are `unlink()`, which can
  only take the path from a server that was killed (`ClearsTheDead`), and the end of the
  loop (`Leaves`).
* `SocketIsAsAskedCorrect` (`ServeUnixProofs`), for any command lines.  `PermsInv` follows
  the permissions: not set while there is no file and until `chown`, the owner asked for
  before `chmod`, and all that was asked for from then on and as long as somebody can
  connect.  Nobody else's `chown` or `chmod` hits the file, since whoever comes to them has
  the lock and owns the path (`Inv`).  What the options of a process have to do with its
  command line is a lemma about all turns of `parse_opts()` (`AllSaid`): of several
  `--chown-socket` the last counts, and one with `--chmod-socket` comes to nothing.

* `CompleteGrabs`, `UnassignedKeys`, `ClosedMacros`, `OneOwner` (`KeymapsProofs`):
  `GrabsAreComplete`, `UnassignedKeysAreThemselves`, `MacrosLeaveNothingDown` and
  `BlocksHaveOneOwner`, for scripts of any length, keymaps of any depth, any codes, and
  with the collector at any time.  No hypothesis.  They follow from one invariant, `IInv`:
  a table refers to what was made, and has a field only for a key that was assigned
  (`TablesWell`); a key action that Lua holds is joined up, as deep as it is, but may
  have entries missing, all those among them of keys that were never assigned
  (`UserdataWell`, `WellMade`); what was grabbed has none missing (`GrabsWell`,
  `Filled`); and each has only blocks and macros of its own, closed and not empty.  That
  needs no induction over trees, since a tree is a function of paths and each conjunct
  speaks of a path and the next step: a copy has the same paths (`ActionDup`), what a
  table or an argument becomes puts subtrees under a new root (`NodeWellMade`,
  `ExtractWell`, `CopyWell`), and filling adds a path for each that ends in a missing entry
  (`FillMap`).  Macros stay closed when they are put one after the other or between the
  press and release of a modifier, because the counts of their parts add up
  (`CountConcat`, `ClosedConcat`, `ClosedWrap`).
* `ResolverMacros` (`KeymapsProofs`): the macros of every grab, as the resolver finds
  them, satisfy `MacrosAreClosed`.  The witness is how far a code has been pressed and
  not released (`ClosedForResolver`).
* `FirstMatchCounts` (`KeymapsProofs`): `FirstMatchDecides`; a list that only grows at
  its end does not change the first match (`AppendedGrab`).

Only model-checked is all liveness (`LoopReturns`, `EveryoneIsAccepted`, `BufferDrains`,
`NewKeyboardIsGrabbed`, `ExitsInTime`, `RecoversFromCrash`), and that the counterexamples
of section 4 exist: the prover does not handle fairness.

## 6. What is not modelled

* Autorepeat only for `RepeatKeys`; the scan codes of `MCScanCodes` stand for all
  events that are neither keys nor `EV_SYN`.  Codes above `KEY_MAX` and the
  `SYN_DROPPED` event of a kernel buffer that overflowed are left out.
* `send()` takes the whole buffer: the sockets block, and a unix socket takes 8192
  bytes whole.  (`fc_len -= len` without moving the rest would repeat bytes
  otherwise.)  `accept()` and `read()` on the inotify descriptor do not fail.
* The server's stream has the presses and releases of keys.  `EV_SYN`, repeats and other
  events share its buffer, and each may be dropped on its own, when the buffer is full.
* `open()` fails for a device that is gone or for want of a descriptor; that another
  process has grabbed it, or that it may not be opened, is left out.
* The clock is `CLOCK_REALTIME`, but is never set.
* Two servers with different paths; somebody else removing the socket or lock file.
* Out of memory, which `config.c` handles nearly everywhere; `print()`; tables that
  hold themselves, or two names of one key.
* The uinput set-up (`open_output`), a fixed sequence of `ioctl()` calls whose results
  nobody looks at; logging and the help text; key names, a constant table in a
  vendored hash map; `gai_open`, which tries addresses until a fixed sequence of
  calls succeeds.

## 7. Plan

1. Core (done): `KeyActions`, `SendDedup`, `Resolver`, then the loop around it
   (`Devices`) and the remote end (`KbdServer`, `RemoteReader`).
2. Extend (done): `Keymaps`; `TimeUtil` under `Devices`; `CommandLine` and
   `ServeUnix`; the abstract specifications `KeyStream` and `SocketService`.
3. What the resolver promises (done): `KeyHolds`, which it implements also through
   macros and early releases.
4. Proofs (done): the safety of the resolver, the output filter, the loop, the server and
   its readers, the socket path and the configuration; the refinements of `KeyStream`,
   `SocketService` and `KeyHolds`.  Left is what TLC alone can check (section 5).
