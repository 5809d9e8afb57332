------------------------------ MODULE Devices -------------------------------
(***************************************************************************)
(* The keyboards of the select loop: how devices are found, grabbed, lost  *)
(* and found again (devices.c), and how the loop starts, waits and stops   *)
(* (serve_loop in sdiol.c).  What it does with an event it has read is the *)
(* subject of Resolver.                                                    *)
(*                                                                         *)
(* A device is known by its name under /dev/input, which it keeps when it  *)
(* is unplugged and plugged in again.                                      *)
(***************************************************************************)
EXTENDS TimeUtil, Sequences, SequencesExt

CONSTANTS
  Devices,
  Wanted,       \* the devices that check_grabs() finds a grab for
  MAX_KBS,      \* the length of kbs (16)
  MaxOpen,      \* the descriptors the process may have open for devices
  INT_MAX,      \* the largest int (2^31 - 1)
  Timeouts,     \* the values of --timeout, in seconds; 0 is none
  StartUsecs,   \* the microseconds the clock may show when the loop starts
  TickUsec,     \* the microseconds in a tick of the clock
  MaxTime,      \* bound on the clock, in seconds
  MaxPlugs      \* bound on how often devices are plugged in

ASSUME DevicesAssumption ==
  /\ Wanted \subseteq Devices
  /\ MAX_KBS \in Nat \ {0} /\ MaxOpen \in Nat /\ INT_MAX \in Nat
  /\ Timeouts \subseteq 0..INT_MAX /\ MaxTime \in Nat /\ MaxPlugs \in Nat
  /\ StartUsecs \subseteq 0..(USEC - 1) /\ TickUsec \in 1..USEC

VARIABLES
  plugged,     \* the devices in /dev/input
  plugs,       \* how often one has been plugged in
  listed,      \* the directory entries open_inputs() is to see
  watching,    \* has open_inotify() been called?
  inotify,     \* the IN_CREATE events not read yet
  kbs,         \* the keyboard_t array: a device, and whether it is still there
  ignored,     \* descriptors open_input() has opened and not returned or closed
  pc,          \* where serve_loop is
  run_timeout, \* --timeout
  started,     \* when serve_loop was called
  exit_time,
  timeout,     \* what select() is given, if there is a time to exit
  waiting,     \* and since when
  keep_going,
  retval,
  now

exitVars  == <<run_timeout, started, exit_time>>
worldVars == <<plugged, plugs, inotify, now, exitVars>>

\* "if(runopts->timeout > 0)"
TimedExit == run_timeout > 0

\* What becomes of an int product n that msec_after() is to take as a long: one beyond
\* INT_MAX, which C leaves undefined, loses its upper bits, and is extended with its
\* sign or, by a compiler that counts on there being none, without.
Products(n) ==
  LET low == n % (2 * (INT_MAX + 1)) IN
  IF n <= INT_MAX THEN {n} ELSE {low, low - 2 * (INT_MAX + 1)}

FitsInt == run_timeout * 1000 <= INT_MAX

vars == <<worldVars, listed, watching, kbs, ignored, pc, timeout, waiting, keep_going, retval>>

TypeOK ==
  /\ plugged \subseteq Devices /\ plugs \in 0..MaxPlugs
  /\ listed \subseteq Devices
  /\ watching \in BOOLEAN /\ keep_going \in BOOLEAN
  /\ inotify \in Seq(Devices)
  /\ kbs \in Seq([dev : Devices, alive : BOOLEAN]) /\ Len(kbs) <= MAX_KBS
  /\ ignored \in Nat
  /\ pc \in {"open_inputs", "open_inotify", "while", "prepare", "select", "done"}
  /\ run_timeout \in Timeouts
  /\ {started, timeout, waiting, now} \subseteq Timeval
  /\ exit_time \in [tv_sec : Int, tv_usec : Int]
  /\ retval \in {0, 1}

Init ==
  /\ plugged \in SUBSET Devices
  /\ plugs = 0
  /\ listed = plugged
  /\ watching = FALSE
  /\ inotify = <<>>
  /\ kbs = <<>>
  /\ ignored = 0
  /\ pc = "open_inputs"
  /\ run_timeout \in Timeouts
  /\ \E usec \in StartUsecs : now = [tv_sec |-> 0, tv_usec |-> usec]
  /\ started = now
  /\ \E millis \in Products(run_timeout * 1000) : exit_time = msec_after(now, millis)
  /\ timeout = now /\ waiting = now
  /\ keep_going = TRUE
  /\ retval = 0

-----------------------------------------------------------------------------
(* The world                                                               *)

Plug(d) ==
  /\ d \notin plugged /\ plugs < MaxPlugs
  /\ plugged' = plugged \cup {d}
  /\ plugs' = plugs + 1
  /\ inotify' = IF watching THEN Append(inotify, d) ELSE inotify
  \* readdir() may or may not return an entry made since opendir()
  /\ listed' \in IF pc = "open_inputs" THEN {listed, listed \cup {d}} ELSE {listed}
  /\ UNCHANGED <<now, exitVars, watching, kbs, ignored, pc, timeout, waiting, keep_going,
                 retval>>

Unplug(d) ==
  /\ d \in plugged
  /\ plugged' = plugged \ {d}
  /\ kbs' = [i \in DOMAIN kbs |-> IF kbs[i].dev = d THEN [kbs[i] EXCEPT !.alive = FALSE]
                                  ELSE kbs[i]]
  /\ UNCHANGED <<plugs, inotify, now, listed, watching, ignored, pc, timeout,
                 waiting, keep_going, retval, exitVars>>

Tick ==
  /\ now.tv_sec < MaxTime
  /\ now' = LET usec == now.tv_usec + TickUsec IN
            [tv_sec |-> now.tv_sec + usec \div USEC, tv_usec |-> usec % USEC]
  /\ UNCHANGED <<plugged, plugs, inotify, listed, watching, kbs, ignored, pc, timeout,
                 waiting, keep_going, retval, exitVars>>

\* SIGINT or SIGTERM; a select() it finds waiting fails with EINTR
Signal ==
  /\ keep_going /\ pc # "done"
  /\ keep_going' = FALSE
  /\ pc' = IF pc = "select" THEN "while" ELSE pc
  /\ UNCHANGED <<worldVars, listed, watching, kbs, ignored, timeout, waiting, retval>>

-----------------------------------------------------------------------------
(* open_input(): a keyboard list and a number of leaked descriptors after  *)
(* one device has been tried                                               *)

Grabbed(ks, d) == \E i \in DOMAIN ks : ks[i].dev = d /\ ks[i].alive

NeverBusy(ks, d) == FALSE     \* variant: a device may be grabbed twice

\* EVIOCGRAB fails: the descriptor is closed
Busy(ks, d) == Grabbed(ks, d)

HasRoomForOneMore(ks) == Len(ks) <= MAX_KBS     \* variant: off by one

HasRoom(ks) == Len(ks) < MAX_KBS

\* open() does not fail for want of a descriptor
HasDescriptor(state) == Len(state.kbs) + state.ignored < MaxOpen

open_input(state, d) ==
  LET ks == state.kbs IN
  IF \/ ~HasRoom(ks) \/ d \notin plugged \/ ~HasDescriptor(state)
     \/ d \in Wanted /\ Busy(ks, d)
  THEN state
  ELSE IF d \in Wanted THEN [state EXCEPT !.kbs = Append(@, [dev |-> d, alive |-> TRUE])]
  ELSE [state EXCEPT !.ignored = @ + 1]     \* returns false without close(fd)

\* variant: only the first is tried
OpenedFirst(ks, ds) ==
  IF ds = <<>> THEN [kbs |-> ks, ignored |-> ignored]
  ELSE open_input([kbs |-> ks, ignored |-> ignored], Head(ds))

OpenedAll(ks, ds) ==
  LET after[i \in 0..Len(ds)] ==
        IF i = 0 THEN [kbs |-> ks, ignored |-> ignored] ELSE open_input(after[i - 1], ds[i])
  IN after[Len(ds)]

\* open_inputs(): one directory entry, or the end of the directory
OpenInput ==
  /\ pc = "open_inputs"
  /\ \/ \E d \in listed :
          LET after == OpenedAll(kbs, <<d>>) IN
          /\ kbs' = after.kbs /\ ignored' = after.ignored
          /\ listed' = listed \ {d}
          /\ UNCHANGED pc
     \/ /\ listed = {}
        /\ pc' = "open_inotify"
        /\ UNCHANGED <<kbs, ignored, listed>>
  /\ UNCHANGED <<worldVars, watching, timeout, waiting, keep_going, retval>>

\* with nothing to grab, serve_loop returns at once
OpenInotify ==
  /\ pc = "open_inotify"
  /\ watching' = TRUE
  /\ IF kbs = <<>> THEN pc' = "done" /\ retval' = 1
     ELSE pc' = "while" /\ UNCHANGED retval
  /\ UNCHANGED <<worldVars, listed, kbs, ignored, timeout, waiting, keep_going>>

While ==
  /\ pc = "while"
  /\ pc' = IF keep_going THEN "prepare" ELSE "done"
  /\ UNCHANGED <<worldVars, listed, watching, kbs, ignored, timeout, waiting, keep_going, retval>>

\* time_till_exit = timeval_diff(exit_time, timeval_now())
Prepare ==
  /\ pc = "prepare"
  /\ IF TimedExit THEN timeout' = timeval_diff(exit_time, now) /\ waiting' = now
     ELSE UNCHANGED <<timeout, waiting>>
  /\ pc' = "select"
  /\ UNCHANGED <<worldVars, listed, watching, kbs, ignored, keep_going, retval>>

NothingRefused == FALSE     \* variant: a negative timeout means forever

\* select() refuses a timeout with a negative part with EINVAL
Refused == TimedExit /\ (timeout.tv_sec < 0 \/ timeout.tv_usec < 0)

SelectFails ==
  /\ pc = "select" /\ Refused
  /\ pc' = "done" /\ retval' = 1
  /\ UNCHANGED <<worldVars, listed, watching, kbs, ignored, timeout, waiting, keep_going>>

\* "exiting due to timeout": select() leaves what remains of the timeout in it
TimeIsUp ==
  /\ TimedExit /\ Usecs(timeout) >= 0
  /\ Usecs(now) >= Usecs(waiting) + Usecs(timeout)

SelectTimesOut ==
  /\ pc = "select" /\ ~Refused /\ TimeIsUp
  /\ pc' = "done"
  /\ UNCHANGED <<worldVars, listed, watching, kbs, ignored, timeout, waiting, keep_going,
                 retval>>

\* read() fails on the keyboards that are gone, and their entries are removed
Remaining(ks) ==
  LET after[i \in 0..Len(ks)] ==
        IF i = 0 THEN <<>>
        ELSE IF ks[i].alive THEN Append(after[i - 1], ks[i]) ELSE after[i - 1]
  IN after[Len(ks)]

\* The loop body: the keyboards, and then every IN_CREATE event is read, and its
\* device tried.
HandleReady ==
  LET after == OpenedAll(Remaining(kbs), inotify) IN
  /\ pc = "select" /\ ~Refused /\ ~TimeIsUp
  /\ kbs' = after.kbs /\ ignored' = after.ignored
  /\ inotify' = <<>>
  /\ pc' = "while"
  /\ UNCHANGED <<plugged, plugs, now, exitVars, listed, watching, timeout, waiting, keep_going,
                 retval>>

\* descriptors that stay ready until the loop has seen to them
Ready == inotify # <<>> \/ \E i \in DOMAIN kbs : ~kbs[i].alive

SelectReady == Ready /\ HandleReady

\* a key is pressed on some keyboard
SelectKey == ~Ready /\ (\E i \in DOMAIN kbs : kbs[i].alive) /\ HandleReady

-----------------------------------------------------------------------------

Loop == OpenInput \/ OpenInotify \/ While \/ Prepare \/ SelectFails \/ SelectTimesOut
        \/ SelectReady

World == Tick \/ Signal \/ SelectKey \/ \E d \in Devices : Plug(d) \/ Unplug(d)

Next == Loop \/ World

Spec == Init /\ [][Next]_vars

\* The loop keeps running and time keeps passing.  No key need be pressed, and
\* nobody need plug in a keyboard or send a signal.
FairSpec == Spec /\ WF_vars(Loop) /\ WF_vars(Tick)

-----------------------------------------------------------------------------
\* No keyboard is grabbed twice, and none that is ignored is grabbed: each entry
\* of kbs that is not stale is a device of its own (open_input, EVIOCGRAB).
GrabbedOnce ==
  \A i, j \in DOMAIN kbs :
    /\ kbs[i].dev \in Wanted
    /\ kbs[i].alive => kbs[i].dev \in plugged
    /\ (i # j /\ kbs[i].dev = kbs[j].dev) => ~(kbs[i].alive /\ kbs[j].alive)

\* A keyboard that the directory lists, or whose IN_CREATE event has been queued, is
\* grabbed, unless it is gone again, the loop ends, sixteen others have been grabbed, or
\* devices that were ignored have used up the descriptors (open_inputs,
\* handle_inotify_events).  One that is plugged in between the last readdir() and
\* inotify_add_watch() is neither.
NewKeyboardIsGrabbed ==
  \A d \in Wanted :
    (d \in listed \/ \E i \in DOMAIN inotify : inotify[i] = d) ~>
      \/ Grabbed(kbs, d) \/ d \notin plugged \/ pc = "done"
      \/ ~HasRoom(kbs) \/ ~HasDescriptor([kbs |-> kbs, ignored |-> ignored])

\* --timeout ends the loop, whatever the keyboards do ("if we lose the ability to
\* type ctrl-c, we don't have to reboot", README.md:87).
ExitsInTime == TimedExit ~> pc = "done"

\* and not before its time, if that can be told in milliseconds in an int, be it with an
\* error: what is left of the time is never taken for a negative one while there is some
\* (timeval_diff).
NeverEarly ==
  [][(FitsInt /\ pc = "select" /\ pc' = "done") =>
       Usecs(now) - Usecs(started) >= run_timeout * USEC]_vars

=============================================================================
