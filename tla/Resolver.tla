------------------------------ MODULE Resolver ------------------------------
(***************************************************************************)
(* The resolver (resolver.c) inside the select loop of serve_loop()        *)
(* (sdiol.c), fed by keyboards and draining into send_dedup().             *)
(*                                                                         *)
(* One grab of the configuration owns one struct resolver; several         *)
(* keyboards may share a grab, and all resolvers share one send_dedup_t.   *)
(* The loop is single-threaded.  Its steps are one read() of an event with *)
(* what the loop does before resolve() (ReadEvent), one call of resolve()  *)
(* (Resolve), and one call of the send callback (Send).  resolve() calls   *)
(* send synchronously; here the calls it makes are queued in sends and     *)
(* happen before anything else the loop does, which no variable can tell   *)
(* apart.  resolve() reads the clock on every call, so the clock may move  *)
(* between two calls.                                                      *)
(*                                                                         *)
(* Times are in milliseconds.  The ring unresolved/ur_start/ur_len is the  *)
(* sequence it stores, at most URMAX long.                                 *)
(***************************************************************************)
EXTENDS SendDedup, FiniteSets

CONSTANTS
  Grabs, NoGrab,
  Kbs,          \* the keyboards
  GrabOf,       \* keyboard -> the grab whose regex its name matched
  RootOf,       \* grab -> the name of its root keymap
  InputKeys,    \* the keys the keyboards have
  PreHeld,      \* keys that may be down before the program grabs a keyboard
  RepeatKeys,   \* keys whose autorepeat is modelled
  Unpluggable,  \* the keyboards that may be unplugged and plugged in again
  OtherEvents,  \* [code, value] of the events that are not EV_KEY or EV_SYN
  URMAX,        \* the capacity of unresolved (1024 in resolver.h)
  EvdevSize,    \* bound on the events waiting in a keyboard's kernel buffer
  MaxTime,      \* bound on the clock
  MaxCount,     \* bound on the counts with which a keyboard may be unplugged
  MaxLag        \* bound on how long an event waits to be read and resolved

ASSUME ResolverAssumption ==
  /\ NoGrab \notin Grabs /\ IsFiniteSet(Grabs) /\ IsFiniteSet(Kbs)
  /\ GrabOf \in [Kbs -> Grabs]
  /\ RootOf \in [Grabs -> Keymaps]
  /\ InputKeys \subseteq Keys
  /\ PreHeld \subseteq InputKeys /\ RepeatKeys \subseteq InputKeys
  /\ Unpluggable \subseteq Kbs
  /\ OtherEvents \subseteq [code : Codes, value : Values]
  /\ URMAX \in Nat \ {0} /\ EvdevSize \in Nat \ {0}
  /\ MaxTime \in Nat /\ MaxCount \in Nat
  /\ MaxLag \in Nat

VARIABLES
  \* struct resolver, for each grab
  unresolved,       \* the events not resolved yet, oldest first
  input_counts,     \* key -> keyboards holding it down
  release_map,      \* key -> the code to release, RESET_KEYMAP, or 0
  current_keymap,
  last_tap_code, last_tap_time,
  resolvable_time,  \* NoTime while use_resolvable_time is false
  \* serve_loop
  resolving,        \* the grab whose while(resolve(r)) is running, or NoGrab
  sends,            \* the send calls resolve() has made and Send has not run
  status,           \* "running", or "overflow" after exit(1)
  \* the world
  now,              \* CLOCK_REALTIME
  held,             \* keyboard -> keys that are physically down
  frame,            \* keyboards with events since their last EV_SYN
  evdev             \* keyboard -> kernel buffer of events not read yet

resolverVars == <<unresolved, input_counts, release_map, current_keymap,
                  last_tap_code, last_tap_time, resolvable_time>>
worldVars    == <<now, held, frame, evdev>>
vars == <<resolverVars, dedupVars, resolving, sends, status, worldVars>>

NoTime == -1
NoTap  == -1

TypeOK ==
  /\ DedupTypeOK
  /\ unresolved \in [Grabs -> Seq(TimedEvent)]
  /\ \A g \in Grabs : Len(unresolved[g]) <= URMAX
  /\ input_counts \in [Grabs -> [Keys -> Nat]]
  /\ release_map \in [Grabs -> [Codes -> Codes \cup {RESET_KEYMAP}]]
  /\ current_keymap \in [Grabs -> Keymaps]
  /\ last_tap_code \in [Grabs -> Codes \cup {NoTap}]
  /\ last_tap_time \in [Grabs -> Nat]
  /\ resolvable_time \in [Grabs -> Nat \cup {NoTime}]
  /\ resolving \in Grabs \cup {NoGrab}
  /\ sends \in Seq(Event)
  /\ status \in {"running", "overflow"}
  /\ now \in Nat
  /\ held \in [Kbs -> SUBSET Keys]
  /\ frame \subseteq Kbs
  /\ evdev \in [Kbs -> Seq(TimedEvent)]

\* resolver_init() for every grab.  A key may be down since before the grab.
Init ==
  /\ DedupInit
  /\ unresolved = [g \in Grabs |-> <<>>]
  /\ input_counts = [g \in Grabs |-> [k \in Keys |-> 0]]
  /\ release_map = [g \in Grabs |-> [c \in Codes |-> 0]]
  /\ current_keymap = RootOf
  /\ last_tap_code = [g \in Grabs |-> 0]
  /\ last_tap_time = [g \in Grabs |-> 0]
  /\ resolvable_time = [g \in Grabs |-> NoTime]
  /\ resolving = NoGrab
  /\ sends = <<>>
  /\ status = "running"
  /\ now = 0
  /\ held \in [Kbs -> SUBSET PreHeld]
  /\ frame = {}
  /\ evdev = [kb \in Kbs |-> <<>>]

-----------------------------------------------------------------------------
(* The world: keyboards and the clock                                      *)

Emit(kb, ev) ==
  /\ Len(evdev[kb]) < EvdevSize
  /\ evdev' = [evdev EXCEPT ![kb] = Append(@, Stamped(ev, now))]

KeyDown(kb, k) ==
  /\ k \notin held[kb]
  /\ Emit(kb, KeyEvent(k, 1))
  /\ held' = [held EXCEPT ![kb] = @ \cup {k}]
  /\ frame' = frame \cup {kb}

KeyUp(kb, k) ==
  /\ k \in held[kb]
  /\ Emit(kb, KeyEvent(k, 0))
  /\ held' = [held EXCEPT ![kb] = @ \ {k}]
  /\ frame' = frame \cup {kb}

KeyRepeat(kb, k) ==
  /\ k \in held[kb] \cap RepeatKeys
  /\ Emit(kb, KeyEvent(k, 2))
  /\ frame' = frame \cup {kb}
  /\ UNCHANGED held

OtherInput(kb, o) ==
  /\ Emit(kb, [type |-> "EV_OTHER", code |-> o.code, value |-> o.value])
  /\ frame' = frame \cup {kb}
  /\ UNCHANGED held

\* the kernel ends every group of events with an EV_SYN
SynReport(kb) ==
  /\ kb \in frame
  /\ Emit(kb, SynEvent)
  /\ frame' = frame \ {kb}
  /\ UNCHANGED held

\* The events not read yet and the releases to come are lost.  serve_loop closes
\* the descriptor and opens it again when the keyboard is back, and does nothing
\* about the keys that were down ("TODO: do something to release any pressed
\* keys here"): no variable of the resolver changes.
Unplug(kb) ==
  /\ kb \in Unpluggable
  /\ \A k \in Keys : input_counts[GrabOf[kb]][k] <= MaxCount
  /\ evdev' = [evdev EXCEPT ![kb] = <<>>]
  /\ held' = [held EXCEPT ![kb] = {}]
  /\ frame' = frame \ {kb}

Keyboard(kb) ==
  /\ \/ \E k \in InputKeys : KeyDown(kb, k) \/ KeyUp(kb, k) \/ KeyRepeat(kb, k)
     \/ \E o \in OtherEvents : OtherInput(kb, o)
     \/ SynReport(kb)
     \/ Unplug(kb)
  /\ status = "running"
  /\ UNCHANGED <<resolverVars, dedupVars, resolving, sends, status, now>>

\* nothing is left to do until select() returns
Asleep == resolving = NoGrab /\ sends = <<>>

Newest(g) == unresolved[g][Len(unresolved[g])]

\* The loop falls behind the keyboards by at most MaxLag: no event waits longer to be
\* read, nor to have everything resolved that it lets resolve() decide.  Send does
\* not read the clock, so it need not move while sends waits.
Tick ==
  /\ now < MaxTime
  /\ sends = <<>>
  /\ \A kb \in Kbs : \A i \in 1..Len(evdev[kb]) : now - evdev[kb][i].time < MaxLag
  /\ (resolving # NoGrab /\ unresolved[resolving] # <<>>)
       => now - Newest(resolving).time < MaxLag
  /\ now' = now + 1
  /\ UNCHANGED <<resolverVars, dedupVars, resolving, sends, status,
                 held, frame, evdev>>

-----------------------------------------------------------------------------
(* serve_loop: read one event of a keyboard that select() found readable   *)

\* resolve_dedup_input(): how the event changes the number of keyboards that
\* hold its key, and whether the resolver gets to see it
CountOnce(n, ev) == IF IsPress(ev) THEN 1 ELSE 0     \* variant: a flag, no count

CountAfter(n, ev) ==
  IF IsPress(ev) THEN n + 1
  ELSE IF IsRelease(ev) /\ n > 0 THEN n - 1
  ELSE n

AcceptAll(n, ev) == TRUE     \* variant: keyboards are not deduplicated

Accepted(n, ev) ==
  /\ IsPress(ev) => n = 0
  /\ IsRelease(ev) => n = 1

\* the counts of a grab after an event, and whether the event is accepted
CountsAfter(g, ev) ==
  IF ev.type = "EV_KEY"
  THEN [input_counts[g] EXCEPT ![ev.code] = CountAfter(@, ev)]
  ELSE input_counts[g]

resolve_dedup_input(g, ev) ==
  ev.type = "EV_KEY" => Accepted(input_counts[g][ev.code], ev)

NeverFull(g) == Len(unresolved[g]) > URMAX     \* variant: off by one

Full(g) == Len(unresolved[g]) = URMAX

\* The event is dropped, queued and resolved, or one too many for the queue.
ReadEvent(kb) ==
  LET g  == GrabOf[kb]
      ev == Head(evdev[kb])
  IN
  /\ status = "running" /\ Asleep
  /\ evdev[kb] # <<>>
  /\ evdev' = [evdev EXCEPT ![kb] = Tail(@)]
  /\ input_counts' = [input_counts EXCEPT ![g] = CountsAfter(g, ev)]
  /\ \/ /\ ~resolve_dedup_input(g, ev)
        /\ UNCHANGED <<unresolved, resolving, status>>
     \/ /\ resolve_dedup_input(g, ev)
        /\ Full(g)
        /\ status' = "overflow"
        /\ UNCHANGED <<unresolved, resolving>>
     \/ /\ resolve_dedup_input(g, ev)
        /\ ~Full(g)
        /\ unresolved' = [unresolved EXCEPT ![g] = Append(@, ev)]
        /\ resolving' = g
        /\ UNCHANGED status
  /\ UNCHANGED <<release_map, current_keymap, last_tap_code, last_tap_time,
                 resolvable_time, dedupVars, sends, now, held, frame>>

-----------------------------------------------------------------------------
(* resolve(): one attempt at the oldest event                              *)

Oldest(g) == Head(unresolved[g])

DropOldest(g) == unresolved' = [unresolved EXCEPT ![g] = Tail(@)]
KeepNewest(g) == UNCHANGED unresolved     \* variant: forgets ur_len--
DropNewest(g) == unresolved' = [unresolved EXCEPT ![g] = SubSeq(@, 1, Len(@) - 1)]

\* while(resolve(r)): a call that returns true is followed by another
ReturnTrue(g) == DropOldest(g) /\ resolving' = g

\* variant: an event that cannot be resolved is tried again
ReturnNotEmpty(g) == resolving' = IF unresolved[g] = <<>> THEN NoGrab ELSE g

ReturnFalse(g) == resolving' = NoGrab

\* every resolve() of a non-empty queue clears use_resolvable_time
ClearResolvableTime(g) == resolvable_time' = [resolvable_time EXCEPT ![g] = NoTime]

SetLastTap(g, code) == last_tap_code' = [last_tap_code EXCEPT ![g] = code]

\* maybe_invalidate_last_tap(): a press of another key forgets the last tap
TapCodeAtPress(g, code) == IF last_tap_code[g] = code THEN code ELSE NoTap

\* a macro sends every step with an EV_SYN of its own
MacroSends(m) ==
  [i \in 1..(2 * Len(m)) |->
     IF i % 2 = 1
     THEN KeyEvent(m[(i + 1) \div 2].code, IF m[(i + 1) \div 2].press THEN 1 ELSE 0)
     ELSE SynEvent]

RememberNothing(g, key, code) == UNCHANGED release_map     \* variant
RememberRelease(g, key, code) == release_map' = [release_map EXCEPT ![g][key] = code]

\* do_keypress(): a simple key and a keymap leave word of how to release them
DoSimple(g, ev, ka) ==
  /\ ka.type = "SIMPLE"
  /\ RememberRelease(g, ev.code, ka.simple)
  /\ sends' = <<KeyEvent(ka.simple, 1)>>
  /\ UNCHANGED current_keymap

DoMacro(ka) ==
  /\ ka.type = "MACRO"
  /\ sends' = MacroSends(ka.macro)
  /\ UNCHANGED <<release_map, current_keymap>>

DoMap(g, ev, ka) ==
  /\ ka.type = "MAP"
  /\ current_keymap' = [current_keymap EXCEPT ![g] = ka.map]
  /\ RememberRelease(g, ev.code, RESET_KEYMAP)
  /\ UNCHANGED sends

do_keypress(g, ev, ka) == DoSimple(g, ev, ka) \/ DoMacro(ka) \/ DoMap(g, ev, ka)

-----------------------------------------------------------------------------
(* check_waveform(): is the dual key pressed by ev a tap or a hold?        *)

OldEnough(ev, dual) == now - ev.time >= dual.hold_ms     \* variant: >= for >

TooOld(ev, dual) == now - ev.time > dual.hold_ms

DoubleTap(g, ev, dual) ==
  /\ dual.double_tap_ms > -1
  /\ last_tap_code[g] = ev.code
  /\ \/ dual.double_tap_ms = 0
     \/ ev.time - last_tap_time[g] < dual.double_tap_ms

SecondaryPress(g) == \E i \in 2..Len(unresolved[g]) : IsPress(unresolved[g][i])

\* variant: a tap of another key during the press does not decide
DecisiveNoHold(g, ev, dual, i) ==
  IsRelease(unresolved[g][i]) /\ unresolved[g][i].code = ev.code

\* Does the i-th unresolved event decide?  It does if it releases the dual key,
\* presses another in HOLD_ON_ROLLOVER mode, or ends a tap of another.
Decisive(g, ev, dual, i) ==
  LET q == unresolved[g] IN
  \/ IsRelease(q[i]) /\ q[i].code = ev.code
  \/ IsPress(q[i]) /\ dual.mode = "HOLD_ON_ROLLOVER"
  \/ IsRelease(q[i]) /\ \E j \in 2..(i - 1) : IsPress(q[j]) /\ q[j].code = q[i].code

FirstDecisive(g, ev, dual, i) ==
  /\ i \in 2..Len(unresolved[g])
  /\ Decisive(g, ev, dual, i)
  /\ \A j \in 2..(i - 1) : ~Decisive(g, ev, dual, j)

Undecided(g, ev, dual) ==
  /\ ~TooOld(ev, dual)
  /\ \/ dual.mode = "TIMEOUT_ONLY"
     \/ \A i \in 2..Len(unresolved[g]) : ~Decisive(g, ev, dual, i)

\* the press is old enough for a hold, or for the hold of a double tap
DecideByAge(g, ev, dual) ==
  /\ TooOld(ev, dual)
  /\ do_keypress(g, ev, IF DoubleTap(g, ev, dual) THEN dual.tap ELSE dual.hold)
  /\ SetLastTap(g, NoTap)
  /\ UNCHANGED last_tap_time

\* variant: the events are looked at before the age of the press
DecideTapFirst(g, ev, dual) ==
  /\ dual.mode # "TIMEOUT_ONLY"
  /\ \E i \in 2..Len(unresolved[g]) :
       /\ FirstDecisive(g, ev, dual, i)
       /\ unresolved[g][i].code = ev.code /\ IsRelease(unresolved[g][i])
       /\ last_tap_time' = [last_tap_time EXCEPT ![g] = unresolved[g][i].time]
  /\ do_keypress(g, ev, dual.tap)
  /\ SetLastTap(g, ev.code)

\* the first decisive event is the release of the dual key: a natural tap
DecideTap(g, ev, dual) ==
  /\ ~TooOld(ev, dual) /\ dual.mode # "TIMEOUT_ONLY"
  /\ \E i \in 2..Len(unresolved[g]) :
       /\ FirstDecisive(g, ev, dual, i)
       /\ unresolved[g][i].code = ev.code /\ IsRelease(unresolved[g][i])
       /\ last_tap_time' = [last_tap_time EXCEPT ![g] = unresolved[g][i].time]
  /\ do_keypress(g, ev, dual.tap)
  /\ SetLastTap(g, ev.code)

DecideHold(g, ev, dual) ==
  /\ ~TooOld(ev, dual) /\ dual.mode # "TIMEOUT_ONLY"
  /\ \E i \in 2..Len(unresolved[g]) :
       /\ FirstDecisive(g, ev, dual, i)
       /\ ~(unresolved[g][i].code = ev.code /\ IsRelease(unresolved[g][i]))
  /\ do_keypress(g, ev, dual.hold)
  /\ SetLastTap(g, NoTap)
  /\ UNCHANGED last_tap_time

-----------------------------------------------------------------------------
(* The cases of resolve()                                                  *)

\* resolve_press() of a key that is not dual, or is and has been decided
ResolvePress(g) ==
  LET ev == Oldest(g)
      ka == key_action_get(current_keymap[g], ev.code)
  IN
  /\ IsPress(ev)
  /\ \/ /\ ka.type # "DUAL"
        /\ do_keypress(g, ev, ka)
        /\ SetLastTap(g, TapCodeAtPress(g, ev.code))
        /\ UNCHANGED last_tap_time
     \/ /\ ka.type = "DUAL"
        /\ DecideByAge(g, ev, ka) \/ DecideTap(g, ev, ka) \/ DecideHold(g, ev, ka)
  /\ ReturnTrue(g)
  /\ ClearResolvableTime(g)

\* resolve_release(): release whatever the press turned into
ResolveRelease(g) ==
  LET ev   == Oldest(g)
      code == release_map[g][ev.code]
  IN
  /\ IsRelease(ev)
  /\ release_map' = [release_map EXCEPT ![g][ev.code] = 0]
  /\ \/ /\ code = RESET_KEYMAP
        /\ current_keymap' = [current_keymap EXCEPT ![g] = RootOf[g]]
        /\ UNCHANGED sends
     \/ /\ code = 0
        /\ UNCHANGED <<current_keymap, sends>>
     \/ /\ code \notin {0, RESET_KEYMAP}
        /\ sends' = <<KeyEvent(code, 0)>>
        /\ UNCHANGED current_keymap
  /\ ReturnTrue(g)
  /\ ClearResolvableTime(g)
  /\ UNCHANGED <<last_tap_code, last_tap_time>>

\* a repeat of what the press turned into
ResolveRepeat(g) ==
  LET ev   == Oldest(g)
      code == release_map[g][ev.code]
  IN
  /\ ev.type = "EV_KEY" /\ ev.value = 2
  /\ sends' = IF code \in {0, RESET_KEYMAP} THEN <<>> ELSE <<KeyEvent(code, 2)>>
  /\ ReturnTrue(g)
  /\ ClearResolvableTime(g)
  /\ UNCHANGED <<release_map, current_keymap, last_tap_code, last_tap_time>>

\* variant: only the events that are not EV_SYN are passed on
PassThroughNoSyn(ev) ==
  IF ev.type = "EV_SYN" THEN <<>>
  ELSE <<[type |-> ev.type, code |-> ev.code, value |-> ev.value]>>

PassThrough(ev) == <<[type |-> ev.type, code |-> ev.code, value |-> ev.value]>>

\* events that are not keys go through as they are
ResolveOther(g) ==
  LET ev == Oldest(g) IN
  /\ ev.type # "EV_KEY"
  /\ sends' = PassThrough(ev)
  /\ ReturnTrue(g)
  /\ ClearResolvableTime(g)
  /\ UNCHANGED <<release_map, current_keymap, last_tap_code, last_tap_time>>

NoKeyStays(code) == FALSE     \* variant: modifiers are released early too

\* modifier keys don't get resolved early
StaysQueued(code) == code \in ModifierKeys

\* What becomes of the newest event when the oldest cannot be resolved: if its
\* value is 0 (its type is not looked at) it is taken for a release whose press
\* has been resolved, and happens at once unless it would release a modifier.
ReleaseEarly(g) ==
  LET ev   == Newest(g)
      code == release_map[g][ev.code]
  IN
  \/ /\ ev.value # 0
     /\ UNCHANGED <<unresolved, current_keymap, sends>>
  \/ /\ ev.value = 0 /\ code = RESET_KEYMAP
     /\ current_keymap' = [current_keymap EXCEPT ![g] = RootOf[g]]
     /\ DropNewest(g)
     /\ UNCHANGED sends
  \/ /\ ev.value = 0 /\ StaysQueued(code)
     /\ UNCHANGED <<unresolved, current_keymap, sends>>
  \/ /\ ev.value = 0 /\ code # RESET_KEYMAP /\ ~StaysQueued(code)
     /\ sends' = <<[type |-> ev.type, code |-> code, value |-> 0], SynEvent>>
     /\ DropNewest(g)
     /\ UNCHANGED current_keymap

\* resolve() gives up on a dual key that is neither tap nor hold yet, and leaves
\* a time at which to try again
KeepUnresolved(g) ==
  LET ev   == Oldest(g)
      dual == key_action_get(current_keymap[g], ev.code)
  IN
  /\ IsPress(ev)
  /\ dual.type = "DUAL"
  /\ Undecided(g, ev, dual)
  /\ resolvable_time' = [resolvable_time EXCEPT ![g] = ev.time + dual.hold_ms]
  /\ SetLastTap(g, IF dual.mode # "TIMEOUT_ONLY" /\ SecondaryPress(g)
                   THEN NoTap ELSE TapCodeAtPress(g, ev.code))
  /\ ReleaseEarly(g)
  /\ ReturnFalse(g)
  /\ UNCHANGED <<release_map, last_tap_time>>

\* ur_len == 0: resolve() returns false at once
NothingUnresolved(g) ==
  /\ unresolved[g] = <<>>
  /\ ReturnFalse(g)
  /\ UNCHANGED <<resolverVars, sends>>

Resolve ==
  /\ resolving # NoGrab
  /\ sends = <<>>
  /\ LET g == resolving IN
     \/ NothingUnresolved(g)
     \/ /\ unresolved[g] # <<>>
        /\ \/ ResolvePress(g)
           \/ ResolveRelease(g)
           \/ ResolveRepeat(g)
           \/ ResolveOther(g)
           \/ KeepUnresolved(g)
  /\ UNCHANGED <<input_counts, dedupVars, status, worldVars>>

Send ==
  /\ sends # <<>>
  /\ send_dedup(Head(sends))
  /\ sends' = Tail(sends)
  /\ UNCHANGED <<resolverVars, resolving, status, worldVars>>

-----------------------------------------------------------------------------

Loop == (\E kb \in Kbs : ReadEvent(kb)) \/ Resolve \/ Send

Next == (\E kb \in Kbs : Keyboard(kb)) \/ Tick \/ Loop

Spec == Init /\ [][Next]_vars

\* The loop keeps running and time keeps passing; nobody need touch a key.
FairSpec ==
  /\ Spec
  /\ WF_vars(Tick)
  /\ \A kb \in Kbs : WF_vars(ReadEvent(kb))
  /\ WF_vars(Resolve)
  /\ WF_vars(Send)

=============================================================================
