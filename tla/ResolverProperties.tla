------------------------- MODULE ResolverProperties -------------------------
(***************************************************************************)
(* What the resolver promises, stated over the state of Resolver.          *)
(***************************************************************************)
EXTENDS Resolver

\* the positions of the presses and releases of k in a queue of events
Waiting(q, k) == {i \in 1..Len(q) : (IsPress(q[i]) \/ IsRelease(q[i])) /\ q[i].code = k}

\* Going by what comes after position i of q, is k down at that point?  The next
\* event of k is its release or, if there is none, n sources hold k in the end.
DownAt(q, n, k, i) ==
  LET later == {j \in Waiting(q, k) : j > i} IN
  \/ later = {} /\ n > 0
  \/ \E j \in later : IsRelease(q[j]) /\ \A m \in later : j <= m

Alternates(q, n, k) == \A i \in Waiting(q, k) : IsPress(q[i]) <=> DownAt(q, n, k, i)

\* k's press has been resolved and its release has not
PressResolved(g, k) == DownAt(unresolved[g], input_counts[g][k], k, 0)

\* the configuration has no TIMEOUT_ONLY key
NoTimeoutOnly ==
  \A m \in Keymaps, k \in Keys :
    KeymapOf[m][k].type = "DUAL" => KeymapOf[m][k].mode # "TIMEOUT_ONLY"

-----------------------------------------------------------------------------
\* No press or release is lost or doubled between the keyboards and the queue:
\* the waiting events of every key alternate, and the last one agrees with the
\* number of keyboards that hold the key.  It is what the comment in resolve()
\* (resolver.c:292) relies on: a release taken off the queue early must not be
\* the release of a press that is still waiting.
QueueAlternates ==
  status = "running" =>
    \A g \in Grabs, k \in Keys : Alternates(unresolved[g], input_counts[g][k], k)

\* The keyboards of a grab are ORed (resolver.h:27): each key counts the keyboards
\* that hold it down, going by the events read so far, so that what is dropped is
\* always a press that is not the first or a release that is not the last.
InputsAreOred ==
  status = "running" =>
    \A g \in Grabs, k \in Keys :
      input_counts[g][k] =
        Cardinality({kb \in Kbs :
          /\ GrabOf[kb] = g
          /\ DownAt(evdev[kb], IF k \in held[kb] THEN 1 ELSE 0, k, 0)})

\* Every outgoing code is held down exactly by the keys whose press was resolved
\* to it and whose release has not been resolved: nothing gets stuck, and nothing
\* is released under a key that still holds it.  In particular once all keys are
\* up and the queues are empty, no code is down (release_map, press_count_map).
OutputJustified ==
  (status = "running" /\ sends = <<>>) =>
    \A c \in Keys :
      press_count_map[c] =
        Cardinality({gk \in Grabs \X Keys :
                       /\ PressResolved(gk[1], gk[2])
                       /\ release_map[gk[1]][gk[2]] = c})

\* No layer sticks: away from the root keymap, some key that is down and was
\* resolved as a keymap key will reset the keymap when released (resolve_release
\* and the early release in resolve()).
LayerIsHeld ==
  status = "running" =>
  \A g \in Grabs : current_keymap[g] # RootOf[g] =>
    \E k \in Keys : PressResolved(g, k) /\ release_map[g][k] = RESET_KEYMAP

\* A modifier outlasts its chords: when the release of a key that was resolved to
\* a modifier takes effect, no press that came before that release is still
\* waiting ("modifier keys don't get resolved early", resolver.c:317), so a key
\* pressed under a modifier is never sent without it.
ModifiersOutlastChords ==
  [][\A g \in Grabs, k \in Keys :
       (/\ status' = "running"
        /\ PressResolved(g, k) /\ release_map[g][k] \in ModifierKeys
        /\ ~PressResolved(g, k)')
       => \A i \in Waiting(unresolved[g], k) :
            (\A m \in Waiting(unresolved[g], k) : i <= m)
            => \A j \in 1..(i - 1) : ~IsPress(unresolved[g][j])]_vars

\* Every frame of output is closed: when the loop sleeps with key events sent
\* since the last EV_SYN it sent, the EV_SYN of some keyboard is still to come.
\* EV_SYNs jump the queue by way of the early release in resolve().
OutputFrameCloses ==
  (status = "running" /\ Asleep /\ sent_something) =>
    \E kb \in Kbs : \/ kb \in frame
                    \/ \E i \in 1..Len(evdev[kb]) : evdev[kb][i].type = "EV_SYN"

\* a dual key, not double-tapped, is resolved to its hold because of its age
HeldByAge(g) ==
  /\ resolving = g /\ sends = <<>> /\ unresolved[g] # <<>>
  /\ LET ev == Oldest(g)
         ka == key_action_get(current_keymap[g], ev.code)
     IN /\ IsPress(ev) /\ ka.type = "DUAL" /\ TooOld(ev, ka) /\ ~DoubleTap(g, ev, ka)

\* Ev releases the dual key pressed by the oldest event soon enough for a tap, however
\* late the loop: the age of a press is taken when it is looked at, so that what the loop
\* is behind counts as well.
QuickRelease(g, ev) ==
  LET dual == key_action_get(current_keymap[g], Oldest(g).code) IN
  /\ IsRelease(ev) /\ ev.code = Oldest(g).code
  /\ ev.time >= Oldest(g).time
  /\ ev.time - Oldest(g).time <= dual.hold_ms - MaxLag

\* A dual key is held for its age only if it was down for longer than HOLD_MS less what
\* the loop is behind (README.md:174: "held" if it is pressed for longer than its
\* HOLD_TIMEOUT): when resolver.c:73 reads the clock, no release that came sooner is
\* waiting in the queue, or unread in the kernel.
QuickReleaseIsNoHold ==
  \A g \in Grabs : HeldByAge(g) =>
    /\ \A i \in 2..Len(unresolved[g]) : ~QuickRelease(g, unresolved[g][i])
    /\ \A kb \in Kbs : GrabOf[kb] = g =>
         \A i \in 1..Len(evdev[kb]) : ~QuickRelease(g, evdev[kb][i])

\* resolve() takes the press ev of a dual key off the queue, as a natural tap
Tapped(g, ev) ==
  /\ IsPress(ev)
  /\ key_action_get(current_keymap[g], ev.code).type = "DUAL"
  /\ unresolved'[g] = Tail(unresolved[g]) /\ resolving' = g
  /\ last_tap_code'[g] = ev.code

TapsAreShort ==
  \A g \in Grabs : (unresolved[g] # <<>> /\ Tapped(g, Oldest(g))) =>
    last_tap_time'[g] - Oldest(g).time
      <= key_action_get(current_keymap[g], Oldest(g).code).hold_ms

\* However late the loop, a natural tap was no longer than HOLD_MS, by the times the
\* kernel gave its press and its release (check_waveform, README.md:174).
SlowReleaseIsNoTap == [][TapsAreShort]_vars

\* The loop always gets back to select(): while(resolve(r)) ends.
LoopReturns == (resolving # NoGrab) ~> Asleep

-----------------------------------------------------------------------------
(* The resolvers and send_dedup() implement KeyHolds                       *)

Touched(ev) == IF IsPress(ev) \/ IsRelease(ev) THEN ev.code ELSE 0

\* the keys of the events that are not resolved
Backlog ==
  [g \in Grabs |-> [i \in 1..Len(unresolved[g]) |-> Touched(unresolved[g][i])]]

Held(g, k) == IF PressResolved(g, k) THEN release_map[g][k] ELSE -1

HeldAs ==
  [g \in Grabs |-> [k \in Keys |-> IF status = "running" THEN Held(g, k) ELSE -1]]

\* the codes of the presses and releases that are about to be sent
Pending == {Touched(sends[i]) : i \in 1..Len(sends)} \ {0}

Holds == INSTANCE KeyHolds
           WITH Capacity <- URMAX, backlog <- Backlog, heldAs <- HeldAs,
                layer <- current_keymap, pending <- Pending, down <- sink \ {0},
                running <- (status = "running")

\* Queues, counts, early releases and macros amount to keys that are each held as one
\* thing, and an output that follows: whatever the order in which events are resolved,
\* dropped and overtaken (resolver.c, send_dedup).
ImplementsKeyHolds == Holds!Spec

\* Even while a macro or a release is on its way out, every other code is down exactly
\* if some key is held as it (resolve, send_dedup).
OutputIsAsHeld == Holds!OutputIsAsHeld

-----------------------------------------------------------------------------
\* Statements of the source that the code does not keep

\* resolver.h:34: an unresolvable event "will become resolvable by timeout" at
\* resolvable_time, so an event is not left behind once that time has passed.
Overdue(g) == resolvable_time[g] # NoTime /\ now > resolvable_time[g]

ResolvedByTimeout == \A g \in Grabs : Overdue(g) ~> ~Overdue(g)

\* sdiol.c:91 reports "invalid key release" of a code that nobody holds: when
\* resolve() releases a code, the press that was resolved to it has been sent
\* (resolver.h:30, "we have to remember what key to release").
ReleasesAreValid ==
  (sends # <<>> /\ IsRelease(Head(sends)) /\ Head(sends).code # 0) =>
    press_count_map[Head(sends).code] > 0

\* resolver.c:281: "other ev.types are passed through unchanged".
OthersPassUnchanged ==
  (sends # <<>> /\ Head(sends).type = "EV_OTHER") =>
    [code |-> Head(sends).code, value |-> Head(sends).value] \in OtherEvents

=============================================================================
