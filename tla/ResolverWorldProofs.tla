------------------------ MODULE ResolverWorldProofs -------------------------
(***************************************************************************)
(* Theorems about the resolver and the world around it: the keyboards that *)
(* are ORed on the way in, the clock that tells taps from holds, and the   *)
(* EV_SYN that ends every frame of output.                                 *)
(***************************************************************************)
EXTENDS ResolverOutputProofs

-----------------------------------------------------------------------------
(* Keyboards are ORed                                                      *)

\* the person at keyboard kb, going by the events read so far, holds k
HeldSoFar(kb, k) == DownAt(evdev[kb], IF k \in held[kb] THEN 1 ELSE 0, k, 0)

Holders(g, k) == {kb \in Kbs : GrabOf[kb] = g /\ HeldSoFar(kb, k)}

\* what waits in the kernel ends with what is physically down
EvdevAlternates ==
  \A kb \in Kbs, k \in Keys : Alternates(evdev[kb], IF k \in held[kb] THEN 1 ELSE 0, k)

CountsHolders ==
  \A g \in Grabs, k \in Keys : input_counts[g][k] = Cardinality(Holders(g, k))

\* The keyboards that hold a key can be counted.
LEMMA HoldersFinite ==
  ASSUME NEW g, NEW k
  PROVE  /\ IsFiniteSet(Holders(g, k)) /\ Cardinality(Holders(g, k)) \in Nat
         /\ IsFiniteSet(Holders(g, k)')
<1>1. Holders(g, k) \subseteq Kbs /\ Holders(g, k)' \subseteq Kbs
  BY DEF Holders
<1> QED
  BY <1>1, ResolverAssumption, FS_Subset, FS_CardinalityType

\* An event at the end of the kernel buffer changes nothing for the events before it.
LEMMA EmitKeeps ==
  ASSUME TypeOK, EvdevAlternates, NEW kb \in Kbs, NEW ev, Emit(kb, ev),
         Stamped(ev, now) \in TimedEvent, held' \in [Kbs -> SUBSET Keys],
         \A b \in Kbs : b # kb => held'[b] = held[b],
         \A k \in Keys : Moves(Stamped(ev, now), k) =>
           \/ IsPress(ev) /\ k \notin held[kb] /\ k \in held'[kb]
           \/ IsRelease(ev) /\ k \in held[kb] /\ k \notin held'[kb],
         \A k \in Keys : ~Moves(Stamped(ev, now), k) => (k \in held'[kb] <=> k \in held[kb])
  PROVE  /\ EvdevAlternates'
         /\ \A b \in Kbs, k \in Keys : HeldSoFar(b, k)' <=> HeldSoFar(b, k)
<1> DEFINE e == Stamped(ev, now)
<1>0. /\ evdev \in [Kbs -> Seq(TimedEvent)] /\ evdev' = [evdev EXCEPT ![kb] = Append(@, e)]
      /\ e.type = ev.type /\ e.value = ev.value
  BY DEF TypeOK, Emit, Stamped
<1> SUFFICES ASSUME NEW b \in Kbs, NEW k \in Keys
             PROVE  /\ Alternates(evdev[b], IF k \in held[b] THEN 1 ELSE 0, k)'
                    /\ HeldSoFar(b, k)' <=> HeldSoFar(b, k)
  BY DEF EvdevAlternates
<1> DEFINE q == evdev[b]
           n == IF k \in held[b] THEN 1 ELSE 0
           r == IF k \in held'[b] THEN 1 ELSE 0
<1>1. q \in Seq(TimedEvent) /\ 0 \in 0..Len(q) /\ 0 \in Nat /\ Alternates(q, n, k)
  BY <1>0 DEF EvdevAlternates
<1>2. CASE b # kb
  <2>1. evdev'[b] = q /\ held'[b] = held[b]
    BY <1>0, <1>2
  <2> QED
    BY <1>1, <2>1 DEF HeldSoFar
<1>3. CASE b = kb /\ ~Moves(e, k)
  <2>1. evdev'[b] = Append(q, e) /\ r = n
    BY <1>0, <1>3
  <2>2. /\ DownAt(Append(q, e), n, k, 0) <=> DownAt(q, n, k, 0)
        /\ Alternates(Append(q, e), n, k)
    BY <1>1, <1>3, AppendOther DEF Moves
  <2> HIDE DEF e
  <2> QED
    BY <2>1, <2>2 DEF HeldSoFar
<1>4. CASE b = kb /\ Moves(e, k)
  <2>1. evdev'[b] = Append(q, e) /\ e.code = k
    BY <1>0, <1>4 DEF Moves
  <2>2. \/ IsPress(e) /\ n = 0 /\ r = 1
        \/ IsRelease(e) /\ n = 1 /\ r = 0
    BY <1>0, <1>4 DEF IsPress, IsRelease
  <2>3. /\ DownAt(Append(q, e), r, k, 0) <=> DownAt(q, n, k, 0)
        /\ Alternates(Append(q, e), r, k)
    <3>1. n \in Nat /\ r \in Nat
      OBVIOUS
    <3> HIDE DEF n, r, e, q
    <3> QED
      BY <1>1, <2>1, <2>2, <3>1, AppendOwn DEF e
  <2> HIDE DEF e
  <2> QED
    BY <2>1, <2>3 DEF HeldSoFar
<1> QED
  BY <1>2, <1>3, <1>4

\* What a keyboard does is not read yet, and changes nothing of what was.
LEMMA KeyboardKeepsHolders ==
  ASSUME Unpluggable = {}, TypeOK, EvdevAlternates, NEW kb \in Kbs, Keyboard(kb)
  PROVE  /\ EvdevAlternates'
         /\ \A b \in Kbs, k \in Keys : HeldSoFar(b, k)' <=> HeldSoFar(b, k)
<1>0. /\ now \in Nat /\ held \in [Kbs -> SUBSET Keys] /\ InputKeys \subseteq Keys
      /\ OtherEvents \subseteq [code : Codes, value : Values]
  BY ResolverAssumption DEF TypeOK
<1>1. ASSUME NEW c \in InputKeys, KeyDown(kb, c)
      PROVE  /\ EvdevAlternates'
             /\ \A b \in Kbs, k \in Keys : HeldSoFar(b, k)' <=> HeldSoFar(b, k)
  <2> DEFINE ev == KeyEvent(c, 1)
  <2>1. Emit(kb, ev) /\ c \notin held[kb] /\ held' = [held EXCEPT ![kb] = @ \cup {c}]
    BY <1>1 DEF KeyDown
  <2>2. Stamped(ev, now) \in TimedEvent
    BY <1>0, StampedIsTimedEvent DEF Values
  <2>3. IsPress(ev)
    BY DEF KeyEvent, IsPress
  <2>4. \A k : Moves(Stamped(ev, now), k) <=> k = c
    BY DEF Moves, Stamped, KeyEvent, IsPress
  <2> HIDE DEF ev
  <2> QED
    BY <1>0, <2>1, <2>2, <2>3, <2>4, EmitKeeps
<1>2. ASSUME NEW c \in InputKeys, KeyUp(kb, c)
      PROVE  /\ EvdevAlternates'
             /\ \A b \in Kbs, k \in Keys : HeldSoFar(b, k)' <=> HeldSoFar(b, k)
  <2> DEFINE ev == KeyEvent(c, 0)
  <2>1. Emit(kb, ev) /\ c \in held[kb] /\ held' = [held EXCEPT ![kb] = @ \ {c}]
    BY <1>2 DEF KeyUp
  <2>2. Stamped(ev, now) \in TimedEvent
    BY <1>0, StampedIsTimedEvent DEF Values
  <2>3. IsRelease(ev)
    BY DEF KeyEvent, IsRelease
  <2>4. \A k : Moves(Stamped(ev, now), k) <=> k = c
    BY DEF Moves, Stamped, KeyEvent, IsRelease
  <2> HIDE DEF ev
  <2> QED
    BY <1>0, <2>1, <2>2, <2>3, <2>4, EmitKeeps
<1>3. ASSUME NEW ev, Emit(kb, ev), Stamped(ev, now) \in TimedEvent, UNCHANGED held,
             \A k \in Keys : ~Moves(Stamped(ev, now), k)
      PROVE  /\ EvdevAlternates'
             /\ \A b \in Kbs, k \in Keys : HeldSoFar(b, k)' <=> HeldSoFar(b, k)
  BY <1>0, <1>3, EmitKeeps
<1>4. CASE \E c \in InputKeys : KeyRepeat(kb, c)
  <2>1. PICK c \in InputKeys : KeyRepeat(kb, c)
    BY <1>4
  <2>2. /\ Emit(kb, KeyEvent(c, 2)) /\ UNCHANGED held
        /\ Stamped(KeyEvent(c, 2), now) \in TimedEvent
    BY <1>0, <2>1, StampedIsTimedEvent DEF KeyRepeat, Values
  <2>3. \A k : ~Moves(Stamped(KeyEvent(c, 2), now), k)
    BY DEF Moves, Stamped, KeyEvent, IsPress, IsRelease
  <2> QED
    BY <1>3, <2>2, <2>3
<1>5. CASE \E o \in OtherEvents : OtherInput(kb, o)
  <2>1. PICK o \in OtherEvents : OtherInput(kb, o)
    BY <1>5
  <2> DEFINE ev == [type |-> "EV_OTHER", code |-> o.code, value |-> o.value]
  <2>2. Emit(kb, ev) /\ UNCHANGED held /\ Stamped(ev, now) \in TimedEvent
    BY <1>0, <2>1, StampedIsTimedEvent DEF OtherInput
  <2>3. \A k : ~Moves(Stamped(ev, now), k)
    BY DEF Moves, Stamped, IsPress, IsRelease
  <2> QED
    BY <1>3, <2>2, <2>3
<1>6. CASE SynReport(kb)
  <2>1. Emit(kb, SynEvent) /\ UNCHANGED held /\ Stamped(SynEvent, now) \in TimedEvent
    BY <1>0, <1>6, StampedIsTimedEvent DEF SynReport
  <2>2. \A k : ~Moves(Stamped(SynEvent, now), k)
    BY DEF Moves, Stamped, SynEvent, IsPress, IsRelease
  <2> QED
    BY <1>3, <2>1, <2>2
<1> QED
  BY <1>1, <1>2, <1>4, <1>5, <1>6 DEF Keyboard, Unplug

\* Reading an event counts for the keyboard that sent it, be it dropped or queued.
LEMMA ReadEventCountsHolders ==
  ASSUME TypeOK, EvdevAlternates, CountsHolders, NEW kb \in Kbs, ReadEvent(kb)
  PROVE  EvdevAlternates' /\ CountsHolders'
<1> DEFINE q  == evdev[kb]
           ev == Head(q)
           h  == GrabOf[kb]
<1>1. /\ q \in Seq(TimedEvent) /\ q # <<>> /\ evdev \in [Kbs -> Seq(TimedEvent)]
      /\ evdev' = [evdev EXCEPT ![kb] = Tail(q)] /\ UNCHANGED held
      /\ h \in Grabs
      /\ input_counts \in [Grabs -> [Keys -> Nat]]
      /\ input_counts' = [input_counts EXCEPT ![h] = CountsAfter(h, ev)]
  BY ResolverAssumption DEF TypeOK, ReadEvent
<1>2. ev \in TimedEvent /\ ev = q[1] /\ 1 \in 1..Len(q) /\ 0 + 1 = 1 /\ 0 \in Nat
  BY <1>1, EmptySeq
<1>3. ASSUME NEW k \in Keys
      PROVE  /\ Alternates(Tail(q), IF k \in held[kb] THEN 1 ELSE 0, k)
             /\ ~Moves(ev, k) => (HeldSoFar(kb, k)' <=> HeldSoFar(kb, k))
             /\ Moves(ev, k) =>
                  /\ IsPress(ev) => ~HeldSoFar(kb, k) /\ HeldSoFar(kb, k)'
                  /\ IsRelease(ev) => HeldSoFar(kb, k) /\ ~HeldSoFar(kb, k)'
  <2> DEFINE n == IF k \in held[kb] THEN 1 ELSE 0
  <2>1. n \in Nat /\ Alternates(q, n, k)
    BY DEF EvdevAlternates
  <2>2. evdev'[kb] = Tail(q) /\ held'[kb] = held[kb]
    BY <1>1
  <2>3. /\ HeldSoFar(kb, k) <=> DownAt(q, n, k, 0)
        /\ HeldSoFar(kb, k)' <=> DownAt(Tail(q), n, k, 0)
    BY <2>2 DEF HeldSoFar
  <2> HIDE DEF n
  <2>4. /\ Alternates(Tail(q), n, k)
        /\ DownAt(Tail(q), n, k, 0) <=> DownAt(q, n, k, 1)
    BY <1>1, <1>2, <2>1, TailShifts
  <2>5. Moves(ev, k) <=> 1 \in Waiting(q, k)
    BY <1>2 DEF Moves, Waiting
  <2> HIDE DEF q, ev
  <2>6. ~Moves(ev, k) => (DownAt(q, n, k, 0) <=> DownAt(q, n, k, 1))
    BY <1>1, <2>1, <2>5, OldestOther
  <2>7. Moves(ev, k) =>
          /\ IsPress(ev) => ~DownAt(q, n, k, 0) /\ DownAt(q, n, k, 1)
          /\ IsRelease(ev) => DownAt(q, n, k, 0) /\ ~DownAt(q, n, k, 1)
    BY <1>1, <1>2, <2>1, <2>5, OldestOwn
  <2> QED
    BY <2>3, <2>4, <2>6, <2>7 DEF n
<1>4. EvdevAlternates'
  <2> SUFFICES ASSUME NEW b \in Kbs, NEW k \in Keys
               PROVE  Alternates(evdev[b], IF k \in held[b] THEN 1 ELSE 0, k)'
    BY DEF EvdevAlternates
  <2>1. held'[b] = held[b] /\ evdev'[b] = IF b = kb THEN Tail(q) ELSE evdev[b]
    BY <1>1
  <2>2. Alternates(evdev[b], IF k \in held[b] THEN 1 ELSE 0, k)
    BY DEF EvdevAlternates
  <2> QED
    BY <1>3, <2>1, <2>2
<1>5. CountsHolders'
  <2> SUFFICES ASSUME NEW g \in Grabs, NEW k \in Keys
               PROVE  input_counts'[g][k] = Cardinality(Holders(g, k)')
    BY DEF CountsHolders
  <2>1. \A b \in Kbs : b # kb => (HeldSoFar(b, k)' <=> HeldSoFar(b, k))
    BY <1>1 DEF HeldSoFar
  <2>2. input_counts[g][k] = Cardinality(Holders(g, k))
    BY DEF CountsHolders
  <2>3. CASE g # h \/ ~Moves(ev, k)
    <3>1. Holders(g, k)' = Holders(g, k)
      BY <1>3, <2>1, <2>3 DEF Holders
    <3>2. input_counts'[g][k] = input_counts[g][k]
      <4>1. CASE g # h
        BY <1>1, <4>1
      <4>2. CASE g = h /\ ~Moves(ev, k)
        <5>1. CountsAfter(h, ev)[k] = input_counts[h][k]
          <6>1. CASE ev.type = "EV_KEY" /\ ev.code # k
            BY <1>1, <6>1 DEF CountsAfter
          <6>2. CASE ev.type = "EV_KEY" /\ ev.code = k
            <7>1. ~IsPress(ev) /\ ~IsRelease(ev)
              BY <4>2, <6>2 DEF Moves
            <7>2. CountAfter(input_counts[h][k], ev) = input_counts[h][k]
              BY <7>1 DEF CountAfter
            <7> QED
              BY <1>1, <6>2, <7>2 DEF CountsAfter
          <6>3. CASE ev.type # "EV_KEY"
            BY <6>3 DEF CountsAfter
          <6> QED
            BY <6>1, <6>2, <6>3
        <5> QED
          BY <1>1, <4>2, <5>1
      <4> QED
        BY <2>3, <4>1, <4>2
    <3> QED
      BY <2>2, <3>1, <3>2
  <2>4. CASE g = h /\ Moves(ev, k)
    <3> DEFINE S == Holders(g, k)
               T == Holders(g, k)'
    <3>1. /\ kb \in S <=> HeldSoFar(kb, k)
          /\ kb \in T <=> HeldSoFar(kb, k)'
          /\ S \ {kb} = T \ {kb}
      BY <2>1, <2>4 DEF Holders
    <3>2. IsFiniteSet(S) /\ IsFiniteSet(T)
      BY HoldersFinite
    <3> HIDE DEF S, T
    <3>3. Cardinality(T) + Num(kb \in S) = Cardinality(S) + Num(kb \in T)
      BY <3>1, <3>2, ElementChanges
    <3>4. PICK a \in Nat, b \in Nat : a = Cardinality(S) /\ b = Cardinality(T)
      BY <3>2, FS_CardinalityType
    <3>5. input_counts[h][k] = a
      BY <2>2, <2>4, <3>4 DEF S
    <3>6. input_counts'[h][k] = CountAfter(a, ev)
      <4>1. ev.code = k /\ ev.type = "EV_KEY"
        BY <2>4 DEF Moves, IsPress, IsRelease
      <4>2. CountsAfter(h, ev)[k] = CountAfter(a, ev)
        BY <1>1, <3>5, <4>1 DEF CountsAfter
      <4> QED
        BY <1>1, <4>2
    <3>7. CountAfter(a, ev) = b
      <4>1. CASE IsPress(ev)
        <5>1. kb \notin S /\ kb \in T
          BY <1>3, <2>4, <3>1, <4>1
        <5>2. b = a + 1
          BY <3>3, <3>4, <5>1 DEF Num
        <5> QED
          BY <4>1, <5>2 DEF CountAfter
      <4>2. CASE ~IsPress(ev) /\ IsRelease(ev)
        <5>1. kb \in S /\ kb \notin T
          BY <1>3, <2>4, <3>1, <4>2
        <5>2. b + 1 = a
          BY <3>3, <3>4, <5>1 DEF Num
        <5> QED
          BY <4>2, <5>2 DEF CountAfter
      <4> QED
        BY <2>4, <4>1, <4>2 DEF Moves
    <3> QED
      BY <2>4, <3>4, <3>6, <3>7 DEF T
  <2> QED
    BY <2>3, <2>4
<1> QED
  BY <1>4, <1>5

\* Keyboards of a grab are ORed: with keyboards that start with no key down and are
\* never unplugged, each count is the number of keyboards that hold the key, so what
\* resolve_dedup_input() drops is never the first press or the last release.
THEOREM InputsCorrect ==
  ASSUME PreHeld = {}, Unpluggable = {}
  PROVE  Spec => []InputsAreOred
<1>1. Init => EvdevAlternates /\ CountsHolders
  <2> SUFFICES ASSUME Init PROVE EvdevAlternates /\ CountsHolders
    OBVIOUS
  <2>1. /\ \A kb \in Kbs : evdev[kb] = <<>> /\ held[kb] = {}
        /\ \A g \in Grabs, k \in Keys : input_counts[g][k] = 0
    BY DEF Init
  <2>2. \A k : Waiting(<<>>, k) = {}
    BY DEF Waiting
  <2>3. EvdevAlternates
    BY <2>1, <2>2 DEF EvdevAlternates, Alternates
  <2>4. ASSUME NEW g \in Grabs, NEW k \in Keys PROVE Holders(g, k) = {}
    BY <2>1, <2>2 DEF Holders, HeldSoFar, DownAt
  <2>5. CountsHolders
    BY <2>1, <2>4, FS_EmptySet DEF CountsHolders
  <2> QED
    BY <2>3, <2>5
<1>2. TypeOK /\ EvdevAlternates /\ CountsHolders /\ [Next]_vars
        => EvdevAlternates' /\ CountsHolders'
  <2> SUFFICES ASSUME TypeOK, EvdevAlternates, CountsHolders, [Next]_vars
               PROVE  EvdevAlternates' /\ CountsHolders'
    OBVIOUS
  <2>1. ASSUME EvdevAlternates', UNCHANGED input_counts,
               \A b \in Kbs, k \in Keys : HeldSoFar(b, k)' <=> HeldSoFar(b, k)
        PROVE  EvdevAlternates' /\ CountsHolders'
    <3>1. \A g \in Grabs, k \in Keys : Holders(g, k)' = Holders(g, k)
      BY <2>1 DEF Holders
    <3> QED
      BY <2>1, <3>1 DEF CountsHolders
  <2>2. CASE \E kb \in Kbs : Keyboard(kb)
    BY <2>1, <2>2, KeyboardKeepsHolders DEF Keyboard, resolverVars
  <2>3. CASE \E kb \in Kbs : ReadEvent(kb)
    BY <2>3, ReadEventCountsHolders
  <2>4. CASE Tick \/ Resolve \/ Send \/ UNCHANGED vars
    <3>1. UNCHANGED <<evdev, held, input_counts>>
      BY <2>4 DEF Tick, Resolve, Send, vars, resolverVars, worldVars
    <3> QED
      BY <2>1, <3>1 DEF EvdevAlternates, HeldSoFar
  <2> QED
    BY <2>2, <2>3, <2>4 DEF Next, Loop
<1>3. CountsHolders => InputsAreOred
  BY DEF CountsHolders, InputsAreOred, Holders, HeldSoFar
<1> QED
  BY <1>1, <1>2, <1>3, TypeCorrect, PTL DEF Spec

-----------------------------------------------------------------------------
(* A quick tap is not a hold                                               *)

\* the j-th event of q releases what the i-th has pressed
Ends(q, i, j) == IsPress(q[i]) /\ IsRelease(q[j]) /\ q[i].code = q[j].code

\* at time t, ev has waited no longer than the loop may be behind
InTime(ev, t) == t - ev.time <= MaxLag

ReadInTime == \A kb \in Kbs : \A i \in 1..Len(evdev[kb]) : InTime(evdev[kb][i], now)

\* no tap waits in a queue, but while the event that ended it is being resolved
TapsAreResolved ==
  \A g \in Grabs : \A i, j \in 1..Len(unresolved[g]) :
    i < j /\ Ends(unresolved[g], i, j) =>
      resolving = g /\ j = Len(unresolved[g]) /\ InTime(unresolved[g][j], now)

\* What a keyboard does waits to be read from now on.
LEMMA KeyboardReadInTime ==
  ASSUME TypeOK, ReadInTime, NEW kb \in Kbs, Keyboard(kb)
  PROVE  ReadInTime'
<1>0. /\ evdev \in [Kbs -> Seq(TimedEvent)] /\ UNCHANGED now
  BY DEF TypeOK, Keyboard
<1>1. ASSUME NEW ev, Emit(kb, ev)
      PROVE  ReadInTime'
  <2>1. evdev' = [evdev EXCEPT ![kb] = Append(@, Stamped(ev, now))]
    BY <1>1 DEF Emit
  <2>2. InTime(Stamped(ev, now), now)
    <3>1. Stamped(ev, now).time = now /\ now \in Nat
      BY DEF Stamped, TypeOK
    <3> QED
      BY <3>1, ResolverAssumption DEF InTime
  <2> DEFINE e == Stamped(ev, now)
  <2> HIDE DEF e
  <2>3. ASSUME NEW b \in Kbs, NEW i \in 1..Len(evdev'[b])
        PROVE  InTime(evdev'[b][i], now)
    <3>1. CASE b # kb
      BY <1>0, <2>1, <3>1 DEF ReadInTime
    <3>2. CASE b = kb
      <4>1. evdev'[b] = Append(evdev[b], e) /\ evdev[b] \in Seq(TimedEvent)
        BY <1>0, <2>1, <3>2 DEF e
      <4>2. i \in 1..Len(evdev[b]) \/ i = Len(evdev[b]) + 1
        BY <2>3, <4>1
      <4>3. CASE i \in 1..Len(evdev[b])
        <5>1. evdev'[b][i] = evdev[b][i]
          BY <4>1, <4>3
        <5> QED
          BY <4>3, <5>1 DEF ReadInTime
      <4>4. CASE i = Len(evdev[b]) + 1
        BY <2>2, <4>1, <4>4 DEF e
      <4> QED
        BY <4>2, <4>3, <4>4
    <3> QED
      BY <3>1, <3>2
  <2> QED
    BY <1>0, <2>3 DEF ReadInTime
<1>2. CASE Unplug(kb)
  <2>1. \A b \in Kbs : evdev'[b] = evdev[b] \/ evdev'[b] = <<>>
    BY <1>0, <1>2 DEF Unplug
  <2>2. ASSUME NEW b \in Kbs, NEW i \in 1..Len(evdev'[b])
        PROVE  InTime(evdev'[b][i], now)
    BY <2>1 DEF ReadInTime
  <2> QED
    BY <1>0, <2>2 DEF ReadInTime
<1> QED
  BY <1>1, <1>2 DEF Keyboard, KeyDown, KeyUp, KeyRepeat, OtherInput, SynReport

\* kbd_read() is in time, and what it reads resolves the keys that wait.
LEMMA ReadEventResolvesTaps ==
  ASSUME TypeOK, ReadInTime, TapsAreResolved, NEW kb \in Kbs, ReadEvent(kb)
  PROVE  ReadInTime' /\ TapsAreResolved'
<1> DEFINE ev == Head(evdev[kb])
           h  == GrabOf[kb]
<1>1. /\ evdev \in [Kbs -> Seq(TimedEvent)] /\ evdev[kb] # <<>> /\ UNCHANGED now
      /\ evdev' = [evdev EXCEPT ![kb] = Tail(@)]
      /\ unresolved \in [Grabs -> Seq(TimedEvent)]
      /\ h \in Grabs /\ resolving = NoGrab /\ NoGrab \notin Grabs
  BY ResolverAssumption DEF TypeOK, ReadEvent, Asleep
<1>2. /\ \A i \in 1..Len(Tail(evdev[kb])) :
           i + 1 \in 1..Len(evdev[kb]) /\ Tail(evdev[kb])[i] = evdev[kb][i + 1]
      /\ 1 \in 1..Len(evdev[kb]) /\ ev = evdev[kb][1]
  <2>1. evdev[kb] \in Seq(TimedEvent)
    BY <1>1
  <2> QED
    BY <1>1, <2>1, EmptySeq, HeadTailProperties
<1>3. ev \in TimedEvent /\ InTime(ev, now)
  <2>1. evdev[kb] \in Seq(TimedEvent)
    BY <1>1
  <2> QED
    BY <1>2, <2>1 DEF ReadInTime
<1>4. ReadInTime'
  <2> SUFFICES ASSUME NEW b \in Kbs, NEW i \in 1..Len(evdev'[b])
               PROVE  InTime(evdev'[b][i], now)
    BY <1>1 DEF ReadInTime
  <2>1. CASE b # kb
    BY <1>1, <2>1 DEF ReadInTime
  <2>2. CASE b = kb
    <3>1. evdev'[b] = Tail(evdev[kb])
      BY <1>1, <2>2
    <3> QED
      BY <1>2, <3>1 DEF ReadInTime
  <2> QED
    BY <2>1, <2>2
<1>5. TapsAreResolved'
  <2>1. CASE UNCHANGED unresolved
    BY <1>1, <2>1 DEF TapsAreResolved
  <2>2. CASE unresolved' = [unresolved EXCEPT ![h] = Append(@, ev)] /\ resolving' = h
    <3> SUFFICES ASSUME NEW g \in Grabs, NEW i \in 1..Len(unresolved'[g]),
                        NEW j \in 1..Len(unresolved'[g]), i < j, Ends(unresolved'[g], i, j)
                 PROVE  /\ resolving' = g /\ j = Len(unresolved'[g])
                        /\ InTime(unresolved'[g][j], now)
      BY <1>1 DEF TapsAreResolved
    <3> DEFINE q == unresolved[g]
    <3> HIDE DEF ev
    <3>1. q \in Seq(TimedEvent)
      BY <1>1
    <3>2. ~(i \in 1..Len(q) /\ j \in 1..Len(q) /\ Ends(q, i, j))
      BY <1>1 DEF TapsAreResolved
    <3>3. g = h
      BY <1>1, <2>2, <3>2
    <3>4. unresolved'[g] = Append(q, ev)
      BY <1>1, <2>2, <3>3
    <3>5. Len(unresolved'[g]) = Len(q) + 1 /\ Len(q) \in Nat
      BY <3>1, <3>4
    <3>6. i \in 1..Len(q) /\ unresolved'[g][i] = q[i]
      BY <3>1, <3>4, <3>5
    <3>7. CASE j \in 1..Len(q)
      <4>1. unresolved'[g][j] = q[j]
        BY <3>1, <3>4, <3>7
      <4> QED
        BY <3>2, <3>6, <3>7, <4>1 DEF Ends
    <3>8. CASE j = Len(q) + 1
      BY <1>3, <2>2, <3>1, <3>3, <3>4, <3>8
    <3> QED
      BY <3>5, <3>7, <3>8
  <2> QED
    BY <2>1, <2>2 DEF ReadEvent
<1> QED
  BY <1>4, <1>5

\* The next call of resolve() finds the same taps, one place further on.
LEMMA ReturnTrueResolvesTaps ==
  ASSUME TypeOK, TapsAreResolved, resolving \in Grabs, unresolved[resolving] # <<>>,
         ReturnTrue(resolving), UNCHANGED now
  PROVE  TapsAreResolved'
<1> DEFINE h == resolving
           q == unresolved[h]
<1>1. q \in Seq(TimedEvent) /\ unresolved' = [unresolved EXCEPT ![h] = Tail(q)] /\ resolving' = h
  BY DEF TypeOK, ReturnTrue, DropOldest
<1>2. /\ \A i \in 1..Len(Tail(q)) : i + 1 \in 1..Len(q) /\ Tail(q)[i] = q[i + 1]
      /\ Len(Tail(q)) = Len(q) - 1 /\ Len(q) \in Nat
  BY <1>1, EmptySeq, HeadTailProperties
<1> SUFFICES ASSUME NEW g \in Grabs, NEW i \in 1..Len(unresolved'[g]),
                    NEW j \in 1..Len(unresolved'[g]), i < j, Ends(unresolved'[g], i, j)
             PROVE  /\ resolving' = g /\ j = Len(unresolved'[g])
                        /\ InTime(unresolved'[g][j], now)
  BY DEF TapsAreResolved
<1>3. CASE g # h
  <2>1. unresolved'[g] = unresolved[g]
    BY <1>1, <1>3 DEF TypeOK
  <2> QED
    BY <1>1, <2>1 DEF TapsAreResolved
<1>4. CASE g = h
  <2>1. unresolved'[g] = Tail(q)
    BY <1>1, <1>4 DEF TypeOK
  <2>2. /\ i + 1 \in 1..Len(q) /\ j + 1 \in 1..Len(q) /\ i + 1 < j + 1
        /\ Tail(q)[i] = q[i + 1] /\ Tail(q)[j] = q[j + 1]
    BY <1>2, <2>1
  <2>3. Ends(q, i + 1, j + 1)
    BY <2>1, <2>2 DEF Ends
  <2>4. j + 1 = Len(q) /\ InTime(q[j + 1], now)
    BY <2>2, <2>3 DEF TapsAreResolved
  <2>5. j = Len(Tail(q))
    BY <1>2, <2>4
  <2> QED
    BY <1>1, <1>4, <2>1, <2>2, <2>4, <2>5
<1> QED
  BY <1>3, <1>4

\* resolve() does not give up on a dual key behind which a tap waits.
LEMMA KeepUnresolvedResolvesTaps ==
  ASSUME NoTimeoutOnly, TypeOK, TapsAreResolved, resolving \in Grabs,
         unresolved[resolving] # <<>>, KeepUnresolved(resolving)
  PROVE  TapsAreResolved'
<1> DEFINE h    == resolving
           q    == unresolved[h]
           ev   == q[1]
           dual == key_action_get(current_keymap[h], ev.code)
<1>1. q \in Seq(TimedEvent) /\ Len(q) \in Nat \ {0} /\ Oldest(h) = ev
  BY EmptySeq DEF TypeOK, Oldest
<1>2. /\ ev.code \in Keys /\ IsPress(ev) /\ dual.type = "DUAL" /\ Undecided(h, ev, dual)
  <2>1. Oldest(h) \in TimedEvent /\ IsPress(Oldest(h))
    BY DequeueTypeOK DEF KeepUnresolved
  <2>2. Oldest(h).code \in Keys
    BY <2>1, TimedEventFields DEF IsPress
  <2> QED
    BY <1>1, <2>1, <2>2 DEF KeepUnresolved
<1>3. \A i \in 2..Len(q) : ~Decisive(h, ev, dual, i)
  <2>1. current_keymap[h] \in Keymaps
    BY DEF TypeOK
  <2>2. dual.mode # "TIMEOUT_ONLY"
    BY <1>2, <2>1 DEF NoTimeoutOnly, key_action_get
  <2> QED
    BY <1>2, <2>2 DEF Undecided
<1>4. ASSUME NEW i \in 1..Len(q), NEW j \in 1..Len(q), i < j, Ends(q, i, j)
      PROVE  FALSE
  <2>1. j \in 2..Len(q) /\ IsRelease(q[j])
    BY <1>1, <1>4 DEF Ends
  <2>2. CASE i = 1
    BY <1>3, <1>4, <2>1, <2>2 DEF Decisive, Ends
  <2>3. CASE i # 1
    <3>1. i \in 2..(j - 1)
      BY <1>4, <2>3
    <3> QED
      BY <1>3, <1>4, <2>1, <3>1 DEF Decisive, Ends
  <2> QED
    BY <2>2, <2>3
<1>5. \A g \in Grabs : /\ Len(unresolved'[g]) <= Len(unresolved[g])
                       /\ Len(unresolved'[g]) \in Nat /\ Len(unresolved[g]) \in Nat
                       /\ \A i \in 1..Len(unresolved'[g]) : unresolved'[g][i] = unresolved[g][i]
  <2> SUFFICES ASSUME NEW g \in Grabs
               PROVE  /\ Len(unresolved'[g]) <= Len(unresolved[g])
                      /\ Len(unresolved'[g]) \in Nat /\ Len(unresolved[g]) \in Nat
                      /\ \A i \in 1..Len(unresolved'[g]) : unresolved'[g][i] = unresolved[g][i]
    OBVIOUS
  <2>1. unresolved[g] \in Seq(TimedEvent)
    BY DEF TypeOK
  <2>2. CASE unresolved'[g] = unresolved[g]
    BY <2>1, <2>2
  <2>3. CASE g = h /\ unresolved'[g] = SubSeq(q, 1, Len(q) - 1)
    <3>1. /\ Len(SubSeq(q, 1, Len(q) - 1)) = Len(q) - 1
          /\ \A i \in 1..(Len(q) - 1) : SubSeq(q, 1, Len(q) - 1)[i] = q[i]
      BY <1>1, DropLast
    <3> QED
      BY <1>1, <2>3, <3>1
  <2> QED
    BY <2>2, <2>3 DEF TypeOK, KeepUnresolved, ReleaseEarly, DropNewest
<1>6. ASSUME NEW g \in Grabs, NEW i \in 1..Len(unresolved'[g]),
             NEW j \in 1..Len(unresolved'[g]), i < j, Ends(unresolved'[g], i, j)
      PROVE  FALSE
  <2>1. /\ i \in 1..Len(unresolved[g]) /\ j \in 1..Len(unresolved[g])
        /\ Ends(unresolved[g], i, j)
    BY <1>5, <1>6 DEF Ends
  <2>2. CASE g = h
    BY <1>4, <1>6, <2>1, <2>2
  <2>3. CASE g # h
    BY <1>6, <2>1, <2>3 DEF TapsAreResolved
  <2> QED
    BY <2>2, <2>3
<1> QED
  BY <1>6 DEF TapsAreResolved

\* Every step keeps taps from waiting longer than their time.
LEMMA NextResolvesTaps ==
  ASSUME NoTimeoutOnly, TypeOK, ReadInTime, TapsAreResolved, [Next]_vars
  PROVE  ReadInTime' /\ TapsAreResolved'
<1>1. CASE UNCHANGED <<unresolved, resolving, evdev, now>>
  BY <1>1 DEF ReadInTime, TapsAreResolved
<1>2. CASE \E kb \in Kbs : Keyboard(kb)
  <2>1. UNCHANGED <<unresolved, resolving, now>>
    BY <1>2 DEF Keyboard, resolverVars
  <2> QED
    BY <1>2, <2>1, KeyboardReadInTime DEF TapsAreResolved
<1>3. CASE Tick
  <2>1. /\ now \in Nat /\ now' = now + 1 /\ UNCHANGED <<unresolved, resolving, evdev>>
        /\ evdev \in [Kbs -> Seq(TimedEvent)] /\ unresolved \in [Grabs -> Seq(TimedEvent)]
    BY <1>3 DEF Tick, resolverVars, TypeOK
  <2>2. ASSUME NEW ev \in TimedEvent, now - ev.time < MaxLag
        PROVE  InTime(ev, now')
    <3>1. ev.time \in Nat
      BY TimedEventFields
    <3> QED
      BY <2>1, <2>2, <3>1, ResolverAssumption DEF InTime
  <2>3. ASSUME NEW kb \in Kbs, NEW i \in 1..Len(evdev[kb])
        PROVE  InTime(evdev[kb][i], now')
    <3>1. evdev[kb][i] \in TimedEvent
      BY <2>1
    <3> QED
      BY <1>3, <2>2, <3>1 DEF Tick
  <2>4. ASSUME NEW g \in Grabs, NEW i \in 1..Len(unresolved[g]),
               NEW j \in 1..Len(unresolved[g]), i < j, Ends(unresolved[g], i, j)
        PROVE  /\ resolving = g /\ j = Len(unresolved[g])
               /\ InTime(unresolved[g][j], now')
    <3>1. resolving = g /\ j = Len(unresolved[g])
      BY <2>4 DEF TapsAreResolved
    <3>2. unresolved[g][j] \in TimedEvent /\ unresolved[g] # <<>>
      BY <2>1
    <3>3. resolving # NoGrab /\ Newest(resolving) = unresolved[g][j]
      BY <3>1, ResolverAssumption DEF Newest
    <3>4. now - unresolved[g][j].time < MaxLag
      BY <1>3, <3>1, <3>2, <3>3 DEF Tick
    <3> QED
      BY <2>2, <3>1, <3>2, <3>4
  <2> QED
    BY <2>1, <2>3, <2>4 DEF ReadInTime, TapsAreResolved
<1>4. CASE \E kb \in Kbs : ReadEvent(kb)
  BY <1>4, ReadEventResolvesTaps
<1>5. CASE Resolve
  <2>1. resolving \in Grabs /\ UNCHANGED <<now, evdev>>
    BY <1>5, ResolveCases DEF Resolve, worldVars
  <2>2. CASE NothingUnresolved(resolving)
    <3>1. /\ unresolved[resolving] = <<>> /\ UNCHANGED unresolved
      BY <2>2 DEF NothingUnresolved, resolverVars
    <3>2. \A i, j \in 1..Len(unresolved[resolving]) : FALSE
      BY <3>1
    <3> QED
      BY <2>1, <3>1, <3>2 DEF ReadInTime, TapsAreResolved
  <2>3. CASE unresolved[resolving] # <<>> /\ ReturnTrue(resolving)
    BY <2>1, <2>3, ReturnTrueResolvesTaps DEF ReadInTime
  <2>4. CASE unresolved[resolving] # <<>> /\ KeepUnresolved(resolving)
    BY <2>1, <2>4, KeepUnresolvedResolvesTaps DEF ReadInTime
  <2> QED
    BY <1>5, <2>2, <2>3, <2>4
    DEF Resolve, ResolvePress, ResolveRelease, ResolveRepeat, ResolveOther
<1>6. CASE Send \/ UNCHANGED vars
  BY <1>1, <1>6 DEF Send, vars, resolverVars, worldVars
<1> QED
  BY <1>2, <1>3, <1>4, <1>5, <1>6 DEF Next, Loop

\* A quick tap is not a hold: with no TIMEOUT_ONLY key, a dual key that check_waveform()
\* holds because of its age was not released within HOLD_MS less what the loop is behind,
\* for every configuration, every interleaving of keyboards, and a loop that is behind
\* by any MaxLag, releases that are queued but not read among it.
THEOREM QuickReleaseCorrect ==
  ASSUME NoTimeoutOnly
  PROVE  Spec => []QuickReleaseIsNoHold
<1>1. Init => ReadInTime /\ TapsAreResolved
  BY DEF Init, ReadInTime, TapsAreResolved
<1>2. TypeOK /\ ReadInTime /\ TapsAreResolved /\ [Next]_vars => ReadInTime' /\ TapsAreResolved'
  BY NextResolvesTaps
<1>3. TypeOK /\ ReadInTime /\ TapsAreResolved => QuickReleaseIsNoHold
  <2> SUFFICES ASSUME TypeOK, ReadInTime, TapsAreResolved, NEW g \in Grabs, HeldByAge(g)
               PROVE  /\ \A i \in 2..Len(unresolved[g]) : ~QuickRelease(g, unresolved[g][i])
                      /\ \A kb \in Kbs : GrabOf[kb] = g =>
                           \A i \in 1..Len(evdev[kb]) : ~QuickRelease(g, evdev[kb][i])
    BY DEF QuickReleaseIsNoHold
  <2> DEFINE q    == unresolved[g]
             dual == key_action_get(current_keymap[g], Oldest(g).code)
  <2>1. /\ q \in Seq(TimedEvent) /\ Len(q) \in Nat \ {0} /\ Oldest(g) = q[1] /\ 1 \in 1..Len(q)
        /\ IsPress(q[1]) /\ now - Oldest(g).time > dual.hold_ms
    BY EmptySeq DEF HeldByAge, TypeOK, Oldest, TooOld
  <2>2. ASSUME NEW ev \in TimedEvent, InTime(ev, now) PROVE ~QuickRelease(g, ev)
    <3>1. /\ Oldest(g) \in TimedEvent /\ Oldest(g).time \in Nat /\ now \in Nat
          /\ ev.time \in Nat
      BY DequeueTypeOK, TimedEventFields DEF HeldByAge, TypeOK
    <3>2. dual.hold_ms \in Nat
      <4>1. Oldest(g).code \in Keys /\ current_keymap[g] \in Keymaps
        BY <3>1, TimedEventFields DEF HeldByAge, IsPress, TypeOK
      <4> QED
        BY <4>1, ActionOfKey, DualFields DEF HeldByAge
    <3> HIDE DEF dual
    <3>3. ~(ev.time - Oldest(g).time <= dual.hold_ms - MaxLag)
      BY <2>1, <2>2, <3>1, <3>2, ResolverAssumption DEF InTime
    <3> QED
      BY <3>3 DEF QuickRelease, dual
  <2>3. ASSUME NEW i \in 2..Len(q), QuickRelease(g, q[i])
        PROVE  FALSE
    <3>1. i \in 1..Len(q) /\ 1 < i
      BY <2>1
    <3>2. Ends(q, 1, i)
      BY <2>1, <2>3 DEF Ends, QuickRelease
    <3>3. q[i] \in TimedEvent /\ InTime(q[i], now)
      BY <2>1, <3>1, <3>2 DEF TapsAreResolved
    <3> QED
      BY <2>2, <2>3, <3>3
  <2>4. ASSUME NEW kb \in Kbs, NEW i \in 1..Len(evdev[kb])
        PROVE  evdev[kb][i] \in TimedEvent /\ InTime(evdev[kb][i], now)
    BY DEF ReadInTime, TypeOK
  <2> QED
    BY <2>2, <2>3, <2>4
<1> QED
  BY <1>1, <1>2, <1>3, TypeCorrect, PTL DEF Spec

-----------------------------------------------------------------------------
(* A slow release is not a tap                                             *)

EventsUpTo(t) == {ev \in TimedEvent : ev.time <= t}

\* nothing that is read or waits comes from the future
PastEvents ==
  /\ evdev \in [Kbs -> Seq(EventsUpTo(now))]
  /\ unresolved \in [Grabs -> Seq(EventsUpTo(now))]

\* A keyboard stamps its events with the present.
LEMMA KeyboardKeepsPast ==
  ASSUME TypeOK, PastEvents, NEW kb \in Kbs, Keyboard(kb)
  PROVE  PastEvents'
<1>0. now \in Nat /\ UNCHANGED <<unresolved, now>>
  BY DEF TypeOK, Keyboard, resolverVars
<1>1. ASSUME NEW ev, Emit(kb, ev), Stamped(ev, now) \in TimedEvent
      PROVE  PastEvents'
  <2> DEFINE e == Stamped(ev, now)
  <2>1. e \in EventsUpTo(now)
    BY <1>0, <1>1 DEF EventsUpTo, Stamped
  <2>2. evdev' = [evdev EXCEPT ![kb] = Append(@, e)]
    BY <1>1 DEF Emit
  <2> HIDE DEF e
  <2> QED
    BY <1>0, <2>1, <2>2 DEF PastEvents
<1>2. CASE \E k \in InputKeys : KeyDown(kb, k) \/ KeyUp(kb, k) \/ KeyRepeat(kb, k)
  <2>1. PICK k \in InputKeys : KeyDown(kb, k) \/ KeyUp(kb, k) \/ KeyRepeat(kb, k)
    BY <1>2
  <2>2. PICK v \in {0, 1, 2} : Emit(kb, KeyEvent(k, v))
    BY <2>1 DEF KeyDown, KeyUp, KeyRepeat
  <2>3. Stamped(KeyEvent(k, v), now) \in TimedEvent
    BY <1>0, StampedIsTimedEvent, ResolverAssumption DEF Values
  <2> QED
    BY <1>1, <2>2, <2>3
<1>3. CASE \E o \in OtherEvents : OtherInput(kb, o)
  <2>1. PICK o \in OtherEvents : OtherInput(kb, o)
    BY <1>3
  <2> DEFINE ev == [type |-> "EV_OTHER", code |-> o.code, value |-> o.value]
  <2>2. Emit(kb, ev)
    BY <2>1 DEF OtherInput
  <2>3. Stamped(ev, now) \in TimedEvent
    BY <1>0, StampedIsTimedEvent, ResolverAssumption
  <2> QED
    BY <1>1, <2>2, <2>3
<1>4. CASE SynReport(kb)
  BY <1>0, <1>1, <1>4, StampedIsTimedEvent DEF SynReport
<1>5. CASE Unplug(kb)
  BY <1>0, <1>5 DEF Unplug, PastEvents
<1> QED
  BY <1>2, <1>3, <1>4, <1>5 DEF Keyboard

\* Events are read, queued and taken off, and time goes on.
LEMMA NextKeepsPast ==
  ASSUME TypeOK, PastEvents, [Next]_vars
  PROVE  PastEvents'
<1>1. CASE UNCHANGED <<evdev, unresolved, now>>
  BY <1>1 DEF PastEvents
<1>2. CASE Tick
  <2>1. UNCHANGED <<evdev, unresolved>> /\ now \in Nat /\ now' = now + 1
    BY <1>2 DEF Tick, resolverVars, TypeOK
  <2>2. \A ev \in EventsUpTo(now) : ev \in EventsUpTo(now')
    <3> SUFFICES ASSUME NEW ev \in TimedEvent, ev.time <= now
                 PROVE  ev.time <= now'
      BY DEF EventsUpTo
    <3>1. ev.time \in Nat
      BY TimedEventFields
    <3> QED
      BY <2>1, <3>1
  <2>3. \A q \in Seq(EventsUpTo(now)) : q \in Seq(EventsUpTo(now'))
    BY <2>2
  <2> QED
    BY <2>1, <2>3 DEF PastEvents
<1>3. CASE \E kb \in Kbs : ReadEvent(kb)
  <2>1. PICK kb \in Kbs : ReadEvent(kb)
    BY <1>3
  <2>2. /\ evdev[kb] \in Seq(EventsUpTo(now)) /\ evdev[kb] # <<>> /\ UNCHANGED now
        /\ GrabOf[kb] \in Grabs
    BY <2>1, ResolverAssumption DEF ReadEvent, PastEvents
  <2>3. Head(evdev[kb]) \in EventsUpTo(now) /\ Tail(evdev[kb]) \in Seq(EventsUpTo(now))
    BY <2>2, HeadTailProperties
  <2>4. evdev' = [evdev EXCEPT ![kb] = Tail(@)]
    BY <2>1 DEF ReadEvent
  <2>5. \/ UNCHANGED unresolved
        \/ unresolved' = [unresolved EXCEPT ![GrabOf[kb]] = Append(@, Head(evdev[kb]))]
    BY <2>1 DEF ReadEvent
  <2>6. evdev' \in [Kbs -> Seq(EventsUpTo(now))]
    BY <2>3, <2>4 DEF PastEvents
  <2>7. unresolved' \in [Grabs -> Seq(EventsUpTo(now))]
    <3>1. PICK ev \in EventsUpTo(now) : ev = Head(evdev[kb])
      BY <2>3
    <3>2. unresolved \in [Grabs -> Seq(EventsUpTo(now))]
      BY DEF PastEvents
    <3>3. Append(unresolved[GrabOf[kb]], ev) \in Seq(EventsUpTo(now))
      BY <2>2, <3>2
    <3>4. CASE unresolved' = [unresolved EXCEPT ![GrabOf[kb]] = Append(@, ev)]
      BY Zenon, <2>2, <3>2, <3>3, <3>4
    <3> QED
      BY <2>5, <3>1, <3>2, <3>4
  <2> QED
    BY <2>2, <2>6, <2>7 DEF PastEvents
<1>4. CASE Resolve
  <2> DEFINE h == resolving
             q == unresolved[h]
  <2>1. h \in Grabs /\ UNCHANGED <<now, evdev>>
    BY <1>4, ResolveCases DEF Resolve, worldVars
  <2>2. q \in Seq(EventsUpTo(now))
    BY <2>1 DEF PastEvents
  <2>3. \/ UNCHANGED unresolved
        \/ q # <<>> /\ unresolved' = [unresolved EXCEPT ![h] = Tail(q)]
        \/ q # <<>> /\ unresolved' = [unresolved EXCEPT ![h] = SubSeq(q, 1, Len(q) - 1)]
    BY <1>4, ResolveCases
    DEF ReturnTrue, DropOldest, KeepUnresolved, ReleaseEarly, DropNewest
  <2>4. q # <<>> => /\ Tail(q) \in Seq(EventsUpTo(now))
                    /\ SubSeq(q, 1, Len(q) - 1) \in Seq(EventsUpTo(now))
    BY <2>2, EmptySeq, HeadTailProperties, SubSeqProperties
  <2> QED
    BY <2>1, <2>3, <2>4 DEF PastEvents
<1>5. CASE Send
  BY <1>1, <1>5 DEF Send, resolverVars, worldVars
<1>6. CASE UNCHANGED vars
  BY <1>1, <1>6 DEF vars, resolverVars, worldVars
<1> QED
  BY <1>2, <1>3, <1>4, <1>5, <1>6, KeyboardKeepsPast DEF Next, Loop

\* A slow release is not a tap, however late the loop: the age check_waveform() looks at
\* first is no less than the time between the press and any release it has read.
THEOREM SlowReleaseCorrect == Spec => SlowReleaseIsNoTap
<1>1. Init => PastEvents
  BY DEF Init, PastEvents
<1>2. TypeOK /\ PastEvents /\ [Next]_vars => PastEvents'
  BY NextKeepsPast
<1>3. TypeOK /\ PastEvents /\ [Next]_vars => TapsAreShort
  <2> SUFFICES ASSUME TypeOK, PastEvents, [Next]_vars, NEW g \in Grabs, unresolved[g] # <<>>,
                      Tapped(g, Oldest(g))
               PROVE  last_tap_time'[g] - Oldest(g).time
                        <= key_action_get(current_keymap[g], Oldest(g).code).hold_ms
    BY DEF TapsAreShort
  <2> DEFINE q    == unresolved[g]
             ev   == Oldest(g)
             dual == key_action_get(current_keymap[g], ev.code)
  <2>1. /\ q \in Seq(EventsUpTo(now)) /\ q \in Seq(TimedEvent) /\ Len(q) \in Nat \ {0}
        /\ Len(Tail(q)) = Len(q) - 1 /\ now \in Nat
    BY EmptySeq, HeadTailProperties DEF PastEvents, TypeOK
  <2>2. unresolved'[g] # q /\ resolving' = g /\ Len(unresolved'[g]) = Len(q) - 1
    <3>1. unresolved'[g] = Tail(q) /\ resolving' = g
      BY DEF Tapped
    <3> HIDE DEF q
    <3>2. Tail(q) # q
      <4>1. \A n \in Nat \ {0} : n - 1 # n
        OBVIOUS
      <4>2. Len(Tail(q)) = Len(q) - 1 /\ Len(q) \in Nat \ {0}
        BY Zenon, <2>1
      <4>3. Len(Tail(q)) # Len(q)
        BY Zenon, <4>1, <4>2
      <4> QED
        BY Zenon, <4>3
    <3> QED
      BY <2>1, <3>1, <3>2
  <2>3. Resolve /\ resolving = g
    <3>1. ASSUME NEW kb \in Kbs, ReadEvent(kb)
          PROVE  FALSE
      <4>1. \/ unresolved'[g] = q
            \/ unresolved'[g] = Append(q, Head(evdev[kb]))
        BY <3>1 DEF ReadEvent, TypeOK
      <4>2. Len(Append(q, Head(evdev[kb]))) = Len(q) + 1
        BY <2>1
      <4> QED
        BY <2>1, <2>2, <4>1, <4>2
    <3>2. ~Tick /\ ~Send /\ ~UNCHANGED vars /\ \A kb \in Kbs : ~Keyboard(kb)
      BY <2>2 DEF Tick, Send, vars, Keyboard, resolverVars
    <3>3. Resolve
      BY <3>1, <3>2 DEF Next, Loop
    <3>4. resolving = g
      BY <2>2, <3>3, ResolverAssumption
      DEF Resolve, NothingUnresolved, ResolvePress, ResolveRelease, ResolveRepeat, ResolveOther,
          KeepUnresolved, ReturnTrue, ReturnFalse
    <3> QED
      BY <3>3, <3>4
  <2>4. ResolvePress(g)
    BY <2>2, <2>3, ResolverAssumption
    DEF Tapped, Resolve, NothingUnresolved, ResolveRelease, ResolveRepeat, ResolveOther,
        KeepUnresolved, ReturnFalse, IsPress, IsRelease
  <2>5. /\ ev \in TimedEvent /\ ev.time \in Nat /\ ev.code \in Keys
        /\ current_keymap[g] \in Keymaps /\ dual.type = "DUAL" /\ dual.hold_ms \in Nat
    <3>1. ev \in TimedEvent /\ ev.time \in Nat /\ IsPress(ev) /\ dual.type = "DUAL"
      BY DequeueTypeOK, TimedEventFields DEF Tapped
    <3>2. ev.code \in Keys /\ current_keymap[g] \in Keymaps
      BY <3>1, TimedEventFields DEF IsPress, TypeOK
    <3> QED
      BY <3>1, <3>2, ActionOfKey, DualFields
  <2>6. last_tap_code'[g] = ev.code /\ ev.code # NoTap
    BY <2>5, KeysAssumption DEF Tapped, NoTap
  <2>7. DecideTap(g, ev, dual)
    BY <2>4, <2>5, <2>6 DEF ResolvePress, DecideByAge, DecideHold, SetLastTap, TypeOK
  <2>8. now - ev.time <= dual.hold_ms
    <3>1. ~(now - ev.time > dual.hold_ms)
      BY <2>7 DEF DecideTap, TooOld
    <3> HIDE DEF ev, dual
    <3> QED
      BY <2>1, <2>5, <3>1
  <2>9. PICK i \in 2..Len(q) : last_tap_time' = [last_tap_time EXCEPT ![g] = q[i].time]
    BY <2>7 DEF DecideTap
  <2>10. q[i].time \in Nat /\ q[i].time <= now
    <3>1. q[i] \in EventsUpTo(now) /\ q[i] \in TimedEvent
      BY <2>1
    <3> QED
      BY <3>1, TimedEventFields DEF EventsUpTo
  <2>11. last_tap_time'[g] = q[i].time
    BY <2>9 DEF TypeOK
  <2> HIDE DEF ev, dual, q
  <2>12. last_tap_time'[g] - ev.time <= dual.hold_ms
    BY <2>1, <2>5, <2>8, <2>10, <2>11
  <2> QED
    BY <2>12 DEF ev, dual
<1> QED
  BY <1>1, <1>2, <1>3, TypeCorrect, PTL DEF Spec, SlowReleaseIsNoTap

-----------------------------------------------------------------------------
(* Every frame of output is closed                                         *)

IsSyn(ev) == ev.type = "EV_SYN"

\* the kernel ends every group of events with an EV_SYN
GroupsEnd ==
  \A kb \in Kbs : \A i \in 1..Len(evdev[kb]) :
    kb \notin frame /\ ~IsSyn(evdev[kb][i]) =>
      \E j \in 1..Len(evdev[kb]) : i < j /\ IsSyn(evdev[kb][j])

\* every EV_SYN looks like the release of code 0 to resolve(), and nothing ever
\* resolves code 0 to something else
SynEvents(q) == \A i \in 1..Len(q) : IsSyn(q[i]) => q[i].code = 0 /\ q[i].value = 0

SynsAreReports ==
  /\ \A kb \in Kbs : SynEvents(evdev[kb])
  /\ \A g \in Grabs : SynEvents(unresolved[g]) /\ release_map[g][0] = 0

SynToCome ==
  \E kb \in Kbs : kb \in frame \/ \E i \in 1..Len(evdev[kb]) : IsSyn(evdev[kb][i])

SynInQueue == resolving \in Grabs /\ unresolved[resolving] # <<>> /\ IsSyn(Newest(resolving))

AllResolved == resolving = NoGrab \/ unresolved[resolving] = <<>>

\* where the EV_SYN is that will end the frame of output
FrameWillClose ==
  \/ SynToCome
  \/ SynInQueue
  \/ AllResolved /\ sends # <<>> /\ IsSyn(sends[Len(sends)])
  \/ AllResolved /\ sends = <<>> /\ ~sent_something

FrameInv ==
  /\ GroupsEnd /\ SynsAreReports
  /\ status = "running" => FrameWillClose

\* A keyboard that emits an event has opened a group, or closes its own with an
\* EV_SYN.
LEMMA EmitKeepsFrames ==
  ASSUME TypeOK, GroupsEnd, SynsAreReports, NEW kb \in Kbs, NEW ev, Emit(kb, ev),
         Stamped(ev, now) \in TimedEvent,
         \/ ~IsSyn(ev) /\ frame' = frame \cup {kb}
         \/ ev = SynEvent /\ frame' = frame \ {kb},
         UNCHANGED <<unresolved, release_map>>
  PROVE  GroupsEnd' /\ SynsAreReports' /\ SynToCome'
<1> DEFINE e == Stamped(ev, now)
           q == evdev[kb]
           p == evdev'[kb]
<1>1. /\ evdev \in [Kbs -> Seq(TimedEvent)] /\ evdev' = [evdev EXCEPT ![kb] = Append(@, e)]
      /\ e.type = ev.type
  BY DEF TypeOK, Emit, Stamped
<1>2. ev = SynEvent => e.type = "EV_SYN" /\ e.code = 0 /\ e.value = 0
  BY DEF Stamped, SynEvent
<1>3. IsSyn(e) <=> ev = SynEvent
  BY <1>1 DEF IsSyn, SynEvent
<1> HIDE DEF e
<1>4. /\ q \in Seq(TimedEvent) /\ p = Append(q, e) /\ Len(q) \in Nat /\ Len(p) = Len(q) + 1
      /\ p[Len(q) + 1] = e /\ \A i \in 1..Len(q) : p[i] = q[i]
  BY <1>1 DEF e
<1>5. \A b \in Kbs : b # kb => evdev'[b] = evdev[b] /\ (b \in frame' <=> b \in frame)
  BY <1>1
<1>6. SynEvents(p)
  BY <1>2, <1>3, <1>4 DEF SynEvents, SynsAreReports
<1>7. SynsAreReports'
  BY <1>5, <1>6 DEF SynsAreReports
<1>8. CASE ~IsSyn(ev)
  <2>1. kb \in frame'
    BY <1>8 DEF IsSyn, SynEvent
  <2> QED
    BY <1>5, <1>7, <2>1 DEF GroupsEnd, SynToCome
<1>9. CASE ev = SynEvent
  <2>1. IsSyn(p[Len(q) + 1]) /\ Len(q) + 1 \in 1..Len(p)
    BY <1>3, <1>4, <1>9
  <2>2. SynToCome'
    BY <2>1 DEF SynToCome
  <2>3. \A i \in 1..Len(p) : ~IsSyn(p[i]) => \E j \in 1..Len(p) : i < j /\ IsSyn(p[j])
    <3> SUFFICES ASSUME NEW i \in 1..Len(p), ~IsSyn(p[i])
                 PROVE  i < Len(q) + 1
      BY <2>1
    <3> QED
      BY <1>4, <2>1
  <2>4. GroupsEnd'
    BY <1>5, <2>3 DEF GroupsEnd
  <2> QED
    BY <1>7, <2>2, <2>4
<1> QED
  BY <1>8, <1>9

\* Keyboards end the groups that they begin.
LEMMA KeyboardKeepsFrames ==
  ASSUME Unpluggable = {}, TypeOK, GroupsEnd, SynsAreReports, NEW kb \in Kbs, Keyboard(kb)
  PROVE  GroupsEnd' /\ SynsAreReports' /\ SynToCome'
<1>0. /\ now \in Nat /\ InputKeys \subseteq Keys
      /\ OtherEvents \subseteq [code : Codes, value : Values]
      /\ UNCHANGED <<unresolved, release_map>>
  BY ResolverAssumption DEF TypeOK, Keyboard, resolverVars
<1>1. CASE \E c \in InputKeys : KeyDown(kb, c) \/ KeyUp(kb, c) \/ KeyRepeat(kb, c)
  <2>1. PICK c \in InputKeys, v \in Values : Emit(kb, KeyEvent(c, v)) /\ frame' = frame \cup {kb}
    BY <1>1 DEF KeyDown, KeyUp, KeyRepeat, Values
  <2>2. ~IsSyn(KeyEvent(c, v)) /\ Stamped(KeyEvent(c, v), now) \in TimedEvent
    BY <1>0, StampedIsTimedEvent DEF IsSyn, KeyEvent
  <2> QED
    BY <1>0, <2>1, <2>2, EmitKeepsFrames
<1>2. CASE \E o \in OtherEvents : OtherInput(kb, o)
  <2>1. PICK o \in OtherEvents : OtherInput(kb, o)
    BY <1>2
  <2> DEFINE ev == [type |-> "EV_OTHER", code |-> o.code, value |-> o.value]
  <2>2. Emit(kb, ev) /\ frame' = frame \cup {kb} /\ Stamped(ev, now) \in TimedEvent
    BY <1>0, <2>1, StampedIsTimedEvent DEF OtherInput
  <2>3. ~IsSyn(ev)
    BY DEF IsSyn
  <2> HIDE DEF ev
  <2> QED
    BY <1>0, <2>2, <2>3, EmitKeepsFrames
<1>3. CASE SynReport(kb)
  BY <1>0, <1>3, StampedIsTimedEvent, EmitKeepsFrames DEF SynReport
<1> QED
  BY <1>1, <1>2, <1>3 DEF Keyboard, Unplug

\* The EV_SYN that is to come is read last, and then is the newest of a queue.
LEMMA ReadEventKeepsFrames ==
  ASSUME TypeOK, FrameInv, NEW kb \in Kbs, ReadEvent(kb)
  PROVE  FrameInv'
<1> DEFINE q  == evdev[kb]
           ev == Head(q)
           h  == GrabOf[kb]
<1>1. /\ evdev \in [Kbs -> Seq(TimedEvent)] /\ q \in Seq(TimedEvent) /\ q # <<>>
      /\ evdev' = [evdev EXCEPT ![kb] = Tail(q)]
      /\ unresolved \in [Grabs -> Seq(TimedEvent)] /\ h \in Grabs
      /\ UNCHANGED <<frame, release_map, sent_something, sends>> /\ Asleep
  BY ResolverAssumption DEF TypeOK, ReadEvent, dedupVars
<1>2. /\ Len(q) \in Nat \ {0} /\ ev = q[1] /\ ev \in TimedEvent
      /\ Len(Tail(q)) = Len(q) - 1
      /\ \A i \in 1..Len(Tail(q)) : i + 1 \in 1..Len(q) /\ Tail(q)[i] = q[i + 1]
  BY <1>1, EmptySeq, HeadTailProperties
<1>3. /\ evdev'[kb] = Tail(q)
      /\ \A b \in Kbs : b # kb => evdev'[b] = evdev[b]
  BY <1>1
<1>4. \/ UNCHANGED unresolved
      \/ unresolved' = [unresolved EXCEPT ![h] = Append(@, ev)]
  BY DEF ReadEvent
<1>5. GroupsEnd'
  <2>1. ASSUME kb \notin frame, NEW i \in 1..Len(Tail(q)), ~IsSyn(Tail(q)[i])
        PROVE  \E j \in 1..Len(Tail(q)) : i < j /\ IsSyn(Tail(q)[j])
    <3>1. PICK l \in 1..Len(q) : i + 1 < l /\ IsSyn(q[l])
      BY <1>2, <2>1 DEF FrameInv, GroupsEnd
    <3>2. l - 1 \in 1..Len(Tail(q)) /\ i < l - 1 /\ (l - 1) + 1 = l
      BY <1>2, <3>1
    <3> QED
      BY <1>2, <3>1, <3>2
  <2> QED
    BY <1>1, <1>3, <2>1 DEF FrameInv, GroupsEnd
<1>6. SynsAreReports'
  <2>1. SynEvents(q) /\ \A b \in Kbs : SynEvents(evdev[b])
    BY DEF FrameInv, SynsAreReports
  <2>2. SynEvents(Tail(q))
    BY <1>2, <2>1 DEF SynEvents
  <2>3. IsSyn(ev) => ev.code = 0 /\ ev.value = 0
    BY <1>2, <2>1 DEF SynEvents
  <2>4. ASSUME NEW g \in Grabs PROVE SynEvents(unresolved'[g])
    <3> DEFINE u == unresolved[g]
    <3>1. u \in Seq(TimedEvent) /\ SynEvents(u)
      BY <1>1 DEF FrameInv, SynsAreReports
    <3>2. unresolved'[g] = u \/ unresolved'[g] = Append(u, ev)
      BY <1>1, <1>4
    <3> HIDE DEF u, ev
    <3>3. SynEvents(Append(u, ev))
      BY <2>3, <3>1 DEF SynEvents
    <3> QED
      BY <3>1, <3>2, <3>3
  <2> QED
    BY <1>1, <1>3, <2>1, <2>2, <2>4 DEF FrameInv, SynsAreReports
<1>7. ASSUME status' = "running"
      PROVE  FrameWillClose'
  <2>1. CASE ~IsSyn(ev)
    <3>1. CASE kb \in frame
      BY <1>1, <3>1 DEF FrameWillClose, SynToCome
    <3>2. CASE kb \notin frame
      <4>1. PICK l \in 1..Len(q) : 1 < l /\ IsSyn(q[l])
        BY <1>2, <2>1, <3>2 DEF FrameInv, GroupsEnd
      <4>2. l - 1 \in 1..Len(Tail(q)) /\ (l - 1) + 1 = l
        BY <1>2, <4>1
      <4>3. IsSyn(evdev'[kb][l - 1]) /\ l - 1 \in 1..Len(evdev'[kb])
        BY <1>2, <1>3, <4>1, <4>2
      <4> QED
        BY <4>3 DEF FrameWillClose, SynToCome
    <3> QED
      BY <3>1, <3>2
  <2>2. CASE IsSyn(ev)
    <3>1. unresolved' = [unresolved EXCEPT ![h] = Append(@, ev)] /\ resolving' = h
      BY <1>7, <2>2 DEF ReadEvent, resolve_dedup_input, IsSyn
    <3>2. unresolved'[h] = Append(unresolved[h], ev) /\ unresolved[h] \in Seq(TimedEvent)
      BY <1>1, <3>1
    <3> DEFINE u == unresolved'[h]
    <3>3. u # <<>> /\ u[Len(u)] = ev
      <4> HIDE DEF ev
      <4> QED
        BY <1>2, <3>2
    <3>4. SynInQueue'
      BY <1>1, <2>2, <3>1, <3>3 DEF SynInQueue, Newest
    <3> QED
      BY <3>4 DEF FrameWillClose
  <2> QED
    BY <2>1, <2>2
<1> QED
  BY <1>5, <1>6, <1>7 DEF FrameInv

\* The last element of a sequence stays when the first of several is taken off.
LEMMA TailsLast ==
  ASSUME NEW S, NEW s \in Seq(S), Len(s) \in Nat \ {0}, Len(s) # 1
  PROVE  Tail(s) # <<>> /\ Tail(s)[Len(Tail(s))] = s[Len(s)]
<1>1. s # <<>>
  BY EmptySeq
<1>2. /\ Tail(s) \in Seq(S) /\ Len(Tail(s)) = Len(s) - 1
      /\ \A i \in 1..Len(Tail(s)) : Tail(s)[i] = s[i + 1]
  BY <1>1, HeadTailProperties
<1>3. Len(Tail(s)) \in 1..Len(Tail(s)) /\ Len(Tail(s)) + 1 = Len(s) /\ Len(Tail(s)) # 0
  <2>1. PICK n \in Nat \ {0, 1} : Len(s) = n
    OBVIOUS
  <2>2. n - 1 \in 1..(n - 1) /\ (n - 1) + 1 = n /\ n - 1 # 0
    OBVIOUS
  <2> QED
    BY <1>2, <2>1, <2>2
<1> QED
  BY <1>2, <1>3, EmptySeq

\* Resolving the oldest event leaves the EV_SYN in the queue, unless it is the EV_SYN.
LEMMA ReturnTrueKeepsFrames ==
  ASSUME TypeOK, FrameInv, NEW h \in Grabs, resolving = h, unresolved[h] # <<>>,
         UNCHANGED <<frame, evdev, status>>,
         \/ ResolvePress(h) \/ ResolveRelease(h) \/ ResolveRepeat(h) \/ ResolveOther(h)
  PROVE  FrameInv'
<1> DEFINE u == unresolved[h]
<1>1. /\ u \in Seq(TimedEvent) /\ ReturnTrue(h) /\ resolving' = h
      /\ unresolved \in [Grabs -> Seq(TimedEvent)]
      /\ unresolved' = [unresolved EXCEPT ![h] = Tail(u)]
  BY DEF TypeOK, ResolvePress, ResolveRelease, ResolveRepeat, ResolveOther, ReturnTrue, DropOldest
<1>2. /\ Len(u) \in Nat \ {0} /\ Oldest(h) = u[1] /\ Newest(h) = u[Len(u)]
      /\ Tail(u) \in Seq(TimedEvent) /\ Len(Tail(u)) = Len(u) - 1
      /\ \A i \in 1..Len(Tail(u)) : i + 1 \in 1..Len(u) /\ Tail(u)[i] = u[i + 1]
  BY <1>1, EmptySeq, HeadTailProperties DEF Oldest, Newest
<1>3. \A g \in Grabs : release_map'[g][0] = 0
  <2>1. release_map \in [Grabs -> [Codes -> Codes \cup {RESET_KEYMAP}]] /\ 0 \in Codes
    BY DEF TypeOK, Codes
  <2>2. \A g \in Grabs : release_map[g][0] = 0
    BY DEF FrameInv, SynsAreReports
  <2>3. CASE ResolvePress(h)
    <3>1. Oldest(h).code # 0
      <4>1. Oldest(h).code \in Keys
        BY <2>3, DequeueTypeOK, TimedEventFields DEF ResolvePress, IsPress
      <4> QED
        BY <4>1, ResetIsNoKey
    <3>2. \/ UNCHANGED release_map
          \/ \E x : release_map' = [release_map EXCEPT ![h][Oldest(h).code] = x]
      BY <2>3 DEF ResolvePress, DecideByAge, DecideTap, DecideHold, do_keypress,
                  DoSimple, DoMacro, DoMap, RememberRelease
    <3> QED
      BY <2>1, <2>2, <3>1, <3>2
  <2>4. CASE ResolveRelease(h)
    BY <2>1, <2>2, <2>4 DEF ResolveRelease
  <2>5. CASE ResolveRepeat(h) \/ ResolveOther(h)
    BY <2>2, <2>5 DEF ResolveRepeat, ResolveOther
  <2> QED
    BY <2>3, <2>4, <2>5
<1>4. SynsAreReports'
  <2>1. SynEvents(Tail(u))
    BY <1>2 DEF FrameInv, SynsAreReports, SynEvents
  <2> QED
    BY <1>1, <1>3, <2>1 DEF FrameInv, SynsAreReports
<1>5. GroupsEnd'
  BY DEF FrameInv, GroupsEnd
<1>6. ASSUME status' = "running"
      PROVE  FrameWillClose'
  <2>1. CASE SynToCome
    BY <2>1 DEF SynToCome, FrameWillClose
  <2>2. CASE ~SynToCome
    <3>1. IsSyn(u[Len(u)])
      BY <1>2, <1>6, <2>2, ResolverAssumption
      DEF FrameInv, FrameWillClose, SynInQueue, AllResolved
    <3>2. unresolved'[h] = Tail(u)
      BY <1>1
    <3>3. CASE Len(u) = 1
      <4>1. Oldest(h).type = "EV_SYN" /\ Tail(u) = <<>>
        BY <1>2, <3>1, <3>3, EmptySeq DEF IsSyn
      <4>2. ResolveOther(h)
        BY <4>1 DEF ResolvePress, ResolveRelease, ResolveRepeat, IsPress, IsRelease
      <4>3. PICK e : sends' = <<e>> /\ e.type = "EV_SYN"
        <5> DEFINE o == Oldest(h)
                   f == [type |-> o.type, code |-> o.code, value |-> o.value]
        <5>1. f.type = "EV_SYN" /\ sends' = <<f>>
          BY <4>1, <4>2 DEF ResolveOther, PassThrough
        <5> HIDE DEF f
        <5> QED
          BY <5>1
      <4>4. sends' # <<>> /\ IsSyn(sends'[Len(sends')])
        BY <4>3 DEF IsSyn
      <4> QED
        BY <1>1, <3>2, <4>1, <4>4 DEF FrameWillClose, AllResolved
    <3>4. CASE Len(u) # 1
      <4>1. Tail(u) # <<>> /\ Tail(u)[Len(Tail(u))] = u[Len(u)]
        BY <1>1, <1>2, <3>4, TailsLast
      <4> QED
        BY <1>1, <3>1, <3>2, <4>1 DEF FrameWillClose, SynInQueue, Newest
    <3> QED
      BY <3>3, <3>4
  <2> QED
    BY <2>1, <2>2
<1> QED
  BY <1>4, <1>5, <1>6 DEF FrameInv

\* Giving up lets the EV_SYN jump the queue: it is taken for a release of code 0.
LEMMA KeepUnresolvedKeepsFrames ==
  ASSUME TypeOK, FrameInv, NEW h \in Grabs, resolving = h, unresolved[h] # <<>>,
         UNCHANGED <<frame, evdev, status>>, KeepUnresolved(h)
  PROVE  FrameInv'
<1> DEFINE u == unresolved[h]
<1>1. /\ u \in Seq(TimedEvent) /\ Len(u) \in Nat \ {0} /\ Newest(h) = u[Len(u)]
      /\ unresolved \in [Grabs -> Seq(TimedEvent)]
  BY EmptySeq DEF TypeOK, Newest
<1>2. \A g \in Grabs : SynEvents(unresolved'[g])
  <2> SUFFICES ASSUME NEW g \in Grabs PROVE SynEvents(unresolved'[g])
    OBVIOUS
  <2>1. SynEvents(unresolved[g])
    BY DEF FrameInv, SynsAreReports
  <2>2. unresolved'[g] = unresolved[g] \/ (g = h /\ unresolved'[g] = SubSeq(u, 1, Len(u) - 1))
    BY <1>1 DEF KeepUnresolved, ReleaseEarly, DropNewest
  <2>3. g = h => SynEvents(SubSeq(u, 1, Len(u) - 1))
    <3>1. /\ Len(SubSeq(u, 1, Len(u) - 1)) = Len(u) - 1
          /\ \A i \in 1..(Len(u) - 1) : SubSeq(u, 1, Len(u) - 1)[i] = u[i]
      BY <1>1, DropLast
    <3> QED
      BY <1>1, <2>1, <3>1 DEF SynEvents
  <2> QED
    BY <2>1, <2>2, <2>3
<1>3. SynsAreReports' /\ GroupsEnd'
  BY <1>2 DEF FrameInv, SynsAreReports, GroupsEnd, KeepUnresolved
<1>4. ASSUME status' = "running"
      PROVE  FrameWillClose'
  <2>1. CASE SynToCome
    BY <2>1 DEF SynToCome, FrameWillClose
  <2>2. CASE ~SynToCome
    <3>1. IsSyn(u[Len(u)])
      BY <1>1, <1>4, <2>2, ResolverAssumption
      DEF FrameInv, FrameWillClose, SynInQueue, AllResolved
    <3>2. Newest(h).value = 0 /\ Newest(h).code = 0
      <4>1. Len(u) \in 1..Len(u) /\ SynEvents(u)
        BY <1>1 DEF FrameInv, SynsAreReports
      <4> QED
        BY <1>1, <3>1, <4>1 DEF SynEvents
    <3>3. release_map[h][Newest(h).code] = 0
      BY <3>2 DEF FrameInv, SynsAreReports
    <3>4. 0 # RESET_KEYMAP /\ 0 \notin ModifierKeys
      BY ResetIsNoKey DEF RESET_KEYMAP, KEY_MAX
    <3>5. \E e : sends' = <<e, SynEvent>>
      BY <3>2, <3>3, <3>4 DEF KeepUnresolved, ReleaseEarly, StaysQueued
    <3>6. sends' # <<>> /\ IsSyn(sends'[Len(sends')])
      BY <3>5 DEF IsSyn, SynEvent
    <3>7. resolving' = NoGrab
      BY DEF KeepUnresolved, ReturnFalse
    <3> QED
      BY <3>6, <3>7 DEF FrameWillClose, AllResolved
  <2> QED
    BY <2>1, <2>2
<1> QED
  BY <1>3, <1>4 DEF FrameInv

\* The EV_SYN is sent last, and ends the frame.
LEMMA SendKeepsFrames ==
  ASSUME TypeOK, FrameInv, Send
  PROVE  FrameInv'
<1>1. /\ sends # <<>> /\ sends \in Seq(Event) /\ send_dedup(Head(sends)) /\ sends' = Tail(sends)
      /\ UNCHANGED <<unresolved, release_map, resolving, status, frame, evdev>>
  BY DEF Send, resolverVars, worldVars, TypeOK
<1>2. /\ Len(sends) \in Nat \ {0} /\ Len(Tail(sends)) = Len(sends) - 1
      /\ Tail(sends) \in Seq(Event) /\ Head(sends) = sends[1]
      /\ \A i \in 1..Len(Tail(sends)) : Tail(sends)[i] = sends[i + 1]
  BY <1>1, EmptySeq, HeadTailProperties
<1>3. GroupsEnd' /\ SynsAreReports'
  BY <1>1 DEF FrameInv, GroupsEnd, SynsAreReports
<1>4. ASSUME status' = "running"
      PROVE  FrameWillClose'
  <2>1. CASE SynToCome
    BY <1>1, <2>1 DEF FrameWillClose, SynToCome
  <2>2. CASE SynInQueue
    BY <1>1, <2>2 DEF FrameWillClose, SynInQueue, Newest
  <2>3. CASE AllResolved /\ IsSyn(sends[Len(sends)])
    <3>1. AllResolved'
      BY <1>1, <2>3 DEF AllResolved
    <3>2. CASE Len(sends) = 1
      <4>1. Head(sends).type = "EV_SYN" /\ sends' = <<>>
        BY <1>1, <1>2, <2>3, <3>2, EmptySeq DEF IsSyn
      <4>2. ~sent_something'
        BY <1>1, <4>1
        DEF send_dedup, DropRelease, SendRelease, SendPress, SendUncounted, SendSyn,
            IsPress, IsRelease
      <4> QED
        BY <3>1, <4>1, <4>2 DEF FrameWillClose
    <3>3. CASE Len(sends) # 1
      <4>1. Tail(sends) # <<>> /\ Tail(sends)[Len(Tail(sends))] = sends[Len(sends)]
        BY <1>1, <1>2, <3>3, TailsLast
      <4>2. sends' # <<>> /\ IsSyn(sends'[Len(sends')])
        BY <1>1, <2>3, <4>1
      <4> QED
        BY <3>1, <4>2 DEF FrameWillClose
    <3> QED
      BY <3>2, <3>3
  <2> QED
    BY <1>1, <1>4, <2>1, <2>2, <2>3 DEF FrameInv, FrameWillClose
<1> QED
  BY <1>3, <1>4 DEF FrameInv

\* Every step keeps FrameInv.
LEMMA NextKeepsFrames ==
  ASSUME Unpluggable = {}, TypeOK, FrameInv, [Next]_vars
  PROVE  FrameInv'
<1>1. CASE UNCHANGED <<unresolved, release_map, resolving, sends, sent_something,
                       status, frame, evdev>>
  BY <1>1 DEF FrameInv, GroupsEnd, SynsAreReports, FrameWillClose, SynToCome, SynInQueue,
              AllResolved, Newest
<1>2. CASE \E kb \in Kbs : Keyboard(kb)
  BY <1>2, KeyboardKeepsFrames DEF FrameInv, FrameWillClose
<1>3. CASE \E kb \in Kbs : ReadEvent(kb)
  BY <1>3, ReadEventKeepsFrames
<1>4. CASE Resolve
  <2>1. resolving \in Grabs /\ UNCHANGED <<status, frame, evdev, sent_something>>
    BY <1>4, ResolveCases DEF Resolve, worldVars, dedupVars
  <2>2. CASE NothingUnresolved(resolving)
    <3>1. /\ unresolved[resolving] = <<>> /\ resolving' = NoGrab
          /\ UNCHANGED <<unresolved, release_map, sends>>
      BY <2>2 DEF NothingUnresolved, resolverVars, ReturnFalse
    <3>2. FrameWillClose => FrameWillClose'
      BY <2>1, <3>1 DEF FrameWillClose, SynToCome, SynInQueue, AllResolved
    <3> QED
      BY <2>1, <3>1, <3>2 DEF FrameInv, GroupsEnd, SynsAreReports
  <2>3. CASE unresolved[resolving] # <<>> /\ KeepUnresolved(resolving)
    BY <2>1, <2>3, KeepUnresolvedKeepsFrames
  <2>4. CASE /\ unresolved[resolving] # <<>>
             /\ \/ ResolvePress(resolving) \/ ResolveRelease(resolving)
                \/ ResolveRepeat(resolving) \/ ResolveOther(resolving)
    BY <2>1, <2>4, ReturnTrueKeepsFrames
  <2> QED
    BY <1>4, <2>2, <2>3, <2>4 DEF Resolve
<1>5. CASE Send
  BY <1>5, SendKeepsFrames
<1>6. CASE Tick \/ UNCHANGED vars
  BY <1>1, <1>6 DEF Tick, vars, resolverVars, dedupVars, worldVars
<1> QED
  BY <1>2, <1>3, <1>4, <1>5, <1>6 DEF Next, Loop

\* Every frame of output is closed: as long as no keyboard is unplugged, whenever the loop
\* sleeps with events sent since the last EV_SYN, a keyboard still owes one, though an
\* EV_SYN may jump the queue as if it were the release of code 0 (resolve(), send_dedup()).
THEOREM FramesCorrect ==
  ASSUME Unpluggable = {}
  PROVE  Spec => []OutputFrameCloses
<1>1. Init => FrameInv
  <2> SUFFICES ASSUME Init PROVE FrameInv
    OBVIOUS
  <2>1. /\ \A kb \in Kbs : evdev[kb] = <<>>
        /\ \A g \in Grabs : unresolved[g] = <<>> /\ release_map[g][0] = 0
        /\ resolving = NoGrab /\ sends = <<>> /\ sent_something = FALSE
    BY DEF Init, DedupInit, Codes
  <2> QED
    BY <2>1 DEF FrameInv, GroupsEnd, SynsAreReports, SynEvents, FrameWillClose, AllResolved
<1>2. TypeOK /\ FrameInv /\ [Next]_vars => FrameInv'
  BY NextKeepsFrames
<1>3. FrameInv => OutputFrameCloses
  BY ResolverAssumption
  DEF FrameInv, FrameWillClose, SynToCome, SynInQueue, IsSyn, OutputFrameCloses, Asleep
<1> QED
  BY <1>1, <1>2, <1>3, TypeCorrect, PTL DEF Spec

=============================================================================
