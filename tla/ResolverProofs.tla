--------------------------- MODULE ResolverProofs ---------------------------
(***************************************************************************)
(* Theorems about Resolver, for every configuration, set of keyboards and  *)
(* bound: type correctness, and that the sink is the OR of its sources.    *)
(* Then about the queue of unresolved events, for configurations with no   *)
(* TIMEOUT_ONLY key: its events alternate key by key, which is what makes  *)
(* the early release of resolve() sound, and so no layer sticks and no     *)
(* modifier is released under a key that still waits.                      *)
(***************************************************************************)
EXTENDS ResolverProperties, SequenceTheorems, FoldLemmas

-----------------------------------------------------------------------------
(* Events and actions                                                      *)

\* The fields of an event.
LEMMA TimedEventFields ==
  ASSUME NEW e \in TimedEvent
  PROVE  /\ e.type \in EventTypes /\ e.code \in Codes
         /\ e.value \in Values /\ e.time \in Nat
         /\ e.type = "EV_KEY" => e.code \in Keys
BY DEF TimedEvent, EventTypes, Codes

\* An event that the kernel has stamped with a time.
LEMMA StampedIsTimedEvent ==
  ASSUME NEW t \in Nat
  PROVE  /\ \A k \in Keys, v \in Values : Stamped(KeyEvent(k, v), t) \in TimedEvent
         /\ Stamped(SynEvent, t) \in TimedEvent
         /\ \A c \in Codes, v \in Values :
              Stamped([type |-> "EV_OTHER", code |-> c, value |-> v], t) \in TimedEvent
BY DEF Stamped, KeyEvent, SynEvent, TimedEvent, Codes, Values

\* What can be sent are events.
LEMMA OutgoingIsEvent ==
  /\ \A c \in Codes, v \in Values : KeyEvent(c, v) \in Event
  /\ SynEvent \in Event
  /\ \A t \in EventTypes, c \in Codes, v \in Values :
       [type |-> t, code |-> c, value |-> v] \in Event
BY DEF KeyEvent, SynEvent, Event, EventTypes, Codes, Values

\* Sequences of at most two elements.
LEMMA ShortSequences ==
  ASSUME NEW S
  PROVE  /\ <<>> \in Seq(S)
         /\ \A e \in S : <<e>> \in Seq(S)
         /\ \A e, f \in S : <<e, f>> \in Seq(S)
OBVIOUS

\* key_action_get() finds an action for every key, in every keymap.
LEMMA ActionOfKey ==
  ASSUME NEW m \in Keymaps, NEW k \in Keys
  PROVE  /\ key_action_get(m, k) \in KeyAction
         /\ key_action_get(m, k).type # "DUAL" => key_action_get(m, k) \in PlainAction
         /\ key_action_get(m, k).type = "DUAL" => key_action_get(m, k) \in DualAction
<1>1. key_action_get(m, k) \in KeyAction
  BY KeymapAssumption DEF key_action_get
<1>2. \A a \in DualAction : a.type = "DUAL"
  BY DEF DualAction
<1>3. \A a \in PlainAction : a.type # "DUAL"
  BY DEF PlainAction, SimpleAction, MacroAction, MapAction
<1> QED
  BY <1>1, <1>2, <1>3 DEF KeyAction

\* The fields of a dual action.
LEMMA DualFields ==
  ASSUME NEW d \in DualAction
  PROVE  /\ d.tap \in PlainAction /\ d.hold \in PlainAction
         /\ d.mode \in Modes /\ d.hold_ms \in Nat
BY DEF DualAction, PlainAction

-----------------------------------------------------------------------------
(* Type correctness                                                        *)

\* Nothing is counted at the start.
LEMMA DedupInitTypeOK ==
  ASSUME DedupInit
  PROVE  DedupTypeOK
<1>1. press_count_map \in [Codes -> Nat]
  BY DEF DedupInit
<1>2. sent_something \in BOOLEAN /\ sink \subseteq Codes
  BY Zenon DEF DedupInit
<1> QED
  BY <1>1, <1>2 DEF DedupTypeOK

\* Every variable has its type at the start (Init).
LEMMA InitTypeOK == Init => TypeOK
<1> SUFFICES ASSUME Init PROVE TypeOK
  OBVIOUS
<1>1. DedupTypeOK
  BY DedupInitTypeOK DEF Init
<1>2. current_keymap \in [Grabs -> Keymaps]
  BY ResolverAssumption DEF Init
<1>3. held \in [Kbs -> SUBSET Keys]
  BY ResolverAssumption DEF Init
<1>4. /\ unresolved \in [Grabs -> Seq(TimedEvent)]
      /\ \A g \in Grabs : Len(unresolved[g]) <= URMAX
  BY ResolverAssumption DEF Init
<1>5. /\ evdev \in [Kbs -> Seq(TimedEvent)]
      /\ sends \in Seq(Event)
  BY DEF Init
<1> QED
  BY <1>1, <1>2, <1>3, <1>4, <1>5 DEF Init, TypeOK, Codes, NoTime, NoTap

\* send_dedup() counts in Nat: it never counts below zero.
LEMMA SendDedupTypeOK ==
  ASSUME DedupTypeOK, NEW ev \in Event, send_dedup(ev)
  PROVE  DedupTypeOK'
<1> USE DEF DedupTypeOK
<1>0. ev.code \in Codes
  BY DEF Event
<1>1. CASE DropRelease(ev)
  BY <1>1 DEF DropRelease, dedupVars
<1>2. CASE SendRelease(ev)
  <2>1. press_count_map' \in [Codes -> Nat]
    BY <1>0, <1>2 DEF SendRelease
  <2>2. sent_something' \in BOOLEAN
    BY <1>2, Zenon DEF SendRelease
  <2>3. sink' \subseteq Codes
    BY <1>2, Zenon DEF SendRelease
  <2> QED
    BY <2>1, <2>2, <2>3
<1>3. CASE SendPress(ev)
  <2>1. press_count_map' \in [Codes -> Nat]
    BY <1>0, <1>3 DEF SendPress
  <2>2. sent_something' \in BOOLEAN
    BY <1>3, Zenon DEF SendPress
  <2>3. sink' \subseteq Codes
    BY <1>0, <1>3, Zenon DEF SendPress
  <2> QED
    BY <2>1, <2>2, <2>3
<1>4. CASE SendUncounted(ev)
  BY <1>4 DEF SendUncounted
<1>5. CASE SendSyn(ev)
  BY <1>5 DEF SendSyn
<1> QED
  BY <1>1, <1>2, <1>3, <1>4, <1>5 DEF send_dedup

\* A keyboard's event joins those of its device.
LEMMA EmitTypeOK ==
  ASSUME TypeOK, NEW kb \in Kbs, NEW ev, Stamped(ev, now) \in TimedEvent, Emit(kb, ev)
  PROVE  evdev' \in [Kbs -> Seq(TimedEvent)]
BY DEF TypeOK, Emit

\* Keyboards that type, come and go.
LEMMA KeyboardTypeOK ==
  ASSUME TypeOK, NEW kb \in Kbs, Keyboard(kb)
  PROVE  TypeOK'
<1> USE ResolverAssumption
<1>0. /\ now \in Nat /\ held \in [Kbs -> SUBSET Keys] /\ frame \subseteq Kbs
      /\ evdev \in [Kbs -> Seq(TimedEvent)]
  BY DEF TypeOK
<1>1. ASSUME NEW k \in InputKeys, KeyDown(kb, k)
      PROVE  /\ evdev' \in [Kbs -> Seq(TimedEvent)]
             /\ held' \in [Kbs -> SUBSET Keys] /\ frame' \subseteq Kbs
  BY <1>0, <1>1, StampedIsTimedEvent, EmitTypeOK DEF KeyDown, Values
<1>2. ASSUME NEW k \in InputKeys, KeyUp(kb, k)
      PROVE  /\ evdev' \in [Kbs -> Seq(TimedEvent)]
             /\ held' \in [Kbs -> SUBSET Keys] /\ frame' \subseteq Kbs
  BY <1>0, <1>2, StampedIsTimedEvent, EmitTypeOK DEF KeyUp, Values
<1>3. ASSUME NEW k \in InputKeys, KeyRepeat(kb, k)
      PROVE  /\ evdev' \in [Kbs -> Seq(TimedEvent)]
             /\ held' \in [Kbs -> SUBSET Keys] /\ frame' \subseteq Kbs
  BY <1>0, <1>3, StampedIsTimedEvent, EmitTypeOK DEF KeyRepeat, Values
<1>4. ASSUME NEW o \in OtherEvents, OtherInput(kb, o)
      PROVE  /\ evdev' \in [Kbs -> Seq(TimedEvent)]
             /\ held' \in [Kbs -> SUBSET Keys] /\ frame' \subseteq Kbs
  BY <1>0, <1>4, StampedIsTimedEvent, EmitTypeOK DEF OtherInput
<1>5. CASE SynReport(kb) /\ UNCHANGED now
  <2>1. /\ evdev' \in [Kbs -> Seq(TimedEvent)]
        /\ held' \in [Kbs -> SUBSET Keys] /\ frame' \subseteq Kbs
    BY <1>0, <1>5, StampedIsTimedEvent, EmitTypeOK DEF SynReport
  <2> QED
    BY <2>1 DEF TypeOK, Keyboard, resolverVars, dedupVars, DedupTypeOK
<1>6. CASE Unplug(kb)
  <2>1. /\ evdev' \in [Kbs -> Seq(TimedEvent)]
        /\ held' \in [Kbs -> SUBSET Keys] /\ frame' \subseteq Kbs
    BY <1>0, <1>6 DEF Unplug
  <2> QED
    BY <2>1 DEF TypeOK, Keyboard, resolverVars, dedupVars, DedupTypeOK
<1>7. CASE \E k \in InputKeys : KeyDown(kb, k) \/ KeyUp(kb, k) \/ KeyRepeat(kb, k)
  BY <1>1, <1>2, <1>3, <1>7
  DEF TypeOK, Keyboard, resolverVars, dedupVars, DedupTypeOK
<1>8. CASE \E o \in OtherEvents : OtherInput(kb, o)
  BY <1>4, <1>8 DEF TypeOK, Keyboard, resolverVars, dedupVars, DedupTypeOK
<1> QED
  BY <1>5, <1>6, <1>7, <1>8 DEF Keyboard

\* The clock.
LEMMA TickTypeOK ==
  ASSUME TypeOK, Tick
  PROVE  TypeOK'
BY DEF TypeOK, Tick, resolverVars, dedupVars, DedupTypeOK

\* kbd_read(): an event joins the queue of its grab, or is dropped.
LEMMA ReadEventTypeOK ==
  ASSUME TypeOK, NEW kb \in Kbs, ReadEvent(kb)
  PROVE  TypeOK'
<1> DEFINE g  == GrabOf[kb]
           ev == Head(evdev[kb])
<1>1. g \in Grabs
  BY ResolverAssumption
<1>2. /\ evdev[kb] \in Seq(TimedEvent) /\ evdev[kb] # <<>>
  BY DEF TypeOK, ReadEvent
<1>3. ev \in TimedEvent /\ evdev' \in [Kbs -> Seq(TimedEvent)]
  BY <1>2, HeadTailProperties DEF TypeOK, ReadEvent
<1>4. CountsAfter(g, ev) \in [Keys -> Nat]
  <2>1. input_counts[g] \in [Keys -> Nat]
    BY <1>1 DEF TypeOK
  <2>2. \A n \in Nat : CountAfter(n, ev) \in Nat
    BY DEF CountAfter
  <2> QED
    BY <1>3, <2>1, <2>2, TimedEventFields DEF CountsAfter
<1>5. input_counts' \in [Grabs -> [Keys -> Nat]]
  BY <1>1, <1>4 DEF TypeOK, ReadEvent
<1>6. /\ unresolved' \in [Grabs -> Seq(TimedEvent)]
      /\ \A h \in Grabs : Len(unresolved'[h]) <= URMAX
  <2>1. unresolved[g] \in Seq(TimedEvent) /\ Len(unresolved[g]) <= URMAX
    BY <1>1 DEF TypeOK
  <2>2. CASE UNCHANGED unresolved
    BY <2>2 DEF TypeOK
  <2>3. CASE ~Full(g) /\ unresolved' = [unresolved EXCEPT ![g] = Append(@, ev)]
    <3>1. Len(unresolved[g]) + 1 <= URMAX
      BY <2>1, <2>3, ResolverAssumption DEF Full
    <3>2. /\ Append(unresolved[g], ev) \in Seq(TimedEvent)
          /\ Len(Append(unresolved[g], ev)) <= URMAX
      BY <1>3, <2>1, <3>1
    <3> QED
      BY <1>1, <2>3, <3>2 DEF TypeOK
  <2> QED
    BY <2>2, <2>3 DEF ReadEvent
<1>7. resolving' \in Grabs \cup {NoGrab} /\ status' \in {"running", "overflow"}
  BY <1>1 DEF TypeOK, ReadEvent
<1> QED
  BY <1>3, <1>5, <1>6, <1>7 DEF TypeOK, ReadEvent, dedupVars, DedupTypeOK

\* a macro sends key events and EV_SYNs, two for each of its steps
LEMMA MacroSendsEvents ==
  ASSUME NEW m \in Seq([code : Codes, press : BOOLEAN])
  PROVE  MacroSends(m) \in Seq(Event)
<1> DEFINE s(i) == IF i % 2 = 1
                   THEN KeyEvent(m[(i + 1) \div 2].code,
                                 IF m[(i + 1) \div 2].press THEN 1 ELSE 0)
                   ELSE SynEvent
<1>1. ASSUME NEW i \in 1..(2 * Len(m)) PROVE s(i) \in Event
  <2>1. CASE i % 2 = 1
    <3>1. (i + 1) \div 2 \in 1..Len(m)
      BY <2>1
    <3>2. m[(i + 1) \div 2] \in [code : Codes, press : BOOLEAN]
      BY <3>1, ElementOfSeq
    <3>3. m[(i + 1) \div 2].code \in Codes
      BY <3>2
    <3>4. (IF m[(i + 1) \div 2].press THEN 1 ELSE 0) \in Values
      BY DEF Values
    <3> QED
      BY <2>1, <3>3, <3>4, OutgoingIsEvent
  <2>2. CASE i % 2 # 1
    BY <2>2, OutgoingIsEvent
  <2> QED
    BY <2>1, <2>2
<1>2. 2 * Len(m) \in Nat
  OBVIOUS
<1> HIDE DEF s
<1>3. [i \in 1..(2 * Len(m)) |-> s(i)] \in Seq(Event)
  BY <1>1, <1>2, IsASeq
<1> QED
  BY <1>3 DEF s, MacroSends

\* do_keypress() sends events, and writes down what releases them.
LEMMA DoKeypressTypeOK ==
  ASSUME TypeOK, NEW g \in Grabs, NEW ev \in TimedEvent, NEW ka \in PlainAction,
         do_keypress(g, ev, ka)
  PROVE  /\ sends' \in Seq(Event)
         /\ release_map' \in [Grabs -> [Codes -> Codes \cup {RESET_KEYMAP}]]
         /\ current_keymap' \in [Grabs -> Keymaps]
<1>0. /\ sends \in Seq(Event) /\ current_keymap \in [Grabs -> Keymaps]
      /\ release_map \in [Grabs -> [Codes -> Codes \cup {RESET_KEYMAP}]]
  BY DEF TypeOK
<1>1. CASE DoSimple(g, ev, ka)
  <2>1. ka.simple \in Codes
    BY <1>1 DEF DoSimple, PlainAction, SimpleAction, MacroAction, MapAction
  <2>2. KeyEvent(ka.simple, 1) \in Event
    BY <2>1, OutgoingIsEvent DEF Values
  <2>3. sends' \in Seq(Event)
    <3>1. sends' = <<KeyEvent(ka.simple, 1)>>
      BY <1>1 DEF DoSimple
    <3> QED
      BY <2>2, <3>1
  <2>4. release_map' \in [Grabs -> [Codes -> Codes \cup {RESET_KEYMAP}]]
    BY <1>0, <1>1, <2>1 DEF DoSimple, RememberRelease
  <2> QED
    BY <1>0, <1>1, <2>3, <2>4 DEF DoSimple
<1>2. CASE DoMacro(ka)
  <2>1. ka.macro \in Seq([code : Codes, press : BOOLEAN])
    BY <1>2 DEF DoMacro, PlainAction, SimpleAction, MacroAction, MapAction
  <2>2. MacroSends(ka.macro) \in Seq(Event)
    BY <2>1, MacroSendsEvents
  <2> QED
    BY <1>0, <1>2, <2>2 DEF DoMacro
<1>3. CASE DoMap(g, ev, ka)
  <2>1. ka.map \in Keymaps
    BY <1>3 DEF DoMap, PlainAction, SimpleAction, MacroAction, MapAction
  <2> QED
    BY <1>0, <1>3, <2>1 DEF DoMap, RememberRelease
<1> QED
  BY <1>1, <1>2, <1>3 DEF do_keypress

\* the queue stays a queue of events, no longer than it was, when the oldest or
\* the newest event is taken off
LEMMA DequeueTypeOK ==
  ASSUME TypeOK, NEW g \in Grabs, unresolved[g] # <<>>
  PROVE  /\ Oldest(g) \in TimedEvent /\ Newest(g) \in TimedEvent
         /\ DropOldest(g) \/ DropNewest(g) =>
              /\ unresolved' \in [Grabs -> Seq(TimedEvent)]
              /\ \A h \in Grabs : Len(unresolved'[h]) <= URMAX
<1> DEFINE q == unresolved[g]
<1>1. /\ unresolved \in [Grabs -> Seq(TimedEvent)]
      /\ \A h \in Grabs : Len(unresolved[h]) <= URMAX
  BY DEF TypeOK
<1>2. q \in Seq(TimedEvent) /\ Len(q) \in Nat \ {0} /\ Len(q) <= URMAX
  BY <1>1, EmptySeq
<1>3. Oldest(g) \in TimedEvent /\ Newest(g) \in TimedEvent
  BY <1>2 DEF Oldest, Newest
<1>4. Tail(q) \in Seq(TimedEvent) /\ Len(Tail(q)) <= URMAX
  BY <1>2, ResolverAssumption
<1>5. SubSeq(q, 1, Len(q) - 1) \in Seq(TimedEvent) /\ Len(SubSeq(q, 1, Len(q) - 1)) <= URMAX
  BY <1>2, SubSeqProperties, ResolverAssumption
<1> QED
  BY <1>1, <1>3, <1>4, <1>5 DEF DropOldest, DropNewest

\* A press is resolved.
LEMMA ResolvePressTypeOK ==
  ASSUME TypeOK, NEW g \in Grabs, unresolved[g] # <<>>, ResolvePress(g),
         UNCHANGED <<input_counts, dedupVars, status, worldVars>>
  PROVE  TypeOK'
<1> DEFINE ev == Oldest(g)
           ka == key_action_get(current_keymap[g], ev.code)
<1>1. ev \in TimedEvent /\ ev.code \in Keys /\ ev.code \in Codes
  BY DequeueTypeOK, TimedEventFields DEF ResolvePress, IsPress
<1>2. current_keymap[g] \in Keymaps
  BY DEF TypeOK
<1>3. /\ ka.type # "DUAL" => ka \in PlainAction
      /\ ka.type = "DUAL" => ka.tap \in PlainAction /\ ka.hold \in PlainAction
  BY <1>1, <1>2, ActionOfKey, DualFields
<1>4. \E a \in PlainAction : do_keypress(g, ev, a)
  BY <1>3 DEF ResolvePress, DecideByAge, DecideTap, DecideHold
<1>5. /\ sends' \in Seq(Event)
      /\ release_map' \in [Grabs -> [Codes -> Codes \cup {RESET_KEYMAP}]]
      /\ current_keymap' \in [Grabs -> Keymaps]
  BY <1>1, <1>4, DoKeypressTypeOK
<1>6. /\ unresolved' \in [Grabs -> Seq(TimedEvent)]
      /\ \A h \in Grabs : Len(unresolved'[h]) <= URMAX
  BY DequeueTypeOK DEF ResolvePress, ReturnTrue
<1>7. last_tap_code' \in [Grabs -> Codes \cup {NoTap}]
  <2>1. \E c \in Codes \cup {NoTap} : SetLastTap(g, c)
    BY <1>1 DEF ResolvePress, DecideByAge, DecideTap, DecideHold, TapCodeAtPress
  <2> QED
    BY <2>1 DEF TypeOK, SetLastTap
<1>8. last_tap_time' \in [Grabs -> Nat]
  <2>1. ASSUME NEW i \in 2..Len(unresolved[g])
        PROVE  unresolved[g][i].time \in Nat
    <3>1. unresolved[g] \in Seq(TimedEvent)
      BY DEF TypeOK
    <3>2. i \in 1..Len(unresolved[g])
      BY <3>1
    <3> QED
      BY <3>1, <3>2, ElementOfSeq, TimedEventFields
  <2> QED
    BY <2>1 DEF TypeOK, ResolvePress, DecideByAge, DecideTap, DecideHold
<1>9. /\ resolvable_time' \in [Grabs -> Nat \cup {NoTime}]
      /\ resolving' \in Grabs \cup {NoGrab}
  BY DEF TypeOK, ResolvePress, ClearResolvableTime, ReturnTrue
<1> QED
  BY <1>5, <1>6, <1>7, <1>8, <1>9 DEF TypeOK, DedupTypeOK, dedupVars, worldVars

\* what the release of a key turns into is a code, unless it resets the keymap
LEMMA ReleaseCode ==
  ASSUME TypeOK, NEW g \in Grabs, NEW c \in Codes
  PROVE  /\ release_map[g][c] \in Codes \cup {RESET_KEYMAP}
         /\ release_map[g][c] # RESET_KEYMAP => release_map[g][c] \in Codes
BY DEF TypeOK

\* A release is resolved.
LEMMA ResolveReleaseTypeOK ==
  ASSUME TypeOK, NEW g \in Grabs, unresolved[g] # <<>>, ResolveRelease(g),
         UNCHANGED <<input_counts, dedupVars, status, worldVars>>
  PROVE  TypeOK'
<1> DEFINE ev   == Oldest(g)
           code == release_map[g][ev.code]
<1>1. ev \in TimedEvent /\ ev.code \in Codes
  BY DequeueTypeOK, TimedEventFields
<1>2. sends' \in Seq(Event)
  <2>1. code \notin {0, RESET_KEYMAP} => KeyEvent(code, 0) \in Event
    BY <1>1, ReleaseCode, OutgoingIsEvent DEF Values
  <2>2. sends' = sends \/ (code \notin {0, RESET_KEYMAP} /\ sends' = <<KeyEvent(code, 0)>>)
    BY DEF ResolveRelease
  <2>3. sends \in Seq(Event)
    BY DEF TypeOK
  <2> QED
    BY <2>1, <2>2, <2>3, ShortSequences, Zenon
<1>3. current_keymap' \in [Grabs -> Keymaps]
  BY ResolverAssumption DEF TypeOK, ResolveRelease
<1>4. release_map' \in [Grabs -> [Codes -> Codes \cup {RESET_KEYMAP}]]
  BY DEF TypeOK, ResolveRelease, Codes
<1>5. /\ unresolved' \in [Grabs -> Seq(TimedEvent)]
      /\ \A h \in Grabs : Len(unresolved'[h]) <= URMAX
      /\ resolvable_time' \in [Grabs -> Nat \cup {NoTime}]
      /\ resolving' \in Grabs \cup {NoGrab}
  BY DequeueTypeOK DEF ResolveRelease, ReturnTrue, TypeOK, ClearResolvableTime
<1> QED
  BY <1>2, <1>3, <1>4, <1>5
  DEF TypeOK, ResolveRelease, DedupTypeOK, dedupVars, worldVars

\* A repeat is resolved.
LEMMA ResolveRepeatTypeOK ==
  ASSUME TypeOK, NEW g \in Grabs, unresolved[g] # <<>>, ResolveRepeat(g),
         UNCHANGED <<input_counts, dedupVars, status, worldVars>>
  PROVE  TypeOK'
<1> DEFINE ev   == Oldest(g)
           code == release_map[g][ev.code]
<1>1. ev \in TimedEvent /\ ev.code \in Codes
  BY DequeueTypeOK, TimedEventFields
<1>2. sends' \in Seq(Event)
  <2>1. code \notin {0, RESET_KEYMAP} => KeyEvent(code, 2) \in Event
    BY <1>1, ReleaseCode, OutgoingIsEvent DEF Values
  <2>2. \/ sends' = <<>>
        \/ code \notin {0, RESET_KEYMAP} /\ sends' = <<KeyEvent(code, 2)>>
    BY DEF ResolveRepeat
  <2> QED
    BY <2>1, <2>2, ShortSequences, Zenon
<1>3. /\ unresolved' \in [Grabs -> Seq(TimedEvent)]
      /\ \A h \in Grabs : Len(unresolved'[h]) <= URMAX
      /\ resolvable_time' \in [Grabs -> Nat \cup {NoTime}]
      /\ resolving' \in Grabs \cup {NoGrab}
  BY DequeueTypeOK DEF ResolveRepeat, ReturnTrue, TypeOK, ClearResolvableTime
<1> QED
  BY <1>2, <1>3 DEF TypeOK, ResolveRepeat, DedupTypeOK, dedupVars, worldVars

\* An event that is no key's is resolved.
LEMMA ResolveOtherTypeOK ==
  ASSUME TypeOK, NEW g \in Grabs, unresolved[g] # <<>>, ResolveOther(g),
         UNCHANGED <<input_counts, dedupVars, status, worldVars>>
  PROVE  TypeOK'
<1> DEFINE ev == Oldest(g)
<1>1. /\ ev.type \in EventTypes /\ ev.code \in Codes /\ ev.value \in Values
  BY DequeueTypeOK, TimedEventFields
<1>2. sends' \in Seq(Event)
  <2>1. [type |-> ev.type, code |-> ev.code, value |-> ev.value] \in Event
    BY <1>1, OutgoingIsEvent
  <2>2. sends' = <<[type |-> ev.type, code |-> ev.code, value |-> ev.value]>>
    BY DEF ResolveOther, PassThrough
  <2> QED
    BY <2>1, <2>2
<1>3. /\ unresolved' \in [Grabs -> Seq(TimedEvent)]
      /\ \A h \in Grabs : Len(unresolved'[h]) <= URMAX
      /\ resolvable_time' \in [Grabs -> Nat \cup {NoTime}]
      /\ resolving' \in Grabs \cup {NoGrab}
  BY DequeueTypeOK DEF ResolveOther, ReturnTrue, TypeOK, ClearResolvableTime
<1> QED
  BY <1>2, <1>3 DEF TypeOK, ResolveOther, DedupTypeOK, dedupVars, worldVars

\* The oldest event stays, and releases are sent before it.
LEMMA KeepUnresolvedTypeOK ==
  ASSUME TypeOK, NEW g \in Grabs, unresolved[g] # <<>>, KeepUnresolved(g),
         UNCHANGED <<input_counts, dedupVars, status, worldVars>>
  PROVE  TypeOK'
<1> DEFINE ev   == Oldest(g)
           dual == key_action_get(current_keymap[g], ev.code)
           last == Newest(g)
           code == release_map[g][last.code]
<1>1. /\ ev.code \in Keys /\ ev.code \in Codes /\ ev.time \in Nat
      /\ last.type \in EventTypes /\ last.code \in Codes
  BY DequeueTypeOK, TimedEventFields DEF KeepUnresolved, IsPress
<1>2. current_keymap[g] \in Keymaps
  BY DEF TypeOK
<1>3. dual.hold_ms \in Nat
  BY <1>1, <1>2, ActionOfKey, DualFields DEF KeepUnresolved
<1>4. resolvable_time' \in [Grabs -> Nat \cup {NoTime}]
  BY <1>1, <1>3 DEF TypeOK, KeepUnresolved
<1>5. last_tap_code' \in [Grabs -> Codes \cup {NoTap}]
  <2>1. \E c \in Codes \cup {NoTap} : SetLastTap(g, c)
    BY <1>1 DEF KeepUnresolved, TapCodeAtPress
  <2> QED
    BY <2>1 DEF TypeOK, SetLastTap
<1>6. sends' \in Seq(Event)
  <2>1. ASSUME code # RESET_KEYMAP
        PROVE  [type |-> last.type, code |-> code, value |-> 0] \in Event
    <3>1. code \in Codes
      BY <1>1, <2>1, ReleaseCode
    <3>2. 0 \in Values
      BY DEF Values
    <3> QED
      BY <1>1, <3>1, <3>2, OutgoingIsEvent, Zenon
  <2>2. \/ sends' = sends
        \/ /\ code # RESET_KEYMAP
           /\ sends' = <<[type |-> last.type, code |-> code, value |-> 0], SynEvent>>
    BY DEF KeepUnresolved, ReleaseEarly
  <2>3. sends \in Seq(Event)
    BY DEF TypeOK
  <2> QED
    BY <2>1, <2>2, <2>3, OutgoingIsEvent, ShortSequences, Zenon
<1>7. /\ unresolved' \in [Grabs -> Seq(TimedEvent)]
      /\ \A h \in Grabs : Len(unresolved'[h]) <= URMAX
      /\ current_keymap' \in [Grabs -> Keymaps]
      /\ resolving' \in Grabs \cup {NoGrab}
  BY DequeueTypeOK, ResolverAssumption
  DEF TypeOK, KeepUnresolved, ReleaseEarly, ReturnFalse
<1> QED
  BY <1>4, <1>5, <1>6, <1>7
  DEF TypeOK, KeepUnresolved, DedupTypeOK, dedupVars, worldVars

\* Whatever a turn of resolve() does.
LEMMA ResolveTypeOK ==
  ASSUME TypeOK, Resolve
  PROVE  TypeOK'
<1> DEFINE g == resolving
<1>1. g \in Grabs
  BY DEF TypeOK, Resolve
<1>2. CASE NothingUnresolved(g)
  BY <1>2 DEF TypeOK, Resolve, NothingUnresolved, ReturnFalse, resolverVars,
              DedupTypeOK, dedupVars, worldVars
<1>3. CASE unresolved[g] # <<>>
  BY <1>1, <1>3, ResolvePressTypeOK, ResolveReleaseTypeOK, ResolveRepeatTypeOK,
     ResolveOtherTypeOK, KeepUnresolvedTypeOK DEF Resolve, NothingUnresolved
<1> QED
  BY <1>2, <1>3 DEF Resolve

\* An event is sent on, or left out (send_dedup).
LEMMA SendTypeOK ==
  ASSUME TypeOK, Send
  PROVE  TypeOK'
<1>1. sends \in Seq(Event) /\ sends # <<>>
  BY DEF TypeOK, Send
<1>2. Head(sends) \in Event /\ sends' \in Seq(Event)
  BY <1>1 DEF Send
<1>3. DedupTypeOK'
  BY <1>2, SendDedupTypeOK DEF TypeOK, Send
<1> QED
  BY <1>2, <1>3 DEF TypeOK, Send, resolverVars, worldVars

\* Every step keeps the types.
LEMMA NextTypeOK ==
  ASSUME TypeOK, [Next]_vars
  PROVE  TypeOK'
<1>1. CASE \E kb \in Kbs : Keyboard(kb)
  BY <1>1, KeyboardTypeOK
<1>2. CASE Tick
  BY <1>2, TickTypeOK
<1>3. CASE \E kb \in Kbs : ReadEvent(kb)
  BY <1>3, ReadEventTypeOK
<1>4. CASE Resolve
  BY <1>4, ResolveTypeOK
<1>5. CASE Send
  BY <1>5, SendTypeOK
<1>6. CASE UNCHANGED vars
  BY <1>6 DEF TypeOK, DedupTypeOK, vars, resolverVars, dedupVars, worldVars
<1> QED
  BY <1>1, <1>2, <1>3, <1>4, <1>5, <1>6 DEF Next, Loop

\* Every variable keeps its type: in particular the queue never outgrows the
\* array unresolved[URMAX], and no count of presses or of keyboards goes below
\* zero (resolve_dedup_input and send_dedup guard their decrements).
THEOREM TypeCorrect == Spec => []TypeOK
<1>1. Init => TypeOK
  BY InitTypeOK
<1>2. TypeOK /\ [Next]_vars => TypeOK'
  BY NextTypeOK
<1> QED
  BY <1>1, <1>2, PTL DEF Spec

-----------------------------------------------------------------------------
(* The sink is the OR of its sources                                       *)

\* counting one press or release of a code changes whether it is down exactly
\* when the event goes out
LEMMA SendDedupKeepsSink ==
  ASSUME DedupTypeOK, SinkIsLogicalOr, NEW ev \in Event, send_dedup(ev)
  PROVE  SinkIsLogicalOr'
<1>0. ev.code \in Codes /\ press_count_map \in [Codes -> Nat] /\ sink \subseteq Codes
  BY DEF Event, DedupTypeOK
<1>1. CASE DropRelease(ev) \/ SendUncounted(ev) \/ SendSyn(ev)
  <2>1. UNCHANGED <<press_count_map, sink>>
    BY <1>1, Zenon DEF DropRelease, SendUncounted, SendSyn, dedupVars
  <2> QED
    BY <2>1 DEF SinkIsLogicalOr
<1>2. CASE SendRelease(ev)
  <2>1. press_count_map' = [press_count_map EXCEPT ![ev.code] = @ - 1]
    BY <1>2 DEF SendRelease
  <2>2. CASE press_count_map[ev.code] = 1
    <3>1. sink' = sink \ {ev.code}
      BY <1>2, <2>2, Zenon DEF SendRelease
    <3> QED
      BY <1>0, <2>1, <2>2, <3>1 DEF SinkIsLogicalOr
  <2>3. CASE press_count_map[ev.code] # 1
    <3>1. sink' = sink
      BY <1>2, <2>3, Zenon DEF SendRelease
    <3>2. press_count_map[ev.code] > 1
      BY <1>0, <1>2, <2>3 DEF SendRelease
    <3> QED
      BY <1>0, <2>1, <3>1, <3>2 DEF SinkIsLogicalOr
  <2> QED
    BY <2>2, <2>3
<1>3. CASE SendPress(ev)
  <2>1. press_count_map' = [press_count_map EXCEPT ![ev.code] = @ + 1]
    BY <1>3 DEF SendPress
  <2>2. CASE press_count_map[ev.code] = 0
    <3>1. sink' = sink \cup {ev.code}
      BY <1>3, <2>2, Zenon DEF SendPress
    <3> QED
      BY <1>0, <2>1, <2>2, <3>1 DEF SinkIsLogicalOr
  <2>3. CASE press_count_map[ev.code] # 0
    <3>1. sink' = sink
      BY <1>3, <2>3, Zenon DEF SendPress
    <3>2. press_count_map[ev.code] > 0
      BY <1>0, <2>3
    <3> QED
      BY <1>0, <2>1, <3>1, <3>2 DEF SinkIsLogicalOr
  <2> QED
    BY <2>2, <2>3
<1> QED
  BY <1>1, <1>2, <1>3 DEF send_dedup

\* The application is told that a code is down exactly while some source holds
\* it (send_dedup), whatever keyboards, grabs, layers and macros send.
THEOREM SinkCorrect == Spec => []SinkIsLogicalOr
<1>1. Init => SinkIsLogicalOr
  BY DEF Init, DedupInit, SinkIsLogicalOr
<1>2. ASSUME TypeOK, SinkIsLogicalOr, [Next]_vars
      PROVE  SinkIsLogicalOr'
  <2>1. CASE Send
    <3>1. Head(sends) \in Event
      BY <1>2, <2>1 DEF TypeOK, Send
    <3> QED
      BY <1>2, <2>1, <3>1, SendDedupKeepsSink DEF TypeOK, Send
  <2>2. CASE ~Send
    <3>1. UNCHANGED dedupVars
      BY <1>2, <2>2 DEF Next, Loop, Keyboard, Tick, ReadEvent, Resolve, vars
    <3> QED
      BY <1>2, <3>1 DEF SinkIsLogicalOr, dedupVars
  <2> QED
    BY <2>1, <2>2
<1> QED
  BY <1>1, <1>2, TypeCorrect, PTL DEF Spec

-----------------------------------------------------------------------------
(* Waiting, DownAt and Alternates over any queue                           *)

\* no position lies between k's neighbours in the queue but waiting ones
LEMMA WaitingPositions ==
  ASSUME NEW q \in Seq(TimedEvent), NEW k
  PROVE  /\ Waiting(q, k) \subseteq 1..Len(q)
         /\ Waiting(q, k) \subseteq Nat
BY DEF Waiting

\* an event that is not a press or release of k changes nothing about k
LEMMA AppendOther ==
  ASSUME NEW q \in Seq(TimedEvent), NEW ev \in TimedEvent, NEW k, NEW n \in Nat,
         ~((IsPress(ev) \/ IsRelease(ev)) /\ ev.code = k)
  PROVE  /\ \A i \in Nat : DownAt(Append(q, ev), n, k, i) <=> DownAt(q, n, k, i)
         /\ Alternates(q, n, k) => Alternates(Append(q, ev), n, k)
<1> DEFINE p == Append(q, ev)
<1>1. Len(p) = Len(q) + 1 /\ p[Len(q) + 1] = ev /\ \A i \in 1..Len(q) : p[i] = q[i]
  OBVIOUS
<1>2. Waiting(p, k) = Waiting(q, k)
  BY <1>1 DEF Waiting
<1>3. \A i \in Waiting(q, k) : p[i] = q[i]
  BY <1>1, WaitingPositions
<1> HIDE DEF p
<1>4. \A i \in Nat : DownAt(p, n, k, i) <=> DownAt(q, n, k, i)
  BY <1>2, <1>3 DEF DownAt
<1>5. Alternates(q, n, k) => Alternates(p, n, k)
  BY <1>2, <1>3, <1>4, WaitingPositions DEF Alternates
<1> QED
  BY <1>4, <1>5 DEF p

\* the first press or the last release of k says the same as the old count
LEMMA AppendOwn ==
  ASSUME NEW q \in Seq(TimedEvent), NEW ev \in TimedEvent, NEW k,
         NEW n \in Nat, NEW r \in Nat, ev.code = k,
         \/ IsPress(ev) /\ n = 0 /\ r > 0
         \/ IsRelease(ev) /\ n > 0 /\ r = 0
  PROVE  /\ \A i \in 0..Len(q) : DownAt(Append(q, ev), r, k, i) <=> DownAt(q, n, k, i)
         /\ Alternates(q, n, k) => Alternates(Append(q, ev), r, k)
<1> DEFINE p == Append(q, ev)
           e == Len(q) + 1
<1>0. IsPress(ev) <=> ~IsRelease(ev)
  BY DEF IsPress, IsRelease
<1>1. /\ Len(q) \in Nat /\ Len(p) = e /\ p[e] = ev
      /\ \A i \in 1..Len(q) : p[i] = q[i]
  OBVIOUS
<1>2. Waiting(p, k) = Waiting(q, k) \cup {e}
  BY <1>1 DEF Waiting
<1>3. \A i \in Waiting(q, k) : p[i] = q[i] /\ i < e /\ i \in Nat
  BY <1>1, WaitingPositions
<1> HIDE DEF p
<1>4. ASSUME NEW i \in 0..Len(q)
      PROVE  DownAt(p, r, k, i) <=> DownAt(q, n, k, i)
  <2> DEFINE old == {j \in Waiting(q, k) : j > i}
             new == {j \in Waiting(p, k) : j > i}
  <2>1. new = old \cup {e} /\ e \in Nat
    BY <1>1, <1>2
  <2>2. CASE old = {}
    <3>1. DownAt(q, n, k, i) <=> n > 0
      BY <2>2 DEF DownAt
    <3>2. DownAt(p, r, k, i) <=> IsRelease(ev)
      BY <1>1, <2>1, <2>2 DEF DownAt
    <3> QED
      BY <1>0, <3>1, <3>2
  <2>3. CASE old # {}
    <3>1. DownAt(q, n, k, i) <=> \E j \in old : IsRelease(q[j]) /\ \A m \in old : j <= m
      BY <2>3 DEF DownAt
    <3>2. DownAt(p, r, k, i) <=> \E j \in new : IsRelease(p[j]) /\ \A m \in new : j <= m
      BY <2>1 DEF DownAt
    <3>3. \A j \in old : p[j] = q[j] /\ j < e /\ j \in Nat
      BY <1>3
    <3> HIDE DEF old, new
    <3> QED
      BY <2>1, <2>3, <3>1, <3>2, <3>3
  <2> QED
    BY <2>2, <2>3
<1>5. ASSUME Alternates(q, n, k)
      PROVE  Alternates(p, r, k)
  <2>1. \A i \in Waiting(q, k) : IsPress(p[i]) <=> DownAt(p, r, k, i)
    BY <1>1, <1>3, <1>4, <1>5, WaitingPositions DEF Alternates
  <2>2. DownAt(p, r, k, e) <=> r > 0
    <3>1. {j \in Waiting(p, k) : j > e} = {}
      BY <1>1, <1>2, <1>3
    <3> QED
      BY <3>1 DEF DownAt
  <2>3. IsPress(p[e]) <=> DownAt(p, r, k, e)
    BY <1>0, <1>1, <2>2
  <2> QED
    BY <1>2, <2>1, <2>3 DEF Alternates
<1> QED
  BY <1>4, <1>5 DEF p

\* without its oldest event a queue says what it said of the next position
LEMMA TailShifts ==
  ASSUME NEW q \in Seq(TimedEvent), q # <<>>, NEW k, NEW n \in Nat
  PROVE  /\ \A i \in Nat : DownAt(Tail(q), n, k, i) <=> DownAt(q, n, k, i + 1)
         /\ Alternates(q, n, k) => Alternates(Tail(q), n, k)
<1> DEFINE t == Tail(q)
<1>1. /\ Len(q) \in Nat \ {0} /\ Len(t) = Len(q) - 1
      /\ \A i \in 1..Len(t) : t[i] = q[i + 1]
  BY EmptySeq, HeadTailProperties
<1> HIDE DEF t
<1>2. \A j \in Nat \ {0} : j \in Waiting(t, k) <=> j + 1 \in Waiting(q, k)
  BY <1>1 DEF Waiting
<1>3. \A j \in Waiting(t, k) : j \in Nat \ {0} /\ t[j] = q[j + 1]
  BY <1>1 DEF Waiting
<1>4. Waiting(q, k) \subseteq Nat \ {0}
  BY DEF Waiting
<1>5. ASSUME NEW i \in Nat
      PROVE  DownAt(t, n, k, i) <=> DownAt(q, n, k, i + 1)
  <2> DEFINE lt == {j \in Waiting(t, k) : j > i}
             lq == {j \in Waiting(q, k) : j > i + 1}
  <2>1. \A j \in lt : j + 1 \in lq /\ t[j] = q[j + 1] /\ j \in Nat
    BY <1>2, <1>3
  <2>2. \A j \in lq : j \in Nat /\ j - 1 \in lt
    <3> SUFFICES ASSUME NEW j \in lq PROVE j \in Nat /\ j - 1 \in lt
      OBVIOUS
    <3>1. j - 1 \in Nat \ {0} /\ (j - 1) + 1 = j /\ j - 1 > i /\ j \in Waiting(q, k)
      BY <1>4
    <3>2. j - 1 \in Waiting(t, k)
      BY <1>2, <3>1
    <3> QED
      BY <3>1, <3>2
  <2>3. DownAt(t, n, k, i) <=> \/ lt = {} /\ n > 0
                               \/ \E j \in lt : IsRelease(t[j]) /\ \A m \in lt : j <= m
    BY DEF DownAt
  <2>4. DownAt(q, n, k, i + 1) <=> \/ lq = {} /\ n > 0
                                   \/ \E j \in lq : IsRelease(q[j]) /\ \A m \in lq : j <= m
    BY DEF DownAt
  <2> HIDE DEF lt, lq
  <2>5. lt = {} <=> lq = {}
    BY <2>1, <2>2
  <2>6. ASSUME NEW j \in lt, IsRelease(t[j]), \A m \in lt : j <= m
        PROVE  \E l \in lq : IsRelease(q[l]) /\ \A m \in lq : l <= m
    <3>1. j + 1 \in lq /\ IsRelease(q[j + 1])
      BY <2>1, <2>6
    <3>2. \A m \in lq : j + 1 <= m
      BY <2>1, <2>2, <2>6
    <3> QED
      BY <3>1, <3>2
  <2>7. ASSUME NEW j \in lq, IsRelease(q[j]), \A m \in lq : j <= m
        PROVE  \E l \in lt : IsRelease(t[l]) /\ \A m \in lt : l <= m
    <3>1. j - 1 \in lt /\ (j - 1) + 1 = j
      BY <2>2
    <3>2. IsRelease(t[j - 1])
      BY <2>1, <2>7, <3>1
    <3>3. \A m \in lt : j - 1 <= m
      BY <2>1, <2>2, <2>7
    <3> QED
      BY <3>1, <3>2, <3>3
  <2> QED
    BY <2>3, <2>4, <2>5, <2>6, <2>7
<1>6. ASSUME Alternates(q, n, k)
      PROVE  Alternates(t, n, k)
  <2> SUFFICES ASSUME NEW i \in Waiting(t, k)
               PROVE  IsPress(t[i]) <=> DownAt(t, n, k, i)
    BY DEF Alternates
  <2>1. i \in Nat \ {0} /\ i + 1 \in Waiting(q, k) /\ t[i] = q[i + 1]
    BY <1>2, <1>3
  <2> QED
    BY <1>5, <1>6, <2>1 DEF Alternates
<1> QED
  BY <1>5, <1>6 DEF t

\* what the oldest event says of its own key and of the others
LEMMA OldestOther ==
  ASSUME NEW q \in Seq(TimedEvent), NEW k, NEW n \in Nat, 1 \notin Waiting(q, k)
  PROVE  DownAt(q, n, k, 0) <=> DownAt(q, n, k, 1)
<1>1. Waiting(q, k) \subseteq Nat \ {0}
  BY DEF Waiting
<1>2. {j \in Waiting(q, k) : j > 0} = {j \in Waiting(q, k) : j > 1}
  BY <1>1
<1> QED
  BY <1>2 DEF DownAt

\* The oldest event of its key tells what the key was before the queue.
LEMMA OldestOwn ==
  ASSUME NEW q \in Seq(TimedEvent), NEW k, NEW n \in Nat, 1 \in Waiting(q, k),
         Alternates(q, n, k)
  PROVE  /\ IsPress(q[1]) => ~DownAt(q, n, k, 0) /\ DownAt(q, n, k, 1)
         /\ IsRelease(q[1]) => DownAt(q, n, k, 0) /\ ~DownAt(q, n, k, 1)
<1> DEFINE later == {j \in Waiting(q, k) : j > 0}
<1>1. 1 \in later /\ \A m \in later : m \in Nat /\ 1 <= m
  BY DEF Waiting
<1>2. DownAt(q, n, k, 0) <=> \E j \in later : IsRelease(q[j]) /\ \A m \in later : j <= m
  BY <1>1 DEF DownAt
<1> HIDE DEF later
<1>3. DownAt(q, n, k, 0) <=> IsRelease(q[1])
  BY <1>1, <1>2
<1>4. IsPress(q[1]) => ~IsRelease(q[1])
  BY DEF IsPress, IsRelease
<1> QED
  BY <1>3, <1>4 DEF Alternates

\* A sequence without its last element.
LEMMA DropLast ==
  ASSUME NEW q \in Seq(TimedEvent), q # <<>>
  PROVE  /\ Len(q) \in Nat \ {0}
         /\ Len(SubSeq(q, 1, Len(q) - 1)) = Len(q) - 1
         /\ \A i \in 1..(Len(q) - 1) : SubSeq(q, 1, Len(q) - 1)[i] = q[i]
<1> DEFINE e == Len(q) - 1
<1>1. Len(q) \in Nat \ {0} /\ e \in Nat /\ Len(q) = e + 1
  BY EmptySeq
<1>2. \A i \in 1..e : q[i] \in TimedEvent
  BY <1>1, ElementOfSeq
<1> HIDE DEF e
<1>3. /\ Len(SubSeq(q, 1, e)) = IF 1 <= e THEN e - 1 + 1 ELSE 0
      /\ \A i \in 1..(e - 1 + 1) : SubSeq(q, 1, e)[i] = q[1 + i - 1]
  BY <1>1, <1>2, SubSeqProperties
<1>4. /\ Len(SubSeq(q, 1, e)) = e
      /\ \A i \in 1..e : SubSeq(q, 1, e)[i] = q[i]
  BY <1>1, <1>3
<1> QED
  BY <1>1, <1>4 DEF e

\* an event off the end of the queue that says nothing about k
LEMMA DropOther ==
  ASSUME NEW q \in Seq(TimedEvent), q # <<>>, NEW k, NEW n \in Nat,
         Len(q) \notin Waiting(q, k)
  PROVE  LET p == SubSeq(q, 1, Len(q) - 1) IN
         /\ \A i \in Nat : DownAt(p, n, k, i) <=> DownAt(q, n, k, i)
         /\ Alternates(q, n, k) => Alternates(p, n, k)
<1> DEFINE p == SubSeq(q, 1, Len(q) - 1)
<1>1. /\ Len(q) \in Nat \ {0} /\ Len(p) = Len(q) - 1
      /\ \A i \in 1..(Len(q) - 1) : p[i] = q[i]
  BY DropLast
<1> HIDE DEF p
<1>2. Waiting(p, k) = Waiting(q, k)
  BY <1>1 DEF Waiting
<1>3. \A i \in Waiting(q, k) : p[i] = q[i]
  BY <1>1 DEF Waiting
<1>4. \A i \in Nat : DownAt(p, n, k, i) <=> DownAt(q, n, k, i)
  BY <1>2, <1>3 DEF DownAt
<1>5. Alternates(q, n, k) => Alternates(p, n, k)
  BY <1>2, <1>3, <1>4, WaitingPositions DEF Alternates
<1> QED
  BY <1>4, <1>5 DEF p

\* the only event of k off the end of the queue, a release
LEMMA DropSole ==
  ASSUME NEW q \in Seq(TimedEvent), q # <<>>, NEW k, NEW n \in Nat,
         Waiting(q, k) = {Len(q)}, IsRelease(q[Len(q)]), Alternates(q, n, k)
  PROVE  LET p == SubSeq(q, 1, Len(q) - 1) IN
         DownAt(q, n, k, 0) /\ ~DownAt(p, n, k, 0) /\ Alternates(p, n, k)
<1> DEFINE p == SubSeq(q, 1, Len(q) - 1)
<1>1. /\ Len(q) \in Nat \ {0} /\ Len(p) = Len(q) - 1
      /\ \A i \in 1..(Len(q) - 1) : p[i] = q[i]
  BY DropLast
<1> HIDE DEF p
<1>2. Waiting(p, k) = {}
  BY <1>1 DEF Waiting
<1>3. ~IsPress(q[Len(q)])
  BY DEF IsPress, IsRelease
<1>4. ~(n > 0)
  <2>1. {j \in Waiting(q, k) : j > Len(q)} = {}
    BY <1>1
  <2>2. DownAt(q, n, k, Len(q)) <=> n > 0
    BY <2>1 DEF DownAt
  <2> QED
    BY <1>3, <2>2 DEF Alternates
<1>5. DownAt(q, n, k, 0)
  <2>1. {j \in Waiting(q, k) : j > 0} = {Len(q)}
    BY <1>1
  <2> QED
    BY <1>1, <2>1 DEF DownAt
<1>6. ~DownAt(p, n, k, 0) /\ Alternates(p, n, k)
  BY <1>2, <1>4 DEF DownAt, Alternates
<1> QED
  BY <1>5, <1>6 DEF p

-----------------------------------------------------------------------------
(* The early release                                                       *)

\* The comment of resolve() (resolver.c:292) as a lemma: if the oldest event is a
\* dual key that cannot be resolved, a release at the end of the queue is the only
\* event of its key there, for its press would have decided the dual key.
LEMMA EarlyReleaseIsSole ==
  ASSUME NoTimeoutOnly, TypeOK, NEW g \in Grabs, unresolved[g] # <<>>,
         KeepUnresolved(g), NEW k \in Keys, NEW n \in Nat,
         IsRelease(Newest(g)), Newest(g).code = k,
         Alternates(unresolved[g], n, k)
  PROVE  Waiting(unresolved[g], k) = {Len(unresolved[g])}
<1> DEFINE q    == unresolved[g]
           e    == Len(q)
           ev   == q[1]
           dual == key_action_get(current_keymap[g], ev.code)
<1>1. q \in Seq(TimedEvent) /\ e \in Nat \ {0}
  BY EmptySeq DEF TypeOK
<1>2. Oldest(g) = ev /\ Newest(g) = q[e]
  BY <1>1 DEF Oldest, Newest
<1>3. /\ ev.code \in Keys /\ IsPress(ev)
      /\ dual.type = "DUAL" /\ Undecided(g, ev, dual)
  <2>1. Oldest(g) \in TimedEvent /\ IsPress(Oldest(g))
    BY DequeueTypeOK DEF KeepUnresolved
  <2>2. Oldest(g).code \in Keys
    BY <2>1, TimedEventFields DEF IsPress
  <2> QED
    BY <1>2, <2>1, <2>2 DEF KeepUnresolved
<1>4. \A i \in 2..e : ~Decisive(g, ev, dual, i)
  <2>1. current_keymap[g] \in Keymaps
    BY DEF TypeOK
  <2>2. dual.mode # "TIMEOUT_ONLY"
    BY <1>3, <2>1 DEF NoTimeoutOnly, key_action_get
  <2> QED
    BY <1>3, <2>2 DEF Undecided
<1>5. IsRelease(q[e]) /\ q[e].code = k /\ e \in Waiting(q, k)
  BY <1>1, <1>2 DEF Waiting
<1>6. ASSUME NEW i \in Waiting(q, k), i < e
      PROVE  IsRelease(q[i])
  <2>1. i \in 1..e /\ q[i].code = k /\ (IsPress(q[i]) \/ IsRelease(q[i]))
    BY DEF Waiting
  <2>2. e \in 2..e /\ ~Decisive(g, ev, dual, e)
    BY <1>1, <1>4, <1>6, <2>1
  <2>3. i # 1
    BY <1>3, <1>5, <2>1, <2>2 DEF Decisive
  <2>4. i \in 2..(e - 1)
    BY <1>1, <1>6, <2>1, <2>3
  <2>5. ~IsPress(q[i])
    BY <1>5, <2>1, <2>2, <2>4 DEF Decisive
  <2> QED
    BY <2>1, <2>5
<1>7. ASSUME NEW i \in Waiting(q, k), i < e
      PROVE  FALSE
  <2> DEFINE later == {j \in Waiting(q, k) : j > i}
  <2>1. e \in later /\ later \subseteq Nat /\ later \subseteq 1..e
    BY <1>1, <1>5, <1>7, WaitingPositions
  <2>2. PICK x \in later : \A y \in later : x <= y
    BY <2>1, LeastNatural
  <2>3. IsRelease(q[x])
    BY <1>5, <1>6, <2>1, <2>2
  <2>4. DownAt(q, n, k, i)
    BY <2>2, <2>3 DEF DownAt
  <2>5. ~IsPress(q[i])
    BY <1>6, <1>7 DEF IsPress, IsRelease
  <2> QED
    BY <2>4, <2>5 DEF Alternates
<1>8. \A i \in Waiting(q, k) : i \in 1..e
  BY <1>1, WaitingPositions
<1> QED
  BY <1>1, <1>5, <1>7, <1>8

-----------------------------------------------------------------------------
(* What each step does to the waiting events of a key                      *)

\* k is down in g for the resolver, i events further on
Down(g, k, i) == DownAt(unresolved[g], input_counts[g][k], k, i)
Alternating(g, k) == Alternates(unresolved[g], input_counts[g][k], k)

\* Reading an event, dropped or queued, changes nothing for the events before it.
LEMMA ReadEventKeeps ==
  ASSUME TypeOK, NEW kb \in Kbs, ReadEvent(kb), status' = "running",
         NEW g \in Grabs, NEW k \in Keys
  PROVE  /\ Alternating(g, k) => Alternating(g, k)'
         /\ Down(g, k, 0)' <=> Down(g, k, 0)
<1> DEFINE q  == unresolved[g]
           n  == input_counts[g][k]
           ev == Head(evdev[kb])
           own == (IsPress(ev) \/ IsRelease(ev)) /\ ev.code = k
<1>1. /\ q \in Seq(TimedEvent) /\ n \in Nat /\ 0 \in 0..Len(q) /\ 0 \in Nat
      /\ GrabOf[kb] \in Grabs
  BY ResolverAssumption DEF TypeOK
<1>2. ev \in TimedEvent
  BY HeadTailProperties DEF TypeOK, ReadEvent
<1>3. CASE g # GrabOf[kb]
  <2>1. unresolved'[g] = unresolved[g] /\ input_counts'[g] = input_counts[g]
    BY <1>1, <1>3 DEF TypeOK, ReadEvent
  <2> QED
    BY <2>1 DEF Alternating, Down
<1>4. CASE g = GrabOf[kb]
  <2>1. /\ unresolved'[g] = IF resolve_dedup_input(g, ev) THEN Append(q, ev) ELSE q
        /\ input_counts'[g] = CountsAfter(g, ev)
    BY <1>1, <1>4 DEF TypeOK, ReadEvent
  <2>2. CASE ~own
    <3>1. input_counts'[g][k] = n
      <4>1. ev.type = "EV_KEY" /\ ev.code = k => CountAfter(n, ev) = n
        BY <2>2 DEF CountAfter
      <4>2. input_counts[g] \in [Keys -> Nat]
        BY DEF TypeOK
      <4> QED
        BY <2>1, <4>1, <4>2 DEF CountsAfter
    <3>2. CASE resolve_dedup_input(g, ev)
      <4>1. unresolved'[g] = Append(q, ev)
        BY <2>1, <3>2
      <4>2. /\ DownAt(Append(q, ev), n, k, 0) <=> DownAt(q, n, k, 0)
            /\ Alternates(q, n, k) => Alternates(Append(q, ev), n, k)
        BY <1>1, <1>2, <2>2, AppendOther
      <4> QED
        BY <3>1, <4>1, <4>2 DEF Alternating, Down
    <3>3. CASE ~resolve_dedup_input(g, ev)
      BY <2>1, <3>1, <3>3 DEF Alternating, Down
    <3> QED
      BY <3>2, <3>3
  <2>3. CASE own
    <3> DEFINE r == CountAfter(n, ev)
    <3>1. ev.type = "EV_KEY" /\ ev.code = k
      BY <2>3 DEF IsPress, IsRelease
    <3>2. input_counts'[g][k] = r
      <4>1. input_counts[g] \in [Keys -> Nat]
        BY DEF TypeOK
      <4> QED
        BY <2>1, <3>1, <4>1 DEF CountsAfter
    <3>3. IsPress(ev) <=> ~IsRelease(ev)
      BY <2>3 DEF IsPress, IsRelease
    <3>4. r \in Nat
      BY <1>1 DEF CountAfter
    <3>5. CASE resolve_dedup_input(g, ev)
      <4>1. \/ IsPress(ev) /\ n = 0 /\ r > 0
            \/ IsRelease(ev) /\ n > 0 /\ r = 0
        BY <1>1, <2>3, <3>1, <3>3, <3>5 DEF resolve_dedup_input, Accepted, CountAfter
      <4>2. unresolved'[g] = Append(q, ev)
        BY <2>1, <3>5
      <4>3. /\ DownAt(Append(q, ev), r, k, 0) <=> DownAt(q, n, k, 0)
            /\ Alternates(q, n, k) => Alternates(Append(q, ev), r, k)
        BY <1>1, <1>2, <3>1, <3>4, <4>1, AppendOwn
      <4> QED
        BY <3>2, <4>2, <4>3 DEF Alternating, Down
    <3>6. CASE ~resolve_dedup_input(g, ev)
      <4>1. r > 0 <=> n > 0
        BY <1>1, <2>3, <3>1, <3>3, <3>6 DEF resolve_dedup_input, Accepted, CountAfter
      <4>2. unresolved'[g] = q
        BY <2>1, <3>6
      <4> HIDE DEF r, n, q
      <4>3. \A i : DownAt(q, r, k, i) <=> DownAt(q, n, k, i)
        BY <4>1 DEF DownAt
      <4>4. Alternates(q, r, k) <=> Alternates(q, n, k)
        BY <4>3 DEF Alternates
      <4> QED
        BY <3>2, <4>2, <4>3, <4>4 DEF Alternating, Down, q, n
    <3> QED
      BY <3>5, <3>6
  <2> QED
    BY <2>2, <2>3
<1> QED
  BY <1>3, <1>4

\* Resolving the oldest event of h moves every key of h on by one event.
LEMMA ReturnTrueKeeps ==
  ASSUME TypeOK, NEW h \in Grabs, unresolved[h] # <<>>, ReturnTrue(h),
         UNCHANGED input_counts, NEW g \in Grabs, NEW k \in Keys
  PROVE  /\ Alternating(g, k) => Alternating(g, k)'
         /\ Down(g, k, 0)' <=> Down(g, k, IF g = h THEN 1 ELSE 0)
<1>1. /\ unresolved[g] \in Seq(TimedEvent) /\ input_counts[g][k] \in Nat
      /\ 0 \in Nat /\ 0 + 1 = 1
  BY DEF TypeOK
<1>2. CASE g # h
  <2>1. unresolved'[g] = unresolved[g]
    BY <1>2 DEF TypeOK, ReturnTrue, DropOldest
  <2> QED
    BY <1>2, <2>1 DEF Alternating, Down
<1>3. CASE g = h
  <2>1. unresolved'[g] = Tail(unresolved[g])
    BY <1>3 DEF TypeOK, ReturnTrue, DropOldest
  <2>2. /\ DownAt(Tail(unresolved[g]), input_counts[g][k], k, 0)
             <=> DownAt(unresolved[g], input_counts[g][k], k, 1)
        /\ Alternating(g, k) => Alternates(Tail(unresolved[g]), input_counts[g][k], k)
    BY <1>1, <1>3, TailShifts DEF Alternating
  <2> QED
    BY <1>3, <2>1, <2>2 DEF Alternating, Down
<1> QED
  BY <1>2, <1>3

\* k is the key of an event that is a press or a release
Moves(ev, k) == (IsPress(ev) \/ IsRelease(ev)) /\ ev.code = k

\* Seen from one event further on, only the key of the oldest event differs.
LEMMA OldestMoves ==
  ASSUME TypeOK, NEW g \in Grabs, unresolved[g] # <<>>, NEW k \in Keys
  PROVE  /\ ~Moves(Oldest(g), k) => (Down(g, k, 1) <=> Down(g, k, 0))
         /\ Moves(Oldest(g), k) /\ Alternating(g, k) =>
              /\ IsPress(Oldest(g)) => ~Down(g, k, 0) /\ Down(g, k, 1)
              /\ IsRelease(Oldest(g)) => Down(g, k, 0) /\ ~Down(g, k, 1)
<1>1. /\ unresolved[g] \in Seq(TimedEvent) /\ input_counts[g][k] \in Nat
      /\ Len(unresolved[g]) \in Nat \ {0}
  BY EmptySeq DEF TypeOK
<1>2. Oldest(g) = unresolved[g][1] /\ 1 \in 1..Len(unresolved[g])
  BY <1>1 DEF Oldest
<1>3. Moves(Oldest(g), k) <=> 1 \in Waiting(unresolved[g], k)
  BY <1>2 DEF Moves, Waiting
<1> QED
  BY <1>1, <1>2, <1>3, OldestOther, OldestOwn DEF Down, Alternating

\* Giving up on the oldest event of h only ever affects a key whose release was
\* the newest event, was dropped and released early, and had been down.
LEMMA KeepUnresolvedKeeps ==
  ASSUME NoTimeoutOnly, TypeOK, NEW h \in Grabs, unresolved[h] # <<>>,
         KeepUnresolved(h), UNCHANGED input_counts,
         NEW g \in Grabs, NEW k \in Keys, Alternating(g, k)
  PROVE  /\ Alternating(g, k)'
         /\ \/ Down(g, k, 0)' <=> Down(g, k, 0)
            \/ /\ g = h /\ IsRelease(Newest(h)) /\ Newest(h).code = k
               /\ DropNewest(h)
               /\ Waiting(unresolved[g], k) = {Len(unresolved[g])}
<1> DEFINE q == unresolved[g]
           n == input_counts[g][k]
<1>1. q \in Seq(TimedEvent) /\ n \in Nat /\ 0 \in Nat
  BY DEF TypeOK
<1>2. CASE unresolved'[g] = unresolved[g]
  BY <1>2 DEF Alternating, Down
<1>3. CASE unresolved'[g] # unresolved[g]
  <2>1. /\ g = h /\ q # <<>> /\ DropNewest(h)
        /\ unresolved'[g] = SubSeq(q, 1, Len(q) - 1)
        /\ Newest(h).value = 0
    BY <1>3 DEF TypeOK, KeepUnresolved, ReleaseEarly, DropNewest
  <2>2. Newest(g) = q[Len(q)] /\ Len(q) \in 1..Len(q)
    BY <1>1, <2>1, EmptySeq DEF Newest
  <2>3. CASE Len(q) \notin Waiting(q, k)
    BY <1>1, <2>1, <2>3, DropOther DEF Alternating, Down
  <2>4. CASE Len(q) \in Waiting(q, k)
    <3>1. IsRelease(Newest(g)) /\ Newest(g).code = k
      BY <2>1, <2>2, <2>4 DEF Waiting, IsPress, IsRelease
    <3>2. Waiting(q, k) = {Len(q)}
      BY <1>1, <2>1, <3>1, EarlyReleaseIsSole DEF Alternating
    <3>3. Alternates(SubSeq(q, 1, Len(q) - 1), n, k)
      BY <1>1, <2>1, <2>2, <3>1, <3>2, DropSole DEF Alternating
    <3> QED
      BY <2>1, <3>1, <3>2, <3>3 DEF Alternating
  <2> QED
    BY <2>3, <2>4
<1> QED
  BY <1>2, <1>3

-----------------------------------------------------------------------------
(* The queue alternates                                                    *)

\* A resolver that has failed does not run again.
LEMMA StatusNeverReturns ==
  ASSUME [Next]_vars, status' = "running"
  PROVE  status = "running"
BY DEF Next, Loop, Keyboard, Tick, ReadEvent, Resolve, Send, vars

\* every call of resolve() takes the oldest event, gives up, or finds nothing
LEMMA ResolveCases ==
  ASSUME TypeOK, Resolve
  PROVE  /\ resolving \in Grabs /\ UNCHANGED <<input_counts, status>>
         /\ \/ UNCHANGED unresolved /\ UNCHANGED <<release_map, current_keymap>>
            \/ /\ unresolved[resolving] # <<>>
               /\ \/ /\ ReturnTrue(resolving)
                     /\ \/ ResolvePress(resolving) \/ ResolveRelease(resolving)
                        \/ ResolveRepeat(resolving) \/ ResolveOther(resolving)
                  \/ KeepUnresolved(resolving)
<1>1. resolving \in Grabs
  BY DEF TypeOK, Resolve
<1>2. CASE NothingUnresolved(resolving)
  BY <1>1, <1>2 DEF Resolve, NothingUnresolved, resolverVars
<1>3. CASE unresolved[resolving] # <<>>
  BY <1>1, <1>3 DEF Resolve, NothingUnresolved, ResolvePress, ResolveRelease,
                    ResolveRepeat, ResolveOther
<1> QED
  BY <1>2, <1>3 DEF Resolve

\* Every step keeps presses and releases in turns.
LEMMA NextQueueAlternates ==
  ASSUME NoTimeoutOnly, TypeOK, QueueAlternates, [Next]_vars
  PROVE  QueueAlternates'
<1> SUFFICES ASSUME status' = "running", NEW g \in Grabs, NEW k \in Keys
             PROVE  Alternating(g, k)'
  BY DEF QueueAlternates, Alternating
<1>1. Alternating(g, k)
  BY StatusNeverReturns DEF QueueAlternates, Alternating
<1>2. CASE UNCHANGED <<unresolved, input_counts>>
  BY <1>1, <1>2 DEF Alternating
<1>3. CASE \E kb \in Kbs : ReadEvent(kb)
  BY <1>1, <1>3, ReadEventKeeps
<1>4. CASE Resolve
  BY <1>1, <1>2, <1>4, ResolveCases, ReturnTrueKeeps, KeepUnresolvedKeeps
<1>5. CASE (\E kb \in Kbs : Keyboard(kb)) \/ Tick \/ Send \/ UNCHANGED vars
  BY <1>2, <1>5 DEF Keyboard, Tick, Send, vars, resolverVars
<1> QED
  BY <1>3, <1>4, <1>5 DEF Next, Loop

\* With no TIMEOUT_ONLY key, the presses and releases of a key never get out of
\* step between the keyboards and the resolver, whatever is deduplicated and
\* whatever is released early (resolve_dedup_input, resolve).
THEOREM QueueCorrect ==
  ASSUME NoTimeoutOnly
  PROVE  Spec => []QueueAlternates
<1>1. Init => QueueAlternates
  <2> SUFFICES ASSUME Init, NEW g \in Grabs, NEW k \in Keys
               PROVE  Waiting(unresolved[g], k) = {}
    BY DEF QueueAlternates, Alternates
  <2>1. unresolved[g] = <<>>
    BY DEF Init
  <2> QED
    BY <2>1 DEF Waiting
<1>2. TypeOK /\ QueueAlternates /\ [Next]_vars => QueueAlternates'
  BY NextQueueAlternates
<1> QED
  BY <1>1, <1>2, TypeCorrect, PTL DEF Spec

-----------------------------------------------------------------------------
(* No layer sticks                                                         *)

\* some key that is down will reset the keymap of g when it is released
Anchored(g) == \E k \in Keys : Down(g, k, 0) /\ release_map[g][k] = RESET_KEYMAP

\* A press that is resolved leaves a layer only with a key that holds it.
LEMMA PressAnchors ==
  ASSUME TypeOK, NEW h \in Grabs, unresolved[h] # <<>>, ResolvePress(h),
         UNCHANGED input_counts, \A k \in Keys : Alternating(h, k),
         current_keymap[h] # RootOf[h] => Anchored(h),
         current_keymap'[h] # RootOf[h]
  PROVE  Anchored(h)'
<1> DEFINE ev == Oldest(h)
<1>1. /\ ev \in TimedEvent /\ IsPress(ev) /\ ev.code \in Keys /\ ev.code \in Codes
      /\ ReturnTrue(h)
  BY DequeueTypeOK, TimedEventFields DEF ResolvePress, IsPress
<1>0. PICK c \in Keys : c = ev.code
  BY <1>1
<1>2. ~Down(h, c, 0) /\ Down(h, c, 0)'
  <2>1. Moves(ev, c)
    BY <1>0, <1>1 DEF Moves
  <2>2. ~Down(h, c, 0) /\ Down(h, c, 1)
    BY <1>1, <2>1, OldestMoves
  <2> QED
    BY <1>1, <2>2, ReturnTrueKeeps
<1>3. \A k \in Keys : k # c => (Down(h, k, 0)' <=> Down(h, k, 0))
  BY <1>0, <1>1, OldestMoves, ReturnTrueKeeps DEF Moves
<1>4. PICK ka : do_keypress(h, ev, ka)
  BY DEF ResolvePress, DecideByAge, DecideTap, DecideHold
<1>5. release_map \in [Grabs -> [Codes -> Codes \cup {RESET_KEYMAP}]]
  BY DEF TypeOK
<1>6. CASE DoMap(h, ev, ka)
  <2>1. release_map'[h][c] = RESET_KEYMAP
    BY <1>0, <1>1, <1>5, <1>6 DEF DoMap, RememberRelease
  <2> QED
    BY <1>0, <1>2, <2>1 DEF Anchored
<1>7. CASE DoSimple(h, ev, ka) \/ DoMacro(ka)
  <2>1. current_keymap' = current_keymap
    BY <1>7 DEF DoSimple, DoMacro
  <2>2. PICK k \in Keys : Down(h, k, 0) /\ release_map[h][k] = RESET_KEYMAP
    BY <2>1 DEF Anchored
  <2>3. k # c
    BY <1>2, <2>2
  <2>4. release_map'[h][k] = release_map[h][k]
    BY <1>0, <1>5, <1>7, <2>3 DEF DoSimple, DoMacro, RememberRelease, Codes
  <2> QED
    BY <1>3, <2>2, <2>3, <2>4 DEF Anchored
<1> QED
  BY <1>4, <1>6, <1>7 DEF do_keypress

\* A release that is resolved takes the layer of its key away.
LEMMA ReleaseAnchors ==
  ASSUME TypeOK, NEW h \in Grabs, unresolved[h] # <<>>, ResolveRelease(h),
         UNCHANGED input_counts, \A k \in Keys : Alternating(h, k),
         current_keymap[h] # RootOf[h] => Anchored(h),
         current_keymap'[h] # RootOf[h]
  PROVE  Anchored(h)'
<1> DEFINE ev == Oldest(h)
<1>1. ev.code \in Keys /\ ev.code \in Codes /\ ReturnTrue(h)
  BY DequeueTypeOK, TimedEventFields DEF ResolveRelease, IsRelease
<1>2. /\ release_map \in [Grabs -> [Codes -> Codes \cup {RESET_KEYMAP}]]
      /\ current_keymap \in [Grabs -> Keymaps]
  BY DEF TypeOK
<1>3. release_map[h][ev.code] # RESET_KEYMAP /\ current_keymap' = current_keymap
  <2>1. CASE release_map[h][ev.code] = RESET_KEYMAP
    <3>1. current_keymap' = [current_keymap EXCEPT ![h] = RootOf[h]]
      BY <2>1 DEF ResolveRelease, RESET_KEYMAP, KEY_MAX
    <3> QED
      BY <1>2, <3>1
  <2>2. CASE release_map[h][ev.code] # RESET_KEYMAP
    BY <2>2 DEF ResolveRelease
  <2> QED
    BY <2>1, <2>2
<1>4. PICK k \in Keys : Down(h, k, 0) /\ release_map[h][k] = RESET_KEYMAP
  BY <1>3 DEF Anchored
<1>5. k # ev.code
  BY <1>3, <1>4
<1>6. Down(h, k, 0)'
  BY <1>1, <1>4, <1>5, OldestMoves, ReturnTrueKeeps DEF Moves
<1>7. release_map'[h][k] = release_map[h][k]
  BY <1>2, <1>5 DEF ResolveRelease, Codes
<1> QED
  BY <1>4, <1>6, <1>7 DEF Anchored

\* Repeats, and what is not a key, leave layers alone.
LEMMA PassAnchors ==
  ASSUME TypeOK, NEW h \in Grabs, unresolved[h] # <<>>,
         ResolveRepeat(h) \/ ResolveOther(h),
         UNCHANGED input_counts, Anchored(h)
  PROVE  Anchored(h)'
<1>1. ReturnTrue(h) /\ UNCHANGED release_map
  BY DEF ResolveRepeat, ResolveOther
<1>2. \A k \in Keys : ~Moves(Oldest(h), k)
  BY DEF ResolveRepeat, ResolveOther, Moves, IsPress, IsRelease
<1>3. \A k \in Keys : Down(h, k, 0)' <=> Down(h, k, 0)
  BY <1>1, <1>2, OldestMoves, ReturnTrueKeeps
<1> QED
  BY <1>1, <1>3 DEF Anchored

\* An early release takes the layer of its key away.
LEMMA KeepAnchors ==
  ASSUME NoTimeoutOnly, TypeOK, NEW h \in Grabs, unresolved[h] # <<>>, KeepUnresolved(h),
         UNCHANGED input_counts, \A k \in Keys : Alternating(h, k),
         current_keymap[h] # RootOf[h] => Anchored(h),
         current_keymap'[h] # RootOf[h]
  PROVE  Anchored(h)'
<1> DEFINE last == Newest(h)
           code == release_map[h][last.code]
<1>1. UNCHANGED release_map /\ current_keymap \in [Grabs -> Keymaps]
  BY DEF KeepUnresolved, TypeOK
<1>2. /\ current_keymap' = current_keymap
      /\ DropNewest(h) => UNCHANGED unresolved \/ code # RESET_KEYMAP
  BY <1>1 DEF KeepUnresolved, ReleaseEarly
<1>3. PICK k \in Keys : Down(h, k, 0) /\ release_map[h][k] = RESET_KEYMAP
  BY <1>2 DEF Anchored
<1>4. CASE UNCHANGED unresolved
  BY <1>1, <1>3, <1>4 DEF Anchored, Down
<1>5. CASE ~UNCHANGED unresolved
  <2>1. ~(Newest(h).code = k /\ DropNewest(h))
    BY <1>2, <1>3, <1>5
  <2>2. Down(h, k, 0)'
    BY <1>3, <2>1, KeepUnresolvedKeeps
  <2> QED
    BY <1>1, <1>3, <2>2 DEF Anchored
<1> QED
  BY <1>4, <1>5

\* Every step keeps layers to keys that are held.
LEMMA NextLayerIsHeld ==
  ASSUME NoTimeoutOnly, TypeOK, QueueAlternates, LayerIsHeld, [Next]_vars
  PROVE  LayerIsHeld'
<1> SUFFICES ASSUME status' = "running", NEW h \in Grabs, current_keymap'[h] # RootOf[h]
             PROVE  Anchored(h)'
  BY DEF LayerIsHeld, Anchored, PressResolved, Down
<1>1. /\ \A g \in Grabs, k \in Keys : Alternating(g, k)
      /\ \A g \in Grabs : current_keymap[g] # RootOf[g] => Anchored(g)
  BY StatusNeverReturns
  DEF QueueAlternates, Alternating, LayerIsHeld, Anchored, PressResolved, Down
<1>2. CASE UNCHANGED <<unresolved, input_counts, release_map, current_keymap>>
  BY <1>1, <1>2 DEF Anchored, Down
<1>3. CASE \E kb \in Kbs : ReadEvent(kb)
  <2>1. UNCHANGED <<release_map, current_keymap>>
    BY <1>3 DEF ReadEvent
  <2>2. \A k \in Keys : Down(h, k, 0)' <=> Down(h, k, 0)
    BY <1>3, ReadEventKeeps
  <2> QED
    BY <1>1, <2>1, <2>2 DEF Anchored
<1>4. CASE Resolve
  <2> DEFINE g == resolving
  <2>1. g \in Grabs /\ UNCHANGED <<input_counts, status>>
    BY <1>4, ResolveCases
  <2>2. CASE UNCHANGED unresolved /\ UNCHANGED <<release_map, current_keymap>>
    BY <1>2, <2>1, <2>2
  <2>3. CASE /\ unresolved[g] # <<>>
             /\ \/ ResolvePress(g) \/ ResolveRelease(g)
                \/ ResolveRepeat(g) \/ ResolveOther(g) \/ KeepUnresolved(g)
    <3>1. CASE h = g
      <4>1. CASE ResolvePress(g)
        BY <1>1, <2>1, <2>3, <3>1, <4>1, PressAnchors
      <4>2. CASE ResolveRelease(g)
        BY <1>1, <2>1, <2>3, <3>1, <4>2, ReleaseAnchors
      <4>3. CASE ResolveRepeat(g) \/ ResolveOther(g)
        <5>1. current_keymap' = current_keymap
          BY <4>3 DEF ResolveRepeat, ResolveOther
        <5> QED
          BY <1>1, <2>1, <2>3, <3>1, <4>3, <5>1, PassAnchors
      <4>4. CASE KeepUnresolved(g)
        BY <1>1, <2>1, <2>3, <3>1, <4>4, KeepAnchors
      <4> QED
        BY <2>3, <4>1, <4>2, <4>3, <4>4
    <3>2. CASE h # g
      <4>1. unresolved'[h] = unresolved[h]
        BY <2>1, <2>3, <3>2
        DEF TypeOK, ResolvePress, ResolveRelease, ResolveRepeat, ResolveOther,
            KeepUnresolved, ReleaseEarly, ReturnTrue, DropOldest, DropNewest
      <4>2. /\ current_keymap'[h] = current_keymap[h]
            /\ release_map'[h] = release_map[h]
        BY <2>1, <2>3, <3>2
        DEF TypeOK, ResolvePress, DecideByAge, DecideTap, DecideHold,
            do_keypress, DoSimple, DoMacro, DoMap, RememberRelease,
            ResolveRelease, ResolveRepeat, ResolveOther, KeepUnresolved, ReleaseEarly
      <4> QED
        BY <1>1, <2>1, <4>1, <4>2 DEF Anchored, Down
    <3> QED
      BY <3>1, <3>2
  <2> QED
    BY <1>4, <2>2, <2>3, ResolveCases
<1>5. CASE (\E kb \in Kbs : Keyboard(kb)) \/ Tick \/ Send \/ UNCHANGED vars
  BY <1>2, <1>5 DEF Keyboard, Tick, Send, vars, resolverVars
<1> QED
  BY <1>3, <1>4, <1>5 DEF Next, Loop

\* With no TIMEOUT_ONLY key, a keyboard that is away from its root keymap always
\* has a key down whose release brings it back, so releasing every key leaves no
\* layer stuck (do_keypress, resolve_release, the early release in resolve).
THEOREM LayersCorrect ==
  ASSUME NoTimeoutOnly
  PROVE  Spec => []LayerIsHeld
<1>1. Init => LayerIsHeld
  BY DEF Init, LayerIsHeld
<1>2. TypeOK /\ QueueAlternates /\ LayerIsHeld /\ [Next]_vars => LayerIsHeld'
  BY NextLayerIsHeld
<1> QED
  BY <1>1, <1>2, TypeCorrect, QueueCorrect, PTL DEF Spec

-----------------------------------------------------------------------------
(* Modifiers outlast their chords                                          *)

ChordKept(g, k) ==
  \A i \in Waiting(unresolved[g], k) :
    (\A m \in Waiting(unresolved[g], k) : i <= m)
    => \A j \in 1..(i - 1) : ~IsPress(unresolved[g][j])

\* A modifier stops being down only when its release is the oldest event.
LEMMA NextModifiersOutlast ==
  ASSUME NoTimeoutOnly, TypeOK, QueueAlternates, [Next]_vars, status' = "running",
         NEW g \in Grabs, NEW k \in Keys,
         Down(g, k, 0), release_map[g][k] \in ModifierKeys, ~Down(g, k, 0)'
  PROVE  ChordKept(g, k)
<1>1. \A h \in Grabs, l \in Keys : Alternating(h, l)
  BY StatusNeverReturns DEF QueueAlternates, Alternating
<1>2. CASE UNCHANGED <<unresolved, input_counts>>
  BY <1>2 DEF Down
<1>3. CASE \E kb \in Kbs : ReadEvent(kb)
  BY <1>3, ReadEventKeeps
<1>4. CASE Resolve
  <2> DEFINE h == resolving
  <2>1. h \in Grabs /\ UNCHANGED <<input_counts, status>>
    BY <1>4, ResolveCases
  <2>2. CASE unresolved[h] # <<>> /\ ReturnTrue(h)
    <3>1. g = h /\ ~Down(g, k, 1)
      BY <2>1, <2>2, ReturnTrueKeeps
    <3>2. Moves(Oldest(g), k)
      BY <2>2, <3>1, OldestMoves
    <3>3. 1 \in Waiting(unresolved[g], k)
      <4>1. unresolved[g] \in Seq(TimedEvent) /\ Len(unresolved[g]) \in Nat \ {0}
        BY <2>2, <3>1, EmptySeq DEF TypeOK
      <4> QED
        BY <3>2, <4>1 DEF Waiting, Moves, Oldest
    <3>4. \A i \in Waiting(unresolved[g], k) : i \in Nat \ {0}
      BY DEF Waiting
    <3> QED
      BY <3>3, <3>4 DEF ChordKept
  <2>3. CASE unresolved[h] # <<>> /\ KeepUnresolved(h)
    <3>1. g = h /\ Newest(h).code = k /\ IsRelease(Newest(h)) /\ DropNewest(h)
      BY <1>1, <2>1, <2>3, KeepUnresolvedKeeps
    <3>2. ~StaysQueued(release_map[h][Newest(h).code]) \/ UNCHANGED unresolved
      BY <2>3, <3>1, KeysAssumption
      DEF KeepUnresolved, ReleaseEarly, StaysQueued, RESET_KEYMAP, KEY_MAX
    <3> QED
      BY <1>2, <2>1, <3>1, <3>2 DEF StaysQueued
  <2> QED
    BY <1>2, <1>4, <2>1, <2>2, <2>3, ResolveCases
<1>5. CASE (\E kb \in Kbs : Keyboard(kb)) \/ Tick \/ Send \/ UNCHANGED vars
  BY <1>2, <1>5 DEF Keyboard, Tick, Send, vars, resolverVars
<1> QED
  BY <1>3, <1>4, <1>5 DEF Next, Loop

\* With no TIMEOUT_ONLY key, a key pressed while a modifier is down is sent before
\* the modifier is released: the release never overtakes a press that came before
\* it ("modifier keys don't get resolved early", resolver.c:317).
THEOREM ChordsCorrect ==
  ASSUME NoTimeoutOnly
  PROVE  Spec => ModifiersOutlastChords
<1>1. TypeOK /\ QueueAlternates /\ [Next]_vars =>
        \A g \in Grabs, k \in Keys :
          (/\ status' = "running"
           /\ PressResolved(g, k) /\ release_map[g][k] \in ModifierKeys
           /\ ~PressResolved(g, k)')
          => \A i \in Waiting(unresolved[g], k) :
               (\A m \in Waiting(unresolved[g], k) : i <= m)
               => \A j \in 1..(i - 1) : ~IsPress(unresolved[g][j])
  BY NextModifiersOutlast DEF ChordKept, PressResolved, Down
<1> QED
  BY <1>1, TypeCorrect, QueueCorrect, PTL DEF Spec, ModifiersOutlastChords

=============================================================================
