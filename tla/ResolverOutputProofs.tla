------------------------ MODULE ResolverOutputProofs ------------------------
(***************************************************************************)
(* Nothing gets stuck: every code that is held on the way out is held by   *)
(* the keys that were resolved to it; and the resolvers and send_dedup()   *)
(* implement KeyHolds.  The theorems are about configurations with no      *)
(* TIMEOUT_ONLY key and no key that is a macro in one place and an         *)
(* ordinary key in another; of both, a run of TLC shows that they break    *)
(* the promises of the resolver.                                           *)
(***************************************************************************)
EXTENDS ResolverProofs, FiniteSetTheorems

-----------------------------------------------------------------------------
(* What a key may do                                                       *)

\* the actions that a key may be resolved to, in any keymap
ActionsOf(k) == UNION {Holds!Meanings(KeymapOf[m][k]) : m \in Keymaps}

\* No key is released early and then does a macro, which would leave the code of the
\* early release in release_map (DoMacro): a key that may be a macro may otherwise be
\* a keymap key, or a modifier, which is not released early.
MacroKeysAreNoOthers ==
  \A k \in Keys : \A a, b \in ActionsOf(k) :
    (a.type = "MACRO" /\ b.type = "SIMPLE") => b.simple \in ModifierKeys \cup {0}

\* no macro leaves a key down (of every configuration, as KeymapsProofs shows)
MacrosAreClosed ==
  \A k \in Keys : \A a \in ActionsOf(k) : a.type = "MACRO" => LeavesNothingDown(a.macro)

-----------------------------------------------------------------------------
(* What the sends still to be run will do to a count                       *)

PressesCode(ev, c)  == IsPress(ev) /\ ev.code = c
ReleasesCode(ev, c) == IsRelease(ev) /\ ev.code = c

\* From n sources that hold c, the events of s lead to m, and none of them releases
\* c when nobody holds it.
Leads(s, c, n, m) ==
  \E count \in [0..Len(s) -> Nat] :
    /\ count[0] = n /\ count[Len(s)] = m
    /\ \A i \in 1..Len(s) :
         count[i] + Num(ReleasesCode(s[i], c)) = count[i - 1] + Num(PressesCode(s[i], c))

\* No events count nothing.
LEMMA LeadsNowhere ==
  ASSUME NEW c, NEW n \in Nat, NEW m
  PROVE  Leads(<<>>, c, n, m) <=> m = n
<1>1. CASE m = n
  <2> DEFINE count == [i \in 0..0 |-> n]
  <2>1. count \in [0..Len(<<>>) -> Nat] /\ count[0] = n
    OBVIOUS
  <2> HIDE DEF count
  <2> QED
    BY <1>1, <2>1 DEF Leads
<1>2. CASE m # n
  BY <1>2 DEF Leads
<1> QED
  BY <1>1, <1>2

\* One event counts as the press or the release it is.
LEMMA LeadsByOne ==
  ASSUME NEW c, NEW n \in Nat, NEW m \in Nat, NEW ev,
         m + Num(ReleasesCode(ev, c)) = n + Num(PressesCode(ev, c))
  PROVE  Leads(<<ev>>, c, n, m)
<1> DEFINE count == [i \in 0..1 |-> IF i = 0 THEN n ELSE m]
<1>1. count \in [0..1 -> Nat] /\ count[0] = n /\ count[1] = m
  OBVIOUS
<1> HIDE DEF count
<1>2. Len(<<ev>>) = 1 /\ <<ev>>[1] = ev
  OBVIOUS
<1>3. \A i \in 1..1 : i = 1
  OBVIOUS
<1> QED
  BY <1>1, <1>2, <1>3 DEF Leads

\* the EV_SYN after a release leaves the counts alone
LEMMA LeadsWithSyn ==
  ASSUME NEW c, NEW n \in Nat, NEW m \in Nat, NEW ev,
         m + Num(ReleasesCode(ev, c)) = n + Num(PressesCode(ev, c))
  PROVE  Leads(<<ev, SynEvent>>, c, n, m)
<1> DEFINE count == [i \in 0..2 |-> IF i = 0 THEN n ELSE m]
<1>1. count \in [0..2 -> Nat] /\ count[0] = n /\ count[1] = m /\ count[2] = m
  OBVIOUS
<1> HIDE DEF count
<1>2. Len(<<ev, SynEvent>>) = 2 /\ <<ev, SynEvent>>[1] = ev /\ <<ev, SynEvent>>[2] = SynEvent
  OBVIOUS
<1>3. \A i \in 1..2 : i = 1 \/ i = 2
  OBVIOUS
<1>4. Num(ReleasesCode(SynEvent, c)) = 0 /\ Num(PressesCode(SynEvent, c)) = 0
  BY DEF Num, ReleasesCode, PressesCode, SynEvent, IsPress, IsRelease
<1>5. m + 0 = m
  OBVIOUS
<1> QED
  BY <1>1, <1>2, <1>3, <1>4, <1>5 DEF Leads

\* A macro ends with the counts it began with.
LEMMA LeadsBack ==
  ASSUME NEW macro \in Seq([code : Codes, press : BOOLEAN]), LeavesNothingDown(macro),
         NEW c \in Keys, NEW n \in Nat
  PROVE  Leads(MacroSends(macro), c, n, n)
<1> DEFINE s == MacroSends(macro)
           l == Len(macro)
<1>1. PICK down \in [0..l -> Nat] :
        /\ down[0] = 0 /\ down[l] = 0
        /\ \A i \in 1..l :
             down[i] + Num(macro[i].code = c /\ ~macro[i].press)
               = down[i - 1] + Num(macro[i].code = c /\ macro[i].press)
  BY DEF LeavesNothingDown
<1>2. l \in Nat
  OBVIOUS
<1> DEFINE count == [i \in 0..(2 * l) |-> n + down[(i + 1) \div 2]]
<1>3. \A i \in 0..(2 * l) : (i + 1) \div 2 \in 0..l
  BY <1>2
<1>4. count \in [0..(2 * l) -> Nat]
  BY <1>1, <1>3
<1>5. count[0] = n /\ count[2 * l] = n
  <2>1. (0 + 1) \div 2 = 0 /\ (2 * l + 1) \div 2 = l /\ 0 \in 0..(2 * l) /\ 2 * l \in 0..(2 * l)
    BY <1>2
  <2>2. count[0] = n + down[0] /\ count[2 * l] = n + down[l]
    BY <2>1
  <2> HIDE DEF count, l
  <2> QED
    BY <1>1, <2>2
<1>6. s \in Seq(Event) /\ Len(s) = 2 * l
  BY <1>2, MacroSendsEvents DEF MacroSends
<1>7. ASSUME NEW i \in 1..(2 * l)
      PROVE  count[i] + Num(ReleasesCode(s[i], c)) = count[i - 1] + Num(PressesCode(s[i], c))
  <2>1. i \in 0..(2 * l) /\ i - 1 \in 0..(2 * l) /\ i \in Nat
    BY <1>2
  <2>2. count[i] = n + down[(i + 1) \div 2] /\ count[i - 1] = n + down[i \div 2]
    BY <2>1
  <2>3. CASE i % 2 = 1
    <3> DEFINE j == (i + 1) \div 2
    <3>1. j \in 1..l /\ i \div 2 = j - 1
      BY <2>1, <2>3, <1>2
    <3>2. s[i] = KeyEvent(macro[j].code, IF macro[j].press THEN 1 ELSE 0)
      BY <2>3 DEF MacroSends
    <3>3. macro[j].press \in BOOLEAN
      <4> HIDE DEF j
      <4>1. macro[j] \in [code : Codes, press : BOOLEAN]
        BY <3>1, ElementOfSeq
      <4> QED
        BY <4>1
    <3>4. /\ ReleasesCode(s[i], c) <=> (macro[j].code = c /\ ~macro[j].press)
          /\ PressesCode(s[i], c) <=> (macro[j].code = c /\ macro[j].press)
      <4> HIDE DEF s, j
      <4> QED
        BY <3>2, <3>3 DEF ReleasesCode, PressesCode, KeyEvent, IsPress, IsRelease
    <3>5. /\ Num(ReleasesCode(s[i], c)) = Num(macro[j].code = c /\ ~macro[j].press)
          /\ Num(PressesCode(s[i], c)) = Num(macro[j].code = c /\ macro[j].press)
      <4> HIDE DEF s, j
      <4> QED
        BY <3>4 DEF Num
    <3> HIDE DEF s, count
    <3>6. count[i] = n + down[j] /\ count[i - 1] = n + down[j - 1]
      BY <2>2, <3>1
    <3> HIDE DEF j
    <3>7. down[j] \in Nat /\ down[j - 1] \in Nat
      <4>1. j \in 0..l /\ j - 1 \in 0..l
        BY <1>2, <3>1
      <4> QED
        BY <1>1, <4>1
    <3>8. PICK a \in Nat, b \in Nat : a = down[j] /\ b = down[j - 1]
      BY <3>7
    <3>9. PICK r \in Nat, p \in Nat :
            r = Num(ReleasesCode(s[i], c)) /\ p = Num(PressesCode(s[i], c))
      BY DEF Num
    <3>10. a + r = b + p
      BY <1>1, <3>1, <3>5, <3>8, <3>9, Zenon
    <3>11. (n + a) + r = (n + b) + p
      BY <3>10
    <3> QED
      BY <3>6, <3>8, <3>9, <3>11, Zenon
  <2>4. CASE i % 2 # 1
    <3>1. (i + 1) \div 2 = i \div 2
      BY <2>1, <2>4
    <3>2. s[i] = SynEvent
      BY <2>4 DEF MacroSends
    <3>3. Num(ReleasesCode(s[i], c)) = 0 /\ Num(PressesCode(s[i], c)) = 0
      <4> HIDE DEF s
      <4> QED
        BY <3>2 DEF Num, ReleasesCode, PressesCode, SynEvent, IsPress, IsRelease
    <3>4. count[i] = count[i - 1] /\ count[i] \in Nat
      BY <1>4, <2>1, <2>2, <3>1
    <3> HIDE DEF s, count
    <3> QED
      BY <3>3, <3>4
  <2> QED
    BY <2>3, <2>4
<1> HIDE DEF count, s
<1> QED
  BY <1>4, <1>5, <1>6, <1>7 DEF Leads, s

\* send_dedup() counts as foreseen, and never drops a release of c.
LEMMA LeadsOn ==
  ASSUME TypeOK, NEW s \in Seq(Event), s # <<>>, NEW c \in Keys, NEW m,
         Leads(s, c, press_count_map[c], m), send_dedup(Head(s))
  PROVE  Leads(Tail(s), c, press_count_map'[c], m)
<1> DEFINE t  == Tail(s)
           ev == Head(s)
           n  == press_count_map[c]
<1>1. /\ Len(s) \in Nat \ {0} /\ Len(t) = Len(s) - 1 /\ Len(t) \in Nat /\ s[1] = ev
      /\ \A i \in 1..Len(t) : t[i] = s[i + 1]
  BY EmptySeq, HeadTailProperties
<1>2. ev \in Event /\ ev.code \in Codes
  <2>1. ev \in Event
    OBVIOUS
  <2> QED
    BY <2>1 DEF Event
<1>3. PICK count \in [0..Len(s) -> Nat] :
        /\ count[0] = n /\ count[Len(s)] = m
        /\ \A i \in 1..Len(s) :
             count[i] + Num(ReleasesCode(s[i], c)) = count[i - 1] + Num(PressesCode(s[i], c))
  BY DEF Leads
<1>4. count[1] + Num(ReleasesCode(ev, c)) = n + Num(PressesCode(ev, c)) /\ count[1] \in Nat
  <2>1. 1 \in 1..Len(s) /\ 1 - 1 = 0
    BY <1>1
  <2>2. count[1] + Num(ReleasesCode(s[1], c)) = count[1 - 1] + Num(PressesCode(s[1], c))
    BY <1>3, <2>1
  <2> QED
    BY <1>1, <1>3, <2>1, <2>2
<1>5. press_count_map \in [Codes -> Nat] /\ c \in Codes /\ n \in Nat
  BY DEF TypeOK, DedupTypeOK, Codes
<1> HIDE DEF t, ev
<1>6. press_count_map'[c] = count[1]
  <2>1. CASE ReleasesCode(ev, c)
    <3>1. ~PressesCode(ev, c) /\ IsRelease(ev) /\ ev.code = c /\ ~IsPress(ev)
      BY <2>1 DEF ReleasesCode, PressesCode, IsPress, IsRelease
    <3>2. n >= 1 /\ count[1] = n - 1
      BY <1>4, <1>5, <2>1, <3>1 DEF Num
    <3>3. press_count_map' = [press_count_map EXCEPT ![c] = n - 1]
      BY <1>5, <3>1, <3>2
      DEF send_dedup, DropRelease, SendRelease, SendPress, SendUncounted, SendSyn, IsRelease, ev
    <3> QED
      BY <1>5, <3>2, <3>3
  <2>2. CASE PressesCode(ev, c)
    <3>1. ~ReleasesCode(ev, c) /\ IsPress(ev) /\ ev.code = c
      BY <2>2 DEF ReleasesCode, PressesCode, IsPress, IsRelease
    <3>2. count[1] = n + 1
      BY <1>4, <1>5, <2>2, <3>1 DEF Num
    <3>3. press_count_map' = [press_count_map EXCEPT ![c] = n + 1]
      BY <1>5, <3>1
      DEF send_dedup, DropRelease, SendRelease, SendPress, SendUncounted, SendSyn, IsPress,
          IsRelease, ev
    <3> QED
      BY <1>5, <3>2, <3>3
  <2>3. CASE ~ReleasesCode(ev, c) /\ ~PressesCode(ev, c)
    <3>1. count[1] = n
      BY <1>4, <1>5, <2>3 DEF Num
    <3>2. press_count_map'[c] = press_count_map[c]
      BY <1>2, <1>5, <2>3
      DEF send_dedup, DropRelease, SendRelease, SendPress, SendUncounted, SendSyn,
          PressesCode, ReleasesCode, dedupVars, ev
    <3> QED
      BY <3>1, <3>2
  <2> QED
    BY <2>1, <2>2, <2>3
<1> DEFINE rest == [i \in 0..Len(t) |-> count[i + 1]]
<1>7. \A i \in 0..Len(t) : i + 1 \in 0..Len(s) /\ rest[i] = count[i + 1]
  BY <1>1
<1>8. rest \in [0..Len(t) -> Nat]
  BY <1>3, <1>7
<1>9. rest[0] = count[1] /\ rest[Len(t)] = m
  <2>1. 0 \in 0..Len(t) /\ Len(t) \in 0..Len(t) /\ Len(t) + 1 = Len(s) /\ 0 + 1 = 1
    BY <1>1
  <2> QED
    BY <1>3, <1>7, <2>1
<1>10. ASSUME NEW i \in 1..Len(t)
       PROVE  rest[i] + Num(ReleasesCode(t[i], c)) = rest[i - 1] + Num(PressesCode(t[i], c))
  <2>1. /\ i \in 0..Len(t) /\ i - 1 \in 0..Len(t) /\ (i - 1) + 1 = i /\ (i + 1) - 1 = i
        /\ i + 1 \in 1..Len(s)
    BY <1>1
  <2>2. rest[i] = count[i + 1] /\ rest[i - 1] = count[i] /\ t[i] = s[i + 1]
    BY <1>1, <1>7, <2>1
  <2> QED
    BY <1>3, <2>1, <2>2
<1> HIDE DEF rest
<1> QED
  BY <1>6, <1>8, <1>9, <1>10 DEF Leads, t

-----------------------------------------------------------------------------
(* The keys that hold a code                                               *)

\* the keys that are down and were resolved to c
Sources(c) ==
  {gk \in Grabs \X Keys : Down(gk[1], gk[2], 0) /\ release_map[gk[1]][gk[2]] = c}

\* The sources that can hold a code down can be counted.
LEMMA SourcesFinite ==
  ASSUME NEW c
  PROVE  /\ IsFiniteSet(Sources(c)) /\ Cardinality(Sources(c)) \in Nat
         /\ IsFiniteSet(Sources(c)') /\ Cardinality(Sources(c)') \in Nat
<1>1. IsFiniteSet(1..(KEY_MAX - 1))
  <2>1. 1 \in Int /\ KEY_MAX - 1 \in Int
    BY DEF KEY_MAX
  <2> QED
    BY <2>1, FS_Interval
<1>2. IsFiniteSet(Keys)
  BY <1>1, KeysAssumption, FS_Subset
<1>3. IsFiniteSet(Grabs \X Keys)
  BY <1>2, ResolverAssumption, FS_Product
<1>4. Sources(c) \subseteq Grabs \X Keys /\ Sources(c)' \subseteq Grabs \X Keys
  BY DEF Sources
<1> QED
  BY <1>3, <1>4, FS_Subset, FS_CardinalityType

\* two sets that differ in x at most
LEMMA ElementChanges ==
  ASSUME NEW S, NEW T, NEW x, IsFiniteSet(S), IsFiniteSet(T), S \ {x} = T \ {x}
  PROVE  Cardinality(T) + Num(x \in S) = Cardinality(S) + Num(x \in T)
<1>1. PICK a \in Nat, b \in Nat : a = Cardinality(S) /\ b = Cardinality(T)
  BY FS_CardinalityType
<1>2. /\ Cardinality(S \ {x}) = IF x \in S THEN a - 1 ELSE a
      /\ Cardinality(T \ {x}) = IF x \in T THEN b - 1 ELSE b
  BY <1>1, FS_RemoveElement
<1>3. (IF x \in S THEN a - 1 ELSE a) = (IF x \in T THEN b - 1 ELSE b)
  BY <1>2
<1>4. b + Num(x \in S) = a + Num(x \in T)
  BY <1>3 DEF Num
<1> QED
  BY <1>1, <1>4

\* If only key k of grab h changes, the sources of c lose what it was and gain what
\* it becomes.
LEMMA OneSourceChanges ==
  ASSUME NEW h \in Grabs, NEW k \in Keys, NEW c,
         \A g \in Grabs, l \in Keys : (g = h => l # k) =>
           /\ Down(g, l, 0)' <=> Down(g, l, 0)
           /\ release_map'[g][l] = release_map[g][l]
  PROVE  Cardinality(Sources(c)') + Num(Down(h, k, 0) /\ release_map[h][k] = c)
           = Cardinality(Sources(c)) + Num(Down(h, k, 0)' /\ release_map'[h][k] = c)
<1> DEFINE x == <<h, k>>
           S == Sources(c)
           T == Sources(c)'
<1>1. /\ x \in S <=> (Down(h, k, 0) /\ release_map[h][k] = c)
      /\ x \in T <=> (Down(h, k, 0)' /\ release_map'[h][k] = c)
  BY DEF Sources
<1>2. S \ {x} = T \ {x}
  <2>1. ASSUME NEW gk \in Grabs \X Keys, gk # x
        PROVE  gk \in S <=> gk \in T
    <3>1. gk[1] \in Grabs /\ gk[2] \in Keys /\ (gk[1] = h => gk[2] # k)
      BY <2>1
    <3> QED
      BY <3>1 DEF Sources
  <2>2. S \subseteq Grabs \X Keys /\ T \subseteq Grabs \X Keys
    BY DEF Sources
  <2> HIDE DEF S, T, x
  <2> QED
    BY <2>1, <2>2
<1>3. IsFiniteSet(S) /\ IsFiniteSet(T)
  BY SourcesFinite
<1> HIDE DEF S, T, x
<1>4. Cardinality(T) + Num(x \in S) = Cardinality(S) + Num(x \in T)
  BY <1>2, <1>3, ElementChanges
<1>5. /\ Num(x \in S) = Num(Down(h, k, 0) /\ release_map[h][k] = c)
      /\ Num(x \in T) = Num(Down(h, k, 0)' /\ release_map'[h][k] = c)
  BY <1>1 DEF Num
<1>6. Cardinality(T) + Num(Down(h, k, 0) /\ release_map[h][k] = c)
        = Cardinality(S) + Num(Down(h, k, 0)' /\ release_map'[h][k] = c)
  BY <1>4, <1>5
<1> QED
  BY <1>6 DEF S, T

-----------------------------------------------------------------------------
(* What each step does to the keys that are down, and to what they release *)

\* nothing but key k of grab h becomes down or up, or is to release another code
OnlyKeyChanges(h, k) ==
  \A g \in Grabs, l \in Keys : (g = h => l # k) =>
    /\ Down(g, l, 0)' <=> Down(g, l, 0)
    /\ release_map'[g][l] = release_map[g][l]

\* A press goes down as one of the actions of its key.
LEMMA PressTakes ==
  ASSUME TypeOK, NEW h \in Grabs, unresolved[h] # <<>>, ResolvePress(h),
         UNCHANGED input_counts, \A k \in Keys : Alternating(h, k)
  PROVE  \E k \in Keys : \E ka \in ActionsOf(k) \cap PlainAction :
           /\ ka \in Holds!Meanings(KeymapOf[current_keymap[h]][k])
           /\ k = Oldest(h).code /\ do_keypress(h, Oldest(h), ka)
           /\ ~Down(h, k, 0) /\ Down(h, k, 0)' /\ OnlyKeyChanges(h, k)
<1> DEFINE ev == Oldest(h)
<1>1. /\ ev \in TimedEvent /\ IsPress(ev) /\ ev.code \in Keys
      /\ ReturnTrue(h) /\ current_keymap[h] \in Keymaps
  BY DequeueTypeOK, TimedEventFields DEF ResolvePress, IsPress, TypeOK
<1>2. PICK k \in Keys : k = ev.code
  BY <1>1
<1>3. ~Down(h, k, 0) /\ Down(h, k, 0)'
  <2>1. Moves(ev, k)
    BY <1>1, <1>2 DEF Moves
  <2>2. ~Down(h, k, 0) /\ Down(h, k, 1)
    BY <1>1, <2>1, OldestMoves
  <2> QED
    BY <1>1, <2>2, ReturnTrueKeeps
<1> DEFINE a == key_action_get(current_keymap[h], ev.code)
<1>4. PICK ka \in Holds!Meanings(a) \cap PlainAction : do_keypress(h, ev, ka)
  <2>1. CASE a.type # "DUAL"
    BY <1>1, <2>1, ActionOfKey DEF ResolvePress, Holds!Meanings
  <2>2. CASE a.type = "DUAL"
    <3>1. a.tap \in PlainAction /\ a.hold \in PlainAction
      BY <1>1, <2>2, ActionOfKey, DualFields
    <3>2. do_keypress(h, ev, a.tap) \/ do_keypress(h, ev, a.hold)
      BY <2>2 DEF ResolvePress, DecideByAge, DecideTap, DecideHold
    <3> QED
      BY <2>2, <3>1, <3>2 DEF Holds!Meanings
  <2> QED
    BY <2>1, <2>2
<1>5. a = KeymapOf[current_keymap[h]][k]
  BY <1>2 DEF key_action_get
<1>6. ka \in ActionsOf(k)
  <2> HIDE DEF a
  <2> QED
    BY <1>1, <1>4, <1>5 DEF ActionsOf
<1>7. OnlyKeyChanges(h, k)
  <2> SUFFICES ASSUME NEW g \in Grabs, NEW l \in Keys, g = h => l # k
               PROVE  /\ Down(g, l, 0)' <=> Down(g, l, 0)
                      /\ release_map'[g][l] = release_map[g][l]
    BY DEF OnlyKeyChanges
  <2>1. Down(g, l, 0)' <=> Down(g, l, 0)
    BY <1>1, <1>2, OldestMoves, ReturnTrueKeeps DEF Moves
  <2>2. release_map \in [Grabs -> [Codes -> Codes \cup {RESET_KEYMAP}]] /\ l \in Codes
    BY DEF TypeOK, Codes
  <2>3. release_map'[g][l] = release_map[g][l]
    BY <1>2, <1>4, <2>2 DEF do_keypress, DoSimple, DoMacro, DoMap, RememberRelease
  <2> QED
    BY <2>1, <2>3
<1> QED
  BY <1>2, <1>3, <1>4, <1>5, <1>6, <1>7

\* A release takes up what its press turned into.
LEMMA ReleaseTakes ==
  ASSUME TypeOK, NEW h \in Grabs, unresolved[h] # <<>>, ResolveRelease(h),
         UNCHANGED input_counts, \A k \in Keys : Alternating(h, k)
  PROVE  \E k \in Keys :
           /\ k = Oldest(h).code /\ release_map'[h][k] = 0
           /\ Down(h, k, 0) /\ ~Down(h, k, 0)' /\ OnlyKeyChanges(h, k)
<1> DEFINE ev == Oldest(h)
<1>1. /\ IsRelease(ev) /\ ev.code \in Keys /\ ReturnTrue(h)
  BY DequeueTypeOK, TimedEventFields DEF ResolveRelease, IsRelease
<1>2. PICK k \in Keys : k = ev.code
  BY <1>1
<1>3. Down(h, k, 0) /\ ~Down(h, k, 0)'
  <2>1. Moves(ev, k)
    BY <1>1, <1>2 DEF Moves
  <2>2. Down(h, k, 0) /\ ~Down(h, k, 1)
    BY <1>1, <2>1, OldestMoves
  <2> QED
    BY <1>1, <2>2, ReturnTrueKeeps
<1>4. /\ release_map \in [Grabs -> [Codes -> Codes \cup {RESET_KEYMAP}]]
      /\ k \in Codes
      /\ release_map' = [release_map EXCEPT ![h][k] = 0]
  BY <1>2 DEF TypeOK, Codes, ResolveRelease
<1>5. OnlyKeyChanges(h, k)
  <2> SUFFICES ASSUME NEW g \in Grabs, NEW l \in Keys, g = h => l # k
               PROVE  /\ Down(g, l, 0)' <=> Down(g, l, 0)
                      /\ release_map'[g][l] = release_map[g][l]
    BY DEF OnlyKeyChanges
  <2>1. Down(g, l, 0)' <=> Down(g, l, 0)
    BY <1>1, <1>2, OldestMoves, ReturnTrueKeeps DEF Moves
  <2>2. release_map'[g][l] = release_map[g][l]
    BY <1>4 DEF Codes
  <2> QED
    BY <2>1, <2>2
<1> QED
  BY <1>2, <1>3, <1>4, <1>5

\* Repeats and events that are not keys leave every key as it is.
LEMMA PassTakes ==
  ASSUME TypeOK, NEW h \in Grabs, unresolved[h] # <<>>,
         ResolveRepeat(h) \/ ResolveOther(h), UNCHANGED input_counts
  PROVE  /\ UNCHANGED release_map
         /\ \A g \in Grabs, k \in Keys : Down(g, k, 0)' <=> Down(g, k, 0)
<1>1. ReturnTrue(h) /\ UNCHANGED release_map
  BY DEF ResolveRepeat, ResolveOther
<1>2. \A k \in Keys : ~Moves(Oldest(h), k)
  BY DEF ResolveRepeat, ResolveOther, Moves, IsPress, IsRelease
<1> QED
  BY <1>1, <1>2, OldestMoves, ReturnTrueKeeps

\* An early release is the release of a key that is down; anything else that goes
\* early, or nothing at all, leaves every key as it is.
LEMMA KeepTakes ==
  ASSUME NoTimeoutOnly, TypeOK, NEW h \in Grabs, unresolved[h] # <<>>,
         KeepUnresolved(h), UNCHANGED input_counts,
         \A g \in Grabs, k \in Keys : Alternating(g, k)
  PROVE  /\ UNCHANGED release_map
         /\ \/ /\ ~(IsRelease(Newest(h)) /\ DropNewest(h))
               /\ \A g \in Grabs, k \in Keys : Down(g, k, 0)' <=> Down(g, k, 0)
            \/ \E k \in Keys :
                 /\ k = Newest(h).code /\ IsRelease(Newest(h)) /\ DropNewest(h)
                 /\ Down(h, k, 0) /\ ~Down(h, k, 0)' /\ OnlyKeyChanges(h, k)
<1> DEFINE q == unresolved[h]
<1>1. /\ q \in Seq(TimedEvent) /\ Len(q) \in 1..Len(q) /\ Newest(h) = q[Len(q)]
      /\ Newest(h) \in TimedEvent
  BY EmptySeq, DequeueTypeOK DEF TypeOK, Newest
<1>2. UNCHANGED release_map
  BY DEF KeepUnresolved
<1>3. ASSUME NEW k \in Keys, k = Newest(h).code, IsRelease(Newest(h)), DropNewest(h)
      PROVE  Down(h, k, 0) /\ ~Down(h, k, 0)' /\ OnlyKeyChanges(h, k)
  <2>1. input_counts[h][k] \in Nat /\ Alternates(q, input_counts[h][k], k)
    BY DEF TypeOK, Alternating
  <2>2. Waiting(q, k) = {Len(q)}
    BY <1>3, <2>1, EarlyReleaseIsSole
  <2>3. unresolved'[h] = SubSeq(q, 1, Len(q) - 1)
    BY <1>3 DEF TypeOK, DropNewest
  <2>4. Down(h, k, 0) /\ ~Down(h, k, 0)'
    BY <1>1, <1>3, <2>1, <2>2, <2>3, DropSole DEF Down
  <2>5. \A g \in Grabs, l \in Keys : (g = h => l # k) => (Down(g, l, 0)' <=> Down(g, l, 0))
    BY <1>3, KeepUnresolvedKeeps
  <2> QED
    BY <1>2, <2>4, <2>5 DEF OnlyKeyChanges
<1>4. IsRelease(Newest(h)) => Newest(h).code \in Keys
  BY <1>1, TimedEventFields DEF IsRelease
<1>5. CASE IsRelease(Newest(h)) /\ DropNewest(h)
  <2>1. PICK k \in Keys : k = Newest(h).code
    BY <1>4, <1>5
  <2> QED
    BY <1>2, <1>3, <1>5, <2>1
<1>6. CASE ~(IsRelease(Newest(h)) /\ DropNewest(h))
  BY <1>2, <1>6, KeepUnresolvedKeeps
<1> QED
  BY <1>5, <1>6

-----------------------------------------------------------------------------
(* The invariant                                                           *)

\* what release_map has to release is what its key may be resolved to
ReleasesAreActions ==
  \A g \in Grabs, k \in Keys : release_map[g][k] \in Keys =>
    \E a \in ActionsOf(k) : a.type = "SIMPLE" /\ a.simple = release_map[g][k]

\* what release_map still says of a key that was released early is not a modifier
ModifiersAreDown ==
  \A g \in Grabs, k \in Keys : release_map[g][k] \in ModifierKeys => Down(g, k, 0)

\* the sends that are left bring every count to the number of keys that hold the code
CodesAddUp ==
  \A c \in Keys : Leads(sends, c, press_count_map[c], Cardinality(Sources(c)))

AddsUp == ReleasesAreActions /\ ModifiersAreDown /\ CodesAddUp

OutputInv == status = "running" => AddsUp

\* A key that does a macro has nothing left to release, not even from a release that
\* came early.
LEMMA MacroHoldsNothing ==
  ASSUME MacroKeysAreNoOthers, ReleasesAreActions, ModifiersAreDown,
         NEW g \in Grabs, NEW k \in Keys, ~Down(g, k, 0),
         NEW ka \in ActionsOf(k), ka.type = "MACRO"
  PROVE  release_map[g][k] \notin Keys
<1> SUFFICES ASSUME release_map[g][k] \in Keys PROVE FALSE
  OBVIOUS
<1>1. PICK a \in ActionsOf(k) : a.type = "SIMPLE" /\ a.simple = release_map[g][k]
  BY DEF ReleasesAreActions
<1>2. a.simple \in ModifierKeys \cup {0}
  BY <1>1 DEF MacroKeysAreNoOthers
<1>3. a.simple # 0
  BY <1>1, KeysAssumption
<1> QED
  BY <1>1, <1>2, <1>3 DEF ModifiersAreDown

\* before a call of resolve() nothing is left to send
LEMMA NothingToSend ==
  ASSUME TypeOK, CodesAddUp, sends = <<>>, NEW c \in Keys
  PROVE  press_count_map[c] \in Nat /\ Cardinality(Sources(c)) = press_count_map[c]
<1>1. press_count_map[c] \in Nat
  BY DEF TypeOK, DedupTypeOK, Codes
<1>2. Leads(<<>>, c, press_count_map[c], Cardinality(Sources(c)))
  BY DEF CodesAddUp
<1> QED
  BY <1>1, <1>2, LeadsNowhere

\* One event is sent, or none, by a step that changes one key: if the event presses c
\* as the key comes to hold c, and releases c as the key ceases to, the count is right.
LEMMA OneKeyOneEvent ==
  ASSUME TypeOK, CodesAddUp, sends = <<>>, UNCHANGED press_count_map,
         NEW h \in Grabs, NEW k \in Keys, OnlyKeyChanges(h, k), NEW c \in Keys,
         NEW ev,
         PressesCode(ev, c) <=> (Down(h, k, 0)' /\ release_map'[h][k] = c),
         ReleasesCode(ev, c) <=> (Down(h, k, 0) /\ release_map[h][k] = c)
  PROVE  /\ sends' = <<ev>> => Leads(sends', c, press_count_map'[c], Cardinality(Sources(c)'))
         /\ sends' = <<ev, SynEvent>> =>
              Leads(sends', c, press_count_map'[c], Cardinality(Sources(c)'))
<1>1. PICK n \in Nat, m \in Nat : n = Cardinality(Sources(c)) /\ m = Cardinality(Sources(c)')
  BY SourcesFinite
<1>2. press_count_map'[c] = n
  BY <1>1, NothingToSend
<1>3. m + Num(Down(h, k, 0) /\ release_map[h][k] = c)
        = n + Num(Down(h, k, 0)' /\ release_map'[h][k] = c)
  BY <1>1, OneSourceChanges DEF OnlyKeyChanges
<1>4. /\ Num(ReleasesCode(ev, c)) = Num(Down(h, k, 0) /\ release_map[h][k] = c)
      /\ Num(PressesCode(ev, c)) = Num(Down(h, k, 0)' /\ release_map'[h][k] = c)
  BY DEF Num
<1>5. m + Num(ReleasesCode(ev, c)) = n + Num(PressesCode(ev, c))
  BY <1>3, <1>4
<1> QED
  BY <1>1, <1>2, <1>5, LeadsByOne, LeadsWithSyn

\* a step that sends nothing of c, and after which the same keys hold c
LEMMA SameKeysHold ==
  ASSUME TypeOK, CodesAddUp, sends = <<>>, UNCHANGED press_count_map, NEW c \in Keys,
         Cardinality(Sources(c)') = Cardinality(Sources(c))
  PROVE  /\ sends' = <<>> => Leads(sends', c, press_count_map'[c], Cardinality(Sources(c)'))
         /\ \A ev : sends' = <<ev>> /\ ~PressesCode(ev, c) /\ ~ReleasesCode(ev, c) =>
              Leads(sends', c, press_count_map'[c], Cardinality(Sources(c)'))
         /\ \A ev : sends' = <<ev, SynEvent>> /\ ~PressesCode(ev, c) /\ ~ReleasesCode(ev, c) =>
              Leads(sends', c, press_count_map'[c], Cardinality(Sources(c)'))
         /\ \A macro \in Seq([code : Codes, press : BOOLEAN]) :
              LeavesNothingDown(macro) /\ sends' = MacroSends(macro) =>
                Leads(sends', c, press_count_map'[c], Cardinality(Sources(c)'))
<1>1. PICK n \in Nat : n = Cardinality(Sources(c)') /\ n = press_count_map'[c]
  BY NothingToSend
<1>2. \A ev : ~PressesCode(ev, c) /\ ~ReleasesCode(ev, c) =>
        n + Num(ReleasesCode(ev, c)) = n + Num(PressesCode(ev, c))
  BY DEF Num
<1>3. Leads(<<>>, c, n, n)
  BY LeadsNowhere
<1>4. ASSUME NEW ev, ~PressesCode(ev, c), ~ReleasesCode(ev, c)
      PROVE  Leads(<<ev>>, c, n, n) /\ Leads(<<ev, SynEvent>>, c, n, n)
  BY <1>2, <1>4, LeadsByOne, LeadsWithSyn
<1>5. \A macro \in Seq([code : Codes, press : BOOLEAN]) :
        LeavesNothingDown(macro) => Leads(MacroSends(macro), c, n, n)
  BY LeadsBack
<1> QED
  BY <1>1, <1>3, <1>4, <1>5

-----------------------------------------------------------------------------
(* The cases of resolve()                                                  *)

\* the two values of release_map that are no keys (resolver.h:14)
LEMMA ResetIsNoKey ==
  /\ RESET_KEYMAP \notin Keys /\ RESET_KEYMAP \notin ModifierKeys
  /\ 0 \notin Keys /\ 0 \notin ModifierKeys
BY KeysAssumption DEF RESET_KEYMAP, KEY_MAX

\* what resolve() finds
ResolvesAt(h) ==
  /\ TypeOK /\ h \in Grabs /\ unresolved[h] # <<>> /\ sends = <<>>
  /\ \A g \in Grabs, k \in Keys : Alternating(g, k)
  /\ ReleasesAreActions /\ ModifiersAreDown /\ CodesAddUp
  /\ UNCHANGED <<input_counts, press_count_map>>

\* A press that is resolved sends what its key then holds down (do_keypress).
LEMMA PressAddsUp ==
  ASSUME MacroKeysAreNoOthers, MacrosAreClosed, NEW h, ResolvesAt(h), ResolvePress(h)
  PROVE  AddsUp'
<1> DEFINE ev == Oldest(h)
<1> USE DEF ResolvesAt
<1>0. PICK k \in Keys : \E ka \in ActionsOf(k) \cap PlainAction :
        /\ k = ev.code /\ do_keypress(h, ev, ka)
        /\ ~Down(h, k, 0) /\ Down(h, k, 0)' /\ OnlyKeyChanges(h, k)
  BY PressTakes
<1>1. PICK ka \in ActionsOf(k) \cap PlainAction :
        /\ k = ev.code /\ do_keypress(h, ev, ka)
        /\ ~Down(h, k, 0) /\ Down(h, k, 0)' /\ OnlyKeyChanges(h, k)
  BY <1>0
<1>2. /\ release_map \in [Grabs -> [Codes -> Codes \cup {RESET_KEYMAP}]]
      /\ k \in Codes /\ RESET_KEYMAP \notin Keys /\ RESET_KEYMAP \notin ModifierKeys
  BY ResetIsNoKey DEF TypeOK, Codes
<1>3. \A g \in Grabs, l \in Keys : (g = h => l # k) =>
        /\ Down(g, l, 0)' <=> Down(g, l, 0)
        /\ release_map'[g][l] = release_map[g][l]
  BY <1>1 DEF OnlyKeyChanges
<1>4. ModifiersAreDown'
  BY <1>1, <1>3 DEF ModifiersAreDown
<1>5. CASE DoSimple(h, ev, ka)
  <2>1. /\ release_map'[h][k] = ka.simple /\ ka.type = "SIMPLE"
        /\ sends' = <<KeyEvent(ka.simple, 1)>>
    BY <1>1, <1>2, <1>5 DEF DoSimple, RememberRelease
  <2>2. ReleasesAreActions'
    BY <1>1, <1>3, <2>1 DEF ReleasesAreActions
  <2>3. ASSUME NEW c \in Keys
        PROVE  /\ PressesCode(KeyEvent(ka.simple, 1), c) <=>
                    (Down(h, k, 0)' /\ release_map'[h][k] = c)
               /\ ReleasesCode(KeyEvent(ka.simple, 1), c) <=>
                    (Down(h, k, 0) /\ release_map[h][k] = c)
    BY <1>1, <2>1 DEF PressesCode, ReleasesCode, KeyEvent, IsPress, IsRelease
  <2>4. CodesAddUp'
    BY <1>1, <2>1, <2>3, OneKeyOneEvent DEF CodesAddUp
  <2> QED
    BY <1>4, <2>2, <2>4 DEF AddsUp
<1>6. CASE DoMacro(ka)
  <2>1. /\ ka.type = "MACRO" /\ sends' = MacroSends(ka.macro) /\ UNCHANGED release_map
        /\ ka.macro \in Seq([code : Codes, press : BOOLEAN])
    BY <1>1, <1>6 DEF DoMacro, PlainAction, SimpleAction, MacroAction, MapAction
  <2>2. ReleasesAreActions'
    BY <2>1 DEF ReleasesAreActions
  <2>3. release_map[h][k] \notin Keys /\ release_map'[h][k] \notin Keys
    BY <1>1, <2>1, MacroHoldsNothing
  <2>4. ASSUME NEW c \in Keys
        PROVE  Cardinality(Sources(c)') = Cardinality(Sources(c))
    <3>1. Sources(c)' = Sources(c)
      BY <1>3, <2>3 DEF Sources
    <3> QED
      BY <3>1
  <2>5. LeavesNothingDown(ka.macro)
    BY <1>1, <2>1 DEF MacrosAreClosed
  <2>6. CodesAddUp'
    BY <2>1, <2>4, <2>5, SameKeysHold DEF CodesAddUp
  <2> QED
    BY <1>4, <2>2, <2>6 DEF AddsUp
<1>7. CASE DoMap(h, ev, ka)
  <2>1. release_map'[h][k] = RESET_KEYMAP /\ sends' = <<>>
    BY <1>1, <1>2, <1>7 DEF DoMap, RememberRelease
  <2>2. ReleasesAreActions'
    BY <1>2, <1>3, <2>1 DEF ReleasesAreActions
  <2>3. ASSUME NEW c \in Keys
        PROVE  Cardinality(Sources(c)') = Cardinality(Sources(c))
    <3>1. Sources(c)' = Sources(c)
      BY <1>1, <1>2, <1>3, <2>1 DEF Sources
    <3> QED
      BY <3>1
  <2>4. CodesAddUp'
    BY <2>1, <2>3, SameKeysHold DEF CodesAddUp
  <2> QED
    BY <1>4, <2>2, <2>4 DEF AddsUp
<1> QED
  BY <1>1, <1>5, <1>6, <1>7 DEF do_keypress

\* A release that is resolved takes away what its press has added (do_keyrelease).
LEMMA ReleaseAddsUp ==
  ASSUME NEW h, ResolvesAt(h), ResolveRelease(h)
  PROVE  AddsUp'
<1> DEFINE ev == Oldest(h)
<1> USE DEF ResolvesAt
<1>1. PICK k \in Keys :
        /\ k = ev.code /\ release_map'[h][k] = 0
        /\ Down(h, k, 0) /\ ~Down(h, k, 0)' /\ OnlyKeyChanges(h, k)
  BY ReleaseTakes
<1>2. 0 \notin Keys /\ 0 \notin ModifierKeys /\ RESET_KEYMAP \notin Keys
  BY ResetIsNoKey
<1>3. \A g \in Grabs, l \in Keys : (g = h => l # k) =>
        /\ Down(g, l, 0)' <=> Down(g, l, 0)
        /\ release_map'[g][l] = release_map[g][l]
  BY <1>1 DEF OnlyKeyChanges
<1>4. ModifiersAreDown' /\ ReleasesAreActions'
  BY <1>1, <1>2, <1>3 DEF ModifiersAreDown, ReleasesAreActions
<1> DEFINE code == release_map[h][k]
<1>5. CASE code \in {0, RESET_KEYMAP}
  <2>1. sends' = <<>>
    BY <1>1, <1>5 DEF ResolveRelease
  <2>2. ASSUME NEW c \in Keys
        PROVE  Cardinality(Sources(c)') = Cardinality(Sources(c))
    <3>1. Sources(c)' = Sources(c)
      BY <1>1, <1>2, <1>3, <1>5 DEF Sources
    <3> QED
      BY <3>1
  <2>3. CodesAddUp'
    BY <2>1, <2>2, SameKeysHold DEF CodesAddUp
  <2> QED
    BY <1>4, <2>3 DEF AddsUp
<1>6. CASE code \notin {0, RESET_KEYMAP}
  <2>1. sends' = <<KeyEvent(code, 0)>>
    BY <1>1, <1>6 DEF ResolveRelease
  <2>2. ASSUME NEW c \in Keys
        PROVE  /\ PressesCode(KeyEvent(code, 0), c) <=>
                    (Down(h, k, 0)' /\ release_map'[h][k] = c)
               /\ ReleasesCode(KeyEvent(code, 0), c) <=>
                    (Down(h, k, 0) /\ release_map[h][k] = c)
    BY <1>1 DEF PressesCode, ReleasesCode, KeyEvent, IsPress, IsRelease
  <2>3. CodesAddUp'
    BY <1>1, <2>1, <2>2, OneKeyOneEvent DEF CodesAddUp
  <2> QED
    BY <1>4, <2>3 DEF AddsUp
<1> QED
  BY <1>5, <1>6

\* Repeats, and what is not a key, count nothing.
LEMMA PassAddsUp ==
  ASSUME NEW h, ResolvesAt(h), ResolveRepeat(h) \/ ResolveOther(h)
  PROVE  AddsUp'
<1> USE DEF ResolvesAt
<1>1. /\ UNCHANGED release_map
      /\ \A g \in Grabs, k \in Keys : Down(g, k, 0)' <=> Down(g, k, 0)
  BY PassTakes
<1>2. ModifiersAreDown' /\ ReleasesAreActions'
  BY <1>1 DEF ModifiersAreDown, ReleasesAreActions
<1>3. ASSUME NEW c \in Keys
      PROVE  Cardinality(Sources(c)') = Cardinality(Sources(c))
  <2>1. Sources(c)' = Sources(c)
    BY <1>1 DEF Sources
  <2> QED
    BY <2>1
<1>4. \/ sends' = <<>>
      \/ \E ev : sends' = <<ev>> /\ \A c \in Keys : ~PressesCode(ev, c) /\ ~ReleasesCode(ev, c)
  <2>1. CASE ResolveRepeat(h)
    <3>1. \A code : LET e == KeyEvent(code, 2) IN
            \A c \in Keys : ~PressesCode(e, c) /\ ~ReleasesCode(e, c)
      BY DEF PressesCode, ReleasesCode, KeyEvent, IsPress, IsRelease
    <3> QED
      BY <2>1, <3>1 DEF ResolveRepeat
  <2>2. CASE ResolveOther(h)
    <3> DEFINE o == Oldest(h)
               e == [type |-> o.type, code |-> o.code, value |-> o.value]
    <3>1. e.type # "EV_KEY" /\ sends' = <<e>>
      BY <2>2 DEF ResolveOther, PassThrough
    <3> HIDE DEF e
    <3>2. \A c \in Keys : ~PressesCode(e, c) /\ ~ReleasesCode(e, c)
      BY <3>1 DEF PressesCode, ReleasesCode, IsPress, IsRelease
    <3> QED
      BY <3>1, <3>2
  <2> QED
    BY <2>1, <2>2
<1>5. CodesAddUp'
  BY <1>3, <1>4, SameKeysHold DEF CodesAddUp
<1> QED
  BY <1>2, <1>5 DEF AddsUp

\* A key that waits to be resolved adds nothing, and an early release what it takes.
LEMMA KeepAddsUp ==
  ASSUME NoTimeoutOnly, NEW h, ResolvesAt(h), KeepUnresolved(h)
  PROVE  AddsUp'
<1> DEFINE ev   == Newest(h)
           code == release_map[h][ev.code]
           e    == [type |-> ev.type, code |-> code, value |-> 0]
<1> USE DEF ResolvesAt
<1>1. UNCHANGED release_map
  BY DEF KeepUnresolved
<1>2. ReleasesAreActions'
  BY <1>1 DEF ReleasesAreActions
<1>3. /\ ev \in TimedEvent /\ unresolved[h] \in Seq(TimedEvent)
      /\ RESET_KEYMAP \notin Keys /\ RESET_KEYMAP \notin ModifierKeys
  BY DequeueTypeOK, ResetIsNoKey DEF TypeOK
\* nobody goes up unless his release is sent, or was of a keymap key
<1>4. \/ sends' = <<>> /\ UNCHANGED unresolved
      \/ sends' = <<>> /\ DropNewest(h) /\ code = RESET_KEYMAP
      \/ sends' = <<e, SynEvent>> /\ DropNewest(h) /\ code \notin ModifierKeys
  BY DEF KeepUnresolved, ReleaseEarly, StaysQueued
<1>5. CASE /\ ~(IsRelease(ev) /\ DropNewest(h))
           /\ \A g \in Grabs, k \in Keys : Down(g, k, 0)' <=> Down(g, k, 0)
  <2>1. ModifiersAreDown'
    BY <1>1, <1>5 DEF ModifiersAreDown
  <2>2. ASSUME NEW c \in Keys
        PROVE  Cardinality(Sources(c)') = Cardinality(Sources(c))
    <3>1. Sources(c)' = Sources(c)
      BY <1>1, <1>5 DEF Sources
    <3> QED
      BY <3>1
  <2>3. CASE sends' = <<>>
    <3>1. CodesAddUp'
      BY <2>2, <2>3, SameKeysHold DEF CodesAddUp
    <3> QED
      BY <1>2, <2>1, <3>1 DEF AddsUp
  <2>4. CASE sends' = <<e, SynEvent>> /\ DropNewest(h)
    <3>1. ev.value = 0 \/ UNCHANGED unresolved
      BY DEF KeepUnresolved, ReleaseEarly
    <3>2. ev.value = 0
      <4>1. SubSeq(unresolved[h], 1, Len(unresolved[h]) - 1) # unresolved[h]
        BY <1>3, DropLast
      <4> QED
        BY <2>4, <3>1, <4>1 DEF DropNewest, TypeOK
    <3>3. e.type = ev.type /\ e.type # "EV_KEY"
      BY <1>5, <2>4, <3>2 DEF IsRelease
    <3> HIDE DEF e
    <3>4. \A c \in Keys : ~PressesCode(e, c) /\ ~ReleasesCode(e, c)
      BY <3>3 DEF PressesCode, ReleasesCode, IsPress, IsRelease
    <3>5. CodesAddUp'
      BY <2>2, <2>4, <3>4, SameKeysHold DEF CodesAddUp
    <3> QED
      BY <1>2, <2>1, <3>5 DEF AddsUp
  <2> QED
    BY <1>4, <2>3, <2>4
<1>6. ASSUME NEW k \in Keys,
             k = ev.code, IsRelease(ev), DropNewest(h),
             Down(h, k, 0), ~Down(h, k, 0)', OnlyKeyChanges(h, k)
      PROVE  AddsUp'
  <2>1. \A g \in Grabs, l \in Keys : (g = h => l # k) => (Down(g, l, 0)' <=> Down(g, l, 0))
    BY <1>6 DEF OnlyKeyChanges
  <2>2. ~UNCHANGED unresolved
    <3>1. SubSeq(unresolved[h], 1, Len(unresolved[h]) - 1) # unresolved[h]
      BY <1>3, DropLast
    <3> QED
      BY <1>6, <3>1 DEF DropNewest, TypeOK
  <2>3. code \notin ModifierKeys
    BY <1>3, <1>4, <2>2
  <2>4. ModifiersAreDown'
    BY <1>1, <1>6, <2>1, <2>3 DEF ModifiersAreDown
  <2>5. CASE sends' = <<>>
    <3>1. code = RESET_KEYMAP
      BY <1>4, <2>2, <2>5
    <3>2. ASSUME NEW c \in Keys
          PROVE  Cardinality(Sources(c)') = Cardinality(Sources(c))
      <4>1. Sources(c)' = Sources(c)
        BY <1>1, <1>3, <1>6, <2>1, <3>1 DEF Sources
      <4> QED
        BY <4>1
    <3>3. CodesAddUp'
      BY <2>5, <3>2, SameKeysHold DEF CodesAddUp
    <3> QED
      BY <1>2, <2>4, <3>3 DEF AddsUp
  <2>6. CASE sends' = <<e, SynEvent>>
    <3>1. e.type = "EV_KEY" /\ e.value = 0 /\ e.code = code
      BY <1>6 DEF IsRelease
    <3> HIDE DEF e
    <3>2. ASSUME NEW c \in Keys
          PROVE  /\ PressesCode(e, c) <=> (Down(h, k, 0)' /\ release_map'[h][k] = c)
                 /\ ReleasesCode(e, c) <=> (Down(h, k, 0) /\ release_map[h][k] = c)
      BY <1>6, <3>1 DEF PressesCode, ReleasesCode, IsPress, IsRelease
    <3>3. CodesAddUp'
      BY <1>6, <2>6, <3>2, OneKeyOneEvent DEF CodesAddUp
    <3> QED
      BY <1>2, <2>4, <3>3 DEF AddsUp
  <2> QED
    BY <1>4, <2>2, <2>5, <2>6
<1> QED
  BY <1>5, <1>6, KeepTakes

-----------------------------------------------------------------------------
(* Nothing gets stuck                                                      *)

\* Every step keeps OutputInv.
LEMMA NextOutputInv ==
  ASSUME NoTimeoutOnly, MacroKeysAreNoOthers, MacrosAreClosed,
         TypeOK, QueueAlternates, OutputInv, [Next]_vars
  PROVE  OutputInv'
<1> SUFFICES ASSUME status' = "running" PROVE AddsUp'
  BY DEF OutputInv
<1>1. /\ AddsUp /\ status = "running"
      /\ \A g \in Grabs, k \in Keys : Alternating(g, k)
  BY StatusNeverReturns DEF OutputInv, QueueAlternates, Alternating
<1>2. ASSUME UNCHANGED release_map, CodesAddUp => CodesAddUp',
             \A g \in Grabs, k \in Keys : Down(g, k, 0)' <=> Down(g, k, 0)
      PROVE  AddsUp'
  BY <1>1, <1>2 DEF AddsUp, ReleasesAreActions, ModifiersAreDown
<1>3. ASSUME UNCHANGED <<release_map, sends, press_count_map>>,
             \A g \in Grabs, k \in Keys : Down(g, k, 0)' <=> Down(g, k, 0)
      PROVE  AddsUp'
  <2>1. \A c \in Keys : Sources(c)' = Sources(c)
    BY <1>3 DEF Sources
  <2>2. CodesAddUp => CodesAddUp'
    BY <1>3, <2>1 DEF CodesAddUp
  <2> QED
    BY <1>2, <1>3, <2>2
<1>4. CASE \E kb \in Kbs : ReadEvent(kb)
  <2>1. UNCHANGED <<release_map, sends, press_count_map>>
    BY <1>4 DEF ReadEvent, dedupVars
  <2>2. \A g \in Grabs, k \in Keys : Down(g, k, 0)' <=> Down(g, k, 0)
    BY <1>4, ReadEventKeeps
  <2> QED
    BY <1>3, <2>1, <2>2
<1>5. CASE (\E kb \in Kbs : Keyboard(kb)) \/ Tick \/ UNCHANGED vars
  <2>1. UNCHANGED <<release_map, sends, press_count_map, unresolved, input_counts>>
    BY <1>5 DEF Keyboard, Tick, vars, resolverVars, dedupVars
  <2>2. \A g \in Grabs, k \in Keys : Down(g, k, 0)' <=> Down(g, k, 0)
    BY <2>1 DEF Down
  <2> QED
    BY <1>3, <2>1, <2>2
<1>6. CASE Send
  <2>1. /\ UNCHANGED <<release_map, unresolved, input_counts, status>>
        /\ sends # <<>> /\ send_dedup(Head(sends)) /\ sends' = Tail(sends)
        /\ sends \in Seq(Event)
    BY <1>6 DEF Send, resolverVars, TypeOK
  <2>2. \A g \in Grabs, k \in Keys : Down(g, k, 0)' <=> Down(g, k, 0)
    BY <2>1 DEF Down
  <2>3. \A c \in Keys : Sources(c)' = Sources(c)
    BY <2>1, <2>2 DEF Sources
  <2>4. CodesAddUp => CodesAddUp'
    BY <2>1, <2>3, LeadsOn DEF CodesAddUp
  <2> QED
    BY <1>2, <2>1, <2>2, <2>4
<1>7. CASE Resolve
  <2> DEFINE h == resolving
  <2>1. /\ h \in Grabs /\ sends = <<>> /\ UNCHANGED <<input_counts, press_count_map>>
    BY <1>7, ResolveCases DEF Resolve, dedupVars
  <2>2. CASE NothingUnresolved(h)
    <3>1. UNCHANGED <<release_map, sends, press_count_map, unresolved, input_counts>>
      BY <2>1, <2>2 DEF NothingUnresolved, resolverVars
    <3>2. \A g \in Grabs, k \in Keys : Down(g, k, 0)' <=> Down(g, k, 0)
      BY <3>1 DEF Down
    <3> QED
      BY <1>3, <3>1, <3>2
  <2>3. CASE /\ unresolved[h] # <<>>
             /\ \/ ResolvePress(h) \/ ResolveRelease(h)
                \/ ResolveRepeat(h) \/ ResolveOther(h) \/ KeepUnresolved(h)
    <3>1. ResolvesAt(h)
      BY <1>1, <2>1, <2>3 DEF ResolvesAt, AddsUp
    <3> QED
      BY <2>3, <3>1, PressAddsUp, ReleaseAddsUp, PassAddsUp, KeepAddsUp
  <2> QED
    BY <1>7, <2>2, <2>3 DEF Resolve
<1> QED
  BY <1>4, <1>5, <1>6, <1>7 DEF Next, Loop

\* Nothing is down and nothing is waiting (Init).
LEMMA InitOutputInv == Init => OutputInv
<1> SUFFICES ASSUME Init PROVE AddsUp
  BY DEF OutputInv
<1>1. /\ \A g \in Grabs, c \in Codes : release_map[g][c] = 0
      /\ sends = <<>> /\ \A c \in Codes : press_count_map[c] = 0
  BY DEF Init, DedupInit
<1>2. \A g \in Grabs, k \in Keys : release_map[g][k] = 0
  BY <1>1 DEF Codes
<1>3. ReleasesAreActions /\ ModifiersAreDown
  BY <1>2, ResetIsNoKey DEF ReleasesAreActions, ModifiersAreDown
<1>4. CodesAddUp
  <2>1. ASSUME NEW c \in Keys PROVE Leads(sends, c, press_count_map[c], Cardinality(Sources(c)))
    <3>1. Sources(c) = {} /\ press_count_map[c] = 0
      BY <1>1, <1>2, ResetIsNoKey DEF Sources, Codes
    <3>2. Cardinality(Sources(c)) = 0
      BY <3>1, FS_EmptySet
    <3> QED
      BY <1>1, <3>1, <3>2, LeadsNowhere
  <2> QED
    BY <2>1 DEF CodesAddUp
<1> QED
  BY <1>3, <1>4 DEF AddsUp

\* Nothing gets stuck, and nothing is released under a key that still holds it: with no
\* TIMEOUT_ONLY key, macros that release what they press, and no key that is a macro in
\* one place and an ordinary key in another, every outgoing code is held by exactly the
\* keys that are down and were resolved to it, through layers, deduplication, macros,
\* early releases and any number of keyboards and grabs (release_map, press_count_map).
THEOREM OutputCorrect ==
  ASSUME NoTimeoutOnly, MacroKeysAreNoOthers, MacrosAreClosed
  PROVE  Spec => []OutputJustified
<1>1. TypeOK /\ OutputInv => OutputJustified
  <2> SUFFICES ASSUME TypeOK, AddsUp, sends = <<>>, NEW c \in Keys
               PROVE  press_count_map[c] = Cardinality(Sources(c))
    BY DEF OutputInv, OutputJustified, Sources, Down, PressResolved
  <2> QED
    BY NothingToSend DEF AddsUp
<1>2. TypeOK /\ QueueAlternates /\ OutputInv /\ [Next]_vars => OutputInv'
  BY NextOutputInv
<1> QED
  BY <1>1, <1>2, InitOutputInv, TypeCorrect, QueueCorrect, PTL DEF Spec

-----------------------------------------------------------------------------
(* KeyHolds                                                                *)


\* No key that may be a macro may otherwise be a keymap key: released early, that would
\* leave RESET_KEYMAP in release_map for the release of the macro key.
MacroKeysAreNoLayers ==
  \A k \in Keys : \A a, b \in ActionsOf(k) : ~(a.type = "MACRO" /\ b.type = "MAP")

\* No event that is not a key looks like the release of one (resolver.c:297).
OthersAreNoReleases == \A o \in OtherEvents : o.value = 0 => o.code = 0

-----------------------------------------------------------------------------
(* The backlog of KeyHolds                                                 *)

\* The backlog of a grab says of each event in its queue which key it moves.
LEMMA BacklogFacts ==
  ASSUME TypeOK, NEW g \in Grabs
  PROVE  /\ Backlog[g] \in Seq(Keys \cup {0}) /\ Len(Backlog[g]) = Len(unresolved[g])
         /\ \A i \in 1..Len(unresolved[g]) : Backlog[g][i] = Touched(unresolved[g][i])
         /\ Backlog[g] # <<>> <=> unresolved[g] # <<>>
         /\ unresolved[g] # <<>> =>
              /\ Head(Backlog[g]) = Touched(Oldest(g))
              /\ Len(Backlog[g]) \in 1..Len(unresolved[g])
              /\ Backlog[g][Len(Backlog[g])] = Touched(Newest(g))
<1> DEFINE q == unresolved[g]
           b == [i \in 1..Len(q) |-> Touched(q[i])]
<1>1. q \in Seq(TimedEvent) /\ Len(q) \in Nat
  BY DEF TypeOK
<1>2. Backlog[g] = b
  BY DEF Backlog
<1>3. \A i \in 1..Len(q) : Touched(q[i]) \in Keys \cup {0}
  <2>1. \A i \in 1..Len(q) : q[i] \in TimedEvent
    BY <1>1
  <2> QED
    BY <2>1, TimedEventFields DEF Touched, IsPress, IsRelease
<1>4. b \in Seq(Keys \cup {0}) /\ Len(b) = Len(q)
  BY <1>1, <1>3
<1>5. \A i \in 1..Len(q) : b[i] = Touched(q[i])
  OBVIOUS
<1> HIDE DEF b
<1>6. ASSUME q # <<>>
      PROVE  Head(b) = Touched(Oldest(g)) /\ Len(b) \in 1..Len(q)
             /\ b[Len(b)] = Touched(Newest(g))
  <2>1. Len(q) \in 1..Len(q) /\ 1 \in 1..Len(q) /\ b # <<>>
    BY <1>1, <1>4, <1>6, EmptySeq
  <2>2. Head(b) = b[1] /\ Oldest(g) = q[1] /\ Newest(g) = q[Len(q)]
    BY <1>1, <1>4, <1>6, <2>1 DEF Oldest, Newest
  <2> QED
    BY <1>4, <1>5, <2>1, <2>2
<1>7. b # <<>> <=> q # <<>>
  BY <1>1, <1>4, EmptySeq
<1> QED
  BY <1>2, <1>4, <1>5, <1>6, <1>7

\* Two functions that differ at h at most.
LEMMA OneValueChanges ==
  ASSUME NEW S, NEW f, NEW e, NEW h \in S, NEW v,
         f = [x \in S |-> f[x]], e = [x \in S |-> e[x]],
         e[h] = v, \A x \in S : x # h => e[x] = f[x]
  PROVE  e = [f EXCEPT ![h] = v]
OBVIOUS

\* A queue that is the same but for one grab.
LEMMA BacklogOf ==
  ASSUME NEW h \in Grabs, NEW q, unresolved' = [unresolved EXCEPT ![h] = q], TypeOK
  PROVE  Backlog' = [Backlog EXCEPT ![h] = [i \in 1..Len(q) |-> Touched(q[i])]]
<1> DEFINE touched(r) == [i \in 1..Len(r) |-> Touched(r[i])]
<1>1. \A g \in Grabs : unresolved'[g] = IF g = h THEN q ELSE unresolved[g]
  BY DEF TypeOK
<1>2. /\ Backlog = [g \in Grabs |-> touched(unresolved[g])]
      /\ Backlog' = [g \in Grabs |-> touched(unresolved'[g])]
  BY DEF Backlog
<1> HIDE DEF touched, Backlog
<1>3. /\ Backlog = [g \in Grabs |-> Backlog[g]] /\ Backlog' = [g \in Grabs |-> Backlog'[g]]
      /\ Backlog'[h] = touched(q)
      /\ \A g \in Grabs : g # h => Backlog'[g] = Backlog[g]
  BY <1>1, <1>2
<1>4. Backlog' = [Backlog EXCEPT ![h] = touched(q)]
  BY <1>3, OneValueChanges
<1> QED
  BY <1>4 DEF touched

\* Appending an event to a queue appends what it touches to the backlog.
LEMMA BacklogAppends ==
  ASSUME TypeOK, NEW h \in Grabs, NEW ev,
         unresolved' = [unresolved EXCEPT ![h] = Append(@, ev)]
  PROVE  Backlog' = [Backlog EXCEPT ![h] = Append(@, Touched(ev))]
<1> DEFINE q == unresolved[h]
           r == Append(q, ev)
           b == [i \in 1..Len(r) |-> Touched(r[i])]
<1>1. q \in Seq(TimedEvent) /\ Len(q) \in Nat /\ Len(r) = Len(q) + 1
  BY DEF TypeOK
<1>2. \A i \in 1..Len(r) : r[i] = IF i = Len(q) + 1 THEN ev ELSE q[i]
  BY <1>1
<1>3. unresolved' = [unresolved EXCEPT ![h] = r]
  OBVIOUS
<1> HIDE DEF r
<1>4. Backlog' = [Backlog EXCEPT ![h] = b]
  BY <1>3, BacklogOf
<1>5. b = Append(Backlog[h], Touched(ev))
  <2>1. Backlog[h] = [i \in 1..Len(q) |-> Touched(q[i])]
    BY DEF Backlog
  <2>2. Len(Backlog[h]) = Len(q) /\ Backlog[h] \in Seq(Keys \cup {0})
    BY BacklogFacts
  <2>3. \A i \in 1..(Len(q) + 1) :
          b[i] = IF i = Len(q) + 1 THEN Touched(ev) ELSE Backlog[h][i]
    BY <1>1, <1>2, <2>1
  <2> HIDE DEF q
  <2>4. b = [i \in 1..(Len(q) + 1) |-> IF i = Len(q) + 1 THEN Touched(ev) ELSE Backlog[h][i]]
    BY <1>1, <2>3
  <2>5. Append(Backlog[h], Touched(ev))
          = [i \in 1..(Len(q) + 1) |-> IF i = Len(q) + 1 THEN Touched(ev) ELSE Backlog[h][i]]
    BY <2>2 
  <2> QED
    BY <2>4, <2>5
<1> QED
  BY <1>4, <1>5

\* Taking the oldest event off a queue takes it off the backlog.
LEMMA BacklogDropsOldest ==
  ASSUME TypeOK, NEW h \in Grabs, unresolved[h] # <<>>, DropOldest(h)
  PROVE  Backlog' = [Backlog EXCEPT ![h] = Tail(@)]
<1> DEFINE q == unresolved[h]
           r == Tail(q)
           b == [i \in 1..Len(r) |-> Touched(r[i])]
<1>1. q \in Seq(TimedEvent) /\ q # <<>> /\ Len(q) \in Nat \ {0} /\ Len(r) = Len(q) - 1
  BY EmptySeq DEF TypeOK
<1>2. \A i \in 1..Len(r) : r[i] = q[i + 1]
  BY <1>1
<1>3. unresolved' = [unresolved EXCEPT ![h] = r]
  BY DEF DropOldest
<1> HIDE DEF r
<1>4. Backlog' = [Backlog EXCEPT ![h] = b]
  BY <1>3, BacklogOf
<1>5. b = Tail(Backlog[h])
  <2>1. /\ Len(Backlog[h]) = Len(q) /\ Backlog[h] \in Seq(Keys \cup {0})
        /\ Backlog[h] # <<>>
        /\ \A i \in 1..Len(q) : Backlog[h][i] = Touched(q[i])
    BY BacklogFacts
  <2> HIDE DEF q
  <2>2. \A i \in 1..(Len(q) - 1) : b[i] = Backlog[h][i + 1]
    <3>1. \A i \in 1..(Len(q) - 1) : i + 1 \in 1..Len(q)
      BY <1>1
    <3> QED
      BY <1>1, <1>2, <2>1, <3>1
  <2>3. b = [i \in 1..(Len(q) - 1) |-> Backlog[h][i + 1]]
    BY <1>1, <2>2
  <2>4. Tail(Backlog[h]) = [i \in 1..(Len(q) - 1) |-> Backlog[h][i + 1]]
    BY <2>1
  <2> QED
    BY <2>3, <2>4
<1> QED
  BY <1>4, <1>5

\* Taking the newest event off a queue takes it off the backlog.
LEMMA BacklogDropsNewest ==
  ASSUME TypeOK, NEW h \in Grabs, unresolved[h] # <<>>, DropNewest(h)
  PROVE  Backlog' = [Backlog EXCEPT ![h] = SubSeq(@, 1, Len(@) - 1)]
<1> DEFINE q == unresolved[h]
           r == SubSeq(q, 1, Len(q) - 1)
           b == [i \in 1..Len(r) |-> Touched(r[i])]
<1>1. /\ q \in Seq(TimedEvent) /\ Len(q) \in Nat \ {0}
      /\ Len(r) = Len(q) - 1 /\ \A i \in 1..(Len(q) - 1) : r[i] = q[i]
  BY DropLast DEF TypeOK
<1>2. unresolved' = [unresolved EXCEPT ![h] = r]
  BY DEF DropNewest
<1> HIDE DEF r
<1>3. Backlog' = [Backlog EXCEPT ![h] = b]
  BY <1>2, BacklogOf
<1>4. b = SubSeq(Backlog[h], 1, Len(Backlog[h]) - 1)
  <2>1. /\ Len(Backlog[h]) = Len(q) /\ Backlog[h] \in Seq(Keys \cup {0})
        /\ \A i \in 1..Len(q) : Backlog[h][i] = Touched(q[i])
    BY BacklogFacts
  <2> HIDE DEF q
  <2>2. b = [i \in 1..(Len(q) - 1) |-> Backlog[h][i]]
    <3>1. \A i \in 1..(Len(q) - 1) : i \in 1..Len(q) /\ b[i] = Backlog[h][i]
      BY <1>1, <2>1
    <3> QED
      BY <1>1, <3>1
  <2>3. SubSeq(Backlog[h], 1, Len(q) - 1) = [i \in 1..(Len(q) - 1) |-> Backlog[h][i]]
    BY <1>1, <2>1
  <2> QED
    BY <2>1, <2>2, <2>3
<1> QED
  BY <1>3, <1>4

-----------------------------------------------------------------------------
(* What keys are held as                                                   *)

\* What keys are held as stays the same if which are down and release_map do.
LEMMA HeldAsStays ==
  ASSUME UNCHANGED <<status, release_map>>,
         \A g \in Grabs, k \in Keys : Down(g, k, 0)' <=> Down(g, k, 0)
  PROVE  UNCHANGED HeldAs
<1>1. \A g \in Grabs, k \in Keys : Held(g, k)' = Held(g, k)
  BY DEF Held, PressResolved, Down
<1> QED
  BY <1>1 DEF HeldAs

\* One key becomes held as something else.
LEMMA HeldAsChanges ==
  ASSUME status = "running", status' = "running",
         NEW h \in Grabs, NEW k \in Keys, OnlyKeyChanges(h, k),
         NEW what, Held(h, k)' = what
  PROVE  HeldAs' = [HeldAs EXCEPT ![h][k] = what]
<1>1. \A g \in Grabs, l \in Keys : (g = h => l # k) => Held(g, l)' = Held(g, l)
  BY DEF Held, PressResolved, Down, OnlyKeyChanges
<1>2. HeldAs = [g \in Grabs |-> [l \in Keys |-> Held(g, l)]]
  BY DEF HeldAs
<1>3. HeldAs' = [g \in Grabs |-> [l \in Keys |-> Held(g, l)']]
  BY DEF HeldAs
<1> HIDE DEF HeldAs
<1> HIDE DEF Held
<1>4. /\ HeldAs = [g \in Grabs |-> HeldAs[g]] /\ HeldAs' = [g \in Grabs |-> HeldAs'[g]]
      /\ \A g \in Grabs : /\ HeldAs[g] = [l \in Keys |-> HeldAs[g][l]]
                          /\ HeldAs'[g] = [l \in Keys |-> HeldAs'[g][l]]
      /\ \A g \in Grabs, l \in Keys : /\ HeldAs[g][l] = Held(g, l)
                                     /\ HeldAs'[g][l] = Held(g, l)'
  BY <1>2, <1>3
<1>5. \A g \in Grabs : g # h => HeldAs'[g] = HeldAs[g]
  <2> SUFFICES ASSUME NEW g \in Grabs, g # h PROVE HeldAs'[g] = HeldAs[g]
    OBVIOUS
  <2>1. [l \in Keys |-> HeldAs'[g][l]] = [l \in Keys |-> HeldAs[g][l]]
    BY <1>1, <1>4
  <2> QED
    BY <1>4, <2>1
<1>6. HeldAs'[h] = [HeldAs[h] EXCEPT ![k] = what]
  <2>1. HeldAs'[h][k] = what /\ \A l \in Keys : l # k => HeldAs'[h][l] = HeldAs[h][l]
    BY <1>1, <1>4
  <2> QED
    BY <1>4, <2>1, OneValueChanges
<1>7. HeldAs' = [HeldAs EXCEPT ![h] = [HeldAs[h] EXCEPT ![k] = what]]
  BY <1>4, <1>5, <1>6, OneValueChanges
<1> QED
  BY <1>7

\* What a key is held as.
LEMMA HeldAsFacts ==
  ASSUME TypeOK, status = "running", NEW g \in Grabs, NEW k \in Keys
  PROVE  /\ HeldAs[g][k] = IF Down(g, k, 0) THEN release_map[g][k] ELSE -1
         /\ HeldAs[g][k] # -1 <=> Down(g, k, 0)
<1>1. HeldAs[g][k] = IF Down(g, k, 0) THEN release_map[g][k] ELSE -1
  BY DEF HeldAs, Held, PressResolved, Down
<1>2. release_map[g][k] \in Nat
  <2>1. release_map[g][k] \in Codes \cup {RESET_KEYMAP}
    BY DEF TypeOK, Codes
  <2>2. \A c \in Codes \cup {RESET_KEYMAP} : c \in Nat
    BY KeysAssumption DEF Codes, RESET_KEYMAP, KEY_MAX
  <2> QED
    BY <2>1, <2>2
<1> QED
  BY <1>1, <1>2

\* A code is wanted if it has a source.
LEMMA WantedHasSource ==
  ASSUME TypeOK, status = "running", NEW c \in Keys
  PROVE  c \in Holds!Wanted <=> Sources(c) # {}
<1>1. c # -1
  BY KeysAssumption DEF KEY_MAX
<1>2. \A g \in Grabs, k \in Keys :
        HeldAs[g][k] = c <=> Down(g, k, 0) /\ release_map[g][k] = c
  BY <1>1, HeldAsFacts
<1>3. c \in Holds!Wanted <=> \E g \in Grabs, k \in Keys : Down(g, k, 0) /\ release_map[g][k] = c
  BY <1>2 DEF Holds!Wanted
<1>4. \A g \in Grabs, k \in Keys :
        <<g, k>> \in Sources(c) <=> Down(g, k, 0) /\ release_map[g][k] = c
  BY DEF Sources
<1>5. Sources(c) # {} <=> \E g \in Grabs, k \in Keys : <<g, k>> \in Sources(c)
  BY DEF Sources
<1> QED
  BY <1>3, <1>4, <1>5

-----------------------------------------------------------------------------
(* What the output is being changed in                                     *)

\* The codes that events about to be sent press or release.
LEMMA PendingOf ==
  /\ sends = <<>> => Pending = {}
  /\ \A ev : sends' = <<ev>> => Pending' = {Touched(ev)} \ {0}
  /\ \A ev : sends' = <<ev, SynEvent>> => Pending' = {Touched(ev)} \ {0}
  /\ sends' = <<>> => Pending' = {}
<1> DEFINE codes(s) == {Touched(s[i]) : i \in 1..Len(s)}
<1>1. codes(<<>>) = {}
  OBVIOUS
<1>2. ASSUME NEW ev PROVE codes(<<ev>>) = {Touched(ev)}
  <2>1. Len(<<ev>>) = 1 /\ <<ev>>[1] = ev /\ 1..1 = {1}
    OBVIOUS
  <2> QED
    BY <2>1
<1>3. ASSUME NEW ev
      PROVE  codes(<<ev, SynEvent>>) \ {0} = {Touched(ev)} \ {0}
  <2> DEFINE s == <<ev, SynEvent>>
  <2>1. Len(s) = 2 /\ s[1] = ev /\ s[2] = SynEvent /\ 1..2 = {1, 2}
    OBVIOUS
  <2>2. Touched(SynEvent) = 0
    BY DEF Touched, SynEvent, IsPress, IsRelease
  <2> HIDE DEF s
  <2>3. {Touched(s[i]) : i \in 1..Len(s)} = {Touched(ev), 0}
    BY <2>1, <2>2
  <2>4. {Touched(s[i]) : i \in 1..Len(s)} \ {0} = {Touched(ev)} \ {0}
    BY <2>3
  <2> QED
    BY <2>4 DEF s
<1>4. Pending = codes(sends) \ {0} /\ Pending' = codes(sends') \ {0}
  BY DEF Pending
<1> HIDE DEF codes
<1> QED
  BY <1>1, <1>2, <1>3, <1>4

\* A macro is about to change the codes that occur in it.
LEMMA PendingOfMacro ==
  ASSUME NEW macro \in Seq([code : Codes, press : BOOLEAN]), sends' = MacroSends(macro)
  PROVE  Pending' = {macro[i].code : i \in 1..Len(macro)} \ {0}
<1> DEFINE s == MacroSends(macro)
           l == Len(macro)
<1>1. l \in Nat /\ Len(s) = 2 * l
  BY DEF MacroSends
<1>2. ASSUME NEW j \in 1..l
      PROVE  2 * j - 1 \in 1..Len(s) /\ Touched(s[2 * j - 1]) = macro[j].code
  <2>1. 2 * j - 1 \in 1..(2 * l) /\ (2 * j - 1) % 2 = 1 /\ ((2 * j - 1) + 1) \div 2 = j
    BY <1>1
  <2>2. s[2 * j - 1] = KeyEvent(macro[j].code, IF macro[j].press THEN 1 ELSE 0)
    BY <2>1 DEF MacroSends
  <2>3. \A c : Touched(KeyEvent(c, 1)) = c /\ Touched(KeyEvent(c, 0)) = c
    BY DEF Touched, KeyEvent, IsPress, IsRelease
  <2> HIDE DEF s
  <2> QED
    BY <1>1, <2>1, <2>2, <2>3
<1>3. ASSUME NEW i \in 1..Len(s), Touched(s[i]) # 0
      PROVE  \E j \in 1..l : i = 2 * j - 1
  <2>1. i \in 1..(2 * l)
    BY <1>1
  <2>2. i % 2 = 1
    <3>1. Touched(SynEvent) = 0
      BY DEF Touched, SynEvent, IsPress, IsRelease
    <3>2. i % 2 # 1 => s[i] = SynEvent
      BY <2>1 DEF MacroSends
    <3> HIDE DEF s
    <3> QED
      BY <1>3, <3>1, <3>2
  <2>3. (i + 1) \div 2 \in 1..l /\ i = 2 * ((i + 1) \div 2) - 1
    BY <1>1, <2>1, <2>2
  <2> QED
    BY <2>3
<1> HIDE DEF s, l
<1>4. {Touched(s[i]) : i \in 1..Len(s)} \ {0} = {macro[j].code : j \in 1..l} \ {0}
  BY <1>2, <1>3
<1> QED
  BY <1>4 DEF Pending, s, l

-----------------------------------------------------------------------------
(* The steps of the resolver are steps of KeyHolds                         *)

\* An event that is no key but looks like a release has no code.
Quiet(ev) == ev.type # "EV_KEY" /\ ev.value = 0 => ev.code = 0

\* release_map has no more in it than keys were resolved to, and what is not a key
\* never looks like the release of one.
HoldsWell ==
  /\ \A g \in Grabs : release_map[g][0] = 0
  /\ \A g \in Grabs, k \in Keys : release_map[g][k] = RESET_KEYMAP =>
       \E a \in ActionsOf(k) : a.type = "MAP"
  /\ \A g \in Grabs : \A i \in 1..Len(unresolved[g]) : Quiet(unresolved[g][i])
  /\ \A kb \in Kbs : \A i \in 1..Len(evdev[kb]) : Quiet(evdev[kb][i])

HoldsInv == status = "running" => HoldsWell

\* Nothing changes that KeyHolds can see.
LEMMA HoldsStutters ==
  ASSUME UNCHANGED <<unresolved, sends, current_keymap, sink, status>>, UNCHANGED HeldAs
  PROVE  UNCHANGED Holds!vars
<1>1. UNCHANGED Backlog /\ UNCHANGED Pending
  BY DEF Backlog, Pending
<1> QED
  BY <1>1 DEF Holds!vars

\* An event that is read is dropped, touches a key, or is one too many.
LEMMA ReadEventIsStep ==
  ASSUME TypeOK, status = "running", NEW kb \in Kbs, ReadEvent(kb)
  PROVE  Holds!Next \/ UNCHANGED Holds!vars
<1> DEFINE h  == GrabOf[kb]
           ev == Head(evdev[kb])
<1>1. /\ h \in Grabs /\ ev \in TimedEvent
      /\ UNCHANGED <<release_map, current_keymap, sends, sink>>
  BY HeadTailProperties, ResolverAssumption DEF TypeOK, ReadEvent, dedupVars
<1>2. status' = "running" => UNCHANGED HeldAs
  BY <1>1, ReadEventKeeps, HeldAsStays
<1>3. CASE ~resolve_dedup_input(h, ev)
  BY <1>1, <1>2, <1>3, HoldsStutters DEF ReadEvent
<1>4. CASE resolve_dedup_input(h, ev) /\ Full(h)
  <2>1. status' = "overflow" /\ UNCHANGED unresolved
    BY <1>4 DEF ReadEvent
  <2>2. Len(Backlog[h]) = URMAX
    BY <1>1, <1>4, BacklogFacts DEF Full
  <2>3. HeldAs' = Holds!AllUp
    BY <2>1 DEF HeldAs, Holds!AllUp, Holds!Up
  <2>4. UNCHANGED Backlog /\ UNCHANGED Pending
    BY <1>1, <2>1 DEF Backlog, Pending
  <2>5. Holds!Overflow
    BY <1>1, <2>1, <2>2, <2>3, <2>4 DEF Holds!Overflow
  <2> QED
    BY <2>5 DEF Holds!Next
<1>5. CASE resolve_dedup_input(h, ev) /\ ~Full(h)
  <2>1. status' = "running" /\ unresolved' = [unresolved EXCEPT ![h] = Append(@, ev)]
    BY <1>5 DEF ReadEvent
  <2>2. Backlog' = [Backlog EXCEPT ![h] = Append(@, Touched(ev))]
    BY <1>1, <2>1, BacklogAppends
  <2>3. Len(Backlog[h]) < URMAX
    <3>1. Len(unresolved[h]) <= URMAX /\ Len(unresolved[h]) # URMAX
      BY <1>1, <1>5 DEF TypeOK, Full
    <3>2. Len(unresolved[h]) \in Nat /\ Len(Backlog[h]) = Len(unresolved[h])
      BY <1>1, BacklogFacts DEF TypeOK
    <3> QED
      BY <3>1, <3>2, ResolverAssumption
  <2>4. Touched(ev) \in Keys \cup {0}
    BY <1>1, TimedEventFields DEF Touched, IsPress, IsRelease
  <2>5. UNCHANGED Pending
    BY <1>1 DEF Pending
  <2>6. Holds!Touch(h)
    BY <1>1, <1>2, <2>1, <2>2, <2>3, <2>4, <2>5 DEF Holds!Touch, Holds!Other
  <2> QED
    BY <1>1, <2>6 DEF Holds!Next
<1> QED
  BY <1>3, <1>4, <1>5

\* what a call of resolve() finds, and what it leaves alone
HoldsAt(h) ==
  /\ ResolvesAt(h) /\ HoldsWell
  /\ status = "running" /\ UNCHANGED <<status, sink>>

\* how KeyHolds calls what a keymap key is held as
LEMMA LayerIsReset == Holds!Layer = RESET_KEYMAP
BY DEF Holds!Layer, Holds!RESET_KEYMAP, Holds!KEY_MAX, RESET_KEYMAP, KEY_MAX

\* KeyHolds is ready for the call too.
LEMMA ReadyAt ==
  ASSUME NEW h, HoldsAt(h)
  PROVE  /\ h \in Grabs /\ Holds!Ready(h)
         /\ Backlog[h] # <<>> /\ Head(Backlog[h]) = Touched(Oldest(h))
         /\ UNCHANGED <<sink \ {0}, (status = "running")>>
<1>1. TypeOK /\ h \in Grabs /\ unresolved[h] # <<>> /\ sends = <<>>
  BY DEF HoldsAt, ResolvesAt
<1>2. Pending = {}
  BY <1>1, PendingOf
<1> QED
  BY <1>1, <1>2, BacklogFacts DEF HoldsAt, Holds!Ready

\* A press is resolved to one of the things its key may be.
LEMMA PressIsStep ==
  ASSUME MacroKeysAreNoOthers, MacroKeysAreNoLayers, NEW h, HoldsAt(h), ResolvePress(h)
  PROVE  Holds!Press(h)
<1> DEFINE ev == Oldest(h)
<1>0. PICK k \in Keys : \E ka \in ActionsOf(k) \cap PlainAction :
        /\ ka \in Holds!Meanings(KeymapOf[current_keymap[h]][k])
        /\ k = ev.code /\ do_keypress(h, ev, ka)
        /\ ~Down(h, k, 0) /\ Down(h, k, 0)' /\ OnlyKeyChanges(h, k)
  BY PressTakes DEF HoldsAt, ResolvesAt
<1>1. PICK ka \in ActionsOf(k) \cap PlainAction :
        /\ ka \in Holds!Meanings(KeymapOf[current_keymap[h]][k])
        /\ k = ev.code /\ do_keypress(h, ev, ka)
        /\ ~Down(h, k, 0) /\ Down(h, k, 0)' /\ OnlyKeyChanges(h, k)
  BY <1>0
<1>2. /\ TypeOK /\ h \in Grabs /\ unresolved[h] # <<>> /\ status' = "running"
      /\ status = "running" /\ IsPress(ev) /\ DropOldest(h)
  BY DEF HoldsAt, ResolvesAt, ResolvePress, ReturnTrue
<1>3. Head(Backlog[h]) = k
  BY <1>1, <1>2, ReadyAt DEF Touched
<1>4. Holds!Undecided(h)
  BY <1>1, <1>2, <1>3, HeldAsFacts DEF Holds!Undecided, Holds!Up
<1>5. Holds!TakeOldest(h)
  BY <1>2, BacklogDropsOldest DEF Holds!TakeOldest
<1>6. Held(h, k)' = release_map'[h][k]
  BY <1>1 DEF Held, PressResolved, Down
<1>7. Holds!Hold(h, k, release_map'[h][k])
  BY <1>1, <1>2, <1>6, HeldAsChanges DEF Holds!Hold
<1>8. /\ release_map \in [Grabs -> [Codes -> Codes \cup {RESET_KEYMAP}]] /\ k \in Codes
  BY <1>2 DEF TypeOK, Codes
<1>9. CASE DoSimple(h, ev, ka)
  <2>1. /\ ka.type = "SIMPLE" /\ release_map'[h][k] = ka.simple
        /\ sends' = <<KeyEvent(ka.simple, 1)>> /\ UNCHANGED current_keymap
    BY <1>1, <1>2, <1>8, <1>9 DEF DoSimple, RememberRelease
  <2>2. Touched(KeyEvent(ka.simple, 1)) = ka.simple
    BY DEF Touched, KeyEvent, IsPress
  <2>3. Holds!Change({ka.simple})
    BY <2>1, <2>2, PendingOf DEF Holds!Change
  <2> QED
    BY <1>1, <1>3, <1>4, <1>5, <1>7, <2>1, <2>3, ReadyAt DEF Holds!Press
<1>10. CASE DoMacro(ka)
  <2>1. /\ ka.type = "MACRO" /\ sends' = MacroSends(ka.macro)
        /\ UNCHANGED <<release_map, current_keymap>>
        /\ ka.macro \in Seq([code : Codes, press : BOOLEAN])
    BY <1>1, <1>10 DEF DoMacro, PlainAction, SimpleAction, MacroAction, MapAction
  <2>2. release_map[h][k] = 0
    <3>1. release_map[h][k] \notin Keys
      BY <1>1, <1>2, <2>1, MacroHoldsNothing DEF HoldsAt, ResolvesAt
    <3>2. release_map[h][k] # RESET_KEYMAP
      BY <1>1, <1>2, <2>1 DEF HoldsAt, HoldsWell, MacroKeysAreNoLayers
    <3> QED
      BY <1>2, <1>8, <3>1, <3>2 DEF Codes
  <2>3. Holds!Hold(h, k, Holds!Nothing)
    BY <1>7, <2>1, <2>2 DEF Holds!Nothing
  <2>4. Holds!Change({ka.macro[i].code : i \in 1..Len(ka.macro)})
    BY <2>1, PendingOfMacro DEF Holds!Change
  <2> QED
    BY <1>1, <1>3, <1>4, <1>5, <2>1, <2>3, <2>4, ReadyAt DEF Holds!Press
<1>11. CASE DoMap(h, ev, ka)
  <2>1. /\ ka.type = "MAP" /\ release_map'[h][k] = RESET_KEYMAP
        /\ current_keymap' = [current_keymap EXCEPT ![h] = ka.map] /\ sends' = <<>>
    BY <1>1, <1>2, <1>8, <1>11 DEF DoMap, RememberRelease, HoldsAt, ResolvesAt
  <2>2. Holds!Change({})
    BY <2>1, PendingOf DEF Holds!Change
  <2>3. Holds!Hold(h, k, Holds!Layer)
    BY <1>7, <2>1, LayerIsReset
  <2> QED
    BY <1>1, <1>3, <1>4, <1>5, <2>1, <2>2, <2>3, ReadyAt DEF Holds!Press
<1> QED
  BY <1>1, <1>9, <1>10, <1>11 DEF do_keypress

\* What a key was held as, it is held as no longer.
LEMMA LetsGo ==
  ASSUME TypeOK, status = "running", status' = "running", UNCHANGED sink,
         NEW h \in Grabs, NEW k \in Keys,
         Down(h, k, 0), ~Down(h, k, 0)', OnlyKeyChanges(h, k),
         LET code == release_map[h][k] IN
           \/ /\ code = RESET_KEYMAP
              /\ current_keymap' = [current_keymap EXCEPT ![h] = RootOf[h]]
              /\ Pending' = {}
           \/ /\ code # RESET_KEYMAP /\ UNCHANGED current_keymap
              /\ Pending' = {code} \ {0}
  PROVE  Holds!LetGo(h, k) /\ HeldAs[h][k] = release_map[h][k]
<1>1. HeldAs[h][k] = release_map[h][k] /\ HeldAs[h][k] # -1
  BY HeldAsFacts
<1>2. Held(h, k)' = -1
  BY DEF Held, PressResolved, Down
<1>3. HeldAs' = [HeldAs EXCEPT ![h][k] = -1]
  BY <1>2, HeldAsChanges
<1>4. UNCHANGED <<sink \ {0}, (status = "running")>>
  OBVIOUS
<1> QED
  BY <1>1, <1>3, <1>4, LayerIsReset
  DEF Holds!LetGo, Holds!Hold, Holds!Up, Holds!Change

\* A release that is resolved lets go of its key.
LEMMA ReleaseIsStep ==
  ASSUME NEW h, HoldsAt(h), ResolveRelease(h)
  PROVE  Holds!Release(h)
<1> DEFINE ev   == Oldest(h)
           code == release_map[h][ev.code]
<1>1. PICK k \in Keys :
        /\ k = ev.code /\ release_map'[h][k] = 0
        /\ Down(h, k, 0) /\ ~Down(h, k, 0)' /\ OnlyKeyChanges(h, k)
  BY ReleaseTakes DEF HoldsAt, ResolvesAt
<1>2. /\ TypeOK /\ h \in Grabs /\ unresolved[h] # <<>> /\ sends = <<>>
      /\ status = "running" /\ status' = "running" /\ UNCHANGED sink
      /\ IsRelease(ev) /\ DropOldest(h)
  BY DEF HoldsAt, ResolvesAt, ResolveRelease, ReturnTrue
<1>3. Head(Backlog[h]) = k /\ Holds!TakeOldest(h)
  BY <1>1, <1>2, ReadyAt, BacklogDropsOldest DEF Touched, Holds!TakeOldest
<1>4. \/ /\ code = RESET_KEYMAP
         /\ current_keymap' = [current_keymap EXCEPT ![h] = RootOf[h]]
         /\ Pending' = {}
      \/ /\ code # RESET_KEYMAP /\ UNCHANGED current_keymap
         /\ Pending' = {code} \ {0}
  <2>1. 0 # RESET_KEYMAP /\ {0} \ {0} = {}
    BY DEF RESET_KEYMAP, KEY_MAX
  <2>2. Touched(KeyEvent(code, 0)) = code
    BY DEF Touched, KeyEvent, IsRelease
  <2>3. CASE code = RESET_KEYMAP
    BY <1>2, <2>1, <2>3, PendingOf DEF ResolveRelease
  <2>4. CASE code = 0
    BY <1>2, <2>1, <2>4, PendingOf DEF ResolveRelease
  <2>5. CASE code \notin {0, RESET_KEYMAP}
    BY <2>2, <2>5, PendingOf DEF ResolveRelease
  <2> QED
    BY <2>3, <2>4, <2>5
<1>5. Holds!LetGo(h, k)
  BY <1>1, <1>2, <1>4, LetsGo
<1> QED
  BY <1>3, <1>5, ReadyAt DEF Holds!Release

\* Repeats and what is not a key wait for their turn.
LEMMA PassIsStep ==
  ASSUME NEW h, HoldsAt(h), ResolveRepeat(h) \/ ResolveOther(h)
  PROVE  Holds!Pass(h)
<1> DEFINE ev == Oldest(h)
<1>1. /\ TypeOK /\ h \in Grabs /\ unresolved[h] # <<>> /\ DropOldest(h)
      /\ UNCHANGED <<status, current_keymap>> /\ UNCHANGED input_counts
  BY DEF HoldsAt, ResolvesAt, ResolveRepeat, ResolveOther, ReturnTrue
<1>2. UNCHANGED HeldAs
  BY <1>1, PassTakes, HeldAsStays
<1>3. Touched(ev) = 0
  BY DEF ResolveRepeat, ResolveOther, Touched, IsPress, IsRelease
<1>4. Pending' = {}
  <2>1. CASE ResolveRepeat(h)
    <3>1. \A code : Touched(KeyEvent(code, 2)) = 0
      BY DEF Touched, KeyEvent, IsPress, IsRelease
    <3> QED
      BY <2>1, <3>1, PendingOf DEF ResolveRepeat
  <2>2. CASE ResolveOther(h)
    <3> DEFINE e == [type |-> ev.type, code |-> ev.code, value |-> ev.value]
    <3>1. e.type # "EV_KEY" /\ sends' = <<e>>
      BY <2>2 DEF ResolveOther, PassThrough
    <3> HIDE DEF e
    <3>2. Touched(e) = 0
      BY <3>1 DEF Touched, IsPress, IsRelease
    <3> QED
      BY <3>1, <3>2, PendingOf
  <2> QED
    BY <2>1, <2>2
<1>5. Pending = {}
  BY PendingOf DEF HoldsAt, ResolvesAt
<1>6. Holds!TakeOldest(h)
  BY <1>1, BacklogDropsOldest DEF Holds!TakeOldest
<1> QED
  BY <1>1, <1>2, <1>3, <1>4, <1>5, <1>6, ReadyAt DEF Holds!Pass, Holds!Other

\* While a dual key waits, the newest event stays behind it, or is let through: a
\* release of a key that is held, or no event of a key.
LEMMA KeepIsStep ==
  ASSUME NoTimeoutOnly, NEW h, HoldsAt(h), KeepUnresolved(h)
  PROVE  Holds!ReleaseEarly(h) \/ Holds!Pass(h) \/ UNCHANGED Holds!vars
<1> DEFINE ev   == Newest(h)
           q    == unresolved[h]
           code == release_map[h][ev.code]
           e    == [type |-> ev.type, code |-> code, value |-> 0]
<1>1. /\ TypeOK /\ h \in Grabs /\ q # <<>> /\ sends = <<>>
      /\ UNCHANGED <<status, sink>> /\ UNCHANGED input_counts
      /\ status = "running" /\ UNCHANGED release_map /\ IsPress(Oldest(h))
      /\ \A g \in Grabs, k \in Keys : Alternating(g, k)
  BY DEF HoldsAt, ResolvesAt, KeepUnresolved
<1>2. /\ q \in Seq(TimedEvent) /\ Len(q) \in 1..Len(q) /\ Len(q) \in Nat /\ ev = q[Len(q)]
      /\ ev \in TimedEvent
  BY <1>1, EmptySeq, DequeueTypeOK DEF TypeOK, Newest
\* the oldest key is up
<1>3. Holds!Undecided(h)
  <2>1. PICK k \in Keys : k = Oldest(h).code
    BY <1>1, DequeueTypeOK, TimedEventFields DEF IsPress
  <2>2. Moves(Oldest(h), k)
    BY <1>1, <2>1 DEF Moves
  <2>3. ~Down(h, k, 0)
    BY <1>1, <2>2, OldestMoves
  <2>4. Head(Backlog[h]) = k
    BY <1>1, <2>1, ReadyAt DEF Touched
  <2> QED
    BY <1>1, <2>3, <2>4, HeldAsFacts DEF Holds!Undecided, Holds!Up
<1>4. CASE UNCHANGED <<unresolved, current_keymap, sends>>
  <2>1. \A g \in Grabs, k \in Keys : Down(g, k, 0)' <=> Down(g, k, 0)
    BY <1>1, <1>4 DEF Down
  <2> QED
    BY <1>1, <1>4, <2>1, HeldAsStays, HoldsStutters
<1>5. CASE DropNewest(h) /\ ev.value = 0 /\ IsRelease(ev)
  <2>1. PICK k \in Keys : k = ev.code
    BY <1>2, <1>5, TimedEventFields DEF IsRelease
  <2>2. Down(h, k, 0) /\ ~Down(h, k, 0)' /\ OnlyKeyChanges(h, k)
    <3>1. UNCHANGED unresolved => FALSE
      BY <1>1, <1>2, <1>5, DropLast DEF DropNewest, TypeOK
    <3> QED
      BY <1>1, <1>5, <2>1, KeepTakes
  <2>3. /\ code \notin ModifierKeys
        /\ \/ /\ code = RESET_KEYMAP
              /\ current_keymap' = [current_keymap EXCEPT ![h] = RootOf[h]]
              /\ sends' = <<>>
           \/ /\ code # RESET_KEYMAP /\ UNCHANGED current_keymap
              /\ sends' = <<e, SynEvent>>
    <3>1. UNCHANGED unresolved => FALSE
      BY <1>1, <1>2, <1>5, DropLast DEF DropNewest, TypeOK
    <3>2. RESET_KEYMAP \notin ModifierKeys
      BY ResetIsNoKey
    <3> QED
      BY <1>1, <1>5, <3>1, <3>2 DEF KeepUnresolved, ReleaseEarly, StaysQueued
  <2>4. Touched(e) = code
    <3>1. e.type = "EV_KEY" /\ e.value = 0 /\ e.code = code
      BY <1>5 DEF IsRelease
    <3> HIDE DEF e
    <3> QED
      BY <3>1 DEF Touched, IsRelease
  <2>5. Holds!LetGo(h, k) /\ HeldAs[h][k] = code
    <3> HIDE DEF e
    <3>1. \/ /\ code = RESET_KEYMAP
             /\ current_keymap' = [current_keymap EXCEPT ![h] = RootOf[h]]
             /\ Pending' = {}
          \/ /\ code # RESET_KEYMAP /\ UNCHANGED current_keymap
             /\ Pending' = {code} \ {0}
      BY <2>3, <2>4, PendingOf
    <3> QED
      BY <1>1, <2>1, <2>2, <3>1, LetsGo
  <2> DEFINE newest == Len(Backlog[h])
  <2>6. newest = Len(q) /\ Backlog[h][newest] = k
    BY <1>1, <1>2, <1>5, <2>1, BacklogFacts DEF Touched
  <2>7. ASSUME NEW i \in 1..(newest - 1) PROVE Backlog[h][i] # k
    <3>1. i \in 1..Len(q) /\ i # Len(q)
      BY <1>2, <2>6
    <3>2. Waiting(q, k) = {Len(q)}
      <4>1. input_counts[h][k] \in Nat /\ Alternates(q, input_counts[h][k], k)
        BY <1>1 DEF TypeOK, Alternating
      <4> QED
        BY <1>1, <1>5, <2>1, <4>1, EarlyReleaseIsSole
    <3>3. Backlog[h][i] = Touched(q[i])
      BY <1>1, <3>1, BacklogFacts
    <3>4. k # 0
      BY ResetIsNoKey
    <3>5. i \notin Waiting(q, k)
      BY <3>1, <3>2
    <3> HIDE DEF q
    <3> QED
      BY <3>1, <3>3, <3>4, <3>5 DEF Touched, Waiting
  <2>8. Holds!TakeNewest(h)
    BY <1>1, <1>5, BacklogDropsNewest DEF Holds!TakeNewest
  <2>9. Holds!ReleaseEarly(h)
    <3> HIDE DEF q, code, e
    <3> QED
      BY <1>3, <2>3, <2>5, <2>6, <2>7, <2>8, ReadyAt DEF Holds!ReleaseEarly
  <2> QED
    BY <2>9
<1>6. CASE DropNewest(h) /\ ev.value = 0 /\ ~IsRelease(ev)
  <2>1. ev.type # "EV_KEY" /\ Touched(ev) = 0
    BY <1>6 DEF IsRelease, IsPress, Touched
  <2>2. UNCHANGED unresolved => FALSE
    BY <1>1, <1>2, <1>6, DropLast DEF DropNewest, TypeOK
  <2>3. code # RESET_KEYMAP
    <3>1. ev.code = 0 /\ release_map[h][0] = 0
      BY <1>1, <1>2, <1>6, <2>1 DEF HoldsAt, HoldsWell, Quiet
    <3> QED
      BY <3>1 DEF RESET_KEYMAP, KEY_MAX
  <2>4. sends' = <<e, SynEvent>> /\ UNCHANGED current_keymap
    BY <1>6, <2>2, <2>3 DEF KeepUnresolved, ReleaseEarly
  <2>5. Pending' = {}
    <3>1. e.type # "EV_KEY"
      BY <2>1
    <3> HIDE DEF e
    <3>2. Touched(e) = 0
      BY <3>1 DEF Touched, IsPress, IsRelease
    <3> QED
      BY <2>4, <3>2, PendingOf
  <2>6. Pending = {}
    BY <1>1, PendingOf
  <2>7. UNCHANGED HeldAs
    <3>1. \A g \in Grabs, k \in Keys : Down(g, k, 0)' <=> Down(g, k, 0)
      BY <1>1, <1>6, KeepTakes
    <3> QED
      BY <1>1, <3>1, HeldAsStays
  <2>8. Backlog[h][Len(Backlog[h])] = 0
    BY <1>1, <2>1, BacklogFacts
  <2>9. Holds!TakeNewest(h)
    BY <1>1, <1>6, BacklogDropsNewest DEF Holds!TakeNewest
  <2>10. Holds!Pass(h)
    <3> HIDE DEF e, q, code
    <3> QED
      BY <1>3, <2>4, <2>5, <2>6, <2>7, <2>8, <2>9, ReadyAt DEF Holds!Pass, Holds!Other
  <2> QED
    BY <2>10
<1> QED
  <2>1. \/ UNCHANGED <<unresolved, current_keymap, sends>>
        \/ DropNewest(h) /\ ev.value = 0
    BY DEF KeepUnresolved, ReleaseEarly
  <2> QED
    BY <1>4, <1>5, <1>6, <2>1

-----------------------------------------------------------------------------
(* The output follows                                                      *)

\* Events that do not touch c leave its count alone.
LEMMA LeadsStill ==
  ASSUME NEW s, Len(s) \in Nat, NEW c \in Keys, NEW n \in Nat, NEW m, Leads(s, c, n, m),
         \A i \in 1..Len(s) : Touched(s[i]) # c
  PROVE  m = n
<1>1. PICK count \in [0..Len(s) -> Nat] :
        /\ count[0] = n /\ count[Len(s)] = m
        /\ \A i \in 1..Len(s) :
             count[i] + Num(ReleasesCode(s[i], c)) = count[i - 1] + Num(PressesCode(s[i], c))
  BY DEF Leads
<1> DEFINE P == {i \in 0..Len(s) : count[i] = n}
<1>2. 0 \in P
  BY <1>1
<1>3. ASSUME NEW i \in 1..Len(s), i - 1 \in P PROVE i \in P
  <2>1. ~ReleasesCode(s[i], c) /\ ~PressesCode(s[i], c)
    BY DEF ReleasesCode, PressesCode, Touched
  <2>2. Num(ReleasesCode(s[i], c)) = 0 /\ Num(PressesCode(s[i], c)) = 0
    BY <2>1 DEF Num
  <2>3. count[i] + 0 = count[i - 1] + 0
    BY <1>1, <2>2
  <2>4. i \in 0..Len(s) /\ count[i] \in Nat /\ count[i - 1] = n
    BY <1>1, <1>3
  <2> QED
    BY <2>3, <2>4
<1>4. Len(s) \in P
  <2> HIDE DEF P
  <2>1. \A i \in 0..Len(s) : i \in P
    BY <1>2, <1>3, UpTo
  <2> QED
    BY <2>1
<1> QED
  BY <1>1, <1>4

\* One call of send_dedup() changes one code, or none; and after the last of a code,
\* the code is down if some key is held as it.
LEMMA SendIsStep ==
  ASSUME TypeOK, status = "running", CodesAddUp', SinkIsLogicalOr', TypeOK', Send
  PROVE  Holds!Send \/ UNCHANGED Holds!vars
<1> DEFINE ev == Head(sends)
           c  == Touched(ev)
           t  == Tail(sends)
<1>1. /\ sends \in Seq(Event) /\ sends # <<>> /\ ev \in Event /\ sends' = t /\ send_dedup(ev)
      /\ UNCHANGED <<unresolved, current_keymap, input_counts, release_map, status>>
  BY DEF Send, resolverVars, TypeOK
<1>2. /\ Len(sends) \in Nat \ {0} /\ Len(t) = Len(sends) - 1 /\ Len(t) \in Nat
      /\ sends[1] = ev /\ \A i \in 1..Len(t) : t[i] = sends[i + 1]
  BY <1>1, EmptySeq, HeadTailProperties
<1>3. \A g \in Grabs, k \in Keys : Down(g, k, 0)' <=> Down(g, k, 0)
  BY <1>1 DEF Down
<1>4. UNCHANGED HeldAs /\ UNCHANGED Backlog
  BY <1>1, <1>3, HeldAsStays DEF Backlog
<1> DEFINE rest == {Touched(t[i]) : i \in 1..Len(t)}
<1>5. Pending = (rest \cup {c}) \ {0} /\ Pending' = rest \ {0}
  <2> DEFINE all == {Touched(sends[i]) : i \in 1..Len(sends)}
  <2>1. rest \subseteq all
    <3>1. \A i \in 1..Len(t) : i + 1 \in 1..Len(sends) /\ t[i] = sends[i + 1]
      BY <1>2
    <3> QED
      BY <3>1
  <2>2. c \in all
    <3>1. 1 \in 1..Len(sends)
      BY <1>2
    <3> QED
      BY <1>2, <3>1
  <2>3. all \subseteq rest \cup {c}
    <3> SUFFICES ASSUME NEW i \in 1..Len(sends), i # 1 PROVE Touched(sends[i]) \in rest
      BY <1>2
    <3>1. i - 1 \in 1..Len(t) /\ (i - 1) + 1 = i
      BY <1>2
    <3>2. t[i - 1] = sends[i]
      BY <1>2, <3>1
    <3> QED
      BY <3>1, <3>2
  <2>4. Pending = all \ {0} /\ Pending' = rest \ {0}
    BY <1>1 DEF Pending
  <2> HIDE DEF all, rest
  <2> QED
    BY <2>1, <2>2, <2>3, <2>4
<1> HIDE DEF rest
<1>6. sink' \ {c} = sink \ {c}
  <2>1. IsPress(ev) \/ IsRelease(ev) => ev.code = c
    BY DEF Touched
  <2>2. ~(IsPress(ev) \/ IsRelease(ev)) => UNCHANGED sink
    BY <1>1 DEF send_dedup, DropRelease, SendRelease, SendPress, SendUncounted, SendSyn, dedupVars
  <2>3. IsPress(ev) \/ IsRelease(ev) =>
          \/ sink' = sink \/ sink' = sink \cup {c} \/ sink' = sink \ {c}
    BY <1>1, <2>1 DEF send_dedup, DropRelease, SendRelease, SendPress, SendUncounted, SendSyn, dedupVars
  <2> QED
    BY <2>2, <2>3
<1>7. CASE c = 0
  <2>1. UNCHANGED Pending /\ UNCHANGED (sink \ {0})
    BY <1>5, <1>6, <1>7
  <2> QED
    BY <1>1, <1>4, <2>1 DEF Holds!vars
<1>8. CASE c # 0
  <2>1. c \in Keys /\ c \in Pending
    BY <1>1, <1>5, <1>8 DEF Touched, Event, Codes
  <2>2. (sink \ {0})' \in {sink \ {0}, (sink \ {0}) \cup {c}, (sink \ {0}) \ {c}}
    BY <1>6, <1>8
  <2>3. CASE c \in rest
    <3>1. UNCHANGED Pending
      BY <1>5, <2>3
    <3> QED
      BY <1>1, <1>4, <2>1, <2>2, <3>1 DEF Holds!Send
  <2>4. CASE c \notin rest
    <3>1. Pending' = Pending \ {c}
      BY <1>5, <2>4
    <3>2. PICK k \in Keys : k = c
      BY <2>1
    <3>3. press_count_map'[k] \in Nat /\ k \in Codes
      BY DEF TypeOK, DedupTypeOK, Codes
    <3>4. Leads(t, k, press_count_map'[k], Cardinality(Sources(k)'))
      BY <1>1 DEF CodesAddUp
    <3>5. Cardinality(Sources(k)') = press_count_map'[k]
      <4>1. \A i \in 1..Len(t) : Touched(t[i]) # k
        BY <2>4, <3>2 DEF rest
      <4> HIDE DEF c, t
      <4> QED
        BY <1>2, <3>3, <3>4, <4>1, LeadsStill
    <3>6. k \in sink' <=> Sources(k)' # {}
      <4>1. k \in sink' <=> press_count_map'[k] > 0
        BY <3>3 DEF SinkIsLogicalOr
      <4>2. Cardinality(Sources(k)') = 0 <=> Sources(k)' = {}
        BY SourcesFinite, FS_EmptySet
      <4> QED
        BY <3>3, <3>5, <4>1, <4>2
    <3>7. Sources(k)' = Sources(k)
      BY <1>1, <1>3 DEF Sources
    <3>8. k \in Holds!Wanted <=> Sources(k) # {}
      BY WantedHasSource
    <3>9. c \in (sink \ {0})' <=> c \in Holds!Wanted
      BY <1>8, <3>2, <3>6, <3>7, <3>8
    <3> HIDE DEF c
    <3> QED
      BY <1>1, <1>4, <2>1, <2>2, <3>1, <3>9 DEF Holds!Send
  <2> QED
    BY <2>3, <2>4
<1> QED
  BY <1>7, <1>8

-----------------------------------------------------------------------------
(* The theorem                                                             *)

\* What the keyboards emit is quiet.
LEMMA KeyboardIsQuiet ==
  ASSUME OthersAreNoReleases, TypeOK, HoldsWell, NEW kb \in Kbs, Keyboard(kb)
  PROVE  HoldsWell'
<1>1. UNCHANGED <<release_map, unresolved>>
  BY DEF Keyboard, resolverVars
<1>2. evdev \in [Kbs -> Seq(TimedEvent)]
  BY DEF TypeOK
<1>3. \/ evdev' = [evdev EXCEPT ![kb] = <<>>]
      \/ \E ev : Quiet(ev) /\ evdev' = [evdev EXCEPT ![kb] = Append(@, ev)]
  <2>1. \A k, v : Quiet(Stamped(KeyEvent(k, v), now))
    BY DEF Quiet, Stamped, KeyEvent
  <2>2. Quiet(Stamped(SynEvent, now))
    BY DEF Quiet, Stamped, SynEvent
  <2>3. \A o \in OtherEvents :
          Quiet(Stamped([type |-> "EV_OTHER", code |-> o.code, value |-> o.value], now))
    BY DEF Quiet, Stamped, OthersAreNoReleases
  <2> QED
    BY <2>1, <2>2, <2>3
    DEF Keyboard, KeyDown, KeyUp, KeyRepeat, OtherInput, SynReport, Unplug, Emit
<1>4. ASSUME NEW b \in Kbs, NEW i \in 1..Len(evdev'[b]) PROVE Quiet(evdev'[b][i])
  <2>1. evdev[b] \in Seq(TimedEvent) /\ Len(evdev[b]) \in Nat
    BY <1>2
  <2>2. \A j \in 1..Len(evdev[b]) : Quiet(evdev[b][j])
    BY DEF HoldsWell
  <2>3. CASE evdev'[b] = evdev[b]
    BY <2>2, <2>3
  <2>4. CASE evdev'[b] = <<>>
    BY <2>4
  <2>5. ASSUME NEW ev, Quiet(ev), evdev'[b] = Append(evdev[b], ev)
        PROVE  Quiet(evdev'[b][i])
    <3>1. i \in 1..(Len(evdev[b]) + 1)
      BY <2>1, <2>5
    <3>2. CASE i = Len(evdev[b]) + 1
      BY <2>1, <2>5, <3>2
    <3>3. CASE i # Len(evdev[b]) + 1
      BY <2>1, <2>2, <2>5, <3>1, <3>3
    <3> QED
      BY <3>2, <3>3
  <2> QED
    BY <1>2, <1>3, <2>3, <2>4, <2>5
<1> QED
  BY <1>1, <1>4 DEF HoldsWell

\* What is quiet in the kernel is quiet in the queue.
LEMMA ReadEventIsQuiet ==
  ASSUME TypeOK, HoldsWell, NEW kb \in Kbs, ReadEvent(kb)
  PROVE  HoldsWell'
<1> DEFINE h == GrabOf[kb]
           ev == Head(evdev[kb])
<1>1. /\ UNCHANGED release_map /\ h \in Grabs /\ evdev[kb] # <<>>
      /\ evdev' = [evdev EXCEPT ![kb] = Tail(@)]
      /\ \/ UNCHANGED unresolved
         \/ unresolved' = [unresolved EXCEPT ![h] = Append(@, ev)]
  BY ResolverAssumption DEF ReadEvent
<1>2. evdev \in [Kbs -> Seq(TimedEvent)] /\ unresolved \in [Grabs -> Seq(TimedEvent)]
  BY DEF TypeOK
<1>3. /\ \A b \in Kbs : \A j \in 1..Len(evdev[b]) : Quiet(evdev[b][j])
      /\ \A g \in Grabs : \A j \in 1..Len(unresolved[g]) : Quiet(unresolved[g][j])
  BY DEF HoldsWell
<1>4. /\ evdev[kb] \in Seq(TimedEvent) /\ Len(evdev[kb]) \in Nat \ {0}
      /\ Len(Tail(evdev[kb])) = Len(evdev[kb]) - 1 /\ ev = evdev[kb][1]
      /\ \A j \in 1..(Len(evdev[kb]) - 1) : Tail(evdev[kb])[j] = evdev[kb][j + 1]
  BY <1>1, <1>2, EmptySeq, HeadTailProperties
<1>5. ASSUME NEW b \in Kbs, NEW i \in 1..Len(evdev'[b]) PROVE Quiet(evdev'[b][i])
  <2>1. CASE b # kb
    BY <1>1, <1>2, <1>3, <2>1
  <2>2. CASE b = kb
    <3>1. evdev'[b] = Tail(evdev[kb])
      BY <1>1, <1>2, <2>2
    <3>2. i \in 1..(Len(evdev[kb]) - 1) /\ i + 1 \in 1..Len(evdev[kb])
      BY <1>4, <3>1
    <3> QED
      BY <1>3, <1>4, <3>1, <3>2
  <2> QED
    BY <2>1, <2>2
<1>6. ASSUME NEW g \in Grabs, NEW i \in 1..Len(unresolved'[g]) PROVE Quiet(unresolved'[g][i])
  <2>1. CASE unresolved'[g] = unresolved[g]
    BY <1>3, <2>1
  <2>2. CASE unresolved'[g] = Append(unresolved[g], ev)
    <3>1. unresolved[g] \in Seq(TimedEvent) /\ Len(unresolved[g]) \in Nat
      BY <1>2
    <3>2. Quiet(ev)
      BY <1>3, <1>4
    <3>3. i \in 1..(Len(unresolved[g]) + 1)
      BY <2>2, <3>1
    <3>4. CASE i = Len(unresolved[g]) + 1
      BY <2>2, <3>1, <3>2, <3>4
    <3>5. CASE i # Len(unresolved[g]) + 1
      BY <1>3, <2>2, <3>1, <3>3, <3>5
    <3> QED
      BY <3>4, <3>5
  <2> QED
    BY <1>1, <1>2, <2>1, <2>2
<1> QED
  BY <1>1, <1>5, <1>6 DEF HoldsWell

\* A queue that loses an event at either end stays quiet.
LEMMA DequeueIsQuiet ==
  ASSUME TypeOK, HoldsWell, NEW h \in Grabs, unresolved[h] # <<>>,
         DropOldest(h) \/ DropNewest(h) \/ UNCHANGED unresolved
  PROVE  \A g \in Grabs : \A i \in 1..Len(unresolved'[g]) : Quiet(unresolved'[g][i])
<1> DEFINE q == unresolved[h]
<1>1. /\ unresolved \in [Grabs -> Seq(TimedEvent)] /\ q \in Seq(TimedEvent)
      /\ Len(q) \in Nat \ {0} /\ \A i \in 1..Len(q) : Quiet(q[i])
  BY EmptySeq DEF TypeOK, HoldsWell
<1>2. ASSUME NEW r, NEW d \in {0, 1}, Len(r) = Len(q) - 1,
             \A i \in 1..(Len(q) - 1) : r[i] = q[i + d]
      PROVE  \A i \in 1..Len(r) : Quiet(r[i])
  <2>1. \A i \in 1..(Len(q) - 1) : i + d \in 1..Len(q)
    BY <1>1
  <2> QED
    BY <1>1, <1>2, <2>1
<1>3. \A i \in 1..Len(Tail(q)) : Quiet(Tail(q)[i])
  <2>1. Len(Tail(q)) = Len(q) - 1 /\ \A i \in 1..(Len(q) - 1) : Tail(q)[i] = q[i + 1]
    BY <1>1, HeadTailProperties
  <2> QED
    BY <1>2, <2>1
<1>4. \A i \in 1..Len(SubSeq(q, 1, Len(q) - 1)) : Quiet(SubSeq(q, 1, Len(q) - 1)[i])
  <2> DEFINE r == SubSeq(q, 1, Len(q) - 1)
  <2>1. Len(r) = Len(q) - 1 /\ \A i \in 1..(Len(q) - 1) : r[i] = q[i]
    BY <1>1, DropLast
  <2> HIDE DEF r
  <2>2. \A i \in 1..(Len(q) - 1) : r[i] = q[i + 0]
    BY <1>1, <2>1
  <2>3. \A i \in 1..Len(r) : Quiet(r[i])
    BY <1>2, <2>1, <2>2
  <2> QED
    BY <2>3 DEF r
<1>5. /\ unresolved'[h] \in {q, Tail(q), SubSeq(q, 1, Len(q) - 1)}
      /\ \A g \in Grabs : g # h => unresolved'[g] = unresolved[g]
  BY <1>1 DEF DropOldest, DropNewest
<1> HIDE DEF q
<1>6. \A i \in 1..Len(unresolved'[h]) : Quiet(unresolved'[h][i])
  BY <1>1, <1>3, <1>4, <1>5
<1> QED
  BY <1>5, <1>6 DEF HoldsWell

\* A call of resolve() leaves in release_map what its key was resolved to.
LEMMA ResolveKeepsWell ==
  ASSUME NEW h, HoldsAt(h), UNCHANGED evdev,
         \/ ResolvePress(h) \/ ResolveRelease(h) \/ ResolveRepeat(h)
         \/ ResolveOther(h) \/ KeepUnresolved(h)
  PROVE  HoldsWell'
<1> USE DEF HoldsAt, ResolvesAt
<1>1. \A g \in Grabs : \A i \in 1..Len(unresolved'[g]) : Quiet(unresolved'[g][i])
  <2>1. DropOldest(h) \/ DropNewest(h) \/ UNCHANGED unresolved
    BY DEF ResolvePress, ResolveRelease, ResolveRepeat, ResolveOther, ReturnTrue,
           KeepUnresolved, ReleaseEarly
  <2> QED
    BY <2>1, DequeueIsQuiet
<1>2. release_map \in [Grabs -> [Codes -> Codes \cup {RESET_KEYMAP}]]
  BY DEF TypeOK
<1>3. /\ \A g \in Grabs : release_map[g][0] = 0
      /\ \A g \in Grabs, k \in Keys : release_map[g][k] = RESET_KEYMAP =>
           \E a \in ActionsOf(k) : a.type = "MAP"
  BY DEF HoldsWell
<1>4. ASSUME UNCHANGED release_map PROVE HoldsWell'
  BY <1>1, <1>3, <1>4 DEF HoldsWell
<1>5. ASSUME NEW k \in Keys, NEW code, release_map' = [release_map EXCEPT ![h][k] = code],
             code = RESET_KEYMAP => \E a \in ActionsOf(k) : a.type = "MAP"
      PROVE  HoldsWell'
  <2>1. k # 0 /\ k \in Codes
    BY ResetIsNoKey DEF Codes
  <2>2. \A g \in Grabs, l \in Codes :
          release_map'[g][l] = IF g = h /\ l = k THEN code ELSE release_map[g][l]
    BY <1>2, <1>5, <2>1
  <2>3. 0 \in Codes /\ Keys \subseteq Codes
    BY DEF Codes
  <2>4. /\ \A g \in Grabs : release_map'[g][0] = 0
        /\ \A g \in Grabs, l \in Keys : release_map'[g][l] = RESET_KEYMAP =>
             \E a \in ActionsOf(l) : a.type = "MAP"
    BY <1>3, <1>5, <2>1, <2>2, <2>3
  <2> QED
    BY <1>1, <2>4 DEF HoldsWell
<1>6. CASE ResolvePress(h)
  <2>1. PICK k \in Keys : \E ka \in ActionsOf(k) \cap PlainAction :
          k = Oldest(h).code /\ do_keypress(h, Oldest(h), ka)
    BY <1>6, PressTakes
  <2>2. PICK ka \in ActionsOf(k) \cap PlainAction :
          k = Oldest(h).code /\ do_keypress(h, Oldest(h), ka)
    BY <2>1
  <2>3. CASE ka.type = "SIMPLE"
    <3>1. release_map' = [release_map EXCEPT ![h][k] = ka.simple]
      BY <2>2, <2>3 DEF do_keypress, DoSimple, DoMacro, DoMap, RememberRelease
    <3>2. ka.simple \in Codes
      BY <2>2, <2>3 DEF PlainAction, SimpleAction, MacroAction, MapAction
    <3>3. ka.simple # RESET_KEYMAP
      BY <3>2, ResetIsNoKey DEF Codes, RESET_KEYMAP, KEY_MAX
    <3>4. ka.simple = RESET_KEYMAP => \E a \in ActionsOf(k) : a.type = "MAP"
      BY <3>3
    <3> QED
      BY <1>5, <3>1, <3>4
  <2>4. CASE ka.type = "MACRO"
    BY <1>4, <2>2, <2>4 DEF do_keypress, DoSimple, DoMacro, DoMap
  <2>5. CASE ka.type = "MAP"
    <3>1. release_map' = [release_map EXCEPT ![h][k] = RESET_KEYMAP]
      BY <2>2, <2>5 DEF do_keypress, DoSimple, DoMacro, DoMap, RememberRelease
    <3> QED
      BY <1>5, <2>2, <2>5, <3>1
  <2> QED
    BY <2>2, <2>3, <2>4, <2>5 DEF do_keypress, DoSimple, DoMacro, DoMap
<1>7. CASE ResolveRelease(h)
  <2>1. PICK k \in Keys : k = Oldest(h).code
    BY <1>7, DequeueTypeOK, TimedEventFields DEF ResolveRelease, IsRelease
  <2>2. release_map' = [release_map EXCEPT ![h][k] = 0]
    BY <1>7, <2>1 DEF ResolveRelease
  <2>3. 0 # RESET_KEYMAP
    BY DEF RESET_KEYMAP, KEY_MAX
  <2>4. 0 = RESET_KEYMAP => \E a \in ActionsOf(k) : a.type = "MAP"
    BY <2>3
  <2> QED
    BY <1>5, <2>2, <2>4
<1>8. CASE ResolveRepeat(h) \/ ResolveOther(h) \/ KeepUnresolved(h)
  BY <1>4, <1>8 DEF ResolveRepeat, ResolveOther, KeepUnresolved
<1> QED
  BY <1>6, <1>7, <1>8

\* Every call of resolve() starts where the lemmas about its cases do.
LEMMA ResolveStarts ==
  ASSUME TypeOK, QueueAlternates, OutputInv, HoldsInv, status = "running", Resolve
  PROVE  LET h == resolving IN
         /\ h \in Grabs /\ UNCHANGED <<status, evdev>>
         /\ \/ NothingUnresolved(h) /\ UNCHANGED <<input_counts, sink>>
            \/ /\ HoldsAt(h)
               /\ \/ ResolvePress(h) \/ ResolveRelease(h) \/ ResolveRepeat(h)
                  \/ ResolveOther(h) \/ KeepUnresolved(h)
<1>1. /\ resolving \in Grabs /\ sends = <<>>
      /\ UNCHANGED <<input_counts, press_count_map, sink, status, evdev>>
  BY ResolveCases DEF Resolve, dedupVars, worldVars
<1>2. AddsUp /\ HoldsWell /\ \A g \in Grabs, k \in Keys : Alternating(g, k)
  BY DEF OutputInv, HoldsInv, QueueAlternates, Alternating
<1>3. unresolved[resolving] # <<>> => HoldsAt(resolving)
  BY <1>1, <1>2 DEF HoldsAt, ResolvesAt, AddsUp
<1> QED
  BY <1>1, <1>3 DEF Resolve

\* Every step keeps HoldsInv.
LEMMA NextHoldsInv ==
  ASSUME OthersAreNoReleases, TypeOK, QueueAlternates, OutputInv, HoldsInv, [Next]_vars
  PROVE  HoldsInv'
<1> SUFFICES ASSUME status' = "running" PROVE HoldsWell'
  BY DEF HoldsInv
<1>1. status = "running" /\ HoldsWell
  BY StatusNeverReturns DEF HoldsInv
<1>2. CASE UNCHANGED <<release_map, unresolved, evdev>>
  BY <1>1, <1>2 DEF HoldsWell
<1>3. CASE Resolve
  <2>1. CASE NothingUnresolved(resolving)
    BY <1>2, <1>3, <2>1 DEF NothingUnresolved, resolverVars, Resolve, worldVars
  <2>2. CASE ~NothingUnresolved(resolving)
    BY <1>1, <1>3, <2>2, ResolveStarts, ResolveKeepsWell
  <2> QED
    BY <2>1, <2>2
<1>4. CASE Tick \/ Send \/ UNCHANGED vars
  BY <1>2, <1>4 DEF Tick, Send, vars, resolverVars, worldVars
<1> QED
  BY <1>1, <1>3, <1>4, KeyboardIsQuiet, ReadEventIsQuiet DEF Next, Loop

\* release_map and the queues are empty (Init).
LEMMA InitHoldsInv == Init => HoldsInv
<1> SUFFICES ASSUME Init PROVE HoldsWell
  BY DEF HoldsInv
<1>1. /\ \A g \in Grabs, c \in Codes : release_map[g][c] = 0
      /\ \A g \in Grabs : unresolved[g] = <<>>
      /\ \A kb \in Kbs : evdev[kb] = <<>>
  BY DEF Init
<1>2. 0 # RESET_KEYMAP /\ 0 \in Codes /\ Keys \subseteq Codes
  BY DEF RESET_KEYMAP, KEY_MAX, Codes
<1> QED
  BY <1>1, <1>2 DEF HoldsWell

\* exit(1) is called by the loop, with no call of resolve() under way
StopsAsleep == status # "running" => Asleep

\* The loop never runs again.
LEMMA NextStopsAsleep ==
  ASSUME StopsAsleep, [Next]_vars
  PROVE  StopsAsleep'
BY DEF StopsAsleep, Asleep, Next, Loop, Keyboard, Tick, ReadEvent, Resolve, Send, vars,
       resolverVars, NothingUnresolved

\* At the start no key is down and nothing waits.
LEMMA InitIsHolds ==
  ASSUME Init
  PROVE  Holds!Init
<1>1. Backlog = [g \in Grabs |-> <<>>]
  <2>1. \A g \in Grabs : unresolved[g] = <<>>
    BY DEF Init
  <2>2. [i \in 1..Len(<<>>) |-> Touched(<<>>[i])] = <<>>
    OBVIOUS
  <2> QED
    BY <2>1, <2>2 DEF Backlog
<1>2. HeldAs = Holds!AllUp
  <2>1. \A g \in Grabs, k \in Keys : Held(g, k) = -1
    <3>1. \A g \in Grabs, k \in Keys : Waiting(unresolved[g], k) = {} /\ input_counts[g][k] = 0
      BY DEF Init, Waiting
    <3> QED
      BY <3>1 DEF Held, PressResolved, DownAt
  <2> QED
    BY <2>1 DEF HeldAs, Holds!AllUp, Holds!Up
<1>3. Pending = {}
  BY PendingOf DEF Init
<1>4. sink \ {0} = {} /\ current_keymap = RootOf /\ status = "running"
  BY DEF Init, DedupInit
<1> QED
  BY <1>1, <1>2, <1>3, <1>4 DEF Holds!Init

\* Every step is a step of KeyHolds, or none.
LEMMA NextIsHolds ==
  ASSUME NoTimeoutOnly, MacroKeysAreNoOthers, MacroKeysAreNoLayers, MacrosAreClosed,
         TypeOK, QueueAlternates, OutputInv, HoldsInv, StopsAsleep, [Next]_vars,
         TypeOK', OutputInv', SinkIsLogicalOr'
  PROVE  Holds!Next \/ UNCHANGED Holds!vars
<1>1. CASE UNCHANGED <<unresolved, input_counts, release_map, current_keymap, sends, sink, status>>
  <2>1. UNCHANGED HeldAs
    BY <1>1 DEF HeldAs, Held, PressResolved
  <2> QED
    BY <1>1, <2>1, HoldsStutters
<1>2. CASE (\E kb \in Kbs : Keyboard(kb)) \/ Tick \/ UNCHANGED vars
  BY <1>1, <1>2 DEF Keyboard, Tick, vars, resolverVars, dedupVars
<1>3. CASE \E kb \in Kbs : ReadEvent(kb)
  BY <1>3, ReadEventIsStep DEF ReadEvent
<1>4. CASE status # "running" /\ (Resolve \/ Send)
  BY <1>4 DEF StopsAsleep, Asleep, Resolve, Send
<1>5. CASE status = "running" /\ Send
  <2>1. CodesAddUp'
    BY <1>5 DEF OutputInv, AddsUp, Send
  <2> QED
    BY <1>5, <2>1, SendIsStep DEF Holds!Next
<1>6. CASE status = "running" /\ Resolve
  <2>1. CASE NothingUnresolved(resolving)
    BY <1>1, <1>6, <2>1 DEF NothingUnresolved, resolverVars, Resolve, dedupVars
  <2>2. CASE ~NothingUnresolved(resolving)
    <3>1. /\ resolving \in Grabs /\ HoldsAt(resolving)
          /\ \/ ResolvePress(resolving) \/ ResolveRelease(resolving)
             \/ ResolveRepeat(resolving) \/ ResolveOther(resolving) \/ KeepUnresolved(resolving)
      BY <1>6, <2>2, ResolveStarts
    <3> QED
      BY <3>1, PressIsStep, ReleaseIsStep, PassIsStep, KeepIsStep DEF Holds!Next
  <2> QED
    BY <2>1, <2>2
<1> QED
  BY <1>2, <1>3, <1>4, <1>5, <1>6 DEF Next, Loop

\* What the resolver promises to who types, it keeps: with no TIMEOUT_ONLY key, macros
\* that release what they press, no key that is a macro in one place and an ordinary key
\* or a keymap key in another, and no foreign event that looks like the release of a key,
\* a key is held as one thing from its press to its release, keys are decided in order
\* but for releases let through, and the output goes by what the keys are held as
\* (resolve, send_dedup).
THEOREM KeyHoldsImplemented ==
  ASSUME NoTimeoutOnly, MacroKeysAreNoOthers, MacroKeysAreNoLayers, MacrosAreClosed,
         OthersAreNoReleases
  PROVE  Spec => ImplementsKeyHolds
<1> DEFINE Inv == /\ TypeOK /\ QueueAlternates /\ OutputInv /\ HoldsInv
                  /\ StopsAsleep /\ SinkIsLogicalOr
<1>1. Spec => []Inv
  <2>1. Init => OutputInv /\ HoldsInv /\ StopsAsleep
    BY InitOutputInv, InitHoldsInv DEF Init, StopsAsleep
  <2>2. TypeOK /\ QueueAlternates /\ OutputInv /\ HoldsInv /\ StopsAsleep /\ [Next]_vars
          => OutputInv' /\ HoldsInv' /\ StopsAsleep'
    BY NextOutputInv, NextHoldsInv, NextStopsAsleep
  <2> QED
    BY <2>1, <2>2, TypeCorrect, QueueCorrect, SinkCorrect, PTL DEF Spec
<1>2. Init => Holds!Init
  BY InitIsHolds
<1>3. Inv /\ Inv' /\ [Next]_vars => [Holds!Next]_(Holds!vars)
  BY NextIsHolds
<1> HIDE DEF Inv
<1>4. Spec => Holds!Spec
  BY <1>1, <1>2, <1>3, PTL DEF Spec, Holds!Spec
<1> QED
  BY <1>4 DEF ImplementsKeyHolds

-----------------------------------------------------------------------------
(* What KeyHolds says of the output                                        *)

\* Only what a key was held as, and what it is held as now, may cease or come to be
\* wanted.
LEMMA WantedChanges ==
  ASSUME NEW h \in Grabs, NEW k \in Keys, NEW what, Holds!Hold(h, k, what),
         NEW c \in Keys, c # what, c # HeldAs[h][k]
  PROVE  c \in Holds!Wanted' <=> c \in Holds!Wanted
<1>1. HeldAs = [g \in Grabs |-> HeldAs[g]] /\ HeldAs[h] = [l \in Keys |-> HeldAs[h][l]]
  BY DEF HeldAs
<1>2. \A g \in Grabs, l \in Keys :
        HeldAs'[g][l] = IF g = h /\ l = k THEN what ELSE HeldAs[g][l]
  BY <1>1 DEF Holds!Hold
<1>3. \A g \in Grabs, l \in Keys : HeldAs'[g][l] = c <=> HeldAs[g][l] = c
  BY <1>2
<1> QED
  BY <1>3 DEF Holds!Wanted

\* A key that is let go leaves one code to be changed.
LEMMA LetGoKeepsOutput ==
  ASSUME Holds!OutputIsAsHeld, NEW h \in Grabs, Holds!Ready(h), NEW k, Holds!LetGo(h, k)
  PROVE  Holds!OutputIsAsHeld'
<1> SUFFICES ASSUME NEW c \in Keys, c \notin Pending'
             PROVE  c \in (sink \ {0})' <=> c \in Holds!Wanted'
  BY DEF Holds!OutputIsAsHeld
<1>1. /\ k \in Keys /\ Holds!Hold(h, k, -1) /\ UNCHANGED (sink \ {0})
      /\ Pending = {} /\ status = "running"
  BY DEF Holds!LetGo, Holds!Up, Holds!Ready
<1>2. c # 0 /\ c # -1 /\ c # RESET_KEYMAP
  BY ResetIsNoKey, KeysAssumption
<1>3. c # HeldAs[h][k]
  BY <1>2, LayerIsReset DEF Holds!LetGo, Holds!Change
<1>4. c \in Holds!Wanted' <=> c \in Holds!Wanted
  BY <1>1, <1>2, <1>3, WantedChanges
<1> QED
  BY <1>1, <1>4 DEF Holds!OutputIsAsHeld

\* Every step of KeyHolds keeps the output to what is held.
LEMMA HoldsKeepOutput ==
  ASSUME Holds!OutputIsAsHeld, Holds!Next \/ UNCHANGED Holds!vars
  PROVE  Holds!OutputIsAsHeld'
<1>1. CASE UNCHANGED <<HeldAs, Pending, sink \ {0}, (status = "running")>>
  BY <1>1 DEF Holds!OutputIsAsHeld, Holds!Wanted
<1>2. ASSUME NEW h \in Grabs, Holds!Press(h) PROVE Holds!OutputIsAsHeld'
  <2> SUFFICES ASSUME NEW c \in Keys, c \notin Pending'
               PROVE  c \in (sink \ {0})' <=> c \in Holds!Wanted'
    BY DEF Holds!OutputIsAsHeld
  <2> DEFINE k == Head(Backlog[h])
  <2>1. /\ k \in Keys /\ HeldAs[h][k] = -1 /\ UNCHANGED (sink \ {0})
        /\ Pending = {} /\ status = "running"
    BY <1>2 DEF Holds!Press, Holds!Undecided, Holds!Up, Holds!Ready
  <2>2. c # 0 /\ c # -1 /\ c # RESET_KEYMAP
    BY ResetIsNoKey, KeysAssumption
  <2>3. PICK what : Holds!Hold(h, k, what) /\ c # what
    BY <1>2, <2>2, LayerIsReset DEF Holds!Press, Holds!Nothing, Holds!Change
  <2>4. PICK l \in Keys : l = k
    BY <2>1
  <2>5. c \in Holds!Wanted' <=> c \in Holds!Wanted
    BY <2>1, <2>2, <2>3, <2>4, WantedChanges
  <2> QED
    BY <2>1, <2>5 DEF Holds!OutputIsAsHeld
<1>3. ASSUME NEW h \in Grabs, Holds!Release(h) \/ Holds!ReleaseEarly(h)
      PROVE  Holds!OutputIsAsHeld'
  <2>1. Holds!Ready(h) /\ \E k : Holds!LetGo(h, k)
    BY <1>3 DEF Holds!Release, Holds!ReleaseEarly
  <2> QED
    BY <2>1, LetGoKeepsOutput
<1>4. ASSUME NEW h \in Grabs, Holds!Touch(h) \/ Holds!Pass(h) PROVE Holds!OutputIsAsHeld'
  BY <1>1, <1>4 DEF Holds!Touch, Holds!Pass
<1>5. CASE Holds!Send
  <2>1. UNCHANGED HeldAs
    BY <1>5 DEF Holds!Send
  <2>2. UNCHANGED Holds!Wanted
    BY <2>1 DEF Holds!Wanted
  <2> QED
    BY <1>5, <2>2 DEF Holds!Send, Holds!OutputIsAsHeld
<1>6. CASE Holds!Overflow
  BY <1>6 DEF Holds!Overflow, Holds!OutputIsAsHeld
<1> QED
  BY <1>1, <1>2, <1>3, <1>4, <1>5, <1>6 DEF Holds!Next, Holds!vars

\* What follows from the promise alone: a code that is not just being changed is down
\* exactly if some key is held as it (release_map, send_dedup).
THEOREM OutputFollows ==
  ASSUME NoTimeoutOnly, MacroKeysAreNoOthers, MacroKeysAreNoLayers, MacrosAreClosed,
         OthersAreNoReleases
  PROVE  Spec => []OutputIsAsHeld
<1>1. Holds!Init => Holds!OutputIsAsHeld
  BY KeysAssumption
  DEF Holds!Init, Holds!AllUp, Holds!Up, Holds!OutputIsAsHeld, Holds!Wanted
<1>2. Holds!OutputIsAsHeld /\ [Holds!Next]_(Holds!vars) => Holds!OutputIsAsHeld'
  BY HoldsKeepOutput
<1>3. Spec => Holds!Spec
  BY KeyHoldsImplemented DEF ImplementsKeyHolds
<1>4. Spec => []Holds!OutputIsAsHeld
  BY <1>1, <1>2, <1>3, PTL DEF Holds!Spec
<1> QED
  BY <1>4 DEF OutputIsAsHeld

=============================================================================
