--------------------------- MODULE KeymapsProofs ----------------------------
(***************************************************************************)
(* Theorems about the configuration, for every KeyMax, whatever script is *)
(* run and however often it calls what: the keymaps it grabs are what the  *)
(* resolver takes for granted, its macros leave nothing down, its copies   *)
(* share nothing, and the first pattern to match a keyboard decides.       *)
(***************************************************************************)
EXTENDS Keymaps, FoldLemmas, SequenceTheorems, FiniteSetTheorems

-----------------------------------------------------------------------------
(* The key actions a script may make                                       *)

Steps == KeyCodes \cup {Tap, Hold}

Macros(o) ==
  {m \in Seq([code : KeyCodes, press : BOOLEAN, owner : {o}]) : m # <<>> /\ Closed(m)}

PlainStructs(o) ==
  {None} \cup [type : {"SIMPLE"}, simple : KeyCodes] \cup [type : {"MACRO"}, macro : Macros(o)]

DualStructs(o) ==
  [type : {"DUAL"}, owner : {o}, mode : ModeRange,
   hold_ms : {n \in Int : n >= 1}, double_tap_ms : {n \in Int : n >= -1}]

MapStructs(o) == [type : {"MAP"}, owner : {o}]

Structs(o) == PlainStructs(o) \cup DualStructs(o) \cup MapStructs(o)

Trees(o) == UNION {[D -> Structs(o)] : D \in SUBSET Seq(Steps)}

\* a struct has what it refers to
Joined(ka, path) ==
  /\ ka[path].type = "MAP" => \A c \in KeyCodes : Append(path, c) \in DOMAIN ka
  /\ ka[path].type = "DUAL" =>
       /\ Append(path, Tap) \in DOMAIN ka
       /\ Append(path, Hold) \in DOMAIN ka
       /\ ka[Append(path, Tap)].type \in {"NONE", "SIMPLE", "MACRO"}
       /\ ka[Append(path, Hold)].type # "DUAL"

\* A key action before it is filled, of a script that has set no field for the keys C.
WellMade(ka, C) ==
  /\ <<>> \in DOMAIN ka
  /\ \A path \in DOMAIN ka : Joined(ka, path)
  /\ Root(ka).type = "MAP" => \A path \in DOMAIN ka : path # <<>> => Head(path) \in KeyCodes
  /\ \A path \in DOMAIN ka, c \in C \cap KeyCodes :
       ka[path].type = "MAP" => ka[Append(path, c)] = None

Actions(o, C) == {ka \in Trees(o) : WellMade(ka, C)}

LEMMA KeyCodesAreNoHalves ==
  /\ KeyCodes \subseteq Nat /\ Tap \notin KeyCodes /\ Hold \notin KeyCodes /\ Tap # Hold
BY KeymapsAssumption DEF KeymapsAssumption, KeyCodes, Tap, Hold

\* The fields of a struct go with its type.
LEMMA StructTypes ==
  ASSUME NEW o, NEW s \in Structs(o)
  PROVE  /\ s.type \in {"NONE", "SIMPLE", "MACRO", "DUAL", "MAP"}
         /\ s.type = "NONE" <=> s = None
         /\ s.type = "SIMPLE" <=> s \in [type : {"SIMPLE"}, simple : KeyCodes]
         /\ s.type = "MACRO" <=> s \in [type : {"MACRO"}, macro : Macros(o)]
         /\ s.type = "DUAL" <=> s \in DualStructs(o)
         /\ s.type = "MAP" <=> s \in MapStructs(o)
         /\ s \in PlainStructs(o) <=> s.type \in {"NONE", "SIMPLE", "MACRO"}
BY DEF Structs, PlainStructs, DualStructs, MapStructs, None

\* A key action maps paths to structs.
LEMMA TreeFields ==
  ASSUME NEW o, NEW ka \in Trees(o)
  PROVE  /\ DOMAIN ka \subseteq Seq(Steps) /\ ka \in [DOMAIN ka -> Structs(o)]
         /\ \A path \in DOMAIN ka : path \in Seq(Steps) /\ ka[path] \in Structs(o)
BY DEF Trees

\* How a step at the end of a path goes with the first step of the path.
LEMMA PathSteps ==
  ASSUME NEW S, NEW path \in Seq(S), NEW s \in S
  PROVE  /\ Append(path, s) \in Seq(S) /\ Append(path, s) # <<>>
         /\ path = <<>> => Head(Append(path, s)) = s /\ Tail(Append(path, s)) = <<>>
         /\ path # <<>> => /\ Head(path) \in S /\ Tail(path) \in Seq(S)
                           /\ Head(Append(path, s)) = Head(path)
                           /\ Tail(Append(path, s)) = Append(Tail(path), s)
<1>1. Append(path, s) \in Seq(S) /\ Append(path, s) # <<>>
  BY AppendProperties
<1>2. ASSUME path = <<>>
      PROVE  Head(Append(path, s)) = s /\ Tail(Append(path, s)) = <<>>
  BY <1>2
<1>3. ASSUME path # <<>>
      PROVE  /\ Head(path) \in S /\ Tail(path) \in Seq(S)
             /\ Head(Append(path, s)) = Head(path)
             /\ Tail(Append(path, s)) = Append(Tail(path), s)
  <2>1. Head(path) \in S /\ Tail(path) \in Seq(S) /\ Head(Append(path, s)) = Head(path)
    BY <1>3
  <2>2. Tail(Append(path, s)) \in Seq(S) /\ Append(Tail(path), s) \in Seq(S)
    BY <1>1, <2>1
  <2>3. Len(Tail(Append(path, s))) = Len(path) /\ Len(Append(Tail(path), s)) = Len(path)
    BY <1>1, <1>3, <2>1
  <2>4. ASSUME NEW i \in 1..Len(path)
        PROVE  Tail(Append(path, s))[i] = Append(Tail(path), s)[i]
    BY <1>1, <1>3, <2>1
  <2> QED
    BY <2>1, <2>2, <2>3, <2>4, SeqEqual
<1> QED
  BY <1>1, <1>2, <1>3

\* A leaf is a key action.
LEMMA LeafWellMade ==
  ASSUME NEW o, NEW C, NEW s \in PlainStructs(o)
  PROVE  Leaf(s) \in Actions(o, C) /\ Root(Leaf(s)) = s /\ <<>> \in DOMAIN Leaf(s)
<1>1. s \in Structs(o) /\ s.type \in {"NONE", "SIMPLE", "MACRO"}
  BY StructTypes DEF Structs
<1>2. DOMAIN Leaf(s) = {<<>>} /\ Leaf(s)[<<>>] = s
  BY DEF Leaf
<1>3. Leaf(s) \in Trees(o)
  <2>1. {<<>>} \in SUBSET Seq(Steps)
    OBVIOUS
  <2>2. Leaf(s) \in [{<<>>} -> Structs(o)]
    BY <1>1 DEF Leaf
  <2> QED
    BY <2>1, <2>2 DEF Trees
<1> QED
  BY <1>1, <1>2, <1>3 DEF Actions, WellMade, Joined, Root

\* where the paths of a node lead to, by their first step
LeadsTo(node, s, children) ==
  /\ <<>> \in DOMAIN node /\ node[<<>>] = s /\ DOMAIN node \subseteq Seq(Steps)
  /\ \A path \in Seq(Steps) \ {<<>>} :
       /\ path \in DOMAIN node <=>
            Head(path) \in DOMAIN children /\ Tail(path) \in DOMAIN children[Head(path)]
       /\ path \in DOMAIN node => node[path] = children[Head(path)][Tail(path)]

\* The paths of a node are those of its children, each behind a step.
LEMMA NodePaths ==
  ASSUME NEW s, NEW D \in SUBSET Steps, NEW children, DOMAIN children = D,
         \A d \in D : DOMAIN children[d] \subseteq Seq(Steps)
  PROVE  LeadsTo(Node(s, children), s, children)
<1> DEFINE node == Node(s, children)
           below(d) == {<<d>> \o p : p \in DOMAIN children[d]}
<1>1. DOMAIN node = {<<>>} \cup UNION {below(d) : d \in D}
  BY DEF Node
<1>2. \A path \in DOMAIN node :
        node[path] = IF path = <<>> THEN s ELSE children[Head(path)][Tail(path)]
  BY DEF Node
<1>3. ASSUME NEW d \in D,
             NEW p \in DOMAIN children[d]
      PROVE  /\ <<d>> \o p \in Seq(Steps) /\ <<d>> \o p # <<>>
             /\ Head(<<d>> \o p) = d /\ Tail(<<d>> \o p) = p
  <2>1. d \in Steps /\ p \in Seq(Steps) /\ <<d>> \in Seq(Steps) /\ Len(<<d>>) = 1
    OBVIOUS
  <2>2. /\ <<d>> \o p \in Seq(Steps) /\ Len(<<d>> \o p) = 1 + Len(p)
        /\ \A i \in 1..(1 + Len(p)) : (<<d>> \o p)[i] = IF i <= 1 THEN <<d>>[i] ELSE p[i - 1]
    BY <2>1, ConcatProperties
  <2>3. <<d>> \o p # <<>> /\ Head(<<d>> \o p) = d
    BY <2>1, <2>2
  <2>4. /\ Tail(<<d>> \o p) \in Seq(Steps) /\ Len(Tail(<<d>> \o p)) = Len(p)
        /\ \A i \in 1..Len(p) : Tail(<<d>> \o p)[i] = (<<d>> \o p)[i + 1]
    BY <2>1, <2>2, <2>3, HeadTailProperties
  <2>5. \A i \in 1..Len(p) : Tail(<<d>> \o p)[i] = p[i]
    BY <2>1, <2>2, <2>4
  <2>6. Tail(<<d>> \o p) = p
    BY <2>1, <2>4, <2>5, SeqEqual
  <2> QED
    BY <2>2, <2>3, <2>6
<1>4. ASSUME NEW path \in Seq(Steps) \ {<<>>}, Head(path) \in D,
             Tail(path) \in DOMAIN children[Head(path)]
      PROVE  path \in DOMAIN node
  <2>1. path = <<Head(path)>> \o Tail(path)
    <3>1. /\ Tail(path) \in Seq(Steps) /\ Len(Tail(path)) = Len(path) - 1
          /\ \A i \in 1..Len(Tail(path)) : Tail(path)[i] = path[i + 1]
      BY HeadTailProperties
    <3>2. <<Head(path)>> \in Seq(Steps) /\ Len(<<Head(path)>>) = 1 /\ Head(path) = path[1]
      OBVIOUS
    <3>3. /\ <<Head(path)>> \o Tail(path) \in Seq(Steps)
          /\ Len(<<Head(path)>> \o Tail(path)) = Len(path)
          /\ \A i \in 1..Len(path) : (<<Head(path)>> \o Tail(path))[i]
               = IF i <= 1 THEN <<Head(path)>>[i] ELSE Tail(path)[i - 1]
      BY <3>1, <3>2, ConcatProperties
    <3>4. \A i \in 1..Len(path) : (<<Head(path)>> \o Tail(path))[i] = path[i]
      BY <3>1, <3>2, <3>3
    <3> QED
      BY <3>3, <3>4, SeqEqual
  <2>2. path \in below(Head(path))
    BY <1>4, <2>1
  <2> QED
    BY <1>1, <1>4, <2>2
<1>5. ASSUME NEW path \in DOMAIN node, path # <<>>
      PROVE  /\ path \in Seq(Steps) /\ Head(path) \in D
             /\ Tail(path) \in DOMAIN children[Head(path)]
  <2>1. PICK d \in D : path \in below(d)
    BY <1>1, <1>5
  <2>2. PICK p \in DOMAIN children[d] : path = <<d>> \o p
    BY <2>1
  <2> QED
    BY <1>3, <2>2
<1>6. <<>> \in DOMAIN node /\ node[<<>>] = s
  BY <1>1, <1>2
<1> HIDE DEF node
<1>7. DOMAIN node \subseteq Seq(Steps)
  <2>1. <<>> \in Seq(Steps)
    OBVIOUS
  <2> QED
    BY <1>5, <2>1
<1> QED
  BY <1>2, <1>4, <1>5, <1>6, <1>7 DEF node, LeadsTo

\* A node whose children are key actions, and which refers to what it should, is one.
LEMMA NodeWellMade ==
  ASSUME NEW o, NEW C, NEW D \in SUBSET Steps, NEW children \in [D -> Actions(o, C)],
         NEW s \in DualStructs(o) \cup MapStructs(o),
         s \in MapStructs(o) => /\ D = KeyCodes
                                /\ \A c \in C \cap KeyCodes : Root(children[c]) = None,
         s \in DualStructs(o) =>
           /\ D = {Tap, Hold}
           /\ Root(children[Tap]).type \in {"NONE", "SIMPLE", "MACRO"}
           /\ Root(children[Hold]).type # "DUAL"
  PROVE  Node(s, children) \in Actions(o, C) /\ Root(Node(s, children)) = s
<1> DEFINE node == Node(s, children)
<1>1. \A d \in D : /\ children[d] \in Trees(o) /\ WellMade(children[d], C)
                   /\ <<>> \in DOMAIN children[d] /\ DOMAIN children[d] \subseteq Seq(Steps)
  BY TreeFields DEF Actions, WellMade
<1>2. /\ <<>> \in DOMAIN node /\ node[<<>>] = s /\ DOMAIN node \subseteq Seq(Steps)
      /\ \A path \in Seq(Steps) \ {<<>>} :
           /\ path \in DOMAIN node <=>
                Head(path) \in D /\ Tail(path) \in DOMAIN children[Head(path)]
           /\ path \in DOMAIN node => node[path] = children[Head(path)][Tail(path)]
  <2>1. DOMAIN children = D
    OBVIOUS
  <2>2. \A d \in D : DOMAIN children[d] \subseteq Seq(Steps)
    BY <1>1
  <2>3. LeadsTo(node, s, children)
    BY <2>1, <2>2, NodePaths
  <2> HIDE DEF node
  <2> QED
    BY <2>1, <2>3 DEF LeadsTo
<1>3. \A d \in D : /\ <<d>> \in DOMAIN node /\ node[<<d>>] = Root(children[d])
                   /\ Append(<<>>, d) = <<d>>
  <2> SUFFICES ASSUME NEW d \in D
               PROVE  /\ <<d>> \in DOMAIN node /\ node[<<d>>] = Root(children[d])
                      /\ Append(<<>>, d) = <<d>>
    OBVIOUS
  <2>1. <<d>> \in Seq(Steps) \ {<<>>} /\ Head(<<d>>) = d /\ Tail(<<d>>) = <<>>
    OBVIOUS
  <2>2. Append(<<>>, d) = <<d>>
    OBVIOUS
  <2> DEFINE p == <<d>>
  <2> HIDE DEF node, p
  <2>3. p \in Seq(Steps) \ {<<>>} /\ Head(p) = d /\ Tail(p) = <<>>
    BY <2>1 DEF p
  <2>4. p \in DOMAIN node /\ node[p] = children[d][<<>>]
    BY <1>1, <1>2, <2>3
  <2> QED
    BY <2>2, <2>4 DEF Root, p
<1>4. /\ s \in Structs(o)
      /\ s.type = "MAP" <=> s \in MapStructs(o)
      /\ s.type = "DUAL" <=> s \in DualStructs(o)
  BY StructTypes DEF Structs
\* below the root a node is as its children are
<1>5. ASSUME NEW path \in DOMAIN node, path # <<>>
      PROVE  LET d == Head(path) p == Tail(path) IN
             /\ d \in D /\ p \in DOMAIN children[d]
             /\ node[path] = children[d][p] /\ node[path] \in Structs(o)
             /\ \A t \in Steps :
                  /\ Append(path, t) \in DOMAIN node <=> Append(p, t) \in DOMAIN children[d]
                  /\ Append(p, t) \in DOMAIN children[d] =>
                       node[Append(path, t)] = children[d][Append(p, t)]
  <2> DEFINE d == Head(path)
             p == Tail(path)
  <2>1. path \in Seq(Steps)
    BY <1>2
  <2>2. d \in D /\ p \in DOMAIN children[d] /\ node[path] = children[d][p]
    BY <1>2, <1>5, <2>1
  <2>3. node[path] \in Structs(o)
    BY <1>1, <2>2, TreeFields
  <2>4. ASSUME NEW t \in Steps
        PROVE  /\ Append(path, t) \in Seq(Steps) \ {<<>>}
               /\ Head(Append(path, t)) = d /\ Tail(Append(path, t)) = Append(p, t)
    BY <1>5, <2>1, PathSteps
  <2> HIDE DEF node
  <2> QED
    BY <1>2, <2>2, <2>3, <2>4
<1> HIDE DEF node
<1>6. node \in Trees(o)
  <2>1. \A path \in DOMAIN node : node[path] \in Structs(o)
    BY <1>2, <1>4, <1>5
  <2>2. node = [path \in DOMAIN node |-> node[path]]
    BY DEF node, Node
  <2>3. node \in [DOMAIN node -> Structs(o)]
    BY <2>1, <2>2
  <2> QED
    BY <1>2, <2>3 DEF Trees
<1>7. ASSUME NEW path \in DOMAIN node
      PROVE  Joined(node, path)
  <2>1. CASE path = <<>>
    <3>1. ASSUME s \in MapStructs(o), NEW c \in KeyCodes
          PROVE  Append(<<>>, c) \in DOMAIN node
      BY <1>3, <3>1
    <3>2. ASSUME s \in DualStructs(o)
          PROVE  /\ Append(<<>>, Tap) \in DOMAIN node /\ Append(<<>>, Hold) \in DOMAIN node
                 /\ node[Append(<<>>, Tap)].type \in {"NONE", "SIMPLE", "MACRO"}
                 /\ node[Append(<<>>, Hold)].type # "DUAL"
      <4>1. Tap \in D /\ Hold \in D
        BY <3>2
      <4>2. /\ Append(<<>>, Tap) = <<Tap>> /\ Append(<<>>, Hold) = <<Hold>>
            /\ <<Tap>> \in DOMAIN node /\ <<Hold>> \in DOMAIN node
            /\ node[<<Tap>>] = Root(children[Tap]) /\ node[<<Hold>>] = Root(children[Hold])
        BY <1>3, <4>1
      <4> QED
        BY <3>2, <4>2
    <3> QED
      BY <1>2, <1>4, <2>1, <3>1, <3>2 DEF Joined
  <2>2. CASE path # <<>>
    <3> DEFINE d == Head(path)
               p == Tail(path)
    <3>1. Joined(children[d], p)
      BY <1>1, <1>5, <2>2 DEF WellMade
    <3>2. Tap \in Steps /\ Hold \in Steps /\ KeyCodes \subseteq Steps
      BY DEF Steps
    <3>3. node[path] = children[d][p]
      BY <1>5, <2>2
    <3>4. \A t \in Steps :
            /\ Append(path, t) \in DOMAIN node <=> Append(p, t) \in DOMAIN children[d]
            /\ Append(p, t) \in DOMAIN children[d] =>
                 node[Append(path, t)] = children[d][Append(p, t)]
      BY <1>5, <2>2
    <3> HIDE DEF d, p
    <3> QED
      BY <3>1, <3>2, <3>3, <3>4 DEF Joined
  <2> QED
    BY <2>1, <2>2
<1>8. ASSUME Root(node).type = "MAP", NEW path \in DOMAIN node, path # <<>>
      PROVE  Head(path) \in KeyCodes
  BY <1>2, <1>4, <1>5, <1>8 DEF Root
<1>9. ASSUME NEW path \in DOMAIN node, NEW c \in C \cap KeyCodes, node[path].type = "MAP"
      PROVE  node[Append(path, c)] = None
  <2>1. CASE path = <<>>
    BY <1>2, <1>3, <1>4, <1>9, <2>1
  <2>2. CASE path # <<>>
    <3> DEFINE d == Head(path)
               p == Tail(path)
    <3>1. /\ d \in D /\ p \in DOMAIN children[d] /\ children[d][p].type = "MAP"
          /\ Append(p, c) \in DOMAIN children[d] =>
               node[Append(path, c)] = children[d][Append(p, c)]
      BY <1>5, <1>9, <2>2 DEF Steps
    <3>2. WellMade(children[d], C)
      BY <1>1, <3>1
    <3> HIDE DEF d, p
    <3>3. Append(p, c) \in DOMAIN children[d] /\ children[d][Append(p, c)] = None
      BY <3>1, <3>2 DEF WellMade, Joined
    <3> QED
      BY <3>1, <3>3
  <2> QED
    BY <2>1, <2>2
<1> QED
  BY <1>2, <1>6, <1>7, <1>8, <1>9 DEF node, Actions, WellMade, Root

-----------------------------------------------------------------------------
(* Copies                                                                  *)

\* The copy of a macro is a macro.
LEMMA MacroDup ==
  ASSUME NEW o, NEW p, NEW m \in Macros(p)
  PROVE  key_macro_dup(m, o) \in Macros(o)
<1> DEFINE Cell(q) == [code : KeyCodes, press : BOOLEAN, owner : {q}]
           copy == key_macro_dup(m, o)
<1>1. m \in Seq(Cell(p)) /\ m # <<>> /\ Closed(m)
  BY DEF Macros
<1>2. /\ Len(m) \in Nat \ {0} /\ DOMAIN m = 1..Len(m)
      /\ \A i \in 1..Len(m) : m[i] \in Cell(p)
  <2> HIDE DEF Cell
  <2> QED
    BY <1>1
<1>3. \A i \in 1..Len(m) : /\ [m[i] EXCEPT !.owner = o] \in Cell(o)
                           /\ [m[i] EXCEPT !.owner = o].code = m[i].code
                           /\ [m[i] EXCEPT !.owner = o].press = m[i].press
  BY <1>2
<1>4. copy = [i \in 1..Len(m) |-> [m[i] EXCEPT !.owner = o]]
  BY <1>2 DEF key_macro_dup, Owned
<1> HIDE DEF Cell, copy
<1>5. /\ copy \in [1..Len(m) -> Cell(o)]
      /\ \A i \in 1..Len(m) : copy[i].code = m[i].code /\ copy[i].press = m[i].press
  BY <1>3, <1>4
<1>6. copy \in Seq(Cell(o)) /\ Len(copy) = Len(m) /\ DOMAIN copy = DOMAIN m /\ copy # <<>>
  BY <1>2, <1>5
<1>7. ASSUME NEW n \in 0..Len(m), NEW ev
      PROVE  Count(copy, n, ev) = Count(m, n, ev)
  <2>1. \A i \in 1..n : i \in 1..Len(m)
    BY <1>2
  <2>2. \A i \in 1..n : [code |-> copy[i].code, press |-> copy[i].press]
                        = [code |-> m[i].code, press |-> m[i].press]
    BY <1>5, <2>1
  <2>3. {i \in 1..n : [code |-> copy[i].code, press |-> copy[i].press] = ev}
        = {i \in 1..n : [code |-> m[i].code, press |-> m[i].press] = ev}
    BY <2>2
  <2> QED
    BY <2>3 DEF Count
<1>8. \A n \in DOMAIN m : n \in 0..Len(m)
  BY <1>2
<1>9. Len(m) \in 0..Len(m)
  BY <1>2
<1>10. Closed(copy)
  BY <1>1, <1>6, <1>7, <1>8, <1>9 DEF Closed
<1> QED
  BY <1>6, <1>10 DEF Macros, Cell, copy

\* The copy of a struct is one of its type.
LEMMA StructDupWell ==
  ASSUME NEW o, NEW p, NEW s \in Structs(p)
  PROVE  /\ StructDup(s, o) \in Structs(o) /\ StructDup(s, o).type = s.type
         /\ s = None => StructDup(s, o) = None
<1>1. CASE s.type = "MACRO"
  <2>1. s \in [type : {"MACRO"}, macro : Macros(p)]
    BY <1>1, StructTypes
  <2>2. key_macro_dup(s.macro, o) \in Macros(o)
    BY <2>1, MacroDup
  <2>3. StructDup(s, o) = [s EXCEPT !.macro = key_macro_dup(s.macro, o)]
    BY <1>1 DEF StructDup
  <2>4. StructDup(s, o) \in [type : {"MACRO"}, macro : Macros(o)]
    BY <2>1, <2>2, <2>3
  <2> QED
    BY <1>1, <2>4 DEF Structs, PlainStructs, None
<1>2. CASE s.type = "DUAL"
  <2>1. s \in DualStructs(p)
    BY <1>2, StructTypes
  <2>2. StructDup(s, o) = [s EXCEPT !.owner = o]
    BY <1>2 DEF StructDup
  <2>3. StructDup(s, o) \in DualStructs(o)
    BY <2>1, <2>2 DEF DualStructs
  <2> QED
    BY <1>2, <2>3 DEF Structs, DualStructs, None
<1>3. CASE s.type = "MAP"
  <2>1. s \in MapStructs(p)
    BY <1>3, StructTypes
  <2>2. StructDup(s, o) = [s EXCEPT !.owner = o]
    BY <1>3 DEF StructDup
  <2>3. StructDup(s, o) \in MapStructs(o)
    BY <2>1, <2>2 DEF MapStructs
  <2> QED
    BY <1>3, <2>3 DEF Structs, MapStructs, None
<1>4. CASE s.type \in {"NONE", "SIMPLE"}
  <2>1. s \in {None} \cup [type : {"SIMPLE"}, simple : KeyCodes]
    BY <1>4, StructTypes
  <2>2. StructDup(s, o) = s
    BY <1>4 DEF StructDup
  <2> QED
    BY <2>1, <2>2 DEF Structs, PlainStructs
<1>5. s.type \in {"NONE", "SIMPLE", "MACRO", "DUAL", "MAP"}
  BY StructTypes
<1> QED
  BY <1>1, <1>2, <1>3, <1>4, <1>5

\* The copy of a key action is one, of the same type, and belongs to who asked for it.
LEMMA ActionDup ==
  ASSUME NEW o, NEW p, NEW C, NEW ka \in Actions(p, C)
  PROVE  /\ key_action_dup(ka, o) \in Actions(o, C)
         /\ Root(key_action_dup(ka, o)).type = Root(ka).type
<1> DEFINE copy == key_action_dup(ka, o)
<1>1. ka \in Trees(p) /\ WellMade(ka, C)
  BY DEF Actions
<1>2. /\ DOMAIN ka \subseteq Seq(Steps)
      /\ \A path \in DOMAIN ka : ka[path] \in Structs(p)
  BY <1>1, TreeFields
<1>3. DOMAIN copy = DOMAIN ka /\ \A path \in DOMAIN ka : copy[path] = StructDup(ka[path], o)
  BY DEF key_action_dup
<1>4. copy = [path \in DOMAIN ka |-> copy[path]]
  BY DEF key_action_dup
<1> HIDE DEF copy
<1>5. \A path \in DOMAIN ka : /\ copy[path] \in Structs(o) /\ copy[path].type = ka[path].type
                              /\ ka[path] = None => copy[path] = None
  BY <1>2, <1>3, StructDupWell
<1>6. copy \in Trees(o)
  <2>1. copy \in [DOMAIN ka -> Structs(o)]
    BY <1>4, <1>5
  <2> QED
    BY <1>2, <2>1 DEF Trees
<1>7. \A path \in DOMAIN ka : Joined(ka, path)
  BY <1>1 DEF WellMade
<1>8. \A path \in DOMAIN copy : Joined(copy, path)
  BY <1>3, <1>5, <1>7 DEF Joined
<1>9. <<>> \in DOMAIN copy /\ Root(copy).type = Root(ka).type
  BY <1>1, <1>3, <1>5 DEF WellMade, Root
<1>10. \A path \in DOMAIN copy, c \in C \cap KeyCodes :
         copy[path].type = "MAP" => copy[Append(path, c)] = None
  <2> SUFFICES ASSUME NEW path \in DOMAIN copy, NEW c \in C \cap KeyCodes,
                      copy[path].type = "MAP"
               PROVE  copy[Append(path, c)] = None
    OBVIOUS
  <2>1. path \in DOMAIN ka /\ ka[path].type = "MAP"
    BY <1>3, <1>5
  <2>2. Append(path, c) \in DOMAIN ka /\ ka[Append(path, c)] = None
    BY <1>1, <1>7, <2>1 DEF WellMade, Joined
  <2> QED
    BY <1>5, <2>2
<1>11. Root(copy).type = "MAP" => \A path \in DOMAIN copy : path # <<>> => Head(path) \in KeyCodes
  BY <1>1, <1>3, <1>9 DEF WellMade
<1>12. WellMade(copy, C)
  BY <1>8, <1>9, <1>10, <1>11 DEF WellMade
<1> QED
  BY <1>6, <1>9, <1>12 DEF Actions, copy

-----------------------------------------------------------------------------
(* Filling a keymap                                                        *)

\* The last keymap on a path is well defined: a path that starts in a keymap has one, and
\* the entry of a keymap is its own.
LEMMA Entries ==
  ASSUME NEW path \in Seq(Steps)
  PROVE  /\ path # <<>> /\ Head(path) \in KeyCodes => EntryOf(path) \in KeyCodes
         /\ \A c \in KeyCodes : EntryOf(Append(path, c)) = c
<1> DEFINE At(p) == {i \in DOMAIN p : p[i] \in KeyCodes}
<1>1. ASSUME NEW p \in Seq(Steps), At(p) # {}
      PROVE  Max(At(p)) \in At(p) /\ \A i \in At(p) : i <= Max(At(p))
  <2> DEFINE Back == {Len(p) - i : i \in At(p)}
  <2>1. At(p) \subseteq 1..Len(p) /\ Len(p) \in Nat
    OBVIOUS
  <2> HIDE DEF At
  <2>2. Back \subseteq Nat /\ Back # {}
    BY <1>1, <2>1
  <2>3. PICK x \in Back : \A y \in Back : x <= y
    <3> HIDE DEF Back
    <3> QED
      BY <2>2, LeastNatural
  <2>4. PICK i \in At(p) : x = Len(p) - i
    BY <2>3
  <2>5. ASSUME NEW j \in At(p)
        PROVE  i >= j
    <3>1. x <= Len(p) - j
      BY <2>3
    <3> QED
      BY <2>1, <2>4, <3>1
  <2>6. \A y \in At(p) : i >= y
    BY <2>5
  <2>7. /\ Max(At(p)) \in At(p)
        /\ \A y \in At(p) : Max(At(p)) >= y
    BY <2>4, <2>6 DEF Max
  <2> QED
    BY <2>1, <2>7
<1>2. ASSUME path # <<>>, Head(path) \in KeyCodes
      PROVE  EntryOf(path) \in KeyCodes
  <2>1. 1 \in At(path)
    BY <1>2
  <2>2. Max(At(path)) \in At(path)
    <3> HIDE DEF At
    <3> QED
      BY <1>1, <2>1
  <2> QED
    BY <2>2 DEF EntryOf
<1>3. ASSUME NEW c \in KeyCodes
      PROVE  EntryOf(Append(path, c)) = c
  <2> DEFINE q == Append(path, c)
             n == Len(path) + 1
  <2>1. q \in Seq(Steps) /\ Len(q) = n /\ q[n] = c /\ DOMAIN q = 1..n
    BY AppendProperties DEF Steps
  <2> HIDE DEF q
  <2>2. n \in At(q) /\ At(q) \subseteq 1..n /\ n \in Nat
    BY <2>1
  <2>3. Max(At(q)) \in At(q) /\ n <= Max(At(q))
    <3> HIDE DEF At, n
    <3> QED
      BY <1>1, <2>1, <2>2
  <2>4. Max(At(q)) = n
    <3> HIDE DEF At
    <3> QED
      BY <2>2, <2>3
  <2> QED
    BY <2>1, <2>4 DEF EntryOf, q
<1> QED
  BY <1>2, <1>3

\* There is everything that the struct at a path refers to, and of a kind that it may be.
CompleteAt(map, path) ==
  LET struct  == map[path]
      next(s) == map[Append(path, s)]
  IN CASE struct.type = "SIMPLE" -> struct.simple \in KeyCodes
       [] struct.type = "MACRO"  -> TRUE
       [] struct.type = "MAP"    -> \A c \in KeyCodes : Append(path, c) \in DOMAIN map
       [] struct.type = "DUAL"   -> /\ {Append(path, Tap), Append(path, Hold)} \subseteq DOMAIN map
                                    /\ next(Tap).type \in {"SIMPLE", "MACRO"}
                                    /\ next(Hold).type # "DUAL"
                                    /\ struct.mode \in ModeRange
                                    /\ struct.hold_ms >= 1 /\ struct.double_tap_ms >= -1
       [] OTHER -> FALSE

\* What a grab holds of a script that has set no field for the keys C.
Filled(map, o, C) ==
  /\ Root(map).type = "MAP"
  /\ \A path \in DOMAIN map : CompleteAt(map, path)
  /\ \A path \in DOMAIN map, c \in C \cap KeyCodes :
       map[path].type = "MAP" => map[Append(path, c)] = Simple(c)
  /\ \A path \in DOMAIN map :
       map[path].type = "MACRO" => map[path].macro # <<>> /\ Closed(map[path].macro)
  /\ OwnedBy(map, o)

\* The blocks of a struct have its owner.
LEMMA OwnersOf ==
  ASSUME NEW o, NEW s \in Structs(o)
  PROVE  BlockOwners(s) \subseteq {o}
<1>1. CASE s.type = "MACRO"
  <2>1. s.macro \in Seq([code : KeyCodes, press : BOOLEAN, owner : {o}])
    BY <1>1, StructTypes DEF Macros
  <2>2. \A i \in DOMAIN s.macro : s.macro[i] \in [code : KeyCodes, press : BOOLEAN, owner : {o}]
    BY <2>1, LenProperties
  <2>3. \A i \in DOMAIN s.macro : s.macro[i].owner = o
    BY <2>2
  <2> QED
    BY <1>1, <2>3 DEF BlockOwners
<1>2. CASE s.type \in {"DUAL", "MAP"}
  <2>1. s.owner = o
    BY <1>2, StructTypes DEF DualStructs, MapStructs
  <2> QED
    BY <1>2, <2>1 DEF BlockOwners
<1>3. CASE s.type \in {"NONE", "SIMPLE"}
  BY <1>3 DEF BlockOwners
<1>4. s.type \in {"NONE", "SIMPLE", "MACRO", "DUAL", "MAP"}
  BY StructTypes
<1> QED
  BY <1>1, <1>2, <1>3, <1>4

\* fill_map() makes a keymap complete: each missing entry is the key it is the entry of.
LEMMA FillMap ==
  ASSUME NEW o, NEW C, NEW ka \in Actions(o, C), Root(ka).type = "MAP"
  PROVE  fill_map(ka) \in Trees(o) /\ Filled(fill_map(ka), o, C)
<1> DEFINE map == fill_map(ka)
<1>1. ka \in Trees(o) /\ WellMade(ka, C)
  BY DEF Actions
<1>2. \A path \in DOMAIN ka : path \in Seq(Steps) /\ ka[path] \in Structs(o)
  BY <1>1, TreeFields
<1>3. DOMAIN map = DOMAIN ka /\ \A path \in DOMAIN ka :
        map[path] = IF ka[path].type = "NONE" THEN Simple(EntryOf(path)) ELSE ka[path]
  BY DEF fill_map, fill_action
<1> HIDE DEF map
<1>4. Root(map).type = "MAP"
  BY <1>1, <1>3 DEF WellMade, Root
<1>5. ASSUME NEW path \in DOMAIN ka, ka[path].type = "NONE"
      PROVE  map[path] \in [type : {"SIMPLE"}, simple : KeyCodes]
  <2>1. path # <<>>
    BY <1>5 DEF Root
  <2>2. EntryOf(path) \in KeyCodes
    BY <1>1, <1>2, <2>1, Entries DEF WellMade
  <2> QED
    BY <1>3, <1>5, <2>2 DEF Simple
<1>6. ASSUME NEW path \in DOMAIN ka
      PROVE  map[path] \in Structs(o) /\ map[path].type # "NONE"
  <2>1. CASE ka[path].type = "NONE"
    BY <1>5, <2>1 DEF Structs, PlainStructs
  <2>2. CASE ka[path].type # "NONE"
    BY <1>2, <1>3, <2>2
  <2> QED
    BY <2>1, <2>2
<1>7. ASSUME NEW path \in DOMAIN ka
      PROVE  map[path].type = IF ka[path].type = "NONE" THEN "SIMPLE" ELSE ka[path].type
  BY <1>3, <1>5
<1>8. ASSUME NEW path \in DOMAIN map
      PROVE  CompleteAt(map, path)
  <2>1. Joined(ka, path)
    BY <1>1, <1>3 DEF WellMade
  <2>2. path \in DOMAIN ka /\ map[path] \in Structs(o) /\ map[path].type # "NONE"
    BY <1>3, <1>6
  <2>3. CASE map[path].type = "SIMPLE"
    <3>1. map[path].simple \in KeyCodes
      BY <2>2, <2>3, StructTypes
    <3> QED
      BY <2>3, <3>1 DEF CompleteAt
  <2>4. CASE map[path].type = "MACRO"
    BY <2>4 DEF CompleteAt
  <2>5. CASE map[path].type = "MAP"
    <3>1. ka[path].type = "MAP"
      BY <1>7, <2>2, <2>5
    <3> QED
      BY <1>3, <2>1, <2>5, <3>1 DEF CompleteAt, Joined
  <2>6. CASE map[path].type = "DUAL"
    <3>1. ka[path].type = "DUAL"
      BY <1>7, <2>2, <2>6
    <3>2. /\ Append(path, Tap) \in DOMAIN ka /\ Append(path, Hold) \in DOMAIN ka
          /\ ka[Append(path, Tap)].type \in {"NONE", "SIMPLE", "MACRO"}
          /\ ka[Append(path, Hold)].type # "DUAL"
      BY <2>1, <3>1 DEF Joined
    <3>3. /\ map[Append(path, Tap)].type \in {"SIMPLE", "MACRO"}
          /\ map[Append(path, Hold)].type # "DUAL"
      BY <1>7, <3>2
    <3>4. /\ map[path].mode \in ModeRange
          /\ map[path].hold_ms >= 1 /\ map[path].double_tap_ms >= -1
      BY <2>2, <2>6, StructTypes DEF DualStructs
    <3> QED
      BY <1>3, <2>6, <3>2, <3>3, <3>4 DEF CompleteAt
  <2> QED
    BY <2>2, <2>3, <2>4, <2>5, <2>6, StructTypes
<1>9. ASSUME NEW path \in DOMAIN map, NEW c \in C \cap KeyCodes, map[path].type = "MAP"
      PROVE  map[Append(path, c)] = Simple(c)
  <2>1. path \in DOMAIN ka /\ ka[path].type = "MAP"
    BY <1>3, <1>7, <1>9
  <2>2. Append(path, c) \in DOMAIN ka /\ ka[Append(path, c)] = None
    BY <1>1, <2>1 DEF WellMade, Joined
  <2>3. EntryOf(Append(path, c)) = c
    BY <1>2, <2>1, Entries
  <2> QED
    BY <1>3, <2>2, <2>3 DEF None
<1>10. ASSUME NEW path \in DOMAIN map, map[path].type = "MACRO"
       PROVE  map[path].macro # <<>> /\ Closed(map[path].macro)
  BY <1>3, <1>6, <1>10, StructTypes DEF Macros
<1>11. OwnedBy(map, o)
  BY <1>3, <1>6, OwnersOf DEF OwnedBy
<1>12. map \in Trees(o)
  <2>1. map = [path \in DOMAIN ka |-> map[path]]
    BY <1>3 DEF map, fill_map
  <2>2. map \in [DOMAIN ka -> Structs(o)]
    BY <1>6, <2>1
  <2>3. DOMAIN ka \in SUBSET Seq(Steps)
    BY <1>1, TreeFields
  <2> QED
    BY <2>2, <2>3 DEF Trees
<1> QED
  BY <1>4, <1>8, <1>9, <1>10, <1>11, <1>12 DEF Filled, map

-----------------------------------------------------------------------------
(* Macros                                                                  *)

Cell(o) == [code : KeyCodes, press : BOOLEAN, owner : {o}]

Event(cell) == [code |-> cell.code, press |-> cell.press]

\* The number of cells that are an event is a number.
LEMMA CountType ==
  ASSUME NEW m, NEW n \in Nat, NEW ev
  PROVE  Count(m, n, ev) \in Nat /\ Count(m, 0, ev) = 0
<1>1. IsFiniteSet(1..n)
  BY FS_Interval
<1>2. IsFiniteSet({i \in 1..n : Event(m[i]) = ev})
  BY <1>1, FS_Subset
<1>3. {i \in 1..0 : Event(m[i]) = ev} = {}
  OBVIOUS
<1>4. \A k : Count(m, k, ev) = Cardinality({i \in 1..k : Event(m[i]) = ev})
  BY DEF Count, Event
<1> QED
  BY <1>2, <1>3, <1>4, FS_CardinalityType, FS_EmptySet

\* A set of numbers is as large when it is shifted.
LEMMA Shifted ==
  ASSUME NEW S, S \subseteq Nat, IsFiniteSet(S), NEW d \in Nat
  PROVE  /\ IsFiniteSet({i + d : i \in S})
         /\ Cardinality({i + d : i \in S}) = Cardinality(S)
<1> DEFINE T == {i + d : i \in S}
           f == [i \in S |-> i + d]
<1>1. f \in Bijection(S, T)
  <2>1. f \in [S -> T]
    OBVIOUS
  <2>2. \A i, j \in S : f[i] = f[j] => i = j
    OBVIOUS
  <2>3. \A t \in T : \E i \in S : f[i] = t
    OBVIOUS
  <2> HIDE DEF f, T
  <2> QED
    BY <2>1, <2>2, <2>3 DEF Bijection, Injection, IsInjective, Surjection
<1>2. ExistsBijection(S, T)
  BY <1>1 DEF ExistsBijection
<1> QED
  BY <1>2, FS_Bijection

\* the cells of a macro are those of m and then those of k
CountsAdd(all, m, k) ==
  \A ev : /\ \A n \in 0..Len(m) : Count(all, n, ev) = Count(m, n, ev)
          /\ \A n \in 0..Len(k) :
               Count(all, Len(m) + n, ev) = Count(m, Len(m), ev) + Count(k, n, ev)

\* The cells of two macros, one behind the other, are counted one after the other.
LEMMA CountConcat ==
  ASSUME NEW S, NEW m \in Seq(S), NEW k \in Seq(S)
  PROVE  CountsAdd(m \o k, m, k)
<1> SUFFICES ASSUME NEW ev
    PROVE  /\ \A n \in 0..Len(m) : Count(m \o k, n, ev) = Count(m, n, ev)
           /\ \A n \in 0..Len(k) :
                Count(m \o k, Len(m) + n, ev) = Count(m, Len(m), ev) + Count(k, n, ev)
  BY DEF CountsAdd
<1> DEFINE all == m \o k
           d == Len(m)
           At(s, n) == {i \in 1..n : Event(s[i]) = ev}
<1>1. \A s, n : Count(s, n, ev) = Cardinality(At(s, n))
  BY DEF Count, Event
<1>2. /\ d \in Nat /\ Len(k) \in Nat
      /\ \A i \in 1..d : all[i] = m[i]
      /\ \A i \in 1..Len(k) : all[i + d] = k[i]
  <2>1. \A i \in 1..(Len(m) + Len(k)) : all[i] = IF i <= Len(m) THEN m[i] ELSE k[i - Len(m)]
    BY ConcatProperties
  <2>2. Len(m) \in Nat /\ Len(k) \in Nat
    OBVIOUS
  <2> HIDE DEF all
  <2> QED
    BY <2>1, <2>2
<1> HIDE DEF all, d
<1>3. ASSUME NEW n \in 0..d
      PROVE  At(all, n) = At(m, n)
  BY <1>2
<1>4. ASSUME NEW n \in 0..Len(k)
      PROVE  Cardinality(At(all, d + n)) = Cardinality(At(m, d)) + Cardinality(At(k, n))
  <2> DEFINE behind == {i + d : i \in At(k, n)}
  <2>1. At(all, d + n) = At(m, d) \cup behind
    <3>1. ASSUME NEW i \in At(all, d + n)
          PROVE  i \in At(m, d) \cup behind
      <4>1. CASE i <= d
        BY <1>2, <4>1
      <4>2. CASE i > d
        <5>1. i - d \in 1..n /\ i - d \in 1..Len(k) /\ (i - d) + d = i
          BY <1>2, <4>2
        <5>2. all[i] = k[i - d]
          BY <1>2, <5>1
        <5>3. i - d \in At(k, n)
          BY <5>1, <5>2
        <5> QED
          BY <5>1, <5>3
      <4> QED
        BY <1>2, <4>1, <4>2
    <3>2. ASSUME NEW i \in At(m, d)
          PROVE  i \in At(all, d + n)
      BY <1>2
    <3>3. ASSUME NEW i \in At(k, n)
          PROVE  i + d \in At(all, d + n)
      BY <1>2
    <3> QED
      BY <3>1, <3>2, <3>3
  <2>2. At(m, d) \cap behind = {}
    BY <1>2
  <2>3. IsFiniteSet(At(m, d)) /\ IsFiniteSet(At(k, n)) /\ At(k, n) \subseteq Nat
    <3>1. IsFiniteSet(1..d) /\ IsFiniteSet(1..n)
      BY <1>2, FS_Interval
    <3>2. At(m, d) \in SUBSET (1..d) /\ At(k, n) \in SUBSET (1..n) /\ 1..n \subseteq Nat
      OBVIOUS
    <3> HIDE DEF At
    <3> QED
      BY <3>1, <3>2, FS_Subset
  <2>4. IsFiniteSet(behind) /\ Cardinality(behind) = Cardinality(At(k, n))
    <3> HIDE DEF At
    <3> QED
      BY <1>2, <2>3, Shifted
  <2>5. Cardinality(At(m, d)) \in Nat /\ Cardinality(At(k, n)) \in Nat
    BY <2>3, FS_CardinalityType
  <2> HIDE DEF At, behind
  <2>6. Cardinality(At(m, d) \cup behind)
        = Cardinality(At(m, d)) + Cardinality(behind) - Cardinality(At(m, d) \cap behind)
    BY <2>3, <2>4, FS_Union
  <2>7. Cardinality(At(m, d) \cap behind) = 0
    BY <2>2, FS_EmptySet
  <2>8. Cardinality(At(all, d + n)) = Cardinality(At(m, d) \cup behind)
    BY <2>1, Zenon
  <2>9. \A a, b \in Nat : \A x, y : (x = a + y - 0 /\ y = b) => x = a + b
    OBVIOUS
  <2> QED
    BY <2>4, <2>5, <2>6, <2>7, <2>8, <2>9
<1> HIDE DEF At
<1>5. \A n \in 0..d : Count(all, n, ev) = Count(m, n, ev)
  BY <1>1, <1>3
<1>6. \A n \in 0..Len(k) : Count(all, d + n, ev) = Count(m, d, ev) + Count(k, n, ev)
  BY <1>1, <1>4
<1> QED
  BY <1>5, <1>6 DEF all, d

\* A macro of one cell, and what it counts.
LEMMA OneCell ==
  ASSUME NEW o, NEW c \in KeyCodes, NEW b \in BOOLEAN
  PROVE  LET one == key_macro_new(c, b, o) IN
         /\ one \in Seq(Cell(o)) /\ Len(one) = 1 /\ one # <<>>
         /\ \A ev : Count(one, 1, ev) = IF ev = [code |-> c, press |-> b] THEN 1 ELSE 0
<1> DEFINE one == key_macro_new(c, b, o)
<1>1. one \in Seq(Cell(o)) /\ Len(one) = 1 /\ one # <<>>
  BY DEF key_macro_new, Cell
<1>2. [code |-> one[1].code, press |-> one[1].press] = [code |-> c, press |-> b]
  BY DEF key_macro_new
<1>3. \A i \in 1..1 : i = 1
  OBVIOUS
<1>4. 1 \in 1..1
  OBVIOUS
<1> HIDE DEF one
<1>5. ASSUME NEW ev
      PROVE  Count(one, 1, ev) = IF ev = [code |-> c, press |-> b] THEN 1 ELSE 0
  <2>1. {i \in 1..1 : [code |-> one[i].code, press |-> one[i].press] = ev}
        = IF ev = [code |-> c, press |-> b] THEN {1} ELSE {}
    BY <1>2, <1>3, <1>4
  <2> QED
    BY <2>1, FS_Singleton, FS_EmptySet DEF Count
<1> QED
  BY <1>1, <1>5 DEF one

\* Closed macros one behind the other are closed.
LEMMA ClosedConcat ==
  ASSUME NEW S, NEW m \in Seq(S), NEW k \in Seq(S), Closed(m), Closed(k)
  PROVE  Closed(m \o k)
<1> DEFINE all == m \o k
<1>1. /\ Len(m) \in Nat /\ Len(k) \in Nat /\ Len(all) = Len(m) + Len(k)
      /\ DOMAIN all = 1..(Len(m) + Len(k)) /\ DOMAIN m = 1..Len(m) /\ DOMAIN k = 1..Len(k)
  BY ConcatProperties, LenProperties
<1>2. ASSUME NEW c \in KeyCodes
      PROVE  /\ Count(all, Len(all), Press(c)) = Count(all, Len(all), Release(c))
             /\ \A n \in DOMAIN all : Count(all, n, Press(c)) >= Count(all, n, Release(c))
  <2>0. CountsAdd(all, m, k)
    BY CountConcat
  <2> HIDE DEF all
  <2>1. \A ev : \A n \in 0..Len(m) : Count(all, n, ev) = Count(m, n, ev)
    BY <2>0 DEF CountsAdd
  <2>2. \A ev : \A n \in 0..Len(k) :
          Count(all, Len(m) + n, ev) = Count(m, Len(m), ev) + Count(k, n, ev)
    BY <2>0 DEF CountsAdd
  <2>3. /\ Count(m, Len(m), Press(c)) = Count(m, Len(m), Release(c))
        /\ \A n \in DOMAIN m : Count(m, n, Press(c)) >= Count(m, n, Release(c))
        /\ Count(k, Len(k), Press(c)) = Count(k, Len(k), Release(c))
        /\ \A n \in DOMAIN k : Count(k, n, Press(c)) >= Count(k, n, Release(c))
    BY DEF Closed
  <2>4. \A n \in Nat : \A ev : Count(m, n, ev) \in Nat /\ Count(k, n, ev) \in Nat
    BY CountType
  <2>5. Count(all, Len(all), Press(c)) = Count(all, Len(all), Release(c))
    <3>1. Len(k) \in 0..Len(k)
      BY <1>1
    <3>2. \A ev : Count(all, Len(all), ev) = Count(m, Len(m), ev) + Count(k, Len(k), ev)
      BY <1>1, <2>2, <3>1
    <3> QED
      BY <2>3, <3>2
  <2>6. ASSUME NEW n \in DOMAIN all
        PROVE  Count(all, n, Press(c)) >= Count(all, n, Release(c))
    <3>1. CASE n <= Len(m)
      <4>1. n \in 0..Len(m) /\ (n \in DOMAIN m)
        BY <1>1, <3>1
      <4>2. \A ev : Count(all, n, ev) = Count(m, n, ev)
        BY <2>1, <4>1
      <4> QED
        BY <2>3, <4>1, <4>2
    <3>2. CASE n > Len(m)
      <4>1. PICK j \in DOMAIN k : n = Len(m) + j
        <5>1. n - Len(m) \in 1..Len(k) /\ n = Len(m) + (n - Len(m))
          BY <1>1, <3>2
        <5> QED
          BY <1>1, <5>1
      <4>2. j \in 0..Len(k) /\ j \in Nat
        BY <1>1
      <4>3. \A ev : Count(all, n, ev) = Count(m, Len(m), ev) + Count(k, j, ev)
        BY <2>2, <4>1, <4>2
      <4>4. /\ Count(m, Len(m), Release(c)) \in Nat
            /\ Count(k, j, Press(c)) \in Nat /\ Count(k, j, Release(c)) \in Nat
        BY <1>1, <2>4, <4>2
      <4> QED
        BY <2>3, <4>1, <4>3, <4>4
    <3> QED
      BY <1>1, <3>1, <3>2
  <2> QED
    BY <2>5, <2>6
<1> QED
  BY <1>2 DEF Closed

\* Nothing is closed.
LEMMA ClosedEmpty == Closed(<<>>)
<1>1. Len(<<>>) = 0 /\ DOMAIN <<>> = {}
  OBVIOUS
<1>2. \A ev : Count(<<>>, 0, ev) = 0
  BY CountType
<1> QED
  BY <1>1, <1>2 DEF Closed

\* A closed macro between the press and the release of a key is closed.
LEMMA ClosedWrap ==
  ASSUME NEW o, NEW m \in Seq(Cell(o)), Closed(m), NEW c \in KeyCodes
  PROVE  (key_macro_new(c, TRUE, o) \o m) \o key_macro_new(c, FALSE, o) \in Macros(o)
<1> DEFINE down == key_macro_new(c, TRUE, o)
           up == key_macro_new(c, FALSE, o)
           most == down \o m
           all == most \o up
           S == Cell(o)
           n == Len(m) + 1
<1>1. /\ down \in Seq(S) /\ Len(down) = 1
      /\ \A ev : Count(down, 1, ev) = IF ev = Press(c) THEN 1 ELSE 0
  BY OneCell DEF Press
<1>2. /\ up \in Seq(S) /\ Len(up) = 1
      /\ \A ev : Count(up, 1, ev) = IF ev = Release(c) THEN 1 ELSE 0
  BY OneCell DEF Release
<1> HIDE DEF down, up, S
<1>3. m \in Seq(S) /\ Len(m) \in Nat /\ DOMAIN m = 1..Len(m)
  BY LenProperties DEF S
<1>4. most \in Seq(S) /\ Len(most) = n
  <2>1. most \in Seq(S) /\ Len(most) = Len(down) + Len(m)
    BY <1>1, <1>3, ConcatProperties, Zenon
  <2> HIDE DEF most
  <2> QED
    BY <1>1, <1>3, <2>1
<1>5. ASSUME NEW ev
      PROVE  /\ Count(most, 0, ev) = 0
             /\ \A j \in 0..Len(m) : Count(most, 1 + j, ev) = Count(down, 1, ev) + Count(m, j, ev)
  <2>1. \A j \in 0..Len(m) :
          Count(most, Len(down) + j, ev) = Count(down, Len(down), ev) + Count(m, j, ev)
    <3>1. CountsAdd(most, down, m)
      BY <1>1, <1>3, CountConcat
    <3> HIDE DEF most
    <3> QED
      BY <3>1 DEF CountsAdd
  <2>2. Count(most, 0, ev) = 0
    BY CountType
  <2> HIDE DEF most
  <2> QED
    BY <1>1, <2>1, <2>2
<1> HIDE DEF most
<1>6. all \in Seq(S) /\ Len(all) = n + 1 /\ DOMAIN all = 1..(n + 1)
  <2>1. all \in Seq(S) /\ Len(all) = Len(most) + Len(up)
    BY <1>2, <1>4, ConcatProperties
  <2> HIDE DEF all, n
  <2> QED
    BY <1>2, <1>4, <2>1, LenProperties
<1>7. ASSUME NEW ev
      PROVE  /\ \A j \in 0..n : Count(all, j, ev) = Count(most, j, ev)
             /\ \A j \in 0..1 : Count(all, n + j, ev) = Count(most, n, ev) + Count(up, j, ev)
  <2>1. /\ \A j \in 0..Len(most) : Count(all, j, ev) = Count(most, j, ev)
        /\ \A j \in 0..Len(up) :
             Count(all, Len(most) + j, ev) = Count(most, Len(most), ev) + Count(up, j, ev)
    <3>1. CountsAdd(all, most, up)
      BY <1>2, <1>4, CountConcat
    <3> HIDE DEF all
    <3> QED
      BY <3>1 DEF CountsAdd
  <2> HIDE DEF n, all
  <2> QED
    BY <1>2, <1>4, <2>1
<1> HIDE DEF all
<1>8. ASSUME NEW k \in KeyCodes
      PROVE  /\ Count(all, Len(all), Press(k)) = Count(all, Len(all), Release(k))
             /\ \A j \in DOMAIN all : Count(all, j, Press(k)) >= Count(all, j, Release(k))
  <2> DEFINE one == IF k = c THEN 1 ELSE 0
  <2>1. /\ Count(m, Len(m), Press(k)) = Count(m, Len(m), Release(k))
        /\ \A j \in 1..Len(m) : Count(m, j, Press(k)) >= Count(m, j, Release(k))
    BY <1>3 DEF Closed
  <2>2. \A j \in Nat : \A ev : Count(m, j, ev) \in Nat /\ Count(m, 0, ev) = 0
    BY CountType
  <2>3. /\ Count(down, 1, Press(k)) = one /\ Count(down, 1, Release(k)) = 0
        /\ Count(up, 1, Press(k)) = 0 /\ Count(up, 1, Release(k)) = one
    <3>1. /\ Press(k) = Press(c) <=> k = c
          /\ Release(k) = Release(c) <=> k = c
          /\ Press(k) # Release(c) /\ Release(k) # Press(c)
      BY DEF Press, Release
    <3> QED
      BY <1>1, <1>2, <3>1
  <2>4. one \in Nat
    OBVIOUS
  <2> HIDE DEF one
  <2>5. ASSUME NEW j \in 0..Len(m)
        PROVE  /\ Count(most, 1 + j, Press(k)) = one + Count(m, j, Press(k))
               /\ Count(most, 1 + j, Release(k)) = Count(m, j, Release(k))
               /\ Count(m, j, Press(k)) >= Count(m, j, Release(k))
               /\ Count(m, j, Press(k)) \in Nat /\ Count(m, j, Release(k)) \in Nat
    <3>1. Count(m, j, Press(k)) \in Nat /\ Count(m, j, Release(k)) \in Nat
      BY <1>3, <2>2
    <3>2. \A ev : Count(most, 1 + j, ev) = Count(down, 1, ev) + Count(m, j, ev)
      BY <1>5
    <3>3. Count(m, j, Press(k)) >= Count(m, j, Release(k))
      <4>1. CASE j = 0
        BY <2>2, <3>1, <4>1
      <4>2. CASE j # 0
        BY <1>3, <2>1, <4>2
      <4> QED
        BY <4>1, <4>2
    <3> QED
      BY <2>3, <2>4, <3>1, <3>2, <3>3
  <2>6. /\ Count(most, n, Press(k)) = one + Count(m, Len(m), Press(k))
        /\ Count(most, n, Release(k)) = Count(m, Len(m), Release(k))
        /\ Count(m, Len(m), Press(k)) \in Nat /\ Count(m, Len(m), Release(k)) \in Nat
    <3>1. Len(m) \in 0..Len(m) /\ n = 1 + Len(m)
      BY <1>3
    <3> QED
      BY <2>5, <3>1
  <2>7. n \in Nat /\ \A j \in 1..n : j - 1 \in 0..Len(m) /\ 1 + (j - 1) = j
    BY <1>3
  <2>8. \A j \in 1..(n + 1) : j \in 1..n \/ j = n + 1
    BY <1>3
  <2> HIDE DEF n
  <2>9. /\ Count(all, n + 1, Press(k)) = one + Count(m, Len(m), Press(k))
        /\ Count(all, n + 1, Release(k)) = Count(m, Len(m), Release(k)) + one
    <3>1. \A ev : Count(all, n + 1, ev) = Count(most, n, ev) + Count(up, 1, ev)
      BY <1>7
    <3> QED
      BY <2>3, <2>4, <2>6, <3>1
  <2>10. Count(all, n + 1, Press(k)) = Count(all, n + 1, Release(k))
    BY <2>1, <2>4, <2>6, <2>9
  <2>11. Count(all, n + 1, Release(k)) \in Nat
    BY <2>4, <2>6, <2>9
  <2>12. ASSUME NEW j \in 1..n
         PROVE  Count(all, j, Press(k)) >= Count(all, j, Release(k))
    <3>1. PICK i \in 0..Len(m) : j = 1 + i
      BY <2>7
    <3>2. \A ev : Count(all, j, ev) = Count(most, j, ev)
      <4>1. j \in 0..n
        BY <2>7
      <4> QED
        BY <1>7, <4>1
    <3> QED
      BY <2>4, <2>5, <3>1, <3>2
  <2>13. \A j \in DOMAIN all : Count(all, j, Press(k)) >= Count(all, j, Release(k))
    BY <1>6, <2>8, <2>10, <2>11, <2>12
  <2> QED
    BY <1>6, <2>10, <2>13
<1>9. Closed(all)
  BY <1>8 DEF Closed
<1>10. all # <<>>
  BY <1>3, <1>6
<1> QED
  BY <1>6, <1>9, <1>10 DEF Macros, Cell, S, all, most, down, up

-----------------------------------------------------------------------------
(* The inductive invariant                                                 *)

Values == {Nil} \cup {IntegerOf(n) : n \in ScriptIntegers} \cup {Object(i) : i \in Nat}

Tables   == [kind : {"table"}, fields : [FieldKeys -> Values]]
Actual   == [kind : {"userdata"}, action : UNION {Trees(<<"lua", i>>) : i \in Nat}]
Things   == Tables \cup Actual \cup [kind : {"freed"}]

GrabRecords ==
  [matches : Patterns, ignore : BOOLEAN, map : UNION {Trees(<<"grab", i>>) : i \in Nat}]

TypeOK ==
  /\ objects \in Seq(Things)
  /\ grabs \in Seq(GrabRecords)
  /\ assignments \in [KeyCodes -> Nat]

\* the keys for which no field has been set
Unset == {c \in KeyCodes : assignments[c] = 0}

\* what a field refers to was made, and a field that is there was set
FieldsWell(fields) ==
  \A k \in FieldKeys :
    /\ fields[k].type = "object" => fields[k].ref \in DOMAIN objects
    /\ fields[k] # Nil => CodeOf[k] \notin Unset

TablesWell ==
  \A i \in DOMAIN objects : objects[i].kind = "table" => FieldsWell(objects[i].fields)

UserdataWell ==
  \A i \in DOMAIN objects : objects[i].kind = "userdata" =>
    /\ objects[i].action \in Actions(<<"lua", i>>, Unset)
    /\ Root(objects[i].action).type \in {"MACRO", "DUAL"}

GrabsWell == \A i \in Grabbing : Filled(grabs[i].map, <<"grab", i>>, Unset)

IInv == TypeOK /\ TablesWell /\ UserdataWell /\ GrabsWell

-----------------------------------------------------------------------------
(* What the functions of the script make                                   *)

MayFail(o, C) == Actions(o, C) \cup {Leaf(Failed)}

\* A copy that does not fail is a key action.
LEMMA NotFailed ==
  ASSUME NEW o, NEW C, NEW ka \in MayFail(o, C)
  PROVE  Root(ka).type # "FAILED" <=> ka \in Actions(o, C)
<1>1. Root(Leaf(Failed)).type = "FAILED"
  BY DEF Root, Leaf, Failed
<1>2. ASSUME ka \in Actions(o, C)
      PROVE  Root(ka).type # "FAILED"
  <2>1. Root(ka) \in Structs(o)
    BY <1>2, TreeFields DEF Actions, WellMade, Root
  <2> QED
    BY <2>1, StructTypes
<1> QED
  BY <1>1, <1>2 DEF MayFail

\* The values of a script are such.
LEMMA ValueTypes ==
  ASSUME NEW v \in Values
  PROVE  /\ v.type = "object" => v \in {Object(i) : i \in Nat} /\ v.ref \in Nat
         /\ IsKeyCode(v) => v.n \in KeyCodes
BY DEF Values, Nil, IntegerOf, Object, IsKeyCode

\* What copy_to_key_action() makes of a value, given the copies of the tables.
LEMMA CopyWithWell ==
  ASSUME TypeOK, UserdataWell, NEW o,
         NEW copies \in [DOMAIN objects -> MayFail(o, Unset)],
         NEW v, v.type = "object" => v.ref \in DOMAIN objects
  PROVE  CopyWith(copies, v, o) \in MayFail(o, Unset)
<1>1. CASE v = Nil
  <2>1. None \in PlainStructs(o)
    BY DEF PlainStructs
  <2> QED
    BY <1>1, <2>1, LeafWellMade DEF CopyWith, MayFail, Nil, IsKeyCode, IsTable, IsUserdata
<1>2. CASE v # Nil /\ IsKeyCode(v)
  <2>1. Simple(v.n) \in PlainStructs(o)
    BY <1>2 DEF IsKeyCode, Simple, PlainStructs
  <2>2. CopyWith(copies, v, o) = Leaf(Simple(v.n))
    BY <1>2 DEF CopyWith, IsKeyCode, IsTable, IsUserdata
  <2> QED
    BY <2>1, <2>2, LeafWellMade DEF MayFail
<1>3. CASE v # Nil /\ ~IsKeyCode(v) /\ IsTable(v)
  BY <1>3 DEF CopyWith, IsTable, IsUserdata
<1>4. CASE v # Nil /\ ~IsKeyCode(v) /\ ~IsTable(v) /\ IsUserdata(v)
  <2>1. objects[v.ref].action \in Actions(<<"lua", v.ref>>, Unset)
    BY <1>4 DEF UserdataWell, IsUserdata
  <2>2. key_action_dup(objects[v.ref].action, o) \in Actions(o, Unset)
    BY <2>1, ActionDup
  <2> QED
    BY <1>4, <2>2 DEF CopyWith, MayFail
<1>5. CASE v # Nil /\ ~IsKeyCode(v) /\ ~IsTable(v) /\ ~IsUserdata(v)
  BY <1>5 DEF CopyWith, MayFail
<1> QED
  BY <1>1, <1>2, <1>3, <1>4, <1>5

\* A table becomes a keymap, or fails.
LEMMA ExtractWell ==
  ASSUME TypeOK, UserdataWell, NEW o,
         NEW copies \in [DOMAIN objects -> MayFail(o, Unset)],
         NEW fields, FieldsWell(fields)
  PROVE  extract_table_to_key_map(copies, fields, o) \in MayFail(o, Unset)
<1> DEFINE present == {k \in FieldKeys : fields[k] # Nil}
           given(c) == {k \in present : CodeOf[k] = c}
           copy(k) == CopyWith(copies, fields[k], o)
           s == [type |-> "MAP", owner |-> o]
           chosen(c) == CHOOSE k \in given(c) : TRUE
           children == [c \in KeyCodes |-> IF given(c) = {} THEN Leaf(None) ELSE copy(chosen(c))]
<1>1. CASE \E k \in present : CodeOf[k] = 0 \/ Root(copy(k)) = Failed
  BY <1>1 DEF extract_table_to_key_map, MayFail
<1>2. CASE ~ \E k \in present : CodeOf[k] = 0 \/ Root(copy(k)) = Failed
  <2>1. extract_table_to_key_map(copies, fields, o) = Node(s, children)
    BY <1>2 DEF extract_table_to_key_map
  <2>2. ASSUME NEW k \in present
        PROVE  copy(k) \in Actions(o, Unset)
    <3>1. copy(k) \in MayFail(o, Unset)
      BY CopyWithWell DEF FieldsWell
    <3>2. copy(k) # Leaf(Failed)
      BY <1>2 DEF Root, Leaf
    <3> QED
      BY <3>1, <3>2 DEF MayFail
  <2>3. Leaf(None) \in Actions(o, Unset) /\ Root(Leaf(None)) = None
    <3>1. None \in PlainStructs(o)
      BY DEF PlainStructs
    <3> QED
      BY <3>1, LeafWellMade
  <2>4. ASSUME NEW c \in KeyCodes, given(c) # {}
        PROVE  chosen(c) \in present
    BY <2>4
  <2>5. ASSUME NEW c \in Unset
        PROVE  given(c) = {}
    BY <2>5 DEF FieldsWell
  <2> HIDE DEF copy, given, chosen, present
  <2>6. children \in [KeyCodes -> Actions(o, Unset)]
    BY <2>2, <2>3, <2>4
  <2>7. \A c \in Unset \cap KeyCodes : Root(children[c]) = None
    BY <2>3, <2>5
  <2>8. s \in MapStructs(o) /\ s \notin DualStructs(o)
    BY DEF MapStructs, DualStructs
  <2>9. KeyCodes \in SUBSET Steps
    BY DEF Steps
  <2> HIDE DEF children, s
  <2>10. Node(s, children) \in Actions(o, Unset)
    BY <2>6, <2>7, <2>8, <2>9, NodeWellMade
  <2> QED
    BY <2>1, <2>10 DEF MayFail
<1> QED
  BY <1>1, <1>2

\* Copies of the tables, oldest first, and so of any value.
LEMMA CopyWell ==
  ASSUME TypeOK, TablesWell, UserdataWell, NEW o,
         NEW v, v.type = "object" => v.ref \in DOMAIN objects
  PROVE  copy_to_key_action(v, o) \in MayFail(o, Unset)
<1> DEFINE n == Len(objects)
           M == MayFail(o, Unset)
           T == [DOMAIN objects -> M]
           first == [i \in DOMAIN objects |-> Leaf(None)]
           Turn(t, i) == IF objects[i].kind # "table" THEN t
                         ELSE [t EXCEPT ![i] =
                                 extract_table_to_key_map(t, objects[i].fields, o)]
           step == [i \in 1..n |-> [t \in T |-> Turn(t, i)]]
           Is(f) == f = [i \in 0..n |-> IF i = 0 THEN first ELSE Turn(f[i - 1], i)]
           copies == CHOOSE f : Is(f)
<1>1. n \in Nat /\ DOMAIN objects = 1..n
  BY LenProperties DEF TypeOK
<1>2. ASSUME NEW i \in 1..n, NEW t \in T
      PROVE  Turn(t, i) \in T
  <2>1. CASE objects[i].kind = "table"
    <3>1. FieldsWell(objects[i].fields)
      BY <1>1, <2>1 DEF TablesWell
    <3>2. extract_table_to_key_map(t, objects[i].fields, o) \in M
      BY <3>1, ExtractWell
    <3> QED
      BY <1>1, <2>1, <3>2
  <2>2. CASE objects[i].kind # "table"
    BY <2>2
  <2> QED
    BY <2>1, <2>2
<1>3. first \in T
  <2>1. None \in PlainStructs(o)
    BY DEF PlainStructs
  <2>2. Leaf(None) \in M
    BY <2>1, LeafWellMade DEF MayFail
  <2> QED
    BY <2>2
<1>4. step \in [1..n -> [T -> T]]
  <2> HIDE DEF Turn, T
  <2> QED
    BY <1>2
<1>5. \A i \in 1..n : i - 1 \in 0..n /\ i # 0 /\ i \in 0..n
  BY <1>1
<1>6. \A i \in 0..n : i # 0 => i \in 1..n
  BY <1>1
<1>7. \A i \in 1..n, t \in T : step[i][t] = Turn(t, i)
  <2> HIDE DEF Turn, T, n
  <2> QED
    OBVIOUS
<1>8. TableCopies(o) = copies
  BY DEF TableCopies
<1> HIDE DEF step, T, n, first, Turn
<1>9. \E f \in [0..n -> T] : IsRun(f, first, n, step)
  BY ONLY <1>1, <1>3, <1>4, LoopRuns
<1>10. PICK f \in [0..n -> T] : IsRun(f, first, n, step)
  BY <1>9
<1>11. f[0] = first /\ \A i \in 1..n : f[i] = step[i][f[i - 1]] /\ f[i - 1] \in T
  BY <1>5, <1>10 DEF IsRun
<1>12. \A i \in 0..n : f[i] = IF i = 0 THEN first ELSE Turn(f[i - 1], i)
  BY <1>6, <1>7, <1>11
<1>13. Is(f)
  BY <1>10, <1>12
<1>14. Is(copies)
  <2> HIDE DEF Is
  <2> QED
    BY <1>13
<1> HIDE DEF copies
<1>15. copies[0] = first /\ \A i \in 1..n : copies[i] = Turn(copies[i - 1], i)
  <2>1. 0 \in 0..n
    BY <1>1
  <2> QED
    BY <1>5, <1>14, <2>1
<1>16. copies[n] \in T
  <2> DEFINE P == {i \in 0..n : copies[i] \in T}
  <2>1. 0 \in P
    BY <1>1, <1>3, <1>15
  <2>2. ASSUME NEW i \in 1..n, i - 1 \in P
        PROVE  i \in P
    BY <1>2, <1>5, <1>15, <2>2
  <2>3. n \in 0..n
    BY <1>1
  <2> HIDE DEF P
  <2>4. \A i \in 0..n : i \in P
    BY <1>1, <2>1, <2>2, UpTo
  <2>5. n \in P
    BY <2>3, <2>4
  <2> QED
    BY <2>5 DEF P
<1> QED
  BY <1>8, <1>16, CopyWithWell DEF copy_to_key_action, T, n

\* The loop over the arguments of a macro appends closed macros.
LEMMA AppendWell ==
  ASSUME NEW o, NEW begin \in Seq(Cell(o)), NEW args, Len(args) \in Nat \ {0},
         \A i \in 1..Len(args) : append_copy_to_macro(args[i], o) \in Macros(o)
  PROVE  \E m \in Macros(o) : AppendCopies(begin, args, o) = begin \o m
<1> DEFINE n == Len(args)
           C == {m \in Seq(Cell(o)) : Closed(m)}
           T == {begin \o m : m \in C}
           add(i) == append_copy_to_macro(args[i], o)
           Turn(t, i) == t \o add(i)
           step == [i \in 1..n |-> [t \in T |-> Turn(t, i)]]
           Is(f) == f = [i \in 0..n |-> IF i = 0 THEN begin ELSE Turn(f[i - 1], i)]
           macro == CHOOSE f : Is(f)
<1>1. n \in Nat /\ n - 1 \in 0..n /\ n \in 1..n
  OBVIOUS
<1>2. ASSUME NEW i \in 1..n, NEW m \in C
      PROVE  /\ m \o add(i) \in C /\ m \o add(i) # <<>>
             /\ Turn(begin \o m, i) = begin \o (m \o add(i))
  <2>1. add(i) \in Seq(Cell(o)) /\ add(i) # <<>> /\ Closed(add(i))
    BY DEF Macros, Cell
  <2>2. m \in Seq(Cell(o)) /\ Closed(m)
    OBVIOUS
  <2> HIDE DEF add
  <2>3. m \o add(i) \in Seq(Cell(o)) /\ Closed(m \o add(i))
    BY <2>1, <2>2, ClosedConcat, ConcatProperties
  <2>4. m \o add(i) # <<>>
    BY <2>1, <2>2, ConcatEqualIffEmpty
  <2>5. Turn(begin \o m, i) = begin \o (m \o add(i))
    BY <2>1, <2>2, ConcatAssociative
  <2> QED
    BY <2>3, <2>4, <2>5
<1>3. ASSUME NEW i \in 1..n, NEW t \in T
      PROVE  Turn(t, i) \in T
  <2>1. PICK m \in C : t = begin \o m
    OBVIOUS
  <2> HIDE DEF Turn, add, C
  <2> QED
    BY <1>2, <2>1
<1>4. begin \in T
  <2>1. <<>> \in C /\ begin = begin \o <<>>
    BY ClosedEmpty, ConcatEmptySeq
  <2> HIDE DEF C
  <2> QED
    BY <2>1
<1>5. step \in [1..n -> [T -> T]]
  <2> HIDE DEF Turn, T
  <2> QED
    BY <1>3
<1>6. \A i \in 1..n : i - 1 \in 0..n /\ i # 0 /\ i \in 0..n
  BY <1>1
<1>7. \A i \in 0..n : i # 0 => i \in 1..n
  BY <1>1
<1>8. \A i \in 1..n, t \in T : step[i][t] = Turn(t, i)
  <2> HIDE DEF Turn, T, n
  <2> QED
    OBVIOUS
<1>9. AppendCopies(begin, args, o) = macro[n]
  BY DEF AppendCopies
<1> HIDE DEF step, T, n, Turn, add, C
<1>10. \E f \in [0..n -> T] : IsRun(f, begin, n, step)
  BY ONLY <1>1, <1>4, <1>5, LoopRuns
<1>11. PICK f \in [0..n -> T] : IsRun(f, begin, n, step)
  BY <1>10
<1>12. f[0] = begin /\ \A i \in 1..n : f[i] = step[i][f[i - 1]] /\ f[i - 1] \in T
  BY <1>6, <1>11 DEF IsRun
<1>13. \A i \in 0..n : f[i] = IF i = 0 THEN begin ELSE Turn(f[i - 1], i)
  BY <1>7, <1>8, <1>12
<1>14. Is(f)
  BY <1>11, <1>13
<1>15. Is(macro)
  <2> HIDE DEF Is
  <2> QED
    BY <1>14
<1> HIDE DEF macro
<1>16. macro[0] = begin /\ \A i \in 1..n : macro[i] = Turn(macro[i - 1], i)
  <2>1. 0 \in 0..n
    BY <1>1
  <2> QED
    BY <1>6, <1>15, <2>1
<1>17. macro[n - 1] \in T
  <2> DEFINE P == {i \in 0..n : macro[i] \in T}
  <2>1. 0 \in P
    BY <1>1, <1>4, <1>16
  <2>2. ASSUME NEW i \in 1..n, i - 1 \in P
        PROVE  i \in P
    BY <1>3, <1>6, <1>16, <2>2
  <2> HIDE DEF P
  <2>3. \A i \in 0..n : i \in P
    BY <1>1, <2>1, <2>2, UpTo
  <2>4. n - 1 \in P
    BY <1>1, <2>3
  <2> QED
    BY <2>4 DEF P
<1>18. PICK m \in C : macro[n - 1] = begin \o m
  BY <1>17 DEF T
<1>19. /\ m \o add(n) \in C /\ m \o add(n) # <<>>
       /\ macro[n] = begin \o (m \o add(n))
  BY <1>1, <1>2, <1>16, <1>18
<1>20. m \o add(n) \in Macros(o)
  BY <1>19 DEF C, Macros, Cell
<1> QED
  BY <1>9, <1>19, <1>20

\* The values a script can use refer to what has been made.
LEMMA LuaValuesWell ==
  ASSUME TypeOK, NEW v \in LuaValues
  PROVE  v \in Values /\ (v.type = "object" => v.ref \in DOMAIN objects)
<1>1. Live \subseteq Nat /\ Live \subseteq DOMAIN objects
  BY LenProperties DEF TypeOK, Live
<1> QED
  BY <1>1 DEF LuaValues, Values, Nil, IntegerOf, Object

\* An argument of macro() becomes a macro.
LEMMA AppendCopyWell ==
  ASSUME TypeOK, UserdataWell, NEW o, NEW v, v.type = "object" => v.ref \in DOMAIN objects,
         IsMacroKey(v) \/ IsMacro(v)
  PROVE  append_copy_to_macro(v, o) \in Macros(o)
<1>1. CASE IsMacro(v)
  <2> DEFINE ka == objects[v.ref].action
             p == <<"lua", v.ref>>
  <2>1. ka \in Actions(p, Unset) /\ Root(ka).type = "MACRO"
    BY <1>1 DEF IsMacro, IsUserdata, UserdataWell
  <2>2. Root(ka) \in Structs(p)
    BY <2>1, TreeFields DEF Actions, WellMade, Root
  <2>3. Root(ka).macro \in Macros(p)
    BY <2>1, <2>2, StructTypes
  <2> QED
    BY <1>1, <2>3, MacroDup DEF append_copy_to_macro
<1>2. CASE ~IsMacro(v)
  <2> DEFINE n == AsInt(v.n)
  <2>1. n \in KeyCodes
    BY <1>2 DEF IsMacroKey
  <2> HIDE DEF n
  <2>2. (key_macro_new(n, TRUE, o) \o <<>>) \o key_macro_new(n, FALSE, o) \in Macros(o)
    <3> DEFINE none == <<>>
    <3>1. none \in Seq(Cell(o)) /\ Closed(none)
      BY ClosedEmpty
    <3> HIDE DEF none
    <3>2. (key_macro_new(n, TRUE, o) \o none) \o key_macro_new(n, FALSE, o) \in Macros(o)
      BY <2>1, <3>1, ClosedWrap
    <3> QED
      BY <3>2 DEF none
  <2>3. key_macro_new(n, TRUE, o) \in Seq(Cell(o))
    BY <2>1, OneCell
  <2>4. key_macro_new(n, TRUE, o) \o <<>> = key_macro_new(n, TRUE, o)
    <3> DEFINE down == key_macro_new(n, TRUE, o)
    <3> HIDE DEF down
    <3>1. down \in Seq(Cell(o))
      BY <2>3 DEF down
    <3>2. down \o <<>> = down
      BY <3>1, ConcatEmptySeq
    <3> QED
      BY <3>2 DEF down
  <2> QED
    BY <1>2, <2>2, <2>4 DEF append_copy_to_macro, n
<1> QED
  BY <1>1, <1>2

\* The options of a dual key are in range, whatever its third argument.
LEMMA OptionsWell ==
  ASSUME NEW config \in Configs, NEW r \in read_dual_key_config(config)
  PROVE  /\ r.MODE \in ModeRange
         /\ r.HOLD_MS \in Int /\ r.HOLD_MS >= 1
         /\ r.DOUBLE_TAP_MS \in Int /\ r.DOUBLE_TAP_MS >= -1
<1> DEFINE given(o) == {config.options[k].n : k \in {l \in DOMAIN config.options : OptionOf[l] = o}}
           range(o) == IF given(o) = {} THEN {Defaults[o]} ELSE given(o)
<1>1. CASE config.type = "absent"
  <2>1. r = Defaults
    BY <1>1 DEF read_dual_key_config
  <2> QED
    BY <2>1 DEF Defaults, ModeRange
<1>2. CASE config.type = "integer" /\ config.n \in ModeRange
  <2>1. r = [Defaults EXCEPT !.MODE = config.n]
    BY <1>2 DEF read_dual_key_config
  <2> QED
    BY <1>2, <2>1 DEF Defaults
<1>3. CASE /\ config.type = "table"
           /\ \A k \in DOMAIN config.options : ValidOption(OptionOf[k], config.options[k])
  <2>1. read_dual_key_config(config)
        = {[MODE |-> m, HOLD_MS |-> h, DOUBLE_TAP_MS |-> d] :
             m \in range("MODE"), h \in range("HOLD_MS"), d \in range("DOUBLE_TAP_MS")}
    BY <1>3 DEF read_dual_key_config
  <2>2. \A k \in DOMAIN config.options :
          config.options[k].type = "integer" /\ config.options[k].n \in Int
    BY <1>3, KeymapsAssumption DEF KeymapsAssumption, ValidOption
  <2>3. \A n \in given("MODE") : n \in ModeRange
    BY <1>3 DEF ValidOption
  <2>4. \A n \in given("HOLD_MS") : n \in Int /\ n >= 1
    BY <1>3, <2>2 DEF ValidOption
  <2>5. \A n \in given("DOUBLE_TAP_MS") : n \in Int /\ n >= -1
    BY <1>3, <2>2 DEF ValidOption
  <2> HIDE DEF given
  <2>6. /\ \A n \in range("MODE") : n \in ModeRange
        /\ \A n \in range("HOLD_MS") : n \in Int /\ n >= 1
        /\ \A n \in range("DOUBLE_TAP_MS") : n \in Int /\ n >= -1
    BY <2>3, <2>4, <2>5 DEF Defaults, ModeRange
  <2> HIDE DEF range
  <2> QED
    BY <2>1, <2>6
<1>4. CASE /\ config.type # "absent"
           /\ ~(config.type = "integer" /\ config.n \in ModeRange)
           /\ ~(/\ config.type = "table"
                /\ \A k \in DOMAIN config.options : ValidOption(OptionOf[k], config.options[k]))
  BY <1>4 DEF read_dual_key_config
<1> QED
  BY <1>1, <1>2, <1>3, <1>4

\* What dual_key() puts together is a key action.
LEMMA DualWell ==
  ASSUME NEW o, NEW C, NEW tap \in Actions(o, C), NEW hold \in Actions(o, C),
         Root(tap).type \notin {"DUAL", "MAP"}, Root(hold).type # "DUAL",
         NEW s \in DualStructs(o)
  PROVE  LET ka == Node(s, [t \in {Tap, Hold} |-> IF t = Tap THEN tap ELSE hold]) IN
         ka \in Actions(o, C) /\ Root(ka).type = "DUAL"
<1> DEFINE children == [t \in {Tap, Hold} |-> IF t = Tap THEN tap ELSE hold]
<1>1. children \in [{Tap, Hold} -> Actions(o, C)]
  OBVIOUS
<1>2. children[Tap] = tap /\ children[Hold] = hold
  BY KeyCodesAreNoHalves
<1>3. Root(tap).type \in {"NONE", "SIMPLE", "MACRO"}
  <2>1. Root(tap) \in Structs(o)
    BY TreeFields DEF Actions, WellMade, Root
  <2> QED
    BY <2>1, StructTypes
<1>4. {Tap, Hold} \in SUBSET Steps
  BY DEF Steps
<1>5. s \notin MapStructs(o) /\ s.type = "DUAL"
  BY DEF DualStructs, MapStructs
<1> HIDE DEF children
<1>6. Node(s, children) \in Actions(o, C) /\ Root(Node(s, children)) = s
  BY <1>1, <1>2, <1>3, <1>4, <1>5, NodeWellMade
<1> QED
  BY <1>5, <1>6 DEF children

\* What is well made for a set of keys is so for a smaller one.
LEMMA FewerKeys ==
  ASSUME NEW o, NEW C, NEW D, D \subseteq C
  PROVE  /\ Actions(o, C) \subseteq Actions(o, D)
         /\ \A map : Filled(map, o, C) => Filled(map, o, D)
<1>1. \A ka : WellMade(ka, C) => WellMade(ka, D)
  BY DEF WellMade
<1> QED
  BY <1>1 DEF Actions, Filled

-----------------------------------------------------------------------------
(* Every action keeps the invariant                                        *)

LEMMA InitIInv == Init => IInv
<1> SUFFICES ASSUME Init
             PROVE  IInv
  OBVIOUS
<1>1. objects = <<>> /\ grabs = <<>> /\ DOMAIN objects = {} /\ DOMAIN grabs = {}
  BY DEF Init
<1>2. TypeOK
  BY DEF Init, TypeOK
<1> QED
  BY <1>1, <1>2 DEF IInv, TablesWell, UserdataWell, GrabsWell, Grabbing

\* Nothing but the objects a step changes has to be looked at, if it sets no field.
LEMMA ObjectsStep ==
  ASSUME IInv, UNCHANGED <<grabs, assignments>>,
         objects' \in Seq(Things), DOMAIN objects \subseteq DOMAIN objects',
         \A i \in DOMAIN objects' :
           \/ i \in DOMAIN objects /\ objects'[i] = objects[i]
           \/ objects'[i].kind = "freed"
           \/ objects'[i].kind = "table" /\ objects'[i].fields = [k \in FieldKeys |-> Nil]
           \/ /\ objects'[i].kind = "userdata"
              /\ objects'[i].action \in Actions(<<"lua", i>>, Unset)
              /\ Root(objects'[i].action).type \in {"MACRO", "DUAL"}
  PROVE  IInv'
<1>1. TypeOK'
  BY DEF IInv, TypeOK
<1>2. Unset' = Unset /\ GrabsWell'
  BY DEF IInv, GrabsWell, Grabbing, Unset
<1>3. TablesWell'
  <2> SUFFICES ASSUME NEW i \in DOMAIN objects', objects'[i].kind = "table", NEW k \in FieldKeys
               PROVE  LET v == objects'[i].fields[k] IN
                      /\ v.type = "object" => v.ref \in DOMAIN objects'
                      /\ v # Nil => CodeOf[k] \notin Unset
    BY <1>2 DEF TablesWell, FieldsWell
  <2>1. CASE i \in DOMAIN objects /\ objects'[i] = objects[i]
    <3>1. FieldsWell(objects[i].fields)
      BY <2>1 DEF IInv, TablesWell
    <3> QED
      BY <2>1, <3>1 DEF FieldsWell
  <2>2. CASE objects'[i].fields = [l \in FieldKeys |-> Nil]
    BY <2>2 DEF FieldsWell, Nil
  <2> QED
    BY <2>1, <2>2
<1>4. UserdataWell'
  <2> SUFFICES ASSUME NEW i \in DOMAIN objects', objects'[i].kind = "userdata"
               PROVE  /\ objects'[i].action \in Actions(<<"lua", i>>, Unset)
                      /\ Root(objects'[i].action).type \in {"MACRO", "DUAL"}
    BY <1>2 DEF UserdataWell, Root
  <2> QED
    BY DEF IInv, UserdataWell
<1> QED
  BY <1>1, <1>2, <1>3, <1>4 DEF IInv

\* A new key action that is well made, and its maker's, keeps the invariant.
LEMMA NewActionIInv ==
  ASSUME IInv, NEW ka \in Actions(NewOwner, Unset), Root(ka).type \in {"MACRO", "DUAL"},
         lua_new_key_action(ka)
  PROVE  IInv'
<1> DEFINE new == [kind |-> "userdata", action |-> ka]
           n == Len(objects) + 1
<1>1. objects \in Seq(Things) /\ Len(objects) \in Nat /\ n \in Nat
  BY LenProperties DEF IInv, TypeOK
<1>2. objects' = Append(objects, new) /\ UNCHANGED <<grabs, assignments>>
  BY DEF lua_new_key_action
<1>3. NewOwner = <<"lua", n>>
  BY DEF NewOwner
<1> HIDE DEF n
<1>4. ka \in Trees(<<"lua", n>>) /\ ka \in Actions(<<"lua", n>>, Unset)
  BY <1>3 DEF Actions
<1>5. new \in Things
  BY <1>1, <1>4 DEF Things, Actual
<1> HIDE DEF new
<1>6. /\ objects' \in Seq(Things) /\ objects'[n] = new
      /\ DOMAIN objects' = 1..n /\ DOMAIN objects = 1..(n - 1)
      /\ \A i \in 1..(n - 1) : objects'[i] = objects[i]
  BY <1>1, <1>2, <1>5, AppendProperties, LenProperties DEF n
<1>7. \A i \in 1..n : i \in 1..(n - 1) \/ i = n
  BY <1>1
<1>8. new.kind = "userdata" /\ new.action = ka
  BY DEF new
<1>9. DOMAIN objects \subseteq DOMAIN objects'
  BY <1>1, <1>6
<1> QED
  BY <1>2, <1>4, <1>6, <1>7, <1>8, <1>9, ObjectsStep

\* Freed objects are nobody's any more.
LEMMA FreedIInv ==
  ASSUME IInv, UNCHANGED <<grabs, assignments>>, DOMAIN objects' = DOMAIN objects,
         objects' \in Seq(Things),
         \A i \in DOMAIN objects : objects'[i] = objects[i] \/ objects'[i].kind = "freed"
  PROVE  IInv'
BY ObjectsStep

LEMMA AllFreedType ==
  ASSUME TypeOK
  PROVE  /\ AllFreed \in Seq(Things) /\ DOMAIN AllFreed = DOMAIN objects
         /\ \A i \in DOMAIN objects : AllFreed[i].kind = "freed"
<1>1. Len(objects) \in Nat /\ DOMAIN objects = 1..Len(objects)
  BY LenProperties DEF TypeOK
<1>2. [kind |-> "freed"] \in Things
  BY DEF Things
<1>3. AllFreed = [i \in 1..Len(objects) |-> [kind |-> "freed"]]
  BY <1>1 DEF AllFreed
<1> HIDE DEF AllFreed
<1> QED
  BY <1>1, <1>2, <1>3

\* Without objects and grabs there is nothing to be wrong.
LEMMA NothingLeftIInv ==
  ASSUME IInv, objects' = AllFreed, grabs' = <<>>, UNCHANGED assignments
  PROVE  IInv'
<1>1. /\ AllFreed \in Seq(Things) /\ DOMAIN AllFreed = DOMAIN objects
      /\ \A i \in DOMAIN objects : AllFreed[i].kind = "freed"
  BY AllFreedType DEF IInv
<1>2. TypeOK'
  BY <1>1 DEF IInv, TypeOK
<1>3. DOMAIN grabs' = {}
  OBVIOUS
<1> QED
  BY <1>1, <1>2, <1>3 DEF IInv, TablesWell, UserdataWell, GrabsWell, Grabbing

LEMMA ScriptFailsIInv ==
  ASSUME IInv, ScriptFails
  PROVE  IInv'
BY NothingLeftIInv DEF ScriptFails

LEMMA NewTableIInv ==
  ASSUME IInv, NewTable
  PROVE  IInv'
<1> DEFINE new == [kind |-> "table", fields |-> [k \in FieldKeys |-> Nil]]
           n == Len(objects) + 1
<1>1. objects \in Seq(Things) /\ Len(objects) \in Nat /\ n \in Nat
  BY LenProperties DEF IInv, TypeOK
<1>2. objects' = Append(objects, new) /\ UNCHANGED <<grabs, assignments>>
  BY DEF NewTable
<1>3. new \in Things
  BY DEF Things, Tables, Values
<1>4. new.kind = "table" /\ new.fields = [k \in FieldKeys |-> Nil]
  OBVIOUS
<1> HIDE DEF new
<1>5. /\ objects' \in Seq(Things) /\ objects'[n] = new
      /\ DOMAIN objects' = 1..n /\ DOMAIN objects = 1..(n - 1)
      /\ \A i \in 1..(n - 1) : objects'[i] = objects[i]
  BY <1>1, <1>2, <1>3, AppendProperties, LenProperties
<1>6. \A i \in 1..n : i \in 1..(n - 1) \/ i = n
  BY <1>1
<1>7. DOMAIN objects \subseteq DOMAIN objects'
  BY <1>1, <1>5
<1> HIDE DEF n
<1> QED
  BY <1>2, <1>4, <1>5, <1>6, <1>7, ObjectsStep

LEMMA CollectIInv ==
  ASSUME IInv, Collect
  PROVE  IInv'
<1>1. PICK i \in DOMAIN objects : objects' = [objects EXCEPT ![i] = [kind |-> "freed"]]
  BY DEF Collect, Live
<1>2. UNCHANGED <<grabs, assignments>>
  BY DEF Collect
<1>3. [kind |-> "freed"] \in Things
  BY DEF Things
<1>4. objects \in Seq(Things) /\ DOMAIN objects = 1..Len(objects)
  BY LenProperties DEF IInv, TypeOK
<1>5. objects' \in Seq(Things)
  BY <1>1, <1>3, <1>4, ExceptSeq
<1>6. /\ DOMAIN objects' = DOMAIN objects
      /\ \A j \in DOMAIN objects : objects'[j] = objects[j] \/ objects'[j] = [kind |-> "freed"]
  BY <1>1
<1> QED
  BY <1>2, <1>5, <1>6, FreedIInv

LEMMA SetFieldIInv ==
  ASSUME IInv, SetField
  PROVE  IInv'
<1>1. PICK t \in Live, k \in FieldKeys, v \in LuaValues :
        /\ objects[t].kind = "table"
        /\ objects' = [objects EXCEPT ![t].fields[k] = v]
        /\ assignments' = [assignments EXCEPT ![CodeOf[k]] = @ + 1]
  BY DEF SetField
<1>2. /\ objects \in Seq(Things) /\ DOMAIN objects = 1..Len(objects) /\ t \in DOMAIN objects
      /\ grabs' = grabs /\ assignments \in [KeyCodes -> Nat] /\ grabs \in Seq(GrabRecords)
  BY LenProperties DEF IInv, TypeOK, Live, SetField
<1>3. CodeOf[k] \in KeyCodes
  BY KeymapsAssumption DEF KeymapsAssumption
<1>4. v \in Values /\ (v.type = "object" => v.ref \in DOMAIN objects)
  BY LuaValuesWell DEF IInv
<1>5. objects[t] \in Tables
  BY <1>1, <1>2 DEF Things, Tables, Actual
<1> DEFINE new == [objects[t] EXCEPT !.fields[k] = v]
<1>6. /\ new \in Tables /\ new.kind = "table"
      /\ new.fields = [objects[t].fields EXCEPT ![k] = v]
  BY <1>4, <1>5 DEF Tables
<1>7. objects' = [objects EXCEPT ![t] = new]
  BY <1>1
<1> HIDE DEF new
<1>8. objects' \in Seq(Things) /\ DOMAIN objects' = DOMAIN objects
  <2>1. new \in Things
    BY <1>6 DEF Things
  <2> QED
    BY <1>2, <1>7, <2>1, ExceptSeq
<1>9. /\ objects'[t] = new
      /\ \A i \in DOMAIN objects : i # t => objects'[i] = objects[i]
  BY <1>2, <1>7
<1>10. assignments' \in [KeyCodes -> Nat]
  BY <1>1, <1>2, <1>3
<1>11. Unset' = Unset \ {CodeOf[k]}
  <2>1. \A c \in KeyCodes : assignments'[c] = IF c = CodeOf[k] THEN assignments[c] + 1 ELSE assignments[c]
    BY <1>1, <1>2, <1>3
  <2>2. \A c \in KeyCodes : assignments'[c] = 0 <=> assignments[c] = 0 /\ c # CodeOf[k]
    BY <1>2, <2>1
  <2> QED
    BY <2>2 DEF Unset
<1>12. TypeOK'
  BY <1>2, <1>8, <1>10 DEF TypeOK
<1>13. TablesWell'
  <2> SUFFICES ASSUME NEW i \in DOMAIN objects', objects'[i].kind = "table", NEW l \in FieldKeys
               PROVE  LET w == objects'[i].fields[l] IN
                      /\ w.type = "object" => w.ref \in DOMAIN objects'
                      /\ w # Nil => CodeOf[l] \notin Unset'
    BY DEF TablesWell, FieldsWell
  <2>1. CASE i # t
    <3>1. FieldsWell(objects[i].fields) /\ objects'[i] = objects[i]
      BY <1>8, <1>9, <2>1 DEF IInv, TablesWell
    <3> QED
      BY <1>8, <1>11, <3>1 DEF FieldsWell
  <2>2. CASE i = t
    <3>1. FieldsWell(objects[t].fields) /\ objects[t].fields \in [FieldKeys -> Values]
      BY <1>1, <1>2, <1>5 DEF IInv, TablesWell, Tables
    <3>2. objects'[i].fields[l] = IF l = k THEN v ELSE objects[t].fields[l]
      BY <1>6, <1>9, <2>2, <3>1
    <3>3. CASE l = k
      BY <1>4, <1>8, <1>11, <3>2, <3>3
    <3>4. CASE l # k
      BY <1>8, <1>11, <3>1, <3>2, <3>4 DEF FieldsWell
    <3> QED
      BY <3>3, <3>4
  <2> QED
    BY <2>1, <2>2
<1>14. UserdataWell'
  <2> SUFFICES ASSUME NEW i \in DOMAIN objects', objects'[i].kind = "userdata"
               PROVE  /\ objects'[i].action \in Actions(<<"lua", i>>, Unset')
                      /\ Root(objects'[i].action).type \in {"MACRO", "DUAL"}
    BY DEF UserdataWell, Root, Actions, WellMade, Joined
  <2>1. i # t /\ objects'[i] = objects[i]
    BY <1>6, <1>8, <1>9
  <2>2. /\ objects[i].action \in Actions(<<"lua", i>>, Unset)
        /\ Root(objects[i].action).type \in {"MACRO", "DUAL"}
    BY <1>8, <2>1 DEF IInv, UserdataWell
  <2>3. Unset' \subseteq Unset
    BY <1>11
  <2>4. objects[i].action \in Actions(<<"lua", i>>, Unset')
    BY <2>2, <2>3, FewerKeys
  <2> QED
    BY <2>1, <2>2, <2>4
<1>15. GrabsWell'
  <2> SUFFICES ASSUME NEW i \in Grabbing
               PROVE  Filled(grabs[i].map, <<"grab", i>>, Unset')
    BY <1>2 DEF GrabsWell, Grabbing
  <2>1. Filled(grabs[i].map, <<"grab", i>>, Unset)
    BY DEF IInv, GrabsWell
  <2>2. Unset' \subseteq Unset
    BY <1>11
  <2> QED
    BY <2>1, <2>2, FewerKeys
<1> QED
  BY <1>12, <1>13, <1>14, <1>15 DEF IInv

\* macro(), shift(), ctrl(), alt() and meta(): what they make of well made arguments.
LEMMA MacroArgs ==
  ASSUME IInv, NEW o, NEW args \in SeqOf(LuaValues, MaxArgs), args # <<>>,
         \A i \in DOMAIN args : IsMacroKey(args[i]) \/ IsMacro(args[i])
  PROVE  /\ Len(args) \in Nat \ {0}
         /\ \A i \in 1..Len(args) : append_copy_to_macro(args[i], o) \in Macros(o)
<1>1. PICK n \in Nat : args \in [1..n -> LuaValues]
  BY DEF SeqOf
<1>2. args \in Seq(LuaValues)
  BY <1>1
<1>3. Len(args) \in Nat \ {0} /\ DOMAIN args = 1..Len(args)
  BY <1>2
<1>4. ASSUME NEW i \in 1..Len(args)
      PROVE  append_copy_to_macro(args[i], o) \in Macros(o)
  <2>1. args[i] \in LuaValues
    BY <1>2, <1>3
  <2>2. args[i].type = "object" => args[i].ref \in DOMAIN objects
    BY <2>1, LuaValuesWell DEF IInv
  <2>3. IsMacroKey(args[i]) \/ IsMacro(args[i])
    BY <1>3
  <2> QED
    BY <2>2, <2>3, AppendCopyWell DEF IInv
<1> QED
  BY <1>3, <1>4

\* A macro in a leaf is a key action.
LEMMA MacroLeaf ==
  ASSUME NEW o, NEW C, NEW m \in Macros(o)
  PROVE  /\ Leaf([type |-> "MACRO", macro |-> m]) \in Actions(o, C)
         /\ Root(Leaf([type |-> "MACRO", macro |-> m])).type = "MACRO"
<1>1. [type |-> "MACRO", macro |-> m] \in PlainStructs(o)
  BY DEF PlainStructs
<1> QED
  BY <1>1, LeafWellMade

LEMMA MacroIInv ==
  ASSUME IInv, lua_macro
  PROVE  IInv'
<1> DEFINE o == NewOwner
<1>1. PICK args \in SeqOf(LuaValues, MaxArgs) :
        IF args # <<>> /\ \A i \in DOMAIN args : IsMacroKey(args[i]) \/ IsMacro(args[i])
        THEN lua_new_key_action(
               Leaf([type |-> "MACRO", macro |-> AppendCopies(<<>>, args, o) \o <<>>]))
        ELSE ScriptFails
  BY DEF lua_macro, MacroCall
<1>2. CASE args # <<>> /\ \A i \in DOMAIN args : IsMacroKey(args[i]) \/ IsMacro(args[i])
  <2>1. /\ Len(args) \in Nat \ {0}
        /\ \A i \in 1..Len(args) : append_copy_to_macro(args[i], o) \in Macros(o)
    BY <1>2, MacroArgs
  <2>2. PICK m \in Macros(o) : AppendCopies(<<>>, args, o) = <<>> \o m
    <3> DEFINE begin == <<>>
    <3>1. begin \in Seq(Cell(o))
      OBVIOUS
    <3> HIDE DEF begin, o
    <3>2. \E m \in Macros(o) : AppendCopies(begin, args, o) = begin \o m
      BY <2>1, <3>1, AppendWell
    <3> QED
      BY <3>2 DEF begin
  <2>3. (<<>> \o m) \o <<>> = m
    <3>1. m \in Seq(Cell(o))
      BY DEF Macros, Cell
    <3> HIDE DEF o
    <3> QED
      BY <3>1, ConcatEmptySeq
  <2>4. lua_new_key_action(Leaf([type |-> "MACRO", macro |-> m]))
    BY <1>1, <1>2, <2>2, <2>3
  <2> QED
    BY <2>4, MacroLeaf, NewActionIInv
<1>3. CASE ~(args # <<>> /\ \A i \in DOMAIN args : IsMacroKey(args[i]) \/ IsMacro(args[i]))
  BY <1>1, <1>3, ScriptFailsIInv
<1> QED
  BY <1>2, <1>3

LEMMA ModIInv ==
  ASSUME IInv, NEW num \in ModCodes, lua_mod(num)
  PROVE  IInv'
<1> DEFINE o == NewOwner
           down == key_macro_new(num, TRUE, o)
           up == key_macro_new(num, FALSE, o)
<1>1. PICK args \in SeqOf(LuaValues, MaxArgs) :
        IF args # <<>> /\ \A i \in DOMAIN args : IsMacroKey(args[i]) \/ IsMacro(args[i])
        THEN lua_new_key_action(
               Leaf([type |-> "MACRO", macro |-> AppendCopies(down, args, o) \o up]))
        ELSE ScriptFails
  BY DEF lua_mod, MacroCall
<1>2. CASE args # <<>> /\ \A i \in DOMAIN args : IsMacroKey(args[i]) \/ IsMacro(args[i])
  <2>1. /\ Len(args) \in Nat \ {0}
        /\ \A i \in 1..Len(args) : append_copy_to_macro(args[i], o) \in Macros(o)
    BY <1>2, MacroArgs
  <2>2. num \in KeyCodes
    BY KeymapsAssumption DEF KeymapsAssumption
  <2>3. down \in Seq(Cell(o))
    BY <2>2, OneCell
  <2> HIDE DEF o
  <2>4. PICK m \in Macros(o) : AppendCopies(down, args, o) = down \o m
    <3> HIDE DEF down
    <3> QED
      BY <2>1, <2>3, AppendWell
  <2>5. m \in Seq(Cell(o)) /\ Closed(m)
    BY DEF Macros, Cell
  <2>6. (down \o m) \o up \in Macros(o)
    BY <2>2, <2>5, ClosedWrap
  <2> HIDE DEF down, up
  <2>7. lua_new_key_action(Leaf([type |-> "MACRO", macro |-> (down \o m) \o up]))
    BY <1>1, <1>2, <2>4
  <2> QED
    BY <2>6, <2>7, MacroLeaf, NewActionIInv DEF o
<1>3. CASE ~(args # <<>> /\ \A i \in DOMAIN args : IsMacroKey(args[i]) \/ IsMacro(args[i]))
  BY <1>1, <1>3, ScriptFailsIInv
<1> QED
  BY <1>2, <1>3

LEMMA DualKeyIInv ==
  ASSUME IInv, lua_dual_key
  PROVE  IInv'
<1> DEFINE o == NewOwner
           made(tap, hold, r) ==
             Node([type |-> "DUAL", owner |-> o, mode |-> r.MODE,
                   hold_ms |-> r.HOLD_MS, double_tap_ms |-> r.DOUBLE_TAP_MS],
                  [s \in {Tap, Hold} |-> IF s = Tap THEN tap ELSE hold])
           refused(tap, hold, results) ==
             \/ Root(tap).type \in {"FAILED", "DUAL", "MAP"}
             \/ Root(hold).type \in {"FAILED", "DUAL"}
             \/ results = {}
<1>1. PICK t \in LuaValues, h \in LuaValues, config \in Configs :
        IF refused(copy_to_key_action(t, o), copy_to_key_action(h, o), read_dual_key_config(config))
        THEN ScriptFails
        ELSE \E r \in read_dual_key_config(config) :
               lua_new_key_action(made(copy_to_key_action(t, o), copy_to_key_action(h, o), r))
  BY DEF lua_dual_key
<1>2. PICK tap, hold : tap = copy_to_key_action(t, o) /\ hold = copy_to_key_action(h, o)
  OBVIOUS
<1>3. tap \in MayFail(o, Unset) /\ hold \in MayFail(o, Unset)
  BY <1>2, LuaValuesWell, CopyWell DEF IInv
<1>4. CASE refused(tap, hold, read_dual_key_config(config))
  <2>1. ScriptFails
    BY <1>1, <1>2, <1>4
  <2> QED
    BY <2>1, ScriptFailsIInv
<1>5. CASE ~refused(tap, hold, read_dual_key_config(config))
  <2>1. PICK r \in read_dual_key_config(config) : lua_new_key_action(made(tap, hold, r))
    BY <1>1, <1>2, <1>5
  <2>2. /\ Root(tap).type \notin {"FAILED", "DUAL", "MAP"}
        /\ Root(hold).type \notin {"FAILED", "DUAL"}
    BY <1>5
  <2> HIDE DEF o
  <2>3. tap \in Actions(o, Unset) /\ hold \in Actions(o, Unset)
    BY <1>3, <2>2, NotFailed
  <2>4. [type |-> "DUAL", owner |-> o, mode |-> r.MODE,
         hold_ms |-> r.HOLD_MS, double_tap_ms |-> r.DOUBLE_TAP_MS] \in DualStructs(o)
    BY OptionsWell DEF DualStructs
  <2>5. made(tap, hold, r) \in Actions(o, Unset) /\ Root(made(tap, hold, r)).type = "DUAL"
    BY <2>2, <2>3, <2>4, DualWell
  <2> HIDE DEF made
  <2> QED
    BY <2>1, <2>5, NewActionIInv DEF o
<1> QED
  BY <1>4, <1>5

\* A new grab that is filled, and owns what it holds, keeps the invariant.
LEMMA AddGrabIInv ==
  ASSUME IInv, NEW grab \in [matches : Patterns, ignore : BOOLEAN,
                             map : Trees(<<"grab", Len(grabs) + 1>>)],
         grab.ignore \/ Filled(grab.map, <<"grab", Len(grabs) + 1>>, Unset),
         AddGrab(grab)
  PROVE  IInv'
<1> DEFINE n == Len(grabs) + 1
<1>1. grabs \in Seq(GrabRecords) /\ Len(grabs) \in Nat /\ n \in Nat
  BY LenProperties DEF IInv, TypeOK
<1>2. grabs' = Append(grabs, grab) /\ UNCHANGED <<objects, assignments>>
  BY DEF AddGrab, Appended
<1>3. grab \in GrabRecords
  <2> HIDE DEF n
  <2> QED
    BY <1>1 DEF GrabRecords, n
<1>4. grab.ignore \/ Filled(grab.map, <<"grab", n>>, Unset)
  OBVIOUS
<1>5. /\ grabs' \in Seq(GrabRecords) /\ grabs'[n] = grab
      /\ DOMAIN grabs' = 1..n /\ DOMAIN grabs = 1..(n - 1)
      /\ \A i \in 1..(n - 1) : grabs'[i] = grabs[i]
  BY <1>1, <1>2, <1>3, AppendProperties, LenProperties
<1>6. \A i \in 1..n : i \in 1..(n - 1) \/ i = n
  BY <1>1
<1> HIDE DEF n
<1>7. TypeOK' /\ Unset' = Unset
  BY <1>2, <1>5 DEF IInv, TypeOK, Unset
<1>8. TablesWell' /\ UserdataWell'
  BY <1>2, <1>7 DEF IInv, TablesWell, FieldsWell, UserdataWell
<1>9. GrabsWell'
  <2> SUFFICES ASSUME NEW i \in DOMAIN grabs', ~grabs'[i].ignore
               PROVE  Filled(grabs'[i].map, <<"grab", i>>, Unset)
    BY <1>7 DEF GrabsWell, Grabbing
  <2>1. CASE i \in 1..(n - 1)
    BY <1>5, <2>1 DEF IInv, GrabsWell, Grabbing
  <2>2. CASE i = n
    BY <1>4, <1>5, <2>2
  <2> QED
    BY <1>5, <1>6, <2>1, <2>2
<1> QED
  BY <1>7, <1>8, <1>9 DEF IInv

LEMMA GrabKeyboardIInv ==
  ASSUME IInv, lua_grab_keyboard
  PROVE  IInv'
<1> DEFINE o == <<"grab", Len(grabs) + 1>>
<1>1. PICK pattern \in Patterns, v \in LuaValues :
        IF Root(copy_to_key_action(v, o)).type # "MAP" THEN ScriptFails
        ELSE AddGrab([matches |-> pattern, ignore |-> FALSE,
                      map |-> fill_map(copy_to_key_action(v, o))])
  BY DEF lua_grab_keyboard
<1> HIDE DEF o
<1>2. copy_to_key_action(v, o) \in MayFail(o, Unset)
  BY LuaValuesWell, CopyWell DEF IInv
<1>3. PICK map : map = copy_to_key_action(v, o)
  OBVIOUS
<1>4. CASE Root(map).type # "MAP"
  BY <1>1, <1>3, <1>4, ScriptFailsIInv
<1>5. CASE Root(map).type = "MAP"
  <2>1. map \in Actions(o, Unset)
    BY <1>2, <1>3, <1>5, NotFailed
  <2>2. fill_map(map) \in Trees(o) /\ Filled(fill_map(map), o, Unset)
    BY <1>5, <2>1, FillMap
  <2>3. AddGrab([matches |-> pattern, ignore |-> FALSE, map |-> fill_map(map)])
    BY <1>1, <1>3, <1>5
  <2> QED
    BY <2>2, <2>3, AddGrabIInv DEF o
<1> QED
  BY <1>4, <1>5

LEMMA IgnoreKeyboardIInv ==
  ASSUME IInv, lua_ignore_keyboard
  PROVE  IInv'
<1> DEFINE o == <<"grab", Len(grabs) + 1>>
<1>1. PICK pattern \in Patterns :
        AddGrab([matches |-> pattern, ignore |-> TRUE, map |-> Leaf(None)])
  BY DEF lua_ignore_keyboard
<1>2. None \in PlainStructs(o)
  BY DEF PlainStructs
<1>3. Leaf(None) \in Trees(o)
  BY <1>2, LeafWellMade DEF Actions
<1> QED
  BY <1>1, <1>3, AddGrabIInv

LEMMA IInvIsInductive == IInv /\ [Next]_vars => IInv'
<1> SUFFICES ASSUME IInv, [Next]_vars
             PROVE  IInv'
  OBVIOUS
<1>1. CASE NewTable
  BY <1>1, NewTableIInv
<1>2. CASE SetField
  BY <1>2, SetFieldIInv
<1>3. CASE lua_macro
  BY <1>3, MacroIInv
<1>4. CASE \E num \in ModCodes : lua_mod(num)
  BY <1>4, ModIInv
<1>5. CASE lua_dual_key
  BY <1>5, DualKeyIInv
<1>6. CASE lua_grab_keyboard
  BY <1>6, GrabKeyboardIInv
<1>7. CASE lua_ignore_keyboard
  BY <1>7, IgnoreKeyboardIInv
<1>8. CASE Collect
  BY <1>8, CollectIInv
<1>9. CASE ScriptFails
  BY <1>9, ScriptFailsIInv
<1>10. CASE config_free
  BY <1>10, NothingLeftIInv DEF config_free
<1>11. CASE ScriptReturns \/ UNCHANGED vars
  <2>1. UNCHANGED <<objects, grabs, assignments>>
    BY <1>11 DEF ScriptReturns, vars
  <2>2. objects' \in Seq(Things)
    BY <2>1 DEF IInv, TypeOK
  <2> QED
    BY <2>1, <2>2, FreedIInv
<1> QED
  BY <1>1, <1>2, <1>3, <1>4, <1>5, <1>6, <1>7, <1>8, <1>9, <1>10, <1>11 DEF Next

LEMMA SpecIInv == Spec => []IInv
<1>1. Init => IInv
  BY InitIInv
<1>2. IInv /\ [Next]_vars => IInv'
  BY IInvIsInductive
<1> QED
  BY <1>1, <1>2, PTL DEF Spec

-----------------------------------------------------------------------------
(* What the invariant is for                                               *)

\* What is in a key action of a Lua object is its own, and every macro in it is closed.
LEMMA ActionsWell ==
  ASSUME NEW o, NEW C, NEW ka \in Actions(o, C)
  PROVE  /\ OwnedBy(ka, o)
         /\ \A path \in DOMAIN ka :
              ka[path].type = "MACRO" => ka[path].macro # <<>> /\ Closed(ka[path].macro)
<1>1. \A path \in DOMAIN ka : ka[path] \in Structs(o)
  BY TreeFields DEF Actions
<1>2. \A path \in DOMAIN ka : ka[path].type = "MACRO" => ka[path].macro \in Macros(o)
  BY <1>1, StructTypes
<1> QED
  BY <1>1, <1>2, OwnersOf DEF OwnedBy, Macros

\* What the resolver finds at a path is of a kind that it knows.
LEMMA PlainActionWell ==
  ASSUME NEW o, NEW map \in Trees(o), NEW path \in DOMAIN map
  PROVE  /\ map[path].type = "SIMPLE" =>
              PlainAction(map, path) \in Resolver(map)!SimpleAction
         /\ map[path].type = "MACRO" =>
              PlainAction(map, path) \in Resolver(map)!MacroAction
         /\ map[path].type = "MAP" =>
              PlainAction(map, path) \in Resolver(map)!MapAction
<1> DEFINE s == map[path]
<1>1. s \in Structs(o)
  BY TreeFields
<1>2. KeyCodes \subseteq Resolver(map)!Codes
  BY KeymapsAssumption DEF KeymapsAssumption, KeyCodes, Resolver!Codes
<1>3. CASE s.type = "SIMPLE"
  <2>1. s \in [type : {"SIMPLE"}, simple : KeyCodes]
    BY <1>1, <1>3, StructTypes
  <2>2. PlainAction(map, path) = s
    BY <1>3 DEF PlainAction
  <2> QED
    BY <1>2, <1>3, <2>1, <2>2 DEF Resolver!SimpleAction
<1>4. CASE s.type = "MACRO"
  <2>1. s.macro \in Seq([code : KeyCodes, press : BOOLEAN, owner : {o}])
    BY <1>1, <1>4, StructTypes DEF Macros
  <2>2. PICK macro : macro = s.macro
    OBVIOUS
  <2>3. Cells(s.macro) \in Seq([code : Resolver(map)!Codes, press : BOOLEAN])
    <3>0. macro \in Seq([code : KeyCodes, press : BOOLEAN, owner : {o}])
      BY <2>1, <2>2
    <3>1. Len(macro) \in Nat
      BY <3>0
    <3>2. ASSUME NEW i \in 1..Len(macro)
          PROVE  [code |-> macro[i].code, press |-> macro[i].press]
                   \in [code : Resolver(map)!Codes, press : BOOLEAN]
      <4>1. macro[i] \in [code : KeyCodes, press : BOOLEAN, owner : {o}]
        BY <3>0, ElementOfSeq
      <4> QED
        BY <1>2, <4>1
    <3> QED
      BY <2>2, <3>1, <3>2 DEF Cells
  <2>4. PlainAction(map, path) = [type |-> "MACRO", macro |-> Cells(s.macro)]
    BY <1>4 DEF PlainAction
  <2> QED
    BY <1>4, <2>3, <2>4 DEF Resolver!MacroAction
<1>5. CASE s.type = "MAP"
  <2>1. PlainAction(map, path) = [type |-> "MAP", map |-> path]
    BY <1>5 DEF PlainAction
  <2>2. path \in KeymapsIn(map)
    BY <1>5 DEF KeymapsIn
  <2> QED
    BY <1>5, <2>1, <2>2 DEF Resolver!MapAction
<1> QED
  BY <1>3, <1>4, <1>5

\* What the resolver finds at a path to which everything is there is a key action.
LEMMA KeyActionWell ==
  ASSUME NEW o, NEW map \in Trees(o), \A p \in DOMAIN map : CompleteAt(map, p),
         NEW path \in DOMAIN map
  PROVE  KeyAction(map, path) \in Resolver(map)!KeyAction
<1> DEFINE s == map[path]
<1>1. s \in Structs(o) /\ CompleteAt(map, path)
  BY TreeFields
<1>2. CASE s.type \in {"SIMPLE", "MACRO", "MAP"}
  BY <1>2, PlainActionWell DEF KeyAction, Resolver!KeyAction, Resolver!PlainAction
<1>3. CASE s.type = "DUAL"
  <2> DEFINE tap == Append(path, Tap)
             hold == Append(path, Hold)
  <2>1. s \in DualStructs(o)
    BY <1>1, <1>3, StructTypes
  <2>2. /\ tap \in DOMAIN map /\ map[tap].type \in {"SIMPLE", "MACRO"}
        /\ hold \in DOMAIN map /\ map[hold].type # "DUAL"
    BY <1>1, <1>3 DEF CompleteAt
  <2>3. map[hold].type \in {"SIMPLE", "MACRO", "MAP"}
    <3>1. map[hold] \in Structs(o) /\ CompleteAt(map, hold)
      BY <2>2, TreeFields
    <3>2. map[hold].type # "NONE"
      BY <3>1 DEF CompleteAt
    <3> QED
      BY <2>2, <3>1, <3>2, StructTypes
  <2>4. PlainAction(map, tap) \in Resolver(map)!SimpleAction \cup Resolver(map)!MacroAction
    BY <2>2, PlainActionWell
  <2>5. PlainAction(map, hold) \in Resolver(map)!PlainAction
    BY <2>2, <2>3, PlainActionWell DEF Resolver!PlainAction
  <2>6. ModeNames[s.mode + 1] \in Resolver(map)!Modes
    BY <2>1 DEF DualStructs, ModeRange, ModeNames, Resolver!Modes
  <2>7. s.hold_ms \in Nat \ {0} /\ s.double_tap_ms \in Nat \cup {-1}
    BY <2>1 DEF DualStructs
  <2> HIDE DEF tap, hold
  <2>8. KeyAction(map, path) =
          [type |-> "DUAL", tap |-> PlainAction(map, tap), hold |-> PlainAction(map, hold),
           mode |-> ModeNames[s.mode + 1],
           hold_ms |-> s.hold_ms, double_tap_ms |-> s.double_tap_ms]
    BY <1>3 DEF KeyAction, tap, hold
  <2> QED
    BY <2>4, <2>5, <2>6, <2>7, <2>8 DEF Resolver!KeyAction, Resolver!DualAction
<1>4. s.type \in {"SIMPLE", "MACRO", "MAP", "DUAL"}
  <2>1. s.type # "NONE"
    BY <1>1 DEF CompleteAt
  <2> QED
    BY <1>1, <2>1, StructTypes
<1> QED
  BY <1>2, <1>3, <1>4

LEMMA GrabTypes ==
  ASSUME TypeOK, NEW i \in Grabbing
  PROVE  \E o : grabs[i].map \in Trees(o)
<1>1. i \in DOMAIN grabs /\ grabs \in Seq(GrabRecords)
  BY DEF TypeOK, Grabbing
<1>2. grabs[i] \in GrabRecords
  BY <1>1
<1> QED
  BY <1>2 DEF GrabRecords

\* Whatever tables, macros, modifiers and dual keys a script composes, in which order, and
\* whatever Lua has collected by then: the keymaps that grab_keyboard() keeps are, at every
\* depth, what the resolver takes them to be (fill_map, dual_key).
THEOREM CompleteGrabs == Spec => []GrabsAreComplete
<1>1. IInv => GrabsAreComplete
  <2> SUFFICES ASSUME IInv, NEW i \in Grabbing
               PROVE  /\ Root(grabs[i].map).type = "MAP"
                      /\ EntriesOf(grabs[i].map) \in
                           [KeymapsIn(grabs[i].map) ->
                              [KeyCodes -> Resolver(grabs[i].map)!KeyAction]]
    BY DEF GrabsAreComplete
  <2>1. PICK map : map = grabs[i].map
    OBVIOUS
  <2>2. \A path \in DOMAIN map : CompleteAt(map, path)
    BY <2>1 DEF IInv, GrabsWell, Filled
  <2>3. PICK o : map \in Trees(o)
    BY <2>1, GrabTypes DEF IInv
  <2>4. Root(map).type = "MAP"
    BY <2>1 DEF IInv, GrabsWell, Filled
  <2>5. ASSUME NEW path \in KeymapsIn(map), NEW c \in KeyCodes
        PROVE  KeyAction(map, Append(path, c)) \in Resolver(map)!KeyAction
    <3>1. path \in DOMAIN map /\ map[path].type = "MAP" /\ CompleteAt(map, path)
      BY <2>2 DEF KeymapsIn
    <3>2. Append(path, c) \in DOMAIN map
      BY <3>1 DEF CompleteAt
    <3> QED
      BY <2>2, <2>3, <3>2, KeyActionWell
  <2>6. EntriesOf(map) \in [KeymapsIn(map) -> [KeyCodes -> Resolver(map)!KeyAction]]
    BY <2>5 DEF EntriesOf
  <2> QED
    BY <2>1, <2>4, <2>6
<1> QED
  BY <1>1, SpecIInv, PTL

\* A cell counts as the event it is.
LEMMA CountStep ==
  ASSUME NEW m, NEW i \in Nat \ {0}, NEW ev
  PROVE  /\ Event(m[i]) = ev => Count(m, i, ev) = Count(m, i - 1, ev) + 1
         /\ Event(m[i]) # ev => Count(m, i, ev) = Count(m, i - 1, ev)
<1> DEFINE At(n) == {j \in 1..n : Event(m[j]) = ev}
<1>1. \A n : Count(m, n, ev) = Cardinality(At(n))
  BY DEF Count, Event
<1>2. i - 1 \in Nat /\ i \notin At(i - 1)
  OBVIOUS
<1>3. IsFiniteSet(At(i - 1))
  <2>1. IsFiniteSet(1..(i - 1))
    BY <1>2, FS_Interval
  <2>2. At(i - 1) \in SUBSET (1..(i - 1))
    OBVIOUS
  <2> HIDE DEF At
  <2> QED
    BY <2>1, <2>2, FS_Subset
<1>4. 1..i = (1..(i - 1)) \cup {i}
  OBVIOUS
<1>5. CASE Event(m[i]) = ev
  <2>1. At(i) = At(i - 1) \cup {i}
    BY <1>4, <1>5
  <2>2. Cardinality(At(i - 1) \cup {i}) = Cardinality(At(i - 1)) + 1
    BY <1>2, <1>3, FS_AddElement
  <2> HIDE DEF At
  <2> QED
    BY <1>1, <1>5, <2>1, <2>2
<1>6. CASE Event(m[i]) # ev
  <2>1. At(i) = At(i - 1)
    BY <1>4, <1>6
  <2> HIDE DEF At
  <2> QED
    BY <1>1, <1>6, <2>1
<1> QED
  BY <1>5, <1>6

\* A macro that is closed is, to the resolver, one that leaves nothing down.
LEMMA ClosedForResolver ==
  ASSUME NEW o, NEW m \in Seq(Cell(o)), Closed(m), NEW map
  PROVE  Resolver(map)!LeavesNothingDown(Cells(m))
<1> SUFFICES ASSUME NEW c \in 1..(KeyMax - 1)
             PROVE  \E down \in [0..Len(Cells(m)) -> Nat] :
                      /\ down[0] = 0 /\ down[Len(Cells(m))] = 0
                      /\ \A i \in 1..Len(Cells(m)) :
                           down[i] + Resolver(map)!Num(Cells(m)[i].code = c /\ ~Cells(m)[i].press)
                             = down[i - 1] + Resolver(map)!Num(Cells(m)[i].code = c /\ Cells(m)[i].press)
  BY DEF Resolver!LeavesNothingDown
<1> DEFINE N     == 0..Len(m)
           ups   == [i \in N |-> Count(m, i, Release(c))]
           downs == [i \in N |-> Count(m, i, Press(c))]
           down  == [i \in N |-> downs[i] - ups[i]]
<1>1. c \in KeyCodes /\ Len(m) \in Nat
  BY KeymapsAssumption DEF KeymapsAssumption, KeyCodes
<1>2. /\ Len(Cells(m)) = Len(m)
      /\ \A i \in 1..Len(m) : Cells(m)[i] = [code |-> m[i].code, press |-> m[i].press]
  BY <1>1 DEF Cells
<1>3. ups \in [N -> Nat] /\ downs \in [N -> Nat] /\ ups[0] = 0 /\ downs[0] = 0
  BY <1>1, CountType
<1>4. \A i \in N : downs[i] >= ups[i]
  <2>1. \A i \in DOMAIN m : Count(m, i, Press(c)) >= Count(m, i, Release(c))
    BY <1>1 DEF Closed
  <2>2. \A i \in N : i = 0 \/ i \in DOMAIN m
    BY <1>1
  <2>3. \A i \in N : ups[i] = Count(m, i, Release(c)) /\ downs[i] = Count(m, i, Press(c))
    OBVIOUS
  <2> HIDE DEF ups, downs
  <2> QED
    BY <1>3, <2>1, <2>2, <2>3
<1>5. downs[Len(m)] = ups[Len(m)]
  BY <1>1 DEF Closed
<1>6. ASSUME NEW i \in 1..Len(m)
      PROVE  /\ m[i].press \in BOOLEAN
             /\ ups[i] = IF m[i].code = c /\ ~m[i].press THEN ups[i - 1] + 1 ELSE ups[i - 1]
             /\ downs[i] = IF m[i].code = c /\ m[i].press THEN downs[i - 1] + 1 ELSE downs[i - 1]
  <2>1. m[i] \in Cell(o)
    BY ElementOfSeq
  <2>2. m[i].press \in BOOLEAN
    BY <2>1 DEF Cell
  <2>3. i \in Nat \ {0} /\ i \in N /\ i - 1 \in N
    BY <1>1
  <2>4. (Event(m[i]) = Release(c)) <=> (m[i].code = c /\ ~m[i].press)
    BY <2>2 DEF Event, Release
  <2>5. (Event(m[i]) = Press(c)) <=> (m[i].code = c /\ m[i].press)
    BY <2>2 DEF Event, Press
  <2> QED
    BY <2>2, <2>3, <2>4, <2>5, CountStep
<1> HIDE DEF ups, downs
<1>7. down \in [N -> Nat]
  <2>1. \A i \in N : downs[i] \in Nat /\ ups[i] \in Nat /\ downs[i] >= ups[i]
    BY <1>3, <1>4
  <2> QED
    BY <2>1
<1>8. down[0] = 0 /\ down[Len(m)] = 0
  BY <1>1, <1>3, <1>5
<1>9. ASSUME NEW i \in 1..Len(m)
      PROVE  down[i] + Resolver(map)!Num(m[i].code = c /\ ~m[i].press)
               = down[i - 1] + Resolver(map)!Num(m[i].code = c /\ m[i].press)
  <2>1. /\ i \in N /\ i - 1 \in N
        /\ down[i] = downs[i] - ups[i] /\ down[i - 1] = downs[i - 1] - ups[i - 1]
    BY <1>1
  <2>2. /\ ups[i] \in Nat /\ ups[i - 1] \in Nat /\ downs[i] \in Nat /\ downs[i - 1] \in Nat
    BY <1>3, <2>1
  <2> HIDE DEF down, ups, downs, N
  <2>3. /\ Resolver(map)!Num(m[i].code = c /\ ~m[i].press)
             = IF m[i].code = c /\ ~m[i].press THEN 1 ELSE 0
        /\ Resolver(map)!Num(m[i].code = c /\ m[i].press)
             = IF m[i].code = c /\ m[i].press THEN 1 ELSE 0
    BY Zenon DEF Resolver!Num
  <2>4. CASE m[i].code = c /\ m[i].press
    <3>1. /\ Resolver(map)!Num(m[i].code = c /\ ~m[i].press) = 0
          /\ Resolver(map)!Num(m[i].code = c /\ m[i].press) = 1
      BY <2>3, <2>4, Zenon
    <3>2. ups[i] = ups[i - 1] /\ downs[i] = downs[i - 1] + 1
      BY <1>6, <2>4
    <3> QED
      BY <2>1, <2>2, <3>1, <3>2
  <2>5. CASE m[i].code = c /\ ~m[i].press
    <3>1. /\ Resolver(map)!Num(m[i].code = c /\ ~m[i].press) = 1
          /\ Resolver(map)!Num(m[i].code = c /\ m[i].press) = 0
      BY <2>3, <2>5, Zenon
    <3>2. ups[i] = ups[i - 1] + 1 /\ downs[i] = downs[i - 1]
      BY <1>6, <2>5
    <3> QED
      BY <2>1, <2>2, <3>1, <3>2
  <2>6. CASE m[i].code # c
    <3>1. /\ Resolver(map)!Num(m[i].code = c /\ ~m[i].press) = 0
          /\ Resolver(map)!Num(m[i].code = c /\ m[i].press) = 0
      BY <2>3, <2>6, Zenon
    <3>2. ups[i] = ups[i - 1] /\ downs[i] = downs[i - 1]
      BY <1>6, <2>6
    <3> QED
      BY <2>1, <2>2, <3>1, <3>2
  <2> QED
    BY <2>4, <2>5, <2>6, Zenon
<1> HIDE DEF down, N
<1>10. \A i \in 1..Len(m) :
         down[i] + Resolver(map)!Num(Cells(m)[i].code = c /\ ~Cells(m)[i].press)
           = down[i - 1] + Resolver(map)!Num(Cells(m)[i].code = c /\ Cells(m)[i].press)
  <2> SUFFICES ASSUME NEW i \in 1..Len(m)
               PROVE  down[i] + Resolver(map)!Num(Cells(m)[i].code = c /\ ~Cells(m)[i].press)
                        = down[i - 1] + Resolver(map)!Num(Cells(m)[i].code = c /\ Cells(m)[i].press)
    OBVIOUS
  <2>1. Cells(m)[i] = [code |-> m[i].code, press |-> m[i].press]
    BY <1>2, Zenon
  <2>2. Cells(m)[i].code = m[i].code /\ Cells(m)[i].press = m[i].press
    BY <2>1
  <2> QED
    BY <1>9, <2>2, Zenon
<1> QED
  BY <1>2, <1>7, <1>8, <1>10 DEF N

\* what ResolverOutputProofs assumes of macros (MacrosAreClosed), of those of every grab
GrabbedMacrosAreClosed ==
  \A i \in Grabbing : LET map == grabs[i].map IN
    \A path \in DOMAIN map : map[path].type = "MACRO" =>
      Resolver(map)!LeavesNothingDown(PlainAction(map, path).macro)

\* Every macro of every grab is, as the resolver finds it, one that leaves nothing down:
\* what OutputCorrect and KeyHoldsImplemented assume of macros is so (macro, shift, dup).
THEOREM ResolverMacros == Spec => []GrabbedMacrosAreClosed
<1>1. IInv => GrabbedMacrosAreClosed
  <2> SUFFICES ASSUME IInv, NEW i \in Grabbing, NEW path \in DOMAIN grabs[i].map,
                      grabs[i].map[path].type = "MACRO"
               PROVE  Resolver(grabs[i].map)!LeavesNothingDown(PlainAction(grabs[i].map, path).macro)
    BY DEF GrabbedMacrosAreClosed
  <2>1. PICK map : map = grabs[i].map
    OBVIOUS
  <2>2. PICK o : map \in Trees(o)
    BY <2>1, GrabTypes DEF IInv
  <2>3. map[path] \in Structs(o) /\ map[path].type = "MACRO"
    BY <2>1, <2>2, TreeFields
  <2>4. map[path].macro \in Macros(o)
    BY <2>3, StructTypes
  <2>5. PICK m : m = map[path].macro
    OBVIOUS
  <2>6. m \in Seq(Cell(o)) /\ Closed(m)
    BY <2>4, <2>5 DEF Macros, Cell
  <2>7. PlainAction(map, path).macro = Cells(m)
    BY <2>3, <2>5 DEF PlainAction
  <2> QED
    BY <2>1, <2>6, <2>7, ClosedForResolver
<1> QED
  BY <1>1, SpecIInv, PTL

\* README.md:110: a key for which the script has set no field is itself in every keymap of
\* every grab, also where a table was changed after a copy was made of it (fill_map).
THEOREM UnassignedKeys == Spec => []UnassignedKeysAreThemselves
<1>1. IInv => UnassignedKeysAreThemselves
  <2> SUFFICES ASSUME IInv, NEW i \in Grabbing,
                      NEW path \in DOMAIN grabs[i].map, NEW c \in KeyCodes,
                      grabs[i].map[path].type = "MAP", assignments[c] = 0
               PROVE  grabs[i].map[Append(path, c)] = Simple(c)
    BY DEF UnassignedKeysAreThemselves
  <2>1. Filled(grabs[i].map, <<"grab", i>>, Unset)
    BY DEF IInv, GrabsWell
  <2>2. c \in Unset \cap KeyCodes
    BY DEF Unset
  <2> QED
    BY <2>1, <2>2 DEF Filled
<1> QED
  BY <1>1, SpecIInv, PTL

\* However macro(), shift(), ctrl(), alt() and meta() are nested and copied, every macro
\* there is has a cell, and releases what it presses and nothing else.
THEOREM ClosedMacros == Spec => []MacrosLeaveNothingDown
<1>1. IInv => MacrosLeaveNothingDown
  <2> SUFFICES ASSUME IInv, NEW ka \in AllActions, NEW path \in DOMAIN ka,
                      ka[path].type = "MACRO"
               PROVE  ka[path].macro # <<>> /\ Closed(ka[path].macro)
    BY DEF MacrosLeaveNothingDown
  <2>1. CASE \E i \in Grabbing : ka = grabs[i].map
    BY <2>1 DEF IInv, GrabsWell, Filled
  <2>2. CASE \E i \in Userdata : ka = objects[i].action
    <3>1. PICK i \in Userdata : ka = objects[i].action
      BY <2>2
    <3>2. ka \in Actions(<<"lua", i>>, Unset)
      BY <3>1 DEF IInv, UserdataWell, Userdata, Live
    <3> QED
      BY <3>2, ActionsWell
  <2> QED
    BY <2>1, <2>2 DEF AllActions
<1> QED
  BY <1>1, SpecIInv, PTL

\* key_action.c:25: what a grab or a Lua object refers to is its own, so that Lua may
\* collect, and config_free() free, any of them without touching another.
THEOREM OneOwner == Spec => []BlocksHaveOneOwner
<1>1. IInv => BlocksHaveOneOwner
  <2>1. ASSUME IInv, NEW i \in Grabbing
        PROVE  OwnedBy(grabs[i].map, <<"grab", i>>)
    BY <2>1 DEF IInv, GrabsWell, Filled
  <2>2. ASSUME IInv, NEW i \in Userdata
        PROVE  OwnedBy(objects[i].action, <<"lua", i>>)
    <3>1. objects[i].action \in Actions(<<"lua", i>>, Unset)
      BY <2>2 DEF IInv, UserdataWell, Userdata, Live
    <3> QED
      BY <3>1, ActionsWell
  <2> QED
    BY <2>1, <2>2 DEF BlocksHaveOneOwner
<1> QED
  BY <1>1, SpecIInv, PTL

\* A grab that is appended comes behind all there are.
LEMMA AppendedGrab ==
  ASSUME TypeOK, NEW grab, grabs' = Append(grabs, grab),
         NEW kb, \E i \in DOMAIN grabs : kb \in grabs[i].matches
  PROVE  check_grabs(kb)' = check_grabs(kb)
<1> DEFINE n == Len(grabs) + 1
           first(g, i) == kb \in g[i].matches /\ \A j \in 1..(i - 1) : kb \notin g[j].matches
           map(g) == {g[i].map : i \in {j \in DOMAIN g : ~g[j].ignore /\ first(g, j)}}
<1>1. Len(grabs) \in Nat /\ n \in Nat /\ DOMAIN grabs = 1..Len(grabs)
  BY LenProperties DEF TypeOK
<1>2. /\ DOMAIN grabs' = 1..n /\ Len(grabs') = n
      /\ \A i \in DOMAIN grabs : grabs'[i] = grabs[i]
  BY <1>1 DEF TypeOK
<1>3. PICK m \in DOMAIN grabs : kb \in grabs[m].matches
  OBVIOUS
<1>4. ~first(grabs', n)
  BY <1>1, <1>2, <1>3
<1>5. \A i \in DOMAIN grabs : first(grabs', i) <=> first(grabs, i)
  BY <1>1, <1>2
<1>6. DOMAIN grabs' = DOMAIN grabs \cup {n}
  BY <1>1, <1>2
<1>7. check_grabs(kb) = map(grabs)
  BY DEF check_grabs, FirstMatch, Grabbing
<1>8. check_grabs(kb)' = map(grabs')
  BY DEF check_grabs, FirstMatch, Grabbing
<1> HIDE DEF first, n
<1>9. \A i \in DOMAIN grabs' : first(grabs', i) => i \in DOMAIN grabs
  BY <1>4, <1>6
<1>10. {j \in DOMAIN grabs' : ~grabs'[j].ignore /\ first(grabs', j)}
       = {j \in DOMAIN grabs : ~grabs[j].ignore /\ first(grabs, j)}
  BY <1>2, <1>5, <1>6, <1>9
<1>11. map(grabs') = map(grabs)
  BY <1>2, <1>10
<1> QED
  BY <1>7, <1>8, <1>11

\* README.md:148: once a pattern has matched a keyboard, no later call of grab_keyboard() or
\* ignore_keyboard() changes what check_grabs() makes of it.
THEOREM FirstMatchCounts == Spec => FirstMatchDecides
<1>1. ASSUME IInv, [Next]_vars, NEW kb \in Keyboards,
             grabs' # <<>>, \E i \in DOMAIN grabs : kb \in grabs[i].matches
      PROVE  check_grabs(kb)' = check_grabs(kb)
  <2>1. \/ grabs' = grabs
        \/ grabs' = <<>>
        \/ \E grab : grabs' = Append(grabs, grab)
    BY <1>1 DEF Next, vars, NewTable, SetField, lua_macro, lua_mod, MacroCall,
       lua_new_key_action, lua_dual_key, lua_grab_keyboard, lua_ignore_keyboard, AddGrab,
       Appended, Collect, ScriptFails, ScriptReturns, config_free
  <2>2. CASE grabs' = grabs
    BY <2>2 DEF check_grabs, FirstMatch, Grabbing
  <2>3. CASE \E grab : grabs' = Append(grabs, grab)
    BY <1>1, <2>3, AppendedGrab DEF IInv
  <2> QED
    BY <1>1, <2>1, <2>2, <2>3
<1>2. IInv /\ [Next]_vars =>
        [\A kb \in Keyboards :
           (grabs' # <<>> /\ \E i \in DOMAIN grabs : kb \in grabs[i].matches)
             => check_grabs(kb)' = check_grabs(kb)]_vars
  BY <1>1
<1> QED
  BY <1>2, SpecIInv, PTL DEF Spec, FirstMatchDecides

=============================================================================
