------------------------------ MODULE Keymaps -------------------------------
(***************************************************************************)
(* The configuration (config.c, key_action.c): a Lua script makes tables   *)
(* and key actions and hands them to grab_keyboard(), which keeps a copy.  *)
(* The script is any sequence of assignments and of calls of the functions *)
(* the program defines; Lua may collect what the script has let go of.     *)
(*                                                                         *)
(* A key action is a tree of C structs.  Here it is a function from the    *)
(* paths in that tree, sequences of key codes (the entry of a keymap) and  *)
(* of Tap and Hold (a half of a dual key), to the structs they lead to:    *)
(* what the code does by recursion it does at every path.  The blocks of a *)
(* struct (the cells of a macro, the two halves of a dual key, the array   *)
(* of a keymap) carry the owner that will free them: the Lua object or the *)
(* grab they were made for.  malloc() does not fail.                       *)
(***************************************************************************)
EXTENDS Integers, Sequences, FiniteSets, SequencesExt, FiniteSetsExt

CONSTANTS
  KeyMax,          \* KEY_MAX, 0x2ff
  FieldKeys,       \* keys of Lua tables
  CodeOf,          \* the code of each: 0 if get_input_value() does not know it
  IntModulus,      \* how many values an int has (2^32)
  ScriptIntegers,  \* the integers the script uses
  ModCodes,        \* the codes of shift(), ctrl(), alt() and meta()
  OptionOf,        \* what each key of a CONFIG table is a prefix of, or "unknown"
  Configs,         \* third arguments of dual_key()
  Keyboards,
  Patterns,        \* sets of keyboards that a regex may match
  MaxArgs,         \* bound on the arguments of a macro
  MaxUserdata,     \* bound on the key actions the script makes
  MaxStatements    \* bound on the assignments and successful calls of the script

KeyCodes == 0..(KeyMax - 1)
Options  == {"MODE", "HOLD_MS", "DOUBLE_TAP_MS"}

ASSUME KeymapsAssumption ==
  /\ KeyMax \in Nat /\ ModCodes \subseteq KeyCodes
  /\ CodeOf \in [FieldKeys -> KeyCodes]
  /\ IntModulus \in Nat \ {0}
  \* a table names each key once: of two names for one key, the one that lua_next()
  \* happens to visit last would win
  /\ \A k, l \in FieldKeys : (k # l /\ CodeOf[k] = CodeOf[l]) => CodeOf[k] = 0
  /\ \A o \in DOMAIN OptionOf : OptionOf[o] \in Options \cup {"unknown"}
  /\ \A config \in Configs : config.type = "table" =>
       \A k \in DOMAIN config.options :
         config.options[k].type = "integer" => config.options[k].n \in Int
  /\ Patterns \subseteq SUBSET Keyboards

VARIABLES
  objects,      \* Lua's tables and userdata, in the order they were made
  grabs,        \* config->grabs
  status,       \* of config_new(): "running" the script, "failed", "loaded"; then "freed"
  assignments   \* history: how often a field for each key has been set

vars == <<objects, grabs, status, assignments>>

-----------------------------------------------------------------------------
\* Lua values.  A field that is nil is not there.  Strings, booleans, floats and
\* functions are refused like integers that are no key code.

Nil       == [type |-> "nil"]
IntegerOf(n) == [type |-> "integer", n |-> n]
Object(i) == [type |-> "object", ref |-> i]

Live == {i \in DOMAIN objects : objects[i].kind # "freed"}

LuaValues ==
  {Nil} \cup {IntegerOf(n) : n \in ScriptIntegers} \cup {Object(i) : i \in Live}

IsTable(v)    == v.type = "object" /\ objects[v.ref].kind = "table"
IsUserdata(v) == v.type = "object" /\ objects[v.ref].kind = "userdata"
IsKeyCode(v)  == v.type = "integer" /\ v.n \in KeyCodes

-----------------------------------------------------------------------------
\* Key actions

None      == [type |-> "NONE"]
Failed    == [type |-> "FAILED"]    \* a copy that returns -1
Simple(c) == [type |-> "SIMPLE", simple |-> c]

\* the steps of a path that are no key codes
Tap  == -1
Hold == -2

\* the struct at the root of a key action
Root(ka) == ka[<<>>]

Leaf(struct) == [path \in {<<>>} |-> struct]

\* a struct that refers to others: children is a function from steps to key actions
Node(struct, children) ==
  [path \in {<<>>} \cup UNION {{<<s>> \o p : p \in DOMAIN children[s]} : s \in DOMAIN children} |->
     IF path = <<>> THEN struct ELSE children[Head(path)][Tail(path)]]

key_macro_new(code, press, o) == <<[code |-> code, press |-> press, owner |-> o]>>

Owned(macro, o) == [i \in DOMAIN macro |-> [macro[i] EXCEPT !.owner = o]]

\* variant: stops one cell early
key_macro_dup_short(macro, o) == Owned(Front(macro), o)

key_macro_dup(macro, o) == Owned(macro, o)

StructDup(in, o) ==
  CASE in.type = "MACRO"           -> [in EXCEPT !.macro = key_macro_dup(@, o)]
    [] in.type \in {"DUAL", "MAP"} -> [in EXCEPT !.owner = o]
    [] OTHER                       -> in

\* variant: the copy of a dual key shares what it holds
key_action_dup_shallow(in, o) ==
  [path \in DOMAIN in |->
     IF \E i \in DOMAIN path : path[i] = Hold THEN in[path] ELSE StructDup(in[path], o)]

key_action_dup(in, o) == [path \in DOMAIN in |-> StructDup(in[path], o)]

\* copy_to_key_action() of all but tables, of which copies holds the copies
CopyWith(copies, v, o) ==
  CASE v = Nil       -> Leaf(None)
    [] IsKeyCode(v)  -> Leaf(Simple(v.n))
    [] IsTable(v)    -> copies[v.ref]
    [] IsUserdata(v) -> key_action_dup(objects[v.ref].action, o)
    [] OTHER         -> Leaf(Failed)

\* A keymap of copies of the values of a table.  A key that is a number fails, as it
\* passes for a string and is no name; so does KEY_RESERVED, which is 0.
extract_table_to_key_map(copies, fields, o) ==
  LET present  == {k \in FieldKeys : fields[k] # Nil}
      given(c) == {k \in present : CodeOf[k] = c}
  IN IF \E k \in present : CodeOf[k] = 0 \/ Root(CopyWith(copies, fields[k], o)) = Failed
     THEN Leaf(Failed)
     ELSE Node([type |-> "MAP", owner |-> o],
               [c \in KeyCodes |->
                  IF given(c) = {} THEN Leaf(None)
                  ELSE CopyWith(copies, fields[CHOOSE k \in given(c) : TRUE], o)])

\* The copies of the first n objects that are tables.  A table only holds older ones.
TableCopies(o) ==
  LET copies[n \in 0..Len(objects)] ==
        IF n = 0 THEN [i \in DOMAIN objects |-> Leaf(None)]
        ELSE IF objects[n].kind # "table" THEN copies[n - 1]
        ELSE LET older == copies[n - 1] IN
             [older EXCEPT ![n] = extract_table_to_key_map(older, objects[n].fields, o)]
  IN copies

copy_to_key_action(v, o) == CopyWith(TableCopies(o)[Len(objects)], v, o)

-----------------------------------------------------------------------------
\* fill_map() is only ever called for a root keymap (base is NULL), and what it calls
\* passes that on: a missing entry becomes the key it is the entry of

fill_action(tgt, filler) == IF tgt.type = "NONE" THEN filler ELSE tgt

\* the last keymap on a path (which starts in one) is the one fill_map() is filling
EntryOf(path) == path[Max({i \in DOMAIN path : path[i] \in KeyCodes})]

\* variant: leaves dual keys alone
fill_map_no_dual(tgt) ==
  [path \in DOMAIN tgt |->
     IF \E i \in DOMAIN path : path[i] \in {Tap, Hold} THEN tgt[path]
     ELSE fill_action(tgt[path], Simple(EntryOf(path)))]

\* variant: fills a layer with the key that leads to it
fill_map_outer_key(tgt) ==
  [path \in DOMAIN tgt |-> fill_action(tgt[path], Simple(path[1]))]

fill_map(tgt) ==
  [path \in DOMAIN tgt |-> fill_action(tgt[path], Simple(EntryOf(path)))]

-----------------------------------------------------------------------------
\* The script

Init ==
  /\ objects = <<>>
  /\ grabs = <<>>
  /\ status = "running"
  /\ assignments = [c \in KeyCodes |-> 0]

\* the end of every Lua object
AllFreed == [i \in DOMAIN objects |-> [kind |-> "freed"]]

\* lua_error() unwinds to lua_pcall(), and config_new() closes Lua and returns NULL.
\* Besides the failing calls below: syntax errors, bad patterns, unknown variables.
ScriptFails ==
  /\ status = "running"
  /\ status' = "failed"
  /\ objects' = AllFreed
  /\ grabs' = <<>>
  /\ UNCHANGED assignments

ScriptReturns ==
  /\ status = "running"
  /\ status' = "loaded"
  /\ UNCHANGED <<objects, grabs, assignments>>

Statements ==
  Len(objects) + Len(grabs) + MapThenSumSet(LAMBDA c : assignments[c], KeyCodes)

Running  == status = "running" /\ Statements < MaxStatements
\* MaxUserdata also counts the tables that have been collected
MayMakeAction ==
  /\ Running
  /\ Cardinality({i \in DOMAIN objects : objects[i].kind # "table"}) < MaxUserdata

NewOwner == <<"lua", Len(objects) + 1>>

NewTable ==
  /\ Running
  /\ objects' = Append(objects, [kind |-> "table", fields |-> [k \in FieldKeys |-> Nil]])
  /\ UNCHANGED <<grabs, status, assignments>>

\* An assignment, or a field of a table constructor.  A table only holds older tables:
\* one that holds itself would be copied without end.
SetField ==
  /\ Running
  /\ \E t \in Live, k \in FieldKeys, v \in LuaValues :
       /\ objects[t].kind = "table"
       /\ IsTable(v) => v.ref < t
       /\ v # objects[t].fields[k]
       /\ objects' = [objects EXCEPT ![t].fields[k] = v]
       /\ assignments' = [assignments EXCEPT ![CodeOf[k]] = @ + 1]
  /\ UNCHANGED <<grabs, status>>

\* lua_new_key_action(), and what its callers put into it
lua_new_key_action(action) ==
  /\ objects' = Append(objects, [kind |-> "userdata", action |-> action])
  /\ UNCHANGED <<grabs, status, assignments>>

IsMacro(v) == IsUserdata(v) /\ Root(objects[v.ref].action).type = "MACRO"

\* a lua_Integer that is passed on as an int
AsInt(n) ==
  LET rem == n % IntModulus IN IF 2 * rem < IntModulus THEN rem ELSE rem - IntModulus

\* a number in a macro is cut to an int before it is compared with KEY_MAX, so one that
\* copy_to_key_action() refuses may pass for the key 2^32 below it
IsMacroKey(v) == v.type = "integer" /\ AsInt(v.n) \in KeyCodes

append_copy_to_macro(v, o) ==
  IF IsMacro(v) THEN key_macro_dup(Root(objects[v.ref].action).macro, o)
  ELSE key_macro_new(AsInt(v.n), TRUE, o) \o key_macro_new(AsInt(v.n), FALSE, o)

\* the loop over the arguments, which appends to a macro
AppendCopies(first, args, o) ==
  LET macro[i \in 0..Len(args)] ==
        IF i = 0 THEN first ELSE macro[i - 1] \o append_copy_to_macro(args[i], o)
  IN macro[Len(args)]

\* macro(), shift(), ctrl(), alt() and meta(): the arguments between two short macros
MacroCall(first, last) ==
  /\ MayMakeAction
  /\ \E args \in SeqOf(LuaValues, MaxArgs) :
       IF args # <<>> /\ \A i \in DOMAIN args : IsMacroKey(args[i]) \/ IsMacro(args[i])
       THEN lua_new_key_action(
              Leaf([type |-> "MACRO", macro |-> AppendCopies(first, args, NewOwner) \o last]))
       ELSE ScriptFails

lua_macro == MacroCall(<<>>, <<>>)

lua_mod(num) ==
  MacroCall(key_macro_new(num, TRUE, NewOwner), key_macro_new(num, FALSE, NewOwner))

Defaults == [MODE |-> 0, HOLD_MS |-> 200, DOUBLE_TAP_MS |-> 300]

\* DUAL_MODE_TAP_ON_ROLLOVER, DUAL_MODE_HOLD_ON_ROLLOVER, DUAL_MODE_TIMEOUT_ONLY
ModeRange == 0..2

ValidOption(option, v) ==
  /\ v.type = "integer"
  /\ CASE option = "MODE"          -> v.n \in ModeRange
       [] option = "HOLD_MS"       -> v.n >= 1
       [] option = "DOUBLE_TAP_MS" -> v.n >= -1
       [] OTHER                    -> FALSE

\* The options a third argument may result in; none if it is refused.  Any prefix of an
\* option's name stands for it; of two, the one that lua_next() visits last counts.
read_dual_key_config(config) ==
  LET given(o) == {config.options[k].n : k \in {l \in DOMAIN config.options : OptionOf[l] = o}}
      range(o) == IF given(o) = {} THEN {Defaults[o]} ELSE given(o)
  IN CASE config.type = "absent" -> {Defaults}
       [] config.type = "integer" /\ config.n \in ModeRange ->
            {[Defaults EXCEPT !.MODE = config.n]}
       [] /\ config.type = "table"
          /\ \A k \in DOMAIN config.options : ValidOption(OptionOf[k], config.options[k]) ->
            {[MODE |-> m, HOLD_MS |-> h, DOUBLE_TAP_MS |-> d] :
               m \in range("MODE"), h \in range("HOLD_MS"), d \in range("DOUBLE_TAP_MS")}
       [] OTHER -> {}

lua_dual_key ==
  /\ MayMakeAction
  /\ \E t, h \in LuaValues, config \in Configs :
       LET tap     == copy_to_key_action(t, NewOwner)
           hold    == copy_to_key_action(h, NewOwner)
           results == read_dual_key_config(config)
       IN IF \/ Root(tap).type \in {"FAILED", "DUAL", "MAP"}
             \/ Root(hold).type \in {"FAILED", "DUAL"}
             \/ results = {}
          THEN ScriptFails
          ELSE \E r \in results :
                 lua_new_key_action(
                   Node([type |-> "DUAL", owner |-> NewOwner, mode |-> r.MODE,
                         hold_ms |-> r.HOLD_MS, double_tap_ms |-> r.DOUBLE_TAP_MS],
                        [s \in {Tap, Hold} |-> IF s = Tap THEN tap ELSE hold]))

\* variant: the newest grab comes first
Prepended(grab) == <<grab>> \o grabs

Appended(grab) == Append(grabs, grab)

AddGrab(grab) ==
  /\ grabs' = Appended(grab)
  /\ UNCHANGED <<objects, status, assignments>>

lua_grab_keyboard ==
  /\ Running
  /\ \E pattern \in Patterns, v \in LuaValues :
       LET map == copy_to_key_action(v, <<"grab", Len(grabs) + 1>>) IN
       IF Root(map).type # "MAP" THEN ScriptFails
       ELSE AddGrab([matches |-> pattern, ignore |-> FALSE, map |-> fill_map(map)])

lua_ignore_keyboard ==
  /\ Running
  /\ \E pattern \in Patterns :
       AddGrab([matches |-> pattern, ignore |-> TRUE, map |-> Leaf(None)])

\* Lua collects what no table holds and the script no longer uses; of a key action it
\* calls lua_key_action_gc(), which frees all its blocks.
Collect ==
  /\ status = "running"
  /\ \E i \in Live :
       /\ \A t \in Live : objects[t].kind = "table" =>
            \A k \in FieldKeys : objects[t].fields[k] # Object(i)
       /\ objects' = [objects EXCEPT ![i] = [kind |-> "freed"]]
  /\ UNCHANGED <<grabs, status, assignments>>

\* lua_close() collects everything before the grabs are freed
config_free ==
  /\ status = "loaded"
  /\ objects' = AllFreed
  /\ grabs' = <<>>
  /\ status' = "freed"
  /\ UNCHANGED assignments

Next ==
  \/ NewTable \/ SetField \/ lua_macro \/ (\E num \in ModCodes : lua_mod(num))
  \/ lua_dual_key \/ lua_grab_keyboard \/ lua_ignore_keyboard \/ Collect
  \/ ScriptFails \/ ScriptReturns \/ config_free

Spec == Init /\ [][Next]_vars

-----------------------------------------------------------------------------
\* the owners of the blocks of a struct
BlockOwners(struct) ==
  CASE struct.type = "MACRO"           -> {struct.macro[i].owner : i \in DOMAIN struct.macro}
    [] struct.type \in {"DUAL", "MAP"} -> {struct.owner}
    [] OTHER                           -> {}

Grabbing == {i \in DOMAIN grabs : ~grabs[i].ignore}
Userdata == {i \in Live : objects[i].kind = "userdata"}

\* every key action there is
AllActions == {grabs[i].map : i \in Grabbing} \cup {objects[i].action : i \in Userdata}

-----------------------------------------------------------------------------
\* What the resolver finds in a grab: its keymaps go by the paths that lead to them.

KeymapsIn(map) == {path \in DOMAIN map : map[path].type = "MAP"}

Cells(macro) ==
  [i \in 1..Len(macro) |-> [code |-> macro[i].code, press |-> macro[i].press]]

PlainAction(map, path) ==
  CASE map[path].type = "SIMPLE" -> map[path]
    [] map[path].type = "MACRO"  -> [type |-> "MACRO", macro |-> Cells(map[path].macro)]
    [] map[path].type = "MAP"    -> [type |-> "MAP", map |-> path]
    [] OTHER                     -> None

\* 0, 1 and 2 in dual_key_mode_t
ModeNames == <<"TAP_ON_ROLLOVER", "HOLD_ON_ROLLOVER", "TIMEOUT_ONLY">>

KeyAction(map, path) ==
  IF map[path].type # "DUAL" THEN PlainAction(map, path)
  ELSE [type |-> "DUAL",
        tap  |-> PlainAction(map, Append(path, Tap)),
        hold |-> PlainAction(map, Append(path, Hold)),
        mode |-> ModeNames[map[path].mode + 1],
        hold_ms |-> map[path].hold_ms, double_tap_ms |-> map[path].double_tap_ms]

EntriesOf(map) ==
  [path \in KeymapsIn(map) |-> [c \in KeyCodes |-> KeyAction(map, Append(path, c))]]

Resolver(map) == INSTANCE KeyActions
                   WITH Keys <- 1..(KeyMax - 1), ModifierKeys <- {},
                        Keymaps <- KeymapsIn(map), KeymapOf <- EntriesOf(map)

\* What the resolver takes for granted (KeymapAssumption of KeyActions): in a keymap
\* that was grabbed, at every depth, no entry is missing, a dual key holds no dual key
\* and has no keymap as its tap, and its options are in range (fill_map, dual_key).
GrabsAreComplete ==
  \A i \in Grabbing : LET map == grabs[i].map IN
    /\ Root(map).type = "MAP"
    /\ EntriesOf(map) \in [KeymapsIn(map) -> [KeyCodes -> Resolver(map)!KeyAction]]

\* README.md:110, "All other keys behave normally": a key that the script sets in no
\* table is itself, in the root keymap and in every layer (fill_map).
UnassignedKeysAreThemselves ==
  \A i \in Grabbing : LET map == grabs[i].map IN
    \A path \in DOMAIN map, c \in KeyCodes :
      (map[path].type = "MAP" /\ assignments[c] = 0) => map[Append(path, c)] = Simple(c)

Press(c)   == [code |-> c, press |-> TRUE]
Release(c) == [code |-> c, press |-> FALSE]

\* how often the first n cells of a macro are an event
Count(macro, n, ev) ==
  Cardinality({i \in 1..n : [code |-> macro[i].code, press |-> macro[i].press] = ev})

\* a macro releases what it has pressed, and nothing else, and nothing before it has
\* pressed it
Closed(macro) ==
  \A c \in KeyCodes :
    /\ Count(macro, Len(macro), Press(c)) = Count(macro, Len(macro), Release(c))
    /\ \A n \in DOMAIN macro : Count(macro, n, Press(c)) >= Count(macro, n, Release(c))

\* However macros and modifiers are composed and copied, every macro there is is closed,
\* and none is empty: key_macro_dup() reads the first cell without looking (macro, shift).
MacrosLeaveNothingDown ==
  \A ka \in AllActions : \A path \in DOMAIN ka :
    ka[path].type = "MACRO" => ka[path].macro # <<>> /\ Closed(ka[path].macro)

OwnedBy(ka, o) == \A path \in DOMAIN ka : BlockOwners(ka[path]) \subseteq {o}

\* Copies are deep: what a grab or a Lua object refers to is its own, so that no block is
\* freed twice, or used after Lua has collected the object it was copied from
\* (key_action.c:25, "definitely valid with lua GC'ing").
BlocksHaveOneOwner ==
  /\ \A i \in Grabbing : OwnedBy(grabs[i].map, <<"grab", i>>)
  /\ \A i \in Userdata : OwnedBy(objects[i].action, <<"lua", i>>)

\* whether check_grabs() stops at a grab for a keyboard: its regex is the first to match
FirstMatch(i, keyboard) ==
  keyboard \in grabs[i].matches /\ \A j \in 1..(i - 1) : keyboard \notin grabs[j].matches

\* check_grabs(): the keymap at the first match; no keymap if it says to ignore, or if
\* there is none
check_grabs(keyboard) == {grabs[i].map : i \in {j \in Grabbing : FirstMatch(j, keyboard)}}

\* README.md:148, "the first REGEX to match a keyboard name determines the behavior":
\* once a pattern has matched a keyboard, nothing the script does changes whether the
\* keyboard is grabbed, or its keymap (grab_keyboard, ignore_keyboard, check_grabs).
FirstMatchDecides ==
  [][\A kb \in Keyboards :
       (grabs' # <<>> /\ \E i \in DOMAIN grabs : kb \in grabs[i].matches)
         => check_grabs(kb)' = check_grabs(kb)]_vars

\* config.c:686, "KT_NONE values (which should have fall-through behavior)": a key that
\* the script sets once, to another key in the root keymap, is that in every layer.
MissingKeysFallThrough ==
  \A i \in Grabbing : LET map == grabs[i].map IN
    \A path \in DOMAIN map, c \in KeyCodes :
      (/\ map[path].type = "MAP" /\ assignments[c] = 1
       /\ map[<<c>>].type = "SIMPLE" /\ map[<<c>>] # Simple(c))
      => map[Append(path, c)] = map[<<c>>]

=============================================================================
