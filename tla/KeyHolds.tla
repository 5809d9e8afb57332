------------------------------ MODULE KeyHolds ------------------------------
(***************************************************************************)
(* What the resolver promises to who types: a key that is pressed is held  *)
(* as one thing until it is released, and the output has down what some    *)
(* key is held as.  Keys are decided in the order in which they were       *)
(* touched, by the keymap in force; but a release need not wait for the    *)
(* decision on another key, unless it is a modifier's.                     *)
(*                                                                         *)
(* Nothing is said of how a dual key is decided, nor when.                 *)
(***************************************************************************)
EXTENDS KeyActions

CONSTANTS
  Grabs,
  RootOf,    \* grab -> its root keymap
  Capacity   \* how many events of a grab may wait

VARIABLES
  backlog,   \* grab -> the keys touched and not decided, in order, among other events
  heldAs,    \* grab -> key -> the code it is held as, Layer, Nothing, or Up
  layer,     \* grab -> the keymap in force
  pending,   \* codes of which the output is being changed
  down,      \* the codes that are down at the output
  running

vars == <<backlog, heldAs, layer, pending, down, running>>

Up      == -1
Nothing == 0      \* held, and no code is down for it
Other   == 0      \* an event that is neither a press nor a release
Layer   == RESET_KEYMAP

AllUp == [g \in Grabs |-> [k \in Keys |-> Up]]

Init ==
  /\ backlog = [g \in Grabs |-> <<>>]
  /\ heldAs = AllUp
  /\ layer = RootOf
  /\ pending = {} /\ down = {}
  /\ running = TRUE

\* A key goes down or up, or something else happens.
Touch(g) ==
  /\ running /\ Len(backlog[g]) < Capacity
  /\ \E k \in Keys \cup {Other} : backlog' = [backlog EXCEPT ![g] = Append(@, k)]
  /\ UNCHANGED <<heldAs, layer, pending, down, running>>

-----------------------------------------------------------------------------

\* what a key may be decided to be
Meanings(ka) == IF ka.type = "DUAL" THEN {ka.tap, ka.hold} ELSE {ka}

Hold(g, k, what)  == heldAs' = [heldAs EXCEPT ![g][k] = what]
Change(codes)     == pending' = codes \ {0}
TakeOldest(g)     == backlog' = [backlog EXCEPT ![g] = Tail(@)]
TakeNewest(g)     == backlog' = [backlog EXCEPT ![g] = SubSeq(@, 1, Len(@) - 1)]

\* The output has caught up with the last decision.
Ready(g) == running /\ pending = {} /\ backlog[g] # <<>>

\* The oldest key was up, so it was pressed.
Undecided(g) == Head(backlog[g]) \in Keys /\ heldAs[g][Head(backlog[g])] = Up

Press(g) ==
  LET k == Head(backlog[g]) IN
  /\ Ready(g) /\ TakeOldest(g) /\ Undecided(g)
  /\ \E ka \in Meanings(KeymapOf[layer[g]][k]) :
       \/ /\ ka.type = "SIMPLE"
          /\ Hold(g, k, ka.simple) /\ Change({ka.simple})
          /\ UNCHANGED layer
       \/ /\ ka.type = "MACRO"
          /\ Hold(g, k, Nothing)
          /\ Change({ka.macro[i].code : i \in 1..Len(ka.macro)})
          /\ UNCHANGED layer
       \/ /\ ka.type = "MAP"
          /\ Hold(g, k, Layer) /\ Change({})
          /\ layer' = [layer EXCEPT ![g] = ka.map]
  /\ UNCHANGED <<down, running>>

LetGo(g, k) ==
  /\ k \in Keys /\ heldAs[g][k] # Up
  /\ Hold(g, k, Up)
  /\ \/ /\ heldAs[g][k] = Layer
        /\ layer' = [layer EXCEPT ![g] = RootOf[g]] /\ Change({})
     \/ /\ heldAs[g][k] # Layer
        /\ Change({heldAs[g][k]}) /\ UNCHANGED layer
  /\ UNCHANGED <<down, running>>

Release(g) == Ready(g) /\ TakeOldest(g) /\ LetGo(g, Head(backlog[g]))

\* A release is let through behind a key that is undecided.
ReleaseEarly(g) ==
  LET newest == Len(backlog[g])
      k      == backlog[g][newest]
  IN
  /\ Ready(g) /\ TakeNewest(g) /\ Undecided(g)
  /\ \A i \in 1..(newest - 1) : backlog[g][i] # k
  /\ LetGo(g, k) /\ heldAs[g][k] \notin ModifierKeys

\* Other events wait for their turn, or overtake.
Pass(g) ==
  /\ Ready(g)
  /\ \/ TakeOldest(g) /\ Head(backlog[g]) = Other
     \/ TakeNewest(g) /\ backlog[g][Len(backlog[g])] = Other /\ Undecided(g)
  /\ UNCHANGED <<heldAs, layer, pending, down, running>>

-----------------------------------------------------------------------------

\* the codes that some key is held as
Wanted == {c \in Keys : \E g \in Grabs, k \in Keys : heldAs[g][k] = c}

\* The output changes, in one code at a time.  Once a code is done with, it is down
\* if some key is held as it, and not otherwise.
Send ==
  /\ running
  /\ \E c \in pending :
       /\ down' \in {down, down \cup {c}, down \ {c}}
       /\ \/ UNCHANGED pending
          \/ pending' = pending \ {c} /\ (c \in down' <=> c \in Wanted)
  /\ UNCHANGED <<backlog, heldAs, layer, running>>

\* More waits than there is room for.  The program ends, and forgets which keys are down.
Overflow ==
  /\ running
  /\ \E g \in Grabs : Len(backlog[g]) = Capacity
  /\ running' = FALSE
  /\ heldAs' = AllUp
  /\ UNCHANGED <<backlog, layer, pending, down>>

Next ==
  \/ \E g \in Grabs :
       Touch(g) \/ Press(g) \/ Release(g) \/ ReleaseEarly(g) \/ Pass(g)
  \/ Send
  \/ Overflow

Spec == Init /\ [][Next]_vars

\* Whatever is not being changed is down if a key is held as it, and not otherwise.
OutputIsAsHeld ==
  running => \A c \in Keys \ pending : c \in down <=> c \in Wanted

=============================================================================
