----------------------------- MODULE SendDedup ------------------------------
(***************************************************************************)
(* send_dedup() of sdiol.c: the one filter between every resolver and the  *)
(* application's send callback.  It counts, for every outgoing key code,   *)
(* the sources that hold it down, and lets through only the first press    *)
(* and the last release; it drops an EV_SYN that would end an empty frame. *)
(*                                                                         *)
(* sink is what the application has been told: the codes that are down     *)
(* according to the events that got through (uinput's key state in local   *)
(* mode).                                                                  *)
(***************************************************************************)
EXTENDS KeyActions

VARIABLES
  press_count_map,  \* code -> sources holding it down
  sent_something,   \* has an event gone out since the last EV_SYN?
  sink

dedupVars == <<press_count_map, sent_something, sink>>

DedupTypeOK ==
  /\ press_count_map \in [Codes -> Nat]
  /\ sent_something \in BOOLEAN
  /\ sink \subseteq Codes

DedupInit ==
  /\ press_count_map = [c \in Codes |-> 0]
  /\ sent_something = FALSE
  /\ sink = {}

-----------------------------------------------------------------------------

\* A release of a code nobody holds is reported and dropped.
DropRelease(ev) ==
  /\ IsRelease(ev) /\ press_count_map[ev.code] < 1
  /\ UNCHANGED dedupVars

\* variant: every source's release goes out
SendEveryRelease(ev) ==
  /\ IsRelease(ev) /\ press_count_map[ev.code] >= 1
  /\ press_count_map' = [press_count_map EXCEPT ![ev.code] = @ - 1]
  /\ sent_something' = TRUE /\ sink' = sink \ {ev.code}

\* Only the release by the last source goes out.
SendRelease(ev) ==
  /\ IsRelease(ev) /\ press_count_map[ev.code] >= 1
  /\ press_count_map' = [press_count_map EXCEPT ![ev.code] = @ - 1]
  /\ IF press_count_map[ev.code] = 1
     THEN sent_something' = TRUE /\ sink' = sink \ {ev.code}
     ELSE UNCHANGED <<sent_something, sink>>

\* Only the press by the first source goes out.
SendPress(ev) ==
  /\ IsPress(ev)
  /\ press_count_map' = [press_count_map EXCEPT ![ev.code] = @ + 1]
  /\ IF press_count_map[ev.code] = 0
     THEN sent_something' = TRUE /\ sink' = sink \cup {ev.code}
     ELSE UNCHANGED <<sent_something, sink>>

\* Repeats, and events that are not keys, go out unchanged.
SendUncounted(ev) ==
  /\ \/ ev.type = "EV_KEY" /\ ev.value = 2
     \/ ev.type = "EV_OTHER"
  /\ sent_something' = TRUE
  /\ UNCHANGED <<press_count_map, sink>>

\* EV_SYN goes out if it ends a frame that has something in it.
SendSyn(ev) ==
  /\ ev.type = "EV_SYN"
  /\ sent_something' = FALSE
  /\ UNCHANGED <<press_count_map, sink>>

send_dedup(ev) ==
  \/ DropRelease(ev)
  \/ SendRelease(ev)
  \/ SendPress(ev)
  \/ SendUncounted(ev)
  \/ SendSyn(ev)

-----------------------------------------------------------------------------
\* The sink is the logical OR of the sources: the application sees a code down
\* exactly while some source holds it, whatever the order of their presses,
\* releases and macros (sdiol.c:75, "send events according to the logical OR").
SinkIsLogicalOr == sink = {c \in Codes : press_count_map[c] > 0}

=============================================================================
