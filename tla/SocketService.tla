--------------------------- MODULE SocketService ----------------------------
(***************************************************************************)
(* What "sdiol serve" promises of its socket, whatever else is started or  *)
(* dies: who connects to the path reaches at most one server, and a server *)
(* that serves is the one that is reached until it leaves by itself.       *)
(* Nobody takes the path from it.                                          *)
(***************************************************************************)
CONSTANTS Procs, NoProc

VARIABLES
  reached,   \* the server that connect() on the path reaches
  state      \* process -> "away", "serving", or "leaving"

vars == <<reached, state>>

Init ==
  /\ reached = NoProc
  /\ state = [p \in Procs |-> "away"]

Serve(p) ==
  /\ state[p] = "away" /\ reached = NoProc
  /\ reached' = p
  /\ state' = [state EXCEPT ![p] = "serving"]

\* its loop has ended, or it has crashed: it may still be reached for a while
Leave(p) ==
  /\ state[p] = "serving"
  /\ state' = [state EXCEPT ![p] = "leaving"]
  /\ UNCHANGED reached

\* the path is cleared by the next server before the last one is gone
Clear(p) ==
  /\ state[p] = "leaving" /\ reached = p
  /\ reached' = NoProc
  /\ UNCHANGED state

Vanish(p) ==
  /\ state[p] = "leaving"
  /\ state' = [state EXCEPT ![p] = "away"]
  /\ reached' = IF reached = p THEN NoProc ELSE reached

Next == \E p \in Procs : Serve(p) \/ Leave(p) \/ Clear(p) \/ Vanish(p)

Spec == Init /\ [][Next]_vars

=============================================================================
