----------------------------- MODULE KeyStream ------------------------------
(***************************************************************************)
(* What a keyboard server promises its readers: one of them at a time is   *)
(* given the events, whole, once each and in the order in which they were  *)
(* sent.  When another takes its place, the events not delivered are parted *)
(* between the two: none is given to both, and none is left out that a     *)
(* later one is not.  An event may be dropped when it is sent, and those   *)
(* for a reader that has gone are lost.                                    *)
(***************************************************************************)
EXTENDS Integers, Sequences

CONSTANTS Keys, Readers, NoReader

VARIABLES
  sink,     \* the keys that are down here
  active,   \* the reader that is given the events sent
  queue,    \* reader -> the events on their way to it
  device,   \* reader -> the keys that are down there
  spoke,    \* the readers that have said something
  gone      \* the readers that have gone

vars == <<sink, active, queue, device, spoke, gone>>

KeyEvents == [code : Keys, press : BOOLEAN]

Pressed(down, ev) == IF ev.press THEN down \cup {ev.code} ELSE down \ {ev.code}

\* the keys that are down after the events
After(down, events) ==
  LET after[i \in 0..Len(events)] ==
        IF i = 0 THEN down ELSE Pressed(after[i - 1], events[i])
  IN after[Len(events)]

Init ==
  /\ sink = {}
  /\ active = NoReader
  /\ queue = [r \in Readers |-> <<>>]
  /\ device = [r \in Readers |-> {}]
  /\ spoke = {} /\ gone = {}

Send(ev) ==
  /\ ev.press <=> ev.code \notin sink
  /\ sink' = Pressed(sink, ev)
  /\ \/ active # NoReader /\ queue' = [queue EXCEPT ![active] = Append(@, ev)]
     \/ UNCHANGED queue
  /\ UNCHANGED <<active, device, spoke, gone>>

Deliver(r) ==
  /\ UNCHANGED <<sink, active, spoke, gone>>
  /\ \E n \in 1..Len(queue[r]) :
       /\ device' = [device EXCEPT ![r] = After(@, SubSeq(queue[r], 1, n))]
       /\ queue' = [queue EXCEPT ![r] = SubSeq(@, n + 1, Len(@))]

\* The first kept of the events on their way are left to the reader that is given up,
\* those after the first taken are for the new one, and none is lost between the two
\* unless the old one was to be closed.
Cuts(n) ==
  {cut \in [kept : 0..n, taken : 0..n] :
     cut.kept = cut.taken \/ (active \in gone \cup spoke /\ cut.kept < cut.taken)}

HandOver(to) ==
  LET events == queue[active] IN
  /\ to # active /\ active' = to
  /\ UNCHANGED <<sink, device, spoke, gone>>
  /\ \/ active = NoReader /\ UNCHANGED queue
     \/ /\ active # NoReader
        /\ \E cut \in Cuts(Len(events)) :
             queue' = [r \in Readers |->
                         IF r = active THEN SubSeq(events, 1, cut.kept)
                         ELSE IF r = to THEN SubSeq(events, cut.taken + 1, Len(events))
                         ELSE queue[r]]

\* The active reader has gone, or has said something, which is not for readers to do:
\* there is none until one connects, and what follows is lost to it.
Close ==
  /\ active \in gone \cup spoke
  /\ active' = NoReader
  /\ \E n \in 0..Len(queue[active]) : queue' = [queue EXCEPT ![active] = SubSeq(@, 1, n)]
  /\ UNCHANGED <<sink, device, spoke, gone>>

\* what is sent to a reader that has gone is lost
Lose ==
  /\ active \in gone
  /\ queue' = [queue EXCEPT ![active] = <<>>]
  /\ UNCHANGED <<sink, active, device, spoke, gone>>

\* the keys that are down on its device go with it; what has not left the server
\* may still be for the next
HangUp(r) ==
  /\ r \notin gone /\ gone' = gone \cup {r}
  /\ device' = [device EXCEPT ![r] = {}]
  /\ \E n \in 0..Len(queue[r]) :
       /\ r = active \/ n = Len(queue[r])
       /\ queue' = [queue EXCEPT ![r] = SubSeq(@, n + 1, Len(@))]
  /\ UNCHANGED <<sink, active, spoke>>

Speak(r) ==
  /\ spoke' = spoke \cup {r}
  /\ UNCHANGED <<sink, active, queue, device, gone>>

Next ==
  \/ \E ev \in KeyEvents : Send(ev)
  \/ \E r \in Readers : Deliver(r) \/ HandOver(r) \/ HangUp(r) \/ Speak(r)
  \/ Close \/ Lose

Spec == Init /\ [][Next]_vars

=============================================================================
