---------------------------- MODULE RemoteReader ----------------------------
(***************************************************************************)
(* The server of KbdServer and, at the other end of each connection, an    *)
(* "sdiol read" or "sdiol connect" (main_read in sdiol.c), which turns the *)
(* lines it reads back into events for a device of its own.                *)
(*                                                                         *)
(* The server's select loop takes turns between server_handle_select() and *)
(* events for server_send_event(), which come from send_dedup(): for every *)
(* key a press and a release in turn (SinkIsLogicalOr in SendDedup).       *)
(***************************************************************************)
EXTENDS KbdServer

CONSTANTS
  Half,       \* half of the reader's buffer: the most it reads at once (512)
  WireSize    \* the bytes the kernel holds between two ends

ASSUME ReaderAssumption == Half \in Nat /\ LineLen <= Half /\ WireSize \in Nat \ {0}

VARIABLES
  server,   \* kbd_server_t
  sink,     \* the keys that are down, going by the events sent
  backlog,  \* connections not accepted yet
  peer,     \* connection -> "none", "reading", or "gone"
  wire,     \* connection -> bytes written and not read
  buffer,   \* connection -> the reader's buffer
  device,   \* connection -> the keys that are down on the reader's device
  spoke,    \* the connections that a byte has come on from the reader
  unseen    \* history: the keys whose last event the active client will not see

serverVars == <<server, sink, unseen>>
readerVars == <<peer, buffer, device, spoke>>
vars == <<serverVars, readerVars, backlog, wire>>

TypeOK ==
  /\ server \in KbdServerType
  /\ HasClients(server) => server.active_client < Len(server.clients)
  /\ Len(server.for_client) <= BufSize
  /\ sink \subseteq Keys /\ unseen \subseteq Keys
  /\ backlog \in Seq(Conns)
  /\ peer \in [Conns -> {"none", "reading", "gone"}]
  /\ wire \in [Conns -> Seq(Bytes)]
  /\ buffer \in [Conns -> Seq(Bytes)]
  /\ \A c \in Conns : Len(buffer[c]) <= 2 * Half
  /\ device \in [Conns -> SUBSET Keys]
  /\ spoke \subseteq Conns

Init ==
  /\ server = NewServer
  /\ sink = {}
  /\ backlog = <<>>
  /\ peer = [c \in Conns |-> "none"]
  /\ wire = [c \in Conns |-> <<>>]
  /\ buffer = [c \in Conns |-> <<>>]
  /\ device = [c \in Conns |-> {}]
  /\ spoke = {}
  /\ unseen = Keys

-----------------------------------------------------------------------------
(* The server's loop                                                       *)

Pressed(down, ev) == IF ev.press THEN down \cup {ev.code} ELSE down \ {ev.code}

\* send_dedup() lets an event through, and calls server_send_event()
SendEvent(ev) ==
  /\ ev.press <=> ev.code \notin sink
  /\ sink' = Pressed(sink, ev)
  /\ server' = server_send_event(server, ev)
  /\ unseen' = IF server' = server THEN unseen \cup {ev.code} ELSE unseen \ {ev.code}
  /\ UNCHANGED <<readerVars, backlog, wire>>

Gone == {c \in Conns : peer[c] = "gone"}

\* read() returns 0, or the one byte that is taken for an end as well ("len > 1")
Ended == (Gone \cup spoke) \cap server.open

\* what a newcomer will not see, with what is left in the buffer it inherits
UnseenBy(s, kicked) ==
  (IF kicked THEN unseen ELSE {}) \cup
  (Keys \ {s.for_client[i].ev.code : i \in DOMAIN s.for_client})

\* After a select() that found the active client writable, the clients in eof
\* readable, and a connection to accept.  eof may leave out a client that has
\* ended since.  A client that has gone makes send() fail, or (TCP) the last bytes
\* for it vanish.
HandleSelect(writable, eof, accept) ==
  \E fails \in BOOLEAN :
    LET active  == ActiveClient(server)
        written == IF writable THEN WriteActive(server, fails) ELSE server
        checked == CloseDisconnected(written, eof)
    IN
    /\ writable => /\ WantsToWrite(server)
                   /\ \/ active \in Gone
                      \/ Len(wire[active]) + Len(server.for_client) <= WireSize
    /\ fails => writable /\ active \in Gone
    /\ server' = IF accept THEN Accept(checked, Head(backlog)) ELSE checked
    /\ backlog' = IF accept THEN Tail(backlog) ELSE backlog
    /\ wire' = IF writable /\ active \notin Gone
               THEN [wire EXCEPT ![active] = @ \o server.for_client] ELSE wire
    /\ unseen' = IF accept THEN UnseenBy(checked, HasClients(checked)) ELSE unseen
    /\ UNCHANGED <<sink, readerVars>>

WriteEvents == \E eof \in SUBSET Ended : HandleSelect(TRUE, eof, FALSE)

NoticeGone ==
  \E writable \in BOOLEAN :
    /\ Ended # {}
    /\ HandleSelect(writable, Ended, FALSE)

AcceptNext ==
  /\ backlog # <<>>
  /\ \E writable \in BOOLEAN, eof \in SUBSET Ended :
       HandleSelect(writable, eof, TRUE)

-----------------------------------------------------------------------------
(* The readers                                                             *)

Connect(c) ==
  /\ peer[c] = "none"
  /\ peer' = [peer EXCEPT ![c] = "reading"]
  /\ backlog' = Append(backlog, c)
  /\ UNCHANGED <<serverVars, wire, buffer, device, spoke>>

\* main_read returns: its device goes, and so do the keys that are down on it
Finish(c) ==
  /\ peer' = [peer EXCEPT ![c] = "gone"]
  /\ buffer' = [buffer EXCEPT ![c] = <<>>]
  /\ device' = [device EXCEPT ![c] = {}]
  /\ wire' = [wire EXCEPT ![c] = <<>>]

\* the reader is stopped, or its connection lost
HangUp(c) ==
  /\ peer[c] = "reading"
  /\ Finish(c)
  /\ UNCHANGED <<serverVars, backlog, spoke>>

\* A byte is typed into "nc -U".  Two bytes at once the server would read and ignore.
Speak(c) ==
  /\ peer[c] = "reading" /\ c \notin spoke
  /\ spoke' = spoke \cup {c}
  /\ UNCHANGED <<serverVars, peer, buffer, device, backlog, wire>>

\* "if the buffer is more than half full, just empty it"
EmptyAboveHalf(b) == IF Len(b) > Half THEN <<>> ELSE b

Newlines(b) == {i \in DOMAIN b : IsNewline(b[i])}

\* sscanf() finds an event in the line that ends at the i-th byte of b
ParsesAt(b, i) ==
  /\ IsNewline(b[i]) /\ i >= LineLen
  /\ SubSeq(b, i - LineLen + 1, i) = Line(b[i].ev)
  /\ i = LineLen \/ IsNewline(b[i - LineLen])

\* the device after every event in b has been written to it
DeviceAfter(down, b) ==
  LET after[i \in 0..Len(b)] ==
        IF i = 0 THEN down
        ELSE IF ParsesAt(b, i) THEN Pressed(after[i - 1], b[i].ev)
        ELSE after[i - 1]
  IN after[Len(b)]

\* what is left when every complete line has been discarded
Incomplete(b) == SubSeq(b, Max({0} \cup Newlines(b)) + 1, Len(b))

\* read() returns some of what has been written: pipes in between ("ssh ... nc -U",
\* README.md) may cut the stream anywhere
Read(c) ==
  /\ peer[c] = "reading"
  /\ \E n \in 1..Len(wire[c]) :
       LET b == EmptyAboveHalf(buffer[c]) \o SubSeq(wire[c], 1, n) IN
       /\ n <= Half
       /\ wire' = [wire EXCEPT ![c] = SubSeq(@, n + 1, Len(@))]
       /\ device' = [device EXCEPT ![c] = DeviceAfter(@, b)]
       /\ buffer' = [buffer EXCEPT ![c] = Incomplete(b)]
  /\ UNCHANGED <<serverVars, backlog, peer, spoke>>

\* "normal shutdown on other end": read() returns 0
ReadEnd(c) ==
  /\ peer[c] = "reading" /\ wire[c] = <<>>
  /\ c \notin server.open /\ \A i \in DOMAIN backlog : backlog[i] # c
  /\ Finish(c)
  /\ UNCHANGED <<serverVars, backlog, spoke>>

-----------------------------------------------------------------------------

Reader(c) == Read(c) \/ ReadEnd(c)

Next ==
  \/ \E ev \in KeyEvents : SendEvent(ev)
  \/ WriteEvents \/ NoticeGone \/ AcceptNext
  \/ \E c \in Conns : Connect(c) \/ HangUp(c) \/ Speak(c) \/ Reader(c)

Spec == Init /\ [][Next]_vars

\* The server's select() reports whatever stays ready, and readers keep reading.
\* Keys need not be pressed, and nobody need connect.
FairSpec ==
  /\ Spec
  /\ WF_vars(WriteEvents) /\ WF_vars(NoticeGone) /\ WF_vars(AcceptNext)
  /\ \A c \in Conns : WF_vars(Reader(c))

-----------------------------------------------------------------------------
\* One machine's keyboard works another's: when the active client has read what
\* is in the wire and in the buffer, every key whose last event it was to see is
\* down there exactly if it is down here.  A line is never torn, doubled or
\* mixed with what an earlier client left behind (server_close_client, main_read).
InSync ==
  LET c    == ActiveClient(server)
      down == DeviceAfter(device[c], buffer[c] \o wire[c] \o server.for_client)
  IN
  (HasClients(server) /\ peer[c] = "reading") =>
    \A k \in Keys \ unseen : k \in down <=> k \in sink

\* The descriptors that are open are those of clients, which is one at most: the
\* latest to connect ("kick the previous client", server.c:126).
OneClientOpen ==
  /\ server.open = ToSet(server.clients)
  /\ Len(server.clients) <= 1
  /\ HasClients(server) => server.active_client = 0

\* Who connects is accepted, and who has gone is not kept: no client that stops
\* reading, goes away or is kicked keeps the loop from the next one.
EveryoneIsAccepted ==
  \A c \in Conns : (\E i \in DOMAIN backlog : backlog[i] = c) ~> (c \in server.open)

\* The events waiting for a client are written or the client is closed.
BufferDrains == server.for_client # <<>> ~> server.for_client = <<>>

-----------------------------------------------------------------------------
(* The server and its readers implement KeyStream                          *)

\* the events whose lines end in b
EventsIn(b) ==
  LET upTo[i \in 0..Len(b)] ==
        IF i = 0 THEN <<>>
        ELSE IF ParsesAt(b, i) THEN Append(upTo[i - 1], b[i].ev)
        ELSE upTo[i - 1]
  IN upTo[Len(b)]

\* "none" stands for no reader
ASSUME StreamAssumption == "none" \notin Conns

Active == IF HasClients(server) THEN ActiveClient(server) ELSE "none"

OnTheWay(c) ==
  EventsIn(buffer[c] \o wire[c] \o (IF Active = c THEN server.for_client ELSE <<>>))

OnTheirWay == [c \in Conns |-> OnTheWay(c)]

Stream == INSTANCE KeyStream
            WITH Readers <- Conns, NoReader <- "none",
                 active <- Active, queue <- OnTheirWay, gone <- Gone

\* Buffers, bytes, lines and a kicked client amount to a stream of whole events, each
\* given once, in order, to one reader at a time.
ImplementsKeyStream == Stream!Spec

=============================================================================
