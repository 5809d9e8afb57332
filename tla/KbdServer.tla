----------------------------- MODULE KbdServer ------------------------------
(***************************************************************************)
(* The application of "sdiol serve" (server.c): it accepts connections,    *)
(* keeps the events for the client it calls active in a buffer, and writes *)
(* the buffer when select() finds the client writable.                     *)
(*                                                                         *)
(* The operators map one value of the struct kbd_server_t to the next.  An *)
(* event becomes a line of LineLen bytes; only the last one is a newline.  *)
(* An index of clients counts from 0 here as there.                        *)
(***************************************************************************)
EXTENDS Integers, Sequences, SequencesExt

CONSTANTS
  Keys,
  Conns,       \* the connections that may be made, each once
  LineLen,     \* the length of a marshalled event
  BufSize,     \* the size of for_client (8192)
  MaxClients   \* the length of clients (8)

ASSUME ServerAssumption ==
  /\ LineLen \in Nat \ {0, 1}
  /\ BufSize \in Nat \ {0}
  /\ MaxClients \in Nat \ {0, 1}

KeyEvents == [code : Keys, press : BOOLEAN]
Bytes     == [ev : KeyEvents, part : 1..LineLen]

\* snprintf("%lu:%lu:%lu:%lu:%lu\n")
Line(ev) == [i \in 1..LineLen |-> [ev |-> ev, part |-> i]]
IsNewline(byte) == byte.part = LineLen

\* open is the set of the connections accepted and not closed
KbdServerType ==
  [clients : Seq(Conns), active_client : Nat, for_client : Seq(Bytes),
   open : SUBSET Conns]

NewServer ==
  [clients |-> <<>>, active_client |-> 0, for_client |-> <<>>, open |-> {}]

HasClients(s) == s.clients # <<>>
ActiveClient(s) == s.clients[s.active_client + 1]

-----------------------------------------------------------------------------
\* server_send_event(): is the event buffered, or dropped for want of a client
\* or of room?
IgnoresRoom(s) == HasClients(s)     \* variant

Buffers(s) == HasClients(s) /\ Len(s.for_client) + LineLen <= BufSize

server_send_event(s, ev) ==
  IF Buffers(s) THEN [s EXCEPT !.for_client = @ \o Line(ev)] ELSE s

WantsFullLine(s) == HasClients(s) /\ Len(s.for_client) > LineLen     \* variant

\* does server_prep_select() ask for room to write to the active client?
WantsToWrite(s) == HasClients(s) /\ s.for_client # <<>>

\* variant: the buffer survives the client it was for
close_client_keeps_buffer(s, i) ==
  [s EXCEPT !.open = @ \ {s.clients[i + 1]}, !.clients = RemoveAt(@, i + 1),
            !.active_client = IF @ = i THEN 0 ELSE IF @ > i THEN @ - 1 ELSE @]

server_close_client(s, i) ==
  [s EXCEPT !.open = @ \ {s.clients[i + 1]},
            !.clients = RemoveAt(@, i + 1),
            !.active_client = IF @ = i THEN 0 ELSE IF @ > i THEN @ - 1 ELSE @,
            !.for_client = IF s.active_client = i THEN <<>> ELSE @]

-----------------------------------------------------------------------------
(* server_handle_select(), in three parts                                  *)

\* variant: fc_len is not reduced, and the bytes are sent again
send_again(s, fails) ==
  IF fails THEN server_close_client(s, s.active_client) ELSE s

\* A send() that fails closes the active client.  One that does not takes all of
\* the buffer: the sockets block, and select() found room in this one.
WriteActive(s, fails) ==
  IF fails THEN server_close_client(s, s.active_client)
  ELSE [s EXCEPT !.for_client = <<>>]

\* read() returns 0 on the clients in eof; nothing else is read from a client
CloseDisconnected(s, eof) ==
  LET after[i \in 0..Len(s.clients)] ==
        IF i = 0 THEN s
        ELSE IF s.clients[i] \in eof
        THEN server_close_client(after[i - 1],
                                 (CHOOSE j \in 1..Len(after[i - 1].clients) :
                                    after[i - 1].clients[j] = s.clients[i]) - 1)
        ELSE after[i - 1]
  IN after[Len(s.clients)]

\* variant: the client that is kicked is not closed
accept_leaks(s, c) ==
  [s EXCEPT !.open = @ \cup {c},
            !.clients = IF @ = <<>> THEN <<c>> ELSE <<c>> \o Tail(@)]

\* variant: a second client is one too many
accept_refuses(s, c) ==
  IF HasClients(s) THEN s ELSE [s EXCEPT !.clients = <<c>>, !.open = @ \cup {c}]

\* "make the latest client active and kick the previous client": the newcomer takes
\* the place of clients[0], and inherits the buffer
Accept(s, c) ==
  LET all == Append(s.clients, c) IN
  IF Len(all) > MaxClients THEN s
  ELSE IF Len(all) = 1 THEN [s EXCEPT !.clients = all, !.open = @ \cup {c}]
  ELSE [s EXCEPT !.clients = <<c>> \o SubSeq(all, 2, Len(all) - 1),
                 !.open = (@ \cup {c}) \ {s.clients[1]}]

=============================================================================
