---------------------------- MODULE MCServeUnix -----------------------------
(***************************************************************************)
(* Command lines for ServeUnix: with and without an owner, given once or   *)
(* twice, after the path or before it; an owner that does not exist; and   *)
(* some that do not come to serve.                                         *)
(***************************************************************************)
EXTENDS ServeUnix

Word(w)  == [name |-> Positional, arg |-> w]
Opt(n)   == [name |-> n, arg |-> NULL]
OptArg(n, a) == [name |-> n, arg |-> a]

ServeWords == <<Word("serve"), Word("sock")>>
ToUs       == OptArg("chown-socket", <<"us", "input">>)
ToThem     == OptArg("chown-socket", <<"them", "input">>)

MCCommandLines ==
  {ServeWords,
   Append(ServeWords, ToUs),
   <<Opt("systemd"), ToThem, Word("serve"), ToUs, Word("sock")>>,
   Append(ServeWords, OptArg("chown-socket", <<"nobody", "here">>)),
   Append(ServeWords, OptArg("chown-socket", <<"us">>)),
   Append(ServeWords, OptArg("chmod-socket", "660")),
   Append(ServeWords, Opt("help")),
   <<Word("serve")>>}

=============================================================================
