---------------------------- MODULE CommandLine -----------------------------
(***************************************************************************)
(* main() of sdiol.c up to the mode it runs: the options (parse_opts), the *)
(* runtime options made of them (runopts_build), and the positional        *)
(* arguments.                                                              *)
(*                                                                         *)
(* A command line is a sequence of words [name, arg]: an option with its   *)
(* argument, or a positional argument, which has the name Positional.      *)
(* getopt_long() takes them in any order, and makes an option it does not  *)
(* know, or one without the argument it needs, the option "?".  The        *)
(* argument of chown-socket is the sequence of what its colons part.       *)
(***************************************************************************)
EXTENDS Integers, Sequences, SequencesExt

CONSTANTS
  NULL,
  Configs     \* the files that config_new() can load

Positional == "positional"

\* opts_t; the arguments left are kept with it
DefaultOpts ==
  [config |-> "/etc/sdiol/conf.lua", verbose |-> FALSE, timeout |-> NULL, systemd |-> FALSE,
   user_group |-> NULL, mode |-> NULL, args |-> <<>>, invalid |-> FALSE, help |-> FALSE]

\* getopt_long()'s value for an option of longopts
ValOf(name) ==
  CASE name = "help"         -> "h"
    [] name = "config"       -> "c"
    [] name = "verbose"      -> "v"
    [] name = "timeout"      -> "t"
    [] name = "systemd"      -> "d"
    [] name = "chown-socket" -> "o"
    [] name = "chmod-socket" -> "p"
    [] OTHER                 -> "?"

\* variant: the first of several counts
KeepFirst(opts, arg) == IF opts.user_group = NULL THEN arg ELSE opts.user_group

LastCounts(opts, arg) == arg

\* one turn of the loop in parse_opts(); no option has the value "m"
ParseWord(opts, word) ==
  IF opts.invalid \/ opts.help THEN opts
  ELSE IF word.name = Positional THEN [opts EXCEPT !.args = Append(@, word.arg)]
  ELSE CASE ValOf(word.name) = "h" -> [opts EXCEPT !.help = TRUE]
         [] ValOf(word.name) = "c" -> [opts EXCEPT !.config = word.arg]
         [] ValOf(word.name) = "v" -> [opts EXCEPT !.verbose = TRUE]
         [] ValOf(word.name) = "t" -> [opts EXCEPT !.timeout = word.arg]
         [] ValOf(word.name) = "d" -> [opts EXCEPT !.systemd = TRUE]
         [] ValOf(word.name) = "o" -> [opts EXCEPT !.user_group = LastCounts(opts, word.arg)]
         [] ValOf(word.name) = "m" -> [opts EXCEPT !.mode = word.arg]
         [] OTHER                  -> [opts EXCEPT !.invalid = TRUE]

parse_opts(argv) ==
  LET after[i \in 0..Len(argv)] ==
        IF i = 0 THEN DefaultOpts ELSE ParseWord(after[i - 1], argv[i])
  IN after[Len(argv)]

\* split_user_group() refuses what has not exactly one colon
SplitsInTwo(user_group) == user_group = NULL \/ Len(user_group) = 2

\* runopts_build() fails if a USER:GROUP or the configuration is not good
Builds(opts) == SplitsInTwo(opts.user_group) /\ opts.config \in Configs

\* runopts_t; without --timeout, timeout is 0
runopts_build(opts) ==
  [systemd |-> opts.systemd, verbose |-> opts.verbose, mode |-> opts.mode,
   timeout |-> IF opts.timeout = NULL THEN 0 ELSE opts.timeout,
   user    |-> IF opts.user_group = NULL THEN NULL ELSE opts.user_group[1],
   group   |-> IF opts.user_group = NULL THEN NULL ELSE opts.user_group[2]]

\* the number of positional arguments each mode takes, itself included
NArgs(mode) ==
  CASE mode = "local"     -> {1}
    [] mode = "serve"     -> {2}
    [] mode = "read"      -> {1}
    [] mode = "serve-tcp" -> {2, 3}
    [] mode = "connect"   -> {3}
    [] OTHER              -> {}

\* the mode that main() runs, or NULL if it returns before any
Outcome(argv) ==
  LET opts == parse_opts(argv) IN
  IF /\ ~opts.help /\ ~opts.invalid /\ Builds(opts)
     /\ opts.args # <<>> /\ Len(opts.args) \in NArgs(opts.args[1])
  THEN [runs |-> opts.args[1], runopts |-> runopts_build(opts)]
  ELSE [runs |-> NULL, runopts |-> NULL]

=============================================================================
