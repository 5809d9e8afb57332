----------------------------- MODULE ServeUnix ------------------------------
(***************************************************************************)
(* Processes of "sdiol serve" on one socket path (main_serve_unix in       *)
(* sdiol.c, networking.c, permissions.c): started, refused, stopped and    *)
(* killed in any order, against one file system.  A step is one system     *)
(* call that others can notice; serve_loop is the subject of Devices and   *)
(* Resolver, its clients that of RemoteReader.                             *)
(*                                                                         *)
(* The lock file is made once and never removed.  The lock on it is        *)
(* fcntl()'s: it is the process's, and goes with its descriptor.  What is  *)
(* at the socket path after the socket is closed is a file that nobody     *)
(* listens on, and that bind() does not replace.                           *)
(***************************************************************************)
EXTENDS CommandLine

CONSTANTS
  Procs, NoProc,
  CommandLines,    \* what they are started with
  Accounts,        \* the users and groups that exist
  Modes,           \* the modes that set_file_perms() can parse
  MaxStarts,       \* bound on how often one is started
  MaxCrashes,      \* bound on how many are killed
  MaxFaults        \* bound on how many system calls fail for no reason of ours

ASSUME ServeAssumption ==
  /\ {NoProc, "none", "stale"} \cap Procs = {}
  /\ MaxStarts \in Nat /\ MaxCrashes \in Nat /\ MaxFaults \in Nat

\* Words are what CommandLine takes them for, and NULL is none.
ASSUME CommandLinesAssumption ==
  /\ NULL # "serve"
  /\ \A words \in CommandLines :
       /\ Len(words) \in Nat /\ DOMAIN words = 1..Len(words)
       /\ \A i \in DOMAIN words :
            words[i].name = "chown-socket" => words[i].arg \in Seq(STRING \ {NULL})

VARIABLES
  path,      \* the process whose socket is at the path, "stale", or "none"
  perms,     \* [owner, mode] of the file at the path
  holder,    \* the process that has the file lock
  pc,        \* process -> its next step in main_serve_unix
  sock,      \* process -> its socket: "none", "open", "bound" or "listening"
  argv,      \* process -> its command line
  runopts,   \* process -> its options
  starts, crashes, faults

procVars == <<pc, sock, argv, runopts>>
vars == <<path, perms, holder, procVars, starts, crashes, faults>>

Labels == {"off", "open_lock", "lock", "unlink", "socket", "bind", "chown", "chmod",
           "listen", "serving", "close_sock", "unlock", "close_lock", "dying"}

NotSet == [owner |-> NULL, mode |-> NULL]

Init ==
  /\ path \in {"none", "stale"}      \* a file may be left from an earlier boot
  /\ perms = NotSet
  /\ holder = NoProc
  /\ pc = [p \in Procs |-> "off"]
  /\ sock = [p \in Procs |-> "none"]
  /\ argv = [p \in Procs |-> <<>>]
  /\ runopts = [p \in Procs |-> NULL]
  /\ starts = 0 /\ crashes = 0 /\ faults = 0

-----------------------------------------------------------------------------
At(p, label) == pc[p] = label
Goto(p, label) == pc' = [pc EXCEPT ![p] = label]

\* a system call that fails for want of memory, rights or descriptors
Fault == faults < MaxFaults /\ faults' = faults + 1

\* main() comes to main_serve_unix, or returns
Start(p) ==
  /\ At(p, "off") /\ starts < MaxStarts
  /\ starts' = starts + 1
  /\ \E words \in CommandLines :
       LET outcome == Outcome(words) IN
       \/ /\ outcome.runs = "serve"
          /\ Goto(p, "open_lock")
          /\ argv' = [argv EXCEPT ![p] = words]
          /\ runopts' = [runopts EXCEPT ![p] = outcome.runopts]
       \/ outcome.runs = NULL /\ UNCHANGED <<pc, argv, runopts>>
  /\ UNCHANGED <<path, perms, holder, sock, crashes, faults>>

\* unix_socket_open(): the path may be too long, or the lock file not openable
OpenLock(p) ==
  /\ At(p, "open_lock")
  /\ \/ Goto(p, "lock") /\ UNCHANGED faults
     \/ Fault /\ Goto(p, "off")
  /\ UNCHANGED <<path, perms, holder, sock, argv, runopts, starts, crashes>>

SetLockBlindly(p) ==     \* variant: the result of fcntl() is not looked at
  /\ At(p, "lock") /\ Goto(p, "unlink")
  /\ holder' = IF holder = NoProc THEN p ELSE holder
  /\ UNCHANGED <<path, perms, sock, argv, runopts, starts, crashes, faults>>

\* fcntl(F_SETLK) does not wait: another server's lock makes it fail
SetLock(p) ==
  /\ At(p, "lock")
  /\ \/ /\ holder = NoProc /\ holder' = p
        /\ Goto(p, "unlink") /\ UNCHANGED faults
     \/ /\ holder # NoProc
        /\ Goto(p, "close_lock") /\ UNCHANGED <<holder, faults>>
     \/ /\ Fault /\ Goto(p, "close_lock") /\ UNCHANGED holder
  /\ UNCHANGED <<path, perms, sock, argv, runopts, starts, crashes>>

UnlinkNothing(p) ==     \* variant: the file is left where it is
  /\ At(p, "unlink") /\ Goto(p, "socket")
  /\ UNCHANGED <<path, perms, holder, sock, argv, runopts, starts, crashes, faults>>

\* nobody looks whether unlink() fails
Unlink(p) ==
  /\ At(p, "unlink") /\ Goto(p, "socket")
  /\ \/ path' = "none" /\ perms' = NotSet /\ UNCHANGED faults
     \/ Fault /\ UNCHANGED <<path, perms>>
  /\ UNCHANGED <<holder, sock, argv, runopts, starts, crashes>>

\* "goto fail_lock"
Socket(p) ==
  /\ At(p, "socket")
  /\ \/ /\ sock' = [sock EXCEPT ![p] = "open"]
        /\ Goto(p, "bind") /\ UNCHANGED faults
     \/ Fault /\ Goto(p, "unlock") /\ UNCHANGED sock
  /\ UNCHANGED <<path, perms, holder, argv, runopts, starts, crashes>>

\* "goto fail_sockfd", also if there is a file at the path
Bind(p) ==
  /\ At(p, "bind")
  /\ \/ /\ path = "none" /\ path' = p
        /\ sock' = [sock EXCEPT ![p] = "bound"]
        /\ Goto(p, "chown") /\ UNCHANGED faults
     \/ /\ path # "none" /\ UNCHANGED faults
        /\ Goto(p, "close_sock") /\ UNCHANGED <<path, sock>>
     \/ /\ Fault
        /\ Goto(p, "close_sock") /\ UNCHANGED <<path, sock>>
  /\ UNCHANGED <<perms, holder, argv, runopts, starts, crashes>>

-----------------------------------------------------------------------------
(* set_file_perms()                                                        *)

\* get_uid_from_string() and get_gid_from_string()
Known(opts) == opts.user = NULL \/ (opts.user \in Accounts /\ opts.group \in Accounts)

\* "defaulting to exclusive user access"
ModeOf(opts) == IF opts.mode = NULL THEN "600" ELSE opts.mode

\* a call that sets the permissions of the file at the path, whoever's it is
SetPerms(p, valid, new, next) ==
  \/ /\ valid /\ path # "none"
     /\ perms' = new /\ Goto(p, next) /\ UNCHANGED faults
  \/ /\ ~valid \/ path = "none"
     /\ Goto(p, "close_sock") /\ UNCHANGED <<perms, faults>>
  \/ Fault /\ Goto(p, "close_sock") /\ UNCHANGED perms

Chown(p) ==
  LET opts == runopts[p] IN
  /\ At(p, "chown")
  /\ \/ opts.user = NULL /\ Goto(p, "chmod") /\ UNCHANGED <<perms, faults>>
     \/ /\ opts.user # NULL
        /\ SetPerms(p, Known(opts), [perms EXCEPT !.owner = <<opts.user, opts.group>>],
                    "chmod")
  /\ UNCHANGED <<path, holder, sock, argv, runopts, starts, crashes>>

ChmodLater(p) ==     \* variant: a mode is set only if one is asked for
  /\ At(p, "chmod") /\ Goto(p, "listen")
  /\ perms' = IF runopts[p].mode = NULL THEN perms ELSE [perms EXCEPT !.mode = runopts[p].mode]
  /\ UNCHANGED <<path, holder, sock, argv, runopts, starts, crashes, faults>>

Chmod(p) ==
  LET mode == ModeOf(runopts[p]) IN
  /\ At(p, "chmod")
  /\ SetPerms(p, mode \in Modes, [perms EXCEPT !.mode = mode], "listen")
  /\ UNCHANGED <<path, holder, sock, argv, runopts, starts, crashes>>

-----------------------------------------------------------------------------
\* listen(), and then serve_loop
Listen(p) ==
  /\ At(p, "listen")
  /\ \/ /\ sock' = [sock EXCEPT ![p] = "listening"]
        /\ Goto(p, "serving") /\ UNCHANGED faults
     \/ Fault /\ Goto(p, "close_sock") /\ UNCHANGED sock
  /\ UNCHANGED <<path, perms, holder, argv, runopts, starts, crashes>>

\* a signal, --timeout, no keyboard at all, or a select() that fails
ServeLoopReturns(p) ==
  /\ At(p, "serving")
  /\ Goto(p, "close_sock")
  /\ UNCHANGED <<path, perms, holder, sock, argv, runopts, starts, crashes, faults>>

\* unix_socket_close(), and the failures of unix_socket_open(): "close socket before
\* unlocking"
Closed(p) ==
  /\ sock' = [sock EXCEPT ![p] = "none"]
  /\ path' = IF path = p THEN "stale" ELSE path

Unlocked(p) == holder' = IF holder = p THEN NoProc ELSE holder

UnlockFirst(p) ==     \* variant: the lock is gone before the socket is
  /\ At(p, "close_sock") /\ Unlocked(p) /\ Goto(p, "unlock")
  /\ UNCHANGED <<path, perms, sock, argv, runopts, starts, crashes, faults>>

CloseSock(p) ==
  /\ At(p, "close_sock") /\ Closed(p) /\ Goto(p, "unlock")
  /\ UNCHANGED <<perms, holder, argv, runopts, starts, crashes, faults>>

Unlock(p) ==
  /\ At(p, "unlock") /\ Unlocked(p) /\ Goto(p, "close_lock")
  /\ UNCHANGED <<path, perms, sock, argv, runopts, starts, crashes, faults>>

\* main() returns, and what is left goes with the process
CloseLock(p) ==
  /\ At(p, "close_lock") /\ Unlocked(p) /\ Closed(p) /\ Goto(p, "off")
  /\ UNCHANGED <<perms, argv, runopts, starts, crashes, faults>>

-----------------------------------------------------------------------------
\* SIGKILL, or exit() on the way (a full queue of events, a failing accept())
Crash(p) ==
  /\ pc[p] \notin {"off", "dying"} /\ crashes < MaxCrashes
  /\ crashes' = crashes + 1
  /\ Goto(p, "dying")
  /\ UNCHANGED <<path, perms, holder, sock, argv, runopts, starts, faults>>

\* The kernel closes the descriptors one after the other: the lock may go first.
Die(p) ==
  /\ At(p, "dying")
  /\ \/ /\ holder = p /\ Unlocked(p)
        /\ UNCHANGED <<pc, sock, path>>
     \/ /\ sock[p] # "none" /\ Closed(p)
        /\ UNCHANGED <<pc, holder>>
     \/ /\ holder # p /\ sock[p] = "none" /\ Goto(p, "off")
        /\ UNCHANGED <<holder, sock, path>>
  /\ UNCHANGED <<perms, argv, runopts, starts, crashes, faults>>

-----------------------------------------------------------------------------
OpenSocket(p) == OpenLock(p) \/ SetLock(p) \/ Unlink(p) \/ Socket(p) \/ Bind(p)
CloseSocket(p) == CloseSock(p) \/ Unlock(p) \/ CloseLock(p)

\* what a process does without being asked
Run(p) ==
  OpenSocket(p) \/ Chown(p) \/ Chmod(p) \/ Listen(p) \/ CloseSocket(p) \/ Die(p)

Next == \E p \in Procs : Start(p) \/ Run(p) \/ ServeLoopReturns(p) \/ Crash(p)

Spec == Init /\ [][Next]_vars

\* A process that is not in its loop goes on; nobody need start, stop or kill one.
FairSpec == Spec /\ \A p \in Procs : WF_vars(Run(p))

-----------------------------------------------------------------------------
\* a server that nobody has killed
Alive(p) == pc[p] \notin {"off", "dying"}

\* No two servers have a socket at a time: the one that has is the one that has the
\* lock, until it is closed ("close socket before unlocking", networking.c:152;
\* "now that we have the file, delete the socket", networking.c:114).
SocketUnderLock == \A p \in Procs : (Alive(p) /\ sock[p] # "none") => holder = p

\* what the words of a command line ask for: the last --chown-socket or
\* --chmod-socket counts
Asked(words, option, otherwise) ==
  LET asking == {i \in DOMAIN words : words[i].name = option} IN
  IF asking = {} THEN otherwise
  ELSE words[CHOOSE i \in asking : \A j \in asking : j <= i].arg

\* Who can connect is who was to: while a server can be reached, the file at the
\* path has the owner and the mode that its command line asks for ("default 600"),
\* although both are set by name and after bind() (main_serve_unix, set_file_perms).
SocketIsAsAsked ==
  \A p \in Procs : (path = p /\ sock[p] = "listening") =>
    perms = [owner |-> Asked(argv[p], "chown-socket", NULL),
             mode  |-> Asked(argv[p], "chmod-socket", "600")]

\* The server that connect() on the path reaches.
Reached ==
  IF \E p \in Procs : path = p /\ sock[p] = "listening"
  THEN path ELSE NoProc

ServiceState(p) ==
  IF pc[p] = "serving" THEN "serving"
  ELSE IF sock[p] = "listening" THEN "leaving" ELSE "away"

Service == INSTANCE SocketService
             WITH reached <- Reached, state <- [p \in Procs |-> ServiceState(p)]

\* A server that serves is the one that is reached, whatever other processes are
\* started, refused or killed: the file lock makes the path one server's.
ImplementsSocketService == Service!Spec

\* A server that is started when no other is there comes to serve, whatever those
\* before it have left behind, if nothing fails any more and its options are good.
NothingFails == faults = MaxFaults /\ crashes = MaxCrashes
Alone(p) == \A q \in Procs \ {p} : pc[q] = "off"
GoodOptions(opts) == Known(opts) /\ ModeOf(opts) \in Modes

RecoversFromCrash ==
  \A p \in Procs :
    (At(p, "open_lock") /\ Alone(p) /\ NothingFails /\ GoodOptions(runopts[p]))
    ~> (At(p, "serving") \/ ~Alone(p))

=============================================================================
