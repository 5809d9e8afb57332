--------------------------- MODULE ServeUnixProofs --------------------------
(***************************************************************************)
(* Proofs about ServeUnix, for any number of processes, starts, crashes    *)
(* and failing calls: a socket is open only under the lock, and the        *)
(* processes implement SocketService.                                      *)
(***************************************************************************)
EXTENDS ServeUnix, FoldLemmas

\* where a living process has the lock, and the path
UnderLock  == {"unlink", "socket", "bind", "chown", "chmod", "listen", "serving",
               "close_sock", "unlock"}
OwnsPath   == {"chown", "chmod", "listen", "serving"}
SockStates == {"none", "open", "bound", "listening"}

LabelsOK == pc \in [Procs -> Labels] /\ sock \in [Procs -> SockStates]

\* how far a process has come with its socket
SockMatchesLabel ==
  \A p \in Procs :
    /\ pc[p] \in {"off", "open_lock", "lock", "unlink", "socket", "unlock", "close_lock"}
       => sock[p] = "none"
    /\ pc[p] = "bind" => sock[p] = "open"
    /\ pc[p] \in {"chown", "chmod", "listen"} => sock[p] = "bound"
    /\ pc[p] = "serving" => sock[p] = "listening"

LockIsHeld == \A p \in Procs : pc[p] \in UnderLock => holder = p

PathIsOwned == \A p \in Procs : pc[p] \in OwnsPath => path = p

PathHasSocket == \A p \in Procs : path = p => sock[p] \in {"bound", "listening"}

Inv == LabelsOK /\ SockMatchesLabel /\ LockIsHeld /\ PathIsOwned /\ PathHasSocket

\* What is not a process, by ServeAssumption.
LEMMA NotProcs == NoProc \notin Procs /\ "none" \notin Procs /\ "stale" \notin Procs
  BY ServeAssumption DEF ServeAssumption

\* No process has come to a label or a socket yet (Init).
LEMMA InitInv == Init => Inv
  BY NotProcs DEF Init, Inv, LabelsOK, SockMatchesLabel, LockIsHeld, PathIsOwned,
     PathHasSocket, Labels, SockStates, UnderLock, OwnsPath

\* Every system call of main_serve_unix(), and the kernel's, keep Inv.
LEMMA StepInv == ASSUME Inv, [Next]_vars PROVE Inv'
<1> USE DEF At, Goto, Inv, LabelsOK, SockMatchesLabel, LockIsHeld, PathIsOwned,
            PathHasSocket, Labels, SockStates, UnderLock, OwnsPath
<1>1. ASSUME NEW p \in Procs, Start(p) PROVE Inv'
  BY <1>1 DEF Start
<1>2. ASSUME NEW p \in Procs, OpenLock(p) PROVE Inv'
  BY <1>2 DEF OpenLock
<1>3. ASSUME NEW p \in Procs, SetLock(p) PROVE Inv'
  BY <1>3, NotProcs DEF SetLock
<1>4. ASSUME NEW p \in Procs, Unlink(p) PROVE Inv'
  BY <1>4, NotProcs DEF Unlink
<1>5. ASSUME NEW p \in Procs, Socket(p) PROVE Inv'
  BY <1>5 DEF Socket
<1>6. ASSUME NEW p \in Procs, Bind(p) PROVE Inv'
  BY <1>6, NotProcs DEF Bind
<1>7. ASSUME NEW p \in Procs, Chown(p) PROVE Inv'
  BY <1>7 DEF Chown, SetPerms
<1>8. ASSUME NEW p \in Procs, Chmod(p) PROVE Inv'
  BY <1>8 DEF Chmod, SetPerms
<1>9. ASSUME NEW p \in Procs, Listen(p) PROVE Inv'
  BY <1>9 DEF Listen
<1>10. ASSUME NEW p \in Procs, ServeLoopReturns(p) PROVE Inv'
  BY <1>10 DEF ServeLoopReturns
<1>11. ASSUME NEW p \in Procs, CloseSock(p) PROVE Inv'
  BY <1>11, NotProcs DEF CloseSock, Closed
<1>12. ASSUME NEW p \in Procs, Unlock(p) PROVE Inv'
  BY <1>12, NotProcs DEF Unlock, Unlocked
<1>13. ASSUME NEW p \in Procs, CloseLock(p) PROVE Inv'
  BY <1>13, NotProcs DEF CloseLock, Closed, Unlocked
<1>14. ASSUME NEW p \in Procs, Crash(p) PROVE Inv'
  BY <1>14 DEF Crash
<1>15. ASSUME NEW p \in Procs, Die(p) PROVE Inv'
  BY <1>15, NotProcs DEF Die, Closed, Unlocked
<1>16. CASE UNCHANGED vars
  BY <1>16 DEF vars, procVars
<1> QED
  BY <1>1, <1>2, <1>3, <1>4, <1>5, <1>6, <1>7, <1>8, <1>9, <1>10,
     <1>11, <1>12, <1>13, <1>14, <1>15, <1>16
     DEF Next, Run, OpenSocket, CloseSocket

\* Who has the lock, and the path, goes with how far main_serve_unix() has come.
THEOREM Invariant == Spec => []Inv
  BY InitInv, StepInv, PTL DEF Spec

\* A living server that has a socket has the lock (unix_socket_open, unix_socket_close).
THEOREM SocketUnderLockCorrect == Spec => []SocketUnderLock
<1>1. Inv => SocketUnderLock
  BY DEF Inv, LabelsOK, SockMatchesLabel, LockIsHeld, Labels, UnderLock, SocketUnderLock,
     Alive
<1> QED
  BY <1>1, Invariant, PTL

-----------------------------------------------------------------------------
(* The refinement                                                          *)

\* A file system without servers reaches nobody (Init).
LEMMA InitRefines == Init => Service!Init
  BY NotProcs DEF Init, Service!Init, Reached, ServiceState

\* A server that serves leaves when its loop ends, or when it is killed.
LEMMA Leaves ==
  ASSUME NEW p \in Procs, Inv, pc[p] = "serving", NEW label, label # "serving",
         pc' = [pc EXCEPT ![p] = label], UNCHANGED <<sock, path>>
  PROVE  Service!Leave(p)
<1>1. /\ pc \in [Procs -> Labels] /\ sock[p] = "listening"
      /\ \A q \in Procs : pc'[q] = IF q = p THEN label ELSE pc[q]
  BY DEF Inv, LabelsOK, SockMatchesLabel
<1>2. /\ ServiceState(p) = "serving" /\ ServiceState(p)' = "leaving"
      /\ \A q \in Procs \ {p} : ServiceState(q)' = ServiceState(q)
  BY <1>1 DEF ServiceState
<1>3. UNCHANGED Reached
  BY DEF Reached
<1> QED
  BY <1>2, <1>3 DEF Service!Leave

\* Whoever is reached when the file is removed has been killed: the lock is another's.
LEMMA ClearsTheDead ==
  ASSUME NEW p \in Procs, Inv, pc[p] = "unlink", UNCHANGED <<sock>>, path' = "none",
         pc' = [pc EXCEPT ![p] = "socket"]
  PROVE  [Service!Next]_(Service!vars)
<1>1. \A q \in Procs : ServiceState(q)' = ServiceState(q)
  BY DEF ServiceState, Inv, LabelsOK
<1>2. Reached' = NoProc
  BY NotProcs DEF Reached
<1>3. CASE \E q \in Procs : path = q /\ sock[q] = "listening"
  <2>1. PICK q \in Procs : path = q /\ sock[q] = "listening"
    BY <1>3
  <2>2. holder = p /\ q # p
    BY <2>1 DEF Inv, SockMatchesLabel, LockIsHeld, UnderLock
  <2>3. pc[q] # "serving"
    BY <2>2 DEF Inv, LockIsHeld, UnderLock
  <2>4. ServiceState(q) = "leaving" /\ Reached = q
    BY <2>1, <2>3 DEF ServiceState, Reached
  <2>5. Service!Clear(q)
    BY <1>1, <1>2, <2>4 DEF Service!Clear
  <2> QED
    BY <2>5 DEF Service!Next
<1>4. CASE ~\E q \in Procs : path = q /\ sock[q] = "listening"
  BY <1>1, <1>2, <1>4 DEF Reached, Service!vars
<1> QED
  BY <1>3, <1>4

\* Every step of a process is one of SocketService, or none (main_serve_unix).
LEMMA StepRefines == ASSUME Inv, [Next]_vars PROVE [Service!Next]_(Service!vars)
<1> USE DEF At, Goto, Inv, LabelsOK, SockMatchesLabel, LockIsHeld, PathIsOwned,
            PathHasSocket, Labels, SockStates, UnderLock, OwnsPath,
            Reached, ServiceState, Service!vars, Service!Next, Service!Serve,
            Service!Leave, Service!Clear, Service!Vanish
<1>1. ASSUME NEW p \in Procs, Start(p) PROVE [Service!Next]_(Service!vars)
  BY <1>1 DEF Start
<1>2. ASSUME NEW p \in Procs, OpenLock(p) PROVE [Service!Next]_(Service!vars)
  BY <1>2 DEF OpenLock
<1>3. ASSUME NEW p \in Procs, SetLock(p) PROVE [Service!Next]_(Service!vars)
  BY <1>3, NotProcs DEF SetLock
<1>4. ASSUME NEW p \in Procs, Unlink(p) PROVE [Service!Next]_(Service!vars)
  <2>1. CASE UNCHANGED path
    BY <1>4, <2>1 DEF Unlink
  <2>2. CASE path' = "none"
    BY <1>4, <2>2, ClearsTheDead DEF Unlink
  <2> QED
    BY <1>4, <2>1, <2>2 DEF Unlink
<1>5. ASSUME NEW p \in Procs, Socket(p) PROVE [Service!Next]_(Service!vars)
  BY <1>5 DEF Socket
<1>6. ASSUME NEW p \in Procs, Bind(p) PROVE [Service!Next]_(Service!vars)
  BY <1>6, NotProcs DEF Bind
<1>7. ASSUME NEW p \in Procs, Chown(p) PROVE [Service!Next]_(Service!vars)
  BY <1>7 DEF Chown, SetPerms
<1>8. ASSUME NEW p \in Procs, Chmod(p) PROVE [Service!Next]_(Service!vars)
  BY <1>8 DEF Chmod, SetPerms
<1>9. ASSUME NEW p \in Procs, Listen(p) PROVE [Service!Next]_(Service!vars)
  <2>1. CASE pc'[p] = "serving"
    <3>1. sock' = [sock EXCEPT ![p] = "listening"] /\ pc' = [pc EXCEPT ![p] = "serving"]
      BY <1>9, <2>1 DEF Listen
    <3>2. path' = p /\ path = p /\ sock[p] = "bound"
      BY <1>9 DEF Listen
    <3> QED
      BY <3>1, <3>2, ZenonT(30)
  <2>2. CASE pc'[p] # "serving"
    BY <1>9, <2>2 DEF Listen
  <2> QED
    BY <2>1, <2>2
<1>10. ASSUME NEW p \in Procs, ServeLoopReturns(p) PROVE [Service!Next]_(Service!vars)
  BY <1>10, Leaves DEF ServeLoopReturns
<1>11. ASSUME NEW p \in Procs, CloseSock(p) PROVE [Service!Next]_(Service!vars)
  BY <1>11, NotProcs, ZenonT(30) DEF CloseSock, Closed
<1>12. ASSUME NEW p \in Procs, Unlock(p) PROVE [Service!Next]_(Service!vars)
  BY <1>12, NotProcs DEF Unlock, Unlocked
<1>13. ASSUME NEW p \in Procs, CloseLock(p) PROVE [Service!Next]_(Service!vars)
  BY <1>13, NotProcs DEF CloseLock, Closed, Unlocked
<1>14. ASSUME NEW p \in Procs, Crash(p) PROVE [Service!Next]_(Service!vars)
  <2>1. pc' = [pc EXCEPT ![p] = "dying"] /\ UNCHANGED <<sock, path>>
    BY <1>14 DEF Crash
  <2>2. CASE pc[p] = "serving"
    BY <2>1, <2>2, Leaves
  <2>3. CASE pc[p] # "serving"
    BY <2>1, <2>3
  <2> QED
    BY <2>2, <2>3
<1>15. ASSUME NEW p \in Procs, Die(p) PROVE [Service!Next]_(Service!vars)
  <2>0. At(p, "dying")
    BY <1>15 DEF Die
  <2>1. CASE UNCHANGED <<sock, path>>
    BY <1>15, <2>1 DEF Die
  <2>2. CASE Closed(p) /\ UNCHANGED pc /\ sock[p] = "listening"
    BY <2>0, <2>2, NotProcs, ZenonT(30) DEF Closed
  <2>3. CASE Closed(p) /\ UNCHANGED pc /\ sock[p] # "listening"
    BY <2>0, <2>3, NotProcs DEF Closed
  <2> QED
    BY <1>15, <2>1, <2>2, <2>3 DEF Die
<1>16. CASE UNCHANGED vars
  BY <1>16 DEF vars, procVars
<1> HIDE DEF At, Goto, Inv, LabelsOK, SockMatchesLabel, LockIsHeld, PathIsOwned,
             PathHasSocket, Labels, SockStates, UnderLock, OwnsPath,
             Reached, ServiceState, Service!vars, Service!Next, Service!Serve,
             Service!Leave, Service!Clear, Service!Vanish
<1> QED
  BY <1>1, <1>2, <1>3, <1>4, <1>5, <1>6, <1>7, <1>8, <1>9, <1>10,
     <1>11, <1>12, <1>13, <1>14, <1>15, <1>16
     DEF Next, Run, OpenSocket, CloseSocket

\* A server that serves is the one that is reached: main_serve_unix(), whatever fails
\* and whoever is killed, implements SocketService.
THEOREM SocketServiceImplemented == Spec => ImplementsSocketService
  BY InitRefines, StepRefines, Invariant, PTL
     DEF Spec, ImplementsSocketService, Service!Spec

-----------------------------------------------------------------------------
(* The command line: what parse_opts() and runopts_build() keep of it      *)

\* where among the first i words the option that counts is
LastOwner(words, i, owner) ==
  \/ owner = NULL /\ \A j \in 1..i : words[j].name # "chown-socket"
  \/ \E j \in 1..i :
       /\ words[j].name = "chown-socket" /\ owner = words[j].arg
       /\ \A m \in (j + 1)..i : words[m].name # "chown-socket"

\* what the options say after i words, unless parse_opts() has given up
Said(words, i, opts) ==
  (~opts.invalid /\ ~opts.help) =>
    /\ opts.mode = NULL /\ \A j \in 1..i : words[j].name # "chmod-socket"
    /\ LastOwner(words, i, opts.user_group)

WordArgs(words) == {words[i].arg : i \in 1..Len(words)}

\* opts_t with these arguments
OptsOf(Args) ==
  [config : {"/etc/sdiol/conf.lua"} \cup Args, verbose : BOOLEAN, timeout : {NULL} \cup Args,
   systemd : BOOLEAN, user_group : {NULL} \cup Args, mode : {NULL} \cup Args,
   args : Seq(Args), invalid : BOOLEAN, help : BOOLEAN]

\* The options before any word is read.
LEMMA DefaultIsOpts ==
  ASSUME NEW Args
  PROVE  DefaultOpts \in OptsOf(Args)
  BY DEF DefaultOpts, OptsOf

\* A word sets a field to its argument, whichever option it is.
LEMMA WordIsOpts ==
  ASSUME NEW Args, NEW opts \in OptsOf(Args), NEW word, word.arg \in Args
  PROVE  ParseWord(opts, word) \in OptsOf(Args)
<1> DEFINE w == word.arg
<1>1. Append(opts.args, w) \in Seq(Args)
  BY DEF OptsOf
<1> HIDE DEF w
<1>2. /\ [opts EXCEPT !.args = Append(@, w)] \in OptsOf(Args)
      /\ [opts EXCEPT !.help = TRUE] \in OptsOf(Args)
      /\ [opts EXCEPT !.verbose = TRUE] \in OptsOf(Args)
      /\ [opts EXCEPT !.systemd = TRUE] \in OptsOf(Args)
      /\ [opts EXCEPT !.invalid = TRUE] \in OptsOf(Args)
  BY <1>1 DEF OptsOf
<1>3. w \in Args
  BY DEF w
<1>4. /\ [opts EXCEPT !.config = w] \in OptsOf(Args)
      /\ [opts EXCEPT !.timeout = w] \in OptsOf(Args)
      /\ [opts EXCEPT !.user_group = w] \in OptsOf(Args)
      /\ [opts EXCEPT !.mode = w] \in OptsOf(Args)
  BY <1>3 DEF OptsOf
<1>5. ParseWord(opts, word) \in
        {opts, [opts EXCEPT !.args = Append(@, w)], [opts EXCEPT !.help = TRUE],
         [opts EXCEPT !.verbose = TRUE], [opts EXCEPT !.systemd = TRUE],
         [opts EXCEPT !.invalid = TRUE], [opts EXCEPT !.config = w],
         [opts EXCEPT !.timeout = w], [opts EXCEPT !.user_group = w],
         [opts EXCEPT !.mode = w]}
  BY Zenon DEF ParseWord, LastCounts, w
<1> QED
  BY <1>2, <1>4, <1>5

\* An option of parse_opts() changes what it is to change.
LEMMA WordSays ==
  ASSUME NEW Args, NEW opts \in OptsOf(Args), NEW word,
         ~ParseWord(opts, word).invalid, ~ParseWord(opts, word).help
  PROVE  /\ ~opts.invalid /\ ~opts.help
         /\ ParseWord(opts, word).mode = opts.mode
         /\ word.name # "chmod-socket"
         /\ ParseWord(opts, word).user_group =
              IF word.name = "chown-socket" THEN word.arg ELSE opts.user_group
  BY DEF ParseWord, OptsOf, LastCounts, ValOf, Positional

\* what the turns of parse_opts() make of the first n words
Parses(f, words, n) ==
  f[0] = DefaultOpts /\ \A i \in 1..n : f[i] = ParseWord(f[i - 1], words[i])

\* whatever word comes, the options stay of this type
Keeps(T, words, n) == \A i \in 1..n, t \in T : ParseWord(t, words[i]) \in T

\* The loop of parse_opts() has a value after each of its turns.
LEMMA ParseRuns ==
  ASSUME NEW T, DefaultOpts \in T, NEW n \in Nat, NEW words, Keeps(T, words, n)
  PROVE  \E f \in [0..n -> T] : Parses(f, words, n)
<1> DEFINE step == [i \in 1..n |-> [t \in T |-> ParseWord(t, words[i])]]
           first == DefaultOpts
<1>1. step \in [1..n -> [T -> T]]
  BY DEF Keeps
<1>2. \A i \in 1..n, t \in T : step[i][t] = ParseWord(t, words[i])
  OBVIOUS
<1> HIDE DEF step, first
<1>3. \E f \in [0..n -> T] : IsRun(f, first, n, step)
  <2>1. first \in T /\ n \in Nat /\ step \in [1..n -> [T -> T]]
    BY <1>1 DEF first
  <2> QED
    BY ONLY <2>1, LoopRuns
<1>4. PICK f \in [0..n -> T] : IsRun(f, first, n, step)
  BY <1>3
<1>5. f[0] = first /\ \A i \in 1..n : i - 1 \in 0..n /\ f[i] = step[i][f[i - 1]]
  BY <1>4 DEF IsRun
<1>6. \A i \in 1..n : f[i - 1] \in T
  BY <1>5
<1>7. \A i \in 1..n : f[i] = ParseWord(f[i - 1], words[i])
  BY ONLY <1>2, <1>5, <1>6
<1> QED
  BY <1>5, <1>7 DEF Parses, first

\* parse_opts() as a whole: of several --chown-socket the last counts, and a command
\* line with --chmod-socket comes to nothing.
LEMMA AllSaid ==
  ASSUME NEW words \in CommandLines
  PROVE  Said(words, Len(words), parse_opts(words))
<1> DEFINE n == Len(words)
           Args == WordArgs(words)
           T == OptsOf(Args)
           Is(f) == f = [i \in 0..n |-> IF i = 0 THEN DefaultOpts
                                        ELSE ParseWord(f[i - 1], words[i])]
           after == CHOOSE f : Is(f)
<1>1. n \in Nat /\ \A i \in 1..n : words[i].arg \in Args /\ i # 0 /\ i - 1 \in 0..n
  BY CommandLinesAssumption DEF WordArgs
<1> HIDE DEF Args, n
<1>2. DefaultOpts \in T /\ \A i \in 1..n, t \in T : ParseWord(t, words[i]) \in T
  BY <1>1, DefaultIsOpts, WordIsOpts
<1> HIDE DEF T
<1>2a. \E f \in [0..n -> T] : Parses(f, words, n)
  <2>1. n \in Nat /\ DefaultOpts \in T /\ Keeps(T, words, n)
    BY <1>1, <1>2 DEF Keeps
  <2> QED
    BY ONLY <2>1, ParseRuns
<1>3. PICK f \in [0..n -> T] :
        f[0] = DefaultOpts /\ \A i \in 1..n : f[i] = ParseWord(f[i - 1], words[i])
  BY <1>2a DEF Parses
<1>4. \A i \in 0..n : i # 0 => i \in 1..n
  BY <1>1
<1>5. \A i \in 0..n : f[i] = IF i = 0 THEN DefaultOpts ELSE ParseWord(f[i - 1], words[i])
  BY <1>3, <1>4
<1>6. Is(f)
  BY <1>3, <1>5
<1>7. Is(after)
  <2> HIDE DEF Is
  <2> QED
    BY <1>6
<1>8. parse_opts(words) = after[n]
  BY DEF parse_opts, n
<1> HIDE DEF after
<1>9. after[0] = DefaultOpts /\ \A i \in 1..n : after[i] = ParseWord(after[i - 1], words[i])
  <2>1. 0 \in 0..n /\ \A i \in 1..n : i \in 0..n /\ i # 0
    BY <1>1
  <2> QED
    BY <1>7, <2>1
<1> DEFINE P == {i \in 0..n : after[i] \in T /\ Said(words, i, after[i])}
<1>10. 0 \in P
  <2>1. DefaultOpts.mode = NULL /\ DefaultOpts.user_group = NULL
    BY DEF DefaultOpts
  <2>2. \A j \in 1..0 : FALSE
    OBVIOUS
  <2>3. Said(words, 0, DefaultOpts)
    BY <2>1, <2>2 DEF Said, LastOwner
  <2> QED
    BY <1>1, <1>2, <1>9, <2>3
<1>11. ASSUME NEW i \in 1..n, i - 1 \in P
       PROVE  i \in P
  <2> DEFINE t == after[i - 1]
             word == words[i]
             u == ParseWord(t, word)
  <2>1. /\ t \in T /\ Said(words, i - 1, t) /\ word.arg \in Args /\ after[i] = u
        /\ i \in 0..n /\ i \in 1..i
        /\ \A j \in 1..i : j \in 1..(i - 1) \/ j = i
        /\ \A j \in 1..(i - 1) : j \in 1..i
    BY <1>1, <1>9, <1>11
  <2> HIDE DEF t
  <2>2. u \in T
    BY <2>1, WordIsOpts DEF T
  <2>3. ASSUME ~u.invalid, ~u.help
        PROVE  /\ u.mode = NULL /\ \A j \in 1..i : words[j].name # "chmod-socket"
               /\ LastOwner(words, i, u.user_group)
    <3>1. /\ ~t.invalid /\ ~t.help /\ u.mode = t.mode /\ word.name # "chmod-socket"
          /\ u.user_group = IF word.name = "chown-socket" THEN word.arg ELSE t.user_group
      BY <2>1, <2>3, WordSays DEF T
    <3>2. /\ t.mode = NULL /\ \A j \in 1..(i - 1) : words[j].name # "chmod-socket"
          /\ LastOwner(words, i - 1, t.user_group)
      BY <2>1, <3>1 DEF Said
    <3> HIDE DEF u
    <3>3. CASE word.name = "chown-socket"
      <4>1. \A m \in (i + 1)..i : FALSE
        OBVIOUS
      <4>2. LastOwner(words, i, u.user_group)
        BY <2>1, <3>1, <3>3, <4>1 DEF LastOwner
      <4> QED
        BY <2>1, <3>1, <3>2, <4>2
    <3>4. CASE word.name # "chown-socket"
      <4>1. u.user_group = t.user_group
        BY <3>1, <3>4
      <4>2. CASE t.user_group = NULL /\ \A j \in 1..(i - 1) : words[j].name # "chown-socket"
        BY <2>1, <3>1, <3>2, <3>4, <4>1, <4>2 DEF LastOwner
      <4>3. CASE \E j \in 1..(i - 1) :
                   /\ words[j].name = "chown-socket" /\ t.user_group = words[j].arg
                   /\ \A m \in (j + 1)..(i - 1) : words[m].name # "chown-socket"
        <5>1. PICK j \in 1..(i - 1) :
                /\ words[j].name = "chown-socket" /\ t.user_group = words[j].arg
                /\ \A m \in (j + 1)..(i - 1) : words[m].name # "chown-socket"
          BY <4>3
        <5>2. \A m \in (j + 1)..i : m \in (j + 1)..(i - 1) \/ m = i
          OBVIOUS
        <5>3. \A m \in (j + 1)..i : words[m].name # "chown-socket"
          BY <3>4, <5>1, <5>2
        <5>4. LastOwner(words, i, u.user_group)
          BY <2>1, <4>1, <5>1, <5>3 DEF LastOwner
        <5> QED
          BY <2>1, <3>1, <3>2, <5>4
      <4> QED
        BY <3>2, <4>2, <4>3 DEF LastOwner
    <3> QED
      BY <3>3, <3>4
  <2>4. Said(words, i, u)
    <3> HIDE DEF u
    <3> QED
      BY <2>3 DEF Said
  <2> QED
    BY <2>1, <2>2, <2>4
<1>12. n \in P
  <2> HIDE DEF P
  <2>1. \A i \in 0..n : i \in P
    BY <1>1, <1>10, <1>11, UpTo
  <2> QED
    BY <1>1, <2>1
<1> QED
  BY <1>8, <1>12 DEF n

\* What a command line asks for is what main_serve_unix() is given.
AsksFor(words, opts) ==
  /\ opts.mode = NULL /\ Asked(words, "chmod-socket", "600") = "600"
  /\ \/ opts.user = NULL /\ Asked(words, "chown-socket", NULL) = NULL
     \/ opts.user # NULL /\ Asked(words, "chown-socket", NULL) = <<opts.user, opts.group>>

\* runopts_build() splits the owner that counts, and leaves no mode.
LEMMA OutcomeAsks ==
  ASSUME NEW words \in CommandLines, Outcome(words).runs = "serve"
  PROVE  AsksFor(words, Outcome(words).runopts)
<1> DEFINE opts == parse_opts(words)
           n == Len(words)
           ro == runopts_build(opts)
           owner == opts.user_group
<1>1. NULL # "serve"
  BY CommandLinesAssumption
<1>2. ~opts.help /\ ~opts.invalid /\ Builds(opts) /\ Outcome(words).runopts = ro
  <2> HIDE DEF opts, ro
  <2>1. Outcome(words) =
          IF /\ ~opts.help /\ ~opts.invalid /\ Builds(opts)
             /\ opts.args # <<>> /\ Len(opts.args) \in NArgs(opts.args[1])
          THEN [runs |-> opts.args[1], runopts |-> ro] ELSE [runs |-> NULL, runopts |-> NULL]
    BY DEF Outcome, opts, ro
  <2> QED
    BY <1>1, <2>1
<1>3. Said(words, n, opts) /\ n \in Nat /\ DOMAIN words = 1..n
  BY AllSaid, CommandLinesAssumption
<1>4. /\ ro.mode = opts.mode
      /\ ro.user = IF owner = NULL THEN NULL ELSE owner[1]
      /\ ro.group = IF owner = NULL THEN NULL ELSE owner[2]
  BY DEF runopts_build
<1> HIDE DEF opts, ro, n
<1>5. /\ opts.mode = NULL /\ \A j \in 1..n : words[j].name # "chmod-socket"
      /\ LastOwner(words, n, owner)
  BY <1>2, <1>3 DEF Said
<1>6. Asked(words, "chmod-socket", "600") = "600"
  BY <1>3, <1>5 DEF Asked
<1>7. CASE owner = NULL /\ \A j \in 1..n : words[j].name # "chown-socket"
  <2>1. Asked(words, "chown-socket", NULL) = NULL
    BY <1>3, <1>7 DEF Asked
  <2> QED
    BY <1>2, <1>4, <1>5, <1>6, <1>7, <2>1 DEF AsksFor
<1>8. CASE \E j \in 1..n :
             /\ words[j].name = "chown-socket" /\ owner = words[j].arg
             /\ \A m \in (j + 1)..n : words[m].name # "chown-socket"
  <2>1. PICK j \in 1..n :
          /\ words[j].name = "chown-socket" /\ owner = words[j].arg
          /\ \A m \in (j + 1)..n : words[m].name # "chown-socket"
    BY <1>8
  <2> DEFINE asking == {i \in DOMAIN words : words[i].name = "chown-socket"}
  <2>2. \A m \in 1..n : m \in (j + 1)..n \/ m <= j
    BY <1>3
  <2>3. j \in asking /\ \A m \in asking : m <= j
    BY <1>3, <2>1, <2>2
  <2>4. \A i \in asking : (\A m \in asking : m <= i) => i = j
    BY <1>3, <2>3
  <2>5. Asked(words, "chown-socket", NULL) =
          IF asking = {} THEN NULL
          ELSE words[CHOOSE i \in asking : \A m \in asking : m <= i].arg
    BY DEF Asked
  <2> HIDE DEF asking
  <2>6. Asked(words, "chown-socket", NULL) = owner
    <3>1. (CHOOSE i \in asking : \A m \in asking : m <= i) = j
      BY <2>3, <2>4
    <3> QED
      BY <2>1, <2>3, <2>5, <3>1
  <2>7. owner \in Seq(STRING \ {NULL})
    BY <1>3, <2>1, CommandLinesAssumption
  <2>8. owner # NULL => owner = <<owner[1], owner[2]>> /\ owner[1] # NULL
    <3>1. owner # NULL => Len(owner) = 2
      BY <1>2 DEF Builds, SplitsInTwo
    <3> QED
      BY <2>7, <3>1, CommandLinesAssumption
  <2>9. owner = NULL => ro.user = NULL /\ Asked(words, "chown-socket", NULL) = NULL
    BY <1>4, <2>6
  <2> QED
    BY <1>2, <1>4, <1>5, <1>6, <2>6, <2>8, <2>9 DEF AsksFor
<1> QED
  BY <1>5, <1>7, <1>8 DEF LastOwner

-----------------------------------------------------------------------------
(* The permissions of the file at the path                                 *)

\* where unix_socket_open() has a command line whose permissions are not yet set
BeforePerms == {"open_lock", "lock", "unlink", "socket", "bind", "chown", "chmod"}

PermsAsked(p) ==
  [owner |-> Asked(argv[p], "chown-socket", NULL),
   mode  |-> Asked(argv[p], "chmod-socket", "600")]

ArgvOK == DOMAIN argv = Procs /\ DOMAIN runopts = Procs

OptionsAreAsked ==
  \A p \in Procs : pc[p] \in BeforePerms => AsksFor(argv[p], runopts[p])

NewFileIsNotSet ==
  /\ path = "none" => perms = NotSet
  /\ \A p \in Procs : pc[p] = "chown" => perms = NotSet

OwnerIsSet ==
  \A p \in Procs : pc[p] = "chmod" =>
    perms = [owner |-> Asked(argv[p], "chown-socket", NULL), mode |-> NULL]

PermsAreSet ==
  \A p \in Procs :
    (pc[p] \in {"listen", "serving"} \/ (path = p /\ sock[p] = "listening")) =>
      perms = PermsAsked(p)

PermsInv ==
  ArgvOK /\ OptionsAreAsked /\ NewFileIsNotSet /\ OwnerIsSet /\ PermsAreSet

\* Nobody has come to a file yet (Init).
LEMMA InitPermsInv == Init => PermsInv
  BY NotProcs DEF Init, PermsInv, ArgvOK, OptionsAreAsked, NewFileIsNotSet, OwnerIsSet,
     PermsAreSet, BeforePerms

\* main() starts a server with the options that its command line asks for.
LEMMA StartKeepsPerms ==
  ASSUME Inv, PermsInv, NEW p \in Procs, Start(p)
  PROVE  PermsInv'
<1> USE DEF At, Goto, Inv, LabelsOK, PermsInv, ArgvOK, OptionsAreAsked,
            NewFileIsNotSet, OwnerIsSet, PermsAreSet, BeforePerms, Labels
<1>1. CASE UNCHANGED <<pc, argv, runopts>>
  BY <1>1 DEF Start, PermsAsked
<1>2. CASE ~UNCHANGED <<pc, argv, runopts>>
  <2>1. PICK words \in CommandLines :
          /\ Outcome(words).runs = "serve" /\ Goto(p, "open_lock")
          /\ argv' = [argv EXCEPT ![p] = words]
          /\ runopts' = [runopts EXCEPT ![p] = Outcome(words).runopts]
    BY <1>2 DEF Start
  <2>2. AsksFor(words, Outcome(words).runopts)
    BY <2>1, OutcomeAsks
  <2> DEFINE opts == Outcome(words).runopts
  <2> HIDE DEF opts
  <2>3. /\ pc[p] = "off" /\ sock[p] = "none" /\ UNCHANGED <<path, perms, sock>>
        /\ pc' = [pc EXCEPT ![p] = "open_lock"] /\ argv' = [argv EXCEPT ![p] = words]
        /\ runopts' = [runopts EXCEPT ![p] = opts] /\ AsksFor(words, opts)
    BY <2>1, <2>2 DEF Start, SockMatchesLabel, opts
  <2>4. ArgvOK'
    BY <2>3
  <2>5. OptionsAreAsked'
    BY <2>3
  <2>6. NewFileIsNotSet' /\ OwnerIsSet'
    BY <2>3
  <2>7. PermsAreSet'
    BY <2>3 DEF PermsAsked
  <2> QED
    BY <2>4, <2>5, <2>6, <2>7
<1> QED
  BY <1>1, <1>2

\* Whoever sets an owner, or a mode, sets what was asked for, of a file that is its own.
LEMMA StepPermsInv ==
  ASSUME Inv, PermsInv, [Next]_vars
  PROVE  PermsInv'
<1> USE DEF At, Goto, Inv, LabelsOK, SockMatchesLabel, LockIsHeld, PathIsOwned,
            PathHasSocket, Labels, SockStates, UnderLock, OwnsPath, PermsInv, ArgvOK,
            OptionsAreAsked, NewFileIsNotSet, OwnerIsSet, PermsAreSet, BeforePerms,
            PermsAsked
<1>1. ASSUME NEW p \in Procs, Start(p) PROVE PermsInv'
  BY <1>1, StartKeepsPerms
<1>2. ASSUME NEW p \in Procs, OpenLock(p) PROVE PermsInv'
  BY <1>2 DEF OpenLock
<1>3. ASSUME NEW p \in Procs, SetLock(p) PROVE PermsInv'
  BY <1>3, NotProcs DEF SetLock
<1>4. ASSUME NEW p \in Procs, Unlink(p) PROVE PermsInv'
  BY <1>4, NotProcs DEF Unlink
<1>5. ASSUME NEW p \in Procs, Socket(p) PROVE PermsInv'
  BY <1>5 DEF Socket
<1>6. ASSUME NEW p \in Procs, Bind(p) PROVE PermsInv'
  BY <1>6, NotProcs DEF Bind
<1>7. ASSUME NEW p \in Procs, Chown(p) PROVE PermsInv'
  BY <1>7, NotProcs DEF Chown, SetPerms, AsksFor, NotSet
<1>8. ASSUME NEW p \in Procs, Chmod(p) PROVE PermsInv'
  BY <1>8, NotProcs DEF Chmod, SetPerms, AsksFor, ModeOf
<1>9. ASSUME NEW p \in Procs, Listen(p) PROVE PermsInv'
  BY <1>9 DEF Listen
<1>10. ASSUME NEW p \in Procs, ServeLoopReturns(p) PROVE PermsInv'
  BY <1>10 DEF ServeLoopReturns
<1>11. ASSUME NEW p \in Procs, CloseSock(p) PROVE PermsInv'
  BY <1>11, NotProcs DEF CloseSock, Closed
<1>12. ASSUME NEW p \in Procs, Unlock(p) PROVE PermsInv'
  BY <1>12, NotProcs DEF Unlock, Unlocked
<1>13. ASSUME NEW p \in Procs, CloseLock(p) PROVE PermsInv'
  BY <1>13, NotProcs DEF CloseLock, Closed, Unlocked
<1>14. ASSUME NEW p \in Procs, Crash(p) PROVE PermsInv'
  BY <1>14 DEF Crash
<1>15. ASSUME NEW p \in Procs, Die(p) PROVE PermsInv'
  BY <1>15, NotProcs DEF Die, Closed, Unlocked
<1>16. CASE UNCHANGED vars
  BY <1>16 DEF vars, procVars
<1> HIDE DEF At, Goto, Inv, LabelsOK, SockMatchesLabel, LockIsHeld, PathIsOwned,
             PathHasSocket, Labels, SockStates, UnderLock, OwnsPath, PermsInv, ArgvOK,
             OptionsAreAsked, NewFileIsNotSet, OwnerIsSet, PermsAreSet, BeforePerms,
             PermsAsked
<1> QED
  BY <1>1, <1>2, <1>3, <1>4, <1>5, <1>6, <1>7, <1>8, <1>9, <1>10,
     <1>11, <1>12, <1>13, <1>14, <1>15, <1>16
     DEF Next, Run, OpenSocket, CloseSocket

\* Who can connect is who was to: while a server can be reached, the file at the path
\* has the owner and the mode that its command line asks for (main_serve_unix,
\* set_file_perms, parse_opts, runopts_build).
THEOREM SocketIsAsAskedCorrect == Spec => []SocketIsAsAsked
<1>1. PermsInv => SocketIsAsAsked
  BY DEF PermsInv, PermsAreSet, PermsAsked, SocketIsAsAsked
<1> QED
  BY <1>1, InitPermsInv, StepPermsInv, Invariant, PTL DEF Spec

=============================================================================
