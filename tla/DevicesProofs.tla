---------------------------- MODULE DevicesProofs ----------------------------
(***************************************************************************)
(* serve_loop does not end before its time, whatever the clock shows when  *)
(* it starts and however long it takes for its events, if --timeout in     *)
(* milliseconds is an int.  However keyboards come and go, it grabs none   *)
(* twice and none that no grab matches.                                    *)
(***************************************************************************)
EXTENDS Devices, FoldLemmas

-----------------------------------------------------------------------------
(* Times (time_util.c)                                                     *)

\* USEC is the literal that the solver can calculate with.
LEMMA Million == USEC = 1000000
  BY SMT DEF USEC

\* The fields of a struct timeval, and the range of its microseconds.
LEMMA InTimeval ==
  ASSUME NEW tv \in Timeval
  PROVE  /\ tv.tv_sec \in Int /\ tv.tv_usec \in Int
         /\ 0 <= tv.tv_usec /\ tv.tv_usec < USEC
<1>1. USEC \in Int
  BY SMT, Million
<1> QED
  BY SMT, <1>1 DEF Timeval

\* Two numbers that make a struct timeval.
LEMMA IsTimeval ==
  ASSUME NEW sec \in Int, NEW usec \in Int, 0 <= usec, usec < USEC
  PROVE  [tv_sec |-> sec, tv_usec |-> usec] \in Timeval
<1>1. USEC \in Int
  BY SMT, Million
<1> QED
  BY SMT, <1>1 DEF Timeval

\* The remainder of C is the difference to a multiple, with the sign of the dividend.
LEMMA ByAMillion ==
  \A a \in Int :
    /\ CDiv(a, 1000000) \in Int /\ CMod(a, 1000000) \in Int
    /\ a = 1000000 * CDiv(a, 1000000) + CMod(a, 1000000)
    /\ a >= 0 => 0 <= CMod(a, 1000000)
    /\ -1000000 < CMod(a, 1000000) /\ CMod(a, 1000000) < 1000000
  BY SMT DEF CDiv, CMod

\* What is a multiple of USEC is divided without a rest.
LEMMA MultipleOfAMillion ==
  ASSUME NEW k \in Int
  PROVE  CDiv(1000000 * k, 1000000) = k
  BY SMT DEF CDiv

\* C's / and % by 1000, which round towards zero (msec_to_timeval).
LEMMA ByAThousand ==
  \A a \in Int :
    /\ CDiv(a, 1000) \in Int /\ CMod(a, 1000) \in Int
    /\ a = 1000 * CDiv(a, 1000) + CMod(a, 1000)
    /\ a >= 0 => 0 <= CMod(a, 1000)
    /\ -1000 < CMod(a, 1000) /\ CMod(a, 1000) < 1000
  BY SMT DEF CDiv, CMod

\* what msec_after() returns, for any number of milliseconds
AnyTime == [tv_sec : Int, tv_usec : Int]

\* The fields of one, and of a struct timeval.
LEMMA InAnyTime ==
  /\ \A tv \in AnyTime : tv.tv_sec \in Int /\ tv.tv_usec \in Int
  /\ \A tv \in Timeval : tv \in AnyTime
<1>1. \A tv \in AnyTime : tv.tv_sec \in Int /\ tv.tv_usec \in Int
  BY DEF AnyTime
<1>2. ASSUME NEW tv \in Timeval PROVE tv \in AnyTime
  <2>1. tv = [tv_sec |-> tv.tv_sec, tv_usec |-> tv.tv_usec]
    BY DEF Timeval
  <2> QED
    BY <2>1, InTimeval DEF AnyTime
<1> QED
  BY <1>1, <1>2

\* The difference of two times is in the form of a time, with its microseconds in
\* range, and exact, even if the microseconds of the first are out of range (exit_time).
\* It is negative only if the first time is the earlier.
THEOREM TimevalDiffExact ==
  ASSUME NEW a \in AnyTime, NEW b \in Timeval
  PROVE  /\ timeval_diff(a, b) \in Timeval
         /\ Usecs(timeval_diff(a, b)) = Usecs(a) - Usecs(b)
<1> DEFINE s    == a.tv_sec - b.tv_sec
           diff == a.tv_usec - b.tv_usec
           quot == CDiv(diff, 1000000)
           rem  == CMod(diff, 1000000)
           mod  == IF rem < 0 THEN rem + 1000000 ELSE rem
           sec  == IF rem < 0 THEN quot - 1 ELSE quot
<1>0. a.tv_sec \in Int /\ a.tv_usec \in Int
  BY InAnyTime
<1>1. diff \in Int
  BY SMT, <1>0, InTimeval
<1>2. s \in Int /\ Usecs(a) - Usecs(b) = s * 1000000 + diff
  BY SMT, <1>0, InTimeval, Million DEF Usecs
<1>3. timeval_diff(a, b) = [tv_sec |-> s + CDiv(diff - mod, 1000000), tv_usec |-> mod]
  BY SMT, Million DEF timeval_diff
<1> HIDE DEF s, diff
<1>4. /\ quot \in Int /\ rem \in Int /\ diff = 1000000 * quot + rem
      /\ -1000000 < rem /\ rem < 1000000
  BY SMT, <1>1, ByAMillion
<1>5. /\ mod \in Int /\ 0 <= mod /\ mod < 1000000
      /\ sec \in Int /\ diff - mod = 1000000 * sec
  BY SMT, <1>1, <1>4
<1> HIDE DEF mod, sec
<1>6. timeval_diff(a, b) = [tv_sec |-> s + sec, tv_usec |-> mod]
  BY SMT, <1>3, <1>5, MultipleOfAMillion
<1>7. timeval_diff(a, b) \in Timeval
  BY SMT, <1>2, <1>5, <1>6, Million, IsTimeval
<1>8. Usecs(timeval_diff(a, b)) = (s + sec) * 1000000 + mod
  BY SMT, <1>6, Million DEF Usecs
<1> QED
  BY SMT, <1>1, <1>2, <1>5, <1>7, <1>8

\* The difference in milliseconds is less than one off (check_waveform, resolver.c:73).
THEOREM MsecDiffWithinOne ==
  ASSUME NEW a \in Timeval, NEW b \in Timeval
  PROVE  /\ msec_diff(a, b) \in Int
         /\ 1000 * (msec_diff(a, b) - 1) < Usecs(a) - Usecs(b)
         /\ Usecs(a) - Usecs(b) < 1000 * (msec_diff(a, b) + 1)
<1> DEFINE s == a.tv_sec
           t == b.tv_sec
           u == a.tv_usec
           v == b.tv_usec
           m == CDiv(u, 1000)
           n == CDiv(v, 1000)
<1>1. s \in Int /\ t \in Int
  BY SMT, InTimeval
<1>2. u \in Int /\ u >= 0
  BY SMT, InTimeval
<1>3. v \in Int /\ v >= 0
  BY SMT, InTimeval
<1>4. /\ Usecs(a) = s * 1000000 + u
      /\ Usecs(b) = t * 1000000 + v
  BY SMT, Million DEF Usecs
<1>5. msec_diff(a, b) = m - n + (s - t) * 1000
  BY SMT DEF msec_diff
<1> HIDE DEF s, t, u, v
<1>6. m \in Int /\ 1000 * m <= u /\ u < 1000 * m + 1000
  BY SMT, <1>2, ByAThousand
<1>7. n \in Int /\ 1000 * n <= v /\ v < 1000 * n + 1000
  BY SMT, <1>3, ByAThousand
<1> HIDE DEF m, n
<1> QED
  BY SMT, <1>1, <1>2, <1>3, <1>4, <1>5, <1>6, <1>7

\* A number of whole seconds, which is what --timeout adds, is added exactly: the
\* carry of msec_after(), which comes a millisecond late, is not needed.
THEOREM WholeSecondsExact ==
  ASSUME NEW tv \in Timeval, NEW n \in Nat
  PROVE  /\ msec_after(tv, n * 1000) \in Timeval
         /\ Usecs(msec_after(tv, n * 1000)) = Usecs(tv) + n * USEC
<1> DEFINE u    == tv.tv_usec
           msec == CDiv(u, 1000)
           usec == CMod(u, 1000)
<1>1. CDiv(n * 1000, 1000) = n /\ CMod(n * 1000, 1000) = 0
  BY SMT DEF CDiv, CMod
<1>2. u \in Int /\ 0 <= u /\ u < 1000000
  BY SMT, InTimeval, Million
<1>3. tv.tv_sec \in Int /\ Usecs(tv) = tv.tv_sec * 1000000 + u
  BY SMT, InTimeval, Million DEF Usecs
<1> HIDE DEF u
<1>4. /\ msec \in Int /\ usec \in Int /\ u = 1000 * msec + usec
      /\ 0 <= msec /\ msec < 1000 /\ 0 <= usec /\ usec < 1000
  BY SMT, <1>2, ByAThousand
<1> HIDE DEF msec, usec
<1>5. CMod(msec, 1000) = msec
  BY SMT, <1>4 DEF CDiv, CMod
<1>6. msec_after(tv, n * 1000) =
        [tv_sec |-> tv.tv_sec + n, tv_usec |-> usec + msec * 1000]
  BY SMT, <1>1, <1>3, <1>4, <1>5 DEF msec_after, msec, usec, u
<1>7. msec_after(tv, n * 1000) \in Timeval
  BY SMT, <1>3, <1>4, <1>6, Million, IsTimeval
<1> QED
  BY SMT, <1>3, <1>4, <1>6, <1>7, Million DEF Usecs

-----------------------------------------------------------------------------
(* The times of the loop                                                   *)

TimesOK == {started, timeout, waiting, now} \subseteq Timeval /\ exit_time \in AnyTime

ExitTimeIsRight == FitsInt => Usecs(exit_time) = Usecs(started) + run_timeout * USEC

\* what select() was given ends at the time to exit
WaitsForExitTime ==
  (pc = "select" /\ TimedExit) =>
    /\ Usecs(timeout) = Usecs(exit_time) - Usecs(waiting)
    /\ Usecs(waiting) <= Usecs(now)

TimeInv == run_timeout \in Nat /\ TimesOK /\ ExitTimeIsRight /\ WaitsForExitTime

\* A time is a number of microseconds.
LEMMA UsecsInt == ASSUME NEW tv \in AnyTime PROVE Usecs(tv) \in Int
<1>1. tv.tv_sec \in Int /\ tv.tv_usec \in Int
  BY InAnyTime
<1> QED
  BY SMT, <1>1, Million DEF Usecs

\* msec_after() computes some time from any number.
LEMMA MsecAfterIsTime ==
  ASSUME NEW tv \in Timeval, NEW millis \in Int
  PROVE  msec_after(tv, millis) \in AnyTime
<1>1. tv.tv_sec \in Int /\ tv.tv_usec \in Int
  BY SMT, InTimeval
<1>2. \A a \in Int : CDiv(a, 1000) \in Int /\ CMod(a, 1000) \in Int
  BY ByAThousand
<1>3. PICK u \in Int : u = tv.tv_usec
  BY <1>1
<1>4. PICK sec \in Int : sec = CDiv(millis, 1000)
  BY <1>2
<1>5. PICK msec \in Int : msec = CMod(millis, 1000) + CDiv(u, 1000)
  BY SMT, <1>2
<1>6. PICK usec \in Int : usec = CMod(u, 1000) + CMod(msec, 1000) * 1000
  BY SMT, <1>2
<1>7. msec_after(tv, millis) =
        [tv_sec |-> tv.tv_sec + sec + (IF msec > 1000 THEN 1 ELSE 0), tv_usec |-> usec]
  BY SMT, <1>3, <1>4, <1>5, <1>6 DEF msec_after
<1>8. tv.tv_sec + sec + (IF msec > 1000 THEN 1 ELSE 0) \in Int
  BY SMT, <1>1
<1> QED
  BY SMT, <1>7, <1>8 DEF AnyTime

\* A product that fits is what serve_loop goes on with; any other is some number.
LEMMA ProductsInt ==
  ASSUME NEW n \in Nat, NEW millis \in Products(n)
  PROVE  millis \in Int /\ (n <= INT_MAX => millis = n)
<1> DEFINE size == 2 * (INT_MAX + 1)
           low  == n % size
<1>1. size \in Nat \ {0}
  BY DevicesAssumption DEF DevicesAssumption
<1>2. millis \in IF n <= INT_MAX THEN {n} ELSE {low, low - size}
  BY DEF Products
<1> HIDE DEF size
<1>3. low \in Int
  BY <1>1
<1> HIDE DEF low
<1> QED
  BY <1>1, <1>2, <1>3

\* one tick of the clock
LEMMA TickExact ==
  ASSUME NEW tv \in Timeval, NEW t \in Int, 1 <= t, t <= USEC
  PROVE  LET usec == tv.tv_usec + t
             next == [tv_sec |-> tv.tv_sec + usec \div USEC, tv_usec |-> usec % USEC]
         IN next \in Timeval /\ Usecs(next) = Usecs(tv) + t
<1> DEFINE s    == tv.tv_sec
           u    == tv.tv_usec
           usec == u + t
           quot == usec \div USEC
           rem  == usec % USEC
<1>1. s \in Int
  BY SMT, InTimeval
<1>2. u \in Int /\ 0 <= u
  BY SMT, InTimeval
<1>3. Usecs(tv) = s * 1000000 + u
  BY SMT, Million DEF Usecs
<1> HIDE DEF s, u
<1>4. /\ quot \in Int /\ rem \in Int
      /\ 0 <= rem /\ rem < 1000000 /\ u + t = 1000000 * quot + rem
  BY SMT, <1>2, Million
<1> HIDE DEF quot, rem
<1>5. [tv_sec |-> s + quot, tv_usec |-> rem] \in Timeval
  BY SMT, <1>1, <1>4, Million, IsTimeval
<1>6. Usecs([tv_sec |-> s + quot, tv_usec |-> rem]) = (s + quot) * 1000000 + rem
  BY SMT, Million DEF Usecs
<1>7. (s + quot) * 1000000 + rem = Usecs(tv) + t
  BY SMT, <1>1, <1>2, <1>3, <1>4
<1> QED
  BY <1>5, <1>6, <1>7 DEF s, u, quot, rem

-----------------------------------------------------------------------------
\* serve_loop computes exit_time with msec_after() (Init).
LEMMA InitTimeInv == Init => TimeInv
<1> SUFFICES ASSUME Init PROVE TimeInv
  OBVIOUS
<1>1. run_timeout \in Nat
  BY DevicesAssumption DEF Init, DevicesAssumption
<1>2. PICK usec \in StartUsecs : now = [tv_sec |-> 0, tv_usec |-> usec]
  BY DEF Init
<1>3. usec \in Int /\ 0 <= usec /\ usec < USEC
  <2>1. usec \in 0..(USEC - 1)
    BY <1>2, DevicesAssumption DEF DevicesAssumption
  <2>2. USEC \in Int
    BY SMT, Million
  <2> QED
    BY SMT, <2>1, <2>2
<1>4. now \in Timeval
  BY SMT, <1>2, <1>3, IsTimeval
<1>5. PICK millis \in Products(run_timeout * 1000) : exit_time = msec_after(now, millis)
  BY DEF Init
<1>6. millis \in Int /\ (FitsInt => millis = run_timeout * 1000)
  <2>1. run_timeout * 1000 \in Nat
    BY <1>1
  <2> QED
    BY <2>1, ProductsInt DEF FitsInt
<1>7. exit_time \in AnyTime
  BY <1>4, <1>5, <1>6, MsecAfterIsTime
<1>8. FitsInt => Usecs(exit_time) = Usecs(now) + run_timeout * USEC
  BY <1>1, <1>4, <1>5, <1>6, WholeSecondsExact
<1> QED
  BY <1>1, <1>4, <1>7, <1>8 DEF Init, TimeInv, TimesOK, ExitTimeIsRight, WaitsForExitTime

\* The loop keeps its times in order: only Prepare computes one (timeval_diff).
LEMMA StepTimeInv == ASSUME TimeInv, [Next]_vars PROVE TimeInv'
<1> USE DEF TimeInv, TimesOK, ExitTimeIsRight, WaitsForExitTime, TimedExit, FitsInt
<1>1. CASE Prepare
  <2>1. /\ timeval_diff(exit_time, now) \in Timeval
        /\ Usecs(timeval_diff(exit_time, now)) = Usecs(exit_time) - Usecs(now)
    BY TimevalDiffExact
  <2>2. Usecs(now) \in Int
    BY UsecsInt, InAnyTime
  <2>3. Usecs(now) <= Usecs(now)
    BY SMT, <2>2
  <2> QED
    BY <1>1, <2>1, <2>3 DEF Prepare, worldVars, exitVars
<1>2. CASE Tick
  <2>1. TickUsec \in Int /\ 1 <= TickUsec /\ TickUsec <= USEC
    <3>1. TickUsec \in 1..USEC
      BY DevicesAssumption DEF DevicesAssumption
    <3>2. USEC \in Int
      BY SMT, Million
    <3> QED
      BY SMT, <3>1, <3>2
  <2>2. now' \in Timeval /\ Usecs(now') = Usecs(now) + TickUsec
    BY <1>2, <2>1, TickExact DEF Tick
  <2>3. Usecs(now) \in Int /\ Usecs(waiting) \in Int
    BY UsecsInt, InAnyTime
  <2>4. Usecs(waiting) <= Usecs(now) => Usecs(waiting) <= Usecs(now')
    BY SMT, <2>1, <2>2, <2>3
  <2> QED
    BY <1>2, <2>2, <2>4 DEF Tick, exitVars
<1>3. CASE OpenInput
  BY <1>3 DEF OpenInput, worldVars, exitVars
<1>4. CASE OpenInotify
  BY <1>4 DEF OpenInotify, worldVars, exitVars
<1>5. CASE While
  BY <1>5 DEF While, worldVars, exitVars
<1>6. CASE SelectFails
  BY <1>6 DEF SelectFails, worldVars, exitVars
<1>7. CASE SelectTimesOut
  BY <1>7 DEF SelectTimesOut, worldVars, exitVars
<1>8. CASE HandleReady
  BY <1>8 DEF HandleReady, exitVars
<1>9. CASE Signal
  BY <1>9 DEF Signal, worldVars, exitVars
<1>10. ASSUME NEW d \in Devices, Plug(d) PROVE TimeInv'
  BY <1>10 DEF Plug, exitVars
<1>11. ASSUME NEW d \in Devices, Unplug(d) PROVE TimeInv'
  BY <1>11 DEF Unplug, exitVars
<1>12. CASE UNCHANGED vars
  BY <1>12 DEF vars, worldVars, exitVars
<1> QED
  BY <1>1, <1>2, <1>3, <1>4, <1>5, <1>6, <1>7, <1>8, <1>9, <1>10, <1>11, <1>12
     DEF Next, Loop, World, SelectReady, SelectKey

\* exit_time is --timeout after the start, if that fits an int, and select() waits until exit_time
\* (serve_loop).
THEOREM TimesAreRight == Spec => []TimeInv
  BY InitTimeInv, StepTimeInv, PTL DEF Spec

-----------------------------------------------------------------------------
\* A timeout that is refused has passed.
LEMMA RefusedIsPast ==
  ASSUME NEW tv \in Timeval, tv.tv_sec < 0 \/ tv.tv_usec < 0
  PROVE  Usecs(tv) < 0
<1> DEFINE s == tv.tv_sec
           u == tv.tv_usec
<1>1. s \in Int
  BY SMT, InTimeval
<1>2. u \in Int /\ 0 <= u /\ u < 1000000
  BY SMT, InTimeval, Million
<1>3. Usecs(tv) = s * 1000000 + u
  BY SMT, Million DEF Usecs
<1>4. s < 0 \/ u < 0
  OBVIOUS
<1> HIDE DEF s, u
<1> QED
  BY SMT, <1>1, <1>2, <1>3, <1>4

\* Whichever way select() ends the loop, exit_time has come.
LEMMA EndsAfterExitTime ==
  ASSUME TimeInv, FitsInt, TimedExit, pc = "select", Refused \/ TimeIsUp
  PROVE  Usecs(now) - Usecs(started) >= run_timeout * USEC
<1> USE DEF TimeInv, TimesOK
<1>1. /\ Usecs(exit_time) \in Int /\ Usecs(started) \in Int /\ Usecs(now) \in Int
      /\ Usecs(waiting) \in Int /\ Usecs(timeout) \in Int
  BY UsecsInt, InAnyTime
<1>2. /\ Usecs(exit_time) = Usecs(started) + run_timeout * USEC
      /\ Usecs(timeout) = Usecs(exit_time) - Usecs(waiting)
      /\ Usecs(waiting) <= Usecs(now)
  BY DEF ExitTimeIsRight, WaitsForExitTime
<1>3. Usecs(timeout) < 0 \/ Usecs(now) >= Usecs(waiting) + Usecs(timeout)
  BY RefusedIsPast DEF Refused, TimeIsUp
<1> DEFINE total == run_timeout * USEC
           n == Usecs(now)
           s == Usecs(started)
           e == Usecs(exit_time)
           w == Usecs(waiting)
           t == Usecs(timeout)
<1>4. run_timeout \in Int
  BY SMT
<1>5. total \in Int
  BY SMT, <1>4, Million
<1> HIDE DEF total, n, s, e, w, t
<1>6. n - s >= total
  <2>1. n \in Int /\ s \in Int /\ e \in Int /\ w \in Int /\ t \in Int
    BY <1>1 DEF n, s, e, w, t
  <2>2. e = s + total /\ t = e - w /\ w <= n /\ (t < 0 \/ n >= w + t)
    BY <1>2, <1>3 DEF total, n, s, e, w, t
  <2> QED
    BY SMT, <1>5, <2>1, <2>2
<1> QED
  BY <1>6 DEF n, s, total

\* serve_loop ends its waiting no earlier than --timeout after its start, unless the
\* product of --timeout and 1000 has overflowed (sdiol.c:153): neither by the timeout
\* itself nor by a select() that refuses it (serve_loop, timeval_diff).
THEOREM NeverEarlyCorrect == Spec => NeverEarly
<1>1. ASSUME TimeInv, [Next]_vars, FitsInt, pc = "select", pc' = "done"
      PROVE  Usecs(now) - Usecs(started) >= run_timeout * USEC
  <2>1. SelectFails \/ SelectTimesOut
    BY <1>1 DEF Next, Loop, World, OpenInput, OpenInotify, While, Prepare, SelectReady,
       SelectKey, HandleReady, Tick, Signal, Plug, Unplug, vars
  <2>2. TimedExit /\ (Refused \/ TimeIsUp)
    BY <2>1 DEF SelectFails, SelectTimesOut, Refused, TimeIsUp
  <2> QED
    BY <1>1, <2>2, EndsAfterExitTime
<1> QED
  BY <1>1, TimesAreRight, PTL DEF Spec, NeverEarly

-----------------------------------------------------------------------------
(* The keyboards                                                           *)

Keyboard == [dev : Devices, alive : BOOLEAN]

\* what a loop over the keyboards or over the IN_CREATE events keeps of them
KeyboardsOK(ks) ==
  /\ ks \in Seq(Keyboard) /\ Len(ks) <= MAX_KBS
  /\ \A i \in 1..Len(ks) : ks[i].dev \in Wanted /\ (ks[i].alive => ks[i].dev \in plugged)
  /\ \A i, j \in 1..Len(ks) :
       (i # j /\ ks[i].dev = ks[j].dev) => ~(ks[i].alive /\ ks[j].alive)

OpenState == {s \in [kbs : Seq(Keyboard), ignored : Nat] : KeyboardsOK(s.kbs)}

\* A sequence that has grown by one element.
LEMMA AppendParts ==
  ASSUME NEW S, NEW s \in Seq(S), NEW e \in S
  PROVE  /\ Append(s, e) \in Seq(S) /\ Len(Append(s, e)) = Len(s) + 1
         /\ \A i \in 1..Len(s) : Append(s, e)[i] = s[i]
         /\ Append(s, e)[Len(s) + 1] = e
         /\ Len(s) \in Nat
         /\ \A i \in 1..(Len(s) + 1) : i \in 1..Len(s) \/ i = Len(s) + 1
  OBVIOUS

\* A device that is grabbed already, or for which there is no room, is not added.
LEMMA OpenOneOK ==
  ASSUME NEW s \in OpenState, NEW d \in Devices
  PROVE  open_input(s, d) \in OpenState
<1> DEFINE ks  == s.kbs
           new == [dev |-> d, alive |-> TRUE]
           more == Append(ks, new)
<1>1. s = [kbs |-> ks, ignored |-> s.ignored] /\ s.ignored \in Nat /\ KeyboardsOK(ks)
  BY DEF OpenState
<1>2. CASE HasRoom(ks) /\ HasDescriptor(s) /\ d \in plugged /\ d \in Wanted /\ ~Busy(ks, d)
  <2>1. new \in Keyboard /\ new.dev = d /\ new.alive = TRUE
    BY DEF Keyboard
  <2>2. ks \in Seq(Keyboard) /\ DOMAIN ks = 1..Len(ks) /\ Len(ks) \in Nat
    BY <1>1 DEF KeyboardsOK
  <2> HIDE DEF ks, new
  <2>3. /\ more \in Seq(Keyboard) /\ Len(more) = Len(ks) + 1
        /\ \A i \in 1..Len(ks) : more[i] = ks[i]
        /\ more[Len(ks) + 1] = new
        /\ \A i \in 1..(Len(ks) + 1) : i \in 1..Len(ks) \/ i = Len(ks) + 1
    BY <2>1, <2>2, AppendParts
  <2> HIDE DEF more
  <2>4. \A i \in 1..Len(ks) : ks[i].dev = d => ~ks[i].alive
    BY <1>2, <2>2 DEF Busy, Grabbed
  <2>5. Len(more) <= MAX_KBS
    BY <1>2, <2>2, <2>3, DevicesAssumption DEF HasRoom
  <2>6. ASSUME NEW i \in 1..Len(more)
        PROVE  more[i].dev \in Wanted /\ (more[i].alive => more[i].dev \in plugged)
    <3>1. CASE i \in 1..Len(ks)
      BY <1>1, <2>3, <3>1 DEF KeyboardsOK
    <3>2. CASE i = Len(ks) + 1
      BY <1>2, <2>1, <2>3, <3>2
    <3> QED
      BY <2>3, <3>1, <3>2
  <2>7. ASSUME NEW i \in 1..Len(more), NEW j \in 1..Len(more), i # j, more[i].dev = more[j].dev
        PROVE  ~(more[i].alive /\ more[j].alive)
    <3>1. CASE i \in 1..Len(ks) /\ j \in 1..Len(ks)
      BY <1>1, <2>3, <2>7, <3>1 DEF KeyboardsOK
    <3>2. CASE i \in 1..Len(ks) /\ j = Len(ks) + 1
      BY <2>1, <2>3, <2>4, <2>7, <3>2
    <3>3. CASE j \in 1..Len(ks) /\ i = Len(ks) + 1
      BY <2>1, <2>3, <2>4, <2>7, <3>3
    <3> QED
      BY <2>3, <2>7, <3>1, <3>2, <3>3
  <2>8. KeyboardsOK(more)
    BY <2>3, <2>5, <2>6, <2>7 DEF KeyboardsOK
  <2>9. open_input(s, d) = [kbs |-> more, ignored |-> s.ignored]
    <3>1. open_input(s, d) = [s EXCEPT !.kbs = Append(@, new)]
      BY <1>2 DEF open_input, ks, new
    <3>2. [s EXCEPT !.kbs = Append(@, new)] = [kbs |-> Append(ks, new), ignored |-> s.ignored]
      BY <1>1 DEF ks
    <3> QED
      BY <3>1, <3>2 DEF more
  <2> QED
    BY <1>1, <2>3, <2>8, <2>9 DEF OpenState
<1>3. CASE HasRoom(ks) /\ HasDescriptor(s) /\ d \in plugged /\ d \notin Wanted
  <2>1. open_input(s, d) = [s EXCEPT !.ignored = @ + 1]
    BY <1>3 DEF open_input
  <2>2. [s EXCEPT !.ignored = @ + 1] = [kbs |-> ks, ignored |-> s.ignored + 1]
    BY <1>1
  <2>3. s.ignored + 1 \in Nat /\ ks \in Seq(Keyboard)
    BY <1>1 DEF KeyboardsOK
  <2> QED
    BY <1>1, <2>1, <2>2, <2>3 DEF OpenState
<1>4. CASE ~HasRoom(ks) \/ ~HasDescriptor(s) \/ d \notin plugged \/ (d \in Wanted /\ Busy(ks, d))
  BY <1>4 DEF open_input
<1> QED
  BY <1>2, <1>3, <1>4

\* open_inputs() and handle_inotify_events(): each of the devices in turn
LEMMA OpenAllOK ==
  ASSUME NEW ks, KeyboardsOK(ks), ignored \in Nat, NEW ds \in Seq(Devices)
  PROVE  OpenedAll(ks, ds) \in OpenState
<1> DEFINE n == Len(ds)
           first == [kbs |-> ks, ignored |-> ignored]
           step == [i \in 1..n |-> [s \in OpenState |-> open_input(s, ds[i])]]
           Is(f) == f = [i \in 0..n |-> IF i = 0 THEN first ELSE open_input(f[i - 1], ds[i])]
           after == CHOOSE f : Is(f)
<1>1. n \in Nat /\ \A i \in 1..n : ds[i] \in Devices /\ i # 0 /\ i - 1 \in 0..n
  OBVIOUS
<1>2. first \in OpenState
  BY DEF OpenState, KeyboardsOK
<1>3. step \in [1..n -> [OpenState -> OpenState]]
  <2> HIDE DEF n
  <2> QED
    BY <1>1, OpenOneOK
<1>4. \E f \in [0..n -> OpenState] :
        f[0] = first /\ \A i \in 1..n : f[i] = step[i][f[i - 1]]
  <2> DEFINE T == OpenState
  <2>1. n \in Nat /\ first \in T /\ step \in [1..n -> [T -> T]]
    BY <1>1, <1>2, <1>3
  <2> HIDE DEF step, T, n, first
  <2>2. \E f \in [0..n -> T] : IsRun(f, first, n, step)
    BY ONLY <2>1, LoopRuns
  <2> QED
    BY <2>2 DEF IsRun, T
<1>5. PICK f \in [0..n -> OpenState] :
        f[0] = first /\ \A i \in 1..n : f[i] = step[i][f[i - 1]]
  BY <1>4
<1> HIDE DEF n, first
<1>6. ASSUME NEW i \in 0..n
      PROVE  f[i] = IF i = 0 THEN first ELSE open_input(f[i - 1], ds[i])
  <2>1. CASE i = 0
    BY <1>5, <2>1
  <2>2. CASE i # 0
    <3>1. i \in 1..n
      BY <1>1, <2>2
    <3>2. f[i - 1] \in OpenState
      BY <1>1, <1>5, <3>1
    <3>3. step[i][f[i - 1]] = open_input(f[i - 1], ds[i])
      BY <3>1, <3>2
    <3> HIDE DEF step
    <3> QED
      BY <1>5, <2>2, <3>1, <3>3
  <2> QED
    BY <2>1, <2>2
<1>7. Is(f)
  BY <1>5, <1>6
<1>8. Is(after)
  <2> HIDE DEF Is
  <2> QED
    BY <1>7
<1>9. OpenedAll(ks, ds) = after[n]
  BY DEF OpenedAll, n, first
<1> HIDE DEF after
<1>10. after[0] = first /\ \A i \in 1..n : after[i] = open_input(after[i - 1], ds[i])
  <2>1. 0 \in 0..n /\ \A i \in 1..n : i \in 0..n /\ i # 0
    BY <1>1
  <2> QED
    BY <1>8, <2>1
<1> DEFINE P == {i \in 0..n : after[i] \in OpenState}
<1>11. 0 \in P
  BY <1>1, <1>2, <1>10
<1>12. ASSUME NEW i \in 1..n, i - 1 \in P
       PROVE  i \in P
  BY <1>1, <1>10, <1>12, OpenOneOK
<1>13. n \in P
  <2> HIDE DEF P
  <2>1. \A i \in 0..n : i \in P
    BY <1>1, <1>11, <1>12, UpTo
  <2> QED
    BY <1>1, <2>1
<1> QED
  BY <1>9, <1>13

\* Removing entries leaves what is left as it was.
LEMMA RemainingOK ==
  ASSUME NEW ks, KeyboardsOK(ks)
  PROVE  KeyboardsOK(Remaining(ks))
<1> DEFINE n == Len(ks)
           Turn(t, i) == IF ks[i].alive THEN Append(t, ks[i]) ELSE t
           step == [i \in 1..n |-> [t \in Seq(Keyboard) |-> Turn(t, i)]]
           Is(f) == f = [i \in 0..n |-> IF i = 0 THEN <<>> ELSE Turn(f[i - 1], i)]
           after == CHOOSE f : Is(f)
<1>1. /\ ks \in Seq(Keyboard) /\ n \in Nat /\ n <= MAX_KBS
      /\ \A i \in 1..n : ks[i] \in Keyboard /\ i # 0 /\ i - 1 \in 0..n
  BY DEF KeyboardsOK
<1>2. \A i \in 1..n, t \in Seq(Keyboard) : Turn(t, i) \in Seq(Keyboard)
  BY <1>1
<1>3. step \in [1..n -> [Seq(Keyboard) -> Seq(Keyboard)]]
  <2> HIDE DEF n, Turn
  <2> QED
    BY <1>2
<1>4. \E f \in [0..n -> Seq(Keyboard)] :
        f[0] = <<>> /\ \A i \in 1..n : f[i] = step[i][f[i - 1]]
  <2> DEFINE T == Seq(Keyboard)
             first == <<>>
  <2>1. n \in Nat /\ first \in T /\ step \in [1..n -> [T -> T]]
    BY <1>1, <1>3
  <2> HIDE DEF step, T, n, first
  <2>2. \E f \in [0..n -> T] : IsRun(f, first, n, step)
    BY ONLY <2>1, LoopRuns
  <2> QED
    BY <2>2 DEF IsRun, T, first
<1>5. PICK f \in [0..n -> Seq(Keyboard)] :
        f[0] = <<>> /\ \A i \in 1..n : f[i] = step[i][f[i - 1]]
  BY <1>4
<1> HIDE DEF n, Turn
<1>6. ASSUME NEW i \in 0..n
      PROVE  f[i] = IF i = 0 THEN <<>> ELSE Turn(f[i - 1], i)
  <2>1. CASE i = 0
    BY <1>5, <2>1
  <2>2. CASE i # 0
    <3>1. i \in 1..n
      BY <1>1, <2>2
    <3>2. f[i - 1] \in Seq(Keyboard)
      BY <1>1, <1>5, <3>1
    <3>3. step[i][f[i - 1]] = Turn(f[i - 1], i)
      BY <3>1, <3>2
    <3> HIDE DEF step
    <3> QED
      BY <1>5, <2>2, <3>1, <3>3
  <2> QED
    BY <2>1, <2>2
<1>7. Is(f)
  BY <1>5, <1>6
<1>8. Is(after)
  <2> HIDE DEF Is
  <2> QED
    BY <1>7
<1>9. Remaining(ks) = after[n]
  BY DEF Remaining, n, Turn
<1> HIDE DEF after
<1>10. after[0] = <<>> /\ \A i \in 1..n : after[i] = Turn(after[i - 1], i)
  <2>1. 0 \in 0..n /\ \A i \in 1..n : i \in 0..n /\ i # 0
    BY <1>1
  <2> QED
    BY <1>8, <2>1
\* the entries kept are among the first i of ks, each of another device
<1> DEFINE Kept(t, i) ==
             /\ t \in Seq(Keyboard) /\ Len(t) <= i
             /\ \A j \in 1..Len(t) : t[j].alive /\ \E m \in 1..i : t[j] = ks[m]
             /\ \A j, m \in 1..Len(t) : j # m => t[j].dev # t[m].dev
           P == {i \in 0..n : Kept(after[i], i)}
<1>11. 0 \in P
  <2>1. Kept(<<>>, 0)
    OBVIOUS
  <2> HIDE DEF Kept
  <2> QED
    BY <1>1, <1>10, <2>1
<1>12. ASSUME NEW i \in 1..n, i - 1 \in P
       PROVE  i \in P
  <2> DEFINE t == after[i - 1]
             u == Append(t, ks[i])
  <2>1. Kept(t, i - 1) /\ i \in 0..n
    BY <1>1, <1>12
  <2>2. \A m \in 1..(i - 1) : m \in 1..i /\ m \in 1..n /\ m # i
    BY <1>1
  <2>3. CASE ~ks[i].alive
    <3>1. after[i] = t
      BY <1>10, <2>3 DEF Turn
    <3> HIDE DEF t
    <3>2. Kept(t, i)
      BY <1>1, <2>1, <2>2
    <3> QED
      BY <2>1, <3>1, <3>2
  <2>4. CASE ks[i].alive
    <3>1. after[i] = u
      BY <1>10, <2>4 DEF Turn
    <3> HIDE DEF t
    <3>2. /\ u \in Seq(Keyboard) /\ Len(u) = Len(t) + 1 /\ Len(t) \in Nat
          /\ \A j \in 1..Len(t) : u[j] = t[j]
          /\ u[Len(t) + 1] = ks[i]
          /\ \A j \in 1..(Len(t) + 1) : j \in 1..Len(t) \/ j = Len(t) + 1
      BY <1>1, <2>1, AppendParts
    <3> HIDE DEF u
    <3>3. \A j \in 1..Len(t) : t[j].dev # ks[i].dev
      <4> SUFFICES ASSUME NEW j \in 1..Len(t), t[j].dev = ks[i].dev PROVE FALSE
        OBVIOUS
      <4>1. PICK m \in 1..(i - 1) : t[j] = ks[m]
        BY <2>1
      <4>2. t[j].alive
        BY <2>1
      <4> QED
        BY <2>2, <2>4, <4>1, <4>2 DEF KeyboardsOK, n
    <3>4. Len(u) <= i
      BY <1>1, <2>1, <3>2
    <3>5. ASSUME NEW j \in 1..Len(u)
          PROVE  u[j].alive /\ \E m \in 1..i : u[j] = ks[m]
      <4>1. CASE j \in 1..Len(t)
        BY <2>1, <2>2, <3>2, <4>1
      <4>2. CASE j = Len(t) + 1
        BY <1>1, <2>4, <3>2, <4>2
      <4> QED
        BY <3>2, <4>1, <4>2
    <3>6. ASSUME NEW j \in 1..Len(u), NEW m \in 1..Len(u), j # m
          PROVE  u[j].dev # u[m].dev
      <4>1. CASE j \in 1..Len(t) /\ m \in 1..Len(t)
        BY <2>1, <3>2, <3>6, <4>1
      <4>2. CASE j \in 1..Len(t) /\ m = Len(t) + 1
        BY <3>2, <3>3, <4>2
      <4>3. CASE m \in 1..Len(t) /\ j = Len(t) + 1
        BY <3>2, <3>3, <4>3
      <4> QED
        BY <3>2, <3>6, <4>1, <4>2, <4>3
    <3>7. Kept(u, i)
      BY <3>2, <3>4, <3>5, <3>6
    <3> QED
      BY <2>1, <3>1, <3>7
  <2> QED
    BY <2>3, <2>4
<1>13. n \in P
  <2> HIDE DEF P
  <2>1. \A i \in 0..n : i \in P
    BY <1>1, <1>11, <1>12, UpTo
  <2> QED
    BY <1>1, <2>1
<1> DEFINE left == after[n]
<1>14. Kept(left, n)
  BY <1>13
<1> HIDE DEF left
<1>15. \A j \in 1..Len(left) : \E m \in 1..n : left[j] = ks[m]
  BY <1>14
<1>16. \A j \in 1..Len(left) : left[j].dev \in Wanted /\ (left[j].alive => left[j].dev \in plugged)
  BY <1>15 DEF KeyboardsOK, n
<1>17. Len(left) <= MAX_KBS
  <2>1. Len(left) \in Nat /\ Len(left) <= n
    BY <1>14
  <2> QED
    BY <1>1, <2>1, DevicesAssumption
<1>18. KeyboardsOK(left)
  BY <1>14, <1>16, <1>17 DEF KeyboardsOK
<1> QED
  BY <1>9, <1>18 DEF left

-----------------------------------------------------------------------------
\* GrabbedOnce in the form that the lemmas about the lists of keyboards use.
LEMMA TypeIsOK ==
  ASSUME TypeOK
  PROVE  GrabbedOnce <=> KeyboardsOK(kbs)
<1>1. kbs \in Seq(Keyboard) /\ DOMAIN kbs = 1..Len(kbs) /\ Len(kbs) <= MAX_KBS
  BY DEF TypeOK, Keyboard
<1> QED
  BY <1>1 DEF GrabbedOnce, KeyboardsOK

KeyboardsInv == TypeOK /\ KeyboardsOK(kbs)

\* main() opens what it finds in /dev/input into an empty list (Init).
LEMMA InitKeyboardsInv == ASSUME Init, TimeInv PROVE KeyboardsInv
<1>1. <<>> \in Seq(Keyboard) /\ <<>> \in Seq(Devices) /\ Len(<<>>) = 0 /\ 0 <= MAX_KBS /\ 0 \in Nat
      /\ 0 \in 0..MaxPlugs
  BY DevicesAssumption
<1>2. TypeOK
  BY <1>1 DEF Init, TypeOK, TimeInv, TimesOK, AnyTime, Keyboard
<1>3. KeyboardsOK(kbs)
  BY <1>1 DEF Init, KeyboardsOK
<1> QED
  BY <1>2, <1>3 DEF KeyboardsInv

\* Hotplugs, reads, refusals and lost keyboards keep the list one of distinct devices.
LEMMA StepKeyboardsInv ==
  ASSUME KeyboardsInv, TimeInv, TimeInv', [Next]_vars
  PROVE  KeyboardsInv'
<1> USE DEF KeyboardsInv
<1>1. /\ run_timeout' = run_timeout /\ {started, timeout, waiting, now}' \subseteq Timeval
      /\ exit_time' \in [tv_sec : Int, tv_usec : Int]
  <2>1. run_timeout' = run_timeout
    BY DEF Next, Loop, World, OpenInput, OpenInotify, While, Prepare, SelectFails, SelectTimesOut,
           SelectReady, SelectKey, HandleReady, Tick, Signal, Plug, Unplug, vars, worldVars,
           exitVars
  <2> QED
    BY <2>1 DEF TimeInv, TimesOK, AnyTime
<1>2. CASE OpenInput
  <2>1. CASE pc' = "open_inotify" /\ UNCHANGED <<kbs, ignored, listed>>
    <3>1. UNCHANGED <<worldVars, watching, timeout, waiting, keep_going, retval>>
      BY <1>2 DEF OpenInput
    <3>2. TypeOK'
      BY <1>1, <2>1, <3>1 DEF TypeOK, worldVars, exitVars
    <3>3. KeyboardsOK(kbs)'
      BY <2>1, <3>1 DEF KeyboardsOK, worldVars
    <3> QED
      BY <3>2, <3>3
  <2>2. CASE \E d \in listed :
               LET after == OpenedAll(kbs, <<d>>) IN
               /\ kbs' = after.kbs /\ ignored' = after.ignored
               /\ listed' = listed \ {d} /\ UNCHANGED pc
    <3>1. PICK d \in listed :
            /\ kbs' = OpenedAll(kbs, <<d>>).kbs /\ ignored' = OpenedAll(kbs, <<d>>).ignored
            /\ listed' = listed \ {d} /\ UNCHANGED pc
      BY <2>2
    <3>2. OpenedAll(kbs, <<d>>) \in OpenState
      <4>1. <<d>> \in Seq(Devices) /\ ignored \in Nat
        BY DEF TypeOK
      <4> QED
        BY <4>1, OpenAllOK
    <3>3. kbs' \in Seq(Keyboard) /\ ignored' \in Nat /\ KeyboardsOK(kbs')
      BY <3>1, <3>2 DEF OpenState
    <3>4. UNCHANGED <<worldVars, watching, timeout, waiting, keep_going, retval>>
      BY <1>2 DEF OpenInput
    <3>5. TypeOK'
      BY <1>1, <3>1, <3>3, <3>4 DEF TypeOK, worldVars, exitVars, KeyboardsOK, Keyboard
    <3>6. KeyboardsOK(kbs)'
      BY <3>3, <3>4 DEF KeyboardsOK, worldVars
    <3> QED
      BY <3>5, <3>6
  <2> QED
    BY <1>2, <2>1, <2>2 DEF OpenInput
<1>3. CASE HandleReady
  <2> DEFINE there == Remaining(kbs)
  <2>1. OpenedAll(there, inotify) \in OpenState
    <3>1. KeyboardsOK(there) /\ ignored \in Nat /\ inotify \in Seq(Devices)
      BY RemainingOK DEF TypeOK
    <3> HIDE DEF there
    <3> QED
      BY <3>1, OpenAllOK
  <2>2. /\ kbs' = OpenedAll(there, inotify).kbs /\ ignored' = OpenedAll(there, inotify).ignored
        /\ inotify' = <<>> /\ pc' = "while"
        /\ UNCHANGED <<plugged, plugs, now, exitVars, listed, watching, timeout, waiting,
                       keep_going, retval>>
    BY <1>3 DEF HandleReady
  <2> HIDE DEF there
  <2>3. kbs' \in Seq(Keyboard) /\ ignored' \in Nat /\ KeyboardsOK(kbs')
    BY <2>1, <2>2 DEF OpenState
  <2>4. <<>> \in Seq(Devices)
    OBVIOUS
  <2>5. TypeOK'
    BY <1>1, <2>2, <2>3, <2>4 DEF TypeOK, exitVars, KeyboardsOK, Keyboard
  <2>6. KeyboardsOK(kbs)'
    BY <2>2, <2>3 DEF KeyboardsOK
  <2> QED
    BY <2>5, <2>6
<1>4. ASSUME NEW d \in Devices, Plug(d) PROVE KeyboardsInv'
  <2>1. /\ plugged' = plugged \cup {d} /\ plugs' = plugs + 1 /\ plugs < MaxPlugs
        /\ inotify' \in {inotify, Append(inotify, d)} /\ listed' \in {listed, listed \cup {d}}
        /\ UNCHANGED <<watching, kbs, ignored, pc, keep_going, retval>>
    BY <1>4 DEF Plug
  <2>2. Append(inotify, d) \in Seq(Devices) /\ plugs' \in 0..MaxPlugs
    BY <2>1, DevicesAssumption DEF TypeOK
  <2>3. TypeOK'
    BY <1>1, <2>1, <2>2 DEF TypeOK
  <2>4. KeyboardsOK(kbs)'
    BY <2>1 DEF KeyboardsOK
  <2> QED
    BY <2>3, <2>4
<1>5. ASSUME NEW d \in Devices, Unplug(d) PROVE KeyboardsInv'
  <2>1. /\ plugged' = plugged \ {d}
        /\ kbs' = [i \in DOMAIN kbs |-> IF kbs[i].dev = d THEN [kbs[i] EXCEPT !.alive = FALSE]
                                        ELSE kbs[i]]
        /\ UNCHANGED <<plugs, inotify, listed, watching, ignored, pc, keep_going, retval>>
    BY <1>5 DEF Unplug
  <2>2. kbs \in Seq(Keyboard) /\ DOMAIN kbs = 1..Len(kbs) /\ Len(kbs) \in Nat
        /\ \A i \in 1..Len(kbs) : kbs[i] \in Keyboard
    BY DEF KeyboardsOK
  <2>3. ASSUME NEW i \in 1..Len(kbs)
        PROVE  /\ kbs'[i] \in Keyboard /\ kbs'[i].dev = kbs[i].dev
               /\ kbs'[i].alive => kbs[i].alive /\ kbs[i].dev # d
    <3>1. kbs'[i] = IF kbs[i].dev = d THEN [kbs[i] EXCEPT !.alive = FALSE] ELSE kbs[i]
      BY <2>1, <2>2
    <3> DEFINE k == kbs[i]
    <3>2. k \in Keyboard
      BY <2>2
    <3> HIDE DEF k
    <3>3. /\ [k EXCEPT !.alive = FALSE] \in Keyboard
          /\ [k EXCEPT !.alive = FALSE].dev = k.dev /\ [k EXCEPT !.alive = FALSE].alive = FALSE
      BY <3>2 DEF Keyboard
    <3> QED
      BY <3>1, <3>2, <3>3 DEF k
  <2>4. kbs' \in Seq(Keyboard) /\ Len(kbs') = Len(kbs)
    <3>1. kbs' = [i \in 1..Len(kbs) |-> kbs'[i]]
      BY <2>1, <2>2
    <3>2. kbs' \in [1..Len(kbs) -> Keyboard]
      BY <2>3, <3>1
    <3> QED
      BY <2>2, <3>2
  <2>5. KeyboardsOK(kbs')
    BY <2>1, <2>3, <2>4 DEF KeyboardsOK
  <2>6. KeyboardsOK(kbs)'
    BY <2>1, <2>3, <2>4 DEF KeyboardsOK
  <2>7. TypeOK'
    BY <1>1, <2>1, <2>4, <2>6 DEF TypeOK, KeyboardsOK, Keyboard
  <2> QED
    BY <2>6, <2>7
<1>6. CASE OpenInotify \/ While \/ Prepare \/ SelectFails \/ SelectTimesOut \/ Tick \/ Signal
           \/ UNCHANGED vars
  <2>1. /\ UNCHANGED <<plugged, plugs, listed, inotify, kbs, ignored>>
        /\ pc' \in {"open_inputs", "open_inotify", "while", "prepare", "select", "done"}
        /\ watching' \in BOOLEAN /\ keep_going' \in BOOLEAN /\ retval' \in {0, 1}
    BY <1>6 DEF OpenInotify, While, Prepare, SelectFails, SelectTimesOut, Tick, Signal, vars,
                worldVars, exitVars, TypeOK
  <2>2. TypeOK'
    BY <1>1, <2>1 DEF TypeOK
  <2>3. KeyboardsOK(kbs)'
    BY <2>1 DEF KeyboardsOK
  <2> QED
    BY <2>2, <2>3
<1> QED
  BY <1>2, <1>3, <1>4, <1>5, <1>6 DEF Next, Loop, World, SelectReady, SelectKey

\* The open keyboards are distinct devices in every state.
LEMMA KeyboardsInvariant == Spec => []KeyboardsInv
<1>1. Init /\ TimeInv => KeyboardsInv
  BY InitKeyboardsInv
<1>2. KeyboardsInv /\ TimeInv /\ TimeInv' /\ [Next]_vars => KeyboardsInv'
  BY StepKeyboardsInv
<1> QED
  BY <1>1, <1>2, TimesAreRight, PTL DEF Spec

\* However devices come and go, and whenever: kbs is not overrun (open_inputs,
\* handle_inotify_events), and all of the loop's state is what it is declared to be.
THEOREM DevicesTypeCorrect == Spec => []TypeOK
<1>1. Spec => []KeyboardsInv
  BY KeyboardsInvariant
<1>2. KeyboardsInv => TypeOK
  BY DEF KeyboardsInv
<1> QED
  BY <1>1, <1>2, PTL

\* No keyboard is grabbed twice and none that is ignored is grabbed, for any number of
\* devices and any length of kbs: a device that is announced while its entry is still in
\* kbs is refused by the kernel, and one that has gone leaves its entry stale
\* (open_input, serve_loop).
THEOREM GrabbedOnceCorrect == Spec => []GrabbedOnce
<1>1. KeyboardsInv => GrabbedOnce
  BY TypeIsOK DEF KeyboardsInv
<1> QED
  BY <1>1, KeyboardsInvariant, PTL

=============================================================================
