------------------------------ MODULE TimeUtil ------------------------------
(***************************************************************************)
(* The arithmetic of struct timeval (time_util.c), in seconds and          *)
(* microseconds.  Division and remainder are those of C, which round       *)
(* towards zero.                                                           *)
(***************************************************************************)
EXTENDS Integers

USEC == 1000000

\* the values that clock_gettime() gives
Timeval == [tv_sec : Int, tv_usec : 0..(USEC - 1)]

\* the time a value stands for
Usecs(tv) == tv.tv_sec * USEC + tv.tv_usec

CDiv(a, b) == IF a >= 0 THEN a \div b ELSE -((-a) \div b)
CMod(a, b) == a - b * CDiv(a, b)

\* a - b, each cut to its milliseconds
msec_diff(a, b) ==
  CDiv(a.tv_usec, 1000) - CDiv(b.tv_usec, 1000) + (a.tv_sec - b.tv_sec) * 1000

\* variant: the microseconds are not brought back into their range
timeval_diff_as_is(a, b) ==
  LET usec_diff == a.tv_usec - b.tv_usec
      usec_mod  == CMod(usec_diff, USEC)
  IN [tv_sec  |-> a.tv_sec - b.tv_sec + CDiv(usec_diff - usec_mod, USEC),
      tv_usec |-> usec_mod]

\* a - b
timeval_diff(a, b) ==
  LET usec_diff == a.tv_usec - b.tv_usec
      rem       == CMod(usec_diff, USEC)
      usec_mod  == IF rem < 0 THEN rem + USEC ELSE rem
  IN [tv_sec  |-> a.tv_sec - b.tv_sec + CDiv(usec_diff - usec_mod, USEC),
      tv_usec |-> usec_mod]

\* tv + millis; "handle msec overflow" asks for more than a thousand
msec_after(tv, millis) ==
  LET msec == CMod(millis, 1000) + CDiv(tv.tv_usec, 1000) IN
  [tv_sec  |-> tv.tv_sec + CDiv(millis, 1000) + (IF msec > 1000 THEN 1 ELSE 0),
   tv_usec |-> CMod(tv.tv_usec, 1000) + CMod(msec, 1000) * 1000]

=============================================================================
