------------------------- MODULE RemoteReaderProofs -------------------------
(***************************************************************************)
(* Theorems about a server and its readers, for any number of keys and     *)
(* connections and any size of lines and buffers: one client is open at a  *)
(* time, and its device shows the keys that are down on the server's side, *)
(* once it has read what is under way.  They implement KeyStream: bytes    *)
(* that are cut, buffered and handed over amount to whole events, each     *)
(* given once and in order to one reader at a time.                        *)
(***************************************************************************)
EXTENDS RemoteReader, FoldLemmas, SequenceTheorems

-----------------------------------------------------------------------------
(* The inductive invariant                                                 *)

\* without a client nothing waits for one
NoClientNoEvents ==
  ~HasClients(server) => server.active_client = 0 /\ server.for_client = <<>>

Waiting(c) == \E i \in 1..Len(backlog) : backlog[i] = c

\* who has not been accepted yet has been written nothing
NewcomersAreNew ==
  /\ \A i, j \in 1..Len(backlog) : backlog[i] = backlog[j] => i = j
  /\ \A c \in Conns :
       /\ peer[c] = "none" => ~Waiting(c)
       /\ (peer[c] = "none" \/ Waiting(c)) =>
            c \notin server.open /\ wire[c] = <<>> /\ buffer[c] = <<>> /\ device[c] = {}

\* y is the byte after x: of the same line, or the first of another
Follows(x, y) ==
  \/ IsNewline(x) /\ y.part = 1
  \/ ~IsNewline(x) /\ y.part = x.part + 1 /\ y.ev = x.ev

\* b begins with a line, and goes on in lines
InLines(b) ==
  /\ b # <<>> => b[1].part = 1
  /\ \A i \in 1..(Len(b) - 1) : Follows(b[i], b[i + 1])

\* and ends with one
WholeLines(b) == InLines(b) /\ (b # <<>> => IsNewline(b[Len(b)]))

\* what is written and not parsed is lines, however it is cut
StreamsAreLines ==
  /\ WholeLines(server.for_client)
  /\ \A c \in Conns : WholeLines(buffer[c] \o wire[c]) /\ Len(buffer[c]) < LineLen

\* the events that wait in the buffer say of their keys what a newcomer needs to know
BufferInSync ==
  \A k \in Keys \ unseen :
    (\E i \in 1..Len(server.for_client) : server.for_client[i].ev.code = k) =>
      (k \in DeviceAfter({}, server.for_client) <=> k \in sink)

ReaderInv ==
  /\ TypeOK /\ OneClientOpen /\ NoClientNoEvents
  /\ NewcomersAreNew /\ StreamsAreLines
  /\ BufferInSync /\ InSync

-----------------------------------------------------------------------------
(* Lines                                                                   *)

\* A line has a first byte, a newline, and no more of them than a number says.
LEMMA LineLenIsNat == LineLen \in Nat /\ LineLen >= 2
  BY ServerAssumption

\* What the model keeps of a byte: the event it is of, and its place in the line.
LEMMA ByteFields ==
  ASSUME NEW x \in Bytes
  PROVE  /\ x.part \in 1..LineLen /\ x.part \in Nat
         /\ x.ev \in KeyEvents /\ x.ev.code \in Keys /\ x.ev.press \in BOOLEAN
         /\ x = [ev |-> x.ev, part |-> x.part]
  BY LineLenIsNat DEF Bytes, KeyEvents

\* The bytes of a line, one after the other (kbd_send_event).
LEMMA LineFields ==
  ASSUME NEW ev \in KeyEvents
  PROVE  /\ Line(ev) \in Seq(Bytes) /\ Len(Line(ev)) = LineLen
         /\ \A j \in 1..LineLen : Line(ev)[j] = [ev |-> ev, part |-> j]
  BY LineLenIsNat DEF Line, Bytes

\* Sequences that have the same elements are equal.
LEMMA SeqsEqual ==
  ASSUME NEW S, NEW s \in Seq(S), NEW t \in Seq(S), Len(s) = Len(t),
         \A i \in 1..Len(s) : s[i] = t[i]
  PROVE  s = t
  OBVIOUS

\* The elements of two sequences in a row.
LEMMA ConcatParts ==
  ASSUME NEW S, NEW s \in Seq(S), NEW t \in Seq(S)
  PROVE  /\ s \o t \in Seq(S) /\ Len(s \o t) = Len(s) + Len(t)
         /\ \A i \in 1..Len(s) : (s \o t)[i] = s[i]
         /\ \A i \in 1..Len(t) : (s \o t)[Len(s) + i] = t[i]
  OBVIOUS

\* Every byte has its line before it, from the beginning.
LEMMA LineBehind ==
  ASSUME NEW b \in Seq(Bytes), InLines(b), NEW i \in 1..Len(b)
  PROVE  /\ b[i].part <= i
         /\ \A j \in 1..b[i].part : b[i - b[i].part + j] = [ev |-> b[i].ev, part |-> j]
<1> DEFINE Claim(n) == /\ b[n].part <= n
                       /\ \A j \in 1..b[n].part :
                            b[n - b[n].part + j] = [ev |-> b[n].ev, part |-> j]
           P == {n \in 0..Len(b) : n = 0 \/ Claim(n)}
<1>1. 0 \in P
  OBVIOUS
<1>2. ASSUME NEW n \in 1..Len(b), n - 1 \in P
      PROVE  n \in P
  <2>1. PICK p \in Nat : p = b[n].part
    BY ByteFields
  <2>2. b[n] \in Bytes /\ b[n] = [ev |-> b[n].ev, part |-> p]
    BY <2>1, ByteFields
  <2>3. CASE p = 1
    <3>1. p <= n /\ \A j \in 1..p : n - p + j = n /\ j = p
      BY <2>3
    <3>2. Claim(n)
      BY <2>1, <2>2, <3>1
    <3> QED
      BY <3>2
  <2>4. CASE p # 1
    <3>1. n - 1 \in 1..Len(b) /\ n - 1 \in 1..(Len(b) - 1) /\ (n - 1) + 1 = n
      BY <2>1, <2>4 DEF InLines
    <3>2. PICK q \in Nat : q = b[n - 1].part
      BY <3>1, ByteFields
    <3>3. p = q + 1 /\ b[n].ev = b[n - 1].ev
      <4>1. Follows(b[n - 1], b[n])
        BY <3>1 DEF InLines
      <4> QED
        BY <2>1, <2>4, <3>2, <4>1 DEF Follows
    <3>4. q <= n - 1 /\ \A j \in 1..q : b[n - 1 - q + j] = [ev |-> b[n].ev, part |-> j]
      <4>1. Claim(n - 1)
        <5> HIDE DEF Claim
        <5> QED
          BY <1>2, <3>1
      <4> QED
        BY <3>2, <3>3, <4>1
    <3>5. p <= n /\ \A j \in 1..p : \/ j \in 1..q /\ n - p + j = n - 1 - q + j
                                    \/ j = p /\ n - p + j = n
      BY <3>3, <3>4
    <3>6. \A j \in 1..p : b[n - p + j] = [ev |-> b[n].ev, part |-> j]
      BY <2>2, <3>4, <3>5
    <3>7. Claim(n)
      BY <2>1, <3>5, <3>6
    <3> QED
      BY <3>7
  <2> QED
    BY <2>3, <2>4
<1>3. i \in P
  <2> HIDE DEF P
  <2>1. \A n \in 0..Len(b) : n \in P
    <3>1. Len(b) \in Nat
      OBVIOUS
    <3> QED
      BY <1>1, <1>2, <3>1, UpTo
  <2> QED
    BY <2>1
<1> QED
  BY <1>3

\* sscanf() finds an event at every newline (main_read).
LEMMA EventsAreAtNewlines ==
  ASSUME NEW b \in Seq(Bytes), InLines(b), NEW i \in 1..Len(b)
  PROVE  ParsesAt(b, i) <=> IsNewline(b[i])
<1> SUFFICES ASSUME IsNewline(b[i]) PROVE ParsesAt(b, i)
  BY DEF ParsesAt
<1>1. b[i].part = LineLen
  BY DEF IsNewline
<1>2. /\ LineLen <= i
      /\ \A j \in 1..LineLen : b[i - LineLen + j] = [ev |-> b[i].ev, part |-> j]
  BY <1>1, LineBehind
<1>3. SubSeq(b, i - LineLen + 1, i) = Line(b[i].ev)
  <2> DEFINE m == i - LineLen + 1
             s == SubSeq(b, m, i)
  <2>1. /\ m \in Int /\ i - m + 1 = LineLen /\ m <= i /\ \A j \in m..i : j \in 1..Len(b)
        /\ \A j \in 1..LineLen : m + j - 1 = i - LineLen + j
    BY <1>2, LineLenIsNat
  <2>2. /\ s \in Seq(Bytes) /\ Len(s) = LineLen
        /\ \A j \in 1..LineLen : s[j] = b[i - LineLen + j]
    <3>1. \A j \in m..i : b[j] \in Bytes
      BY <2>1
    <3> HIDE DEF m
    <3> QED
      BY <2>1, <3>1, SubSeqProperties
  <2> HIDE DEF s
  <2>3. s = Line(b[i].ev)
    <3> DEFINE l == Line(b[i].ev)
    <3>1. /\ l \in Seq(Bytes) /\ Len(l) = LineLen
          /\ \A j \in 1..LineLen : l[j] = [ev |-> b[i].ev, part |-> j]
      <4>1. b[i].ev \in KeyEvents
        BY ByteFields
      <4> QED
        BY <4>1, LineFields
    <3>2. \A j \in 1..LineLen : s[j] = l[j]
      BY <1>2, <2>2, <3>1
    <3> HIDE DEF l
    <3>3. s = l
      BY <2>2, <3>1, <3>2, SeqsEqual
    <3> QED
      BY <3>3 DEF l
  <2> QED
    BY <2>3 DEF s
<1>4. i = LineLen \/ IsNewline(b[i - LineLen])
  <2> SUFFICES ASSUME i # LineLen PROVE IsNewline(b[i - LineLen])
    OBVIOUS
  <2>1. i - LineLen \in 1..(Len(b) - 1) /\ i - LineLen \in 1..Len(b) /\ 1 \in 1..LineLen
    BY <1>2, LineLenIsNat
  <2>2. Follows(b[i - LineLen], b[i - LineLen + 1])
    BY <2>1 DEF InLines
  <2>3. b[i - LineLen + 1].part = 1
    <3>1. b[i - LineLen + 1] = [ev |-> b[i].ev, part |-> 1]
      BY <1>2, <2>1
    <3> QED
      BY <3>1
  <2>4. PICK p \in 1..LineLen : p = b[i - LineLen].part
    BY <2>1, ByteFields
  <2> QED
    BY <2>2, <2>3, <2>4, LineLenIsNat DEF Follows
<1> QED
  BY <1>2, <1>3, <1>4 DEF ParsesAt

\* No bytes are whole lines.
LEMMA NothingIsLines == WholeLines(<<>>)
  BY DEF WholeLines, InLines

\* One line is whole lines.
LEMMA LineIsWhole ==
  ASSUME NEW ev \in KeyEvents
  PROVE  WholeLines(Line(ev))
<1> DEFINE l == Line(ev)
<1>1. /\ l \in Seq(Bytes) /\ Len(l) = LineLen
      /\ \A j \in 1..LineLen : l[j] = [ev |-> ev, part |-> j]
  BY LineFields
<1> HIDE DEF l
<1>2. l[1].part = 1 /\ IsNewline(l[Len(l)])
  BY <1>1, LineLenIsNat DEF IsNewline
<1>3. ASSUME NEW i \in 1..(Len(l) - 1)
      PROVE  Follows(l[i], l[i + 1])
  <2>1. i \in 1..LineLen /\ i + 1 \in 1..LineLen /\ i # LineLen
    BY <1>1, <1>3, LineLenIsNat
  <2>2. l[i] = [ev |-> ev, part |-> i] /\ l[i + 1] = [ev |-> ev, part |-> i + 1]
    BY <1>1, <2>1
  <2> QED
    BY <2>1, <2>2 DEF Follows, IsNewline
<1> QED
  BY <1>2, <1>3 DEF WholeLines, InLines, l

\* Lines after whole lines are lines.
LEMMA LinesAfterLines ==
  ASSUME NEW b \in Seq(Bytes), NEW d \in Seq(Bytes), WholeLines(b), InLines(d)
  PROVE  InLines(b \o d) /\ (WholeLines(d) => WholeLines(b \o d))
<1> DEFINE x == b \o d
<1>1. /\ x \in Seq(Bytes) /\ Len(x) = Len(b) + Len(d)
      /\ \A i \in 1..Len(b) : x[i] = b[i]
      /\ \A i \in 1..Len(d) : x[Len(b) + i] = d[i]
  OBVIOUS
<1>2. b # <<>> => Len(b) >= 1
  BY EmptySeq
<1>3. d # <<>> => Len(d) >= 1
  BY EmptySeq
<1>4. x # <<>> => Len(x) >= 1
  <2> HIDE DEF x
  <2> QED
    BY <1>1, EmptySeq
<1>5. b = <<>> => Len(b) = 0
  OBVIOUS
<1>6. d = <<>> => Len(d) = 0
  OBVIOUS
<1> HIDE DEF x
<1>7. ASSUME x # <<>>
      PROVE  x[1].part = 1
  <2>1. CASE b # <<>>
    BY <1>1, <1>2, <2>1 DEF WholeLines, InLines
  <2>2. CASE b = <<>>
    <3>1. Len(d) >= 1 /\ d # <<>>
      BY <1>1, <1>4, <1>5, <1>6, <1>7, <2>2
    <3>2. x[0 + 1] = d[1]
      BY <1>1, <1>5, <2>2, <3>1
    <3> QED
      BY <3>1, <3>2 DEF InLines
  <2> QED
    BY <2>1, <2>2
<1>8. ASSUME NEW i \in 1..(Len(x) - 1)
      PROVE  Follows(x[i], x[i + 1])
  <2>1. CASE i < Len(b)
    <3>1. i \in 1..(Len(b) - 1) /\ x[i] = b[i] /\ x[i + 1] = b[i + 1]
      BY <1>1, <1>8, <2>1
    <3> QED
      BY <3>1 DEF WholeLines, InLines
  <2>2. CASE i = Len(b)
    <3>1. b # <<>> /\ x[i] = b[Len(b)]
      BY <1>1, <1>5, <2>2
    <3>2. Len(d) >= 1 /\ x[i + 1] = d[1]
      BY <1>1, <1>8, <2>2
    <3>3. d # <<>>
      BY <1>6, <3>2
    <3> QED
      BY <3>1, <3>2, <3>3 DEF WholeLines, InLines, Follows
  <2>3. CASE i > Len(b)
    <3>1. PICK j \in 1..(Len(d) - 1) : i = Len(b) + j
      <4>1. i - Len(b) \in 1..(Len(d) - 1) /\ i = Len(b) + (i - Len(b))
        BY <1>1, <1>8, <2>3
      <4> QED
        BY <4>1
    <3>2. x[i] = d[j] /\ x[i + 1] = d[j + 1]
      <4>1. j \in 1..Len(d) /\ j + 1 \in 1..Len(d) /\ i + 1 = Len(b) + (j + 1)
        BY <1>1, <3>1
      <4> QED
        BY <1>1, <3>1, <4>1
    <3> QED
      BY <3>1, <3>2 DEF InLines
  <2> QED
    BY <1>1, <1>8, <2>1, <2>2, <2>3
<1>9. InLines(x)
  BY <1>7, <1>8 DEF InLines
<1>10. ASSUME WholeLines(d), x # <<>>
       PROVE  IsNewline(x[Len(x)])
  <2>1. CASE d # <<>>
    <3>1. x[Len(b) + Len(d)] = d[Len(d)]
      BY <1>1, <1>3, <2>1
    <3> QED
      BY <1>1, <1>10, <2>1, <3>1 DEF WholeLines
  <2>2. CASE d = <<>>
    <3>1. b # <<>> /\ x[Len(x)] = b[Len(b)]
      BY <1>1, <1>2, <1>4, <1>5, <1>6, <1>10, <2>2
    <3> QED
      BY <3>1 DEF WholeLines
  <2> QED
    BY <2>1, <2>2
<1> QED
  BY <1>9, <1>10 DEF x, WholeLines

\* What is read first is lines.
LEMMA FirstAreLines ==
  ASSUME NEW b \in Seq(Bytes), NEW d \in Seq(Bytes), InLines(b \o d)
  PROVE  InLines(b)
<1> DEFINE x == b \o d
<1>1. /\ x \in Seq(Bytes) /\ Len(x) = Len(b) + Len(d)
      /\ \A i \in 1..Len(b) : x[i] = b[i]
  OBVIOUS
<1>2. b # <<>> => Len(b) >= 1 /\ Len(x) >= 1
  BY <1>1, EmptySeq
<1>3. x = <<>> => Len(x) = 0
  OBVIOUS
<1> HIDE DEF x
<1>4. b # <<>> => b[1].part = 1
  BY <1>1, <1>2, <1>3 DEF InLines, x
<1>5. ASSUME NEW i \in 1..(Len(b) - 1)
      PROVE  Follows(b[i], b[i + 1])
  <2>1. i \in 1..(Len(x) - 1) /\ x[i] = b[i] /\ x[i + 1] = b[i + 1]
    <3>1. Len(b) \in Nat /\ Len(d) \in Nat
      OBVIOUS
    <3>2. i \in 1..Len(b) /\ i + 1 \in 1..Len(b) /\ i \in 1..(Len(x) - 1)
      BY <1>1, <1>5, <3>1
    <3> QED
      BY <1>1, <3>2
  <2> QED
    BY <2>1 DEF InLines, x
<1> QED
  BY <1>4, <1>5 DEF InLines

\* What is left when whole lines are discarded is lines.
LEMMA RestIsLines ==
  ASSUME NEW b \in Seq(Bytes), InLines(b), NEW m \in 0..Len(b), m = 0 \/ IsNewline(b[m])
  PROVE  LET rest == SubSeq(b, m + 1, Len(b)) IN
         /\ rest \in Seq(Bytes) /\ Len(rest) = Len(b) - m
         /\ \A j \in 1..(Len(b) - m) : rest[j] = b[m + j]
         /\ InLines(rest) /\ (WholeLines(b) => WholeLines(rest))
<1> DEFINE r == SubSeq(b, m + 1, Len(b))
           n == Len(b) - m
<1>1. n \in Nat /\ m + n = Len(b)
  OBVIOUS
<1>2. r \in Seq(Bytes) /\ Len(r) = n /\ \A j \in 1..n : r[j] = b[m + j]
  <2>1. \A j \in (m + 1)..Len(b) : b[j] \in Bytes
    OBVIOUS
  <2>2. /\ m + 1 \in Int /\ Len(b) \in Int /\ Len(b) - (m + 1) + 1 = n
        /\ (IF m + 1 <= Len(b) THEN n ELSE 0) = n
        /\ \A j \in 1..n : m + 1 + j - 1 = m + j
    OBVIOUS
  <2>3. /\ r \in Seq(Bytes) /\ Len(r) = IF m + 1 <= Len(b) THEN Len(b) - (m + 1) + 1 ELSE 0
        /\ \A j \in 1..(Len(b) - (m + 1) + 1) : r[j] = b[m + 1 + j - 1]
    <3>1. m + 1 \in Int /\ Len(b) \in Int
      OBVIOUS
    <3> QED
      BY <2>1, <3>1, SubSeqProperties
  <2> HIDE DEF r, n
  <2> QED
    BY <2>2, <2>3
<1>3. b # <<>> <=> Len(b) # 0
  BY EmptySeq
<1> HIDE DEF r, n
<1>4. r # <<>> => n >= 1
  <2>1. r # <<>> => Len(r) # 0
    BY <1>2, EmptySeq
  <2> QED
    BY <1>1, <1>2, <2>1
<1>5. ASSUME r # <<>>
      PROVE  r[1].part = 1
  <2>1. r[1] = b[m + 1] /\ b # <<>> /\ m \in 0..(Len(b) - 1)
    BY <1>1, <1>2, <1>3, <1>4, <1>5
  <2>2. CASE m = 0
    BY <2>1, <2>2 DEF InLines
  <2>3. CASE m # 0
    <3>1. Follows(b[m], b[m + 1]) /\ IsNewline(b[m])
      BY <2>1, <2>3 DEF InLines
    <3> QED
      BY <2>1, <3>1 DEF Follows
  <2> QED
    BY <2>2, <2>3
<1>6. ASSUME NEW j \in 1..(Len(r) - 1)
      PROVE  Follows(r[j], r[j + 1])
  <2>1. /\ j \in 1..n /\ j + 1 \in 1..n /\ m + j \in 1..(Len(b) - 1)
        /\ m + (j + 1) = (m + j) + 1
    BY <1>1, <1>2, <1>6
  <2>2. r[j] = b[m + j] /\ r[j + 1] = b[(m + j) + 1]
    BY <1>2, <2>1
  <2> QED
    BY <2>1, <2>2 DEF InLines
<1>7. ASSUME WholeLines(b), r # <<>>
      PROVE  IsNewline(r[Len(r)])
  <2>1. n \in 1..n /\ r[Len(r)] = b[Len(b)] /\ b # <<>>
    BY <1>1, <1>2, <1>3, <1>4, <1>7
  <2> QED
    BY <1>7, <2>1 DEF WholeLines
<1> QED
  BY <1>2, <1>5, <1>6, <1>7 DEF r, n, InLines, WholeLines

-----------------------------------------------------------------------------
(* The device after a stream of lines                                      *)

\* f is the device after every byte of b
Turns(f, down, b) ==
  /\ f \in [0..Len(b) -> SUBSET Keys]
  /\ f[0] = down
  /\ \A i \in 1..Len(b) :
       f[i] = IF IsNewline(b[i]) THEN Pressed(f[i - 1], b[i].ev) ELSE f[i - 1]

\* main_read's loop over what it has read has a value after every byte of it.
LEMMA DeviceTurns ==
  ASSUME NEW b \in Seq(Bytes), InLines(b), NEW down \in SUBSET Keys
  PROVE  \E f : Turns(f, down, b) /\ DeviceAfter(down, b) = f[Len(b)]
<1> DEFINE Turn(t, i) == IF ParsesAt(b, i) THEN Pressed(t, b[i].ev) ELSE t
           step == [i \in 1..Len(b) |-> [t \in SUBSET Keys |-> Turn(t, i)]]
           Is(f) == f = [i \in 0..Len(b) |-> IF i = 0 THEN down ELSE Turn(f[i - 1], i)]
           after == CHOOSE f : Is(f)
<1>1. \A i \in 1..Len(b), t \in SUBSET Keys : Turn(t, i) \in SUBSET Keys
  BY ByteFields DEF Pressed
<1>2. step \in [1..Len(b) -> [SUBSET Keys -> SUBSET Keys]]
  <2> HIDE DEF Turn
  <2> QED
    BY <1>1
<1>3. PICK f \in [0..Len(b) -> SUBSET Keys] :
        f[0] = down /\ \A i \in 1..Len(b) : f[i] = step[i][f[i - 1]]
  <2> DEFINE T == SUBSET Keys
             n == Len(b)
  <2>1. n \in Nat /\ down \in T /\ step \in [1..n -> [T -> T]]
    BY <1>2
  <2> HIDE DEF step, T, n
  <2>2. \E f \in [0..n -> T] : IsRun(f, down, n, step)
    BY ONLY <2>1, LoopRuns
  <2> QED
    BY <2>2 DEF IsRun, T, n
<1>4. \A i \in 1..Len(b) : i - 1 \in 0..Len(b) /\ i # 0
  OBVIOUS
<1>5. ASSUME NEW i \in 1..Len(b)
      PROVE  f[i] = Turn(f[i - 1], i)
  <2>1. f[i - 1] \in SUBSET Keys
    BY <1>3, <1>4
  <2>2. step[i][f[i - 1]] = Turn(f[i - 1], i)
    <3> HIDE DEF Turn
    <3> QED
      BY <2>1
  <2> HIDE DEF Turn, step
  <2> QED
    BY <1>3, <2>2
<1>6. Is(f)
  <2> HIDE DEF Turn
  <2>1. ASSUME NEW i \in 0..Len(b)
        PROVE  f[i] = IF i = 0 THEN down ELSE Turn(f[i - 1], i)
    <3>1. i # 0 => i \in 1..Len(b)
      OBVIOUS
    <3> QED
      BY <1>3, <1>5, <3>1
  <2> QED
    BY <1>3, <2>1
<1>7. Is(after)
  <2> HIDE DEF Is
  <2> QED
    BY <1>6
<1>8. DeviceAfter(down, b) = after[Len(b)]
  BY DEF DeviceAfter
<1> HIDE DEF after
<1>9. /\ DOMAIN after = 0..Len(b) /\ after[0] = down
      /\ \A i \in 1..Len(b) : after[i] = Turn(after[i - 1], i)
  <2> HIDE DEF Turn
  <2> QED
    BY <1>4, <1>7
<1>10. \A i \in 0..Len(b) : after[i] \in SUBSET Keys
  <2> DEFINE P == {i \in 0..Len(b) : after[i] \in SUBSET Keys}
  <2> HIDE DEF Turn
  <2>1. 0 \in P
    BY <1>9
  <2>2. ASSUME NEW i \in 1..Len(b), i - 1 \in P
        PROVE  i \in P
    BY <1>1, <1>9, <2>2
  <2>3. Len(b) \in Nat
    OBVIOUS
  <2> HIDE DEF P
  <2>4. \A i \in 0..Len(b) : i \in P
    BY <2>1, <2>2, <2>3, UpTo
  <2> QED
    BY <2>4 DEF P
<1>11. \A i \in 1..Len(b) :
         after[i] = IF IsNewline(b[i]) THEN Pressed(after[i - 1], b[i].ev) ELSE after[i - 1]
  BY <1>9, EventsAreAtNewlines
<1>12. after \in [0..Len(b) -> SUBSET Keys]
  <2>1. after = [i \in 0..Len(b) |-> after[i]]
    <3> HIDE DEF Turn
    <3> QED
      BY <1>7
  <2> QED
    BY <1>10, <2>1
<1>13. Turns(after, down, b)
  BY <1>9, <1>11, <1>12 DEF Turns
<1> QED
  BY <1>8, <1>13

\* f, m places on, is what g is at the places of S
Matches(f, g, m, S) == \A j \in S : f[m + j] = g[j]

\* Equal bytes do the same to equal devices.
LEMMA SameTurns ==
  ASSUME NEW a \in Seq(Bytes), NEW b \in Seq(Bytes), NEW d1, NEW d2, NEW f, NEW g,
         Turns(f, d1, a), Turns(g, d2, b),
         NEW m \in Nat, NEW n \in Nat, m + n <= Len(a), n <= Len(b), f[m] = g[0],
         Matches(a, b, m, 1..n)
  PROVE  Matches(f, g, m, 0..n)
<1> DEFINE P == {j \in 0..n : f[m + j] = g[j]}
<1>1. 0 \in P
  OBVIOUS
<1>2. ASSUME NEW j \in 1..n, j - 1 \in P
      PROVE  j \in P
  <2>1. m + j \in 1..Len(a) /\ j \in 1..Len(b) /\ m + (j - 1) = (m + j) - 1
    <3>1. Len(a) \in Nat /\ Len(b) \in Nat
      OBVIOUS
    <3> QED
      BY <3>1
  <2>2. f[(m + j) - 1] = g[j - 1] /\ a[m + j] = b[j]
    BY <1>2, <2>1 DEF Matches
  <2>3. f[m + j] = g[j]
    BY <2>1, <2>2 DEF Turns
  <2> QED
    BY <2>3
<1> HIDE DEF P
<1>3. \A j \in 0..n : j \in P
  BY <1>1, <1>2, UpTo
<1> QED
  BY <1>3 DEF P, Matches

\* Streams that begin alike do the same to a device, as far as they are alike.
LEMMA SamePrefix ==
  ASSUME NEW a \in Seq(Bytes), NEW b \in Seq(Bytes), NEW down, NEW f, NEW g,
         Turns(f, down, a), Turns(g, down, b), NEW n \in Nat, n <= Len(a), n <= Len(b),
         \A j \in 1..n : a[j] = b[j]
  PROVE  f[n] = g[n]
<1>1. 0 \in Nat /\ 0 + n <= Len(a) /\ f[0] = g[0] /\ n \in 0..n /\ 0 + n = n
  BY DEF Turns
<1>2. Matches(a, b, 0, 1..n)
  BY DEF Matches
<1>3. Matches(f, g, 0, 0..n)
  BY <1>1, <1>2, SameTurns
<1> QED
  BY <1>1, <1>3 DEF Matches

\* Half a line does nothing.
LEMMA NoNewlineNoTurn ==
  ASSUME NEW b \in Seq(Bytes), NEW down, NEW f, Turns(f, down, b),
         NEW m \in Nat, NEW n \in Nat, m <= n, n <= Len(b),
         \A i \in (m + 1)..n : ~IsNewline(b[i])
  PROVE  f[n] = f[m]
<1> DEFINE P == {i \in 0..n : i >= m => f[i] = f[m]}
<1>1. 0 \in P
  OBVIOUS
<1>2. ASSUME NEW i \in 1..n, i - 1 \in P
      PROVE  i \in P
  <2>1. i \in 1..Len(b)
    BY Len(b) \in Nat
  <2>2. CASE i > m
    <3>1. i - 1 >= m /\ i \in (m + 1)..n
      BY <2>2
    <3>2. f[i - 1] = f[m] /\ ~IsNewline(b[i])
      BY <1>2, <3>1
    <3> QED
      BY <2>1, <3>2 DEF Turns
  <2>3. CASE ~(i > m)
    <3>1. i >= m => i = m
      BY <2>3
    <3> QED
      BY <3>1
  <2> QED
    BY <2>2, <2>3
<1> HIDE DEF P
<1>3. \A i \in 0..n : i \in P
  BY <1>1, <1>2, UpTo
<1>4. n \in 0..n /\ n >= m
  OBVIOUS
<1> QED
  BY <1>3, <1>4 DEF P

\* A virtual device has keys down, whatever lines are read.
LEMMA DeviceAfterType ==
  ASSUME NEW b \in Seq(Bytes), InLines(b), NEW down \in SUBSET Keys
  PROVE  DeviceAfter(down, b) \in SUBSET Keys
<1>1. PICK f : Turns(f, down, b) /\ DeviceAfter(down, b) = f[Len(b)]
  BY DeviceTurns
<1>2. Len(b) \in 0..Len(b)
  OBVIOUS
<1> QED
  BY <1>1, <1>2 DEF Turns

\* A device stays as it is if nothing is read.
LEMMA DeviceAfterNothing ==
  ASSUME NEW down \in SUBSET Keys
  PROVE  DeviceAfter(down, <<>>) = down
<1>1. <<>> \in Seq(Bytes) /\ Len(<<>>) = 0 /\ InLines(<<>>)
  BY NothingIsLines DEF WholeLines
<1>2. PICK f : Turns(f, down, <<>>) /\ DeviceAfter(down, <<>>) = f[Len(<<>>)]
  BY <1>1, DeviceTurns
<1> QED
  BY <1>1, <1>2 DEF Turns

\* A line more is an event more on the device.
LEMMA DeviceAfterLine ==
  ASSUME NEW b \in Seq(Bytes), WholeLines(b), NEW ev \in KeyEvents,
         NEW down \in SUBSET Keys
  PROVE  DeviceAfter(down, b \o Line(ev)) = Pressed(DeviceAfter(down, b), ev)
<1> DEFINE l == Line(ev)
           x == b \o l
           n == Len(b)
<1>1. /\ l \in Seq(Bytes) /\ Len(l) = LineLen
      /\ \A j \in 1..LineLen : l[j] = [ev |-> ev, part |-> j]
  BY LineFields
<1>2. InLines(b) /\ InLines(x)
  BY LineIsWhole, LinesAfterLines, <1>1 DEF WholeLines
<1>3. n \in Nat
  OBVIOUS
<1> HIDE DEF l
<1>4. /\ x \in Seq(Bytes) /\ Len(x) = n + LineLen
      /\ \A j \in 1..n : x[j] = b[j]
      /\ \A j \in 1..LineLen : x[n + j] = [ev |-> ev, part |-> j]
  <2>1. /\ x \in Seq(Bytes) /\ Len(x) = Len(b) + Len(l)
        /\ \A j \in 1..Len(b) : x[j] = b[j]
        /\ \A j \in 1..Len(l) : x[Len(b) + j] = l[j]
    <3>1. l \in Seq(Bytes)
      BY <1>1
    <3> QED
      BY <3>1, ConcatParts
  <2> HIDE DEF x
  <2> QED
    BY <1>1, <2>1
<1> HIDE DEF x
<1>5. PICK f : Turns(f, down, b) /\ DeviceAfter(down, b) = f[n]
  BY <1>2, DeviceTurns
<1>6. PICK g : Turns(g, down, x) /\ DeviceAfter(down, x) = g[Len(x)]
  BY <1>2, <1>4, DeviceTurns
<1> HIDE DEF n
<1>7. g[n] = f[n]
  <2>1. n <= Len(x) /\ n <= Len(b)
    BY <1>3, <1>4, LineLenIsNat DEF n
  <2> QED
    BY <1>3, <1>4, <1>5, <1>6, <2>1, SamePrefix
<1>8. g[Len(x) - 1] = g[n]
  <2>1. /\ Len(x) - 1 \in Nat /\ n <= Len(x) - 1 /\ Len(x) - 1 <= Len(x)
        /\ \A i \in (n + 1)..(Len(x) - 1) :
             i - n \in 1..LineLen /\ i - n # LineLen /\ n + (i - n) = i
    BY <1>3, <1>4, LineLenIsNat
  <2>2. \A i \in (n + 1)..(Len(x) - 1) : ~IsNewline(x[i])
    <3> TAKE i \in (n + 1)..(Len(x) - 1)
    <3>1. x[i] = [ev |-> ev, part |-> i - n] /\ i - n # LineLen
      BY <1>4, <2>1
    <3> QED
      BY <3>1 DEF IsNewline
  <2>3. x \in Seq(Bytes) /\ Turns(g, down, x)
    BY <1>4, <1>6
  <2> QED
    BY <1>3, <2>1, <2>2, <2>3, NoNewlineNoTurn
<1>9. g[Len(x)] = Pressed(g[Len(x) - 1], ev)
  <2>1. Len(x) \in 1..Len(x) /\ LineLen \in 1..LineLen
    BY <1>3, <1>4, LineLenIsNat
  <2>2. x[Len(x)] = [ev |-> ev, part |-> LineLen]
    BY <1>4, <2>1
  <2>3. x[Len(x)].ev = ev /\ IsNewline(x[Len(x)])
    BY <2>2 DEF IsNewline
  <2> QED
    BY <1>6, <2>1, <2>3 DEF Turns
<1> QED
  BY <1>5, <1>6, <1>7, <1>8, <1>9 DEF x, l

-----------------------------------------------------------------------------
(* What is left in the reader's buffer                                     *)

\* The byte after a line's end is its first: a line that has begun ends before the next.
LEMMA LastNewline ==
  ASSUME NEW b \in Seq(Bytes), InLines(b)
  PROVE  \E m \in 0..Len(b) :
           /\ m = 0 \/ IsNewline(b[m])
           /\ Incomplete(b) = SubSeq(b, m + 1, Len(b))
           /\ \A i \in (m + 1)..Len(b) : ~IsNewline(b[i])
           /\ Len(b) - m < LineLen
<1> DEFINE N == {0} \cup Newlines(b)
           n == Len(b)
<1>1. n \in Nat /\ N \subseteq 0..n /\ \A i \in N : i = 0 \/ IsNewline(b[i])
  BY DEF Newlines
<1>2. \A i \in 1..n : IsNewline(b[i]) => i \in N
  BY DEF Newlines
<1> DEFINE m == Max(N)
<1>3. m \in N /\ \A i \in N : m >= i
  <2> DEFINE R == {n - i : i \in N}
  <2>1. R \subseteq Nat /\ R # {}
    BY <1>1
  <2>2. PICK x \in R : \A y \in R : x <= y
    <3> HIDE DEF R
    <3> QED
      BY <2>1, LeastNatural
  <2>3. PICK k \in N : x = n - k
    BY <2>2
  <2>4. \A i \in N : k >= i
    <3> SUFFICES ASSUME NEW i \in N PROVE k >= i
      OBVIOUS
    <3>1. n - k <= n - i
      BY <2>2, <2>3
    <3>2. k \in 0..n /\ i \in 0..n
      BY <1>1, <2>3
    <3> QED
      BY <1>1, <3>1, <3>2
  <2> HIDE DEF N
  <2> QED
    BY <2>3, <2>4 DEF Max
<1> HIDE DEF N
<1>4. m \in 0..n /\ (m = 0 \/ IsNewline(b[m]))
  BY <1>1, <1>3
<1>5. Incomplete(b) = SubSeq(b, m + 1, Len(b))
  BY DEF Incomplete, N
<1> HIDE DEF m
<1>6. ASSUME NEW i \in (m + 1)..n
      PROVE  ~IsNewline(b[i])
  <2>1. i \in 1..n /\ ~(m >= i)
    BY <1>1, <1>4
  <2> QED
    BY <1>2, <1>3, <2>1
<1>7. n - m < LineLen
  <2>1. CASE m = n
    BY <1>1, <2>1, LineLenIsNat
  <2>2. CASE m # n
    <3>1. n \in (m + 1)..n /\ n \in 1..n
      BY <1>1, <1>4, <2>2
    <3>2. PICK p \in 1..LineLen : p = b[n].part
      BY <3>1, ByteFields
    <3>3. p < LineLen
      BY <1>6, <3>1, <3>2, LineLenIsNat DEF IsNewline
    <3>4. p <= n /\ b[n - p + 1] = [ev |-> b[n].ev, part |-> 1]
      <4>1. 1 \in 1..p
        BY LineLenIsNat
      <4> QED
        BY <3>1, <3>2, <4>1, LineBehind
    <3>5. n - p \in N
      <4>1. CASE n = p
        BY <4>1, <1>1 DEF N
      <4>2. CASE n # p
        <5>1. n - p \in 1..n /\ n - p \in 1..(n - 1)
          BY <3>1, <3>2, <3>4, <4>2, LineLenIsNat
        <5>2. Follows(b[n - p], b[n - p + 1])
          BY <5>1 DEF InLines
        <5>3. PICK q \in 1..LineLen : q = b[n - p].part
          BY <5>1, ByteFields
        <5>4. IsNewline(b[n - p])
          BY <3>4, <5>2, <5>3, LineLenIsNat DEF Follows
        <5> QED
          BY <1>2, <5>1, <5>4
      <4> QED
        BY <4>1, <4>2
    <3>6. m >= n - p
      BY <1>3, <3>5
    <3> QED
      BY <1>1, <1>4, <3>2, <3>3, <3>6, LineLenIsNat
  <2> QED
    BY <2>1, <2>2
<1> QED
  BY <1>4, <1>5, <1>6, <1>7

\* What follows the first m bytes of x, and then y, follows them in x and y.
LEMMA RestOfBoth ==
  ASSUME NEW x \in Seq(Bytes), NEW y \in Seq(Bytes), NEW m \in 0..Len(x)
  PROVE  SubSeq(x, m + 1, Len(x)) \o y = SubSeq(x \o y, m + 1, Len(x \o y))
<1> DEFINE a == Len(x) - m
           r == SubSeq(x, m + 1, Len(x))
           z == x \o y
           s == SubSeq(z, m + 1, Len(z))
<1>1. /\ a \in Nat /\ Len(x) = m + a /\ Len(y) \in Nat /\ Len(x) \in Nat
      /\ z \in Seq(Bytes) /\ Len(z) = m + (a + Len(y))
      /\ \A i \in 1..Len(x) : z[i] = x[i]
      /\ \A i \in 1..Len(y) : z[Len(x) + i] = y[i]
  OBVIOUS
<1> HIDE DEF z, a
<1>2. r \in Seq(Bytes) /\ Len(r) = a /\ \A j \in 1..a : r[j] = x[m + j]
  <2>1. \A i \in (m + 1)..Len(x) : x[i] \in Bytes
    OBVIOUS
  <2>2. /\ Len(x) - (m + 1) + 1 = a /\ (IF m + 1 <= Len(x) THEN a ELSE 0) = a
        /\ \A j \in 1..a : m + 1 + j - 1 = m + j
    BY <1>1
  <2>3. m + 1 \in Int /\ Len(x) \in Int
    OBVIOUS
  <2>4. /\ r \in Seq(Bytes) /\ Len(r) = IF m + 1 <= Len(x) THEN Len(x) - (m + 1) + 1 ELSE 0
        /\ \A j \in 1..(Len(x) - (m + 1) + 1) : r[j] = x[m + 1 + j - 1]
    BY <2>1, <2>3, SubSeqProperties
  <2> HIDE DEF r
  <2> QED
    BY <2>2, <2>4
<1>3. s \in Seq(Bytes) /\ Len(s) = a + Len(y) /\ \A j \in 1..(a + Len(y)) : s[j] = z[m + j]
  <2>1. \A i \in (m + 1)..Len(z) : z[i] \in Bytes
    BY <1>1
  <2>2. /\ Len(z) - (m + 1) + 1 = a + Len(y)
        /\ (IF m + 1 <= Len(z) THEN a + Len(y) ELSE 0) = a + Len(y)
        /\ \A j \in 1..(a + Len(y)) : m + 1 + j - 1 = m + j
    BY <1>1
  <2>3. m + 1 \in Int /\ Len(z) \in Int
    BY <1>1
  <2>4. /\ s \in Seq(Bytes) /\ Len(s) = IF m + 1 <= Len(z) THEN Len(z) - (m + 1) + 1 ELSE 0
        /\ \A j \in 1..(Len(z) - (m + 1) + 1) : s[j] = z[m + 1 + j - 1]
    BY <2>1, <2>3, SubSeqProperties
  <2> HIDE DEF s
  <2> QED
    BY <2>2, <2>4
<1> HIDE DEF r, s
<1>4. /\ r \o y \in Seq(Bytes) /\ Len(r \o y) = a + Len(y)
      /\ \A j \in 1..a : (r \o y)[j] = r[j]
      /\ \A j \in 1..Len(y) : (r \o y)[a + j] = y[j]
  <2> DEFINE t == r \o y
  <2>1. /\ t \in Seq(Bytes) /\ Len(t) = Len(r) + Len(y)
        /\ \A j \in 1..Len(r) : t[j] = r[j]
        /\ \A j \in 1..Len(y) : t[Len(r) + j] = y[j]
    <3>1. r \in Seq(Bytes)
      BY <1>2
    <3> QED
      BY <3>1, ConcatParts
  <2> HIDE DEF t
  <2>2. /\ t \in Seq(Bytes) /\ Len(t) = a + Len(y)
        /\ \A j \in 1..a : t[j] = r[j]
        /\ \A j \in 1..Len(y) : t[a + j] = y[j]
    BY <1>2, <2>1
  <2> QED
    BY <2>2 DEF t
<1>5. ASSUME NEW j \in 1..(a + Len(y))
      PROVE  (r \o y)[j] = s[j]
  <2>1. CASE j <= a
    <3>1. j \in 1..a /\ m + j \in 1..Len(x)
      BY <1>1, <2>1
    <3> QED
      BY <1>1, <1>2, <1>3, <1>4, <3>1
  <2>2. CASE ~(j <= a)
    <3>1. PICK i \in 1..Len(y) : j = a + i
      <4>1. j - a \in 1..Len(y) /\ j = a + (j - a)
        BY <1>1, <2>2
      <4> QED
        BY <4>1
    <3>2. m + j = Len(x) + i
      BY <1>1, <3>1
    <3>3. s[j] = z[Len(x) + i]
      BY <1>3, <3>2
    <3> QED
      BY <1>1, <1>4, <3>1, <3>3
  <2> QED
    BY <2>1, <2>2
<1>6. r \o y = s
  <2> DEFINE t == r \o y
  <2> HIDE DEF t
  <2>1. t \in Seq(Bytes) /\ Len(t) = Len(s) /\ \A j \in 1..Len(t) : t[j] = s[j]
    BY <1>3, <1>4, <1>5 DEF t
  <2>2. t = s
    BY <1>3, <2>1, SeqsEqual
  <2> QED
    BY <2>2 DEF t
<1> QED
  BY <1>6 DEF r, s, z

\* What a read() leaves for the next is as good as if it had not been read (main_read).
LEMMA DeviceAfterRest ==
  ASSUME NEW x \in Seq(Bytes), NEW y \in Seq(Bytes), InLines(x \o y),
         NEW down \in SUBSET Keys
  PROVE  /\ Incomplete(x) \in Seq(Bytes) /\ Len(Incomplete(x)) < LineLen
         /\ InLines(x) /\ InLines(Incomplete(x) \o y)
         /\ WholeLines(x \o y) => WholeLines(Incomplete(x) \o y)
         /\ DeviceAfter(DeviceAfter(down, x), Incomplete(x) \o y) =
              DeviceAfter(down, x \o y)
<1> DEFINE z == x \o y
<1>1. InLines(x)
  BY FirstAreLines
<1>2. PICK m \in 0..Len(x) :
        /\ m = 0 \/ IsNewline(x[m])
        /\ Incomplete(x) = SubSeq(x, m + 1, Len(x))
        /\ \A i \in (m + 1)..Len(x) : ~IsNewline(x[i])
        /\ Len(x) - m < LineLen
  BY <1>1, LastNewline
<1>3. /\ z \in Seq(Bytes) /\ Len(z) = Len(x) + Len(y) /\ Len(x) \in Nat /\ Len(y) \in Nat
      /\ m \in 0..Len(z) /\ (m = 0 \/ IsNewline(z[m]))
      /\ \A i \in 1..Len(x) : z[i] = x[i]
  BY <1>2
<1> DEFINE s == SubSeq(z, m + 1, Len(z))
           n == Len(z) - m
<1>4. Incomplete(x) \o y = s
  BY <1>2, RestOfBoth
<1>5. Incomplete(x) \in Seq(Bytes) /\ Len(Incomplete(x)) < LineLen
  BY <1>1, <1>2, RestIsLines
<1> HIDE DEF z
<1>6. /\ s \in Seq(Bytes) /\ Len(s) = n /\ \A j \in 1..n : s[j] = z[m + j]
      /\ InLines(s) /\ (WholeLines(z) => WholeLines(s))
  BY <1>3, RestIsLines DEF z
<1> HIDE DEF s
<1>7. PICK f : Turns(f, down, x) /\ DeviceAfter(down, x) = f[Len(x)]
  BY <1>1, DeviceTurns
<1>8. PICK g : Turns(g, down, z) /\ DeviceAfter(down, z) = g[Len(z)]
  BY <1>3, DeviceTurns DEF z
<1>9. f[Len(x)] \in SUBSET Keys /\ f[Len(x)] = f[m]
  <2>1. Len(x) \in 0..Len(x) /\ Len(x) \in Nat /\ m \in Nat /\ m <= Len(x) /\ Len(x) <= Len(x)
    BY <1>3
  <2>2. f[Len(x)] = f[m]
    BY <1>2, <1>7, <2>1, NoNewlineNoTurn
  <2> QED
    BY <1>7, <2>1, <2>2 DEF Turns
<1>10. g[m] = f[m]
  <2>1. m \in Nat /\ m <= Len(z) /\ m <= Len(x) /\ \A j \in 1..m : z[j] = x[j]
    BY <1>3
  <2> QED
    BY <1>3, <1>7, <1>8, <2>1, SamePrefix
<1>11. PICK h : Turns(h, f[Len(x)], s) /\ DeviceAfter(f[Len(x)], s) = h[Len(s)]
  BY <1>6, <1>9, DeviceTurns
<1>12. g[m + n] = h[n]
  <2>1. /\ m \in Nat /\ n \in Nat /\ m + n <= Len(z) /\ n <= Len(s) /\ g[m] = h[0]
        /\ n \in 0..n
    BY <1>3, <1>6, <1>9, <1>10, <1>11 DEF Turns
  <2>2. Matches(z, s, m, 1..n)
    BY <1>6 DEF Matches
  <2> HIDE DEF n
  <2>3. Matches(g, h, m, 0..n)
    <3> DEFINE d == f[Len(x)]
    <3>1. /\ z \in Seq(Bytes) /\ s \in Seq(Bytes) /\ Turns(g, down, z) /\ Turns(h, d, s)
          /\ m \in Nat /\ n \in Nat /\ m + n <= Len(z) /\ n <= Len(s) /\ g[m] = h[0]
      BY <1>3, <1>6, <1>8, <1>11, <2>1
    <3> HIDE DEF d
    <3> QED
      BY ONLY <2>2, <3>1, SameTurns
  <2> QED
    BY <2>1, <2>3 DEF Matches
<1>13. m + n = Len(z)
  BY <1>3
<1>14. DeviceAfter(DeviceAfter(down, x), s) = DeviceAfter(down, z)
  BY <1>6, <1>7, <1>8, <1>11, <1>12, <1>13
<1> QED
  BY <1>1, <1>4, <1>5, <1>6, <1>14 DEF z

-----------------------------------------------------------------------------
(* The server with one client, and with none                               *)

One(c, events) ==
  [clients |-> <<c>>, active_client |-> 0, for_client |-> events, open |-> {c}]

\* The fields of a server with one client.
LEMMA OneFields ==
  ASSUME NEW c, NEW events
  PROVE  /\ One(c, events).clients = <<c>> /\ One(c, events).active_client = 0
         /\ One(c, events).for_client = events /\ One(c, events).open = {c}
         /\ HasClients(One(c, events)) /\ ActiveClient(One(c, events)) = c
  BY DEF One, HasClients, ActiveClient

\* The fields of a server that nobody has connected to (server_init).
LEMMA NewServerFields ==
  /\ NewServer.clients = <<>> /\ NewServer.active_client = 0
  /\ NewServer.for_client = <<>> /\ NewServer.open = {} /\ ~HasClients(NewServer)
  BY DEF NewServer, HasClients

\* the assignments of the server's operators, and a server by its fields
Server(a, i, e, o) == [clients |-> a, active_client |-> i, for_client |-> e, open |-> o]
WithEvents(s, e)   == [s EXCEPT !.for_client = e]
WithClients(s, a, o) == [s EXCEPT !.clients = a, !.open = o]
WithAll(s, a, i, e, o) ==
  [s EXCEPT !.open = o, !.clients = a, !.active_client = i, !.for_client = e]

\* An assignment to the events that wait for the client.
LEMMA EventsAssigned ==
  ASSUME NEW a, NEW i, NEW e, NEW o, NEW x
  PROVE  WithEvents(Server(a, i, e, o), x) = Server(a, i, x, o)
  BY DEF WithEvents, Server

\* An assignment to the list of clients.
LEMMA ClientsAssigned ==
  ASSUME NEW a, NEW i, NEW e, NEW o, NEW x, NEW y
  PROVE  WithClients(Server(a, i, e, o), x, y) = Server(x, i, e, y)
<1> DEFINE s == Server(a, i, e, o)
<1>1. WithClients(s, x, y) = [[s EXCEPT !.clients = x] EXCEPT !.open = y]
  <2> HIDE DEF s
  <2> QED
    BY Zenon DEF WithClients
<1>2. [s EXCEPT !.clients = x] = Server(x, i, e, o)
  BY DEF Server
<1>3. [Server(x, i, e, o) EXCEPT !.open = y] = Server(x, i, e, y)
  BY DEF Server
<1> HIDE DEF s
<1>4. WithClients(s, x, y) = Server(x, i, e, y)
  BY <1>1, <1>2, <1>3
<1> QED
  BY <1>4 DEF s

\* An assignment to all fields.
LEMMA AllAssigned ==
  ASSUME NEW a, NEW i, NEW e, NEW o, NEW x, NEW y, NEW z, NEW w
  PROVE  WithAll(Server(a, i, e, o), x, z, w, y) = Server(x, z, w, y)
<1> DEFINE s == Server(a, i, e, o)
<1>1. WithAll(s, x, z, w, y) =
        [[[[s EXCEPT !.open = y] EXCEPT !.clients = x] EXCEPT !.active_client = z]
           EXCEPT !.for_client = w]
  <2> HIDE DEF s
  <2> QED
    BY Zenon DEF WithAll
<1>2. [s EXCEPT !.open = y] = Server(a, i, e, y)
  BY DEF Server
<1>3. [Server(a, i, e, y) EXCEPT !.clients = x] = Server(x, i, e, y)
  BY DEF Server
<1>4. [Server(x, i, e, y) EXCEPT !.active_client = z] = Server(x, z, e, y)
  BY DEF Server
<1>5. [Server(x, z, e, y) EXCEPT !.for_client = w] = Server(x, z, w, y)
  BY DEF Server
<1> HIDE DEF s
<1>6. WithAll(s, x, z, w, y) = Server(x, z, w, y)
  BY <1>1, <1>2, <1>3, <1>4, <1>5
<1> QED
  BY <1>6 DEF s

\* Both servers by their fields.
LEMMA AsServers ==
  ASSUME NEW c, NEW events
  PROVE  /\ One(c, events) = Server(<<c>>, 0, events, {c})
         /\ NewServer = Server(<<>>, 0, <<>>, {})
  BY DEF One, NewServer, Server

\* server_close_client() on the only client
LEMMA CloseTheOne ==
  ASSUME NEW c, NEW events
  PROVE  server_close_client(One(c, events), 0) = NewServer
<1>1. RemoveAt(<<c>>, 1) = <<>>
  BY DEF RemoveAt
<1> DEFINE s == One(c, events)
<1>2. /\ s.clients = <<c>> /\ s.active_client = 0 /\ s.for_client = events /\ s.open = {c}
      /\ s.clients[0 + 1] = c
  BY OneFields
<1>3. server_close_client(s, 0) =
        WithAll(s, RemoveAt(s.clients, 0 + 1),
                   IF s.active_client = 0 THEN 0
                   ELSE IF s.active_client > 0 THEN s.active_client - 1
                   ELSE s.active_client,
                   IF s.active_client = 0 THEN <<>> ELSE s.for_client,
                   s.open \ {s.clients[0 + 1]})
  <2> HIDE DEF s
  <2> QED
    BY DEF server_close_client, WithAll
<1> HIDE DEF s
<1>4. /\ s.open \ {s.clients[0 + 1]} = {} /\ RemoveAt(s.clients, 0 + 1) = <<>>
      /\ s.active_client = 0
  BY <1>1, <1>2
<1>5. server_close_client(s, 0) = WithAll(s, <<>>, 0, <<>>, {})
  BY <1>3, <1>4
<1>6. WithAll(s, <<>>, 0, <<>>, {}) = NewServer
  <2>1. s = Server(<<c>>, 0, events, {c}) /\ NewServer = Server(<<>>, 0, <<>>, {})
    BY AsServers DEF s
  <2>2. WithAll(Server(<<c>>, 0, events, {c}), <<>>, 0, <<>>, {}) = Server(<<>>, 0, <<>>, {})
    BY AllAssigned
  <2> QED
    BY <2>1, <2>2
<1> QED
  BY <1>5, <1>6 DEF s

\* The only client gets all that waits for it, or is closed (server_write_active).
LEMMA WriteToTheOne ==
  ASSUME NEW c, NEW events, NEW fails \in BOOLEAN
  PROVE  WriteActive(One(c, events), fails) = IF fails THEN NewServer ELSE One(c, <<>>)
<1> DEFINE s == One(c, events)
<1>1. s.active_client = 0
  BY OneFields
<1>2. WriteActive(s, fails) =
        IF fails THEN server_close_client(s, s.active_client) ELSE WithEvents(s, <<>>)
  <2> HIDE DEF s
  <2> QED
    BY DEF WriteActive, WithEvents
<1>3. WithEvents(s, <<>>) = One(c, <<>>)
  <2>1. s = Server(<<c>>, 0, events, {c}) /\ One(c, <<>>) = Server(<<c>>, 0, <<>>, {c})
    BY AsServers
  <2>2. WithEvents(Server(<<c>>, 0, events, {c}), <<>>) = Server(<<c>>, 0, <<>>, {c})
    BY EventsAssigned
  <2> HIDE DEF s
  <2> QED
    BY <2>1, <2>2
<1> QED
  BY <1>1, <1>2, <1>3, CloseTheOne

\* The only client is closed if it has hung up (server_close_disconnected).
LEMMA CheckTheOne ==
  ASSUME NEW c, NEW events, NEW eof
  PROVE  CloseDisconnected(One(c, events), eof) =
           IF c \in eof THEN NewServer ELSE One(c, events)
<1> DEFINE s == One(c, events)
           Turn(t, i) ==
             IF s.clients[i] \in eof
             THEN server_close_client(t, (CHOOSE j \in 1..Len(t.clients) :
                                            t.clients[j] = s.clients[i]) - 1)
             ELSE t
           Is(f) == f = [i \in 0..Len(s.clients) |-> IF i = 0 THEN s ELSE Turn(f[i - 1], i)]
           after == CHOOSE f : Is(f)
           f == [i \in 0..1 |-> IF i = 0 THEN s ELSE Turn(s, 1)]
<1>1. s.clients = <<c>> /\ Len(s.clients) = 1 /\ s.clients[1] = c
  BY OneFields
<1>2. Is(f)
  <2> HIDE DEF Turn, s
  <2> QED
    BY <1>1
<1>3. Is(after)
  <2> HIDE DEF Is
  <2> QED
    BY <1>2
<1>4. CloseDisconnected(s, eof) = after[Len(s.clients)]
  BY DEF CloseDisconnected
<1> HIDE DEF after
<1>5. after[1] = Turn(s, 1)
  <2> HIDE DEF Turn, s
  <2> QED
    BY <1>1, <1>3
<1>6. (CHOOSE j \in 1..Len(s.clients) : s.clients[j] = s.clients[1]) - 1 = 0
  <2> HIDE DEF s
  <2> QED
    BY <1>1
<1>7. Turn(s, 1) = IF c \in eof THEN NewServer ELSE s
  BY <1>1, <1>6, CloseTheOne
<1> HIDE DEF s
<1> QED
  BY <1>1, <1>4, <1>5, <1>7 DEF s

\* Nobody is closed if there is nobody.
LEMMA CheckNone ==
  ASSUME NEW eof
  PROVE  CloseDisconnected(NewServer, eof) = NewServer
<1> DEFINE s == NewServer
           Turn(t, i) ==
             IF s.clients[i] \in eof
             THEN server_close_client(t, (CHOOSE j \in 1..Len(t.clients) :
                                            t.clients[j] = s.clients[i]) - 1)
             ELSE t
           Is(f) == f = [i \in 0..Len(s.clients) |-> IF i = 0 THEN s ELSE Turn(f[i - 1], i)]
           after == CHOOSE f : Is(f)
           f == [i \in 0..0 |-> s]
<1>1. Len(s.clients) = 0
  BY NewServerFields
<1>2. Is(f)
  <2> HIDE DEF Turn, s
  <2> QED
    BY <1>1
<1>3. Is(after)
  <2> HIDE DEF Is
  <2> QED
    BY <1>2
<1>4. CloseDisconnected(s, eof) = after[Len(s.clients)]
  BY DEF CloseDisconnected
<1> HIDE DEF after
<1>5. after[0] = s
  <2> HIDE DEF Turn, s
  <2> QED
    BY <1>1, <1>3
<1> QED
  BY <1>1, <1>4, <1>5

\* "make the latest client active and kick the previous client"
LEMMA AcceptAnother ==
  ASSUME NEW a, NEW events, NEW c, c # a
  PROVE  Accept(One(a, events), c) = One(c, events)
<1> DEFINE all == Append(<<a>>, c)
<1>1. Len(all) = 2 /\ SubSeq(all, 2, Len(all) - 1) = <<>>
  <2>1. Len(all) = 2
    OBVIOUS
  <2> HIDE DEF all
  <2>2. Len(all) - 1 = 1
    BY <2>1
  <2> QED
    BY <2>1, <2>2, SubSeqEmpty
<1>2. <<c>> \o <<>> = <<c>> /\ ({a} \cup {c}) \ {a} = {c} /\ MaxClients >= 2
  BY ServerAssumption
<1> HIDE DEF all
<1>3. /\ One(a, events).clients = <<a>> /\ One(a, events).open = {a}
      /\ One(a, events).clients[1] = a
  BY OneFields
<1> DEFINE s == One(a, events)
<1>4. Accept(s, c) = WithClients(s, <<c>> \o SubSeq(all, 2, Len(all) - 1),
                                    (s.open \cup {c}) \ {s.clients[1]})
  <2>1. Append(s.clients, c) = all
    BY <1>3 DEF all
  <2>2. ~(Len(all) > MaxClients) /\ Len(all) # 1
    BY <1>1, <1>2, ServerAssumption
  <2> HIDE DEF s
  <2> QED
    BY <2>1, <2>2 DEF Accept, WithClients
<1> HIDE DEF s
<1>5. Accept(s, c) = WithClients(s, <<c>>, {c})
  BY <1>1, <1>2, <1>3, <1>4 DEF s
<1>6. WithClients(s, <<c>>, {c}) = One(c, events)
  <2>1. s = Server(<<a>>, 0, events, {a}) /\ One(c, events) = Server(<<c>>, 0, events, {c})
    BY AsServers DEF s
  <2>2. WithClients(Server(<<a>>, 0, events, {a}), <<c>>, {c}) = Server(<<c>>, 0, events, {c})
    BY ClientsAssigned
  <2> QED
    BY <2>1, <2>2
<1> QED
  BY <1>5, <1>6 DEF s

\* The first client to connect is the active one (server_accept_client).
LEMMA AcceptFirst ==
  ASSUME NEW c
  PROVE  Accept(NewServer, c) = One(c, <<>>)
<1> DEFINE s == NewServer
<1>1. Append(s.clients, c) = <<c>> /\ Len(<<c>>) = 1 /\ ~(1 > MaxClients) /\ s.open = {}
  BY ServerAssumption, NewServerFields
<1> HIDE DEF s
<1>2. Accept(s, c) = WithClients(s, <<c>>, s.open \cup {c})
  BY <1>1 DEF Accept, WithClients
<1>3. s.open \cup {c} = {c}
  BY <1>1
<1>4. WithClients(s, <<c>>, {c}) = One(c, <<>>)
  BY ClientsAssigned, AsServers DEF s
<1> QED
  BY <1>2, <1>3, <1>4 DEF s

\* The server has one client, or none.
LEMMA OneOrNone ==
  ASSUME TypeOK, OneClientOpen, NoClientNoEvents
  PROVE  \/ server = NewServer
         \/ \E c \in Conns : server = One(c, server.for_client)
<1>1. /\ server = [clients |-> server.clients, active_client |-> server.active_client,
                   for_client |-> server.for_client, open |-> server.open]
      /\ server.clients \in Seq(Conns)
  BY DEF TypeOK, KbdServerType
<1>2. CASE server.clients = <<>>
  <2>1. server.open = {} /\ server.active_client = 0 /\ server.for_client = <<>>
    BY <1>2 DEF OneClientOpen, NoClientNoEvents, HasClients, ToSet
  <2> QED
    BY <1>1, <1>2, <2>1 DEF NewServer
<1>3. CASE server.clients # <<>>
  <2>1. PICK c \in Conns : server.clients = <<c>>
    <3>1. Len(server.clients) = 1
      <4>1. Len(server.clients) # 0 /\ Len(server.clients) \in Nat
        BY <1>1, <1>3, EmptySeq
      <4>2. Len(server.clients) <= 1
        BY DEF OneClientOpen
      <4>3. PICK n \in Nat : n = Len(server.clients)
        BY <4>1
      <4>4. n # 0 /\ n <= 1
        BY <4>1, <4>2, <4>3
      <4>5. n = 1
        BY <4>4
      <4> QED
        BY <4>3, <4>5
    <3>2. server.clients = <<server.clients[1]>> /\ server.clients[1] \in Conns
      BY <1>1, <3>1
    <3> QED
      BY <3>2
  <2>2. server.open = {c} /\ server.active_client = 0
    BY <1>3, <2>1 DEF OneClientOpen, HasClients, ToSet
  <2> QED
    BY <1>1, <2>1, <2>2 DEF One
<1> QED
  BY <1>2, <1>3

-----------------------------------------------------------------------------
(* The invariant holds at the start, and the readers keep it               *)

\* The empty string is one.
LEMMA NothingIsAString == <<>> \in Seq(Bytes) /\ Len(<<>>) = 0 /\ <<>> \o <<>> = <<>>
  OBVIOUS

\* Before anyone connects nothing is sent or read (Init).
LEMMA InitReaderInv == ASSUME Init PROVE ReaderInv
<1>1. TypeOK
  <2>1. NewServer \in KbdServerType
    <3>1. <<>> \in Seq(Conns) /\ 0 \in Nat /\ <<>> \in Seq(Bytes) /\ {} \in SUBSET Conns
      OBVIOUS
    <3> QED
      BY <3>1 DEF NewServer, KbdServerType
  <2>2. Len(<<>>) <= BufSize /\ Len(<<>>) <= 2 * Half
    BY ServerAssumption, ReaderAssumption
  <2> QED
    BY <2>1, <2>2, NewServerFields DEF Init, TypeOK
<1>2. OneClientOpen
  BY NewServerFields DEF Init, OneClientOpen, ToSet
<1>3. NoClientNoEvents
  BY NewServerFields DEF Init, NoClientNoEvents
<1>4. NewcomersAreNew
  BY NewServerFields DEF Init, NewcomersAreNew, Waiting
<1>5. StreamsAreLines
  BY NewServerFields, NothingIsLines, NothingIsAString, LineLenIsNat
  DEF Init, StreamsAreLines
<1>6. BufferInSync
  BY DEF Init, BufferInSync
<1>7. InSync
  BY NewServerFields DEF Init, InSync
<1> QED
  BY <1>1, <1>2, <1>3, <1>4, <1>5, <1>6, <1>7 DEF ReaderInv

\* what the readers do leaves the server as it is
LEMMA ServerStays ==
  ASSUME ReaderInv, UNCHANGED <<server, sink, unseen>>
  PROVE  /\ OneClientOpen' /\ NoClientNoEvents' /\ BufferInSync'
         /\ WholeLines(server.for_client)'
  BY DEF ReaderInv, OneClientOpen, NoClientNoEvents, BufferInSync, StreamsAreLines

\* The active client is in open, a connection of its own.
LEMMA ActiveIsOpen ==
  ASSUME TypeOK, OneClientOpen, NoClientNoEvents, HasClients(server)
  PROVE  /\ ActiveClient(server) \in Conns /\ ActiveClient(server) \in server.open
         /\ server = One(ActiveClient(server), server.for_client)
<1>1. PICK c \in Conns : server = One(c, server.for_client)
  BY OneOrNone, NewServerFields
<1>2. ActiveClient(server) = c /\ server.open = {c}
  BY <1>1, OneFields
<1> QED
  BY <1>1, <1>2

\* A client that connects waits to be accepted.
LEMMA ConnectKeepsInv ==
  ASSUME ReaderInv, NEW c \in Conns, Connect(c)
  PROVE  ReaderInv'
<1> USE DEF ReaderInv
<1>1. /\ peer[c] = "none" /\ peer' = [peer EXCEPT ![c] = "reading"]
      /\ backlog' = Append(backlog, c) /\ backlog \in Seq(Conns)
      /\ peer \in [Conns -> {"none", "reading", "gone"}]
      /\ UNCHANGED <<server, sink, unseen, wire, buffer, device, spoke>>
  BY DEF Connect, serverVars, TypeOK
<1>2. TypeOK'
  BY <1>1 DEF TypeOK
<1>3. /\ Len(backlog') = Len(backlog) + 1 /\ backlog'[Len(backlog) + 1] = c
      /\ \A i \in 1..Len(backlog) : backlog'[i] = backlog[i]
  BY <1>1
<1>4. ~Waiting(c) /\ c \notin server.open /\ wire[c] = <<>> /\ buffer[c] = <<>> /\ device[c] = {}
  BY <1>1 DEF NewcomersAreNew
<1>5. Len(backlog) \in Nat /\ \A i \in 1..Len(backlog') : i \in 1..Len(backlog) \/ i = Len(backlog) + 1
  BY <1>1, <1>3
<1>6. \A d \in Conns : Waiting(d)' => Waiting(d) \/ d = c
  BY <1>3, <1>5 DEF Waiting
<1>7. NewcomersAreNew'
  <2>1. ASSUME NEW i \in 1..Len(backlog'), NEW j \in 1..Len(backlog'), backlog'[i] = backlog'[j]
        PROVE  i = j
    BY <1>3, <1>4, <1>5, <2>1 DEF NewcomersAreNew, Waiting
  <2>2. ASSUME NEW d \in Conns
        PROVE  /\ peer'[d] = "none" => ~Waiting(d)'
               /\ (peer'[d] = "none" \/ Waiting(d)') =>
                    d \notin server'.open /\ wire'[d] = <<>> /\ buffer'[d] = <<>> /\ device'[d] = {}
    <3>1. CASE d = c
      BY <1>1, <1>4, <3>1
    <3>2. CASE d # c
      BY <1>1, <1>6, <3>2 DEF NewcomersAreNew
    <3> QED
      BY <3>1, <3>2
  <2> QED
    BY <2>1, <2>2 DEF NewcomersAreNew
<1>8. StreamsAreLines'
  BY <1>1 DEF StreamsAreLines
<1>9. InSync'
  <2>1. HasClients(server) => ActiveClient(server) # c
    BY <1>4, ActiveIsOpen
  <2> QED
    BY <1>1, <2>1 DEF InSync
<1> QED
  BY <1>1, <1>2, <1>7, <1>8, <1>9, ServerStays

\* a reader that stops leaves nothing on the way to it
LEMMA FinishKeepsInv ==
  ASSUME ReaderInv, NEW c \in Conns, peer[c] = "reading", Finish(c),
         UNCHANGED <<serverVars, backlog, spoke>>
  PROVE  ReaderInv'
<1> USE DEF ReaderInv
<1>1. /\ peer' = [peer EXCEPT ![c] = "gone"] /\ buffer' = [buffer EXCEPT ![c] = <<>>]
      /\ device' = [device EXCEPT ![c] = {}] /\ wire' = [wire EXCEPT ![c] = <<>>]
      /\ UNCHANGED <<server, sink, unseen, backlog, spoke>>
      /\ peer \in [Conns -> {"none", "reading", "gone"}] /\ wire \in [Conns -> Seq(Bytes)]
      /\ buffer \in [Conns -> Seq(Bytes)] /\ device \in [Conns -> SUBSET Keys]
  BY DEF Finish, serverVars, TypeOK
<1>2. /\ peer'[c] = "gone" /\ buffer'[c] = <<>> /\ device'[c] = {} /\ wire'[c] = <<>>
      /\ \A d \in Conns : d # c => /\ peer'[d] = peer[d] /\ buffer'[d] = buffer[d]
                                   /\ device'[d] = device[d] /\ wire'[d] = wire[d]
  BY <1>1
<1>3. TypeOK'
  <2>1. Len(<<>>) <= 2 * Half
    BY ReaderAssumption
  <2>2. \A d \in Conns : Len(buffer'[d]) <= 2 * Half
    BY <1>2, <2>1 DEF TypeOK
  <2> QED
    BY <1>1, <2>2, NothingIsAString DEF TypeOK
<1>4. \A d \in Conns : Waiting(d)' <=> Waiting(d)
  BY <1>1 DEF Waiting
<1>5. NewcomersAreNew'
  <2>1. ASSUME NEW d \in Conns
        PROVE  /\ peer'[d] = "none" => ~Waiting(d)'
               /\ (peer'[d] = "none" \/ Waiting(d)') =>
                    d \notin server'.open /\ wire'[d] = <<>> /\ buffer'[d] = <<>> /\ device'[d] = {}
    <3>1. CASE d = c
      <4>1. Waiting(c) => c \notin server.open
        BY DEF NewcomersAreNew
      <4> QED
        BY <1>1, <1>2, <1>4, <3>1, <4>1
    <3>2. CASE d # c
      BY <1>1, <1>2, <1>4, <3>2 DEF NewcomersAreNew
    <3> QED
      BY <3>1, <3>2
  <2> QED
    BY <1>1, <2>1 DEF NewcomersAreNew
<1>6. StreamsAreLines'
  <2>1. ASSUME NEW d \in Conns
        PROVE  WholeLines(buffer'[d] \o wire'[d]) /\ Len(buffer'[d]) < LineLen
    <3>1. CASE d = c
      <4>1. buffer'[d] \o wire'[d] = <<>> /\ Len(buffer'[d]) = 0
        BY <1>2, <3>1, NothingIsAString
      <4>2. WholeLines(buffer'[d] \o wire'[d])
        BY <4>1, NothingIsLines
      <4> QED
        BY <4>1, <4>2, LineLenIsNat
    <3>2. CASE d # c
      BY <1>2, <3>2 DEF StreamsAreLines
    <3> QED
      BY <3>1, <3>2
  <2> QED
    BY <1>1, <2>1 DEF StreamsAreLines
<1>7. InSync'
  <2>1. HasClients(server) => ActiveClient(server) \in Conns
    BY ActiveIsOpen
  <2> QED
    BY <1>1, <1>2, <2>1 DEF InSync
<1> QED
  BY <1>1, <1>3, <1>5, <1>6, <1>7, ServerStays

\* What a client says to the server is thrown away.
LEMMA SpeakKeepsInv ==
  ASSUME ReaderInv, NEW c \in Conns, Speak(c)
  PROVE  ReaderInv'
<1>1. UNCHANGED <<server, sink, unseen, peer, buffer, device, backlog, wire>>
      /\ spoke' \subseteq Conns
  BY DEF Speak, serverVars, ReaderInv, TypeOK
<1> QED
  BY <1>1
  DEF ReaderInv, TypeOK, OneClientOpen, NoClientNoEvents, NewcomersAreNew, Waiting,
      StreamsAreLines, BufferInSync, InSync

\* A client that hangs up, or reads to the end, leaves the others' streams alone.
LEMMA EndKeepsInv ==
  ASSUME ReaderInv, NEW c \in Conns, HangUp(c) \/ ReadEnd(c)
  PROVE  ReaderInv'
  BY FinishKeepsInv DEF HangUp, ReadEnd

\* read() cuts the stream in two.
LEMMA CutInTwo ==
  ASSUME NEW s \in Seq(Bytes), NEW n \in 0..Len(s)
  PROVE  /\ SubSeq(s, 1, n) \in Seq(Bytes) /\ SubSeq(s, n + 1, Len(s)) \in Seq(Bytes)
         /\ SubSeq(s, 1, n) \o SubSeq(s, n + 1, Len(s)) = s
<1>1. n \in Int /\ 1 \in Int /\ n + 1 \in Int /\ Len(s) \in Int /\ Len(s) \in Nat
  OBVIOUS
<1>2. SubSeq(s, 1, n) \in Seq(Bytes) /\ SubSeq(s, n + 1, Len(s)) \in Seq(Bytes)
  <2>1. \A i \in 1..n : s[i] \in Bytes
    OBVIOUS
  <2>2. \A i \in (n + 1)..Len(s) : s[i] \in Bytes
    OBVIOUS
  <2>3. SubSeq(s, 1, n) \in Seq(Bytes)
    BY ONLY <1>1, <2>1, SubSeqProperties
  <2>4. SubSeq(s, n + 1, Len(s)) \in Seq(Bytes)
    BY ONLY <1>1, <2>2, SubSeqProperties
  <2> QED
    BY <2>3, <2>4
<1>3. SubSeq(s, 1, n) \o SubSeq(s, n + 1, Len(s)) = SubSeq(s, 1, Len(s))
  <2>1. 1 \in 1..(Len(s) + 1) /\ n \in (1 - 1)..Len(s) /\ Len(s) \in n..Len(s)
    BY <1>1
  <2> QED
    BY <2>1, ConcatAdjacentSubSeq
<1> QED
  BY <1>2, <1>3, SubSeqFull

\* Putting strings together is associative.
LEMMA Regroup ==
  ASSUME NEW a \in Seq(Bytes), NEW b \in Seq(Bytes), NEW d \in Seq(Bytes)
  PROVE  (a \o b) \o d = a \o (b \o d)
  OBVIOUS

\* main_read's turn: what it does to the device, with what it leaves in the buffer and in
\* the wire, is what the device was to become
LEMMA ReadKeepsInv ==
  ASSUME ReaderInv, NEW c \in Conns, Read(c)
  PROVE  ReaderInv'
<1> USE DEF ReaderInv
<1> DEFINE w == wire[c]
           d == device[c]
           fc == server.for_client
<1>1. PICK n \in 1..Len(w) :
        LET b == EmptyAboveHalf(buffer[c]) \o SubSeq(w, 1, n) IN
        /\ wire' = [wire EXCEPT ![c] = SubSeq(@, n + 1, Len(@))]
        /\ device' = [device EXCEPT ![c] = DeviceAfter(@, b)]
        /\ buffer' = [buffer EXCEPT ![c] = Incomplete(b)]
  BY DEF Read
<1> DEFINE x == buffer[c] \o SubSeq(w, 1, n)
           y == SubSeq(w, n + 1, Len(w))
<1>2. /\ w \in Seq(Bytes) /\ buffer[c] \in Seq(Bytes) /\ d \in SUBSET Keys /\ fc \in Seq(Bytes)
      /\ wire \in [Conns -> Seq(Bytes)] /\ buffer \in [Conns -> Seq(Bytes)]
      /\ device \in [Conns -> SUBSET Keys]
  BY DEF TypeOK, KbdServerType
<1>3. EmptyAboveHalf(buffer[c]) = buffer[c]
  <2>1. Len(buffer[c]) \in Nat /\ Len(buffer[c]) < LineLen
    BY <1>2 DEF StreamsAreLines
  <2> QED
    BY <2>1, LineLenIsNat, ReaderAssumption DEF EmptyAboveHalf
<1>4. n \in 0..Len(w) /\ Len(w) # 0
  BY <1>1, <1>2
<1>5. /\ SubSeq(w, 1, n) \in Seq(Bytes) /\ y \in Seq(Bytes) /\ SubSeq(w, 1, n) \o y = w
  BY <1>2, <1>4, CutInTwo
<1>6. x \in Seq(Bytes) /\ x \o y = buffer[c] \o w
  <2> DEFINE u == SubSeq(w, 1, n)
  <2> DEFINE b == buffer[c]
  <2>1. /\ u \in Seq(Bytes) /\ y \in Seq(Bytes) /\ u \o y = w
        /\ b \in Seq(Bytes)
    BY <1>2, <1>5
  <2> HIDE DEF y, u, w, b
  <2>2. b \o u \in Seq(Bytes)
    BY ONLY <2>1, ConcatParts
  <2>3. (b \o u) \o y = b \o (u \o y)
    BY ONLY <2>1, Regroup
  <2>4. (b \o u) \o y = b \o w
    BY <2>1, <2>3
  <2> QED
    BY <2>2, <2>4 DEF u, b
<1>7. /\ wire'[c] = y /\ device'[c] = DeviceAfter(d, x) /\ buffer'[c] = Incomplete(x)
      /\ \A e \in Conns : e # c => wire'[e] = wire[e] /\ device'[e] = device[e]
                                   /\ buffer'[e] = buffer[e]
  BY <1>1, <1>2, <1>3
<1>8. /\ peer[c] = "reading"
      /\ UNCHANGED <<server, sink, unseen, backlog, peer, spoke>>
  BY DEF Read, serverVars
<1> HIDE DEF x, y, w, d, fc
<1>9. WholeLines(buffer[c] \o w)
  BY DEF StreamsAreLines, w
<1>10. /\ InLines(x \o y) /\ WholeLines(x \o y)
  BY <1>6, <1>9 DEF WholeLines
<1>11. /\ Incomplete(x) \in Seq(Bytes) /\ Len(Incomplete(x)) < LineLen /\ InLines(x)
       /\ WholeLines(Incomplete(x) \o y)
  BY <1>2, <1>5, <1>6, <1>10, DeviceAfterRest
<1>12. DeviceAfter(d, x) \in SUBSET Keys
  BY <1>2, <1>6, <1>11, DeviceAfterType
<1>13. TypeOK'
  <2>1. /\ wire' = [wire EXCEPT ![c] = y] /\ device' = [device EXCEPT ![c] = DeviceAfter(d, x)]
        /\ buffer' = [buffer EXCEPT ![c] = Incomplete(x)]
    BY <1>1, <1>3 DEF x, y, w, d
  <2>2. /\ wire' \in [Conns -> Seq(Bytes)] /\ buffer' \in [Conns -> Seq(Bytes)]
        /\ device' \in [Conns -> SUBSET Keys]
    BY <1>2, <1>5, <1>11, <1>12, <2>1
  <2>3. \A e \in Conns : Len(buffer'[e]) <= 2 * Half
    <3>1. Len(Incomplete(x)) <= 2 * Half
      <4>1. Len(Incomplete(x)) \in Nat
        BY <1>11
      <4> QED
        BY <4>1, <1>11, LineLenIsNat, ReaderAssumption
    <3> QED
      BY <1>7, <3>1 DEF TypeOK
  <2> QED
    BY <1>8, <2>2, <2>3 DEF TypeOK
<1>14. NewcomersAreNew'
  <2>1. ~Waiting(c)
    <3>1. Waiting(c) => w = <<>>
      BY DEF NewcomersAreNew, w
    <3> QED
      BY <1>4, <3>1
  <2>2. \A e \in Conns : Waiting(e)' <=> Waiting(e)
    BY <1>8 DEF Waiting
  <2>3. ASSUME NEW e \in Conns
        PROVE  /\ peer'[e] = "none" => ~Waiting(e)'
               /\ (peer'[e] = "none" \/ Waiting(e)') =>
                    e \notin server'.open /\ wire'[e] = <<>> /\ buffer'[e] = <<>> /\ device'[e] = {}
    <3>1. CASE e = c
      BY <1>8, <2>1, <2>2, <3>1
    <3>2. CASE e # c
      BY <1>7, <1>8, <2>2, <3>2 DEF NewcomersAreNew
    <3> QED
      BY <3>1, <3>2
  <2> QED
    BY <1>8, <2>3 DEF NewcomersAreNew
<1>15. StreamsAreLines'
  <2>1. ASSUME NEW e \in Conns
        PROVE  WholeLines(buffer'[e] \o wire'[e]) /\ Len(buffer'[e]) < LineLen
    <3>1. CASE e = c
      BY <1>7, <1>11, <3>1
    <3>2. CASE e # c
      BY <1>7, <3>2 DEF StreamsAreLines
    <3> QED
      BY <3>1, <3>2
  <2> QED
    BY <1>8, <2>1 DEF StreamsAreLines
<1>16. ActiveClient(server) = c =>
         DeviceAfter(device'[c], (buffer'[c] \o wire'[c]) \o fc)
           = DeviceAfter(d, (buffer[c] \o w) \o fc)
  <2> DEFINE z == y \o fc
  <2>1. z \in Seq(Bytes)
    BY <1>2, <1>5
  <2>2. (Incomplete(x) \o y) \o fc = Incomplete(x) \o z /\ (x \o y) \o fc = x \o z
    <3> DEFINE r == Incomplete(x)
    <3>1. r \in Seq(Bytes) /\ x \in Seq(Bytes) /\ y \in Seq(Bytes) /\ fc \in Seq(Bytes)
      BY <1>2, <1>5, <1>6, <1>11
    <3> HIDE DEF r, z
    <3>2. (r \o y) \o fc = r \o (y \o fc) /\ (x \o y) \o fc = x \o (y \o fc)
      BY ONLY <3>1, Regroup
    <3> QED
      BY <3>2 DEF r, z
  <2>3. InLines(x \o z)
    <3>1. InLines(fc) /\ x \o y \in Seq(Bytes)
      BY <1>2, <1>5, <1>6 DEF StreamsAreLines, WholeLines, fc
    <3>2. InLines((x \o y) \o fc)
      BY <1>2, <1>10, <3>1, LinesAfterLines
    <3> QED
      BY <2>2, <3>2
  <2> HIDE DEF z
  <2>4. DeviceAfter(DeviceAfter(d, x), Incomplete(x) \o z) = DeviceAfter(d, x \o z)
    BY <1>2, <1>6, <2>1, <2>3, DeviceAfterRest
  <2> QED
    BY <1>6, <1>7, <2>2, <2>4
<1>17. InSync'
  <2>1. HasClients(server) => ActiveClient(server) \in Conns
    BY ActiveIsOpen
  <2>2. CASE HasClients(server) /\ ActiveClient(server) = c
    BY <1>8, <1>16, <2>2 DEF InSync, d, w, fc
  <2>3. CASE HasClients(server) /\ ActiveClient(server) # c
    BY <1>7, <1>8, <2>1, <2>3 DEF InSync
  <2>4. CASE ~HasClients(server)
    BY <1>8, <2>4 DEF InSync
  <2> QED
    BY <2>2, <2>3, <2>4
<1> QED
  <2>1. UNCHANGED <<server, sink, unseen>>
    BY <1>8
  <2> QED
    BY <1>13, <1>14, <1>15, <1>17, <2>1, ServerStays

-----------------------------------------------------------------------------
(* The server's steps                                                      *)

\* A server with one client has the type of one.
LEMMA OneIsAServer ==
  ASSUME NEW c \in Conns, NEW events \in Seq(Bytes)
  PROVE  /\ One(c, events) \in KbdServerType
         /\ One(c, events).open = ToSet(One(c, events).clients)
         /\ Len(One(c, events).clients) = 1
<1>1. <<c>> \in Seq(Conns) /\ 0 \in Nat /\ {c} \in SUBSET Conns /\ Len(<<c>>) = 1
  OBVIOUS
<1>2. ToSet(<<c>>) = {c}
  BY DEF ToSet
<1>3. One(c, events) \in KbdServerType
  BY <1>1 DEF One, KbdServerType
<1> QED
  BY <1>1, <1>2, <1>3, OneFields

\* A server without clients has the type of one.
LEMMA NewIsAServer ==
  /\ NewServer \in KbdServerType /\ NewServer.open = ToSet(NewServer.clients)
  /\ Len(NewServer.clients) = 0
<1>1. <<>> \in Seq(Conns) /\ 0 \in Nat /\ <<>> \in Seq(Bytes) /\ {} \in SUBSET Conns
      /\ Len(<<>>) = 0 /\ ToSet(<<>>) = {}
  BY DEF ToSet
<1>2. NewServer \in KbdServerType
  BY <1>1 DEF NewServer, KbdServerType
<1> QED
  BY <1>1, <1>2, NewServerFields

\* server_send_event() appends a whole line, or nothing.
LEMMA SendToTheOne ==
  ASSUME NEW c, NEW events, NEW ev
  PROVE  server_send_event(One(c, events), ev) =
           IF Len(events) + LineLen <= BufSize THEN One(c, events \o Line(ev))
           ELSE One(c, events)
<1> DEFINE s == One(c, events)
<1>1. HasClients(s) /\ s.for_client = events
  BY OneFields
<1>2. s = Server(<<c>>, 0, events, {c})
      /\ One(c, events \o Line(ev)) = Server(<<c>>, 0, events \o Line(ev), {c})
  BY AsServers
<1> HIDE DEF s
<1>3. server_send_event(s, ev) =
        IF Len(events) + LineLen <= BufSize THEN WithEvents(s, s.for_client \o Line(ev)) ELSE s
  BY <1>1 DEF server_send_event, Buffers, WithEvents
<1>4. WithEvents(s, events \o Line(ev)) = Server(<<c>>, 0, events \o Line(ev), {c})
  BY <1>2, EventsAssigned
<1> QED
  BY <1>1, <1>2, <1>3, <1>4 DEF s

\* An event is dropped if there is no client (server_send_event).
LEMMA SendToNone ==
  ASSUME NEW ev
  PROVE  server_send_event(NewServer, ev) = NewServer
  BY NewServerFields DEF server_send_event, Buffers

\* An event says of its key what the sink then says, and of the others nothing.
LEMMA PressedAgree ==
  ASSUME NEW ev \in KeyEvents, NEW down \in SUBSET Keys, NEW S \in SUBSET Keys, NEW k \in Keys,
         k # ev.code => (k \in down <=> k \in S)
  PROVE  /\ k \in Pressed(down, ev) <=> k \in Pressed(S, ev)
         /\ Pressed(down, ev) \in SUBSET Keys
  BY DEF Pressed, KeyEvents

\* An event changes its own key only.
LEMMA PressedOther ==
  ASSUME NEW ev, NEW S, NEW k, k # ev.code
  PROVE  k \in Pressed(S, ev) <=> k \in S
  BY DEF Pressed

\* the event is dropped, and its key unseen
LEMMA DroppedKeepsInv ==
  ASSUME ReaderInv, NEW ev \in KeyEvents, SendEvent(ev), server' = server
  PROVE  ReaderInv'
<1> USE DEF ReaderInv
<1>1. /\ sink' = Pressed(sink, ev) /\ unseen' = unseen \cup {ev.code}
      /\ UNCHANGED <<server, peer, buffer, device, spoke, backlog, wire>>
  BY DEF SendEvent, readerVars
<1>2. TypeOK'
  BY <1>1 DEF TypeOK, Pressed, KeyEvents
<1>3. OneClientOpen' /\ NoClientNoEvents' /\ NewcomersAreNew' /\ StreamsAreLines'
  BY <1>1 DEF OneClientOpen, NoClientNoEvents, NewcomersAreNew, Waiting, StreamsAreLines
<1>4. \A k \in Keys \ unseen' : k \in Keys \ unseen /\ (k \in sink' <=> k \in sink)
  BY <1>1, PressedOther
<1>5. BufferInSync'
  BY <1>1, <1>4 DEF BufferInSync
<1>6. InSync'
  BY <1>1, <1>4 DEF InSync
<1> QED
  BY <1>2, <1>3, <1>5, <1>6

\* the event is buffered, behind whole lines
LEMMA BufferedKeepsInv ==
  ASSUME ReaderInv, NEW ev \in KeyEvents, SendEvent(ev), server' # server
  PROVE  ReaderInv'
<1> USE DEF ReaderInv
<1> DEFINE fc == server.for_client
           a  == ActiveClient(server)
<1>1. /\ sink' = Pressed(sink, ev) /\ server' = server_send_event(server, ev)
      /\ unseen' = unseen \ {ev.code}
      /\ UNCHANGED <<peer, buffer, device, spoke, backlog, wire>>
  BY DEF SendEvent, readerVars
<1>2. HasClients(server)
  <2>1. ~HasClients(server) => server = NewServer
    BY OneOrNone, OneFields
  <2> QED
    BY <1>1, <2>1, SendToNone
<1>3. a \in Conns /\ a \in server.open /\ server = One(a, fc) /\ fc \in Seq(Bytes)
  BY <1>2, ActiveIsOpen DEF TypeOK, KbdServerType
<1> HIDE DEF fc, a
<1>4. server' = One(a, fc \o Line(ev)) /\ Len(fc) + LineLen <= BufSize
  <2>1. server' = server_send_event(One(a, fc), ev)
    BY <1>1, <1>3
  <2> QED
    BY <1>3, <2>1, SendToTheOne
<1> DEFINE l  == Line(ev)
           fl == fc \o l
<1>5. /\ l \in Seq(Bytes) /\ Len(l) = LineLen /\ \A j \in 1..LineLen : l[j].ev = ev
      /\ WholeLines(l)
  <2>1. /\ l \in Seq(Bytes) /\ Len(l) = LineLen
        /\ \A j \in 1..LineLen : l[j] = [ev |-> ev, part |-> j]
    BY LineFields
  <2>2. WholeLines(l)
    BY LineIsWhole
  <2> HIDE DEF l
  <2> QED
    BY <2>1, <2>2
<1> HIDE DEF l
<1>6. /\ fl \in Seq(Bytes) /\ Len(fl) = Len(fc) + LineLen
      /\ \A i \in 1..Len(fc) : fl[i] = fc[i]
      /\ \A i \in 1..Len(l) : fl[Len(fc) + i] = l[i]
  BY <1>3, <1>5
<1> HIDE DEF fl
<1>7. /\ server' = One(a, fl) /\ server'.for_client = fl /\ server'.clients = <<a>>
      /\ server'.active_client = 0 /\ server'.open = {a} /\ server.open = {a}
      /\ HasClients(server') /\ ActiveClient(server') = a
  <2>1. server' = One(a, fl)
    BY <1>4 DEF fl, l
  <2> QED
    BY <1>3, <2>1, OneFields
<1>8. /\ server' \in KbdServerType /\ server'.open = ToSet(server'.clients)
      /\ Len(server'.clients) = 1
  BY <1>3, <1>6, <1>7, OneIsAServer
<1>9. TypeOK'
  <2>1. Len(fl) <= BufSize
    BY <1>4, <1>6
  <2>2. sink' \subseteq Keys /\ unseen' \subseteq Keys
    BY <1>1 DEF TypeOK, Pressed, KeyEvents
  <2>3. 0 < 1
    OBVIOUS
  <2> QED
    BY <1>1, <1>7, <1>8, <2>1, <2>2, <2>3 DEF TypeOK
<1>10. OneClientOpen' /\ NoClientNoEvents'
  <2>1. 1 <= 1
    OBVIOUS
  <2> QED
    BY <1>7, <1>8, <2>1 DEF OneClientOpen, NoClientNoEvents
<1>11. NewcomersAreNew'
  BY <1>1, <1>7 DEF NewcomersAreNew, Waiting
<1>12. WholeLines(fl) /\ WholeLines(fc)
  <2>1. WholeLines(fc)
    BY DEF StreamsAreLines, fc
  <2>2. InLines(l)
    BY <1>5 DEF WholeLines
  <2> QED
    BY <1>3, <1>5, <2>1, <2>2, LinesAfterLines DEF fl
<1>13. StreamsAreLines'
  BY <1>1, <1>7, <1>12 DEF StreamsAreLines
<1>14. BufferInSync'
  <2> DEFINE down == DeviceAfter({}, fc)
  <2>1. {} \in SUBSET Keys /\ InLines(fc)
    BY <1>12 DEF WholeLines
  <2>2. down \in SUBSET Keys /\ DeviceAfter({}, fl) = Pressed(down, ev)
    BY <1>3, <1>12, <2>1, DeviceAfterType, DeviceAfterLine DEF fl, l
  <2> SUFFICES ASSUME NEW k \in Keys, k \notin unseen',
                      NEW i \in 1..Len(fl), fl[i].ev.code = k
               PROVE  k \in DeviceAfter({}, fl) <=> k \in sink'
    BY <1>7 DEF BufferInSync
  <2>3. k # ev.code => k \notin unseen /\ i \in 1..Len(fc) /\ fc[i].ev.code = k
    <3>1. CASE i \in 1..Len(fc)
      BY <1>1, <1>6, <3>1
    <3>2. CASE ~(i \in 1..Len(fc))
      <4>1. i - Len(fc) \in 1..LineLen /\ i = Len(fc) + (i - Len(fc))
        BY <1>3, <1>6, <3>2, LineLenIsNat
      <4>2. PICK j \in 1..LineLen : i = Len(fc) + j
        BY <4>1
      <4> QED
        BY <1>5, <1>6, <4>2
    <3> QED
      BY <3>1, <3>2
  <2>4. k # ev.code => (k \in down <=> k \in sink)
    BY <2>3 DEF BufferInSync, fc
  <2> HIDE DEF down
  <2>5. down \in SUBSET Keys /\ sink \in SUBSET Keys
    BY <2>2 DEF TypeOK
  <2> QED
    BY <1>1, <2>2, <2>4, <2>5, PressedAgree
<1>15. InSync'
  <2> DEFINE on == buffer[a] \o wire[a]
             d == device[a]
             down == DeviceAfter(d, on \o fc)
  <2>1. on \in Seq(Bytes) /\ d \in SUBSET Keys /\ WholeLines(on)
    BY <1>3 DEF TypeOK, StreamsAreLines
  <2>2. on \o fl = (on \o fc) \o l
    <3> HIDE DEF on
    <3> QED
      BY <1>3, <1>5, <2>1, Regroup DEF fl
  <2>3. on \o fc \in Seq(Bytes) /\ WholeLines(on \o fc) /\ InLines(on \o fc)
    <3> HIDE DEF on
    <3>1. InLines(fc) /\ on \o fc \in Seq(Bytes)
      BY <1>3, <1>12, <2>1 DEF WholeLines
    <3>2. WholeLines(on \o fc)
      BY <1>3, <1>12, <2>1, <3>1, LinesAfterLines
    <3> QED
      BY <3>1, <3>2 DEF WholeLines
  <2> HIDE DEF on, d
  <2>4. down \in SUBSET Keys /\ DeviceAfter(d, on \o fl) = Pressed(down, ev)
    <3> DEFINE x == on \o fc
    <3>1. x \in Seq(Bytes) /\ WholeLines(x) /\ InLines(x) /\ d \in SUBSET Keys
      BY <2>1, <2>3
    <3> HIDE DEF x
    <3>2. DeviceAfter(d, x) \in SUBSET Keys
      BY <3>1, DeviceAfterType
    <3>3. DeviceAfter(d, x \o Line(ev)) = Pressed(DeviceAfter(d, x), ev)
      BY <3>1, DeviceAfterLine
    <3> QED
      BY <2>2, <3>2, <3>3 DEF x, l
  <2> SUFFICES ASSUME peer[a] = "reading", NEW k \in Keys, k \notin unseen'
               PROVE  k \in DeviceAfter(d, on \o fl) <=> k \in sink'
    BY <1>1, <1>7 DEF InSync, d, on
  <2>5. k # ev.code => (k \in down <=> k \in sink)
    BY <1>1, <1>2 DEF InSync, d, on, fc, a
  <2> HIDE DEF down
  <2>6. down \in SUBSET Keys /\ sink \in SUBSET Keys
    BY <2>4 DEF TypeOK
  <2> QED
    BY <1>1, <2>4, <2>5, <2>6, PressedAgree
<1> QED
  BY <1>9, <1>10, <1>11, <1>13, <1>14, <1>15

\* An event of a keyboard becomes a line for the client, or is dropped.
LEMMA SendKeepsInv ==
  ASSUME ReaderInv, NEW ev \in KeyEvents, SendEvent(ev)
  PROVE  ReaderInv'
  BY DroppedKeepsInv, BufferedKeepsInv

\* What a pass of the select loop leaves: no client, the client as it was, or the client
\* with all of the buffer written to it.
Checked(s, accept) ==
  /\ server' = IF accept THEN Accept(s, Head(backlog)) ELSE s
  /\ unseen' = IF accept THEN UnseenBy(s, HasClients(s)) ELSE unseen
  /\ \/ s = NewServer
     \/ HasClients(server) /\ s = server /\ wire' = wire
     \/ /\ HasClients(server) /\ s = One(ActiveClient(server), <<>>)
        /\ ActiveClient(server) \notin Gone =>
             wire' = [wire EXCEPT ![ActiveClient(server)] = @ \o server.for_client]

\* What one turn of the server does: to the list of clients, and to the active one's
\* stream.
LEMMA SelectEffect ==
  ASSUME ReaderInv, NEW writable \in BOOLEAN, NEW eof, NEW accept \in BOOLEAN,
         HandleSelect(writable, eof, accept)
  PROVE  /\ \E s : Checked(s, accept)
         /\ \/ wire' = wire
            \/ /\ HasClients(server)
               /\ wire' = [wire EXCEPT ![ActiveClient(server)] = @ \o server.for_client]
         /\ backlog' = IF accept THEN Tail(backlog) ELSE backlog
         /\ UNCHANGED <<sink, peer, buffer, device, spoke>>
<1> USE DEF ReaderInv
<1> DEFINE a  == ActiveClient(server)
           fc == server.for_client
           Written(fails) == IF writable THEN WriteActive(server, fails) ELSE server
<1>1. PICK fails \in BOOLEAN :
        /\ writable => HasClients(server)
        /\ fails => writable
        /\ server' = IF accept THEN Accept(CloseDisconnected(Written(fails), eof), Head(backlog))
                     ELSE CloseDisconnected(Written(fails), eof)
        /\ backlog' = IF accept THEN Tail(backlog) ELSE backlog
        /\ wire' = IF writable /\ a \notin Gone THEN [wire EXCEPT ![a] = @ \o fc] ELSE wire
        /\ unseen' = IF accept
                     THEN UnseenBy(CloseDisconnected(Written(fails), eof),
                                   HasClients(CloseDisconnected(Written(fails), eof)))
                     ELSE unseen
        /\ UNCHANGED <<sink, peer, buffer, device, spoke>>
  BY DEF HandleSelect, WantsToWrite, readerVars
<1> DEFINE s == CloseDisconnected(Written(fails), eof)
<1>2. \/ ~HasClients(server) /\ server = NewServer
      \/ HasClients(server) /\ server = One(a, fc)
  BY OneOrNone, OneFields, NewServerFields, ActiveIsOpen
<1>3. \/ s = NewServer
      \/ HasClients(server) /\ s = server /\ wire' = wire
      \/ /\ HasClients(server) /\ s = One(a, <<>>)
         /\ a \notin Gone => wire' = [wire EXCEPT ![a] = @ \o fc]
  <2>1. CASE ~HasClients(server)
    <3>1. Written(fails) = NewServer
      BY <1>1, <1>2, <2>1
    <3> QED
      BY <3>1, CheckNone
  <2>2. CASE HasClients(server) /\ ~writable
    <3>1. Written(fails) = One(a, fc)
      BY <1>2, <2>2
    <3>2. s = NewServer \/ s = One(a, fc)
      BY <3>1, CheckTheOne
    <3> HIDE DEF s
    <3> QED
      BY <1>1, <1>2, <2>2, <3>2
  <2>3. CASE HasClients(server) /\ writable
    <3>1. Written(fails) = IF fails THEN NewServer ELSE One(a, <<>>)
      <4>1. Written(fails) = WriteActive(One(a, fc), fails)
        BY <1>2, <2>3
      <4> HIDE DEF a, fc, Written
      <4> QED
        BY <4>1, WriteToTheOne
    <3>2. s = NewServer \/ s = One(a, <<>>)
      BY <3>1, CheckTheOne, CheckNone
    <3> HIDE DEF s
    <3> QED
      BY <1>1, <2>3, <3>2
  <2> QED
    BY <2>1, <2>2, <2>3
<1>4. Checked(s, accept)
  <2>1. /\ server' = IF accept THEN Accept(s, Head(backlog)) ELSE s
        /\ unseen' = IF accept THEN UnseenBy(s, HasClients(s)) ELSE unseen
    BY <1>1
  <2> HIDE DEF s
  <2> QED
    BY <1>3, <2>1 DEF Checked
<1>5. \E t : Checked(t, accept)
  BY <1>4
<1>6. wire' = wire \/ (HasClients(server) /\ wire' = [wire EXCEPT ![a] = @ \o fc])
  BY <1>1
<1> QED
  BY <1>1, <1>5, <1>6

\* What a client has been written is whole lines.
LEMMA WireKept ==
  ASSUME ReaderInv,
         \/ wire' = wire
         \/ /\ HasClients(server)
            /\ wire' = [wire EXCEPT ![ActiveClient(server)] = @ \o server.for_client],
         buffer' = buffer
  PROVE  /\ wire' \in [Conns -> Seq(Bytes)]
         /\ \A d \in Conns : WholeLines(buffer'[d] \o wire'[d]) /\ Len(buffer'[d]) < LineLen
         /\ \A d \in Conns : d \notin server.open => wire'[d] = wire[d]
<1> USE DEF ReaderInv
<1>1. CASE wire' = wire
  BY <1>1 DEF TypeOK, StreamsAreLines
<1>2. CASE wire' # wire
  <2> DEFINE a  == ActiveClient(server)
             fc == server.for_client
  <2>1. HasClients(server) /\ wire' = [wire EXCEPT ![a] = @ \o fc]
    BY <1>2
  <2>2. a \in Conns /\ a \in server.open
    BY <2>1, ActiveIsOpen
  <2>3. /\ fc \in Seq(Bytes) /\ wire \in [Conns -> Seq(Bytes)] /\ wire[a] \in Seq(Bytes)
        /\ buffer[a] \in Seq(Bytes)
    BY <2>2 DEF TypeOK, KbdServerType
  <2>4. WholeLines(fc) /\ WholeLines(buffer[a] \o wire[a]) /\ InLines(fc)
    BY <2>2 DEF StreamsAreLines, WholeLines
  <2> HIDE DEF a, fc
  <2>5. wire' \in [Conns -> Seq(Bytes)] /\ wire'[a] = wire[a] \o fc
        /\ \A d \in Conns : d # a => wire'[d] = wire[d]
    BY <2>1, <2>2, <2>3
  <2>6. WholeLines(buffer[a] \o (wire[a] \o fc))
    <3> DEFINE b == buffer[a]
               w == wire[a]
    <3>1. b \in Seq(Bytes) /\ w \in Seq(Bytes) /\ WholeLines(b \o w)
      BY <2>3, <2>4
    <3> HIDE DEF b, w
    <3>2. b \o w \in Seq(Bytes)
      BY <3>1
    <3>3. WholeLines((b \o w) \o fc)
      BY <2>3, <2>4, <3>1, <3>2, LinesAfterLines
    <3>4. (b \o w) \o fc = b \o (w \o fc)
      BY <2>3, <3>1, Regroup
    <3> QED
      BY <3>3, <3>4 DEF b, w
  <2>7. ASSUME NEW d \in Conns
        PROVE  WholeLines(buffer'[d] \o wire'[d]) /\ Len(buffer'[d]) < LineLen
    <3>1. CASE d = a
      BY <2>5, <2>6, <3>1 DEF StreamsAreLines
    <3>2. CASE d # a
      BY <2>5, <3>2 DEF StreamsAreLines
    <3> QED
      BY <3>1, <3>2
  <2> QED
    BY <2>2, <2>5, <2>7
<1> QED
  BY <1>1, <1>2

\* A newcomer comes to know of the keys in the buffer it inherits and of no others.
LEMMA NewcomerSees ==
  ASSUME NEW s, NEW k \in Keys, NEW kicked, k \notin UnseenBy(s, kicked)
  PROVE  /\ kicked => k \notin unseen
         /\ \E i \in DOMAIN s.for_client : s.for_client[i].ev.code = k
  BY DEF UnseenBy

\* The keys whose release a client has not been told of are keys.
LEMMA UnseenType ==
  ASSUME TypeOK, NEW s, NEW kicked
  PROVE  UnseenBy(s, kicked) \subseteq Keys
  BY DEF UnseenBy, TypeOK

\* the five servers a pass of the loop can leave
LEMMA ServersAfterSelect ==
  ASSUME ReaderInv, NEW accept \in BOOLEAN, accept => backlog # <<>>,
         NEW s, Checked(s, accept)
  PROVE  LET a  == ActiveClient(server)
             h  == Head(backlog)
             fc == server.for_client
         IN
         /\ unseen' \subseteq Keys
         /\ \/ ~accept /\ server' = NewServer
            \/ ~accept /\ HasClients(server) /\ server' = server /\ wire' = wire
               /\ unseen' = unseen
            \/ /\ ~accept /\ HasClients(server) /\ server' = One(a, <<>>) /\ unseen' = unseen
               /\ a \notin Gone => wire' = [wire EXCEPT ![a] = @ \o fc]
            \/ /\ accept /\ server' = One(h, <<>>)
               /\ \A k \in Keys : k \in unseen'
            \/ /\ accept /\ HasClients(server) /\ server' = One(h, fc) /\ wire' = wire
               /\ \A k \in Keys : k \notin unseen' =>
                    k \notin unseen /\ \E i \in 1..Len(fc) : fc[i].ev.code = k
<1> USE DEF ReaderInv
<1> DEFINE a  == ActiveClient(server)
           h  == Head(backlog)
           fc == server.for_client
<1>1. /\ server' = IF accept THEN Accept(s, h) ELSE s
      /\ unseen' = IF accept THEN UnseenBy(s, HasClients(s)) ELSE unseen
      /\ \/ s = NewServer
         \/ HasClients(server) /\ s = server /\ wire' = wire
         \/ /\ HasClients(server) /\ s = One(a, <<>>)
            /\ a \notin Gone => wire' = [wire EXCEPT ![a] = @ \o fc]
  BY DEF Checked
<1>2. unseen' \subseteq Keys
  BY <1>1, UnseenType DEF TypeOK
<1>3. CASE ~accept
  BY <1>1, <1>2, <1>3
<1>4. CASE accept
  <2>1. h \in Conns /\ h \notin server.open
    <3>1. backlog \in Seq(Conns) /\ backlog # <<>>
      BY <1>4 DEF TypeOK
    <3>2. 1 \in 1..Len(backlog) /\ h = backlog[1] /\ h \in Conns
      BY <3>1
    <3>3. Waiting(h)
      BY <3>2 DEF Waiting
    <3> QED
      BY <3>2, <3>3 DEF NewcomersAreNew
  <2>2. HasClients(server) => a \in server.open /\ server = One(a, fc) /\ h # a
    BY <2>1, ActiveIsOpen
  <2>3. DOMAIN fc = 1..Len(fc)
    BY DEF TypeOK, KbdServerType
  <2>4. DOMAIN <<>> = {}
    OBVIOUS
  <2>5. \A k \in Keys : k \notin unseen' =>
          /\ HasClients(s) => k \notin unseen
          /\ \E i \in DOMAIN s.for_client : s.for_client[i].ev.code = k
    BY <1>1, <1>4, NewcomerSees
  <2>6. server' = Accept(s, h)
    BY <1>1, <1>4
  <2> HIDE DEF a, h, fc
  <2>7. CASE s = NewServer
    <3>1. server' = One(h, <<>>)
      BY <2>6, <2>7, AcceptFirst
    <3>2. s.for_client = <<>>
      BY <2>7, NewServerFields
    <3>3. \A k \in Keys : k \in unseen'
      BY <2>4, <2>5, <3>2
    <3> QED
      BY <1>2, <1>4, <3>1, <3>3 DEF h
  <2>8. CASE HasClients(server) /\ s = server /\ wire' = wire
    <3>1. server' = One(h, fc)
      <4>1. server' = Accept(One(a, fc), h) /\ h # a
        BY <2>2, <2>6, <2>8
      <4> QED
        BY <4>1, AcceptAnother
    <3>2. \A k \in Keys : k \notin unseen' =>
            k \notin unseen /\ \E i \in 1..Len(fc) : fc[i].ev.code = k
      BY <2>3, <2>5, <2>8 DEF fc
    <3> QED
      BY <1>2, <1>4, <2>8, <3>1, <3>2 DEF h, fc
  <2>9. CASE HasClients(server) /\ s = One(a, <<>>)
    <3>1. server' = One(h, <<>>)
      BY <2>2, <2>6, <2>9, AcceptAnother
    <3>2. s.for_client = <<>>
      BY <2>9, OneFields
    <3>3. \A k \in Keys : k \in unseen'
      BY <2>4, <2>5, <3>2
    <3> QED
      BY <1>2, <1>4, <3>1, <3>3 DEF h
  <2> QED
    BY <1>1, <2>7, <2>8, <2>9 DEF a
<1> QED
  BY <1>3, <1>4

\* server_handle_select() as a whole
LEMMA SelectKeepsInv ==
  ASSUME ReaderInv, NEW writable \in BOOLEAN, NEW eof, NEW accept \in BOOLEAN,
         accept => backlog # <<>>, HandleSelect(writable, eof, accept)
  PROVE  ReaderInv'
<1> USE DEF ReaderInv
<1> DEFINE a  == ActiveClient(server)
           h  == Head(backlog)
           fc == server.for_client
<1>1. /\ backlog' = IF accept THEN Tail(backlog) ELSE backlog
      /\ UNCHANGED <<sink, peer, buffer, device, spoke>>
  BY SelectEffect
<1>2. /\ wire' \in [Conns -> Seq(Bytes)]
      /\ \A d \in Conns : WholeLines(buffer'[d] \o wire'[d]) /\ Len(buffer'[d]) < LineLen
      /\ \A d \in Conns : d \notin server.open => wire'[d] = wire[d]
  <2>1. \/ wire' = wire
        \/ HasClients(server) /\ wire' = [wire EXCEPT ![a] = @ \o fc]
    BY SelectEffect
  <2> QED
    BY <1>1, <2>1, WireKept
<1>3. /\ unseen' \subseteq Keys
      /\ \/ ~accept /\ server' = NewServer
         \/ ~accept /\ HasClients(server) /\ server' = server /\ wire' = wire
            /\ unseen' = unseen
         \/ /\ ~accept /\ HasClients(server) /\ server' = One(a, <<>>) /\ unseen' = unseen
            /\ a \notin Gone => wire' = [wire EXCEPT ![a] = @ \o fc]
         \/ /\ accept /\ server' = One(h, <<>>)
            /\ \A k \in Keys : k \in unseen'
         \/ /\ accept /\ HasClients(server) /\ server' = One(h, fc) /\ wire' = wire
            /\ \A k \in Keys : k \notin unseen' =>
                 k \notin unseen /\ \E i \in 1..Len(fc) : fc[i].ev.code = k
  <2>1. PICK s : Checked(s, accept)
    BY SelectEffect
  <2> QED
    BY <2>1, ServersAfterSelect
<1>4. /\ fc \in Seq(Bytes) /\ Len(fc) <= BufSize /\ WholeLines(fc)
      /\ HasClients(server) => a \in Conns /\ a \in server.open /\ server = One(a, fc)
  BY ActiveIsOpen DEF TypeOK, KbdServerType, StreamsAreLines
<1>5. accept => /\ h \in Conns /\ Waiting(h) /\ Tail(backlog) \in Seq(Conns)
                /\ h = backlog[1] /\ 1 \in 1..Len(backlog)
                /\ Len(Tail(backlog)) = Len(backlog) - 1
                /\ \A i \in 1..(Len(backlog) - 1) : Tail(backlog)[i] = backlog[i + 1]
  <2>1. backlog \in Seq(Conns)
    BY DEF TypeOK
  <2>2. accept => h \in Conns /\ h = backlog[1] /\ 1 \in 1..Len(backlog)
    BY <2>1
  <2> QED
    BY <2>1, <2>2 DEF Waiting
<1>6. accept => peer[h] # "none" /\ h \notin server.open /\ wire[h] = <<>> /\ buffer[h] = <<>>
                /\ device[h] = {}
  BY <1>5 DEF NewcomersAreNew
<1> HIDE DEF a, h, fc
<1>7. \/ server' = NewServer
      \/ \E c \in Conns, e \in Seq(Bytes) :
           /\ server' = One(c, e) /\ Len(e) <= BufSize /\ WholeLines(e)
           /\ c \in server.open \/ (accept /\ c = h)
  <2>1. <<>> \in Seq(Bytes) /\ Len(<<>>) <= BufSize /\ WholeLines(<<>>)
    BY NothingIsAString, NothingIsLines, ServerAssumption
  <2> QED
    BY <1>3, <1>4, <1>5, <2>1
<1>8. /\ server' \in KbdServerType /\ server'.open = ToSet(server'.clients)
      /\ Len(server'.clients) <= 1 /\ server'.active_client = 0
      /\ HasClients(server') => 0 < Len(server'.clients)
      /\ ~HasClients(server') => server'.for_client = <<>>
      /\ Len(server'.for_client) <= BufSize /\ WholeLines(server'.for_client)
      /\ \A d \in server'.open : d \in server.open \/ (accept /\ d = h)
  <2>1. CASE server' = NewServer
    <3>1. 0 <= 1 /\ Len(<<>>) <= BufSize
      BY ServerAssumption
    <3> QED
      BY <2>1, <3>1, NewIsAServer, NewServerFields, NothingIsLines
  <2>2. CASE server' # NewServer
    <3>1. PICK c \in Conns, e \in Seq(Bytes) :
            /\ server' = One(c, e) /\ Len(e) <= BufSize /\ WholeLines(e)
            /\ c \in server.open \/ (accept /\ c = h)
      BY <1>7, <2>2
    <3>2. 1 <= 1 /\ 0 < 1
      OBVIOUS
    <3>3. /\ server' \in KbdServerType /\ server'.open = ToSet(server'.clients)
          /\ Len(server'.clients) = 1
      BY <3>1, OneIsAServer
    <3>4. /\ server'.active_client = 0 /\ HasClients(server')
          /\ server'.for_client = e /\ server'.open = {c}
      BY <3>1, OneFields
    <3> QED
      BY <3>1, <3>2, <3>3, <3>4
  <2> QED
    BY <2>1, <2>2
<1>9. TypeOK'
  <2>1. backlog' \in Seq(Conns)
    BY <1>1, <1>5 DEF TypeOK
  <2> QED
    BY <1>1, <1>2, <1>3, <1>8, <2>1 DEF TypeOK
<1>10. OneClientOpen' /\ NoClientNoEvents'
  BY <1>8 DEF OneClientOpen, NoClientNoEvents
<1>11. NewcomersAreNew'
  <2>1. CASE ~accept
    BY <1>1, <1>2, <1>8, <2>1 DEF NewcomersAreNew, Waiting
  <2>2. CASE accept
    <3>1. /\ Len(backlog') = Len(backlog) - 1 /\ Len(backlog) \in Nat
          /\ \A i \in 1..(Len(backlog) - 1) : backlog'[i] = backlog[i + 1]
      BY <1>1, <1>5, <2>2 DEF TypeOK
    <3>2. ASSUME NEW i \in 1..Len(backlog'), NEW j \in 1..Len(backlog'), backlog'[i] = backlog'[j]
          PROVE  i = j
      <4>1. /\ i + 1 \in 1..Len(backlog) /\ j + 1 \in 1..Len(backlog)
            /\ backlog[i + 1] = backlog[j + 1]
        BY <3>1, <3>2
      <4>2. i + 1 = j + 1
        BY <4>1 DEF NewcomersAreNew
      <4> QED
        BY <3>1, <4>2
    <3>3. ASSUME NEW d \in Conns, Waiting(d)'
          PROVE  Waiting(d) /\ d # h
      <4>1. PICK i \in 1..Len(backlog') : backlog'[i] = d
        BY <3>3 DEF Waiting
      <4>2. i + 1 \in 1..Len(backlog) /\ backlog[i + 1] = d /\ i + 1 # 1
        BY <3>1, <4>1
      <4>3. backlog[i + 1] # backlog[1]
        BY <1>5, <2>2, <4>2 DEF NewcomersAreNew
      <4> QED
        BY <1>5, <2>2, <4>2, <4>3 DEF Waiting
    <3>4. ASSUME NEW d \in Conns
          PROVE  /\ peer'[d] = "none" => ~Waiting(d)'
                 /\ (peer'[d] = "none" \/ Waiting(d)') =>
                      d \notin server'.open /\ wire'[d] = <<>> /\ buffer'[d] = <<>>
                      /\ device'[d] = {}
      <4>1. peer'[d] = "none" => d # h /\ ~Waiting(d)
        BY <1>1, <1>6, <2>2 DEF NewcomersAreNew
      <4>2. Waiting(d)' => d # h /\ Waiting(d)
        BY <3>3
      <4> QED
        BY <1>1, <1>2, <1>8, <4>1, <4>2 DEF NewcomersAreNew
    <3> QED
      BY <3>2, <3>4 DEF NewcomersAreNew
  <2> QED
    BY <2>1, <2>2
<1>12. StreamsAreLines'
  BY <1>2, <1>8 DEF StreamsAreLines
<1>13. \A d \in Conns : buffer[d] \in Seq(Bytes) /\ wire[d] \in Seq(Bytes)
  BY DEF TypeOK
<1>14. BufferInSync' /\ InSync'
  <2>1. CASE server'.for_client = <<>> /\ ~HasClients(server')
    BY <2>1, NothingIsAString DEF BufferInSync, InSync
  <2>2. CASE HasClients(server) /\ server' = server /\ wire' = wire /\ unseen' = unseen
    BY <1>1, <2>2 DEF BufferInSync, InSync
  <2>3. CASE /\ HasClients(server) /\ server' = One(a, <<>>) /\ unseen' = unseen
             /\ a \notin Gone => wire' = [wire EXCEPT ![a] = @ \o fc]
    <3>1. server'.for_client = <<>> /\ ActiveClient(server') = a
      BY <2>3, OneFields
    <3>2. ASSUME peer[a] = "reading"
          PROVE  (buffer[a] \o wire'[a]) \o <<>> = (buffer[a] \o wire[a]) \o fc
      <4> DEFINE b == buffer[a]
                 w == wire[a]
      <4>1. a \in Conns /\ wire \in [Conns -> Seq(Bytes)]
        BY <1>4, <2>3 DEF TypeOK
      <4>2. wire'[a] = w \o fc
        BY <2>3, <3>2, <4>1 DEF Gone
      <4>3. b \in Seq(Bytes) /\ w \in Seq(Bytes)
        BY <1>13, <4>1
      <4> HIDE DEF b, w
      <4>4. b \o (w \o fc) = (b \o w) \o fc
        BY <1>4, <4>3, Regroup
      <4>5. b \o (w \o fc) \in Seq(Bytes)
        BY <1>4, <4>3
      <4>6. (b \o (w \o fc)) \o <<>> = b \o (w \o fc)
        BY <4>5
      <4> QED
        BY <4>2, <4>4, <4>6 DEF b, w
    <3>3. InSync'
      BY <1>1, <2>3, <3>1, <3>2 DEF InSync, a, fc
    <3>4. BufferInSync'
      BY <3>1, NothingIsAString DEF BufferInSync
    <3> QED
      BY <3>3, <3>4
  <2>4. CASE \A k \in Keys : k \in unseen'
    BY <2>4 DEF BufferInSync, InSync
  <2>5. CASE /\ accept /\ HasClients(server) /\ server' = One(h, fc) /\ wire' = wire
             /\ \A k \in Keys : k \notin unseen' =>
                  k \notin unseen /\ \E i \in 1..Len(fc) : fc[i].ev.code = k
    <3>1. server'.for_client = fc /\ ActiveClient(server') = h
      BY <2>5, OneFields
    <3>2. ASSUME NEW k \in Keys, k \notin unseen'
          PROVE  k \in DeviceAfter({}, fc) <=> k \in sink'
      BY <1>1, <2>5, <3>2 DEF BufferInSync, fc
    <3>3. device'[h] = {} /\ (buffer'[h] \o wire'[h]) \o fc = fc
      <4>1. buffer'[h] = <<>> /\ wire'[h] = <<>> /\ device'[h] = {}
        BY <1>1, <1>6, <2>5
      <4>2. <<>> \o fc = fc
        BY <1>4
      <4> QED
        BY <4>1, <4>2, NothingIsAString
    <3>4. InSync'
      BY <3>1, <3>2, <3>3 DEF InSync
    <3>5. BufferInSync'
      BY <3>1, <3>2 DEF BufferInSync
    <3> QED
      BY <3>4, <3>5
  <2> QED
    BY <1>3, <2>1, <2>2, <2>3, <2>4, <2>5, NewServerFields
<1> QED
  BY <1>9, <1>10, <1>11, <1>12, <1>14

-----------------------------------------------------------------------------

\* Every step of the server, of the kernel and of the clients keeps ReaderInv.
LEMMA NextKeepsInv ==
  ASSUME ReaderInv, [Next]_vars
  PROVE  ReaderInv'
<1>1. CASE \E ev \in KeyEvents : SendEvent(ev)
  BY <1>1, SendKeepsInv
<1>2. CASE WriteEvents \/ NoticeGone
  BY <1>2, SelectKeepsInv DEF WriteEvents, NoticeGone
<1>3. CASE AcceptNext
  BY <1>3, SelectKeepsInv DEF AcceptNext
<1>4. CASE \E c \in Conns : Connect(c) \/ HangUp(c) \/ Speak(c) \/ Reader(c)
  BY <1>4, ConnectKeepsInv, EndKeepsInv, SpeakKeepsInv, ReadKeepsInv DEF Reader
<1>5. CASE UNCHANGED vars
  BY <1>5 DEF vars, serverVars, readerVars, ReaderInv, TypeOK, OneClientOpen,
              NoClientNoEvents, NewcomersAreNew, Waiting, StreamsAreLines, BufferInSync, InSync
<1> QED
  BY <1>1, <1>2, <1>3, <1>4, <1>5 DEF Next

\* Whatever is pressed, whoever connects, reads, speaks and goes, in whatever order:
\* what the server has written and buffered and a reader has not parsed is whole lines,
\* and they bring the device of the active client to the keys that are down.
THEOREM ReaderInvariant == Spec => []ReaderInv
<1>1. Init => ReaderInv
  BY InitReaderInv
<1>2. ReaderInv /\ [Next]_vars => ReaderInv'
  BY NextKeepsInv
<1> QED
  BY <1>1, <1>2, PTL DEF Spec

\* No buffer of the server (server.c) or of a reader (main_read in sdiol.c) is overrun,
\* and the active client is one of the clients.
THEOREM RemoteTypeCorrect == Spec => []TypeOK
<1>1. ReaderInv => TypeOK
  BY DEF ReaderInv
<1> QED
  BY <1>1, ReaderInvariant, PTL

\* The server has at most one client (server_handle_select), and no other descriptor open.
THEOREM OneClientCorrect == Spec => []OneClientOpen
<1>1. ReaderInv => OneClientOpen
  BY DEF ReaderInv
<1> QED
  BY <1>1, ReaderInvariant, PTL

\* One machine's keyboard works another's: at any number of keys and connections, and at
\* any sizes of the buffers, no event on the way to the active client is torn, doubled or
\* mixed with what was for the client before it (server_close_client, main_read).
THEOREM SyncCorrect == Spec => []InSync
<1>1. ReaderInv => InSync
  BY DEF ReaderInv
<1> QED
  BY <1>1, ReaderInvariant, PTL

-----------------------------------------------------------------------------
(* The events of a stream of lines                                         *)

\* e has the events whose lines have ended, after every byte of b
EventTurns(e, b) ==
  /\ e \in [0..Len(b) -> Seq(KeyEvents)]
  /\ e[0] = <<>>
  /\ \A i \in 1..Len(b) :
       e[i] = IF IsNewline(b[i]) THEN Append(e[i - 1], b[i].ev) ELSE e[i - 1]

\* Every stream of lines has events.
LEMMA EventsHaveTurns ==
  ASSUME NEW b \in Seq(Bytes), InLines(b)
  PROVE  \E e : EventTurns(e, b) /\ EventsIn(b) = e[Len(b)]
<1> DEFINE T == Seq(KeyEvents)
           n == Len(b)
           first == <<>>
           Turn(t, i) == IF ParsesAt(b, i) THEN Append(t, b[i].ev) ELSE t
           step == [i \in 1..n |-> [t \in T |-> Turn(t, i)]]
           Is(f) == f = [i \in 0..n |-> IF i = 0 THEN first ELSE Turn(f[i - 1], i)]
           after == CHOOSE f : Is(f)
<1>1. \A i \in 1..n, t \in T : Turn(t, i) \in T
  BY ByteFields
<1>2. step \in [1..n -> [T -> T]]
  <2> HIDE DEF Turn, T
  <2> QED
    BY <1>1
<1>3. n \in Nat /\ first \in T
  OBVIOUS
<1>4. \A i \in 1..n : i - 1 \in 0..n /\ i # 0 /\ i \in 0..n
  BY <1>3
<1>5. \A i \in 0..n : i # 0 => i \in 1..n
  BY <1>3
<1>6. \A i \in 1..n, t \in T : step[i][t] = Turn(t, i)
  <2> HIDE DEF Turn, T, n
  <2> QED
    OBVIOUS
<1>7. EventsIn(b) = after[n]
  BY DEF EventsIn
<1> HIDE DEF step, T, n, first, Turn
<1>8. \E f \in [0..n -> T] : IsRun(f, first, n, step)
  BY ONLY <1>2, <1>3, LoopRuns
<1>9. PICK f \in [0..n -> T] : IsRun(f, first, n, step)
  BY <1>8
<1>10. f[0] = first /\ \A i \in 1..n : f[i] = step[i][f[i - 1]] /\ f[i - 1] \in T
  BY <1>4, <1>9 DEF IsRun
<1>11. \A i \in 0..n : f[i] = IF i = 0 THEN first ELSE Turn(f[i - 1], i)
  BY <1>5, <1>6, <1>10
<1>12. Is(f)
  BY <1>9, <1>11
<1>13. Is(after)
  <2> HIDE DEF Is
  <2> QED
    BY <1>12
<1> HIDE DEF after
<1>14. after[0] = first /\ \A i \in 1..n : after[i] = Turn(after[i - 1], i)
  <2>1. 0 \in 0..n
    BY <1>3
  <2> QED
    BY <1>4, <1>13, <2>1
<1>15. \A i \in 0..n : after[i] \in T
  <2> DEFINE P == {i \in 0..n : after[i] \in T}
  <2>1. 0 \in P
    BY <1>3, <1>14
  <2>2. ASSUME NEW i \in 1..n, i - 1 \in P
        PROVE  i \in P
    BY <1>1, <1>4, <1>14, <2>2
  <2> HIDE DEF P
  <2>3. \A i \in 0..n : i \in P
    BY <1>3, <2>1, <2>2, UpTo
  <2> QED
    BY <2>3 DEF P
<1>16. after \in [0..n -> T]
  <2>1. after = [i \in 0..n |-> after[i]]
    BY <1>13
  <2> QED
    BY <1>15, <2>1
<1>17. \A i \in 1..n :
         after[i] = IF IsNewline(b[i]) THEN Append(after[i - 1], b[i].ev) ELSE after[i - 1]
  BY <1>14, EventsAreAtNewlines DEF Turn, n
<1> QED
  BY <1>7, <1>14, <1>16, <1>17 DEF EventTurns, T, n, first

\* Half a line has no event.
LEMMA NoNewlineNoEvent ==
  ASSUME NEW b \in Seq(Bytes), NEW e, EventTurns(e, b),
         NEW m \in Nat, NEW n \in Nat, m <= n, n <= Len(b),
         \A i \in (m + 1)..n : ~IsNewline(b[i])
  PROVE  e[n] = e[m]
<1> DEFINE P == {i \in 0..(n - m) : e[m + i] = e[m]}
<1>1. 0 \in P
  OBVIOUS
<1>2. ASSUME NEW i \in 1..(n - m), i - 1 \in P
      PROVE  i \in P
  <2>1. /\ m + i \in (m + 1)..n /\ m + i \in 1..Len(b)
        /\ (m + i) - 1 = m + (i - 1)
    <3>1. Len(b) \in Nat
      OBVIOUS
    <3> QED
      BY <3>1
  <2>2. e[m + i] = e[(m + i) - 1]
    BY <2>1 DEF EventTurns
  <2> QED
    BY <1>2, <2>1, <2>2
<1>3. n - m \in Nat /\ n - m \in 0..(n - m) /\ m + (n - m) = n
  OBVIOUS
<1> HIDE DEF P
<1>4. \A i \in 0..(n - m) : i \in P
  BY <1>1, <1>2, <1>3, UpTo
<1> QED
  BY <1>3, <1>4 DEF P

\* No bytes have no events, and half a line has none.
LEMMA EventsOfPart ==
  ASSUME NEW b \in Seq(Bytes), InLines(b), \A i \in 1..Len(b) : ~IsNewline(b[i])
  PROVE  EventsIn(b) = <<>>
<1>1. PICK e : EventTurns(e, b) /\ EventsIn(b) = e[Len(b)]
  BY EventsHaveTurns
<1>2. Len(b) \in Nat /\ 0 \in Nat /\ 0 <= Len(b) /\ 0 + 1 = 1
  OBVIOUS
<1>3. e[Len(b)] = e[0]
  BY <1>1, <1>2, NoNewlineNoEvent
<1> QED
  BY <1>1, <1>3 DEF EventTurns

\* The events of nothing.
LEMMA EventsOfNothing == EventsIn(<<>>) = <<>>
<1>1. <<>> \in Seq(Bytes) /\ InLines(<<>>) /\ \A i \in 1..Len(<<>>) : FALSE
  BY NothingIsLines DEF WholeLines
<1> QED
  BY <1>1, EventsOfPart

\* The events of one line (kbd_send_event, and what sscanf() makes of it).
LEMMA EventsOfLine ==
  ASSUME NEW ev \in KeyEvents
  PROVE  EventsIn(Line(ev)) = <<ev>>
<1> DEFINE l == Line(ev)
<1>1. /\ l \in Seq(Bytes) /\ Len(l) = LineLen /\ InLines(l)
      /\ \A j \in 1..LineLen : l[j] = [ev |-> ev, part |-> j]
  BY LineFields, LineIsWhole DEF WholeLines
<1> HIDE DEF l
<1>2. PICK e : EventTurns(e, l) /\ EventsIn(l) = e[Len(l)]
  BY <1>1, EventsHaveTurns
<1> DEFINE n == LineLen - 1
<1>3. n \in Nat /\ 0 <= n /\ n <= Len(l) /\ LineLen \in 1..LineLen
  BY <1>1, LineLenIsNat
<1>4. \A i \in 1..n : ~IsNewline(l[i])
  <2>1. \A i \in 1..n : i \in 1..LineLen /\ i # LineLen
    BY LineLenIsNat
  <2> QED
    BY <1>1, <2>1 DEF IsNewline
<1>5. e[n] = e[0]
  <2>1. 0 \in Nat /\ 0 + 1 = 1
    OBVIOUS
  <2> HIDE DEF n
  <2> QED
    BY <1>1, <1>2, <1>3, <1>4, <2>1, NoNewlineNoEvent
<1>6. l[LineLen].ev = ev /\ IsNewline(l[LineLen])
  BY <1>1, <1>3 DEF IsNewline
<1>7. e[LineLen] = Append(<<>>, ev)
  <2>1. e[0] = <<>> /\ LineLen \in 1..Len(l)
    BY <1>1, <1>2, <1>3 DEF EventTurns
  <2>2. e[LineLen] = Append(e[LineLen - 1], l[LineLen].ev)
    BY <1>2, <1>6, <2>1 DEF EventTurns
  <2> QED
    BY <1>5, <1>6, <2>1, <2>2
<1> QED
  BY <1>1, <1>2, <1>7 DEF l

-----------------------------------------------------------------------------
(* The events of a stream that is cut                                      *)

\* A sequence and one more element, after another sequence.
LEMMA AppendAfter ==
  ASSUME NEW s \in Seq(KeyEvents), NEW t \in Seq(KeyEvents), NEW ev \in KeyEvents
  PROVE  s \o Append(t, ev) = Append(s \o t, ev)
  OBVIOUS

\* f goes on from m as g does from the start
GoesOn(f, g, m, S) == \A j \in S : f[m + j] = f[m] \o g[j]

\* Streams that go on alike have the same events from there on.
LEMMA EventsGoOn ==
  ASSUME NEW a \in Seq(Bytes), NEW b \in Seq(Bytes), NEW f, NEW g,
         EventTurns(f, a), EventTurns(g, b),
         NEW m \in Nat, NEW n \in Nat, m + n <= Len(a), n <= Len(b),
         Matches(a, b, m, 1..n)
  PROVE  GoesOn(f, g, m, 0..n)
<1> DEFINE P == {j \in 0..n : f[m + j] = f[m] \o g[j]}
<1>1. m \in 0..Len(a) /\ m + 0 = m /\ Len(a) \in Nat /\ Len(b) \in Nat
  OBVIOUS
<1>2. f[m] \in Seq(KeyEvents) /\ g[0] = <<>>
  BY <1>1 DEF EventTurns
<1>3. 0 \in P
  <2>1. f[m] \o <<>> = f[m]
    BY <1>2
  <2>2. f[m + 0] = f[m] \o g[0]
    BY ONLY <1>1, <1>2, <2>1
  <2>3. 0 \in 0..n
    OBVIOUS
  <2> QED
    BY <2>2, <2>3, Zenon
<1>4. ASSUME NEW j \in 1..n, j - 1 \in P
      PROVE  j \in P
  <2>1. /\ m + j \in 1..Len(a) /\ j \in 1..Len(b) /\ m + (j - 1) = (m + j) - 1
        /\ j - 1 \in 0..Len(b)
    BY <1>1
  <2>2. /\ f[(m + j) - 1] = f[m] \o g[j - 1] /\ a[m + j] = b[j]
        /\ g[j - 1] \in Seq(KeyEvents) /\ b[j] \in Bytes
    <3>1. f[m + (j - 1)] = f[m] \o g[j - 1]
      BY <1>4
    <3>2. a[m + j] = b[j]
      BY <1>4 DEF Matches
    <3>3. g[j - 1] \in Seq(KeyEvents)
      BY <2>1 DEF EventTurns
    <3>4. b[j] \in Bytes
      BY <2>1
    <3> QED
      BY ONLY <2>1, <3>1, <3>2, <3>3, <3>4
  <2>3. b[j].ev \in KeyEvents
    BY <2>2, ByteFields
  <2>4. /\ f[m + j] = IF IsNewline(b[j]) THEN Append(f[m] \o g[j - 1], b[j].ev)
                      ELSE f[m] \o g[j - 1]
        /\ g[j] = IF IsNewline(b[j]) THEN Append(g[j - 1], b[j].ev) ELSE g[j - 1]
    BY <2>1, <2>2 DEF EventTurns
  <2>5. f[m] \o Append(g[j - 1], b[j].ev) = Append(f[m] \o g[j - 1], b[j].ev)
    <3> DEFINE u == f[m]
               v == g[j - 1]
               w == b[j].ev
    <3>1. u \in Seq(KeyEvents) /\ v \in Seq(KeyEvents) /\ w \in KeyEvents
      BY <1>2, <2>2, <2>3
    <3> HIDE DEF u, v, w
    <3>2. u \o Append(v, w) = Append(u \o v, w)
      BY ONLY <3>1, AppendAfter
    <3> QED
      BY <3>2 DEF u, v, w
  <2>6. f[m + j] = f[m] \o g[j]
    BY ONLY <2>4, <2>5
  <2>7. j \in 0..n
    OBVIOUS
  <2> QED
    BY <2>6, <2>7, Zenon
<1> HIDE DEF P
<1>5. \A j \in 0..n : j \in P
  BY <1>3, <1>4, UpTo
<1> QED
  BY <1>5 DEF P, GoesOn

\* The events that main_read parses, and those of what it keeps and reads next, are
\* those of the stream.
LEMMA EventsOfRest ==
  ASSUME NEW x \in Seq(Bytes), NEW y \in Seq(Bytes), InLines(x \o y)
  PROVE  /\ EventsIn(x) \in Seq(KeyEvents) /\ EventsIn(Incomplete(x) \o y) \in Seq(KeyEvents)
         /\ EventsIn(x \o y) = EventsIn(x) \o EventsIn(Incomplete(x) \o y)
<1> DEFINE z == x \o y
<1>1. InLines(x)
  BY FirstAreLines
<1>2. PICK m \in 0..Len(x) :
        /\ m = 0 \/ IsNewline(x[m])
        /\ Incomplete(x) = SubSeq(x, m + 1, Len(x))
        /\ \A i \in (m + 1)..Len(x) : ~IsNewline(x[i])
        /\ Len(x) - m < LineLen
  BY <1>1, LastNewline
<1>3. /\ z \in Seq(Bytes) /\ Len(z) = Len(x) + Len(y) /\ Len(x) \in Nat /\ Len(y) \in Nat
      /\ m \in 0..Len(z) /\ (m = 0 \/ IsNewline(z[m]))
      /\ \A i \in 1..Len(x) : z[i] = x[i]
  BY <1>2
<1> DEFINE s == SubSeq(z, m + 1, Len(z))
           n == Len(z) - m
<1>4. Incomplete(x) \o y = s
  BY <1>2, RestOfBoth
<1> HIDE DEF z
<1>5. /\ s \in Seq(Bytes) /\ Len(s) = n /\ \A j \in 1..n : s[j] = z[m + j]
      /\ InLines(s)
  BY <1>3, RestIsLines DEF z
<1> HIDE DEF s
<1>6. PICK f : EventTurns(f, x) /\ EventsIn(x) = f[Len(x)]
  BY <1>1, EventsHaveTurns
<1>7. PICK g : EventTurns(g, z) /\ EventsIn(z) = g[Len(z)]
  BY <1>3, EventsHaveTurns DEF z
<1>8. PICK h : EventTurns(h, s) /\ EventsIn(s) = h[Len(s)]
  BY <1>5, EventsHaveTurns
<1>9. /\ m \in Nat /\ m <= Len(x) /\ Len(x) <= Len(x) /\ 0 \in Nat /\ 0 + m <= Len(z)
      /\ n \in Nat /\ m + n = Len(z) /\ n <= Len(s) /\ m + n <= Len(z)
      /\ m \in 0..m /\ n \in 0..n /\ 0 + m = m /\ m \in 0..Len(x)
      /\ Len(x) \in 0..Len(x) /\ Len(s) \in 0..Len(s)
  BY <1>3, <1>5
<1>10. f[Len(x)] = f[m]
  BY <1>2, <1>3, <1>6, <1>9, NoNewlineNoEvent
<1>11. g[m] = f[m]
  <2>1. Matches(z, x, 0, 1..m)
    BY <1>3 DEF Matches
  <2>2. GoesOn(g, f, 0, 0..m)
    BY ONLY <1>3, <1>6, <1>7, <1>9, <2>1, EventsGoOn
  <2>3. g[0 + m] = g[0] \o f[m]
    BY <1>9, <2>2 DEF GoesOn
  <2>4. g[0] = <<>> /\ f[m] \in Seq(KeyEvents)
    BY <1>6, <1>7, <1>9 DEF EventTurns
  <2>5. <<>> \o f[m] = f[m]
    BY <2>4
  <2> QED
    BY <1>9, <2>3, <2>4, <2>5
<1>12. g[m + n] = g[m] \o h[n]
  <2>1. Matches(z, s, m, 1..n)
    BY <1>5 DEF Matches
  <2> HIDE DEF n
  <2>2. GoesOn(g, h, m, 0..n)
    BY ONLY <1>3, <1>5, <1>7, <1>8, <1>9, <2>1, EventsGoOn
  <2> QED
    BY <1>9, <2>2 DEF GoesOn
<1>13. f[Len(x)] \in Seq(KeyEvents) /\ h[Len(s)] \in Seq(KeyEvents)
  BY <1>6, <1>8, <1>9 DEF EventTurns
<1>14. EventsIn(z) = EventsIn(x) \o EventsIn(s)
  BY <1>5, <1>6, <1>7, <1>8, <1>9, <1>10, <1>11, <1>12
<1>15. EventsIn(x) \in Seq(KeyEvents) /\ EventsIn(s) \in Seq(KeyEvents)
  BY <1>6, <1>8, <1>13
<1> QED
  BY <1>4, <1>14, <1>15 DEF z

\* Nothing is left of whole lines.
LEMMA NothingIncomplete ==
  ASSUME NEW b \in Seq(Bytes), WholeLines(b)
  PROVE  Incomplete(b) = <<>>
<1>1. PICK m \in 0..Len(b) :
        /\ Incomplete(b) = SubSeq(b, m + 1, Len(b))
        /\ \A i \in (m + 1)..Len(b) : ~IsNewline(b[i])
  BY LastNewline DEF WholeLines
<1>2. Len(b) \in Nat
  OBVIOUS
<1>3. m = Len(b)
  <2> SUFFICES ASSUME m # Len(b) PROVE FALSE
    OBVIOUS
  <2>1. Len(b) \in (m + 1)..Len(b) /\ Len(b) # 0
    BY <1>2
  <2>2. b # <<>>
    BY <2>1
  <2> QED
    BY <1>1, <2>1, <2>2 DEF WholeLines
<1>4. m + 1 > Len(b) /\ m + 1 \in Int /\ Len(b) \in Int
  BY <1>2, <1>3
<1> QED
  BY <1>1, <1>4, SubSeqEmpty

\* The events of whole lines, and of lines after them.
LEMMA EventsOfBoth ==
  ASSUME NEW x \in Seq(Bytes), NEW y \in Seq(Bytes), WholeLines(x), InLines(y)
  PROVE  /\ EventsIn(x) \in Seq(KeyEvents) /\ EventsIn(y) \in Seq(KeyEvents)
         /\ EventsIn(x \o y) = EventsIn(x) \o EventsIn(y)
<1>1. InLines(x \o y)
  BY LinesAfterLines
<1>2. Incomplete(x) \o y = y
  <2>1. <<>> \o y = y
    OBVIOUS
  <2> QED
    BY <2>1, NothingIncomplete
<1> QED
  BY <1>1, <1>2, EventsOfRest

-----------------------------------------------------------------------------
(* The device after its events                                             *)

\* f is the device after every one of the events
EventsTurn(f, down, events) ==
  /\ f \in [0..Len(events) -> SUBSET Keys]
  /\ f[0] = down
  /\ \A i \in 1..Len(events) : f[i] = Pressed(f[i - 1], events[i])

\* KeyStream's device has a value after every event.
LEMMA AfterTurns ==
  ASSUME NEW events \in Seq(KeyEvents), NEW down \in SUBSET Keys
  PROVE  \E f : EventsTurn(f, down, events) /\ Stream!After(down, events) = f[Len(events)]
<1> DEFINE T == SUBSET Keys
           n == Len(events)
           Turn(t, i) == Stream!Pressed(t, events[i])
           step == [i \in 1..n |-> [t \in T |-> Turn(t, i)]]
           Is(f) == f = [i \in 0..n |-> IF i = 0 THEN down ELSE Turn(f[i - 1], i)]
           after == CHOOSE f : Is(f)
<1>1. \A i \in 1..n, t \in T : Turn(t, i) \in T /\ Turn(t, i) = Pressed(t, events[i])
  <2> SUFFICES ASSUME NEW i \in 1..n, NEW t \in T
               PROVE  Turn(t, i) \in T /\ Turn(t, i) = Pressed(t, events[i])
    OBVIOUS
  <2>1. Turn(t, i) = Pressed(t, events[i])
    BY DEF Stream!Pressed, Pressed
  <2>2. events[i].code \in Keys
    <3>1. events[i] \in KeyEvents
      OBVIOUS
    <3> QED
      BY <3>1 DEF KeyEvents
  <2>3. Pressed(t, events[i]) \in T
    BY <2>2 DEF Pressed
  <2> HIDE DEF Turn, T
  <2> QED
    BY <2>1, <2>3
<1>2. step \in [1..n -> [T -> T]]
  <2> HIDE DEF Turn, T
  <2> QED
    BY <1>1
<1>3. n \in Nat /\ down \in T
  OBVIOUS
<1>4. \A i \in 1..n : i - 1 \in 0..n /\ i # 0 /\ i \in 0..n
  BY <1>3
<1>5. \A i \in 0..n : i # 0 => i \in 1..n
  BY <1>3
<1>6. \A i \in 1..n, t \in T : step[i][t] = Turn(t, i)
  <2> HIDE DEF Turn, T, n
  <2> QED
    OBVIOUS
<1>7. Stream!After(down, events) = after[n]
  BY DEF Stream!After
<1> HIDE DEF step, T, n, Turn
<1>8. \E f \in [0..n -> T] : IsRun(f, down, n, step)
  BY ONLY <1>2, <1>3, LoopRuns
<1>9. PICK f \in [0..n -> T] : IsRun(f, down, n, step)
  BY <1>8
<1>10. f[0] = down /\ \A i \in 1..n : f[i] = step[i][f[i - 1]] /\ f[i - 1] \in T
  BY <1>4, <1>9 DEF IsRun
<1>11. \A i \in 0..n : f[i] = IF i = 0 THEN down ELSE Turn(f[i - 1], i)
  BY <1>5, <1>6, <1>10
<1>12. Is(f)
  BY <1>9, <1>11
<1>13. Is(after)
  <2> HIDE DEF Is
  <2> QED
    BY <1>12
<1> HIDE DEF after
<1>14. after[0] = down /\ \A i \in 1..n : after[i] = Turn(after[i - 1], i)
  <2>1. 0 \in 0..n
    BY <1>3
  <2> QED
    BY <1>4, <1>13, <2>1
<1>15. \A i \in 0..n : after[i] \in T
  <2> DEFINE P == {i \in 0..n : after[i] \in T}
  <2>1. 0 \in P
    BY <1>3, <1>14
  <2>2. ASSUME NEW i \in 1..n, i - 1 \in P
        PROVE  i \in P
    BY <1>1, <1>4, <1>14, <2>2
  <2> HIDE DEF P
  <2>3. \A i \in 0..n : i \in P
    BY <1>3, <2>1, <2>2, UpTo
  <2> QED
    BY <2>3 DEF P
<1>16. after \in [0..n -> T]
  <2>1. after = [i \in 0..n |-> after[i]]
    BY <1>13
  <2> QED
    BY <1>15, <2>1
<1>17. \A i \in 1..n : after[i] = Pressed(after[i - 1], events[i])
  BY <1>1, <1>4, <1>14, <1>15
<1> QED
  BY <1>7, <1>14, <1>16, <1>17 DEF EventsTurn, T, n

\* No events leave a device as it is.
LEMMA AfterNothing ==
  ASSUME NEW down \in SUBSET Keys
  PROVE  Stream!After(down, <<>>) = down
<1>1. <<>> \in Seq(KeyEvents) /\ Len(<<>>) = 0
  OBVIOUS
<1>2. PICK f : EventsTurn(f, down, <<>>) /\ Stream!After(down, <<>>) = f[Len(<<>>)]
  BY <1>1, AfterTurns
<1> QED
  BY <1>1, <1>2 DEF EventsTurn

\* An event more is a key more, or a key less.
LEMMA AfterOneMore ==
  ASSUME NEW events \in Seq(KeyEvents), NEW ev \in KeyEvents, NEW down \in SUBSET Keys
  PROVE  Stream!After(down, Append(events, ev)) = Pressed(Stream!After(down, events), ev)
<1> DEFINE more == Append(events, ev)
           n == Len(events)
<1>1. /\ more \in Seq(KeyEvents) /\ Len(more) = n + 1 /\ n \in Nat /\ more[n + 1] = ev
      /\ \A i \in 1..n : more[i] = events[i]
  OBVIOUS
<1> HIDE DEF more
<1>2. PICK f : EventsTurn(f, down, events) /\ Stream!After(down, events) = f[n]
  BY AfterTurns
<1>3. PICK g : EventsTurn(g, down, more) /\ Stream!After(down, more) = g[Len(more)]
  BY <1>1, AfterTurns
<1> DEFINE P == {i \in 0..n : g[i] = f[i]}
<1>4. 0 \in P
  BY <1>1, <1>2, <1>3 DEF EventsTurn
<1>5. ASSUME NEW i \in 1..n, i - 1 \in P
      PROVE  i \in P
  <2>1. i \in 1..Len(more) /\ i \in 1..Len(events) /\ g[i - 1] = f[i - 1]
    BY <1>1, <1>5
  <2>2. g[i] = Pressed(g[i - 1], more[i]) /\ f[i] = Pressed(f[i - 1], events[i])
    BY <1>2, <1>3, <2>1 DEF EventsTurn
  <2> QED
    BY <1>1, <2>1, <2>2
<1> HIDE DEF P
<1>6. \A i \in 0..n : i \in P
  BY <1>1, <1>4, <1>5, UpTo
<1>7. g[n] = f[n]
  <2>1. n \in 0..n
    BY <1>1
  <2> QED
    BY <1>6, <2>1 DEF P
<1>8. g[n + 1] = Pressed(g[n], ev)
  <2>1. n + 1 \in 1..Len(more) /\ (n + 1) - 1 = n
    BY <1>1
  <2> QED
    BY <1>1, <1>3, <2>1 DEF EventsTurn
<1> QED
  BY <1>1, <1>2, <1>3, <1>7, <1>8 DEF more

\* What the reader's device becomes is what the events parsed make of it (main_read).
LEMMA DeviceIsAfter ==
  ASSUME NEW b \in Seq(Bytes), InLines(b), NEW down \in SUBSET Keys
  PROVE  DeviceAfter(down, b) = Stream!After(down, EventsIn(b))
<1> DEFINE n == Len(b)
<1>1. PICK f : Turns(f, down, b) /\ DeviceAfter(down, b) = f[n]
  BY DeviceTurns
<1>2. PICK e : EventTurns(e, b) /\ EventsIn(b) = e[n]
  BY EventsHaveTurns
<1>3. n \in Nat
  OBVIOUS
<1> DEFINE P == {i \in 0..n : f[i] = Stream!After(down, e[i])}
<1>4. 0 \in P
  BY <1>1, <1>2, <1>3, AfterNothing DEF Turns, EventTurns
<1>5. ASSUME NEW i \in 1..n, i - 1 \in P
      PROVE  i \in P
  <2>1. i - 1 \in 0..n /\ i \in 0..n /\ f[i - 1] = Stream!After(down, e[i - 1])
    BY <1>5
  <2>2. e[i - 1] \in Seq(KeyEvents)
    BY <1>2, <2>1 DEF EventTurns
  <2>3. b[i].ev \in KeyEvents
    BY ByteFields
  <2>4. Stream!After(down, Append(e[i - 1], b[i].ev)) =
          Pressed(Stream!After(down, e[i - 1]), b[i].ev)
    BY <2>2, <2>3, AfterOneMore
  <2>5. f[i] = IF IsNewline(b[i]) THEN Pressed(f[i - 1], b[i].ev) ELSE f[i - 1]
    BY <1>1 DEF Turns
  <2>6. e[i] = IF IsNewline(b[i]) THEN Append(e[i - 1], b[i].ev) ELSE e[i - 1]
    BY <1>2 DEF EventTurns
  <2>7. f[i] = Stream!After(down, e[i])
    BY ONLY <2>1, <2>4, <2>5, <2>6
  <2> QED
    BY <2>1, <2>7
<1> HIDE DEF P
<1>6. \A i \in 0..n : i \in P
  BY <1>3, <1>4, <1>5, UpTo
<1>7. n \in 0..n
  BY <1>3
<1> QED
  BY <1>1, <1>2, <1>6, <1>7 DEF P

-----------------------------------------------------------------------------
(* What is on the way to the readers                                       *)

\* the events written to a reader and not read, and those that wait in the server
Written(c) == EventsIn(buffer[c] \o wire[c])
Buffered   == EventsIn(server.for_client)

WaysAre ==
  /\ Buffered \in Seq(KeyEvents)
  /\ OnTheirWay \in [Conns -> Seq(KeyEvents)]
  /\ \A c \in Conns : Written(c) \in Seq(KeyEvents)
  /\ \A c \in Conns :
       OnTheirWay[c] = IF Active = c THEN Written(c) \o Buffered ELSE Written(c)

\* what was for a reader that has gone is lost
GoneIsEmpty == \A c \in Gone : buffer[c] = <<>> /\ wire[c] = <<>>

StreamInv == ReaderInv /\ GoneIsEmpty

\* Events that are written are on the way to a reader, and those that wait in the server
\* to the active one, behind the others.
LEMMA Ways == ReaderInv => WaysAre
<1> SUFFICES ASSUME ReaderInv PROVE WaysAre
  OBVIOUS
<1> DEFINE fc == server.for_client
<1>1. fc \in Seq(Bytes) /\ WholeLines(fc) /\ InLines(fc)
  BY DEF ReaderInv, TypeOK, KbdServerType, StreamsAreLines, WholeLines
<1>2. Buffered \in Seq(KeyEvents)
  <2> HIDE DEF fc
  <2>1. EventsIn(fc) \in Seq(KeyEvents)
    BY <1>1, EventsOfBoth
  <2> QED
    BY <2>1 DEF Buffered, fc
<1>3. ASSUME NEW c \in Conns
      PROVE  /\ Written(c) \in Seq(KeyEvents)
             /\ OnTheWay(c) = IF Active = c THEN Written(c) \o Buffered ELSE Written(c)
             /\ OnTheWay(c) \in Seq(KeyEvents)
  <2> DEFINE b == buffer[c] \o wire[c]
  <2>1. b \in Seq(Bytes) /\ WholeLines(b)
    BY DEF ReaderInv, TypeOK, StreamsAreLines
  <2> HIDE DEF fc, b
  <2>2. /\ EventsIn(b) \in Seq(KeyEvents) /\ EventsIn(b \o fc) = EventsIn(b) \o EventsIn(fc)
    BY <1>1, <2>1, EventsOfBoth
  <2>3. b \o <<>> = b
    BY <2>1
  <2>4. OnTheWay(c) = EventsIn(b \o (IF Active = c THEN fc ELSE <<>>))
    BY DEF OnTheWay, b, fc
  <2>5. Written(c) = EventsIn(b) /\ Buffered = EventsIn(fc)
    BY DEF Written, Buffered, b, fc
  <2>6. OnTheWay(c) = IF Active = c THEN Written(c) \o Buffered ELSE Written(c)
    BY <2>2, <2>3, <2>4, <2>5
  <2>7. Written(c) \o Buffered \in Seq(KeyEvents)
    BY <1>2, <2>2, <2>5
  <2> QED
    BY <2>2, <2>5, <2>6, <2>7
<1>4. OnTheirWay \in [Conns -> Seq(KeyEvents)] /\ \A c \in Conns : OnTheirWay[c] = OnTheWay(c)
  BY <1>3 DEF OnTheirWay
<1> QED
  BY <1>2, <1>3, <1>4 DEF WaysAre

\* The active reader is a connection, or none of them.
LEMMA ActiveReader ==
  ASSUME ReaderInv
  PROVE  \/ server = NewServer /\ ~HasClients(server) /\ Active = "none" /\ Active \notin Conns
         \/ /\ HasClients(server) /\ Active = ActiveClient(server) /\ Active # "none"
            /\ Active \in Conns /\ Active \in server.open
            /\ server = One(Active, server.for_client)
<1>1. ~HasClients(server) => server = NewServer
  BY OneOrNone, OneFields DEF ReaderInv
<1>2. HasClients(server) => /\ ActiveClient(server) \in Conns
                            /\ ActiveClient(server) \in server.open
                            /\ server = One(ActiveClient(server), server.for_client)
  BY ActiveIsOpen DEF ReaderInv
<1> QED
  BY <1>1, <1>2, StreamAssumption DEF Active

\* Functions with the same values are equal.
LEMMA SameValues ==
  ASSUME NEW S, NEW T, NEW f \in [S -> T], NEW g \in [S -> T], \A x \in S : f[x] = g[x]
  PROVE  f = g
  OBVIOUS

\* Before anyone connects nothing is on the way to anyone (Init).
LEMMA InitIsStreams ==
  ASSUME Init
  PROVE  StreamInv /\ Stream!Init
<1>1. ReaderInv /\ WaysAre
  BY InitReaderInv, Ways
<1>2. Gone = {} /\ GoneIsEmpty
  BY DEF Init, Gone, GoneIsEmpty
<1>3. Active = "none" /\ Active \notin Conns
  BY NewServerFields, StreamAssumption DEF Init, Active
<1>4. ASSUME NEW c \in Conns
      PROVE  OnTheirWay[c] = <<>>
  <2>1. buffer[c] \o wire[c] = <<>>
    BY NothingIsAString DEF Init
  <2>2. Written(c) = <<>>
    BY <2>1, EventsOfNothing DEF Written
  <2> QED
    BY <1>1, <1>3, <2>2 DEF WaysAre
<1>5. OnTheirWay = [c \in Conns |-> <<>>]
  BY <1>1, <1>4 DEF WaysAre
<1>6. sink = {} /\ device = [c \in Conns |-> {}] /\ spoke = {}
  BY DEF Init
<1> QED
  BY <1>1, <1>2, <1>3, <1>5, <1>6 DEF StreamInv, Stream!Init

\* What is on the way stays there.
LEMMA SameWays ==
  ASSUME UNCHANGED <<server, buffer, wire>>
  PROVE  UNCHANGED <<Active, OnTheirWay>>
  BY DEF Active, OnTheirWay, OnTheWay

-----------------------------------------------------------------------------
(* The readers' steps                                                      *)

\* A reader that speaks to the server does nothing else.
LEMMA SpeakIsSpeak ==
  ASSUME StreamInv, NEW c \in Conns, Speak(c)
  PROVE  Stream!Speak(c) /\ GoneIsEmpty'
<1>1. /\ spoke' = spoke \cup {c}
      /\ UNCHANGED <<server, sink, peer, buffer, device, wire>>
  BY DEF Speak, serverVars
<1>2. UNCHANGED <<Active, OnTheirWay>>
  BY <1>1, SameWays
<1>3. Gone' = Gone
  BY <1>1 DEF Gone
<1>4. GoneIsEmpty'
  BY <1>1, <1>3 DEF StreamInv, GoneIsEmpty
<1> QED
  BY <1>1, <1>2, <1>3, <1>4 DEF Stream!Speak

\* Nothing is on the way to a reader that has only just connected.
LEMMA ConnectStutters ==
  ASSUME StreamInv, NEW c \in Conns, Connect(c)
  PROVE  UNCHANGED Stream!vars /\ GoneIsEmpty'
<1>1. /\ peer[c] = "none" /\ peer' = [peer EXCEPT ![c] = "reading"]
      /\ peer \in [Conns -> {"none", "reading", "gone"}]
      /\ UNCHANGED <<server, sink, buffer, device, spoke, wire>>
  BY DEF Connect, serverVars, StreamInv, ReaderInv, TypeOK
<1>2. UNCHANGED <<Active, OnTheirWay>>
  BY <1>1, SameWays
<1>3. Gone' = Gone
  BY <1>1 DEF Gone
<1>4. GoneIsEmpty'
  BY <1>1, <1>3 DEF StreamInv, GoneIsEmpty
<1> QED
  BY <1>1, <1>2, <1>3, <1>4 DEF Stream!vars

\* What has been taken leaves what comes after.
LEMMA CutOff ==
  ASSUME NEW S, NEW s \in Seq(S), NEW t \in Seq(S)
  PROVE  /\ Len(s) \in 0..Len(s \o t) /\ Len(s) \in Nat
         /\ SubSeq(s \o t, 1, Len(s)) = s
         /\ SubSeq(s \o t, Len(s) + 1, Len(s \o t)) = t
<1> DEFINE z == s \o t
<1>1. /\ z \in Seq(S) /\ Len(z) = Len(s) + Len(t) /\ Len(s) \in Nat /\ Len(t) \in Nat
      /\ \A i \in 1..Len(s) : z[i] = s[i]
      /\ \A i \in 1..Len(t) : z[Len(s) + i] = t[i]
  BY ConcatParts
<1> HIDE DEF z
<1>2. SubSeq(z, 1, Len(s)) = s
  <2> DEFINE u == SubSeq(z, 1, Len(s))
  <2>1. \A i \in 1..Len(s) : z[i] \in S
    BY <1>1
  <2>2. /\ u \in Seq(S) /\ Len(u) = IF 1 <= Len(s) THEN Len(s) - 1 + 1 ELSE 0
        /\ \A i \in 1..(Len(s) - 1 + 1) : u[i] = z[1 + i - 1]
    <3>1. 1 \in Int /\ Len(s) \in Int
      BY <1>1
    <3> QED
      BY ONLY <2>1, <3>1, SubSeqProperties
  <2> HIDE DEF u
  <2>3. /\ Len(s) - 1 + 1 = Len(s) /\ (IF 1 <= Len(s) THEN Len(s) - 1 + 1 ELSE 0) = Len(s)
        /\ \A i \in 1..Len(s) : 1 + i - 1 = i
    BY <1>1
  <2>4. Len(u) = Len(s) /\ \A i \in 1..Len(s) : u[i] = s[i]
    BY <1>1, <2>2, <2>3
  <2>5. u = s
    BY <2>2, <2>4, SeqsEqual
  <2> QED
    BY <2>5 DEF u
<1>3. SubSeq(z, Len(s) + 1, Len(z)) = t
  <2> DEFINE v == SubSeq(z, Len(s) + 1, Len(z))
             a == Len(s) + 1
             b == Len(z)
  <2>1. \A i \in a..b : z[i] \in S
    BY <1>1
  <2>2. a \in Int /\ b \in Int
    BY <1>1
  <2>3. /\ b - a + 1 = Len(t) /\ (IF a <= b THEN b - a + 1 ELSE 0) = Len(t)
        /\ \A i \in 1..Len(t) : a + i - 1 = Len(s) + i
    BY <1>1
  <2> HIDE DEF a, b
  <2> DEFINE u == SubSeq(z, a, b)
  <2>4. /\ u \in Seq(S) /\ Len(u) = IF a <= b THEN b - a + 1 ELSE 0
        /\ \A i \in 1..(b - a + 1) : u[i] = z[a + i - 1]
    BY ONLY <2>1, <2>2, SubSeqProperties
  <2> HIDE DEF u
  <2>5. Len(u) = Len(t) /\ \A i \in 1..Len(t) : u[i] = t[i]
    BY <1>1, <2>3, <2>4
  <2>6. u = t
    BY <2>4, <2>5, SeqsEqual
  <2> QED
    BY <2>6 DEF u, a, b
<1>4. Len(s) \in 0..Len(z) /\ Len(s) \in Nat
  BY <1>1
<1> QED
  BY <1>2, <1>3, <1>4 DEF z

\* A reader that hangs up, or reads the end, takes with it what has been written to it
\* (main_read); what waits in the server stays.
LEMMA FinishIsHangUp ==
  ASSUME StreamInv, ReaderInv', NEW c \in Conns, peer[c] = "reading", Finish(c),
         UNCHANGED <<serverVars, backlog, spoke>>
  PROVE  Stream!HangUp(c) /\ GoneIsEmpty'
<1>1. WaysAre /\ WaysAre' /\ ReaderInv
  <2>1. ReaderInv' => WaysAre'
    BY Ways, PTL
  <2> QED
    BY <2>1, Ways DEF StreamInv
<1>2. /\ peer' = [peer EXCEPT ![c] = "gone"] /\ buffer' = [buffer EXCEPT ![c] = <<>>]
      /\ device' = [device EXCEPT ![c] = {}] /\ wire' = [wire EXCEPT ![c] = <<>>]
      /\ UNCHANGED <<server, sink, spoke>>
      /\ peer \in [Conns -> {"none", "reading", "gone"}] /\ wire \in [Conns -> Seq(Bytes)]
      /\ buffer \in [Conns -> Seq(Bytes)]
  BY <1>1 DEF Finish, serverVars, ReaderInv, TypeOK
<1>3. c \notin Gone /\ Gone' = Gone \cup {c}
  BY <1>2 DEF Gone
<1>4. /\ buffer'[c] = <<>> /\ wire'[c] = <<>>
      /\ \A d \in Conns : d # c => buffer'[d] = buffer[d] /\ wire'[d] = wire[d]
  BY <1>2
<1>5. GoneIsEmpty'
  BY <1>3, <1>4 DEF StreamInv, GoneIsEmpty, Gone
<1>6. Active' = Active /\ Buffered' = Buffered
  BY <1>2 DEF Active, Buffered
<1>7. Written(c)' = <<>> /\ \A d \in Conns : d # c => Written(d)' = Written(d)
  <2>1. (buffer[c] \o wire[c])' = <<>>
    BY <1>4, NothingIsAString
  <2> QED
    BY <1>4, <2>1, EventsOfNothing DEF Written
<1> DEFINE q == OnTheirWay[c]
           rest == IF Active = c THEN Buffered ELSE <<>>
           n == Len(Written(c))
<1>8. /\ n \in 0..Len(q) /\ SubSeq(q, n + 1, Len(q)) = rest
      /\ c = Active \/ n = Len(q)
  <2> DEFINE w == Written(c)
  <2>1. w \in Seq(KeyEvents) /\ Buffered \in Seq(KeyEvents) /\ rest \in Seq(KeyEvents)
    BY <1>1 DEF WaysAre
  <2>2. q = w \o rest
    <3>1. w \o <<>> = w
      BY <2>1
    <3> QED
      BY <1>1, <3>1 DEF WaysAre
  <2>3. c = Active \/ rest = <<>>
    OBVIOUS
  <2> HIDE DEF w, rest
  <2>4. c = Active \/ w \o rest = w
    BY <2>1, <2>3
  <2>5. /\ Len(w) \in 0..Len(w \o rest)
        /\ SubSeq(w \o rest, Len(w) + 1, Len(w \o rest)) = rest
    BY ONLY <2>1, CutOff
  <2> QED
    BY <2>2, <2>4, <2>5 DEF w
<1>9. OnTheirWay' = [OnTheirWay EXCEPT ![c] = rest]
  <2>1. rest \in Seq(KeyEvents) /\ <<>> \o Buffered = Buffered
    BY <1>1 DEF WaysAre
  <2>2. OnTheirWay'[c] = rest
    BY <1>1, <1>6, <1>7, <2>1 DEF WaysAre
  <2>3. \A d \in Conns : d # c => OnTheirWay'[d] = OnTheirWay[d]
    BY <1>1, <1>6, <1>7 DEF WaysAre
  <2> HIDE DEF rest
  <2> DEFINE r == [OnTheirWay EXCEPT ![c] = rest]
  <2>4. /\ OnTheirWay' \in [Conns -> Seq(KeyEvents)] /\ OnTheirWay \in [Conns -> Seq(KeyEvents)]
        /\ r \in [Conns -> Seq(KeyEvents)]
    BY <1>1, <2>1 DEF WaysAre
  <2>5. \A d \in Conns : OnTheirWay'[d] = r[d]
    BY <2>2, <2>3, <2>4
  <2> HIDE DEF r
  <2>6. OnTheirWay' = r
    BY <2>4, <2>5, SameValues
  <2> QED
    BY <2>6 DEF r
<1>10. /\ c = Active \/ n = Len(OnTheirWay[c])
       /\ OnTheirWay' = [OnTheirWay EXCEPT ![c] = SubSeq(@, n + 1, Len(@))]
       /\ n \in 0..Len(OnTheirWay[c])
  <2> HIDE DEF n, rest
  <2> QED
    BY <1>8, <1>9
<1> HIDE DEF n, q
<1> QED
  BY <1>2, <1>3, <1>5, <1>6, <1>10 DEF Stream!HangUp

\* main_read parses the first part of what has been written, and keeps the line it ends
\* within.
LEMMA ReadEffect ==
  ASSUME ReaderInv, NEW c \in Conns, Read(c)
  PROVE  \E x \in Seq(Bytes), y \in Seq(Bytes) :
           /\ x \o y = buffer[c] \o wire[c]
           /\ wire' = [wire EXCEPT ![c] = y]
           /\ device' = [device EXCEPT ![c] = DeviceAfter(@, x)]
           /\ buffer' = [buffer EXCEPT ![c] = Incomplete(x)]
           /\ UNCHANGED <<server, sink, peer, spoke>>
<1> DEFINE w == wire[c]
           b == buffer[c]
<1>1. PICK n \in 1..Len(w) :
        LET r == EmptyAboveHalf(b) \o SubSeq(w, 1, n) IN
        /\ wire' = [wire EXCEPT ![c] = SubSeq(@, n + 1, Len(@))]
        /\ device' = [device EXCEPT ![c] = DeviceAfter(@, r)]
        /\ buffer' = [buffer EXCEPT ![c] = Incomplete(r)]
        /\ UNCHANGED <<server, sink, peer, spoke>>
  BY DEF Read, serverVars
<1> DEFINE u == SubSeq(w, 1, n)
           y == SubSeq(w, n + 1, Len(w))
<1>2. w \in Seq(Bytes) /\ b \in Seq(Bytes)
  BY DEF ReaderInv, TypeOK
<1>3. EmptyAboveHalf(b) = b
  <2>1. Len(b) \in Nat /\ Len(b) < LineLen
    BY <1>2 DEF ReaderInv, StreamsAreLines
  <2> QED
    BY <2>1, LineLenIsNat, ReaderAssumption DEF EmptyAboveHalf
<1>4. n \in 0..Len(w)
  BY <1>2
<1>5. u \in Seq(Bytes) /\ y \in Seq(Bytes) /\ u \o y = w
  BY <1>2, <1>4, CutInTwo
<1>6. /\ wire' = [wire EXCEPT ![c] = y]
      /\ device' = [device EXCEPT ![c] = DeviceAfter(@, b \o u)]
      /\ buffer' = [buffer EXCEPT ![c] = Incomplete(b \o u)]
      /\ UNCHANGED <<server, sink, peer, spoke>>
  <2> DEFINE r == EmptyAboveHalf(b) \o SubSeq(w, 1, n)
  <2>1. /\ wire' = [wire EXCEPT ![c] = y]
        /\ device' = [device EXCEPT ![c] = DeviceAfter(@, r)]
        /\ buffer' = [buffer EXCEPT ![c] = Incomplete(r)]
        /\ UNCHANGED <<server, sink, peer, spoke>>
    BY <1>1, Zenon
  <2>2. r = b \o u
    BY <1>3
  <2> HIDE DEF r, u, y, b
  <2> QED
    BY <2>1, <2>2
<1> HIDE DEF u, y
<1>7. b \o u \in Seq(Bytes) /\ (b \o u) \o y = b \o w
  <2> HIDE DEF b, w
  <2>1. (b \o u) \o y = b \o (u \o y)
    BY <1>2, <1>5, Regroup
  <2>2. b \o u \in Seq(Bytes)
    BY <1>2, <1>5
  <2> QED
    BY <1>5, <2>1, <2>2
<1> QED
  BY <1>5, <1>6, <1>7

\* The events of what is read are taken from the front of those on the way, and given to
\* the reader's device in order.
LEMMA ReadIsDeliver ==
  ASSUME StreamInv, ReaderInv', NEW c \in Conns, Read(c)
  PROVE  (Stream!Deliver(c) \/ UNCHANGED Stream!vars) /\ GoneIsEmpty'
<1>1. WaysAre /\ WaysAre' /\ ReaderInv
  <2>1. ReaderInv' => WaysAre'
    BY Ways, PTL
  <2> QED
    BY <2>1, Ways DEF StreamInv
<1>2. PICK x \in Seq(Bytes), y \in Seq(Bytes) :
        /\ x \o y = buffer[c] \o wire[c]
        /\ wire' = [wire EXCEPT ![c] = y]
        /\ device' = [device EXCEPT ![c] = DeviceAfter(@, x)]
        /\ buffer' = [buffer EXCEPT ![c] = Incomplete(x)]
        /\ UNCHANGED <<server, sink, peer, spoke>>
  BY <1>1, ReadEffect
<1>3. /\ wire \in [Conns -> Seq(Bytes)] /\ buffer \in [Conns -> Seq(Bytes)]
      /\ device \in [Conns -> SUBSET Keys] /\ InLines(x \o y)
  BY <1>1, <1>2 DEF ReaderInv, TypeOK, StreamsAreLines, WholeLines
<1>4. /\ wire'[c] = y /\ buffer'[c] = Incomplete(x) /\ InLines(x)
      /\ \A d \in Conns : d # c => wire'[d] = wire[d] /\ buffer'[d] = buffer[d]
  <2>1. InLines(x)
    BY <1>3, FirstAreLines
  <2> QED
    BY <1>2, <1>3, <2>1
<1>5. Gone' = Gone /\ c \notin Gone
  BY <1>2 DEF Gone, Read
<1>6. GoneIsEmpty'
  BY <1>4, <1>5 DEF StreamInv, GoneIsEmpty, Gone
<1>7. Active' = Active /\ Buffered' = Buffered
  BY <1>2 DEF Active, Buffered
<1> DEFINE e == EventsIn(x)
           q == OnTheirWay[c]
           r == OnTheirWay'[c]
<1>8. e \in Seq(KeyEvents) /\ Written(c) = e \o Written(c)'
  <2>1. /\ EventsIn(x) \in Seq(KeyEvents)
        /\ EventsIn(x \o y) = EventsIn(x) \o EventsIn(Incomplete(x) \o y)
    BY <1>3, EventsOfRest
  <2>2. Written(c) = EventsIn(x \o y) /\ Written(c)' = EventsIn(Incomplete(x) \o y)
    BY <1>2, <1>4 DEF Written
  <2> QED
    BY <2>1, <2>2
<1>9. r \in Seq(KeyEvents) /\ q = e \o r
  <2> DEFINE w == Written(c)'
             v == Buffered
  <2>1. w \in Seq(KeyEvents) /\ v \in Seq(KeyEvents)
    BY <1>1 DEF WaysAre
  <2>2. /\ q = IF Active = c THEN (e \o w) \o v ELSE e \o w
        /\ r = IF Active = c THEN w \o v ELSE w
        /\ r \in Seq(KeyEvents)
    BY <1>1, <1>7, <1>8 DEF WaysAre
  <2> HIDE DEF e, w, v, q, r
  <2>3. (e \o w) \o v = e \o (w \o v)
    BY <1>8, <2>1
  <2> QED
    BY <2>2, <2>3
<1>10. \A d \in Conns : d # c => OnTheirWay'[d] = OnTheirWay[d]
  BY <1>1, <1>4, <1>7 DEF WaysAre, Written
<1>11. OnTheirWay' = [OnTheirWay EXCEPT ![c] = r]
  <2> DEFINE f == [OnTheirWay EXCEPT ![c] = r]
  <2>1. /\ OnTheirWay' \in [Conns -> Seq(KeyEvents)] /\ OnTheirWay \in [Conns -> Seq(KeyEvents)]
        /\ f \in [Conns -> Seq(KeyEvents)]
    BY <1>1, <1>9 DEF WaysAre
  <2>2. \A d \in Conns : OnTheirWay'[d] = f[d]
    BY <1>10, <2>1
  <2> HIDE DEF f
  <2>3. OnTheirWay' = f
    BY <2>1, <2>2, SameValues
  <2> QED
    BY <2>3 DEF f
<1>12. device' = [device EXCEPT ![c] = Stream!After(@, e)]
  <2>1. DeviceAfter(device[c], x) = Stream!After(device[c], EventsIn(x))
    BY <1>3, <1>4, DeviceIsAfter
  <2> QED
    BY <1>2, <2>1
<1> HIDE DEF e, r
<1>13. CASE e = <<>>
  <2>1. q = r
    BY <1>9, <1>13
  <2>2. OnTheirWay' = OnTheirWay
    BY <1>1, <1>11, <2>1 DEF WaysAre
  <2>3. Stream!After(device[c], e) = device[c]
    BY <1>3, <1>13, AfterNothing
  <2>4. device' = device
    BY <1>3, <1>12, <2>3
  <2> QED
    BY <1>2, <1>5, <1>6, <1>7, <2>2, <2>4 DEF Stream!vars
<1>14. CASE e # <<>>
  <2> DEFINE n == Len(e)
  <2>1. /\ SubSeq(e \o r, 1, n) = e /\ SubSeq(e \o r, n + 1, Len(e \o r)) = r
        /\ n \in 0..Len(e \o r) /\ n \in Nat
    BY <1>8, <1>9, CutOff
  <2>2. n # 0
    BY <1>8, <1>14
  <2>3. n \in 1..Len(q) /\ SubSeq(q, 1, n) = e /\ SubSeq(q, n + 1, Len(q)) = r
    BY <1>9, <2>1, <2>2
  <2> HIDE DEF n
  <2>4. n \in 1..Len(OnTheirWay[c])
    BY <2>3
  <2>5. /\ device' = [device EXCEPT ![c] = Stream!After(@, SubSeq(OnTheirWay[c], 1, n))]
        /\ OnTheirWay' = [OnTheirWay EXCEPT ![c] = SubSeq(@, n + 1, Len(@))]
    BY <1>11, <1>12, <2>3
  <2>6. Stream!Deliver(c)
    BY <1>2, <1>5, <1>7, <2>4, <2>5 DEF Stream!Deliver
  <2> QED
    BY <1>6, <2>6
<1> QED
  BY <1>13, <1>14

-----------------------------------------------------------------------------
(* The server's steps                                                      *)

\* An event that server_send_event() buffers is on the way to the active reader, behind
\* the others; one that it drops is not.
LEMMA SendIsSend ==
  ASSUME StreamInv, ReaderInv', NEW ev \in KeyEvents, SendEvent(ev)
  PROVE  Stream!Send(ev) /\ GoneIsEmpty'
<1>1. WaysAre /\ WaysAre' /\ ReaderInv
  <2>1. ReaderInv' => WaysAre'
    BY Ways, PTL
  <2> QED
    BY <2>1, Ways DEF StreamInv
<1>2. /\ ev.press <=> ev.code \notin sink
      /\ sink' = Stream!Pressed(sink, ev) /\ server' = server_send_event(server, ev)
      /\ UNCHANGED <<peer, buffer, device, spoke, wire>>
  BY DEF SendEvent, readerVars, Stream!Pressed, Pressed
<1>3. Gone' = Gone
  BY <1>2 DEF Gone
<1>4. GoneIsEmpty'
  BY <1>2, <1>3 DEF StreamInv, GoneIsEmpty
<1>5. CASE server' = server
  <2>1. UNCHANGED <<Active, OnTheirWay>>
    BY <1>2, <1>5, SameWays
  <2> QED
    BY <1>2, <1>3, <1>4, <2>1 DEF Stream!Send
<1>6. CASE server' # server
  <2> DEFINE fc == server.for_client
             a  == Active
  <2>1. /\ a # "none" /\ a \in Conns /\ server = One(a, fc)
        /\ Active = ActiveClient(server) /\ HasClients(server)
    BY <1>1, <1>2, <1>6, ActiveReader, SendToNone
  <2>2. fc \in Seq(Bytes) /\ WholeLines(fc)
    BY <1>1 DEF ReaderInv, TypeOK, KbdServerType, StreamsAreLines
  <2> HIDE DEF fc, a
  <2>3. server' = One(a, fc \o Line(ev))
    <3>1. server' = server_send_event(One(a, fc), ev)
      BY <1>2, <2>1
    <3> QED
      BY <1>6, <2>1, <3>1, SendToTheOne
  <2>4. Active' = a /\ Buffered' = EventsIn(fc \o Line(ev))
    <3>1. /\ server'.for_client = fc \o Line(ev) /\ HasClients(server)'
          /\ ActiveClient(server)' = a
      BY <2>3, OneFields
    <3> QED
      BY <3>1 DEF Active, Buffered
  <2>5. Buffered' = Append(Buffered, ev)
    <3> DEFINE l == Line(ev)
    <3>1. l \in Seq(Bytes) /\ InLines(l) /\ EventsIn(l) = <<ev>>
      BY LineFields, LineIsWhole, EventsOfLine DEF WholeLines
    <3> HIDE DEF l
    <3>2. EventsIn(fc \o l) = EventsIn(fc) \o <<ev>> /\ EventsIn(fc) \in Seq(KeyEvents)
      BY <2>2, <3>1, EventsOfBoth
    <3>3. EventsIn(fc) = Buffered
      BY DEF Buffered, fc
    <3>4. EventsIn(fc) \o <<ev>> = Append(EventsIn(fc), ev)
      BY <3>2
    <3> QED
      BY <2>4, <3>2, <3>3, <3>4 DEF l
  <2>6. \A c \in Conns : Written(c)' = Written(c)
    BY <1>2 DEF Written
  <2>7. OnTheirWay'[a] = Append(OnTheirWay[a], ev)
    <3> DEFINE w == Written(a)
               v == Buffered
    <3>1. w \in Seq(KeyEvents) /\ v \in Seq(KeyEvents)
      BY <1>1, <2>1 DEF WaysAre
    <3>2. OnTheirWay[a] = w \o v /\ OnTheirWay'[a] = w \o Append(v, ev)
      BY <1>1, <2>1, <2>4, <2>5, <2>6 DEF WaysAre, a
    <3> HIDE DEF w, v
    <3>3. w \o Append(v, ev) = Append(w \o v, ev)
      BY <3>1, AppendAfter
    <3> QED
      BY <3>2, <3>3
  <2>8. \A c \in Conns : c # a => OnTheirWay'[c] = OnTheirWay[c]
    BY <1>1, <2>4, <2>6 DEF WaysAre, a
  <2>9. OnTheirWay' = [OnTheirWay EXCEPT ![a] = Append(@, ev)]
    <3> DEFINE f == [OnTheirWay EXCEPT ![a] = Append(@, ev)]
    <3>1. /\ OnTheirWay' \in [Conns -> Seq(KeyEvents)] /\ OnTheirWay \in [Conns -> Seq(KeyEvents)]
          /\ f \in [Conns -> Seq(KeyEvents)]
      <4>1. OnTheirWay' \in [Conns -> Seq(KeyEvents)] /\ OnTheirWay \in [Conns -> Seq(KeyEvents)]
        BY <1>1 DEF WaysAre
      <4>2. Append(OnTheirWay[a], ev) \in Seq(KeyEvents)
        BY <2>1, <4>1
      <4> QED
        BY <4>1, <4>2
    <3>2. \A c \in Conns : OnTheirWay'[c] = f[c]
      BY <2>7, <2>8, <3>1
    <3> HIDE DEF f
    <3>3. OnTheirWay' = f
      BY <3>1, <3>2, SameValues
    <3> QED
      BY <3>3 DEF f
  <2> QED
    BY <1>2, <1>3, <1>4, <2>1, <2>4, <2>9 DEF Stream!Send, a
<1> QED
  BY <1>5, <1>6

\* the client in service is written all that waits for it, or what was for it vanishes
Wrote ==
  IF Active \in Gone THEN wire' = wire
  ELSE wire' = [wire EXCEPT ![Active] = @ \o server.for_client]

\* a pass of the select loop leaves s, before a connection is accepted
Leaves(s) ==
  \/ ~HasClients(server) /\ s = NewServer /\ wire' = wire
  \/ HasClients(server) /\ s = server /\ wire' = wire
  \/ HasClients(server) /\ s = One(Active, <<>>) /\ Wrote
  \/ /\ HasClients(server) /\ s = NewServer /\ Active \in Gone \cup spoke
     /\ wire' = wire \/ Wrote

\* A pass of the loop writes to the client, and closes it if it has gone or spoken
\* (server_handle_select).
LEMMA SelectLeaves ==
  ASSUME ReaderInv, NEW writable \in BOOLEAN, NEW eof \in SUBSET Ended,
         NEW accept \in BOOLEAN, HandleSelect(writable, eof, accept)
  PROVE  /\ \E s : /\ Leaves(s)
                   /\ server' = IF accept THEN Accept(s, Head(backlog)) ELSE s
         /\ UNCHANGED <<sink, peer, buffer, device, spoke>>
<1> DEFINE a  == ActiveClient(server)
           fc == server.for_client
           Written1(fails) == IF writable THEN WriteActive(server, fails) ELSE server
<1>1. PICK fails \in BOOLEAN :
        /\ writable => HasClients(server)
        /\ fails => writable /\ a \in Gone
        /\ server' = IF accept THEN Accept(CloseDisconnected(Written1(fails), eof), Head(backlog))
                     ELSE CloseDisconnected(Written1(fails), eof)
        /\ wire' = IF writable /\ a \notin Gone THEN [wire EXCEPT ![a] = @ \o fc] ELSE wire
        /\ UNCHANGED <<sink, peer, buffer, device, spoke>>
  BY DEF HandleSelect, WantsToWrite, readerVars
<1> DEFINE s == CloseDisconnected(Written1(fails), eof)
<1>2. \/ ~HasClients(server) /\ server = NewServer
      \/ HasClients(server) /\ server = One(a, fc) /\ Active = a
  BY ActiveReader
<1>3. a \in eof => a \in Gone \cup spoke
  BY DEF Ended
<1>4. Leaves(s)
  <2>1. CASE ~HasClients(server)
    <3>1. Written1(fails) = NewServer /\ wire' = wire
      BY <1>1, <1>2, <2>1
    <3>2. s = NewServer
      BY <3>1, CheckNone
    <3> HIDE DEF s
    <3> QED
      BY <2>1, <3>1, <3>2 DEF Leaves
  <2>2. CASE HasClients(server) /\ ~writable
    <3>1. Written1(fails) = One(a, fc) /\ wire' = wire
      BY <1>1, <1>2, <2>2
    <3>2. s = IF a \in eof THEN NewServer ELSE One(a, fc)
      BY <3>1, CheckTheOne
    <3> HIDE DEF s, a, fc
    <3> QED
      BY <1>2, <1>3, <2>2, <3>1, <3>2 DEF Leaves
  <2>3. CASE HasClients(server) /\ writable
    <3>1. Written1(fails) = IF fails THEN NewServer ELSE One(a, <<>>)
      <4>1. Written1(fails) = WriteActive(One(a, fc), fails)
        BY <1>2, <2>3
      <4> HIDE DEF a, fc, Written1
      <4> QED
        BY <4>1, WriteToTheOne
    <3>2. s = IF fails \/ a \in eof THEN NewServer ELSE One(a, <<>>)
      BY <3>1, CheckTheOne, CheckNone
    <3>3. Wrote
      BY <1>1, <1>2, <2>3 DEF Wrote
    <3>4. fails => a \in Gone
      BY <1>1
    <3> HIDE DEF s, a, fc
    <3> QED
      BY <1>2, <1>3, <2>3, <3>2, <3>3, <3>4 DEF Leaves
  <2> QED
    BY <2>1, <2>2, <2>3
<1>5. server' = IF accept THEN Accept(s, Head(backlog)) ELSE s
  BY <1>1
<1> HIDE DEF s
<1> QED
  BY <1>1, <1>4, <1>5

\* What a pass of the loop does to what has been written.
LEMMA WrittenNext ==
  ASSUME ReaderInv, WaysAre, HasClients(server), NEW a \in Conns, a = Active,
         wire' = wire \/ Wrote, buffer' = buffer
  PROVE  /\ wire' = wire => \A c \in Conns : Written(c)' = Written(c)
         /\ \A c \in Conns : c # a => Written(c)' = Written(c)
         /\ Written(a)' \in {Written(a), Written(a) \o Buffered}
         /\ Wrote /\ a \notin Gone => Written(a)' = Written(a) \o Buffered
<1> DEFINE fc == server.for_client
<1>1. wire' = wire => \A c \in Conns : Written(c)' = Written(c)
  BY DEF Written
<1>2. CASE Wrote /\ a \notin Gone
  <2>1. /\ fc \in Seq(Bytes) /\ WholeLines(fc) /\ InLines(fc)
        /\ wire \in [Conns -> Seq(Bytes)] /\ wire[a] \in Seq(Bytes) /\ buffer[a] \in Seq(Bytes)
        /\ WholeLines(buffer[a] \o wire[a])
    BY DEF ReaderInv, TypeOK, KbdServerType, StreamsAreLines, WholeLines
  <2>2. wire' = [wire EXCEPT ![a] = @ \o fc]
    BY <1>2 DEF Wrote
  <2> HIDE DEF fc
  <2>3. wire'[a] = wire[a] \o fc /\ \A c \in Conns : c # a => wire'[c] = wire[c]
    BY <2>1, <2>2
  <2>4. \A c \in Conns : c # a => Written(c)' = Written(c)
    BY <2>3 DEF Written
  <2>5. EventsIn(buffer[a] \o wire'[a]) = EventsIn(buffer[a] \o wire[a]) \o EventsIn(fc)
    <3> DEFINE b == buffer[a]
               w == wire[a]
    <3>1. b \in Seq(Bytes) /\ w \in Seq(Bytes) /\ WholeLines(b \o w) /\ b \o w \in Seq(Bytes)
      BY <2>1
    <3> HIDE DEF b, w
    <3>2. EventsIn((b \o w) \o fc) = EventsIn(b \o w) \o EventsIn(fc)
      BY <2>1, <3>1, EventsOfBoth
    <3>3. (b \o w) \o fc = b \o (w \o fc)
      BY <2>1, <3>1, Regroup
    <3> QED
      BY <2>3, <3>2, <3>3 DEF b, w
  <2>6. Written(a) = EventsIn(buffer[a] \o wire[a]) /\ Buffered = EventsIn(fc)
    BY DEF Written, Buffered, fc
  <2>7. Written(a)' = EventsIn(buffer[a] \o wire'[a])
    BY DEF Written
  <2>8. Written(a)' = Written(a) \o Buffered
    BY <2>5, <2>6, <2>7
  <2> QED
    BY <1>1, <2>4, <2>8
<1>3. CASE ~(Wrote /\ a \notin Gone)
  <2>1. wire' = wire
    BY <1>3 DEF Wrote
  <2> QED
    BY <1>1, <1>3, <2>1
<1> QED
  BY <1>2, <1>3

\* What a reader that has gone was sent stays lost.
LEMMA GoneStayEmpty ==
  ASSUME StreamInv, NEW s, Leaves(s), UNCHANGED <<peer, buffer>>
  PROVE  Gone' = Gone /\ GoneIsEmpty'
<1>1. Gone' = Gone
  BY DEF Gone
<1>2. wire \in [Conns -> Seq(Bytes)] /\ Gone \subseteq Conns
  BY DEF StreamInv, ReaderInv, TypeOK, Gone
<1>3. ASSUME NEW c \in Gone
      PROVE  wire'[c] = wire[c]
  <2>1. wire' = wire \/ Wrote
    BY DEF Leaves
  <2> QED
    BY <1>2, <2>1 DEF Wrote
<1> QED
  BY <1>1, <1>3 DEF StreamInv, GoneIsEmpty

\* A pass of the loop that accepts nobody changes nothing for the readers, unless the
\* client is found to have gone or to have spoken.
LEMMA SelectIsClose ==
  ASSUME StreamInv, ReaderInv', NEW s, Leaves(s), server' = s,
         UNCHANGED <<sink, peer, buffer, device, spoke>>
  PROVE  Stream!Close \/ Stream!Lose \/ UNCHANGED Stream!vars
<1>1. WaysAre /\ WaysAre' /\ ReaderInv
  <2>1. ReaderInv' => WaysAre'
    BY Ways, PTL
  <2> QED
    BY <2>1, Ways DEF StreamInv
<1>2. Gone' = Gone
  BY GoneStayEmpty
<1>3. CASE server' = server /\ wire' = wire
  <2>1. UNCHANGED <<Active, OnTheirWay>>
    BY <1>3, SameWays
  <2> QED
    BY <1>2, <2>1 DEF Stream!vars
<1>4. CASE ~(server' = server /\ wire' = wire)
  <2>1. HasClients(server)
    BY <1>1, <1>4, ActiveReader DEF Leaves
  <2>2. PICK a \in Conns : a = Active
    BY <1>1, <2>1, ActiveReader
  <2>3. wire' = wire \/ Wrote
    BY DEF Leaves
  <2>4. /\ wire' = wire => \A c \in Conns : Written(c)' = Written(c)
        /\ \A c \in Conns : c # a => Written(c)' = Written(c)
        /\ Written(a)' \in {Written(a), Written(a) \o Buffered}
        /\ Wrote /\ a \notin Gone => Written(a)' = Written(a) \o Buffered
    BY <1>1, <2>1, <2>2, <2>3, WrittenNext
  <2> DEFINE W == Written(a)
             V == Written(a)'
             F == Buffered
             q == OnTheirWay[a]
  <2>5. W \in Seq(KeyEvents) /\ V \in Seq(KeyEvents) /\ F \in Seq(KeyEvents) /\ q = W \o F
    BY <1>1, <2>2 DEF WaysAre
  <2>6. ASSUME Buffered' = <<>>, Active' \in {a, "none"}
        PROVE  OnTheirWay' = [OnTheirWay EXCEPT ![a] = V]
    <3>1. \A c \in Conns : Written(c)' \o <<>> = Written(c)'
      BY <1>1 DEF WaysAre
    <3>2. \A c \in Conns : OnTheirWay'[c] = Written(c)'
      BY <1>1, <2>6, <3>1 DEF WaysAre
    <3>3. \A c \in Conns : c # a => OnTheirWay'[c] = OnTheirWay[c]
      BY <1>1, <2>2, <2>4, <3>2 DEF WaysAre
    <3> DEFINE f == [OnTheirWay EXCEPT ![a] = V]
    <3>4. OnTheirWay'[a] = V
      BY <3>2
    <3> HIDE DEF V
    <3>5. /\ OnTheirWay' \in [Conns -> Seq(KeyEvents)] /\ OnTheirWay \in [Conns -> Seq(KeyEvents)]
          /\ f \in [Conns -> Seq(KeyEvents)]
      BY <1>1, <2>5 DEF WaysAre
    <3>6. \A c \in Conns : OnTheirWay'[c] = f[c]
      BY <3>3, <3>4, <3>5
    <3> HIDE DEF f
    <3>7. OnTheirWay' = f
      BY <3>5, <3>6, SameValues
    <3> QED
      BY <3>7 DEF f
  <2>7. CASE s = One(a, <<>>) /\ Wrote
    <3>1. Active' = a /\ Buffered' = <<>>
      <4>1. server'.for_client = <<>> /\ HasClients(server)' /\ ActiveClient(server)' = a
        BY <2>7, OneFields
      <4> QED
        BY <4>1, EventsOfNothing DEF Active, Buffered
    <3>2. OnTheirWay' = [OnTheirWay EXCEPT ![a] = V]
      BY <2>6, <3>1
    <3>3. CASE a \notin Gone
      <4>1. V = q
        BY <2>4, <2>5, <2>7, <3>3
      <4> HIDE DEF V
      <4>2. OnTheirWay' = OnTheirWay
        BY <1>1, <3>2, <4>1 DEF WaysAre
      <4> QED
        BY <1>2, <2>2, <3>1, <4>2 DEF Stream!vars
    <3>4. CASE a \in Gone
      <4>1. W = <<>>
        <5>1. buffer[a] \o wire[a] = <<>>
          BY <3>4, NothingIsAString DEF StreamInv, GoneIsEmpty
        <5> QED
          BY <5>1, EventsOfNothing DEF Written
      <4>2. V = W
        BY <2>2, <2>4, <2>7, <3>4 DEF Wrote
      <4> HIDE DEF V, W
      <4>3. OnTheirWay' = [OnTheirWay EXCEPT ![a] = <<>>]
        BY <3>2, <4>1, <4>2
      <4> QED
        BY <1>2, <2>2, <3>1, <3>4, <4>3 DEF Stream!Lose
    <3> QED
      BY <3>3, <3>4
  <2>8. CASE s = NewServer /\ Active \in Gone \cup spoke
    <3>1. Active' = "none" /\ Buffered' = <<>>
      <4>1. server'.for_client = <<>> /\ ~HasClients(server)'
        BY <2>8, NewServerFields
      <4> QED
        BY <4>1, EventsOfNothing DEF Active, Buffered
    <3>2. OnTheirWay' = [OnTheirWay EXCEPT ![a] = V]
      BY <2>6, <3>1
    <3>3. \E n \in 0..Len(q) : SubSeq(q, 1, n) = V
      <4>1. V = W \/ V = W \o F
        BY <2>4
      <4> HIDE DEF V, W, F, q
      <4>2. CASE V = W
        <5>1. Len(W) \in 0..Len(W \o F) /\ SubSeq(W \o F, 1, Len(W)) = W
          BY <2>5, CutOff
        <5> QED
          BY <2>5, <4>2, <5>1
      <4>3. CASE V = W \o F
        <5>1. V = q /\ q \in Seq(KeyEvents)
          BY <2>5, <4>3
        <5>2. SubSeq(q, 1, Len(q)) = q /\ Len(q) \in 0..Len(q)
          BY <5>1, SubSeqFull
        <5> QED
          BY <5>1, <5>2
      <4> QED
        BY <4>1, <4>2, <4>3
    <3>4. PICK n \in 0..Len(q) : SubSeq(q, 1, n) = V
      BY <3>3
    <3>5. OnTheirWay' = [OnTheirWay EXCEPT ![a] = SubSeq(@, 1, n)]
      <4> HIDE DEF V
      <4> QED
        BY <3>2, <3>4
    <3> QED
      BY <1>2, <2>2, <2>8, <3>1, <3>4, <3>5 DEF Stream!Close
  <2> QED
    BY <1>4, <2>1, <2>2, <2>7, <2>8 DEF Leaves
<1> QED
  BY <1>3, <1>4

\* what the reader that is given up keeps, K, and what the next one gets, T, of the events
\* written, W, and buffered, F
Parted(W, F, K, T, lossy) ==
  \/ K = W /\ T = F
  \/ K = W \o F /\ T = <<>>
  \/ K = W /\ T = <<>> /\ lossy

\* where the events q are cut for K and T
CutFor(q, K, T, lossy) ==
  \E kept \in 0..Len(q), taken \in 0..Len(q) :
    /\ SubSeq(q, 1, kept) = K
    /\ SubSeq(q, taken + 1, Len(q)) = T
    /\ kept = taken \/ (lossy /\ kept < taken)

\* The events on the way are cut in two, and none is lost unless the reader was to be
\* closed.
LEMMA CutsExist ==
  ASSUME NEW W \in Seq(KeyEvents), NEW F \in Seq(KeyEvents), NEW K, NEW T,
         NEW lossy \in BOOLEAN, Parted(W, F, K, T, lossy)
  PROVE  CutFor(W \o F, K, T, lossy)
<1> DEFINE q == W \o F
           n == Len(q)
           m == Len(W)
<1>1. /\ q \in Seq(KeyEvents) /\ n \in Nat /\ n \in 0..n
  OBVIOUS
<1>2. /\ m \in 0..n /\ m \in Nat
      /\ SubSeq(q, 1, m) = W /\ SubSeq(q, m + 1, n) = F
  BY CutOff
<1>3. SubSeq(q, 1, n) = q
  <2> HIDE DEF q
  <2> QED
    BY <1>1, SubSeqFull
<1>4. SubSeq(q, n + 1, n) = <<>>
  <2>1. n + 1 > n /\ n + 1 \in Int /\ n \in Int
    BY <1>1
  <2> HIDE DEF q, n
  <2> QED
    BY <1>1, <2>1, SubSeqEmpty
<1> HIDE DEF q, n, m
<1>5. CASE K = W /\ T = F
  BY <1>2, <1>5 DEF CutFor, q, n
<1>6. CASE K = q /\ T = <<>>
  BY <1>1, <1>3, <1>4, <1>6 DEF CutFor, q, n
<1>7. CASE K = W /\ T = <<>> /\ lossy
  <2>1. m = n \/ m < n
    BY <1>1, <1>2
  <2> QED
    BY <1>1, <1>2, <1>4, <1>7, <2>1 DEF CutFor, q, n
<1> QED
  BY <1>5, <1>6, <1>7 DEF Parted, q

\* A connection that is accepted takes the place of the client, and what waits in the
\* server is for the newcomer (server_handle_select).
LEMMA SelectIsHandOver ==
  ASSUME StreamInv, ReaderInv', NEW s, Leaves(s), backlog # <<>>,
         server' = Accept(s, Head(backlog)), UNCHANGED <<sink, peer, buffer, device, spoke>>
  PROVE  \E h \in Conns : Stream!HandOver(h)
<1>1. WaysAre /\ WaysAre' /\ ReaderInv
  <2>1. ReaderInv' => WaysAre'
    BY Ways, PTL
  <2> QED
    BY <2>1, Ways DEF StreamInv
<1>2. Gone' = Gone
  BY GoneStayEmpty
<1>3. PICK h \in Conns : h = Head(backlog) /\ Waiting(h)
  <2>1. backlog \in Seq(Conns) /\ backlog # <<>>
    BY <1>1 DEF ReaderInv, TypeOK
  <2>2. 1 \in 1..Len(backlog) /\ Head(backlog) = backlog[1] /\ Head(backlog) \in Conns
    BY <2>1
  <2> QED
    BY <2>2 DEF Waiting
<1>4. h \notin server.open /\ wire[h] = <<>> /\ buffer[h] = <<>>
  BY <1>1, <1>3 DEF ReaderInv, NewcomersAreNew
<1>5. Written(h) = <<>>
  BY <1>4, NothingIsAString, EventsOfNothing DEF Written
<1>6. h # Active
  BY <1>1, <1>4, ActiveReader
<1>7. ASSUME NEW events, server' = One(h, events)
      PROVE  Active' = h /\ Buffered' = EventsIn(events)
  <2>1. server'.for_client = events /\ HasClients(server)' /\ ActiveClient(server)' = h
    BY <1>7, OneFields
  <2> QED
    BY <2>1 DEF Active, Buffered
<1>8. CASE ~HasClients(server)
  <2>1. s = NewServer /\ wire' = wire /\ Active = "none"
    BY <1>1, <1>8, ActiveReader DEF Leaves
  <2>2. server' = One(h, <<>>)
    BY <1>3, <2>1, AcceptFirst
  <2>3. Active' = h /\ Buffered' = <<>>
    BY <1>7, <2>2, EventsOfNothing
  <2>4. \A c \in Conns : Written(c)' = Written(c)
    BY <2>1 DEF Written
  <2>5. Active \notin Conns
    BY <2>1, StreamAssumption
  <2>6. Written(h) \o <<>> = Written(h)
    BY <1>5
  <2>7. \A c \in Conns : OnTheirWay'[c] = OnTheirWay[c]
    BY <1>1, <2>3, <2>4, <2>5, <2>6 DEF WaysAre
  <2>8. OnTheirWay' \in [Conns -> Seq(KeyEvents)] /\ OnTheirWay \in [Conns -> Seq(KeyEvents)]
    BY <1>1 DEF WaysAre
  <2>9. OnTheirWay' = OnTheirWay
    BY <2>7, <2>8, SameValues
  <2> QED
    BY <1>2, <1>6, <2>1, <2>3, <2>9 DEF Stream!HandOver
<1>9. CASE HasClients(server)
  <2>1. PICK a \in Conns : a = Active /\ a # "none" /\ server = One(a, server.for_client)
    BY <1>1, <1>9, ActiveReader
  <2>2. wire' = wire \/ Wrote
    BY DEF Leaves
  <2>3. /\ wire' = wire => \A c \in Conns : Written(c)' = Written(c)
        /\ \A c \in Conns : c # a => Written(c)' = Written(c)
        /\ Written(a)' \in {Written(a), Written(a) \o Buffered}
        /\ Wrote /\ a \notin Gone => Written(a)' = Written(a) \o Buffered
    BY <1>1, <1>9, <2>1, <2>2, WrittenNext
  <2> DEFINE W == Written(a)
             K == Written(a)'
             F == Buffered
             T == Buffered'
             q == OnTheirWay[a]
             lossy == a \in Gone \cup spoke
  <2>4. /\ W \in Seq(KeyEvents) /\ K \in Seq(KeyEvents) /\ F \in Seq(KeyEvents)
        /\ T \in Seq(KeyEvents) /\ q = W \o F
    BY <1>1, <2>1 DEF WaysAre
  <2>5. Active' = h /\ Parted(W, F, K, T, lossy)
    <3>1. CASE s = server /\ wire' = wire
      <4>1. server' = One(h, server.for_client)
        BY <1>3, <1>6, <2>1, <3>1, AcceptAnother
      <4>2. Active' = h /\ T = F
        BY <1>7, <4>1 DEF Buffered
      <4> QED
        BY <2>3, <3>1, <4>2 DEF Parted
    <3>2. CASE s = One(a, <<>>) /\ Wrote
      <4>1. server' = One(h, <<>>)
        BY <1>3, <1>6, <2>1, <3>2, AcceptAnother
      <4>2. Active' = h /\ T = <<>>
        BY <1>7, <4>1, EventsOfNothing
      <4>3. K = W \o F \/ (K = W /\ lossy)
        <5>1. a \in Gone => wire' = wire
          BY <2>1, <3>2 DEF Wrote
        <5> QED
          BY <2>3, <3>2, <5>1
      <4> HIDE DEF W, K, F, T
      <4> QED
        BY <4>2, <4>3 DEF Parted
    <3>3. CASE s = NewServer /\ Active \in Gone \cup spoke
      <4>1. server' = One(h, <<>>)
        BY <1>3, <3>3, AcceptFirst
      <4>2. Active' = h /\ T = <<>>
        BY <1>7, <4>1, EventsOfNothing
      <4>3. (K = W \o F \/ K = W) /\ lossy
        BY <2>1, <2>3, <3>3
      <4> HIDE DEF W, K, F, T
      <4> QED
        BY <4>2, <4>3 DEF Parted
    <3> QED
      BY <1>9, <2>1, <3>1, <3>2, <3>3 DEF Leaves
  <2>6. /\ OnTheirWay'[a] = K /\ OnTheirWay'[h] = T
        /\ \A c \in Conns : c # a /\ c # h => OnTheirWay'[c] = OnTheirWay[c]
    <3>1. Active' = h /\ h # a
      BY <1>6, <2>1, <2>5
    <3>2. OnTheirWay'[a] = K
      BY <1>1, <3>1 DEF WaysAre
    <3>3. OnTheirWay'[h] = T
      <4>1. Written(h)' = <<>>
        BY <1>5, <2>3, <3>1
      <4>2. <<>> \o T = T
        BY <2>4
      <4> QED
        BY <1>1, <3>1, <4>1, <4>2 DEF WaysAre
    <3>4. \A c \in Conns : c # a /\ c # h => OnTheirWay'[c] = OnTheirWay[c]
      BY <1>1, <2>1, <2>3, <3>1 DEF WaysAre
    <3> QED
      BY <3>2, <3>3, <3>4
  <2> HIDE DEF W, K, F, T, lossy, q
  <2>7. PICK kept \in 0..Len(q), taken \in 0..Len(q) :
          /\ SubSeq(q, 1, kept) = K
          /\ SubSeq(q, taken + 1, Len(q)) = T
          /\ kept = taken \/ (lossy /\ kept < taken)
    <3>1. lossy \in BOOLEAN
      BY DEF lossy
    <3>2. Parted(W, F, K, T, lossy)
      BY <2>5
    <3>3. W \in Seq(KeyEvents) /\ F \in Seq(KeyEvents)
      BY <2>4
    <3>4. CutFor(W \o F, K, T, lossy)
      BY ONLY <3>1, <3>2, <3>3, CutsExist
    <3>5. CutFor(q, K, T, lossy)
      BY <2>4, <3>4
    <3> QED
      BY <3>5 DEF CutFor
  <2> DEFINE cut == [kept |-> kept, taken |-> taken]
             f == [c \in Conns |-> IF c = a THEN SubSeq(q, 1, cut.kept)
                                   ELSE IF c = h THEN SubSeq(q, cut.taken + 1, Len(q))
                                   ELSE OnTheirWay[c]]
  <2>8. cut \in Stream!Cuts(Len(q))
    <3>1. cut \in [kept : 0..Len(q), taken : 0..Len(q)] /\ cut.kept = kept /\ cut.taken = taken
      OBVIOUS
    <3>2. kept = taken \/ (Active \in Gone \cup spoke /\ kept < taken)
      BY <2>1, <2>7 DEF lossy
    <3> HIDE DEF cut
    <3> QED
      BY <3>1, <3>2 DEF Stream!Cuts
  <2>9. OnTheirWay' = f
    <3>1. cut.kept = kept /\ cut.taken = taken
      OBVIOUS
    <3> HIDE DEF cut
    <3>2. \A c \in Conns : OnTheirWay'[c] = f[c]
      BY <2>6, <2>7, <3>1
    <3>3. OnTheirWay' = [c \in Conns |-> OnTheirWay'[c]]
      BY <1>1 DEF WaysAre
    <3> QED
      BY <3>2, <3>3
  <2> HIDE DEF cut
  <2>10. Stream!HandOver(h)
    BY <1>2, <1>6, <2>1, <2>5, <2>8, <2>9 DEF Stream!HandOver, q
  <2> QED
    BY <2>10
<1> QED
  BY <1>8, <1>9

\* server_handle_select() as a whole
LEMMA SelectIsStream ==
  ASSUME StreamInv, ReaderInv', NEW writable \in BOOLEAN, NEW eof \in SUBSET Ended,
         NEW accept \in BOOLEAN, accept => backlog # <<>>,
         HandleSelect(writable, eof, accept)
  PROVE  GoneIsEmpty' /\ [Stream!Next]_(Stream!vars)
<1>1. PICK s : /\ Leaves(s)
               /\ server' = IF accept THEN Accept(s, Head(backlog)) ELSE s
               /\ UNCHANGED <<sink, peer, buffer, device, spoke>>
  BY SelectLeaves DEF StreamInv
<1>2. GoneIsEmpty'
  BY <1>1, GoneStayEmpty
<1>3. CASE accept
  <2>1. \E h \in Conns : Stream!HandOver(h)
    BY <1>1, <1>3, SelectIsHandOver
  <2> QED
    BY <1>2, <2>1 DEF Stream!Next
<1>4. CASE ~accept
  <2>1. Stream!Close \/ Stream!Lose \/ UNCHANGED Stream!vars
    BY <1>1, <1>4, SelectIsClose
  <2> QED
    BY <1>2, <2>1 DEF Stream!Next
<1> QED
  BY <1>3, <1>4

-----------------------------------------------------------------------------

\* Every step of the server, of the kernel and of the readers is one of KeyStream's, or
\* none.
LEMMA NextIsStream ==
  ASSUME StreamInv, ReaderInv', [Next]_vars
  PROVE  GoneIsEmpty' /\ [Stream!Next]_(Stream!vars)
<1>1. CASE \E ev \in KeyEvents : SendEvent(ev)
  <2>1. PICK ev \in KeyEvents : SendEvent(ev)
    BY <1>1
  <2>2. Stream!Send(ev) /\ GoneIsEmpty'
    BY <2>1, SendIsSend
  <2>3. ev \in Stream!KeyEvents
    BY DEF KeyEvents, Stream!KeyEvents
  <2> QED
    BY <2>2, <2>3 DEF Stream!Next
<1>2. CASE WriteEvents \/ NoticeGone \/ AcceptNext
  <2>1. PICK writable \in BOOLEAN, eof \in SUBSET Ended, accept \in BOOLEAN :
          (accept => backlog # <<>>) /\ HandleSelect(writable, eof, accept)
    BY <1>2 DEF WriteEvents, NoticeGone, AcceptNext
  <2> QED
    BY <2>1, SelectIsStream
<1>3. CASE \E c \in Conns : Connect(c) \/ HangUp(c) \/ Speak(c) \/ Reader(c)
  <2>1. PICK c \in Conns : Connect(c) \/ HangUp(c) \/ Speak(c) \/ Reader(c)
    BY <1>3
  <2>2. CASE Connect(c)
    BY <2>2, ConnectStutters
  <2>3. CASE HangUp(c) \/ ReadEnd(c)
    <3>1. /\ peer[c] = "reading" /\ Finish(c) /\ UNCHANGED <<serverVars, backlog, spoke>>
      BY <2>3 DEF HangUp, ReadEnd
    <3>2. Stream!HangUp(c) /\ GoneIsEmpty'
      BY <3>1, FinishIsHangUp
    <3> QED
      BY <3>2 DEF Stream!Next
  <2>4. CASE Speak(c)
    <3>1. Stream!Speak(c) /\ GoneIsEmpty'
      BY <2>4, SpeakIsSpeak
    <3> QED
      BY <3>1 DEF Stream!Next
  <2>5. CASE Read(c)
    <3>1. (Stream!Deliver(c) \/ UNCHANGED Stream!vars) /\ GoneIsEmpty'
      BY <2>5, ReadIsDeliver
    <3> QED
      BY <3>1 DEF Stream!Next
  <2> QED
    BY <2>1, <2>2, <2>3, <2>4, <2>5 DEF Reader
<1>4. CASE UNCHANGED vars
  <2>1. UNCHANGED <<server, sink, peer, buffer, device, spoke, wire>>
    BY <1>4 DEF vars, serverVars, readerVars
  <2>2. UNCHANGED <<Active, OnTheirWay>>
    BY <2>1, SameWays
  <2>3. Gone' = Gone
    BY <2>1 DEF Gone
  <2>4. GoneIsEmpty'
    BY <2>1, <2>3 DEF StreamInv, GoneIsEmpty
  <2> QED
    BY <2>1, <2>2, <2>3, <2>4 DEF Stream!vars
<1> QED
  BY <1>1, <1>2, <1>3, <1>4 DEF Next

\* Nothing is kept for a reader that has gone (main_read).
THEOREM StreamInvariant == Spec => []StreamInv
<1>1. Init => StreamInv
  BY InitIsStreams
<1>2. StreamInv /\ [Next]_vars => StreamInv'
  <2> SUFFICES ASSUME StreamInv, [Next]_vars PROVE StreamInv'
    OBVIOUS
  <2>1. ReaderInv'
    BY NextKeepsInv DEF StreamInv
  <2>2. GoneIsEmpty'
    BY <2>1, NextIsStream
  <2> QED
    BY <2>1, <2>2 DEF StreamInv
<1> QED
  BY <1>1, <1>2, PTL DEF Spec

\* The server of server.c and the readers of main_read implement KeyStream: however the
\* bytes are cut, buffered, lost with a connection and handed from one client to the next,
\* they amount to whole events, each given once and in order to one reader at a time.
THEOREM KeyStreamImplemented == Spec => ImplementsKeyStream
<1>1. Init => Stream!Init
  BY InitIsStreams
<1>2. StreamInv /\ StreamInv' /\ [Next]_vars => [Stream!Next]_(Stream!vars)
  BY NextIsStream DEF StreamInv
<1>3. Spec => Stream!Spec
  BY <1>1, <1>2, StreamInvariant, PTL DEF Spec, Stream!Spec
<1> QED
  BY <1>3 DEF ImplementsKeyStream

=============================================================================
