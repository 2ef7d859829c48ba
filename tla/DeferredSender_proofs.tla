----------------------- MODULE DeferredSender_proofs -----------------------
(***************************************************************************)
(* For any connections, callers, message sizes, slice size and socket      *)
(* capacity: no data waits in DeferredSender while its flag is down, and   *)
(* the threads put what one of them gave to send() on the socket in that   *)
(* order.                                                                  *)
(***************************************************************************)
EXTENDS DeferredSender, TLAPS

(* Deleting a key of _dataForConnection removes it and nothing else. *)
LEMMA WithoutDomain ==
    ASSUME NEW q, NEW c
    PROVE  DOMAIN Without(q, c) = DOMAIN q \ {c}
BY DEF Without

(* No step of the threads leaves data behind a lowered flag. *)
LEMMA FlagStep == FlagCoversQueue /\ [Next]_vars => FlagCoversQueue'
<1> SUFFICES ASSUME FlagCoversQueue, [Next]_vars
             PROVE  FlagCoversQueue'
    OBVIOUS
<1>1. CASE UNCHANGED vars
      BY <1>1 DEF FlagCoversQueue, vars
<1>2. ASSUME NEW t \in Callers, NEW c \in Cons, NEW n \in Sizes, SendStart(t, c, n)
      PROVE  FlagCoversQueue'
      BY <1>2 DEF FlagCoversQueue, SendStart
<1>3. ASSUME NEW t \in Callers, SendDirect(t) \/ SendFails(t)
      PROVE  FlagCoversQueue'
      BY <1>3 DEF FlagCoversQueue, SendDirect, SendFails
<1>4. ASSUME NEW t \in Callers, Defer(t)
      PROVE  FlagCoversQueue'
      BY <1>4 DEF FlagCoversQueue, Defer
<1>5. CASE SenderKeys \/ SenderSelect \/ SenderUnlock
      BY <1>5 DEF FlagCoversQueue, SenderKeys, SenderSelect, SenderUnlock
<1>6. ASSUME NEW c \in Cons, SenderWrite(c)
      PROVE  FlagCoversQueue'
  <2>1. PICK q : queue' = q /\ sending' = (sending /\ DOMAIN q # {})
        BY <1>6 DEF SenderWrite
  <2>2. CASE sending
        BY <2>1, <2>2 DEF FlagCoversQueue
  <2>3. CASE ~ sending
    <3>1. DOMAIN queue = {}
          BY <2>3 DEF FlagCoversQueue
    <3>2. c \in DOMAIN queue
          BY <1>6 DEF SenderWrite, At
    <3> QED BY <3>1, <3>2
  <2> QED BY <2>2, <2>3
<1>7. ASSUME NEW c \in Cons, SenderError(c)
      PROVE  FlagCoversQueue'
  <2>1. queue' = Without(queue, c) /\ sending' = sending
        BY <1>7 DEF SenderError
  <2>2. DOMAIN queue' = DOMAIN queue \ {c}
        BY <2>1, WithoutDomain
  <2> QED BY <2>1, <2>2 DEF FlagCoversQueue
<1>8. ASSUME NEW c \in Cons, Close(c) \/ Drain(c) \/ Reset(c)
      PROVE  FlagCoversQueue'
      BY <1>8 DEF FlagCoversQueue, Close, Drain, Reset
<1> QED BY <1>1, <1>2, <1>3, <1>4, <1>5, <1>6, <1>7, <1>8 DEF Next

(* The flag that Connection.send() reads without the lock is never down    *)
(* while data waits, so a direct write cannot overtake data its caller     *)
(* queued before.                                                          *)
THEOREM FlagCovers == Spec => []FlagCoversQueue
<1>1. Init => FlagCoversQueue
      BY DEF Init, FlagCoversQueue
<1> QED BY <1>1, FlagStep, PTL DEF Spec

-----------------------------------------------------------------------------
(***************************************************************************)
(* The inductive invariant behind InOrder.  For each caller, its slices in *)
(* the queue of a connection follow one another: they begin at the first   *)
(* of its bytes the socket has not taken and end at the last one           *)
(* DeferredSender.send() got from it; what its call of Connection.send()   *)
(* still holds comes after that.  A caller that writes to the socket       *)
(* itself has nothing in the queue, though others may.  A connection that  *)
(* was reset takes no more bytes, so nothing is asked of its queue.        *)
(*                                                                         *)
(* marks[i] is the number of the caller's last byte among the first i      *)
(* slices.                                                                 *)
(***************************************************************************)
Slice == [by : Callers, data : Seq(Nat)]
NoneOf(q, t, i, j) == \A k \in i + 1 .. j : q[k].by # t

Marks(marks, q, t) ==
    /\ \A i \in 1 .. Len(q) :
          q[i].by = t => marks[i - 1] < marks[i] /\ q[i].data = Upto(marks[i - 1], marks[i])
    /\ \A i, j \in 0 .. Len(q) : i <= j /\ NoneOf(q, t, i, j) => marks[i] = marks[j]

Chain(q, t, a, b) ==
    \E marks \in [0 .. Len(q) -> Nat] :
        Marks(marks, q, t) /\ marks[0] = a /\ marks[Len(q)] = b

-----------------------------------------------------------------------------
(* Slices of the numbered bytes. *)

(* A slice m + 1 .. n has n - m bytes. *)
LEMMA UptoIsSeq ==
    ASSUME NEW m \in Nat, NEW n \in Nat, m <= n
    PROVE  /\ Upto(m, n) \in Seq(Nat)
           /\ Len(Upto(m, n)) = n - m
           /\ DOMAIN Upto(m, n) = 1 .. n - m
           /\ \A i \in 1 .. n - m : Upto(m, n)[i] = m + i
<1>1. Upto(m, n) \in [1 .. n - m -> Nat]
      BY DEF Upto
<1>2. n - m \in Nat
      OBVIOUS
<1>3. Upto(m, n) \in Seq(Nat) /\ Len(Upto(m, n)) = n - m
      BY <1>1, <1>2
<1> QED BY <1>3 DEF Upto

(* Two sequences of one length with the same elements are equal. *)
LEMMA SameSeq ==
    ASSUME NEW S, NEW s \in Seq(S), NEW t \in Seq(S), Len(s) = Len(t),
           \A i \in 1 .. Len(s) : s[i] = t[i]
    PROVE  s = t
OBVIOUS

(* Consecutive slices join to one. *)
LEMMA UptoConcat ==
    ASSUME NEW a \in Nat, NEW b \in Nat, NEW c \in Nat, a <= b, b <= c
    PROVE  Upto(a, b) \o Upto(b, c) = Upto(a, c)
<1> DEFINE x == Upto(a, b)
           y == Upto(b, c)
           z == Upto(a, c)
<1>1. /\ x \in Seq(Nat) /\ Len(x) = b - a /\ \A i \in 1 .. b - a : x[i] = a + i
      /\ y \in Seq(Nat) /\ Len(y) = c - b /\ \A i \in 1 .. c - b : y[i] = b + i
      BY UptoIsSeq
<1>2. z \in Seq(Nat) /\ Len(z) = c - a /\ \A i \in 1 .. c - a : z[i] = a + i
      BY UptoIsSeq
<1> HIDE DEF x, y, z
<1>3. x \o y \in Seq(Nat) /\ Len(x \o y) = c - a
      BY <1>1
<1>4. ASSUME NEW i \in 1 .. c - a
      PROVE  (x \o y)[i] = z[i]
  <2>1. CASE i <= b - a
        BY <1>1, <1>2, <2>1
  <2>2. CASE i > b - a
    <3>1. i - (b - a) \in 1 .. c - b
          BY <2>2
    <3>2. (x \o y)[i] = y[i - (b - a)]
          BY <1>1, <2>2
    <3> QED BY <1>1, <1>2, <3>1, <3>2
  <2> QED BY <2>1, <2>2, i <= b - a \/ i > b - a
<1>5. x \o y = z
      BY <1>2, <1>3, <1>4, SameSeq
<1> QED BY <1>5 DEF x, y, z

(* A part of a slice is the slice of those bytes, *)
LEMMA UptoSubSeq ==
    ASSUME NEW m \in Nat, NEW n \in Nat, m <= n,
           NEW p \in Nat, NEW q \in Nat, p <= q, q <= n - m
    PROVE  SubSeq(Upto(m, n), p + 1, q) = Upto(m + p, m + q)
<1> DEFINE x == Upto(m, n)
           y == Upto(m + p, m + q)
           z == SubSeq(x, p + 1, q)
<1>1. x \in Seq(Nat) /\ Len(x) = n - m /\ \A i \in 1 .. n - m : x[i] = m + i
      BY UptoIsSeq
<1>2. y \in Seq(Nat) /\ Len(y) = q - p /\ \A i \in 1 .. q - p : y[i] = m + p + i
  <2>1. m + p \in Nat /\ m + q \in Nat /\ m + p <= m + q /\ (m + q) - (m + p) = q - p
        OBVIOUS
  <2>2. /\ y \in Seq(Nat) /\ Len(y) = (m + q) - (m + p)
        /\ \A i \in 1 .. (m + q) - (m + p) : y[i] = (m + p) + i
        BY <2>1, UptoIsSeq
  <2> QED BY <2>1, <2>2
<1> HIDE DEF x, y
<1>3. z \in Seq(Nat) /\ Len(z) = q - p /\ \A i \in 1 .. q - p : z[i] = x[p + i]
      BY <1>1
<1> HIDE DEF z
<1>4. \A i \in 1 .. q - p : z[i] = y[i]
      BY <1>1, <1>2, <1>3
<1>5. z = y
      BY <1>2, <1>3, <1>4, SameSeq
<1> QED BY <1>5 DEF x, y, z

(* its beginning *)
LEMMA UptoPrefix ==
    ASSUME NEW m \in Nat, NEW n \in Nat, m <= n, NEW l \in Nat, l <= n - m
    PROVE  SubSeq(Upto(m, n), 1, l) = Upto(m, m + l)
<1>1. PICK p \in Nat : p = 0
      OBVIOUS
<1>2. p <= l /\ p + 1 = 1 /\ m + p = m
      BY <1>1
<1>3. SubSeq(Upto(m, n), p + 1, l) = Upto(m + p, m + l)
      BY <1>2, UptoSubSeq
<1> QED BY <1>2, <1>3

(* and its end. *)
LEMMA UptoSuffix ==
    ASSUME NEW m \in Nat, NEW n \in Nat, m <= n, NEW l \in Nat, l <= n - m
    PROVE  SubSeq(Upto(m, n), l + 1, n - m) = Upto(m + l, n)
<1>1. PICK q \in Nat : q = n - m
      OBVIOUS
<1>2. l <= q /\ q <= n - m
      BY <1>1
<1>3. SubSeq(Upto(m, n), l + 1, q) = Upto(m + l, m + q)
      BY <1>2, UptoSubSeq
<1>4. m + q = n
      BY <1>1
<1> QED BY <1>1, <1>3, <1>4

(* The bytes from the first to the k-th. *)
LEMMA UptoFromZero ==
    ASSUME NEW k \in Nat
    PROVE  Upto(0, k) \in Seq(Nat) /\ Len(Upto(0, k)) = k
<1>1. PICK z \in Nat : z = 0 /\ z <= k /\ k - z = k
      OBVIOUS
<1>2. Upto(z, k) \in Seq(Nat) /\ Len(Upto(z, k)) = k - z
      BY <1>1, UptoIsSeq
<1> QED BY <1>1, <1>2

(* They are what the first b and the following ones join to. *)
LEMMA UptoConcatFromZero ==
    ASSUME NEW b \in Nat, NEW c \in Nat, b <= c
    PROVE  Upto(0, b) \o Upto(b, c) = Upto(0, c)
<1>1. PICK z \in Nat : z = 0 /\ z <= b
      OBVIOUS
<1>2. Upto(z, b) \o Upto(b, c) = Upto(z, c)
      BY <1>1, UptoConcat
<1> QED BY <1>1, <1>2

(* Nothing queued: a chain without slices. *)
LEMMA ChainEmpty ==
    ASSUME NEW t, NEW a \in Nat
    PROVE  Chain(<<>>, t, a, a)
<1> DEFINE marks == [i \in 0 .. 0 |-> a]
<1>1. Len(<<>>) = 0 /\ marks \in [0 .. 0 -> Nat] /\ marks[0] = a
      OBVIOUS
<1>2. Marks(marks, <<>>, t)
      BY <1>1 DEF Marks
<1> HIDE DEF marks
<1> QED BY <1>1, <1>2 DEF Chain

(* A chain without a slice of the caller ends where it begins. *)
LEMMA ChainOfOthers ==
    ASSUME NEW q \in Seq(Slice), NEW t, NEW a, NEW b, Chain(q, t, a, b),
           NoneOf(q, t, 0, Len(q))
    PROVE  a = b
<1>1. PICK marks \in [0 .. Len(q) -> Nat] :
            Marks(marks, q, t) /\ marks[0] = a /\ marks[Len(q)] = b
      BY DEF Chain
<1>2. Len(q) \in Nat /\ 0 \in 0 .. Len(q) /\ Len(q) \in 0 .. Len(q) /\ 0 <= Len(q)
      OBVIOUS
<1> QED BY <1>1, <1>2 DEF Marks

(* DeferredSender.send() appends a chain that begins where the queue ends. *)
LEMMA ChainConcat ==
    ASSUME NEW q \in Seq(Slice), NEW r \in Seq(Slice), NEW t, NEW a, NEW b, NEW c,
           Chain(q, t, a, b), Chain(r, t, b, c)
    PROVE  Chain(q \o r, t, a, c)
<1> DEFINE u == q \o r
           m == Len(q)
           n == Len(r)
<1>1. /\ m \in Nat /\ n \in Nat /\ Len(u) = m + n
      /\ \A i \in 1 .. m : u[i] = q[i]
      OBVIOUS
<1>2. \A i \in 1 .. n : u[m + i] = r[i]
  <2> TAKE i \in 1 .. n
  <2>1. m + i \in 1 .. m + n /\ m + i > m /\ (m + i) - m = i
        BY <1>1
  <2> QED BY <2>1
<1>3. PICK f \in [0 .. m -> Nat] : Marks(f, q, t) /\ f[0] = a /\ f[m] = b
      BY DEF Chain
<1>4. PICK g \in [0 .. n -> Nat] : Marks(g, r, t) /\ g[0] = b /\ g[n] = c
      BY DEF Chain
<1> DEFINE h == [i \in 0 .. m + n |-> IF i <= m THEN f[i] ELSE g[i - m]]
<1>5. h \in [0 .. m + n -> Nat]
  <2>1. ASSUME NEW i \in 0 .. m + n
        PROVE  (IF i <= m THEN f[i] ELSE g[i - m]) \in Nat
    <3>1. CASE i <= m
          BY <1>1, <3>1
    <3>2. CASE ~ (i <= m)
      <4>1. i - m \in 0 .. n
            BY <1>1, <3>2
      <4> QED BY <3>2, <4>1
    <3> QED BY <3>1, <3>2
  <2> QED BY <2>1
<1>6. \A i \in 0 .. m : h[i] = f[i]
      BY <1>1
<1>7. \A i \in 0 .. n : h[m + i] = g[i]
  <2> TAKE i \in 0 .. n
  <2>1. CASE i = 0
    <3>1. h[m] = f[m] /\ m + i = m
          BY <1>1, <1>6, <2>1
    <3> QED BY <1>3, <1>4, <2>1, <3>1
  <2>2. CASE i # 0
    <3>1. m + i \in 0 .. m + n /\ ~ (m + i <= m) /\ (m + i) - m = i
          BY <1>1, <2>2
    <3> QED BY <3>1
  <2> QED BY <2>1, <2>2
<1>8. h[0] = a /\ h[m + n] = c
  <2>1. 0 \in 0 .. m /\ n \in 0 .. n
        BY <1>1
  <2> QED BY <1>3, <1>4, <1>6, <1>7, <2>1
<1> HIDE DEF h, u, m, n
<1>9. ASSUME NEW i \in 1 .. m + n, u[i].by = t
      PROVE  h[i - 1] < h[i] /\ u[i].data = Upto(h[i - 1], h[i])
  <2>1. CASE i <= m
    <3>1. i \in 1 .. m /\ i - 1 \in 0 .. m /\ i \in 0 .. m
          BY <1>1, <2>1
    <3>2. u[i] = q[i] /\ h[i] = f[i] /\ h[i - 1] = f[i - 1]
          BY <1>1, <1>6, <3>1
    <3> QED BY <1>3, <1>9, <3>1, <3>2 DEF Marks, m
  <2>2. CASE i > m
    <3>1. PICK j \in 1 .. n : i = m + j
      <4>1. i - m \in 1 .. n /\ i = m + (i - m)
            BY <1>1, <2>2
      <4> QED BY <4>1
    <3>2. j - 1 \in 0 .. n /\ j \in 0 .. n /\ i - 1 = m + (j - 1)
          BY <1>1, <3>1
    <3>3. u[i] = r[j] /\ h[i] = g[j] /\ h[i - 1] = g[j - 1]
          BY <1>2, <1>7, <3>1, <3>2
    <3> QED BY <1>4, <1>9, <3>1, <3>3 DEF Marks, n
  <2> QED BY <1>1, <2>1, <2>2
<1>10. ASSUME NEW i \in 0 .. m + n, NEW j \in 0 .. m + n, i <= j, NoneOf(u, t, i, j)
       PROVE  h[i] = h[j]
  <2>1. CASE j <= m
    <3>1. i \in 0 .. m /\ j \in 0 .. m
          BY <1>1, <1>10, <2>1
    <3>2. NoneOf(q, t, i, j)
      <4>1. \A k \in i + 1 .. j : k \in 1 .. m /\ u[k] = q[k]
            BY <1>1, <3>1
      <4> QED BY <1>10, <4>1 DEF NoneOf
    <3> QED BY <1>3, <1>6, <1>10, <3>1, <3>2 DEF Marks, m
  <2>2. CASE i >= m
    <3>1. PICK x \in 0 .. n, y \in 0 .. n : i = m + x /\ j = m + y /\ x <= y
      <4>1. /\ i - m \in 0 .. n /\ j - m \in 0 .. n /\ i - m <= j - m
            /\ i = m + (i - m) /\ j = m + (j - m)
            BY <1>1, <1>10, <2>2
      <4> QED BY <4>1
    <3>2. NoneOf(r, t, x, y)
      <4>1. ASSUME NEW k \in x + 1 .. y
            PROVE  r[k].by # t
        <5>1. k \in 1 .. n /\ m + k \in i + 1 .. j
              BY <1>1, <3>1
        <5> QED BY <1>2, <1>10, <5>1 DEF NoneOf
      <4> QED BY <4>1 DEF NoneOf
    <3> QED BY <1>4, <1>7, <3>1, <3>2 DEF Marks, n
  <2>3. CASE i < m /\ m < j
    <3>1. /\ i \in 0 .. m /\ m \in 0 .. m /\ i <= m
          /\ j - m \in 0 .. n /\ 0 \in 0 .. n /\ 0 <= j - m /\ j = m + (j - m)
          BY <1>1, <2>3
    <3>2. NoneOf(q, t, i, m)
      <4>1. \A k \in i + 1 .. m : k \in 1 .. m /\ u[k] = q[k] /\ k \in i + 1 .. j
            BY <1>1, <2>3, <3>1
      <4> QED BY <1>10, <4>1 DEF NoneOf
    <3>3. NoneOf(r, t, 0, j - m)
      <4>1. ASSUME NEW k \in 0 + 1 .. j - m
            PROVE  r[k].by # t
        <5>1. k \in 1 .. n /\ m + k \in i + 1 .. j
              BY <1>1, <2>3, <3>1
        <5> QED BY <1>2, <1>10, <5>1 DEF NoneOf
      <4> QED BY <4>1 DEF NoneOf
    <3>4. f[i] = f[m] /\ g[0] = g[j - m]
          BY <1>3, <1>4, <3>1, <3>2, <3>3 DEF Marks, m, n
    <3>5. h[i] = f[i] /\ h[j] = g[j - m]
          BY <1>6, <1>7, <3>1
    <3> QED BY <1>3, <1>4, <3>4, <3>5
  <2> QED BY <1>1, <2>1, <2>2, <2>3
<1>11. Marks(h, u, t)
       BY <1>1, <1>9, <1>10 DEF Marks
<1>12. Chain(u, t, a, c)
       BY <1>1, <1>5, <1>8, <1>11 DEF Chain
<1> QED BY <1>12 DEF u

(* sock.send() takes l bytes of the first slice: they are the next l bytes *)
(* of the caller whose slice it is, and what is left in the queue begins   *)
(* after them; for the other callers nothing changes.                      *)
LEMMA ChainTakeBytes ==
    ASSUME NEW q \in Seq(Slice), q # <<>>, NEW t, NEW a, NEW b, Chain(q, t, a, b),
           NEW l \in Nat, l <= Len(Head(q).data)
    PROVE  /\ TakeBytes(q, l) \in Seq(Slice)
           /\ Head(q).by = t => /\ a \in Nat /\ SubSeq(Head(q).data, 1, l) = Upto(a, a + l)
                                /\ Chain(TakeBytes(q, l), t, a + l, b)
           /\ Head(q).by # t => Chain(TakeBytes(q, l), t, a, b)
<1> DEFINE m == Len(q)
           x == Head(q).data
           u == TakeBytes(q, l)
<1>1. /\ m \in Nat /\ m > 0 /\ q[1] \in Slice /\ Head(q) = q[1]
      /\ \A i \in 1 .. m : q[i] \in Slice
      OBVIOUS
<1>2. x = q[1].data /\ x \in Seq(Nat) /\ Len(x) \in Nat
      BY <1>1 DEF Slice
<1>3. PICK f \in [0 .. m -> Nat] : Marks(f, q, t) /\ f[0] = a /\ f[m] = b
      BY DEF Chain
<1>4. f[0] \in Nat /\ f[1] \in Nat /\ a \in Nat /\ a = f[0] /\ f[m] = b
      BY <1>1, <1>3
<1>5. /\ q[1].by = t => f[0] < f[1] /\ x = Upto(f[0], f[1])
      /\ q[1].by # t => f[1] = f[0]
  <2>1. 1 \in 1 .. m /\ 1 - 1 = 0 /\ 0 \in 0 .. m /\ 1 \in 0 .. m
        BY <1>1
  <2>2. q[1].by = t => f[1 - 1] < f[1] /\ q[1].data = Upto(f[1 - 1], f[1])
        BY <1>3, <2>1 DEF Marks, m
  <2>3. ASSUME q[1].by # t
        PROVE  f[0] = f[1]
    <3>1. NoneOf(q, t, 0, 1)
          BY <2>3 DEF NoneOf
    <3> QED BY <1>3, <2>1, <3>1 DEF Marks, m
  <2> QED BY <1>2, <2>1, <2>2, <2>3
<1>6. q[1].by = t => Len(x) = f[1] - f[0] /\ SubSeq(x, 1, l) = Upto(a, a + l)
  <2>1. ASSUME q[1].by = t
        PROVE  Len(x) = f[1] - f[0] /\ SubSeq(x, 1, l) = Upto(a, a + l)
    <3>1. PICK e \in Nat : e = f[1] /\ a < e /\ x = Upto(a, e)
          BY <1>4, <1>5, <2>1
    <3> HIDE DEF x
    <3>a. a <= e
          BY <1>4, <3>1
    <3>2. Len(Upto(a, e)) = e - a
          BY <1>4, <3>a, UptoIsSeq
    <3>3. l <= e - a /\ a <= e
          BY <1>4, <3>1, <3>2 DEF x
    <3>4. SubSeq(Upto(a, e), 1, l) = Upto(a, a + l)
          BY <1>4, <3>1, <3>3, UptoPrefix
    <3> QED BY <1>4, <3>1, <3>2, <3>4
  <2> QED BY <2>1
<1>7. CASE l = Len(x)
  <2>1. u = Tail(q)
        BY <1>7 DEF TakeBytes
  <2>2. /\ u \in Seq(Slice) /\ Len(u) = m - 1
        /\ \A i \in 1 .. m - 1 : u[i] = q[i + 1]
        BY <1>1, <2>1
  <2> DEFINE h == [i \in 0 .. m - 1 |-> f[i + 1]]
  <2>3. ASSUME NEW i \in 0 .. m - 1
        PROVE  i + 1 \in 0 .. m /\ h[i] = f[i + 1] /\ h[i] \in Nat
        BY <1>1
  <2>4. h \in [0 .. m - 1 -> Nat]
        BY <2>3
  <2>5. h[0] = f[1] /\ h[m - 1] = b
    <3>1. 0 \in 0 .. m - 1 /\ m - 1 \in 0 .. m - 1 /\ (m - 1) + 1 = m
          BY <1>1
    <3> QED BY <1>3, <2>3, <3>1
  <2> HIDE DEF h, u, m
  <2>6. ASSUME NEW i \in 1 .. m - 1, u[i].by = t
        PROVE  h[i - 1] < h[i] /\ u[i].data = Upto(h[i - 1], h[i])
    <3>1. /\ i \in 0 .. m - 1 /\ i - 1 \in 0 .. m - 1 /\ i + 1 \in 1 .. m
          /\ (i - 1) + 1 = i /\ (i + 1) - 1 = i
          BY <1>1
    <3>2. h[i] = f[i + 1] /\ h[i - 1] = f[i] /\ u[i] = q[i + 1]
          BY <2>2, <2>3, <3>1
    <3>3. f[(i + 1) - 1] < f[i + 1] /\ q[i + 1].data = Upto(f[(i + 1) - 1], f[i + 1])
          BY <1>3, <2>6, <3>1, <3>2 DEF Marks, m
    <3> QED BY <3>1, <3>2, <3>3
  <2>7. ASSUME NEW i \in 0 .. m - 1, NEW j \in 0 .. m - 1, i <= j, NoneOf(u, t, i, j)
        PROVE  h[i] = h[j]
    <3>1. i + 1 \in 0 .. m /\ j + 1 \in 0 .. m /\ i + 1 <= j + 1
          BY <1>1, <2>7
    <3>2. NoneOf(q, t, i + 1, j + 1)
      <4>1. ASSUME NEW k \in (i + 1) + 1 .. j + 1
            PROVE  q[k].by # t
        <5>1. k - 1 \in i + 1 .. j /\ k - 1 \in 1 .. m - 1 /\ (k - 1) + 1 = k
              BY <1>1, <2>7
        <5>2. u[k - 1] = q[k]
              BY <2>2, <5>1
        <5> QED BY <2>7, <5>1, <5>2 DEF NoneOf
      <4> QED BY <4>1 DEF NoneOf
    <3>3. f[i + 1] = f[j + 1]
          BY <1>3, <3>1, <3>2 DEF Marks, m
    <3> QED BY <2>3, <3>3
  <2>8. Chain(u, t, f[1], b)
    <3>1. Marks(h, u, t)
          BY <2>2, <2>6, <2>7 DEF Marks
    <3> QED BY <2>2, <2>4, <2>5, <3>1 DEF Chain
  <2>9. q[1].by = t => a + l = f[1]
        BY <1>4, <1>6, <1>7
  <2>10. q[1].by # t => a = f[1]
        BY <1>4, <1>5
  <2> QED BY <1>1, <1>4, <1>6, <2>2, <2>8, <2>9, <2>10 DEF u
<1>8. CASE l # Len(x)
  <2> DEFINE y == SubSeq(x, l + 1, Len(x))
  <2>1. u = [q EXCEPT ![1].data = y]
        BY <1>8 DEF TakeBytes
  <2>2. y \in Seq(Nat)
        BY <1>2
  <2> HIDE DEF y, x
  <2>3. /\ u \in Seq(Slice) /\ Len(u) = m
        /\ \A i \in 1 .. m : u[i].by = q[i].by
        /\ u[1].data = y
        /\ \A i \in 1 .. m : i # 1 => u[i] = q[i]
    <3>1. u = [q EXCEPT ![1] = [@ EXCEPT !.data = y]]
          BY <2>1
    <3>2. [q[1] EXCEPT !.data = y] \in Slice
          BY <1>1, <2>2 DEF Slice
    <3>3. [q[1] EXCEPT !.data = y].by = q[1].by /\ [q[1] EXCEPT !.data = y].data = y
          BY <1>1 DEF Slice
    <3> DEFINE z == [q[1] EXCEPT !.data = y]
    <3> HIDE DEF z
    <3>4. z \in Slice /\ z.by = q[1].by /\ z.data = y /\ u = [q EXCEPT ![1] = z]
          BY <3>1, <3>2, <3>3 DEF z
    <3>5. u \in Seq(Slice) /\ Len(u) = Len(q) /\ u[1] = z
          /\ \A i \in 1 .. m : i # 1 => u[i] = q[i]
          BY <1>1, <3>4
    <3> QED BY <1>1, <3>4, <3>5
  <2>4. \A i, j \in 0 .. m : NoneOf(u, t, i, j) => NoneOf(q, t, i, j)
    <3> TAKE i, j \in 0 .. m
    <3>1. \A k \in i + 1 .. j : k \in 1 .. m
          BY <1>1
    <3> QED BY <2>3, <3>1 DEF NoneOf
  <2> HIDE DEF u, m
  <2>5. CASE q[1].by # t
    <3>1. ASSUME NEW i \in 1 .. m, u[i].by = t
          PROVE  f[i - 1] < f[i] /\ u[i].data = Upto(f[i - 1], f[i])
      <4>1. i # 1 /\ u[i] = q[i]
            BY <1>1, <2>3, <2>5, <3>1
      <4> QED BY <1>3, <3>1, <4>1 DEF Marks, m
    <3>2. ASSUME NEW i \in 0 .. m, NEW j \in 0 .. m, i <= j, NoneOf(u, t, i, j)
          PROVE  f[i] = f[j]
          BY <1>3, <2>4, <3>2 DEF Marks, m
    <3>3. Marks(f, u, t)
          BY <2>3, <3>1, <3>2 DEF Marks
    <3>4. Chain(u, t, a, b)
          BY <1>3, <2>3, <3>3 DEF Chain
    <3> QED BY <1>1, <2>3, <2>5, <3>4 DEF u
  <2>6. CASE q[1].by = t
    <3> DEFINE h == [f EXCEPT ![0] = a + l]
    <3>1. /\ h \in [0 .. m -> Nat] /\ h[0] = a + l
          /\ \A i \in 0 .. m : i # 0 => h[i] = f[i]
      <4>1. a + l \in Nat /\ 0 \in 0 .. m
            BY <1>1, <1>4
      <4> QED BY <4>1
    <3>2. a + l < f[1] /\ y = Upto(a + l, f[1])
      <4>1. PICK e \in Nat : e = f[1] /\ a < e /\ x = Upto(a, e) /\ Len(x) = e - a
            BY <1>4, <1>5, <1>6, <2>6
      <4>2. l <= e - a /\ a <= e /\ a + l < e
            BY <1>4, <1>8, <4>1 DEF x
      <4>3. SubSeq(Upto(a, e), l + 1, e - a) = Upto(a + l, e)
            BY <1>4, <4>2, UptoSuffix
      <4>4. y = Upto(a + l, e)
            BY <4>1, <4>3, Zenon DEF y
      <4> QED BY <4>1, <4>2, <4>4
    <3>3. h[m] = b
          BY <1>1, <1>3, <3>1
    <3> HIDE DEF h
    <3>4. ASSUME NEW i \in 1 .. m, u[i].by = t
          PROVE  h[i - 1] < h[i] /\ u[i].data = Upto(h[i - 1], h[i])
      <4>1. CASE i = 1
        <5>1. h[i - 1] = a + l /\ h[i] = f[1] /\ u[i].data = y
              BY <1>1, <2>3, <3>1, <4>1
        <5> QED BY <3>2, <5>1
      <4>2. CASE i # 1
        <5>1. i - 1 \in 0 .. m /\ i - 1 # 0 /\ i \in 0 .. m /\ i # 0
              BY <1>1, <4>2
        <5>2. u[i] = q[i] /\ h[i] = f[i] /\ h[i - 1] = f[i - 1]
              BY <2>3, <3>1, <4>2, <5>1
        <5> QED BY <1>3, <3>4, <5>2 DEF Marks, m
      <4> QED BY <4>1, <4>2
    <3>5. ASSUME NEW i \in 0 .. m, NEW j \in 0 .. m, i <= j, NoneOf(u, t, i, j)
          PROVE  h[i] = h[j]
      <4>1. CASE i # 0
        <5>1. j # 0
              BY <1>1, <3>5, <4>1
        <5>2. f[i] = f[j]
              BY <1>3, <2>4, <3>5 DEF Marks, m
        <5> QED BY <3>1, <4>1, <5>1, <5>2
      <4>2. CASE i = 0 /\ j # 0
        <5>1. 1 \in i + 1 .. j /\ u[1].by = t
              BY <1>1, <2>3, <2>6, <4>2
        <5> QED BY <3>5, <5>1 DEF NoneOf
      <4>3. CASE i = 0 /\ j = 0
            BY <4>3
      <4> QED BY <4>1, <4>2, <4>3
    <3>6. Marks(h, u, t)
          BY <2>3, <3>4, <3>5 DEF Marks
    <3>7. Chain(u, t, a + l, b)
          BY <2>3, <3>1, <3>3, <3>6 DEF Chain
    <3> QED BY <1>1, <1>4, <1>6, <2>3, <2>6, <3>7 DEF u, x
  <2> QED BY <2>5, <2>6
<1> QED BY <1>7, <1>8

(* Multiples of PIPE_BUF grow. *)
LEMMA TimesPipeBuf ==
    ASSUME NEW i \in Nat, NEW j \in Nat
    PROVE  /\ i * PIPE_BUF \in Nat
           /\ (i + 1) * PIPE_BUF = i * PIPE_BUF + PIPE_BUF
           /\ i <= j => i * PIPE_BUF <= j * PIPE_BUF
BY DeferredAssumption

(* _sliceup() makes as many slices as it needs, and the last one is not    *)
(* empty.                                                                  *)
LEMMA SliceCountFacts ==
    ASSUME NEW data, Len(data) \in Nat, Len(data) > 0
    PROVE  /\ SliceCount(data) \in Nat /\ SliceCount(data) > 0
           /\ (SliceCount(data) - 1) * PIPE_BUF < Len(data)
           /\ Len(data) <= SliceCount(data) * PIPE_BUF
<1> DEFINE n == Len(data)
           p == PIPE_BUF
           k == (n + p - 1) \div p
<1>1. n \in Nat /\ n > 0 /\ p \in Nat /\ p > 0
      BY DeferredAssumption
<1> HIDE DEF n, p
<1>2. k \in Int /\ k * p <= n + p - 1 /\ n + p - 1 < k * p + p
      BY <1>1
<1> HIDE DEF k
<1>3. k > 0
  <2>1. SUFFICES ASSUME k <= 0
                 PROVE  FALSE
        BY <1>2
  <2>2. k * p <= 0
        BY <1>1, <1>2, <2>1
  <2> QED BY <1>1, <1>2, <2>2
<1>4. (k - 1) * p = k * p - p /\ k * p \in Int
      BY <1>1, <1>2
<1>5. (k - 1) * p < n /\ n <= k * p
      BY <1>1, <1>2, <1>4
<1>6. SliceCount(data) = k
      BY DEF SliceCount, n, p, k
<1> QED BY <1>2, <1>3, <1>5, <1>6 DEF n, p

(* Slices of other callers are a chain without a byte of this one. *)
LEMMA ChainNone ==
    ASSUME NEW q \in Seq(Slice), NEW t, NoneOf(q, t, 0, Len(q)), NEW a \in Nat
    PROVE  Chain(q, t, a, a)
<1> DEFINE marks == [i \in 0 .. Len(q) |-> a]
<1>1. /\ Len(q) \in Nat /\ marks \in [0 .. Len(q) -> Nat]
      /\ \A i \in 0 .. Len(q) : marks[i] = a
      OBVIOUS
<1> HIDE DEF marks
<1>2. \A i \in 1 .. Len(q) : q[i].by # t
      BY <1>1 DEF NoneOf
<1>3. Marks(marks, q, t)
      BY <1>1, <1>2 DEF Marks
<1>4. marks[0] = a /\ marks[Len(q)] = a
      BY <1>1
<1> QED BY <1>1, <1>3, <1>4 DEF Chain

(* Where nothing of a caller was queued, taking bytes leaves nothing. *)
LEMMA NoneAfterTake ==
    ASSUME NEW q \in Seq(Slice), q # <<>>, NEW t, NoneOf(q, t, 0, Len(q)), NEW l \in Nat,
           TakeBytes(q, l) \in Seq(Slice)
    PROVE  NoneOf(TakeBytes(q, l), t, 0, Len(TakeBytes(q, l)))
<1> DEFINE m == Len(q)
           u == TakeBytes(q, l)
<1>1. m \in Nat /\ m > 0 /\ \A i \in 1 .. m : q[i].by # t /\ q[i] \in Slice
      BY DEF NoneOf
<1>2. CASE u = Tail(q)
  <2>1. Len(u) = m - 1 /\ \A i \in 1 .. m - 1 : u[i] = q[i + 1] /\ i + 1 \in 1 .. m
        BY <1>1, <1>2
  <2> HIDE DEF u, m
  <2> QED BY <1>1, <2>1 DEF NoneOf, u
<1>3. CASE u # Tail(q)
  <2> DEFINE y == SubSeq(Head(q).data, l + 1, Len(Head(q).data))
  <2>1. u = [q EXCEPT ![1] = [@ EXCEPT !.data = y]]
        BY <1>3 DEF TakeBytes
  <2> HIDE DEF y
  <2>2. [q[1] EXCEPT !.data = y].by = q[1].by
        BY <1>1 DEF Slice
  <2> DEFINE z == [q[1] EXCEPT !.data = y]
  <2>3. u = [q EXCEPT ![1] = z] /\ z.by = q[1].by
        BY <2>1, <2>2
  <2> HIDE DEF z
  <2>4. DOMAIN u = 1 .. m /\ u[1] = z /\ \A i \in 1 .. m : i # 1 => u[i] = q[i]
        BY <1>1, <2>3
  <2>5. Len(u) = m
        BY <1>1, <2>4
  <2> HIDE DEF u, m
  <2> QED BY <1>1, <2>3, <2>4, <2>5 DEF NoneOf, u
<1> QED BY <1>2, <1>3

(* _sliceup() cuts its data into a chain: no byte is lost at a boundary    *)
(* of the slices.                                                          *)
LEMMA SliceupChain ==
    ASSUME NEW t \in Callers, NEW m \in Nat, NEW n \in Nat, m < n
    PROVE  /\ _sliceup(t, Upto(m, n)) \in Seq(Slice)
           /\ _sliceup(t, Upto(m, n)) # <<>>
           /\ \A i \in 1 .. Len(_sliceup(t, Upto(m, n))) : _sliceup(t, Upto(m, n))[i].by = t
           /\ Chain(_sliceup(t, Upto(m, n)), t, m, n)
<1> DEFINE data == Upto(m, n)
           k == SliceCount(data)
           q == _sliceup(t, data)
           cut(i) == Least(i * PIPE_BUF, n - m)
<1>1. data \in Seq(Nat) /\ Len(data) = n - m /\ n - m \in Nat /\ n - m > 0
      BY UptoIsSeq
<1>2. k \in Nat /\ k > 0 /\ (k - 1) * PIPE_BUF < n - m /\ n - m <= k * PIPE_BUF
      BY <1>1, SliceCountFacts, Zenon
<1>3. ASSUME NEW i \in 0 .. k
      PROVE  /\ cut(i) \in Nat /\ cut(i) <= n - m
             /\ i < k => cut(i) = i * PIPE_BUF /\ cut(i) < n - m
             /\ i = k => cut(i) = n - m
  <2> HIDE DEF data, k, q
  <2>1. i \in Nat /\ i * PIPE_BUF \in Nat
        BY <1>2, TimesPipeBuf
  <2>2. ASSUME i < k
        PROVE  cut(i) = i * PIPE_BUF /\ cut(i) < n - m
    <3>1. i <= k - 1 /\ k - 1 \in Nat
          BY <1>2, <2>2
    <3>2. i * PIPE_BUF <= (k - 1) * PIPE_BUF /\ (k - 1) * PIPE_BUF \in Nat
          BY <2>1, <3>1, TimesPipeBuf
    <3>3. i * PIPE_BUF < n - m
          BY <1>1, <1>2, <2>1, <3>2
    <3> QED BY <1>1, <2>1, <3>3 DEF Least
  <2>3. ASSUME i = k
        PROVE  cut(i) = n - m
    <3>1. n - m <= i * PIPE_BUF
          BY <1>2, <2>3
    <3> QED BY <1>1, <2>1, <3>1 DEF Least
  <2> QED BY <1>1, <2>1, <2>2, <2>3 DEF Least
<1>4. ASSUME NEW i \in 1 .. k
      PROVE  /\ i - 1 \in 0 .. k /\ i \in 0 .. k
             /\ cut(i - 1) = (i - 1) * PIPE_BUF /\ cut(i - 1) < cut(i)
  <2> HIDE DEF data, k, q
  <2>1. i - 1 \in 0 .. k /\ i \in 0 .. k /\ i - 1 < k /\ i - 1 \in Nat /\ (i - 1) + 1 = i
        BY <1>2
  <2>2. cut(i - 1) = (i - 1) * PIPE_BUF /\ cut(i - 1) < n - m
        BY <1>3, <2>1
  <2>3. i * PIPE_BUF = (i - 1) * PIPE_BUF + PIPE_BUF /\ (i - 1) * PIPE_BUF \in Nat
        BY <2>1, TimesPipeBuf
  <2>4. PIPE_BUF \in Nat /\ PIPE_BUF > 0
        BY DeferredAssumption
  <2>5. CASE i < k
    <3>1. cut(i) = i * PIPE_BUF
          BY <1>3, <2>1, <2>5
    <3> HIDE DEF cut
    <3> QED BY <2>1, <2>2, <2>3, <2>4, <3>1
  <2>6. CASE i = k
    <3>1. cut(i) = n - m
          BY <1>3, <2>1, <2>6
    <3> HIDE DEF cut
    <3> QED BY <2>1, <2>2, <3>1
  <2> QED BY <1>2, <2>5, <2>6
<1>5. ASSUME NEW i \in 1 .. k
      PROVE  q[i].by = t /\ q[i].data = Upto(m + cut(i - 1), m + cut(i)) /\ q[i] \in Slice
  <2>1. q[i] = [by |-> t, data |-> SubSeq(data, (i - 1) * PIPE_BUF + 1, cut(i))]
        BY <1>1 DEF _sliceup
  <2>2. /\ cut(i - 1) \in Nat /\ cut(i) \in Nat /\ cut(i - 1) <= cut(i)
        /\ cut(i) <= n - m /\ m <= n /\ cut(i - 1) = (i - 1) * PIPE_BUF
        BY <1>3, <1>4
  <2> HIDE DEF cut, q, k
  <2>3. SubSeq(Upto(m, n), cut(i - 1) + 1, cut(i)) = Upto(m + cut(i - 1), m + cut(i))
        BY <2>2, UptoSubSeq
  <2>4. q[i].by = t /\ q[i].data = Upto(m + cut(i - 1), m + cut(i))
        BY <2>1, <2>2, <2>3
  <2>5. Upto(m + cut(i - 1), m + cut(i)) \in Seq(Nat)
    <3>1. PICK x \in Nat, y \in Nat : x = m + cut(i - 1) /\ y = m + cut(i) /\ x <= y
          BY <2>2
    <3>2. Upto(x, y) \in Seq(Nat)
          BY <3>1, UptoIsSeq
    <3> QED BY <3>1, <3>2
  <2> QED BY <2>1, <2>2, <2>3, <2>4, <2>5 DEF Slice
<1>6. q \in Seq(Slice) /\ Len(q) = k
  <2>1. q \in [1 .. k -> Slice]
        BY <1>5 DEF _sliceup
  <2> HIDE DEF q, k
  <2> QED BY <1>2, <2>1
<1> DEFINE marks == [i \in 0 .. k |-> m + cut(i)]
<1>7. \A i \in 0 .. k : marks[i] = m + cut(i)
      OBVIOUS
<1> HIDE DEF data, k, q
<1>8. marks \in [0 .. k -> Nat]
  <2>1. \A i \in 0 .. k : m + cut(i) \in Nat
    <3> TAKE i \in 0 .. k
    <3>1. cut(i) \in Nat
          BY <1>3
    <3> HIDE DEF cut
    <3> QED BY <3>1
  <2> HIDE DEF cut
  <2> QED BY <2>1
<1>9. marks[0] = m /\ marks[k] = n
  <2>1. 0 \in 0 .. k /\ k \in 0 .. k /\ 0 < k
        BY <1>2
  <2>2. cut(0) = 0 * PIPE_BUF /\ cut(k) = n - m
        BY <1>3, <2>1
  <2>3. 0 * PIPE_BUF = 0
        BY DeferredAssumption
  <2> HIDE DEF cut, marks
  <2> QED BY <1>7, <2>1, <2>2, <2>3
<1> HIDE DEF marks
<1>10. ASSUME NEW i \in 1 .. k
       PROVE  marks[i - 1] < marks[i] /\ q[i].data = Upto(marks[i - 1], marks[i])
  <2>1. /\ i - 1 \in 0 .. k /\ i \in 0 .. k /\ cut(i - 1) < cut(i)
        /\ cut(i - 1) \in Nat /\ cut(i) \in Nat
        BY <1>3, <1>4
  <2>2. q[i].data = Upto(m + cut(i - 1), m + cut(i))
        BY <1>5
  <2> HIDE DEF cut
  <2> QED BY <1>7, <2>1, <2>2
<1>11. ASSUME NEW i \in 0 .. k, NEW j \in 0 .. k, i <= j, NoneOf(q, t, i, j)
       PROVE  marks[i] = marks[j]
  <2>1. CASE i = j
        BY <2>1
  <2>2. CASE i # j
    <3>1. i + 1 \in i + 1 .. j /\ i + 1 \in 1 .. k
          BY <1>2, <1>11, <2>2
    <3> QED BY <1>5, <1>11, <3>1 DEF NoneOf
  <2> QED BY <2>1, <2>2
<1>12. Marks(marks, q, t)
       BY <1>6, <1>10, <1>11 DEF Marks
<1>13. Chain(q, t, m, n)
       BY <1>6, <1>8, <1>9, <1>12 DEF Chain
<1>14. q # <<>> /\ \A i \in 1 .. Len(q) : q[i].by = t
       BY <1>2, <1>5, <1>6
<1> QED BY <1>6, <1>13, <1>14 DEF q, data

-----------------------------------------------------------------------------
Holds(c, t) == call[t].at # "idle" /\ call[t].con = c
(* The bytes of t on c that are queued or written. *)
PassedOn(c, t) == IF Holds(c, t) THEN given[c][t] - Len(call[t].data) ELSE given[c][t]

StateTypes ==
    /\ given \in [Cons -> [Callers -> Nat]]
    /\ out \in [Cons -> [Callers -> Seq(Nat)]]
    /\ room \in [Cons -> Nat]
    /\ reset \in [Cons -> BOOLEAN] /\ closed \in [Cons -> BOOLEAN]
    /\ DOMAIN call = Callers
    /\ call = [t \in Callers |-> call[t]]
    /\ DOMAIN queue \subseteq Cons
    /\ \A c \in DOMAIN queue : queue[c] \in Seq(Slice) /\ queue[c] # <<>>
    /\ \A c \in Cons : closed[c] => reset[c]

Calling == [at : {"direct", "defer"}, con : Cons, data : Seq(Nat)]
CallSound(t) ==
    \/ call[t] = Idle
    \/ /\ call[t] \in Calling
       /\ Len(call[t].data) > 0 /\ Len(call[t].data) <= given[call[t].con][t]
       /\ call[t].data = Upto(given[call[t].con][t] - Len(call[t].data),
                              given[call[t].con][t])
       /\ call[t].at = "direct" =>
             NoneOf(Queued(call[t].con), t, 0, Len(Queued(call[t].con)))

QueueSound(c, t) ==
    ~ reset[c] => Chain(Queued(c), t, Len(out[c][t]), PassedOn(c, t))

OrderInv ==
    /\ StateTypes
    /\ FlagCoversQueue
    /\ InOrder
    /\ \A t \in Callers : CallSound(t)
    /\ \A c \in Cons, t \in Callers : QueueSound(c, t)

(* What is queued for a connection is a sequence of slices. *)
LEMMA QueuedType ==
    ASSUME StateTypes, NEW c
    PROVE  Queued(c) \in Seq(Slice) /\ Len(Queued(c)) \in Nat
<1>1. Queued(c) \in Seq(Slice)
      BY DEF StateTypes, Queued
<1> QED BY <1>1

(* What the invariant says of a call of Connection.send() that is not over. *)
LEMMA CallFacts ==
    ASSUME OrderInv, NEW t \in Callers, call[t].at # "idle"
    PROVE  /\ call[t] \in Calling
           /\ call[t].con \in Cons /\ call[t].data \in Seq(Nat)
           /\ given[call[t].con][t] \in Nat /\ Len(call[t].data) \in Nat
           /\ Len(call[t].data) > 0 /\ Len(call[t].data) <= given[call[t].con][t]
           /\ call[t].data = Upto(given[call[t].con][t] - Len(call[t].data),
                                  given[call[t].con][t])
           /\ call[t].at = "direct" =>
                 NoneOf(Queued(call[t].con), t, 0, Len(Queued(call[t].con)))
<1>1. CallSound(t) /\ StateTypes
      BY DEF OrderInv
<1>2. call[t] # Idle
      BY DEF Idle
<1>3. call[t] \in Calling /\ call[t].con \in Cons /\ call[t].data \in Seq(Nat)
      BY <1>1, <1>2 DEF CallSound, Calling
<1>4. given[call[t].con][t] \in Nat /\ Len(call[t].data) \in Nat
      BY <1>1, <1>3 DEF StateTypes
<1> QED BY <1>1, <1>2, <1>3, <1>4 DEF CallSound

(* It is a number. *)
LEMMA PassedOnNat ==
    ASSUME OrderInv, NEW c \in Cons, NEW t \in Callers
    PROVE  PassedOn(c, t) \in Nat
<1>1. given[c][t] \in Nat
      BY DEF OrderInv, StateTypes
<1>2. CASE Holds(c, t)
  <2>1. call[t].at # "idle" /\ call[t].con = c
        BY <1>2 DEF Holds
  <2>2. Len(call[t].data) \in Nat /\ Len(call[t].data) <= given[c][t]
        BY <2>1, CallFacts
  <2> QED BY <1>1, <1>2, <2>2 DEF PassedOn
<1>3. CASE ~ Holds(c, t)
      BY <1>1, <1>3 DEF PassedOn
<1> QED BY <1>2, <1>3

(* A caller that takes no part keeps its bytes where they are. *)
LEMMA OtherCaller ==
    ASSUME OrderInv, NEW s \in Callers, call'[s] = call[s],
           \A c \in Cons : given'[c][s] = given[c][s]
    PROVE  /\ \A c \in Cons : PassedOn(c, s)' = PassedOn(c, s)
           /\ (queue' = queue) => CallSound(s)'
<1>1. ASSUME NEW c \in Cons
      PROVE  PassedOn(c, s)' = PassedOn(c, s)
      BY DEF PassedOn, Holds
<1>2. ASSUME queue' = queue
      PROVE  CallSound(s)'
  <2>1. CASE call[s] = Idle
        BY <2>1 DEF CallSound
  <2>2. CASE call[s] # Idle
    <3>1. CallSound(s) /\ call[s].con \in Cons
      <4>1. CallSound(s)
            BY DEF OrderInv
      <4> QED BY <2>2, <4>1 DEF CallSound, Calling
    <3>2. given'[call[s].con][s] = given[call[s].con][s]
          BY <3>1
    <3> QED BY <1>2, <2>2, <3>1, <3>2 DEF CallSound, Queued
  <2> QED BY <2>1, <2>2
<1> QED BY <1>1, <1>2

(* A step that leaves bytes, queue and calls alone keeps the invariant. *)
LEMMA NothingMoves ==
    ASSUME OrderInv, UNCHANGED <<given, out, queue, call>>, FlagCoversQueue',
           room' \in [Cons -> Nat], reset' \in [Cons -> BOOLEAN],
           closed' \in [Cons -> BOOLEAN],
           \A c \in Cons : (closed'[c] => reset'[c]) /\ (reset[c] => reset'[c])
    PROVE  OrderInv'
<1>1. StateTypes'
      BY DEF OrderInv, StateTypes
<1>2. ASSUME NEW t \in Callers
      PROVE  CallSound(t)'
      BY OtherCaller
<1>3. InOrder'
      BY DEF OrderInv, InOrder
<1>4. ASSUME NEW c \in Cons, NEW t \in Callers
      PROVE  QueueSound(c, t)'
  <2>1. PassedOn(c, t)' = PassedOn(c, t)
        BY DEF PassedOn, Holds
  <2>2. QueueSound(c, t)
        BY DEF OrderInv
  <2> QED BY <2>1, <2>2 DEF QueueSound, Queued
<1> QED BY <1>1, <1>2, <1>3, <1>4 DEF OrderInv

(* A call of send() takes the next n bytes. *)
LEMMA SendStartOrder ==
    ASSUME OrderInv, FlagCoversQueue', NEW t \in Callers, NEW c \in Cons, NEW n \in Sizes,
           SendStart(t, c, n)
    PROVE  OrderInv'
<1> DEFINE g == given[c][t]
<1>1. n \in Nat /\ n > 0 /\ g \in Nat /\ g + n \in Nat /\ g <= g + n /\ (g + n) - g = n
  <2>1. n \in Nat /\ n > 0 /\ g \in Nat
        BY DeferredAssumption DEF OrderInv, StateTypes
  <2> HIDE DEF g
  <2> QED BY <2>1
<1>2. /\ given' \in [Cons -> [Callers -> Nat]] /\ given'[c][t] = g + n
      /\ \A d \in Cons, s \in Callers : ~ (d = c /\ s = t) => given'[d][s] = given[d][s]
      BY <1>1 DEF SendStart, OrderInv, StateTypes
<1>3. call[t].at = "idle" /\ UNCHANGED <<out, room, reset, closed, queue>>
      BY DEF SendStart
<1>4. /\ DOMAIN call' = Callers /\ call' = [s \in Callers |-> call'[s]]
      /\ \A s \in Callers \ {t} : call'[s] = call[s]
      BY DEF SendStart, OrderInv, StateTypes
<1>5. /\ call'[t].at \in {"direct", "defer"} /\ call'[t].con = c
      /\ call'[t].data = Upto(g, g + n)
      /\ call'[t].at = "direct" => ~ sending
      BY DEF SendStart, OrderInv, StateTypes
<1>6. Upto(g, g + n) \in Seq(Nat) /\ Len(Upto(g, g + n)) = n
  <2> HIDE DEF g
  <2>1. PICK k \in Nat : k = g + n /\ g <= k /\ k - g = n
        BY <1>1
  <2>2. Upto(g, k) \in Seq(Nat) /\ Len(Upto(g, k)) = k - g
        BY <1>1, <2>1, UptoIsSeq
  <2> QED BY <2>1, <2>2
<1>7. call'[t] \in Calling
      BY <1>6 DEF SendStart, OrderInv, StateTypes, Calling
<1>8. StateTypes'
      BY <1>2, <1>3, <1>4 DEF OrderInv, StateTypes
<1>9. ASSUME NEW s \in Callers
      PROVE  CallSound(s)'
  <2>1. CASE s # t
        BY <1>2, <1>3, <1>4, <2>1, OtherCaller
  <2>2. CASE s = t
    <3>1. /\ Len(call'[t].data) > 0 /\ Len(call'[t].data) <= given'[c][t]
          /\ given'[c][t] - Len(call'[t].data) = g
      <4> HIDE DEF g
      <4> QED BY <1>1, <1>2, <1>5, <1>6
    <3>2. call'[t].at = "direct" => NoneOf(Queued(c)', t, 0, Len(Queued(c)'))
      <4>1. ASSUME call'[t].at = "direct"
            PROVE  Queued(c)' = <<>>
            BY <1>3, <1>5, <4>1 DEF OrderInv, FlagCoversQueue, Queued
      <4>2. Len(<<>>) = 0
            OBVIOUS
      <4> QED BY <4>1, <4>2 DEF NoneOf
    <3>3. call'[t].data = Upto(given'[c][t] - Len(call'[t].data), given'[c][t])
      <4> HIDE DEF g
      <4> QED BY <1>2, <1>5, <3>1
    <3> QED BY <1>5, <1>7, <2>2, <3>1, <3>2, <3>3 DEF CallSound
  <2> QED BY <2>1, <2>2
<1>10. InOrder'
       BY <1>3 DEF OrderInv, InOrder
<1>11. ASSUME NEW d \in Cons, NEW s \in Callers
       PROVE  QueueSound(d, s)'
  <2>1. PassedOn(d, s)' = PassedOn(d, s)
    <3>1. CASE s # t
          BY <1>2, <1>4, <3>1, OtherCaller
    <3>2. CASE s = t
      <4>1. PassedOn(d, t) = given[d][t]
            BY <1>3 DEF PassedOn, Holds
      <4>2. CASE d = c
        <5>1. PassedOn(c, t)' = given'[c][t] - Len(call'[t].data)
              BY <1>5 DEF PassedOn, Holds
        <5>2. given'[c][t] - Len(call'[t].data) = g
          <6> HIDE DEF g
          <6>1. Len(call'[t].data) = n /\ (g + n) - n = g
                BY <1>1, <1>5, <1>6
          <6> QED BY <1>2, <6>1
        <5> QED BY <3>2, <4>1, <4>2, <5>1, <5>2
      <4>3. CASE d # c
        <5>1. given'[d][t] = given[d][t]
              BY <1>2, <4>3
        <5> QED BY <1>5, <3>2, <4>1, <4>3, <5>1 DEF PassedOn, Holds
      <4> QED BY <4>2, <4>3
    <3> QED BY <3>1, <3>2
  <2>2. QueueSound(d, s)
        BY DEF OrderInv
  <2> QED BY <1>3, <2>1, <2>2 DEF QueueSound, Queued
<1> QED BY <1>8, <1>9, <1>10, <1>11 DEF OrderInv

(* A connection that breaks loses the data of the call. *)
LEMMA SendFailsOrder ==
    ASSUME OrderInv, FlagCoversQueue', NEW t \in Callers, SendFails(t)
    PROVE  OrderInv'
<1>1. /\ call[t].at = "direct" /\ UNCHANGED <<given, out, room, reset, closed, queue>>
      /\ DOMAIN call' = Callers /\ call' = [s \in Callers |-> call'[s]]
      /\ call'[t] = Idle /\ \A s \in Callers \ {t} : call'[s] = call[s]
  <2>1. call' = [call EXCEPT ![t] = Idle] /\ DOMAIN call = Callers
        BY DEF SendFails, OrderInv, StateTypes
  <2>2. call[t].at = "direct" /\ UNCHANGED <<given, out, room, reset, closed, queue>>
        BY DEF SendFails
  <2> QED BY <2>1, <2>2
<1>2. call[t].con \in Cons
      BY <1>1, CallFacts
<1>3. reset[call[t].con]
      BY <1>2 DEF SendFails, Broken, OrderInv, StateTypes
<1>4. ASSUME NEW d \in Cons, NEW s \in Callers
      PROVE  QueueSound(d, s)'
  <2>1. CASE reset[d]
        BY <1>1, <2>1 DEF QueueSound
  <2>2. CASE ~ reset[d]
    <3>1. PassedOn(d, s)' = PassedOn(d, s)
      <4>1. CASE s # t
            BY <1>1, <4>1, OtherCaller
      <4>2. CASE s = t
        <5>1. d # call[t].con
              BY <1>3, <2>2
        <5> QED BY <1>1, <4>2, <5>1 DEF PassedOn, Holds, Idle
      <4> QED BY <4>1, <4>2
    <3>2. QueueSound(d, s)
          BY DEF OrderInv
    <3> QED BY <1>1, <3>1, <3>2 DEF QueueSound, Queued
  <2> QED BY <2>1, <2>2
<1>5. ASSUME NEW s \in Callers
      PROVE  CallSound(s)'
  <2>1. CASE s # t
        BY <1>1, <2>1, OtherCaller
  <2>2. CASE s = t
        BY <1>1, <2>2 DEF CallSound
  <2> QED BY <2>1, <2>2
<1>6. StateTypes' /\ InOrder'
      BY <1>1 DEF OrderInv, StateTypes, InOrder
<1> QED BY <1>4, <1>5, <1>6 DEF OrderInv

(* A direct write appends the next bytes of its caller, because nothing of *)
(* that caller is queued.                                                  *)
LEMMA SendDirectOrder ==
    ASSUME OrderInv, FlagCoversQueue', NEW t \in Callers, SendDirect(t)
    PROVE  OrderInv'
<1>a. call[t].at = "direct"
      BY DEF SendDirect
<1>b. PICK c \in Cons, data \in Seq(Nat), g \in Nat, n \in Nat :
            /\ c = call[t].con /\ data = call[t].data /\ g = given[c][t] /\ n = Len(data)
            /\ n > 0 /\ n <= g /\ data = Upto(g - n, g)
            /\ NoneOf(Queued(c), t, 0, Len(Queued(c)))
      BY <1>a, CallFacts
<1> DEFINE m == g - n
           l == Least(n, room[c])
           e == m + l
<1>1. call[t].at = "direct" /\ ~ reset[c] /\ UNCHANGED <<given, reset, closed, queue>>
      BY <1>b DEF SendDirect, Broken
<1>2. /\ c \in Cons /\ data \in Seq(Nat) /\ g \in Nat /\ n \in Nat
      /\ n > 0 /\ n <= g /\ data = Upto(m, g)
      /\ NoneOf(Queued(c), t, 0, Len(Queued(c)))
      BY <1>b
<1>3. /\ out[c][t] \in Seq(Nat) /\ Len(out[c][t]) \in Nat /\ room[c] \in Nat
      /\ out[c][t] = Upto(0, Len(out[c][t]))
      BY <1>2 DEF OrderInv, StateTypes, InOrder
<1>4. l \in Nat /\ l <= n /\ l <= room[c]
      BY <1>2, <1>3 DEF Least
<1>5. /\ out' = [out EXCEPT ![c][t] = @ \o SubSeq(data, 1, l)]
      /\ room' = [room EXCEPT ![c] = @ - l]
      /\ call' = [call EXCEPT ![t] =
                     IF l = n THEN Idle
                     ELSE [at |-> "defer", con |-> c, data |-> SubSeq(data, l + 1, n)]]
      BY <1>b DEF SendDirect
<1>6. PassedOn(c, t) = m
      BY <1>1, <1>b DEF PassedOn, Holds
<1>7. /\ DOMAIN call' = Callers /\ call' = [s \in Callers |-> call'[s]]
      /\ call'[t] = IF l = n THEN Idle
                    ELSE [at |-> "defer", con |-> c, data |-> SubSeq(data, l + 1, n)]
      /\ \A s \in Callers \ {t} : call'[s] = call[s]
  <2> DEFINE next == IF l = n THEN Idle
                     ELSE [at |-> "defer", con |-> c, data |-> SubSeq(data, l + 1, n)]
  <2>1. DOMAIN call = Callers /\ call' = [call EXCEPT ![t] = next]
        BY <1>5 DEF OrderInv, StateTypes
  <2> HIDE DEF next
  <2>2. /\ DOMAIN call' = Callers /\ call' = [s \in Callers |-> call'[s]]
        /\ call'[t] = next /\ \A s \in Callers \ {t} : call'[s] = call[s]
        BY <2>1
  <2> QED BY <2>2 DEF next
<1>8. given'[c][t] = g /\ n = Len(data)
      BY <1>1, <1>b
<1>q. Queued(c) \in Seq(Slice) /\ QueueSound(c, t) /\ Queued(c)' = Queued(c)
      BY <1>1, <1>2, QueuedType DEF OrderInv, Queued
<1> HIDE DEF l
<1>9. /\ m \in Nat /\ m < g /\ m <= g /\ n = g - m /\ l <= g - m
      /\ e \in Nat /\ m <= e /\ e <= g /\ e = m + l
      /\ l = n => e = g
      /\ l # n => e < g
      BY <1>2, <1>4
<1> HIDE DEF m, e
<1>10. Len(out[c][t]) = m /\ out[c][t] = Upto(0, m)
  <2>1. Chain(Queued(c), t, Len(out[c][t]), m)
        BY <1>1, <1>6, <1>q DEF QueueSound
  <2>2. Len(out[c][t]) = m
        BY <1>2, <1>q, <2>1, ChainOfOthers
  <2> QED BY <1>3, <2>2
<1>11. SubSeq(data, 1, l) = Upto(m, e)
  <2>1. SubSeq(Upto(m, g), 1, l) = Upto(m, m + l)
        BY <1>2, <1>4, <1>9, UptoPrefix
  <2> QED BY <1>2, <1>9, <2>1
<1>12. out'[c][t] = Upto(0, e)
  <2>1. Upto(0, m) \o Upto(m, e) = Upto(0, e)
        BY <1>9, UptoConcatFromZero
  <2>2. out'[c][t] = out[c][t] \o SubSeq(data, 1, l)
        BY <1>2, <1>5 DEF OrderInv, StateTypes
  <2> QED BY <1>10, <1>11, <2>1, <2>2
<1>13. out'[c][t] \in Seq(Nat) /\ Len(out'[c][t]) = e
       BY <1>9, <1>12, UptoFromZero
<1>14. \A d \in Cons, s \in Callers : ~ (d = c /\ s = t) => out'[d][s] = out[d][s]
       BY <1>5 DEF OrderInv, StateTypes
<1>15. StateTypes'
  <2>1. out' \in [Cons -> [Callers -> Seq(Nat)]]
    <3>1. out[c][t] \o SubSeq(data, 1, l) \in Seq(Nat)
          BY <1>2, <1>5, <1>13 DEF OrderInv, StateTypes
    <3> QED BY <1>2, <1>5, <3>1 DEF OrderInv, StateTypes
  <2>2. room' \in [Cons -> Nat]
    <3>1. room[c] - l \in Nat
          BY <1>3, <1>4
    <3> QED BY <1>2, <1>5, <3>1 DEF OrderInv, StateTypes
  <2> QED BY <1>1, <1>7, <2>1, <2>2 DEF OrderInv, StateTypes
<1>16. InOrder'
       BY <1>12, <1>13, <1>14 DEF OrderInv, InOrder
<1>17. ASSUME l # n
       PROVE  /\ call'[t].at = "defer" /\ call'[t].con = c /\ call'[t].data = Upto(e, g)
              /\ Upto(e, g) \in Seq(Nat) /\ Len(Upto(e, g)) = g - e /\ e < g
              /\ SubSeq(data, l + 1, n) = Upto(e, g)
  <2>1. SubSeq(data, l + 1, n) = Upto(e, g)
    <3>1. SubSeq(Upto(m, g), l + 1, g - m) = Upto(m + l, g)
          BY <1>2, <1>4, <1>9, UptoSuffix
    <3> QED BY <1>2, <1>9, <3>1, Zenon
  <2>2. Upto(e, g) \in Seq(Nat) /\ Len(Upto(e, g)) = g - e
        BY <1>2, <1>9, UptoIsSeq
  <2>3. PICK y : y = Upto(e, g) /\ y = SubSeq(data, l + 1, n)
        BY <2>1
  <2>4. call'[t] = [at |-> "defer", con |-> c, data |-> y]
        BY <1>7, <1>17, <2>3, Zenon
  <2>5. call'[t].at = "defer" /\ call'[t].con = c /\ call'[t].data = y
        BY <2>4
  <2>6. e < g
        BY <1>9, <1>17
  <2> QED BY <2>2, <2>3, <2>5, <2>6
<1>18. PassedOn(c, t)' = e
  <2>1. CASE l = n
        BY <1>7, <1>8, <1>9, <2>1 DEF PassedOn, Holds, Idle
  <2>2. CASE l # n
    <3>1. PassedOn(c, t)' = g - Len(call'[t].data)
          BY <1>8, <1>17, <2>2 DEF PassedOn, Holds
    <3>2. Len(call'[t].data) = g - e
          BY <1>17, <2>2
    <3>3. g - (g - e) = e
          BY <1>2, <1>9
    <3> QED BY <3>1, <3>2, <3>3
  <2> QED BY <2>1, <2>2
<1>19. ASSUME NEW s \in Callers
       PROVE  CallSound(s)'
  <2>1. CASE s # t
        BY <1>1, <1>7, <2>1, OtherCaller
  <2>2. CASE s = t /\ l = n
        BY <1>7, <2>2 DEF CallSound
  <2>3. CASE s = t /\ l # n
    <3>1. call'[t] \in Calling
      <4>1. call'[t] = [at |-> "defer", con |-> c, data |-> SubSeq(data, l + 1, n)]
            BY <1>7, <2>3
      <4>2. SubSeq(data, l + 1, n) \in Seq(Nat)
            BY <1>17, <2>3
      <4> QED BY <1>2, <4>1, <4>2 DEF Calling
    <3>2. /\ Len(call'[t].data) > 0 /\ Len(call'[t].data) <= given'[c][t]
          /\ given'[c][t] - Len(call'[t].data) = e
      <4>1. g - e > 0 /\ g - e <= g /\ g - (g - e) = e
            BY <1>2, <1>9, <1>17, <2>3
      <4> QED BY <1>8, <1>17, <2>3, <4>1
    <3>3. call'[t].data = Upto(given'[c][t] - Len(call'[t].data), given'[c][t])
          BY <1>8, <1>17, <2>3, <3>2
    <3> QED BY <1>17, <2>3, <3>1, <3>2, <3>3 DEF CallSound
  <2> QED BY <2>1, <2>2, <2>3
<1>20. ASSUME NEW d \in Cons, NEW s \in Callers
       PROVE  QueueSound(d, s)'
  <2>1. CASE d = c /\ s = t
    <3>1. Chain(Queued(c), t, e, e)
          BY <1>2, <1>9, <1>q, ChainNone
    <3> QED BY <1>13, <1>18, <1>q, <2>1, <3>1 DEF QueueSound
  <2>2. CASE ~ (d = c /\ s = t)
    <3>1. PassedOn(d, s)' = PassedOn(d, s)
      <4>1. CASE s # t
            BY <1>1, <1>7, <4>1, OtherCaller
      <4>2. CASE s = t /\ d # c
        <5>1. ~ Holds(d, t)
              BY <1>b, <4>2 DEF Holds
        <5>2. ~ Holds(d, t)'
              BY <1>7, <1>17, <4>2 DEF Holds, Idle
        <5> QED BY <1>1, <4>2, <5>1, <5>2 DEF PassedOn
      <4> QED BY <2>2, <4>1, <4>2
    <3>2. QueueSound(d, s)
          BY DEF OrderInv
    <3> QED BY <1>1, <1>14, <2>2, <3>1, <3>2 DEF QueueSound, Queued
  <2> QED BY <2>1, <2>2
<1> QED BY <1>15, <1>16, <1>19, <1>20 DEF OrderInv

(* DeferredSender.send() queues what is left of the call behind the rest. *)
LEMMA DeferOrder ==
    ASSUME OrderInv, FlagCoversQueue', NEW t \in Callers, Defer(t)
    PROVE  OrderInv'
<1>a. call[t].at = "defer"
      BY DEF Defer
<1>b. PICK c \in Cons, data \in Seq(Nat), g \in Nat, m \in Nat :
            /\ c = call[t].con /\ data = call[t].data /\ g = given[c][t]
            /\ m = g - Len(data) /\ m < g /\ data = Upto(m, g)
  <2>1. /\ call[t].con \in Cons /\ call[t].data \in Seq(Nat)
        /\ given[call[t].con][t] \in Nat /\ Len(call[t].data) \in Nat
        /\ Len(call[t].data) > 0 /\ Len(call[t].data) <= given[call[t].con][t]
        /\ call[t].data = Upto(given[call[t].con][t] - Len(call[t].data),
                               given[call[t].con][t])
        BY <1>a, CallFacts
  <2>2. PICK c \in Cons, data \in Seq(Nat), g \in Nat, n \in Nat :
            /\ c = call[t].con /\ data = call[t].data /\ g = given[c][t] /\ n = Len(data)
            /\ n > 0 /\ n <= g /\ data = Upto(g - n, g)
        BY <2>1
  <2>3. g - n \in Nat /\ g - n < g
        BY <2>2
  <2> QED BY <2>2, <2>3
<1> DEFINE new == _sliceup(t, data)
<1>1. /\ call[t].at = "defer" /\ UNCHANGED <<given, out, room, reset, closed>>
      /\ DOMAIN call' = Callers /\ call' = [s \in Callers |-> call'[s]]
      /\ call'[t] = Idle /\ \A s \in Callers \ {t} : call'[s] = call[s]
  <2>1. call' = [call EXCEPT ![t] = Idle] /\ DOMAIN call = Callers
        BY DEF Defer, OrderInv, StateTypes
  <2>2. UNCHANGED <<given, out, room, reset, closed>>
        BY DEF Defer
  <2> QED BY <1>a, <2>1, <2>2
<1>4. /\ new \in Seq(Slice) /\ new # <<>> /\ \A i \in 1 .. Len(new) : new[i].by = t
      /\ Chain(new, t, m, g)
  <2>1. /\ _sliceup(t, Upto(m, g)) \in Seq(Slice) /\ _sliceup(t, Upto(m, g)) # <<>>
        /\ \A i \in 1 .. Len(_sliceup(t, Upto(m, g))) : _sliceup(t, Upto(m, g))[i].by = t
        /\ Chain(_sliceup(t, Upto(m, g)), t, m, g)
    <3>1. m < g
          BY <1>b
    <3> QED BY <3>1, SliceupChain
  <2> QED BY <1>b, <2>1
<1>5. /\ DOMAIN queue' = DOMAIN queue \union {c}
      /\ \A d \in DOMAIN queue \ {c} : queue'[d] = queue[d]
      /\ queue'[c] = Queued(c) \o new
      BY <1>b DEF Defer
<1>6. PassedOn(c, t) = m
      BY <1>1, <1>b DEF PassedOn, Holds
<1> HIDE DEF new
<1>7. Queued(c) \in Seq(Slice) /\ Queued(c)' = Queued(c) \o new
      BY <1>5, QueuedType DEF OrderInv, Queued
<1>8. \A d \in Cons \ {c} : Queued(d)' = Queued(d)
      BY <1>5 DEF Queued
<1>9. queue'[c] \in Seq(Slice) /\ queue'[c] # <<>>
  <2>1. Len(Queued(c) \o new) = Len(Queued(c)) + Len(new) /\ Len(new) > 0
        BY <1>4, <1>7
  <2>2. Queued(c) \o new \in Seq(Slice) /\ Queued(c) \o new # <<>>
        BY <1>4, <1>7, <2>1
  <2> QED BY <1>5, <2>2
<1>10. StateTypes' /\ InOrder'
  <2>1. InOrder'
        BY <1>1 DEF OrderInv, InOrder
  <2>2. \A d \in DOMAIN queue' : queue'[d] \in Seq(Slice) /\ queue'[d] # <<>>
        BY <1>5, <1>9 DEF OrderInv, StateTypes
  <2> QED BY <1>1, <1>5, <2>1, <2>2 DEF OrderInv, StateTypes
<1>11. \A s \in Callers \ {t} : NoneOf(new, s, 0, Len(new))
       BY <1>4 DEF NoneOf
<1>12. ASSUME NEW s \in Callers
       PROVE  CallSound(s)'
  <2>1. CASE s = t
        BY <1>1, <2>1 DEF CallSound
  <2>2. CASE s # t /\ call[s] = Idle
        BY <1>1, <2>2 DEF CallSound
  <2>3. CASE s # t /\ call[s] # Idle
    <3>1. CallSound(s) /\ call[s] \in Calling /\ call[s].con \in Cons
      <4>1. CallSound(s)
            BY DEF OrderInv
      <4> QED BY <2>3, <4>1 DEF CallSound, Calling
    <3>a. PICK d \in Cons : d = call[s].con /\ d = call'[s].con
          BY <1>1, <2>3, <3>1
    <3>2. ASSUME call[s].at = "direct"
          PROVE  NoneOf(Queued(d)', s, 0, Len(Queued(d)'))
      <4>1. NoneOf(Queued(d), s, 0, Len(Queued(d)))
            BY <2>3, <3>1, <3>2, <3>a DEF CallSound
      <4>2. CASE d # c
            BY <1>8, <4>1, <4>2
      <4>3. CASE d = c
        <5>1. /\ Len(Queued(c) \o new) = Len(Queued(c)) + Len(new)
              /\ Len(Queued(c)) \in Nat /\ Len(new) \in Nat
              BY <1>4, <1>7
        <5>2. ASSUME NEW k \in 1 .. Len(Queued(c)) + Len(new)
              PROVE  (Queued(c) \o new)[k].by # s
          <6>1. CASE k <= Len(Queued(c))
            <7>1. k \in 1 .. Len(Queued(c)) /\ (Queued(c) \o new)[k] = Queued(c)[k]
                  BY <1>4, <1>7, <5>1, <6>1
            <7> QED BY <4>1, <4>3, <7>1 DEF NoneOf
          <6>2. CASE k > Len(Queued(c))
            <7>1. /\ k - Len(Queued(c)) \in 1 .. Len(new)
                  /\ (Queued(c) \o new)[k] = new[k - Len(Queued(c))]
                  BY <1>4, <1>7, <5>1, <6>2
            <7> QED BY <1>4, <2>3, <7>1
          <6> QED BY <5>1, <6>1, <6>2
        <5>3. NoneOf(Queued(c) \o new, s, 0, Len(Queued(c) \o new))
              BY <5>1, <5>2 DEF NoneOf
        <5> QED BY <1>7, <4>3, <5>3
      <4> QED BY <4>2, <4>3
    <3> QED BY <1>1, <2>3, <3>1, <3>2, <3>a DEF CallSound
  <2> QED BY <2>1, <2>2, <2>3
<1>13. ASSUME NEW d \in Cons, NEW s \in Callers
       PROVE  QueueSound(d, s)'
  <2>1. QueueSound(d, s)
        BY DEF OrderInv
  <2>2. ASSUME s # t
        PROVE  PassedOn(d, s)' = PassedOn(d, s)
        BY <1>1, <2>2, OtherCaller
  <2>3. PassedOn(d, t)' = given[d][t]
        BY <1>1 DEF PassedOn, Holds, Idle
  <2>4. CASE d # c
    <3>1. PassedOn(d, s)' = PassedOn(d, s)
      <4>1. PassedOn(d, t) = given[d][t]
            BY <1>b, <2>4 DEF PassedOn, Holds
      <4> QED BY <2>2, <2>3, <4>1
    <3> QED BY <1>1, <1>8, <2>1, <2>4, <3>1 DEF QueueSound
  <2>5. CASE d = c /\ s = t
    <3>1. ASSUME ~ reset[c]
          PROVE  Chain(Queued(c) \o new, t, Len(out[c][t]), g)
      <4>1. Chain(Queued(c), t, Len(out[c][t]), m)
            BY <1>6, <2>1, <2>5, <3>1 DEF QueueSound
      <4> QED BY <1>4, <1>7, <4>1, ChainConcat
    <3>2. PassedOn(c, t)' = g
          BY <1>b, <2>3, <2>5
    <3> QED BY <1>1, <1>7, <2>5, <3>1, <3>2 DEF QueueSound
  <2>6. CASE d = c /\ s # t
    <3>1. ASSUME ~ reset[c]
          PROVE  Chain(Queued(c) \o new, s, Len(out[c][s]), PassedOn(c, s))
      <4>1. Chain(Queued(c), s, Len(out[c][s]), PassedOn(c, s))
            BY <2>1, <2>6, <3>1 DEF QueueSound
      <4>2. PassedOn(c, s) \in Nat
            BY PassedOnNat
      <4>3. Chain(new, s, PassedOn(c, s), PassedOn(c, s))
            BY <1>4, <1>11, <2>6, <4>2, ChainNone
      <4> QED BY <1>4, <1>7, <4>1, <4>3, ChainConcat
    <3> QED BY <1>1, <1>7, <2>2, <2>6, <3>1 DEF QueueSound
  <2> QED BY <2>4, <2>5, <2>6
<1> QED BY <1>10, <1>12, <1>13 DEF OrderInv

(* The sender thread takes bytes from the head of the queue only. *)
LEMMA SenderWriteOrder ==
    ASSUME OrderInv, FlagCoversQueue', NEW c \in Cons, SenderWrite(c)
    PROVE  OrderInv'
<1>1. /\ c \in DOMAIN queue /\ ~ reset[c] /\ call' = call
      /\ UNCHANGED <<given, reset, closed>>
      BY DEF SenderWrite, At, Broken
<1>2. PICK q \in Seq(Slice) : q = queue[c] /\ q = Queued(c) /\ q # <<>>
      BY <1>1 DEF OrderInv, StateTypes, Queued
<1>3. PICK who \in Callers, first \in Seq(Nat) : who = Head(q).by /\ first = Head(q).data
  <2>1. Head(q) \in Slice
        BY <1>2
  <2> QED BY <2>1 DEF Slice
<1>4. room[c] \in Nat /\ Len(first) \in Nat
      BY DEF OrderInv, StateTypes
<1>5. PICK l \in Nat : l = Least(Len(first), room[c]) /\ l <= Len(first) /\ l <= room[c]
  <2>1. /\ Least(Len(first), room[c]) \in Nat
        /\ Least(Len(first), room[c]) <= Len(first)
        /\ Least(Len(first), room[c]) <= room[c]
        BY <1>4 DEF Least
  <2> QED BY <2>1
<1>6. PICK rest : rest = TakeBytes(q, l)
      OBVIOUS
<1>7. /\ out' = [out EXCEPT ![c][who] = @ \o SubSeq(first, 1, l)]
      /\ room' = [room EXCEPT ![c] = @ - l]
      /\ queue' = IF rest = <<>> THEN Without(queue, c) ELSE [queue EXCEPT ![c] = rest]
      BY <1>2, <1>3, <1>5, <1>6 DEF SenderWrite
<1>8. ASSUME NEW s \in Callers
      PROVE  /\ rest \in Seq(Slice)
             /\ s = who => /\ SubSeq(first, 1, l) = Upto(Len(out[c][s]), Len(out[c][s]) + l)
                           /\ Chain(rest, s, Len(out[c][s]) + l, PassedOn(c, s))
             /\ s # who => Chain(rest, s, Len(out[c][s]), PassedOn(c, s))
  <2>1. Chain(q, s, Len(out[c][s]), PassedOn(c, s))
    <3>1. QueueSound(c, s)
          BY DEF OrderInv
    <3> QED BY <1>1, <1>2, <3>1 DEF QueueSound
  <2>2. l <= Len(Head(q).data)
        BY <1>3, <1>5
  <2>3. /\ TakeBytes(q, l) \in Seq(Slice)
        /\ Head(q).by = s =>
              /\ SubSeq(Head(q).data, 1, l) = Upto(Len(out[c][s]), Len(out[c][s]) + l)
              /\ Chain(TakeBytes(q, l), s, Len(out[c][s]) + l, PassedOn(c, s))
        /\ Head(q).by # s => Chain(TakeBytes(q, l), s, Len(out[c][s]), PassedOn(c, s))
        BY <1>2, <2>1, <2>2, ChainTakeBytes
  <2> QED BY <1>3, <1>6, <2>3
<1>9. PICK a \in Nat, e \in Nat :
            a = Len(out[c][who]) /\ e = a + l /\ a <= e /\ out[c][who] = Upto(0, a)
  <2>1. out[c][who] \in Seq(Nat) /\ out[c][who] = Upto(0, Len(out[c][who]))
        BY DEF OrderInv, StateTypes, InOrder
  <2>2. PICK a \in Nat : a = Len(out[c][who])
        BY <2>1
  <2>3. a + l \in Nat /\ a <= a + l
        BY <2>2
  <2> QED BY <2>1, <2>2, <2>3
<1>10. out'[c][who] = Upto(0, e)
  <2>1. Upto(0, a) \o Upto(a, e) = Upto(0, e)
        BY <1>9, UptoConcatFromZero
  <2>2. out'[c][who] = out[c][who] \o SubSeq(first, 1, l)
        BY <1>7 DEF OrderInv, StateTypes
  <2>3. SubSeq(first, 1, l) = Upto(a, e)
        BY <1>8, <1>9
  <2> QED BY <1>9, <2>1, <2>2, <2>3
<1>11. out'[c][who] \in Seq(Nat) /\ Len(out'[c][who]) = e
       BY <1>10, UptoFromZero
<1>12. \A d \in Cons, s \in Callers : ~ (d = c /\ s = who) => out'[d][s] = out[d][s]
       BY <1>7 DEF OrderInv, StateTypes
<1>13. /\ DOMAIN queue' = IF rest = <<>> THEN DOMAIN queue \ {c} ELSE DOMAIN queue
       /\ \A d \in DOMAIN queue \ {c} : queue'[d] = queue[d]
       /\ rest # <<>> => queue'[c] = rest
       BY <1>1, <1>7 DEF Without
<1>14. Queued(c)' = rest /\ \A d \in Cons \ {c} : Queued(d)' = Queued(d)
       BY <1>1, <1>13 DEF Queued
<1>15. StateTypes'
  <2>1. out' \in [Cons -> [Callers -> Seq(Nat)]]
    <3>1. out[c][who] \o SubSeq(first, 1, l) \in Seq(Nat)
          BY <1>7, <1>11 DEF OrderInv, StateTypes
    <3> QED BY <1>7, <3>1 DEF OrderInv, StateTypes
  <2>2. room' \in [Cons -> Nat]
    <3>1. room[c] - l \in Nat
          BY <1>4, <1>5
    <3> QED BY <1>7, <3>1 DEF OrderInv, StateTypes
  <2>3. DOMAIN queue' \subseteq Cons
        BY <1>13 DEF OrderInv, StateTypes
  <2>4. \A d \in DOMAIN queue' : queue'[d] \in Seq(Slice) /\ queue'[d] # <<>>
        BY <1>8, <1>13 DEF OrderInv, StateTypes
  <2> QED BY <1>1, <2>1, <2>2, <2>3, <2>4 DEF OrderInv, StateTypes
<1>16. InOrder'
       BY <1>10, <1>11, <1>12 DEF OrderInv, InOrder
<1>17. ASSUME NEW s \in Callers
       PROVE  CallSound(s)'
  <2>1. CASE call[s] = Idle
        BY <1>1, <2>1 DEF CallSound
  <2>2. CASE call[s] # Idle
    <3>1. CallSound(s)
          BY DEF OrderInv
    <3>2. PICK d \in Cons : d = call[s].con /\ d = call'[s].con
          BY <1>1, <2>2, <3>1 DEF CallSound, Calling
    <3>3. ASSUME call[s].at = "direct"
          PROVE  NoneOf(Queued(d)', s, 0, Len(Queued(d)'))
      <4>1. NoneOf(Queued(d), s, 0, Len(Queued(d)))
            BY <2>2, <3>1, <3>2, <3>3 DEF CallSound
      <4>2. CASE d # c
            BY <1>14, <4>1, <4>2
      <4>3. CASE d = c
        <5>1. TakeBytes(q, l) \in Seq(Slice) /\ NoneOf(q, s, 0, Len(q))
              BY <1>2, <1>6, <1>8, <4>1, <4>3
        <5>2. NoneOf(rest, s, 0, Len(rest))
              BY <1>2, <1>6, <5>1, NoneAfterTake
        <5> QED BY <1>14, <4>3, <5>2
      <4> QED BY <4>2, <4>3
    <3> QED BY <1>1, <2>2, <3>1, <3>2, <3>3 DEF CallSound
  <2> QED BY <2>1, <2>2
<1>18. ASSUME NEW d \in Cons, NEW s \in Callers
       PROVE  QueueSound(d, s)'
  <2>1. PassedOn(d, s)' = PassedOn(d, s) /\ QueueSound(d, s)
        BY <1>1 DEF OrderInv, PassedOn, Holds
  <2>2. CASE d # c
        BY <1>1, <1>12, <1>14, <2>1, <2>2 DEF QueueSound
  <2>3. CASE d = c /\ s = who
    <3>1. Chain(rest, s, e, PassedOn(c, s))
          BY <1>8, <1>9, <2>3
    <3> QED BY <1>11, <1>14, <2>1, <2>3, <3>1 DEF QueueSound
  <2>4. CASE d = c /\ s # who
        BY <1>8, <1>12, <1>14, <2>1, <2>4 DEF QueueSound
  <2> QED BY <2>2, <2>3, <2>4
<1> QED BY <1>15, <1>16, <1>17, <1>18 DEF OrderInv

(* A queue is thrown away only when its connection is broken. *)
LEMMA SenderErrorOrder ==
    ASSUME OrderInv, FlagCoversQueue', NEW c \in Cons, SenderError(c)
    PROVE  OrderInv'
<1>1. /\ queue' = Without(queue, c) /\ call' = call /\ c \in DOMAIN queue
      /\ UNCHANGED <<given, out, room, reset, closed>>
      BY DEF SenderError, At
<1>2. reset[c]
      BY DEF SenderError, Broken, OrderInv, StateTypes
<1>3. /\ DOMAIN queue' = DOMAIN queue \ {c}
      /\ \A d \in DOMAIN queue \ {c} : queue'[d] = queue[d]
      BY <1>1 DEF Without
<1>4. Queued(c)' = <<>> /\ \A d \in Cons \ {c} : Queued(d)' = Queued(d)
      BY <1>3 DEF Queued
<1>5. StateTypes' /\ InOrder'
      BY <1>1, <1>3 DEF OrderInv, StateTypes, InOrder
<1>6. ASSUME NEW s \in Callers
      PROVE  CallSound(s)'
  <2>1. CASE call[s] = Idle
        BY <1>1, <2>1 DEF CallSound
  <2>2. CASE call[s] # Idle
    <3>1. CallSound(s)
          BY DEF OrderInv
    <3>2. PICK d \in Cons : d = call[s].con /\ d = call'[s].con
          BY <1>1, <2>2, <3>1 DEF CallSound, Calling
    <3>3. ASSUME call[s].at = "direct"
          PROVE  NoneOf(Queued(d)', s, 0, Len(Queued(d)'))
      <4>1. NoneOf(Queued(d), s, 0, Len(Queued(d)))
            BY <2>2, <3>1, <3>2, <3>3 DEF CallSound
      <4>2. Len(<<>>) = 0
            OBVIOUS
      <4> QED BY <1>4, <4>1, <4>2 DEF NoneOf
    <3> QED BY <1>1, <2>2, <3>1, <3>2, <3>3 DEF CallSound
  <2> QED BY <2>1, <2>2
<1>7. ASSUME NEW d \in Cons, NEW s \in Callers
      PROVE  QueueSound(d, s)'
  <2>1. PassedOn(d, s)' = PassedOn(d, s) /\ QueueSound(d, s)
        BY <1>1 DEF OrderInv, PassedOn, Holds
  <2>2. CASE d = c
        BY <1>1, <1>2, <2>2 DEF QueueSound
  <2>3. CASE d # c
        BY <1>1, <1>4, <2>1, <2>3 DEF QueueSound
  <2> QED BY <2>2, <2>3
<1> QED BY <1>5, <1>6, <1>7 DEF OrderInv

(* Every step of a caller, of the sender's thread, of the network and of   *)
(* the peer keeps the queues in line with the sockets.                     *)
LEMMA OrderStep == OrderInv /\ [Next]_vars => OrderInv'
<1> SUFFICES ASSUME OrderInv, [Next]_vars
             PROVE  OrderInv'
    OBVIOUS
<1>a. FlagCoversQueue'
      BY FlagStep DEF OrderInv
<1>t. StateTypes
      BY DEF OrderInv
<1>1. CASE UNCHANGED vars
      BY <1>1, <1>a, <1>t, NothingMoves DEF vars, StateTypes
<1>2. ASSUME NEW t \in Callers, NEW c \in Cons, NEW n \in Sizes, SendStart(t, c, n)
      PROVE  OrderInv'
      BY <1>2, <1>a, SendStartOrder
<1>3. ASSUME NEW t \in Callers, SendDirect(t)
      PROVE  OrderInv'
      BY <1>3, <1>a, SendDirectOrder
<1>4. ASSUME NEW t \in Callers, SendFails(t)
      PROVE  OrderInv'
      BY <1>4, <1>a, SendFailsOrder
<1>5. ASSUME NEW t \in Callers, Defer(t)
      PROVE  OrderInv'
      BY <1>5, <1>a, DeferOrder
<1>6. CASE SenderKeys
      BY <1>6, <1>a, <1>t, NothingMoves DEF SenderKeys, StateTypes
<1>7. CASE SenderSelect
      BY <1>7, <1>a, <1>t, NothingMoves DEF SenderSelect, StateTypes
<1>8. CASE SenderUnlock
      BY <1>8, <1>a, <1>t, NothingMoves DEF SenderUnlock, StateTypes
<1>9. ASSUME NEW c \in Cons, SenderWrite(c)
      PROVE  OrderInv'
      BY <1>9, <1>a, SenderWriteOrder
<1>10. ASSUME NEW c \in Cons, SenderError(c)
       PROVE  OrderInv'
       BY <1>10, <1>a, SenderErrorOrder
<1>11. ASSUME NEW c \in Cons, Close(c)
       PROVE  OrderInv'
       BY <1>11, <1>a, <1>t, NothingMoves DEF Close, StateTypes
<1>12. ASSUME NEW c \in Cons, Drain(c)
       PROVE  OrderInv'
       BY <1>12, <1>a, <1>t, NothingMoves, DeferredAssumption DEF Drain, StateTypes
<1>13. ASSUME NEW c \in Cons, Reset(c)
       PROVE  OrderInv'
       BY <1>13, <1>a, <1>t, NothingMoves DEF Reset, StateTypes
<1> QED BY <1>1, <1>2, <1>3, <1>4, <1>5, <1>6, <1>7, <1>8, <1>9, <1>10, <1>11, <1>12,
           <1>13 DEF Next

(* Whatever the sizes of messages, slices and socket buffers and however   *)
(* the callers of Connection.send() and the thread of DeferredSender       *)
(* interleave, a socket gets what one caller gave in order, none of its    *)
(* bytes skipped or repeated.                                              *)
THEOREM BytesInOrder == Spec => []InOrder
<1>1. Init => OrderInv
  <2> SUFFICES ASSUME Init
               PROVE  OrderInv
      OBVIOUS
  <2>1. StateTypes /\ FlagCoversQueue
        BY DeferredAssumption DEF Init, StateTypes, FlagCoversQueue
  <2>2. InOrder
    <3>1. Upto(0, 0) = <<>> /\ Len(<<>>) = 0
          BY DEF Upto
    <3> QED BY <3>1 DEF Init, InOrder
  <2>3. ASSUME NEW t \in Callers
        PROVE  CallSound(t)
        BY DEF Init, CallSound
  <2>4. ASSUME NEW c \in Cons, NEW t \in Callers
        PROVE  QueueSound(c, t)
    <3>1. Queued(c) = <<>> /\ Len(out[c][t]) = 0 /\ PassedOn(c, t) = 0
          BY DEF Init, Queued, PassedOn, Holds, Idle
    <3>2. Chain(<<>>, t, 0, 0)
          BY ChainEmpty
    <3> QED BY <3>1, <3>2 DEF QueueSound
  <2> QED BY <2>1, <2>2, <2>3, <2>4 DEF OrderInv
<1>2. OrderInv => InOrder
      BY DEF OrderInv
<1> QED BY <1>1, <1>2, OrderStep, PTL DEF Spec
=============================================================================
