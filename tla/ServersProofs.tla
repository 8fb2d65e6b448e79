--------------------------- MODULE ServersProofs ----------------------------
(***************************************************************************)
(* Session for every size of the ring buffers and of the messages, however *)
(* many there are and however often the session is used; Frames for every  *)
(* clock; and EarlyServer for every number of sessions and size of their   *)
(* queues.                                                                 *)
(***************************************************************************)
EXTENDS Servers, SequencesExt, SequenceTheorems, FiniteSetTheorems, TLAPS

-----------------------------------------------------------------------------
(***************************************************************************)
(* Session                                                                 *)
(***************************************************************************)

Byte == Nat \X Nat
Ring == [ buf : [ Index -> Byte ], in : Index, out : Index ]

(* A number between the divisor and its double. *)
LEMMA RemainderOnce ==
  ASSUME NEW d \in Nat, d > 1, NEW a \in Nat, a >= d, a < d + d
  PROVE  a % d = a - d
<1>1. (a - d) % d = a - d
  OBVIOUS
<1>2. a % d = (a - d) % d
  OBVIOUS
<1>3. QED
  BY <1>1, <1>2

(* Going round the end of a ring at most once is a subtraction. *)
LEMMA MovedValue ==
  ASSUME NEW p \in Index, NEW n \in 0 .. FullSize
  PROVE  /\ Moved(p, n) = IF p + n < FullSize THEN p + n ELSE p + n - FullSize
         /\ Moved(p, n) \in Index
<1>1. FullSize \in Nat /\ FullSize > 1
  BY FullSizeAssumption
<1>2. PICK a \in Nat : a = p + n
  BY <1>1 DEF Index
<1>3. CASE a < FullSize
  BY <1>1, <1>2, <1>3 DEF Moved, Index
<1>4. CASE a >= FullSize
  <2>1. a < FullSize + FullSize
    BY <1>1, <1>2 DEF Index
  <2>2. a % FullSize = a - FullSize
    BY <1>1, <1>4, <2>1, RemainderOnce, Zenon
  <2>3. QED
    BY <1>1, <1>2, <1>4, <2>1, <2>2 DEF Moved, Index
<1>5. QED
  BY <1>1, <1>2, <1>3, <1>4

(* What a ring holds, when one of its indexes moves. *)
LEMMA UseAfterMove ==
  ASSUME NEW in \in Index, NEW out \in Index, NEW n \in Nat
  PROVE  /\ GetUseSize(in, out) \in 0 .. FullSize - 1
         /\ Moved(out, GetUseSize(in, out)) = in
         /\ n + GetUseSize(in, out) < FullSize =>
              /\ Moved(in, n) \in Index
              /\ GetUseSize(Moved(in, n), out) = GetUseSize(in, out) + n
         /\ n <= GetUseSize(in, out) =>
              /\ Moved(out, n) \in Index
              /\ GetUseSize(in, Moved(out, n)) = GetUseSize(in, out) - n
<1>0. FullSize \in Nat /\ FullSize > 1
  BY FullSizeAssumption
<1>1. GetUseSize(in, out) \in 0 .. FullSize - 1
  BY <1>0 DEF GetUseSize, Index
<1>2. Moved(out, GetUseSize(in, out)) = in
  <2>1. PICK u \in 0 .. FullSize : u = GetUseSize(in, out)
    BY <1>0, <1>1
  <2>2. Moved(out, u) = IF out + u < FullSize THEN out + u ELSE out + u - FullSize
    BY MovedValue
  <2>3. QED
    BY <1>0, <2>1, <2>2 DEF GetUseSize, Index
<1>3. ASSUME n + GetUseSize(in, out) < FullSize
      PROVE  /\ Moved(in, n) \in Index
             /\ GetUseSize(Moved(in, n), out) = GetUseSize(in, out) + n
  <2>1. n \in 0 .. FullSize
    BY <1>0, <1>1, <1>3
  <2>2. /\ Moved(in, n) = IF in + n < FullSize THEN in + n ELSE in + n - FullSize
        /\ Moved(in, n) \in Index
    BY <2>1, MovedValue
  <2>3. QED
    BY <1>0, <1>3, <2>1, <2>2 DEF GetUseSize, Index
<1>4. ASSUME n <= GetUseSize(in, out)
      PROVE  /\ Moved(out, n) \in Index
             /\ GetUseSize(in, Moved(out, n)) = GetUseSize(in, out) - n
  <2>1. n \in 0 .. FullSize
    BY <1>0, <1>1, <1>4
  <2>2. /\ Moved(out, n) = IF out + n < FullSize THEN out + n ELSE out + n - FullSize
        /\ Moved(out, n) \in Index
    BY <2>1, MovedValue
  <2>3. QED
    BY <1>0, <1>4, <2>1, <2>2 DEF GetUseSize, Index
<1>5. QED
  BY <1>1, <1>2, <1>3, <1>4

(* Moving twice is moving once. *)
LEMMA MovedTwice ==
  ASSUME NEW p \in Index, NEW n \in Nat, NEW k \in Nat, n + k < FullSize
  PROVE  Moved(Moved(p, n), k) = Moved(p, n + k)
<1>0. FullSize \in Nat /\ FullSize > 1
  BY FullSizeAssumption
<1>1. n \in 0 .. FullSize /\ k \in 0 .. FullSize /\ n + k \in 0 .. FullSize
  BY <1>0
<1>2. PICK r \in Index : r = Moved(p, n)
  BY <1>1, MovedValue
<1>3. r = IF p + n < FullSize THEN p + n ELSE p + n - FullSize
  BY <1>1, <1>2, MovedValue
<1>4. Moved(r, k) = IF r + k < FullSize THEN r + k ELSE r + k - FullSize
  BY <1>1, MovedValue
<1>5. Moved(p, n + k) = IF p + (n + k) < FullSize THEN p + (n + k) ELSE p + (n + k) - FullSize
  BY <1>1, MovedValue
<1>6. QED
  BY <1>0, <1>1, <1>2, <1>3, <1>4, <1>5 DEF Index

(* The ring r is q with s behind what is in it, and nothing in it is lost.  *)
Follows(q, s, r) ==
  /\ r \in Ring /\ r.out = q.out
  /\ Use(r) = Use(q) + Len(s)
  /\ \A k \in 0 .. Use(q) - 1 : r.buf[Moved(q.out, k)] = q.buf[Moved(q.out, k)]
  /\ \A k \in 0 .. Len(s) - 1 : r.buf[Moved(q.out, Use(q) + k)] = s[k + 1]

LEMMA PutBehind ==
  ASSUME NEW q \in Ring, NEW s \in Seq(Byte), Len(s) <= Free(q)
  PROVE  Follows(q, s, Enqueue(q, s))
<1>r. PICK r : r = Enqueue(q, s)
  OBVIOUS
<1>0. FullSize \in Nat /\ FullSize > 1
  BY FullSizeAssumption
<1>1. q.in \in Index /\ q.out \in Index /\ q.buf \in [ Index -> Byte ] /\ Len(s) \in Nat
  BY DEF Ring
<1>2. PICK u \in 0 .. FullSize - 1 : u = Use(q)
  BY <1>1, UseAfterMove DEF Use
<1>3. PICK n \in Nat : n = Len(s)
  BY <1>1
<1>4. u + n < FullSize
  BY <1>0, <1>2, <1>3 DEF Free, Use, GetFreeSize
<1>5. PICK cut \in Nat : cut = Least(n, FullSize - q.in)
  BY <1>0, <1>1 DEF Least, Index
<1>6. PICK in \in Index, out \in Index : in = q.in /\ out = q.out
  BY <1>1
<1>7. r = [ buf |-> Put(q, s, cut), in |-> Moved(in, n), out |-> out ]
  BY <1>r, <1>3, <1>5, <1>6 DEF Enqueue
<1>8. cut = IF n < FullSize - in THEN n ELSE FullSize - in
  BY <1>5, <1>6 DEF Least
<1>9. ASSUME NEW c \in Index
      PROVE  r.buf[c] = IF c - in \in 0 .. n - 1 /\ c - in < cut THEN s[c - in + 1]
                        ELSE IF c < n - cut THEN s[cut + c + 1]
                        ELSE q.buf[c]
  <2>1. r.buf[c] = Put(q, s, cut)[c]
    BY <1>7
  <2>2. Put(q, s, cut)[c] = IF c - q.in \in 0 .. Len(s) - 1 /\ c - q.in < cut THEN s[c - q.in + 1]
                            ELSE IF c < Len(s) - cut THEN s[cut + c + 1]
                            ELSE q.buf[c]
    BY DEF Put
  <2>3. QED
    BY <1>3, <1>6, <2>1, <2>2
<1>10. Put(q, s, cut) \in [ Index -> Byte ]
  <2>1. ASSUME NEW c \in Index
        PROVE  r.buf[c] \in Byte
    <3>1. CASE c - in \in 0 .. n - 1 /\ c - in < cut
      <4>1. c - in + 1 \in 1 .. Len(s)
        BY <1>0, <1>3, <3>1 DEF Index
      <4>2. QED
        BY <1>9, <3>1, <4>1, ElementOfSeq
    <3>2. CASE ~ (c - in \in 0 .. n - 1 /\ c - in < cut) /\ c < n - cut
      <4>1. cut + c + 1 \in 1 .. Len(s)
        BY <1>0, <1>3, <3>2 DEF Index
      <4>2. QED
        BY <1>9, <3>2, <4>1, ElementOfSeq
    <3>3. CASE ~ (c - in \in 0 .. n - 1 /\ c - in < cut) /\ ~ (c < n - cut)
      <4>1. r.buf[c] = q.buf[c]
        BY <1>9, <3>3
      <4>2. QED
        BY <1>1, <4>1
    <3>4. QED
      BY <3>1, <3>2, <3>3
  <2>2. r.buf = Put(q, s, cut)
    BY <1>7
  <2>3. Put(q, s, cut) = [ c \in Index |-> Put(q, s, cut)[c] ]
    BY DEF Put
  <2>4. QED
    BY <2>1, <2>2, <2>3
<1>11. /\ Moved(in, n) \in Index
       /\ GetUseSize(Moved(in, n), out) = u + n
  <2>1. GetUseSize(in, out) = u
    BY <1>2, <1>6 DEF Use
  <2>2. n + GetUseSize(in, out) < FullSize
    BY <1>4, <2>1
  <2>3. QED
    BY <2>1, <2>2, UseAfterMove
<1>12. r \in Ring /\ r.out = q.out /\ Use(r) = Use(q) + Len(s)
  BY <1>2, <1>3, <1>6, <1>7, <1>10, <1>11 DEF Ring, Use
<1>13. in = Moved(out, u)
  BY <1>2, <1>6, UseAfterMove DEF Use
<1>14. in = IF out + u < FullSize THEN out + u ELSE out + u - FullSize
  BY <1>0, <1>13, MovedValue
<1>15. ASSUME NEW k \in 0 .. u - 1
       PROVE  r.buf[Moved(out, k)] = q.buf[Moved(out, k)]
  <2>1. PICK c \in Index : c = Moved(out, k)
    BY <1>0, MovedValue
  <2>2. c = IF out + k < FullSize THEN out + k ELSE out + k - FullSize
    BY <1>0, <2>1, MovedValue
  <2>3. ~ (c - in \in 0 .. n - 1 /\ c - in < cut) /\ ~ (c < n - cut)
    <3>1. in \in 0 .. FullSize - 1 /\ out \in 0 .. FullSize - 1
      BY DEF Index
    <3>2. c < in \/ c >= in + n
      BY <1>0, <1>4, <1>14, <2>2, <3>1
    <3>3. c >= n - cut
      BY <1>0, <1>4, <1>8, <1>14, <2>2, <3>1
    <3>4. c \in Nat
      BY <1>0 DEF Index
    <3>5. QED
      BY <1>0, <3>1, <3>2, <3>3, <3>4
  <2>4. QED
    BY <1>9, <2>1, <2>3
<1>16. ASSUME NEW k \in 0 .. n - 1
       PROVE  r.buf[Moved(out, u + k)] = s[k + 1]
  <2>1. Moved(out, u + k) = Moved(in, k)
    <3>1. u \in Nat /\ k \in Nat /\ u + k < FullSize
      BY <1>0, <1>4
    <3>2. QED
      BY <1>13, <3>1, MovedTwice
  <2>2. PICK c \in Index : c = Moved(in, k)
    BY <1>0, <1>4, MovedValue
  <2>3. c = IF in + k < FullSize THEN in + k ELSE in + k - FullSize
    BY <1>0, <1>4, <2>2, MovedValue
  <2>4. CASE in + k < FullSize
    <3>1. c - in = k /\ k < cut /\ c - in + 1 = k + 1
      BY <1>0, <1>8, <2>3, <2>4 DEF Index
    <3>2. c - in \in 0 .. n - 1 /\ c - in < cut
      BY <3>1
    <3>3. QED
      BY <1>9, <2>1, <2>2, <3>1, <3>2
  <2>5. CASE in + k >= FullSize
    <3>1. /\ ~ (c - in \in 0 .. n - 1)
          /\ c < n - cut /\ cut + c + 1 = k + 1
      <4>1. in \in 0 .. FullSize - 1 /\ cut \in Nat /\ k \in Nat /\ k < n
        BY <1>0 DEF Index
      <4>2. c = in + k - FullSize
        BY <2>3, <2>5, <4>1, <1>0
      <4>3. cut = FullSize - in
        BY <1>0, <1>8, <2>5, <4>1
      <4>4. QED
        BY <1>0, <1>4, <4>1, <4>2, <4>3
    <3>2. QED
      BY <1>9, <2>1, <2>2, <3>1
  <2>6. QED
    BY <1>0, <2>4, <2>5 DEF Index
<1>17. Follows(q, s, r)
  BY <1>2, <1>3, <1>6, <1>12, <1>15, <1>16 DEF Follows
<1>18. QED
  BY <1>r, <1>17

(* What the direct sizes cut off is what the end of the ring cuts off. *)
LEMMA DirectCut ==
  ASSUME NEW in \in Index, NEW out \in Index,
         NEW n \in Nat, n <= GetFreeSize(in, out)
  PROVE  Least(n, DirectEnqueueSize(in, out)) = Least(n, FullSize - in)
<1>0. FullSize \in Nat /\ FullSize > 1
  BY FullSizeAssumption
<1>1. (in + 1) % FullSize = IF in + 1 < FullSize THEN in + 1 ELSE 0
  <2>1. Moved(in, 1) = IF in + 1 < FullSize THEN in + 1 ELSE 0
    <3>1. 1 \in 0 .. FullSize
      BY <1>0
    <3>2. Moved(in, 1) = IF in + 1 < FullSize THEN in + 1 ELSE in + 1 - FullSize
      BY <3>1, MovedValue
    <3>3. QED
      BY <1>0, <3>2 DEF Index
  <2>2. QED
    BY <2>1 DEF Moved
<1>2. (out + FullSize - 1) % FullSize = IF out = 0 THEN FullSize - 1 ELSE out - 1
  <2>1. Moved(out, FullSize - 1) = IF out = 0 THEN FullSize - 1 ELSE out - 1
    BY <1>0, MovedValue DEF Index
  <2>2. out + (FullSize - 1) = out + FullSize - 1
    BY <1>0 DEF Index
  <2>3. QED
    BY <2>1, <2>2 DEF Moved
<1>3. QED
  BY <1>0, <1>1, <1>2 DEF DirectEnqueueSize, GetFreeSize, GetUseSize, Least, Index

(* What is taken out of a ring was at its front. *)
LEMMA TakenInFront ==
  ASSUME NEW q \in Ring, NEW n \in Nat, n <= Use(q)
  PROVE  /\ MoveOut(q, n) \in Ring
         /\ MoveOut(q, n).buf = q.buf
         /\ Use(MoveOut(q, n)) = Use(q) - n
         /\ \A k \in Nat : n + k < FullSize =>
              Moved(MoveOut(q, n).out, k) = Moved(q.out, n + k)
<1>1. q.in \in Index /\ q.out \in Index /\ q.buf \in [ Index -> Byte ]
  BY DEF Ring
<1>2. /\ Moved(q.out, n) \in Index
      /\ GetUseSize(q.in, Moved(q.out, n)) = GetUseSize(q.in, q.out) - n
  BY <1>1, UseAfterMove DEF Use
<1>3. MoveOut(q, n) = [ buf |-> q.buf, in |-> q.in, out |-> Moved(q.out, n) ]
  BY DEF MoveOut, Ring
<1>4. QED
  BY <1>1, <1>2, <1>3, MovedTwice DEF Ring, Use
-----------------------------------------------------------------------------
(* What the client has sent. *)

(* The j-th byte that is not handled yet: in the ring, or on its way. *)
Coming(q, t, j) == IF j <= Use(q) THEN q.buf[Moved(q.out, j - 1)] ELSE t[j - Use(q)]

(* These bytes are the messages m, m + 1, ... up to the last, each of its   *)
(* size, and message a begins after pos[a] of them.                         *)
Lies(pos, m, sizes, q, t) ==
  /\ pos \in [ m .. Len(sizes) + 1 -> Nat ]
  /\ pos[m] = 0
  /\ pos[Len(sizes) + 1] = Use(q) + Len(t)
  /\ \A a \in m .. Len(sizes) : pos[a + 1] = pos[a] + sizes[a]
  /\ \A a, b \in m .. Len(sizes) + 1 : a < b => pos[a] + sizes[a] <= pos[b]
  /\ \A a \in m .. Len(sizes) : \A k \in 0 .. sizes[a] - 1 :
       Coming(q, t, pos[a] + k + 1) = << a, k >>

Placed(m, sizes, q, t) == \E pos : Lies(pos, m, sizes, q, t)

InTypes ==
  /\ recvQ \in Ring
  /\ transit \in Seq(Byte)
  /\ sent \in Seq(Nat)
  /\ \A m \in 1 .. Len(sent) : sent[m] >= Header
  /\ first \in Nat \ {0}
  /\ handled \in Seq(Seq(Byte))
  /\ first + Len(handled) <= Len(sent) + 1

(* The inductive invariant of the receiving side: the bytes not handled yet *)
(* begin with the message after the last that was handled.                  *)
InInv ==
  /\ InTypes
  /\ HandledAsSent
  /\ Placed(first + Len(handled), sent, recvQ, transit)

LEMMA BytesOf ==
  ASSUME NEW m \in Nat, NEW size \in Nat
  PROVE  /\ Bytes(m, size) \in Seq(Byte)
         /\ Len(Bytes(m, size)) = size
         /\ \A k \in 1 .. size : Bytes(m, size)[k] = << m, k - 1 >>
<1>1. \A k \in 1 .. size : << m, k - 1 >> \in Byte
  BY DEF Byte
<1>2. QED
  BY <1>1, IsASeq DEF Bytes

LEMMA BytesBehind ==
  ASSUME NEW t \in Seq(Byte), NEW m \in Nat, NEW size \in Nat
  PROVE  /\ t \o Bytes(m + 1, size) \in Seq(Byte)
         /\ Len(t \o Bytes(m + 1, size)) = Len(t) + size
         /\ \A k \in 1 .. Len(t) : (t \o Bytes(m + 1, size))[k] = t[k]
         /\ \A k \in 1 .. size : (t \o Bytes(m + 1, size))[Len(t) + k] = << m + 1, k - 1 >>
<1>1. PICK a \in Nat : a = m + 1
  OBVIOUS
<1>2. PICK b \in Seq(Byte) : b = Bytes(a, size)
  BY <1>1, BytesOf
<1>3. Len(b) = size /\ \A k \in 1 .. size : b[k] = << a, k - 1 >>
  BY <1>1, <1>2, BytesOf
<1>4. PICK e \in Nat : e = Len(t)
  BY LenProperties
<1>5. PICK c \in Seq(Byte) : c = t \o b
  BY ConcatProperties
<1>6. Len(c) = Len(t) + Len(b)
  BY <1>5, ConcatProperties, Zenon
<1>7. \A k \in 1 .. Len(t) + Len(b) : c[k] = IF k <= Len(t) THEN t[k] ELSE b[k - Len(t)]
  BY <1>5, ConcatProperties, Zenon
<1>8. ASSUME NEW k \in 1 .. e
      PROVE  c[k] = t[k]
  BY <1>3, <1>4, <1>7
<1>9. ASSUME NEW k \in 1 .. size
      PROVE  c[e + k] = << a, k - 1 >>
  <2>1. PICK j \in 1 .. e + size : j = e + k
    OBVIOUS
  <2>2. j > e /\ j - e = k
    BY <2>1
  <2>3. c[j] = b[j - e]
    <3>1. j \in 1 .. Len(t) + Len(b)
      BY <1>3, <1>4
    <3>2. c[j] = IF j <= Len(t) THEN t[j] ELSE b[j - Len(t)]
      BY <1>7, <3>1
    <3>3. QED
      BY <1>4, <2>2, <3>2
  <2>4. QED
    BY <1>3, <2>1, <2>2, <2>3
<1>10. c = t \o Bytes(m + 1, size)
  BY <1>1, <1>2, <1>5, Zenon
<1>11. QED
  BY <1>1, <1>3, <1>4, <1>5, <1>6, <1>8, <1>9, <1>10

(* A message the client sends comes after everything else. *)
OneMore(q, u, l, e, size, sizes, sizes2, t, t2) ==
  /\ Use(q) = u
  /\ Len(sizes) = l /\ Len(sizes2) = l + 1
  /\ \A a \in 1 .. l : sizes2[a] = sizes[a] /\ sizes[a] \in Nat
  /\ sizes2[l + 1] = size
  /\ Len(t) = e /\ Len(t2) = e + size
  /\ \A k \in 1 .. e : t2[k] = t[k]
  /\ \A k \in 1 .. size : t2[e + k] = << l + 1, k - 1 >>

LEMMA SentLast ==
  ASSUME NEW l \in Nat, NEW e \in Nat, NEW u \in Nat, NEW size \in Nat,
         NEW m \in 1 .. l + 1, NEW q, NEW t, NEW t2, NEW sizes, NEW sizes2,
         OneMore(q, u, l, e, size, sizes, sizes2, t, t2), Placed(m, sizes, q, t)
  PROVE  Placed(m, sizes2, q, t2)
<1>p. PICK pos : Lies(pos, m, sizes, q, t)
  BY DEF Placed
<1>u. Use(q) = u
  BY DEF OneMore
<1>0. /\ Len(sizes) = l /\ Len(sizes2) = l + 1
      /\ \A a \in 1 .. l : sizes2[a] = sizes[a] /\ sizes[a] \in Nat
      /\ sizes2[l + 1] = size
      /\ Len(t) = e /\ Len(t2) = e + size
      /\ \A k \in 1 .. e : t2[k] = t[k]
      /\ \A k \in 1 .. size : t2[e + k] = << l + 1, k - 1 >>
  BY DEF OneMore
<1>1. /\ pos \in [ m .. l + 1 -> Nat ]
      /\ pos[m] = 0
      /\ pos[l + 1] = u + e
      /\ \A a \in m .. l : pos[a + 1] = pos[a] + sizes[a]
      /\ \A a, b \in m .. l + 1 : a < b => pos[a] + sizes[a] <= pos[b]
      /\ \A a \in m .. l : \A k \in 0 .. sizes[a] - 1 :
           Coming(q, t, pos[a] + k + 1) = << a, k >>
  <2>1. Len(sizes) = l /\ Len(t) = e
    BY <1>0
  <2>2. QED
    BY <1>p, <1>u, <2>1 DEF Lies
<1> DEFINE pos2 == [ a \in m .. l + 2 |-> IF a = l + 2 THEN u + e + size ELSE pos[a] ]
<1>2. /\ pos2 \in [ m .. l + 2 -> Nat ]
      /\ \A a \in m .. l + 1 : pos2[a] = pos[a]
      /\ pos2[l + 2] = u + e + size
  BY <1>1
<1> HIDE DEF pos2
<1>3. pos2[m] = 0
  BY <1>1, <1>2
<1>5. ASSUME NEW a \in m .. l
      PROVE  /\ pos2[a] = pos[a] /\ pos[a] \in Nat
             /\ sizes2[a] = sizes[a] /\ sizes[a] \in Nat
             /\ pos[a] + sizes[a] <= u + e
  <2>1. a \in 1 .. l /\ a \in m .. l + 1 /\ l + 1 \in m .. l + 1 /\ a < l + 1
    OBVIOUS
  <2>2. pos[a] + sizes[a] <= pos[l + 1]
    BY <1>1, <2>1
  <2>3. pos[a] \in Nat
    BY <1>1, <2>1
  <2>4. QED
    BY <1>0, <1>1, <1>2, <2>1, <2>2, <2>3
<1>6. ASSUME NEW a \in m .. l + 2, NEW b \in m .. l + 2, a < b
      PROVE  pos2[a] + sizes2[a] <= pos2[b]
  <2>1. CASE b # l + 2
    <3>1. a \in m .. l /\ a \in m .. l + 1 /\ b \in m .. l + 1
      BY <1>6, <2>1
    <3>2. pos[a] + sizes[a] <= pos[b]
      BY <1>1, <1>6, <3>1
    <3>3. pos2[b] = pos[b]
      BY <1>2, <3>1
    <3>4. QED
      BY <1>5, <3>1, <3>2, <3>3
  <2>2. CASE b = l + 2 /\ a = l + 1
    <3>1. pos2[a] = u + e
      BY <1>1, <1>2, <2>2
    <3>2. QED
      BY <1>0, <1>2, <2>2, <3>1
  <2>3. CASE b = l + 2 /\ a # l + 1
    <3>1. PICK c \in m .. l : c = a
      BY <1>6, <2>3
    <3>2. PICK i \in Nat, j \in Nat : i = pos[c] /\ j = sizes[c]
      BY <1>5
    <3>3. pos2[a] = i /\ sizes2[a] = j /\ i + j <= u + e
      BY <1>5, <3>1, <3>2
    <3>4. QED
      BY <1>2, <2>3, <3>3
  <2>4. QED
    BY <2>1, <2>2, <2>3
<1>7. ASSUME NEW j \in 1 .. u + e
      PROVE  Coming(q, t2, j) = Coming(q, t, j)
  <2>1. CASE j <= u
    BY <1>u, <2>1 DEF Coming
  <2>2. CASE j > u
    <3>1. j - u \in 1 .. e
      BY <2>2
    <3>2. QED
      BY <1>u, <1>0, <2>2, <3>1 DEF Coming
  <2>3. QED
    BY <2>1, <2>2
<1>8. ASSUME NEW a \in m .. l, NEW k \in 0 .. sizes2[a] - 1
      PROVE  Coming(q, t2, pos2[a] + k + 1) = << a, k >>
  <2>1. PICK i \in Nat, j \in Nat : i = pos[a] /\ j = sizes[a]
    BY <1>5
  <2>2. pos2[a] = i /\ sizes2[a] = j /\ i + j <= u + e
    BY <1>5, <2>1
  <2>3. k \in 0 .. j - 1
    BY <2>2
  <2>4. PICK p \in 1 .. u + e : p = i + k + 1
    BY <2>2, <2>3
  <2>5. Coming(q, t, p) = << a, k >>
    BY <1>1, <2>1, <2>3, <2>4
  <2>6. QED
    BY <1>7, <2>2, <2>4, <2>5
<1>9. ASSUME NEW k \in 0 .. size - 1
      PROVE  Coming(q, t2, pos2[l + 1] + k + 1) = << l + 1, k >>
  <2>1. pos2[l + 1] = u + e
    BY <1>1, <1>2
  <2>2. PICK j \in 1 .. size : j = k + 1
    OBVIOUS
  <2>3. PICK p \in Nat : p = u + (e + j)
    OBVIOUS
  <2>4. p > u /\ p - u = e + j /\ p = pos2[l + 1] + k + 1
    BY <2>1, <2>2, <2>3
  <2>5. Coming(q, t2, p) = t2[e + j]
    BY <1>u, <2>4 DEF Coming
  <2>6. t2[e + j] = << l + 1, j - 1 >>
    BY <1>0
  <2>7. j - 1 = k
    BY <2>2
  <2>8. QED
    BY <2>4, <2>5, <2>6, <2>7
<1>10. ASSUME NEW a \in m .. l + 1, NEW k \in 0 .. sizes2[a] - 1
       PROVE  Coming(q, t2, pos2[a] + k + 1) = << a, k >>
  <2>1. CASE a = l + 1
    BY <1>0, <1>9, <2>1
  <2>2. CASE a # l + 1
    <3>1. a \in m .. l
      BY <2>2
    <3>2. QED
      BY <1>8, <3>1
  <2>3. QED
    BY <2>1, <2>2
<1>11. Len(sizes2) = l + 1 /\ Len(sizes2) + 1 = l + 2
  BY <1>0
<1>12. pos2[Len(sizes2) + 1] = Use(q) + Len(t2)
  BY <1>u, <1>0, <1>2, <1>11
<1>a. ASSUME NEW a \in m .. l + 1
      PROVE  pos2[a + 1] = pos2[a] + sizes2[a]
  <2>1. CASE a = l + 1
    <3>1. pos2[a] = u + e /\ sizes2[a] = size /\ a + 1 = l + 2
      BY <1>0, <1>1, <1>2, <2>1
    <3>2. QED
      BY <1>2, <3>1
  <2>2. CASE a # l + 1
    <3>1. a \in m .. l /\ a + 1 \in m .. l + 1
      BY <2>2
    <3>2. pos[a + 1] = pos[a] + sizes[a]
      BY <1>1, <3>1
    <3>3. pos2[a + 1] = pos[a + 1]
      BY <1>2, <3>1
    <3>4. QED
      BY <1>5, <3>1, <3>2, <3>3
  <2>3. QED
    BY <2>1, <2>2
<1>13. Lies(pos2, m, sizes2, q, t2)
  BY <1>2, <1>3, <1>6, <1>a, <1>10, <1>11, <1>12 DEF Lies
<1>14. QED
  BY <1>13 DEF Placed

(* Where the bytes are is all that matters. *)
LEMMA SameBytes ==
  ASSUME NEW l \in Nat, NEW e \in Nat, NEW m \in 1 .. l + 1,
         NEW q, NEW t, NEW q2, NEW t2, NEW sizes,
         Len(sizes) = l, Use(q) + Len(t) = e, Use(q2) + Len(t2) = e,
         \A a \in 1 .. l : sizes[a] \in Nat,
         \A j \in 1 .. e : Coming(q2, t2, j) = Coming(q, t, j),
         Placed(m, sizes, q, t)
  PROVE  Placed(m, sizes, q2, t2)
<1>p. PICK pos : Lies(pos, m, sizes, q, t)
  BY DEF Placed
<1>1. /\ pos \in [ m .. l + 1 -> Nat ]
      /\ pos[m] = 0
      /\ pos[l + 1] = e
      /\ \A a \in m .. l : pos[a + 1] = pos[a] + sizes[a]
      /\ \A a, b \in m .. l + 1 : a < b => pos[a] + sizes[a] <= pos[b]
      /\ \A a \in m .. l : \A k \in 0 .. sizes[a] - 1 :
           Coming(q, t, pos[a] + k + 1) = << a, k >>
  BY <1>p DEF Lies
<1>2. ASSUME NEW a \in m .. l, NEW k \in 0 .. sizes[a] - 1
      PROVE  Coming(q2, t2, pos[a] + k + 1) = << a, k >>
  <2>1. a \in 1 .. l /\ a \in m .. l + 1 /\ l + 1 \in m .. l + 1 /\ a < l + 1
    OBVIOUS
  <2>2. PICK i \in Nat, j \in Nat : i = pos[a] /\ j = sizes[a]
    BY <1>1, <2>1
  <2>3. i + j <= e
    BY <1>1, <2>1, <2>2
  <2>4. k \in 0 .. j - 1
    BY <2>2
  <2>5. PICK p \in 1 .. e : p = i + k + 1
    BY <2>3, <2>4
  <2>6. QED
    BY <1>1, <2>2, <2>5
<1>3. Lies(pos, m, sizes, q2, t2)
  BY <1>1, <1>2 DEF Lies
<1>4. QED
  BY <1>3 DEF Placed

(* A recv moves bytes from the way into the ring and changes none.          *)
Received(q, t, n, r, t2) ==
  /\ n <= Free(q)
  /\ r = [ buf |-> Put(q, SubSeq(t, 1, n), Least(n, DirectEnqueueSize(q.in, q.out))),
           in |-> Moved(q.in, n), out |-> q.out ]
  /\ t2 = SubSeq(t, n + 1, Len(t))

LEMMA ReceivedBehind ==
  ASSUME NEW q \in Ring, NEW t \in Seq(Byte), NEW n \in 1 .. Len(t), NEW r, NEW t2,
         Received(q, t, n, r, t2)
  PROVE  /\ r \in Ring /\ t2 \in Seq(Byte)
         /\ Use(r) + Len(t2) = Use(q) + Len(t)
         /\ \A j \in 1 .. Use(q) + Len(t) : Coming(r, t2, j) = Coming(q, t, j)
<1>0. FullSize \in Nat /\ FullSize > 1
  BY FullSizeAssumption
<1>r. /\ n <= Free(q)
      /\ r = [ buf |-> Put(q, SubSeq(t, 1, n), Least(n, DirectEnqueueSize(q.in, q.out))),
               in |-> Moved(q.in, n), out |-> q.out ]
      /\ t2 = SubSeq(t, n + 1, Len(t))
  BY DEF Received
<1>1. PICK e \in Nat : e = Len(t)
  BY LenProperties
<1>2. q.in \in Index /\ q.out \in Index
  BY DEF Ring
<1>3. PICK u \in 0 .. FullSize - 1 : u = Use(q)
  BY <1>2, UseAfterMove DEF Use
<1>4. n \in 1 .. e
  BY <1>1
<1>5. \A i \in 1 .. e : t[i] \in Byte
  BY <1>1, ElementOfSeq
<1>6. PICK s \in Seq(Byte) : s = SubSeq(t, 1, n)
  <2>1. \A i \in 1 .. n : t[i] \in Byte
    BY <1>4, <1>5
  <2>2. 1 \in Int /\ n \in Int
    BY <1>4
  <2>3. SubSeq(t, 1, n) \in Seq(Byte)
    BY <2>1, <2>2, SubSeqProperties, Zenon
  <2>4. QED
    BY <2>3
<1>7. Len(s) = n /\ \A i \in 1 .. n : s[i] = t[i]
  <2>1. \A i \in 1 .. n : t[i] \in Byte
    BY <1>4, <1>5
  <2>2. /\ Len(s) = IF 1 <= n THEN n - 1 + 1 ELSE 0
        /\ \A i \in 1 .. n - 1 + 1 : s[i] = t[1 + i - 1]
    BY <1>6, <2>1, SubSeqProperties
  <2>3. QED
    BY <2>2
<1>8. t2 \in Seq(Byte) /\ Len(t2) = e - n /\ \A i \in 1 .. e - n : t2[i] = t[n + i]
  <2>1. \A i \in n + 1 .. e : t[i] \in Byte
    BY <1>4, <1>5
  <2>2. PICK f \in Nat : f = n + 1
    OBVIOUS
  <2>3. t2 = SubSeq(t, f, e)
    BY <1>1, <1>r, <2>2
  <2>4. /\ t2 \in Seq(Byte)
        /\ Len(t2) = IF f <= e THEN e - f + 1 ELSE 0
        /\ \A i \in 1 .. e - f + 1 : t2[i] = t[f + i - 1]
    BY <2>1, <2>2, <2>3, SubSeqProperties
  <2>5. ASSUME NEW i \in 1 .. e - n
        PROVE  t2[i] = t[n + i]
    <3>1. i \in 1 .. e - f + 1 /\ f + i - 1 = n + i
      BY <1>4, <2>2
    <3>2. QED
      BY <2>4, <3>1
  <2>6. Len(t2) = e - n
    BY <1>4, <2>2, <2>4
  <2>7. QED
    BY <2>4, <2>5, <2>6
<1>9. Least(n, DirectEnqueueSize(q.in, q.out)) = Least(n, FullSize - q.in)
  <2>1. n <= GetFreeSize(q.in, q.out)
    BY <1>r DEF Free
  <2>2. QED
    BY <1>2, <1>4, <2>1, DirectCut
<1>10. r = Enqueue(q, s)
  BY <1>6, <1>7, <1>9, <1>r DEF Enqueue
<1>11. Len(s) <= Free(q)
  BY <1>7, <1>r
<1>12. /\ r \in Ring /\ r.out = q.out
       /\ Use(r) = u + n
       /\ \A k \in 0 .. u - 1 : r.buf[Moved(q.out, k)] = q.buf[Moved(q.out, k)]
       /\ \A k \in 0 .. n - 1 : r.buf[Moved(q.out, u + k)] = s[k + 1]
  <2>1. Follows(q, s, r)
    BY <1>10, <1>11, PutBehind
  <2>2. QED
    BY <1>3, <1>7, <2>1 DEF Follows
<1>13. ASSUME NEW j \in 1 .. u + e
       PROVE  Coming(r, t2, j) = Coming(q, t, j)
  <2>1. CASE j <= u
    <3>1. j <= u + n /\ j - 1 \in 0 .. u - 1
      BY <1>4, <2>1
    <3>2. QED
      BY <1>3, <1>12, <2>1, <3>1 DEF Coming
  <2>2. CASE j > u /\ j <= u + n
    <3>0. u \in Nat /\ n \in Nat
      BY <1>0
    <3>1. PICK k \in 0 .. n - 1 : k = j - u - 1
      BY <2>2, <3>0
    <3>2. j - 1 = u + k /\ k + 1 = j - u /\ k + 1 \in 1 .. n
      BY <3>0, <3>1
    <3>3. Coming(r, t2, j) = s[k + 1]
      BY <1>12, <2>2, <3>2 DEF Coming
    <3>4. Coming(q, t, j) = t[k + 1]
      BY <1>3, <2>2, <3>2 DEF Coming
    <3>5. QED
      BY <1>7, <3>2, <3>3, <3>4
  <2>3. CASE j > u + n
    <3>1. PICK i \in 1 .. e - n : i = j - (u + n)
      BY <1>3, <1>4, <2>3
    <3>2. n + i = j - u /\ ~ (j <= u) /\ ~ (j <= u + n)
      <4>1. u \in Nat /\ n \in Nat /\ j \in Nat /\ i \in Nat
        BY <1>0, <1>3, <1>4
      <4>2. n + i = j - u
        BY <3>1, <4>1
      <4>3. QED
        BY <2>3, <4>1, <4>2
    <3>3. Coming(r, t2, j) = t2[i]
      BY <1>12, <3>1, <3>2 DEF Coming
    <3>4. Coming(q, t, j) = t[n + i]
      BY <1>3, <3>2 DEF Coming
    <3>5. QED
      BY <1>8, <3>3, <3>4
  <2>4. QED
    BY <1>3, <1>4, <2>1, <2>2, <2>3
<1>14. Use(r) + Len(t2) = u + e
  BY <1>3, <1>4, <1>8, <1>12
<1>15. QED
  BY <1>1, <1>3, <1>8, <1>12, <1>13, <1>14

(* When the first message is taken away, the next one is the first.         *)
Shifted(q, q2, t, size, e) ==
  /\ Use(q) + Len(t) = size + e /\ Use(q2) + Len(t) = e
  /\ \A j \in 1 .. e : Coming(q2, t, j) = Coming(q, t, size + j)

LEMMA NextFirst ==
  ASSUME NEW l \in Nat, NEW e \in Nat, NEW m \in 1 .. l, NEW size \in Nat,
         NEW q, NEW t, NEW q2, NEW sizes,
         Len(sizes) = l, \A a \in 1 .. l : sizes[a] \in Nat, sizes[m] = size,
         Shifted(q, q2, t, size, e), Placed(m, sizes, q, t)
  PROVE  Placed(m + 1, sizes, q2, t)
<1>0. /\ Use(q) + Len(t) = size + e /\ Use(q2) + Len(t) = e
      /\ \A j \in 1 .. e : Coming(q2, t, j) = Coming(q, t, size + j)
  BY DEF Shifted
<1>p. PICK pos : Lies(pos, m, sizes, q, t)
  BY DEF Placed
<1>1. /\ pos \in [ m .. l + 1 -> Nat ]
      /\ pos[m] = 0
      /\ pos[l + 1] = size + e
      /\ \A a \in m .. l : pos[a + 1] = pos[a] + sizes[a]
      /\ \A a, b \in m .. l + 1 : a < b => pos[a] + sizes[a] <= pos[b]
      /\ \A a \in m .. l : \A k \in 0 .. sizes[a] - 1 :
           Coming(q, t, pos[a] + k + 1) = << a, k >>
  BY <1>0, <1>p DEF Lies
<1>2. ASSUME NEW a \in m + 1 .. l + 1
      PROVE  a \in m .. l + 1 /\ pos[a] \in Nat /\ pos[a] >= size
  <2>1. m \in m .. l + 1 /\ a \in m .. l + 1 /\ m < a
    OBVIOUS
  <2>2. pos[m] + sizes[m] <= pos[a]
    BY <1>1, <2>1
  <2>3. PICK i \in Nat : i = pos[a]
    BY <1>1, <2>1
  <2>4. QED
    BY <1>1, <2>1, <2>2, <2>3
<1> DEFINE pos2 == [ a \in m + 1 .. l + 1 |-> pos[a] - size ]
<1>3. /\ pos2 \in [ m + 1 .. l + 1 -> Nat ]
      /\ \A a \in m + 1 .. l + 1 : pos2[a] = pos[a] - size
  <2>1. ASSUME NEW a \in m + 1 .. l + 1
        PROVE  pos[a] - size \in Nat
    <3>1. PICK i \in Nat : i = pos[a]
      BY <1>2
    <3>2. i >= size
      BY <1>2, <3>1
    <3>3. QED
      BY <3>1, <3>2
  <2>2. QED
    BY <2>1
<1> HIDE DEF pos2
<1>4. pos2[m + 1] = 0
  <2>1. m + 1 \in m + 1 .. l + 1 /\ m \in m .. l
    OBVIOUS
  <2>2. pos[m + 1] = size
    BY <1>1, <2>1
  <2>3. QED
    BY <1>3, <2>1, <2>2
<1>5. pos2[l + 1] = e
  <2>1. l + 1 \in m + 1 .. l + 1
    OBVIOUS
  <2>2. QED
    BY <1>1, <1>3, <2>1
<1>6. ASSUME NEW a \in m + 1 .. l
      PROVE  pos2[a + 1] = pos2[a] + sizes[a]
  <2>1. a \in m .. l /\ a \in m + 1 .. l + 1 /\ a + 1 \in m + 1 .. l + 1 /\ a \in 1 .. l
    OBVIOUS
  <2>2. PICK i \in Nat, j \in Nat : i = pos[a] /\ j = sizes[a]
    BY <1>2, <2>1
  <2>3. pos[a + 1] = i + j
    BY <1>1, <2>1, <2>2
  <2>4. pos2[a + 1] = (i + j) - size /\ pos2[a] = i - size
    BY <1>3, <2>1, <2>2, <2>3
  <2>5. QED
    BY <2>2, <2>4
<1>7. ASSUME NEW a \in m + 1 .. l + 1, NEW b \in m + 1 .. l + 1, a < b
      PROVE  pos2[a] + sizes[a] <= pos2[b]
  <2>1. a \in m .. l + 1 /\ b \in m .. l + 1 /\ a \in 1 .. l
    BY <1>7
  <2>2. PICK i \in Nat, j \in Nat, k \in Nat : i = pos[a] /\ j = sizes[a] /\ k = pos[b]
    BY <1>1, <2>1
  <2>3. i + j <= k
    BY <1>1, <1>7, <2>1, <2>2
  <2>4. pos2[a] = i - size /\ pos2[b] = k - size
    BY <1>3, <2>2
  <2>5. (i - size) + j <= k - size
    BY <2>3
  <2>6. QED
    BY <2>2, <2>4, <2>5
<1>8. ASSUME NEW a \in m + 1 .. l, NEW k \in 0 .. sizes[a] - 1
      PROVE  Coming(q2, t, pos2[a] + k + 1) = << a, k >>
  <2>1. a \in m .. l /\ a \in m + 1 .. l + 1 /\ l + 1 \in m .. l + 1 /\ a \in 1 .. l
        /\ a < l + 1 /\ a \in m .. l + 1
    OBVIOUS
  <2>2. PICK i \in Nat, j \in Nat : i = pos[a] /\ j = sizes[a]
    BY <1>1, <2>1
  <2>3. i + j <= size + e
    BY <1>1, <2>1, <2>2
  <2>4. i >= size
    BY <1>2, <2>1, <2>2
  <2>k. k \in 0 .. j - 1
    BY <2>2
  <2>5. PICK p \in 1 .. e : p = i - size + k + 1
    BY <2>3, <2>4, <2>k
  <2>6. Coming(q, t, i + k + 1) = << a, k >>
    BY <1>1, <2>1, <2>2
  <2>7. size + p = i + k + 1
    BY <2>5, <2>k
  <2>8. Coming(q2, t, p) = << a, k >>
    BY <1>0, <2>6, <2>7
  <2>9. pos2[a] + k + 1 = p
    BY <1>3, <2>1, <2>2, <2>5
  <2>10. QED
    BY <2>8, <2>9
<1>9. Lies(pos2, m + 1, sizes, q2, t)
  BY <1>0, <1>3, <1>4, <1>5, <1>6, <1>7, <1>8 DEF Lies
<1>10. QED
  BY <1>9 DEF Placed

(* Nothing has come on a new connection. *)
LEMMA NothingCome ==
  ASSUME NEW l \in Nat, NEW sizes, Len(sizes) = l, NEW q, Use(q) = 0, NEW t, Len(t) = 0
  PROVE  Placed(l + 1, sizes, q, t)
<1> DEFINE pos == [ a \in l + 1 .. l + 1 |-> 0 ]
<1>1. pos \in [ l + 1 .. l + 1 -> Nat ] /\ pos[l + 1] = 0
  OBVIOUS
<1> HIDE DEF pos
<1>2. l + 1 .. l = {} /\ \A a, b \in l + 1 .. l + 1 : ~ (a < b)
  OBVIOUS
<1>3. Lies(pos, l + 1, sizes, q, t)
  BY <1>1, <1>2 DEF Lies
<1>4. QED
  BY <1>3 DEF Placed

LEMMA InInit == Init => InInv
<1>1. SUFFICES ASSUME Init PROVE InInv
  OBVIOUS
<1>2. 0 \in Index /\ Blank \in Byte
  BY FullSizeAssumption DEF Index, Blank, Byte
<1>3. recvQ \in Ring /\ Use(recvQ) = 0
  BY <1>1, <1>2 DEF Init, Empty, Ring, Use, GetUseSize
<1>4. sent = << >> /\ first = 1 /\ transit = << >> /\ handled = << >>
  BY <1>1 DEF Init
<1>5. Len(sent) = 0 /\ Len(transit) = 0 /\ Len(handled) = 0
  BY <1>4
<1>6. Placed(0 + 1, sent, recvQ, transit)
  BY <1>3, <1>5, NothingCome
<1>7. first + Len(handled) = 0 + 1 /\ Len(sent) + 1 = 0 + 1
  BY <1>4, <1>5
<1>8. Placed(first + Len(handled), sent, recvQ, transit)
  BY <1>6, <1>7
<1>9. InTypes
  BY <1>3, <1>4 DEF InTypes
<1>10. HandledAsSent
  BY <1>4 DEF HandledAsSent
<1>11. QED
  BY <1>8, <1>9, <1>10 DEF InInv

LEMMA ClientSendsIn ==
  ASSUME InInv, NEW size \in Payloads, ClientSends(size)
  PROVE  InInv'
<1>1. PICK l \in Nat : l = Len(sent)
  BY LenProperties DEF InInv, InTypes
<1>2. PICK h \in Nat : h = Len(handled)
  BY LenProperties DEF InInv, InTypes
<1>3. PICK e \in Nat : e = Len(transit)
  BY LenProperties DEF InInv, InTypes
<1>4. PICK u \in Nat : u = Use(recvQ)
  BY UseAfterMove, FullSizeAssumption DEF Use, Ring, InInv, InTypes
<1>5. PICK m \in 1 .. l + 1 : m = first + h
  BY <1>1, <1>2 DEF InInv, InTypes
<1>6. PICK n \in Nat : n = Header + size
  BY SessionAssumption
<1>7. n >= Header /\ Header \in Nat
  BY <1>6, SessionAssumption
<1>8. sent \in Seq(Nat) /\ transit \in Seq(Byte)
  BY DEF InInv, InTypes
<1>9. /\ sent' = Append(sent, n)
      /\ transit' = transit \o Bytes(l + 1, n)
      /\ UNCHANGED << first, recvQ, handled >>
  BY <1>1, <1>6 DEF ClientSends
<1>10. /\ sent' \in Seq(Nat) /\ Len(sent') = l + 1
       /\ \A a \in 1 .. l : sent'[a] = sent[a]
       /\ sent'[l + 1] = n
  BY <1>1, <1>8, <1>9, AppendProperties
<1>11. /\ transit' \in Seq(Byte) /\ Len(transit') = e + n
       /\ \A k \in 1 .. e : transit'[k] = transit[k]
       /\ \A k \in 1 .. n : transit'[e + k] = << l + 1, k - 1 >>
  <2>1. PICK t2 : t2 = transit \o Bytes(l + 1, n)
    OBVIOUS
  <2>2. /\ t2 \in Seq(Byte) /\ Len(t2) = Len(transit) + n
        /\ \A k \in 1 .. Len(transit) : t2[k] = transit[k]
        /\ \A k \in 1 .. n : t2[Len(transit) + k] = << l + 1, k - 1 >>
    <3>1. /\ transit \o Bytes(l + 1, n) \in Seq(Byte)
          /\ Len(transit \o Bytes(l + 1, n)) = Len(transit) + n
          /\ \A k \in 1 .. Len(transit) : (transit \o Bytes(l + 1, n))[k] = transit[k]
          /\ \A k \in 1 .. n : (transit \o Bytes(l + 1, n))[Len(transit) + k] = << l + 1, k - 1 >>
      BY <1>8, BytesBehind
    <3>2. QED
      BY <2>1, <3>1, Zenon
  <2>3. t2 = transit'
    BY <1>9, <2>1
  <2>4. QED
    BY <1>3, <2>2, <2>3, Zenon
<1>12. \A a \in 1 .. l : sent[a] \in Nat /\ sent[a] >= Header
  BY <1>1, <1>8, ElementOfSeq DEF InInv, InTypes
<1>13. Placed(m, sent, recvQ, transit)
  BY <1>2, <1>5 DEF InInv
<1>14. Placed(m, sent', recvQ, transit')
  <2>1. PICK s2, t2 : s2 = sent' /\ t2 = transit'
    OBVIOUS
  <2>2. /\ Len(s2) = l + 1 /\ \A a \in 1 .. l : s2[a] = sent[a] /\ sent[a] \in Nat
        /\ s2[l + 1] = n
    BY <1>10, <1>12, <2>1
  <2>3. /\ Len(t2) = e + n
        /\ \A k \in 1 .. e : t2[k] = transit[k]
        /\ \A k \in 1 .. n : t2[e + k] = << l + 1, k - 1 >>
    BY <1>11, <2>1
  <2>4. Placed(m, s2, recvQ, t2)
    <3>1. OneMore(recvQ, u, l, e, n, sent, s2, transit, t2)
      BY <1>1, <1>3, <1>4, <2>2, <2>3 DEF OneMore
    <3>2. QED
      BY <1>13, <3>1, SentLast
  <2>5. QED
    BY <2>1, <2>4
<1>15. first' + Len(handled') = m /\ Len(sent') + 1 = l + 2
  BY <1>2, <1>5, <1>9, <1>10
<1>16. InTypes'
  <2>1. \A a \in 1 .. l + 1 : sent'[a] >= Header
    BY <1>7, <1>10, <1>12
  <2>2. m <= Len(sent') + 1
    BY <1>10
  <2>3. QED
    BY <1>9, <1>10, <1>11, <1>15, <2>1, <2>2 DEF InInv, InTypes
<1>17. HandledAsSent'
  <2>1. ASSUME NEW i \in DOMAIN handled
        PROVE  /\ first + i - 1 <= l
               /\ handled[i] = SubSeq(Bytes(first + i - 1, sent[first + i - 1]), Header + 1,
                                      sent[first + i - 1])
               /\ first + i - 1 \in 1 .. l
    <3>1. i \in 1 .. h /\ first \in Nat \ {0}
      BY <1>2, LenProperties DEF InInv, InTypes
    <3>2. first + i - 1 >= 1
      BY <3>1
    <3>3. QED
      BY <1>1, <3>1, <3>2 DEF InInv, HandledAsSent
  <2>2. ASSUME NEW i \in DOMAIN handled
        PROVE  /\ first + i - 1 <= Len(sent')
               /\ handled[i] = SubSeq(Bytes(first + i - 1, sent'[first + i - 1]), Header + 1,
                                      sent'[first + i - 1])
    <3>1. sent'[first + i - 1] = sent[first + i - 1]
      BY <1>10, <2>1
    <3>2. first + i - 1 <= l + 1
      BY <2>1
    <3>3. QED
      BY <1>10, <2>1, <3>1, <3>2
  <2>3. QED
    BY <1>9, <2>2 DEF HandledAsSent
<1>18. QED
  BY <1>9, <1>14, <1>15, <1>16, <1>17 DEF InInv

LEMMA ReceiveIn ==
  ASSUME InInv, NEW n \in 1 .. Least(Len(transit), Free(recvQ)), Receive(n)
  PROVE  InInv'
<1>1. PICK l \in Nat : l = Len(sent)
  BY LenProperties DEF InInv, InTypes
<1>2. PICK h \in Nat : h = Len(handled)
  BY LenProperties DEF InInv, InTypes
<1>3. PICK m \in 1 .. l + 1 : m = first + h
  BY <1>1, <1>2 DEF InInv, InTypes
<1>4. Len(transit) \in Nat /\ Use(recvQ) \in Nat /\ Free(recvQ) \in Nat
  <2>1. Use(recvQ) \in 0 .. FullSize - 1
    BY UseAfterMove DEF Use, Ring, InInv, InTypes
  <2>2. QED
    BY <2>1, FullSizeAssumption, LenProperties DEF Free, Use, GetFreeSize, InInv, InTypes
<1>5. n \in 1 .. Len(transit) /\ n <= Free(recvQ)
  BY <1>4 DEF Least
<1>6. PICK e \in Nat : e = Use(recvQ) + Len(transit)
  BY <1>4
<1>7. /\ recvQ' = [ buf |-> Put(recvQ, SubSeq(transit, 1, n),
                                Least(n, DirectEnqueueSize(recvQ.in, recvQ.out))),
                     in |-> Moved(recvQ.in, n), out |-> recvQ.out ]
      /\ transit' = SubSeq(transit, n + 1, Len(transit))
      /\ UNCHANGED << first, sent, handled >>
  BY DEF Receive
<1>8. /\ recvQ' \in Ring /\ transit' \in Seq(Byte)
      /\ Use(recvQ') + Len(transit') = e
      /\ \A j \in 1 .. e : Coming(recvQ', transit', j) = Coming(recvQ, transit, j)
  <2>1. PICK q2, t2 : q2 = recvQ' /\ t2 = transit'
    OBVIOUS
  <2>2. recvQ \in Ring /\ transit \in Seq(Byte)
    BY DEF InInv, InTypes
  <2>3. /\ q2 = [ buf |-> Put(recvQ, SubSeq(transit, 1, n),
                              Least(n, DirectEnqueueSize(recvQ.in, recvQ.out))),
                   in |-> Moved(recvQ.in, n), out |-> recvQ.out ]
        /\ t2 = SubSeq(transit, n + 1, Len(transit))
    BY <1>7, <2>1
  <2>4. /\ q2 \in Ring /\ t2 \in Seq(Byte)
        /\ Use(q2) + Len(t2) = Use(recvQ) + Len(transit)
        /\ \A j \in 1 .. Use(recvQ) + Len(transit) : Coming(q2, t2, j) = Coming(recvQ, transit, j)
    <3>1. Received(recvQ, transit, n, q2, t2)
      BY <1>5, <2>3 DEF Received
    <3>2. QED
      BY <1>5, <2>2, <3>1, ReceivedBehind
  <2>5. QED
    BY <1>6, <2>1, <2>4
<1>9. \A a \in 1 .. l : sent[a] \in Nat
  BY <1>1, ElementOfSeq DEF InInv, InTypes
<1>10. Placed(m, sent, recvQ, transit)
  BY <1>2, <1>3 DEF InInv
<1>11. Placed(m, sent, recvQ', transit')
  BY <1>1, <1>6, <1>8, <1>9, <1>10, SameBytes
<1>12. InTypes' /\ HandledAsSent'
  BY <1>7, <1>8 DEF InInv, InTypes, HandledAsSent
<1>13. QED
  BY <1>1, <1>2, <1>3, <1>7, <1>10, <1>11, <1>12 DEF InInv

(* The first message that is not handled begins at the front.               *)
LEMMA FirstInFront ==
  ASSUME NEW l \in Nat, NEW m \in 1 .. l + 1, NEW q, NEW t, NEW sizes,
         Len(sizes) = l, Use(q) \in Nat \ {0}, Len(t) \in Nat,
         Placed(m, sizes, q, t)
  PROVE  /\ m \in 1 .. l
         /\ \A k \in 0 .. sizes[m] - 1 : Coming(q, t, k + 1) = << m, k >>
<1>p. PICK pos : Lies(pos, m, sizes, q, t)
  BY DEF Placed
<1>1. /\ pos[m] = 0 /\ pos[l + 1] = Use(q) + Len(t)
      /\ \A a \in m .. l : \A k \in 0 .. sizes[a] - 1 :
           Coming(q, t, pos[a] + k + 1) = << a, k >>
  BY <1>p DEF Lies
<1>2. m # l + 1
  BY <1>1
<1>3. m \in 1 .. l /\ m \in m .. l
  BY <1>2
<1>4. ASSUME NEW k \in 0 .. sizes[m] - 1
      PROVE  Coming(q, t, k + 1) = << m, k >>
  <2>1. 0 + k + 1 = k + 1
    OBVIOUS
  <2>2. Coming(q, t, 0 + k + 1) = << m, k >>
    BY <1>1, <1>3
  <2>3. QED
    BY <2>1, <2>2
<1>5. QED
  BY <1>3, <1>4

(* A header and then the rest of a message are taken out.                   *)
TakenPast(q, a, b, q1, q2) ==
  /\ q2 \in Ring /\ q2.buf = q.buf
  /\ Use(q2) = Use(q) - (a + b)
  /\ \A k \in Nat : a + b + k < FullSize =>
       Moved(q2.out, k) = Moved(q.out, a + b + k)
  /\ Dequeued(q1, b) = [ k \in 1 .. b |-> q.buf[Moved(q.out, a + (k - 1))] ]

LEMMA TakenTwice ==
  ASSUME NEW q \in Ring, NEW a \in Nat, NEW b \in Nat, a + b <= Use(q),
         NEW q1, q1 = MoveOut(q, a), NEW q2, q2 = Dequeue(q1, b)
  PROVE  TakenPast(q, a, b, q1, q2)
<1>0. FullSize \in Nat /\ FullSize > 1
  BY FullSizeAssumption
<1>1. PICK u \in 0 .. FullSize - 1 : u = Use(q)
  BY UseAfterMove DEF Use, Ring
<1>2. a <= u /\ b <= u - a /\ a + b <= u
  BY <1>1
<1>3. /\ q1 \in Ring /\ q1.buf = q.buf /\ Use(q1) = u - a
      /\ \A k \in Nat : a + k < FullSize => Moved(q1.out, k) = Moved(q.out, a + k)
  BY <1>1, <1>2, TakenInFront
<1>4. b <= Use(q1)
  BY <1>2, <1>3
<1>5. q2 = MoveOut(q1, b)
  BY <1>4 DEF Dequeue
<1>6. /\ q2 \in Ring /\ q2.buf = q1.buf /\ Use(q2) = Use(q1) - b
      /\ \A k \in Nat : b + k < FullSize => Moved(q2.out, k) = Moved(q1.out, b + k)
  BY <1>3, <1>4, <1>5, TakenInFront
<1>7. ASSUME NEW k \in Nat, a + b + k < FullSize
      PROVE  Moved(q2.out, k) = Moved(q.out, a + b + k)
  <2>1. PICK j \in Nat : j = b + k
    OBVIOUS
  <2>2. Moved(q2.out, k) = Moved(q1.out, j)
    BY <1>0, <1>6, <1>7, <2>1
  <2>3. Moved(q1.out, j) = Moved(q.out, a + j)
    BY <1>0, <1>3, <1>7, <2>1
  <2>4. a + j = a + b + k
    BY <2>1
  <2>5. QED
    BY <2>2, <2>3, <2>4
<1>8. Least(b, Use(q1)) = b
  BY <1>2, <1>3, <1>1 DEF Least
<1>9. Dequeued(q1, b) = [ k \in 1 .. b |-> q1.buf[Moved(q1.out, k - 1)] ]
  BY <1>8 DEF Dequeued, Taken
<1>10. ASSUME NEW k \in 1 .. b
       PROVE  q1.buf[Moved(q1.out, k - 1)] = q.buf[Moved(q.out, a + (k - 1))]
  <2>1. k - 1 \in Nat /\ a + (k - 1) < FullSize
    BY <1>0, <1>1, <1>2
  <2>2. QED
    BY <1>3, <2>1
<1>11. Dequeued(q1, b) = [ k \in 1 .. b |-> q.buf[Moved(q.out, a + (k - 1))] ]
  BY <1>9, <1>10
<1>12. Use(q2) = Use(q) - (a + b)
  BY <1>1, <1>2, <1>3, <1>6
<1>13. QED
  BY <1>3, <1>6, <1>7, <1>11, <1>12 DEF TakenPast

(* What comes after the header of a message.                                *)
Body(s, m, a, b) ==
  /\ s \in Seq(Byte) /\ Len(s) = b
  /\ \A k \in 1 .. b : s[k] = << m, a + (k - 1) >>

LEMMA BodyOf ==
  ASSUME NEW m \in Nat, NEW a \in Nat, NEW b \in Nat
  PROVE  Body(SubSeq(Bytes(m, a + b), a + 1, a + b), m, a, b)
<1>1. PICK size \in Nat : size = a + b
  OBVIOUS
<1>2. PICK s \in Seq(Byte) : s = Bytes(m, size)
  BY BytesOf
<1>3. Len(s) = size /\ \A k \in 1 .. size : s[k] = << m, k - 1 >>
  BY <1>2, BytesOf
<1>4. PICK f \in Nat : f = a + 1
  OBVIOUS
<1>5. PICK r : r = SubSeq(s, f, size)
  OBVIOUS
<1>6. \A i \in f .. size : s[i] \in Byte
  BY <1>3, <1>4, ElementOfSeq
<1>7. /\ r \in Seq(Byte)
      /\ Len(r) = IF f <= size THEN size - f + 1 ELSE 0
      /\ \A i \in 1 .. size - f + 1 : r[i] = s[f + i - 1]
  BY <1>4, <1>5, <1>6, SubSeqProperties
<1>8. Len(r) = b
  BY <1>1, <1>4, <1>7
<1>9. ASSUME NEW k \in 1 .. b
      PROVE  r[k] = << m, a + (k - 1) >>
  <2>1. k \in 1 .. size - f + 1
    BY <1>1, <1>4
  <2>2. PICK j \in 1 .. size : j = f + k - 1
    BY <1>1, <1>4
  <2>3. r[k] = s[j]
    BY <1>7, <2>1, <2>2
  <2>4. j - 1 = a + (k - 1)
    BY <1>4, <2>2
  <2>5. QED
    BY <1>3, <2>3, <2>4
<1>10. r = SubSeq(Bytes(m, a + b), a + 1, a + b)
  BY <1>1, <1>2, <1>4, <1>5
<1>11. Body(r, m, a, b)
  BY <1>7, <1>8, <1>9 DEF Body
<1>12. QED
  BY <1>10, <1>11

(* A message is handled only when it is there, and then it is the next.     *)
LEMMA ProcIn ==
  ASSUME InInv, NEW done, NEW ok, Proc(done, ok)
  PROVE  InInv'
<1>0. FullSize \in Nat /\ FullSize > 1
  BY FullSizeAssumption
<1>1. PICK l \in Nat : l = Len(sent)
  BY LenProperties DEF InInv, InTypes
<1>2. PICK h \in Nat : h = Len(handled)
  BY LenProperties DEF InInv, InTypes
<1>3. PICK w \in Nat : w = Len(transit)
  BY LenProperties DEF InInv, InTypes
<1>4. PICK u \in 0 .. FullSize - 1 : u = Use(recvQ)
  BY UseAfterMove DEF Use, Ring, InInv, InTypes
<1>5. PICK m \in 1 .. l + 1 : m = first + h
  BY <1>1, <1>2 DEF InInv, InTypes
<1>6. Header \in Nat \ {0}
  BY SessionAssumption
<1>7. u >= Header
  BY <1>0, <1>4, <1>6 DEF Proc
<1>8. /\ m \in 1 .. l
      /\ \A k \in 0 .. sent[m] - 1 : Coming(recvQ, transit, k + 1) = << m, k >>
  <2>1. Use(recvQ) \in Nat \ {0}
    BY <1>4, <1>6, <1>7
  <2>2. Placed(m, sent, recvQ, transit)
    BY <1>2, <1>5 DEF InInv
  <2>3. QED
    BY <1>1, <1>3, <2>1, <2>2, FirstInFront
<1>9. PICK size \in Nat : size = sent[m] /\ size >= Header
  BY <1>1, <1>8, ElementOfSeq DEF InInv, InTypes
<1>10. PICK b \in Nat : b = size - Header
  BY <1>6, <1>9
<1>11. Ahead[1] = << m, 0 >>
  <2>1. Ahead = [ k \in 1 .. Header |-> recvQ.buf[Moved(recvQ.out, k - 1)] ]
    <3>1. Least(Header, Use(recvQ)) = Header
      BY <1>0, <1>4, <1>6, <1>7 DEF Least
    <3>2. QED
      BY <3>1 DEF Ahead, Peek, Taken
  <2>2. Ahead[1] = recvQ.buf[Moved(recvQ.out, 1 - 1)]
    BY <1>6, <2>1
  <2>3. Coming(recvQ, transit, 0 + 1) = << m, 0 >>
    BY <1>6, <1>8, <1>9
  <2>4. Coming(recvQ, transit, 1) = recvQ.buf[Moved(recvQ.out, 1 - 1)]
    BY <1>4, <1>6, <1>7 DEF Coming
  <2>5. QED
    BY <2>2, <2>3, <2>4
<1>12. Size = size
  BY <1>9, <1>11 DEF Size
<1>13. size <= u /\ Header + b = size
  BY <1>4, <1>6, <1>9, <1>10, <1>12 DEF Proc
<1>14. /\ recvQ' = Dequeue(MoveOut(recvQ, Header), b)
       /\ handled' = Append(handled, Dequeued(MoveOut(recvQ, Header), b))
       /\ UNCHANGED << first, sent, transit >>
  BY <1>10, <1>12 DEF Proc, clientVars
<1>15. PICK q2, body : /\ q2 = Dequeue(MoveOut(recvQ, Header), b)
                       /\ body = Dequeued(MoveOut(recvQ, Header), b)
  OBVIOUS
<1>16. recvQ \in Ring
  BY DEF InInv, InTypes
<1>17. /\ q2 \in Ring /\ q2.buf = recvQ.buf
       /\ Use(q2) = u - size
       /\ \A k \in Nat : size + k < FullSize =>
            Moved(q2.out, k) = Moved(recvQ.out, size + k)
       /\ body = [ k \in 1 .. b |-> recvQ.buf[Moved(recvQ.out, Header + (k - 1))] ]
  <2>1. PICK q1 : q1 = MoveOut(recvQ, Header)
    OBVIOUS
  <2>2. q2 = Dequeue(q1, b) /\ body = Dequeued(q1, b)
    BY <1>15, <2>1
  <2>3. PICK head \in Nat : head = Header
    BY <1>6
  <2>4. head + b <= Use(recvQ) /\ q1 = MoveOut(recvQ, head) /\ q2 = Dequeue(q1, b)
    BY <1>4, <1>13, <2>1, <2>2, <2>3
  <2>5. TakenPast(recvQ, head, b, q1, q2)
    BY <1>16, <2>4, TakenTwice
  <2>6. /\ q2 \in Ring /\ q2.buf = recvQ.buf /\ Use(q2) = Use(recvQ) - (head + b)
        /\ Dequeued(q1, b) = [ k \in 1 .. b |-> recvQ.buf[Moved(recvQ.out, head + (k - 1))] ]
    BY <2>5 DEF TakenPast
  <2>7. ASSUME NEW k \in Nat, head + b + k < FullSize
        PROVE  Moved(q2.out, k) = Moved(recvQ.out, head + b + k)
    BY <2>5, <2>7 DEF TakenPast
  <2>8. QED
    BY <1>4, <1>13, <2>2, <2>3, <2>5, <2>6, <2>7
<1>18. PICK e \in Nat : e = u - size + w
  BY <1>4, <1>13
<1>19. ASSUME NEW j \in 1 .. e
       PROVE  Coming(q2, transit, j) = Coming(recvQ, transit, size + j)
  <2>1. CASE j <= u - size
    <3>1. PICK k \in Nat : k = j - 1
      OBVIOUS
    <3>2. size + k = size + j - 1 /\ size + k < FullSize /\ size + j <= u
      BY <1>0, <1>4, <1>13, <2>1, <3>1
    <3>3. Coming(q2, transit, j) = q2.buf[Moved(q2.out, k)]
      BY <1>17, <2>1, <3>1 DEF Coming
    <3>4. Coming(recvQ, transit, size + j) = recvQ.buf[Moved(recvQ.out, size + k)]
      BY <1>4, <3>2 DEF Coming
    <3>5. QED
      BY <1>17, <3>2, <3>3, <3>4
  <2>2. CASE j > u - size
    <3>1. ~ (size + j <= u) /\ ~ (j <= u - size) /\ size + j - u = j - (u - size)
      BY <1>4, <1>13, <2>2
    <3>2. Coming(q2, transit, j) = transit[j - (u - size)]
      BY <1>17, <3>1 DEF Coming
    <3>3. Coming(recvQ, transit, size + j) = transit[size + j - u]
      BY <1>4, <3>1 DEF Coming
    <3>4. QED
      BY <3>1, <3>2, <3>3
  <2>3. QED
    BY <1>4, <2>1, <2>2
<1>20. Placed(m + 1, sent, q2, transit)
  <2>1. \A a \in 1 .. l : sent[a] \in Nat
    BY <1>1, ElementOfSeq DEF InInv, InTypes
  <2>2. Use(recvQ) + Len(transit) = size + e /\ Use(q2) + Len(transit) = e
    BY <1>3, <1>4, <1>13, <1>17, <1>18
  <2>3. Placed(m, sent, recvQ, transit)
    BY <1>2, <1>5 DEF InInv
  <2>4. QED
    <3>1. Shifted(recvQ, q2, transit, size, e)
      BY <1>19, <2>2 DEF Shifted
    <3>2. QED
      BY <1>1, <1>8, <1>9, <2>1, <2>3, <3>1, NextFirst
<1>21. ASSUME NEW k \in 1 .. b
       PROVE  recvQ.buf[Moved(recvQ.out, Header + (k - 1))] = << m, Header + (k - 1) >>
  <2>1. PICK i \in 0 .. size - 1 : i = Header + (k - 1)
    BY <1>6, <1>13
  <2>2. Coming(recvQ, transit, i + 1) = << m, i >>
    BY <1>8, <1>9
  <2>3. i + 1 <= u /\ (i + 1) - 1 = i
    BY <1>4, <1>13
  <2>4. Coming(recvQ, transit, i + 1) = recvQ.buf[Moved(recvQ.out, i)]
    BY <1>4, <2>3 DEF Coming
  <2>5. QED
    BY <2>1, <2>2, <2>4
<1>22. /\ body = SubSeq(Bytes(m, size), Header + 1, size)
       /\ body \in Seq(Byte)
  <2>1. m \in Nat /\ Header \in Nat
    BY <1>6
  <2>2. PICK a \in Nat : a = Header
    BY <2>1
  <2>3. PICK s : s = SubSeq(Bytes(m, a + b), a + 1, a + b)
    OBVIOUS
  <2>4. s \in Seq(Byte) /\ Len(s) = b /\ \A k \in 1 .. b : s[k] = << m, a + (k - 1) >>
    <3>1. Body(SubSeq(Bytes(m, a + b), a + 1, a + b), m, a, b)
      BY <2>1, BodyOf
    <3>2. QED
      BY <2>3, <3>1 DEF Body
  <2>5. s = [ k \in 1 .. b |-> s[k] ]
    BY <2>4, LenProperties
  <2>6. body = s
    BY <1>17, <1>21, <2>2, <2>4, <2>5
  <2>7. QED
    BY <1>13, <2>2, <2>3, <2>4, <2>6
<1>23. handled \in Seq(Seq(Byte)) /\ first \in Nat \ {0}
  BY DEF InInv, InTypes
<1>24. /\ handled' \in Seq(Seq(Byte)) /\ Len(handled') = h + 1
       /\ \A i \in 1 .. h : handled'[i] = handled[i]
       /\ handled'[h + 1] = body
  <2>1. PICK h2 : h2 = Append(handled, body)
    OBVIOUS
  <2>2. /\ h2 \in Seq(Seq(Byte)) /\ Len(h2) = Len(handled) + 1
        /\ \A i \in 1 .. Len(handled) : h2[i] = handled[i]
        /\ h2[Len(handled) + 1] = body
    <3>1. PICK S : S = Seq(Byte)
      OBVIOUS
    <3>2. handled \in Seq(S) /\ body \in S
      BY <1>22, <1>23, <3>1
    <3>3. /\ h2 \in Seq(S) /\ Len(h2) = Len(handled) + 1
          /\ \A i \in 1 .. Len(handled) : h2[i] = handled[i]
          /\ h2[Len(handled) + 1] = body
      BY <2>1, <3>2, AppendProperties
    <3>4. QED
      BY <3>1, <3>3
  <2>3. handled' = h2
    BY <1>14, <1>15, <2>1
  <2>4. QED
    BY <1>2, <2>2, <2>3
<1>25. first + Len(handled') = m + 1
  BY <1>5, <1>23, <1>24
<1>26. InTypes'
  <2>1. recvQ' = q2 /\ sent' = sent /\ first' = first /\ transit' = transit
    BY <1>14, <1>15
  <2>2. m + 1 <= Len(sent) + 1
    BY <1>1, <1>8
  <2>3. first' + Len(handled') <= Len(sent') + 1
    BY <1>25, <2>1, <2>2
  <2>4. recvQ' \in Ring /\ handled' \in Seq(Seq(Byte))
    BY <1>17, <1>24, <2>1
  <2>5. QED
    BY <2>1, <2>3, <2>4 DEF InInv, InTypes
<1>27. ASSUME NEW i \in 1 .. h + 1
       PROVE  /\ first + i - 1 <= Len(sent)
              /\ handled'[i] = SubSeq(Bytes(first + i - 1, sent[first + i - 1]), Header + 1,
                                      sent[first + i - 1])
  <2>1. CASE i = h + 1
    <3>1. first + i - 1 = m
      BY <1>5, <1>23, <2>1
    <3>2. handled'[i] = SubSeq(Bytes(m, sent[m]), Header + 1, sent[m])
      BY <1>9, <1>22, <1>24, <2>1
    <3>3. m <= Len(sent)
      BY <1>1, <1>8
    <3>4. QED
      BY <3>1, <3>2, <3>3
  <2>2. CASE i # h + 1
    <3>1. i \in 1 .. h
      BY <2>2
    <3>2. i \in DOMAIN handled
      BY <1>2, <1>23, <3>1, LenProperties
    <3>3. /\ first + i - 1 <= Len(sent)
          /\ handled[i] = SubSeq(Bytes(first + i - 1, sent[first + i - 1]), Header + 1,
                                 sent[first + i - 1])
      BY <3>2 DEF InInv, HandledAsSent
    <3>4. QED
      BY <1>24, <3>1, <3>3
  <2>3. QED
    BY <2>1, <2>2
<1>28. HandledAsSent'
  <2>1. DOMAIN handled' = 1 .. h + 1
    BY <1>24, LenProperties
  <2>2. sent' = sent /\ first' = first
    BY <1>14
  <2>3. QED
    BY <1>27, <2>1, <2>2 DEF HandledAsSent
<1>29. Placed(first' + Len(handled'), sent', recvQ', transit')
  BY <1>14, <1>15, <1>20, <1>25
<1>30. QED
  BY <1>26, <1>28, <1>29 DEF InInv

(* The next connection begins with an empty ring and with the client's next *)
(* message, whatever the last one has left in the cells.                    *)
LEMMA ReuseIn ==
  ASSUME InInv, Reuse
  PROVE  InInv'
<1>1. PICK l \in Nat : l = Len(sent)
  BY LenProperties DEF InInv, InTypes
<1>2. /\ recvQ' = [ buf |-> recvQ.buf, in |-> 0, out |-> 0 ]
      /\ sent' = sent /\ first' = l + 1 /\ transit' = << >> /\ handled' = << >>
  BY <1>1 DEF Reuse, Cleared
<1>3. 0 \in Index
  BY FullSizeAssumption DEF Index
<1>4. recvQ' \in Ring /\ Use(recvQ') = 0
  BY <1>2, <1>3 DEF Ring, Use, GetUseSize, InInv, InTypes
<1>5. Len(transit') = 0 /\ Len(handled') = 0 /\ Len(sent') = l
  BY <1>1, <1>2
<1>6. Placed(l + 1, sent', recvQ', transit')
  BY <1>4, <1>5, NothingCome
<1>7. first' + Len(handled') = l + 1
  BY <1>2, <1>5
<1>8. InTypes'
  BY <1>2, <1>4, <1>5, <1>7 DEF InInv, InTypes
<1>9. HandledAsSent'
  BY <1>2 DEF HandledAsSent
<1>10. QED
  BY <1>6, <1>7, <1>8, <1>9 DEF InInv

LEMMA InUnchanged ==
  ASSUME InInv, UNCHANGED << clientVars, recvQ, handled >>
  PROVE  InInv'
BY DEF InInv, InTypes, HandledAsSent, clientVars

(* The messages handled on a connection are those its client has sent, in   *)
(* order, each with its own payload, for rings and messages of every size,  *)
(* however TCP cuts the stream and however often the session is used.       *)
THEOREM HandledIsAsSent == Spec => []HandledAsSent
<1>1. Init => InInv
  BY InInit
<1>2. ASSUME InInv, [Next]_vars
      PROVE  InInv'
  <2>1. ASSUME NEW size \in Payloads, ClientSends(size)
        PROVE  InInv'
    BY <1>2, <2>1, ClientSendsIn
  <2>2. ASSUME NEW n \in 1 .. Least(Len(transit), Free(recvQ)), Receive(n)
        PROVE  InInv'
    BY <1>2, <2>2, ReceiveIn
  <2>3. CASE ReceiveEnd
    BY <1>2, <2>3, InUnchanged DEF ReceiveEnd, clientVars
  <2>4. CASE ProcEnd
    BY <1>2, <2>4, InUnchanged DEF ProcEnd, clientVars
  <2>5. CASE ProcStop
    BY <1>2, <2>5, InUnchanged DEF ProcStop, Stop, clientVars
  <2>6. ASSUME NEW done, NEW ok, Proc(done, ok)
        PROVE  InInv'
    BY <1>2, <2>6, ProcIn
  <2>7. ASSUME NEW done, Broadcast(done)
        PROVE  InInv'
    BY <1>2, <2>7, InUnchanged DEF Broadcast, clientVars
  <2>8. ASSUME NEW n, SendSome(n)
        PROVE  InInv'
    BY <1>2, <2>8, InUnchanged DEF SendSome, clientVars
  <2>9. CASE SendFails
    BY <1>2, <2>9, InUnchanged DEF SendFails, clientVars
  <2>10. CASE Reuse
    BY <1>2, <2>10, ReuseIn
  <2>11. CASE UNCHANGED vars
    BY <1>2, <2>11, InUnchanged DEF vars, clientVars
  <2>12. QED
    BY <1>2, <2>1, <2>2, <2>3, <2>4, <2>5, <2>6, <2>7, <2>8, <2>9, <2>10, <2>11 DEF Next
<1>3. InInv => HandledAsSent
  BY DEF InInv
<1>4. QED
  BY <1>1, <1>2, <1>3, PTL DEF Spec
-----------------------------------------------------------------------------
(* What the server has queued. *)

(* The byte after b when the messages have these sizes.                     *)
Successor(sizes, b) ==
  IF b[2] + 1 < sizes[b[1]] THEN << b[1], b[2] + 1 >> ELSE << b[1] + 1, 0 >>

(* The bytes s begin with the message f and go on without a gap ...         *)
Runs(s, f, sizes) ==
  /\ Len(s) > 0 => s[1] = << f, 0 >>
  /\ \A k \in 1 .. Len(s) : s[k][1] \in 1 .. Len(sizes)
  /\ \A k \in 1 .. Len(s) - 1 : s[k + 1] = Successor(sizes, s[k])

(* ... up to the end of the last message.                                   *)
Whole(s, f, sizes) ==
  /\ Runs(s, f, sizes)
  /\ Len(s) = 0 => f = Len(sizes) + 1
  /\ Len(s) > 0 => Successor(sizes, s[Len(s)]) = << Len(sizes) + 1, 0 >>

(* The bytes h and then those that wait in q.                               *)
Line(h, q) == h \o Taken(q, Use(q))

LEMMA LineOf ==
  ASSUME NEW h \in Seq(Byte), NEW q \in Ring
  PROVE  /\ Line(h, q) \in Seq(Byte)
         /\ Len(Line(h, q)) = Len(h) + Use(q)
         /\ \A j \in 1 .. Len(h) : Line(h, q)[j] = h[j]
         /\ \A k \in 1 .. Use(q) : Line(h, q)[Len(h) + k] = q.buf[Moved(q.out, k - 1)]
<1>0. FullSize \in Nat /\ FullSize > 1
  BY FullSizeAssumption
<1>1. q.out \in Index /\ q.buf \in [ Index -> Byte ]
  BY DEF Ring
<1>2. PICK u \in 0 .. FullSize - 1 : u = Use(q)
  BY UseAfterMove DEF Use, Ring
<1>3. PICK w : w = Taken(q, u)
  OBVIOUS
<1>4. w = [ k \in 1 .. u |-> q.buf[Moved(q.out, k - 1)] ]
  BY <1>3 DEF Taken
<1>5. ASSUME NEW k \in 1 .. u
      PROVE  q.buf[Moved(q.out, k - 1)] \in Byte
  <2>1. k - 1 \in 0 .. FullSize
    BY <1>0, <1>2
  <2>2. Moved(q.out, k - 1) \in Index
    BY <1>1, <2>1, MovedValue
  <2>3. QED
    BY <1>1, <2>2
<1>6. w \in Seq(Byte) /\ Len(w) = u
  BY <1>2, <1>4, <1>5, IsASeq
<1>7. PICK e \in Nat : e = Len(h)
  BY LenProperties
<1>8. PICK c : c = h \o w
  OBVIOUS
<1>9. /\ c \in Seq(Byte) /\ Len(c) = e + u
      /\ \A j \in 1 .. e + u : c[j] = IF j <= e THEN h[j] ELSE w[j - e]
  BY <1>6, <1>7, <1>8, ConcatProperties
<1>10. ASSUME NEW k \in 1 .. u
       PROVE  c[e + k] = q.buf[Moved(q.out, k - 1)]
  <2>1. PICK j \in 1 .. e + u : j = e + k
    BY <1>2
  <2>2. ~ (j <= e) /\ j - e = k
    BY <2>1
  <2>3. c[j] = w[k]
    BY <1>9, <2>2
  <2>4. QED
    BY <1>4, <2>1, <2>3
<1>11. \A j \in 1 .. e : c[j] = h[j]
  BY <1>2, <1>9
<1>12. c = Line(h, q)
  BY <1>2, <1>3, <1>8 DEF Line
<1>13. QED
  BY <1>2, <1>7, <1>9, <1>10, <1>11, <1>12

(* The bytes at the front of a stream, when messages are queued behind it.  *)
FrontKept(s, p, e, d, sizes, sizes2, l, l2) ==
  /\ Len(s) = e /\ Len(p) = d /\ d <= e
  /\ \A k \in 1 .. d : p[k] = s[k]
  /\ Len(sizes) = l /\ Len(sizes2) = l2 /\ l <= l2
  /\ \A a \in 1 .. l : sizes2[a] = sizes[a]

LEMMA FrontRuns ==
  ASSUME NEW s, NEW p, NEW e \in Nat, NEW d \in Nat, NEW l \in Nat, NEW l2 \in Nat,
         NEW f, NEW sizes, NEW sizes2,
         FrontKept(s, p, e, d, sizes, sizes2, l, l2), Runs(s, f, sizes)
  PROVE  Runs(p, f, sizes2)
<1>0. /\ Len(s) = e /\ Len(p) = d /\ d <= e
      /\ \A k \in 1 .. d : p[k] = s[k]
      /\ Len(sizes) = l /\ Len(sizes2) = l2 /\ l <= l2
      /\ \A a \in 1 .. l : sizes2[a] = sizes[a]
  BY DEF FrontKept
<1>1. /\ e > 0 => s[1] = << f, 0 >>
      /\ \A k \in 1 .. e : s[k][1] \in 1 .. l
      /\ \A k \in 1 .. e - 1 : s[k + 1] = Successor(sizes, s[k])
  BY <1>0 DEF Runs
<1>2. d > 0 => p[1] = << f, 0 >>
  BY <1>0, <1>1
<1>3. \A k \in 1 .. d : p[k][1] \in 1 .. l2
  BY <1>0, <1>1
<1>4. ASSUME NEW k \in 1 .. d - 1
      PROVE  p[k + 1] = Successor(sizes2, p[k])
  <2>1. k \in 1 .. d /\ k + 1 \in 1 .. d /\ k \in 1 .. e /\ k \in 1 .. e - 1
    BY <1>0
  <2>2. p[k] = s[k] /\ p[k + 1] = s[k + 1] /\ s[k][1] \in 1 .. l
    BY <1>0, <1>1, <2>1
  <2>3. Successor(sizes2, s[k]) = Successor(sizes, s[k])
    BY <1>0, <2>2 DEF Successor
  <2>4. QED
    BY <1>1, <2>1, <2>2, <2>3
<1>5. QED
  BY <1>0, <1>2, <1>3, <1>4 DEF Runs

(* A message that is queued makes the stream longer, and no gap.            *)
Longer(s, s2, e, size, l, sizes, sizes2) ==
  /\ Len(s) = e /\ Len(s2) = e + size
  /\ \A k \in 1 .. e : s2[k] = s[k]
  /\ \A k \in 1 .. size : s2[e + k] = << l + 1, k - 1 >>
  /\ Len(sizes) = l /\ Len(sizes2) = l + 1
  /\ \A a \in 1 .. l : sizes2[a] = sizes[a]
  /\ sizes2[l + 1] = size

LEMMA WholeGrows ==
  ASSUME NEW e \in Nat, NEW size \in Nat \ {0}, NEW l \in Nat, NEW s, NEW s2, NEW f,
         NEW sizes, NEW sizes2, Longer(s, s2, e, size, l, sizes, sizes2), Whole(s, f, sizes)
  PROVE  Whole(s2, f, sizes2)
<1>1. /\ Len(s) = e /\ Len(s2) = e + size
      /\ \A k \in 1 .. e : s2[k] = s[k]
  BY DEF Longer
<1>2. \A k \in 1 .. size : s2[e + k] = << l + 1, k - 1 >>
  BY DEF Longer
<1>3. /\ Len(sizes) = l /\ Len(sizes2) = l + 1
      /\ \A a \in 1 .. l : sizes2[a] = sizes[a]
      /\ sizes2[l + 1] = size
  BY DEF Longer
<1>4. /\ e > 0 => s[1] = << f, 0 >>
      /\ \A k \in 1 .. e : s[k][1] \in 1 .. l
      /\ \A k \in 1 .. e - 1 : s[k + 1] = Successor(sizes, s[k])
      /\ e = 0 => f = l + 1
      /\ e > 0 => Successor(sizes, s[e]) = << l + 1, 0 >>
  BY <1>1, <1>3 DEF Whole, Runs
<1>5. s2[1] = << f, 0 >>
  <2>1. CASE e = 0
    <3>1. 1 \in 1 .. size /\ e + 1 = 1 /\ 1 - 1 = 0
      BY <2>1
    <3>2. s2[e + 1] = << l + 1, 1 - 1 >>
      BY <1>2, <3>1
    <3>3. QED
      BY <1>4, <2>1, <3>1, <3>2
  <2>2. CASE e > 0
    BY <1>1, <1>4, <2>2
  <2>3. QED
    BY <2>1, <2>2
<1>6. ASSUME NEW k \in 1 .. e + size, k > e
      PROVE  s2[k] = << l + 1, k - e - 1 >>
  <2>1. PICK i \in 1 .. size : i = k - e
    BY <1>6
  <2>2. s2[e + i] = << l + 1, i - 1 >>
    BY <1>2
  <2>3. e + i = k /\ i - 1 = k - e - 1
    BY <2>1
  <2>4. QED
    BY <2>2, <2>3
<1>7. ASSUME NEW k \in 1 .. e + size
      PROVE  s2[k][1] \in 1 .. l + 1
  <2>1. CASE k <= e
    BY <1>1, <1>4, <2>1
  <2>2. CASE k > e
    BY <1>6, <2>2
  <2>3. QED
    BY <2>1, <2>2
<1>8. ASSUME NEW k \in 1 .. e
      PROVE  Successor(sizes2, s2[k]) = Successor(sizes, s[k])
  <2>1. s2[k] = s[k] /\ s[k][1] \in 1 .. l
    BY <1>1, <1>4
  <2>2. QED
    BY <1>3, <2>1 DEF Successor
<1>9. ASSUME NEW k \in 1 .. e + size - 1
      PROVE  s2[k + 1] = Successor(sizes2, s2[k])
  <2>1. CASE k < e
    <3>1. k \in 1 .. e /\ k + 1 \in 1 .. e /\ k \in 1 .. e - 1
      BY <2>1
    <3>2. QED
      BY <1>1, <1>4, <1>8, <3>1
  <2>2. CASE k = e
    <3>1. k + 1 \in 1 .. e + size /\ k + 1 > e /\ (k + 1) - e - 1 = 0 /\ e > 0 /\ k \in 1 .. e
      BY <2>2
    <3>2. s2[k + 1] = << l + 1, (k + 1) - e - 1 >>
      BY <1>6, <3>1
    <3>3. QED
      BY <1>4, <1>8, <2>2, <3>1, <3>2
  <2>3. CASE k > e
    <3>1. PICK i \in 1 .. size - 1 : i = k - e
      BY <2>3
    <3>2. k + 1 \in 1 .. e + size /\ k + 1 > e /\ k \in 1 .. e + size
      BY <2>3
    <3>3. s2[k + 1] = << l + 1, (k + 1) - e - 1 >> /\ s2[k] = << l + 1, k - e - 1 >>
      BY <1>6, <2>3, <3>2
    <3>4. (k + 1) - e - 1 = i /\ k - e - 1 = i - 1 /\ i < size
      BY <3>1
    <3>5. s2[k + 1] = << l + 1, i >> /\ s2[k] = << l + 1, i - 1 >>
      BY <3>3, <3>4
    <3>6. Successor(sizes2, << l + 1, i - 1 >>) = << l + 1, (i - 1) + 1 >>
      BY <1>3, <3>4 DEF Successor
    <3>7. QED
      BY <3>5, <3>6
  <2>4. QED
    BY <2>1, <2>2, <2>3
<1>10. Successor(sizes2, s2[e + size]) = << l + 2, 0 >>
  <2>1. s2[e + size] = << l + 1, (e + size) - e - 1 >>
    BY <1>6
  <2>2. (e + size) - e - 1 = size - 1
    OBVIOUS
  <2>3. s2[e + size] = << l + 1, size - 1 >>
    BY <2>1, <2>2
  <2>4. QED
    BY <1>3, <2>3 DEF Successor
<1>11. Runs(s2, f, sizes2)
  BY <1>1, <1>3, <1>5, <1>7, <1>9 DEF Runs
<1>12. QED
  BY <1>1, <1>3, <1>10, <1>11 DEF Whole

(* The queue and what has been heard before it are the stream of what was   *)
(* queued; the queue alone may have lost something when a send has failed.  *)
Sound(q, sizes, f, h, lost) ==
  /\ q \in Ring /\ sizes \in Seq(Nat \ {0})
  /\ f \in Nat \ {0} /\ f <= Len(sizes) + 1
  /\ Runs(h, f, sizes)
  /\ lost \/ Whole(Line(h, q), f, sizes)

(* The inductive invariant of the sending side.                             *)
OutInv ==
  /\ heard \in Seq(Byte)
  /\ Sound(sendQ, queued, firstOut, heard, failed)

LEMMA Queued ==
  ASSUME NEW q \in Ring, NEW l \in Nat, NEW size \in Nat \ {0}, NEW h \in Seq(Byte),
         NEW sizes \in Seq(Nat \ {0}), Len(sizes) = l, NEW f, NEW lost,
         Fits(q, Bytes(l + 1, size)), Sound(q, sizes, f, h, lost)
  PROVE  Sound(Enqueue(q, Bytes(l + 1, size)), Append(sizes, size), f, h, lost)
<1>0. FullSize \in Nat /\ FullSize > 1
  BY FullSizeAssumption
<1>1. PICK b \in Seq(Byte) : b = Bytes(l + 1, size)
  BY BytesOf
<1>2. Len(b) = size /\ \A k \in 1 .. size : b[k] = << l + 1, k - 1 >>
  <2>1. PICK m \in Nat : m = l + 1
    OBVIOUS
  <2>2. b = Bytes(m, size)
    BY <1>1, <2>1
  <2>3. Len(b) = size /\ \A k \in 1 .. size : b[k] = << m, k - 1 >>
    BY <2>2, BytesOf
  <2>4. QED
    BY <2>1, <2>3
<1>3. PICK r : r = Enqueue(q, b)
  OBVIOUS
<1>4. PICK u \in 0 .. FullSize - 1 : u = Use(q)
  BY UseAfterMove DEF Use, Ring
<1>5. Len(b) <= Free(q)
  BY <1>0, <1>1, <1>2, <1>4 DEF Fits, Free, Use, GetFreeSize
<1>6. /\ r \in Ring /\ r.out = q.out /\ Use(r) = u + size
      /\ \A k \in 0 .. u - 1 : r.buf[Moved(q.out, k)] = q.buf[Moved(q.out, k)]
      /\ \A k \in 0 .. size - 1 : r.buf[Moved(q.out, u + k)] = b[k + 1]
  <2>1. Follows(q, b, r)
    BY <1>3, <1>5, PutBehind
  <2>2. QED
    BY <1>2, <1>4, <2>1 DEF Follows
<1>7. PICK e \in Nat : e = Len(h)
  BY LenProperties
<1>8. PICK s \in Seq(Byte), s2 \in Seq(Byte) : s = Line(h, q) /\ s2 = Line(h, r)
  BY <1>6, LineOf
<1>9. /\ Len(s) = e + u
      /\ \A j \in 1 .. e : s[j] = h[j]
      /\ \A k \in 1 .. u : s[e + k] = q.buf[Moved(q.out, k - 1)]
  BY <1>4, <1>7, <1>8, LineOf
<1>10. /\ Len(s2) = e + (u + size)
       /\ \A j \in 1 .. e : s2[j] = h[j]
       /\ \A k \in 1 .. u + size : s2[e + k] = r.buf[Moved(q.out, k - 1)]
  <2>1. /\ Len(Line(h, r)) = Len(h) + Use(r)
        /\ \A j \in 1 .. Len(h) : Line(h, r)[j] = h[j]
        /\ \A k \in 1 .. Use(r) : Line(h, r)[Len(h) + k] = r.buf[Moved(r.out, k - 1)]
    BY <1>6, LineOf
  <2>2. QED
    BY <1>6, <1>7, <1>8, <2>1
<1>11. ASSUME NEW k \in 1 .. e + u
       PROVE  s2[k] = s[k]
  <2>1. CASE k <= e
    BY <1>9, <1>10, <2>1
  <2>2. CASE k > e
    <3>1. PICK i \in 1 .. u : i = k - e
      BY <1>4, <2>2
    <3>a. u \in Nat /\ size \in Nat
      BY <1>0
    <3>2. e + i = k /\ i \in 1 .. u + size /\ i - 1 \in 0 .. u - 1
      BY <3>1, <3>a
    <3>3. s2[e + i] = r.buf[Moved(q.out, i - 1)] /\ s[e + i] = q.buf[Moved(q.out, i - 1)]
      BY <1>9, <1>10, <3>2
    <3>4. QED
      BY <1>6, <3>2, <3>3
  <2>3. QED
    BY <1>4, <2>1, <2>2
<1>12. ASSUME NEW k \in 1 .. size
       PROVE  s2[(e + u) + k] = << l + 1, k - 1 >>
  <2>a. u \in Nat /\ size \in Nat /\ k \in Nat /\ k >= 1 /\ k <= size
    BY <1>0
  <2>b. u + k \in 1 .. u + size
    BY <2>a
  <2>1. PICK i \in 1 .. u + size : i = u + k
    BY <2>b
  <2>2. PICK j \in 0 .. size - 1 : j = k - 1
    OBVIOUS
  <2>3. i - 1 = u + j /\ (e + u) + k = e + i /\ j + 1 = k
    BY <2>a, <2>1, <2>2
  <2>4. s2[e + i] = r.buf[Moved(q.out, u + j)]
    BY <1>10, <2>3
  <2>5. r.buf[Moved(q.out, u + j)] = b[k]
    BY <1>6, <2>3
  <2>6. QED
    BY <1>2, <2>3, <2>4, <2>5
<1>13. PICK sizes2 : sizes2 = Append(sizes, size)
  OBVIOUS
<1>14. /\ sizes2 \in Seq(Nat \ {0}) /\ Len(sizes2) = l + 1
       /\ \A a \in 1 .. l : sizes2[a] = sizes[a]
       /\ sizes2[l + 1] = size
  BY <1>13, AppendProperties
<1>15. Runs(h, f, sizes2)
  <2>1. \A k \in 1 .. e : h[k] = h[k]
    OBVIOUS
  <2>2. Runs(h, f, sizes)
    BY DEF Sound
  <2>3. e <= e /\ l <= l + 1 /\ l + 1 \in Nat
    OBVIOUS
  <2>4. QED
    <3>1. FrontKept(h, h, e, e, sizes, sizes2, l, l + 1)
      BY <1>7, <1>14, <2>1, <2>3 DEF FrontKept
    <3>2. QED
      BY <2>2, <2>3, <3>1, FrontRuns
<1>16. ASSUME Whole(s, f, sizes)
       PROVE  Whole(s2, f, sizes2)
  <2>1. PICK d \in Nat : d = e + u
    BY <1>4
  <2>2. Len(s2) = d + size
    BY <1>4, <1>10, <2>1
  <2>3. Longer(s, s2, d, size, l, sizes, sizes2)
    BY <1>9, <1>11, <1>12, <1>14, <2>1, <2>2 DEF Longer
  <2>4. QED
    BY <1>16, <2>3, WholeGrows
<1>17. lost \/ Whole(s2, f, sizes2)
  BY <1>8, <1>16 DEF Sound
<1>18. f \in Nat \ {0} /\ f <= Len(sizes2) + 1
  BY <1>14 DEF Sound
<1>19. Sound(r, sizes2, f, h, lost)
  BY <1>6, <1>8, <1>14, <1>15, <1>17, <1>18 DEF Sound
<1>20. QED
  BY <1>1, <1>3, <1>13, <1>19

(* What is queued for a client, whether it fits or not.                     *)
Fine(d, f, h, lost) ==
  /\ d = [ q |-> d.q, queued |-> d.queued, full |-> d.full ]
  /\ Sound(d.q, d.queued, f, h, lost)

LEMMA UnicastFine ==
  ASSUME NEW d, NEW size \in Nat \ {0}, NEW f, NEW h \in Seq(Byte), NEW lost,
         Fine(d, f, h, lost)
  PROVE  Fine(Unicast(d, size), f, h, lost)
<1>1. PICK q, sizes : q = d.q /\ sizes = d.queued
  OBVIOUS
<1>2. Sound(q, sizes, f, h, lost) /\ d = [ q |-> q, queued |-> sizes, full |-> d.full ]
  BY <1>1 DEF Fine
<1>3. q \in Ring /\ sizes \in Seq(Nat \ {0})
  BY <1>2 DEF Sound
<1>4. PICK l \in Nat : l = Len(sizes)
  BY <1>3, LenProperties
<1>5. CASE Fits(q, Bytes(l + 1, size))
  <2>1. Unicast(d, size) = [ q |-> Enqueue(q, Bytes(l + 1, size)), queued |-> Append(sizes, size),
                             full |-> d.full ]
    BY <1>1, <1>4, <1>5 DEF Unicast
  <2>2. Sound(Enqueue(q, Bytes(l + 1, size)), Append(sizes, size), f, h, lost)
    BY <1>2, <1>3, <1>4, <1>5, Queued
  <2>3. QED
    BY <2>1, <2>2 DEF Fine
<1>6. CASE ~ Fits(q, Bytes(l + 1, size))
  <2>1. Unicast(d, size) = [ d EXCEPT !.full = TRUE ]
    BY <1>1, <1>4, <1>6 DEF Unicast
  <2>2. Unicast(d, size) = [ q |-> q, queued |-> sizes, full |-> TRUE ]
    <3>1. PICK full : full = d.full
      OBVIOUS
    <3>2. d = [ q |-> q, queued |-> sizes, full |-> full ]
      BY <1>2, <3>1
    <3>3. QED
      BY <2>1, <3>2
  <2>3. QED
    BY <1>2, <2>2 DEF Fine
<1>7. QED
  BY <1>5, <1>6

(* The two buffers of WSASend are all that waits, in order.                 *)
LEMMA BuffersOf ==
  ASSUME sendQ \in Ring
  PROVE  /\ Buffers \in Seq(Byte) /\ Len(Buffers) = Use(sendQ)
         /\ \A k \in 1 .. Use(sendQ) : Buffers[k] = sendQ.buf[Moved(sendQ.out, k - 1)]
<1>0. FullSize \in Nat /\ FullSize > 1
  BY FullSizeAssumption
<1>1. PICK in \in Index, out \in Index : in = sendQ.in /\ out = sendQ.out
  BY DEF Ring
<1>2. PICK u \in 0 .. FullSize - 1 : u = Use(sendQ)
  BY <1>1, UseAfterMove DEF Use
<1>3. u = IF in >= out THEN in - out ELSE FullSize - (out - in)
  BY <1>1, <1>2 DEF Use, GetUseSize
<1>4. in \in 0 .. FullSize - 1 /\ out \in 0 .. FullSize - 1
  BY DEF Index
<1>5. PICK c \in Nat : c = IF in >= out THEN in - out ELSE FullSize - out
  <2>1. CASE in >= out
    <3>1. in - out \in Nat
      BY <1>0, <1>4, <2>1
    <3>2. QED
      BY <2>1, <3>1
  <2>2. CASE ~ (in >= out)
    <3>1. FullSize - out \in Nat
      BY <1>0, <1>4
    <3>2. QED
      BY <2>2, <3>1
  <2>3. QED
    BY <2>1, <2>2
<1>6. /\ c <= u /\ out + c <= FullSize
      /\ c < u => out + c = FullSize
  BY <1>0, <1>3, <1>4, <1>5
<1>7. c = DirectDequeueSize(sendQ.in, sendQ.out)
  BY <1>1, <1>5 DEF DirectDequeueSize
<1>8. PICK a, b : /\ a = [ k \in 1 .. c |-> sendQ.buf[out + k - 1] ]
                  /\ b = [ k \in 1 .. u - c |-> sendQ.buf[k - 1] ]
  OBVIOUS
<1>9. Buffers = a \o b
  BY <1>1, <1>2, <1>7, <1>8 DEF Buffers
<1>10. sendQ.buf \in [ Index -> Byte ]
  BY DEF Ring
<1>11. a \in Seq(Byte) /\ Len(a) = c
  <2>1. ASSUME NEW k \in 1 .. c
        PROVE  sendQ.buf[out + k - 1] \in Byte
    <3>1. out + k - 1 \in Index
      BY <1>0, <1>4, <1>6 DEF Index
    <3>2. QED
      BY <1>10, <3>1
  <2>2. QED
    BY <1>8, <2>1, IsASeq
<1>12. b \in Seq(Byte) /\ Len(b) = u - c
  <2>1. ASSUME NEW k \in 1 .. u - c
        PROVE  sendQ.buf[k - 1] \in Byte
    <3>1. k - 1 \in Index
      BY <1>0, <1>2, <1>6 DEF Index
    <3>2. QED
      BY <1>10, <3>1
  <2>2. u - c \in Nat
    BY <1>0, <1>2, <1>6
  <2>3. QED
    BY <1>8, <2>1, <2>2, IsASeq
<1>13. PICK w : w = a \o b
  OBVIOUS
<1>14. /\ w \in Seq(Byte) /\ Len(w) = c + (u - c)
       /\ \A k \in 1 .. c + (u - c) : w[k] = IF k <= c THEN a[k] ELSE b[k - c]
  <2>1. /\ w \in Seq(Byte) /\ Len(w) = Len(a) + Len(b)
        /\ \A k \in 1 .. Len(a) + Len(b) : w[k] = IF k <= Len(a) THEN a[k] ELSE b[k - Len(a)]
    BY <1>11, <1>12, <1>13, ConcatProperties
  <2>2. QED
    BY <1>11, <1>12, <2>1
<1>15. c + (u - c) = u
  BY <1>0, <1>2
<1>16. ASSUME NEW k \in 1 .. u
       PROVE  w[k] = sendQ.buf[Moved(out, k - 1)]
  <2>0. k - 1 \in 0 .. FullSize
    BY <1>0, <1>2
  <2>1. Moved(out, k - 1) = IF out + (k - 1) < FullSize THEN out + (k - 1)
                            ELSE out + (k - 1) - FullSize
    BY <2>0, MovedValue
  <2>2. CASE k <= c
    <3>1. w[k] = a[k] /\ k \in 1 .. c
      BY <1>14, <1>15, <2>2
    <3>2. a[k] = sendQ.buf[out + k - 1]
      BY <1>8, <3>1
    <3>3. Moved(out, k - 1) = out + k - 1
      BY <1>0, <1>4, <1>6, <2>1, <2>2
    <3>4. QED
      BY <3>1, <3>2, <3>3
  <2>3. CASE k > c
    <3>1. PICK i \in 1 .. u - c : i = k - c
      BY <1>0, <1>2, <2>3
    <3>2. w[k] = b[i]
      BY <1>14, <1>15, <2>3, <3>1
    <3>3. b[i] = sendQ.buf[i - 1]
      BY <1>8
    <3>4. Moved(out, k - 1) = i - 1
      <4>1. c < u
        BY <1>2, <2>3
      <4>2. out + c = FullSize
        BY <1>6, <4>1
      <4>3. QED
        BY <1>0, <1>4, <2>1, <2>3, <3>1, <4>2
    <3>5. QED
      BY <3>2, <3>3, <3>4
  <2>4. QED
    BY <2>2, <2>3
<1>17. QED
  BY <1>1, <1>2, <1>9, <1>13, <1>14, <1>15, <1>16

(* What the socket takes has been heard, and the rest still waits.          *)
LEMMA SendSomeOut ==
  ASSUME OutInv, NEW n \in 1 .. Use(sendQ), SendSome(n)
  PROVE  OutInv'
<1>0. FullSize \in Nat /\ FullSize > 1
  BY FullSizeAssumption
<1>1. /\ sendQ \in Ring /\ heard \in Seq(Byte) /\ failed = FALSE
      /\ queued \in Seq(Nat \ {0})
      /\ Sound(sendQ, queued, firstOut, heard, FALSE)
  BY DEF OutInv, Sound, SendSome
<1>2. PICK u \in 0 .. FullSize - 1 : u = Use(sendQ)
  BY <1>1, UseAfterMove DEF Use, Ring
<1>3. PICK e \in Nat : e = Len(heard)
  BY <1>1, LenProperties
<1>4. PICK t \in Seq(Byte) : t = SubSeq(Buffers, 1, n)
  <2>1. PICK b : b = Buffers
    OBVIOUS
  <2>2. b \in Seq(Byte) /\ Len(b) = u
    BY <1>1, <1>2, <2>1, BuffersOf
  <2>3. \A i \in 1 .. n : b[i] \in Byte
    BY <1>2, <2>2, ElementOfSeq
  <2>4. SubSeq(b, 1, n) \in Seq(Byte)
    BY <2>3, SubSeqProperties
  <2>5. QED
    BY <2>1, <2>4
<1>5. Len(t) = n /\ \A k \in 1 .. n : t[k] = sendQ.buf[Moved(sendQ.out, k - 1)]
  <2>1. PICK b : b = Buffers
    OBVIOUS
  <2>2. /\ b \in Seq(Byte) /\ Len(b) = u
        /\ \A k \in 1 .. u : b[k] = sendQ.buf[Moved(sendQ.out, k - 1)]
    BY <1>1, <1>2, <2>1, BuffersOf
  <2>3. \A i \in 1 .. n : b[i] \in Byte
    BY <1>2, <2>2, ElementOfSeq
  <2>4. t = SubSeq(b, 1, n)
    BY <1>4, <2>1
  <2>5. /\ Len(t) = IF 1 <= n THEN n - 1 + 1 ELSE 0
        /\ \A i \in 1 .. n - 1 + 1 : t[i] = b[1 + i - 1]
    BY <2>3, <2>4, SubSeqProperties
  <2>6. Len(t) = n /\ \A i \in 1 .. n : t[i] = b[i]
    BY <2>5
  <2>7. n <= u
    BY <1>2
  <2>8. QED
    BY <2>2, <2>6, <2>7
<1>6. PICK q2, h2 : q2 = MoveOut(sendQ, n) /\ h2 = heard \o t
  OBVIOUS
<1>7. q2 = sendQ' /\ h2 = heard' /\ UNCHANGED << queued, firstOut, failed >>
  BY <1>4, <1>6 DEF SendSome, AfterSend
<1>8. /\ q2 \in Ring /\ q2.buf = sendQ.buf /\ Use(q2) = u - n
      /\ \A k \in Nat : n + k < FullSize => Moved(q2.out, k) = Moved(sendQ.out, n + k)
  <2>1. n \in Nat /\ n <= Use(sendQ)
    BY <1>2
  <2>2. QED
    BY <1>1, <1>2, <1>6, <2>1, TakenInFront
<1>9. /\ h2 \in Seq(Byte) /\ Len(h2) = e + n
      /\ \A j \in 1 .. e + n : h2[j] = IF j <= e THEN heard[j] ELSE t[j - e]
  <2>1. /\ h2 \in Seq(Byte) /\ Len(h2) = Len(heard) + Len(t)
        /\ \A j \in 1 .. Len(heard) + Len(t) :
             h2[j] = IF j <= Len(heard) THEN heard[j] ELSE t[j - Len(heard)]
    BY <1>1, <1>6, ConcatProperties
  <2>2. QED
    BY <1>3, <1>5, <2>1
<1>10. PICK s \in Seq(Byte), s2 \in Seq(Byte) : s = Line(heard, sendQ) /\ s2 = Line(h2, q2)
  BY <1>1, <1>8, <1>9, LineOf
<1>11. /\ Len(s) = e + u
       /\ \A j \in 1 .. e : s[j] = heard[j]
       /\ \A k \in 1 .. u : s[e + k] = sendQ.buf[Moved(sendQ.out, k - 1)]
  BY <1>1, <1>2, <1>3, <1>10, LineOf
<1>12. /\ Len(s2) = (e + n) + (u - n)
       /\ \A j \in 1 .. e + n : s2[j] = h2[j]
       /\ \A k \in 1 .. u - n : s2[(e + n) + k] = q2.buf[Moved(q2.out, k - 1)]
  <2>1. /\ Len(Line(h2, q2)) = Len(h2) + Use(q2)
        /\ \A j \in 1 .. Len(h2) : Line(h2, q2)[j] = h2[j]
        /\ \A k \in 1 .. Use(q2) : Line(h2, q2)[Len(h2) + k] = q2.buf[Moved(q2.out, k - 1)]
    BY <1>8, <1>9, LineOf
  <2>2. QED
    BY <1>8, <1>9, <1>10, <2>1
<1>13. ASSUME NEW j \in 1 .. e + n
       PROVE  h2[j] = s[j]
  <2>1. CASE j <= e
    <3>1. j \in 1 .. e /\ h2[j] = heard[j]
      BY <1>9, <2>1
    <3>2. QED
      BY <1>11, <3>1
  <2>2. CASE j > e
    <3>1. PICK k \in 1 .. n : k = j - e
      BY <2>2
    <3>2. e + k = j /\ k \in 1 .. u
      BY <1>2, <3>1
    <3>3. s[e + k] = sendQ.buf[Moved(sendQ.out, k - 1)]
      BY <1>11, <3>2
    <3>4. h2[j] = t[k]
      BY <1>9, <2>2, <3>1
    <3>5. QED
      BY <1>5, <3>2, <3>3, <3>4
  <2>3. QED
    BY <2>1, <2>2
<1>14. ASSUME NEW j \in 1 .. e + u
       PROVE  s2[j] = s[j]
  <2>1. CASE j <= e + n
    BY <1>12, <1>13, <2>1
  <2>2. CASE j > e + n
    <3>0. u \in Nat /\ n \in Nat /\ n <= u
      BY <1>0, <1>2
    <3>1. PICK k \in 1 .. u - n : k = j - (e + n)
      BY <2>2, <3>0
    <3>2. PICK i \in 1 .. u : i = n + k
      BY <3>0
    <3>3. PICK p \in Nat : p = k - 1
      OBVIOUS
    <3>4. j = (e + n) + k /\ j = e + i /\ i - 1 = n + p /\ n + p < FullSize
      BY <1>0, <1>2, <3>0, <3>1, <3>2, <3>3
    <3>5. s2[j] = q2.buf[Moved(q2.out, p)]
      BY <1>12, <3>3, <3>4
    <3>6. s[j] = sendQ.buf[Moved(sendQ.out, n + p)]
      BY <1>11, <3>4
    <3>7. QED
      BY <1>8, <3>4, <3>5, <3>6
  <2>3. QED
    BY <1>0, <1>2, <2>1, <2>2
<1>15. s2 = s
  <2>1. Len(s2) = e + u
    BY <1>0, <1>2, <1>12
  <2>2. QED
    BY <1>11, <1>14, <2>1, SeqEqual
<1>16. Whole(s2, firstOut, queued)
  BY <1>1, <1>10, <1>15 DEF Sound
<1>17. Runs(h2, firstOut, queued)
  <2>1. PICK l \in Nat : l = Len(queued)
    BY <1>1, LenProperties
  <2>a. u \in Nat /\ n \in Nat /\ n <= u
    BY <1>0, <1>2
  <2>2. PICK d \in Nat, d2 \in Nat : d = e + n /\ d2 = e + u /\ d <= d2
    BY <2>a
  <2>3. Runs(s, firstOut, queued)
    BY <1>15, <1>16 DEF Whole
  <2>4. Len(h2) = d /\ Len(s) = d2 /\ \A k \in 1 .. d : h2[k] = s[k]
    BY <1>9, <1>11, <1>13, <2>2
  <2>5. l <= l /\ \A a \in 1 .. l : queued[a] = queued[a]
    OBVIOUS
  <2>6. QED
    <3>1. FrontKept(s, h2, d2, d, queued, queued, l, l)
      BY <2>1, <2>2, <2>4, <2>5 DEF FrontKept
    <3>2. QED
      BY <2>3, <3>1, FrontRuns
<1>18. Sound(q2, queued, firstOut, h2, failed)
  BY <1>1, <1>8, <1>10, <1>16, <1>17 DEF Sound
<1>19. QED
  BY <1>7, <1>9, <1>18 DEF OutInv

LEMMA OutInit == Init => OutInv
<1>1. SUFFICES ASSUME Init PROVE OutInv
  OBVIOUS
<1>2. 0 \in Index /\ Blank \in Byte
  BY FullSizeAssumption DEF Index, Blank, Byte
<1>3. sendQ \in Ring /\ Use(sendQ) = 0
  BY <1>1, <1>2 DEF Init, Empty, Ring, Use, GetUseSize
<1>4. queued = << >> /\ firstOut = 1 /\ heard = << >>
  BY <1>1 DEF Init
<1>5. heard \in Seq(Byte) /\ Len(heard) = 0 /\ queued \in Seq(Nat \ {0}) /\ Len(queued) = 0
  BY <1>4
<1>6. Len(Line(heard, sendQ)) = 0
  <2>1. Len(Line(heard, sendQ)) = Len(heard) + Use(sendQ)
    BY <1>3, <1>5, LineOf
  <2>2. QED
    BY <1>3, <1>5, <2>1
<1>7. Whole(Line(heard, sendQ), firstOut, queued) /\ Runs(heard, firstOut, queued)
  BY <1>4, <1>5, <1>6 DEF Whole, Runs
<1>8. QED
  BY <1>3, <1>4, <1>5, <1>7 DEF OutInv, Sound

LEMMA QueueOut ==
  ASSUME OutInv, NEW done, Fine(done, firstOut, heard, failed), Queue(done),
         UNCHANGED << firstOut, heard, failed >>
  PROVE  OutInv'
<1>1. PICK q, sizes : q = done.q /\ sizes = done.queued
  OBVIOUS
<1>2. Sound(q, sizes, firstOut, heard, failed)
  BY <1>1 DEF Fine
<1>3. sendQ' = q /\ queued' = sizes
  BY <1>1 DEF Queue
<1>4. QED
  BY <1>2, <1>3 DEF OutInv

LEMMA NowFine ==
  ASSUME OutInv
  PROVE  Fine(Now, firstOut, heard, failed)
BY DEF OutInv, Fine, Now

(* After a failed send the queue may have lost bytes; nothing more is sent. *)
LEMMA SendFailsOut ==
  ASSUME OutInv, SendFails
  PROVE  OutInv'
<1>0. FullSize \in Nat /\ FullSize > 1
  BY FullSizeAssumption
<1>1. PICK n \in Index : sendQ' = MoveOut(sendQ, n)
  BY DEF SendFails
<1>2. sendQ \in Ring
  BY DEF OutInv, Sound
<1>3. PICK q : q = MoveOut(sendQ, n)
  OBVIOUS
<1>4. q \in Ring
  <2>1. n \in 0 .. FullSize /\ sendQ.out \in Index
    BY <1>0, <1>2 DEF Index, Ring
  <2>2. Moved(sendQ.out, n) \in Index
    BY <2>1, MovedValue
  <2>3. QED
    BY <1>2, <1>3, <2>2 DEF MoveOut, Ring
<1>5. Sound(q, queued, firstOut, heard, TRUE)
  BY <1>4 DEF OutInv, Sound
<1>6. sendQ' = q /\ failed' = TRUE /\ UNCHANGED << queued, firstOut, heard >>
  BY <1>1, <1>3 DEF SendFails
<1>7. QED
  BY <1>5, <1>6 DEF OutInv

(* On the next connection nothing is queued and nothing heard.              *)
LEMMA ReuseOut ==
  ASSUME OutInv, Reuse
  PROVE  OutInv'
<1>1. sendQ \in Ring /\ queued \in Seq(Nat \ {0})
  BY DEF OutInv, Sound
<1>2. PICK l \in Nat : l = Len(queued)
  BY <1>1, LenProperties
<1>3. PICK q : q = [ buf |-> sendQ.buf, in |-> 0, out |-> 0 ]
  OBVIOUS
<1>4. 0 \in Index
  BY FullSizeAssumption DEF Index
<1>5. q \in Ring /\ Use(q) = 0
  BY <1>1, <1>3, <1>4 DEF Ring, Use, GetUseSize
<1>6. PICK h : h = << >>
  OBVIOUS
<1>7. h \in Seq(Byte) /\ Len(h) = 0
  BY <1>6
<1>8. Len(Line(h, q)) = 0
  <2>1. Len(Line(h, q)) = Len(h) + Use(q)
    BY <1>5, <1>7, LineOf
  <2>2. QED
    BY <1>5, <1>7, <2>1
<1>9. Whole(Line(h, q), l + 1, queued) /\ Runs(h, l + 1, queued)
  BY <1>2, <1>7, <1>8 DEF Whole, Runs
<1>10. Sound(q, queued, l + 1, h, FALSE)
  BY <1>1, <1>2, <1>5, <1>9 DEF Sound
<1>11. sendQ' = q /\ queued' = queued /\ firstOut' = l + 1 /\ heard' = h /\ failed' = FALSE
  BY <1>2, <1>3, <1>6 DEF Reuse, Cleared
<1>12. QED
  BY <1>7, <1>10, <1>11 DEF OutInv

LEMMA OutUnchanged ==
  ASSUME OutInv, UNCHANGED << outVars, failed >>
  PROVE  OutInv'
BY DEF OutInv, outVars

(* Runs and Whole say of the variables what InStream and NothingSkipped do. *)
LEMMA RunsInStream ==
  ASSUME NEW s \in Seq(Byte), queued \in Seq(Nat \ {0}), Runs(s, firstOut, queued)
  PROVE  InStream(s)
<1>1. DOMAIN s = 1 .. Len(s) /\ DOMAIN queued = 1 .. Len(queued)
  BY LenProperties
<1>2. s # << >> => Len(s) > 0
  BY EmptySeq, LenProperties
<1>3. \A b : After(b) = Successor(queued, b)
  BY DEF After, Successor
<1>4. QED
  BY <1>1, <1>2, <1>3 DEF Runs, InStream

LEMMA OutMeansHeard ==
  ASSUME OutInv
  PROVE  HeardAsQueued
<1>1. /\ heard \in Seq(Byte) /\ queued \in Seq(Nat \ {0}) /\ sendQ \in Ring
      /\ Runs(heard, firstOut, queued)
  BY DEF OutInv, Sound
<1>2. InStream(heard)
  BY <1>1, RunsInStream
<1>3. ASSUME ~ failed
      PROVE  NothingSkipped
  <2>1. PICK s : s = Line(heard, sendQ)
    OBVIOUS
  <2>2. s \in Seq(Byte) /\ Whole(s, firstOut, queued)
    BY <1>1, <1>3, <2>1, LineOf DEF OutInv, Sound
  <2>3. InStream(s)
    BY <1>1, <2>2, RunsInStream DEF Whole
  <2>4. (s = << >>) <=> Len(s) = 0
    BY <2>2, EmptySeq
  <2>5. Len(s) \in Nat
    BY <2>2, LenProperties
  <2>6. IF s = << >> THEN firstOut = Len(queued) + 1
                     ELSE After(s[Len(s)]) = << Len(queued) + 1, 0 >>
    BY <2>2, <2>4, <2>5 DEF Whole, After, Successor
  <2>7. QED
    BY <2>1, <2>3, <2>6 DEF NothingSkipped, Line
<1>4. QED
  BY <1>2, <1>3 DEF HeardAsQueued

(* What the client receives is the stream of the messages queued for it,    *)
(* each whole and none skipped, for rings and messages of every size, until *)
(* a send fails.                                                            *)
THEOREM HeardIsAsQueued == Spec => []HeardAsQueued
<1>1. Init => OutInv
  BY OutInit
<1>2. ASSUME OutInv, [Next]_vars
      PROVE  OutInv'
  <2>1. heard \in Seq(Byte)
    BY <1>2 DEF OutInv
  <2>2. ASSUME NEW d, Fine(d, firstOut, heard, failed), NEW size \in Replies
        PROVE  Fine(Unicast(d, size), firstOut, heard, failed)
    <3>1. size \in Nat \ {0}
      BY SessionAssumption
    <3>2. QED
      BY <2>1, <2>2, <3>1, UnicastFine
  <2>3. Fine(Now, firstOut, heard, failed)
    BY <1>2, NowFine
  <2>4. ASSUME NEW size \in Payloads, ClientSends(size)
        PROVE  OutInv'
    BY <1>2, <2>4, OutUnchanged DEF ClientSends
  <2>5. ASSUME NEW n, Receive(n)
        PROVE  OutInv'
    BY <1>2, <2>5, OutUnchanged DEF Receive
  <2>6. CASE ReceiveEnd
    BY <1>2, <2>6, OutUnchanged DEF ReceiveEnd
  <2>7. CASE ProcEnd
    BY <1>2, <2>7, OutUnchanged DEF ProcEnd
  <2>8. CASE ProcStop
    BY <1>2, <2>8, OutUnchanged DEF ProcStop, Stop
  <2>9. ASSUME NEW size \in Replies, NEW size2 \in Replies, NEW ok,
               NEW done \in { Now, Unicast(Now, size), Unicast(Unicast(Now, size), size2) },
               Proc(done, ok)
        PROVE  OutInv'
    <3>1. Fine(done, firstOut, heard, failed)
      BY <2>2, <2>3
    <3>2. Queue(done) /\ UNCHANGED << firstOut, heard, failed >>
      BY <2>9 DEF Proc
    <3>3. QED
      BY <1>2, <3>1, <3>2, QueueOut
  <2>10. ASSUME NEW size \in Replies, Broadcast(Unicast(Now, size))
         PROVE  OutInv'
    <3>1. Fine(Unicast(Now, size), firstOut, heard, failed)
      BY <2>2, <2>3
    <3>2. Queue(Unicast(Now, size)) /\ UNCHANGED << firstOut, heard, failed >>
      BY <2>10 DEF Broadcast
    <3>3. QED
      BY <1>2, <3>1, <3>2, QueueOut
  <2>11. ASSUME NEW n \in 1 .. Use(sendQ), SendSome(n)
         PROVE  OutInv'
    BY <1>2, <2>11, SendSomeOut
  <2>12. CASE SendFails
    BY <1>2, <2>12, SendFailsOut
  <2>13. CASE Reuse
    BY <1>2, <2>13, ReuseOut
  <2>14. CASE UNCHANGED vars
    BY <1>2, <2>14, OutUnchanged DEF vars
  <2>15. QED
    BY <1>2, <2>4, <2>5, <2>6, <2>7, <2>8, <2>9, <2>10, <2>11, <2>12, <2>13, <2>14 DEF Next
<1>3. OutInv => HeardAsQueued
  BY OutMeansHeard
<1>4. QED
  BY <1>1, <1>2, <1>3, PTL DEF Spec

-----------------------------------------------------------------------------
(***************************************************************************)
(* Frames                                                                  *)
(***************************************************************************)

(* A number is its quotient and its remainder, and no others.              *)
LEMMA Divides ==
  ASSUME NEW d \in Nat \ {0}, NEW a \in Int
  PROVE  /\ a \div d \in Int
         /\ a % d \in 0 .. d - 1
         /\ a = (a \div d) * d + (a % d)
OBVIOUS

LEMMA Remainder ==
  ASSUME NEW d \in Nat \ {0}, NEW q \in Int, NEW r \in 0 .. d - 1
  PROVE  (q * d + r) % d = r /\ (q * d + r) \div d = q
OBVIOUS

(* A remainder in a sum stands for the number itself.                      *)
LEMMA RemainderOfSum ==
  ASSUME NEW d \in Nat \ {0}, NEW a \in Int, NEW b \in Int
  PROVE  ((a % d) + b) % d = (a + b) % d
<1> DEFINE q == a \div d
           r == a % d
           p == (r + b) \div d
           s == (r + b) % d
<1>1. q \in Int /\ r \in 0 .. d - 1 /\ a = q * d + r
  BY Divides
<1>2. p \in Int /\ s \in 0 .. d - 1 /\ r + b = p * d + s
  BY <1>1, Divides
<1> HIDE DEF q, r, p, s
<1>3. a + b = q * d + (r + b)
  BY <1>1
<1>4. q * d + p * d = (q + p) * d
  BY <1>1, <1>2
<1>5. PICK k \in Int : k = q + p
  BY <1>1, <1>2
<1>6. a + b = k * d + s
  BY <1>1, <1>2, <1>3, <1>4, <1>5
<1>7. (k * d + s) % d = s
  BY <1>2, Remainder
<1>8. QED
  BY <1>6, <1>7 DEF r, s

(* The instant t, as the clock shows it.                                   *)
Shown(t) == (boot + t) % Word

(* What time passes on the clock between two instants less than Word apart.*)
LEMMA Elapsed ==
  ASSUME boot \in Nat, NEW s \in Nat, NEW t \in Nat, s <= t, t - s < Word
  PROVE  (Shown(t) - Shown(s)) % Word = t - s
<1>0. Word \in Nat \ {0}
  BY ClockAssumption
<1>1. PICK a \in Int, b \in Int, d \in Int : a = boot + s /\ b = boot + t /\ d = t - s
  OBVIOUS
<1>2. PICK q \in Int, r \in 0 .. Word - 1 : r = a % Word /\ a = q * Word + r
  BY <1>0, Divides
<1>3. PICK n \in Int : n = - r
  BY <1>0
<1>4. ((b % Word) + n) % Word = (b + n) % Word
  BY <1>0, RemainderOfSum
<1>5. b + n = q * Word + d /\ d \in 0 .. Word - 1
  <2>1. PICK m \in Int : m = q * Word
    BY <1>0
  <2>2. b + n = m + d
    BY <1>1, <1>2, <1>3, <2>1
  <2>3. QED
    BY <1>0, <1>1, <2>1, <2>2
<1>6. (q * Word + d) % Word = d
  BY <1>0, <1>5, Remainder
<1>7. (b % Word) - r = (b % Word) + n
  BY <1>0, <1>3
<1>8. QED
  BY <1>1, <1>2, <1>4, <1>5, <1>6, <1>7 DEF Shown

(* The clock and who was heard when; the last frame is where the grid says.*)
ClockOK ==
  /\ boot \in 0 .. Word - 1 /\ now \in Nat
  /\ framed \in 0 .. now /\ heardAt \in 0 .. now
  /\ last = Shown(heardAt)
  /\ framed < Word => start = Shown(framed - (framed % Tick))

(* A char is what is left of the hit points, whatever wrapped around.      *)
HitsOK ==
  /\ hits \in Nat /\ taken \in 0 .. hits
  /\ hp = Clock!Char(FullHP - hits)
  /\ 0 \notin given

LEMMA ClockStarts == Clock!Init => ClockOK /\ HitsOK
<1> SUFFICES ASSUME Clock!Init PROVE ClockOK /\ HitsOK
  OBVIOUS
<1>1. /\ Word \in Nat \ {0} /\ Tick \in Nat \ {0}
      /\ Half \in Nat \ {0} /\ FullHP \in 1 .. Half - 1
  BY ClockAssumption
<1>2. boot \in 0 .. Word - 1
  BY DEF Clock!Init
<1>3. Shown(0) = boot
  BY <1>1, <1>2 DEF Shown
<1>4. 0 % Tick = 0
  BY <1>1
<1>5. Clock!Char(FullHP) = FullHP
  BY <1>1 DEF Clock!Char
<1>6. QED
  BY <1>1, <1>2, <1>3, <1>4, <1>5 DEF Clock!Init, ClockOK, HitsOK

(* A frame begins where its cell of the grid does.                         *)
LEMMA NextOnGrid ==
  ASSUME boot \in 0 .. Word - 1, now \in Nat, now < Word
  PROVE  Clock!NextStart = Shown(now - (now % Tick))
<1>0. Word \in Nat \ {0} /\ Tick \in Nat \ {0}
  BY ClockAssumption
<1>1. Shown(0) = boot /\ Clock!timeGetTime = Shown(now)
  BY <1>0 DEF Shown, Clock!timeGetTime
<1>2. (Shown(now) - Shown(0)) % Word = now
  <2>1. 0 \in Nat /\ 0 <= now /\ now - 0 < Word /\ now - 0 = now
    OBVIOUS
  <2>2. boot \in Nat
    BY <1>0
  <2>3. QED
    BY <2>1, <2>2, Elapsed
<1>3. PICK a \in Int, n \in Int : a = boot + now /\ n = - (now % Tick)
  BY <1>0
<1>4. ((a % Word) + n) % Word = (a + n) % Word
  BY <1>0, RemainderOfSum
<1>5. now % Tick \in Int
  BY <1>0
<1>6. Clock!NextStart = (Shown(now) - (now % Tick)) % Word
  BY <1>1, <1>2 DEF Clock!NextStart
<1>7. Shown(now) - (now % Tick) = (a % Word) + n
  BY <1>0, <1>3, <1>5 DEF Shown
<1>8. boot + (now - (now % Tick)) = a + n
  BY <1>0, <1>3, <1>5
<1>9. QED
  BY <1>4, <1>6, <1>7, <1>8 DEF Shown

(* The limit of the listening session is the last number there is.         *)
LEMMA ListenerIsKept ==
  ASSUME boot \in 0 .. Word - 1, now \in Nat
  PROVE  ~ Clock!Overdue(0)
<1>0. Word \in Nat \ {0} /\ Silence \in 0 .. Word - 1
  BY ClockAssumption
<1>1. Clock!timeGetTime \in 0 .. Word - 1
  BY <1>0, Divides DEF Clock!timeGetTime
<1>2. Word - 1 - Silence + Silence = Word - 1
  BY <1>0
<1>3. (Word - 1) % Word = Word - 1
  BY <1>0
<1>4. QED
  BY <1>0, <1>1, <1>2, <1>3 DEF Clock!Overdue, Clock!Since

LEMMA ClockStep ==
  ASSUME ClockOK, HitsOK, [Clock!Next]_Clock!vars
  PROVE  ClockOK' /\ HitsOK'
<1>0. /\ Word \in Nat \ {0} /\ Tick \in Nat \ {0} /\ Silence \in 0 .. Word - 1
      /\ Half \in Nat \ {0} /\ FullHP \in 1 .. Half - 1 /\ Blows \subseteq Nat
  BY ClockAssumption
<1>1. CASE UNCHANGED Clock!vars
  BY <1>1 DEF Clock!vars, ClockOK, HitsOK, Shown
<1>2. CASE Clock!Pass
  BY <1>2 DEF Clock!Pass, ClockOK, HitsOK, Shown
<1>3. CASE Clock!Receive
  BY <1>3 DEF Clock!Receive, Clock!timeGetTime, ClockOK, HitsOK, Shown
<1>4. ASSUME NEW d \in Blows, Clock!Attack(d) PROVE ClockOK' /\ HitsOK'
  <2>1. ClockOK'
    BY <1>4 DEF Clock!Attack, ClockOK, Shown
  <2>2. /\ d \in Nat /\ hits \in Nat /\ taken \in 0 .. hits
        /\ hits' = hits + d /\ taken' = taken + d /\ given' = given
        /\ hp' = Clock!Char(hp - d)
    BY <1>0, <1>4 DEF Clock!Attack, HitsOK
  <2>3. Clock!Char(hp - d) = Clock!Char(FullHP - (hits + d))
    <3>1. PICK a \in Int, w \in Nat \ {0}, n \in Int :
            a = FullHP - hits + Half /\ w = 2 * Half /\ n = - d
      BY <1>0, <2>2
    <3>2. ((a % w) + n) % w = (a + n) % w
      BY <3>1, RemainderOfSum
    <3>3. hp = (a % w) - Half
      BY <1>0, <2>2, <3>1 DEF HitsOK, Clock!Char
    <3>4. a % w \in Int
      BY <3>1
    <3>5. hp - d + Half = (a % w) + n
      BY <1>0, <2>2, <3>1, <3>3, <3>4
    <3>6. FullHP - (hits + d) + Half = a + n
      BY <1>0, <2>2, <3>1
    <3>7. QED
      BY <3>1, <3>2, <3>5, <3>6 DEF Clock!Char
  <2>4. HitsOK'
    BY <2>2, <2>3 DEF HitsOK, Clock!Char
  <2>5. QED
    BY <2>1, <2>4
<1>5. CASE Clock!Frame
  <2>1. HitsOK'
    <3>1. ~ Clock!Overdue(0)
      BY ListenerIsKept DEF ClockOK
    <3>2. 0 \notin given' /\ hits' = hits /\ hp' = hp /\ taken' = 0
      BY <1>5, <3>1 DEF Clock!Frame, HitsOK
    <3>3. QED
      BY <3>2 DEF HitsOK, Clock!Char
  <2>2. now < Word => start' = Shown(now - (now % Tick))
    BY <1>5, NextOnGrid DEF Clock!Frame, ClockOK
  <2>3. QED
    BY <1>5, <2>1, <2>2 DEF Clock!Frame, ClockOK, Shown
<1>6. QED
  BY <1>1, <1>2, <1>3, <1>4, <1>5 DEF Clock!Next

THEOREM ClockInvariance == Clock!Spec => [](ClockOK /\ HitsOK)
<1>1. (ClockOK /\ HitsOK) /\ [Clock!Next]_Clock!vars => (ClockOK /\ HitsOK)'
  BY ClockStep
<1>2. QED
  BY <1>1, ClockStarts, PTL DEF Clock!Spec

(* A frame ends in a later cell of the grid than the one before, unless    *)
(* the clock has run over.                                                 *)
LEMMA FramesApart ==
  ASSUME ClockOK, HitsOK, [Clock!Next]_Clock!vars,
         framed' # framed \/ taken' < taken, now < Word
  PROVE  now \div Tick > framed \div Tick
<1>0. Word \in Nat \ {0} /\ Tick \in Nat \ {0} /\ Blows \subseteq Nat
  BY ClockAssumption
<1>1. Clock!Frame
  BY <1>0 DEF Clock!Next, Clock!vars, Clock!Pass, Clock!Receive, Clock!Attack, HitsOK
<1>2. PICK q \in Int, r \in 0 .. Tick - 1 :
        q = framed \div Tick /\ r = framed % Tick /\ framed = q * Tick + r
  <2>1. framed \in Int
    BY DEF ClockOK
  <2>2. QED
    BY <1>0, <2>1, Divides
<1>3. PICK p \in Int, s \in 0 .. Tick - 1 :
        p = now \div Tick /\ s = now % Tick /\ now = p * Tick + s
  <2>1. now \in Int
    BY DEF ClockOK
  <2>2. QED
    BY <1>0, <2>1, Divides
<1>4. PICK a \in Int : a = framed - r
  BY <1>0, <1>2 DEF ClockOK
<1>5. a \in Nat /\ a <= now /\ now - a < Word
  BY <1>0, <1>2, <1>4 DEF ClockOK
<1>6. start = Shown(a) /\ Clock!timeGetTime = Shown(now)
  <2>1. framed < Word
    BY <1>0 DEF ClockOK
  <2>2. framed - (framed % Tick) = a
    BY <1>2, <1>4
  <2>3. QED
    BY <2>1, <2>2 DEF ClockOK, Shown, Clock!timeGetTime
<1>7. (Shown(now) - Shown(a)) % Word = now - a
  BY <1>5, Elapsed DEF ClockOK
<1>8. now - a >= Tick
  BY <1>1, <1>6, <1>7 DEF Clock!Frame
<1>9. p > q
  BY <1>0, <1>2, <1>3, <1>4, <1>8
<1>10. QED
  BY <1>2, <1>3, <1>9

(* The frame clock of main (main.cpp:108-114): missed frames are not made  *)
(* up for, whatever the length of a frame and the width of the clock.      *)
THEOREM FramesLieApart == Clock!Spec => OneFramePerCell
<1>1. ClockOK /\ HitsOK /\ [Clock!Next]_Clock!vars =>
        [framed' # framed \/ taken' < taken =>
           \/ now \div Tick > framed \div Tick
           \/ now >= Word]_Clock!vars
  BY FramesApart, ClockAssumption DEF ClockOK
<1>2. QED
  BY <1>1, ClockInvariance, PTL DEF Clock!Spec, OneFramePerCell, Clock!OneFramePerCell

(* How long ago the last message was, on a clock that has not run over     *)
(* since.                                                                  *)
LEMMA SinceHeard ==
  ASSUME ClockOK
  PROVE  /\ last + (now - heardAt) < Word => Clock!timeGetTime = last + (now - heardAt)
         /\ (boot + heardAt) \div Word = (boot + now) \div Word
              => Clock!timeGetTime = last + (now - heardAt)
         /\ last \in 0 .. Word - 1 /\ Clock!timeGetTime \in 0 .. Word - 1
         /\ (boot + heardAt) \div Word <= (boot + now) \div Word
<1>0. Word \in Nat \ {0}
  BY ClockAssumption
<1>1. PICK a \in Int, b \in Int, d \in Nat :
        a = boot + heardAt /\ b = boot + now /\ d = now - heardAt /\ b = a + d
  BY <1>0 DEF ClockOK
<1>2. PICK q \in Int, r \in 0 .. Word - 1 :
        q = a \div Word /\ r = a % Word /\ a = q * Word + r
  BY <1>0, Divides
<1>3. PICK p \in Int, s \in 0 .. Word - 1 :
        p = b \div Word /\ s = b % Word /\ b = p * Word + s
  BY <1>0, Divides
<1>4. last = r /\ Clock!timeGetTime = s
  BY <1>1, <1>2, <1>3 DEF ClockOK, Shown, Clock!timeGetTime
<1>5. ASSUME r + d < Word PROVE s = r + d
  <2>1. PICK m \in Int : m = q * Word
    BY <1>0
  <2>2. PICK e \in 0 .. Word - 1 : e = r + d /\ b = m + e
    BY <1>0, <1>1, <1>2, <1>5, <2>1
  <2>3. (q * Word + e) % Word = e
    BY <1>0, Remainder
  <2>4. QED
    BY <1>3, <2>1, <2>2, <2>3
<1>6. p = q => s = r + d
  <2>1. PICK m \in Int : m = q * Word
    BY <1>0
  <2>2. a = m + r /\ (p = q => b = m + s)
    BY <1>2, <1>3, <2>1
  <2>3. QED
    BY <1>0, <1>1, <2>1, <2>2
<1>7. q <= p
  <2>1. SUFFICES ASSUME p < q PROVE FALSE
    OBVIOUS
  <2>2. PICK k \in Nat : q = p + 1 + k
    BY <2>1
  <2>3. PICK m \in Int, n \in Nat : m = p * Word /\ n = k * Word
    BY <1>0
  <2>4. q * Word = m + Word + n
    BY <1>0, <2>2, <2>3
  <2>5. b = m + s /\ a = m + Word + n + r
    BY <1>2, <1>3, <2>3, <2>4
  <2>6. QED
    BY <1>0, <1>1, <2>3, <2>5
<1>8. QED
  BY <1>1, <1>2, <1>3, <1>4, <1>5, <1>6, <1>7

(* What a frame finds on its list.                                         *)
LEMMA FrameLists ==
  ASSUME ClockOK, HitsOK, Clock!Frame
  PROVE  /\ 0 \notin given'
         /\ 1 \in given' <=> 1 \in given \/ Clock!Overdue(1) \/ hp <= 0
BY ListenerIsKept DEF Clock!Frame, Clock!Dead, ClockOK, HitsOK

(* Only a frame lists anybody.                                             *)
LEMMA OthersList ==
  ASSUME [Clock!Next]_Clock!vars
  PROVE  Clock!Frame \/ (given' = given /\ framed' = framed)
BY DEF Clock!Next, Clock!vars, Clock!Pass, Clock!Receive, Clock!Attack

(* The char is the number itself while it is in the char's range.          *)
LEMMA CharIsNumber ==
  ASSUME HitsOK, FullHP - hits >= - Half
  PROVE  hp = FullHP - hits
<1>0. Half \in Nat \ {0} /\ FullHP \in 1 .. Half - 1 /\ hits \in Nat
  BY ClockAssumption DEF HitsOK
<1>1. PICK a \in Nat, w \in Nat : a = FullHP - hits + Half /\ w = 2 * Half /\ a < w
  BY <1>0
<1>2. a % w = a
  BY <1>1
<1>3. QED
  BY <1>0, <1>1, <1>2 DEF HitsOK, Clock!Char

LEMMA AliveWhileUnhurt ==
  ASSUME HitsOK
  PROVE  hp <= 0 => hits >= FullHP
BY CharIsNumber, ClockAssumption DEF HitsOK

LEMMA KeptStep ==
  ASSUME ClockOK, HitsOK, [Clock!Next]_Clock!vars
  PROVE  /\ 0 \notin given'
         /\ 1 \in given' \ given =>
              now - heardAt > Silence \/ last + Silence >= Word \/ hits >= FullHP
<1>0. /\ Word \in Nat \ {0} /\ Silence \in 0 .. Word - 1
      /\ Half \in Nat \ {0} /\ FullHP \in 1 .. Half - 1
  BY ClockAssumption
<1>1. CASE given' = given
  BY <1>1 DEF HitsOK
<1>2. CASE Clock!Frame
  <2>1. 0 \notin given'
    BY <1>2, FrameLists
  <2>2. ASSUME Clock!Overdue(1), now - heardAt <= Silence, last + Silence < Word
        PROVE  FALSE
    <3>1. last \in 0 .. Word - 1 /\ now - heardAt \in Int
      BY SinceHeard DEF ClockOK
    <3>2. Clock!timeGetTime = last + (now - heardAt)
      BY <1>0, <2>2, <3>1, SinceHeard
    <3>3. (last + Silence) % Word = last + Silence
      BY <1>0, <2>2, <3>1
    <3>4. QED
      BY <1>0, <2>2, <3>1, <3>2, <3>3 DEF Clock!Overdue, Clock!Since
  <2>3. hp <= 0 => hits >= FullHP
    BY <1>0, AliveWhileUnhurt
  <2>4. QED
    <3>1. 1 \in given' \ given => Clock!Overdue(1) \/ hp <= 0
      BY <1>2, FrameLists
    <3>2. now - heardAt \in Int /\ last + Silence \in Int
      BY <1>0, SinceHeard DEF ClockOK
    <3>3. QED
      BY <1>0, <2>1, <2>2, <2>3, <3>1, <3>2
<1>3. QED
  BY <1>1, <1>2, OthersList

LEMMA SilentStep ==
  ASSUME ClockOK, HitsOK, [Clock!Next]_Clock!vars, framed' # framed
  PROVE  \/ 1 \in given'
         \/ now - heardAt <= Silence
         \/ (boot + heardAt) \div Word < (boot + now) \div Word
<1>0. Word \in Nat \ {0} /\ Silence \in 0 .. Word - 1
  BY ClockAssumption
<1>1. SUFFICES ASSUME now - heardAt > Silence,
                      ~ ((boot + heardAt) \div Word < (boot + now) \div Word)
               PROVE  Clock!Overdue(1)
  BY OthersList, FrameLists, <1>0 DEF ClockOK
<1>2. Clock!timeGetTime = last + (now - heardAt) /\ Clock!timeGetTime \in 0 .. Word - 1
  <2>1. (boot + heardAt) \div Word \in Int /\ (boot + now) \div Word \in Int
    BY <1>0 DEF ClockOK
  <2>2. QED
    BY <1>1, <2>1, SinceHeard
<1>3. last \in 0 .. Word - 1 /\ now - heardAt \in Int
  BY SinceHeard DEF ClockOK
<1>4. (last + Silence) % Word = last + Silence
  BY <1>0, <1>1, <1>2, <1>3
<1>5. QED
  BY <1>0, <1>1, <1>2, <1>3, <1>4 DEF Clock!Overdue, Clock!Since

LEMMA DeadStep ==
  ASSUME ClockOK, HitsOK, [Clock!Next]_Clock!vars, framed' # framed,
         hits - taken < FullHP, taken <= Half, hits >= FullHP
  PROVE  1 \in given'
<1>0. Half \in Nat \ {0} /\ FullHP \in 1 .. Half - 1 /\ hits \in Nat /\ taken \in Nat
  BY ClockAssumption DEF HitsOK
<1>1. hp = FullHP - hits
  BY <1>0, CharIsNumber
<1>2. QED
  BY <1>0, <1>1, OthersList, FrameLists

(* netHeartbeat and Update (Session.cpp:1233, 274; Player.h:32): a session *)
(* is given up for silence, or for the loss of its hit points, when the    *)
(* clock and the char let it see that, and for nothing else.               *)
THEOREM GivingUpIsRight == Clock!Spec => GivenUpRightly
<1>1. ClockOK /\ HitsOK /\ [Clock!Next]_Clock!vars =>
        [/\ 0 \notin given'
         /\ 1 \in given' \ given =>
              now - heardAt > Silence \/ last + Silence >= Word \/ hits >= FullHP]_Clock!vars
  BY KeptStep
<1>2. ClockOK /\ HitsOK /\ [Clock!Next]_Clock!vars =>
        [framed' # framed =>
           \/ 1 \in given'
           \/ now - heardAt <= Silence
           \/ (boot + heardAt) \div Word < (boot + now) \div Word]_Clock!vars
  BY SilentStep
<1>3. ClockOK /\ HitsOK /\ [Clock!Next]_Clock!vars =>
        [framed' # framed /\ hits - taken < FullHP /\ taken <= Half /\ hits >= FullHP =>
           1 \in given']_Clock!vars
  BY DeadStep
<1>4. QED
  BY <1>1, <1>2, <1>3, ClockInvariance, PTL
    DEF Clock!Spec, GivenUpRightly, Clock!HeardIsKept, Clock!SilentIsListed,
        Clock!DeadIsListed

-----------------------------------------------------------------------------
(***************************************************************************)
(* EarlyServer                                                             *)
(***************************************************************************)

(* Joining two sequences without repetitions that have no element in       *)
(* common.                                                                 *)
LEMMA Joined ==
  ASSUME NEW S, NEW q \in Seq(S), NEW r \in Seq(S),
         IsInjective(q), IsInjective(r), ToSet(q) \cap ToSet(r) = {}
  PROVE  /\ q \o r \in Seq(S)
         /\ ToSet(q \o r) = ToSet(q) \cup ToSet(r)
         /\ IsInjective(q \o r)
         /\ Len(q) <= Len(q \o r)
         /\ \A k \in 1 .. Len(q) : (q \o r)[k] = q[k]
<1> DEFINE m == Len(q)
           n == Len(r)
           c == q \o r
<1>1. /\ m \in Nat /\ n \in Nat
      /\ c \in Seq(S)
      /\ Len(c) = m + n
      /\ DOMAIN q = 1 .. m /\ DOMAIN r = 1 .. n /\ DOMAIN c = 1 .. m + n
      /\ \A i \in 1 .. m + n : c[i] = IF i <= m THEN q[i] ELSE r[i - m]
  BY ConcatProperties
<1> HIDE DEF m, n, c
<1>2. \A e : /\ e \in ToSet(q) <=> \E i \in 1 .. m : q[i] = e
             /\ e \in ToSet(r) <=> \E i \in 1 .. n : r[i] = e
             /\ e \in ToSet(c) <=> \E i \in 1 .. m + n : c[i] = e
  BY <1>1 DEF ToSet
<1>3. ASSUME NEW k \in 1 .. m + n
      PROVE  \/ k \in 1 .. m /\ c[k] = q[k] /\ c[k] \in ToSet(q)
             \/ k - m \in 1 .. n /\ c[k] = r[k - m] /\ c[k] \in ToSet(r)
  <2>1. CASE k <= m
    BY <1>1, <1>2, <2>1
  <2>2. CASE ~ (k <= m)
    <3>1. k - m \in 1 .. n /\ c[k] = r[k - m]
      BY <1>1, <2>2
    <3>2. QED
      BY <1>2, <3>1
  <2>3. QED
    BY <2>1, <2>2
<1>4. \A k \in 1 .. m : k \in 1 .. m + n /\ c[k] = q[k]
  BY <1>1
<1>5. \A k \in 1 .. n : m + k \in 1 .. m + n /\ c[m + k] = r[k]
  BY <1>1
<1>6. ToSet(c) = ToSet(q) \cup ToSet(r)
  BY <1>2, <1>3, <1>4, <1>5
<1>7. ASSUME NEW i \in 1 .. m + n, NEW j \in 1 .. m + n, c[i] = c[j]
      PROVE  i = j
  <2>1. CASE i \in 1 .. m /\ c[i] = q[i] /\ j \in 1 .. m /\ c[j] = q[j]
    BY <1>1, <1>7, <2>1 DEF IsInjective
  <2>2. CASE i - m \in 1 .. n /\ c[i] = r[i - m] /\ j - m \in 1 .. n /\ c[j] = r[j - m]
    <3>1. i - m = j - m
      BY <1>1, <1>7, <2>2 DEF IsInjective
    <3>2. QED
      BY <1>1, <3>1
  <2>3. QED
    BY <1>3, <1>7, <2>1, <2>2
<1>8. IsInjective(c)
  BY <1>1, <1>7 DEF IsInjective
<1>9. m <= Len(c)
  BY <1>1
<1>10. QED
  BY <1>1, <1>4, <1>6, <1>8, <1>9 DEF c, m

(* Early's operators on sets and sequences are those of the library.       *)
LEMMA EarlyNames ==
  /\ \A S : Early!Cardinality(S) = Cardinality(S)
  /\ \A q : Early!ToSet(q) = ToSet(q)
  /\ \A q : Early!IsInjective(q) <=> IsInjective(q)
BY DEF Early!Cardinality, Cardinality, Early!ToSet, ToSet, Early!IsInjective, IsInjective

LEMMA FiniteIds ==
  ASSUME NEW S \in SUBSET Early!Ids
  PROVE  IsFiniteSet(S) /\ Cardinality(S) \in Nat
<1>1. IsFiniteSet(Early!Ids)
  BY EarlyAssumption, FS_Interval DEF Early!Ids
<1>2. IsFiniteSet(S)
  BY <1>1, FS_Subset
<1>3. QED
  BY <1>2, FS_CardinalityType

(* Sessions in the order of their ids: each of them once, and no others.   *)
LEMMA OrderedLists ==
  ASSUME NEW S \in SUBSET Early!Ids
  PROVE  /\ Early!Ordered(S) \in Seq(S)
         /\ ToSet(Early!Ordered(S)) = S
         /\ IsInjective(Early!Ordered(S))
<1> DEFINE n == Cardinality(S)
           Below(i) == { j \in S : j <= i }
           rank == [ i \in S |-> Cardinality(Below(i)) ]
           f == Early!Ordered(S)
<1>1. IsFiniteSet(S) /\ n \in Nat /\ S \subseteq Int
  BY FiniteIds, EarlyAssumption DEF Early!Ids
<1>2. ASSUME NEW i \in S PROVE rank[i] \in 1 .. n
  <2>1. Below(i) \subseteq S /\ i \in Below(i)
    BY <1>1
  <2>2. IsFiniteSet(Below(i)) /\ Cardinality(Below(i)) \in Nat /\ Cardinality(Below(i)) <= n
    BY <1>1, <2>1, FS_Subset, FS_CardinalityType
  <2>3. Cardinality(Below(i)) # 0
    BY <2>1, <2>2, FS_EmptySet
  <2>4. QED
    BY <1>1, <2>2, <2>3
<1>3. ASSUME NEW i \in S, NEW k \in S, i < k PROVE rank[i] < rank[k]
  <2>1. S \subseteq Int /\ i \in Int /\ k \in Int /\ i < k
    BY <1>1, <1>3
  <2>2. \A j \in S : j <= i => j <= k
    BY <2>1
  <2>3. k <= k /\ ~ (k <= i)
    BY <2>1
  <2>4. Below(i) \subseteq Below(k) /\ k \in Below(k) /\ k \notin Below(i)
    BY <2>2, <2>3
  <2>5. Below(k) \subseteq S
    OBVIOUS
  <2>6. IsFiniteSet(Below(k))
    BY <1>1, <2>5, FS_Subset
  <2>7. QED
    BY <2>4, <2>6, FS_Subset, FS_CardinalityType
<1> HIDE DEF n, rank
<1>4. rank \in Injection(S, 1 .. n)
  <2>1. rank \in [ S -> 1 .. n ]
    BY <1>2 DEF rank
  <2>2. \A i, k \in S : rank[i] = rank[k] => i = k
    BY <1>1, <1>2, <1>3
  <2>3. QED
    BY <2>1, <2>2 DEF Injection, IsInjective
<1>5. Cardinality(1 .. n) = n /\ IsFiniteSet(1 .. n)
  BY <1>1, FS_Interval
<1>6. rank \in Surjection(S, 1 .. n)
  BY <1>1, <1>4, <1>5, FS_Injection DEF n
<1>7. ASSUME NEW k \in 1 .. n PROVE f[k] \in S /\ rank[f[k]] = k
  <2>1. \E i \in S : Cardinality(Below(i)) = k
    BY <1>6 DEF Surjection, rank
  <2>2. f[k] = CHOOSE i \in S : Cardinality(Below(i)) = k
    BY EarlyNames DEF Early!Ordered, n
  <2> HIDE DEF f, rank
  <2>3. f[k] \in S /\ Cardinality(Below(f[k])) = k
    BY <2>1, <2>2, Zenon
  <2>4. QED
    BY <2>3 DEF rank
<1>8. f \in [ 1 .. n -> S ]
  BY <1>7, EarlyNames DEF Early!Ordered, n
<1> HIDE DEF f
<1>9. f \in Seq(S)
  BY <1>1, <1>8, SeqDef
<1>10. \A i \in S : f[rank[i]] = i
  BY <1>2, <1>4, <1>7 DEF Injection, IsInjective
<1>11. ToSet(f) = S
  BY <1>2, <1>7, <1>8, <1>10 DEF ToSet
<1>12. IsInjective(f)
  BY <1>7, <1>8 DEF IsInjective
<1>13. QED
  BY <1>9, <1>11, <1>12 DEF f

(* A list of sessions that goes on where another ends.                     *)
ListOK(list) == list \in Seq(Early!Ids) /\ IsInjective(list)
GoesOn(list, more) == /\ Len(list) <= Len(more)
                      /\ \A k \in 1 .. Len(list) : more[k] = list[k]

(* However sessions are put on the disconnect list, each is on it once.    *)
LEMMA Pushed ==
  ASSUME NEW list, ListOK(list), NEW S \in SUBSET Early!Ids, NEW more,
         more = Early!PushDisconnectList(list, S)
  PROVE  ListOK(more) /\ GoesOn(list, more) /\ ToSet(more) = ToSet(list) \cup S
<1> DEFINE T == S \ ToSet(list)
           o == Early!Ordered(T)
<1>1. T \in SUBSET Early!Ids
  OBVIOUS
<1>2. o \in Seq(T) /\ ToSet(o) = T /\ IsInjective(o)
  BY <1>1, OrderedLists
<1>3. more = list \o o
  BY EarlyNames DEF Early!PushDisconnectList
<1> HIDE DEF o
<1>4. o \in Seq(Early!Ids)
  BY <1>1, <1>2, SeqMonotonic
<1>5. ToSet(list) \cap ToSet(o) = {}
  BY <1>2
<1>6. QED
  BY <1>2, <1>3, <1>4, <1>5, Joined DEF ListOK, GoesOn

(* The queues and the list on the way through a handler. *)
OutOK(out) == out.q \in [ Early!Ids -> Nat ] /\ ListOK(out.list)

(* Each of S that is not given up has something new in its queue.          *)
Reached(out, more, S) == \A r \in S \ ToSet(more.list) : more.q[r] # out.q[r]

LEMMA UnicastGives ==
  ASSUME NEW out, OutOK(out), NEW S \in SUBSET Early!Ids, NEW n, n \in Nat, NEW more,
         more = Early!Unicast(out, S, n)
  PROVE  /\ OutOK(more) /\ GoesOn(out.list, more.list)
         /\ ToSet(out.list) \subseteq ToSet(more.list)
         /\ ToSet(more.list) \subseteq ToSet(out.list) \cup S
         /\ n # 0 => Reached(out, more, S)
<1> DEFINE full == { r \in S : out.q[r] + n > Capacity }
<1>1. /\ more.q = [ r \in Early!Ids |-> IF r \in S \ full THEN out.q[r] + n ELSE out.q[r] ]
      /\ more.list = Early!PushDisconnectList(out.list, full)
  BY DEF Early!Unicast
<1>2. full \in SUBSET Early!Ids
  OBVIOUS
<1> HIDE DEF full
<1>3. /\ ListOK(more.list) /\ GoesOn(out.list, more.list)
      /\ ToSet(more.list) = ToSet(out.list) \cup full
  BY <1>1, <1>2, Pushed DEF OutOK
<1>4. more.q \in [ Early!Ids -> Nat ]
  BY <1>1 DEF OutOK
<1>5. full \subseteq S
  BY DEF full
<1>6. ASSUME NEW r \in S \ ToSet(more.list), n # 0 PROVE more.q[r] # out.q[r]
  <2>1. r \in S \ full /\ out.q[r] \in Nat
    BY <1>3, <1>6 DEF OutOK
  <2>2. more.q[r] = out.q[r] + n
    BY <1>1, <2>1
  <2>3. QED
    BY <1>6, <2>1, <2>2
<1>7. QED
  BY <1>3, <1>4, <1>5, <1>6 DEF OutOK, Reached

LEMMA BroadcastGives ==
  ASSUME alive \subseteq Early!Ids,
         NEW out, OutOK(out), NEW except, NEW n, n \in Nat, NEW more,
         more = Early!Broadcast(out, except, n)
  PROVE  /\ OutOK(more) /\ GoesOn(out.list, more.list)
         /\ ToSet(out.list) \subseteq ToSet(more.list)
         /\ ToSet(more.list) \subseteq ToSet(out.list) \cup alive
         /\ n # 0 => Reached(out, more, alive \ except)
<1>1. PICK S : S = alive \ (ToSet(out.list) \cup except)
  OBVIOUS
<1>2. /\ more = Early!Unicast(out, S, n) /\ OutOK(out) /\ n \in Nat
      /\ S \in SUBSET Early!Ids
  BY <1>1, EarlyNames DEF Early!Broadcast
<1>3. /\ OutOK(more) /\ GoesOn(out.list, more.list)
      /\ ToSet(out.list) \subseteq ToSet(more.list)
      /\ ToSet(more.list) \subseteq ToSet(out.list) \cup S
  BY <1>2, UnicastGives
<1>4. n # 0 => Reached(out, more, S)
  BY <1>2, UnicastGives
<1>5. S \subseteq alive /\ \A r \in (alive \ except) \ ToSet(more.list) : r \in S
  BY <1>1, <1>3
<1>6. n # 0 => Reached(out, more, alive \ except)
  BY <1>4, <1>5 DEF Reached
<1>7. QED
  BY <1>3, <1>5, <1>6

-----------------------------------------------------------------------------
(* Sessions and what is known of them have their fields, and a session     *)
(* that moves faces the way it goes: who turns it by its direction once    *)
(* more, as the client does that is told of it, changes nothing.           *)
SessionShape(s) ==
  /\ s = [ at |-> s.at, action |-> s.action, facing |-> s.facing, hp |-> s.hp ]
  /\ s.action # Early!Stop => Early!Turned(s.facing, s.action) = s.facing
EntryShape(e) ==
  /\ e = [ known |-> e.known, action |-> e.action, facing |-> e.facing, hp |-> e.hp ]
  /\ e.known \in BOOLEAN
ViewShape(v) == v = [ p \in Early!Ids |-> v[p] ] /\ \A p \in Early!Ids : EntryShape(v[p])

(* The ids given out so far, and the scan: a new session has a new id, and *)
(* no session that is erased is left to be scanned.                        *)
EarlyScan ==
  /\ lastId \in 0 .. MaxId /\ alive \subseteq 1 .. lastId
  /\ 0 \in readSet => lastId < MaxId
  /\ readSet \subseteq {0} \cup alive /\ writeSet \subseteq alive
  /\ phase # "scan" => readSet = {} /\ writeSet = {}

EarlyData ==
  /\ eSendQ \in [ Early!Ids -> Nat ]
  /\ ses = [ i \in Early!Ids |-> ses[i] ]
  /\ \A i \in Early!Ids : SessionShape(ses[i])
  /\ view = [ r \in Early!Ids |-> view[r] ]
  /\ \A r \in Early!Ids : ViewShape(view[r])

(* The disconnect list, and how far Disconnect has got on it. *)
EarlyList ==
  /\ ListOK(eListed) /\ ToSet(eListed) \subseteq alive
  /\ told \in 0 .. Len(eListed)
  /\ phase # "tell" => told = 0

(* The clients that count: their sessions are there and not given up.      *)
Staying == alive \ ToSet(eListed)

(* v is what the client of r should know.                                  *)
Agrees(r, v) ==
  /\ \A p \in Early!Ids : v[p].known => p \in alive
  /\ \A p \in Staying :
       /\ v[p].known /\ v[p].hp = ses[p].hp
       /\ r # p => v[p].action = ses[p].action /\ v[p].facing = ses[p].facing
  /\ \A k \in 1 .. told : ~ v[eListed[k]].known

(* Nobody that Disconnect has told of is known any more: without this it   *)
(* would not follow that nobody is known after the erasing who is not      *)
(* there.                                                                  *)
EarlyViews == \A r \in Staying : Agrees(r, view[r])

EarlyInv == EarlyScan /\ EarlyData /\ EarlyList /\ EarlyViews

LEMMA EarlyIds ==
  ASSUME EarlyInv
  PROVE  /\ alive \subseteq Early!Ids /\ Staying \subseteq Early!Ids
         /\ ToSet(eListed) \subseteq Early!Ids
         /\ Early!Given = ToSet(eListed)
         /\ OutOK(Early!Now) /\ Early!Now.q = eSendQ /\ Early!Now.list = eListed
<1>1. lastId <= MaxId /\ lastId \in Nat /\ MaxId \in Nat
  BY EarlyAssumption DEF EarlyInv, EarlyScan
<1>2. alive \subseteq Early!Ids
  BY <1>1 DEF EarlyInv, EarlyScan, Early!Ids
<1>3. ToSet(eListed) \subseteq Early!Ids
  BY <1>2 DEF EarlyInv, EarlyList
<1>4. Early!Given = ToSet(eListed)
  BY EarlyNames DEF Early!Given
<1>5. OutOK(Early!Now) /\ Early!Now.q = eSendQ /\ Early!Now.list = eListed
  BY DEF EarlyInv, EarlyData, EarlyList, Early!Now, OutOK
<1>6. QED
  BY <1>2, <1>3, <1>4, <1>5 DEF Staying

LEMMA EarlyStarts == Early!Init => EarlyInv
<1> SUFFICES ASSUME Early!Init PROVE EarlyInv
  OBVIOUS
<1>1. EarlyScan
  BY EarlyAssumption DEF Early!Init, EarlyScan
<1>2. EarlyData
  BY DEF Early!Init, EarlyData, SessionShape, ViewShape, EntryShape, Early!Fresh,
         Early!Nobody, Early!Unknown
<1>3. /\ eListed = << >> /\ alive = {} /\ told = 0
      /\ ToSet(<< >>) = {} /\ IsInjective(<< >>) /\ << >> \in Seq(Early!Ids)
  BY DEF Early!Init, ToSet, IsInjective
<1>4. EarlyList
  BY <1>3 DEF EarlyList, ListOK
<1>5. EarlyViews
  BY <1>3 DEF EarlyViews, Staying
<1>6. QED
  BY <1>1, <1>2, <1>4, <1>5 DEF EarlyInv

(* The new list, and the views of those who stay.                          *)
LEMMA Settled ==
  ASSUME NEW out, OutOK(out), NEW seen,
         \A r \in Early!Ids : ViewShape(seen[r]),
         Early!Settle(out, seen)
  PROVE  /\ eSendQ' \in [ Early!Ids -> Nat ]
         /\ eListed' = out.list
         /\ view' = [ r \in Early!Ids |-> view'[r] ]
         /\ \A r \in Early!Ids : ViewShape(view'[r])
         /\ \A r \in Early!Ids \ ToSet(eListed') : view'[r] = seen[r]
<1>1. /\ eSendQ' = out.q /\ eListed' = out.list
      /\ view' = [ r \in Early!Ids |-> IF r \in ToSet(out.list) THEN Early!Nobody ELSE seen[r] ]
  BY EarlyNames DEF Early!Settle
<1>2. ViewShape(Early!Nobody)
  BY DEF ViewShape, EntryShape, Early!Nobody, Early!Unknown
<1>3. QED
  BY <1>1, <1>2 DEF OutOK

(* A handler that changes nothing in the sessions that clients are told    *)
(* of, and tells them nothing of it.                                       *)
LEMMA Silently ==
  ASSUME EarlyInv, NEW out, OutOK(out), GoesOn(eListed, out.list),
         ToSet(eListed) \subseteq ToSet(out.list), ToSet(out.list) \subseteq alive,
         Early!Settle(out, view), alive' = alive, told' = told, EarlyData',
         phase' # "tell" => phase # "tell",
         \A p \in Early!Ids : /\ ses'[p].hp = ses[p].hp
                              /\ ses'[p].action = ses[p].action
                              /\ ses'[p].facing = ses[p].facing
  PROVE  EarlyList' /\ EarlyViews'
<1>1. /\ alive \subseteq Early!Ids /\ Staying \subseteq Early!Ids
  BY EarlyIds
<1>2. /\ eListed' = out.list
      /\ \A r \in Early!Ids \ ToSet(eListed') : view'[r] = view[r]
  BY Settled DEF EarlyInv, EarlyData
<1>3. /\ told \in 0 .. Len(eListed) /\ Len(eListed) \in Nat /\ Len(out.list) \in Nat
      /\ \A k \in 1 .. told : out.list[k] = eListed[k]
      /\ told \in 0 .. Len(out.list)
  <2>1. /\ told \in 0 .. Len(eListed) /\ Len(eListed) \in Nat /\ Len(out.list) \in Nat
    BY LenProperties DEF EarlyInv, EarlyList, OutOK, ListOK
  <2>2. QED
    BY <2>1 DEF GoesOn
<1>4. EarlyList'
  BY <1>2, <1>3 DEF EarlyInv, EarlyList, OutOK
<1>5. Staying' \subseteq Staying
  BY <1>2 DEF Staying
<1>6. ASSUME NEW r \in Staying' PROVE Agrees(r, view[r])'
  <2>1. r \in Staying /\ view'[r] = view[r]
    BY <1>1, <1>2, <1>5, <1>6 DEF Staying
  <2>2. Agrees(r, view[r])
    BY <2>1 DEF EarlyInv, EarlyViews
  <2>3. QED
    BY <1>1, <1>2, <1>3, <1>5, <2>1, <2>2 DEF Agrees
<1>7. EarlyViews'
  BY <1>6 DEF EarlyViews
<1>8. QED
  BY <1>4, <1>7

(* The scan goes on, or is over.                                           *)
LEMMA ScanOn ==
  ASSUME EarlyInv, lastId' = lastId, alive' = alive,
         readSet' \subseteq readSet, writeSet' \subseteq writeSet,
         phase' # "scan" => phase # "scan" \/ (readSet = {} /\ writeSet = {})
  PROVE  EarlyScan'
BY DEF EarlyInv, EarlyScan

(* Nothing that clients know of changes.                                   *)
LEMMA EarlyRest ==
  ASSUME EarlyInv, alive' = alive, ses' = ses, eListed' = eListed, view' = view,
         told' = told, phase' # "tell" => told = 0,
         eSendQ' \in [ Early!Ids -> Nat ]
  PROVE  EarlyData' /\ EarlyList' /\ EarlyViews'
<1>1. EarlyData' /\ EarlyList'
  BY DEF EarlyInv, EarlyData, EarlyList
<1>2. Staying' = Staying
  BY DEF Staying
<1>3. ASSUME NEW r \in Staying, Agrees(r, view[r]) PROVE Agrees(r, view[r])'
  BY <1>2, <1>3 DEF Agrees
<1>4. QED
  BY <1>1, <1>2, <1>3 DEF EarlyInv, EarlyViews

LEMMA SelectSafe == ASSUME EarlyInv, Early!Select PROVE EarlyInv'
<1>1. /\ phase = "io" /\ phase' = "scan" /\ UNCHANGED << lastId, alive, ses, view >>
      /\ UNCHANGED << eListed, eSendQ, told >>
      /\ readSet' \subseteq alive \cup (IF lastId < MaxId THEN {0} ELSE {})
      /\ writeSet' \subseteq alive
  BY DEF Early!Select, Early!listVars, Early!outVars
<1>2. EarlyScan'
  <2>1. 0 \notin alive
    BY DEF EarlyInv, EarlyScan
  <2>2. QED
    BY <1>1, <2>1 DEF EarlyInv, EarlyScan
<1>3. EarlyData' /\ EarlyList' /\ EarlyViews'
  BY <1>1, EarlyRest DEF EarlyInv, EarlyData, EarlyList
<1>4. QED
  BY <1>2, <1>3 DEF EarlyInv

LEMMA IdleSafe ==
  ASSUME EarlyInv,
         \/ Early!AcceptRefused \/ Early!ScanEnds \/ Early!NoFrame
         \/ \E i \in Early!Ids : Early!RecvNothing(i) \/ Early!Send(i)
  PROVE  EarlyInv'
<1>1. /\ UNCHANGED << lastId, alive, ses, view, eListed, told >>
      /\ readSet' \subseteq readSet /\ writeSet' \subseteq writeSet
      /\ phase' # "tell" => phase # "tell"
      /\ phase' # "scan" => phase # "scan" \/ (readSet = {} /\ writeSet = {})
  BY DEF Early!AcceptRefused, Early!ScanEnds, Early!NoFrame, Early!RecvNothing, Early!Send,
         Early!Reading, Early!Writing, Early!listVars, Early!outVars
<1>2. eSendQ' \in [ Early!Ids -> Nat ]
  <2>1. CASE \E i \in Early!Ids : Early!Send(i)
    BY <2>1 DEF Early!Send, EarlyInv, EarlyData
  <2>2. CASE ~ \E i \in Early!Ids : Early!Send(i)
    BY <2>2 DEF Early!AcceptRefused, Early!ScanEnds, Early!NoFrame, Early!RecvNothing,
                Early!outVars, EarlyInv, EarlyData
  <2>3. QED
    BY <2>1, <2>2
<1>3. QED
  BY <1>1, <1>2, ScanOn, EarlyRest DEF EarlyInv, EarlyList

(* Giving one session up changes nothing else.                             *)
LEMMA GivenUpSafe ==
  ASSUME EarlyInv, NEW S \in SUBSET alive,
         Early!Settle([ Early!Now EXCEPT !.list = Early!PushDisconnectList(@, S) ], view),
         UNCHANGED << lastId, alive, told >>, phase' # "tell" => phase # "tell",
         EarlyScan', ses' = [ i \in Early!Ids |-> ses'[i] ],
         \A p \in Early!Ids : /\ SessionShape(ses'[p])
                              /\ ses'[p].hp = ses[p].hp
                              /\ ses'[p].action = ses[p].action
                              /\ ses'[p].facing = ses[p].facing
  PROVE  EarlyInv'
<1> DEFINE more == Early!PushDisconnectList(eListed, S)
           out == [ Early!Now EXCEPT !.list = Early!PushDisconnectList(@, S) ]
<1>1. /\ alive \subseteq Early!Ids
      /\ Early!Now = [ q |-> eSendQ, list |-> eListed ]
      /\ eSendQ \in [ Early!Ids -> Nat ] /\ ListOK(eListed) /\ ToSet(eListed) \subseteq alive
  BY EarlyIds DEF EarlyInv, EarlyData, EarlyList, Early!Now
<1>2. out.q = eSendQ /\ out.list = more
  BY <1>1
<1>3. ListOK(more) /\ GoesOn(eListed, more) /\ ToSet(more) = ToSet(eListed) \cup S
  BY <1>1, Pushed
<1> HIDE DEF out, more
<1>4. OutOK(out)
  BY <1>1, <1>2, <1>3 DEF OutOK
<1>5. Early!Settle(out, view)
  BY DEF out
<1>6. EarlyData'
  <2>1. /\ eSendQ' \in [ Early!Ids -> Nat ]
        /\ view' = [ r \in Early!Ids |-> view'[r] ]
        /\ \A r \in Early!Ids : ViewShape(view'[r])
    BY <1>4, <1>5, Settled DEF EarlyInv, EarlyData
  <2>2. QED
    BY <2>1 DEF EarlyData
<1>7. EarlyList' /\ EarlyViews'
  BY <1>1, <1>2, <1>3, <1>4, <1>5, <1>6, Silently
<1>8. QED
  BY <1>6, <1>7 DEF EarlyInv

LEMMA FailSafe ==
  ASSUME EarlyInv, NEW i \in Early!Ids, Early!RecvEnd(i) \/ Early!SendFails(i)
  PROVE  EarlyInv'
<1>1. /\ UNCHANGED << lastId, alive, ses, told, phase >>
      /\ readSet' \subseteq readSet /\ writeSet' \subseteq writeSet
      /\ i \in readSet \cup writeSet /\ i # 0
      /\ Early!Settle([ Early!Now EXCEPT !.list = Early!PushDisconnectList(@, {i}) ], view)
  BY DEF Early!RecvEnd, Early!SendFails, Early!Reading, Early!Writing, Early!listVars,
         Early!Ids
<1>2. {i} \in SUBSET alive
  BY <1>1 DEF EarlyInv, EarlyScan
<1>3. EarlyScan'
  BY <1>1, ScanOn
<1>4. QED
  BY <1>1, <1>2, <1>3, GivenUpSafe DEF EarlyInv, EarlyData

LEMMA UpdateSafe == ASSUME EarlyInv, Early!Update PROVE EarlyInv'
<1> DEFINE todo == alive \ Early!Given
           S == { i \in todo : Early!Dead(i) }
<1>1. /\ phase = "update" /\ phase' = "io"
      /\ ses' = [ i \in Early!Ids |->
                    IF i \in todo /\ ~ Early!Dead(i)
                    THEN [ ses[i] EXCEPT !.at = Early!Moved(ses[i]) ] ELSE ses[i] ]
      /\ Early!Settle([ Early!Now EXCEPT !.list = Early!PushDisconnectList(@, S) ], view)
      /\ UNCHANGED << readSet, writeSet, told, lastId, alive >>
  BY DEF Early!Update, Early!listVars
<1>2. S \in SUBSET alive
  OBVIOUS
<1> HIDE DEF S, todo
<1>3. EarlyScan'
  BY <1>1, ScanOn
<1>4. ASSUME NEW p \in Early!Ids
      PROVE  /\ SessionShape(ses'[p])
             /\ ses'[p].hp = ses[p].hp /\ ses'[p].action = ses[p].action
             /\ ses'[p].facing = ses[p].facing
  <2>1. SessionShape(ses[p])
    BY DEF EarlyInv, EarlyData
  <2>2. QED
    BY <1>1, <2>1 DEF SessionShape
<1>5. QED
  BY <1>1, <1>2, <1>3, <1>4, GivenUpSafe

(* Who faces the way of d does not turn for d.                             *)
LEMMA TurnedOnce ==
  ASSUME NEW facing, NEW d
  PROVE  Early!Turned(Early!Turned(facing, d), d) = Early!Turned(facing, d)
BY DEF Early!Turned

LEMMA MoveSafe ==
  ASSUME EarlyInv, NEW i \in Early!Ids, NEW d, NEW action \in {d, Early!Stop}, NEW pos,
         Early!Move(i, action, d, pos)
  PROVE  EarlyInv'
<1> DEFINE facing == Early!Turned(ses[i].facing, d)
           out == Early!Broadcast(Early!Now, {i}, 1)
           news == [ r \in Early!Ids |->
                       IF action = Early!Stop THEN Early!Stopped(view[r][i], facing)
                       ELSE Early!Started(view[r][i], d) ]
           seen == [ r \in Early!Ids |->
                       IF r \in {i} \/ ~ view[r][i].known THEN view[r]
                       ELSE [ view[r] EXCEPT ![i] = news[r] ] ]
<1>1. /\ UNCHANGED << lastId, alive, told, phase, writeSet >>
      /\ readSet' \subseteq readSet /\ i \in readSet /\ i # 0 /\ phase = "scan"
  BY DEF Early!Move, Early!Message, Early!Reading, Early!listVars
<1>2. EarlyScan' /\ i \in alive
  BY <1>1, ScanOn DEF EarlyInv, EarlyScan
<1>3. CASE /\ Early!Settle([ Early!Now EXCEPT !.list =
                               Early!PushDisconnectList(@, {i}) ], view)
           /\ ses' = ses
  BY <1>1, <1>2, <1>3, GivenUpSafe DEF EarlyInv, EarlyData
<1>4. CASE /\ ses' = [ ses EXCEPT ![i].at = pos, ![i].action = action, ![i].facing = facing ]
           /\ Early!Settle(out, seen)
  <2>1. /\ alive \subseteq Early!Ids /\ OutOK(Early!Now) /\ Early!Now.list = eListed
    BY EarlyIds
  <2>2. /\ OutOK(out) /\ GoesOn(eListed, out.list)
        /\ ToSet(eListed) \subseteq ToSet(out.list) /\ ToSet(out.list) \subseteq alive
    <3>1. PICK queues, self, one : queues = Early!Now /\ self = {i} /\ one = 1
      OBVIOUS
    <3>2. /\ out = Early!Broadcast(queues, self, one) /\ one \in Nat
          /\ OutOK(queues) /\ queues.list = eListed /\ ToSet(eListed) \subseteq alive
      BY <2>1, <3>1 DEF EarlyInv, EarlyList
    <3> HIDE DEF out
    <3>3. /\ OutOK(out) /\ GoesOn(queues.list, out.list)
          /\ ToSet(queues.list) \subseteq ToSet(out.list)
          /\ ToSet(out.list) \subseteq ToSet(queues.list) \cup alive
      BY <2>1, <3>2, BroadcastGives
    <3>4. QED
      BY <2>1, <3>2, <3>3
  <2>3. /\ ses' = [ p \in Early!Ids |-> ses'[p] ]
        /\ \A p \in Early!Ids \ {i} : ses'[p] = ses[p]
        /\ SessionShape(ses'[i]) /\ ses'[i].hp = ses[i].hp
        /\ ses'[i].action = action /\ ses'[i].facing = facing
    <3>1. ses = [ p \in Early!Ids |-> ses[p] ] /\ SessionShape(ses[i])
      BY DEF EarlyInv, EarlyData
    <3>2. action # Early!Stop => Early!Turned(facing, action) = facing
      BY TurnedOnce
    <3> HIDE DEF facing
    <3>3. QED
      BY <1>4, <3>1, <3>2 DEF SessionShape
  <2> HIDE DEF out, facing
  <2>4. ASSUME NEW r \in Early!Ids
        PROVE  /\ r = i \/ ~ view[r][i].known => seen[r] = view[r]
               /\ r # i /\ view[r][i].known =>
                    /\ seen[r] = [ p \in Early!Ids |-> seen[r][p] ]
                    /\ \A p \in Early!Ids \ {i} : seen[r][p] = view[r][p]
                    /\ EntryShape(seen[r][i])
                    /\ seen[r][i].known /\ seen[r][i].hp = view[r][i].hp
                    /\ seen[r][i].action = action
                    /\ \/ seen[r][i].facing = facing
                       \/ seen[r][i].facing = Early!Turned(view[r][i].facing, d)
    <3>1. /\ view[r] = [ p \in Early!Ids |-> view[r][p] ] /\ EntryShape(view[r][i])
      BY DEF EarlyInv, EarlyData, ViewShape
    <3>2. CASE r = i \/ ~ view[r][i].known
      BY <3>2
    <3>3. CASE r # i /\ view[r][i].known
      <4>1. seen[r] = [ view[r] EXCEPT ![i] = news[r] ]
        BY <3>3
      <4>2. /\ EntryShape(news[r]) /\ news[r].known /\ news[r].hp = view[r][i].hp
            /\ news[r].action = action
            /\ \/ news[r].facing = facing
               \/ news[r].facing = Early!Turned(view[r][i].facing, d)
        <5>1. CASE action = Early!Stop
          BY <3>1, <3>3, <5>1 DEF EntryShape, Early!Stopped
        <5>2. CASE action # Early!Stop
          BY <3>1, <3>3, <5>2 DEF EntryShape, Early!Started
        <5>3. QED
          BY <5>1, <5>2
      <4> HIDE DEF news
      <4>3. QED
        BY <3>1, <3>3, <4>1, <4>2
    <3>4. QED
      BY <3>2, <3>3
  <2> HIDE DEF seen
  <2>5. \A r \in Early!Ids : ViewShape(seen[r])
    <3> TAKE r \in Early!Ids
    <3>1. ViewShape(view[r])
      BY DEF EarlyInv, EarlyData
    <3>2. CASE seen[r] = view[r]
      BY <3>1, <3>2
    <3>3. CASE /\ seen[r] = [ p \in Early!Ids |-> seen[r][p] ]
               /\ \A p \in Early!Ids \ {i} : seen[r][p] = view[r][p]
               /\ EntryShape(seen[r][i])
      BY <3>1, <3>3 DEF ViewShape
    <3>4. QED
      BY <2>4, <3>2, <3>3
  <2>6. /\ EarlyData' /\ eListed' = out.list
        /\ \A r \in Early!Ids \ ToSet(eListed') : view'[r] = seen[r]
    BY <1>4, <2>2, <2>3, <2>5, Settled DEF EarlyInv, EarlyData
  <2>7. EarlyList' /\ told = 0 /\ told' = 0
    BY <1>1, <2>2, <2>6 DEF EarlyInv, EarlyList, OutOK
  <2>8. Staying' \subseteq Staying
    BY <1>1, <2>2, <2>6 DEF Staying
  <2>9. ASSUME NEW r \in Staying' PROVE Agrees(r, view[r])'
    <3>1. /\ r \in Staying /\ r \in Early!Ids /\ view'[r] = seen[r]
      BY <1>1, <2>1, <2>6, <2>8, <2>9 DEF Staying
    <3>2. Agrees(r, view[r])
      BY <3>1 DEF EarlyInv, EarlyViews
    <3>3. \A p \in Early!Ids : seen[r][p].known => view[r][p].known
      BY <2>4, <3>1
    <3>4. ASSUME NEW p \in Staying'
          PROVE  /\ seen[r][p].known /\ seen[r][p].hp = ses'[p].hp
                 /\ r # p => /\ seen[r][p].action = ses'[p].action
                             /\ seen[r][p].facing = ses'[p].facing
      <4>1. p \in Staying /\ p \in Early!Ids
        BY <2>1, <2>8, <3>4 DEF Staying
      <4>2. /\ view[r][p].known /\ view[r][p].hp = ses[p].hp
            /\ r # p => /\ view[r][p].action = ses[p].action
                        /\ view[r][p].facing = ses[p].facing
        BY <3>2, <4>1 DEF Agrees
      <4>3. CASE p # i
        BY <2>3, <2>4, <3>1, <4>1, <4>2, <4>3
      <4>4. CASE p = i
        <5>1. r # i => view[r][i].facing = ses[i].facing
          BY <4>2, <4>4
        <5>2. r # i => Early!Turned(view[r][i].facing, d) = facing
          BY <5>1 DEF facing
        <5>3. QED
          BY <2>3, <2>4, <3>1, <4>1, <4>2, <4>4, <5>2
      <4>5. QED
        BY <4>3, <4>4
    <3>5. QED
      BY <1>1, <2>7, <3>1, <3>2, <3>3, <3>4 DEF Agrees
  <2>10. QED
    BY <1>2, <2>6, <2>7, <2>9 DEF EarlyInv, EarlyViews
<1>5. QED
  BY <1>3, <1>4 DEF Early!Move, Early!Learn

(* The hit points of one session change, and all who stay are told.        *)
LEMMA AttackSafe ==
  ASSUME EarlyInv, NEW i \in Early!Ids, NEW k, NEW d, Early!Attack(i, k, d)
  PROVE  EarlyInv'
<1> DEFINE shown == Early!Broadcast(Early!Now, {i}, 1)
<1>1. /\ UNCHANGED << lastId, alive, told, phase, writeSet >>
      /\ readSet' \subseteq readSet /\ i \in readSet /\ i # 0 /\ phase = "scan"
  BY DEF Early!Attack, Early!Message, Early!Reading, Early!listVars
<1>2. EarlyScan' /\ alive \subseteq Early!Ids
  BY <1>1, ScanOn, EarlyIds
<1>3. /\ OutOK(shown) /\ GoesOn(eListed, shown.list)
      /\ ToSet(eListed) \subseteq ToSet(shown.list) /\ ToSet(shown.list) \subseteq alive
  <2>1. PICK queues, self, one : queues = Early!Now /\ self = {i} /\ one = 1
    OBVIOUS
  <2>2. /\ shown = Early!Broadcast(queues, self, one) /\ one \in Nat
        /\ alive \subseteq Early!Ids /\ OutOK(queues) /\ queues.list = eListed
        /\ ToSet(eListed) \subseteq alive
    BY <2>1, EarlyIds DEF EarlyInv, EarlyList
  <2> HIDE DEF shown
  <2>3. /\ OutOK(shown) /\ GoesOn(queues.list, shown.list)
        /\ ToSet(queues.list) \subseteq ToSet(shown.list)
        /\ ToSet(shown.list) \subseteq ToSet(queues.list) \cup alive
    BY <2>2, BroadcastGives
  <2>4. QED
    BY <2>2, <2>3
<1>4. CASE Early!Settle(shown, view) /\ ses' = ses
  <2> HIDE DEF shown
  <2>1. EarlyData'
    BY <1>3, <1>4, Settled DEF EarlyInv, EarlyData
  <2>2. EarlyList' /\ EarlyViews'
    BY <1>1, <1>3, <1>4, <2>1, Silently
  <2>3. QED
    BY <1>2, <2>1, <2>2 DEF EarlyInv
<1>5. ASSUME NEW v \in Early!Targets(i, d), NEW left,
             ses' = [ ses EXCEPT ![v].hp = left ],
             Early!Settle(Early!Witnesses(shown, v),
                          Early!Learn({ q \in Early!Ids :
                                          Early!Witnesses(shown, v).q[q] = shown.q[q] }, v,
                                      [ q \in Early!Ids |->
                                          [ view[q][v] EXCEPT !.hp = left ] ]))
      PROVE  EarlyInv'
  <2> DEFINE out == Early!Witnesses(shown, v)
             deaf == { q \in Early!Ids : out.q[q] = shown.q[q] }
             news == [ q \in Early!Ids |-> [ view[q][v] EXCEPT !.hp = left ] ]
             seen == [ r \in Early!Ids |->
                         IF r \in deaf \/ ~ view[r][v].known THEN view[r]
                         ELSE [ view[r] EXCEPT ![v] = news[r] ] ]
  <2>1. v \in Early!Ids
    BY <1>2 DEF Early!Targets
  <2>2. Early!Settle(out, seen)
    BY <1>5 DEF Early!Learn
  <2>3. PICK none, one : none = {} /\ one = 1
    OBVIOUS
  <2> HIDE DEF out, shown
  <2>4. /\ OutOK(out) /\ GoesOn(shown.list, out.list)
        /\ ToSet(shown.list) \subseteq ToSet(out.list)
        /\ ToSet(out.list) \subseteq ToSet(shown.list) \cup alive
        /\ \A r \in alive \ ToSet(out.list) : out.q[r] # shown.q[r]
    <3>1. /\ out = Early!Broadcast(shown, none, one) /\ one \in Nat /\ one # 0
          /\ alive \subseteq Early!Ids /\ OutOK(shown)
      BY <1>2, <1>3, <2>3 DEF out, Early!Witnesses
    <3>2. /\ OutOK(out) /\ GoesOn(shown.list, out.list)
          /\ ToSet(shown.list) \subseteq ToSet(out.list)
          /\ ToSet(out.list) \subseteq ToSet(shown.list) \cup alive
          /\ Reached(shown, out, alive \ none)
      BY <3>1, BroadcastGives
    <3>3. QED
      BY <2>3, <3>2 DEF Reached
  <2>5. /\ ToSet(eListed) \subseteq ToSet(out.list) /\ ToSet(out.list) \subseteq alive
    BY <1>3, <2>4
  <2>6. \A r \in alive \ ToSet(out.list) : r \notin deaf
    BY <1>2, <1>3, <2>4 DEF OutOK
  <2> HIDE DEF deaf
  <2>7. /\ ses' = [ p \in Early!Ids |-> ses'[p] ]
        /\ \A p \in Early!Ids \ {v} : ses'[p] = ses[p]
        /\ SessionShape(ses'[v]) /\ ses'[v].hp = left
        /\ ses'[v].action = ses[v].action /\ ses'[v].facing = ses[v].facing
    <3>1. ses = [ p \in Early!Ids |-> ses[p] ] /\ SessionShape(ses[v])
      BY <2>1 DEF EarlyInv, EarlyData
    <3>2. QED
      BY <1>5, <2>1, <3>1 DEF SessionShape
  <2>8. ASSUME NEW r \in Early!Ids
        PROVE  /\ r \in deaf \/ ~ view[r][v].known => seen[r] = view[r]
               /\ r \notin deaf /\ view[r][v].known =>
                    /\ seen[r] = [ p \in Early!Ids |-> seen[r][p] ]
                    /\ \A p \in Early!Ids \ {v} : seen[r][p] = view[r][p]
                    /\ EntryShape(seen[r][v])
                    /\ seen[r][v].known /\ seen[r][v].hp = left
                    /\ seen[r][v].action = view[r][v].action
                    /\ seen[r][v].facing = view[r][v].facing
    <3>1. /\ view[r] = [ p \in Early!Ids |-> view[r][p] ] /\ EntryShape(view[r][v])
      BY <2>1 DEF EarlyInv, EarlyData, ViewShape
    <3>2. CASE r \in deaf \/ ~ view[r][v].known
      BY <3>2
    <3>3. CASE r \notin deaf /\ view[r][v].known
      <4>1. seen[r] = [ view[r] EXCEPT ![v] = news[r] ]
        BY <3>3
      <4>2. QED
        BY <2>1, <3>1, <3>3, <4>1 DEF EntryShape
    <3>4. QED
      BY <3>2, <3>3
  <2> HIDE DEF seen
  <2>9. \A r \in Early!Ids : ViewShape(seen[r])
    <3> TAKE r \in Early!Ids
    <3>1. ViewShape(view[r])
      BY DEF EarlyInv, EarlyData
    <3>2. CASE seen[r] = view[r]
      BY <3>1, <3>2
    <3>3. CASE /\ seen[r] = [ p \in Early!Ids |-> seen[r][p] ]
               /\ \A p \in Early!Ids \ {v} : seen[r][p] = view[r][p]
               /\ EntryShape(seen[r][v])
      BY <3>1, <3>3 DEF ViewShape
    <3>4. QED
      BY <2>8, <3>2, <3>3
  <2>10. /\ EarlyData' /\ eListed' = out.list
         /\ \A r \in Early!Ids \ ToSet(eListed') : view'[r] = seen[r]
    BY <2>2, <2>4, <2>7, <2>9, Settled DEF EarlyInv, EarlyData
  <2>11. EarlyList' /\ told = 0 /\ told' = 0
    BY <1>1, <2>4, <2>5, <2>10 DEF EarlyInv, EarlyList, OutOK
  <2>12. Staying' \subseteq Staying
    BY <1>1, <2>5, <2>10 DEF Staying
  <2>13. ASSUME NEW r \in Staying' PROVE Agrees(r, view[r])'
    <3>1. /\ r \in Staying /\ r \in Early!Ids /\ view'[r] = seen[r] /\ r \notin deaf
      BY <1>1, <1>2, <2>6, <2>10, <2>12, <2>13 DEF Staying
    <3>2. Agrees(r, view[r])
      BY <3>1 DEF EarlyInv, EarlyViews
    <3>3. /\ \A p \in Early!Ids \ {v} : seen[r][p] = view[r][p]
          /\ view[r][v].known => /\ seen[r][v].known /\ seen[r][v].hp = left
                                 /\ seen[r][v].action = view[r][v].action
                                 /\ seen[r][v].facing = view[r][v].facing
          /\ ~ view[r][v].known => ~ seen[r][v].known
      <4>1. CASE view[r][v].known
        BY <2>8, <3>1, <4>1
      <4>2. CASE ~ view[r][v].known
        <5>1. seen[r] = view[r]
          BY <2>8, <3>1, <4>2
        <5>2. QED
          BY <4>2, <5>1
      <4>3. QED
        BY <4>1, <4>2
    <3>4. ASSUME NEW p \in Staying'
          PROVE  /\ seen[r][p].known /\ seen[r][p].hp = ses'[p].hp
                 /\ r # p => /\ seen[r][p].action = ses'[p].action
                             /\ seen[r][p].facing = ses'[p].facing
      <4>1. p \in Staying /\ p \in Early!Ids
        BY <1>2, <2>12, <3>4 DEF Staying
      <4>2. /\ view[r][p].known /\ view[r][p].hp = ses[p].hp
            /\ r # p => /\ view[r][p].action = ses[p].action
                        /\ view[r][p].facing = ses[p].facing
        BY <3>2, <4>1 DEF Agrees
      <4>3. CASE p # v
        <5>1. seen[r][p] = view[r][p] /\ ses'[p] = ses[p]
          BY <2>7, <3>3, <4>1, <4>3
        <5>2. QED
          BY <4>2, <5>1
      <4>4. CASE p = v
        <5>1. /\ seen[r][p].known /\ seen[r][p].hp = left
              /\ seen[r][p].action = view[r][p].action
              /\ seen[r][p].facing = view[r][p].facing
          BY <3>3, <4>2, <4>4
        <5>2. /\ ses'[p].hp = left /\ ses'[p].action = ses[p].action
              /\ ses'[p].facing = ses[p].facing
          BY <2>7, <4>4
        <5>3. QED
          BY <4>2, <5>1, <5>2
      <4>5. QED
        BY <4>3, <4>4
    <3>5. \A p \in Early!Ids : seen[r][p].known => view[r][p].known
      BY <3>3
    <3>6. QED
      BY <1>1, <2>11, <3>1, <3>2, <3>4, <3>5 DEF Agrees
  <2>14. QED
    BY <1>2, <2>10, <2>11, <2>13 DEF EarlyInv, EarlyViews
<1>6. QED
  BY <1>4, <1>5 DEF Early!Attack

(* A newcomer has an id nobody had, and is told of everybody who stays, as *)
(* they of it.                                                             *)
LEMMA AcceptSafe ==
  ASSUME EarlyInv, NEW pos, NEW ok, Early!Accept(pos, ok)
  PROVE  EarlyInv'
<1>1. PICK i : i = lastId + 1
  OBVIOUS
<1>2. /\ i \in Early!Ids /\ i \notin alive /\ alive \subseteq 1 .. lastId
      /\ lastId < MaxId /\ lastId \in Nat
  <2>1. 0 \in readSet
    BY DEF Early!Accept, Early!Reading
  <2>2. QED
    BY <1>1, <2>1, EarlyAssumption DEF EarlyInv, EarlyScan, Early!Ids
<1>3. /\ alive \subseteq Early!Ids /\ OutOK(Early!Now) /\ Early!Now.list = eListed
      /\ ToSet(eListed) \subseteq alive
  BY EarlyIds DEF EarlyInv, EarlyList
<1>4. PICK greeting : greeting = Early!Unicast(Early!Now, {i}, 1)
  OBVIOUS
<1>5. PICK rest : rest = alive \ ToSet(greeting.list)
  OBVIOUS
<1>6. PICK second : second = Early!Unicast(greeting, rest, 1)
  OBVIOUS
<1>7. PICK others : others = alive \ ToSet(second.list)
  OBVIOUS
<1>8. PICK n : /\ n \in Nat
               /\ n = Cardinality(others) +
                        Cardinality({ r \in others : ses[r].action # Early!Stop })
  <2> DEFINE moving == { r \in others : ses[r].action # Early!Stop }
  <2>1. others \in SUBSET Early!Ids /\ moving \in SUBSET Early!Ids
    BY <1>3, <1>7
  <2>2. Cardinality(others) \in Nat /\ Cardinality(moving) \in Nat
    BY <2>1, FiniteIds
  <2> HIDE DEF moving
  <2>3. Cardinality(others) + Cardinality(moving) \in Nat
    BY <2>2
  <2>4. QED
    BY <2>3 DEF moving
<1>9. PICK out : out = Early!Unicast(second, {i}, n)
  OBVIOUS
<1>10. PICK me : me = [ Early!Unknown EXCEPT !.known = TRUE ]
  OBVIOUS
<1>11. PICK new : new = [ Early!Fresh EXCEPT !.at = pos ]
  OBVIOUS
<1>12. PICK seen :
         seen = [ r \in Early!Ids |->
                    IF r = i THEN [ q \in Early!Ids |->
                                      IF q = i THEN me
                                      ELSE IF q \in others THEN Early!CreatedForMe(q)
                                      ELSE Early!Unknown ]
                    ELSE IF r \in alive THEN [ view[r] EXCEPT ![i] = me ]
                    ELSE view[r] ]
  OBVIOUS
<1>13. /\ lastId' = i /\ alive' = alive \cup {i} /\ UNCHANGED << phase, writeSet, told >>
       /\ ses' = [ ses EXCEPT ![i] = new ]
       /\ Early!Settle(out, seen)
       /\ readSet' = readSet \ {0} /\ phase = "scan"
  BY <1>1, <1>4, <1>5, <1>6, <1>7, <1>8, <1>9, <1>10, <1>11, <1>12, EarlyNames
     DEF Early!Accept, Early!Reading
<1>14. /\ me.known /\ me.action = new.action /\ me.facing = new.facing /\ me.hp = new.hp
       /\ EntryShape(me) /\ SessionShape(new)
  <2>1. /\ me.known = TRUE /\ me.action = Early!Stop /\ me.facing = Early!LL
        /\ me.hp = NewHP /\ EntryShape(me)
    BY <1>10, Zenon DEF Early!Unknown, EntryShape
  <2>2. /\ new.action = Early!Stop /\ new.facing = Early!LL /\ new.hp = NewHP
        /\ SessionShape(new)
    BY <1>11 DEF Early!Fresh, SessionShape
  <2>3. QED
    BY <2>1, <2>2
<1>15. /\ OutOK(greeting) /\ ToSet(eListed) \subseteq ToSet(greeting.list)
       /\ ToSet(greeting.list) \subseteq ToSet(eListed) \cup {i}
  <2>1. PICK self : self = {i}
    OBVIOUS
  <2>2. PICK queues, one : queues = Early!Now /\ one = 1
    OBVIOUS
  <2>3. /\ greeting = Early!Unicast(queues, self, one) /\ one \in Nat
        /\ self \in SUBSET Early!Ids /\ OutOK(queues)
    BY <1>2, <1>3, <1>4, <2>1, <2>2
  <2>4. /\ OutOK(greeting) /\ ToSet(queues.list) \subseteq ToSet(greeting.list)
        /\ ToSet(greeting.list) \subseteq ToSet(queues.list) \cup self
    BY <2>3, UnicastGives
  <2>5. QED
    BY <1>3, <2>1, <2>2, <2>4
<1>16. /\ OutOK(second) /\ ToSet(greeting.list) \subseteq ToSet(second.list)
       /\ ToSet(second.list) \subseteq ToSet(greeting.list) \cup alive
  <2>1. PICK one : one = 1
    OBVIOUS
  <2>2. /\ second = Early!Unicast(greeting, rest, one) /\ one \in Nat
        /\ rest \in SUBSET Early!Ids /\ rest \subseteq alive /\ OutOK(greeting)
    BY <1>3, <1>5, <1>6, <1>15, <2>1
  <2>3. /\ OutOK(second) /\ ToSet(greeting.list) \subseteq ToSet(second.list)
        /\ ToSet(second.list) \subseteq ToSet(greeting.list) \cup rest
    BY <2>2, UnicastGives
  <2>4. QED
    BY <2>2, <2>3
<1>17. /\ OutOK(out) /\ ToSet(second.list) \subseteq ToSet(out.list)
       /\ ToSet(out.list) \subseteq ToSet(second.list) \cup {i}
  <2>1. PICK self : self = {i}
    OBVIOUS
  <2>2. /\ out = Early!Unicast(second, self, n) /\ n \in Nat
        /\ self \in SUBSET Early!Ids /\ OutOK(second)
    BY <1>2, <1>8, <1>9, <1>16, <2>1
  <2>3. /\ OutOK(out) /\ ToSet(second.list) \subseteq ToSet(out.list)
        /\ ToSet(out.list) \subseteq ToSet(second.list) \cup self
    BY <2>2, UnicastGives
  <2>4. QED
    BY <2>1, <2>3
<1>18. /\ ToSet(eListed) \subseteq ToSet(out.list)
       /\ ToSet(out.list) \subseteq alive'
  BY <1>13, <1>3, <1>15, <1>16, <1>17
<1>19. ASSUME NEW p \in Early!Ids \ {i}
       PROVE  /\ ses'[p] = ses[p]
              /\ SessionShape(ses[p])
  BY <1>13, <1>19 DEF EarlyInv, EarlyData
<1>20. /\ ses' = [ p \in Early!Ids |-> ses'[p] ]
       /\ ses'[i] = new /\ SessionShape(new)
  <2>1. ses = [ p \in Early!Ids |-> ses[p] ]
    BY DEF EarlyInv, EarlyData
  <2>2. QED
    BY <1>13, <1>2, <1>14, <2>1 DEF SessionShape
<1>21. /\ seen[i] = [ q \in Early!Ids |-> seen[i][q] ] /\ seen[i][i] = me
       /\ \A q \in others \ {i} : seen[i][q] = Early!CreatedForMe(q)
       /\ \A q \in Early!Ids \ (others \cup {i}) : seen[i][q] = Early!Unknown
  BY <1>2, <1>3, <1>7, <1>12
<1>22. ASSUME NEW r \in alive
       PROVE  /\ seen[r] = [ q \in Early!Ids |-> seen[r][q] ] /\ seen[r][i] = me
              /\ \A q \in Early!Ids \ {i} : seen[r][q] = view[r][q]
  <2>1. r \in Early!Ids /\ r # i
    BY <1>2, <1>3
  <2>2. seen[r] = [ view[r] EXCEPT ![i] = me ]
    BY <1>12, <2>1
  <2>3. view[r] = [ q \in Early!Ids |-> view[r][q] ]
    BY <2>1 DEF EarlyInv, EarlyData, ViewShape
  <2>4. QED
    BY <1>2, <2>2, <2>3
<1>23. \A r \in Early!Ids \ alive : r # i => seen[r] = view[r]
  BY <1>12
<1>24. ASSUME NEW r \in Early!Ids PROVE ViewShape(seen[r])
  <2>1. /\ EntryShape(me) /\ EntryShape(Early!Unknown)
        /\ \A q : EntryShape(Early!CreatedForMe(q))
    BY <1>14 DEF EntryShape, Early!Unknown, Early!CreatedForMe, Early!Created,
                 Early!Started
  <2>2. ViewShape(view[r])
    BY DEF EarlyInv, EarlyData
  <2>3. CASE r = i
    BY <1>21, <2>1, <2>3 DEF ViewShape
  <2>4. CASE r \in alive
    BY <1>22, <2>1, <2>2, <2>4 DEF ViewShape
  <2>5. CASE r \notin alive /\ r # i
    BY <1>23, <2>2, <2>5
  <2>6. QED
    BY <2>3, <2>4, <2>5
<1>25. /\ EarlyData' /\ eListed' = out.list
       /\ \A r \in Early!Ids \ ToSet(eListed') : view'[r] = seen[r]
  <2>1. /\ eSendQ' \in [ Early!Ids -> Nat ]
        /\ eListed' = out.list
        /\ view' = [ r \in Early!Ids |-> view'[r] ]
        /\ \A r \in Early!Ids : ViewShape(view'[r])
        /\ \A r \in Early!Ids \ ToSet(eListed') : view'[r] = seen[r]
    BY <1>13, <1>17, <1>24, Settled
  <2>2. \A p \in Early!Ids : SessionShape(ses'[p])
    BY <1>19, <1>20
  <2>3. QED
    BY <1>20, <2>1, <2>2 DEF EarlyData
<1>26. EarlyList' /\ told' = 0
  BY <1>13, <1>17, <1>18, <1>25, LenProperties DEF EarlyInv, EarlyList, OutOK, ListOK
<1>27. EarlyScan'
  BY <1>1, <1>13, <1>2, EarlyAssumption DEF EarlyInv, EarlyScan
<1>28. Staying' \subseteq Staying \cup {i} /\ Staying' \ {i} \subseteq others
  BY <1>13, <1>7, <1>17, <1>18, <1>25 DEF Staying
<1>29. ASSUME NEW r \in Staying' PROVE Agrees(r, view[r])'
  <2>1. r \in Early!Ids /\ view'[r] = seen[r]
    BY <1>2, <1>3, <1>25, <1>28, <1>29 DEF Staying
  <2>2. CASE r = i
    <3>1. ASSUME NEW q \in Early!Ids, seen[i][q].known PROVE q \in alive'
      <4>1. ~ Early!Unknown.known
        BY DEF Early!Unknown
      <4>2. q \in others \cup {i}
        BY <1>21, <3>1, <4>1
      <4>3. QED
        BY <1>7, <1>13, <4>2
    <3>2. ASSUME NEW p \in Staying'
          PROVE  /\ seen[i][p].known /\ seen[i][p].hp = ses'[p].hp
                 /\ i # p => /\ seen[i][p].action = ses'[p].action
                             /\ seen[i][p].facing = ses'[p].facing
      <4>1. CASE p = i
        <5>1. seen[i][p] = me /\ ses'[p] = new
          BY <1>20, <1>21, <4>1
        <5>2. QED
          BY <1>14, <5>1
      <4>2. CASE p # i
        <5>1. p \in others /\ p \in Early!Ids /\ ses'[p] = ses[p]
          BY <1>3, <1>7, <1>19, <1>28, <3>2, <4>2
        <5>2. seen[i][p] = Early!CreatedForMe(p)
          BY <1>21, <4>2, <5>1
        <5>3. ses[p].action # Early!Stop =>
                Early!Turned(ses[p].facing, ses[p].action) = ses[p].facing
          BY <1>19, <4>2, <5>1 DEF SessionShape
        <5>4. QED
          BY <5>1, <5>2, <5>3 DEF Early!CreatedForMe, Early!Created, Early!Started
      <4>3. QED
        BY <4>1, <4>2
    <3>3. QED
      BY <1>26, <2>1, <2>2, <3>1, <3>2 DEF Agrees
  <2>3. CASE r # i
    <3>1. r \in Staying /\ r \in alive
      BY <1>28, <1>29, <2>3 DEF Staying
    <3>2. Agrees(r, view[r])
      BY <3>1 DEF EarlyInv, EarlyViews
    <3>3. ASSUME NEW q \in Early!Ids, seen[r][q].known PROVE q \in alive'
      <4>1. CASE q = i
        BY <1>13, <4>1
      <4>2. CASE q # i
        <5>1. seen[r][q] = view[r][q]
          BY <1>22, <3>1, <4>2
        <5>2. q \in alive
          BY <3>2, <3>3, <5>1 DEF Agrees
        <5>3. QED
          BY <1>13, <5>2
      <4>3. QED
        BY <4>1, <4>2
    <3>4. ASSUME NEW p \in Staying'
          PROVE  /\ seen[r][p].known /\ seen[r][p].hp = ses'[p].hp
                 /\ r # p => /\ seen[r][p].action = ses'[p].action
                             /\ seen[r][p].facing = ses'[p].facing
      <4>1. CASE p = i
        <5>1. seen[r][p] = me /\ ses'[p] = new
          BY <1>20, <1>22, <3>1, <4>1
        <5>2. QED
          BY <1>14, <5>1
      <4>2. CASE p # i
        <5>1. p \in Staying /\ p \in Early!Ids \ {i} /\ ses'[p] = ses[p]
          BY <1>3, <1>19, <1>28, <3>4, <4>2 DEF Staying
        <5>2. seen[r][p] = view[r][p]
          BY <1>22, <3>1, <5>1
        <5>3. QED
          BY <3>2, <5>1, <5>2 DEF Agrees
      <4>3. QED
        BY <4>1, <4>2
    <3>5. QED
      BY <1>26, <2>1, <3>3, <3>4 DEF Agrees
  <2>4. QED
    BY <2>2, <2>3
<1>30. QED
  BY <1>25, <1>26, <1>27, <1>29 DEF EarlyInv, EarlyViews

(* Who is told of the end of some who are about to be erased forgets them. *)
LEMMA TellSafe == ASSUME EarlyInv, Early!Tell PROVE EarlyInv'
<1>1. PICK m : m = told + 1
  OBVIOUS
<1>2. PICK packet : packet = Early!DeletePacket
  OBVIOUS
<1>3. PICK out : out = Early!Broadcast(Early!Now, {}, Len(packet))
  OBVIOUS
<1>4. PICK seen :
        seen = [ r \in Early!Ids |-> [ p \in Early!Ids |->
                   IF r \in alive /\ p \in ToSet(packet) THEN Early!Unknown ELSE view[r][p] ] ]
  OBVIOUS
<1>5. /\ UNCHANGED << lastId, alive, ses, phase, readSet, writeSet >>
      /\ phase = "tell" /\ told < Len(eListed) /\ told' = m
      /\ Early!Settle(out, seen)
  BY <1>1, <1>2, <1>3, <1>4, EarlyNames DEF Early!Tell, Early!listVars
<1>6. /\ alive \subseteq Early!Ids /\ OutOK(Early!Now) /\ Early!Now.list = eListed
      /\ ToSet(eListed) \subseteq alive /\ eListed \in Seq(Early!Ids)
  BY EarlyIds DEF EarlyInv, EarlyList, ListOK
<1>7. /\ Len(eListed) \in Nat /\ told \in 0 .. Len(eListed)
      /\ m \in 1 .. Len(eListed)
  <2>1. Len(eListed) \in Nat /\ told \in 0 .. Len(eListed)
    BY <1>6, LenProperties DEF EarlyInv, EarlyList
  <2>2. QED
    BY <1>1, <1>5, <2>1
<1>8. /\ packet \in Seq(Early!Ids) /\ Len(packet) = m
      /\ \A k \in 1 .. m : packet[k] = eListed[k]
  <2>1. packet = SubSeq(eListed, 1, m)
    BY <1>1, <1>2 DEF Early!DeletePacket
  <2>2. QED
    BY <1>6, <1>7, <2>1
<1>9. ToSet(packet) = { eListed[k] : k \in 1 .. m }
  BY <1>7, <1>8 DEF ToSet
<1>10. ToSet(packet) \subseteq ToSet(eListed)
  BY <1>6, <1>7, <1>9 DEF ToSet
<1>11. /\ OutOK(out) /\ GoesOn(eListed, out.list)
       /\ ToSet(eListed) \subseteq ToSet(out.list) /\ ToSet(out.list) \subseteq alive
  <2>1. PICK queues, except : queues = Early!Now /\ except = {}
    OBVIOUS
  <2>2. /\ out = Early!Broadcast(queues, except, m) /\ m \in Nat /\ OutOK(queues)
    BY <1>3, <1>6, <1>7, <1>8, <2>1
  <2>3. /\ OutOK(out) /\ GoesOn(queues.list, out.list)
        /\ ToSet(queues.list) \subseteq ToSet(out.list)
        /\ ToSet(out.list) \subseteq ToSet(queues.list) \cup alive
    BY <1>6, <2>2, BroadcastGives
  <2>4. QED
    BY <1>6, <2>1, <2>3
<1>12. ASSUME NEW r \in Early!Ids PROVE ViewShape(seen[r])
  <2>1. EntryShape(Early!Unknown)
    BY DEF EntryShape, Early!Unknown
  <2>2. ViewShape(view[r])
    BY DEF EarlyInv, EarlyData
  <2>3. QED
    BY <1>4, <2>1, <2>2 DEF ViewShape
<1>13. /\ EarlyData' /\ eListed' = out.list
       /\ \A r \in Early!Ids \ ToSet(eListed') : view'[r] = seen[r]
  <2>1. /\ eSendQ' \in [ Early!Ids -> Nat ]
        /\ eListed' = out.list
        /\ view' = [ r \in Early!Ids |-> view'[r] ]
        /\ \A r \in Early!Ids : ViewShape(view'[r])
        /\ \A r \in Early!Ids \ ToSet(eListed') : view'[r] = seen[r]
    BY <1>5, <1>11, <1>12, Settled
  <2>2. QED
    BY <1>5, <2>1 DEF EarlyInv, EarlyData
<1>14. /\ Len(eListed') \in Nat /\ m \in 1 .. Len(eListed')
       /\ \A k \in 1 .. m : eListed'[k] = eListed[k]
  <2>1. Len(eListed') \in Nat /\ Len(eListed) <= Len(eListed')
    BY <1>11, <1>13, LenProperties DEF OutOK, ListOK, GoesOn
  <2>2. QED
    BY <1>7, <1>11, <1>13, <2>1 DEF GoesOn
<1>15. EarlyList'
  BY <1>5, <1>11, <1>13, <1>14 DEF EarlyList, OutOK
<1>16. EarlyScan'
  BY <1>5 DEF EarlyInv, EarlyScan
<1>17. Staying' \subseteq Staying /\ Staying \subseteq alive
  BY <1>5, <1>11, <1>13 DEF Staying
<1>18. ASSUME NEW r \in Staying' PROVE Agrees(r, view[r])'
  <2>1. r \in Staying /\ r \in Early!Ids /\ r \in alive /\ view'[r] = seen[r]
    BY <1>6, <1>13, <1>17, <1>18, <1>5 DEF Staying
  <2>2. Agrees(r, view[r])
    BY <2>1 DEF EarlyInv, EarlyViews
  <2>3. /\ \A p \in Early!Ids \ ToSet(packet) : seen[r][p] = view[r][p]
        /\ \A p \in ToSet(packet) : ~ seen[r][p].known
    <3>1. ~ Early!Unknown.known
      BY DEF Early!Unknown
    <3>2. ToSet(packet) \subseteq Early!Ids
      BY <1>6, <1>10
    <3>3. \A p \in Early!Ids : seen[r][p] = IF p \in ToSet(packet) THEN Early!Unknown
                                                                   ELSE view[r][p]
      BY <1>4, <2>1
    <3>4. QED
      BY <3>1, <3>2, <3>3
  <2>4. ASSUME NEW p \in Early!Ids, seen[r][p].known PROVE p \in alive'
    BY <1>5, <2>2, <2>3, <2>4 DEF Agrees
  <2>5. ASSUME NEW p \in Staying'
        PROVE  /\ seen[r][p].known /\ seen[r][p].hp = ses'[p].hp
               /\ r # p => seen[r][p].action = ses'[p].action /\ seen[r][p].facing = ses'[p].facing
    <3>1. p \in Staying /\ p \in Early!Ids \ ToSet(packet)
      BY <1>6, <1>10, <1>17, <2>5 DEF Staying
    <3>2. seen[r][p] = view[r][p]
      BY <2>3, <3>1
    <3>3. QED
      BY <1>5, <2>2, <3>1, <3>2 DEF Agrees
  <2>6. ASSUME NEW k \in 1 .. m PROVE ~ seen[r][eListed'[k]].known
    <3>1. eListed'[k] \in ToSet(packet)
      BY <1>9, <1>14
    <3>2. QED
      BY <2>3, <3>1
  <2>7. QED
    BY <1>5, <2>1, <2>4, <2>5, <2>6 DEF Agrees
<1>19. QED
  BY <1>13, <1>15, <1>16, <1>18 DEF EarlyInv, EarlyViews

(* Who is erased is known to nobody any more. *)
LEMMA EraseSafe == ASSUME EarlyInv, Early!Erase PROVE EarlyInv'
<1>1. /\ phase = "tell" /\ told = Len(eListed) /\ phase' = "update" /\ told' = 0
      /\ alive' = Staying
      /\ ses' = [ p \in Early!Ids |-> IF p \in ToSet(eListed) THEN Early!Fresh ELSE ses[p] ]
      /\ eSendQ' = [ p \in Early!Ids |-> IF p \in ToSet(eListed) THEN 0 ELSE eSendQ[p] ]
      /\ eListed' = << >>
      /\ UNCHANGED << lastId, readSet, writeSet, view >>
  BY EarlyIds DEF Early!Erase, Staying
<1>2. /\ eListed \in Seq(Early!Ids) /\ Staying \subseteq Early!Ids
      /\ Staying \subseteq alive
  BY EarlyIds DEF EarlyInv, EarlyList, ListOK, Staying
<1>3. EarlyScan'
  BY <1>1, <1>2 DEF EarlyInv, EarlyScan
<1>4. EarlyData'
  <2>1. SessionShape(Early!Fresh)
    BY DEF SessionShape, Early!Fresh
  <2>2. eSendQ' \in [ Early!Ids -> Nat ]
    BY <1>1 DEF EarlyInv, EarlyData
  <2>3. /\ ses' = [ p \in Early!Ids |-> ses'[p] ]
        /\ \A p \in Early!Ids : SessionShape(ses'[p])
    BY <1>1, <2>1 DEF EarlyInv, EarlyData
  <2>4. QED
    BY <1>1, <2>2, <2>3 DEF EarlyInv, EarlyData
<1>5. ToSet(<< >>) = {} /\ IsInjective(<< >>) /\ << >> \in Seq(Early!Ids) /\ Len(<< >>) = 0
  BY DEF ToSet, IsInjective
<1>6. EarlyList'
  BY <1>1, <1>5 DEF EarlyList, ListOK
<1>7. Staying' = Staying
  BY <1>1, <1>5 DEF Staying
<1>8. ASSUME NEW r \in Staying' PROVE Agrees(r, view[r])'
  <2>1. r \in Staying /\ Agrees(r, view[r])
    BY <1>7, <1>8 DEF EarlyInv, EarlyViews
  <2>2. ASSUME NEW p \in Early!Ids, view[r][p].known PROVE p \in alive'
    <3>1. p \in alive
      BY <2>1, <2>2 DEF Agrees
    <3>2. p \notin ToSet(eListed)
      <4>1. \A k \in 1 .. Len(eListed) : ~ view[r][eListed[k]].known
        BY <1>1, <2>1 DEF Agrees
      <4>2. QED
        BY <1>2, <2>2, <4>1 DEF ToSet
    <3>3. QED
      BY <1>1, <3>1, <3>2 DEF Staying
  <2>3. ASSUME NEW p \in Staying PROVE ses'[p] = ses[p]
    BY <1>1, <1>2, <2>3 DEF Staying
  <2>4. \A p \in Staying' :
          /\ view'[r][p].known /\ view'[r][p].hp = ses'[p].hp
          /\ r # p => view'[r][p].action = ses'[p].action /\ view'[r][p].facing = ses'[p].facing
    <3> TAKE p \in Staying'
    <3>1. p \in Staying /\ ses'[p] = ses[p] /\ view' = view
      BY <1>1, <1>7, <2>3
    <3>2. /\ view[r][p].known /\ view[r][p].hp = ses[p].hp
          /\ r # p => view[r][p].action = ses[p].action /\ view[r][p].facing = ses[p].facing
      BY <2>1, <3>1 DEF Agrees
    <3>3. QED
      BY <3>1, <3>2
  <2>5. \A k \in 1 .. told' : FALSE
    BY <1>1
  <2>6. \A p \in Early!Ids : view'[r][p].known => p \in alive'
    BY <1>1, <2>2
  <2>7. QED
    BY <2>4, <2>5, <2>6 DEF Agrees
<1>9. QED
  BY <1>3, <1>4, <1>6, <1>8 DEF EarlyInv, EarlyViews

LEMMA EarlyStep == EarlyInv /\ [Early!Next]_(Early!vars) => EarlyInv'
<1> SUFFICES ASSUME EarlyInv, [Early!Next]_(Early!vars) PROVE EarlyInv'
  OBVIOUS
<1>1. ASSUME NEW pos, NEW ok, Early!Accept(pos, ok) PROVE EarlyInv'
  BY <1>1, AcceptSafe
<1>2. ASSUME NEW i \in Early!Ids, Early!PacketProc(i) PROVE EarlyInv'
  <2>1. PICK d \in Directions :
          \/ \E pos \in Claims : Early!Move(i, d, d, pos) \/ Early!Move(i, Early!Stop, d, pos)
          \/ \E k \in DOMAIN Damages : Early!Attack(i, k, d)
    BY <1>2 DEF Early!PacketProc
  <2>2. QED
    BY <2>1, MoveSafe, AttackSafe
<1>3. ASSUME NEW i \in Early!Ids, Early!RecvEnd(i) \/ Early!SendFails(i) PROVE EarlyInv'
  BY <1>3, FailSafe
<1>4. ASSUME \/ Early!AcceptRefused \/ Early!ScanEnds \/ Early!NoFrame
             \/ \E i \in Early!Ids : Early!RecvNothing(i) \/ Early!Send(i)
      PROVE  EarlyInv'
  BY <1>4, IdleSafe
<1>5. CASE UNCHANGED Early!vars
  <2>1. UNCHANGED << phase, readSet, writeSet, told, lastId, alive, ses, eSendQ, eListed, view >>
    BY <1>5 DEF Early!vars, Early!posVars, Early!listVars, Early!outVars
  <2>2. EarlyScan'
    BY <2>1 DEF EarlyInv, EarlyScan
  <2>3. QED
    BY <2>1, <2>2, EarlyRest DEF EarlyInv, EarlyData, EarlyList
<1>6. QED
  BY <1>1, <1>2, <1>3, <1>4, <1>5, SelectSafe, TellSafe, EraseSafe, UpdateSafe DEF Early!Next

(* The first server: ids, list and the clients' views keep together.       *)
THEOREM EarlyInvariance == Early!Spec => []EarlyInv
<1>1. QED
  BY EarlyStarts, EarlyStep, PTL DEF Early!Spec

(* The first server: whoever is given up is a session and on the list      *)
(* once, and every client that is not given up knows exactly the sessions  *)
(* there are, how they move and what hit points they have left             *)
(* (NetWork.cpp:252-396, 660, 676-723).                                    *)
THEOREM EarlyClientsAgree == Early!Spec => []EarlyAgrees
<1>1. EarlyInv => EarlyAgrees
  <2> SUFFICES ASSUME EarlyInv PROVE EarlyAgrees
    OBVIOUS
  <2>1. /\ Early!Given = ToSet(eListed) /\ Staying \subseteq Early!Ids
        /\ Staying = alive \ Early!Given
    BY EarlyIds DEF Staying
  <2>2. Early!ListedOnce
    BY <2>1, EarlyNames DEF Early!ListedOnce, EarlyInv, EarlyList, ListOK
  <2>3. \A r \in Staying : Agrees(r, view[r])
    BY DEF EarlyInv, EarlyViews
  <2>4. Early!ViewExact
    BY <2>1, <2>3 DEF Early!ViewExact, Agrees
  <2>5. Early!MotionKnown
    BY <2>1, <2>3 DEF Early!MotionKnown, Agrees
  <2>6. Early!HitPointsKnown
    BY <2>1, <2>3 DEF Early!HitPointsKnown, Agrees
  <2>7. QED
    BY <2>2, <2>4, <2>5, <2>6 DEF EarlyAgrees
<1>2. QED
  BY <1>1, EarlyInvariance, PTL
==============================================================================
