--------------------------- MODULE PopFifoProofs ---------------------------
(***************************************************************************)
(* PopStream keeps the promises of ReplyFifo, for every chunk size, set of *)
(* replies and number of calls: the buffer and the queue never drift       *)
(* apart, as long as no command is lost.                                   *)
(***************************************************************************)
EXTENDS PopStreamProofs

(* The bytes u are the replies to the commands of q, one behind the other: *)
(* reply k is R[k], and o[k] bytes are in front of it.  The replies at the *)
(* end may be missing, in part or as a whole.                              *)
Frames(q, u, R, o) ==
  /\ R \in [1 .. Len(q) -> Seq(Token)] /\ o \in [1 .. Len(q) + 1 -> Nat]
  /\ o[1] = 0
  /\ \A k \in 1 .. Len(q) : R[k] \in Replies[q[k].cmd] /\ o[k + 1] = o[k] + Len(R[k])
  /\ \A j, k \in 1 .. Len(q) + 1 : j <= k => o[j] <= o[k]
  /\ \A i \in 1 .. o[Len(q) + 1] : \E k \in 1 .. Len(q) : o[k] < i /\ i <= o[k + 1]
  /\ Len(u) <= o[Len(q) + 1]
  /\ \A k \in 1 .. Len(q) : \A i \in 1 .. Len(R[k]) :
       o[k] + i <= Len(u) => u[o[k] + i] = [tok |-> R[k][i], id |-> q[k].id]

Framed(q, u, whole) ==
  \E R, o : Frames(q, u, R, o) /\ (whole => Len(u) = o[Len(q) + 1])

(* The replies to q have n bytes, those that are missing included. *)
FramedTo(q, u, n) == \E R, o : Frames(q, u, R, o) /\ o[Len(q) + 1] = n

(* z is u with the reply r to call e behind it, if it is sent. *)
Sends(u, n, e, r, z) == z = u \/ (Len(u) = n /\ z = u \o ReplyTo(e.id, r))

(* z is what is left of u behind n bytes. *)
Takes(u, n, z) == n <= Len(u) /\ Len(z) = Len(u) - n /\ \A i \in 1 .. Len(z) : z[i] = u[n + i]

----------------------------------------------------------------------------
(* A reply on the wire, byte by byte. *)
LEMMA ReplyBytes ==
  ASSUME NEW id \in Nat, NEW r \in Seq(Token)
  PROVE  /\ ReplyTo(id, r) \in Seq(Unit) /\ Len(ReplyTo(id, r)) = Len(r)
         /\ \A i \in 1 .. Len(r) : ReplyTo(id, r)[i] = [tok |-> r[i], id |-> id]
  <1>1. DOMAIN r = 1 .. Len(r) /\ Len(r) \in Nat
    OBVIOUS
  <1>2. DOMAIN ReplyTo(id, r) = 1 .. Len(r)
    BY <1>1 DEF ReplyTo
  <1>3. ReplyTo(id, r) \in Seq(Unit)
    BY ReplyType
  <1> QED
    BY <1>1, <1>2, <1>3 DEF ReplyTo

(* Where the replies are, as numbers. *)
LEMMA FrameNumbers ==
  ASSUME NEW q \in Seq(Entry), NEW u \in Seq(Unit), NEW R, NEW o, Frames(q, u, R, o)
  PROVE  /\ Len(q) \in Nat /\ Len(u) \in Nat /\ Len(u) <= o[Len(q) + 1]
         /\ \A k \in 1 .. Len(q) + 1 : o[k] \in Nat
         /\ \A k \in 1 .. Len(q) :
              /\ R[k] \in Seq(Token) /\ Len(R[k]) \in Nat /\ k \in 1 .. Len(q) + 1 /\ k + 1 \in 1 .. Len(q) + 1
              /\ o[k] \in Nat /\ o[k + 1] = o[k] + Len(R[k]) /\ o[k + 1] <= o[Len(q) + 1]
         /\ Len(q) + 1 \in 1 .. Len(q) + 1 /\ o[Len(q) + 1] \in Nat
  <1>1. Len(q) \in Nat /\ Len(u) \in Nat
    OBVIOUS
  <1> DEFINE n == Len(q)
  <1> HIDE DEF n
  <1>2. n \in Nat /\ n + 1 \in 1 .. n + 1 /\ \A k \in 1 .. n : k \in 1 .. n + 1 /\ k + 1 \in 1 .. n + 1 /\ k + 1 <= n + 1
    BY <1>1 DEF n
  <1>3. /\ R \in [1 .. n -> Seq(Token)] /\ o \in [1 .. n + 1 -> Nat]
        /\ \A k \in 1 .. n : o[k + 1] = o[k] + Len(R[k])
        /\ \A j, k \in 1 .. n + 1 : j <= k => o[j] <= o[k]
        /\ Len(u) <= o[n + 1]
    BY DEF Frames, n
  <1>4. \A k \in 1 .. n + 1 : o[k] \in Nat
    BY <1>3
  <1>5. \A k \in 1 .. n : R[k] \in Seq(Token) /\ Len(R[k]) \in Nat
    BY <1>3
  <1> QED BY <1>1, <1>2, <1>3, <1>4, <1>5 DEF n

(* A command is queued: its reply is on its way, or will never be sent. *)
LEMMA FramesAppend ==
  ASSUME NEW q \in Seq(Entry), NEW u \in Seq(Unit), NEW R, NEW o, Frames(q, u, R, o),
         NEW e \in Entry, e.cmd \in DOMAIN Replies, NEW r \in Replies[e.cmd],
         NEW z \in Seq(Unit), Sends(u, o[Len(q) + 1], e, r, z)
  PROVE  FramedTo(Append(q, e), z, o[Len(q) + 1] + Len(r))
  <1> DEFINE n == Len(q)
             t == Append(q, e)
             S == [k \in 1 .. n + 1 |-> IF k <= n THEN R[k] ELSE r]
             p == [k \in 1 .. n + 2 |-> IF k <= n + 1 THEN o[k] ELSE o[n + 1] + Len(r)]
  <1>1. /\ n \in Nat /\ Len(t) = n + 1 /\ t[n + 1] = e
        /\ \A k \in 1 .. n : t[k] = q[k]
    OBVIOUS
  <1>2. r \in Seq(Token) /\ Len(r) \in Nat /\ e.id \in Nat
    BY EnvironmentAssumption DEF Entry
  <1>3. /\ R \in [1 .. n -> Seq(Token)] /\ o \in [1 .. n + 1 -> Nat] /\ o[1] = 0
        /\ \A k \in 1 .. n : R[k] \in Replies[q[k].cmd]
        /\ \A j, k \in 1 .. n + 1 : j <= k => o[j] <= o[k]
        /\ \A i \in 1 .. o[n + 1] : \E k \in 1 .. n : o[k] < i /\ i <= o[k + 1]
        /\ \A k \in 1 .. n : \A i \in 1 .. Len(R[k]) :
             o[k] + i <= Len(u) => u[o[k] + i] = [tok |-> R[k][i], id |-> q[k].id]
    BY DEF Frames
  <1>n. /\ n \in Nat /\ Len(u) \in Nat /\ Len(u) <= o[n + 1]
        /\ \A k \in 1 .. n + 1 : o[k] \in Nat
        /\ \A k \in 1 .. n :
              /\ R[k] \in Seq(Token) /\ Len(R[k]) \in Nat /\ k \in 1 .. n + 1 /\ k + 1 \in 1 .. n + 1
              /\ o[k] \in Nat /\ o[k + 1] = o[k] + Len(R[k]) /\ o[k + 1] <= o[n + 1]
        /\ n + 1 \in 1 .. n + 1 /\ o[n + 1] \in Nat
    BY FrameNumbers
  <1>4. \/ z = u
        \/ /\ Len(u) = o[n + 1] /\ Len(z) = Len(u) + Len(r)
           /\ \A i \in 1 .. Len(u) : z[i] = u[i]
           /\ \A i \in 1 .. Len(r) : z[Len(u) + i] = [tok |-> r[i], id |-> e.id]
    <2>1. CASE z = u
      BY <2>1
    <2>2. CASE Len(u) = o[n + 1] /\ z = u \o ReplyTo(e.id, r)
      <3> DEFINE w == ReplyTo(e.id, r)
      <3>1. w \in Seq(Unit) /\ Len(w) = Len(r) /\ \A i \in 1 .. Len(r) : w[i] = [tok |-> r[i], id |-> e.id]
        BY <1>2, ReplyBytes
      <3> HIDE DEF w
      <3>2. Len(z) = Len(u) + Len(r) /\ \A i \in 1 .. Len(u) + Len(r) : z[i] = IF i <= Len(u) THEN u[i] ELSE w[i - Len(u)]
        <4>1. z = u \o w
          BY <2>2 DEF w
        <4>2. Len(z) = Len(u) + Len(w)
          BY <3>1, <4>1, ConcatProperties
        <4>3. \A i \in 1 .. Len(u) + Len(w) : z[i] = IF i <= Len(u) THEN u[i] ELSE w[i - Len(u)]
          BY <3>1, <4>1, ConcatProperties
        <4> QED BY <3>1, <4>2, <4>3
      <3>3. ASSUME NEW i \in 1 .. Len(r)
            PROVE  z[Len(u) + i] = w[i]
        <4>1. Len(u) + i \in 1 .. Len(u) + Len(r) /\ ~(Len(u) + i <= Len(u)) /\ Len(u) + i - Len(u) = i
          BY <1>2, <1>n
        <4> QED BY <3>2, <4>1
      <3>4. \A i \in 1 .. Len(u) : z[i] = u[i]
        BY <1>2, <1>n, <3>2
      <3> QED BY <2>2, <3>1, <3>2, <3>3, <3>4
    <2> QED BY <2>1, <2>2 DEF Sends
  <1> HIDE DEF t, n
  <1>5. /\ \A k \in 1 .. n : S[k] = R[k]
        /\ S[n + 1] = r
        /\ \A k \in 1 .. n + 1 : p[k] = o[k]
        /\ p[n + 2] = o[n + 1] + Len(r)
    BY <1>1, <1>n
  <1>k. /\ \A k \in 1 .. n + 1 : k <= n => k \in 1 .. n
        /\ \A k \in 1 .. n + 1 : ~(k <= n) => k = n + 1
        /\ \A k \in 1 .. n + 2 : k <= n + 1 => k \in 1 .. n + 1
        /\ \A k \in 1 .. n + 2 : ~(k <= n + 1) => k = n + 2
        /\ n + 1 + 1 = n + 2
    BY <1>1
  <1>6. S \in [1 .. n + 1 -> Seq(Token)] /\ p \in [1 .. n + 2 -> Nat]
    BY <1>1, <1>2, <1>n, <1>3, <1>k
  <1> HIDE DEF S, p
  <1>7. \A k \in 1 .. n + 1 : S[k] \in Replies[t[k].cmd] /\ p[k + 1] = p[k] + Len(S[k])
    <2> TAKE k \in 1 .. n + 1
    <2>1. CASE k <= n
      BY <1>1, <1>n, <1>k, <1>3, <1>5, <2>1
    <2>2. CASE k = n + 1
      BY <1>1, <1>k, <1>n, <1>5, <2>2, <1>k
    <2> QED BY <1>1, <2>1, <2>2
  <1>8. \A j, k \in 1 .. n + 2 : j <= k => p[j] <= p[k]
    <2> TAKE j, k \in 1 .. n + 2
    <2> HAVE j <= k
    <2>1. CASE k <= n + 1
      <3>1. j \in 1 .. n + 1 /\ k \in 1 .. n + 1
        BY <1>1, <2>1
      <3> QED BY <1>3, <1>5, <3>1
    <2>2. CASE k = n + 2 /\ j <= n + 1
      <3>1. o[j] <= o[n + 1] /\ p[j] = o[j] /\ o[j] \in Nat /\ o[n + 1] \in Nat
        BY <1>1, <1>n, <1>k, <1>3, <1>5, <2>2
      <3> QED BY <1>2, <1>5, <2>2, <3>1
    <2>3. CASE k = n + 2 /\ j = n + 2
      BY <1>6, <2>3
    <2> QED BY <1>1, <2>1, <2>2, <2>3
  <1>9. \A i \in 1 .. p[n + 2] : \E k \in 1 .. n + 1 : p[k] < i /\ i <= p[k + 1]
    <2> TAKE i \in 1 .. p[n + 2]
    <2>1. CASE i <= o[n + 1]
      <3>1. PICK k \in 1 .. n : o[k] < i /\ i <= o[k + 1]
        BY <1>1, <1>n, <1>k, <1>3, <2>1 
      <3> QED BY <1>1, <1>k, <1>n, <1>5, <3>1
    <2>2. CASE i > o[n + 1]
      <3>1. p[n + 1] < i /\ i <= p[n + 1 + 1] /\ n + 1 \in 1 .. n + 1
        BY <1>1, <1>k, <1>n, <1>5, <1>3, <2>2
      <3> QED BY <3>1
    <2> QED BY <1>1, <1>2, <1>n, <1>3, <1>5, <2>1, <2>2
  <1>10. Len(z) <= p[n + 2]
    BY <1>1, <1>2, <1>n, <1>3, <1>4, <1>5
  <1>11. \A k \in 1 .. n + 1 : \A i \in 1 .. Len(S[k]) :
           p[k] + i <= Len(z) => z[p[k] + i] = [tok |-> S[k][i], id |-> t[k].id]
    <2> TAKE k \in 1 .. n + 1
    <2> TAKE i \in 1 .. Len(S[k])
    <2> HAVE p[k] + i <= Len(z)
    <2>1. CASE k <= n
      <3>1. S[k] = R[k] /\ p[k] = o[k] /\ t[k] = q[k] /\ k \in 1 .. n /\ o[k] \in Nat /\ Len(R[k]) \in Nat
        BY <1>1, <1>n, <1>k, <1>3, <1>5, <2>1
      <3>2. o[k] + i <= o[n + 1]
        <4>1. o[k + 1] <= o[n + 1] /\ o[k + 1] = o[k] + Len(R[k]) /\ o[n + 1] \in Nat
          BY <1>1, <1>n, <1>k, <1>3, <3>1
        <4> QED BY <3>1, <4>1
      <3>3. o[k] + i \in 1 .. Len(u)
        BY <1>3, <1>4, <3>1, <3>2
      <3>4. u[o[k] + i] = [tok |-> R[k][i], id |-> q[k].id]
        <4>1. i \in 1 .. Len(R[k]) /\ o[k] + i <= Len(u)
          BY <1>n, <3>1, <3>3
        <4> QED BY <1>3, <3>1, <4>1
      <3> QED BY <1>4, <3>1, <3>3, <3>4
    <2>2. CASE k = n + 1
      <3>1. S[k] = r /\ p[k] = o[n + 1] /\ t[k] = e /\ o[n + 1] \in Nat
        BY <1>1, <1>n, <1>k, <1>3, <1>5, <2>2
      <3>2. z # u
        BY <1>n, <3>1, <1>2
      <3> QED BY <1>4, <3>1, <3>2
    <2> QED BY <1>1, <2>1, <2>2
  <1>12. Frames(t, z, S, p)
    <2>1. p[1] = 0
      BY <1>1, <1>3, <1>5
    <2>2. Len(t) = n + 1 /\ Len(t) + 1 = n + 2
      BY <1>1
    <2> QED BY <1>6, <1>7, <1>8, <1>9, <1>10, <1>11, <2>1, <2>2 DEF Frames
  <1>13. p[Len(t) + 1] = o[n + 1] + Len(r)
    BY <1>1, <1>k, <1>5
  <1> QED BY <1>12, <1>13 DEF t, n, FramedTo

(* Bytes that are not there (yet) break no frame. *)
LEMMA FramesCut ==
  ASSUME NEW q \in Seq(Entry), NEW u \in Seq(Unit), NEW v \in Seq(Unit), NEW R, NEW o, Frames(q, u, R, o),
         Len(v) <= Len(u), \A i \in 1 .. Len(v) : v[i] = u[i]
  PROVE  Frames(q, v, R, o)
  <1>1. /\ Len(q) \in Nat /\ Len(u) \in Nat /\ Len(u) <= o[Len(q) + 1] /\ o[Len(q) + 1] \in Nat
        /\ \A k \in 1 .. Len(q) : o[k] \in Nat /\ R[k] \in Seq(Token)
    BY FrameNumbers
  <1>2. Len(v) \in Nat /\ Len(v) <= o[Len(q) + 1]
    BY <1>1
  <1>3. ASSUME NEW k \in 1 .. Len(q), NEW i \in 1 .. Len(R[k]), o[k] + i <= Len(v)
        PROVE  v[o[k] + i] = [tok |-> R[k][i], id |-> q[k].id]
    <2>1. o[k] + i \in 1 .. Len(v) /\ o[k] + i <= Len(u)
      BY <1>1, <1>2, <1>3
    <2>2. u[o[k] + i] = [tok |-> R[k][i], id |-> q[k].id]
      BY <2>1 DEF Frames
    <2> QED BY <2>1, <2>2
  <1> QED BY <1>2, <1>3 DEF Frames

(* The oldest command is answered and the bytes of its reply are taken. *)
LEMMA FramesTail ==
  ASSUME NEW q \in Seq(Entry), q # <<>>, NEW u \in Seq(Unit), NEW R, NEW o, Frames(q, u, R, o),
         NEW z \in Seq(Unit), Takes(u, Len(R[1]), z)
  PROVE  FramedTo(Tail(q), z, o[Len(q) + 1] - Len(R[1]))
  <1> DEFINE n == Len(q)
             a == Len(R[1])
             t == Tail(q)
             S == [k \in 1 .. n - 1 |-> R[k + 1]]
             p == [k \in 1 .. n |-> o[k + 1] - a]
  <1>1. /\ n \in Nat /\ n >= 1 /\ Len(t) = n - 1 /\ t \in Seq(Entry)
        /\ \A k \in 1 .. n - 1 : t[k] = q[k + 1]
    BY HeadTailProperties
  <1>2. /\ R \in [1 .. n -> Seq(Token)] /\ o \in [1 .. n + 1 -> Nat] /\ o[1] = 0
        /\ \A k \in 1 .. n : R[k] \in Replies[q[k].cmd]
        /\ \A j, k \in 1 .. n + 1 : j <= k => o[j] <= o[k]
        /\ \A i \in 1 .. o[n + 1] : \E k \in 1 .. n : o[k] < i /\ i <= o[k + 1]
        /\ \A k \in 1 .. n : \A i \in 1 .. Len(R[k]) :
             o[k] + i <= Len(u) => u[o[k] + i] = [tok |-> R[k][i], id |-> q[k].id]
    BY DEF Frames
  <1>3. /\ n \in Nat /\ Len(u) \in Nat /\ Len(u) <= o[n + 1]
        /\ \A k \in 1 .. n + 1 : o[k] \in Nat
        /\ \A k \in 1 .. n :
              /\ R[k] \in Seq(Token) /\ Len(R[k]) \in Nat /\ k \in 1 .. n + 1 /\ k + 1 \in 1 .. n + 1
              /\ o[k] \in Nat /\ o[k + 1] = o[k] + Len(R[k]) /\ o[k + 1] <= o[n + 1]
        /\ n + 1 \in 1 .. n + 1 /\ o[n + 1] \in Nat
    BY FrameNumbers
  <1>z. Len(z) = Len(u) - a /\ \A i \in 1 .. Len(z) : z[i] = u[a + i]
    BY DEF Takes
  <1>y. Len(u) \in Int /\ Len(z) \in Int /\ Len(z) = Len(u) - a
    BY DEF Takes
  <1>4. a \in Nat /\ o[2] = a /\ Len(z) \in Nat
    <2>1. 1 \in 1 .. n /\ 1 + 1 = 2
      BY <1>1
    <2>2. a \in Nat /\ o[2] = a
      BY <1>2, <1>3, <2>1
    <2> QED BY <2>2
  <1>x. a \in Int
    BY <1>4
  <1>5. \A k \in 1 .. n - 1 : k + 1 \in 1 .. n /\ k \in 1 .. n /\ k + 1 + 1 \in 1 .. n + 1
    BY <1>1
  <1>6. \A k \in 1 .. n : k + 1 \in 1 .. n + 1 /\ o[k + 1] - a \in Nat /\ o[k + 1] \in Nat
    <2> TAKE k \in 1 .. n
    <2>1. 2 \in 1 .. n + 1 /\ k + 1 \in 1 .. n + 1 /\ 2 <= k + 1
      BY <1>1
    <2>2. o[2] <= o[k + 1] /\ o[k + 1] \in Nat
      BY <1>2, <1>3, <2>1
    <2> QED BY <1>4, <2>1, <2>2
  <1> HIDE DEF n, a, t
  <1>7. S \in [1 .. n - 1 -> Seq(Token)] /\ p \in [1 .. n -> Nat]
    BY <1>3, <1>5, <1>6
  <1>8. /\ \A k \in 1 .. n - 1 : S[k] = R[k + 1]
        /\ \A k \in 1 .. n : p[k] = o[k + 1] - a
    OBVIOUS
  <1> HIDE DEF S, p
  <1>9. p[1] = 0
    <2>1. 1 \in 1 .. n /\ 1 + 1 = 2
      BY <1>1
    <2> QED BY <1>4, <1>8, <2>1
  <1>10. \A k \in 1 .. n - 1 : S[k] \in Replies[t[k].cmd] /\ p[k + 1] = p[k] + Len(S[k])
    <2> TAKE k \in 1 .. n - 1
    <2>1. S[k] = R[k + 1] /\ t[k] = q[k + 1] /\ R[k + 1] \in Replies[q[k + 1].cmd]
      BY <1>1, <1>2, <1>5, <1>8
    <2>2. o[k + 1 + 1] = o[k + 1] + Len(R[k + 1]) /\ o[k + 1] \in Nat /\ Len(R[k + 1]) \in Nat
      BY <1>3, <1>5
    <2>3. p[k + 1] = o[k + 1 + 1] - a /\ p[k] = o[k + 1] - a
      BY <1>5, <1>8
    <2> QED BY <1>4, <2>1, <2>2, <2>3
  <1>11. \A j, k \in 1 .. n : j <= k => p[j] <= p[k]
    <2> TAKE j, k \in 1 .. n
    <2> HAVE j <= k
    <2>1. j + 1 \in 1 .. n + 1 /\ k + 1 \in 1 .. n + 1 /\ j + 1 <= k + 1
      BY <1>1
    <2>2. o[j + 1] <= o[k + 1] /\ o[j + 1] \in Nat /\ o[k + 1] \in Nat
      BY <1>2, <1>3, <2>1
    <2> QED BY <1>4, <1>8, <2>2
  <1>12. n \in 1 .. n /\ n - 1 + 1 = n /\ p[n] = o[n + 1] - a
    BY <1>1, <1>8
  <1>13. \A i \in 1 .. p[n] : \E k \in 1 .. n - 1 : p[k] < i /\ i <= p[k + 1]
    <2> TAKE i \in 1 .. p[n]
    <2>1. a + i \in 1 .. o[n + 1]
      BY <1>3, <1>4, <1>12
    <2>2. PICK k \in 1 .. n : o[k] < a + i /\ a + i <= o[k + 1]
      BY <1>2, <2>1
    <2>3. k # 1
      <3>1. i >= 1 /\ i \in Int
        BY <1>3, <1>4, <1>12
      <3> QED BY <1>4, <2>2, <3>1
    <2>4. k - 1 \in 1 .. n - 1 /\ k - 1 + 1 = k /\ k - 1 \in 1 .. n
      BY <1>1, <2>3
    <2>5. p[k - 1] = o[k] - a /\ p[k] = o[k + 1] - a /\ o[k] \in Nat /\ o[k + 1] \in Nat
      BY <1>3, <1>8, <2>4
    <2>6. p[k - 1] < i /\ i <= p[k - 1 + 1]
      BY <1>4, <2>2, <2>4, <2>5
    <2> QED BY <2>4, <2>6
  <1>14. Len(z) <= p[n]
    BY <1>z, <1>3, <1>4, <1>12
  <1>15. ASSUME NEW k \in 1 .. n - 1, NEW i \in 1 .. Len(S[k]), p[k] + i <= Len(z)
         PROVE  z[p[k] + i] = [tok |-> S[k][i], id |-> t[k].id]
    <2>1. S[k] = R[k + 1] /\ t[k] = q[k + 1] /\ p[k] = o[k + 1] - a /\ o[k + 1] \in Nat
          /\ p[k] \in Nat /\ i \in 1 .. Len(R[k + 1]) /\ Len(R[k + 1]) \in Nat
      BY <1>1, <1>3, <1>5, <1>6, <1>8
    <2>2. p[k] + i \in 1 .. Len(z)
      BY <1>4, <1>15, <2>1
    <2>3. z[p[k] + i] = u[a + (p[k] + i)] /\ a + (p[k] + i) = o[k + 1] + i
      <3>1. a + (p[k] + i) = o[k + 1] + i
        BY <1>4, <2>1
      <3> QED BY <1>z, <2>2, <3>1
    <2>4. o[k + 1] + i <= Len(u)
      <3>1. Len(u) \in Int /\ Len(z) = Len(u) - a /\ a \in Int /\ Len(z) \in Int
        BY <1>y, <1>x
      <3>4. i \in Int /\ o[k + 1] \in Int /\ p[k] \in Int
        BY <2>1
      <3>2. p[k] = o[k + 1] - a /\ o[k + 1] \in Nat /\ p[k] + i <= Len(z)
        BY <1>15, <2>1
      <3>3. \A L, Z, A, I, P, O \in Int : Z = L - A /\ P = O - A /\ P + I <= Z => O + I <= L
        OBVIOUS
      <3> DEFINE L == Len(u)
                 Z == Len(z)
      <3> HIDE DEF L, Z
      <3>5. L \in Int /\ Z \in Int /\ Z = L - a /\ p[k] + i <= Z
        BY <3>1, <3>2 DEF L, Z
      <3>6. o[k + 1] + i <= L
        BY <3>1, <3>2, <3>3, <3>4, <3>5
      <3> QED BY <3>6 DEF L
    <2>5. u[o[k + 1] + i] = [tok |-> R[k + 1][i], id |-> q[k + 1].id]
      BY <1>2, <1>5, <2>1, <2>4
    <2> QED BY <2>1, <2>3, <2>5
  <1>16. Frames(t, z, S, p)
    BY <1>1, <1>7, <1>9, <1>10, <1>11, <1>12, <1>13, <1>14, <1>15 DEF Frames
  <1>17. p[Len(t) + 1] = o[n + 1] - a
    BY <1>1, <1>12
  <1> QED BY <1>16, <1>17 DEF t, n, a, FramedTo

----------------------------------------------------------------------------
(* The bytes that were sent and not consumed. *)
Bytes(b, c, w) == SubSeq(b, 1, c) \o w

LEMMA BytesAre ==
  ASSUME NEW b \in Seq(Unit), NEW c \in Nat, c <= Len(b), NEW w \in Seq(Unit)
  PROVE  /\ Bytes(b, c, w) \in Seq(Unit) /\ Len(Bytes(b, c, w)) = c + Len(w)
         /\ \A i \in 1 .. c : Bytes(b, c, w)[i] = b[i]
         /\ \A i \in 1 .. Len(w) : Bytes(b, c, w)[c + i] = w[i]
  <1> DEFINE f == SubSeq(b, 1, c)
             g == f \o w
  <1>1. f \in Seq(Unit) /\ Len(f) = c /\ \A i \in 1 .. c : f[i] = b[i]
    OBVIOUS
  <1> HIDE DEF f
  <1>2. Len(w) \in Nat
    OBVIOUS
  <1>3. g \in Seq(Unit) /\ Len(g) = c + Len(w)
    BY <1>1, ConcatProperties
  <1>4. \A i \in 1 .. c + Len(w) : g[i] = IF i <= c THEN f[i] ELSE w[i - c]
    BY <1>1, ConcatProperties
  <1> HIDE DEF g
  <1>5. \A i \in 1 .. c : g[i] = b[i]
    BY <1>1, <1>2, <1>4
  <1>6. ASSUME NEW i \in 1 .. Len(w)
        PROVE  g[c + i] = w[i]
    <2>1. c + i \in 1 .. c + Len(w) /\ ~(c + i <= c) /\ c + i - c = i
      BY <1>2
    <2> QED BY <1>4, <2>1
  <1>7. Bytes(b, c, w) = g
    BY DEF Bytes, f, g
  <1> QED BY <1>3, <1>5, <1>6, <1>7

(* The commands of the queue are known to the server and in the order of   *)
(* the calls.                                                              *)
QueueInv ==
  /\ \A k \in 1 .. Len(queue) : queue[k].cmd \in DOMAIN Replies /\ queue[k].id \in 1 .. sent
  /\ \A j, k \in 1 .. Len(queue) : j < k => queue[j].id < queue[k].id

(* All bytes answer some call, unless an invalid response took them away.  *)
BytesInv ==
  session \in {"sound", "orphaned"} =>
    /\ cursor <= Len(inner)
    /\ \A i \in 1 .. cursor : inner[i].id \in 1 .. sent
    /\ \A i \in 1 .. Len(wire) : wire[i].id \in 1 .. sent

(* In a sound session they are the replies to the queue, one by one.       *)
FrameInv == session = "sound" => Framed(queue, Unread, conn = "open")

FifoInv == FailInv /\ QueueInv /\ BytesInv /\ FrameInv

----------------------------------------------------------------------------
(* A reply found in the buffer is exactly the reply to the oldest command, *)
(* and a reply that is there as a whole is found.                          *)
LEMMA HeadReply ==
  ASSUME FifoInv, cursor <= Len(inner), queue # <<>>, session = "sound",
         NEW R, NEW o, Frames(queue, Unread, R, o)
  PROVE  /\ Parsed.tag = "done" => Parsed.used = Len(R[1])
         /\ Parsed.tag = "incomplete" => cursor < Len(R[1])
         /\ \A i \in 1 .. cursor : i <= Len(R[1]) => inner[i].id = queue[1].id
  <1> DEFINE r == R[1]
  <1>1. /\ inner \in Seq(Unit) /\ cursor \in Nat /\ cursor <= Len(inner) /\ wire \in Seq(Unit)
        /\ queue \in Seq(Entry) /\ Len(queue) \in Nat /\ Len(queue) >= 1 /\ TypeInv
    <2>1. TypeInv /\ TypeOK
      BY DEF FifoInv, FailInv, NeedInv, TypeInv
    <2> QED BY <2>1, SizeAssumption DEF TypeOK
  <1>2. /\ Received \in Seq(Token) /\ Len(Received) = cursor /\ current \in Command
        /\ \A i \in 1 .. cursor : Received[i] = inner[i].tok
    BY <1>1, ReceivedType DEF Received
  <1>3. 1 \in 1 .. Len(queue) /\ current = queue[1].cmd /\ current \in DOMAIN Replies
    BY <1>1 DEF FifoInv, QueueInv, current
  <1>4. r \in Replies[current] /\ r \in Seq(Token) /\ Len(r) \in Nat /\ o[1] = 0
    BY <1>3, EnvironmentAssumption DEF Frames
  <1>5. /\ Len(Unread) = cursor + Len(wire) /\ Len(wire) \in Nat
        /\ \A i \in 1 .. cursor : Unread[i] = inner[i]
    <2>1. Unread = Bytes(inner, cursor, wire)
      BY DEF Unread, Bytes
    <2>2. /\ Len(Bytes(inner, cursor, wire)) = cursor + Len(wire)
          /\ \A i \in 1 .. cursor : Bytes(inner, cursor, wire)[i] = inner[i]
      BY <1>1, BytesAre
    <2>3. Len(wire) \in Nat
      BY <1>1
    <2> QED BY <2>1, <2>2, <2>3
  <1>6. \A i \in 1 .. cursor : i <= Len(r) => inner[i] = [tok |-> r[i], id |-> queue[1].id]
    <2> TAKE i \in 1 .. cursor
    <2> HAVE i <= Len(r)
    <2>1. Unread[i] = inner[i] /\ Len(Unread) = cursor + Len(wire) /\ Len(wire) \in Nat
      BY <1>5
    <2>2. i \in 1 .. Len(r) /\ o[1] + i <= Len(Unread) /\ o[1] + i = i
      BY <1>1, <1>4, <2>1
    <2>3. Unread[o[1] + i] = [tok |-> r[i], id |-> queue[1].id]
      BY <1>3, <2>2 DEF Frames
    <2> QED BY <2>1, <2>2, <2>3
  <1>11. \A i \in 1 .. cursor : i <= Len(r) => inner[i].tok = r[i] /\ inner[i].id = queue[1].id
    <2> TAKE i \in 1 .. cursor
    <2> HAVE i <= Len(r)
    <2>1. inner[i] = [tok |-> r[i], id |-> queue[1].id]
      BY <1>6
    <2> HIDE DEF r
    <2> QED BY <2>1
  <1> HIDE DEF r
  <1>7. \A i \in 1 .. cursor : i <= Len(r) => Received[i] = r[i]
    BY <1>2, <1>11
  <1>8. parse(r, current).tag = "reject" \/ (parse(r, current).tag = "done" /\ parse(r, current).used = Len(r))
    BY <1>3, <1>4, ReplyAssumption
  <1>9. ASSUME cursor < Len(r)
        PROVE  Parsed.tag = "done" => Parsed.used = Len(r)
    <2>1. Extends(r, Received)
      BY <1>1, <1>2, <1>4, <1>7, <1>9 DEF Extends
    <2>2. ASSUME Parsed.tag = "done"
          PROVE  Parsed.used = Len(r)
      <3>1. parse(r, current) = Parsed
        BY <1>2, <1>4, <2>1, <2>2, ParseStable DEF Parsed
      <3> QED BY <1>8, <2>2, <3>1
    <2> QED BY <1>9, <2>2
  <1>10. ASSUME cursor >= Len(r)
        PROVE  Parsed.tag # "incomplete" /\ (Parsed.tag = "done" => Parsed.used = Len(r))
    <2>1. Extends(Received, r)
      BY <1>1, <1>2, <1>4, <1>7, <1>10 DEF Extends
    <2>2. Parsed = parse(r, current)
      BY <1>2, <1>4, <1>8, <2>1, ParseStable DEF Parsed
    <2> QED BY <1>8, <2>2
  <1>12. cursor < Len(r) \/ cursor >= Len(r)
    BY <1>1, <1>4
  <1> QED BY <1>9, <1>10, <1>11, <1>12 DEF r

----------------------------------------------------------------------------
(* The bytes of a buffer that was not lost, before and after a step. *)
LEMMA UnreadBytes ==
  ASSUME TypeInv, cursor <= Len(inner)
  PROVE  /\ Unread \in Seq(Unit) /\ Len(Unread) = cursor + Len(wire)
         /\ cursor \in Nat /\ Len(wire) \in Nat /\ Len(inner) \in Nat
         /\ \A i \in 1 .. cursor : Unread[i] = inner[i]
         /\ \A i \in 1 .. Len(wire) : Unread[cursor + i] = wire[i]
  <1>1. /\ inner \in Seq(Unit) /\ wire \in Seq(Unit) /\ cursor \in Nat
        /\ Len(wire) \in Nat /\ Len(inner) \in Nat
    BY SizeAssumption DEF TypeInv, TypeOK
  <1>2. Unread = Bytes(inner, cursor, wire)
    BY DEF Unread, Bytes
  <1>3. /\ Bytes(inner, cursor, wire) \in Seq(Unit)
        /\ Len(Bytes(inner, cursor, wire)) = cursor + Len(wire)
        /\ \A i \in 1 .. cursor : Bytes(inner, cursor, wire)[i] = inner[i]
        /\ \A i \in 1 .. Len(wire) : Bytes(inner, cursor, wire)[cursor + i] = wire[i]
    BY <1>1, BytesAre, Zenon
  <1> QED BY <1>1, <1>2, <1>3, Zenon

LEMMA UnreadBytesNext ==
  ASSUME TypeInv', cursor' <= Len(inner')
  PROVE  /\ Unread' \in Seq(Unit) /\ Len(Unread') = cursor' + Len(wire')
         /\ cursor' \in Nat /\ Len(wire') \in Nat /\ Len(inner') \in Nat
         /\ \A i \in 1 .. cursor' : Unread'[i] = inner'[i]
         /\ \A i \in 1 .. Len(wire') : Unread'[cursor' + i] = wire'[i]
  <1>1. /\ inner' \in Seq(Unit) /\ wire' \in Seq(Unit) /\ cursor' \in Nat
        /\ Len(wire') \in Nat /\ Len(inner') \in Nat
    BY SizeAssumption DEF TypeInv, TypeOK
  <1>2. Unread' = Bytes(inner', cursor', wire')
    BY DEF Unread, Bytes
  <1>3. /\ Bytes(inner', cursor', wire') \in Seq(Unit)
        /\ Len(Bytes(inner', cursor', wire')) = cursor' + Len(wire')
        /\ \A i \in 1 .. cursor' : Bytes(inner', cursor', wire')[i] = inner'[i]
        /\ \A i \in 1 .. Len(wire') : Bytes(inner', cursor', wire')[cursor' + i] = wire'[i]
    BY <1>1, BytesAre, Zenon
  <1> QED BY <1>1, <1>2, <1>3, Zenon

(* reset_with puts what is behind the reply to the front of the buffer. *)
LEMMA DoneMoves ==
  ASSUME TypeInv, DecodeDone
  PROVE  /\ Parsed.used \in 1 .. cursor /\ cursor \in Nat
         /\ cursor' = cursor - Parsed.used /\ cursor' \in Nat /\ cursor' <= Len(inner')
         /\ \A i \in 1 .. cursor' : inner'[i] = inner[Parsed.used + i]
         /\ wire' = wire /\ queue # <<>> /\ queue' = Tail(queue)
         /\ conn' = conn /\ session' = session /\ sent' = sent
  <1> DEFINE x == remaining
             y == zeroed(Chunk - Len(x))
  <1>1. Decodes /\ Parsed.tag = "done" /\ Len(x) <= Chunk
    BY DEF DecodeDone
  <1>2. /\ Parsed.used \in 1 .. cursor /\ queue # <<>> /\ inner \in Seq(Unit)
        /\ cursor \in Nat /\ cursor <= Len(inner) /\ Len(inner) \in Nat
    BY <1>1, ParsedType, SizeAssumption DEF TypeInv, TypeOK, Decodes
  <1>3. x \in Seq(Unit) /\ Len(x) = cursor - Parsed.used /\ Len(x) \in Nat
    BY <1>1, RemainingType
  <1>4. y \in Seq(Unit) /\ Len(y) = Chunk - Len(x)
    BY <1>1, <1>3, ZeroedType, SizeAssumption
  <1>5. \A i \in 1 .. Len(x) : x[i] = inner[Parsed.used + i]
    <2> DEFINE m == Parsed.used
    <2>1. m \in 1 .. cursor /\ Len(x) = cursor - m /\ x = SubSeq(inner, m + 1, cursor)
      BY <1>2, <1>3 DEF remaining
    <2> HIDE DEF m, x
    <2>2. \A i \in 1 .. cursor - m : SubSeq(inner, m + 1, cursor)[i] = inner[m + i]
      BY <1>2, <2>1
    <2> QED BY <2>1, <2>2 DEF m
  <1>6. inner' = x \o y /\ cursor' = Len(x)
    BY DEF DecodeDone, reset_with
  <1> HIDE DEF x, y
  <1>8. Len(y) \in Nat
    BY <1>4
  <1>7. Len(inner') = Len(x) + Len(y) /\ \A i \in 1 .. Len(x) : inner'[i] = x[i]
    <2>1. Len(x \o y) = Len(x) + Len(y)
      BY <1>3, <1>4, ConcatProperties
    <2>2. \A i \in 1 .. Len(x) + Len(y) : (x \o y)[i] = IF i <= Len(x) THEN x[i] ELSE y[i - Len(x)]
      BY <1>3, <1>4, ConcatProperties
    <2>3. \A i \in 1 .. Len(x) : i \in 1 .. Len(x) + Len(y) /\ i <= Len(x)
      BY <1>3, <1>8
    <2> QED BY <1>6, <2>1, <2>2, <2>3
  <1> QED BY <1>2, <1>3, <1>5, <1>6, <1>7, <1>8 DEF DecodeDone, mark_current_as_done

(* A read moves bytes from the wire behind the cursor. *)
LEMMA ReadMoves ==
  ASSUME TypeInv, NEW n \in 1 .. Len(wire), PollRead(n)
  PROVE  /\ cursor \in Nat /\ n \in Nat /\ n >= 1 /\ Len(wire) \in Nat /\ cursor <= Len(inner)
         /\ cursor' = cursor + n /\ cursor' <= Len(inner')
         /\ \A i \in 1 .. cursor : inner'[i] = inner[i]
         /\ \A i \in 1 .. n : inner'[cursor + i] = wire[i]
         /\ Len(wire') = Len(wire) - n /\ \A i \in 1 .. Len(wire') : wire'[i] = wire[n + i]
  <1>1. /\ inner \in Seq(Unit) /\ wire \in Seq(Unit) /\ cursor \in Nat /\ n \in Nat /\ n >= 1
        /\ Len(wire) \in Nat /\ Len(inner) \in Nat /\ cursor + n <= Len(inner) /\ n <= Len(wire)
    BY SizeAssumption DEF TypeInv, TypeOK, PollRead, free_bytes
  <1>2. inner' = Filled(n) /\ cursor' = cursor + n /\ wire' = SubSeq(wire, n + 1, Len(wire))
    BY DEF PollRead
  <1>3. DOMAIN inner = 1 .. Len(inner)
    BY <1>1
  <1>4. Len(inner') = Len(inner)
    BY <1>1, <1>2, <1>3 DEF Filled
  <1>5. \A i \in 1 .. cursor : inner'[i] = inner[i]
    BY <1>1, <1>2, <1>3 DEF Filled
  <1>6. ASSUME NEW i \in 1 .. n
        PROVE  inner'[cursor + i] = wire[i]
    <2>1. cursor + i \in 1 .. Len(inner) /\ cursor + i \in cursor + 1 .. cursor + n /\ cursor + i - cursor = i
      BY <1>1
    <2>2. \A k \in DOMAIN inner :
            inner'[k] = IF k \in cursor + 1 .. cursor + n THEN wire[k - cursor] ELSE inner[k]
      BY <1>2 DEF Filled
    <2>3. cursor + i \in DOMAIN inner
      BY <1>3, <2>1
    <2> DEFINE k == cursor + i
    <2>4. k \in DOMAIN inner
      BY <2>3
    <2>6. k \in cursor + 1 .. cursor + n /\ k - cursor = i
      BY <1>1, <2>1
    <2> HIDE DEF k
    <2>5. inner'[k] = wire[i]
      BY <2>2, <2>4, <2>6
    <2> QED BY <2>5 DEF k
  <1>7. Len(wire') = Len(wire) - n /\ \A i \in 1 .. Len(wire) - n : wire'[i] = wire[n + i]
    BY <1>1, <1>2
  <1> QED BY <1>1, <1>2, <1>4, <1>5, <1>6, <1>7

----------------------------------------------------------------------------
(* A step that consumes nothing and sends nothing keeps the frames, and    *)
(* may lose bytes at the end when the connection is not open.              *)
LEMMA SameFrames ==
  ASSUME TypeInv, TypeInv', FrameInv, queue' = queue, session' = session,
         cursor <= Len(inner), cursor' <= Len(inner'),
         Len(Unread') <= Len(Unread), \A i \in 1 .. Len(Unread') : Unread'[i] = Unread[i],
         conn' = "open" => conn = "open" /\ Len(Unread') = Len(Unread)
  PROVE  FrameInv'
  <1> SUFFICES ASSUME session = "sound"
               PROVE  Framed(queue', Unread', conn' = "open")
    BY DEF FrameInv
  <1>1. PICK R, o : Frames(queue, Unread, R, o) /\ (conn = "open" => Len(Unread) = o[Len(queue) + 1])
    BY DEF FrameInv, Framed
  <1>2. queue \in Seq(Entry) /\ Unread \in Seq(Unit) /\ Unread' \in Seq(Unit)
    BY UnreadBytes, UnreadBytesNext DEF TypeInv, TypeOK
  <1>3. Frames(queue', Unread', R, o)
    BY <1>1, <1>2, FramesCut
  <1> QED BY <1>1, <1>3 DEF Framed

(* A call queues its command behind all the others, and its reply behind   *)
(* all other bytes.                                                        *)
LEMMA SendFrames ==
  ASSUME FifoInv, TypeInv', NEW c \in DOMAIN Replies, NEW r \in Replies[c], SendRequest(c, r)
  PROVE  FrameInv'
  <1> SUFFICES ASSUME session = "sound"
               PROVE  Framed(queue', Unread', conn' = "open")
    BY DEF SendRequest, FrameInv
  <1>1. TypeInv /\ cursor <= Len(inner) /\ queue \in Seq(Entry) /\ inner' = inner /\ cursor' = cursor
    BY DEF FifoInv, FailInv, NeedInv, TypeInv, TypeOK, BytesInv, SendRequest, buffer
  <1>2. PICK R, o : Frames(queue, Unread, R, o) /\ (conn = "open" => Len(Unread) = o[Len(queue) + 1])
    BY DEF FifoInv, FrameInv, Framed
  <1> DEFINE e == [cmd |-> c, id |-> sent']
             w == ReplyTo(sent', r)
  <1>3. sent' \in Nat /\ e \in Entry /\ e.cmd = c /\ e.id = sent'
    <2>1. sent' \in Nat
      BY SizeAssumption DEF TypeInv, TypeOK
    <2> QED BY <2>1, EnvironmentAssumption DEF Entry
  <1>4. w \in Seq(Unit) /\ Len(w) = Len(r) /\ Len(r) \in Nat
    BY <1>3, ReplyBytes, EnvironmentAssumption
  <1>5. queue' = Append(queue, e) /\ conn' = conn
    BY DEF SendRequest, add
  <1>6. Unread \in Seq(Unit) /\ Unread' \in Seq(Unit)
    BY <1>1, UnreadBytes, UnreadBytesNext
  <1>7. \/ Unread' = Unread /\ conn # "open"
        \/ conn = "open" /\ Unread' = Unread \o w
    <2>1. CASE conn # "open"
      BY <1>1, <2>1 DEF SendRequest, Unread
    <2>2. CASE conn = "open"
      <3>1. wire' = wire \o w
        BY <2>2 DEF SendRequest
      <3> DEFINE f == SubSeq(inner, 1, cursor)
      <3>2. f \in Seq(Unit) /\ wire \in Seq(Unit)
        BY <1>1, SizeAssumption DEF TypeInv, TypeOK
      <3>3. Unread = f \o wire /\ Unread' = f \o (wire \o w)
        BY <1>1, <3>1 DEF Unread
      <3> HIDE DEF f, w
      <3>4. f \o (wire \o w) = (f \o wire) \o w
        BY <1>4, <3>2, ConcatAssociative
      <3> QED BY <2>2, <3>3, <3>4
    <2> QED BY <2>1, <2>2
  <1>8. Unread' = Unread \/ (Len(Unread) = o[Len(queue) + 1] /\ Unread' = Unread \o ReplyTo(e.id, r))
    BY <1>2, <1>3, <1>7
  <1>9. r \in Replies[e.cmd] /\ e.cmd \in DOMAIN Replies
    BY <1>3
  <1> HIDE DEF e
  <1>10. PICK S, p : /\ Frames(Append(queue, e), Unread', S, p)
                     /\ p[Len(Append(queue, e)) + 1] = o[Len(queue) + 1] + Len(r)
    <2>1. Sends(Unread, o[Len(queue) + 1], e, r, Unread')
      BY <1>8 DEF Sends
    <2>2. FramedTo(Append(queue, e), Unread', o[Len(queue) + 1] + Len(r))
      BY <1>1, <1>2, <1>3, <1>6, <1>9, <2>1, FramesAppend
    <2> QED BY <2>2 DEF FramedTo
  <1>11. conn' = "open" => Len(Unread') = p[Len(queue') + 1]
    BY <1>2, <1>4, <1>5, <1>6, <1>7, <1>10, ConcatProperties
  <1> QED BY <1>5, <1>10, <1>11 DEF Framed

(* A reply that was found leaves the queue and the buffer together. *)
LEMMA DoneFrames ==
  ASSUME FifoInv, TypeInv', DecodeDone
  PROVE  FrameInv'
  <1> SUFFICES ASSUME session = "sound"
               PROVE  Framed(queue', Unread', conn' = "open")
    BY DEF DecodeDone, FrameInv
  <1>1. TypeInv /\ cursor <= Len(inner) /\ queue \in Seq(Entry)
    BY DEF FifoInv, FailInv, NeedInv, TypeInv, TypeOK, BytesInv
  <1>2. PICK R, o : Frames(queue, Unread, R, o) /\ (conn = "open" => Len(Unread) = o[Len(queue) + 1])
    BY DEF FifoInv, FrameInv, Framed
  <1> DEFINE a == Len(R[1])
  <1>3. /\ Parsed.used = a /\ a \in 1 .. cursor
        /\ cursor' = cursor - a /\ cursor' \in Nat /\ cursor' <= Len(inner')
        /\ \A i \in 1 .. cursor' : inner'[i] = inner[a + i]
        /\ wire' = wire /\ queue # <<>> /\ queue' = Tail(queue) /\ conn' = conn
    <2>1. Parsed.used = a
      <3>1. queue # <<>> /\ Parsed.tag = "done"
        BY <1>1, DoneMoves DEF DecodeDone
      <3> QED BY <1>1, <1>2, <3>1, HeadReply
    <2> QED BY <1>1, <2>1, DoneMoves
  <1>4. /\ Unread \in Seq(Unit) /\ Len(Unread) = cursor + Len(wire)
        /\ cursor \in Nat /\ Len(wire) \in Nat
        /\ \A i \in 1 .. cursor : Unread[i] = inner[i]
        /\ \A i \in 1 .. Len(wire) : Unread[cursor + i] = wire[i]
    BY <1>1, UnreadBytes
  <1>5. /\ Unread' \in Seq(Unit) /\ Len(Unread') = cursor' + Len(wire')
        /\ \A i \in 1 .. cursor' : Unread'[i] = inner'[i]
        /\ \A i \in 1 .. Len(wire') : Unread'[cursor' + i] = wire'[i]
    BY <1>3, UnreadBytesNext
  <1> DEFINE z == Unread'
  <1> HIDE DEF a, z
  <1>6. Len(z) = Len(Unread) - a /\ a <= Len(Unread) /\ Len(z) = cursor' + Len(wire)
    BY <1>3, <1>4, <1>5 DEF z
  <1>7. ASSUME NEW i \in 1 .. Len(z)
        PROVE  z[i] = Unread[a + i]
    <2>1. CASE i <= cursor'
      <3>1. i \in 1 .. cursor' /\ a + i \in 1 .. cursor
        BY <1>3, <1>4, <1>6, <2>1
      <3> QED BY <1>3, <1>4, <1>5, <3>1 DEF z
    <2>2. CASE i > cursor'
      <3> DEFINE k == i - cursor'
      <3>1. k \in 1 .. Len(wire) /\ cursor' + k = i /\ cursor + k = a + i
        BY <1>3, <1>4, <1>6, <2>2
      <3> HIDE DEF k
      <3>2. z[cursor' + k] = wire[k] /\ Unread[cursor + k] = wire[k]
        BY <1>3, <1>4, <1>5, <3>1 DEF z
      <3> QED BY <3>1, <3>2
    <2>3. i <= cursor' \/ i > cursor'
      BY <1>3, <1>4, <1>6
    <2> QED BY <2>1, <2>2, <2>3
  <1>8. z \in Seq(Unit)
    BY <1>5 DEF z
  <1>9. PICK S, p : Frames(Tail(queue), z, S, p) /\ p[Len(Tail(queue)) + 1] = o[Len(queue) + 1] - a
    <2>1. Takes(Unread, Len(R[1]), z)
      BY <1>6, <1>7 DEF a, Takes
    <2>2. FramedTo(Tail(queue), z, o[Len(queue) + 1] - Len(R[1]))
      BY <1>1, <1>2, <1>3, <1>4, <1>8, <2>1, FramesTail
    <2> QED BY <2>2 DEF a, FramedTo
  <1>10. conn' = "open" => Len(z) = p[Len(queue') + 1]
    BY <1>2, <1>3, <1>6, <1>9
  <1> QED BY <1>3, <1>9, <1>10 DEF Framed, z

----------------------------------------------------------------------------
(* The steps that touch neither the buffer nor the queue nor the wire. *)
Quiet ==
  \/ SendFails \/ DecodeWaits \/ DecodeIncomplete \/ DecodePanics \/ HasCapacity
  \/ PollReadNothing \/ PollReadFails \/ DropFuture \/ UNCHANGED vars

LEMMA QuietKeeps ==
  ASSUME TypeOK, Quiet
  PROVE  /\ inner' = inner /\ cursor' = cursor /\ queue' = queue /\ wire' = wire
         /\ conn' = conn /\ session' = session
         /\ sent \in Nat /\ sent' \in Nat /\ sent <= sent'
  <1>1. sent \in Nat
    BY SizeAssumption DEF TypeOK
  <1> QED
    BY <1>1 DEF Quiet, SendFails, DecodeWaits, DecodeIncomplete, DecodePanics, HasCapacity,
               PollReadNothing, PollReadFails, DropFuture, vars, buffer

LEMMA NextSteps ==
  [Next]_vars => \/ \E c \in DOMAIN Replies : \E r \in Replies[c] : SendRequest(c, r)
                 \/ \E c \in DOMAIN Replies : \E r \in Replies[c] : SendDropped(c, r)
                 \/ DecodeDone \/ DecodeInvalid \/ Grow \/ RefuseTooLarge
                 \/ \E n \in 1 .. Len(wire) : PollRead(n)
                 \/ CloseByServer \/ ResetByPeer \/ Quiet
  BY DEF Next, Call, Decode, EnsureCapacity, Read, Quiet

(* The server loses bytes at the end of what it has sent, if any. *)
LEMMA ServerCuts ==
  ASSUME TypeInv, CloseByServer \/ ResetByPeer
  PROVE  /\ Len(wire') \in Nat /\ Len(wire') <= Len(wire) /\ \A i \in 1 .. Len(wire') : wire'[i] = wire[i]
         /\ inner' = inner /\ cursor' = cursor /\ queue' = queue /\ session' = session
         /\ sent' = sent /\ conn' # "open" /\ Len(wire) \in Nat
  <1>1. wire \in Seq(Unit) /\ Len(wire) \in Nat
    BY DEF TypeInv, TypeOK
  <1>2. CASE CloseByServer
    <2>1. PICK n \in 0 .. Len(wire) : wire' = SubSeq(wire, 1, n)
      BY <1>2 DEF CloseByServer
    <2>2. n \in Nat /\ Len(wire') = n /\ n <= Len(wire) /\ \A i \in 1 .. n : wire'[i] = wire[i]
      BY <1>1, <2>1
    <2> QED BY <1>1, <1>2, <2>2 DEF CloseByServer, buffer
  <1>3. CASE ResetByPeer
    BY <1>1, <1>3 DEF ResetByPeer, buffer
  <1> QED BY <1>2, <1>3

(* The queue stays in the order of the calls. *)
LEMMA QueueStep ==
  ASSUME FifoInv, [Next]_vars
  PROVE  QueueInv'
  <1>1. TypeInv /\ queue \in Seq(Entry) /\ Len(queue) \in Nat /\ sent \in Nat /\ QueueInv
    BY SizeAssumption DEF FifoInv, FailInv, NeedInv, TypeInv, TypeOK
  <1>2. ASSUME NEW c \in DOMAIN Replies, NEW r \in Replies[c], SendRequest(c, r)
        PROVE  QueueInv'
    <2> DEFINE e == [cmd |-> c, id |-> sent']
               n == Len(queue)
    <2>1. e \in Entry /\ sent' = sent + 1
      BY <1>1, <1>2, EnvironmentAssumption DEF SendRequest, Entry
    <2>2. /\ Len(queue') = n + 1 /\ queue'[n + 1] = e
          /\ \A k \in 1 .. n : queue'[k] = queue[k]
      <3>1. queue' = Append(queue, e)
        BY <1>2 DEF SendRequest, add
      <3> HIDE DEF e
      <3> QED BY <1>1, <2>1, <3>1
    <2>3. \A k \in 1 .. n + 1 : k \in 1 .. n \/ k = n + 1
      BY <1>1
    <2>4. e.cmd = c /\ e.id = sent + 1
      BY <2>1
    <2>5. \A k \in 1 .. n : queue[k].cmd \in DOMAIN Replies /\ queue[k].id \in 1 .. sent
      BY <1>1 DEF QueueInv
    <2>6. \A j, k \in 1 .. n : j < k => queue[j].id < queue[k].id
      BY <1>1 DEF QueueInv
    <2> HIDE DEF e, n
    <2>7. \A k \in 1 .. n + 1 : queue'[k].cmd \in DOMAIN Replies /\ queue'[k].id \in 1 .. sent'
      <3> TAKE k \in 1 .. n + 1
      <3>1. CASE k \in 1 .. n
        BY <1>1, <2>1, <2>2, <2>5, <3>1
      <3>2. CASE k = n + 1
        BY <1>1, <2>1, <2>2, <2>4, <3>2
      <3> QED BY <2>3, <3>1, <3>2
    <2>8. \A j, k \in 1 .. n + 1 : j < k => queue'[j].id < queue'[k].id
      <3> TAKE j, k \in 1 .. n + 1
      <3> HAVE j < k
      <3>1. j \in 1 .. n
        BY <1>1 DEF n
      <3>2. CASE k \in 1 .. n
        BY <2>2, <2>6, <3>1, <3>2
      <3>3. CASE k = n + 1
        <4>1. queue'[j].id \in 1 .. sent /\ queue'[k].id = sent + 1
          BY <2>2, <2>4, <2>5, <3>1, <3>3
        <4> QED BY <1>1, <4>1
      <3> QED BY <2>3, <3>2, <3>3
    <2> QED BY <2>2, <2>7, <2>8 DEF QueueInv
  <1>3. CASE DecodeDone
    <2>1. queue # <<>> /\ queue' = Tail(queue) /\ sent' = sent
      BY <1>1, <1>3, DoneMoves
    <2>2. Len(queue') = Len(queue) - 1 /\ \A k \in 1 .. Len(queue) - 1 : queue'[k] = queue[k + 1]
      BY <1>1, <2>1, HeadTailProperties
    <2>3. \A k \in 1 .. Len(queue) - 1 : k + 1 \in 1 .. Len(queue)
      BY <1>1
    <2>4. \A j, k \in 1 .. Len(queue) - 1 : j < k => j + 1 < k + 1
      BY <1>1
    <2>5. \A k \in 1 .. Len(queue') : queue'[k].cmd \in DOMAIN Replies /\ queue'[k].id \in 1 .. sent'
      BY <1>1, <2>1, <2>2, <2>3 DEF QueueInv
    <2>6. \A j, k \in 1 .. Len(queue') : j < k => queue'[j].id < queue'[k].id
      BY <1>1, <2>2, <2>3, <2>4 DEF QueueInv
    <2> QED BY <2>5, <2>6 DEF QueueInv
  <1>4. ASSUME queue' = queue, sent' \in Nat, sent <= sent'
        PROVE  QueueInv'
    <2>1. \A k \in 1 .. Len(queue) : queue[k].id \in 1 .. sent => queue[k].id \in 1 .. sent'
      BY <1>1, <1>4
    <2> QED BY <1>1, <1>4, <2>1 DEF QueueInv
  <1>5. CASE \E c \in DOMAIN Replies : \E r \in Replies[c] : SendDropped(c, r)
    BY <1>1, <1>4, <1>5 DEF SendDropped
  <1>6. CASE DecodeInvalid \/ Grow \/ RefuseTooLarge \/ \E n \in 1 .. Len(wire) : PollRead(n)
    BY <1>1, <1>4, <1>6 DEF DecodeInvalid, Grow, RefuseTooLarge, PollRead
  <1>7. CASE CloseByServer \/ ResetByPeer
    BY <1>1, <1>4, <1>7, ServerCuts
  <1>8. CASE Quiet
    <2>1. queue' = queue /\ sent' \in Nat /\ sent <= sent'
      BY <1>1, <1>8, QuietKeeps DEF TypeInv
    <2> QED BY <1>4, <2>1
  <1> QED BY <1>2, <1>3, <1>5, <1>6, <1>7, <1>8, NextSteps

(* Every byte belongs to a call. *)
LEMMA BytesStep ==
  ASSUME FifoInv, [Next]_vars
  PROVE  BytesInv'
  <1>1. TypeInv /\ sent \in Nat /\ cursor \in Nat /\ wire \in Seq(Unit) /\ Len(wire) \in Nat /\ BytesInv
    BY SizeAssumption DEF FifoInv, FailInv, NeedInv, TypeInv, TypeOK
  <1> DEFINE Live == session \in {"sound", "orphaned"}
             Mine(i) == i \in 1 .. sent
  <1>2. ASSUME session \in {"sound", "orphaned"}
        PROVE  /\ cursor <= Len(inner)
               /\ \A i \in 1 .. cursor : inner[i].id \in 1 .. sent
               /\ \A i \in 1 .. Len(wire) : wire[i].id \in 1 .. sent
    BY <1>1, <1>2 DEF BytesInv
  <1>3. \A n \in Nat : sent <= n => \A i \in 1 .. sent : i \in 1 .. n
    BY <1>1
  (* one more reply on the wire, and one more call *)
  <1>4. ASSUME NEW c \in DOMAIN Replies, NEW r \in Replies[c],
               inner' = inner, cursor' = cursor, sent' = sent + 1,
               wire' = wire \/ wire' = wire \o ReplyTo(sent', r),
               session \in {"sound", "orphaned"}
        PROVE  BytesInv'
    <2> DEFINE w == ReplyTo(sent', r)
    <2>1. sent' \in Nat /\ sent' \in 1 .. sent' /\ sent <= sent' /\ r \in Seq(Token)
      BY <1>1, <1>4, EnvironmentAssumption
    <2>2. w \in Seq(Unit) /\ Len(w) \in Nat /\ \A i \in 1 .. Len(w) : w[i].id = sent'
      <3>1. w \in Seq(Unit) /\ Len(w) = Len(r) /\ \A i \in 1 .. Len(r) : w[i] = [tok |-> r[i], id |-> sent']
        BY <2>1, ReplyBytes
      <3> HIDE DEF w
      <3>2. \A i \in 1 .. Len(r) : w[i].id = sent'
        <4> TAKE i \in 1 .. Len(r)
        <4>1. w[i] = [tok |-> r[i], id |-> sent']
          BY <3>1
        <4> QED BY <4>1
      <3> QED BY <2>1, <3>1, <3>2
    <2>3. ASSUME wire' = wire \o w, NEW i \in 1 .. Len(wire')
          PROVE  wire'[i].id \in 1 .. sent'
      <3> HIDE DEF w
      <3>1. Len(wire') = Len(wire) + Len(w)
        BY <1>1, <2>2, <2>3, ConcatProperties
      <3>2. \A k \in 1 .. Len(wire) + Len(w) : wire'[k] = IF k <= Len(wire) THEN wire[k] ELSE w[k - Len(wire)]
        BY <1>1, <2>2, <2>3, ConcatProperties
      <3>3. CASE i <= Len(wire)
        <4>1. i \in 1 .. Len(wire) /\ wire'[i] = wire[i]
          BY <1>1, <2>2, <3>1, <3>2, <3>3
        <4> QED BY <1>2, <1>3, <1>4, <2>1, <4>1
      <3>4. CASE ~(i <= Len(wire))
        <4>1. i - Len(wire) \in 1 .. Len(w)
          BY <1>1, <2>2, <3>1, <3>4
        <4>2. wire'[i] = w[i - Len(wire)]
          BY <3>1, <3>2, <3>4
        <4> QED BY <2>1, <2>2, <4>1, <4>2
      <3> QED BY <3>3, <3>4
    <2>4. \A i \in 1 .. Len(wire') : wire'[i].id \in 1 .. sent'
      <3>1. CASE wire' = wire
        BY <1>2, <1>3, <1>4, <2>1, <3>1
      <3> QED BY <1>4, <2>3, <3>1
    <2>5. cursor' <= Len(inner') /\ \A i \in 1 .. cursor' : inner'[i].id \in 1 .. sent'
      BY <1>2, <1>3, <1>4, <2>1
    <2> QED BY <2>4, <2>5 DEF BytesInv
  <1>5. ASSUME NEW c \in DOMAIN Replies, NEW r \in Replies[c], SendRequest(c, r) \/ SendDropped(c, r)
        PROVE  BytesInv'
    <2>1. /\ inner' = inner /\ cursor' = cursor /\ sent' = sent + 1
          /\ wire' = wire \/ wire' = wire \o ReplyTo(sent', r)
          /\ session' \in {"sound", "orphaned"} => session \in {"sound", "orphaned"}
      BY <1>5 DEF SendRequest, SendDropped, buffer
    <2> QED BY <1>4, <2>1 DEF BytesInv
  <1>6. CASE DecodeDone
    <2> SUFFICES ASSUME session \in {"sound", "orphaned"} PROVE BytesInv'
      BY <1>6 DEF DecodeDone, BytesInv
    <2> DEFINE m == Parsed.used
    <2>1. /\ m \in 1 .. cursor /\ cursor' = cursor - m /\ cursor' \in Nat /\ cursor' <= Len(inner')
          /\ \A i \in 1 .. cursor' : inner'[i] = inner[m + i]
          /\ wire' = wire /\ sent' = sent
      BY <1>1, <1>6, DoneMoves
    <2> HIDE DEF m
    <2>2. \A i \in 1 .. cursor' : m + i \in 1 .. cursor
      BY <1>1, <2>1
    <2> QED BY <1>2, <2>1, <2>2 DEF BytesInv
  <1>7. CASE DecodeInvalid \/ RefuseTooLarge
    BY <1>7 DEF DecodeInvalid, RefuseTooLarge, BytesInv
  <1>8. CASE Grow
    <2> SUFFICES ASSUME session \in {"sound", "orphaned"} PROVE BytesInv'
      BY <1>8 DEF Grow, BytesInv
    <2>1. /\ Len(inner') = new_size /\ new_size \in Nat /\ new_size <= MaxSize
          /\ \A i \in 1 .. Len(inner) : inner'[i] = inner[i]
          /\ Len(inner) \in Nat /\ cursor <= Len(inner) /\ new_size >= Len(inner) + increase
          /\ cursor' = cursor /\ wire' = wire /\ sent' = sent
      BY <1>1, <1>8, GrowKeepsReceived DEF Grow
    <2>2. increase \in Nat
      BY SizeAssumption, <1>1 DEF TypeInv, TypeOK, increase, extra_bytes_needed
    <2>3. \A i \in 1 .. cursor : i \in 1 .. Len(inner)
      BY <1>1, <2>1
    <2>4. cursor' <= Len(inner')
      BY <1>1, <2>1, <2>2
    <2> QED BY <1>2, <2>1, <2>3, <2>4 DEF BytesInv
  <1>9. ASSUME NEW n \in 1 .. Len(wire), PollRead(n)
        PROVE  BytesInv'
    <2> SUFFICES ASSUME session \in {"sound", "orphaned"} PROVE BytesInv'
      BY <1>9 DEF PollRead, BytesInv
    <2>1. /\ n \in Nat /\ n >= 1 /\ cursor' = cursor + n /\ cursor' <= Len(inner')
          /\ \A i \in 1 .. cursor : inner'[i] = inner[i]
          /\ \A i \in 1 .. n : inner'[cursor + i] = wire[i]
          /\ Len(wire') = Len(wire) - n /\ \A i \in 1 .. Len(wire') : wire'[i] = wire[n + i]
      BY <1>1, <1>9, ReadMoves
    <2>2. sent' = sent
      BY <1>9 DEF PollRead
    <2>3. ASSUME NEW i \in 1 .. cursor'
          PROVE  inner'[i].id \in 1 .. sent
      <3>1. CASE i <= cursor
        <4>1. i \in 1 .. cursor
          BY <1>1, <2>1, <3>1
        <4> QED BY <1>2, <2>1, <4>1
      <3>2. CASE ~(i <= cursor)
        <4> DEFINE k == i - cursor
        <4>1. k \in 1 .. n /\ cursor + k = i
          BY <1>1, <2>1, <3>2
        <4>2. n <= Len(wire)
          OBVIOUS
        <4> HIDE DEF k
        <4>3. k \in 1 .. Len(wire)
          BY <1>1, <2>1, <4>1, <4>2
        <4> QED BY <1>2, <2>1, <4>1, <4>3
      <3> QED BY <3>1, <3>2
    <2>4. ASSUME NEW i \in 1 .. Len(wire')
          PROVE  wire'[i].id \in 1 .. sent
      <3>1. n + i \in 1 .. Len(wire)
        BY <1>1, <2>1
      <3> QED BY <1>2, <2>1, <3>1
    <2> QED BY <2>1, <2>2, <2>3, <2>4 DEF BytesInv
  <1>10. CASE CloseByServer \/ ResetByPeer
    <2>1. /\ Len(wire') \in Nat /\ Len(wire') <= Len(wire) /\ \A i \in 1 .. Len(wire') : wire'[i] = wire[i]
          /\ inner' = inner /\ cursor' = cursor /\ session' = session /\ sent' = sent
      BY <1>1, <1>10, ServerCuts
    <2>2. \A i \in 1 .. Len(wire') : i \in 1 .. Len(wire)
      BY <1>1, <2>1
    <2> QED BY <1>2, <2>1, <2>2 DEF BytesInv
  <1>11. CASE Quiet
    <2>1. /\ inner' = inner /\ cursor' = cursor /\ wire' = wire /\ session' = session
          /\ sent' \in Nat /\ sent <= sent'
      BY <1>1, <1>11, QuietKeeps DEF TypeInv
    <2> QED BY <1>2, <1>3, <2>1 DEF BytesInv
  <1> QED BY <1>5, <1>6, <1>7, <1>8, <1>9, <1>10, <1>11, NextSteps

(* The frames move with the buffer, the queue and the wire. *)
LEMMA FrameStep ==
  ASSUME FifoInv, TypeInv', BytesInv', [Next]_vars
  PROVE  FrameInv'
  <1>1. TypeInv /\ FrameInv
    BY DEF FifoInv, FailInv, NeedInv
  <1>2. ASSUME session = "sound"
        PROVE  cursor <= Len(inner)
    BY <1>2 DEF FifoInv, BytesInv
  <1>3. ASSUME NEW c \in DOMAIN Replies, NEW r \in Replies[c], SendDropped(c, r)
        PROVE  FrameInv'
    BY <1>3 DEF SendDropped, FrameInv
  <1>4. CASE DecodeInvalid \/ RefuseTooLarge
    BY <1>4 DEF DecodeInvalid, RefuseTooLarge, FrameInv
  <1>5. CASE Grow
    <2> SUFFICES ASSUME session = "sound" PROVE FrameInv'
      BY <1>5 DEF Grow, FrameInv
    <2>1. /\ \A i \in 1 .. Len(inner) : inner'[i] = inner[i]
          /\ cursor' = cursor /\ wire' = wire /\ queue' = queue /\ session' = session /\ conn' = conn
      BY <1>1, <1>5, GrowKeepsReceived DEF Grow
    <2>2. cursor <= Len(inner) /\ cursor' <= Len(inner')
      BY <1>2, <2>1 DEF BytesInv
    <2>3. /\ Unread \in Seq(Unit) /\ Len(Unread) = cursor + Len(wire)
          /\ cursor \in Nat /\ Len(wire) \in Nat /\ Len(inner) \in Nat
          /\ \A i \in 1 .. cursor : Unread[i] = inner[i]
          /\ \A i \in 1 .. Len(wire) : Unread[cursor + i] = wire[i]
      BY <1>1, <2>2, UnreadBytes
    <2>4. /\ Len(Unread') = cursor + Len(wire)
          /\ \A i \in 1 .. cursor : Unread'[i] = inner'[i]
          /\ \A i \in 1 .. Len(wire) : Unread'[cursor + i] = wire[i]
      BY <2>1, <2>2, UnreadBytesNext
    <2>5. ASSUME NEW i \in 1 .. Len(Unread')
          PROVE  Unread'[i] = Unread[i]
      <3>1. CASE i <= cursor
        <4>1. i \in 1 .. cursor /\ i \in 1 .. Len(inner)
          BY <2>2, <2>3, <2>4, <3>1
        <4> QED BY <2>1, <2>3, <2>4, <4>1
      <3>2. CASE ~(i <= cursor)
        <4> DEFINE k == i - cursor
        <4>1. k \in 1 .. Len(wire) /\ cursor + k = i
          BY <2>3, <2>4, <3>2
        <4> HIDE DEF k
        <4> QED BY <2>3, <2>4, <4>1
      <3> QED BY <3>1, <3>2
    <2>6. Len(Unread') = Len(Unread) /\ Len(Unread') <= Len(Unread)
      BY <2>3, <2>4
    <2> QED BY <1>1, <2>1, <2>2, <2>5, <2>6, SameFrames
  <1>6. ASSUME NEW n \in 1 .. Len(wire), PollRead(n)
        PROVE  FrameInv'
    <2> SUFFICES ASSUME session = "sound" PROVE FrameInv'
      BY <1>6 DEF PollRead, FrameInv
    <2>1. /\ n \in Nat /\ n >= 1 /\ cursor <= Len(inner) /\ cursor' = cursor + n /\ cursor' <= Len(inner')
          /\ \A i \in 1 .. cursor : inner'[i] = inner[i]
          /\ \A i \in 1 .. n : inner'[cursor + i] = wire[i]
          /\ Len(wire') = Len(wire) - n /\ \A i \in 1 .. Len(wire') : wire'[i] = wire[n + i]
      BY <1>1, <1>6, ReadMoves
    <2>2. queue' = queue /\ session' = session /\ conn' = conn
      BY <1>6 DEF PollRead
    <2>3. /\ Unread \in Seq(Unit) /\ Len(Unread) = cursor + Len(wire)
          /\ cursor \in Nat /\ Len(wire) \in Nat /\ Len(inner) \in Nat
          /\ \A i \in 1 .. cursor : Unread[i] = inner[i]
          /\ \A i \in 1 .. Len(wire) : Unread[cursor + i] = wire[i]
      BY <1>1, <2>1, UnreadBytes
    <2>4. /\ Len(Unread') = cursor' + Len(wire')
          /\ \A i \in 1 .. cursor' : Unread'[i] = inner'[i]
          /\ \A i \in 1 .. Len(wire') : Unread'[cursor' + i] = wire'[i]
      BY <2>1, UnreadBytesNext
    <2>5. ASSUME NEW i \in 1 .. Len(Unread')
          PROVE  Unread'[i] = Unread[i]
      <3>1. CASE i <= cursor
        <4>1. i \in 1 .. cursor /\ i \in 1 .. cursor'
          BY <2>1, <2>3, <2>4, <3>1
        <4> QED BY <2>1, <2>3, <2>4, <4>1
      <3>2. CASE ~(i <= cursor) /\ i <= cursor'
        <4> DEFINE k == i - cursor
        <4>1. k \in 1 .. n /\ cursor + k = i /\ i \in 1 .. cursor'
          BY <2>1, <2>3, <2>4, <3>2
        <4>2. n <= Len(wire)
          OBVIOUS
        <4> HIDE DEF k
        <4>3. k \in 1 .. Len(wire)
          BY <2>1, <2>3, <4>1, <4>2
        <4> QED BY <2>1, <2>3, <2>4, <4>1, <4>3
      <3>3. CASE ~(i <= cursor')
        <4> DEFINE k == i - cursor'
        <4>1. k \in 1 .. Len(wire') /\ cursor' + k = i /\ n + k \in 1 .. Len(wire) /\ cursor + (n + k) = i
          BY <2>1, <2>3, <2>4, <3>3
        <4> HIDE DEF k
        <4>2. Unread'[i] = wire'[k] /\ wire'[k] = wire[n + k]
          BY <2>1, <2>4, <4>1
        <4>3. Unread[cursor + (n + k)] = wire[n + k]
          BY <2>3, <4>1
        <4> QED BY <4>1, <4>2, <4>3
      <3> QED BY <3>1, <3>2, <3>3
    <2>6. Len(Unread') = Len(Unread) /\ Len(Unread') <= Len(Unread)
      BY <2>1, <2>3, <2>4
    <2> QED BY <1>1, <2>1, <2>2, <2>5, <2>6, SameFrames
  <1>7. CASE CloseByServer \/ ResetByPeer
    <2> SUFFICES ASSUME session = "sound" PROVE FrameInv'
      BY <1>7 DEF CloseByServer, ResetByPeer, FrameInv
    <2>1. /\ Len(wire') \in Nat /\ Len(wire') <= Len(wire) /\ \A i \in 1 .. Len(wire') : wire'[i] = wire[i]
          /\ inner' = inner /\ cursor' = cursor /\ queue' = queue /\ session' = session /\ conn' # "open"
      BY <1>1, <1>7, ServerCuts
    <2>2. cursor <= Len(inner) /\ cursor' <= Len(inner')
      BY <1>2, <2>1 DEF BytesInv
    <2>3. /\ Unread \in Seq(Unit) /\ Len(Unread) = cursor + Len(wire)
          /\ cursor \in Nat /\ Len(wire) \in Nat
          /\ \A i \in 1 .. cursor : Unread[i] = inner[i]
          /\ \A i \in 1 .. Len(wire) : Unread[cursor + i] = wire[i]
      BY <1>1, <2>2, UnreadBytes
    <2>4. /\ Len(Unread') = cursor + Len(wire')
          /\ \A i \in 1 .. cursor : Unread'[i] = inner[i]
          /\ \A i \in 1 .. Len(wire') : Unread'[cursor + i] = wire'[i]
      BY <2>1, <2>2, UnreadBytesNext
    <2>5. ASSUME NEW i \in 1 .. Len(Unread')
          PROVE  Unread'[i] = Unread[i]
      <3>1. CASE i <= cursor
        <4>1. i \in 1 .. cursor
          BY <2>3, <2>4, <3>1
        <4> QED BY <2>3, <2>4, <4>1
      <3>2. CASE ~(i <= cursor)
        <4> DEFINE k == i - cursor
        <4>1. k \in 1 .. Len(wire') /\ k \in 1 .. Len(wire) /\ cursor + k = i
          BY <2>1, <2>3, <2>4, <3>2
        <4> HIDE DEF k
        <4> QED BY <2>1, <2>3, <2>4, <4>1
      <3> QED BY <3>1, <3>2
    <2>6. Len(Unread') <= Len(Unread)
      BY <2>1, <2>3, <2>4
    <2> QED BY <1>1, <2>1, <2>2, <2>5, <2>6, SameFrames
  <1>8. CASE Quiet
    <2>1. /\ inner' = inner /\ cursor' = cursor /\ queue' = queue /\ wire' = wire
          /\ conn' = conn /\ session' = session
      BY <1>1, <1>8, QuietKeeps DEF TypeInv
    <2>2. Unread' = Unread
      BY <2>1 DEF Unread
    <2> QED BY <1>1, <2>1, <2>2 DEF FrameInv
  <1>9. CASE \E c \in DOMAIN Replies : \E r \in Replies[c] : SendRequest(c, r)
    BY <1>9, SendFrames
  <1>10. CASE DecodeDone
    BY <1>10, DoneFrames
  <1> QED BY <1>3, <1>4, <1>5, <1>6, <1>7, <1>8, <1>9, <1>10, NextSteps

(* The buffer and the queue never drift apart. *)
LEMMA FifoInvariant == Spec => []FifoInv
  <1>1. Init => QueueInv /\ BytesInv /\ FrameInv
    <2> SUFFICES ASSUME Init PROVE QueueInv /\ BytesInv /\ FrameInv
      OBVIOUS
    <2>1. /\ queue = <<>> /\ cursor = 0 /\ wire = <<>> /\ Len(queue) = 0 /\ Len(wire) = 0
          /\ inner = zeroed(Chunk)
      BY DEF Init
    <2>2. Len(inner) = Chunk /\ inner \in Seq(Unit)
      BY <2>1, ZeroedType, SizeAssumption
    <2>3. QueueInv /\ BytesInv
      BY <2>1, <2>2, SizeAssumption DEF QueueInv, BytesInv
    <2>4. Unread = <<>>
      BY <2>1, <2>2 DEF Unread
    <2> DEFINE R == [k \in 1 .. 0 |-> <<>>]
               o == [k \in 1 .. 1 |-> 0]
    <2>5. Frames(queue, Unread, R, o) /\ o[Len(queue) + 1] = 0 /\ Len(Unread) = 0
      BY <2>1, <2>4 DEF Frames
    <2> QED BY <2>3, <2>5 DEF FrameInv, Framed
  <1>2. FifoInv /\ FailInv' /\ [Next]_vars => FifoInv'
    BY QueueStep, BytesStep, FrameStep DEF FifoInv, FailInv, NeedInv
  <1>3. FifoInv => FailInv
    BY DEF FifoInv
  <1> QED BY <1>1, <1>2, FailInvariant, PTL DEF Spec, FifoInv

----------------------------------------------------------------------------
(* A reply has a byte at least: the parser would wait for it otherwise. *)
LEMMA ReplyNotEmpty ==
  ASSUME NEW c \in DOMAIN Replies, NEW r \in Replies[c]
  PROVE  r \in Seq(Token) /\ Len(r) \in Nat /\ Len(r) >= 1
  <1>1. r \in Seq(Token) /\ Len(r) \in Nat /\ c \in Command
    BY EnvironmentAssumption
  <1>2. parse(r, c).tag # "incomplete"
    BY ReplyAssumption
  <1>3. r # <<>>
    BY <1>1, <1>2, ParseBranches
  <1> QED BY <1>1, <1>3

(* Each byte lies in the frame of one command, and carries its number. *)
InFrame(q, u, o, i) == \E k \in 1 .. Len(q) : o[k] < i /\ i <= o[k + 1] /\ u[i].id = q[k].id

LEMMA FrameOf ==
  ASSUME NEW q \in Seq(Entry), NEW u \in Seq(Unit), NEW R, NEW o, Frames(q, u, R, o),
         NEW i \in 1 .. Len(u)
  PROVE  InFrame(q, u, o, i)
  <1>1. /\ Len(q) \in Nat /\ Len(u) \in Nat /\ Len(u) <= o[Len(q) + 1] /\ o[Len(q) + 1] \in Nat
        /\ \A k \in 1 .. Len(q) : /\ o[k] \in Nat /\ Len(R[k]) \in Nat
                                  /\ o[k + 1] = o[k] + Len(R[k])
    BY FrameNumbers
  <1>2. i \in 1 .. o[Len(q) + 1]
    BY <1>1
  <1>3. PICK k \in 1 .. Len(q) : o[k] < i /\ i <= o[k + 1]
    BY <1>2 DEF Frames
  <1> DEFINE j == i - o[k]
  <1>4. j \in 1 .. Len(R[k]) /\ o[k] + j = i
    BY <1>1, <1>3
  <1> HIDE DEF j
  <1>5. o[k] + j <= Len(u)
    BY <1>1, <1>4
  <1>6. u[o[k] + j] = [tok |-> R[k][j], id |-> q[k].id]
    BY <1>4, <1>5 DEF Frames
  <1>7. u[i].id = q[k].id
    BY <1>4, <1>6
  <1> QED BY <1>3, <1>7 DEF InFrame

(* The buffer and the queue never drift apart: as long as no command and   *)
(* no response was lost, what is left to consume belongs to the queued     *)
(* commands, all of them, in the order of the queue.                       *)
THEOREM StreamAligned == Spec => []Aligned
  <1>1. FifoInv => Aligned
    <2> SUFFICES ASSUME FifoInv, session = "sound", conn = "open"
                 PROVE  /\ {Unread[i].id : i \in DOMAIN Unread} = {queue[i].id : i \in DOMAIN queue}
                        /\ \A i \in 1 .. Len(Unread) - 1 : Unread[i].id <= Unread[i + 1].id
                        /\ \A i \in 1 .. Len(queue) - 1 : queue[i].id < queue[i + 1].id
      BY DEF Aligned
    <2>1. /\ TypeInv /\ cursor <= Len(inner) /\ queue \in Seq(Entry) /\ Len(queue) \in Nat
          /\ DOMAIN queue = 1 .. Len(queue) /\ QueueInv /\ sent \in Nat
      BY SizeAssumption DEF FifoInv, FailInv, NeedInv, TypeInv, TypeOK, BytesInv
    <2>2. Unread \in Seq(Unit) /\ DOMAIN Unread = 1 .. Len(Unread) /\ Len(Unread) \in Nat
      <3>1. Unread \in Seq(Unit)
        BY <2>1, UnreadBytes
      <3> QED BY <3>1
    <2>3. PICK R, o : Frames(queue, Unread, R, o) /\ Len(Unread) = o[Len(queue) + 1]
      BY DEF FifoInv, FrameInv, Framed
    <2>4. /\ \A k \in 1 .. Len(queue) + 1 : o[k] \in Nat
          /\ \A k \in 1 .. Len(queue) :
               /\ k \in 1 .. Len(queue) + 1 /\ k + 1 \in 1 .. Len(queue) + 1
               /\ o[k] \in Nat /\ o[k + 1] = o[k] + Len(R[k]) /\ o[k + 1] <= o[Len(queue) + 1]
      BY <2>1, <2>2, <2>3, FrameNumbers
    <2>5. \A k \in 1 .. Len(queue) : queue[k].cmd \in DOMAIN Replies /\ queue[k].id \in 1 .. sent
      BY <2>1 DEF QueueInv
    <2>6. \A j, k \in 1 .. Len(queue) : j < k => queue[j].id < queue[k].id
      BY <2>1 DEF QueueInv
    <2>7. \A j, k \in 1 .. Len(queue) + 1 : j <= k => o[j] <= o[k]
      BY <2>3 DEF Frames
    <2>8. ASSUME NEW k \in 1 .. Len(queue)
          PROVE  \E i \in 1 .. Len(Unread) : Unread[i].id = queue[k].id
      <3>1. Len(R[k]) \in Nat /\ Len(R[k]) >= 1
        <4>1. R[k] \in Replies[queue[k].cmd]
          BY <2>3 DEF Frames
        <4> QED BY <2>5, <4>1, ReplyNotEmpty
      <3>2. o[k] + 1 \in 1 .. Len(Unread) /\ 1 \in 1 .. Len(R[k]) /\ o[k] + 1 <= Len(Unread)
        BY <2>2, <2>3, <2>4, <3>1
      <3>3. Unread[o[k] + 1] = [tok |-> R[k][1], id |-> queue[k].id]
        BY <2>3, <3>2 DEF Frames
      <3>4. Unread[o[k] + 1].id = queue[k].id
        BY <3>3
      <3> QED BY <3>2, <3>4
    <2>9. ASSUME NEW i \in 1 .. Len(Unread)
          PROVE  \E k \in 1 .. Len(queue) : o[k] < i /\ i <= o[k + 1] /\ Unread[i].id = queue[k].id
      <3>1. InFrame(queue, Unread, o, i)
        BY <2>1, <2>2, <2>3, FrameOf
      <3> QED BY <3>1 DEF InFrame
    <2>10. {Unread[i].id : i \in DOMAIN Unread} = {queue[i].id : i \in DOMAIN queue}
      <3>1. {Unread[i].id : i \in 1 .. Len(Unread)} = {queue[i].id : i \in 1 .. Len(queue)}
        <4>1. \A i \in 1 .. Len(Unread) : \E k \in 1 .. Len(queue) : Unread[i].id = queue[k].id
          BY <2>9
        <4>2. \A k \in 1 .. Len(queue) : \E i \in 1 .. Len(Unread) : Unread[i].id = queue[k].id
          BY <2>8
        <4>3. {Unread[i].id : i \in 1 .. Len(Unread)} \subseteq {queue[i].id : i \in 1 .. Len(queue)}
          BY <4>1
        <4>4. {queue[i].id : i \in 1 .. Len(queue)} \subseteq {Unread[i].id : i \in 1 .. Len(Unread)}
          <5> SUFFICES ASSUME NEW k \in 1 .. Len(queue)
                       PROVE  queue[k].id \in {Unread[i].id : i \in 1 .. Len(Unread)}
            OBVIOUS
          <5>1. PICK i \in 1 .. Len(Unread) : Unread[i].id = queue[k].id
            BY <4>2
          <5> QED BY <5>1
        <4> QED BY <4>3, <4>4
      <3> QED BY <2>1, <2>2, <3>1
    <2>11. ASSUME NEW i \in 1 .. Len(Unread) - 1
           PROVE  Unread[i].id <= Unread[i + 1].id
      <3>1. i \in 1 .. Len(Unread) /\ i + 1 \in 1 .. Len(Unread)
        BY <2>2
      <3>2. PICK k \in 1 .. Len(queue) : o[k] < i /\ i <= o[k + 1] /\ Unread[i].id = queue[k].id
        BY <2>9, <3>1
      <3>3. PICK l \in 1 .. Len(queue) : o[l] < i + 1 /\ i + 1 <= o[l + 1] /\ Unread[i + 1].id = queue[l].id
        BY <2>9, <3>1
      <3>4. k <= l
        <4> SUFFICES ASSUME ~(k <= l) PROVE FALSE
          OBVIOUS
        <4>1. l + 1 \in 1 .. Len(queue) + 1 /\ k \in 1 .. Len(queue) + 1 /\ l + 1 <= k
          BY <2>1
        <4>2. o[l + 1] <= o[k] /\ o[l + 1] \in Nat /\ o[k] \in Nat
          BY <2>4, <2>7, <4>1
        <4> QED BY <2>2, <3>2, <3>3, <4>2
      <3>5. queue[k].id \in Nat /\ queue[l].id \in Nat
        BY <2>1, <2>5
      <3>6. CASE k = l
        BY <3>2, <3>3, <3>5, <3>6
      <3>7. CASE k < l
        BY <2>6, <3>2, <3>3, <3>5, <3>7
      <3> QED BY <2>1, <3>4, <3>6, <3>7
    <2>12. ASSUME NEW i \in 1 .. Len(queue) - 1
           PROVE  queue[i].id < queue[i + 1].id
      <3>1. i \in 1 .. Len(queue) /\ i + 1 \in 1 .. Len(queue) /\ i < i + 1
        BY <2>1
      <3> QED BY <2>6, <3>1
    <2> QED BY <2>10, <2>11, <2>12
  <1> QED BY <1>1, FifoInvariant, PTL

(* A call whose reply is in the buffer as a whole waits for nothing but    *)
(* decode_needs: the parser never overlooks the end of a reply.            *)
THEOREM StreamOnlyNeedsDelay == Spec => []OnlyNeedsDelay
  <1>1. FifoInv => OnlyNeedsDelay
    <2> SUFFICES ASSUME FifoInv, pc = "read", conn = "open", session = "sound", HeadArrived,
                        ~(cursor < decode_needs)
                 PROVE  FALSE
      BY DEF OnlyNeedsDelay
    <2>1. /\ TypeInv /\ cursor <= Len(inner) /\ queue \in Seq(Entry) /\ queue # <<>> /\ Len(queue) \in Nat
          /\ Len(queue) >= 1 /\ Head(queue) = queue[1] /\ wire \in Seq(Unit)
      BY DEF FifoInv, FailInv, NeedInv, TypeInv, TypeOK, BytesInv, RequestKnown
    <2>2. Parsed.tag = "incomplete"
      BY DEF FifoInv, FailInv, NeedInv, NeedIsCurrent
    <2>3. PICK R, o : Frames(queue, Unread, R, o) /\ Len(Unread) = o[Len(queue) + 1]
      BY DEF FifoInv, FrameInv, Framed
    <2>4. /\ Unread \in Seq(Unit) /\ Len(Unread) = cursor + Len(wire)
          /\ cursor \in Nat /\ Len(wire) \in Nat
          /\ \A i \in 1 .. Len(wire) : Unread[cursor + i] = wire[i]
      BY <2>1, UnreadBytes
    <2>5. /\ cursor < Len(R[1])
          /\ \A i \in 1 .. cursor : i <= Len(R[1]) => inner[i].id = queue[1].id
      BY <2>1, <2>2, <2>3, HeadReply
    <2>6. Len(R[1]) \in Nat /\ 1 \in 1 .. Len(queue) /\ Len(R[1]) <= Len(Unread) /\ o[1] = 0
      <3>1. 1 \in 1 .. Len(queue)
        BY <2>1
      <3>2. Len(R[1]) \in Nat /\ o[1] = 0 /\ o[1 + 1] = o[1] + Len(R[1]) /\ o[1 + 1] <= o[Len(queue) + 1]
        <4>1. Len(R[1]) \in Nat /\ o[1 + 1] = o[1] + Len(R[1]) /\ o[1 + 1] <= o[Len(queue) + 1]
          <5>1. \A k \in 1 .. Len(queue) :
                   /\ R[k] \in Seq(Token) /\ Len(R[k]) \in Nat
                   /\ o[k] \in Nat /\ o[k + 1] = o[k] + Len(R[k]) /\ o[k + 1] <= o[Len(queue) + 1]
            <6>1. queue \in Seq(Entry) /\ Unread \in Seq(Unit) /\ Frames(queue, Unread, R, o)
              BY <2>1, <2>3, <2>4
            <6> QED BY <6>1, FrameNumbers
          <5> QED BY <3>1, <5>1
        <4>2. o[1] = 0
          BY <2>3 DEF Frames
        <4> QED BY <4>1, <4>2
      <3> QED BY <2>3, <3>1, <3>2
    <2>7. cursor + 1 \in 1 .. Len(R[1]) /\ 1 \in 1 .. Len(wire) /\ o[1] + (cursor + 1) = cursor + 1
          /\ cursor + 1 <= Len(Unread)
      BY <2>4, <2>5, <2>6
    <2>8. Unread[cursor + 1] = [tok |-> R[1][cursor + 1], id |-> queue[1].id]
      BY <2>3, <2>6, <2>7 DEF Frames
    <2>9. wire[1].id = queue[1].id
      BY <2>4, <2>7, <2>8
    <2>10. 1 \in DOMAIN wire
      BY <2>1, <2>7
    <2> QED BY <2>1, <2>9, <2>10 DEF HeadArrived
  <1> QED BY <1>1, FifoInvariant, PTL

----------------------------------------------------------------------------
(* The queue as ReplyFifo sees it: the numbers of the calls. *)
Calls(q) == [i \in DOMAIN q |-> q[i].id]

LEMMA CallsOfQueue ==
  ASSUME NEW q \in Seq(Entry)
  PROVE  /\ Calls(q) \in Seq(Nat) /\ Len(Calls(q)) = Len(q)
         /\ \A i \in 1 .. Len(q) : Calls(q)[i] = q[i].id
         /\ \A e \in Entry : Calls(Append(q, e)) = Append(Calls(q), e.id)
         /\ q # <<>> => /\ Calls(q) # <<>> /\ Head(Calls(q)) = Head(q).id
                        /\ Calls(Tail(q)) = Tail(Calls(q))
  <1>1. Len(q) \in Nat /\ DOMAIN q = 1 .. Len(q) /\ \A i \in 1 .. Len(q) : q[i] \in Entry
    OBVIOUS
  <1>2. \A i \in 1 .. Len(q) : q[i].id \in Nat
    BY <1>1 DEF Entry
  <1>3. /\ Calls(q) \in Seq(Nat) /\ Len(Calls(q)) = Len(q)
        /\ \A i \in 1 .. Len(q) : Calls(q)[i] = q[i].id
    BY <1>1, <1>2 DEF Calls
  <1>4. ASSUME NEW e \in Entry
        PROVE  Calls(Append(q, e)) = Append(Calls(q), e.id)
    <2> DEFINE t == Append(q, e)
               a == Calls(t)
               b == Append(Calls(q), e.id)
               n == Len(q)
    <2>1. DOMAIN t = 1 .. n + 1 /\ t[n + 1] = e /\ \A i \in 1 .. n : t[i] = q[i]
      BY <1>1
    <2>2. e.id \in Nat
      BY DEF Entry
    <2>3. DOMAIN b = 1 .. n + 1 /\ b[n + 1] = e.id /\ \A i \in 1 .. n : b[i] = Calls(q)[i]
      BY <1>3, <2>2
    <2> HIDE DEF t, b, n
    <2>4. DOMAIN a = 1 .. n + 1 /\ \A i \in 1 .. n + 1 : a[i] = t[i].id
      BY <2>1 DEF Calls
    <2>5. \A i \in 1 .. n + 1 : i \in 1 .. n \/ i = n + 1
      BY <1>1 DEF n
    <2>6. \A i \in 1 .. n + 1 : a[i] = b[i]
      BY <1>3, <2>1, <2>3, <2>4, <2>5 DEF n
    <2>7. a = [i \in 1 .. n + 1 |-> a[i]]
      BY <2>4 DEF Calls
    <2>8. b = [i \in 1 .. n + 1 |-> b[i]]
      <3>1. b \in Seq(Nat)
        BY <1>3, <2>2 DEF b
      <3> QED BY <2>3, <3>1
    <2> QED BY <2>6, <2>7, <2>8 DEF b, t
  <1>5. ASSUME q # <<>>
        PROVE  /\ Calls(q) # <<>> /\ Head(Calls(q)) = Head(q).id
               /\ Calls(Tail(q)) = Tail(Calls(q))
    <2> DEFINE n == Len(q)
               s == Calls(q)
    <2>1. n \in Nat /\ n >= 1 /\ 1 \in 1 .. n /\ s \in Seq(Nat) /\ Len(s) = n /\ \A i \in 1 .. n : s[i] = q[i].id
      BY <1>1, <1>3, <1>5
    <2> HIDE DEF s
    <2>2. s # <<>> /\ Head(s) = s[1] /\ Head(q) = q[1]
      BY <2>1
    <2>3. /\ Tail(q) \in Seq(Entry) /\ Len(Tail(q)) = n - 1 /\ \A i \in 1 .. n - 1 : Tail(q)[i] = q[i + 1]
          /\ Tail(s) \in Seq(Nat) /\ Len(Tail(s)) = n - 1 /\ \A i \in 1 .. n - 1 : Tail(s)[i] = s[i + 1]
      BY <1>5, <2>1, <2>2, HeadTailProperties
    <2> HIDE DEF n
    <2>4. DOMAIN Tail(q) = 1 .. n - 1
      BY <2>3
    <2>5. Calls(Tail(q)) = [i \in 1 .. n - 1 |-> Tail(q)[i].id]
      BY <2>4 DEF Calls
    <2>6. Tail(s) = [i \in 1 .. n - 1 |-> Tail(s)[i]]
      <3> DEFINE t == Tail(s)
      <3>1. t \in Seq(Nat) /\ Len(t) = n - 1
        BY <2>3
      <3> HIDE DEF t
      <3>2. t = [i \in 1 .. n - 1 |-> t[i]]
        BY <3>1
      <3> QED BY <3>2 DEF t
    <2>7. \A i \in 1 .. n - 1 : i + 1 \in 1 .. n
      BY <2>1
    <2>8. \A i \in 1 .. n - 1 : Tail(s)[i] = Tail(q)[i].id
      BY <2>1, <2>3, <2>7
    <2>9. Calls(Tail(q)) = Tail(s)
      BY <2>5, <2>6, <2>8
    <2> QED BY <2>1, <2>2, <2>9 DEF s
  <1> QED BY <1>3, <1>4, <1>5

----------------------------------------------------------------------------
waits == pc \notin {"idle", "panicked"}

(* A reply that is handed out is the oldest one, whole; without the order  *)
(* of the queue, after a command was lost, it is at least made of bytes    *)
(* the server sent; a failed session hands out none.                       *)
LEMMA DoneAnswers ==
  ASSUME FifoInv, DecodeDone
  PROVE  /\ session \in {"sound", "orphaned"} /\ queue # <<>> /\ queue' = Tail(queue)
         /\ waits /\ ~waits' /\ sent' = sent /\ session' = session
         /\ \E k \in Delivered, from \in SUBSET (1 .. sent) :
              /\ result' = [kind |-> k, call |-> sent, from |-> from]
              /\ session = "sound" => from = {Head(queue).id}
  <1> DEFINE from == {inner[i].id : i \in 1 .. Parsed.used}
             kind == IF Parsed.resp = "Err" THEN "server_error" ELSE "reply"
  <1>1. /\ TypeInv /\ cursor \in Nat /\ Parsed.used \in 1 .. cursor
        /\ queue # <<>> /\ queue' = Tail(queue) /\ session' = session /\ sent' = sent
        /\ queue \in Seq(Entry)
    BY DoneMoves DEF FifoInv, FailInv, NeedInv, TypeInv, TypeOK
  <1>2. session \in {"sound", "orphaned"}
    <2>1. ~Failed
      BY FailedFindsNothing DEF FifoInv, DecodeDone
    <2> QED BY <1>1, <2>1 DEF Failed, TypeInv, TypeOK
  <1>3. from \in SUBSET (1 .. sent)
    BY <1>1, <1>2 DEF FifoInv, BytesInv
  <1>4. ASSUME session = "sound"
        PROVE  from = {Head(queue).id}
    <2>1. PICK R, o : Frames(queue, Unread, R, o)
      BY <1>4 DEF FifoInv, FrameInv, Framed
    <2>2. /\ Parsed.used = Len(R[1])
          /\ \A i \in 1 .. cursor : i <= Len(R[1]) => inner[i].id = queue[1].id
      BY <1>1, <1>4, <2>1, HeadReply DEF DecodeDone, Decodes
    <2>3. Head(queue) = queue[1]
      BY <1>1
    <2>4. \A i \in 1 .. Parsed.used : inner[i].id = Head(queue).id
      BY <1>1, <2>2, <2>3
    <2>5. 1 \in 1 .. Parsed.used
      BY <1>1
    <2> QED BY <2>4, <2>5
  <1>5. kind \in Delivered /\ result' = [kind |-> kind, call |-> sent, from |-> from]
    BY DEF DecodeDone, Outcome, Delivered
  <1>6. waits /\ ~waits'
    BY DEF DecodeDone, Decodes, waits
  <1> HIDE DEF from, kind
  <1> QED BY <1>1, <1>2, <1>3, <1>4, <1>5, <1>6

(* What a step of the stream is to its callers. *)
LEMMA FifoStep == FifoInv /\ [Next]_vars => [Fifo!Next]_Fifo!vars
  <1> SUFFICES ASSUME FifoInv, [Next]_vars
               PROVE  Fifo!Next \/ UNCHANGED <<Calls(queue), sent, waits, session, result>>
    BY DEF Fifo!vars, Calls, waits
  <1>1. /\ TypeInv /\ queue \in Seq(Entry) /\ sent \in Nat
        /\ session \in {"sound", "orphaned", "invalid", "too_large"}
    BY SizeAssumption DEF FifoInv, FailInv, NeedInv, TypeInv, TypeOK
  <1>2. ASSUME NEW c \in DOMAIN Replies, NEW r \in Replies[c], SendRequest(c, r)
        PROVE  Fifo!Ask
    <2>1. [cmd |-> c, id |-> sent'] \in Entry /\ [cmd |-> c, id |-> sent'].id = sent'
      BY <1>1, <1>2, EnvironmentAssumption DEF SendRequest, Entry
    <2>2. Calls(queue') = Append(Calls(queue), sent')
      <3>1. queue' = Append(queue, [cmd |-> c, id |-> sent'])
        BY <1>2 DEF SendRequest, add
      <3>2. \A e \in Entry : Calls(Append(queue, e)) = Append(Calls(queue), e.id)
        BY <1>1, CallsOfQueue
      <3> QED BY <2>1, <3>1, <3>2
    <2>3. ~waits /\ waits' = TRUE
      BY <1>2 DEF SendRequest, waits
    <2> QED BY <1>2, <2>2, <2>3 DEF SendRequest, Fifo!Ask, Calls, waits
  <1>3. ASSUME NEW c \in DOMAIN Replies, NEW r \in Replies[c], SendDropped(c, r)
        PROVE  Fifo!FailToAsk
    <2>1. ~waits /\ waits' = waits /\ queue' = queue
      BY <1>3 DEF SendDropped, waits
    <2>2. /\ result' = [kind |-> "dropped", call |-> sent', from |-> {}] /\ result'.kind = "dropped"
          /\ sent < MaxSent /\ sent' = sent + 1
          /\ session' = IF session = "sound" THEN "orphaned" ELSE session
      BY <1>1, <1>3, SizeAssumption DEF SendDropped
    <2> QED BY <2>1, <2>2 DEF Fifo!FailToAsk, Calls, waits
  <1>4. ASSUME SendFails
        PROVE  Fifo!FailToAsk
    <2>1. ~waits /\ waits' = waits /\ queue' = queue
      BY <1>4 DEF SendFails, waits
    <2>2. /\ result' = [kind |-> "io", call |-> sent', from |-> {}] /\ result'.kind # "dropped"
          /\ sent < MaxSent /\ sent' = sent + 1 /\ session' = session
      BY <1>4 DEF SendFails
    <2> QED BY <2>1, <2>2 DEF Fifo!FailToAsk, Calls, waits
  <1>5. ASSUME DecodeDone
        PROVE  Fifo!Answer \/ Fifo!AnswerUnordered
    <2>1. /\ session \in {"sound", "orphaned"} /\ queue # <<>> /\ queue' = Tail(queue)
          /\ waits /\ ~waits' /\ sent' = sent /\ session' = session
      BY <1>5, DoneAnswers
    <2>2. PICK k \in Delivered, from \in SUBSET (1 .. sent) :
            /\ result' = [kind |-> k, call |-> sent, from |-> from]
            /\ session = "sound" => from = {Head(queue).id}
      BY <1>5, DoneAnswers
    <2>3. Calls(queue) # <<>> /\ Head(Calls(queue)) = Head(queue).id /\ Calls(queue') = Tail(Calls(queue))
      BY <1>1, <2>1, CallsOfQueue
    <2>4. Fifo!Delivered = Delivered
      BY DEF Fifo!Delivered, Delivered
    <2>5. CASE session = "sound"
      <3>1. \E kk \in Delivered : result' = [kind |-> kk, call |-> sent, from |-> {Head(Calls(queue))}]
        BY <2>2, <2>3, <2>5
      <3>2. Fifo!Answer
        BY <2>1, <2>3, <2>4, <2>5, <3>1 DEF Fifo!Answer, Calls, waits
      <3> QED BY <3>2
    <2>6. CASE session = "orphaned"
      <3>1. \E kk \in Delivered, ff \in SUBSET (1 .. sent) : result' = [kind |-> kk, call |-> sent, from |-> ff]
        BY <2>2
      <3>2. Fifo!AnswerUnordered
        BY <2>1, <2>3, <2>4, <2>6, <3>1 DEF Fifo!AnswerUnordered, Calls, waits
      <3> QED BY <3>2
    <2> QED BY <2>1, <2>5, <2>6
  <1>6. ASSUME waits, ~waits', queue' = queue, sent' = sent,
               NEW k \in {"invalid", "too_large", "io", "panic", "dropped"},
               result' = [kind |-> k, call |-> sent, from |-> {}],
               session' = IF k \in {"invalid", "too_large"} THEN k ELSE session
        PROVE  Fifo!Fail
    <2>1. result'.kind = k /\ k \in Fifo!Failure
      BY <1>6 DEF Fifo!Failure
    <2>2. \E kk \in Fifo!Failure : result' = [kind |-> kk, call |-> sent, from |-> {}]
      BY <1>6, <2>1
    <2>3. session' = IF result'.kind \in {"invalid", "too_large"} THEN result'.kind ELSE session
      BY <1>6, <2>1
    <2>4. waits /\ waits' = FALSE /\ Calls(queue') = Calls(queue) /\ sent' = sent
      BY <1>6 DEF waits
    <2> QED BY <2>2, <2>3, <2>4 DEF Fifo!Fail, Calls, waits
  <1>7. ASSUME DecodeInvalid
        PROVE  Fifo!Fail
    <2>1. waits /\ ~waits' /\ queue' = queue /\ sent' = sent /\ session' = "invalid"
          /\ result' = [kind |-> "invalid", call |-> sent, from |-> {}]
      BY <1>7 DEF DecodeInvalid, Decodes, Outcome, waits
    <2> QED BY <1>6, <2>1
  <1>8. ASSUME DecodePanics
        PROVE  Fifo!Fail
    <2>1. waits /\ ~waits' /\ queue' = queue /\ sent' = sent /\ session' = session
          /\ result' = [kind |-> "panic", call |-> sent, from |-> {}]
      BY <1>8 DEF DecodePanics, Outcome, waits
    <2> QED BY <1>6, <2>1
  <1>9. ASSUME RefuseTooLarge
        PROVE  Fifo!Fail
    <2>1. waits /\ ~waits' /\ queue' = queue /\ sent' = sent /\ session' = "too_large"
          /\ result' = [kind |-> "too_large", call |-> sent, from |-> {}]
      BY <1>9 DEF RefuseTooLarge, Outcome, waits
    <2> QED BY <1>6, <2>1
  <1>10. ASSUME PollReadFails
        PROVE  Fifo!Fail
    <2>1. waits /\ ~waits' /\ queue' = queue /\ sent' = sent /\ session' = session
          /\ result' = [kind |-> "io", call |-> sent, from |-> {}]
      BY <1>10 DEF PollReadFails, Outcome, waits
    <2> QED BY <1>6, <2>1
  <1>14. ASSUME DropFuture
        PROVE  Fifo!Fail
    <2>1. waits /\ ~waits' /\ queue' = queue /\ sent' = sent /\ session' = session
          /\ result' = [kind |-> "dropped", call |-> sent, from |-> {}]
      BY <1>14 DEF DropFuture, Outcome, waits
    <2> QED BY <1>6, <2>1
  <1>11. CASE DecodeWaits \/ DecodeIncomplete \/ HasCapacity \/ Grow \/ PollReadNothing
    BY <1>11 DEF DecodeWaits, DecodeIncomplete, Decodes, HasCapacity, Grow, PollReadNothing, waits
  <1>12. CASE \E n \in 1 .. Len(wire) : PollRead(n)
    BY <1>12 DEF PollRead, waits
  <1>13. CASE CloseByServer \/ ResetByPeer \/ UNCHANGED vars
    BY <1>13 DEF CloseByServer, ResetByPeer, vars, waits
  <1> QED
    BY <1>2, <1>3, <1>4, <1>5, <1>7, <1>8, <1>9, <1>10, <1>11, <1>12, <1>13, <1>14
       DEF Next, Call, Decode, EnsureCapacity, Read, Fifo!Next

(* The stream implements ReplyFifo, whoever gives up when and whichever of *)
(* its Replies the server sends: replies are handed out in the order of    *)
(* the commands, each one once and whole, and none by a failed session.    *)
THEOREM StreamImplementsFifo == Spec => ImplementsFifo
  <1>1. Init => Fifo!Init
    BY DEF Init, Fifo!Init
  <1> QED
    BY <1>1, FifoStep, FifoInvariant, PTL DEF Spec, ImplementsFifo, Fifo!Spec

----------------------------------------------------------------------------
(* One call after the other: nobody gives up. *)
Patient == Faults \cap {"cancel", "cancel_encode"} = {}

(* A sound session has the command of the current call in its queue and    *)
(* no other; a buffer behind the cursor is only missing after an invalid   *)
(* response.                                                               *)
SerialInv ==
  /\ session # "orphaned"
  /\ cursor > Len(inner) => session = "invalid"
  /\ session = "sound" => /\ waits => Len(queue) = 1 /\ queue[1].id = sent
                          /\ pc = "idle" /\ conn # "reset" => queue = <<>>
  /\ PanicsOnlyAfterInvalid
  /\ OwnReply

(* With one command in the queue nothing follows its reply. *)
LEMMA NothingBehind ==
  ASSUME FifoInv, SerialInv, Decodes, Parsed.tag = "done"
  PROVE  session = "invalid" \/ Len(remaining) <= Chunk
  <1>1. /\ TypeInv /\ queue \in Seq(Entry) /\ queue # <<>> /\ cursor \in Nat /\ cursor <= Len(inner)
        /\ session \in {"sound", "orphaned", "invalid", "too_large"} /\ waits
    BY SizeAssumption DEF FifoInv, FailInv, NeedInv, TypeInv, TypeOK, RequestKnown, Decodes, waits
  <1>2. ~Failed
    BY FailedFindsNothing DEF FifoInv
  <1>3. session = "sound" /\ Len(queue) = 1
    BY <1>1, <1>2 DEF Failed, SerialInv
  <1>4. PICK R, o : Frames(queue, Unread, R, o)
    BY <1>3 DEF FifoInv, FrameInv, Framed
  <1>5. Parsed.used = Len(R[1])
    BY <1>1, <1>3, <1>4, HeadReply
  <1>6. Len(Unread) = cursor + Len(wire) /\ Len(wire) \in Nat /\ Unread \in Seq(Unit)
    BY <1>1, UnreadBytes
  <1>7. Len(Unread) <= Len(R[1])
    <2>1. \A k \in 1 .. Len(queue) :
             /\ R[k] \in Seq(Token) /\ Len(R[k]) \in Nat
             /\ o[k] \in Nat /\ o[k + 1] = o[k] + Len(R[k]) /\ o[k + 1] <= o[Len(queue) + 1]
      BY <1>1, <1>4, <1>6, FrameNumbers
    <2>2. o[1] = 0 /\ Len(Unread) <= o[Len(queue) + 1]
      BY <1>4 DEF Frames
    <2> QED BY <1>3, <2>1, <2>2
  <1>8. Len(remaining) = cursor - Parsed.used /\ Parsed.used \in 1 .. cursor
    BY <1>1, RemainingType, ParsedType
  <1>9. Len(remaining) <= 0
    BY <1>1, <1>5, <1>6, <1>7, <1>8
  <1> QED BY <1>1, <1>8, <1>9, SizeAssumption

LEMMA SerialStep ==
  ASSUME Patient, FifoInv, SerialInv, [Next]_vars
  PROVE  SerialInv'
  <1>1. /\ TypeInv /\ queue \in Seq(Entry) /\ Len(queue) \in Nat /\ cursor \in Nat /\ Len(inner) \in Nat
        /\ sent \in Nat /\ decode_needs \in Nat
    BY SizeAssumption DEF FifoInv, FailInv, NeedInv, TypeInv, TypeOK
  <1>2. ASSUME NEW c \in DOMAIN Replies, NEW r \in Replies[c], SendRequest(c, r)
        PROVE  SerialInv'
    <2>1. [cmd |-> c, id |-> sent'] \in Entry /\ [cmd |-> c, id |-> sent'].id = sent'
      BY <1>1, <1>2, EnvironmentAssumption DEF SendRequest, Entry
    <2>2. ASSUME session = "sound"
          PROVE  Len(queue') = 1 /\ queue'[1].id = sent'
      <3> DEFINE e == [cmd |-> c, id |-> sent']
      <3>1. queue' = Append(queue, e) /\ queue = <<>>
        BY <1>2, <2>2 DEF SendRequest, add, SerialInv
      <3> HIDE DEF e
      <3>2. Len(queue') = 1 /\ queue'[1] = e
        BY <3>1
      <3> QED BY <2>1, <3>2 DEF e
    <2> QED
      BY <1>2, <2>2 DEF SendRequest, SerialInv, PanicsOnlyAfterInvalid, OwnReply, buffer, waits
  <1>3. ASSUME NEW c \in DOMAIN Replies, NEW r \in Replies[c], SendDropped(c, r)
        PROVE  SerialInv'
    BY <1>3 DEF SendDropped, Patient
  <1>4. CASE SendFails
    BY <1>4 DEF SendFails, SerialInv, PanicsOnlyAfterInvalid, OwnReply, Delivered, buffer, waits
  <1>5. CASE DecodeDone
    <2>1. /\ session \in {"sound", "orphaned"} /\ queue # <<>> /\ queue' = Tail(queue)
          /\ waits /\ sent' = sent /\ session' = session
      BY <1>5, DoneAnswers
    <2>2. PICK k \in Delivered, from \in SUBSET (1 .. sent) :
            /\ result' = [kind |-> k, call |-> sent, from |-> from]
            /\ session = "sound" => from = {Head(queue).id}
      BY <1>5, DoneAnswers
    <2>3. session = "sound" /\ Len(queue) = 1 /\ queue[1].id = sent /\ Head(queue) = queue[1]
      BY <1>1, <2>1 DEF SerialInv
    <2>4. queue' = <<>>
      BY <1>1, <2>1, <2>3
    <2>5. result'.from = {result'.call}
      BY <2>2, <2>3
    <2>6. cursor' <= Len(inner') /\ cursor' \in Nat
      BY <1>1, <1>5, DoneMoves
    <2>7. pc' = "idle" /\ Len(inner') \in Nat /\ ~(cursor' > Len(inner'))
      <3>1. Len(inner') \in Nat
        BY <1>5, DecodeTyped, <1>1 DEF Decode, TypeInv, TypeOK
      <3> QED BY <1>5, <2>6, <3>1 DEF DecodeDone
    <2> QED BY <2>1, <2>3, <2>4, <2>5, <2>7 DEF SerialInv, PanicsOnlyAfterInvalid, OwnReply, waits
  <1>6. CASE DecodeInvalid
    BY <1>6 DEF DecodeInvalid, Outcome, SerialInv, PanicsOnlyAfterInvalid, OwnReply, Delivered
  <1>7. CASE DecodePanics
    <2>1. session = "invalid"
      BY <1>7, NothingBehind, <1>1, SizeAssumption
         DEF DecodePanics, SerialInv, Decodes
    <2> QED
      BY <1>7, <2>1 DEF DecodePanics, Outcome, SerialInv, PanicsOnlyAfterInvalid, OwnReply, Delivered, buffer
  <1>8. CASE DecodeWaits \/ DecodeIncomplete \/ HasCapacity \/ PollReadNothing
    BY <1>8 DEF DecodeWaits, DecodeIncomplete, Decodes, HasCapacity, PollReadNothing, SerialInv,
                PanicsOnlyAfterInvalid, OwnReply, buffer, waits
  <1>9. CASE Grow
    <2>1. /\ Len(inner') = new_size /\ new_size \in Nat /\ new_size >= Len(inner) + increase
          /\ cursor' = cursor /\ cursor <= Len(inner)
      BY <1>1, <1>9, GrowKeepsReceived DEF Grow
    <2>2. increase \in Nat
      BY <1>1, SizeAssumption DEF increase, extra_bytes_needed
    <2>3. ~(cursor' > Len(inner'))
      BY <1>1, <2>1, <2>2
    <2> QED BY <1>9, <2>3 DEF Grow, SerialInv, PanicsOnlyAfterInvalid, OwnReply, waits
  <1>10. CASE RefuseTooLarge
    <2>1. ~(cursor' > Len(inner'))
      BY <1>1, <1>10 DEF RefuseTooLarge, TypeInv, CursorInBuffer, buffer
    <2> QED
      BY <1>10, <2>1 DEF RefuseTooLarge, Outcome, SerialInv, PanicsOnlyAfterInvalid, OwnReply, Delivered
  <1>11. ASSUME NEW n \in 1 .. Len(wire), PollRead(n)
         PROVE  SerialInv'
    <2>1. Len(inner') \in Nat /\ cursor' \in Nat
      <3>1. TypeInv'
        BY <1>1, <1>11, ReadTyped DEF Read
      <3> QED BY <3>1, SizeAssumption DEF TypeInv, TypeOK
    <2>2. ~(cursor' > Len(inner'))
      BY <1>1, <1>11, <2>1, ReadMoves
    <2> QED BY <1>11, <2>2 DEF PollRead, SerialInv, PanicsOnlyAfterInvalid, OwnReply, waits
  <1>12. CASE PollReadFails
    BY <1>12 DEF PollReadFails, Outcome, SerialInv, PanicsOnlyAfterInvalid, OwnReply, Delivered, buffer, waits
  <1>13. CASE DropFuture
    BY <1>13 DEF DropFuture, Patient
  <1>14. CASE CloseByServer \/ ResetByPeer
    BY <1>14 DEF CloseByServer, ResetByPeer, SerialInv, PanicsOnlyAfterInvalid, OwnReply, buffer, waits
  <1>15. CASE UNCHANGED vars
    BY <1>15 DEF vars, SerialInv, PanicsOnlyAfterInvalid, OwnReply, waits
  <1> QED
    BY <1>2, <1>3, <1>4, <1>5, <1>6, <1>7, <1>8, <1>9, <1>10, <1>11, <1>12, <1>13, <1>14, <1>15
       DEF Next, Call, Decode, EnsureCapacity, Read

LEMMA SerialInvariant ==
  ASSUME Patient
  PROVE  Spec => []SerialInv
  <1>1. Init => SerialInv
    <2> SUFFICES ASSUME Init PROVE SerialInv
      OBVIOUS
    <2>1. TypeInv /\ cursor = 0 /\ queue = <<>> /\ session = "sound" /\ pc = "idle" /\ result.kind = "none"
      BY InitTyped DEF Init
    <2>2. ~(cursor > Len(inner))
      BY <2>1, SizeAssumption DEF TypeInv, TypeOK
    <2> QED BY <2>1, <2>2 DEF SerialInv, PanicsOnlyAfterInvalid, OwnReply, Delivered, waits
  <1>2. FifoInv /\ SerialInv /\ [Next]_vars => SerialInv'
    BY SerialStep
  <1> QED BY <1>1, <1>2, FifoInvariant, PTL DEF Spec

(* As long as nobody gives up, a reply consists of bytes the server sent   *)
(* in answer to this very call, however they were cut up.                  *)
THEOREM StreamOwnReply ==
  ASSUME Patient
  PROVE  Spec => []OwnReply
  <1>1. SerialInv => OwnReply
    BY DEF SerialInv
  <1> QED BY <1>1, SerialInvariant, PTL

(* As long as nobody gives up, only a call behind an invalid response can  *)
(* slice out of range.                                                     *)
THEOREM StreamPanicsOnlyAfterInvalid ==
  ASSUME Patient
  PROVE  Spec => []PanicsOnlyAfterInvalid
  <1>1. SerialInv => PanicsOnlyAfterInvalid
    BY DEF SerialInv
  <1> QED BY <1>1, SerialInvariant, PTL
============================================================================
