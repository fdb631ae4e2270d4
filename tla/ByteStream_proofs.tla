-------------------------- MODULE ByteStream_proofs --------------------------
(***************************************************************************)
(* Lemmas on the stream that a framer reads: how long its frames are, what *)
(* a chunk of it can be, and what the peer's messages are in it.           *)
(***************************************************************************)
EXTENDS ByteStream, Reading_proofs, WellFoundedInduction

-----------------------------------------------------------------------------
(* Induction, for properties of natural numbers that are written as sets.  *)

(* A set of natural numbers that is not empty has a least element.         *)
LEMMA LeastElement ==
  ASSUME NEW T, T \subseteq Nat, T # {}
  PROVE  \E x \in T : \A y \in T : x <= y
<1> DEFINE R == OpToRel(<, Nat)
<1>1. IsWellFoundedOn(R, Nat)
  BY NatLessThanWellFounded
<1>2. R = {ss \in Nat \X Nat : ss[1] < ss[2]}
  BY DEF OpToRel
<1> HIDE DEF R
<1> PICK x \in T : \A y \in T : ~(<<y, x>> \in R)
  BY <1>1, WFMin
<1>3. ASSUME NEW y \in T
      PROVE  x <= y
  <2>1. x \in Nat /\ y \in Nat /\ <<y, x>> \in Nat \X Nat
    OBVIOUS
  <2>2. ~(<<y, x>>[1] < <<y, x>>[2])
    BY <1>2, <2>1
  <2> QED
    BY <2>1, <2>2
<1> QED
  BY <1>3

(* A set with 0 and the successors of its numbers has them all.            *)
LEMMA Induction ==
  ASSUME NEW S, 0 \in S, \A n \in Nat : n \in S => n + 1 \in S
  PROVE  \A n \in Nat : n \in S
<1> SUFFICES ASSUME Nat \ S # {}
             PROVE  FALSE
  OBVIOUS
<1> PICK x \in Nat \ S : \A y \in Nat \ S : x <= y
  BY LeastElement
<1>1. x # 0 /\ x - 1 \in Nat /\ x - 1 \in S
  OBVIOUS
<1> QED
  BY <1>1

-----------------------------------------------------------------------------
(* The lengths of the frames.                                              *)

(* What the definition of Lengths says, if there is such a function.       *)
SumsTo(sum, s, n) ==
  /\ sum[0] = 0
  /\ \A i \in 1..n : sum[i] = sum[i - 1] + FrameLen(s[i])

(* There is.                                                               *)
LEMMA LengthsExist ==
  ASSUME NEW s \in Seq(Frame)
  PROVE  \E sum \in [0..Len(s) -> Nat] : SumsTo(sum, s, Len(s))
<1> DEFINE S == {n \in Nat : n <= Len(s) =>
                               \E sum \in [0..n -> Nat] : SumsTo(sum, s, n)}
<1>1. 0 \in S
  <2>1. [i \in 0..0 |-> 0] \in [0..0 -> Nat]
        /\ SumsTo([i \in 0..0 |-> 0], s, 0)
    BY DEF SumsTo
  <2> QED
    BY <2>1
<1>2. ASSUME NEW n \in Nat, n \in S, n + 1 <= Len(s)
      PROVE  \E sum \in [0..(n + 1) -> Nat] : SumsTo(sum, s, n + 1)
  <2>1. n <= Len(s) /\ n + 1 \in 1..Len(s)
    BY <1>2
  <2> PICK sum \in [0..n -> Nat] : SumsTo(sum, s, n)
    BY <1>2, <2>1
  <2> DEFINE more == [i \in 0..(n + 1) |->
                        IF i = n + 1 THEN sum[n] + FrameLen(s[n + 1])
                        ELSE sum[i]]
  <2>2. FrameLen(s[n + 1]) \in Nat
    BY <2>1, FrameLenType
  <2>3. more \in [0..(n + 1) -> Nat]
    BY <2>2
  <2>4. SumsTo(more, s, n + 1)
    BY DEF SumsTo
  <2> QED
    BY <2>3, <2>4
<1>3. ASSUME NEW n \in Nat, n \in S
      PROVE  n + 1 \in S
  <2>1. n + 1 <= Len(s) =>
          \E sum \in [0..(n + 1) -> Nat] : SumsTo(sum, s, n + 1)
    BY <1>2, <1>3
  <2> QED
    BY <2>1
<1> HIDE DEF S
<1>4. Len(s) \in S
  BY <1>1, <1>3, Induction
<1> QED
  BY <1>4 DEF S

(* The first frames of a stream have as many bytes as the definition of    *)
(* Lengths says.                                                           *)
LEMMA LengthsDef ==
  ASSUME NEW s \in Seq(Frame)
  PROVE  /\ Lengths(s) \in [0..Len(s) -> Nat]
         /\ SumsTo(Lengths(s), s, Len(s))
<1> DEFINE Is(f) == f = [i \in 0..Len(s) |->
                           IF i = 0 THEN 0 ELSE f[i - 1] + FrameLen(s[i])]
<1>1. \E f : Is(f)
  <2> PICK sum \in [0..Len(s) -> Nat] : SumsTo(sum, s, Len(s))
    BY LengthsExist
  <2>1. Is(sum)
    BY DEF SumsTo
  <2> QED
    BY <2>1
<1>2. Lengths(s) = CHOOSE f : Is(f)
  BY DEF Lengths
<1>3. Is(Lengths(s))
  BY <1>1, <1>2
<1> DEFINE S == {n \in Nat : n <= Len(s) => Lengths(s)[n] \in Nat}
<1>4. 0 \in S
  BY <1>3
<1>5. ASSUME NEW n \in Nat, n \in S, n + 1 <= Len(s)
      PROVE  n + 1 \in S
  <2>1. Lengths(s)[n + 1] = Lengths(s)[n] + FrameLen(s[n + 1])
    BY <1>3, <1>5
  <2>2. Lengths(s)[n] \in Nat
    BY <1>5
  <2>3. FrameLen(s[n + 1]) \in Nat
    BY <1>5, FrameLenType
  <2> QED
    BY <2>1, <2>2, <2>3
<1>6. \A n \in Nat : ~(n + 1 <= Len(s)) => n + 1 \in S
  OBVIOUS
<1> HIDE DEF S
<1>7. \A n \in Nat : n \in S
  BY <1>4, <1>5, <1>6, Induction
<1>8. \A n \in 0..Len(s) : Lengths(s)[n] \in Nat
  BY <1>7 DEF S
<1>9. Lengths(s) \in [0..Len(s) -> Nat]
  BY <1>3, <1>8
<1>10. Lengths(s)[0] = 0
  BY <1>3
<1>11. \A i \in 1..Len(s) :
         Lengths(s)[i] = Lengths(s)[i - 1] + FrameLen(s[i])
  BY <1>3
<1> QED
  BY <1>9, <1>10, <1>11 DEF SumsTo

\* Two functions agree at 0, and at each number if at the one before.
Alike(f, g, n) ==
  /\ f[0] = g[0]
  /\ \A i \in 1..n : f[i - 1] = g[i - 1] => f[i] = g[i]

(* Such functions are equal.                                               *)
LEMMA AlikeIsEqual ==
  ASSUME NEW f, NEW g, NEW n \in Nat, Alike(f, g, n)
  PROVE  \A i \in 0..n : f[i] = g[i]
<1>0. f[0] = g[0] /\ \A i \in 1..n : f[i - 1] = g[i - 1] => f[i] = g[i]
  BY DEF Alike
<1> DEFINE S == {k \in Nat : k <= n => f[k] = g[k]}
<1>1. 0 \in S
  BY <1>0
<1>2. ASSUME NEW k \in Nat, k \in S
      PROVE  k + 1 \in S
  <2>1. CASE k + 1 <= n
    <3>1. k + 1 \in 1..n /\ (k + 1) - 1 = k /\ f[k] = g[k]
      BY <1>2, <2>1
    <3>2. f[k + 1] = g[k + 1]
      BY <1>0, <3>1
    <3> QED
      BY <3>2
  <2>2. CASE ~(k + 1 <= n)
    BY <2>2
  <2> QED
    BY <2>1, <2>2
<1> HIDE DEF S
<1>3. \A k \in Nat : k \in S
  BY <1>1, <1>2, Induction
<1> QED
  BY <1>3 DEF S

(* Any number of frames but none has at least the bytes of the first.      *)
LEMMA LengthsLeast ==
  ASSUME NEW s \in Seq(Frame), NEW i \in 1..Len(s)
  PROVE  Lengths(s)[i] >= FrameLen(Head(s))
<1> DEFINE S == {k \in Nat : k + 1 <= Len(s) =>
                               Lengths(s)[k + 1] >= FrameLen(Head(s))}
<1>1. /\ Lengths(s) \in [0..Len(s) -> Nat] /\ Lengths(s)[0] = 0
      /\ \A k \in 1..Len(s) :
           Lengths(s)[k] = Lengths(s)[k - 1] + FrameLen(s[k])
  BY LengthsDef DEF SumsTo
<1>2. \A k \in 1..Len(s) : FrameLen(s[k]) \in Nat
  BY FrameLenType
<1>3. 0 \in S
  BY <1>1, <1>2
<1>4. ASSUME NEW k \in Nat, k \in S
      PROVE  k + 1 \in S
  <2>1. CASE (k + 1) + 1 <= Len(s)
    <3>1. Lengths(s)[k + 1] >= FrameLen(Head(s)) /\ Lengths(s)[k + 1] \in Nat
      BY <1>1, <1>4, <2>1
    <3>2. /\ Lengths(s)[(k + 1) + 1]
               = Lengths(s)[k + 1] + FrameLen(s[(k + 1) + 1])
          /\ FrameLen(s[(k + 1) + 1]) \in Nat
      BY <1>1, <1>2, <2>1
    <3>3. FrameLen(Head(s)) \in Nat
      BY <1>2, <2>1
    <3>4. Lengths(s)[(k + 1) + 1] >= FrameLen(Head(s))
      BY <3>1, <3>2, <3>3
    <3> QED
      BY <3>4
  <2>2. CASE ~((k + 1) + 1 <= Len(s))
    BY <2>2
  <2> QED
    BY <2>1, <2>2
<1> HIDE DEF S
<1>5. i - 1 \in S
  BY <1>3, <1>4, Induction
<1> QED
  BY <1>5 DEF S

(* A frame at the end leaves the lengths ahead of it alone.                *)
LEMMA LengthsAppend ==
  ASSUME NEW s \in Seq(Frame), NEW f \in Frame
  PROVE  \A i \in 0..Len(s) : Lengths(Append(s, f))[i] = Lengths(s)[i]
<1> DEFINE t == Append(s, f)
<1>1. /\ t \in Seq(Frame) /\ Len(t) = Len(s) + 1 /\ Len(s) \in Nat
      /\ \A i \in 1..Len(s) : t[i] = s[i] /\ i \in 1..Len(t)
  OBVIOUS
<1> HIDE DEF t
<1>2. /\ Lengths(s)[0] = 0
      /\ \A i \in 1..Len(s) :
           Lengths(s)[i] = Lengths(s)[i - 1] + FrameLen(s[i])
  BY LengthsDef DEF SumsTo
<1>3. /\ Lengths(t)[0] = 0
      /\ \A i \in 1..Len(t) :
           Lengths(t)[i] = Lengths(t)[i - 1] + FrameLen(t[i])
  BY <1>1, LengthsDef DEF SumsTo
<1>4. \A i \in 1..Len(s) : Lengths(t)[i - 1] = Lengths(s)[i - 1]
                             => Lengths(t)[i] = Lengths(s)[i]
  BY <1>1, <1>2, <1>3
<1>5. Alike(Lengths(t), Lengths(s), Len(s))
  BY <1>1, <1>2, <1>3, <1>4 DEF Alike
<1>6. \A i \in 0..Len(s) : Lengths(t)[i] = Lengths(s)[i]
  BY <1>1, <1>5, AlikeIsEqual
<1> QED
  BY <1>6 DEF t

(* Without the first frame each length is less by that.                    *)
LEMMA LengthsTail ==
  ASSUME NEW s \in Seq(Frame), s # <<>>
  PROVE  \A i \in 0..(Len(s) - 1) :
           Lengths(Tail(s))[i] = Lengths(s)[i + 1] - FrameLen(Head(s))
<1> DEFINE t == Tail(s)
           n == Len(s) - 1
           g == [i \in 0..n |-> Lengths(s)[i + 1] - FrameLen(Head(s))]
<1>1. /\ t \in Seq(Frame) /\ Len(t) = n /\ n \in Nat
      /\ \A i \in 1..n : t[i] = s[i + 1] /\ i + 1 \in 1..Len(s)
      /\ Head(s) = s[1] /\ 1 \in 1..Len(s) /\ Head(s) \in Frame
  OBVIOUS
<1> HIDE DEF t
<1>2. /\ Lengths(s) \in [0..Len(s) -> Nat] /\ Lengths(s)[0] = 0
      /\ \A i \in 1..Len(s) :
           Lengths(s)[i] = Lengths(s)[i - 1] + FrameLen(s[i])
  BY LengthsDef DEF SumsTo
<1>3. /\ Lengths(t)[0] = 0
      /\ \A i \in 1..n : Lengths(t)[i] = Lengths(t)[i - 1] + FrameLen(t[i])
  BY <1>1, LengthsDef DEF SumsTo
<1>4. FrameLen(Head(s)) \in Nat
  BY <1>1, FrameLenType
<1>5. g[0] = 0
  BY <1>1, <1>2, <1>4
<1>6. ASSUME NEW i \in 1..n, Lengths(t)[i - 1] = g[i - 1]
      PROVE  Lengths(t)[i] = g[i]
  <2>0. i + 1 \in 1..Len(s) /\ (i + 1) - 1 = i /\ i \in 0..Len(s)
    BY <1>1
  <2>1. FrameLen(t[i]) \in Nat /\ t[i] = s[i + 1]
    <3>1. t[i] = s[i + 1] /\ s[i + 1] \in Frame
      BY <1>1, <2>0
    <3> QED
      BY <3>1, FrameLenType
  <2>2. Lengths(t)[i] = g[i - 1] + FrameLen(s[i + 1])
    BY <1>3, <1>6, <2>1
  <2>3. g[i - 1] = Lengths(s)[i] - FrameLen(Head(s))
    BY <1>1
  <2>4. /\ Lengths(s)[i + 1] = Lengths(s)[i] + FrameLen(s[i + 1])
        /\ Lengths(s)[i] \in Nat
    BY <1>2, <2>0
  <2>5. g[i] = Lengths(s)[i + 1] - FrameLen(Head(s))
    BY <1>1
  <2> HIDE DEF g
  <2> QED
    BY <1>4, <2>1, <2>2, <2>3, <2>4, <2>5
<1> HIDE DEF g
<1>7. Alike(Lengths(t), g, n)
  BY <1>3, <1>5, <1>6 DEF Alike
<1>8. \A i \in 0..n : Lengths(t)[i] = g[i]
  BY <1>1, <1>7, AlikeIsEqual
<1> QED
  BY <1>8 DEF g, t

(* The bytes of a stream are none, or as many as the first frame at least. *)
LEMMA BytesType ==
  ASSUME NEW s \in Seq(Frame)
  PROVE  /\ Bytes(s) \in Nat
         /\ s = <<>> => Bytes(s) = 0
         /\ s # <<>> => Bytes(s) >= FrameLen(Head(s))
<1>1. Lengths(s) \in [0..Len(s) -> Nat] /\ Lengths(s)[0] = 0
  BY LengthsDef DEF SumsTo
<1>2. s # <<>> => Len(s) \in 1..Len(s)
  OBVIOUS
<1> QED
  BY <1>1, <1>2, LengthsLeast DEF Bytes

(* A frame at the end adds its bytes.                                      *)
LEMMA BytesAppend ==
  ASSUME NEW s \in Seq(Frame), NEW f \in Frame
  PROVE  Bytes(Append(s, f)) = Bytes(s) + FrameLen(f)
<1> DEFINE t == Append(s, f)
<1>1. /\ t \in Seq(Frame) /\ Len(t) = Len(s) + 1 /\ t[Len(t)] = f
      /\ Len(t) \in 1..Len(t) /\ Len(t) - 1 = Len(s) /\ Len(s) \in 0..Len(s)
  OBVIOUS
<1>2. Lengths(t)[Len(s)] = Lengths(s)[Len(s)]
  BY <1>1, LengthsAppend
<1> HIDE DEF t
<1>3. Lengths(t)[Len(t)] = Lengths(t)[Len(t) - 1] + FrameLen(t[Len(t)])
  BY <1>1, LengthsDef DEF SumsTo
<1>4. Bytes(t) = Bytes(s) + FrameLen(f)
  BY <1>1, <1>2, <1>3 DEF Bytes
<1> QED
  BY <1>4 DEF t

(* Without the first frame its bytes are missing.                          *)
LEMMA BytesTail ==
  ASSUME NEW s \in Seq(Frame), s # <<>>
  PROVE  Bytes(Tail(s)) = Bytes(s) - FrameLen(Head(s))
<1>1. /\ Len(Tail(s)) = Len(s) - 1 /\ Len(s) - 1 \in 0..(Len(s) - 1)
      /\ (Len(s) - 1) + 1 = Len(s)
  OBVIOUS
<1>2. Lengths(Tail(s))[Len(s) - 1]
        = Lengths(s)[(Len(s) - 1) + 1] - FrameLen(Head(s))
  BY <1>1, LengthsTail
<1> QED
  BY <1>1, <1>2 DEF Bytes

(* Frames of at most m bytes make as many bytes as that, times.            *)
LEMMA BytesBound ==
  ASSUME NEW s \in Seq(Frame), NEW m \in Nat,
         \A i \in 1..Len(s) : FrameLen(s[i]) <= m
  PROVE  Bytes(s) <= Len(s) * m
<1> DEFINE S == {k \in Nat : k <= Len(s) => Lengths(s)[k] <= k * m}
<1>1. /\ Lengths(s) \in [0..Len(s) -> Nat] /\ Lengths(s)[0] = 0
      /\ \A k \in 1..Len(s) :
           Lengths(s)[k] = Lengths(s)[k - 1] + FrameLen(s[k])
  BY LengthsDef DEF SumsTo
<1>2. 0 \in S
  BY <1>1
<1>3. ASSUME NEW k \in Nat, k \in S
      PROVE  k + 1 \in S
  <2>1. CASE k + 1 <= Len(s)
    <3>1. /\ Lengths(s)[k] <= k * m /\ Lengths(s)[k] \in Nat
          /\ k + 1 \in 1..Len(s) /\ (k + 1) - 1 = k
      BY <1>1, <1>3, <2>1
    <3>2. /\ Lengths(s)[k + 1] = Lengths(s)[k] + FrameLen(s[k + 1])
          /\ FrameLen(s[k + 1]) <= m /\ FrameLen(s[k + 1]) \in Nat
      BY <1>1, <3>1, FrameLenType
    <3>3. (k + 1) * m = k * m + m /\ k * m \in Nat
      OBVIOUS
    <3>4. Lengths(s)[k + 1] <= (k + 1) * m
      BY <3>1, <3>2, <3>3
    <3> QED
      BY <3>4
  <2>2. CASE ~(k + 1 <= Len(s))
    BY <2>2
  <2> QED
    BY <2>1, <2>2
<1> HIDE DEF S
<1>4. Len(s) \in S
  BY <1>2, <1>3, Induction
<1> QED
  BY <1>4 DEF S, Bytes

-----------------------------------------------------------------------------
(* Where a chunk may end: CutAt, for any frames.                           *)

BetweenFrames(s, pos) == \E i \in 0..Len(s) : pos = Lengths(s)[i]

InPayload(s, pos) ==
  \E i \in DOMAIN s :
    /\ s[i].op_code \in DataOpCode /\ s[i].fin
    /\ pos >= Lengths(s)[i - 1] + HeaderLen(s[i])
    /\ pos <= Lengths(s)[i - 1] + FrameLen(s[i])

CutIn(s, pos) ==
  \/ Cuts = "anywhere"
  \/ BetweenFrames(s, pos)
  \/ Cuts = "payloads" /\ InPayload(s, pos)

(* CutAt is about the frames in the inbox.                                 *)
LEMMA CutAtMeans ==
  ASSUME inbox \in Seq(Frame), NEW pos \in Nat, CutAt(pos)
  PROVE  CutIn(inbox, pos)
<1>1. CASE Cuts = "anywhere"
  BY <1>1 DEF CutIn
<1>2. CASE \E i \in 0..Len(inbox) : pos = Lengths(inbox)[i]
  BY <1>2 DEF CutIn, BetweenFrames
<1>3. ASSUME Cuts = "payloads", NEW i \in DOMAIN inbox,
             inbox[i].op_code \in DataOpCode, inbox[i].fin,
             pos \in (Lengths(inbox)[i - 1] + HeaderLen(inbox[i]))
                     ..(Lengths(inbox)[i - 1] + FrameLen(inbox[i]))
      PROVE  CutIn(inbox, pos)
  <2>1. Lengths(inbox)[i - 1] \in Nat
    <3>1. i - 1 \in 0..Len(inbox)
      OBVIOUS
    <3> QED
      BY <3>1, LengthsDef
  <2>2. HeaderLen(inbox[i]) \in Nat /\ FrameLen(inbox[i]) \in Nat
    BY FrameLenType
  <2>3. InPayload(inbox, pos)
    BY <1>3, <2>1, <2>2 DEF InPayload
  <2> QED
    BY <1>3, <2>3 DEF CutIn
<1> QED
  BY <1>1, <1>2, <1>3 DEF CutAt

(* A chunk may still end where it could when the peer has sent more.       *)
LEMMA CutBeforeAppend ==
  ASSUME NEW s \in Seq(Frame), NEW f \in Frame, NEW pos, CutIn(s, pos)
  PROVE  CutIn(Append(s, f), pos)
<1>1. /\ Len(s) \in Nat /\ Len(Append(s, f)) = Len(s) + 1
      /\ DOMAIN s = 1..Len(s) /\ DOMAIN Append(s, f) = 1..(Len(s) + 1)
      /\ \A i \in 1..Len(s) : Append(s, f)[i] = s[i]
  OBVIOUS
<1>2. \A i \in 0..Len(s) : Lengths(Append(s, f))[i] = Lengths(s)[i]
  BY LengthsAppend
<1>3. CASE BetweenFrames(s, pos)
  <2>1. BetweenFrames(Append(s, f), pos)
    BY <1>1, <1>2, <1>3 DEF BetweenFrames
  <2> QED
    BY <2>1 DEF CutIn
<1>4. CASE Cuts = "payloads" /\ InPayload(s, pos)
  <2> PICK i \in DOMAIN s :
        /\ s[i].op_code \in DataOpCode /\ s[i].fin
        /\ pos >= Lengths(s)[i - 1] + HeaderLen(s[i])
        /\ pos <= Lengths(s)[i - 1] + FrameLen(s[i])
    BY <1>4 DEF InPayload
  <2>1. /\ i \in DOMAIN Append(s, f) /\ Append(s, f)[i] = s[i]
        /\ Lengths(Append(s, f))[i - 1] = Lengths(s)[i - 1]
    BY <1>1, <1>2
  <2>2. InPayload(Append(s, f), pos)
    BY <2>1 DEF InPayload
  <2> QED
    BY <1>4, <2>2 DEF CutIn
<1> QED
  BY <1>3, <1>4 DEF CutIn

(* And when the first frame has been taken, which it covers.               *)
LEMMA CutBehindHead ==
  ASSUME NEW s \in Seq(Frame), s # <<>>, NEW pos \in Nat,
         pos >= FrameLen(Head(s)), CutIn(s, pos)
  PROVE  CutIn(Tail(s), pos - FrameLen(Head(s)))
<1> DEFINE t == Tail(s)
           n == FrameLen(Head(s))
<1>1. /\ t \in Seq(Frame) /\ Len(t) = Len(s) - 1 /\ Len(s) \in Nat
      /\ DOMAIN s = 1..Len(s) /\ DOMAIN t = 1..(Len(s) - 1)
      /\ \A i \in 1..(Len(s) - 1) : t[i] = s[i + 1]
      /\ Head(s) = s[1] /\ Head(s) \in Frame
  OBVIOUS
<1>2. \A i \in 0..(Len(s) - 1) : Lengths(t)[i] = Lengths(s)[i + 1] - n
  BY LengthsTail
<1>3. /\ Lengths(s) \in [0..Len(s) -> Nat] /\ Lengths(s)[0] = 0
      /\ Lengths(s)[1] = n
  <2>1. /\ Lengths(s) \in [0..Len(s) -> Nat] /\ Lengths(s)[0] = 0
        /\ \A i \in 1..Len(s) :
             Lengths(s)[i] = Lengths(s)[i - 1] + FrameLen(s[i])
    BY LengthsDef DEF SumsTo
  <2>2. n \in Nat /\ 1 \in 1..Len(s) /\ 1 - 1 = 0
    BY <1>1, FrameLenType
  <2>3. Lengths(s)[1] = Lengths(s)[0] + FrameLen(s[1])
    BY <2>1, <2>2
  <2> QED
    BY <1>1, <2>1, <2>2, <2>3
<1>4. n \in Nat /\ n >= 2
  <2>1. /\ HeaderLen(Head(s)) \in Nat /\ HeaderLen(Head(s)) >= 2
        /\ Head(s).len \in Nat /\ n = HeaderLen(Head(s)) + Head(s).len
    BY <1>1, FrameLenType
  <2> HIDE DEF n
  <2> QED
    BY <2>1
<1> HIDE DEF t, n
<1>5. ASSUME NEW i \in 0..Len(s), pos = Lengths(s)[i]
      PROVE  BetweenFrames(t, pos - n)
  <2>1. i # 0
    BY <1>3, <1>4, <1>5 DEF n
  <2>2. i - 1 \in 0..(Len(s) - 1) /\ (i - 1) + 1 = i
    BY <1>1, <2>1
  <2>3. Lengths(t)[i - 1] = Lengths(s)[i] - n
    BY <1>2, <2>2
  <2> QED
    BY <1>1, <1>5, <2>2, <2>3 DEF BetweenFrames
<1>6. ASSUME NEW i \in DOMAIN s, s[i].op_code \in DataOpCode, s[i].fin,
             pos >= Lengths(s)[i - 1] + HeaderLen(s[i]),
             pos <= Lengths(s)[i - 1] + FrameLen(s[i])
      PROVE  BetweenFrames(t, pos - n) \/ InPayload(t, pos - n)
  <2>1. CASE i = 1
    <3>1. pos = n
      BY <1>1, <1>3, <1>4, <1>6, <2>1 DEF n
    <3>2. Lengths(t)[0] = 0 /\ 0 \in 0..Len(t)
      BY <1>1, <1>2, <1>3, <1>4
    <3> QED
      BY <1>4, <3>1, <3>2 DEF BetweenFrames
  <2>2. CASE i # 1
    <3>1. /\ i - 1 \in DOMAIN t /\ t[i - 1] = s[i]
          /\ (i - 1) - 1 \in 0..(Len(s) - 1) /\ ((i - 1) - 1) + 1 = i - 1
      BY <1>1, <2>2
    <3>2. /\ Lengths(t)[(i - 1) - 1] = Lengths(s)[i - 1] - n
          /\ Lengths(s)[i - 1] \in Nat
      BY <1>1, <1>2, <1>3, <3>1
    <3>3. HeaderLen(s[i]) \in Nat /\ FrameLen(s[i]) \in Nat
      BY FrameLenType
    <3>4. /\ pos - n >= Lengths(t)[(i - 1) - 1] + HeaderLen(t[i - 1])
          /\ pos - n <= Lengths(t)[(i - 1) - 1] + FrameLen(t[i - 1])
      <4> DEFINE l == Lengths(s)[i - 1]
                 h == HeaderLen(s[i])
                 k == FrameLen(s[i])
      <4>1. /\ l \in Nat /\ h \in Nat /\ k \in Nat
            /\ pos >= l + h /\ pos <= l + k
        BY <1>6, <3>2, <3>3
      <4> HIDE DEF l, h, k
      <4>2. pos - n >= (l - n) + h /\ pos - n <= (l - n) + k
        BY <1>4, <4>1
      <4> QED
        BY <3>1, <3>2, <4>2 DEF l, h, k
    <3> QED
      BY <1>6, <3>1, <3>4 DEF InPayload
  <2> QED
    BY <2>1, <2>2
<1>7. CASE BetweenFrames(s, pos)
  BY <1>5, <1>7 DEF BetweenFrames, CutIn, n, t
<1>8. CASE Cuts = "payloads" /\ InPayload(s, pos)
  BY <1>6, <1>8 DEF InPayload, CutIn, n, t
<1> QED
  BY <1>7, <1>8 DEF CutIn

(***************************************************************************)
(* What a chunk has of the first frame, if frames are not cut anywhere:    *)
(* all of it, or the header at least of a message that is a single frame.  *)
(***************************************************************************)
LEMMA CutCovers ==
  ASSUME NEW s \in Seq(Frame), NEW pos \in Nat, pos > 0,
         Cuts # "anywhere", CutIn(s, pos)
  PROVE  /\ s # <<>>
         /\ \/ pos >= FrameLen(Head(s))
            \/ /\ Cuts = "payloads" /\ pos >= HeaderLen(Head(s))
               /\ Head(s).op_code \in DataOpCode /\ Head(s).fin
<1>1. /\ Lengths(s) \in [0..Len(s) -> Nat] /\ Lengths(s)[0] = 0
  BY LengthsDef DEF SumsTo
<1>2. ASSUME NEW i \in 1..Len(s)
      PROVE  /\ s # <<>> /\ Lengths(s)[i] >= FrameLen(Head(s))
             /\ Lengths(s)[i] \in Nat /\ FrameLen(Head(s)) \in Nat
  <2>1. s # <<>> /\ Head(s) \in Frame /\ i \in 0..Len(s)
    OBVIOUS
  <2>2. FrameLen(Head(s)) \in Nat
    BY <2>1, FrameLenType
  <2>3. Lengths(s)[i] >= FrameLen(Head(s))
    BY LengthsLeast
  <2> QED
    BY <1>1, <2>1, <2>2, <2>3
<1>3. CASE BetweenFrames(s, pos)
  <2> PICK i \in 0..Len(s) : pos = Lengths(s)[i]
    BY <1>3 DEF BetweenFrames
  <2>1. i \in 1..Len(s)
    BY <1>1
  <2> QED
    BY <1>2, <2>1
<1>4. CASE Cuts = "payloads" /\ InPayload(s, pos)
  <2> PICK i \in DOMAIN s :
        /\ s[i].op_code \in DataOpCode /\ s[i].fin
        /\ pos >= Lengths(s)[i - 1] + HeaderLen(s[i])
    BY <1>4 DEF InPayload
  <2>1. i \in 1..Len(s) /\ i - 1 \in 0..Len(s) /\ s[i] \in Frame
    OBVIOUS
  <2>2. HeaderLen(s[i]) \in Nat /\ Lengths(s)[i - 1] \in Nat
    BY <1>1, <2>1, FrameLenType
  <2>3. CASE i = 1
    <3>1. s # <<>> /\ Head(s) = s[i] /\ Lengths(s)[i - 1] = 0
      BY <1>1, <2>3
    <3> QED
      BY <1>4, <2>2, <3>1
  <2>4. CASE i # 1
    <3>1. i - 1 \in 1..Len(s)
      BY <2>1, <2>4
    <3> QED
      BY <1>2, <2>2, <3>1
  <2> QED
    BY <2>3, <2>4
<1> QED
  BY <1>3, <1>4 DEF CutIn

(* No message goes on across a frame that begins one.                      *)
LEMMA FirstIsAlone ==
  ASSUME NEW s \in Seq(Frame), s # <<>>, NEW p,
         Head(s).op_code \in DataOpCode
  PROVE  ~Within(s, p)
<1>1. 1 \in 1..Len(s) /\ Head(s) = s[1]
  OBVIOUS
<1>2. s[1].op_code \notin ControlOpCode /\ s[1].op_code # "ContinuationFrame"
  BY <1>1 DEF DataOpCode, ControlOpCode
<1>3. ASSUME NEW i \in DOMAIN s, s[i].op_code = "ContinuationFrame",
             \A j \in 1..(i - 1) : s[j].op_code \in ControlOpCode
      PROVE  FALSE
  <2>1. CASE i = 1
    BY <1>2, <1>3, <2>1
  <2>2. CASE i # 1
    <3>1. 1 \in 1..(i - 1)
      BY <2>2
    <3> QED
      BY <1>2, <1>3, <3>1
  <2> QED
    BY <2>1, <2>2
<1> QED
  BY <1>1, <1>2, <1>3, WithinMeans

-----------------------------------------------------------------------------
(***************************************************************************)
(* The messages in the stream.  A framer that takes its frames one by one  *)
(* counts the messages that they complete, and holds the bytes of one that *)
(* is not complete.                                                        *)
(***************************************************************************)
Completes(f) == f.fin /\ f.op_code # "ConnectionClose"

DoneAfter(f, done) == IF Completes(f) THEN done + 1 ELSE done

MessageOf(f, held) ==
  [type |-> message_type_of(f.msg),
   len  |-> f.len + (IF f.msg \in DataOpCode THEN held ELSE 0)]

\* done and held say this of the frames of s, whose messages are in msgs.
Carries(s, done, held, msgs) ==
  /\ done \in [0..Len(s) -> 0..Len(msgs)]
  /\ held \in [0..Len(s) -> 0..MaxMessage]
  /\ \A i \in 1..Len(s) :
       /\ done[i] = DoneAfter(s[i], done[i - 1])
       /\ held[i] = HeldAfter(s[i], held[i - 1])
       /\ s[i].msg \in DataOpCode => held[i - 1] + s[i].len <= MaxMessage
       /\ Completes(s[i]) => msgs[done[i]] = MessageOf(s[i], held[i - 1])

(* The frames of s carry the messages of msgs from the n-th on, of which h *)
(* bytes are held, and then part bytes of a message that is not complete.  *)
CarriesRest(s, n, h, part, msgs) ==
  \E done, held :
    /\ Carries(s, done, held, msgs)
    /\ done[0] = n /\ held[0] = h
    /\ done[Len(s)] = Len(msgs) /\ held[Len(s)] = part

\* What the frames of the peer have in common.
FromPeer(f) ==
  /\ f \in Frame /\ f.op_code \in WebSocketOpCode /\ f.len \in PayloadLens
  /\ f.op_code \in ControlOpCode => f.fin
  /\ f.msg \in DataOpCode
       <=> f.op_code \in DataOpCode \cup {"ContinuationFrame"}
  /\ ~FragmentMessages => f.fin
  /\ f.ext = length_bytes(f.len)

\* The peer sends f.
PeerSent(f) ==
  /\ PeerMaySend(peer, f) /\ FromPeer(f)
  /\ inbox' = Append(inbox, f) /\ peer' = WireAfter(peer, f)
  /\ f.msg \in DataOpCode => partial + f.len <= MaxMessage
  /\ partial' = HeldAfter(f, partial)
  /\ IF Completes(f)
     THEN /\ MessageOf(f, partial) \in Message /\ Len(sent) < MaxSent
          /\ sent' = Append(sent, MessageOf(f, partial))
     ELSE sent' = sent
  /\ UNCHANGED <<http, off, ended>>

(* SendsFrame sends a frame that the rules allow.                          *)
LEMMA SendsFrameMeans ==
  ASSUME StreamTypeOK, NEW masked \in BOOLEAN, SendsFrame(masked)
  PROVE  ~ended /\ \E f : PeerSent(f)
<1> PICK op_code \in PeerOpCodes, fin \in BOOLEAN, len \in PayloadLens :
      LET f    == PeerFrame(masked, op_code, fin, len)
          data == f.msg \in DataOpCode
      IN  /\ WireAfter(peer, f) # "Broken"
          /\ op_code \in ControlOpCode => fin
          /\ FragmentMessages \/ fin
          /\ data => partial + len <= MaxMessage
          /\ inbox' = Append(inbox, f)
          /\ peer' = WireAfter(peer, f)
          /\ partial' = HeldAfter(f, partial)
          /\ IF ~fin \/ op_code = "ConnectionClose" THEN UNCHANGED sent
             ELSE /\ Len(sent) < MaxSent
                  /\ sent' = Append(sent, Completed(f))
  BY DEF SendsFrame
<1> DEFINE f == PeerFrame(masked, op_code, fin, len)
<1>1. /\ f.op_code = op_code /\ f.fin = fin /\ f.len = len
      /\ f.ext = length_bytes(f.len)
      /\ f.msg = IF op_code = "ContinuationFrame" THEN peer ELSE op_code
      /\ len \in Nat /\ op_code \in WebSocketOpCode
  BY ByteStreamAssumption DEF PeerFrame
<1>2. op_code = "ContinuationFrame" => peer \in DataOpCode
  <2>1. WireAfter(peer, f) # "Broken"
    OBVIOUS
  <2> HIDE DEF f
  <2>2. ASSUME op_code = "ContinuationFrame"
        PROVE  peer \notin {"None", "Closed", "Broken"}
    BY <1>1, <2>1, <2>2 DEF WireAfter, DataOpCode
  <2> QED
    BY <2>2 DEF StreamTypeOK, Wire
<1>3. /\ op_code # "ContinuationFrame"
           => op_code \in DataOpCode \cup ControlOpCode
      /\ ControlOpCode \cap DataOpCode = {}
      /\ "ContinuationFrame" \notin DataOpCode \cup ControlOpCode
  BY <1>1 DEF WebSocketOpCode, DataOpCode, ControlOpCode
<1>4. f \in Frame
  <2>1. f.msg \in DataOpCode \cup ControlOpCode
    BY <1>1, <1>2, <1>3
  <2>2. "InternalServerError" \in CloseStatus
    BY CloseStatusAssumption
  <2>3. f = [op_code |-> op_code, fin |-> fin, masked |-> masked,
             ext |-> length_bytes(len), len |-> len,
             status |-> "InternalServerError", msg |-> f.msg]
    BY DEF PeerFrame
  <2>4. length_bytes(len) \in {0, 2, 8}
    BY DEF length_bytes
  <2> HIDE DEF f
  <2> QED
    BY <1>1, <2>1, <2>2, <2>3, <2>4 DEF Frame
<1>5. /\ WireAfter(peer, f) # "Broken" /\ inbox' = Append(inbox, f)
      /\ peer' = WireAfter(peer, f)
      /\ op_code \in ControlOpCode => fin
      /\ FragmentMessages \/ fin
      /\ f.msg \in DataOpCode => partial + len <= MaxMessage
      /\ partial' = HeldAfter(f, partial)
      /\ IF ~fin \/ op_code = "ConnectionClose" THEN UNCHANGED sent
         ELSE Len(sent) < MaxSent /\ sent' = Append(sent, Completed(f))
  OBVIOUS
<1>6. UNCHANGED <<http, off, ended>> /\ ~ended
  BY DEF SendsFrame
<1> HIDE DEF f
<1>7. f.msg \in DataOpCode
        <=> f.op_code \in DataOpCode \cup {"ContinuationFrame"}
  BY <1>1, <1>2, <1>3
<1>8. PeerMaySend(peer, f) /\ FromPeer(f)
  BY <1>1, <1>3, <1>4, <1>5, <1>7 DEF PeerMaySend, FromPeer
<1>9. partial' = HeldAfter(f, partial)
  BY <1>5
<1>10. Completed(f) = MessageOf(f, partial)
  BY DEF Completed, MessageOf
<1>11. Completes(f) => MessageOf(f, partial) \in Message
  <2> SUFFICES ASSUME Completes(f)
               PROVE  MessageOf(f, partial) \in Message
    OBVIOUS
  <2>1. f.op_code # "ConnectionClose"
    BY DEF Completes
  <2>2. f.msg \in {"TextFrame", "BinaryFrame", "Ping", "Pong"}
    BY <1>1, <1>2, <1>3, <2>1 DEF DataOpCode, ControlOpCode
  <2>3. message_type_of(f.msg) \in {"Text", "Binary", "Ping", "Pong"}
    BY <2>2 DEF message_type_of
  <2>4. f.len + (IF f.msg \in DataOpCode THEN partial ELSE 0)
          \in 0..MaxMessage \cup PayloadLens
    BY <1>1, <1>5, ByteStreamAssumption DEF StreamTypeOK
  <2> QED
    BY <2>3, <2>4 DEF MessageOf, Message
<1> QED
  BY <1>1, <1>5, <1>6, <1>8, <1>9, <1>10, <1>11 DEF PeerSent, Completes

(* A frame that the peer sends carries on with what the peer has sent.     *)
LEMMA SentIsCarried ==
  ASSUME NEW f, PeerSent(f), inbox \in Seq(Frame), sent \in Seq(Message),
         NEW n, NEW h, CarriesRest(inbox, n, h, partial, sent)
  PROVE  CarriesRest(inbox', n, h, partial', sent')
<1> PICK done, held :
      /\ Carries(inbox, done, held, sent)
      /\ done[0] = n /\ held[0] = h
      /\ done[Len(inbox)] = Len(sent) /\ held[Len(inbox)] = partial
  BY DEF CarriesRest
<1> DEFINE k == Len(inbox)
           done2 == [i \in 0..(k + 1) |->
                       IF i = k + 1 THEN Len(sent') ELSE done[i]]
           held2 == [i \in 0..(k + 1) |->
                       IF i = k + 1 THEN partial' ELSE held[i]]
<1>1. /\ f \in Frame /\ inbox' = Append(inbox, f)
      /\ f.msg \in DataOpCode => partial + f.len <= MaxMessage
      /\ partial' = HeldAfter(f, partial)
      /\ sent' = IF Completes(f) THEN Append(sent, MessageOf(f, partial))
                 ELSE sent
      /\ Completes(f) => MessageOf(f, partial) \in Message
  BY DEF PeerSent, FromPeer
<1>2. /\ k \in Nat /\ Len(inbox') = k + 1 /\ inbox'[k + 1] = f
      /\ \A i \in 1..k : inbox'[i] = inbox[i]
      /\ k \in 0..k
  BY <1>1
<1>3. /\ Len(sent) \in Nat /\ Len(sent') = DoneAfter(f, Len(sent))
      /\ \A i \in 1..Len(sent) : sent'[i] = sent[i]
      /\ Completes(f) => sent'[Len(sent')] = MessageOf(f, partial)
  BY <1>1 DEF DoneAfter
<1>4. /\ done \in [0..k -> 0..Len(sent)] /\ held \in [0..k -> 0..MaxMessage]
      /\ \A i \in 1..k :
           /\ done[i] = DoneAfter(inbox[i], done[i - 1])
           /\ held[i] = HeldAfter(inbox[i], held[i - 1])
           /\ inbox[i].msg \in DataOpCode
                => held[i - 1] + inbox[i].len <= MaxMessage
           /\ Completes(inbox[i])
                => sent[done[i]] = MessageOf(inbox[i], held[i - 1])
  BY DEF Carries
<1>5. partial \in 0..MaxMessage /\ MaxMessage \in Nat
  BY <1>2, <1>4, ByteStreamAssumption
<1>6. partial' \in 0..MaxMessage
  <2>1. f.len \in Nat
    BY <1>1 DEF Frame
  <2> QED
    BY <1>1, <1>5, <2>1 DEF HeldAfter
<1>7. Len(sent') \in Nat /\ Len(sent') >= Len(sent)
  BY <1>3 DEF DoneAfter
<1>8. /\ done2 \in [0..(k + 1) -> 0..Len(sent')]
      /\ held2 \in [0..(k + 1) -> 0..MaxMessage]
  BY <1>2, <1>3, <1>4, <1>6, <1>7
<1>9. /\ \A i \in 0..k : done2[i] = done[i] /\ held2[i] = held[i]
      /\ done2[k + 1] = Len(sent') /\ held2[k + 1] = partial'
  BY <1>2
<1> HIDE DEF k, done2, held2
<1>10. ASSUME NEW i \in 1..(k + 1)
       PROVE  /\ done2[i] = DoneAfter(inbox'[i], done2[i - 1])
              /\ held2[i] = HeldAfter(inbox'[i], held2[i - 1])
              /\ inbox'[i].msg \in DataOpCode
                   => held2[i - 1] + inbox'[i].len <= MaxMessage
              /\ Completes(inbox'[i])
                   => sent'[done2[i]] = MessageOf(inbox'[i], held2[i - 1])
  <2>1. CASE i = k + 1
    <3>1. /\ i - 1 = k /\ inbox'[i] = f /\ done2[i] = Len(sent')
          /\ done2[i - 1] = Len(sent)
          /\ held2[i] = partial' /\ held2[i - 1] = partial
      BY <1>2, <1>9, <2>1 DEF k
    <3> QED
      BY <1>1, <1>3, <3>1
  <2>2. CASE i # k + 1
    <3>1. i \in 1..k /\ i - 1 \in 0..k /\ i \in 0..k
      BY <1>2, <2>2
    <3>2. /\ inbox'[i] = inbox[i] /\ done2[i] = done[i] /\ held2[i] = held[i]
          /\ done2[i - 1] = done[i - 1] /\ held2[i - 1] = held[i - 1]
      BY <1>2, <1>9, <3>1
    <3>3. Completes(inbox[i]) => done[i] \in 1..Len(sent)
      <4>1. done[i - 1] \in 0..Len(sent) /\ done[i] \in 0..Len(sent)
        BY <1>4, <3>1
      <4>2. Completes(inbox[i]) => done[i] = done[i - 1] + 1
        BY <1>4, <3>1 DEF DoneAfter
      <4> QED
        BY <1>3, <4>1, <4>2
    <3> QED
      BY <1>3, <1>4, <3>1, <3>2, <3>3
  <2> QED
    BY <2>1, <2>2
<1>11. Carries(inbox', done2, held2, sent')
  BY <1>2, <1>8, <1>10 DEF Carries
<1>12. done2[0] = n /\ held2[0] = h
  BY <1>2, <1>9
<1>13. done2[Len(inbox')] = Len(sent') /\ held2[Len(inbox')] = partial'
  BY <1>2, <1>9
<1> QED
  BY <1>11, <1>12, <1>13 DEF CarriesRest

(* When the first frame is taken it counts, and the rest carries on.       *)
LEMMA TakenIsCarried ==
  ASSUME NEW s \in Seq(Frame), s # <<>>, NEW n, NEW h, NEW part,
         NEW msgs \in Seq(Message), CarriesRest(s, n, h, part, msgs)
  PROVE  LET f == Head(s)
         IN  /\ n \in 0..Len(msgs) /\ h \in 0..MaxMessage
             /\ CarriesRest(Tail(s), DoneAfter(f, n), HeldAfter(f, h), part,
                            msgs)
             /\ f.msg \in DataOpCode => h + f.len <= MaxMessage
             /\ Completes(f) => /\ n < Len(msgs)
                                /\ msgs[n + 1] = MessageOf(f, h)
<1> PICK done, held :
      /\ Carries(s, done, held, msgs)
      /\ done[0] = n /\ held[0] = h
      /\ done[Len(s)] = Len(msgs) /\ held[Len(s)] = part
  BY DEF CarriesRest
<1> DEFINE t == Tail(s)
           k == Len(t)
           done2 == [i \in 0..k |-> done[i + 1]]
           held2 == [i \in 0..k |-> held[i + 1]]
<1>1. /\ t \in Seq(Frame) /\ k = Len(s) - 1 /\ k \in Nat
      /\ Len(s) = k + 1 /\ Head(s) = s[1]
      /\ \A i \in 1..k : t[i] = s[i + 1]
  OBVIOUS
<1>2. /\ done \in [0..(k + 1) -> 0..Len(msgs)]
      /\ held \in [0..(k + 1) -> 0..MaxMessage]
      /\ \A i \in 1..(k + 1) :
           /\ done[i] = DoneAfter(s[i], done[i - 1])
           /\ held[i] = HeldAfter(s[i], held[i - 1])
           /\ s[i].msg \in DataOpCode
                => held[i - 1] + s[i].len <= MaxMessage
           /\ Completes(s[i]) => msgs[done[i]] = MessageOf(s[i], held[i - 1])
  <2> HIDE DEF k
  <2> QED
    BY <1>1 DEF Carries
<1>3. Len(msgs) \in Nat
  OBVIOUS
<1> HIDE DEF t, k
<1>4. /\ done2 \in [0..k -> 0..Len(msgs)] /\ held2 \in [0..k -> 0..MaxMessage]
  BY <1>1, <1>2
<1>5. \A i \in 0..k : done2[i] = done[i + 1] /\ held2[i] = held[i + 1]
  OBVIOUS
<1> HIDE DEF done2, held2
<1>6. ASSUME NEW i \in 1..k
      PROVE  /\ done2[i] = DoneAfter(t[i], done2[i - 1])
             /\ held2[i] = HeldAfter(t[i], held2[i - 1])
             /\ t[i].msg \in DataOpCode
                  => held2[i - 1] + t[i].len <= MaxMessage
             /\ Completes(t[i])
                  => msgs[done2[i]] = MessageOf(t[i], held2[i - 1])
  <2>1. /\ i \in 0..k /\ i - 1 \in 0..k /\ (i - 1) + 1 = i
        /\ i + 1 \in 1..(k + 1) /\ (i + 1) - 1 = i
    BY <1>1
  <2>2. /\ t[i] = s[i + 1] /\ done2[i] = done[i + 1] /\ held2[i] = held[i + 1]
        /\ done2[i - 1] = done[i] /\ held2[i - 1] = held[i]
    BY <1>1, <1>5, <2>1
  <2>3. /\ done[i + 1] = DoneAfter(s[i + 1], done[i])
        /\ held[i + 1] = HeldAfter(s[i + 1], held[i])
        /\ s[i + 1].msg \in DataOpCode
             => held[i] + s[i + 1].len <= MaxMessage
        /\ Completes(s[i + 1])
             => msgs[done[i + 1]] = MessageOf(s[i + 1], held[i])
    BY <1>2, <2>1
  <2> QED
    BY <2>2, <2>3
<1>7. Carries(t, done2, held2, msgs)
  BY <1>1, <1>4, <1>6 DEF Carries, k
<1>8. /\ done[1] = DoneAfter(Head(s), n) /\ held[1] = HeldAfter(Head(s), h)
      /\ Head(s).msg \in DataOpCode => h + Head(s).len <= MaxMessage
      /\ Completes(Head(s)) => msgs[done[1]] = MessageOf(Head(s), h)
      /\ n \in 0..Len(msgs) /\ h \in 0..MaxMessage /\ done[1] \in 0..Len(msgs)
  <2>1. /\ 1 \in 1..(k + 1) /\ 1 - 1 = 0 /\ 0 \in 0..(k + 1)
        /\ 1 \in 0..(k + 1)
    BY <1>1
  <2> QED
    BY <1>1, <1>2, <2>1
<1>9. done2[0] = DoneAfter(Head(s), n) /\ held2[0] = HeldAfter(Head(s), h)
  BY <1>1, <1>5, <1>8
<1>10. done2[k] = Len(msgs) /\ held2[k] = part
  <2>1. k \in 0..k /\ k + 1 = Len(s)
    BY <1>1
  <2> QED
    BY <1>5, <2>1
<1>11. CarriesRest(t, DoneAfter(Head(s), n), HeldAfter(Head(s), h), part, msgs)
  BY <1>7, <1>9, <1>10 DEF CarriesRest, k
<1>12. Completes(Head(s))
         => n < Len(msgs) /\ msgs[n + 1] = MessageOf(Head(s), h)
  BY <1>3, <1>8 DEF DoneAfter
<1> QED
  BY <1>8, <1>11, <1>12 DEF t

(* An empty stream carries nothing.                                        *)
LEMMA EmptyCarries ==
  ASSUME NEW n, NEW h, NEW part, NEW msgs, CarriesRest(<<>>, n, h, part, msgs)
  PROVE  n = Len(msgs) /\ h = part
BY DEF CarriesRest

(* As long as no message is sent.                                          *)
LEMMA NothingCarried == CarriesRest(<<>>, 0, 0, 0, <<>>)
<1> DEFINE z == [i \in 0..0 |-> 0]
<1>1. MaxMessage \in Nat /\ Len(<<>>) = 0
  BY ByteStreamAssumption
<1>2. z \in [0..0 -> 0..0] /\ z \in [0..0 -> 0..MaxMessage] /\ z[0] = 0
  BY <1>1
<1> HIDE DEF z
<1>3. Carries(<<>>, z, z, <<>>)
  BY <1>1, <1>2 DEF Carries
<1> QED
  BY <1>1, <1>2, <1>3 DEF CarriesRest

-----------------------------------------------------------------------------
(* The steps that a framer takes on the stream and on the codec.           *)

(* The codec takes bytes of the stream.                                    *)
LEMMA TakesMeans ==
  /\ Current = At(inbox)
  /\ \A n : Takes(n) => /\ inbox' = FramesAfter(inbox, off, n)
                        /\ off' = OffAfter(inbox, off, n)
BY DEF Current, At, Takes, FramesAfter, OffAfter, Ends

(* The stream keeps its type when the codec takes bytes of it.             *)
LEMMA TakesType ==
  ASSUME StreamTypeOK, NEW n \in Nat, Takes(n)
  PROVE  inbox' \in Seq(Frame) /\ off' \in Nat
BY TakesMeans, AfterType DEF StreamTypeOK

(* What is taken of the stream does not wait any more.                     *)
LEMMA TakesWaiting ==
  ASSUME inbox \in Seq(Frame), off \in Nat, NEW n \in Nat, Takes(n)
  PROVE  Bytes(inbox') - off' = Waiting - n
<1>1. Bytes(inbox) \in Nat
  BY BytesType
<1>2. CASE inbox # <<>> /\ off + n = FrameLen(Current)
  <2>1. inbox' = Tail(inbox) /\ off' = 0 /\ off + n = FrameLen(Head(inbox))
    BY <1>2 DEF Takes, Current
  <2>2. Bytes(inbox') = Bytes(inbox) - FrameLen(Head(inbox))
    BY <1>2, <2>1, BytesTail
  <2> QED
    BY <1>1, <2>1, <2>2 DEF Waiting
<1>3. CASE ~(inbox # <<>> /\ off + n = FrameLen(Current))
  BY <1>1, <1>3 DEF Takes, Waiting
<1> QED
  BY <1>2, <1>3

(* The stream keeps its type when the peer sends.                          *)
LEMMA SendsType ==
  ASSUME StreamTypeOK, NEW masked \in BOOLEAN, SendsFrame(masked)
  PROVE  StreamTypeOK'
<1> PICK f : PeerSent(f)
  BY SendsFrameMeans
<1>1. f \in Frame /\ peer' \in Wire /\ inbox' \in Seq(Frame)
  BY WireAfterType DEF PeerSent, FromPeer, StreamTypeOK
<1>2. f.len \in Nat
  BY <1>1 DEF Frame
<1>3. partial' \in Nat
  BY <1>2 DEF PeerSent, HeldAfter, StreamTypeOK
<1>4. sent' \in Seq(Message)
  <2> DEFINE m == MessageOf(f, partial)
  <2>1. sent' = sent \/ (m \in Message /\ sent' = Append(sent, m))
    BY DEF PeerSent
  <2> HIDE DEF m
  <2>2. sent \in Seq(Message)
    BY DEF StreamTypeOK
  <2>3. m \in Message => Append(sent, m) \in Seq(Message)
    BY <2>2
  <2> QED
    BY <2>1, <2>2, <2>3
<1>5. {http', off'} \subseteq Nat /\ ended' \in BOOLEAN
  BY DEF PeerSent, StreamTypeOK
<1> QED
  BY <1>1, <1>3, <1>4, <1>5 DEF StreamTypeOK

(* A call of read takes no more bytes than it is given.                    *)
LEMMA ReadTakes ==
  ASSUME NEW w \in WebSocket, NEW f \in Frame, NEW status \in CloseStatus,
         NEW from \in Nat, NEW to \in Nat
  PROVE  /\ read(w, f, status, from, to).ret.len_from \in Nat
         /\ read(w, f, status, from, to).ret.len_from <= from
<1> DEFINE r == read(w, f, status, from, to)
<1>1. r.ret.len_from \in Nat
  BY ReadType DEF Return
<1>2. \A v, frame, starved :
        dispatch_frame(v, frame, starved).ret.len_from
          \in {0, frame.num_bytes_from}
  BY DEF dispatch_frame, to_readresult, returns
<1>3. \A error : returns("read", error).len_from = 0
  BY DEF returns
<1>4. CASE w.state \notin {"Open", "CloseSent"}
  BY <1>3, <1>4 DEF read
<1>5. CASE /\ w.state \in {"Open", "CloseSent"}
           /\ w.continuation_read.op_code # "None"
  <2> DEFINE c == w.continuation_read
             n == min(c.count, to, from)
             p == read_continuation(c, status, from, to)
  <2>1. c.count \in Nat
    BY DEF WebSocket, ContinuationRead
  <2>2. n \in Nat /\ n <= from
    BY <2>1, MinProps
  <2>3. p.frame.num_bytes_from = n
    BY DEF read_continuation, decode_close_frame, frame_read
  <2>4. r = dispatch_frame(continue_frame(w, p), p.frame, from = 0 \/ to = 0)
    BY <1>5 DEF read
  <2> HIDE DEF p, n
  <2>5. r.ret.len_from \in {0, p.frame.num_bytes_from}
    BY <1>2, <2>4
  <2> QED
    BY <1>1, <2>2, <2>3, <2>5
<1>6. CASE /\ w.state \in {"Open", "CloseSent"}
           /\ w.continuation_read.op_code = "None"
           /\ read_frame_error(f, from) # "None"
  BY <1>3, <1>6 DEF read
<1>7. CASE /\ w.state \in {"Open", "CloseSent"}
           /\ w.continuation_read.op_code = "None"
           /\ read_frame_error(f, from) = "None"
  <2> DEFINE n == Payload(f, from, to)
             p == read_payload(f, from, to)
             v == start_frame(w, p)
             o == override_op_code(v, p.frame)
  <2>1. HeaderLen(f) \in Nat /\ f.len \in Nat
    BY FrameLenType
  <2>2. from >= HeaderLen(f)
    BY <1>7, <2>1 DEF read_frame_error
  <2>3. from - HeaderLen(f) \in Nat
    BY <2>1, <2>2
  <2>4. n \in Nat /\ n <= from - HeaderLen(f)
    BY <2>1, <2>3, MinProps DEF Payload
  <2>5. p.frame.num_bytes_from = HeaderLen(f) + n
    BY DEF read_payload, decode_close_frame, frame_read, Payload
  <2>6. o.num_bytes_from = p.frame.num_bytes_from
    BY DEF override_op_code, read_payload, decode_close_frame, frame_read
  <2>7. r = dispatch_frame(v, o, from = 0 \/ to = 0)
    BY <1>7 DEF read
  <2> HIDE DEF p, n, o, v
  <2>8. r.ret.len_from \in {0, o.num_bytes_from}
    BY <1>2, <2>7
  <2>9. HeaderLen(f) + n <= from
    BY <2>1, <2>4
  <2> QED
    BY <1>1, <2>5, <2>6, <2>8, <2>9
<1> QED
  BY <1>1, <1>4, <1>5, <1>6, <1>7

(* And it hands over no more than it has room for.                         *)
LEMMA ReadGives ==
  ASSUME NEW w \in WebSocket, NEW f \in Frame, NEW status \in CloseStatus,
         NEW from \in Nat, NEW to \in Nat
  PROVE  read(w, f, status, from, to).ret.len_to <= to
<1> DEFINE r == read(w, f, status, from, to)
<1>1. \A v, frame, starved :
        dispatch_frame(v, frame, starved).ret.len_to
          \in {0, frame.num_bytes_to}
  BY DEF dispatch_frame, to_readresult, returns
<1>2. \A error : returns("read", error).len_to = 0
  BY DEF returns
<1>3. CASE w.state \notin {"Open", "CloseSent"}
  BY <1>2, <1>3 DEF read
<1>4. CASE /\ w.state \in {"Open", "CloseSent"}
           /\ w.continuation_read.op_code # "None"
  <2> DEFINE c == w.continuation_read
             n == min(c.count, to, from)
             p == read_continuation(c, status, from, to)
  <2>1. c.count \in Nat
    BY DEF WebSocket, ContinuationRead
  <2>2. n \in Nat /\ n <= to
    BY <2>1, MinProps
  <2>3. p.frame.num_bytes_to \in {0, n}
    BY DEF read_continuation, decode_close_frame, frame_read
  <2>4. r = dispatch_frame(continue_frame(w, p), p.frame, from = 0 \/ to = 0)
    BY <1>4 DEF read
  <2> HIDE DEF p, n, r
  <2>5. r.ret.len_to \in {0, p.frame.num_bytes_to}
    BY <1>1, <2>4
  <2>6. r.ret.len_to <= to
    BY <2>2, <2>3, <2>5
  <2> QED
    BY <2>6 DEF r
<1>5. CASE /\ w.state \in {"Open", "CloseSent"}
           /\ w.continuation_read.op_code = "None"
           /\ read_frame_error(f, from) # "None"
  BY <1>2, <1>5 DEF read
<1>6. CASE /\ w.state \in {"Open", "CloseSent"}
           /\ w.continuation_read.op_code = "None"
           /\ read_frame_error(f, from) = "None"
  <2> DEFINE n == Payload(f, from, to)
             p == read_payload(f, from, to)
             v == start_frame(w, p)
             o == override_op_code(v, p.frame)
  <2>1. HeaderLen(f) \in Nat /\ f.len \in Nat
    BY FrameLenType
  <2>2. from >= HeaderLen(f)
    BY <1>6, <2>1 DEF read_frame_error
  <2>3. from - HeaderLen(f) \in Nat
    BY <2>1, <2>2
  <2>4. n \in Nat /\ n <= to
    BY <2>1, <2>3, MinProps DEF Payload
  <2>5. p.frame.num_bytes_to \in {0, n}
    BY DEF read_payload, decode_close_frame, frame_read, Payload
  <2>6. o.num_bytes_to = p.frame.num_bytes_to
    BY DEF override_op_code, read_payload, decode_close_frame, frame_read
  <2>7. r = dispatch_frame(v, o, from = 0 \/ to = 0)
    BY <1>6 DEF read
  <2> HIDE DEF p, n, o, v, r
  <2>8. r.ret.len_to \in {0, o.num_bytes_to}
    BY <1>1, <2>7
  <2>9. r.ret.len_to <= to
    BY <2>4, <2>5, <2>6, <2>8
  <2> QED
    BY <2>9 DEF r
<1> QED
  BY <1>3, <1>4, <1>5, <1>6

(* The first read of a frame hands over no more than the frame has.        *)
LEMMA StartGives ==
  ASSUME NEW w \in WebSocket, w.continuation_read.op_code = "None",
         NEW f \in Frame, NEW status, NEW from \in Nat, NEW to \in Nat,
         read(w, f, status, from, to).ret.err = "None"
  PROVE  read(w, f, status, from, to).ret.len_to \in 0..f.len
<1> DEFINE r == read(w, f, status, from, to)
           n == Payload(f, from, to)
           p == read_payload(f, from, to)
           v == start_frame(w, p)
           o == override_op_code(v, p.frame)
<1>1. HeaderLen(f) \in Nat /\ f.len \in Nat
  BY FrameLenType
<1>2. \A error : returns("read", error).err = error
  BY DEF returns
<1>3. w.state \in {"Open", "CloseSent"} /\ read_frame_error(f, from) = "None"
  BY <1>2 DEF read
<1>4. from - HeaderLen(f) \in Nat
  BY <1>1, <1>3 DEF read_frame_error
<1>5. n \in Nat /\ n <= f.len
  BY <1>1, <1>4, MinProps DEF Payload
<1>6. p.frame.num_bytes_to \in {0, n}
  BY DEF read_payload, decode_close_frame, frame_read, Payload
<1>7. o.num_bytes_to = p.frame.num_bytes_to
  BY DEF override_op_code, read_payload, decode_close_frame, frame_read
<1>8. r = dispatch_frame(v, o, from = 0 \/ to = 0)
  BY <1>3 DEF read
<1>9. \A frame, starved :
        dispatch_frame(v, frame, starved).ret.len_to
          \in {0, frame.num_bytes_to}
  BY DEF dispatch_frame, to_readresult, returns
<1> HIDE DEF n, p, v, o
<1>10. r.ret.len_to \in {0, o.num_bytes_to}
  BY <1>8, <1>9
<1> QED
  BY <1>1, <1>5, <1>6, <1>7, <1>10

(* read reports CloseCompleted of a websocket that it has closed.          *)
LEMMA CompletedIsClosed ==
  ASSUME NEW w \in WebSocket, NEW f, NEW status, NEW from, NEW to,
         read(w, f, status, from, to).ret.message_type = "CloseCompleted"
  PROVE  read(w, f, status, from, to).ws.state = "Closed"
<1> DEFINE Same(v) == \E a, b :
             v = [w EXCEPT !.continuation_read = a,
                           !.continuation_frame_op_code = b]
<1>1. ASSUME NEW v, Same(v), NEW frame, NEW starved,
             dispatch_frame(v, frame, starved).ret.message_type
               = "CloseCompleted"
      PROVE  dispatch_frame(v, frame, starved).ws.state = "Closed"
  <2>1. CASE frame.op_code = "ConnectionClose" /\ v.state = "CloseSent"
    BY <1>1, <2>1 DEF dispatch_frame, WebSocket
  <2>2. CASE ~(frame.op_code = "ConnectionClose" /\ v.state = "CloseSent")
    <3> DEFINE m == dispatch_frame(v, frame, starved).ret.message_type
    <3>1. \/ m \in {"CloseMustReply", "None"}
          \/ \E o : m = message_type_of(o)
      BY <2>2 DEF dispatch_frame, to_readresult, returns
    <3>2. \A o : message_type_of(o) # "CloseCompleted"
      BY DEF message_type_of
    <3> QED
      BY <1>1, <3>1, <3>2
  <2> QED
    BY <2>1, <2>2
<1>2. \A error : returns("read", error).message_type # "CloseCompleted"
  BY DEF returns
<1>3. \A r : Same(continue_frame(w, r)) /\ Same(start_frame(w, r))
  <2> TAKE r
  <2>1. Same([w EXCEPT !.continuation_read = r.continuation_read])
    <3>1. [w EXCEPT !.continuation_read = r.continuation_read]
            = [w EXCEPT !.continuation_read = r.continuation_read,
                        !.continuation_frame_op_code
                          = w.continuation_frame_op_code]
      BY DEF WebSocket
    <3> QED
      BY <3>1
  <2>2. Same(continue_frame(w, r))
    BY <2>1 DEF continue_frame
  <2>3. Same(start_frame(w, r))
    BY DEF start_frame
  <2> QED
    BY <2>2, <2>3
<1> HIDE DEF Same
<1> QED
  BY <1>1, <1>2, <1>3 DEF read

(* What client_accept answers.                                             *)
LEMMA AcceptReturns ==
  ASSUME NEW w \in WebSocket, NEW answer \in Error,
         answer # "UnexpectedContinuationFrame"
  PROVE  LET r == client_accept(w, answer)
         IN  /\ OpeningStep(w, r) /\ r.ws \in WebSocket /\ r.ret \in Return
             /\ r.ret.err = IF w.state = "Open" THEN "WebsocketAlreadyOpen"
                            ELSE answer
             /\ r.ret.err = "None" => r.ws.state = "Open"
<1> DEFINE r == client_accept(w, answer)
<1>1. OpeningStep(w, r) /\ r.ws \in WebSocket /\ r.ret \in Return
  BY OpeningEffect, HandshakeType
<1>2. /\ r.ret.err = IF w.state = "Open" THEN "WebsocketAlreadyOpen"
                     ELSE answer
      /\ r.ret.err = "None" => r.ws.state = "Open"
  BY DEF client_accept, handshake, returns, WebSocket
<1> QED
  BY <1>1, <1>2

-----------------------------------------------------------------------------
(***************************************************************************)
(* What a framer writes, if the application writes no fragments.  The      *)
(* stream is then between messages after every call, however small the     *)
(* buffer is: a frame that does not fit it is not sent at all.             *)
(***************************************************************************)
OnWire(w, p) ==
  /\ ~w.is_write_continuation
  /\ p \in {"None", "Closed"}
  /\ p = "Closed" => w.state \in {"CloseSent", "Closed"}

\* A call that writes, and whether its frame is sent or not.
WritesWhole(w, p, s) ==
  /\ OnWire(s.ws, p)
  /\ s.sent # <<>> => OnWire(s.ws, WireAfter(p, Head(s.sent)))

(* A whole message or a control frame goes out between messages.           *)
LEMMA WriteWhole ==
  ASSUME NEW w \in WebSocket, NEW p, OnWire(w, p),
         NEW m \in SendMessageType, NEW count, NEW status, NEW to
  PROVE  WritesWhole(w, p, write(w, m, TRUE, count, status, to))
<1> DEFINE s == write(w, m, TRUE, count, status, to)
           f == encode_frame(w, write_op_code(w, m), TRUE, count, status,
                             to_op_code(m))
<1>1. CASE w.state \notin {"Open", "CloseReceived"}
  BY <1>1 DEF write, refused, WritesWhole
<1>2. CASE w.state \in {"Open", "CloseReceived"}
  <2>1. s.ws = after_write(w, m, TRUE) /\ s.sent = write_frame(f, to).sent
    BY <1>2 DEF write
  <2>2. f.fin = TRUE /\ f.op_code = to_op_code(m)
    BY DEF encode_frame, write_op_code, OnWire
  <2> HIDE DEF f, s
  <2>3. s.sent = <<>> \/ s.sent = <<f>>
    BY <2>1 DEF write_frame
  <2>4. /\ p = "None"
        /\ s.ws.is_write_continuation = FALSE
        /\ s.ws.state = IF m = "CloseReply" THEN "Closed" ELSE w.state
    BY <1>2, <2>1 DEF OnWire, after_write, WebSocket
  <2>5. to_op_code(m) \in DataOpCode \cup ControlOpCode
        /\ (to_op_code(m) = "ConnectionClose" <=> m = "CloseReply")
    BY DEF to_op_code, SendMessageType, DataOpCode, ControlOpCode
  <2>6. WireAfter(p, f) = IF m = "CloseReply" THEN "Closed" ELSE "None"
    BY <2>2, <2>4, <2>5
    DEF WireAfter, MessageAfter, DataOpCode, ControlOpCode
  <2>7. OnWire(s.ws, p) /\ OnWire(s.ws, WireAfter(p, f))
    BY <2>4, <2>6 DEF OnWire
  <2>8. s.sent # <<>> => Head(s.sent) = f
    BY <2>3
  <2> QED
    BY <2>7, <2>8 DEF WritesWhole, s
<1> QED
  BY <1>1, <1>2

(* The close frame goes out between messages.                              *)
LEMMA CloseWhole ==
  ASSUME NEW w \in WebSocket, NEW p, OnWire(w, p),
         NEW status, NEW d, NEW to
  PROVE  WritesWhole(w, p, close(w, status, d, to))
<1> DEFINE s == close(w, status, d, to)
           f == encode_frame(w, "ConnectionClose", TRUE, close_len(d), status,
                             "ConnectionClose")
<1>1. CASE w.state # "Open"
  BY <1>1 DEF close, refused, WritesWhole
<1>2. CASE w.state = "Open"
  <2>1. /\ s.ws = [w EXCEPT !.state = "CloseSent"]
        /\ s.sent = write_frame(f, to).sent
    BY <1>2 DEF close
  <2>2. f.op_code = "ConnectionClose"
    BY DEF encode_frame
  <2> HIDE DEF f, s
  <2>3. s.sent # <<>> => Head(s.sent) = f
    BY <2>1 DEF write_frame
  <2>4. /\ p = "None" /\ s.ws.is_write_continuation = w.is_write_continuation
        /\ s.ws.state = "CloseSent"
    BY <1>2, <2>1 DEF OnWire, WebSocket
  <2>5. WireAfter(p, f) = "Closed"
    BY <2>2, <2>4 DEF WireAfter, DataOpCode
  <2> QED
    BY <2>3, <2>4, <2>5 DEF WritesWhole, OnWire, s
<1> QED
  BY <1>1, <1>2

(* read touches neither the memory of the writing side nor what is sent.   *)
LEMMA ReadWhole ==
  ASSUME NEW w \in WebSocket, NEW p, OnWire(w, p), NEW f \in Frame,
         NEW status \in CloseStatus, NEW from \in Nat, NEW to \in Nat
  PROVE  OnWire(read(w, f, status, from, to).ws, p)
<1> DEFINE r == read(w, f, status, from, to)
<1>1. CASE w.state \notin {"Open", "CloseSent"}
  BY <1>1, ReadRefused
<1>2. CASE w.state \in {"Open", "CloseSent"}
  <2>1. /\ r.ws.is_write_continuation = w.is_write_continuation
        /\ r.ws.state \in {w.state, IF w.state = "CloseSent" THEN "Closed"
                                    ELSE "CloseReceived"}
    BY <1>2, ReadState
  <2> HIDE DEF r
  <2>2. p = "Closed" => r.ws.state \in {"CloseSent", "Closed"}
    BY <1>2, <2>1 DEF OnWire
  <2>3. OnWire(r.ws, p)
    BY <2>1, <2>2 DEF OnWire
  <2> QED
    BY <2>3 DEF r
<1> QED
  BY <1>1, <1>2

-----------------------------------------------------------------------------
(* What the calls of the codec return that write a frame.                  *)

(* A frame goes out that fits the buffer, and is as long as its payload    *)
(* and header are.                                                         *)
SendsWithin(s, len, to) ==
  \/ s.sent = <<>> /\ s.ret.err # "None"
  \/ /\ s.ret.err = "None"
     /\ \E f \in Frame : /\ s.sent = <<f>> /\ FrameLen(f) <= to
                         /\ FrameLen(f) <= len + length_bytes(len) + 6

\* What a call that writes does to the websocket w.
Writes(w, s, len, to) ==
  /\ s.ws \in WebSocket /\ s.ret \in Return /\ ReaderUntouched(w, s)
  /\ SendsWithin(s, len, to)
  /\ w.state = "Open" /\ len + length_bytes(len) + 6 <= to
       => s.ret.err = "None"

\* What write does to it with a message of type m.
WritesMessage(w, m, s, len, to) ==
  /\ Writes(w, s, len, to)
  /\ w.state \in {"Open", "CloseReceived"} =>
       /\ s.ws.state = IF m = "CloseReply" THEN "Closed" ELSE w.state
       /\ len + length_bytes(len) + 6 <= to => s.ret.err = "None"
  /\ w.state \notin {"Open", "CloseReceived"} =>
       s.ws = w /\ s.ret.err = "WebSocketNotOpen"

(* write does so.                                                          *)
LEMMA WriteWrites ==
  ASSUME NEW w \in WebSocket, NEW m \in SendMessageType,
         NEW e \in BOOLEAN, NEW len \in Nat, NEW to \in Nat
  PROVE  WritesMessage(w, m,
           write(w, m, e, len, "InternalServerError", to), len, to)
<1> DEFINE s == write(w, m, e, len, "InternalServerError", to)
           f == encode_frame(w, write_op_code(w, m), e, len,
                             "InternalServerError", to_op_code(m))
<1>1. "InternalServerError" \in CloseStatus
  BY CloseStatusAssumption
<1>2. /\ s.ws \in WebSocket /\ s.ret \in Return
      /\ s.sent = <<>> \/ \E g \in Frame : s.sent = <<g>>
  BY <1>1, WriteType, ZenonT(40)
<1>3. ReaderUntouched(w, s)
  BY WriteEffect
<1>4. CASE w.state \notin {"Open", "CloseReceived"}
  <2>1. s.ws = w /\ s.ret.err = "WebSocketNotOpen" /\ s.sent = <<>>
    BY <1>4 DEF write, refused, returns
  <2> QED
    BY <1>2, <1>3, <1>4, <2>1 DEF WritesMessage, Writes, SendsWithin
<1>5. CASE w.state \in {"Open", "CloseReceived"}
  <2>1. /\ s.ws = after_write(w, m, e)
        /\ s.ret.err = write_frame(f, to).err
        /\ s.sent = write_frame(f, to).sent
    BY <1>5 DEF write, returns
  <2>2. /\ f.ext = length_bytes(len) /\ f.len = len /\ f.masked \in BOOLEAN
        /\ length_bytes(len) \in {0, 2, 8}
    BY DEF encode_frame, WebSocket, length_bytes
  <2> HIDE DEF s, f
  <2>3. FrameLen(f) \in Nat /\ FrameLen(f) <= len + length_bytes(len) + 6
    BY <2>2 DEF FrameLen, HeaderLen
  <2>4. SendsWithin(s, len, to)
    <3>1. CASE FrameLen(f) > to
      BY <2>1, <3>1 DEF write_frame, SendsWithin
    <3>2. CASE ~(FrameLen(f) > to)
      <4>1. s.ret.err = "None" /\ s.sent = <<f>>
        BY <2>1, <3>2 DEF write_frame
      <4>2. f \in Frame
        <5>1. PICK g \in Frame : <<f>> = <<g>>
          BY <1>2, <4>1
        <5> QED
          BY <5>1
      <4>3. FrameLen(f) <= to
        BY <2>3, <3>2
      <4> QED
        BY <2>3, <4>1, <4>2, <4>3 DEF SendsWithin
    <3> QED
      BY <3>1, <3>2
  <2>5. len + length_bytes(len) + 6 <= to => s.ret.err = "None"
    <3>1. length_bytes(len) \in Nat
      BY <2>2
    <3>2. len + length_bytes(len) + 6 <= to => ~(FrameLen(f) > to)
      BY <2>3, <3>1
    <3> QED
      BY <2>1, <3>2 DEF write_frame
  <2>6. s.ws.state = IF m = "CloseReply" THEN "Closed" ELSE w.state
    BY <2>1 DEF after_write, WebSocket
  <2>7. Writes(w, s, len, to)
    BY <1>2, <1>3, <2>4, <2>5 DEF Writes
  <2> QED
    BY <1>5, <2>5, <2>6, <2>7 DEF WritesMessage, s
<1> QED
  BY <1>4, <1>5

(* close, with an empty description, does so too.                          *)
LEMMA CloseWrites ==
  ASSUME NEW w \in WebSocket, w.state = "Open", NEW to \in Nat
  PROVE  LET s == close(w, "InternalServerError", 0, to)
         IN  Writes(w, s, 2, to) /\ s.ws.state = "CloseSent"
<1> DEFINE s == close(w, "InternalServerError", 0, to)
           f == encode_frame(w, "ConnectionClose", TRUE, close_len(0),
                             "InternalServerError", "ConnectionClose")
<1>1. "InternalServerError" \in CloseStatus /\ 0 \in Nat
  BY CloseStatusAssumption
<1>2. /\ s.ws \in WebSocket /\ s.ret \in Return
      /\ s.sent = <<>> \/ \E g \in Frame : s.sent = <<g>>
  BY <1>1, CloseType, ZenonT(40)
<1>3. ReaderUntouched(w, s)
  BY CloseEffect
<1>4. /\ s.ws = [w EXCEPT !.state = "CloseSent"]
      /\ s.ret.err = write_frame(f, to).err
      /\ s.sent = write_frame(f, to).sent
  BY DEF close, returns
<1>5. /\ f.ext = 0 /\ f.len = 2 /\ f.masked \in BOOLEAN
      /\ length_bytes(2) = 0
  BY DEF encode_frame, WebSocket, length_bytes, close_len
<1> HIDE DEF s, f
<1>6. FrameLen(f) \in Nat /\ FrameLen(f) <= 2 + length_bytes(2) + 6
  BY <1>5 DEF FrameLen, HeaderLen
<1>7. SendsWithin(s, 2, to)
  <2>1. CASE FrameLen(f) > to
    BY <1>4, <2>1 DEF write_frame, SendsWithin
  <2>2. CASE ~(FrameLen(f) > to)
    <3>1. s.ret.err = "None" /\ s.sent = <<f>>
      BY <1>4, <2>2 DEF write_frame
    <3>2. f \in Frame
      <4>1. PICK g \in Frame : <<f>> = <<g>>
        BY <1>2, <3>1
      <4> QED
        BY <4>1
    <3>3. FrameLen(f) <= to
      BY <1>6, <2>2
    <3> QED
      BY <1>6, <3>1, <3>2, <3>3 DEF SendsWithin
  <2> QED
    BY <2>1, <2>2
<1>8. 2 + length_bytes(2) + 6 <= to => s.ret.err = "None"
  <2>1. 2 + length_bytes(2) + 6 <= to => ~(FrameLen(f) > to)
    BY <1>5, <1>6
  <2> QED
    BY <1>4, <2>1 DEF write_frame
<1>9. s.ws.state = "CloseSent"
  BY <1>4 DEF WebSocket
<1> QED
  BY <1>2, <1>3, <1>7, <1>8, <1>9 DEF Writes, s
=============================================================================
