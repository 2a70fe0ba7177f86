-------------------------- MODULE MatterLinkProofs --------------------------
(***************************************************************************)
(* Theorems about MatterLink, for any size of the buffer that leaves room  *)
(* for a prefix and the longest message.                                   *)
(***************************************************************************)
EXTENDS MatterLink, SequenceTheorems, TLAPS

\* Products, quotients and remainders of naturals, which the provers need named.
LEMMA ProductType == \A x, y \in Nat : x * y \in Nat
<1> SUFFICES ASSUME NEW x \in Nat, NEW y \in Nat PROVE x * y \in Nat
    OBVIOUS
<1> QED
    OBVIOUS

LEMMA DigitRange ==
    ASSUME NEW x \in Nat, NEW d \in Nat \ {0}
    PROVE  (x \div d) % Base \in Byte
<1>1. x \div d \in Nat
    OBVIOUS
<1>2. \A q \in Nat : q % Base \in 0..(Base - 1)
    BY SizesAssumption
<1> QED
    BY <1>1, <1>2 DEF Byte

\* A prefix of four bytes is a natural number.
LEMMA MsgLenType ==
    ASSUME NEW b \in Seq(Byte), Len(b) >= Prefix
    PROVE  MsgLen(b) \in Nat
<1>1. b[1] \in Nat /\ b[2] \in Nat /\ b[3] \in Nat /\ b[4] \in Nat
    BY SizesAssumption DEF Byte, Prefix
<1>2. Base \in Nat /\ Base * Base \in Nat /\ Base * Base * Base \in Nat
    BY SizesAssumption, ProductType
<1>3. Base * b[2] \in Nat
    BY <1>1, <1>2, ProductType
<1>4. Base * Base * b[3] \in Nat
    <2> DEFINE p == Base * Base
    <2>1. p \in Nat
        BY <1>2
    <2> HIDE DEF p
    <2>2. p * b[3] \in Nat
        BY <1>1, <2>1, ProductType
    <2> QED
        BY <2>2 DEF p
<1>5. Base * Base * Base * b[4] \in Nat
    <2> DEFINE p == Base * Base * Base
    <2>1. p \in Nat
        BY <1>2
    <2> HIDE DEF p
    <2>2. p * b[4] \in Nat
        BY <1>1, <2>1, ProductType
    <2> QED
        BY <2>2 DEF p
<1>6. \A w, x, y, z \in Nat : w + x + y + z \in Nat
    OBVIOUS
<1>7. b[1] + Base * b[2] + Base * Base * b[3] + Base * Base * Base * b[4] \in Nat
    BY <1>1, <1>3, <1>4, <1>5, <1>6, ZenonT(20)
<1> QED
    BY <1>7, Zenon DEF MsgLen

\* What the controller puts on the wire is bytes.
LEMMA FramedType ==
    ASSUME NEW msg \in Seq(Byte)
    PROVE  Framed(msg) \in Seq(Byte)
<1>1. Base \in Nat \ {0} /\ Len(msg) \in Nat
    BY SizesAssumption
<1>2. Base * Base \in Nat \ {0}
    BY SizesAssumption
<1>3. Base * Base * Base \in Nat \ {0}
    <2> DEFINE p == Base * Base
    <2>1. p \in Nat \ {0}
        BY <1>2
    <2> HIDE DEF p
    <2>2. \A x, y \in Nat \ {0} : x * y \in Nat \ {0}
        OBVIOUS
    <2>3. p * Base \in Nat \ {0}
        BY <1>1, <2>1, <2>2
    <2> QED
        BY <2>3 DEF p
<1>4. \A k \in 1..Prefix : Digit(Len(msg), k) \in Byte
    <2>1. Digit(Len(msg), 1) \in Byte
        BY <1>1 DEF Digit, Byte
    <2>2. Digit(Len(msg), 2) \in Byte
        BY <1>1, DigitRange DEF Digit
    <2>3. Digit(Len(msg), 3) \in Byte
        <3>1. Digit(Len(msg), 3) = (Len(msg) \div (Base * Base)) % Base
            BY DEF Digit
        <3>2. (Len(msg) \div (Base * Base)) % Base \in Byte
            BY <1>1, <1>2, DigitRange, Zenon
        <3> QED
            BY <3>1, <3>2, Zenon
    <2>4. Digit(Len(msg), 4) \in Byte
        <3>1. Digit(Len(msg), 4) = (Len(msg) \div (Base * Base * Base)) % Base
            BY DEF Digit
        <3>2. (Len(msg) \div (Base * Base * Base)) % Base \in Byte
            BY <1>1, <1>3, DigitRange, Zenon
        <3> QED
            BY <3>1, <3>2, Zenon
    <2>5. \A k \in 1..Prefix : k = 1 \/ k = 2 \/ k = 3 \/ k = 4
        BY DEF Prefix
    <2> QED
        BY <2>1, <2>2, <2>3, <2>4, <2>5
<1>5. [k \in 1..Prefix |-> Digit(Len(msg), k)] \in Seq(Byte)
    BY <1>4 DEF Prefix
<1> QED
    BY <1>5 DEF Framed

(***************************************************************************)
(* When the inner loop goes back to recv() the buffer holds less than a    *)
(* prefix, or less than the message whose valid length it begins with: in  *)
(* both cases less than a prefix and the longest message, so there is room.*)
(***************************************************************************)
Waiting == pc \in {"while", "recv"} => Len(acc) < Prefix + RecvBufSize

\* The message that is answered is still in the buffer.
Answering == pc = "send" => Len(acc) >= Prefix /\ Valid /\ Complete

LinkInv == TypeOK /\ Waiting /\ NoneWaits /\ Answering

LEMMA RecvKeepsLinkInv == LinkInv /\ Recv => LinkInv'
<1> SUFFICES ASSUME LinkInv, Recv PROVE LinkInv'
    OBVIOUS
<1>1. PICK n \in 1..Room : /\ n <= Len(stream)
                          /\ acc' = acc \o SubSeq(stream, 1, n)
                          /\ stream' = SubSeq(stream, n + 1, Len(stream))
    BY DEF Recv
<1>2. n \in Nat /\ n <= AccSize - Len(acc)
    BY SizesAssumption DEF Room, LinkInv, TypeOK
<1>3. /\ SubSeq(stream, 1, n) \in Seq(Byte) /\ Len(SubSeq(stream, 1, n)) = n
      /\ stream' \in Seq(Byte)
    BY <1>1, <1>2, SubSeqProperties DEF LinkInv, TypeOK
<1>4. acc' \in Seq(Byte) /\ Len(acc') = Len(acc) + n
    BY <1>1, <1>3, ConcatProperties DEF LinkInv, TypeOK
<1>5. Len(acc') <= AccSize
    BY <1>2, <1>4, SizesAssumption DEF LinkInv, TypeOK
<1> QED
    BY <1>3, <1>4, <1>5 DEF Recv, LinkInv, TypeOK, Waiting, NoneWaits, Answering

LEMMA DispatchKeepsLinkInv == LinkInv /\ DispatchPacket => LinkInv'
<1> SUFFICES ASSUME LinkInv, DispatchPacket PROVE LinkInv'
    OBVIOUS
<1>1. MsgLen(acc) \in Nat /\ Prefix + MsgLen(acc) <= Len(acc)
    BY MsgLenType DEF DispatchPacket, Complete, LinkInv, TypeOK
<1>2. SubSeq(acc, Prefix + 1, Prefix + MsgLen(acc)) \in Seq(Byte)
    BY <1>1, SubSeqProperties DEF LinkInv, TypeOK, Prefix
<1>3. handled' \in Seq(Seq(Byte))
    BY <1>2 DEF DispatchPacket, LinkInv, TypeOK
<1> QED
    BY <1>3 DEF DispatchPacket, LinkInv, TypeOK, Waiting, NoneWaits, Answering, Valid, Complete

LEMMA AnsweredKeepsLinkInv == LinkInv /\ Answered => LinkInv'
<1> SUFFICES ASSUME LinkInv, Answered PROVE LinkInv'
    OBVIOUS
<1>1. MsgLen(acc) \in Nat /\ Prefix + MsgLen(acc) <= Len(acc)
    BY MsgLenType DEF Answered, Answering, Complete, LinkInv, TypeOK
<1>4. acc' \in Seq(Byte) /\ Len(acc') <= Len(acc)
    <2> DEFINE m == Consumed + 1
    <2>1. m \in 1..(Len(acc) + 1) /\ Len(acc) \in Nat /\ acc \in Seq(Byte)
        BY <1>1 DEF Consumed, Prefix, LinkInv, TypeOK
    <2>2. acc' = SubSeq(acc, m, Len(acc))
        BY DEF Answered
    <2> HIDE DEF m
    <2>3. CASE m <= Len(acc)
        BY <2>1, <2>2, <2>3, SubSeqProperties
    <2>4. CASE m > Len(acc)
        BY <2>1, <2>2, <2>4, SubSeqProperties
    <2> QED
        BY <2>1, <2>3, <2>4
<1> QED
    BY <1>4, SizesAssumption DEF Answered, LinkInv, TypeOK, Waiting, NoneWaits, Answering

LEMMA SendKeepsLinkInv == LinkInv /\ Send => LinkInv'
<1> SUFFICES ASSUME LinkInv, Send PROVE LinkInv'
    OBVIOUS
<1>1. script[sent + 1] \in Seq(Byte)
    BY ScriptsAssumption DEF Send, LinkInv, TypeOK
<1>2. stream' \in Seq(Byte)
    BY <1>1, FramedType, ConcatProperties DEF Send, LinkInv, TypeOK
<1>3. sent' \in 0..Len(script)
    BY ScriptsAssumption DEF Send, LinkInv, TypeOK
<1>4. UNCHANGED <<script, acc, handled, running, pc>>
    BY DEF Send
<1> QED
    BY <1>2, <1>3, <1>4 DEF LinkInv, TypeOK, Waiting, NoneWaits, Answering, Valid, Complete

LEMMA LinkInvariant == Spec => []LinkInv
<1>1. Init => LinkInv
    <2> SUFFICES ASSUME Init PROVE LinkInv
        OBVIOUS
    <2>1. Len(script) \in Nat
        BY ScriptsAssumption DEF Init
    <2> QED
        BY <2>1, SizesAssumption DEF Init, LinkInv, TypeOK, Waiting, NoneWaits, Answering, Prefix
<1>2. LinkInv /\ [Next]_vars => LinkInv'
    <2> SUFFICES ASSUME LinkInv, [Next]_vars PROVE LinkInv'
        OBVIOUS
    <2>1. CASE WaitForMore
        <3>1. Len(acc) < Prefix + RecvBufSize
            <4>1. CASE Len(acc) < Prefix
                BY <4>1, SizesAssumption DEF LinkInv, TypeOK, Prefix
            <4>2. CASE Len(acc) >= Prefix /\ Valid /\ ~Complete
                <5>1. MsgLen(acc) \in Nat
                    BY <4>2, MsgLenType DEF LinkInv, TypeOK
                <5> QED
                    BY <4>2, <5>1, SizesAssumption DEF Valid, Complete, Prefix, LinkInv, TypeOK
            <4> QED
                BY <2>1, <4>1, <4>2 DEF WaitForMore
        <3> QED
            BY <2>1, <3>1, SizesAssumption
            DEF WaitForMore, LinkInv, TypeOK, Waiting, NoneWaits, Answering, Valid, Complete, Prefix
    <2>2. CASE While
        BY <2>2 DEF While, LinkInv, TypeOK, Waiting, NoneWaits, Answering, Valid, Complete
    <2>3. CASE Refuse
        BY <2>3 DEF Refuse, LinkInv, TypeOK, Waiting, NoneWaits, Answering
    <2>4. CASE RecvEnds
        BY <2>4 DEF RecvEnds, LinkInv, TypeOK, Waiting, NoneWaits, Answering
    <2>5. CASE Stop
        BY <2>5 DEF Stop, LinkInv, TypeOK, Waiting, NoneWaits, Answering, Valid, Complete
    <2>6. CASE UNCHANGED vars
        BY <2>6 DEF vars, LinkInv, TypeOK, Waiting, NoneWaits, Answering, Valid, Complete
    <2> QED
        BY <2>1, <2>3, <2>4, <2>5, <2>6, <2>2, RecvKeepsLinkInv, DispatchKeepsLinkInv,
           AnsweredKeepsLinkInv, SendKeepsLinkInv DEF Next, Loop
<1> QED
    BY <1>1, <1>2, PTL DEF Spec

\* Every variable keeps its type, and the buffer never overflows.
THEOREM TypeCorrect == Spec => []TypeOK
<1>1. LinkInv => TypeOK
    BY DEF LinkInv
<1> QED
    BY <1>1, LinkInvariant, PTL

\* recv() is always asked for at least one byte: the thread cannot take a full
\* buffer for a controller that went away.
THEOREM RecvHasRoom == Spec => []RoomInv
<1>1. LinkInv => RoomInv
    BY SizesAssumption DEF LinkInv, Waiting, RoomInv, Room, TypeOK, Prefix
<1> QED
    BY <1>1, LinkInvariant, PTL

\* The thread blocks in recv() only when no complete message is in the buffer.
THEOREM NoMessageWaits == Spec => []NoneWaits
<1>1. LinkInv => NoneWaits
    BY DEF LinkInv
<1> QED
    BY <1>1, LinkInvariant, PTL

-----------------------------------------------------------------------------
(* The length prefix gives the length back *)

LEMMA Distributes == \A a, b, c \in Nat : a * (b + c) = a * b + a * c
OBVIOUS

LEMMA Associates == \A a, b, c \in Nat : a * (b * c) = a * b * c
OBVIOUS

LEMMA ProductGrows == \A a, b, c \in Nat : b <= c => a * b <= a * c
OBVIOUS

\* Quotient and remainder.
LEMMA Division ==
    ASSUME NEW n \in Nat, NEW d \in Nat \ {0}
    PROVE  n \div d \in Nat /\ n % d \in 0..(d - 1) /\ n = d * (n \div d) + (n % d)
OBVIOUS

\* They are the only ones.
LEMMA Quotient ==
    ASSUME NEW d \in Nat \ {0}, NEW q \in Nat, NEW r \in 0..(d - 1)
    PROVE  (d * q + r) \div d = q
<1>1. d * q + r \in Nat
    BY ProductType
<1>2. \A n \in Nat : n = d * q + r => n \div d = q
    OBVIOUS
<1> QED
    BY <1>1, <1>2

\* Dividing by a product is dividing by its factors, one after the other.
LEMMA DivideTwice ==
    ASSUME NEW n \in Nat, NEW c \in Nat \ {0}, NEW d \in Nat \ {0}
    PROVE  n \div (c * d) = (n \div c) \div d
<1> DEFINE p == n \div c
           q == p \div d
           x == n % c
           y == p % d
<1>1. p \in Nat /\ x \in 0..(c - 1) /\ n = c * p + x
    BY Division
<1>2. q \in Nat /\ y \in 0..(d - 1) /\ p = d * q + y
    BY <1>1, Division
<1> HIDE DEF p, q, x, y
<1> DEFINE e == c * d
           r == c * y + x
<1>3. n = e * q + r
    <2>1. c * p = c * (d * q) + c * y
        BY <1>2, Distributes, ProductType
    <2>2. c * (d * q) = e * q
        BY <1>2, Associates
    <2>3. e * q \in Nat /\ c * y \in Nat /\ x \in Nat
        BY <1>1, <1>2, ProductType
    <2> DEFINE u == e * q
               v == c * y
    <2>4. n = (u + v) + x /\ u \in Nat /\ v \in Nat
        BY <1>1, <2>1, <2>2, <2>3, Zenon
    <2> HIDE DEF u, v
    <2>5. n = u + (v + x)
        BY <2>3, <2>4
    <2> QED
        BY <2>5 DEF u, v
<1>4. e \in Nat \ {0}
    OBVIOUS
<1>5. r \in 0..(e - 1)
    <2>1. c * y \in Nat /\ c * (d - 1) \in Nat /\ c * y <= c * (d - 1)
        BY <1>2, ProductGrows, ProductType
    <2>2. c * (d - 1) + c * 1 = e
        <3>1. d - 1 \in Nat /\ (d - 1) + 1 = d
            OBVIOUS
        <3> QED
            BY <3>1, Distributes
    <2> QED
        BY <1>1, <2>1, <2>2
<1> HIDE DEF e, r
<1>6. n \div e = q
    BY <1>2, <1>3, <1>4, <1>5, Quotient
<1> QED
    BY <1>6 DEF e, p, q

\* The four digits of a length are that length again.
LEMMA DigitsAdd ==
    ASSUME NEW n \in Nat, n < Base * Base * Base * Base
    PROVE  Digit(n, 1) + Base * Digit(n, 2) + Base * Base * Digit(n, 3)
               + Base * Base * Base * Digit(n, 4) = n
<1> DEFINE q1 == n \div Base
           q2 == q1 \div Base
           q3 == q2 \div Base
           r0 == n % Base
           r1 == q1 % Base
           r2 == q2 % Base
           B2 == Base * Base
           B3 == B2 * Base
<1> HIDE DEF q1, q2, q3, r0, r1, r2, B2, B3
<1>1. Base \in Nat \ {0} /\ B2 \in Nat \ {0}
    BY SizesAssumption DEF B2
<1>2. B3 \in Nat \ {0}
    <2>1. \A x, y \in Nat \ {0} : x * y \in Nat \ {0}
        OBVIOUS
    <2> QED
        BY <1>1, <2>1 DEF B3
<1>3. q1 \in Nat /\ r0 \in Nat /\ n = Base * q1 + r0
    BY <1>1, Division DEF q1, r0
<1>4. q2 \in Nat /\ r1 \in Nat /\ q1 = Base * q2 + r1
    BY <1>1, <1>3, Division DEF q2, r1
<1>5. q3 \in Nat /\ r2 \in Nat /\ q2 = Base * q3 + r2
    BY <1>1, <1>4, Division DEF q3, r2
<1>6. n \div B2 = q2
    BY <1>1, DivideTwice DEF B2, q1, q2
<1>7. n \div B3 = q3
    BY <1>1, <1>6, DivideTwice DEF B3, q3
<1>8. /\ Digit(n, 1) = r0 /\ Digit(n, 2) = r1
      /\ Digit(n, 3) = r2 /\ Digit(n, 4) = q3 % Base
    <2>1. Digit(n, 1) = n % Base
        BY DEF Digit
    <2>2. Digit(n, 2) = (n \div Base) % Base
        BY DEF Digit
    <2>3. Digit(n, 3) = (n \div (Base * Base)) % Base
        BY DEF Digit
    <2>4. Digit(n, 4) = (n \div (Base * Base * Base)) % Base
        BY DEF Digit
    <2> QED
        BY <2>1, <2>2, <2>3, <2>4, <1>6, <1>7, Zenon DEF q1, r0, r1, r2, B2, B3
<1>9. n = B3 * q3 + B2 * r2 + Base * r1 + r0
    <2>1. B2 * (Base * q3 + r2) = B3 * q3 + B2 * r2
        <3>1. Base * q3 \in Nat
            BY <1>1, <1>5, ProductType
        <3>2. B2 * (Base * q3 + r2) = B2 * (Base * q3) + B2 * r2
            BY <3>1, <1>1, <1>5, Distributes
        <3>3. B2 * (Base * q3) = B2 * Base * q3
            BY <1>1, <1>5, Associates
        <3> QED
            BY <3>2, <3>3, Zenon DEF B3
    <2>2. Base * (Base * q2 + r1) = B2 * q2 + Base * r1
        <3>1. Base * q2 \in Nat
            BY <1>1, <1>4, ProductType
        <3>2. Base * (Base * q2 + r1) = Base * (Base * q2) + Base * r1
            BY <3>1, <1>1, <1>4, Distributes
        <3>3. Base * (Base * q2) = Base * Base * q2
            BY <1>1, <1>4, Associates
        <3> QED
            BY <3>2, <3>3, Zenon DEF B2
    <2>3. n = B2 * q2 + Base * r1 + r0
        BY <1>3, <1>4, <2>2, Zenon
    <2>4. B2 * q2 = B3 * q3 + B2 * r2
        BY <1>5, <2>1, Zenon
    <2> QED
        BY <2>3, <2>4, Zenon
<1>10. q3 % Base = q3
    <2> DEFINE a == B3 * q3
               b == B3 * Base
               c == B2 * r2
               d == Base * r1
    <2>1. a \in Nat /\ b \in Nat /\ c \in Nat /\ d \in Nat
        BY <1>1, <1>2, <1>3, <1>4, <1>5, ProductType
    <2>2. n = a + c + d + r0
        BY <1>9
    <2>3. Base <= q3 => b <= a
        BY <1>1, <1>2, <1>5, ProductGrows
    <2>4. n < b
        BY DEF B3, B2
    <2> HIDE DEF a, b, c, d
    <2>5. q3 < Base
        BY <2>1, <2>2, <2>3, <2>4, <1>1, <1>3, <1>5
    <2> QED
        BY <1>1, <1>5, <2>5
<1> QED
    <2> DEFINE a == B3 * q3
               c == B2 * r2
               d == Base * r1
    <2>1. a \in Nat /\ c \in Nat /\ d \in Nat
        BY <1>1, <1>2, <1>3, <1>4, <1>5, ProductType
    <2>2. n = a + c + d + r0
        BY <1>9
    <2>3. /\ Base * Digit(n, 2) = d /\ Base * Base * Digit(n, 3) = c
          /\ Base * Base * Base * Digit(n, 4) = a /\ Digit(n, 1) = r0
        BY <1>8, <1>10, Zenon DEF B2, B3
    <2> HIDE DEF a, c, d
    <2>4. r0 + d + c + a = n
        BY <2>1, <2>2, <1>3
    <2> QED
        BY <2>3, <2>4, Zenon

-----------------------------------------------------------------------------
(* The messages come out whole and in order *)

(***************************************************************************)
(* The bytes p that are in the buffer and on the way are the frames of     *)
(* messages first + 1 to last of the script s, one after the other: at[i]  *)
(* is how many of these bytes come before the end of message i.            *)
(***************************************************************************)
IsFrame(s, p, at, i) ==
    /\ at[i] = at[i - 1] + Prefix + Len(s[i])
    /\ \A k \in 1..(Prefix + Len(s[i])) : p[at[i - 1] + k] = Framed(s[i])[k]

Frames(s, first, last, p, at) ==
    /\ at \in [first..last -> 0..Len(p)]
    /\ at[first] = 0 /\ at[last] = Len(p)
    /\ \A i, j \in first..last : i <= j => at[i] <= at[j]
    /\ \A i \in (first + 1)..last : IsFrame(s, p, at, i)

\* Messages that are out of the buffer: the one that is answered is not.
Gone == IF pc = "send" THEN Len(handled) - 1 ELSE Len(handled)

\* The bytes that are left are the frames of the messages sent and not gone.
InOrder ==
    /\ Gone \in Nat /\ Len(handled) <= sent
    /\ \E at : Frames(script, Gone, sent, acc \o stream, at)

\* What a frame is made of.
LEMMA FrameParts ==
    ASSUME NEW m \in Seq(Byte), Len(m) < Base * Base * Base * Base
    PROVE  /\ Len(Framed(m)) = Prefix + Len(m)
           /\ MsgLen(Framed(m)) = Len(m)
           /\ \A k \in 1..Len(m) : Framed(m)[Prefix + k] = m[k]
<1> DEFINE h == [k \in 1..Prefix |-> Digit(Len(m), k)]
<1>1. \A k \in 1..Prefix : Framed(m)[k] = Digit(Len(m), k)
    BY DEF Framed, Prefix
<1>2. /\ Len(Framed(m)) = Prefix + Len(m)
      /\ \A k \in 1..Len(m) : Framed(m)[Prefix + k] = m[k]
    BY DEF Framed, Prefix
<1>3. MsgLen(Framed(m)) = Len(m)
    <2>1. /\ Framed(m)[1] = Digit(Len(m), 1) /\ Framed(m)[2] = Digit(Len(m), 2)
          /\ Framed(m)[3] = Digit(Len(m), 3) /\ Framed(m)[4] = Digit(Len(m), 4)
        BY <1>1 DEF Prefix
    <2>2. Len(m) \in Nat
        OBVIOUS
    <2> QED
        BY <2>1, <2>2, DigitsAdd, Zenon DEF MsgLen
<1> QED
    BY <1>2, <1>3

\* A message that is sent adds its frame at the end.
LEMMA FrameAdded ==
    ASSUME NEW s \in Seq(Seq(Byte)), NEW first \in Nat, NEW last \in Nat, first <= last, last < Len(s),
           Len(s[last + 1]) < Base * Base * Base * Base,
           NEW p \in Seq(Byte), NEW at, Frames(s, first, last, p, at)
    PROVE  \E b : Frames(s, first, last + 1, p \o Framed(s[last + 1]), b)
<1> DEFINE m == s[last + 1]
           f == Framed(m)
           q == p \o f
           end == Len(p) + Prefix + Len(m)
           b == [i \in first..(last + 1) |-> IF i = last + 1 THEN end ELSE at[i]]
<1>1. m \in Seq(Byte) /\ Len(m) \in Nat /\ Len(p) \in Nat
    OBVIOUS
<1>2. f \in Seq(Byte) /\ Len(f) = Prefix + Len(m)
    BY <1>1, FramedType, FrameParts
<1>3. /\ q \in Seq(Byte) /\ Len(q) = end
      /\ \A k \in 1..Len(p) : q[k] = p[k]
      /\ \A k \in 1..Len(f) : q[Len(p) + k] = f[k]
    <2> HIDE DEF f, m
    <2>1. /\ q \in Seq(Byte) /\ Len(q) = Len(p) + Len(f)
          /\ \A i \in 1..Len(p) + Len(f) : q[i] = IF i <= Len(p) THEN p[i] ELSE f[i - Len(p)]
        BY <1>2, ConcatProperties
    <2> HIDE DEF q
    <2>2. Len(q) = end
        BY <1>1, <1>2, <2>1 DEF Prefix
    <2>3. \A k \in 1..Len(p) : q[k] = p[k]
        BY <1>1, <1>2, <2>1 DEF Prefix
    <2>4. ASSUME NEW k \in 1..Len(f) PROVE q[Len(p) + k] = f[k]
        <3>1. /\ Len(p) + k \in 1..Len(p) + Len(f) /\ ~(Len(p) + k <= Len(p))
              /\ (Len(p) + k) - Len(p) = k
            BY <1>1, <1>2 DEF Prefix
        <3> QED
            BY <2>1, <3>1
    <2> QED
        BY <2>1, <2>2, <2>3, <2>4
<1> HIDE DEF f, q
<1>4. \A i \in first..last : at[i] \in Nat /\ at[i] <= Len(p) /\ b[i] = at[i]
    BY <1>1 DEF Frames
<1>5. end \in Nat /\ Len(p) <= end /\ b[last + 1] = end
    <2>1. last + 1 \in first..(last + 1)
        OBVIOUS
    <2>2. \A x, y \in Nat : x + Prefix + y \in Nat /\ x <= x + Prefix + y
        BY DEF Prefix
    <2> QED
        BY <1>1, <2>1, <2>2
<1>6. \A i \in first..(last + 1) : i \in first..last \/ i = last + 1
    OBVIOUS
<1>7. b \in [first..(last + 1) -> 0..Len(q)]
    <2>1. ASSUME NEW i \in first..(last + 1) PROVE b[i] \in 0..Len(q)
        <3> HIDE DEF end, b
        <3>1. CASE i \in first..last
            <4> DEFINE x == at[i]
                       y == Len(p)
            <4>1. x \in Nat /\ y \in Nat /\ x <= y /\ b[i] = x /\ y <= end /\ Len(q) = end
                BY <1>1, <1>3, <1>4, <1>5, <3>1
            <4> HIDE DEF x, y
            <4>2. x \in 0..end
                BY <4>1, <1>5
            <4> QED
                BY <4>1, <4>2, Zenon
        <3>2. CASE i = last + 1
            BY <1>3, <1>5, <3>2
        <3> QED
            BY <1>6, <3>1, <3>2
    <2> QED
        BY <2>1
<1>8. b[first] = 0 /\ b[last + 1] = Len(q)
    BY <1>1, <1>3 DEF Frames
<1>9. ASSUME NEW i \in first..(last + 1), NEW j \in first..(last + 1), i <= j PROVE b[i] <= b[j]
    <2> HIDE DEF end, b
    <2>1. CASE j = last + 1
        BY <2>1, <1>1, <1>4, <1>5, <1>6
    <2>2. CASE j # last + 1
        <3>1. i \in first..last /\ j \in first..last
            BY <2>2, <1>9
        <3>2. at[i] <= at[j]
            BY <3>1, <1>9 DEF Frames
        <3> QED
            BY <3>1, <3>2, <1>4
    <2> QED
        BY <2>1, <2>2
<1>10. ASSUME NEW i \in (first + 1)..(last + 1)
      PROVE  /\ b[i] = b[i - 1] + Prefix + Len(s[i])
             /\ \A k \in 1..(Prefix + Len(s[i])) : q[b[i - 1] + k] = Framed(s[i])[k]
    <2>1. CASE i = last + 1
        <3>1. i - 1 = last /\ last \in first..last
            BY <2>1
        <3>2. b[i - 1] = Len(p)
            BY <3>1, <1>4 DEF Frames
        <3>3. Framed(s[i]) = f /\ Len(s[i]) = Len(m) /\ b[i] = end
            BY <2>1 DEF f
        <3> HIDE DEF b
        <3>4. b[i] = b[i - 1] + Prefix + Len(s[i])
            BY <3>2, <3>3
        <3> QED
            BY <3>2, <3>3, <3>4, <1>2, <1>3
    <2>2. CASE i # last + 1
        <3>1. /\ i \in (first + 1)..last /\ i - 1 \in first..last /\ i \in first..last
              /\ b[i] = at[i] /\ b[i - 1] = at[i - 1]
            BY <2>2
        <3>2. at[i] = at[i - 1] + Prefix + Len(s[i]) /\ at[i] <= Len(p) /\ at[i - 1] \in Nat
            BY <3>1, <1>1 DEF Frames, IsFrame
        <3>3. Len(s[i]) \in Nat
            BY <3>1
        <3>4. ASSUME NEW k \in 1..(Prefix + Len(s[i])) PROVE at[i - 1] + k \in 1..Len(p)
            <4> DEFINE u == at[i - 1]
                       l == Len(s[i])
                       n == Len(p)
            <4>1. k \in Nat /\ 1 <= k /\ k <= Prefix + l
                BY <3>3 DEF Prefix
            <4>2. u \in Nat /\ l \in Nat /\ n \in Nat /\ u + Prefix + l <= n
                BY <3>2, <3>3, <1>1
            <4> HIDE DEF u, l, n
            <4>3. u + k \in 1..n
                BY <4>1, <4>2 DEF Prefix
            <4> QED
                BY <4>3 DEF u, n
        <3>5. \A k \in 1..(Prefix + Len(s[i])) : p[at[i - 1] + k] = Framed(s[i])[k]
            BY <3>1 DEF Frames, IsFrame
        <3> HIDE DEF b
        <3> QED
            BY <3>1, <3>2, <3>4, <3>5, <1>3
    <2> QED
        BY <2>1, <2>2
<1> HIDE DEF b
<1>11. Frames(s, first, last + 1, q, b)
    BY <1>7, <1>8, <1>9, <1>10 DEF Frames, IsFrame
<1> QED
    BY <1>11 DEF q, f

\* A complete message at the front of the buffer is the first of them.
LEMMA FrameFirst ==
    ASSUME NEW s \in Seq(Seq(Byte)), NEW first \in Nat, NEW last \in 0..Len(s), first <= last,
           \A i \in 1..Len(s) : Len(s[i]) < Base * Base * Base * Base,
           NEW a \in Seq(Byte), NEW t \in Seq(Byte), NEW at, Frames(s, first, last, a \o t, at),
           Len(a) >= Prefix, Len(a) >= Prefix + MsgLen(a)
    PROVE  /\ first < last /\ MsgLen(a) = Len(s[first + 1])
           /\ SubSeq(a, Prefix + 1, Prefix + MsgLen(a)) = s[first + 1]
<1> DEFINE p == a \o t
           m == s[first + 1]
<1>1. /\ p \in Seq(Byte) /\ Len(p) = Len(a) + Len(t)
      /\ \A k \in 1..Len(a) : p[k] = a[k]
    BY ConcatProperties
<1>2. first < last
    BY <1>1 DEF Frames, Prefix
<1>3. m \in Seq(Byte) /\ Len(m) \in Nat /\ Len(m) < Base * Base * Base * Base
    BY <1>2
<1> HIDE DEF p, m
<1>4. /\ Len(p) >= Prefix + Len(m)
      /\ \A k \in 1..(Prefix + Len(m)) : p[k] = Framed(m)[k]
    <2>1. at[first + 1] = 0 + Prefix + Len(m) /\ at[first + 1] <= Len(p)
        BY <1>2, <1>3 DEF Frames, IsFrame, p, m
    <2>2. \A k \in 1..(Prefix + Len(m)) : p[0 + k] = Framed(m)[k]
        <3>1. first + 1 \in (first + 1)..last /\ (first + 1) - 1 = first /\ at[first] = 0
            BY <1>2 DEF Frames, p
        <3>2. \A k \in 1..(Prefix + Len(s[first + 1])) :
                  p[at[(first + 1) - 1] + k] = Framed(s[first + 1])[k]
            BY <3>1 DEF Frames, IsFrame, p
        <3> QED
            BY <3>1, <3>2, Zenon DEF m
    <2>3. \A k \in 1..(Prefix + Len(m)) : 0 + k = k
        BY <1>3 DEF Prefix
    <2> QED
        BY <2>1, <2>2, <2>3, <1>3 DEF Prefix
<1>5. MsgLen(a) = Len(m)
    <2>1. ASSUME NEW k \in 1..4 PROVE a[k] = Framed(m)[k]
        <3>1. k \in 1..Len(a) /\ k \in 1..(Prefix + Len(m))
            BY <1>3 DEF Prefix
        <3> QED
            BY <1>1, <1>4, <3>1
    <2>2. a[1] = Framed(m)[1] /\ a[2] = Framed(m)[2] /\ a[3] = Framed(m)[3] /\ a[4] = Framed(m)[4]
        BY <2>1
    <2>3. MsgLen(a) = MsgLen(Framed(m))
        BY <2>2, Zenon DEF MsgLen
    <2> QED
        BY <2>3, <1>3, FrameParts
<1>6. ASSUME NEW k \in 1..Len(m) PROVE a[Prefix + k] = m[k]
    <2>1. Prefix + k \in 1..Len(a) /\ Prefix + k \in 1..(Prefix + Len(m))
        BY <1>3, <1>5 DEF Prefix
    <2>2. Framed(m)[Prefix + k] = m[k]
        BY <1>3, FrameParts
    <2> QED
        BY <1>1, <1>4, <2>1, <2>2
<1> DEFINE x == SubSeq(a, Prefix + 1, Prefix + Len(m))
<1>7. /\ x \in Seq(Byte) /\ Len(x) = Len(m)
      /\ \A k \in 1..Len(m) : x[k] = a[Prefix + k]
    <2>1. \A i \in (Prefix + 1)..(Prefix + Len(m)) : a[i] \in Byte
        BY <1>3, <1>5 DEF Prefix
    <2> QED
        BY <2>1, <1>3, SubSeqProperties DEF Prefix
<1> HIDE DEF x
<1>8. x = m
    BY <1>3, <1>6, <1>7, SeqEqual
<1> QED
    BY <1>2, <1>5, <1>8 DEF x, m

\* q is p without its first c bytes.
Rest(q, p, c) == Len(q) = Len(p) - c /\ \A k \in 1..Len(q) : q[k] = p[c + k]

\* Without the first frame the bytes are the other frames.
LEMMA FrameRemoved ==
    ASSUME NEW s \in Seq(Seq(Byte)), NEW first \in Nat, NEW last \in 0..Len(s), first < last,
           NEW p \in Seq(Byte), NEW at, Frames(s, first, last, p, at), NEW q \in Seq(Byte),
           Rest(q, p, Prefix + Len(s[first + 1]))
    PROVE  \E b : Frames(s, first + 1, last, q, b)
<1> DEFINE c == Prefix + Len(s[first + 1])
           b == [i \in (first + 1)..last |-> at[i] - c]
<1>1. c \in Nat /\ Len(p) \in Nat /\ Len(q) \in Nat
    BY DEF Prefix
<1>2. at[first + 1] = c
    <2>1. first + 1 \in (first + 1)..last /\ (first + 1) - 1 = first /\ at[first] = 0
        BY DEF Frames
    <2>2. at[first + 1] = at[(first + 1) - 1] + Prefix + Len(s[first + 1])
        BY <2>1 DEF Frames, IsFrame
    <2>3. at[first + 1] = 0 + Prefix + Len(s[first + 1])
        BY <2>1, <2>2, Zenon
    <2>4. 0 + Prefix + Len(s[first + 1]) = c
        BY DEF Prefix
    <2> QED
        BY <2>3, <2>4, Zenon
<1> HIDE DEF c
<1>3. \A i \in (first + 1)..last : at[i] >= c /\ at[i] \in Nat /\ at[i] <= Len(p)
    BY <1>1, <1>2 DEF Frames
<1>4. Len(q) = Len(p) - c
    BY DEF c, Rest
<1>5. b \in [(first + 1)..last -> 0..Len(q)]
    <2>1. \A x \in Nat : x >= c /\ x <= Len(p) => x - c \in 0..Len(q)
        <3> DEFINE y == Len(p)
        <3>1. y \in Nat
            BY <1>1
        <3> HIDE DEF y
        <3>2. ASSUME NEW x \in Nat, x >= c, x <= y PROVE x - c \in 0..(y - c)
            BY <3>2, <3>1, <1>1
        <3> QED
            BY <3>2, <1>4 DEF y
    <2> QED
        BY <2>1, <1>3
<1>6. b[first + 1] = 0 /\ b[last] = Len(q)
    BY <1>1, <1>2, <1>4 DEF Frames
<1>7. ASSUME NEW i \in (first + 1)..last, NEW j \in (first + 1)..last, i <= j PROVE b[i] <= b[j]
    <2>1. at[i] <= at[j]
        BY <1>7 DEF Frames
    <2>2. b[i] = at[i] - c /\ b[j] = at[j] - c
        OBVIOUS
    <2> DEFINE x == at[i]
               y == at[j]
    <2>3. x \in Nat /\ y \in Nat /\ x <= y
        BY <1>3, <2>1
    <2> HIDE DEF b, x, y
    <2>4. x - c <= y - c
        BY <2>3, <1>1
    <2> QED
        BY <2>2, <2>4, Zenon DEF x, y
<1>8. ASSUME NEW i \in (first + 2)..last
      PROVE  /\ b[i] = b[i - 1] + Prefix + Len(s[i])
             /\ \A k \in 1..(Prefix + Len(s[i])) : q[b[i - 1] + k] = Framed(s[i])[k]
    <2>1. i \in (first + 1)..last /\ i - 1 \in (first + 1)..last
        OBVIOUS
    <2>2. /\ at[i] = at[i - 1] + Prefix + Len(s[i])
          /\ \A k \in 1..(Prefix + Len(s[i])) : p[at[i - 1] + k] = Framed(s[i])[k]
        BY <2>1 DEF Frames, IsFrame
    <2>3. /\ b[i] = at[i] - c /\ b[i - 1] = at[i - 1] - c
          /\ at[i - 1] >= c /\ at[i - 1] \in Nat /\ at[i] \in Nat /\ at[i] <= Len(p)
        BY <1>3, <2>1
    <2>4. Len(s[i]) \in Nat
        OBVIOUS
    <2> HIDE DEF b
    <2> DEFINE u == at[i - 1]
               v == b[i - 1]
               x == at[i]
               y == b[i]
               n == Len(s[i])
               l == Prefix + n
    <2>5. /\ u \in Nat /\ x \in Nat /\ n \in Nat /\ u >= c /\ v = u - c /\ y = x - c
          /\ x = u + Prefix + n /\ x <= Len(p)
        BY <2>2, <2>3, <2>4, Zenon
    <2> HIDE DEF u, v, x, y, n
    <2>6. y = v + Prefix + n
        <3>1. x - c = (u - c) + Prefix + n
            BY <2>5, <1>1 DEF Prefix
        <3> QED
            BY <3>1, <2>5, Zenon
    <2>7. v \in Nat /\ u = c + v /\ u + l <= Len(p) /\ l \in Nat
        BY <2>5, <1>1 DEF Prefix
    <2> HIDE DEF l
    <2>8. b[i] = b[i - 1] + Prefix + Len(s[i])
        BY <2>6, Zenon DEF y, v, n
    <2>9. ASSUME NEW k \in 1..(Prefix + Len(s[i])) PROVE q[b[i - 1] + k] = Framed(s[i])[k]
        <3>1. k \in Nat /\ 1 <= k /\ k <= l
            BY <2>4 DEF l, n, Prefix
        <3>2. Len(q) = Len(p) - c
            BY <1>4
        <3>3. v + k \in 1..Len(q) /\ c + (v + k) = u + k
            <4> DEFINE z == Len(p)
            <4>1. z \in Nat /\ u + l <= z /\ Len(q) = z - c
                BY <1>1, <2>7, <3>2
            <4> HIDE DEF z
            <4>2. v + k \in 1..(z - c) /\ c + (v + k) = u + k
                BY <2>7, <3>1, <1>1, <4>1
            <4> QED
                BY <4>1, <4>2, Zenon
        <3>4. q[v + k] = p[c + (v + k)]
            BY <3>3 DEF c, Rest
        <3> QED
            BY <3>3, <3>4, <2>2, Zenon DEF u, v
    <2> QED
        BY <2>8, <2>9
<1> HIDE DEF b
<1>9. (first + 1) + 1 = first + 2
    OBVIOUS
<1>10. Frames(s, first + 1, last, q, b)
    BY <1>5, <1>6, <1>7, <1>8, <1>9 DEF Frames, IsFrame
<1> QED
    BY <1>10

\* Joining bytes is associative.
LEMMA JoinAssociative == \A a, b, c \in Seq(Byte) : (a \o b) \o c = a \o (b \o c)
BY ConcatAssociative

\* recv() moves bytes, it changes none.
LEMMA SplitJoin ==
    ASSUME NEW a \in Seq(Byte), NEW t \in Seq(Byte), NEW n \in 1..Len(t)
    PROVE  (a \o SubSeq(t, 1, n)) \o SubSeq(t, n + 1, Len(t)) = a \o t
<1> DEFINE x == SubSeq(t, 1, n)
           y == SubSeq(t, n + 1, Len(t))
<1>1. /\ x \in Seq(Byte) /\ Len(x) = n
      /\ \A i \in 1..n : x[i] = t[i]
    BY SubSeqProperties
<1>2. /\ y \in Seq(Byte) /\ Len(y) = Len(t) - n
      /\ \A i \in 1..(Len(t) - n) : y[i] = t[n + i]
    <2>1. \A i \in (n + 1)..Len(t) : t[i] \in Byte
        OBVIOUS
    <2>2. /\ y \in Seq(Byte)
          /\ Len(y) = IF n + 1 <= Len(t) THEN Len(t) - (n + 1) + 1 ELSE 0
          /\ \A i \in 1..Len(t) - (n + 1) + 1 : y[i] = t[(n + 1) + i - 1]
        BY <2>1, SubSeqProperties
    <2> HIDE DEF y
    <2> QED
        BY <2>2
<1> HIDE DEF x, y
<1>3. x \o y = t
    <2>1. /\ x \o y \in Seq(Byte) /\ Len(x \o y) = Len(x) + Len(y)
          /\ \A i \in 1..Len(x) + Len(y) : (x \o y)[i] = IF i <= Len(x) THEN x[i] ELSE y[i - Len(x)]
        BY <1>1, <1>2, ConcatProperties
    <2>2. Len(x \o y) = Len(t)
        BY <1>1, <1>2, <2>1
    <2>3. ASSUME NEW i \in 1..Len(t) PROVE (x \o y)[i] = t[i]
        BY <1>1, <1>2, <2>1
    <2> QED
        BY <2>1, <2>2, <2>3, SeqEqual
<1>4. (a \o x) \o y = a \o (x \o y)
    BY <1>1, <1>2, JoinAssociative, Zenon
<1> QED
    BY <1>3, <1>4 DEF x, y

\* memmove() keeps what follows the first c bytes.
LEMMA RestStays ==
    ASSUME NEW a \in Seq(Byte), NEW t \in Seq(Byte), NEW c \in 1..Len(a)
    PROVE  LET p == a \o t
               q == SubSeq(a, c + 1, Len(a)) \o t
           IN  q \in Seq(Byte) /\ Rest(q, p, c)
<1> DEFINE p == a \o t
           y == SubSeq(a, c + 1, Len(a))
           q == y \o t
<1>1. /\ y \in Seq(Byte) /\ Len(y) = Len(a) - c
      /\ \A i \in 1..(Len(a) - c) : y[i] = a[c + i]
    <2>1. \A i \in (c + 1)..Len(a) : a[i] \in Byte
        OBVIOUS
    <2>2. /\ y \in Seq(Byte)
          /\ Len(y) = IF c + 1 <= Len(a) THEN Len(a) - (c + 1) + 1 ELSE 0
          /\ \A i \in 1..Len(a) - (c + 1) + 1 : y[i] = a[(c + 1) + i - 1]
        BY <2>1, SubSeqProperties
    <2> HIDE DEF y
    <2> QED
        BY <2>2
<1> HIDE DEF y
<1>2. /\ p \in Seq(Byte) /\ Len(p) = Len(a) + Len(t)
      /\ \A i \in 1..Len(a) + Len(t) : p[i] = IF i <= Len(a) THEN a[i] ELSE t[i - Len(a)]
    BY ConcatProperties
<1>3. /\ q \in Seq(Byte) /\ Len(q) = Len(y) + Len(t)
      /\ \A i \in 1..Len(y) + Len(t) : q[i] = IF i <= Len(y) THEN y[i] ELSE t[i - Len(y)]
    BY <1>1, ConcatProperties
<1> HIDE DEF p, q
<1>4. Len(q) = Len(p) - c
    BY <1>1, <1>2, <1>3
<1>5. ASSUME NEW k \in 1..Len(q) PROVE q[k] = p[c + k]
    <2>1. k \in 1..Len(y) + Len(t) /\ c + k \in 1..Len(a) + Len(t)
        BY <1>1, <1>3
    <2>2. CASE k <= Len(y)
        <3>1. q[k] = y[k] /\ y[k] = a[c + k]
            BY <1>1, <1>3, <2>1, <2>2
        <3>2. p[c + k] = a[c + k]
            BY <1>1, <1>2, <2>1, <2>2
        <3> QED
            BY <3>1, <3>2
    <2>3. CASE ~(k <= Len(y))
        <3>1. q[k] = t[k - Len(y)]
            BY <1>3, <2>1, <2>3
        <3>2. p[c + k] = t[(c + k) - Len(a)]
            BY <1>1, <1>2, <2>1, <2>3
        <3>3. k - Len(y) = (c + k) - Len(a)
            BY <1>1
        <3> QED
            BY <3>1, <3>2, <3>3
    <2> QED
        BY <2>2, <2>3
<1> QED
    BY <1>3, <1>4, <1>5, Zenon DEF p, q, y, Rest

\* What the proofs about a step need of its first state.
LEMMA Script ==
    ASSUME LinkInv
    PROVE  /\ script \in Seq(Seq(Byte)) /\ Len(script) \in Nat /\ sent \in 0..Len(script)
           /\ \A i \in 1..Len(script) : Len(script[i]) < Base * Base * Base * Base
           /\ acc \in Seq(Byte) /\ stream \in Seq(Byte) /\ Len(handled) \in Nat
<1>1. script \in Scripts /\ script \in Seq(Seq(Byte))
    BY ScriptsAssumption DEF LinkInv, TypeOK
<1>2. \A i \in 1..Len(script) : Len(script[i]) < Base * Base * Base * Base
    BY <1>1, LengthsAssumption, Zenon
<1> QED
    BY <1>1, <1>2 DEF LinkInv, TypeOK

\* The message that dispatch_packet gets is the next one of the script.
LEMMA NextOfScript ==
    ASSUME LinkInv, InOrder, DispatchPacket
    PROVE  /\ Len(handled) < sent /\ MsgLen(acc) = Len(script[Len(handled) + 1])
           /\ handled' = Append(handled, script[Len(handled) + 1])
<1>1. PICK at : Frames(script, Len(handled), sent, acc \o stream, at)
    BY DEF InOrder, Gone, DispatchPacket
<1>2. Len(handled) <= sent
    BY DEF InOrder
<1>3. Len(acc) >= Prefix /\ Len(acc) >= Prefix + MsgLen(acc)
    BY DEF DispatchPacket, Complete
<1>4. /\ Len(handled) < sent /\ MsgLen(acc) = Len(script[Len(handled) + 1])
      /\ SubSeq(acc, Prefix + 1, Prefix + MsgLen(acc)) = script[Len(handled) + 1]
    BY <1>1, <1>2, <1>3, Script, FrameFirst
<1> QED
    BY <1>4, Zenon DEF DispatchPacket

LEMMA StepInOrder == LinkInv /\ InOrder /\ [Next]_vars => InOrder'
<1> SUFFICES ASSUME LinkInv, InOrder, [Next]_vars PROVE InOrder'
    OBVIOUS
<1>1. PICK at : Frames(script, Gone, sent, acc \o stream, at)
    BY DEF InOrder
<1>2. Gone \in Nat /\ Len(handled) <= sent /\ Gone <= sent
    BY Script DEF InOrder, Gone
<1> DEFINE p == acc \o stream
<1>3. p \in Seq(Byte)
    BY Script, ConcatProperties
<1>4. CASE Send
    <2>1. /\ sent < Len(script) /\ sent' = sent + 1 /\ UNCHANGED <<script, handled, acc>> /\ Gone' = Gone
          /\ stream' = stream \o Framed(script[sent + 1])
        BY <1>4 DEF Send, Gone
    <2>2. script[sent + 1] \in Seq(Byte) /\ Len(script[sent + 1]) < Base * Base * Base * Base
        <3>1. sent + 1 \in 1..Len(script)
            BY <2>1, Script
        <3> QED
            BY <3>1, Script
    <2>3. acc \o (stream \o Framed(script[sent + 1])) = p \o Framed(script[sent + 1])
        <3>1. Framed(script[sent + 1]) \in Seq(Byte)
            BY <2>2, FramedType
        <3> QED
            BY <3>1, Script, JoinAssociative, Zenon
    <2>4. \E b : Frames(script, Gone, sent + 1, p \o Framed(script[sent + 1]), b)
        <3> HIDE DEF p
        <3>1. sent \in Nat
            BY Script
        <3> QED
            BY <3>1, <1>1, <1>2, <1>3, <2>1, <2>2, Script, FrameAdded DEF p
    <2>5. \E b : Frames(script', Gone', sent', acc' \o stream', b)
        BY <2>1, <2>3, <2>4, Zenon
    <2>6. Len(handled') <= sent'
        BY <2>1, <1>2, Script
    <2> QED
        BY <2>1, <2>5, <2>6, <1>2 DEF InOrder
<1>5. CASE Recv
    <2>1. PICK n \in 1..Room : /\ n <= Len(stream)
                              /\ acc' = acc \o SubSeq(stream, 1, n)
                              /\ stream' = SubSeq(stream, n + 1, Len(stream))
        BY <1>5 DEF Recv
    <2>2. n \in 1..Len(stream)
        BY <2>1, SizesAssumption DEF Room, LinkInv, TypeOK
    <2>3. acc' \o stream' = p
        BY <2>1, <2>2, SplitJoin, Script
    <2>4. UNCHANGED <<script, sent, handled>> /\ Gone' = Gone
        BY <1>5 DEF Recv, Gone
    <2> QED
        BY <2>3, <2>4, <1>1, <1>2 DEF InOrder
<1>6. CASE DispatchPacket
    <2>1. Len(handled) < sent /\ handled' = Append(handled, script[Len(handled) + 1])
        BY <1>6, NextOfScript
    <2>2. script[Len(handled) + 1] \in Seq(Byte)
        BY <2>1, Script
    <2>3. Len(handled') = Len(handled) + 1
        BY <2>1, <2>2 DEF LinkInv, TypeOK
    <2>4. UNCHANGED <<script, sent, stream, acc>> /\ Gone' = Gone
        BY <1>6, <2>3, Script DEF DispatchPacket, Gone
    <2>5. Len(handled') <= sent'
        BY <2>1, <2>3, <2>4, Script
    <2> QED
        BY <2>4, <2>5, <1>1, <1>2 DEF InOrder
<1>8. CASE Answered
    <2> DEFINE m == script[Gone + 1]
               c == Prefix + Len(m)
               q == SubSeq(acc, c + 1, Len(acc)) \o stream
    <2>1. /\ pc = "send" /\ UNCHANGED <<script, sent, stream, handled>> /\ pc' = "frames"
          /\ acc' = SubSeq(acc, Consumed + 1, Len(acc))
        BY <1>8 DEF Answered
    <2>2. Gone = Len(handled) - 1 /\ Gone < sent /\ Gone' = Gone + 1
        BY <2>1, <1>2, Script DEF Gone
    <2>3. Len(acc) >= Prefix /\ Len(acc) >= Prefix + MsgLen(acc)
        BY <2>1 DEF LinkInv, Answering, Complete
    <2>4. MsgLen(acc) = Len(m)
        BY <1>1, <1>2, <2>3, Script, FrameFirst
    <2>5. acc' = SubSeq(acc, c + 1, Len(acc))
        BY <2>1, <2>4 DEF Consumed
    <2>6. m \in Seq(Byte)
        BY <2>2, <1>2, Script
    <2>7. c \in 1..Len(acc)
        BY <2>3, <2>4, <2>6, Script DEF Prefix
    <2>8. q \in Seq(Byte) /\ Rest(q, p, c)
        BY <2>7, RestStays, Script
    <2>9. \E b : Frames(script, Gone + 1, sent, q, b)
        <3> HIDE DEF p, q
        <3> QED
            BY <1>1, <1>2, <1>3, <2>2, <2>8, Script, FrameRemoved DEF p
    <2>10. \E b : Frames(script', Gone', sent', acc' \o stream', b)
        BY <2>1, <2>2, <2>5, <2>9, Zenon
    <2>11. Gone' \in Nat /\ Len(handled') <= sent'
        BY <2>1, <2>2, <1>2
    <2> QED
        BY <2>10, <2>11 DEF InOrder
<1>7. CASE While \/ WaitForMore \/ Refuse \/ RecvEnds \/ Stop \/ UNCHANGED vars
    <2>1. UNCHANGED <<script, sent, handled, acc, stream>> /\ Gone' = Gone
        BY <1>7 DEF While, WaitForMore, Refuse, RecvEnds, Stop, vars, Gone
    <2> QED
        BY <2>1, <1>1, <1>2 DEF InOrder
<1> QED
    BY <1>4, <1>5, <1>6, <1>7, <1>8 DEF Next, Loop

LEMMA OrderInv == Spec => [](LinkInv /\ InOrder)
<1>1. Init => InOrder
    <2> SUFFICES ASSUME Init PROVE InOrder
        OBVIOUS
    <2> DEFINE at == [i \in 0..0 |-> 0]
    <2>1. Frames(script, 0, 0, <<>>, at)
        BY DEF Frames
    <2>2. /\ sent = 0 /\ handled = <<>> /\ acc \o stream = <<>> /\ Len(handled) = 0 /\ Gone = 0
        BY DEF Init, Gone
    <2> QED
        BY <2>1, <2>2 DEF InOrder
<1> QED
    BY <1>1, StepInOrder, LinkInvariant, PTL DEF Spec

\* The thread dispatches the controller's messages whole, in order, none twice and
\* none skipped, however recv() cuts the bytes: it does what MatterSession promises.
THEOREM MessagesReassembled == Spec => Reassembles
<1>1. Init => handled = <<>> /\ (pc # "done") = TRUE
    BY DEF Init
<1>2. LinkInv /\ InOrder /\ [Next]_vars => [Session!Next]_(Session!vars)
    <2> SUFFICES ASSUME LinkInv, InOrder, [Next]_vars PROVE [Session!Next]_(Session!vars)
        OBVIOUS
    <2> DEFINE todo(s, h) == SubSeq(s, Len(h) + 1, Len(s))
    <2>1. CASE DispatchPacket
        <3> DEFINE n == Len(handled) + 1
        <3>1. Len(handled) < sent /\ handled' = Append(handled, script[n])
            BY <2>1, NextOfScript
        <3>2. script' = script /\ pc' = "send" /\ pc = "frames"
            BY <2>1 DEF DispatchPacket
        <3>3. /\ Len(handled') = n /\ n \in 1..Len(script) /\ n \in Nat
            BY <3>1, Script DEF LinkInv, TypeOK
        <3>4. /\ Head(todo(script, handled)) = script[n]
              /\ Tail(todo(script, handled)) = SubSeq(script, n + 1, Len(script))
            BY <3>3, Script, HeadTailOfSubSeq
        <3>5. todo(script, handled) # <<>>
            <4>1. Len(SubSeq(script, n, Len(script))) = Len(script) - n + 1
                BY <3>3, Script
            <4>2. Len(SubSeq(script, n, Len(script))) # 0
                BY <4>1, <3>3, Script
            <4>3. SubSeq(script, n, Len(script)) = <<>> => Len(SubSeq(script, n, Len(script))) = 0
                BY EmptySeq
            <4> QED
                BY <4>2, <4>3
        <3>6. todo(script', handled') = SubSeq(script, n + 1, Len(script))
            BY <3>2, <3>3
        <3>7. Session!Dispatch
            BY <3>1, <3>2, <3>4, <3>5, <3>6, Zenon DEF Session!Dispatch
        <3> QED
            BY <3>7 DEF Session!Next
    <2>2. CASE UNCHANGED <<script, handled>>
        <3>1. CASE pc' = pc
            BY <2>2, <3>1 DEF Session!vars
        <3>2. CASE pc' # pc
            <4>1. pc # "done"
                BY <3>2 DEF Next, Loop, While, Recv, WaitForMore, Refuse, DispatchPacket, Answered, Send, RecvEnds,
                   Stop, vars
            <4>2. CASE pc' = "done"
                BY <2>2, <4>1, <4>2 DEF Session!Next, Session!Close
            <4>3. CASE pc' # "done"
                BY <2>2, <4>1, <4>3 DEF Session!vars
            <4> QED
                BY <4>2, <4>3
        <3> QED
            BY <3>1, <3>2
    <2> QED
        BY <2>1, <2>2 DEF Next, Loop, While, Recv, WaitForMore, Refuse, Answered, Send, RecvEnds, Stop, vars
<1> QED
    BY <1>1, <1>2, OrderInv, PTL DEF Spec, Reassembles, Session!Spec
=============================================================================
