---------------------------- MODULE StreamProofs ----------------------------
(* The safety properties of a stream transport, for every size of header,   *)
(* buffer, socket and payload and any number of messages.  What is proved   *)
(* about the bytes alone comes first, with the messages as parameters, then *)
(* the inductive invariant IInv, a lemma for each action, and the theorems. *)
EXTENDS Stream, SequenceTheorems, TLAPS

\* <<i, j>> is the j-th byte of message i.
Byte == Nat \X Nat

\* The length of message i, header included.
Full(msgs, i) == HeaderSize + msgs[i].size

\* rest is made of bytes of msgs, and it does not hold the last byte of a
\* message after w, those sent to the end.
Known(rest, msgs, w) ==
  \A j \in 1 .. Len(rest) :
    /\ rest[j][1] \in 1 .. Len(msgs)
    /\ rest[j][2] \in 1 .. Full(msgs, rest[j][1])
    /\ rest[j][1] > w => rest[j][2] < Full(msgs, rest[j][1])

\* Two bytes of a message are as far apart in rest as in the message.  (The
\* step to the next byte would do, but going from the first byte to the last
\* then needs an induction.)
WithinMessage(rest, msgs) ==
  \A j \in 1 .. Len(rest), k \in Nat :
    j + k <= Len(rest) /\ rest[j][2] + k <= Full(msgs, rest[j][1])
      => rest[j + k] = <<rest[j][1], rest[j][2] + k>>

\* The last byte of a message is followed by the first of the next.
AcrossMessages(rest, msgs) ==
  \A j \in 1 .. (Len(rest) - 1) :
    rest[j][2] = Full(msgs, rest[j][1]) => rest[j + 1] = <<rest[j][1] + 1, 1>>

\* rest starts where message i starts.
StartsAt(rest, i) == rest # <<>> => rest[1] = <<i, 1>>

\* rest goes to the end of message w or into the one after it.
EndsAt(rest, msgs, w, taken) ==
  IF rest = <<>> THEN taken = w
  ELSE \/ rest[Len(rest)] = <<w, Full(msgs, w)>>
       \/ rest[Len(rest)][1] = w + 1

\* rest is what is left of the stream when the first messages are taken out.
Unbroken(rest, msgs, w, taken) ==
  /\ Known(rest, msgs, w)
  /\ WithinMessage(rest, msgs)
  /\ AcrossMessages(rest, msgs)
  /\ StartsAt(rest, taken + 1)
  /\ EndsAt(rest, msgs, w, taken)

\* A message is longer than its header.
LEMMA MessageSize ==
  ASSUME NEW msgs \in Seq(Messages), NEW i \in 1 .. Len(msgs)
  PROVE  /\ Full(msgs, i) \in Nat
         /\ Full(msgs, i) > HeaderSize
         /\ HeaderSize \in Nat /\ HeaderSize > 0
<1>1. msgs[i] \in Messages
  BY ElementOfSeq
<1>2. msgs[i].size \in Nat /\ msgs[i].size > 0
  <2>1. msgs[i].size \in Sizes
    BY <1>1 DEF Messages
  <2>2. \A s \in Sizes : s \in Nat /\ s > 0
    BY StreamAssumption DEF StreamAssumption
  <2> QED  BY <2>1, <2>2
<1>3. HeaderSize \in Nat /\ HeaderSize > 0
  BY StreamAssumption DEF StreamAssumption
<1> QED  BY <1>2, <1>3 DEF Full

\* Concatenation of bytes is associative.
LEMMA BytesAssociative ==
  ASSUME NEW b \in Seq(Byte), NEW v \in Seq(Byte), NEW u \in Seq(Byte)
  PROVE  b \o (v \o u) = (b \o v) \o u
BY ConcatAssociative

\* A read that moves bytes from the socket to the end of the input buffer
\* leaves the two together as they were.
LEMMA ReadKeepsRest ==
  ASSUME NEW b \in Seq(Byte), NEW w \in Seq(Byte), NEW n \in 0 .. Len(w)
  PROVE  /\ SubSeq(w, 1, n) \in Seq(Byte)
         /\ Len(SubSeq(w, 1, n)) = n
         /\ SubSeq(w, n + 1, Len(w)) \in Seq(Byte)
         /\ Len(SubSeq(w, n + 1, Len(w))) = Len(w) - n
         /\ (b \o SubSeq(w, 1, n)) \o SubSeq(w, n + 1, Len(w)) = b \o w
<1>1. /\ SubSeq(w, 1, n) \in Seq(Byte)
      /\ Len(SubSeq(w, 1, n)) = n
  BY SubSeqProperties, ElementOfSeq
<1>2. /\ SubSeq(w, n + 1, Len(w)) \in Seq(Byte)
      /\ Len(SubSeq(w, n + 1, Len(w))) = Len(w) - n
  BY SubSeqProperties, ElementOfSeq
<1>3. SubSeq(w, 1, n) \o SubSeq(w, n + 1, Len(w)) = SubSeq(w, 1, Len(w))
  <2>1. 1 \in 1 .. Len(w) + 1 /\ n \in 1 - 1 .. Len(w) /\ Len(w) \in n .. Len(w)
    BY LenProperties
  <2> QED  BY <2>1, ConcatAdjacentSubSeq
<1>4. SubSeq(w, 1, n) \o SubSeq(w, n + 1, Len(w)) = w
  BY <1>3, SubSeqFull
<1>5. (b \o SubSeq(w, 1, n)) \o SubSeq(w, n + 1, Len(w))
        = b \o (SubSeq(w, 1, n) \o SubSeq(w, n + 1, Len(w)))
  <2> DEFINE s1 == SubSeq(w, 1, n)
             s2 == SubSeq(w, n + 1, Len(w))
  <2> HIDE DEF s1, s2
  <2>1. s1 \in Seq(Byte) /\ s2 \in Seq(Byte)
    BY <1>1, <1>2 DEF s1, s2
  <2>2. (b \o s1) \o s2 = b \o (s1 \o s2)
    BY <2>1, ConcatAssociative
  <2> QED  BY <2>2 DEF s1, s2
<1> QED  BY <1>1, <1>2, <1>4, <1>5

\* What is cut off the start of the input buffer is cut off the stream.
LEMMA TakeFromBuffer ==
  ASSUME NEW b \in Seq(Byte), NEW w \in Seq(Byte), NEW n \in 0 .. Len(b)
  PROVE  /\ SubSeq(b, n + 1, Len(b)) \in Seq(Byte)
         /\ Len(SubSeq(b, n + 1, Len(b))) = Len(b) - n
         /\ SubSeq(b, n + 1, Len(b)) \o w = SubSeq(b \o w, n + 1, Len(b \o w))
<1>1. /\ SubSeq(b, n + 1, Len(b)) \in Seq(Byte)
      /\ Len(SubSeq(b, n + 1, Len(b))) = Len(b) - n
      /\ \A i \in 1 .. Len(b) - n : SubSeq(b, n + 1, Len(b))[i] = b[n + i]
  BY SubSeqProperties, ElementOfSeq
<1> DEFINE c == b \o w
<1>2. /\ c \in Seq(Byte)
      /\ Len(c) = Len(b) + Len(w)
      /\ \A i \in 1 .. Len(c) : c[i] = IF i <= Len(b) THEN b[i] ELSE w[i - Len(b)]
  BY ConcatProperties
<1>3. /\ SubSeq(c, n + 1, Len(c)) \in Seq(Byte)
      /\ Len(SubSeq(c, n + 1, Len(c))) = Len(c) - n
      /\ \A i \in 1 .. Len(c) - n : SubSeq(c, n + 1, Len(c))[i] = c[n + i]
  <2> HIDE DEF c
  <2> QED  BY <1>2, SubSeqProperties, ElementOfSeq
<1> DEFINE d == SubSeq(b, n + 1, Len(b))
<1>4. /\ d \o w \in Seq(Byte)
      /\ Len(d \o w) = Len(d) + Len(w)
      /\ \A i \in 1 .. Len(d \o w) : (d \o w)[i] = IF i <= Len(d) THEN d[i] ELSE w[i - Len(d)]
  <2> HIDE DEF d
  <2> QED  BY <1>1, ConcatProperties DEF d
<1> DEFINE e == SubSeq(c, n + 1, Len(c))
<1>5. \A i \in 1 .. Len(d \o w) : (d \o w)[i] = e[i]
  <2> HIDE DEF c
  <2> QED  BY SMTT(40), <1>1, <1>2, <1>3, <1>4
<1>6. d \o w = e
  <2>1. e \in Seq(Byte) /\ d \o w \in Seq(Byte) /\ Len(d \o w) = Len(e)
    <3> HIDE DEF c
    <3> QED  BY <1>1, <1>2, <1>3, <1>4
  <2>2. \A i \in 1 .. Len(d \o w) : (d \o w)[i] = e[i]
    BY <1>5
  <2> DEFINE dw == d \o w
  <2> HIDE DEF dw, e
  <2> QED  BY <2>1, <2>2, SeqEqual DEF dw
<1> QED  BY <1>1, <1>6

\* A message sent after whole ones, to the end or in part, extends the stream
\* without a gap.
LEMMA UnbrokenSend ==
  ASSUME NEW msgs \in Seq(Messages), NEW rest \in Seq(Byte), NEW taken \in Nat,
         NEW m \in Messages, NEW n \in 0 .. (HeaderSize + m.size),
         Unbroken(rest, msgs, Len(msgs), taken)
  PROVE  Unbroken(rest \o SubSeq(Bytes(Len(msgs) + 1, m.size), 1, n),
                  Append(msgs, m),
                  IF n = HeaderSize + m.size THEN Len(msgs) + 1 ELSE Len(msgs),
                  taken)
<1> DEFINE all == HeaderSize + m.size
           chunk == SubSeq(Bytes(Len(msgs) + 1, m.size), 1, n)
           new == rest \o chunk
           more == Append(msgs, m)
           i0 == Len(msgs) + 1
           w == IF n = all THEN i0 ELSE Len(msgs)
<1>1. /\ all \in Nat /\ all > 0
      /\ Len(msgs) \in Nat /\ Len(rest) \in Nat
  <2>1. m.size \in Nat /\ m.size > 0
    <3>1. m.size \in Sizes
      BY DEF Messages
    <3>2. \A s \in Sizes : s \in Nat /\ s > 0
      BY StreamAssumption DEF StreamAssumption
    <3> QED  BY <3>1, <3>2
  <2>2. HeaderSize \in Nat /\ HeaderSize > 0
    BY StreamAssumption DEF StreamAssumption
  <2> QED  BY <2>1, <2>2
<1>2. /\ Len(more) = i0
      /\ Full(more, i0) = all
      /\ \A i \in 1 .. Len(msgs) : Full(more, i) = Full(msgs, i)
  BY DEF Full
<1>3. /\ chunk \in Seq(Byte)
      /\ Len(chunk) = n
      /\ \A j \in 1 .. n : chunk[j] = <<i0, j>>
  <2>1. \A j \in 1 .. n : Bytes(i0, m.size)[j] = <<i0, j>>
    BY <1>1 DEF Bytes
  <2>2. \A j \in 1 .. n : Bytes(i0, m.size)[j] \in Byte
    <3> HIDE DEF i0
    <3>1. i0 \in Nat BY <1>1 DEF i0
    <3>2. \A j \in 1 .. n : j \in Nat
      BY <1>1
    <3> SUFFICES ASSUME NEW j \in 1 .. n PROVE Bytes(i0, m.size)[j] \in Byte
      OBVIOUS
    <3>3. <<i0, j>> \in Byte
      BY <3>1, <3>2 DEF Byte
    <3> QED  BY <2>1, <3>3
  <2> QED  BY <1>1, <2>1, <2>2, SubSeqProperties
<1>4. /\ new \in Seq(Byte)
      /\ Len(new) = Len(rest) + n
      /\ \A j \in 1 .. Len(rest) : new[j] = rest[j]
      /\ \A j \in 1 .. Len(new) : j > Len(rest) => new[j] = <<i0, j - Len(rest)>>
  <2> HIDE DEF chunk
  <2>1. /\ new \in Seq(Byte)
        /\ Len(new) = Len(rest) + n
        /\ \A j \in 1 .. Len(rest) + n :
             new[j] = IF j <= Len(rest) THEN rest[j] ELSE chunk[j - Len(rest)]
    BY <1>3, ConcatProperties
  <2> QED  BY <1>1, <1>3, <2>1
<1> HIDE DEF new, chunk, more, i0, all
<1>i. i0 = Len(msgs) + 1 BY DEF i0
<1>5. /\ Known(rest, msgs, Len(msgs))
      /\ WithinMessage(rest, msgs)
      /\ AcrossMessages(rest, msgs)
      /\ StartsAt(rest, taken + 1)
      /\ EndsAt(rest, msgs, Len(msgs), taken)
      /\ rest # <<>> => rest[Len(rest)] = <<Len(msgs), Full(msgs, Len(msgs))>>
  <2>1. rest # <<>> => rest[Len(rest)][1] \in 1 .. Len(msgs)
    BY <1>1, EmptySeq DEF Unbroken, Known
  <2> QED  BY <1>1, <2>1 DEF Unbroken, EndsAt
<1>6. Known(new, more, w)
  <2> SUFFICES ASSUME NEW j \in 1 .. Len(new)
               PROVE  /\ new[j][1] \in 1 .. Len(more)
                      /\ new[j][2] \in 1 .. Full(more, new[j][1])
                      /\ new[j][1] > w => new[j][2] < Full(more, new[j][1])
    BY DEF Known
  <2>1. CASE j <= Len(rest)
    <3>1. j \in 1 .. Len(rest) /\ new[j] = rest[j]
      BY <1>1, <1>4, <2>1
    <3>2. /\ rest[j][1] \in 1 .. Len(msgs)
          /\ rest[j][2] \in 1 .. Full(msgs, rest[j][1])
      BY <1>5, <3>1 DEF Known
    <3>3. Full(more, rest[j][1]) = Full(msgs, rest[j][1])
      BY <1>2, <3>2
    <3>4. rest[j][1] \in 1 .. Len(more) /\ ~(rest[j][1] > w)
      BY <1>1, <1>2, <1>i, <3>2
    <3> QED  BY <3>1, <3>2, <3>3, <3>4
  <2>2. CASE j > Len(rest)
    BY <1>1, <1>2, <1>4, <1>i, <2>2 DEF all
  <2> QED  BY <1>1, <2>1, <2>2
<1>7. WithinMessage(new, more)
  <2> SUFFICES ASSUME NEW j \in 1 .. Len(new), NEW k \in Nat,
                      j + k <= Len(new), new[j][2] + k <= Full(more, new[j][1])
               PROVE  new[j + k] = <<new[j][1], new[j][2] + k>>
    BY DEF WithinMessage
  <2>1. CASE j + k <= Len(rest)
    <3>1. /\ j \in 1 .. Len(rest) /\ new[j] = rest[j] /\ new[j + k] = rest[j + k]
          /\ Full(more, new[j][1]) = Full(msgs, rest[j][1])
      BY <1>1, <1>2, <1>4, <1>5, <2>1 DEF Known
    <3> QED  BY <1>5, <2>1, <3>1 DEF WithinMessage
  <2>2. CASE j <= Len(rest) /\ j + k > Len(rest)
    <3>1. /\ j \in 1 .. Len(rest) /\ new[j] = rest[j]
          /\ Full(more, new[j][1]) = Full(msgs, rest[j][1])
          /\ Full(msgs, rest[j][1]) \in Nat /\ rest[j][2] \in Nat
      <4>1. j \in 1 .. Len(rest) /\ new[j] = rest[j]
        BY <1>1, <1>4, <2>2
      <4>2. /\ rest[j][1] \in 1 .. Len(msgs)
            /\ rest[j][2] \in 1 .. Full(msgs, rest[j][1])
        BY <1>5, <4>1 DEF Known
      <4>3. Full(more, rest[j][1]) = Full(msgs, rest[j][1])
        BY <1>2, <4>2
      <4>4. Full(msgs, rest[j][1]) \in Nat
        BY <4>2, MessageSize
      <4> QED  BY <4>1, <4>2, <4>3, <4>4
    <3>2. PICK g \in Nat : j + g = Len(rest) /\ g < k
      <4>1. Len(rest) - j \in Nat /\ j + (Len(rest) - j) = Len(rest) /\ Len(rest) - j < k
        BY <1>1, <2>2
      <4> QED  BY <4>1
    <3>3. new[j][2] + g < new[j][2] + k /\ rest[j][2] + g < Full(msgs, rest[j][1])
      <4> DEFINE a == rest[j][2]
                 f == Full(msgs, rest[j][1])
      <4>1. a \in Nat /\ f \in Nat /\ a + k <= f /\ new[j][2] = a
        BY <3>1
      <4> HIDE DEF a, f
      <4>2. a + g < a + k /\ a + g < f
        BY <3>2, <4>1
      <4> QED  BY <4>1, <4>2 DEF a, f
    <3>4. rest[Len(rest)] = <<rest[j][1], rest[j][2] + g>>
      <4>1. j + g <= Len(rest) /\ rest[j][2] + g <= Full(msgs, rest[j][1])
        BY <1>1, <3>1, <3>2, <3>3
      <4>2. rest[j + g] = <<rest[j][1], rest[j][2] + g>>
        BY <1>5, <3>1, <4>1 DEF WithinMessage
      <4> QED  BY <3>2, <4>2
    <3>5. rest[Len(rest)] = <<Len(msgs), Full(msgs, Len(msgs))>>
      BY <1>1, <1>5, <3>1, EmptySeq
    <3>6. rest[j][1] = Len(msgs) /\ rest[j][2] + g = Full(msgs, Len(msgs))
      BY <3>4, <3>5
    <3> QED  BY <3>1, <3>3, <3>6
  <2>3. CASE j > Len(rest)
    BY <1>1, <1>4, <2>3
  <2> QED  BY <1>1, <2>1, <2>2, <2>3
<1>8. AcrossMessages(new, more)
  <2> SUFFICES ASSUME NEW j \in 1 .. (Len(new) - 1),
                      new[j][2] = Full(more, new[j][1])
               PROVE  new[j + 1] = <<new[j][1] + 1, 1>>
    BY DEF AcrossMessages
  <2>1. CASE j < Len(rest)
    <3>1. /\ j \in 1 .. (Len(rest) - 1) /\ new[j] = rest[j] /\ new[j + 1] = rest[j + 1]
          /\ Full(more, new[j][1]) = Full(msgs, rest[j][1])
      BY <1>1, <1>2, <1>4, <1>5, <2>1 DEF Known
    <3> QED  BY <1>5, <3>1 DEF AcrossMessages
  <2>2. CASE j = Len(rest)
    <3>1. new[j] = <<Len(msgs), Full(msgs, Len(msgs))>>
      BY <1>1, <1>4, <1>5, <2>2, EmptySeq
    <3>2. j + 1 > Len(rest) /\ j + 1 \in 1 .. Len(new) /\ (j + 1) - Len(rest) = 1
      BY <1>1, <1>4, <2>2
    <3>3. new[j + 1] = <<i0, 1>>
      BY <1>4, <3>2
    <3> QED  BY <1>i, <3>1, <3>3
  <2>3. CASE j > Len(rest)
    BY <1>1, <1>2, <1>4, <2>3 DEF all
  <2> QED  BY <1>1, <1>4, <2>1, <2>2, <2>3
<1>9. StartsAt(new, taken + 1)
  <2> SUFFICES ASSUME new # <<>> PROVE new[1] = <<taken + 1, 1>>
    BY DEF StartsAt
  <2>1. CASE rest = <<>>
    BY <1>1, <1>4, <1>5, <1>i, <2>1, EmptySeq DEF EndsAt
  <2>2. CASE rest # <<>>
    BY <1>1, <1>4, <1>5, <2>2, EmptySeq DEF StartsAt
  <2> QED  BY <2>1, <2>2
<1>10. EndsAt(new, more, w, taken)
  <2>1. CASE n = 0
    <3>1. w = Len(msgs) /\ Len(new) = Len(rest)
      BY <1>1, <1>4, <2>1
    <3>2. CASE rest = <<>>
      <4>1. new = <<>>
        BY <1>4, <3>1, <3>2, EmptySeq
      <4> QED  BY <1>5, <3>1, <3>2, <4>1 DEF EndsAt
    <3>3. CASE rest # <<>>
      <4>1. Len(rest) \in 1 .. Len(rest) /\ new # <<>>
        BY <1>4, <3>1, <3>3, EmptySeq
      <4>2. new[Len(new)] = <<Len(msgs), Full(msgs, Len(msgs))>>
        BY <1>4, <1>5, <3>1, <3>3, <4>1
      <4>3. Len(msgs) \in 1 .. Len(msgs)
        BY <1>5, <3>3, <4>1 DEF Known
      <4> QED  BY <1>2, <3>1, <4>1, <4>2, <4>3 DEF EndsAt
    <3> QED  BY <3>2, <3>3
  <2>2. CASE n > 0
    <3>1. new # <<>> /\ new[Len(new)] = <<i0, n>>
      BY <1>1, <1>4, <2>2, EmptySeq
    <3> QED  BY <1>1, <1>2, <1>i, <3>1 DEF EndsAt
  <2> QED  BY <1>1, <2>1, <2>2
<1> QED  BY <1>6, <1>7, <1>8, <1>9, <1>10 DEF Unbroken, new, chunk, more, i0, all

\* When the stream is as long as the message it starts with, that message was
\* sent to the end, and without it what is left starts with the next one.
LEMMA UnbrokenTake ==
  ASSUME NEW msgs \in Seq(Messages), NEW rest \in Seq(Byte), NEW taken \in Nat,
         NEW w \in Nat, w <= Len(msgs), rest # <<>>,
         Unbroken(rest, msgs, w, taken),
         Full(msgs, taken + 1) <= Len(rest)
  PROVE  /\ taken + 1 <= w
         /\ Full(msgs, taken + 1) \in Nat /\ Full(msgs, taken + 1) > 0
         /\ Unbroken(SubSeq(rest, Full(msgs, taken + 1) + 1, Len(rest)),
                     msgs, w, taken + 1)
<1> DEFINE full == Full(msgs, taken + 1)
           left == SubSeq(rest, full + 1, Len(rest))
<1>1. /\ Known(rest, msgs, w)
      /\ WithinMessage(rest, msgs)
      /\ AcrossMessages(rest, msgs)
      /\ StartsAt(rest, taken + 1)
      /\ EndsAt(rest, msgs, w, taken)
  BY DEF Unbroken
<1>2. Len(rest) \in Nat /\ Len(rest) > 0 /\ Len(msgs) \in Nat
  BY EmptySeq
<1>3. rest[1] = <<taken + 1, 1>>
  BY <1>1 DEF StartsAt
<1>4. taken + 1 \in 1 .. Len(msgs)
  BY <1>1, <1>2, <1>3 DEF Known
<1>5. full \in Nat /\ full > 0 /\ full <= Len(rest)
  BY <1>4, MessageSize
<1> HIDE DEF full
<1>6. rest[full] = <<taken + 1, full>>
  <2>1. full - 1 \in Nat /\ 1 + (full - 1) = full /\ 1 \in 1 .. Len(rest)
    BY <1>2, <1>5
  <2>2. rest[1][2] + (full - 1) <= Full(msgs, rest[1][1])
    BY <1>3, <1>5 DEF full
  <2>3. rest[1 + (full - 1)] = <<rest[1][1], rest[1][2] + (full - 1)>>
    BY <1>1, <1>5, <2>1, <2>2 DEF WithinMessage
  <2> QED  BY <1>3, <1>5, <2>1, <2>3
<1>7. taken + 1 <= w
  <2>1. rest[full][1] > w => rest[full][2] < Full(msgs, rest[full][1])
    BY <1>1, <1>2, <1>5 DEF Known
  <2> QED  BY <1>5, <1>6, <2>1 DEF full
<1>8. /\ left \in Seq(Byte)
      /\ Len(left) = Len(rest) - full
      /\ \A j \in 1 .. Len(left) : left[j] = rest[full + j]
  <2>1. full + 1 \in Int /\ Len(rest) \in Int
    BY <1>2, <1>5
  <2>2. \A j \in full + 1 .. Len(rest) : rest[j] \in Byte
    BY <1>5, ElementOfSeq
  <2>3. /\ left \in Seq(Byte)
        /\ Len(left) = IF full + 1 <= Len(rest) THEN Len(rest) - (full + 1) + 1 ELSE 0
        /\ \A j \in 1 .. Len(rest) - (full + 1) + 1 : left[j] = rest[(full + 1) + j - 1]
    BY <2>1, <2>2, SubSeqProperties
  <2>4. Len(left) = Len(rest) - full
    BY <1>2, <1>5, <2>3
  <2>5. ASSUME NEW j \in 1 .. Len(left) PROVE left[j] = rest[full + j]
    <3>1. j \in 1 .. Len(rest) - (full + 1) + 1 /\ (full + 1) + j - 1 = full + j
      BY <1>2, <1>5, <2>4
    <3> QED  BY <2>3, <3>1
  <2> QED  BY <2>3, <2>4, <2>5
<1> HIDE DEF left
<1>9. Known(left, msgs, w)
  <2> SUFFICES ASSUME NEW j \in 1 .. Len(left)
               PROVE  /\ left[j][1] \in 1 .. Len(msgs)
                      /\ left[j][2] \in 1 .. Full(msgs, left[j][1])
                      /\ left[j][1] > w => left[j][2] < Full(msgs, left[j][1])
    BY DEF Known
  <2>1. full + j \in 1 .. Len(rest) /\ left[j] = rest[full + j]
    BY <1>2, <1>5, <1>8
  <2> QED  BY <1>1, <2>1 DEF Known
<1>10. WithinMessage(left, msgs)
  <2> SUFFICES ASSUME NEW j \in 1 .. Len(left), NEW k \in Nat,
                      j + k <= Len(left), left[j][2] + k <= Full(msgs, left[j][1])
               PROVE  left[j + k] = <<left[j][1], left[j][2] + k>>
    BY DEF WithinMessage
  <2>1. /\ full + j \in 1 .. Len(rest) /\ left[j] = rest[full + j]
        /\ (full + j) + k <= Len(rest) /\ left[j + k] = rest[full + (j + k)]
        /\ full + (j + k) = (full + j) + k
    BY <1>2, <1>5, <1>8
  <2> QED  BY <1>1, <2>1 DEF WithinMessage
<1>11. AcrossMessages(left, msgs)
  <2> SUFFICES ASSUME NEW j \in 1 .. (Len(left) - 1),
                      left[j][2] = Full(msgs, left[j][1])
               PROVE  left[j + 1] = <<left[j][1] + 1, 1>>
    BY DEF AcrossMessages
  <2>1. /\ j \in 1 .. Len(left) /\ j + 1 \in 1 .. Len(left)
        /\ full + j \in 1 .. (Len(rest) - 1)
    BY <1>2, <1>5, <1>8
  <2>2. left[j] = rest[full + j] /\ left[j + 1] = rest[full + (j + 1)]
    BY <1>8, <2>1
  <2>3. full + (j + 1) = (full + j) + 1
    BY <1>5, <2>1
  <2>4. rest[full + j][2] = Full(msgs, rest[full + j][1])
    BY <2>2
  <2>5. rest[(full + j) + 1] = <<rest[full + j][1] + 1, 1>>
    BY <1>1, <2>1, <2>4 DEF AcrossMessages
  <2> QED  BY <2>2, <2>3, <2>5
<1>12. StartsAt(left, (taken + 1) + 1)
  <2> SUFFICES ASSUME left # <<>> PROVE left[1] = <<(taken + 1) + 1, 1>>
    BY DEF StartsAt
  <2>1. /\ 1 \in 1 .. Len(left) /\ full \in 1 .. (Len(rest) - 1)
    BY <1>2, <1>5, <1>8, EmptySeq
  <2>2. left[1] = rest[full + 1]
    BY <1>8, <2>1
  <2> QED  BY <1>1, <1>6, <2>1, <2>2 DEF AcrossMessages, full
<1>13. EndsAt(left, msgs, w, taken + 1)
  <2>1. \/ rest[Len(rest)] = <<w, Full(msgs, w)>>
        \/ rest[Len(rest)][1] = w + 1
    BY <1>1 DEF EndsAt
  <2>2. CASE left = <<>>
    <3>1. Len(rest) = full
      BY <1>2, <1>5, <1>8, <2>2, EmptySeq
    <3>2. taken + 1 = w
      BY <1>6, <1>7, <2>1, <3>1
    <3> QED  BY <2>2, <3>2 DEF EndsAt
  <2>3. CASE left # <<>>
    <3>1. Len(left) \in 1 .. Len(left) /\ full + Len(left) = Len(rest)
      BY <1>2, <1>5, <1>8, <2>3, EmptySeq
    <3> QED  BY <1>8, <2>1, <2>3, <3>1 DEF EndsAt
  <2> QED  BY <2>2, <2>3
<1>14. Unbroken(left, msgs, w, taken + 1)
  BY <1>9, <1>10, <1>11, <1>12, <1>13 DEF Unbroken
<1> QED  BY <1>5, <1>7, <1>14 DEF left, full

\* strm_close drops the input buffer.
LEMMA KnownDrop ==
  ASSUME NEW b \in Seq(Byte), NEW v \in Seq(Byte), NEW msgs, NEW w,
         Known(b \o v, msgs, w)
  PROVE  Known(<<>> \o v, msgs, w)
<1>1. <<>> \o v = v
  BY ConcatEmptySeq
<1> SUFFICES ASSUME NEW j \in 1 .. Len(v)
             PROVE  /\ v[j][1] \in 1 .. Len(msgs)
                    /\ v[j][2] \in 1 .. Full(msgs, v[j][1])
                    /\ v[j][1] > w => v[j][2] < Full(msgs, v[j][1])
  BY <1>1 DEF Known
<1> DEFINE r == b \o v
<1>2. /\ Len(r) = Len(b) + Len(v)
      /\ \A i \in 1 .. Len(b) + Len(v) : r[i] = IF i <= Len(b) THEN b[i] ELSE v[i - Len(b)]
  BY ConcatProperties
<1> HIDE DEF r
<1>3. Known(r, msgs, w)
  BY DEF r
<1>4. Len(b) + j \in 1 .. Len(r) /\ r[Len(b) + j] = v[j]
  <2>1. Len(b) \in Nat /\ Len(v) \in Nat
    BY LenProperties
  <2> QED  BY <1>2, <2>1
<1> QED  BY <1>3, <1>4 DEF Known

-----------------------------------------------------------------------------
(* The inductive invariant.                                                 *)

\* The type of every variable, and busy, which is 1 just in the callbacks.
Values ==
  /\ sent \in Seq(Messages) /\ whole \in Nat /\ whole <= Len(sent)
  /\ wire \in Seq(Byte) /\ Len(wire) <= SocketSize
  /\ ibuf \in Seq(Byte) /\ isize \in Nat /\ Len(ibuf) <= isize
  /\ delivered \in Seq(Nat)
  /\ peerOpen \in BOOLEAN /\ connected \in BOOLEAN /\ destroyed \in BOOLEAN
  /\ freed \in BOOLEAN /\ watch \in BOOLEAN /\ shut \in BOOLEAN
  /\ hup \in BOOLEAN /\ got \in BOOLEAN
  /\ pc \in {"idle", "space", "read", "parse", "received", "closing", "broken"} \union Reasons
  /\ closed \in Reasons \union {"open"}
  /\ busy = IF pc \in {"received", "closing", "broken"} THEN 1 ELSE 0

\* What the flags of the transport say of each other and of where the receive
\* loop is: in particular that a destroyed transport is only found in a
\* callback or outside of the loop, and that its watch is gone.
Phases ==
  /\ freed <=> destroyed /\ pc = "idle"
  /\ destroyed => shut /\ ~watch /\ pc \in {"idle", "received", "closing"}
  /\ ~connected => ~watch
  /\ pc = "closing" => ~watch
  /\ closed # "open" => ~watch /\ pc \in {"idle", "closing"}
  /\ hup => ~peerOpen
  /\ peerOpen => whole = Len(sent)

\* What is in the input buffer and in the socket is the rest of the stream.
InOrder ==
  /\ Known(Rest, sent, whole)
  /\ ~destroyed => Unbroken(Rest, sent, whole, Taken)

\* The message being received is whole, and nothing is read before every whole
\* message is out of the input buffer: the loop enlarges the buffer enough.
Parsing ==
  /\ pc \in {"received", "broken"} => Len(delivered) > 0
  /\ pc = "received" /\ ~destroyed => Whole(ibuf)
  /\ ~destroyed /\ pc \in {"space", "read"} => ~Whole(ibuf)
  /\ pc = "idle" /\ watch => ~Whole(ibuf)

\* The messages given to the user are those sent, each once and in order.
Given ==
  \A k \in 1 .. Len(delivered) : delivered[k] = k /\ k <= whole /\ sent[k].good

\* What is known when the stream has ended, before the user is told and after.
Ends ==
  /\ pc = "hangup" \/ closed = "hangup" => ~peerOpen /\ Len(delivered) = whole
  /\ pc = "undecodable" \/ closed = "undecodable" =>
       Len(delivered) < whole /\ ~sent[Len(delivered) + 1].good

\* Every conjunct is needed for another one to be kept.
IInv == Values /\ Phases /\ InOrder /\ Parsing /\ Given /\ Ends

\* IInv holds when the transport has just been connected.
LEMMA InitInvariant == Init => IInv
<1> SUFFICES ASSUME Init PROVE IInv
  OBVIOUS
<1>1. Values
  <2>1. SocketSize \in Nat
    BY StreamAssumption DEF StreamAssumption
  <2>2. /\ <<>> \in Seq(Messages) /\ <<>> \in Seq(Byte) /\ <<>> \in Seq(Nat)
        /\ Len(<<>>) = 0
    OBVIOUS
  <2>3. busy = 0 /\ pc = "idle" /\ closed = "open"
    BY DEF Init
  <2>4. /\ sent \in Seq(Messages) /\ whole \in Nat /\ whole <= Len(sent)
        /\ wire \in Seq(Byte) /\ Len(wire) <= SocketSize
        /\ ibuf \in Seq(Byte) /\ isize \in Nat /\ Len(ibuf) <= isize
        /\ delivered \in Seq(Nat)
    BY <2>1, <2>2 DEF Init
  <2>5. /\ peerOpen \in BOOLEAN /\ connected \in BOOLEAN /\ destroyed \in BOOLEAN
        /\ freed \in BOOLEAN /\ watch \in BOOLEAN /\ shut \in BOOLEAN
        /\ hup \in BOOLEAN /\ got \in BOOLEAN
    BY DEF Init
  <2> QED  BY <2>3, <2>4, <2>5 DEF Values
<1>2. Phases
  BY DEF Init, Phases
<1>3. Rest = <<>> /\ Taken = 0
  <2>1. Rest = <<>>
    BY ConcatEmptySeq DEF Init, Rest
  <2>2. Taken = 0
    BY DEF Init, Taken
  <2> QED  BY <2>1, <2>2
<1>4. InOrder
  BY <1>3 DEF Init, InOrder, Unbroken, Known, WithinMessage, AcrossMessages, StartsAt, EndsAt
<1>5. Parsing
  BY StreamAssumption DEF Init, Parsing, Whole, StreamAssumption
<1>6. Given /\ Ends
  BY DEF Init, Given, Ends
<1> QED  BY <1>1, <1>2, <1>4, <1>5, <1>6 DEF IInv

\* The rest of the stream, byte by byte.
LEMMA RestValues ==
  ASSUME Values
  PROVE  /\ Rest \in Seq(Byte)
         /\ Len(Rest) = Len(ibuf) + Len(wire)
         /\ \A j \in 1 .. Len(ibuf) : Rest[j] = ibuf[j]
         /\ \A j \in 1 .. Len(wire) : Rest[Len(ibuf) + j] = wire[j]
<1>1. /\ Rest \in Seq(Byte)
      /\ Len(Rest) = Len(ibuf) + Len(wire)
      /\ \A j \in 1 .. Len(ibuf) + Len(wire) :
           Rest[j] = IF j <= Len(ibuf) THEN ibuf[j] ELSE wire[j - Len(ibuf)]
  BY ConcatProperties DEF Values, Rest
<1>2. Len(ibuf) \in Nat /\ Len(wire) \in Nat
  BY LenProperties DEF Values
<1> QED  BY <1>1, <1>2

\* Sending more does not change whether the input buffer starts with a whole
\* message.
LEMMA WholeKept ==
  ASSUME Values, Known(Rest, sent, whole), NEW m,
         ibuf' = ibuf, sent' = Append(sent, m)
  PROVE  Whole(ibuf)' = Whole(ibuf)
<1>1. HeaderSize \in Nat /\ HeaderSize > 0
  BY StreamAssumption DEF StreamAssumption
<1>2. CASE ibuf = <<>>
  BY <1>1, <1>2 DEF Whole
<1>3. CASE ibuf # <<>>
  <2>1. 1 \in 1 .. Len(ibuf) /\ 1 \in 1 .. Len(Rest) /\ Rest[1] = ibuf[1]
    BY <1>3, RestValues, EmptySeq, LenProperties DEF Values
  <2>2. ibuf[1][1] \in 1 .. Len(sent)
    BY <2>1 DEF Known
  <2>3. sent'[ibuf[1][1]] = sent[ibuf[1][1]]
    BY <2>2 DEF Values
  <2> QED  BY <2>3 DEF Whole, Header
<1> QED  BY <1>2, <1>3

\* The peer sends a message, or a part of one and closes.
LEMMA SendInvariant ==
  ASSUME IInv, NEW m \in Messages, NEW n \in 0 .. SocketSize, Send(m, n)
  PROVE  IInv'
<1> DEFINE all == HeaderSize + m.size
           chunk == SubSeq(Bytes(Len(sent) + 1, m.size), 1, n)
<1> USE DEF IInv
<1>1. /\ peerOpen /\ whole = Len(sent) /\ ~destroyed /\ ~hup
      /\ pc' = pc /\ ibuf' = ibuf /\ delivered' = delivered /\ destroyed' = destroyed
      /\ watch' = watch /\ closed' = closed
      /\ pc # "hangup" /\ closed # "hangup"
  BY DEF Send, Phases, Ends, transport, buffer, loop, history
<1>2. /\ m.size \in Nat /\ n \in Nat /\ HeaderSize \in Nat /\ n <= all
      /\ SocketSize \in Nat
  <2>1. m.size \in Sizes
    BY DEF Messages
  <2> QED  BY <2>1, StreamAssumption DEF StreamAssumption, Send
<1>3. /\ sent' = Append(sent, m) /\ sent' \in Seq(Messages)
      /\ Len(sent) \in Nat /\ Len(sent') = Len(sent) + 1
      /\ \A k \in 1 .. Len(sent) : sent'[k] = sent[k]
  BY DEF Send, Values
<1>4. /\ whole' = IF n = all THEN Len(sent) + 1 ELSE Len(sent)
      /\ peerOpen' = (n = all)
  BY <1>1 DEF Send
<1>5. /\ chunk \in Seq(Byte) /\ Len(chunk) = n
      /\ wire' = wire \o chunk
  <2>1. \A j \in 1 .. n : Bytes(Len(sent) + 1, m.size)[j] \in Byte
    BY <1>2, <1>3 DEF Bytes, Byte
  <2>2. chunk \in Seq(Byte) /\ Len(chunk) = n
    BY <1>2, <2>1, SubSeqProperties
  <2> QED  BY <2>2 DEF Send
<1> HIDE DEF chunk
<1>6. wire' \in Seq(Byte) /\ Len(wire') = Len(wire) + n
  BY <1>5, ConcatProperties DEF Values
<1>7. Values'
  BY <1>1, <1>2, <1>3, <1>4, <1>6 DEF Values, Send, transport, buffer, loop, history
<1>8. Phases'
  <2>1. peerOpen' => whole' = Len(sent')
    BY <1>3, <1>4
  <2>2. connected' = connected /\ freed' = freed /\ shut' = shut /\ hup' = hup
    BY DEF Send, transport, loop
  <2> QED  BY <1>1, <2>1, <2>2 DEF Phases
<1>9. Rest' = Rest \o chunk /\ Taken' = Taken /\ Taken \in Nat
  <2>1. ibuf \o (wire \o chunk) = (ibuf \o wire) \o chunk
    <3>1. ibuf \in Seq(Byte) /\ wire \in Seq(Byte)
      BY DEF Values
    <3> QED  BY <1>5, <3>1, BytesAssociative
  <2>2. Taken' = Taken
    BY <1>1 DEF Taken
  <2>3. Taken \in Nat
    BY LenProperties DEF Taken, Values, Parsing
  <2> QED  BY <1>1, <1>5, <2>1, <2>2, <2>3 DEF Rest
<1>10. InOrder'
  <2>1. Unbroken(Rest, sent, Len(sent), Taken)
    BY <1>1 DEF InOrder
  <2>2. Rest \in Seq(Byte) /\ sent \in Seq(Messages) /\ n \in 0 .. (HeaderSize + m.size)
    BY <1>2, RestValues DEF Values
  <2>3. Unbroken(Rest \o SubSeq(Bytes(Len(sent) + 1, m.size), 1, n), Append(sent, m),
                 IF n = HeaderSize + m.size THEN Len(sent) + 1 ELSE Len(sent), Taken)
    BY <1>9, <2>1, <2>2, UnbrokenSend
  <2>4. Unbroken(Rest', sent', whole', Taken')
    BY <1>3, <1>4, <1>9, <2>3 DEF chunk
  <2> QED  BY <2>4 DEF InOrder, Unbroken
<1>11. Parsing'
  <2>1. Whole(ibuf)' = Whole(ibuf)
    BY <1>1, <1>3, WholeKept DEF InOrder
  <2> QED  BY <1>1, <2>1 DEF Parsing
<1>12. Given'
  BY <1>1, <1>2, <1>3, <1>4, LenProperties DEF Given, Values
<1>13. Ends'
  BY <1>1, <1>2, <1>3, <1>4, LenProperties DEF Ends, Values
<1> QED  BY <1>7, <1>8, <1>10, <1>11, <1>12, <1>13

\* The number of messages taken out of the stream.
LEMMA TakenValue ==
  ASSUME Values, Parsing
  PROVE  /\ Taken \in Nat
         /\ pc \in {"received", "broken"} => Taken + 1 = Len(delivered)
         /\ pc \notin {"received", "broken"} => Taken = Len(delivered)
  BY LenProperties DEF Taken, Values, Parsing

\* The whole message the input buffer starts with is the next one the peer
\* sent.
LEMMA FirstMessage ==
  ASSUME Values, Parsing, InOrder, ~destroyed, Whole(ibuf)
  PROVE  /\ ibuf # <<>>
         /\ ibuf[1] = <<Taken + 1, 1>>
         /\ Taken + 1 \in 1 .. Len(sent)
         /\ Header(ibuf) = sent[Taken + 1]
         /\ Full(sent, Taken + 1) \in 1 .. Len(ibuf)
         /\ Taken + 1 <= whole
         /\ Unbroken(SubSeq(Rest, Full(sent, Taken + 1) + 1, Len(Rest)),
                     sent, whole, Taken + 1)
<1>1. HeaderSize \in Nat /\ HeaderSize > 0
  BY StreamAssumption DEF StreamAssumption
<1>2. Len(ibuf) \in Nat /\ Len(wire) \in Nat /\ Len(ibuf) > 0 /\ ibuf # <<>>
  BY <1>1, EmptySeq, LenProperties DEF Values, Whole
<1>3. /\ Rest \in Seq(Byte) /\ Len(Rest) = Len(ibuf) + Len(wire)
      /\ Rest[1] = ibuf[1] /\ Rest # <<>>
  BY <1>2, RestValues, EmptySeq
<1>4. Unbroken(Rest, sent, whole, Taken)
  BY DEF InOrder
<1>5. ibuf[1] = <<Taken + 1, 1>>
  BY <1>3, <1>4 DEF Unbroken, StartsAt
<1>6. Header(ibuf) = sent[Taken + 1] /\ Full(sent, Taken + 1) <= Len(ibuf)
  BY <1>5 DEF Header, Whole, Full
<1>7. sent \in Seq(Messages) /\ whole \in Nat /\ whole <= Len(sent) /\ Len(sent) \in Nat
  BY LenProperties DEF Values
<1>8. Taken \in Nat
  BY TakenValue
<1>9. Taken + 1 \in 1 .. Len(sent)
  <2>1. Rest[1][1] \in 1 .. Len(sent)
    BY <1>2, <1>3, <1>4 DEF Unbroken, Known
  <2> QED  BY <1>3, <1>5, <2>1
<1>10. Full(sent, Taken + 1) \in Nat
  BY <1>7, <1>9, MessageSize
<1>11. Full(sent, Taken + 1) <= Len(Rest)
  BY <1>2, <1>3, <1>6, <1>10
<1>12. /\ Taken + 1 <= whole
       /\ Full(sent, Taken + 1) \in Nat /\ Full(sent, Taken + 1) > 0
       /\ Unbroken(SubSeq(Rest, Full(sent, Taken + 1) + 1, Len(Rest)),
                   sent, whole, Taken + 1)
  <2> DEFINE r == Rest  u == Taken
  <2>1. /\ r \in Seq(Byte) /\ r # <<>> /\ Unbroken(r, sent, whole, u)
        /\ u \in Nat /\ Full(sent, u + 1) <= Len(r)
    BY <1>3, <1>4, <1>8, <1>11
  <2> HIDE DEF r, u
  <2>2. /\ u + 1 <= whole
        /\ Full(sent, u + 1) \in Nat /\ Full(sent, u + 1) > 0
        /\ Unbroken(SubSeq(r, Full(sent, u + 1) + 1, Len(r)), sent, whole, u + 1)
    BY <1>7, <2>1, UnbrokenTake
  <2> QED  BY <2>2 DEF r, u
<1> QED  BY <1>2, <1>5, <1>6, <1>9, <1>12

\* The peer closes between two messages.
LEMMA PeerCloseInvariant ==
  ASSUME IInv, PeerClose PROVE IInv'
<1> USE DEF IInv, PeerClose, transport, buffer, loop, history
<1>1. Values'
  <2>1. peerOpen' = FALSE /\ UNCHANGED <<sent, whole, wire, transport, buffer, loop, history>>
    OBVIOUS
  <2> QED  BY <2>1 DEF Values
<1>2. Phases'
  BY DEF Phases
<1>3. InOrder'
  BY DEF InOrder, Rest, Taken
<1>4. Parsing' /\ Given' /\ Ends'
  BY DEF Parsing, Whole, Header, Given, Ends
<1> QED  BY <1>1, <1>2, <1>3, <1>4

\* mrp_transport_disconnect, from a callback or not.
LEMMA DisconnectInvariant ==
  ASSUME IInv, Disconnect PROVE IInv'
<1> USE DEF IInv, Disconnect, UserMay, InCallback, peer, buffer, loop, history
<1>1. Values'
  BY DEF Values
<1>2. Phases'
  BY DEF Phases
<1>3. InOrder'
  BY DEF InOrder, Rest, Taken
<1>4. Parsing' /\ Given' /\ Ends'
  BY DEF Parsing, Whole, Header, Given, Ends
<1> QED  BY <1>1, <1>2, <1>3, <1>4

\* mrp_transport_destroy, from a callback or not.
LEMMA DestroyInvariant ==
  ASSUME IInv, Destroy PROVE IInv'
<1> USE DEF IInv, peer, loop, history
<1>1. /\ ~freed /\ pc \in {"idle", "received", "closing"}
      /\ destroyed' = TRUE /\ watch' = FALSE /\ shut' = TRUE
      /\ isize' = 0 /\ ibuf' = <<>>
      /\ UNCHANGED <<sent, whole, wire, peerOpen, connected, busy, pc, hup, got,
                     delivered, closed>>
  BY DEF Destroy, UserMay, InCallback
<1>2. freed' = (pc = "idle")
  <2>1. freed' = (freed \/ busy = 0)
    BY DEF Destroy, Purge
  <2>2. busy = 0 <=> pc = "idle"
    BY <1>1 DEF Values
  <2> QED  BY <1>1, <2>1, <2>2
<1>3. Values'
  <2>1. ibuf' \in Seq(Byte) /\ Len(ibuf') = 0
    BY <1>1
  <2>2. freed' \in BOOLEAN
    BY <1>2
  <2>3. isize' \in Nat /\ Len(ibuf') <= isize'
    BY <1>1, <2>1
  <2>4. destroyed' \in BOOLEAN /\ watch' \in BOOLEAN /\ shut' \in BOOLEAN
    BY <1>1
  <2>5. UNCHANGED <<sent, whole, wire, peerOpen, connected, busy, pc, hup, got,
                    delivered, closed>>
    BY <1>1
  <2> QED  BY <2>1, <2>2, <2>3, <2>4, <2>5 DEF Values
<1>4. Phases'
  BY <1>1, <1>2 DEF Phases
<1>5. InOrder'
  <2>1. Known(<<>> \o wire, sent, whole)
    BY KnownDrop DEF Values, InOrder, Rest
  <2> QED  BY <1>1, <2>1 DEF InOrder, Rest
<1>6. Parsing' /\ Given' /\ Ends'
  BY <1>1 DEF Parsing, Given, Ends
<1> QED  BY <1>3, <1>4, <1>5, <1>6

\* The main loop calls strm_recv_cb.
LEMMA EventInvariant ==
  ASSUME IInv, Event PROVE IInv'
<1> USE DEF IInv, peer, transport, buffer, history
<1>1. Values'
  <2>1. hup' \in BOOLEAN /\ got' \in BOOLEAN
    BY DEF Event
  <2>2. pc = "idle" /\ pc' = "space" /\ UNCHANGED <<peer, transport, buffer, history>>
    BY DEF Event
  <2> QED  BY <2>1, <2>2 DEF Values
<1>2. Phases'
  <2>1. hup' => ~peerOpen
    BY DEF Event
  <2>2. watch /\ pc' = "space" /\ UNCHANGED <<peer, transport, buffer, history>>
    BY DEF Event
  <2> QED  BY <2>1, <2>2 DEF Phases
<1>3. InOrder'
  BY DEF Event, InOrder, Rest, Taken
<1>4. Parsing' /\ Given' /\ Ends'
  BY DEF Event, Parsing, Whole, Header, Given, Ends
<1> QED  BY <1>1, <1>2, <1>3, <1>4

\* The new size holds the message the full buffer starts with.
LEMMA EnlargeInvariant ==
  ASSUME IInv, Enlarge PROVE IInv'
<1> USE DEF IInv, Enlarge, peer, transport, history
<1>1. Values'
  <2>1. isize' \in Nat /\ Len(ibuf') <= isize'
    <3>1. /\ HeaderSize \in Nat /\ DefaultSize \in Nat /\ DefaultSize > HeaderSize
      BY StreamAssumption DEF StreamAssumption
    <3>2. Len(ibuf) \in Nat /\ isize \in Nat /\ Len(ibuf) <= isize
      BY LenProperties DEF Values
    <3>3. ~destroyed /\ ~Whole(ibuf)
      BY DEF Phases, Parsing
    <3>4. CASE Len(ibuf) < isize
      BY <3>2, <3>4
    <3>5. CASE Len(ibuf) = isize /\ isize > HeaderSize
      <4>1. HeaderSize + Header(ibuf).size > Len(ibuf) \/ ~(HeaderSize + Header(ibuf).size \in Nat)
        BY <3>1, <3>2, <3>3, <3>5 DEF Whole
      <4>2. 1 \in 1 .. Len(Rest) /\ Rest[1] = ibuf[1]
        BY <3>1, <3>2, <3>5, RestValues, LenProperties DEF Values
      <4>3. ibuf[1][1] \in 1 .. Len(sent)
        BY <4>2 DEF InOrder, Known
      <4>4. HeaderSize + Header(ibuf).size \in Nat
        <5>1. Full(sent, ibuf[1][1]) \in Nat
          BY <4>3, MessageSize DEF Values
        <5> QED  BY <5>1 DEF Full, Header
      <4> QED  BY <3>2, <3>5, <4>1, <4>4
    <3>6. CASE Len(ibuf) = isize /\ ~(isize > HeaderSize)
      BY <3>1, <3>2, <3>6
    <3> QED  BY <3>2, <3>4, <3>5, <3>6
  <2> QED  BY <2>1 DEF Values
<1>2. Phases'
  BY DEF Phases
<1>3. InOrder'
  BY DEF InOrder, Rest, Taken
<1>4. Parsing' /\ Given' /\ Ends'
  BY DEF Parsing, Whole, Header, Given, Ends
<1> QED  BY <1>1, <1>2, <1>3, <1>4

\* A read moves bytes into the input buffer.
LEMMA ReadInvariant ==
  ASSUME IInv, NEW n \in 1 .. SocketSize, Read(n) PROVE IInv'
<1> USE DEF IInv, Read, transport, history
<1>1. /\ n \in 0 .. Len(wire) /\ ibuf \in Seq(Byte) /\ wire \in Seq(Byte)
      /\ Len(ibuf) \in Nat /\ Len(wire) \in Nat /\ SocketSize \in Nat
  BY StreamAssumption, LenProperties DEF Values, StreamAssumption
<1>2. /\ SubSeq(wire, 1, n) \in Seq(Byte) /\ Len(SubSeq(wire, 1, n)) = n
      /\ wire' \in Seq(Byte) /\ Len(wire') = Len(wire) - n
      /\ Rest' = Rest
  BY <1>1, ReadKeepsRest DEF Rest
<1>3. ibuf' \in Seq(Byte) /\ Len(ibuf') = Len(ibuf) + n
  BY <1>1, <1>2, ConcatProperties
<1>4. Values'
  BY <1>1, <1>2, <1>3 DEF Values
<1>5. Phases'
  BY DEF Phases
<1>6. InOrder'
  BY <1>2 DEF InOrder, Taken
<1>7. Parsing' /\ Given' /\ Ends'
  BY DEF Parsing, Given, Ends
<1> QED  BY <1>4, <1>5, <1>6, <1>7

\* At a hangup with nothing to read every whole message has been delivered.
LEMMA NothingToReadInvariant ==
  ASSUME IInv, NothingToRead PROVE IInv'
<1> USE DEF IInv, NothingToRead, peer, transport, buffer, history
<1>1. Values'
  BY DEF Values, Reasons
<1>2. Phases'
  BY DEF Phases
<1>3. InOrder'
  BY DEF InOrder, Rest, Taken
<1>4. Parsing' /\ Given'
  BY DEF Parsing, Whole, Header, Given, Phases
<1>5. hup => ~peerOpen /\ Len(delivered) = whole
  <2> SUFFICES ASSUME hup PROVE Len(delivered) = whole
    BY DEF Phases
  <2>1. /\ wire = <<>> /\ ~destroyed /\ ~Whole(ibuf)
        /\ Unbroken(Rest, sent, whole, Taken)
    BY DEF Phases, Parsing, InOrder
  <2>2. Taken = Len(delivered) /\ Taken \in Nat
    BY TakenValue
  <2>3. /\ Rest \in Seq(Byte) /\ Len(Rest) = Len(ibuf) /\ Len(Rest) \in Nat
        /\ \A j \in 1 .. Len(ibuf) : Rest[j] = ibuf[j]
    BY <2>1, RestValues, EmptySeq, LenProperties DEF Values
  <2>4. CASE Rest = <<>>
    BY <2>1, <2>2, <2>4 DEF Unbroken, EndsAt
  <2>5. CASE Rest # <<>>
    <3>1. Len(Rest) > 0 /\ Rest[1] = <<Taken + 1, 1>> /\ ibuf[1] = Rest[1]
      BY <2>1, <2>3, <2>5, EmptySeq DEF Unbroken, StartsAt
    <3>2. Taken + 1 \in 1 .. Len(sent)
      <4>1. Rest[1][1] \in 1 .. Len(sent)
        BY <2>1, <2>3, <3>1 DEF Unbroken, Known
      <4> QED  BY <3>1, <4>1
    <3>3. /\ Full(sent, Taken + 1) \in Nat
          /\ Full(sent, Taken + 1) > HeaderSize
          /\ HeaderSize \in Nat
      BY <3>2, MessageSize DEF Values
    <3>4. Len(Rest) < Full(sent, Taken + 1)
      BY <2>1, <2>3, <3>1, <3>3 DEF Whole, Header, Full
    <3>5. Rest[Len(Rest)] = <<Taken + 1, Len(Rest)>>
      <4>1. /\ 1 \in 1 .. Len(Rest) /\ Len(Rest) - 1 \in Nat
            /\ 1 + (Len(Rest) - 1) = Len(Rest)
        BY <2>3, <3>1
      <4>2. Rest[1][2] + (Len(Rest) - 1) <= Full(sent, Rest[1][1])
        BY <2>3, <3>1, <3>3, <3>4
      <4>3. Rest[1 + (Len(Rest) - 1)] = <<Rest[1][1], Rest[1][2] + (Len(Rest) - 1)>>
        BY <2>1, <2>3, <4>1, <4>2 DEF Unbroken, WithinMessage
      <4> QED  BY <3>1, <4>1, <4>3
    <3>6. \/ Rest[Len(Rest)] = <<whole, Full(sent, whole)>>
          \/ Rest[Len(Rest)][1] = whole + 1
      BY <2>1, <2>5 DEF Unbroken, EndsAt
    <3>7. Taken + 1 = whole + 1
      BY <2>3, <3>3, <3>4, <3>5, <3>6
    <3> QED  BY <2>2, <3>7 DEF Values
  <2> QED  BY <2>4, <2>5
<1>6. Ends'
  BY <1>5 DEF Ends, Phases
<1> QED  BY <1>1, <1>2, <1>3, <1>4, <1>6

\* A read fails.
LEMMA ReadFailsInvariant ==
  ASSUME IInv, ReadFails PROVE IInv'
<1> USE DEF IInv, ReadFails, peer, transport, buffer, history
<1>1. Values'
  BY DEF Values, Reasons
<1>2. Phases'
  BY DEF Phases
<1>3. InOrder'
  BY DEF InOrder, Rest, Taken
<1>4. Parsing' /\ Given' /\ Ends'
  BY DEF Parsing, Given, Ends
<1> QED  BY <1>1, <1>2, <1>3, <1>4

\* recv_data gives the user the next message.
LEMMA DeliverInvariant ==
  ASSUME IInv, Deliver PROVE IInv'
<1> USE DEF IInv, peer, buffer
<1>1. /\ ~destroyed /\ pc = "parse" /\ Whole(ibuf) /\ busy = 0
      /\ Taken = Len(delivered) /\ Taken \in Nat /\ closed = "open"
  <2>1. pc = "parse" /\ Whole(ibuf)
    BY DEF Deliver
  <2> QED  BY <2>1, TakenValue DEF Phases, Values
<1>2. /\ ibuf[1][1] = Taken + 1 /\ Taken + 1 <= whole
      /\ Header(ibuf) = sent[Taken + 1]
  BY <1>1, FirstMessage
<1>3. /\ delivered' = Append(delivered, Taken + 1)
      /\ delivered' \in Seq(Nat) /\ Len(delivered') = Len(delivered) + 1
      /\ Len(delivered) \in Nat
      /\ \A k \in 1 .. Len(delivered) : delivered'[k] = delivered[k]
      /\ delivered'[Len(delivered) + 1] = Taken + 1
  BY <1>1, <1>2, LenProperties DEF Deliver, Values
<1>4. pc' \in {"received", "broken"} /\ busy' = 1
  BY <1>1 DEF Deliver
<1>5. UNCHANGED <<sent, whole, wire, peerOpen, connected, destroyed, freed, watch,
                  shut, isize, ibuf, hup, got, closed>>
  BY DEF Deliver
<1>6. Values'
  BY <1>3, <1>4, <1>5 DEF Values
<1>7. Phases'
  BY <1>1, <1>4, <1>5 DEF Deliver, Phases
<1>8. InOrder'
  <2>1. Taken' = Taken
    BY <1>1, <1>3, <1>4 DEF Taken
  <2> QED  BY <1>5, <2>1 DEF InOrder, Rest
<1>9. Parsing'
  BY <1>1, <1>3, <1>4, <1>5 DEF Parsing, Whole, Header
<1>10. Given'
  <2>1. sent[Taken + 1].good
    BY <1>2 DEF Deliver
  <2> SUFFICES ASSUME NEW k \in 1 .. Len(delivered')
               PROVE  delivered'[k] = k /\ k <= whole /\ sent[k].good
    BY <1>5 DEF Given
  <2>2. CASE k \in 1 .. Len(delivered)
    BY <1>3, <2>2 DEF Given
  <2>3. CASE k = Taken + 1
    BY <1>1, <1>2, <1>3, <2>1, <2>3
  <2> QED  BY <1>1, <1>3, <2>2, <2>3
<1>11. Ends'
  BY <1>1, <1>4, <1>5 DEF Ends
<1> QED  BY <1>6, <1>7, <1>8, <1>9, <1>10, <1>11

\* The message that does not decode is the next one, sent to the end.
LEMMA UndecodableInvariant ==
  ASSUME IInv, Undecodable PROVE IInv'
<1> USE DEF IInv, Undecodable, peer, transport, buffer, history
<1>1. Values'
  BY DEF Values, Reasons
<1>2. Phases'
  BY DEF Phases
<1>3. InOrder'
  BY DEF InOrder, Rest, Taken
<1>4. Parsing' /\ Given'
  BY DEF Parsing, Given, Phases
<1>5. Len(delivered) < whole /\ ~sent[Len(delivered) + 1].good
  <2>1. Taken = Len(delivered) /\ Taken \in Nat /\ ~destroyed
    BY TakenValue DEF Phases
  <2>2. Taken + 1 <= whole /\ Header(ibuf) = sent[Taken + 1]
    BY <2>1, FirstMessage
  <2> QED  BY <2>1, <2>2 DEF Values
<1>6. Ends'
  BY <1>5 DEF Ends, Phases
<1> QED  BY <1>1, <1>2, <1>3, <1>4, <1>6

\* The message is cut off the buffer, unless the transport is destroyed.
LEMMA ReceivedInvariant ==
  ASSUME IInv, Received PROVE IInv'
<1> USE DEF IInv, peer, history
<1>1. /\ pc = "received" /\ busy = 1 /\ busy' = 0 /\ closed = "open" /\ ~freed
      /\ Taken \in Nat /\ Taken + 1 = Len(delivered)
      /\ UNCHANGED <<sent, whole, wire, peerOpen, connected, destroyed, watch,
                     shut, isize, hup, got, delivered, closed>>
      /\ freed' = destroyed
      /\ pc' = IF destroyed THEN "idle" ELSE "parse"
  <2>1. pc = "received" /\ busy' = busy - 1 /\ freed' = (freed \/ (destroyed /\ busy - 1 = 0))
    BY DEF Received, Purge
  <2>2. busy = 1 /\ busy' = 0 /\ closed = "open" /\ ~freed
    BY <2>1 DEF Values, Phases
  <2>3. Taken \in Nat /\ Taken + 1 = Len(delivered)
    BY <2>1, TakenValue
  <2>4. freed' = destroyed
    BY <2>1, <2>2 DEF Values
  <2> QED  BY <2>1, <2>2, <2>3, <2>4 DEF Received
<1>2. Taken' = Len(delivered)
  BY <1>1, LenProperties DEF Taken, Values
<1>3. CASE destroyed
  <2>1. ibuf' = ibuf /\ pc' = "idle" /\ ~watch
    BY <1>1, <1>3 DEF Received, Phases
  <2>2. Values'
    BY <1>1, <1>3, <2>1 DEF Values
  <2>3. Phases'
    BY <1>1, <1>3, <2>1 DEF Phases
  <2>4. InOrder'
    BY <1>1, <1>3, <2>1 DEF InOrder, Rest
  <2>5. Parsing' /\ Given' /\ Ends'
    BY <1>1, <1>3, <2>1 DEF Parsing, Given, Ends
  <2> QED  BY <2>2, <2>3, <2>4, <2>5
<1>4. CASE ~destroyed
  <2> DEFINE full == Full(sent, Taken + 1)
  <2>1. /\ Whole(ibuf) /\ full \in 1 .. Len(ibuf)
        /\ Header(ibuf) = sent[Taken + 1]
        /\ Unbroken(SubSeq(Rest, full + 1, Len(Rest)), sent, whole, Taken + 1)
    <3>1. Whole(ibuf)
      BY <1>1, <1>4 DEF Parsing
    <3> QED  BY <1>4, <3>1, FirstMessage
  <2>2. ibuf' = SubSeq(ibuf, full + 1, Len(ibuf))
    BY <1>4, <2>1 DEF Received, Full
  <2>3. /\ ibuf \in Seq(Byte) /\ wire \in Seq(Byte)
        /\ full \in 0 .. Len(ibuf) /\ full > 0 /\ Len(ibuf) \in Nat
    BY <2>1, LenProperties DEF Values
  <2> HIDE DEF full
  <2>4. /\ ibuf' \in Seq(Byte) /\ Len(ibuf') = Len(ibuf) - full
        /\ Rest' = SubSeq(Rest, full + 1, Len(Rest))
    BY <1>1, <2>2, <2>3, TakeFromBuffer DEF Rest
  <2>5. Values'
    <3>1. Len(ibuf') <= isize
      BY <2>3, <2>4 DEF Values
    <3> QED  BY <1>1, <1>4, <2>4, <3>1 DEF Values
  <2>6. Phases'
    BY <1>1, <1>4 DEF Phases
  <2>7. InOrder'
    BY <1>1, <1>2, <2>1, <2>4 DEF InOrder, Unbroken
  <2>8. Parsing' /\ Given' /\ Ends'
    BY <1>1, <1>4 DEF Parsing, Given, Ends
  <2> QED  BY <2>5, <2>6, <2>7, <2>8
<1> QED  BY <1>3, <1>4

\* No whole message is left in the buffer.
LEMMA ParsedInvariant ==
  ASSUME IInv, Parsed PROVE IInv'
<1> USE DEF IInv, Parsed, peer, transport, buffer, history
<1>1. Values'
  BY DEF Values
<1>2. Phases'
  BY DEF Phases
<1>3. InOrder'
  BY DEF InOrder, Rest, Taken
<1>4. Parsing' /\ Given' /\ Ends'
  BY DEF Parsing, Whole, Header, Given, Ends
<1> QED  BY <1>1, <1>2, <1>3, <1>4

\* closed and fatal_error remove the watch before the user is told.
LEMMA CloseInvariant ==
  ASSUME IInv, Close PROVE IInv'
<1> USE DEF IInv, peer, buffer
<1>1. /\ pc \in Reasons /\ pc \notin {"idle", "received", "closing", "broken"}
      /\ busy = 0 /\ busy' = 1 /\ pc' = "closing" /\ closed' = pc
  BY DEF Close, Values, Reasons
<1>2. /\ watch' = FALSE /\ shut' \in BOOLEAN /\ closed = "open" /\ ~destroyed
  BY <1>1 DEF Close, Values, Phases
<1>3. UNCHANGED <<sent, whole, wire, peerOpen, connected, destroyed, freed,
                  isize, ibuf, hup, got, delivered>>
  BY DEF Close
<1>4. Values'
  BY <1>1, <1>2, <1>3 DEF Values
<1>5. Phases'
  BY <1>1, <1>2, <1>3 DEF Phases
<1>6. InOrder'
  BY <1>1, <1>3 DEF InOrder, Rest, Taken
<1>7. Parsing' /\ Given' /\ Ends'
  BY <1>1, <1>2, <1>3 DEF Parsing, Given, Ends
<1> QED  BY <1>4, <1>5, <1>6, <1>7

\* The closed callback returns, and may have destroyed the transport.
LEMMA ClosedReturnsInvariant ==
  ASSUME IInv, ClosedReturns PROVE IInv'
<1> USE DEF IInv, peer, buffer, history
<1>1. /\ pc = "closing" /\ pc' = "idle" /\ busy' = 0 /\ ~watch /\ ~freed
      /\ freed' = destroyed
      /\ UNCHANGED <<sent, whole, wire, peerOpen, connected, destroyed, watch,
                     shut, isize, ibuf, hup, got, delivered, closed>>
  <2>1. pc = "closing" /\ busy' = busy - 1 /\ freed' = (freed \/ (destroyed /\ busy - 1 = 0))
    BY DEF ClosedReturns, Purge
  <2>2. busy = 1 /\ ~watch /\ ~freed
    BY <2>1 DEF Values, Phases
  <2>3. freed' = destroyed
    BY <2>1, <2>2 DEF Values
  <2> QED  BY <2>1, <2>2, <2>3 DEF ClosedReturns
<1>2. Values'
  BY <1>1 DEF Values
<1>3. Phases'
  BY <1>1 DEF Phases
<1>4. InOrder'
  BY <1>1 DEF InOrder, Rest, Taken
<1>5. Parsing' /\ Given' /\ Ends'
  BY <1>1 DEF Parsing, Given, Ends
<1> QED  BY <1>2, <1>3, <1>4, <1>5

\* Every step keeps IInv.
LEMMA NextInvariant ==
  ASSUME IInv, [Next]_vars PROVE IInv'
<1>1. CASE Peer
  <2>1. CASE PeerClose
    BY <2>1, PeerCloseInvariant
  <2>2. ASSUME NEW m \in Messages, NEW n \in 0 .. SocketSize, Send(m, n) PROVE IInv'
    BY <2>2, SendInvariant
  <2> QED  BY <1>1, <2>1, <2>2 DEF Peer
<1>2. CASE User
  BY <1>2, DisconnectInvariant, DestroyInvariant DEF User
<1>3. CASE Receive
  <2>1. ASSUME NEW n \in 1 .. SocketSize, Read(n) PROVE IInv'
    BY <2>1, ReadInvariant
  <2> QED  BY <1>3, <2>1, EventInvariant, EnlargeInvariant, NothingToReadInvariant,
             ReadFailsInvariant, DeliverInvariant, UndecodableInvariant,
             ReceivedInvariant, ParsedInvariant, CloseInvariant,
             ClosedReturnsInvariant DEF Receive
<1>4. CASE UNCHANGED vars
  <2> USE <1>4 DEF IInv, vars, peer, transport, buffer, loop, history
  <2>1. Values' /\ Phases'
    BY DEF Values, Phases
  <2>2. InOrder'
    BY DEF InOrder, Rest, Taken
  <2>3. Parsing' /\ Given' /\ Ends'
    BY DEF Parsing, Whole, Header, Given, Ends
  <2> QED  BY <2>1, <2>2, <2>3
<1> QED  BY <1>1, <1>2, <1>3, <1>4 DEF Next

\* IInv holds in every state.
LEMMA Invariant == Spec => []IInv
<1>1. Init => IInv
  BY InitInvariant
<1>2. IInv /\ [Next]_vars => IInv'
  BY NextInvariant
<1> QED  BY <1>1, <1>2, PTL DEF Spec

-----------------------------------------------------------------------------
(* The theorems.                                                            *)

\* Every variable has its type.
THEOREM StreamTypes == Spec => []TypeOK
<1>1. IInv => TypeOK
  <2> SUFFICES ASSUME IInv PROVE TypeOK
    OBVIOUS
  <2> USE DEF IInv
  <2>1. /\ sent \in Seq(Messages) /\ whole \in 0 .. Len(sent)
        /\ Len(sent) \in Nat
    BY LenProperties DEF Values
  <2>2. ASSUME NEW b \in Range(wire) \union Range(ibuf)
        PROVE  b[1] \in DOMAIN sent /\ b[2] \in 1 .. (HeaderSize + sent[b[1]].size)
    <3>1. PICK j \in 1 .. Len(Rest) : b = Rest[j]
      <4>1. /\ wire \in Seq(Byte) /\ ibuf \in Seq(Byte)
            /\ Len(wire) \in Nat /\ Len(ibuf) \in Nat
        BY LenProperties DEF Values
      <4>2. CASE b \in Range(wire)
        <5>1. PICK i \in 1 .. Len(wire) : b = wire[i]
          BY <4>1, <4>2 DEF Range
        <5>2. Len(ibuf) + i \in 1 .. Len(Rest) /\ Rest[Len(ibuf) + i] = b
          BY <4>1, <5>1, RestValues
        <5> QED  BY <5>2
      <4>3. CASE b \in Range(ibuf)
        <5>1. PICK i \in 1 .. Len(ibuf) : b = ibuf[i]
          BY <4>1, <4>3 DEF Range
        <5>2. i \in 1 .. Len(Rest) /\ Rest[i] = b
          BY <4>1, <5>1, RestValues
        <5> QED  BY <5>2
      <4> QED  BY <4>2, <4>3
    <3> QED  BY <2>1, <3>1 DEF InOrder, Known, Full
  <2>3. {peerOpen, connected, destroyed, freed, watch, shut, hup, got} \subseteq BOOLEAN
    BY DEF Values
  <2>4. busy \in Nat
    BY DEF Values
  <2>5. \A k \in DOMAIN delivered : delivered[k] \in DOMAIN sent
    BY <2>1, LenProperties DEF Values, Given
  <2> QED  BY <2>1, <2>2, <2>3, <2>4, <2>5 DEF TypeOK, Values
<1> QED  BY <1>1, Invariant, PTL

\* However the reads cut the stream and whatever the user does in a callback,
\* the messages are delivered each once and in order and the bytes not yet
\* delivered have no gap (the parse loop of strm_recv_cb).
THEOREM StreamInOrder == Spec => []NothingLostOrReordered
<1>1. IInv => NothingLostOrReordered
  <2> SUFFICES ASSUME IInv PROVE NothingLostOrReordered
    OBVIOUS
  <2> USE DEF IInv
  <2>1. \A k \in DOMAIN delivered : delivered[k] = k /\ k <= whole /\ sent[k].good
    BY DEF Values, Given
  <2> SUFFICES ASSUME ~destroyed
               PROVE  /\ Rest # <<>> => Rest[1] = <<Taken + 1, 1>>
                      /\ \A j \in 1 .. (Len(Rest) - 1) : Rest[j + 1] = After(Rest[j])
                      /\ whole = Len(sent) =>
                           IF Rest = <<>> THEN Taken = whole
                           ELSE After(Rest[Len(Rest)]) = <<whole + 1, 1>>
    BY <2>1 DEF NothingLostOrReordered
  <2>2. Unbroken(Rest, sent, whole, Taken)
    BY DEF InOrder
  <2>3. Rest \in Seq(Byte) /\ Len(Rest) \in Nat /\ sent \in Seq(Messages)
    BY RestValues, LenProperties DEF Values
  <2>4. ASSUME NEW j \in 1 .. Len(Rest)
        PROVE  /\ Full(sent, Rest[j][1]) \in Nat
               /\ Rest[j][2] \in 1 .. Full(sent, Rest[j][1])
               /\ Rest[j][1] \in 1 .. Len(sent)
    BY <2>2, <2>3, MessageSize DEF Unbroken, Known
  <2>5. Rest # <<>> => Rest[1] = <<Taken + 1, 1>>
    BY <2>2 DEF Unbroken, StartsAt
  <2>6. ASSUME NEW j \in 1 .. (Len(Rest) - 1)
        PROVE  Rest[j + 1] = After(Rest[j])
    <3>1. j \in 1 .. Len(Rest) /\ j + 1 <= Len(Rest)
      BY <2>3
    <3>2. CASE Rest[j][2] < Full(sent, Rest[j][1])
      <4>1. Rest[j][2] + 1 <= Full(sent, Rest[j][1])
        BY <2>4, <3>1, <3>2
      <4>2. Rest[j + 1] = <<Rest[j][1], Rest[j][2] + 1>>
        BY <2>2, <3>1, <4>1 DEF Unbroken, WithinMessage
      <4> QED  BY <3>2, <4>2 DEF After, Full
    <3>3. CASE Rest[j][2] = Full(sent, Rest[j][1])
      <4>1. Rest[j + 1] = <<Rest[j][1] + 1, 1>>
        BY <2>2, <3>3 DEF Unbroken, AcrossMessages
      <4>2. ~(Rest[j][2] < Full(sent, Rest[j][1]))
        BY <2>4, <3>1, <3>3
      <4> QED  BY <4>1, <4>2 DEF After, Full
    <3> QED  BY <2>4, <3>1, <3>2, <3>3
  <2>7. ASSUME whole = Len(sent), Rest # <<>>
        PROVE  After(Rest[Len(Rest)]) = <<whole + 1, 1>>
    <3>1. Len(Rest) \in 1 .. Len(Rest)
      BY <2>3, <2>7, EmptySeq
    <3>2. Rest[Len(Rest)] = <<whole, Full(sent, whole)>>
      <4>1. Rest[Len(Rest)][1] <= whole /\ whole \in Nat
        BY <2>4, <2>7, <3>1 DEF Values
      <4>2. Rest[Len(Rest)][1] # whole + 1
        <5>1. Rest[Len(Rest)][1] \in Nat
          BY <2>4, <3>1
        <5> QED  BY <4>1, <5>1
      <4> QED  BY <2>2, <2>7, <4>2 DEF Unbroken, EndsAt
    <3>3. Full(sent, whole) \in Nat
      BY <2>4, <3>1, <3>2
    <3> QED  BY <3>2, <3>3 DEF After, Full
  <2>8. Rest = <<>> => Taken = whole
    BY <2>2 DEF Unbroken, EndsAt
  <2> QED  BY <2>5, <2>6, <2>7, <2>8
<1> QED  BY <1>1, Invariant, PTL

\* A destroyed transport is freed when the receive loop and its callbacks are
\* done with it, and no sooner (MRP_TRANSPORT_BUSY).
THEOREM StreamFreed == Spec => []FreedOnceUnused
<1>1. IInv => FreedOnceUnused
  BY DEF IInv, Values, Phases, FreedOnceUnused
<1> QED  BY <1>1, Invariant, PTL

\* The closed callback for a hangup comes after the last whole message, that
\* for an undecodable message after those before it (strm_recv_cb).
THEOREM StreamClosedAfterLast == Spec => []ClosedAfterLast
<1>1. IInv => ClosedAfterLast
  BY DEF IInv, Ends, ClosedAfterLast
<1> QED  BY <1>1, Invariant, PTL

\* No callback is called after the closed callback (strm_recv_cb).
THEOREM StreamQuiet == Spec => QuietAfterClosed
<1>1. IInv /\ [Next]_vars => [closed # "open" => UNCHANGED history]_vars
  <2> SUFFICES ASSUME IInv, [Next]_vars, closed # "open" PROVE UNCHANGED history
    OBVIOUS
  <2>1. pc \in {"idle", "closing"} /\ ~watch
    BY DEF IInv, Phases
  <2>2. CASE Peer
    BY <2>2 DEF Peer, PeerClose, Send
  <2>3. CASE User
    BY <2>3 DEF User, Disconnect, Destroy
  <2>4. CASE Receive
    BY <2>1, <2>4 DEF Receive, Event, Enlarge, NothingToRead, ReadFails, Read, Deliver,
                      Undecodable, Received, Parsed, Close, ClosedReturns, Reasons
  <2>5. CASE UNCHANGED vars
    BY <2>5 DEF vars
  <2> QED  BY <2>2, <2>3, <2>4, <2>5 DEF Next
<1> QED  BY <1>1, Invariant, PTL DEF Spec, QuietAfterClosed

\* Every byte a transport holds is one of a message, its buffer never
\* overflows, and it is freed exactly when nothing uses it.
THEOREM StreamSound == Spec => []TransportSound
<1>1. TypeOK /\ FreedOnceUnused => TransportSound
  BY DEF TransportSound
<1> QED  BY <1>1, StreamTypes, StreamFreed, PTL
=============================================================================
