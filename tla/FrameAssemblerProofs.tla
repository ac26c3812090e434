------------------------ MODULE FrameAssemblerProofs ------------------------
(***************************************************************************)
(* What FrameAssembler promises, for any bytes, any checksum, any limit on *)
(* a frame that leaves room for one, and streams of any length.            *)
(***************************************************************************)
EXTENDS FrameAssembler, SequenceTheorems, TLAPS

\* The frame that a header at the i-th byte declares, in the stream itself.
Size(i) == 256 * fed[i + 1] + fed[i + 2] + Overhead

Sound(i) == Crc8(SubSeq(fed, i + 3, i + Size(i) - 2)) = fed[i + Size(i) - 1]

Sizeable(i) == i \in 1..Len(fed) /\ i + 2 <= Len(fed)

Complete(i) == Sizeable(i) /\ i + Size(i) - 1 <= Len(fed)

Whole(i) ==
    /\ Complete(i) /\ fed[i] = Header
    /\ Size(i) <= MaxFrameLen /\ Sound(i)

\* What was handed out are intact frames, one behind the other.
Handed ==
    \A i \in taken :
        /\ Whole(i) /\ i + Size(i) - 1 <= gone
        /\ \A j \in taken : j = i \/ j + Size(j) - 1 < i \/ i + Size(i) - 1 < j

\* Why a byte has left the buffer: no header, one that declares too much, one
\* whose checksum was seen to be wrong, or part of a frame.  None of it depends
\* on what arrives later, as FrameAt does.
Settled(i) ==
    \/ fed[i] # Header
    \/ Sizeable(i) /\ Size(i) > MaxFrameLen
    \/ Complete(i) /\ ~Sound(i)
    \/ \E j \in taken : j <= i /\ i <= j + Size(j) - 1

AllSettled == \A i \in 1..gone : Settled(i)

IInv == TypeOK /\ Remainder /\ Handed /\ AllSettled /\ Bounded

-----------------------------------------------------------------------------
\* What is left of a sequence, and a part of what is left.
LEMMA Rest ==
    ASSUME NEW s \in Seq(Byte), NEW k \in 0..Len(s)
    PROVE  /\ SubSeq(s, k + 1, Len(s)) \in Seq(Byte)
           /\ Len(SubSeq(s, k + 1, Len(s))) = Len(s) - k
           /\ \A i \in 1..(Len(s) - k) : SubSeq(s, k + 1, Len(s))[i] = s[k + i]
<1>1. Len(s) \in Nat /\ \A i \in 1..Len(s) : s[i] \in Byte
    BY ElementOfSeq, LenProperties
<1>2. \A i \in (k + 1)..Len(s) : s[i] \in Byte
    BY <1>1
<1> QED
    BY <1>1, <1>2, SubSeqProperties

LEMMA Slice ==
    ASSUME NEW s \in Seq(Byte), NEW k \in 0..Len(s),
           NEW m \in Nat \ {0}, NEW n \in Int, n <= Len(s) - k
    PROVE  SubSeq(SubSeq(s, k + 1, Len(s)), m, n) = SubSeq(s, k + m, k + n)
<1> DEFINE r == SubSeq(s, k + 1, Len(s))
           a == SubSeq(r, m, n)
           b == SubSeq(s, k + m, k + n)
<1>1. Len(s) \in Nat /\ \A i \in 1..Len(s) : s[i] \in Byte
    BY ElementOfSeq, LenProperties
<1>2. \A i \in m..n : r[i] = s[k + i] /\ r[i] \in Byte
    BY <1>1, Rest
<1>3. /\ a \in Seq(Byte) /\ Len(a) = IF m <= n THEN n - m + 1 ELSE 0
      /\ \A i \in 1..(n - m + 1) : a[i] = r[m + i - 1]
  <2> HIDE DEF r
  <2> QED
      BY <1>2, SubSeqProperties
<1>4. /\ b \in Seq(Byte) /\ Len(b) = IF m <= n THEN n - m + 1 ELSE 0
      /\ \A i \in 1..(n - m + 1) : b[i] = s[k + m + i - 1]
  <2>1. \A i \in (k + m)..(k + n) : s[i] \in Byte
      BY <1>1
  <2>2. k + m \in Int /\ k + n \in Int
      BY <1>1
  <2> HIDE DEF r
  <2>3. /\ SubSeq(s, k + m, k + n) \in Seq(Byte)
        /\ Len(SubSeq(s, k + m, k + n))
             = IF k + m <= k + n THEN (k + n) - (k + m) + 1 ELSE 0
        /\ \A i \in 1..((k + n) - (k + m) + 1) :
                SubSeq(s, k + m, k + n)[i] = s[(k + m) + i - 1]
      BY <2>1, <2>2, SubSeqProperties
  <2> QED
      BY <1>1, <2>3
<1>5. \A i \in 1..Len(a) : a[i] = b[i]
  <2> HIDE DEF r, a, b
  <2> SUFFICES ASSUME NEW i \in 1..Len(a) PROVE a[i] = b[i]
      OBVIOUS
  <2>1. m <= n /\ i \in 1..(n - m + 1) /\ m + i - 1 \in m..n
      BY <1>3
  <2>2. a[i] = s[k + (m + i - 1)]
      BY <1>2, <1>3, <2>1
  <2>3. k + (m + i - 1) = k + m + i - 1
      BY <2>1
  <2> QED
      BY <1>4, <2>1, <2>2, <2>3
<1> HIDE DEF a, b, r
<1>6. a = b
    BY <1>3, <1>4, <1>5, SeqEqual
<1> QED
    BY <1>6 DEF a, b, r

\* A size is one, whatever bytes it is read from.
LEMMA Sizes ==
    ASSUME TypeOK, NEW i \in 1..Len(fed), i + 2 <= Len(fed)
    PROVE  /\ FrameLen(From(i)) = Size(i)
           /\ Size(i) \in Nat /\ Size(i) >= 4
<1>1. Len(fed) \in Nat /\ \A k \in 1..Len(fed) : fed[k] \in 0..255
    BY ElementOfSeq, LenProperties, BytesAreBytes DEF TypeOK
<1>2. From(i)[2] = fed[i + 1] /\ From(i)[3] = fed[i + 2]
  <2>1. i - 1 \in 0..Len(fed) /\ (i - 1) + 1 = i
      BY <1>1
  <2>2. \A k \in 1..(Len(fed) - (i - 1)) : From(i)[k] = fed[(i - 1) + k]
      BY <2>1, Rest DEF From, TypeOK
  <2> QED
      BY <1>1, <2>2
<1>3. fed[i + 1] \in Nat /\ fed[i + 2] \in Nat
  <2>1. i + 1 \in 1..Len(fed) /\ i + 2 \in 1..Len(fed)
      BY <1>1
  <2>2. fed[i + 1] \in 0..255 /\ fed[i + 2] \in 0..255
      BY <1>1, <2>1
  <2>3. \A b \in 0..255 : b \in Nat
      OBVIOUS
  <2> QED
      BY <2>2, <2>3
<1> QED
    BY <1>2, <1>3 DEF FrameLen, Size, Overhead

LEMMA FrameIsWhole ==
    ASSUME TypeOK, NEW i \in Nat PROVE FrameAt(i) <=> Whole(i)
<1>1. DOMAIN fed = 1..Len(fed) /\ Len(fed) \in Nat
    BY LenProperties DEF TypeOK
<1>2. CASE i \in 1..Len(fed) /\ i + 2 <= Len(fed)
    BY <1>1, <1>2, Sizes DEF FrameAt, Whole, Complete, Sizeable, Sound
<1>3. CASE ~(i \in 1..Len(fed) /\ i + 2 <= Len(fed))
    BY <1>1, <1>3 DEF FrameAt, Whole, Complete, Sizeable
<1> QED
    BY <1>2, <1>3

\* The buffer shows what the stream holds.
LEMMA Buffered ==
    ASSUME TypeOK, Remainder
    PROVE  /\ Len(buf) = Len(fed) - gone /\ DOMAIN buf = 1..Len(buf)
           /\ Len(buf) \in Nat /\ Len(fed) \in Nat /\ gone \in Nat
           /\ \A k \in 1..Len(buf) : buf[k] = fed[gone + k]
BY Rest, LenProperties DEF TypeOK, Remainder

LEMMA Heads ==
    ASSUME TypeOK, Remainder, Len(buf) >= 3
    PROVE  /\ Sizeable(gone + 1) /\ buf[1] = fed[gone + 1]
           /\ FrameLen(buf) = Size(gone + 1)
           /\ Size(gone + 1) \in Nat /\ Size(gone + 1) >= 4
           /\ Len(buf) >= FrameLen(buf) =>
                Complete(gone + 1) /\ (Intact(buf) <=> Sound(gone + 1))
<1>1. /\ Sizeable(gone + 1) /\ buf[1] = fed[gone + 1]
      /\ gone \in 0..Len(fed) /\ Len(fed) \in Nat
    BY Buffered DEF Sizeable
<1>2. buf = From(gone + 1)
    BY DEF Remainder, From
<1>3. /\ FrameLen(buf) = Size(gone + 1)
      /\ Size(gone + 1) \in Nat /\ Size(gone + 1) >= 4
    BY <1>1, <1>2, Sizes DEF Sizeable
<1>4. ASSUME Len(buf) >= FrameLen(buf)
      PROVE  Complete(gone + 1) /\ (Intact(buf) <=> Sound(gone + 1))
  <2> DEFINE n == Size(gone + 1)
  <2>1. n \in Nat /\ n >= 4 /\ n <= Len(fed) - gone /\ n <= Len(buf)
      BY <1>3, <1>4, Buffered
  <2>2. Complete(gone + 1) /\ buf[n] = fed[gone + n]
      BY <1>1, <2>1, Buffered DEF Complete
  <2>3. SubSeq(buf, 4, n - 1) = SubSeq(fed, gone + 4, gone + (n - 1))
    <3> HIDE DEF n
    <3>1. n - 1 \in Int /\ n - 1 <= Len(fed) - gone /\ 4 \in Nat \ {0}
        BY <1>1, <2>1
    <3> QED
        BY <1>1, <3>1, Slice DEF Remainder, TypeOK
  <2>4. /\ gone + 4 = (gone + 1) + 3 /\ gone + (n - 1) = (gone + 1) + n - 2
        /\ gone + n = (gone + 1) + n - 1
      BY <1>1, <2>1
  <2> QED
      BY <1>3, <2>2, <2>3, <2>4 DEF Intact, Sound
<1> QED
    BY <1>1, <1>3, <1>4

-----------------------------------------------------------------------------
\* Bytes that leave the front of the buffer leave the rest of the stream in it.
LEMMA DrainStep ==
    ASSUME TypeOK, Remainder, NEW n \in 0..Len(buf), Drain(n)
    PROVE  /\ buf' \in Seq(Byte) /\ Len(buf') = Len(buf) - n
           /\ Remainder' /\ UNCHANGED fed
           /\ gone' = gone + n /\ gone' \in 0..Len(fed)
<1>1. UNCHANGED fed /\ gone' = gone + n /\ buf' = SubSeq(buf, n + 1, Len(buf))
    BY DEF Drain
<1>2. /\ Len(buf) = Len(fed) - gone /\ Len(buf) \in Nat
      /\ gone \in 0..Len(fed) /\ Len(fed) \in Nat
    BY Buffered DEF TypeOK
<1>3. buf' \in Seq(Byte) /\ Len(buf') = Len(buf) - n
    BY <1>1, Rest DEF TypeOK
<1>4. SubSeq(buf, n + 1, Len(buf)) = SubSeq(fed, gone + (n + 1), gone + Len(buf))
  <2>1. n + 1 \in Nat \ {0} /\ Len(buf) \in Int /\ Len(buf) <= Len(fed) - gone
      BY <1>2
  <2>2. \A l \in Int : l <= Len(fed) - gone =>
            SubSeq(SubSeq(fed, gone + 1, Len(fed)), n + 1, l)
              = SubSeq(fed, gone + (n + 1), gone + l)
      BY <1>2, <2>1, Slice DEF TypeOK
  <2> QED
      BY <2>1, <2>2 DEF Remainder
<1>5. gone + (n + 1) = (gone + n) + 1 /\ gone + Len(buf) = Len(fed)
    BY <1>2
<1>6. Remainder'
    BY <1>1, <1>4, <1>5 DEF Remainder
<1>7. gone' \in 0..Len(fed)
    BY <1>1, <1>2
<1> QED
    BY <1>1, <1>3, <1>6, <1>7

\* Nothing is handed out, and all that leaves had a reason to.
LEMMA SkipStep ==
    ASSUME IInv, NEW n \in 0..Len(buf), Drain(n), UNCHANGED taken,
           mode' \in {"idle", "left", "fed"},
           mode' = "idle" => Len(buf) - n < MaxFrameLen,
           \A i \in (gone + 1)..(gone + n) : Settled(i)
    PROVE  IInv'
<1>1. /\ buf' \in Seq(Byte) /\ Len(buf') = Len(buf) - n
      /\ Remainder' /\ UNCHANGED fed
      /\ gone' = gone + n /\ gone' \in 0..Len(fed)
    BY DrainStep DEF IInv
<1>2. gone \in Nat /\ n \in Nat
    BY Buffered DEF IInv
<1>3. TypeOK'
    BY <1>1, <1>2 DEF TypeOK, IInv
<1>4. Bounded'
    BY <1>1 DEF Bounded
<1>5. \A i : /\ Size(i)' = Size(i) /\ Whole(i)' = Whole(i)
             /\ Settled(i)' = Settled(i)
    BY <1>1 DEF Size, Whole, Sound, Complete, Sizeable, Settled
<1>6. Handed'
  <2> SUFFICES ASSUME NEW i \in taken
               PROVE  Whole(i) /\ i + Size(i) - 1 <= gone + n
      BY <1>1, <1>5 DEF Handed, IInv
  <2>1. Whole(i) /\ i + Size(i) - 1 <= gone
      BY DEF Handed, IInv
  <2>2. i \in Nat /\ Size(i) \in Nat
      BY <2>1, Sizes, Buffered DEF Whole, Complete, Sizeable, IInv
  <2> QED
      BY <1>2, <2>1, <2>2
<1>7. AllSettled'
  <2> SUFFICES ASSUME NEW i \in 1..(gone + n) PROVE Settled(i)
      BY <1>1, <1>5 DEF AllSettled
  <2>1. i \in 1..gone \/ i \in (gone + 1)..(gone + n)
      BY <1>2
  <2> QED
      BY <2>1 DEF AllSettled, IInv
<1> QED
    BY <1>1, <1>3, <1>4, <1>6, <1>7 DEF IInv

LEMMA TakeStep == ASSUME IInv, Take PROVE IInv'
<1> DEFINE n == Size(gone + 1)
<1>1. /\ Sizeable(gone + 1) /\ buf[1] = fed[gone + 1] /\ FrameLen(buf) = n
      /\ n \in Nat /\ n >= 4 /\ n <= Len(buf) /\ n <= MaxFrameLen
      /\ fed[gone + 1] = Header /\ Complete(gone + 1) /\ Sound(gone + 1)
  <2>1. Len(buf) >= 3 /\ Len(buf) >= FrameLen(buf)
      BY DEF Take, Fits, Sized
  <2>2. /\ Sizeable(gone + 1) /\ buf[1] = fed[gone + 1] /\ FrameLen(buf) = n
        /\ n \in Nat /\ n >= 4
        /\ Complete(gone + 1) /\ (Intact(buf) <=> Sound(gone + 1))
      BY <2>1, Heads DEF IInv
  <2>3. Len(buf) \in Nat /\ MaxFrameLen \in Nat
      BY Buffered, AFrameFits DEF IInv
  <2> HIDE DEF n
  <2> QED
      BY <2>1, <2>2, <2>3 DEF Take, Fits, Sized, TooLong
<1> HIDE DEF n
<1>2. Drain(n) /\ n \in 0..Len(buf)
    BY <1>1, Buffered DEF Take, IInv
<1>3. /\ buf' \in Seq(Byte) /\ Remainder' /\ UNCHANGED fed
      /\ gone' = gone + n /\ gone' \in 0..Len(fed)
    BY <1>2, DrainStep DEF IInv
<1>4. /\ taken' = taken \cup {gone + 1} /\ mode' \in {"left", "fed"}
      /\ gone \in Nat /\ taken \subseteq 1..gone
    BY Buffered DEF Take, IInv, TypeOK
<1>5. TypeOK' /\ Bounded'
  <2>1. fed' \in Seq(Byte)
      BY <1>3 DEF IInv, TypeOK
  <2>2. taken' \subseteq 1..gone'
      BY <1>1, <1>3, <1>4
  <2> QED
      BY <1>3, <1>4, <2>1, <2>2 DEF TypeOK, Bounded
<1>6. \A i : /\ Size(i)' = Size(i) /\ Whole(i)' = Whole(i)
             /\ Complete(i)' = Complete(i) /\ Sound(i)' = Sound(i)
             /\ Sizeable(i)' = Sizeable(i)
    BY <1>3 DEF Size, Whole, Sound, Complete, Sizeable
<1>7. \A i \in taken : i \in Nat /\ Size(i) \in Nat /\ i + Size(i) - 1 <= gone
    BY <1>4, Sizes DEF Handed, IInv, Whole, Complete, Sizeable
<1>8. Handed'
  <2>1. Whole(gone + 1)
      BY <1>1 DEF Whole, n
  <2> SUFFICES ASSUME NEW i \in taken \cup {gone + 1}
               PROVE  /\ Whole(i) /\ i + Size(i) - 1 <= gone + n
                      /\ \A j \in taken \cup {gone + 1} :
                            j = i \/ j + Size(j) - 1 < i \/ i + Size(i) - 1 < j
      BY <1>3, <1>4, <1>6 DEF Handed
  <2>2. CASE i \in taken
    <3>1. Whole(i) /\ i + Size(i) - 1 <= gone + n
        BY <1>1, <1>4, <1>7, <2>2 DEF Handed, IInv
    <3>2. \A j \in taken : j = i \/ j + Size(j) - 1 < i \/ i + Size(i) - 1 < j
        BY <2>2 DEF Handed, IInv
    <3>3. i + Size(i) - 1 < gone + 1
        BY <1>4, <1>7, <2>2
    <3> QED
        BY <3>1, <3>2, <3>3
  <2>3. CASE i = gone + 1
    <3>1. i + Size(i) - 1 <= gone + n
        BY <1>1, <1>4, <2>3 DEF n
    <3>2. \A j \in taken : j + Size(j) - 1 < i
        BY <1>4, <1>7, <2>3
    <3> QED
        BY <2>1, <2>3, <3>1, <3>2
  <2> QED
      BY <2>2, <2>3
<1>9. AllSettled'
  <2> SUFFICES ASSUME NEW i \in 1..(gone + n) PROVE Settled(i)'
      BY <1>3 DEF AllSettled
  <2>1. CASE i \in 1..gone
    <3>1. Settled(i)
        BY <2>1 DEF AllSettled, IInv
    <3> QED
        BY <1>3, <1>4, <1>6, <3>1 DEF Settled
  <2>2. CASE ~(i \in 1..gone)
    <3>1. gone + 1 <= i /\ i <= (gone + 1) + n - 1
        BY <1>1, <1>4, <2>2
    <3>2. PICK j \in taken' : j = gone + 1
        BY <1>4
    <3>3. Size(j)' = Size(j) /\ Size(j) = n
        BY <1>6, <3>2 DEF n
    <3> QED
        BY <3>1, <3>2, <3>3 DEF Settled
  <2> QED
      BY <2>1, <2>2
<1> QED
    BY <1>3, <1>5, <1>8, <1>9 DEF IInv

\* What has been said of the bytes that arrived stays true of them.
LEMMA FeedStep == ASSUME IInv, NEW data \in Seq(Byte), Feed(data) PROVE IInv'
<1>1. /\ buf' = buf \o data /\ fed' = fed \o data
      /\ mode' = "fed" /\ UNCHANGED <<gone, taken>>
    BY DEF Feed
<1>2. /\ fed' \in Seq(Byte) /\ buf' \in Seq(Byte)
      /\ Len(fed') = Len(fed) + Len(data) /\ Len(buf') = Len(buf) + Len(data)
      /\ Len(fed) \in Nat /\ Len(buf) \in Nat /\ Len(data) \in Nat
      /\ \A k \in 1..Len(fed) : fed'[k] = fed[k]
    BY <1>1, ConcatProperties, LenProperties DEF IInv, TypeOK
<1>3. TypeOK' /\ Bounded'
    BY <1>1, <1>2 DEF IInv, TypeOK, Bounded
<1>4. Remainder'
  <2>1. gone \in 0..Len(fed) /\ Len(buf) = Len(fed) - gone
      BY Buffered DEF IInv, TypeOK
  <2>2. /\ SubSeq(fed', gone + 1, Len(fed')) \in Seq(Byte)
        /\ Len(SubSeq(fed', gone + 1, Len(fed'))) = Len(fed') - gone
        /\ \A i \in 1..(Len(fed') - gone) :
                SubSeq(fed', gone + 1, Len(fed'))[i] = fed'[gone + i]
    <3>1. gone \in 0..Len(fed')
        BY <1>2, <2>1
    <3> QED
        BY <1>2, <3>1, Rest
  <2>3. \A i \in 1..Len(buf') : buf'[i] = fed'[gone + i]
    <3>1. \A i \in 1..(Len(buf) + Len(data)) :
            (buf \o data)[i] = IF i <= Len(buf) THEN buf[i] ELSE data[i - Len(buf)]
        BY ConcatProperties DEF IInv, TypeOK
    <3>2. \A i \in 1..(Len(fed) + Len(data)) :
            (fed \o data)[i] = IF i <= Len(fed) THEN fed[i] ELSE data[i - Len(fed)]
        BY ConcatProperties DEF IInv, TypeOK
    <3>3. \A i \in 1..Len(buf) : buf[i] = fed[gone + i]
        BY Buffered DEF IInv
    <3> SUFFICES ASSUME NEW i \in 1..(Len(buf) + Len(data))
                 PROVE  (buf \o data)[i] = (fed \o data)[gone + i]
        BY <1>1, <1>2
    <3>4. gone + i \in 1..(Len(fed) + Len(data))
        BY <1>2, <2>1
    <3>5. CASE i <= Len(buf)
      <4>1. gone + i <= Len(fed) /\ i \in 1..Len(buf)
          BY <1>2, <2>1, <3>5
      <4> QED
          BY <3>1, <3>2, <3>3, <3>4, <3>5, <4>1
    <3>6. CASE ~(i <= Len(buf))
      <4>1. ~(gone + i <= Len(fed)) /\ (gone + i) - Len(fed) = i - Len(buf)
          BY <1>2, <2>1, <3>6
      <4> QED
          BY <3>1, <3>2, <3>4, <3>6, <4>1
    <3> QED
        BY <3>5, <3>6
  <2>4. Len(buf') = Len(fed') - gone
      BY <1>2, <2>1
  <2>5. buf' = SubSeq(fed', gone + 1, Len(fed'))
      BY <1>2, <2>2, <2>3, <2>4, SeqEqual
  <2> QED
      BY <1>1, <2>5 DEF Remainder
<1>5. \A i : Sizeable(i) => Sizeable(i)' /\ Size(i)' = Size(i) /\ fed'[i] = fed[i]
  <2> SUFFICES ASSUME NEW i, Sizeable(i)
               PROVE  Sizeable(i)' /\ Size(i)' = Size(i) /\ fed'[i] = fed[i]
      OBVIOUS
  <2>1. {i, i + 1, i + 2} \subseteq 1..Len(fed) /\ i + 2 <= Len(fed')
      BY <1>2 DEF Sizeable
  <2> QED
      BY <1>2, <2>1 DEF Sizeable, Size
<1>6. \A i : Complete(i) => Complete(i)' /\ (Sound(i)' <=> Sound(i))
  <2> SUFFICES ASSUME NEW i, Complete(i)
               PROVE  Complete(i)' /\ (Sound(i)' <=> Sound(i))
      OBVIOUS
  <2>1. /\ Sizeable(i) /\ i \in 1..Len(fed) /\ i + Size(i) - 1 <= Len(fed)
        /\ Size(i) \in Nat /\ Size(i) >= 4
      BY Sizes DEF Complete, Sizeable, IInv
  <2>2. Sizeable(i)' /\ Size(i)' = Size(i)
      BY <1>5, <2>1
  <2>3. Complete(i)'
      BY <1>2, <2>1, <2>2 DEF Complete
  <2>4. fed'[i + Size(i) - 1] = fed[i + Size(i) - 1]
      BY <1>2, <2>1
  <2>5. SubSeq(fed', i + 3, i + Size(i) - 2) = SubSeq(fed, i + 3, i + Size(i) - 2)
    <3>1. CASE Size(i) = 4
      <4>1. i + Size(i) - 2 < i + 3 /\ i + 3 \in Int /\ i + Size(i) - 2 \in Int
          BY <2>1, <3>1
      <4> QED
          BY <4>1, SubSeqEmpty
    <3>2. CASE Size(i) # 4
      <4>1. i + 3 \in 1..Len(fed) /\ i + Size(i) - 2 \in 1..Len(fed)
          BY <1>2, <2>1, <3>2
      <4> QED
          BY <1>1, <4>1, SubSeqOfConcat1 DEF IInv, TypeOK
    <3> QED
        BY <3>1, <3>2
  <2> QED
      BY <2>2, <2>3, <2>4, <2>5 DEF Sound
<1>7. \A i : Whole(i) => Whole(i)' /\ Size(i)' = Size(i)
    BY <1>5, <1>6 DEF Whole, Complete
<1>8. \A i \in taken : Whole(i) /\ Whole(i)' /\ Size(i)' = Size(i)
    BY <1>7 DEF Handed, IInv
<1>9. Handed'
    BY <1>1, <1>8 DEF Handed, IInv
<1>10. AllSettled'
  <2> SUFFICES ASSUME NEW i \in 1..gone PROVE Settled(i)'
      BY <1>1 DEF AllSettled
  <2>1. Settled(i) /\ i \in 1..Len(fed)
      BY Buffered DEF AllSettled, IInv, TypeOK
  <2>2. CASE fed[i] # Header
      BY <1>2, <2>1, <2>2 DEF Settled
  <2>3. CASE Sizeable(i) /\ Size(i) > MaxFrameLen
      BY <1>5, <2>3 DEF Settled
  <2>4. CASE Complete(i) /\ ~Sound(i)
      BY <1>6, <2>4 DEF Settled
  <2>5. CASE \E j \in taken : j <= i /\ i <= j + Size(j) - 1
      BY <1>1, <1>8, <2>5 DEF Settled
  <2> QED
      BY <2>1, <2>2, <2>3, <2>4, <2>5 DEF Settled
<1> QED
    BY <1>3, <1>4, <1>9, <1>10 DEF IInv

\* The turns of next_frame's loop.
LEMMA NextFrameStep == ASSUME IInv, NextFrame PROVE IInv'
<1>1. /\ Len(buf) = Len(fed) - gone /\ DOMAIN buf = 1..Len(buf)
      /\ Len(buf) \in Nat /\ Len(fed) \in Nat /\ gone \in Nat
      /\ \A k \in 1..Len(buf) : buf[k] = fed[gone + k]
      /\ MaxFrameLen \in Nat /\ MaxFrameLen >= 4
    BY Buffered, AFrameFits DEF IInv, Overhead
\* What has no header in it settles itself.
<1>2. ASSUME NEW n \in 0..Len(buf), \A k \in 1..n : buf[k] # Header
      PROVE  \A i \in (gone + 1)..(gone + n) : Settled(i)
  <2> SUFFICES ASSUME NEW i \in (gone + 1)..(gone + n) PROVE fed[i] # Header
      BY DEF Settled
  <2>1. PICK k \in 1..n : i = gone + k
    <3>1. i - gone \in 1..n /\ i = gone + (i - gone)
        BY <1>1
    <3> QED
        BY <3>1
  <2>2. k \in 1..Len(buf)
      BY <1>1
  <2> QED
      BY <1>1, <1>2, <2>1, <2>2
\* A header that is dropped alone settles if its byte does.
<1>3. Settled(gone + 1) => \A i \in (gone + 1)..(gone + 1) : Settled(i)
  <2>1. \A i \in (gone + 1)..(gone + 1) : i = gone + 1
      BY <1>1
  <2> QED
      BY <2>1
<1>4. CASE NoHeader
  <2>1. /\ Drain(Len(buf)) /\ UNCHANGED taken /\ mode' = "idle"
        /\ \A k \in 1..Len(buf) : buf[k] # Header
      BY <1>1, <1>4 DEF NoHeader
  <2>2. Len(buf) \in 0..Len(buf) /\ Len(buf) - Len(buf) < MaxFrameLen
      BY <1>1
  <2>3. \A i \in (gone + 1)..(gone + Len(buf)) : Settled(i)
      BY <1>2, <2>1, <2>2
  <2> QED
      BY <2>1, <2>2, <2>3, SkipStep
<1>5. CASE SkipToHeader
  <2>1. PICK h \in DOMAIN buf \ {1} :
            /\ \A i \in 1..(h - 1) : buf[i] # Header
            /\ Drain(h - 1)
      BY <1>5 DEF SkipToHeader
  <2>2. h - 1 \in 0..Len(buf)
      BY <1>1
  <2>3. mode' = "fed" /\ UNCHANGED taken
      BY <1>5 DEF SkipToHeader
  <2>4. \A i \in (gone + 1)..(gone + (h - 1)) : Settled(i)
      BY <1>2, <2>1, <2>2
  <2> QED
      BY <2>1, <2>2, <2>3, <2>4, SkipStep
<1>6. CASE Wait
  <2>1. UNCHANGED <<buf, fed, gone, taken>> /\ mode' = "idle"
      BY <1>6 DEF Wait
  <2>2. Len(buf) < MaxFrameLen
    <3>1. CASE Len(buf) \in {1, 2}
        BY <1>1, <3>1
    <3>2. CASE Fits /\ Len(buf) < FrameLen(buf)
      <4>1. FrameLen(buf) \in Nat
          BY <3>2, Heads DEF Fits, Sized, IInv
      <4>2. Len(buf) < FrameLen(buf) /\ FrameLen(buf) <= MaxFrameLen
          BY <1>1, <3>2, <4>1 DEF Fits, TooLong
      <4> QED
          BY <1>1, <4>1, <4>2
    <3> QED
        BY <1>6, <3>1, <3>2 DEF Wait
  <2>3. \A i : /\ Whole(i)' = Whole(i) /\ Size(i)' = Size(i)
               /\ Settled(i)' = Settled(i)
      BY <2>1 DEF Size, Whole, Sound, Complete, Sizeable, Settled
  <2>4. Handed' /\ AllSettled'
      BY <2>1, <2>3 DEF Handed, AllSettled, IInv
  <2>5. TypeOK' /\ Remainder' /\ Bounded'
      BY <2>1, <2>2 DEF IInv, TypeOK, Remainder, Bounded
  <2> QED
      BY <2>4, <2>5 DEF IInv
<1>7. CASE Oversized
  <2>1. Sized /\ TooLong(buf) /\ Drain(1) /\ UNCHANGED taken /\ mode' = "fed"
      BY <1>7 DEF Oversized, Sized
  <2>2. Len(buf) >= 3 /\ 1 \in 0..Len(buf)
      BY <1>1, <2>1 DEF Sized
  <2>3. Sizeable(gone + 1) /\ Size(gone + 1) > MaxFrameLen
      BY <2>1, <2>2, Heads DEF TooLong, IInv
  <2>4. Settled(gone + 1)
      BY <2>3 DEF Settled
  <2> QED
      BY <1>3, <2>1, <2>2, <2>4, SkipStep
<1>8. CASE Damaged
  <2>1. /\ Sized /\ Len(buf) >= FrameLen(buf) /\ ~Intact(buf)
        /\ Drain(1) /\ UNCHANGED taken /\ mode' = "fed"
      BY <1>8 DEF Damaged, Fits, Sized
  <2>2. Len(buf) >= 3 /\ 1 \in 0..Len(buf)
      BY <1>1, <2>1 DEF Sized
  <2>3. Complete(gone + 1) /\ ~Sound(gone + 1)
      BY <2>1, <2>2, Heads DEF IInv
  <2>4. Settled(gone + 1)
      BY <2>3 DEF Settled
  <2> QED
      BY <1>3, <2>1, <2>2, <2>4, SkipStep
<1>9. CASE Take
    BY <1>9, TakeStep
<1> QED
    BY <1>4, <1>5, <1>6, <1>7, <1>8, <1>9 DEF NextFrame

\* A buffer with nothing in it, and a stream that begins with what comes next.
LEMMA FromNothing ==
    /\ Init => IInv
    /\ Clear => IInv'
<1>1. <<>> \in Seq(Byte) /\ Len(<<>>) = 0
    BY EmptySeq
<1>2. SubSeq(<<>>, 1, 0) = <<>>
    BY SubSeqEmpty
<1>3. MaxFrameLen \in Nat /\ MaxFrameLen >= 4
    BY AFrameFits DEF Overhead
<1>4. Init => IInv
    BY <1>1, <1>2, <1>3
       DEF Init, IInv, TypeOK, Remainder, Handed, AllSettled, Bounded
<1>5. Clear => IInv'
    BY <1>1, <1>2, <1>3
       DEF Clear, IInv, TypeOK, Remainder, Handed, AllSettled, Bounded
<1> QED
    BY <1>4, <1>5

LEMMA Stutter == IInv /\ UNCHANGED vars => IInv'
<1> SUFFICES ASSUME IInv, UNCHANGED <<buf, mode, fed, gone, taken>> PROVE IInv'
    BY DEF vars
<1>1. TypeOK' /\ Remainder' /\ Bounded'
    BY DEF IInv, TypeOK, Remainder, Bounded
<1>2. \A i : /\ Whole(i)' = Whole(i) /\ Size(i)' = Size(i)
             /\ Settled(i)' = Settled(i)
    BY DEF Size, Whole, Sound, Complete, Sizeable, Settled
<1> QED
    BY <1>1, <1>2 DEF IInv, Handed, AllSettled

LEMMA Invariance == Spec => []IInv
<1>1. ASSUME NEW data \in Chunks PROVE data \in Seq(Byte)
    BY DEF Chunks
<1>2. IInv /\ [Next]_vars => IInv'
    BY <1>1, FeedStep, NextFrameStep, FromNothing, Stutter DEF Next
<1> QED
    BY <1>2, FromNothing, PTL DEF Spec

-----------------------------------------------------------------------------
\* The assembler's buffer, and the history kept beside it, have their types.
THEOREM AssemblerTypeCorrect == Spec => []TypeOK
<1>1. IInv => TypeOK
    BY DEF IInv
<1> QED
    BY <1>1, Invariance, PTL

\* No byte is lost, repeated or moved between notifications.
THEOREM NoByteIsLost == Spec => []Remainder
<1>1. IInv => Remainder
    BY DEF IInv
<1> QED
    BY <1>1, Invariance, PTL

\* feed hands out intact frames of the stream only, none of which overlap.
THEOREM FramesAreOfTheStream == Spec => []OnlyFrames
<1>1. IInv => OnlyFrames
  <2> SUFFICES ASSUME IInv, NEW i \in taken
               PROVE  /\ FrameAt(i) /\ Span(i) \subseteq 1..gone
                      /\ \A j \in taken \ {i} : Span(i) \cap Span(j) = {}
      BY DEF OnlyFrames
  <2>1. gone \in Nat /\ Len(fed) \in Nat /\ taken \subseteq 1..gone
      BY Buffered DEF IInv, TypeOK
  <2>2. \A j \in taken : /\ j \in Nat /\ j >= 1 /\ FrameAt(j)
                         /\ Size(j) \in Nat /\ Span(j) = j..(j + Size(j) - 1)
    <3> SUFFICES ASSUME NEW j \in taken
                 PROVE  /\ j \in Nat /\ j >= 1 /\ FrameAt(j)
                        /\ Size(j) \in Nat /\ Span(j) = j..(j + Size(j) - 1)
        OBVIOUS
    <3>1. j \in Nat /\ j >= 1 /\ Whole(j)
        BY <2>1 DEF Handed, IInv
    <3>2. FrameLen(From(j)) = Size(j) /\ Size(j) \in Nat
        BY <3>1, Sizes DEF Whole, Complete, Sizeable, IInv
    <3> QED
        BY <3>1, <3>2, FrameIsWhole DEF Span, IInv
  <2>3. i + Size(i) - 1 <= gone
      BY DEF Handed, IInv
  <2>4. \A j \in taken \ {i} : j + Size(j) - 1 < i \/ i + Size(i) - 1 < j
      BY DEF Handed, IInv
  <2>5. ASSUME NEW j \in taken \ {i} PROVE Span(i) \cap Span(j) = {}
    <3>1. \A a, b, c, d \in Int : b < c =>
            (a..b) \cap (c..d) = {} /\ (c..d) \cap (a..b) = {}
        OBVIOUS
    <3>2. /\ i \in Int /\ j \in Int
          /\ i + Size(i) - 1 \in Int /\ j + Size(j) - 1 \in Int
        BY <2>2
    <3>3. Span(i) = i..(i + Size(i) - 1) /\ Span(j) = j..(j + Size(j) - 1)
        BY <2>2
    <3> QED
        BY <2>4, <3>1, <3>2, <3>3
  <2>6. Span(i) \subseteq 1..gone
      BY <2>1, <2>2, <2>3
  <2> QED
      BY <2>2, <2>5, <2>6
<1> QED
    BY <1>1, Invariance, PTL

\* Resynchronizing costs no intact frame that does not overlap one handed out.
THEOREM NoFrameIsMissed == Spec => []NothingMissed
<1>1. IInv => NothingMissed
  <2> SUFFICES ASSUME IInv, NEW i \in 1..gone, FrameAt(i)
               PROVE  \E j \in taken : j <= i /\ i \in Span(j)
      BY DEF NothingMissed
  <2>1. gone \in Nat /\ i \in Nat /\ taken \subseteq 1..gone
      BY Buffered DEF IInv, TypeOK
  <2>2. Whole(i)
      BY <2>1, FrameIsWhole DEF IInv
  <2>3. Size(i) \in Nat /\ MaxFrameLen \in Nat
      BY <2>2, Sizes, AFrameFits DEF Whole, Complete, Sizeable, IInv
  <2>4. Settled(i)
      BY DEF AllSettled, IInv
  <2>5. PICK j \in taken : j <= i /\ i <= j + Size(j) - 1
      BY <2>2, <2>3, <2>4 DEF Settled, Whole
  <2>6. FrameLen(From(j)) = Size(j) /\ Size(j) \in Nat /\ j \in Nat
      BY <2>1, Sizes DEF Handed, Whole, Complete, Sizeable, IInv
  <2>7. i \in Span(j)
      BY <2>1, <2>5, <2>6 DEF Span
  <2> QED
      BY <2>5, <2>7
<1> QED
    BY <1>1, Invariance, PTL

\* What an exhausted iterator leaves in the buffer is shorter than a frame may be.
THEOREM BufferIsBounded == Spec => []Bounded
<1>1. IInv => Bounded
    BY DEF IInv
<1> QED
    BY <1>1, Invariance, PTL
=============================================================================
