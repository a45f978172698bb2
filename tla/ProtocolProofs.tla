---------------------------- MODULE ProtocolProofs ----------------------------
(***************************************************************************)
(* Proofs about the protocol: WireFormat, for any limits, characters, ids  *)
(* and ports, and Framing, for any writers, messages, locks and capacity.  *)
(*                                                                         *)
(* A Receive function undoes its Send function whatever is behind the      *)
(* payload, and refuses every payload that breaks off.  Holds(b, at, s)    *)
(* says that the buffer b has the bytes s at an offset; the lemmas say     *)
(* what each field's reader returns there, and each message is then a      *)
(* matter of finding its fields one behind the other.                      *)
(*                                                                         *)
(* The reader gets whole messages because of what is between it and the    *)
(* writers: as long as the stream is orderly there are numbers at[1],      *)
(* at[2], ... where its messages begin, each where the one before it ends, *)
(* such that every unit that is not consumed is the one its place in the   *)
(* stream demands, from where the reader is to where the writer is.        *)
(***************************************************************************)
EXTENDS Framing, WireFormat, SequenceTheorems, TLAPS

Byte == 0 .. 255
Words == {n \in Nat : n < 65536}
Bytes == Seq(Byte)

Holds(b, at, s) == /\ at + Len(s) <= Len(b)
                   /\ \A i \in 1 .. Len(s) : b[at + i] = s[i]

-----------------------------------------------------------------------------
(* Payloads: numbers.                                                                *)

\* What WriteUInt8, WriteUInt16 and WriteUInt32 write are bytes.
LEMMA NumbersAreBytes ==
    /\ \A x \in Nat : WriteUInt8(x) \in Bytes /\ Len(WriteUInt8(x)) = 1
    /\ \A x \in Nat : WriteUInt16(x) \in Bytes /\ Len(WriteUInt16(x)) = 2
    /\ \A x \in Nat : WriteUInt32(x) \in Bytes /\ Len(WriteUInt32(x)) = 4
  <1>1. \A x \in Nat : x % 256 \in Byte /\ (x \div 256) % 256 \in Byte
                       /\ (x \div 65536) % 256 \in Byte /\ (x \div 16777216) % 256 \in Byte
    BY SMT DEF Byte
  <1> QED BY <1>1, SMT DEF WriteUInt8, WriteUInt16, WriteUInt32, Bytes

\* What is no more than a number of two bytes is one.
LEMMA WordsBelow ==
    ASSUME NEW max \in Words, NEW n \in 0 .. max
    PROVE  n \in Words /\ n \in Nat /\ max \in Nat
  <1>1. max \in Nat /\ max < 65536
    BY SMT DEF Words
  <1>2. n \in Nat /\ n < 65536
    BY <1>1, SMT
  <1> QED BY <1>1, <1>2, SMT DEF Words

\* ReadUInt8 undoes WriteUInt8.
LEMMA UInt8Back ==
    ASSUME NEW b \in Bytes, NEW at \in Nat, NEW x \in 0 .. 255, Holds(b, at, WriteUInt8(x))
    PROVE  ReadUInt8(b, at) = x
  <1>1. Len(WriteUInt8(x)) = 1 /\ WriteUInt8(x)[1] = x % 256
    BY SMT DEF WriteUInt8
  <1>2. b[at + 1] = x % 256
    BY <1>1, SMT DEF Holds
  <1> QED BY <1>2, SMT DEF ReadUInt8

\* ReadUInt16 undoes WriteUInt16.
LEMMA UInt16Back ==
    ASSUME NEW b \in Bytes, NEW at \in Nat, NEW x \in Words, Holds(b, at, WriteUInt16(x))
    PROVE  ReadUInt16(b, at) = x
  <1>1. /\ Len(WriteUInt16(x)) = 2
        /\ WriteUInt16(x)[1] = (x \div 256) % 256
        /\ WriteUInt16(x)[2] = x % 256
    BY SMT DEF WriteUInt16
  <1>2. b[at + 1] = (x \div 256) % 256 /\ b[at + 2] = x % 256
    BY <1>1, SMT DEF Holds
  <1>3. x \in Nat /\ x <= 65535
    BY SMT DEF Words
  <1>4. ((x \div 256) % 256) * 256 + (x % 256) = x
    BY <1>3, SMT
  <1> QED BY <1>2, <1>4, SMT DEF ReadUInt16

\* ReadUInt32 undoes WriteUInt32.
LEMMA UInt32Back ==
    ASSUME NEW b \in Bytes, NEW at \in Nat, NEW x \in Nat, x \div 16777216 < 256,
           Holds(b, at, WriteUInt32(x))
    PROVE  ReadUInt32(b, at) = x
  <1>1. /\ Len(WriteUInt32(x)) = 4
        /\ WriteUInt32(x)[1] = (x \div 16777216) % 256
        /\ WriteUInt32(x)[2] = (x \div 65536) % 256
        /\ WriteUInt32(x)[3] = (x \div 256) % 256
        /\ WriteUInt32(x)[4] = x % 256
    BY SMT DEF WriteUInt32
  <1>2. /\ b[at + 1] = (x \div 16777216) % 256
        /\ b[at + 2] = (x \div 65536) % 256
        /\ b[at + 3] = (x \div 256) % 256
        /\ b[at + 4] = x % 256
    BY <1>1, SMTT(30) DEF Holds
  <1>3. ((x \div 16777216) % 256) * 16777216 + ((x \div 65536) % 256) * 65536
          + ((x \div 256) % 256) * 256 + (x % 256) = x
    BY SMT
  <1> QED BY <1>2, <1>3, SMT DEF ReadUInt32

-----------------------------------------------------------------------------
(* Bytes one behind the other.                                             *)

\* A buffer that has s and then t at an offset has s there and t behind it.
LEMMA HoldsBoth ==
    ASSUME NEW b \in Bytes, NEW at \in Nat, NEW s \in Bytes, NEW t \in Bytes,
           Holds(b, at, s \o t)
    PROVE  Holds(b, at, s) /\ Holds(b, at + Len(s), t)
  <1>1. /\ Len(s) \in Nat /\ Len(t) \in Nat /\ Len(b) \in Nat
        /\ Len(s \o t) = Len(s) + Len(t)
    BY DEF Bytes
  <1>2. Holds(b, at, s)
    <2>1. \A i \in 1 .. Len(s) : (s \o t)[i] = s[i] /\ i \in 1 .. Len(s \o t)
      BY <1>1 DEF Bytes
    <2> QED BY <1>1, <2>1 DEF Holds
  <1>3. ASSUME NEW i \in 1 .. Len(t)
        PROVE  b[(at + Len(s)) + i] = t[i]
    <2>1. Len(s) + i \in 1 .. Len(s \o t) /\ (s \o t)[Len(s) + i] = t[i]
      BY <1>1 DEF Bytes
    <2>2. at + (Len(s) + i) = (at + Len(s)) + i
      BY <1>1
    <2> QED BY <2>1, <2>2 DEF Holds
  <1> QED BY <1>1, <1>2, <1>3 DEF Holds

\* A payload is at the beginning of the buffer it was received in.
LEMMA HoldsPayload ==
    ASSUME NEW s \in Bytes, NEW stale \in Bytes
    PROVE  /\ s \o stale \in Bytes
           /\ Holds(s \o stale, 0, s)
  BY DEF Holds, Bytes

-----------------------------------------------------------------------------
(* Texts.                                                                  *)

\* The texts of at most max characters are strings of bytes.
LEMMA TextsAreBytes ==
    ASSUME NEW max \in Nat, NEW s \in Text(max)
    PROVE  /\ s \in Bytes
           /\ Len(s) \in 0 .. max
  <1>1. PICK n \in 0 .. max : s \in [1 .. n -> Chars]
    BY DEF Text
  <1>2. \A i \in 1 .. n : s[i] \in Byte
    <2> TAKE i \in 1 .. n
    <2>1. s[i] \in Chars
      BY <1>1
    <2>2. s[i] \in 1 .. 255
      BY <2>1, BytesAssumption DEF BytesAssumption
    <2> QED BY <2>2, SMT DEF Byte
  <1>3. s \in [1 .. n -> Byte]
    BY <1>1, <1>2
  <1>4. n \in Nat /\ n <= max
    BY <1>1
  <1>5. s \in Seq(Byte) /\ Len(s) = n
    BY <1>3, <1>4
  <1> QED BY <1>4, <1>5 DEF Bytes

\* The limits are numbers of two bytes.
LEMMA LimitsInWords ==
    /\ MaxKeySize \in Words /\ MaxValueSize \in Words /\ MaxTextSize \in Words
    /\ MaxErrorSize \in Words /\ MaxTextSize <= MaxErrorSize
  <1>1. MaxKeySize \in Nat /\ MaxKeySize < 65536
    BY LimitsAssumption, SMT DEF LimitsAssumption
  <1>2. MaxValueSize \in Nat /\ MaxValueSize < 65536
    BY LimitsAssumption, SMT DEF LimitsAssumption
  <1>3. /\ MaxTextSize \in Nat /\ MaxTextSize < 65536
        /\ MaxErrorSize \in Nat /\ MaxErrorSize < 65536 /\ MaxTextSize <= MaxErrorSize
    BY LimitsAssumption, SMT DEF LimitsAssumption
  <1> QED BY <1>1, <1>2, <1>3, SMT DEF Words

\* Keys, values and other texts are strings of bytes.
LEMMA TextLengths ==
    /\ \A s \in Keys \cup Values \cup Text(MaxTextSize) : s \in Bytes /\ Len(s) \in Nat
    /\ \A s \in Text(MaxTextSize) : Len(s) <= MaxTextSize
    /\ << >> \in Values
  <1>1. MaxKeySize \in Nat /\ MaxValueSize \in Nat /\ MaxTextSize \in Nat
    BY LimitsInWords, SMT DEF Words
  <1>2. \A max \in Nat : \A s \in Text(max) : s \in Bytes /\ Len(s) \in Nat /\ Len(s) <= max
    <2> TAKE max \in Nat
    <2> TAKE s \in Text(max)
    <2>1. s \in Bytes /\ Len(s) \in 0 .. max
      BY TextsAreBytes
    <2> QED BY <2>1
  <1>3. << >> \in [1 .. 0 -> Chars] /\ 0 \in 0 .. MaxValueSize
    BY <1>1
  <1>4. << >> \in Text(MaxValueSize)
    BY <1>3 DEF Text
  <1> QED BY <1>1, <1>2, <1>4 DEF Keys, Values

\* What WriteText writes are bytes, two more than the characters.
LEMMA WrittenText ==
    ASSUME NEW s \in Bytes
    PROVE  /\ WriteText(s) \in Bytes
           /\ Len(WriteText(s)) = 2 + Len(s)
  <1>1. Len(s) \in Nat
    BY DEF Bytes
  <1>2. WriteUInt16(Len(s)) \in Bytes /\ Len(WriteUInt16(Len(s))) = 2
    BY <1>1, NumbersAreBytes
  <1>3. /\ WriteUInt16(Len(s)) \o s \in Bytes
        /\ Len(WriteUInt16(Len(s)) \o s) = 2 + Len(s)
    <2> DEFINE u == WriteUInt16(Len(s))
    <2> HIDE DEF u
    <2>1. u \in Seq(Byte) /\ Len(u) = 2 /\ s \in Seq(Byte)
      BY <1>2 DEF u, Bytes
    <2>2. u \o s \in Seq(Byte) /\ Len(u \o s) = Len(u) + Len(s)
      BY <2>1, ConcatProperties
    <2>3. u \o s \in Bytes /\ Len(u \o s) = 2 + Len(s)
      BY <2>1, <2>2, <1>1 DEF Bytes
    <2> QED BY <2>3 DEF u
  <1> QED BY <1>3 DEF WriteText

\* TextAt reads back what WriteText wrote, and TextFits holds exactly when all
\* of it lies in the payload.
LEMMA TextBack ==
    ASSUME NEW b \in Bytes, NEW at \in Nat, NEW max \in Words, NEW s \in Text(max),
           NEW size \in 0 .. Len(b), Holds(b, at, WriteText(s))
    PROVE  /\ ReadUInt16(b, at) = Len(s)
           /\ TextAt(b, at) = s
           /\ After(b, at) = at + 2 + Len(s)
           /\ TextFits(b, size, at, max) <=> at + 2 + Len(s) <= size
  <1>1. s \in Bytes /\ Len(s) \in 0 .. max /\ Len(s) \in Words /\ Len(b) \in Nat
    <2>1. max \in Nat
      BY SMT DEF Words
    <2>2. s \in Bytes /\ Len(s) \in 0 .. max
      BY <2>1, TextsAreBytes
    <2>3. Len(b) \in Nat
      BY DEF Bytes
    <2> QED BY <2>2, <2>3, WordsBelow
  <1>2. WriteUInt16(Len(s)) \in Bytes /\ Len(WriteUInt16(Len(s))) = 2
    BY <1>1, NumbersAreBytes
  <1>3. Holds(b, at, WriteUInt16(Len(s))) /\ Holds(b, at + 2, s)
    BY <1>1, <1>2, HoldsBoth DEF WriteText
  <1>4. ReadUInt16(b, at) = Len(s)
    BY <1>1, <1>3, UInt16Back
  <1>5. After(b, at) = at + 2 + Len(s)
    BY <1>4 DEF After
  <1>6. TextAt(b, at) = s
    <2> DEFINE u == SubSeq(b, at + 2 + 1, at + 2 + Len(s))
    <2>1. at + 2 + Len(s) <= Len(b)
      BY <1>1, <1>3 DEF Holds
    <2>2. u \in Seq(Byte) /\ Len(u) = Len(s)
      BY <1>1, <2>1 DEF Bytes
    <2>3. \A i \in 1 .. Len(s) : u[i] = b[at + 2 + i]
      BY <1>1, <2>1 DEF Bytes
    <2>4. \A i \in 1 .. Len(s) : u[i] = s[i]
      BY <2>3, <1>3 DEF Holds
    <2>5. s \in Seq(Byte)
      BY <1>1 DEF Bytes
    <2> HIDE DEF u
    <2>6. u = s
      BY <2>2, <2>4, <2>5, SeqEqual
    <2> QED BY <2>6, <1>4 DEF u, TextAt, ReadString
  <1>7. TextFits(b, size, at, max) <=> at + 2 + Len(s) <= size
    BY <1>1, <1>4, <1>5 DEF TextFits
  <1> QED BY <1>4, <1>5, <1>6, <1>7

\* A key and a value one behind the other are read back, and both fit exactly
\* when the value does.
LEMMA KeyValueBack ==
    ASSUME NEW b \in Bytes, NEW at \in Nat, NEW k \in Keys, NEW v \in Values,
           NEW size \in 0 .. Len(b),
           Holds(b, at, WriteText(k)), Holds(b, at + 2 + Len(k), WriteText(v))
    PROVE  /\ TextAt(b, at) = k
           /\ TextAt(b, After(b, at)) = v
           /\ (TextFits(b, size, at, MaxKeySize) /\ TextFits(b, size, After(b, at), MaxValueSize))
                 <=> at + 2 + Len(k) + 2 + Len(v) <= size
  <1>1. MaxKeySize \in Words /\ MaxValueSize \in Words
    BY LimitsInWords
  <1>2. k \in Text(MaxKeySize) /\ v \in Text(MaxValueSize)
    BY DEF Keys, Values
  <1>3. k \in Bytes /\ v \in Bytes /\ Len(k) \in Nat /\ Len(v) \in Nat
    BY TextLengths
  <1>4. /\ TextAt(b, at) = k
        /\ After(b, at) = at + 2 + Len(k)
        /\ TextFits(b, size, at, MaxKeySize) <=> at + 2 + Len(k) <= size
    BY <1>1, <1>2, TextBack
  <1> DEFINE mid == at + 2 + Len(k)
  <1>5. mid \in Nat
    BY <1>3
  <1>6. Holds(b, mid, WriteText(v))
    OBVIOUS
  <1>7. After(b, at) = mid
    BY <1>4
  <1> HIDE DEF mid
  <1>8. /\ TextAt(b, mid) = v
        /\ TextFits(b, size, mid, MaxValueSize) <=> mid + 2 + Len(v) <= size
    BY <1>1, <1>2, <1>5, <1>6, TextBack
  <1>9. /\ TextAt(b, After(b, at)) = v
        /\ TextFits(b, size, After(b, at), MaxValueSize) <=> mid + 2 + Len(v) <= size
    BY <1>7, <1>8
  <1>10. size \in Nat
    <2>1. Len(b) \in Nat
      BY DEF Bytes
    <2> QED BY <2>1
  <1>11. (mid <= size /\ mid + 2 + Len(v) <= size) <=> mid + 2 + Len(v) <= size
    BY <1>3, <1>5, <1>10
  <1> QED BY <1>4, <1>9, <1>11 DEF mid

-----------------------------------------------------------------------------
(* Fields behind other fields.                                             *)

\* Two strings of bytes one behind the other are one.
LEMMA Joined ==
    ASSUME NEW s \in Bytes, NEW t \in Bytes
    PROVE  s \o t \in Bytes /\ Len(s \o t) = Len(s) + Len(t) /\ Len(s) \in Nat /\ Len(t) \in Nat
  BY ConcatProperties DEF Bytes

\* p is s with t behind it.
Behind(p, s, t) == p = s \o t

\* A buffer that has two fields at its beginning has each of them.
LEMMA TwoFields ==
    ASSUME NEW b \in Bytes, NEW s \in Bytes, NEW t \in Bytes, NEW p \in Bytes,
           Behind(p, s, t), Holds(b, 0, p)
    PROVE  /\ Len(p) = Len(s) + Len(t)
           /\ Holds(b, 0, s) /\ Holds(b, Len(s), t)
           /\ Len(p) <= Len(b)
  <1>1. Len(s) \in Nat /\ Len(p) = Len(s) + Len(t)
    BY Joined DEF Behind
  <1>2. Holds(b, 0, s) /\ Holds(b, 0 + Len(s), t)
    <2>1. Holds(b, 0, s \o t) /\ 0 \in Nat
      BY DEF Behind
    <2> QED BY <2>1, HoldsBoth
  <1>3. 0 + Len(s) = Len(s)
    BY <1>1
  <1>4. Len(p) <= Len(b)
    <2>1. 0 + Len(p) <= Len(b) /\ Len(p) \in Nat
      BY DEF Holds, Bytes
    <2> QED BY <2>1
  <1> QED BY <1>1, <1>2, <1>3, <1>4

\* A key behind other fields, the last one of the payload, fits exactly when
\* the payload is whole.
LEMMA KeyBehind ==
    ASSUME NEW b \in Bytes, NEW pre \in Bytes, NEW k \in Keys, NEW p \in Bytes,
           Behind(p, pre, WriteText(k)), Holds(b, 0, p),
           NEW size \in 0 .. Len(p)
    PROVE  /\ Holds(b, 0, pre)
           /\ TextAt(b, Len(pre)) = k
           /\ TextFits(b, size, Len(pre), MaxKeySize) <=> size = Len(p)
           /\ size = Len(p) => size >= Len(pre)
  <1>1. k \in Bytes /\ Len(k) \in Nat /\ k \in Text(MaxKeySize) /\ MaxKeySize \in Words
    BY TextLengths, LimitsInWords DEF Keys
  <1>2. WriteText(k) \in Bytes /\ Len(WriteText(k)) = 2 + Len(k)
    BY <1>1, WrittenText
  <1>3. /\ Len(p) = Len(pre) + Len(WriteText(k))
        /\ Holds(b, 0, pre)
        /\ Holds(b, Len(pre), WriteText(k))
        /\ Len(p) <= Len(b)
    BY <1>2, TwoFields
  <1>4. Len(pre) \in Nat /\ Len(b) \in Nat /\ Len(p) \in Nat
    BY DEF Bytes
  <1>5. size \in 0 .. Len(b)
    BY <1>3, <1>4
  <1>6. /\ TextAt(b, Len(pre)) = k
        /\ TextFits(b, size, Len(pre), MaxKeySize) <=> Len(pre) + 2 + Len(k) <= size
    BY <1>1, <1>3, <1>4, <1>5, TextBack
  <1> DEFINE whole == Len(p)
             front == Len(pre)
  <1>7. /\ whole = front + (2 + Len(k))
        /\ front \in Nat /\ size \in 0 .. whole
    BY <1>2, <1>3, <1>4
  <1> HIDE DEF whole, front
  <1>8. front + 2 + Len(k) <= size <=> size = whole
    BY <1>1, <1>7
  <1>9. size = whole => size >= front
    BY <1>1, <1>7
  <1> QED BY <1>3, <1>6, <1>8, <1>9 DEF whole, front

\* A key and a value behind other fields, the last ones of the payload, fit
\* exactly when the payload is whole.
LEMMA KeyValueBehind ==
    ASSUME NEW b \in Bytes, NEW pre \in Bytes, NEW k \in Keys, NEW v \in Values, NEW p \in Bytes,
           NEW u \in Bytes, Behind(u, pre, WriteText(k)), Behind(p, u, WriteText(v)),
           Holds(b, 0, p), NEW size \in 0 .. Len(p)
    PROVE  /\ Holds(b, 0, pre)
           /\ TextAt(b, Len(pre)) = k
           /\ TextAt(b, After(b, Len(pre))) = v
           /\ (/\ TextFits(b, size, Len(pre), MaxKeySize)
               /\ TextFits(b, size, After(b, Len(pre)), MaxValueSize)) <=> size = Len(p)
           /\ size = Len(p) => size >= Len(pre)
  <1>1. k \in Bytes /\ Len(k) \in Nat /\ v \in Bytes /\ Len(v) \in Nat
    BY TextLengths
  <1>2. /\ WriteText(k) \in Bytes /\ Len(WriteText(k)) = 2 + Len(k)
        /\ WriteText(v) \in Bytes /\ Len(WriteText(v)) = 2 + Len(v)
    BY <1>1, WrittenText
  <1>3. /\ Len(p) = Len(u) + Len(WriteText(v))
        /\ Holds(b, 0, u)
        /\ Holds(b, Len(u), WriteText(v))
        /\ Len(p) <= Len(b)
    BY <1>2, TwoFields
  <1>4. /\ Len(u) = Len(pre) + Len(WriteText(k))
        /\ Holds(b, 0, pre)
        /\ Holds(b, Len(pre), WriteText(k))
    BY <1>2, <1>3, TwoFields
  <1>5. Len(pre) \in Nat /\ Len(b) \in Nat /\ Len(p) \in Nat
    BY DEF Bytes
  <1>6. /\ Len(u) = Len(pre) + 2 + Len(k)
        /\ size \in 0 .. Len(b)
    BY <1>1, <1>2, <1>3, <1>4, <1>5
  <1>7. Holds(b, Len(pre) + 2 + Len(k), WriteText(v))
    BY <1>3, <1>6
  <1>8. /\ TextAt(b, Len(pre)) = k
        /\ TextAt(b, After(b, Len(pre))) = v
        /\ (/\ TextFits(b, size, Len(pre), MaxKeySize)
            /\ TextFits(b, size, After(b, Len(pre)), MaxValueSize))
              <=> Len(pre) + 2 + Len(k) + 2 + Len(v) <= size
    BY <1>4, <1>5, <1>6, <1>7, KeyValueBack
  <1> DEFINE whole == Len(p)
             front == Len(pre)
  <1>9. /\ whole = (front + 2 + Len(k)) + (2 + Len(v))
        /\ front \in Nat /\ size \in 0 .. whole
    BY <1>2, <1>3, <1>5, <1>6
  <1> HIDE DEF whole, front
  <1>10. front + 2 + Len(k) + 2 + Len(v) <= size <=> size = whole
    BY <1>1, <1>9
  <1>11. size = whole => size >= front
    BY <1>1, <1>9
  <1> QED BY <1>4, <1>8, <1>10, <1>11 DEF whole, front

\* A result is read back.
LEMMA ResultBack ==
    ASSUME NEW x \in Codes
    PROVE  /\ WriteUInt8(x) \in Bytes /\ Len(WriteUInt8(x)) = 1
           /\ \A b \in Bytes : Holds(b, 0, WriteUInt8(x)) => ReadUInt8(b, 0) = x
  <1>1. x \in 0 .. 255 /\ x \in Nat
    BY DEF Codes
  <1>2. ASSUME NEW b \in Bytes, Holds(b, 0, WriteUInt8(x))
        PROVE  ReadUInt8(b, 0) = x
    BY <1>1, <1>2, UInt8Back
  <1> QED BY <1>1, <1>2, NumbersAreBytes, SMT

\* An id is read back.
LEMMA IdBack ==
    ASSUME NEW id \in Ids
    PROVE  /\ WriteUInt32(id) \in Bytes /\ Len(WriteUInt32(id)) = 4
           /\ \A b \in Bytes, at \in Nat : Holds(b, at, WriteUInt32(id)) => ReadUInt32(b, at) = id
  <1>1. id \in Nat /\ id \div 16777216 < 256
    BY NumbersAssumption, SMT DEF NumbersAssumption
  <1>2. ASSUME NEW b \in Bytes, NEW at \in Nat, Holds(b, at, WriteUInt32(id))
        PROVE  ReadUInt32(b, at) = id
    BY <1>1, <1>2, UInt32Back, SMT
  <1> QED BY <1>1, <1>2, NumbersAreBytes, SMT

\* A result and the id behind it are read back.
LEMMA ResultIdBack ==
    ASSUME NEW x \in Codes, NEW id \in Ids
    PROVE  /\ WriteUInt8(x) \o WriteUInt32(id) \in Bytes
           /\ Len(WriteUInt8(x) \o WriteUInt32(id)) = 5
           /\ \A b \in Bytes : Holds(b, 0, WriteUInt8(x) \o WriteUInt32(id)) =>
                 ReadUInt8(b, 0) = x /\ ReadUInt32(b, 1) = id
  <1>1. /\ WriteUInt8(x) \in Bytes /\ Len(WriteUInt8(x)) = 1
        /\ WriteUInt32(id) \in Bytes /\ Len(WriteUInt32(id)) = 4
    BY ResultBack, IdBack
  <1>2. /\ WriteUInt8(x) \o WriteUInt32(id) \in Bytes
        /\ Len(WriteUInt8(x) \o WriteUInt32(id)) = Len(WriteUInt8(x)) + Len(WriteUInt32(id))
    BY <1>1, Joined
  <1>3. ASSUME NEW b \in Bytes, Holds(b, 0, WriteUInt8(x) \o WriteUInt32(id))
        PROVE  ReadUInt8(b, 0) = x /\ ReadUInt32(b, 1) = id
    <2>1. Holds(b, 0, WriteUInt8(x)) /\ Holds(b, 0 + Len(WriteUInt8(x)), WriteUInt32(id))
      BY <1>1, <1>3, HoldsBoth
    <2>2. 0 + Len(WriteUInt8(x)) = 1
      BY <1>1
    <2>3. Holds(b, 1, WriteUInt32(id))
      BY <2>1, <2>2
    <2> QED BY <2>1, <2>3, ResultBack, IdBack
  <1> QED BY <1>1, <1>2, <1>3

-----------------------------------------------------------------------------
(* The messages.                                                           *)

\* A buffer that begins with the payload of m gives g when size is all of the
\* payload, and Malformed when it is less.
UndoneTo(m, g) == /\ Encoded(m) \in Bytes
                  /\ \A b \in Bytes : Holds(b, 0, Encoded(m)) =>
                        \A size \in 0 .. Len(Encoded(m)) :
                           Decoded(m.type, b, size) =
                              IF size = Len(Encoded(m)) THEN g ELSE Malformed

Undone(m) == UndoneTo(m, m)

\* A key and a value: PUT, DATA_ENTRY, PEER_NOTIFY.
LEMMA PairsUndone == \A m \in Pairs : Undone(m)
  <1> SUFFICES ASSUME NEW m \in Pairs PROVE Undone(m)
    OBVIOUS
  <1> DEFINE p == WriteText(m.key) \o WriteText(m.value)
             fits(b, size) == /\ TextFits(b, size, 0, MaxKeySize)
                              /\ TextFits(b, size, After(b, 0), MaxValueSize)
             r(b) == [type |-> m.type, key |-> TextAt(b, 0), value |-> TextAt(b, After(b, 0))]
             e == << >>
  <1>1. /\ m.key \in Keys /\ m.value \in Values
        /\ m.type \in {"PUT", "DATA_ENTRY", "PEER_NOTIFY"}
        /\ m = [type |-> m.type, key |-> m.key, value |-> m.value]
    BY DEF Pairs
  <1>2. Encoded(m) = p
    BY <1>1 DEF Encoded, SendPut, SendDataEntry, SendPeerNotify
  <1>3. \A b, size : Decoded(m.type, b, size) = IF fits(b, size) THEN r(b) ELSE Malformed
    BY <1>1 DEF Decoded, ReceivePut, ReceiveDataEntry, ReceivePeerNotify
  <1>4. e \in Bytes /\ Len(e) = 0
    BY DEF Bytes
  <1>5. WriteText(m.key) \in Bytes /\ WriteText(m.value) \in Bytes
    BY <1>1, TextLengths, WrittenText
  <1>6. p \in Bytes
    BY <1>5, Joined
  <1>7. Behind(WriteText(m.key), e, WriteText(m.key)) /\ Behind(p, WriteText(m.key), WriteText(m.value))
    <2>1. e \o WriteText(m.key) = WriteText(m.key)
      BY <1>5, ConcatEmptySeq DEF Bytes
    <2> QED BY <2>1 DEF Behind
  <1> HIDE DEF p, e
  <1>8. ASSUME NEW b \in Bytes, Holds(b, 0, p), NEW size \in 0 .. Len(p)
        PROVE  (IF fits(b, size) THEN r(b) ELSE Malformed) = IF size = Len(p) THEN m ELSE Malformed
    <2>1. /\ TextAt(b, Len(e)) = m.key
          /\ TextAt(b, After(b, Len(e))) = m.value
          /\ (/\ TextFits(b, size, Len(e), MaxKeySize)
              /\ TextFits(b, size, After(b, Len(e)), MaxValueSize)) <=> size = Len(p)
      BY <1>1, <1>4, <1>5, <1>6, <1>7, <1>8, KeyValueBehind
    <2>2. r(b) = m /\ (fits(b, size) <=> size = Len(p))
      BY <1>1, <1>4, <2>1
    <2> QED BY <2>2
  <1> HIDE DEF fits, r
  <1> QED BY <1>2, <1>3, <1>6, <1>8 DEF Undone, UndoneTo

\* A result and a key: PUT_RESPONSE.
LEMMA AnswersUndone == \A m \in Answers : Undone(m)
  <1> SUFFICES ASSUME NEW m \in Answers PROVE Undone(m)
    OBVIOUS
  <1> DEFINE pre == WriteUInt8(m.result)
             u == pre \o WriteText(m.key)
             p == u
             fits(b, size) == TextFits(b, size, 1, MaxKeySize)
             r(b) == [type |-> "PUT_RESPONSE", result |-> ReadUInt8(b, 0), key |-> TextAt(b, 1)]
  <1>1. /\ m.result \in Codes /\ m.key \in Keys
        /\ m.type = "PUT_RESPONSE"
        /\ m = [type |-> "PUT_RESPONSE", result |-> m.result, key |-> m.key]
    BY DEF Answers
  <1>2. Encoded(m) = p
    BY <1>1 DEF Encoded, SendPutResponse
  <1>3. \A b, size : Decoded(m.type, b, size) =
           IF 1 <= size /\ fits(b, size) THEN r(b) ELSE Malformed
    BY <1>1 DEF Decoded, ReceivePutResponse
  <1>4. /\ pre \in Bytes /\ Len(pre) = 1
        /\ \A b \in Bytes : Holds(b, 0, pre) => ReadUInt8(b, 0) = m.result
    BY <1>1, ResultBack
  <1>5. WriteText(m.key) \in Bytes
    BY <1>1, TextLengths, WrittenText
  <1>6. p \in Bytes
    BY <1>4, <1>5, Joined
  <1>7. Behind(p, pre, WriteText(m.key))
    BY DEF Behind
  <1> HIDE DEF p, u, pre
  <1>8. ASSUME NEW b \in Bytes, Holds(b, 0, p), NEW size \in 0 .. Len(p)
        PROVE  (IF 1 <= size /\ fits(b, size) THEN r(b) ELSE Malformed)
                  = IF size = Len(p) THEN m ELSE Malformed
    <2>1. m.key \in Keys /\ pre \in Bytes
      BY <1>1, <1>4
    <2>2. /\ Holds(b, 0, pre)
          /\ TextAt(b, Len(pre)) = m.key
          /\ TextFits(b, size, Len(pre), MaxKeySize) <=> size = Len(p)
          /\ size = Len(p) => size >= Len(pre)
      BY <2>1, <1>6, <1>7, <1>8, KeyBehind
    <2>3. r(b) = m
      BY <1>1, <1>4, <2>2
    <2>4. /\ fits(b, size) <=> size = Len(p)
          /\ size = Len(p) => size >= 1
      BY <1>4, <2>2
    <2> HIDE DEF fits, r
    <2>5. size = Len(p) => 1 <= size
      BY <2>4, <1>6 DEF Bytes
    <2> QED BY <2>3, <2>4, <2>5
  <1> HIDE DEF fits, r
  <1> QED BY <1>2, <1>3, <1>6, <1>7, <1>8 DEF Undone, UndoneTo

\* A result, a key and a value: GET_RESPONSE.
LEMMA GetAnswersUndone == \A m \in GetAnswers : Undone(m)
  <1> SUFFICES ASSUME NEW m \in GetAnswers PROVE Undone(m)
    OBVIOUS
  <1> DEFINE pre == WriteUInt8(m.result)
             u == pre \o WriteText(m.key)
             p == u \o WriteText(m.value)
             fits(b, size) == /\ TextFits(b, size, 1, MaxKeySize)
                              /\ TextFits(b, size, After(b, 1), MaxValueSize)
             r(b) == [type |-> "GET_RESPONSE", result |-> ReadUInt8(b, 0), key |-> TextAt(b, 1), value |-> TextAt(b, After(b, 1))]
  <1>1. /\ m.result \in Codes /\ m.key \in Keys /\ m.value \in Values
        /\ m.type = "GET_RESPONSE"
        /\ m = [type |-> "GET_RESPONSE", result |-> m.result, key |-> m.key, value |-> m.value]
    BY DEF GetAnswers
  <1>2. Encoded(m) = p
    <2>1. Found(m) = m.value
      BY DEF Found, GetAnswers
    <2> QED BY <1>1, <2>1 DEF Encoded, SendGetResponse
  <1>3. \A b, size : Decoded(m.type, b, size) =
           IF 1 <= size /\ fits(b, size) THEN r(b) ELSE Malformed
    BY <1>1 DEF Decoded, ReceiveGetResponse
  <1>4. /\ pre \in Bytes /\ Len(pre) = 1
        /\ \A b \in Bytes : Holds(b, 0, pre) => ReadUInt8(b, 0) = m.result
    BY <1>1, ResultBack
  <1>5. WriteText(m.key) \in Bytes /\ WriteText(m.value) \in Bytes
    BY <1>1, TextLengths, WrittenText
  <1>6. u \in Bytes /\ Behind(u, pre, WriteText(m.key))
    BY <1>4, <1>5, Joined DEF Behind
  <1>7. p \in Bytes /\ Behind(p, u, WriteText(m.value))
    BY <1>5, <1>6, Joined DEF Behind
  <1> HIDE DEF p, u, pre
  <1>8. ASSUME NEW b \in Bytes, Holds(b, 0, p), NEW size \in 0 .. Len(p)
        PROVE  (IF 1 <= size /\ fits(b, size) THEN r(b) ELSE Malformed)
                  = IF size = Len(p) THEN m ELSE Malformed
    <2>1. m.key \in Keys /\ m.value \in Values /\ pre \in Bytes
      BY <1>1, <1>4
    <2>2. /\ Holds(b, 0, pre)
          /\ TextAt(b, Len(pre)) = m.key
          /\ TextAt(b, After(b, Len(pre))) = m.value
          /\ (/\ TextFits(b, size, Len(pre), MaxKeySize)
              /\ TextFits(b, size, After(b, Len(pre)), MaxValueSize)) <=> size = Len(p)
          /\ size = Len(p) => size >= Len(pre)
      BY <2>1, <1>5, <1>6, <1>7, <1>8, KeyValueBehind
    <2>3. r(b) = m
      BY <1>1, <1>4, <2>2
    <2>4. /\ fits(b, size) <=> size = Len(p)
          /\ size = Len(p) => size >= 1
      BY <1>4, <2>2
    <2> HIDE DEF fits, r
    <2>5. size = Len(p) => 1 <= size
      BY <2>4, <1>6 DEF Bytes
    <2> QED BY <2>3, <2>4, <2>5
  <1> HIDE DEF fits, r
  <1> QED BY <1>2, <1>3, <1>6, <1>7, <1>8 DEF Undone, UndoneTo

\* An id, a key and a value: STORE_REQUEST.
LEMMA StoresUndone == \A m \in Stores : Undone(m)
  <1> SUFFICES ASSUME NEW m \in Stores PROVE Undone(m)
    OBVIOUS
  <1> DEFINE pre == WriteUInt32(m.id)
             u == pre \o WriteText(m.key)
             p == u \o WriteText(m.value)
             fits(b, size) == /\ TextFits(b, size, 4, MaxKeySize)
                              /\ TextFits(b, size, After(b, 4), MaxValueSize)
             r(b) == [type |-> "STORE_REQUEST", id |-> ReadUInt32(b, 0), key |-> TextAt(b, 4), value |-> TextAt(b, After(b, 4))]
  <1>1. /\ m.id \in Ids /\ m.key \in Keys /\ m.value \in Values
        /\ m.type = "STORE_REQUEST"
        /\ m = [type |-> "STORE_REQUEST", id |-> m.id, key |-> m.key, value |-> m.value]
    BY DEF Stores
  <1>2. Encoded(m) = p
    BY <1>1 DEF Encoded, SendStoreRequest
  <1>3. \A b, size : Decoded(m.type, b, size) =
           IF 4 <= size /\ fits(b, size) THEN r(b) ELSE Malformed
    BY <1>1 DEF Decoded, ReceiveStoreRequest
  <1>4. /\ pre \in Bytes /\ Len(pre) = 4
        /\ \A b \in Bytes : Holds(b, 0, pre) => ReadUInt32(b, 0) = m.id
    BY <1>1, IdBack
  <1>5. WriteText(m.key) \in Bytes /\ WriteText(m.value) \in Bytes
    BY <1>1, TextLengths, WrittenText
  <1>6. u \in Bytes /\ Behind(u, pre, WriteText(m.key))
    BY <1>4, <1>5, Joined DEF Behind
  <1>7. p \in Bytes /\ Behind(p, u, WriteText(m.value))
    BY <1>5, <1>6, Joined DEF Behind
  <1> HIDE DEF p, u, pre
  <1>8. ASSUME NEW b \in Bytes, Holds(b, 0, p), NEW size \in 0 .. Len(p)
        PROVE  (IF 4 <= size /\ fits(b, size) THEN r(b) ELSE Malformed)
                  = IF size = Len(p) THEN m ELSE Malformed
    <2>1. m.key \in Keys /\ m.value \in Values /\ pre \in Bytes
      BY <1>1, <1>4
    <2>2. /\ Holds(b, 0, pre)
          /\ TextAt(b, Len(pre)) = m.key
          /\ TextAt(b, After(b, Len(pre))) = m.value
          /\ (/\ TextFits(b, size, Len(pre), MaxKeySize)
              /\ TextFits(b, size, After(b, Len(pre)), MaxValueSize)) <=> size = Len(p)
          /\ size = Len(p) => size >= Len(pre)
      BY <2>1, <1>5, <1>6, <1>7, <1>8, KeyValueBehind
    <2>3. r(b) = m
      BY <1>1, <1>4, <2>2
    <2>4. /\ fits(b, size) <=> size = Len(p)
          /\ size = Len(p) => size >= 4
      BY <1>4, <2>2
    <2> HIDE DEF fits, r
    <2>5. size = Len(p) => 4 <= size
      BY <2>4, <1>6 DEF Bytes
    <2> QED BY <2>3, <2>4, <2>5
  <1> HIDE DEF fits, r
  <1> QED BY <1>2, <1>3, <1>6, <1>7, <1>8 DEF Undone, UndoneTo

\* A result, an id and a key: STORE_RESPONSE.
LEMMA StoreAnswersUndone == \A m \in StoreAnswers : Undone(m)
  <1> SUFFICES ASSUME NEW m \in StoreAnswers PROVE Undone(m)
    OBVIOUS
  <1> DEFINE pre == WriteUInt8(m.result) \o WriteUInt32(m.id)
             u == pre \o WriteText(m.key)
             p == u
             fits(b, size) == TextFits(b, size, 5, MaxKeySize)
             r(b) == [type |-> "STORE_RESPONSE", result |-> ReadUInt8(b, 0), id |-> ReadUInt32(b, 1), key |-> TextAt(b, 5)]
  <1>1. /\ m.result \in Codes /\ m.id \in Ids /\ m.key \in Keys
        /\ m.type = "STORE_RESPONSE"
        /\ m = [type |-> "STORE_RESPONSE", result |-> m.result, id |-> m.id, key |-> m.key]
    BY DEF StoreAnswers
  <1>2. Encoded(m) = p
    BY <1>1 DEF Encoded, SendStoreResponse
  <1>3. \A b, size : Decoded(m.type, b, size) =
           IF 1 <= size /\ 5 <= size /\ fits(b, size) THEN r(b) ELSE Malformed
    BY <1>1 DEF Decoded, ReceiveStoreResponse
  <1>4. /\ pre \in Bytes /\ Len(pre) = 5
        /\ \A b \in Bytes : Holds(b, 0, pre) => ReadUInt8(b, 0) = m.result /\ ReadUInt32(b, 1) = m.id
    BY <1>1, ResultIdBack
  <1>5. WriteText(m.key) \in Bytes
    BY <1>1, TextLengths, WrittenText
  <1>6. p \in Bytes
    BY <1>4, <1>5, Joined
  <1>7. Behind(p, pre, WriteText(m.key))
    BY DEF Behind
  <1> HIDE DEF p, u, pre
  <1>8. ASSUME NEW b \in Bytes, Holds(b, 0, p), NEW size \in 0 .. Len(p)
        PROVE  (IF 1 <= size /\ 5 <= size /\ fits(b, size) THEN r(b) ELSE Malformed)
                  = IF size = Len(p) THEN m ELSE Malformed
    <2>1. m.key \in Keys /\ pre \in Bytes
      BY <1>1, <1>4
    <2>2. /\ Holds(b, 0, pre)
          /\ TextAt(b, Len(pre)) = m.key
          /\ TextFits(b, size, Len(pre), MaxKeySize) <=> size = Len(p)
          /\ size = Len(p) => size >= Len(pre)
      BY <2>1, <1>6, <1>7, <1>8, KeyBehind
    <2>3. r(b) = m
      BY <1>1, <1>4, <2>2
    <2>4. /\ fits(b, size) <=> size = Len(p)
          /\ size = Len(p) => size >= 5
      BY <1>4, <2>2
    <2> HIDE DEF fits, r
    <2>5. size = Len(p) => 1 <= size /\ 5 <= size
      BY <2>4, <1>6 DEF Bytes
    <2> QED BY <2>3, <2>4, <2>5
  <1> HIDE DEF fits, r
  <1> QED BY <1>2, <1>3, <1>6, <1>7, <1>8 DEF Undone, UndoneTo

\* An id and a key: RETRIEVE_REQUEST.
LEMMA RetrievesUndone == \A m \in Retrieves : Undone(m)
  <1> SUFFICES ASSUME NEW m \in Retrieves PROVE Undone(m)
    OBVIOUS
  <1> DEFINE pre == WriteUInt32(m.id)
             u == pre \o WriteText(m.key)
             p == u
             fits(b, size) == TextFits(b, size, 4, MaxKeySize)
             r(b) == [type |-> "RETRIEVE_REQUEST", id |-> ReadUInt32(b, 0), key |-> TextAt(b, 4)]
  <1>1. /\ m.id \in Ids /\ m.key \in Keys
        /\ m.type = "RETRIEVE_REQUEST"
        /\ m = [type |-> "RETRIEVE_REQUEST", id |-> m.id, key |-> m.key]
    BY DEF Retrieves
  <1>2. Encoded(m) = p
    BY <1>1 DEF Encoded, SendRetrieveRequest
  <1>3. \A b, size : Decoded(m.type, b, size) =
           IF 4 <= size /\ fits(b, size) THEN r(b) ELSE Malformed
    BY <1>1 DEF Decoded, ReceiveRetrieveRequest
  <1>4. /\ pre \in Bytes /\ Len(pre) = 4
        /\ \A b \in Bytes : Holds(b, 0, pre) => ReadUInt32(b, 0) = m.id
    BY <1>1, IdBack
  <1>5. WriteText(m.key) \in Bytes
    BY <1>1, TextLengths, WrittenText
  <1>6. p \in Bytes
    BY <1>4, <1>5, Joined
  <1>7. Behind(p, pre, WriteText(m.key))
    BY DEF Behind
  <1> HIDE DEF p, u, pre
  <1>8. ASSUME NEW b \in Bytes, Holds(b, 0, p), NEW size \in 0 .. Len(p)
        PROVE  (IF 4 <= size /\ fits(b, size) THEN r(b) ELSE Malformed)
                  = IF size = Len(p) THEN m ELSE Malformed
    <2>1. m.key \in Keys /\ pre \in Bytes
      BY <1>1, <1>4
    <2>2. /\ Holds(b, 0, pre)
          /\ TextAt(b, Len(pre)) = m.key
          /\ TextFits(b, size, Len(pre), MaxKeySize) <=> size = Len(p)
          /\ size = Len(p) => size >= Len(pre)
      BY <2>1, <1>6, <1>7, <1>8, KeyBehind
    <2>3. r(b) = m
      BY <1>1, <1>4, <2>2
    <2>4. /\ fits(b, size) <=> size = Len(p)
          /\ size = Len(p) => size >= 4
      BY <1>4, <2>2
    <2> HIDE DEF fits, r
    <2>5. size = Len(p) => 4 <= size
      BY <2>4, <1>6 DEF Bytes
    <2> QED BY <2>3, <2>4, <2>5
  <1> HIDE DEF fits, r
  <1> QED BY <1>2, <1>3, <1>6, <1>7, <1>8 DEF Undone, UndoneTo

\* A result, an id, a key and a value: RETRIEVE_RESPONSE.
LEMMA RetrieveAnswersUndone == \A m \in RetrieveAnswers : Undone(m)
  <1> SUFFICES ASSUME NEW m \in RetrieveAnswers PROVE Undone(m)
    OBVIOUS
  <1> DEFINE pre == WriteUInt8(m.result) \o WriteUInt32(m.id)
             u == pre \o WriteText(m.key)
             p == u \o WriteText(m.value)
             fits(b, size) == /\ TextFits(b, size, 5, MaxKeySize)
                              /\ TextFits(b, size, After(b, 5), MaxValueSize)
             r(b) == [type |-> "RETRIEVE_RESPONSE", result |-> ReadUInt8(b, 0), id |-> ReadUInt32(b, 1), key |-> TextAt(b, 5), value |-> TextAt(b, After(b, 5))]
  <1>1. /\ m.result \in Codes /\ m.id \in Ids /\ m.key \in Keys /\ m.value \in Values
        /\ m.type = "RETRIEVE_RESPONSE"
        /\ m = [type |-> "RETRIEVE_RESPONSE", result |-> m.result, id |-> m.id, key |-> m.key, value |-> m.value]
    BY DEF RetrieveAnswers
  <1>2. Encoded(m) = p
    <2>1. Found(m) = m.value
      BY DEF Found, RetrieveAnswers
    <2> QED BY <1>1, <2>1 DEF Encoded, SendRetrieveResponse
  <1>3. \A b, size : Decoded(m.type, b, size) =
           IF 1 <= size /\ 5 <= size /\ fits(b, size) THEN r(b) ELSE Malformed
    BY <1>1 DEF Decoded, ReceiveRetrieveResponse
  <1>4. /\ pre \in Bytes /\ Len(pre) = 5
        /\ \A b \in Bytes : Holds(b, 0, pre) => ReadUInt8(b, 0) = m.result /\ ReadUInt32(b, 1) = m.id
    BY <1>1, ResultIdBack
  <1>5. WriteText(m.key) \in Bytes /\ WriteText(m.value) \in Bytes
    BY <1>1, TextLengths, WrittenText
  <1>6. u \in Bytes /\ Behind(u, pre, WriteText(m.key))
    BY <1>4, <1>5, Joined DEF Behind
  <1>7. p \in Bytes /\ Behind(p, u, WriteText(m.value))
    BY <1>5, <1>6, Joined DEF Behind
  <1> HIDE DEF p, u, pre
  <1>8. ASSUME NEW b \in Bytes, Holds(b, 0, p), NEW size \in 0 .. Len(p)
        PROVE  (IF 1 <= size /\ 5 <= size /\ fits(b, size) THEN r(b) ELSE Malformed)
                  = IF size = Len(p) THEN m ELSE Malformed
    <2>1. m.key \in Keys /\ m.value \in Values /\ pre \in Bytes
      BY <1>1, <1>4
    <2>2. /\ Holds(b, 0, pre)
          /\ TextAt(b, Len(pre)) = m.key
          /\ TextAt(b, After(b, Len(pre))) = m.value
          /\ (/\ TextFits(b, size, Len(pre), MaxKeySize)
              /\ TextFits(b, size, After(b, Len(pre)), MaxValueSize)) <=> size = Len(p)
          /\ size = Len(p) => size >= Len(pre)
      BY <2>1, <1>5, <1>6, <1>7, <1>8, KeyValueBehind
    <2>3. r(b) = m
      BY <1>1, <1>4, <2>2
    <2>4. /\ fits(b, size) <=> size = Len(p)
          /\ size = Len(p) => size >= 5
      BY <1>4, <2>2
    <2> HIDE DEF fits, r
    <2>5. size = Len(p) => 1 <= size /\ 5 <= size
      BY <2>4, <1>6 DEF Bytes
    <2> QED BY <2>3, <2>4, <2>5
  <1> HIDE DEF fits, r
  <1> QED BY <1>2, <1>3, <1>6, <1>7, <1>8 DEF Undone, UndoneTo

\* A key alone: GET.
LEMMA QuestionsUndone == \A m \in Questions : Undone(m)
  <1> SUFFICES ASSUME NEW m \in Questions PROVE Undone(m)
    OBVIOUS
  <1> DEFINE p == WriteText(m.key)
             fits(b, size) == TextFits(b, size, 0, MaxKeySize)
             r(b) == [type |-> "GET", key |-> TextAt(b, 0)]
             e == << >>
  <1>1. m.key \in Keys /\ m.type = "GET" /\ m = [type |-> "GET", key |-> m.key]
    BY DEF Questions
  <1>2. Encoded(m) = p
    BY <1>1 DEF Encoded, SendGet
  <1>3. \A b, size : Decoded(m.type, b, size) = IF fits(b, size) THEN r(b) ELSE Malformed
    BY <1>1 DEF Decoded, ReceiveGet
  <1>4. e \in Bytes /\ Len(e) = 0
    BY DEF Bytes
  <1>5. p \in Bytes
    BY <1>1, TextLengths, WrittenText
  <1>6. Behind(p, e, WriteText(m.key))
    BY <1>5, ConcatEmptySeq DEF Bytes, Behind
  <1> HIDE DEF p, e
  <1>7. ASSUME NEW b \in Bytes, Holds(b, 0, p), NEW size \in 0 .. Len(p)
        PROVE  (IF fits(b, size) THEN r(b) ELSE Malformed) = IF size = Len(p) THEN m ELSE Malformed
    <2>1. m.key \in Keys
      BY <1>1
    <2>2. /\ TextAt(b, Len(e)) = m.key
          /\ TextFits(b, size, Len(e), MaxKeySize) <=> size = Len(p)
      BY <2>1, <1>4, <1>5, <1>6, <1>7, KeyBehind
    <2>3. r(b) = m /\ (fits(b, size) <=> size = Len(p))
      BY <1>1, <1>4, <2>2
    <2> QED BY <2>3
  <1> HIDE DEF fits, r
  <1> QED BY <1>2, <1>3, <1>5, <1>7 DEF Undone, UndoneTo

\* The beginning of a text is one, and the beginning of it is the text's own.
LEMMA CutText ==
    ASSUME NEW big \in Nat, NEW small \in Nat, small <= big, NEW max \in Nat, NEW s \in Text(max)
    PROVE  /\ Cut(s, big) \in Text(big)
           /\ Cut(s, big) \in Bytes
           /\ Cut(Cut(s, big), small) = Cut(s, small)
  <1>1. PICK n \in 0 .. max : s \in [1 .. n -> Chars]
    BY DEF Text
  <1>2. n \in Nat /\ s \in Seq(Chars) /\ Len(s) = n
    BY <1>1
  <1> DEFINE l == IF n > big THEN big ELSE n
             t == SubSeq(s, 1, l)
  <1>3. l \in Nat /\ l <= n /\ l <= big
    BY <1>2
  <1>4. t \in Seq(Chars) /\ Len(t) = l /\ \A i \in 1 .. l : t[i] = s[i]
    BY <1>2, <1>3
  <1>5. Cut(s, big) = t
    BY <1>2 DEF Cut
  <1> HIDE DEF t
  <1>6. t \in Text(big)
    <2>1. t \in [1 .. l -> Chars]
      BY <1>4
    <2>2. l \in 0 .. big
      BY <1>3
    <2> QED BY <2>1, <2>2 DEF Text
  <1>7. Cut(t, small) = Cut(s, small)
    <2> DEFINE k == IF l > small THEN small ELSE l
               a == SubSeq(t, 1, k)
               c == SubSeq(s, 1, k)
    <2>1. k \in Nat /\ k <= l /\ k <= n /\ k = IF n > small THEN small ELSE n
      BY <1>2, <1>3
    <2>2. a \in Seq(Chars) /\ Len(a) = k /\ \A i \in 1 .. k : a[i] = t[i]
      BY <1>3, <1>4, <2>1
    <2>3. c \in Seq(Chars) /\ Len(c) = k /\ \A i \in 1 .. k : c[i] = s[i]
      BY <1>2, <2>1
    <2>4. \A i \in 1 .. k : a[i] = c[i]
      BY <1>3, <1>4, <2>1, <2>2, <2>3
    <2>5. Cut(t, small) = a
      BY <1>4 DEF Cut
    <2>6. Cut(s, small) = c
      BY <1>2, <2>1 DEF Cut
    <2> HIDE DEF a, c, k
    <2>7. a = c
      BY <2>2, <2>3, <2>4, SeqEqual
    <2> QED BY <2>5, <2>6, <2>7
  <1> QED BY <1>5, <1>6, <1>7, TextsAreBytes

\* A result and a text, which SendError and ReceiveError cut: ERROR.
LEMMA ErrorsUndone == \A m \in Errors : UndoneTo(m, Shown(m))
  <1> SUFFICES ASSUME NEW m \in Errors PROVE UndoneTo(m, Shown(m))
    OBVIOUS
  <1> DEFINE pre == WriteUInt8(m.result)
             t == Cut(m.text, MaxErrorSize)
             p == pre \o WriteText(t)
             shown(b) == IF ReadUInt16(b, 1) > MaxTextSize THEN MaxTextSize ELSE ReadUInt16(b, 1)
             fits(b, size) == 1 <= size /\ 3 <= size /\ After(b, 1) <= size
             r(b) == [type |-> "ERROR", result |-> ReadUInt8(b, 0),
                      text |-> ReadString(b, 3, shown(b))]
  <1>1. /\ m.result \in Codes /\ m.text \in Text(MaxErrorSize + 1)
        /\ m.type = "ERROR"
        /\ m = [type |-> "ERROR", result |-> m.result, text |-> m.text]
    BY DEF Errors
  <1>2. Encoded(m) = p
    BY <1>1 DEF Encoded, SendError
  <1>3. \A b, size : Decoded(m.type, b, size) = IF fits(b, size) THEN r(b) ELSE Malformed
    BY <1>1 DEF Decoded, ReceiveError
  <1>4. /\ pre \in Bytes /\ Len(pre) = 1
        /\ \A b \in Bytes : Holds(b, 0, pre) => ReadUInt8(b, 0) = m.result
    BY <1>1, ResultBack
  <1>5. /\ MaxTextSize \in Words /\ MaxTextSize \in Nat
        /\ MaxErrorSize \in Words /\ MaxErrorSize \in Nat /\ MaxErrorSize + 1 \in Nat
        /\ MaxTextSize <= MaxErrorSize
    BY LimitsInWords, SMT DEF Words
  <1>6. /\ t \in Text(MaxErrorSize) /\ t \in Bytes
        /\ Cut(t, MaxTextSize) = Cut(m.text, MaxTextSize)
    BY <1>1, <1>5, CutText
  <1>7. Shown(m) = [type |-> "ERROR", result |-> m.result, text |-> Cut(t, MaxTextSize)]
    BY <1>1, <1>6 DEF Shown
  <1> HIDE DEF t
  <1>8. /\ Len(t) \in Nat /\ WriteText(t) \in Bytes /\ Len(WriteText(t)) = 2 + Len(t)
    BY <1>6, WrittenText DEF Bytes
  <1>9. p \in Bytes /\ Behind(p, pre, WriteText(t))
    BY <1>4, <1>8, Joined DEF Behind
  <1> HIDE DEF p, pre
  <1>10. ASSUME NEW b \in Bytes, Holds(b, 0, p), NEW size \in 0 .. Len(p)
         PROVE  (IF fits(b, size) THEN r(b) ELSE Malformed)
                   = IF size = Len(p) THEN Shown(m) ELSE Malformed
    <2>1. pre \in Bytes /\ WriteText(t) \in Bytes
      BY <1>4, <1>8
    <2>2. /\ Len(p) = Len(pre) + Len(WriteText(t))
          /\ Holds(b, 0, pre)
          /\ Holds(b, Len(pre), WriteText(t))
          /\ Len(p) <= Len(b)
      BY <2>1, <1>9, <1>10, TwoFields
    <2>3. Len(p) \in Nat /\ Len(b) \in Nat
      BY <1>9 DEF Bytes
    <2>4. /\ Holds(b, 1, WriteText(t))
          /\ size \in 0 .. Len(b)
          /\ Len(p) = 3 + Len(t)
      BY <1>4, <1>8, <2>2, <2>3
    <2>5. /\ ReadUInt16(b, 1) = Len(t)
          /\ TextAt(b, 1) = t
          /\ After(b, 1) = 1 + 2 + Len(t)
      BY <1>5, <1>6, <2>4, TextBack
    <2>6. ReadString(b, 3, shown(b)) = Cut(t, MaxTextSize)
      <3> DEFINE k == IF Len(t) > MaxTextSize THEN MaxTextSize ELSE Len(t)
                 a == SubSeq(b, 3 + 1, 3 + k)
                 c == SubSeq(t, 1, k)
      <3>1. k \in Nat /\ k <= Len(t) /\ 3 + Len(t) <= Len(b)
        BY <1>5, <1>8, <2>2, <2>4
      <3>2. t = SubSeq(b, 3 + 1, 3 + Len(t))
        BY <2>5 DEF TextAt, ReadString
      <3>3. t \in Seq(Byte) /\ b \in Seq(Byte)
        BY <1>6 DEF Bytes
      <3>4. a \in Seq(Byte) /\ Len(a) = k /\ \A i \in 1 .. k : a[i] = b[3 + i]
        BY <2>3, <3>1, <3>3
      <3>5. c \in Seq(Byte) /\ Len(c) = k /\ \A i \in 1 .. k : c[i] = t[i]
        BY <3>1, <3>3
      <3>6. \A i \in 1 .. Len(t) : t[i] = b[3 + i]
        <4> DEFINE u == SubSeq(b, 3 + 1, 3 + Len(t))
        <4>1. \A i \in 1 .. Len(t) : u[i] = b[3 + i]
          BY <1>8, <2>3, <3>1, <3>3
        <4> QED BY <3>2, <4>1
      <3>7. \A i \in 1 .. k : a[i] = c[i]
        BY <1>8, <3>1, <3>4, <3>5, <3>6
      <3>8. ReadString(b, 3, shown(b)) = a /\ Cut(t, MaxTextSize) = c
        BY <2>5 DEF ReadString, Cut
      <3> HIDE DEF a, c, k
      <3>9. a = c
        BY <3>4, <3>5, <3>7, SeqEqual
      <3> QED BY <3>8, <3>9
    <2>7. r(b) = Shown(m)
      BY <1>4, <1>7, <2>2, <2>6
    <2> DEFINE whole == Len(p)
    <2>8. /\ whole = 3 + Len(t) /\ size \in 0 .. whole
          /\ After(b, 1) = 1 + 2 + Len(t)
      BY <2>4, <2>5
    <2> HIDE DEF whole
    <2>9. fits(b, size) <=> size = whole
      BY <1>8, <2>8
    <2> QED BY <2>7, <2>9 DEF whole
  <1> HIDE DEF fits, r
  <1> QED BY <1>2, <1>3, <1>9, <1>10 DEF UndoneTo

\* A port is read back.
LEMMA PortBack ==
    ASSUME NEW x \in Ports
    PROVE  /\ WriteUInt16(x) \in Bytes /\ Len(WriteUInt16(x)) = 2
           /\ \A b \in Bytes, at \in Nat : Holds(b, at, WriteUInt16(x)) => ReadUInt16(b, at) = x
  <1>1. x \in Nat /\ x \in Words
    BY NumbersAssumption, SMT DEF NumbersAssumption, Words
  <1>2. ASSUME NEW b \in Bytes, NEW at \in Nat, Holds(b, at, WriteUInt16(x))
        PROVE  ReadUInt16(b, at) = x
    BY <1>1, <1>2, UInt16Back
  <1> QED BY <1>1, <1>2, NumbersAreBytes, SMT

\* An id and a port: WORKER_READY.
LEMMA AnnouncementsUndone == \A m \in Announcements : Undone(m)
  <1> SUFFICES ASSUME NEW m \in Announcements PROVE Undone(m)
    OBVIOUS
  <1> DEFINE s == WriteUInt32(m.id)
             t == WriteUInt16(m.port)
             p == s \o t
             r(b) == [type |-> "WORKER_READY", id |-> ReadUInt32(b, 0), port |-> ReadUInt16(b, 4)]
  <1>1. /\ m.id \in Ids /\ m.port \in Ports
        /\ m.type = "WORKER_READY"
        /\ m = [type |-> "WORKER_READY", id |-> m.id, port |-> m.port]
    BY DEF Announcements
  <1>2. Encoded(m) = p
    BY <1>1 DEF Encoded, SendWorkerReady
  <1>3. \A b, size : Decoded(m.type, b, size) =
           IF 4 <= size /\ 6 <= size THEN r(b) ELSE Malformed
    BY <1>1 DEF Decoded, ReceiveWorkerReady
  <1>4. /\ s \in Bytes /\ Len(s) = 4
        /\ \A b \in Bytes, at \in Nat : Holds(b, at, s) => ReadUInt32(b, at) = m.id
    BY <1>1, IdBack
  <1>5. /\ t \in Bytes /\ Len(t) = 2
        /\ \A b \in Bytes, at \in Nat : Holds(b, at, t) => ReadUInt16(b, at) = m.port
    BY <1>1, PortBack
  <1>6. p \in Bytes /\ Behind(p, s, t) /\ Len(p) = 6
    <2> HIDE DEF s, t
    <2>1. s \in Bytes /\ t \in Bytes
      BY <1>4, <1>5
    <2>2. p \in Bytes /\ Behind(p, s, t) /\ Len(p) = Len(s) + Len(t)
      BY <2>1, Joined DEF Behind
    <2> QED BY <2>2, <1>4, <1>5
  <1> HIDE DEF p, s, t
  <1>7. ASSUME NEW b \in Bytes, Holds(b, 0, p), NEW size \in 0 .. Len(p)
        PROVE  (IF 4 <= size /\ 6 <= size THEN r(b) ELSE Malformed)
                  = IF size = Len(p) THEN m ELSE Malformed
    <2>1. s \in Bytes /\ t \in Bytes
      BY <1>4, <1>5
    <2>2. Holds(b, 0, s) /\ Holds(b, Len(s), t)
      BY <2>1, <1>6, <1>7, TwoFields
    <2>3. r(b) = m
      BY <1>1, <1>4, <1>5, <2>2
    <2>4. size \in 0 .. 6
      BY <1>6
    <2>5. 4 <= size /\ 6 <= size <=> size = 6
      BY <2>4
    <2> QED BY <2>3, <2>5, <1>6
  <1> HIDE DEF r
  <1> QED BY <1>2, <1>3, <1>6, <1>7 DEF Undone, UndoneTo

\* An id alone: DATA_EXPORT_START.
LEMMA StartsUndone == \A m \in Starts : Undone(m)
  <1> SUFFICES ASSUME NEW m \in Starts PROVE Undone(m)
    OBVIOUS
  <1> DEFINE p == WriteUInt32(m.id)
             r(b) == [type |-> "DATA_EXPORT_START", id |-> ReadUInt32(b, 0)]
  <1>1. /\ m.id \in Ids
        /\ m.type = "DATA_EXPORT_START"
        /\ m = [type |-> "DATA_EXPORT_START", id |-> m.id]
    BY DEF Starts
  <1>2. Encoded(m) = p
    BY <1>1 DEF Encoded, SendDataExportStart
  <1>3. \A b, size : Decoded(m.type, b, size) = IF 4 <= size THEN r(b) ELSE Malformed
    BY <1>1 DEF Decoded, ReceiveDataExportStart
  <1>4. /\ p \in Bytes /\ Len(p) = 4
        /\ \A b \in Bytes, at \in Nat : Holds(b, at, p) => ReadUInt32(b, at) = m.id
    BY <1>1, IdBack
  <1> HIDE DEF p
  <1>5. ASSUME NEW b \in Bytes, Holds(b, 0, p), NEW size \in 0 .. Len(p)
        PROVE  (IF 4 <= size THEN r(b) ELSE Malformed) = IF size = Len(p) THEN m ELSE Malformed
    <2>1. r(b) = m
      BY <1>1, <1>4, <1>5
    <2>2. size \in 0 .. 4
      BY <1>4
    <2>3. 4 <= size <=> size = 4
      BY <2>2
    <2> QED BY <2>1, <2>3, <1>4
  <1> HIDE DEF r
  <1> QED BY <1>2, <1>3, <1>4, <1>5 DEF Undone, UndoneTo

\* An id, an address, a port and whether to export: WORKER_ENTRY.
LEMMA EntriesUndone == \A m \in Entries : Undone(m)
  <1> SUFFICES ASSUME NEW m \in Entries PROVE Undone(m)
    OBVIOUS
  <1> DEFINE s == WriteUInt32(m.id)
             t == WriteText(m.address)
             x == WriteUInt16(m.port)
             y == WriteUInt8(m.export)
             st == s \o t
             stx == st \o x
             p == stx \o y
             fits(b, size) == /\ 4 <= size
                              /\ TextFits(b, size, 4, MaxTextSize)
                              /\ After(b, 4) + 2 <= size
                              /\ After(b, 4) + 3 <= size
             r(b) == [type |-> "WORKER_ENTRY", id |-> ReadUInt32(b, 0), address |-> TextAt(b, 4),
                      port |-> ReadUInt16(b, After(b, 4)), export |-> ReadUInt8(b, After(b, 4) + 2)]
  <1>1. /\ m.id \in Ids /\ m.address \in Text(MaxTextSize) /\ m.port \in Ports
        /\ m.export \in {0, 1}
        /\ m.type = "WORKER_ENTRY"
        /\ m = [type |-> "WORKER_ENTRY", id |-> m.id, address |-> m.address,
                port |-> m.port, export |-> m.export]
    BY DEF Entries
  <1>2. Encoded(m) = p
    BY <1>1 DEF Encoded, SendWorkerEntry
  <1>3. \A b, size : Decoded(m.type, b, size) = IF fits(b, size) THEN r(b) ELSE Malformed
    BY <1>1 DEF Decoded, ReceiveWorkerEntry
  <1>4. /\ s \in Bytes /\ Len(s) = 4
        /\ \A b \in Bytes, at \in Nat : Holds(b, at, s) => ReadUInt32(b, at) = m.id
    BY <1>1, IdBack
  <1>5. /\ m.address \in Bytes /\ Len(m.address) \in Nat
        /\ t \in Bytes /\ Len(t) = 2 + Len(m.address)
    BY <1>1, TextLengths, WrittenText
  <1>6. /\ x \in Bytes /\ Len(x) = 2
        /\ \A b \in Bytes, at \in Nat : Holds(b, at, x) => ReadUInt16(b, at) = m.port
    BY <1>1, PortBack
  <1>7. /\ y \in Bytes /\ Len(y) = 1
        /\ \A b \in Bytes, at \in Nat : Holds(b, at, y) => ReadUInt8(b, at) = m.export
    <2>1. m.export \in Nat /\ m.export \in 0 .. 255
      BY <1>1
    <2>2. ASSUME NEW b \in Bytes, NEW at \in Nat, Holds(b, at, y)
          PROVE  ReadUInt8(b, at) = m.export
      BY <2>1, <2>2, UInt8Back
    <2>3. y \in Bytes /\ Len(y) = 1
      BY <2>1, NumbersAreBytes, SMT
    <2> QED BY <2>2, <2>3
  <1>8. /\ st \in Bytes /\ Behind(st, s, t) /\ Len(st) = 4 + (2 + Len(m.address))
        /\ stx \in Bytes /\ Behind(stx, st, x) /\ Len(stx) = Len(st) + 2
        /\ p \in Bytes /\ Behind(p, stx, y) /\ Len(p) = Len(stx) + 1
    <2>1. st \in Bytes /\ Behind(st, s, t) /\ Len(st) = 4 + (2 + Len(m.address))
      BY <1>4, <1>5, Joined DEF Behind
    <2>2. stx \in Bytes /\ Behind(stx, st, x) /\ Len(stx) = Len(st) + 2
      <3> HIDE DEF st, x
      <3> QED BY <1>6, <2>1, Joined DEF Behind
    <2>3. p \in Bytes /\ Behind(p, stx, y) /\ Len(p) = Len(stx) + 1
      <3> HIDE DEF stx, y
      <3> QED BY <1>7, <2>2, Joined DEF Behind
    <2> QED BY <2>1, <2>2, <2>3
  <1>9. MaxTextSize \in Words
    BY LimitsInWords
  <1> HIDE DEF s, t, x, y, st, stx, p
  <1>10. ASSUME NEW b \in Bytes, Holds(b, 0, p), NEW size \in 0 .. Len(p)
         PROVE  (IF fits(b, size) THEN r(b) ELSE Malformed) = IF size = Len(p) THEN m ELSE Malformed
    <2>1. s \in Bytes /\ t \in Bytes /\ x \in Bytes /\ y \in Bytes
      BY <1>4, <1>5, <1>6, <1>7
    <2>2. Holds(b, 0, stx) /\ Holds(b, Len(stx), y) /\ Len(p) <= Len(b)
      BY <2>1, <1>8, <1>10, TwoFields
    <2>3. Holds(b, 0, st) /\ Holds(b, Len(st), x)
      BY <2>1, <2>2, <1>8, TwoFields
    <2>4. Holds(b, 0, s) /\ Holds(b, Len(s), t)
      BY <2>1, <2>3, <1>8, TwoFields
    <2>5. Holds(b, 4, t)
      BY <2>4, <1>4
    <2>6. Len(p) \in Nat /\ Len(b) \in Nat
      BY <1>8 DEF Bytes
    <2>7. size \in 0 .. Len(b)
      BY <2>2, <2>6
    <2>8. /\ TextAt(b, 4) = m.address
          /\ After(b, 4) = 4 + 2 + Len(m.address)
          /\ TextFits(b, size, 4, MaxTextSize) <=> 4 + 2 + Len(m.address) <= size
      <3>1. Holds(b, 4, WriteText(m.address)) /\ 4 \in Nat
        BY <2>5 DEF t
      <3> QED BY <3>1, <1>1, <1>9, <2>7, TextBack
    <2> DEFINE at == 4 + 2 + Len(m.address)
    <2>9. /\ at \in Nat /\ at = 6 + Len(m.address)
          /\ Len(st) = at /\ Len(stx) = at + 2 /\ Len(p) = at + 3
      BY <1>5, <1>8
    <2>10. After(b, 4) = at
      BY <2>8
    <2>11. ReadUInt16(b, at) = m.port
      BY <2>3, <2>9, <1>6
    <2>12. ReadUInt8(b, at + 2) = m.export
      <3>1. Holds(b, at + 2, y) /\ at + 2 \in Nat
        BY <2>2, <2>9
      <3> QED BY <3>1, <1>7
    <2>13. r(b) = m
      BY <1>1, <1>4, <2>4, <2>8, <2>10, <2>11, <2>12
    <2>14. TextFits(b, size, 4, MaxTextSize) <=> at <= size
      BY <2>8
    <2>15. size \in 0 .. at + 3
      BY <2>9
    <2> HIDE DEF at
    <2>16. fits(b, size) <=> size = at + 3
      BY <1>5, <2>9, <2>10, <2>14, <2>15
    <2> QED BY <2>9, <2>13, <2>16
  <1> HIDE DEF fits, r
  <1> QED BY <1>2, <1>3, <1>8, <1>10 DEF Undone, UndoneTo

-----------------------------------------------------------------------------
(* Every message.                                                          *)

\* Every message a program sends is undone by its reader.
LEMMA AllUndone == \A m \in Sendable : UndoneTo(m, Shown(m))
  <1>1. \A m \in Sendable : m \in Errors \/ (Undone(m) /\ m.type # "ERROR")
    <2>1. \A m \in Pairs \cup Answers \cup Questions \cup Stores \cup StoreAnswers \cup Retrieves :
             Undone(m) /\ m.type # "ERROR"
      BY PairsUndone, AnswersUndone, QuestionsUndone, StoresUndone, StoreAnswersUndone,
         RetrievesUndone DEF Pairs, Answers, Questions, Stores, StoreAnswers, Retrieves
    <2>2. \A m \in GetAnswers \cup RetrieveAnswers \cup Announcements \cup Entries \cup Starts :
             Undone(m) /\ m.type # "ERROR"
      BY GetAnswersUndone, RetrieveAnswersUndone, AnnouncementsUndone, EntriesUndone, StartsUndone
         DEF GetAnswers, RetrieveAnswers, Announcements, Entries, Starts
    <2> QED BY <2>1, <2>2 DEF Sendable
  <1>2. \A m : m.type # "ERROR" => Shown(m) = m
    BY DEF Shown
  <1> QED BY <1>1, <1>2, ErrorsUndone DEF Undone

\* Whatever older messages left behind the payload in the buffer of
\* ProtocolReceive, a Receive function returns the parameters its Send
\* function was given, for any keys, values, ids, ports and limits.
THEOREM ReadersUndoWriters == PayloadsReadBack
  <1> SUFFICES ASSUME NEW m \in Sendable, NEW stale \in Stale
               PROVE  Decoded(m.type, Encoded(m) \o stale, Len(Encoded(m))) = Shown(m)
    BY DEF PayloadsReadBack
  <1> DEFINE p == Encoded(m)
             b == p \o stale
  <1>1. UndoneTo(m, Shown(m))
    BY AllUndone
  <1>2. p \in Bytes
    BY <1>1 DEF UndoneTo
  <1>3. stale \in Bytes
    BY BytesAssumption DEF BytesAssumption, Bytes, Byte
  <1>4. b \in Bytes /\ Holds(b, 0, p)
    <2> HIDE DEF p
    <2> QED BY <1>2, <1>3, HoldsPayload
  <1>5. Len(p) \in 0 .. Len(p)
    <2>1. Len(p) \in Nat
      BY <1>2 DEF Bytes
    <2> QED BY <2>1
  <1> HIDE DEF b
  <1>6. Decoded(m.type, b, Len(p)) = IF Len(p) = Len(p) THEN Shown(m) ELSE Malformed
    BY <1>1, <1>4, <1>5 DEF UndoneTo
  <1> QED BY <1>6 DEF b

\* A Receive function refuses a payload that breaks off before its last byte,
\* although the buffer holds the rest of the bytes.
THEOREM CutPayloadsAreRefused == CutPayloadsRefused
  <1> SUFFICES ASSUME NEW m \in Sendable, NEW size \in 0 .. Len(Encoded(m)) - 1
               PROVE  Decoded(m.type, Encoded(m), size) = Malformed
    BY DEF CutPayloadsRefused
  <1> DEFINE p == Encoded(m)
  <1>1. UndoneTo(m, Shown(m))
    BY AllUndone
  <1>2. p \in Bytes
    BY <1>1 DEF UndoneTo
  <1> HIDE DEF p
  <1>3. Len(p) \in Nat
    BY <1>2 DEF Bytes
  <1>4. Holds(p, 0, p)
    BY <1>2, <1>3 DEF Holds
  <1>5. size \in 0 .. Len(p) - 1
    BY DEF p
  <1>6. size \in 0 .. Len(p) /\ size # Len(p)
    BY <1>3, <1>5
  <1>7. Decoded(m.type, p, size) = IF size = Len(p) THEN Shown(m) ELSE Malformed
    BY <1>1, <1>2, <1>4, <1>6 DEF UndoneTo, p
  <1> QED BY <1>6, <1>7 DEF p

-----------------------------------------------------------------------------
(* Framing: the inductive invariant.                                       *)

\* What is on the connection.
Units == [msg : Messages, pos : Nat]

\* Units of the header and the payload of m.
Size(m) == HeaderSize + PayloadSize[m]

\* Types, and a writer never has more sent than its buffer holds.
TypeInv == /\ TypeOK
           /\ wire \in Seq(Units)
           /\ got \in Seq(Units)
           /\ need \in Nat
           /\ \A t \in holder : current[t] \in Messages /\ sent[t] <= Len(Buffer(t))

\* What the reader has not consumed.
Stream == got \o wire

\* Where the messages of a connection begin.
Offsets == [Nat -> Nat]

\* The i-th message begins after unit at[i] of all that is ever sent.
Chained(at, o) == /\ \A i \in 1 .. Len(o) : at[i + 1] = at[i] + Size(o[i])
                  /\ \A i, j \in 1 .. Len(o) + 1 : i < j => at[i] + Size(o[i]) <= at[j]

\* The sequence s holds the units after the unit base.
Spells(s, base, at, o) ==
    \A k \in 1 .. Len(s), j \in 1 .. Len(o) : \A p \in 1 .. Size(o[j]) :
       at[j] + p = base + k => s[k] = Unit(o[j], p)

\* The units the reader is through with, those of a header it has read included.
Consumed(at) == at[Len(received) + 1] + (IF reading = "payload" THEN HeaderSize ELSE 0)
\* The units of its message that a writer has sent.
Written(t) == IF part[t] = "header" THEN sent[t] ELSE HeaderSize + sent[t]

\* The stream goes on to the last unit that was sent.
Reaches(at) == /\ holder = {} => Consumed(at) + Len(Stream) = at[Len(order) + 1]
               /\ \A t \in holder : Consumed(at) + Len(Stream) = at[Len(order)] + Written(t)

\* What is on the connection is what was begun, message behind message.
Traced(at) == /\ Chained(at, order)
              /\ Spells(Stream, Consumed(at), at, order)
              /\ Reaches(at)

\* The one writer inside ProtocolSend sends the message that was begun last.
LastBegun == \A t \in holder : /\ holder = {t}
                               /\ order # << >>
                               /\ current[t] = order[Len(order)]

\* What the reader returned are the first messages that were begun.
InOrder == /\ Len(received) <= Len(order)
           /\ \A i \in 1 .. Len(received) : received[i] = order[i]

\* The header that was read is that of the message that comes next.
HeaderNext == reading = "payload" => /\ Len(received) < Len(order)
                                     /\ header = order[Len(received) + 1]
                                     /\ need = PayloadSize[header]
                                     /\ need # 0

\* A reader that has not given up is somewhere in that stream.
Followed == reading # "closed" => \E at \in Offsets : Traced(at)

\* What holds of an orderly stream.
Ordered == LastBegun /\ InOrder /\ HeaderNext /\ Followed

\* The inductive invariant.
FramingInv == TypeInv /\ (Orderly => Ordered)

-----------------------------------------------------------------------------
(* Types.                                                                  *)

\* What a message takes on the connection.
LEMMA Sizes == \A m \in Messages : /\ PayloadSize[m] \in Nat /\ Size(m) \in Nat
                                   /\ Size(m) = 2 + PayloadSize[m]
  BY FramingAssumption, SMT DEF Size, HeaderSize

\* Each beginning is a number.
LEMMA OffsetsAreNumbers == \A at \in Offsets : \A i \in Nat : at[i] \in Nat
  BY DEF Offsets

\* A function on 1 .. n is a sequence.
LEMMA FunctionsAreSequences ==
    ASSUME NEW n \in Nat, NEW S, NEW f \in [1 .. n -> S]
    PROVE  f \in Seq(S) /\ Len(f) = n
  BY SMT

\* The buffer of a message and its units.
LEMMA BufferUnits ==
    ASSUME NEW t \in Writers, part[t] \in {"header", "payload"}, current[t] \in Messages
    PROVE  /\ Buffer(t) \in Seq(Units)
           /\ Len(Buffer(t)) = IF part[t] = "header" THEN HeaderSize ELSE PayloadSize[current[t]]
           /\ \A i \in 1 .. Len(Buffer(t)) :
                 Buffer(t)[i] = Unit(current[t], i + IF part[t] = "header" THEN 0 ELSE HeaderSize)
  <1>1. PayloadSize[current[t]] \in Nat
    BY FramingAssumption
  <1>2. \A i \in Nat : Unit(current[t], i) \in Units
    BY DEF Unit, Units
  <1>3. CASE part[t] = "header"
    <2>1. Buffer(t) = [i \in 1 .. HeaderSize |-> Unit(current[t], i)]
      BY <1>3 DEF Buffer, Header
    <2>2. Buffer(t) \in [1 .. HeaderSize -> Units]
      BY <2>1, <1>2, SMT DEF HeaderSize
    <2>3. Buffer(t) \in Seq(Units) /\ Len(Buffer(t)) = HeaderSize
      <3>1. HeaderSize \in Nat
        BY SMT DEF HeaderSize
      <3> QED BY <2>2, <3>1, FunctionsAreSequences
    <2> QED BY <2>1, <2>3, <1>3, SMT DEF HeaderSize
  <1>4. CASE part[t] = "payload"
    <2>1. Buffer(t) = [i \in 1 .. PayloadSize[current[t]] |-> Unit(current[t], HeaderSize + i)]
      BY <1>4 DEF Buffer, Payload
    <2>2. Buffer(t) \in [1 .. PayloadSize[current[t]] -> Units]
      BY <2>1, <1>1, <1>2, SMT DEF HeaderSize
    <2>3. Buffer(t) \in Seq(Units) /\ Len(Buffer(t)) = PayloadSize[current[t]]
      BY <2>2, <1>1, FunctionsAreSequences
    <2> QED BY <2>1, <2>3, <1>1, <1>4, SMT DEF HeaderSize
  <1> QED BY <1>3, <1>4

\* TypeInv holds at first.
LEMMA TypeCorrectInit == Init => TypeInv
  <1> SUFFICES ASSUME Init PROVE TypeInv
    OBVIOUS
  <1>1. /\ unsent \subseteq Messages /\ lockOf \in [Writers -> Locks] /\ holder = {}
        /\ current \in [Writers -> Messages \cup {Garbled}]
        /\ part \in [Writers -> {"header", "payload"}]
        /\ sent \in [Writers -> Nat]
        /\ retries \in [Writers -> 0 .. MaxRetries]
    BY FramingAssumption, SMT DEF Init
  <1>2. wire \in Seq(Units) /\ got \in Seq(Units) /\ Len(wire) = 0 /\ Len(got) = 0
    BY EmptySeq DEF Init
  <1>3. received \in Seq(Messages \cup {Garbled}) /\ order \in Seq(Messages)
    BY EmptySeq DEF Init
  <1>4. /\ need = 2 /\ patience = 0 /\ Capacity \in Nat /\ 0 \in 0 .. MaxRetries
    BY FramingAssumption, SMT DEF Init, HeaderSize
  <1>5. Len(wire) <= Capacity /\ Len(got) <= need
    BY <1>2, <1>4, SMT
  <1>6. /\ reading = "header" /\ header = Garbled /\ mixed = FALSE /\ cut = {}
        /\ need \in Nat /\ patience \in 0 .. MaxRetries
    BY <1>4, SMT DEF Init
  <1> QED BY <1>1, <1>2, <1>3, <1>5, <1>6 DEF TypeInv, TypeOK

\* What SafeSend and SafeReceive move.
LEMMA Parts ==
    ASSUME NEW S, NEW s \in Seq(S), NEW a \in 0 .. Len(s), NEW b \in a .. Len(s)
    PROVE  /\ SubSeq(s, a + 1, b) \in Seq(S)
           /\ Len(SubSeq(s, a + 1, b)) = b - a
           /\ \A i \in 1 .. b - a : SubSeq(s, a + 1, b)[i] = s[a + i]
  <1>1. Len(s) \in Nat /\ \A i \in 1 .. Len(s) : s[i] \in S
    BY LenProperties
  <1>2. a + 1 \in Int /\ b \in Int /\ \A i \in a + 1 .. b : s[i] \in S
    BY <1>1, SMT
  <1>3. /\ SubSeq(s, a + 1, b) \in Seq(S)
        /\ Len(SubSeq(s, a + 1, b)) = IF a + 1 <= b THEN b - (a + 1) + 1 ELSE 0
        /\ \A i \in 1 .. b - (a + 1) + 1 : SubSeq(s, a + 1, b)[i] = s[a + 1 + i - 1]
    BY <1>2, SubSeqProperties
  <1> QED BY <1>1, <1>3, SMT

\* A writer keeps the types.
LEMMA TypeCorrectWrites ==
    ASSUME TypeInv, NEW t \in Writers, Writes(t)
    PROVE  TypeInv'
  <1> USE DEF TypeInv
  <1>1. ASSUME NEW m \in Messages, BeginSend(t, m)
        PROVE  TypeInv'
    <2>1. /\ holder' \subseteq Writers /\ unsent' \subseteq Messages
          /\ current' \in [Writers -> Messages \cup {Garbled}]
          /\ part' \in [Writers -> {"header", "payload"}]
          /\ sent' \in [Writers -> Nat]
          /\ retries' \in [Writers -> 0 .. MaxRetries]
          /\ mixed' \in BOOLEAN
      BY <1>1, FramingAssumption, SMTT(30) DEF BeginSend, TypeOK
    <2>2. order' \in Seq(Messages)
      BY <1>1, AppendProperties DEF BeginSend, TypeOK
    <2>3. ASSUME NEW u \in holder'
          PROVE  current'[u] \in Messages /\ sent'[u] <= Len(Buffer(u)')
      <3>1. CASE u = t
        <4>1. current'[u] = m /\ part'[u] = "header" /\ sent'[u] = 0
          BY <1>1, <3>1 DEF BeginSend, TypeOK
        <4>2. Buffer(u)' = Header(m)
          BY <4>1 DEF Buffer
        <4>3. Len(Header(m)) = 2
          BY SMT DEF Header, HeaderSize
        <4> QED BY <4>1, <4>2, <4>3
      <3>2. CASE u # t
        <4>1. /\ u \in holder /\ current'[u] = current[u] /\ part'[u] = part[u]
              /\ sent'[u] = sent[u]
          BY <1>1, <3>2 DEF BeginSend, TypeOK
        <4> QED BY <4>1 DEF Buffer
      <3> QED BY <3>1, <3>2
    <2> QED BY <1>1, <2>1, <2>2, <2>3 DEF BeginSend, TypeOK, readerVars
  <1>2. CASE SafeSend(t)
    <2>1. PICK n \in 1 .. Len(Buffer(t)) - sent[t] :
             /\ Len(wire) + n <= Capacity
             /\ wire' = wire \o SubSeq(Buffer(t), sent[t] + 1, sent[t] + n)
             /\ sent' = [sent EXCEPT ![t] = @ + n]
      BY <1>2 DEF SafeSend
    <2>2. t \in holder /\ current[t] \in Messages /\ sent[t] \in Nat
          /\ part[t] \in {"header", "payload"}
      BY <1>2 DEF SafeSend, TypeOK
    <2>3. Buffer(t) \in Seq(Units)
      BY <2>2, BufferUnits
    <2>4. Len(Buffer(t)) \in Nat
      BY <2>3, LenProperties
    <2>5. /\ sent[t] \in 0 .. Len(Buffer(t)) /\ sent[t] + n \in sent[t] .. Len(Buffer(t))
          /\ n \in Nat
      BY <2>2, <2>4, SMT
    <2>6. /\ SubSeq(Buffer(t), sent[t] + 1, sent[t] + n) \in Seq(Units)
          /\ Len(SubSeq(Buffer(t), sent[t] + 1, sent[t] + n)) = n
      BY <2>2, <2>3, <2>5, Parts, SMTT(30)
    <2>7. wire' \in Seq(Units) /\ Len(wire') = Len(wire) + n
      BY <2>1, <2>6, ConcatProperties
    <2>8. sent' \in [Writers -> Nat] /\ sent'[t] = sent[t] + n
      <3>1. sent \in [Writers -> Nat] /\ sent[t] + n \in Nat
        BY <2>2, <2>5, SMT DEF TypeOK
      <3> QED BY <2>1, <3>1
    <2>9. retries' \in [Writers -> 0 .. MaxRetries]
      BY <1>2, FramingAssumption DEF SafeSend, TypeOK
    <2>10. ASSUME NEW u \in holder'
           PROVE  current'[u] \in Messages /\ sent'[u] <= Len(Buffer(u)')
      <3>1. u \in holder /\ Buffer(u)' = Buffer(u) /\ current'[u] = current[u]
        BY <1>2 DEF SafeSend, Buffer
      <3>2. CASE u = t
        BY <3>1, <3>2, <2>2, <2>5, <2>8, SMT
      <3>3. CASE u # t
        BY <3>1, <3>3, <2>1 DEF TypeOK
      <3> QED BY <3>2, <3>3
    <2> QED BY <1>2, <2>1, <2>7, <2>8, <2>9, <2>10 DEF SafeSend, TypeOK, readerVars
  <1>3. CASE SafeSendBlocks(t)
    <2>1. /\ retries \in [Writers -> 0 .. MaxRetries]
          /\ MaxRetries \in Nat
          /\ retries[t] < MaxRetries
          /\ retries' = [retries EXCEPT ![t] = @ + 1]
      BY <1>3, FramingAssumption DEF SafeSendBlocks, TypeOK
    <2>2. retries[t] + 1 \in 0 .. MaxRetries
      BY <2>1, SMT
    <2>3. retries' \in [Writers -> 0 .. MaxRetries]
      BY <2>1, <2>2, Zenon
    <2> QED BY <1>3, <2>3 DEF SafeSendBlocks, TypeOK, readerVars, Buffer
  <1>4. CASE GiveUp(t)
    <2>1. holder' \subseteq holder /\ cut' \subseteq Messages
      BY <1>4 DEF GiveUp, TypeOK
    <2> QED BY <1>4, <2>1 DEF GiveUp, TypeOK, readerVars, Buffer
  <1>5. CASE BeginPayload(t)
    <2>1. /\ part' \in [Writers -> {"header", "payload"}]
          /\ sent' \in [Writers -> Nat]
          /\ retries' \in [Writers -> 0 .. MaxRetries]
      BY <1>5, FramingAssumption, SMTT(30) DEF BeginPayload, TypeOK
    <2>2. ASSUME NEW u \in holder'
          PROVE  current'[u] \in Messages /\ sent'[u] <= Len(Buffer(u)')
      <3>1. u \in holder /\ current' = current /\ u \in Writers /\ current[u] \in Messages
        BY <1>5 DEF BeginPayload, TypeOK
      <3>2. CASE u = t
        <4>1. sent'[u] = 0 /\ Buffer(u)' = Payload(current[u])
          BY <1>5, <3>1, <3>2 DEF BeginPayload, Buffer, TypeOK
        <4>2. Len(Payload(current[u])) = PayloadSize[current[u]]
          BY <3>1, FramingAssumption DEF Payload
        <4> QED BY <3>1, <4>1, <4>2, FramingAssumption, SMT
      <3>3. CASE u # t
        <4>1. sent'[u] = sent[u] /\ part'[u] = part[u]
          BY <1>5, <3>1, <3>3 DEF BeginPayload, TypeOK
        <4> QED BY <3>1, <4>1 DEF Buffer
      <3> QED BY <3>2, <3>3
    <2> QED BY <1>5, <2>1, <2>2 DEF BeginPayload, TypeOK, readerVars
  <1>6. CASE EndSend(t)
    <2>1. holder' \subseteq holder
      BY <1>6 DEF EndSend
    <2> QED BY <1>6, <2>1 DEF EndSend, TypeOK, readerVars, Buffer
  <1> QED BY <1>1, <1>2, <1>3, <1>4, <1>5, <1>6 DEF Writes
\* The stream, when a is read and b is not.
Together(a, b) == a \o b

\* What SafeReceive does to the stream: nothing.
LEMMA Received ==
    ASSUME NEW S, NEW a \in Seq(S), NEW b \in Seq(S), NEW n \in 0 .. Len(b)
    PROVE  /\ a \o SubSeq(b, 1, n) \in Seq(S) /\ SubSeq(b, n + 1, Len(b)) \in Seq(S)
           /\ Len(a \o SubSeq(b, 1, n)) = Len(a) + n
           /\ Len(SubSeq(b, n + 1, Len(b))) = Len(b) - n
           /\ Together(a \o SubSeq(b, 1, n), SubSeq(b, n + 1, Len(b))) = Together(a, b)
  <1> DEFINE first == SubSeq(b, 0 + 1, n)
             left == SubSeq(b, n + 1, Len(b))
  <1>1. Len(a) \in Nat /\ Len(b) \in Nat
    BY LenProperties
  <1>2. 0 \in 0 .. Len(b) /\ n \in 0 .. Len(b) /\ Len(b) \in n .. Len(b)
    BY <1>1, SMT
  <1>3. first \in Seq(S) /\ Len(first) = n - 0 /\ \A i \in 1 .. n - 0 : first[i] = b[0 + i]
    BY <1>2, Parts
  <1>4. /\ left \in Seq(S) /\ Len(left) = Len(b) - n
        /\ \A i \in 1 .. Len(b) - n : left[i] = b[n + i]
    BY <1>2, Parts
  <1> HIDE DEF first, left
  <1>5. /\ a \o first \in Seq(S) /\ Len(a \o first) = Len(a) + Len(first)
        /\ \A i \in 1 .. Len(a) + Len(first) :
              (a \o first)[i] = IF i <= Len(a) THEN a[i] ELSE first[i - Len(a)]
    BY <1>3, ConcatProperties
  <1>6. /\ (a \o first) \o left \in Seq(S)
        /\ Len((a \o first) \o left) = Len(a \o first) + Len(left)
        /\ \A i \in 1 .. Len(a \o first) + Len(left) :
              ((a \o first) \o left)[i] = IF i <= Len(a \o first) THEN (a \o first)[i]
                                          ELSE left[i - Len(a \o first)]
    <2> DEFINE both == a \o first
    <2>1. both \in Seq(S) /\ left \in Seq(S)
      BY <1>4, <1>5
    <2> HIDE DEF both
    <2>2. /\ both \o left \in Seq(S)
          /\ Len(both \o left) = Len(both) + Len(left)
          /\ \A i \in 1 .. Len(both) + Len(left) :
                (both \o left)[i] = IF i <= Len(both) THEN both[i] ELSE left[i - Len(both)]
      BY <2>1, ConcatProperties
    <2> QED BY <2>2 DEF both
  <1>7. /\ a \o b \in Seq(S) /\ Len(a \o b) = Len(a) + Len(b)
        /\ \A i \in 1 .. Len(a) + Len(b) : (a \o b)[i] = IF i <= Len(a) THEN a[i] ELSE b[i - Len(a)]
    BY ConcatProperties
  <1>8. Len((a \o first) \o left) = Len(a \o b)
    <2>1. /\ Len((a \o first) \o left) = Len(a \o first) + Len(left) /\ Len(a \o b) = Len(a) + Len(b)
          /\ Len(a \o first) = Len(a) + Len(first) /\ Len(first) = n - 0 /\ Len(left) = Len(b) - n
      BY <1>3, <1>4, <1>5, <1>6, <1>7
    <2> QED BY ONLY <2>1, <1>1, <1>2, SMT
  <1>9. ASSUME NEW i \in 1 .. Len((a \o first) \o left)
        PROVE  ((a \o first) \o left)[i] = (a \o b)[i]
    <2>1. i \in Nat /\ i >= 1 /\ i <= Len(a) + Len(b)
      BY <1>7, <1>8, <1>1, SMT
    <2>2. CASE i <= Len(a)
      BY <2>1, <2>2, <1>1, <1>3, <1>4, <1>5, <1>6, <1>7, SMT
    <2>3. CASE i > Len(a) /\ i <= Len(a) + n
      <3>1. /\ ((a \o first) \o left)[i] = (a \o first)[i]
            /\ (a \o first)[i] = first[i - Len(a)]
            /\ (a \o b)[i] = b[i - Len(a)]
        BY <2>1, <2>3, <1>1, <1>2, <1>3, <1>4, <1>5, <1>6, <1>7, SMT
      <3>2. i - Len(a) \in 1 .. n - 0 /\ 0 + (i - Len(a)) = i - Len(a)
        BY <2>1, <2>3, <1>1, <1>2, SMT
      <3>3. first[i - Len(a)] = b[i - Len(a)]
        BY <1>3, <3>2
      <3> QED BY <3>1, <3>3
    <2>4. CASE i > Len(a) + n
      <3>1. /\ ((a \o first) \o left)[i] = left[i - (Len(a) + n)]
            /\ (a \o b)[i] = b[i - Len(a)]
        BY <2>1, <2>4, <1>1, <1>2, <1>3, <1>4, <1>5, <1>6, <1>7, SMT
      <3>2. i - (Len(a) + n) \in 1 .. Len(b) - n /\ n + (i - (Len(a) + n)) = i - Len(a)
        BY <2>1, <2>4, <1>1, <1>2, SMT
      <3>3. left[i - (Len(a) + n)] = b[i - Len(a)]
        BY <1>4, <3>2
      <3> QED BY <3>1, <3>3
    <2> QED BY <2>1, <2>2, <2>3, <2>4, <1>1, <1>2, SMTT(30)
  <1>10. (a \o first) \o left = a \o b
    BY <1>6, <1>7, <1>8, <1>9, SeqEqual, Zenon
  <1>11. first = SubSeq(b, 1, n)
    <2>1. 0 + 1 = 1
      BY SMT
    <2> QED BY <2>1 DEF first
  <1>12. Len(a \o first) = Len(a) + n
    <2>1. Len(a \o first) = Len(a) + Len(first) /\ Len(first) = n - 0
      BY <1>3, <1>5
    <2> QED BY ONLY <2>1, <1>1, <1>2, SMT
  <1> QED BY <1>4, <1>5, <1>10, <1>11, <1>12 DEF left, Together

\* The reader keeps them.
LEMMA TypeCorrectReads == TypeInv /\ Reads => TypeInv'
  <1> SUFFICES ASSUME TypeInv, Reads PROVE TypeInv'
    OBVIOUS
  <1> USE DEF TypeInv
  <1>1. ASSUME holder' = holder, current' = current, part' = part, sent' = sent
        PROVE  \A t \in holder' : current'[t] \in Messages /\ sent'[t] <= Len(Buffer(t)')
    BY <1>1 DEF Buffer
  <1>2. << >> \in Seq(Units) /\ Len(<< >>) = 0
    BY EmptySeq
  <1>3. CASE SafeReceive
    <2>1. PICK n \in 1 .. need - Len(got) :
             /\ n <= Len(wire)
             /\ got' = got \o SubSeq(wire, 1, n)
             /\ wire' = SubSeq(wire, n + 1, Len(wire))
      BY <1>3 DEF SafeReceive
    <2>2. Len(got) \in Nat /\ Len(wire) \in Nat
      BY LenProperties
    <2>3. n \in 0 .. Len(wire) /\ Len(got) + n <= need /\ Len(wire) - n <= Len(wire)
      BY <2>1, <2>2, SMT
    <2>4. /\ got' \in Seq(Units) /\ wire' \in Seq(Units)
          /\ Len(got') = Len(got) + n /\ Len(wire') = Len(wire) - n
      <3>1. got \in Seq(Units) /\ wire \in Seq(Units)
        OBVIOUS
      <3>2. /\ got \o SubSeq(wire, 1, n) \in Seq(Units) /\ SubSeq(wire, n + 1, Len(wire)) \in Seq(Units)
            /\ Len(got \o SubSeq(wire, 1, n)) = Len(got) + n
            /\ Len(SubSeq(wire, n + 1, Len(wire))) = Len(wire) - n
        BY ONLY <3>1, <2>3, Received
      <3> QED BY <2>1, <3>2
    <2>5. Len(got') <= need /\ Len(wire') <= Capacity
      BY <2>2, <2>3, <2>4, FramingAssumption, SMT DEF TypeOK
    <2>6. 0 \in 0 .. MaxRetries
      BY FramingAssumption, SMT
    <2> QED BY <1>1, <1>3, <2>4, <2>5, <2>6 DEF SafeReceive, ReaderSkips, writerVars, TypeOK
  <1>4. CASE SafeReceiveIdles
    <2>1. patience' \in 0 .. MaxRetries
      BY <1>4, FramingAssumption, SMT DEF SafeReceiveIdles, TypeOK
    <2> QED BY <1>1, <1>4, <2>1 DEF SafeReceiveIdles, ReaderSkips, writerVars, TypeOK
  <1>5. ASSUME NEW m \in Messages \cup {Garbled}, Returned(m)
        PROVE  /\ received' \in Seq(Messages \cup {Garbled})
               /\ reading' = "header" /\ need' \in Nat /\ got' \in Seq(Units)
               /\ Len(got') <= need'
    <2>1. received' \in Seq(Messages \cup {Garbled})
      BY <1>5, AppendProperties DEF Returned, TypeOK
    <2> QED BY <1>2, <1>5, <2>1, SMT DEF Returned, HeaderSize
  <1>6. ASSUME NEW m \in Messages, need' = PayloadSize[m], got' = << >>
        PROVE  need' \in Nat /\ got' \in Seq(Units) /\ Len(got') <= need'
    BY <1>2, <1>6, FramingAssumption, SMT
  <1>7. CASE HeaderRead
    <2>1. PICK m \in Messages :
             /\ header' = m
             /\ IF PayloadSize[m] = 0 THEN Returned(m)
                ELSE /\ reading' = "payload"
                     /\ need' = PayloadSize[m]
                     /\ got' = << >>
                     /\ UNCHANGED received
      BY <1>7 DEF HeaderRead
    <2>2. /\ received' \in Seq(Messages \cup {Garbled})
          /\ reading' \in {"header", "payload"} /\ need' \in Nat /\ got' \in Seq(Units)
          /\ Len(got') <= need'
      BY <1>5, <1>6, <2>1 DEF TypeOK
    <2> QED BY <1>1, <1>7, <2>1, <2>2 DEF HeaderRead, ReaderSkips, writerVars, TypeOK
  <1>8. CASE HeaderMisread
    <2>1. \/ reading' = "closed" /\ received' = Append(received, Garbled) /\ UNCHANGED <<need, got>>
          \/ Returned(Garbled)
          \/ \E m \in Messages : /\ reading' = "payload"
                                 /\ need' = PayloadSize[m]
                                 /\ got' = << >>
                                 /\ UNCHANGED received
      BY <1>8 DEF HeaderMisread
    <2>2. Append(received, Garbled) \in Seq(Messages \cup {Garbled})
      BY AppendProperties DEF TypeOK
    <2>3. /\ received' \in Seq(Messages \cup {Garbled})
          /\ reading' \in {"header", "payload", "closed"} /\ need' \in Nat /\ got' \in Seq(Units)
          /\ Len(got') <= need'
      BY <1>5, <1>6, <2>1, <2>2 DEF TypeOK
    <2> QED BY <1>1, <1>8, <2>3 DEF HeaderMisread, ReaderSkips, writerVars, TypeOK
  <1>9. CASE PayloadRead
    <2>1. PICK m \in Messages \cup {Garbled} : Returned(m)
      BY <1>9 DEF PayloadRead, TypeOK
    <2> QED BY <1>1, <1>5, <1>9, <2>1 DEF PayloadRead, ReaderSkips, writerVars, TypeOK
  <1> QED BY <1>3, <1>4, <1>7, <1>8, <1>9 DEF Reads

\* TypeInv is inductive.
LEMMA TypeStep == TypeInv /\ [Next]_vars => TypeInv'
  <1> SUFFICES ASSUME TypeInv, [Next]_vars PROVE TypeInv'
    OBVIOUS
  <1>1. CASE Reads
    BY <1>1, TypeCorrectReads
  <1>2. ASSUME NEW t \in Writers, Writes(t)
        PROVE  TypeInv'
    BY <1>2, TypeCorrectWrites
  <1>3. CASE UNCHANGED vars
    BY <1>3 DEF vars, writerVars, readerVars, TypeInv, TypeOK, Buffer
  <1> QED BY <1>1, <1>2, <1>3 DEF Next
-----------------------------------------------------------------------------
(* The stream, as a sequence of units and where each message begins in it. *)

\* A message that is begun when the last is through.
LEMMA ChainGrows ==
    ASSUME NEW o \in Seq(Messages), NEW m \in Messages, NEW at \in Offsets,
           Chained(at, o),
           NEW s \in Seq(Units), NEW base \in Nat, Spells(s, base, at, o),
           base + Len(s) = at[Len(o) + 1]
    PROVE  \E new \in Offsets :
              /\ \A i \in 1 .. Len(o) + 1 : new[i] = at[i]
              /\ Chained(new, Append(o, m))
              /\ Spells(s, base, new, Append(o, m))
  <1> DEFINE N == Len(o)
             longer == Append(o, m)
             new == [at EXCEPT ![N + 2] = at[N + 1] + Size(m)]
  <1>1. N \in Nat
    BY LenProperties
  <1>2. /\ Len(longer) = N + 1 /\ longer[N + 1] = m
        /\ \A i \in 1 .. N : longer[i] = o[i]
    BY AppendProperties
  <1>3. \A i \in 1 .. N : Size(o[i]) \in Nat
    BY ElementOfSeq, Sizes
  <1>4. Size(m) \in Nat
    BY Sizes
  <1>5. /\ new \in Offsets /\ new[N + 2] = at[N + 1] + Size(m)
        /\ \A i \in Nat : i # N + 2 => new[i] = at[i]
    <2>1. N + 1 \in Nat /\ N + 2 \in Nat
      BY ONLY <1>1, SMT
    <2>2. at[N + 1] \in Nat
      BY <2>1, OffsetsAreNumbers
    <2>3. at[N + 1] + Size(m) \in Nat
      BY ONLY <2>2, <1>4, SMT
    <2> HIDE DEF N
    <2> QED BY <2>1, <2>3, Zenon DEF Offsets
  <1> HIDE DEF N, longer, new
  <1>6. \A i \in 1 .. N + 1 : new[i] = at[i] /\ at[i] \in Nat
    <2>1. \A i \in 1 .. N + 1 : i \in Nat /\ i # N + 2
      BY ONLY <1>1, SMT
    <2> QED BY <2>1, <1>5, OffsetsAreNumbers, Zenon
  <1>7. ASSUME NEW i \in 1 .. Len(longer)
        PROVE  new[i + 1] = new[i] + Size(longer[i])
    <2>1. CASE i = N + 1
      <3>1. (N + 1) + 1 = N + 2 /\ N + 1 \in 1 .. N + 1
        BY ONLY <1>1, SMT
      <3> QED BY <2>1, <3>1, <1>2, <1>5, <1>6
    <2>2. CASE i \in 1 .. N
      <3>1. at[i + 1] = at[i] + Size(o[i])
        BY <2>2 DEF Chained, N
      <3>2. i + 1 \in 1 .. N + 1 /\ i \in 1 .. N + 1
        BY ONLY <2>2, <1>1, SMT
      <3>3. new[i + 1] = at[i + 1] /\ new[i] = at[i]
        BY <3>2, <1>6
      <3> QED BY <3>1, <3>3, <2>2, <1>2
    <2>3. i = N + 1 \/ i \in 1 .. N
      <3>1. i \in 1 .. N + 1
        BY <1>2
      <3> QED BY ONLY <3>1, <1>1, SMT
    <2> QED BY <2>1, <2>2, <2>3
  <1>8. ASSUME NEW i \in 1 .. Len(longer) + 1, NEW j \in 1 .. Len(longer) + 1, i < j
        PROVE  new[i] + Size(longer[i]) <= new[j]
    <2>1. CASE j = N + 2 /\ i = N + 1
      <3>1. N + 1 \in 1 .. N + 1
        BY ONLY <1>1, SMT
      <3>2. /\ new[i] = at[N + 1] /\ longer[i] = m /\ new[j] = at[N + 1] + Size(m)
            /\ at[N + 1] \in Nat
        BY <2>1, <3>1, <1>2, <1>5, <1>6
      <3>3. at[N + 1] + Size(m) <= at[N + 1] + Size(m)
        BY ONLY <3>2, <1>4, SMT
      <3> QED BY <3>2, <3>3
    <2>2. CASE j = N + 2 /\ i \in 1 .. N
      <3>1. at[i] + Size(o[i]) <= at[N + 1]
        <4>1. i \in 1 .. N + 1 /\ N + 1 \in 1 .. N + 1 /\ i < N + 1
          BY ONLY <2>2, <1>1, SMT
        <4> QED BY <4>1 DEF Chained, N
      <3>2. i \in 1 .. N + 1 /\ N + 1 \in 1 .. N + 1
        BY ONLY <2>2, <1>1, SMT
      <3>3. /\ new[i] = at[i] /\ longer[i] = o[i] /\ at[i] \in Nat /\ at[N + 1] \in Nat
            /\ Size(o[i]) \in Nat /\ new[j] = at[N + 1] + Size(m)
        BY <2>2, <3>2, <1>2, <1>3, <1>5, <1>6
      <3>4. at[i] + Size(o[i]) <= at[N + 1] + Size(m)
        BY ONLY <3>1, <3>3, <1>4, SMT
      <3> QED BY <3>3, <3>4
    <2>3. CASE j \in 1 .. N + 1
      <3>1. i \in 1 .. N /\ i \in 1 .. N + 1
        <4>1. i \in 1 .. Len(longer) + 1 /\ Len(longer) = N + 1 /\ i < j
          BY <1>2, <1>8
        <4> QED BY ONLY <4>1, <2>3, <1>1, SMT
      <3>2. at[i] + Size(o[i]) <= at[j]
        BY <3>1, <2>3, <1>8 DEF Chained, N
      <3> QED BY <3>1, <3>2, <2>3, <1>2, <1>6
    <2>4. \/ j = N + 2 /\ i = N + 1
          \/ j = N + 2 /\ i \in 1 .. N
          \/ j \in 1 .. N + 1
      <3>1. i \in 1 .. (N + 1) + 1 /\ j \in 1 .. (N + 1) + 1 /\ i < j
        BY <1>2, <1>8
      <3> QED BY ONLY <3>1, <1>1, SMT
    <2> QED BY <2>1, <2>2, <2>3, <2>4
  <1>9. Chained(new, longer)
    BY <1>7, <1>8 DEF Chained
  <1>10. ASSUME NEW k \in 1 .. Len(s), NEW j \in 1 .. Len(longer), NEW p \in 1 .. Size(longer[j]),
                new[j] + p = base + k
         PROVE  s[k] = Unit(longer[j], p)
    <2>1. Len(s) \in Nat /\ base + Len(s) = at[N + 1]
      BY LenProperties DEF N
    <2>2. CASE j = N + 1
      <3>1. Size(longer[j]) = Size(m) /\ new[j] = at[N + 1] /\ at[N + 1] \in Nat
        <4>1. N + 1 \in 1 .. N + 1
          BY ONLY <1>1, SMT
        <4> QED BY <2>2, <4>1, <1>2, <1>6
      <3>2. p \in 1 .. Size(m) /\ at[N + 1] + p = base + k /\ base \in Nat /\ k \in 1 .. Len(s)
        BY <3>1, <1>10
      <3>3. FALSE
        BY ONLY <2>1, <3>1, <3>2, <1>4, SMT
      <3> QED BY <3>3
    <2>3. CASE j \in 1 .. N
      <3>1. j \in 1 .. N + 1
        BY ONLY <2>3, <1>1, SMT
      <3>2. longer[j] = o[j] /\ new[j] = at[j]
        BY <2>3, <3>1, <1>2, <1>6
      <3> QED BY <2>3, <3>2, <1>10 DEF Spells, N
    <2>4. j = N + 1 \/ j \in 1 .. N
      <3>1. j \in 1 .. N + 1
        BY <1>2
      <3> QED BY ONLY <3>1, <1>1, SMT
    <2> QED BY <2>2, <2>3, <2>4
  <1>11. Spells(s, base, new, longer)
    BY <1>10 DEF Spells
  <1> QED BY <1>5, <1>6, <1>9, <1>11 DEF N, longer

\* Units of the last message are sent.
LEMMA StreamGrows ==
    ASSUME NEW o \in Seq(Messages), o # << >>, NEW at \in Offsets,
           Chained(at, o),
           NEW s \in Seq(Units), NEW base \in Nat, Spells(s, base, at, o),
           NEW w \in Nat, base + Len(s) = at[Len(o)] + w,
           NEW new \in Seq(Units), w + Len(new) <= Size(o[Len(o)]),
           \A i \in 1 .. Len(new) : new[i] = Unit(o[Len(o)], w + i)
    PROVE  Spells(s \o new, base, at, o) /\ base + Len(s \o new) = at[Len(o)] + (w + Len(new))
  <1> DEFINE N == Len(o)
  <1>1. N \in Nat /\ N \in 1 .. N /\ Len(s) \in Nat /\ Len(new) \in Nat
    BY LenProperties, EmptySeq, SMT
  <1>2. /\ Len(s \o new) = Len(s) + Len(new)
        /\ \A i \in 1 .. Len(s) + Len(new) :
              (s \o new)[i] = IF i <= Len(s) THEN s[i] ELSE new[i - Len(s)]
    BY ConcatProperties
  <1>3. \A i \in 1 .. N : Size(o[i]) \in Nat /\ at[i] \in Nat
    <2>1. \A i \in 1 .. N : i \in Nat
      BY ONLY <1>1, SMT
    <2> QED BY <2>1, ElementOfSeq, Sizes, OffsetsAreNumbers
  <1>4. base + Len(s) = at[N] + w /\ w + Len(new) <= Size(o[N])
    OBVIOUS
  <1>5. \A i \in 1 .. Len(new) : new[i] = Unit(o[N], w + i)
    OBVIOUS
  <1>6. \A i \in 1 .. N : i < N => at[i] + Size(o[i]) <= at[N]
    <2>1. \A i \in 1 .. N : i \in 1 .. N + 1
      BY <1>1, SMT
    <2> QED BY <2>1, <1>1 DEF Chained
  <1>7. \A k \in 1 .. Len(s), j \in 1 .. N : \A p \in 1 .. Size(o[j]) :
           at[j] + p = base + k => s[k] = Unit(o[j], p)
    BY DEF Spells
  <1> HIDE DEF N
  <1>8. ASSUME NEW k \in 1 .. Len(s \o new), NEW j \in 1 .. N, NEW p \in 1 .. Size(o[j]),
               at[j] + p = base + k
        PROVE  (s \o new)[k] = Unit(o[j], p)
    <2>1. CASE k <= Len(s)
      <3>1. k \in 1 .. Len(s) /\ (s \o new)[k] = s[k]
        BY <2>1, <1>1, <1>2, SMT
      <3> QED BY <3>1, <1>7, <1>8
    <2>2. CASE k > Len(s) /\ j = N
      <3>1. k \in Nat /\ k <= Len(s) + Len(new) /\ (s \o new)[k] = new[k - Len(s)]
        BY <2>2, <1>1, <1>2, SMT
      <3>2. k - Len(s) \in 1 .. Len(new)
        BY <2>2, <3>1, <1>1, SMT
      <3>3. p = w + (k - Len(s))
        <4>1. at[N] + p = base + k /\ at[N] \in Nat /\ p \in 1 .. Size(o[N]) /\ Size(o[N]) \in Nat
          BY <2>2, <1>1, <1>3, <1>8
        <4>2. base \in Nat /\ w \in Nat /\ k \in Nat
          BY <3>1
        <4>3. p \in Nat
          BY ONLY <4>1, SMT
        <4>4. /\ at[N] + p = base + k /\ base + Len(s) = at[N] + w
              /\ at[N] \in Nat /\ Len(s) \in Nat
          BY <4>1, <1>1, <1>4
        <4> DEFINE first == at[N]
                   len == Len(s)
        <4>6. first + p = base + k /\ base + len = first + w /\ first \in Nat /\ len \in Nat
          BY <4>4
        <4> HIDE DEF first, len
        <4>5. p = w + (k - len)
          BY ONLY <4>2, <4>3, <4>6, SMT
        <4> QED BY <4>5 DEF len
      <3>4. new[k - Len(s)] = Unit(o[N], w + (k - Len(s)))
        BY <3>2, <1>5
      <3> QED BY <3>1, <3>3, <3>4, <2>2
    <2>3. CASE k > Len(s) /\ j < N
      <3>1. at[j] + Size(o[j]) <= at[N] /\ at[j] \in Nat /\ at[N] \in Nat /\ Size(o[j]) \in Nat
        BY <2>3, <1>1, <1>3, <1>6
      <3>2. /\ p \in 1 .. Size(o[j]) /\ k \in 1 .. Len(s) + Len(new) /\ at[j] + p = base + k
            /\ base \in Nat /\ w \in Nat
        BY <1>2, <1>8
      <3>3. p \in Nat /\ p <= Size(o[j]) /\ k \in Nat
        BY ONLY <3>1, <3>2, <1>1, SMT
      <3> DEFINE first == at[N]
                 begin == at[j]
                 size == Size(o[j])
                 len == Len(s)
      <3>4. /\ begin + size <= first /\ begin \in Nat /\ first \in Nat /\ size \in Nat /\ len \in Nat
            /\ begin + p = base + k /\ base + len = first + w /\ k > len /\ p <= size
            /\ w \in Nat /\ base \in Nat
        BY <2>3, <3>1, <3>2, <3>3, <1>1, <1>4
      <3> HIDE DEF first, begin, size, len
      <3>5. FALSE
        BY ONLY <3>3, <3>4, SMT
      <3> QED BY <3>5
    <2>4. k \in 1 .. Len(s) + Len(new) /\ j \in 1 .. N
      BY <1>2, <1>8
    <2>5. k <= Len(s) \/ (k > Len(s) /\ j = N) \/ (k > Len(s) /\ j < N)
      BY ONLY <2>4, <1>1, SMT
    <2> QED BY <2>1, <2>2, <2>3, <2>5
  <1>9. Spells(s \o new, base, at, o)
    BY <1>8 DEF Spells, N
  <1>10. base + Len(s \o new) = at[Len(o)] + (w + Len(new))
    <2>1. at[N] \in Nat /\ base \in Nat /\ w \in Nat /\ Len(s \o new) = Len(s) + Len(new)
      BY <1>1, <1>2, <1>3
    <2>2. base + Len(s \o new) = at[N] + (w + Len(new))
      <3> DEFINE first == at[N]
                 len == Len(s)
                 n == Len(new)
      <3>1. /\ first \in Nat /\ base \in Nat /\ w \in Nat /\ len \in Nat /\ n \in Nat
            /\ base + len = first + w
        BY <2>1, <1>1, <1>4
      <3> HIDE DEF first, len, n
      <3>2. base + (len + n) = first + (w + n)
        BY ONLY <3>1, SMT
      <3> QED BY <2>1, <3>2 DEF first, len, n
    <2> QED BY <2>2 DEF N
  <1> QED BY <1>9, <1>10

\* The reader consumes the first n units.
LEMMA StreamShrinks ==
    ASSUME NEW o, NEW at, NEW s \in Seq(Units), NEW base \in Nat, Spells(s, base, at, o),
           NEW n \in 0 .. Len(s)
    PROVE  /\ Spells(SubSeq(s, n + 1, Len(s)), base + n, at, o)
           /\ base + n + Len(SubSeq(s, n + 1, Len(s))) = base + Len(s)
  <1>1. Len(s) \in Nat /\ Len(s) \in n .. Len(s)
    BY LenProperties, SMT
  <1>2. /\ Len(SubSeq(s, n + 1, Len(s))) = Len(s) - n
        /\ \A i \in 1 .. Len(s) - n : SubSeq(s, n + 1, Len(s))[i] = s[n + i]
    BY <1>1, Parts
  <1>3. ASSUME NEW k \in 1 .. Len(s) - n, NEW j \in 1 .. Len(o), NEW p \in 1 .. Size(o[j]),
               at[j] + p = (base + n) + k
        PROVE  SubSeq(s, n + 1, Len(s))[k] = Unit(o[j], p)
    <2>1. n + k \in 1 .. Len(s) /\ (base + n) + k = base + (n + k)
      BY <1>1, SMT
    <2>2. s[n + k] = Unit(o[j], p)
      BY <2>1, <1>3 DEF Spells
    <2> QED BY <2>2, <1>2
  <1>4. Spells(SubSeq(s, n + 1, Len(s)), base + n, at, o)
    BY <1>2, <1>3 DEF Spells
  <1>5. base + n + Len(SubSeq(s, n + 1, Len(s))) = base + Len(s)
    <2>1. base \in Nat /\ n \in 0 .. Len(s)
      OBVIOUS
    <2>2. base + n + (Len(s) - n) = base + Len(s)
      BY ONLY <1>1, <2>1, SMT
    <2> QED BY <1>2, <2>2
  <1> QED BY <1>4, <1>5
-----------------------------------------------------------------------------
(* The steps.                                                              *)

\* The types that the steps below use.
LEMMA FramingTypes ==
    ASSUME TypeInv
    PROVE  /\ got \in Seq(Units) /\ wire \in Seq(Units) /\ Stream \in Seq(Units)
           /\ Len(got) \in Nat /\ Len(wire) \in Nat /\ Len(Stream) = Len(got) + Len(wire)
           /\ order \in Seq(Messages) /\ Len(order) \in Nat /\ Len(received) \in Nat
           /\ received \in Seq(Messages \cup {Garbled})
           /\ \A at \in Offsets : Consumed(at) \in Nat /\ \A i \in Nat : at[i] \in Nat
           /\ \A m \in Messages : PayloadSize[m] \in Nat /\ Size(m) \in Nat
           /\ \A t \in holder : /\ t \in Writers /\ current[t] \in Messages
                                /\ sent[t] \in Nat /\ Written(t) \in Nat
                                /\ part[t] \in {"header", "payload"}
                                /\ Written(t) <= Size(current[t])
  <1>1. /\ got \in Seq(Units) /\ wire \in Seq(Units) /\ order \in Seq(Messages)
        /\ received \in Seq(Messages \cup {Garbled})
    BY DEF TypeInv, TypeOK
  <1>2. Stream \in Seq(Units) /\ Len(Stream) = Len(got) + Len(wire)
    BY <1>1, ConcatProperties DEF Stream
  <1>3. Len(got) \in Nat /\ Len(wire) \in Nat /\ Len(order) \in Nat /\ Len(received) \in Nat
    BY <1>1, LenProperties
  <1>4. \A m \in Messages : PayloadSize[m] \in Nat /\ Size(m) \in Nat
    BY Sizes
  <1>5. ASSUME NEW at \in Offsets
        PROVE  Consumed(at) \in Nat /\ \A i \in Nat : at[i] \in Nat
    <2>1. Len(received) + 1 \in Nat /\ \A i \in Nat : at[i] \in Nat
      BY <1>3, OffsetsAreNumbers, SMT
    <2>2. at[Len(received) + 1] \in Nat /\ at[Len(received) + 1] + 2 \in Nat
          /\ at[Len(received) + 1] + 0 \in Nat
      BY <2>1, SMT
    <2> QED BY <2>1, <2>2 DEF Consumed, HeaderSize
  <1>6. ASSUME NEW t \in holder
        PROVE  /\ t \in Writers /\ current[t] \in Messages
               /\ sent[t] \in Nat /\ Written(t) \in Nat
               /\ part[t] \in {"header", "payload"}
               /\ Written(t) <= Size(current[t])
    <2>1. /\ t \in Writers /\ current[t] \in Messages /\ sent[t] \in Nat
          /\ part[t] \in {"header", "payload"} /\ sent[t] <= Len(Buffer(t))
      BY DEF TypeInv, TypeOK
    <2>2. Len(Buffer(t)) = IF part[t] = "header" THEN HeaderSize ELSE PayloadSize[current[t]]
      BY <2>1, BufferUnits
    <2>3. PayloadSize[current[t]] \in Nat
      BY <2>1, <1>4
    <2>4. Written(t) \in Nat /\ Written(t) <= Size(current[t])
      BY <2>1, <2>2, <2>3, SMT DEF Written, Size, HeaderSize
    <2> QED BY <2>1, <2>4
  <1> QED BY <1>1, <1>2, <1>3, <1>4, <1>5, <1>6

\* A stream that is orderly was so before.
LEMMA OrderlyBefore == TypeInv /\ [Next]_vars /\ Orderly' => Orderly
  <1> SUFFICES ASSUME TypeInv, [Next]_vars, Orderly' PROVE Orderly
    OBVIOUS
  <1>1. CASE Reads
    BY <1>1 DEF Reads, SafeReceive, SafeReceiveIdles, HeaderRead, HeaderMisread, PayloadRead,
                ReaderSkips, Orderly, OneLock
  <1>2. ASSUME NEW t \in Writers, NEW m \in Messages, BeginSend(t, m)
        PROVE  Orderly
    BY <1>2 DEF BeginSend, Orderly, OneLock
  <1>3. ASSUME NEW t \in Writers, SafeSend(t) \/ SafeSendBlocks(t) \/ BeginPayload(t) \/ EndSend(t)
        PROVE  Orderly
    BY <1>3 DEF SafeSend, SafeSendBlocks, BeginPayload, EndSend, Orderly, OneLock
  <1>4. ASSUME NEW t \in Writers, GiveUp(t)
        PROVE  Orderly
    BY <1>4 DEF GiveUp, Orderly, OneLock
  <1>5. CASE UNCHANGED vars
    BY <1>5 DEF vars, Orderly, OneLock
  <1> QED BY <1>1, <1>2, <1>3, <1>4, <1>5 DEF Next, Writes

\* Nobody is inside ProtocolSend when a message is begun in order.
LEMMA BegunInOrder ==
    ASSUME TypeInv, Orderly, Ordered, NEW t \in Writers, NEW m \in Messages, BeginSend(t, m),
           Orderly'
    PROVE  Ordered'
  <1>1. holder = {}
    <2>1. CASE OneLock
      BY <2>1 DEF BeginSend, OneLock, TypeInv, TypeOK
    <2>2. CASE ~mixed'
      BY <2>2 DEF BeginSend
    <2>3. OneLock' => OneLock
      BY DEF BeginSend, OneLock
    <2> QED BY <2>1, <2>2, <2>3 DEF Orderly
  <1>2. /\ order \in Seq(Messages) /\ Len(order) \in Nat /\ Len(received) \in Nat
        /\ Stream \in Seq(Units) /\ \A at \in Offsets : Consumed(at) \in Nat
    BY FramingTypes
  <1>3. /\ order' \in Seq(Messages) /\ order' = Append(order, m)
        /\ Len(order') = Len(order) + 1 /\ order'[Len(order) + 1] = m
        /\ \A i \in 1 .. Len(order) : order'[i] = order[i]
        /\ order' # << >>
    BY <1>2, AppendProperties DEF BeginSend
  <1>4. /\ holder' = {t} /\ current'[t] = m /\ part'[t] = "header" /\ sent'[t] = 0
    BY <1>1 DEF BeginSend, TypeInv, TypeOK
  <1>5. UNCHANGED <<wire, readerVars>>
    BY DEF BeginSend
  <1>6. LastBegun'
    BY <1>3, <1>4 DEF LastBegun
  <1>7. InOrder'
    BY <1>2, <1>3, <1>5, SMTT(30) DEF InOrder, Ordered, readerVars
  <1>8. HeaderNext'
    BY <1>2, <1>3, <1>5, SMT DEF HeaderNext, Ordered, readerVars
  <1>9. ASSUME NEW at \in Offsets, Traced(at)
        PROVE  \E new \in Offsets : Traced(new)'
    <2>1. Consumed(at) + Len(Stream) = at[Len(order) + 1]
      BY <1>1, <1>9 DEF Traced, Reaches
    <2>2. Chained(at, order) /\ Spells(Stream, Consumed(at), at, order)
      BY <1>9 DEF Traced
    <2>3. PICK new \in Offsets :
             /\ \A i \in 1 .. Len(order) + 1 : new[i] = at[i]
             /\ Chained(new, Append(order, m))
             /\ Spells(Stream, Consumed(at), new, Append(order, m))
      BY <1>2, <2>1, <2>2, ChainGrows
    <2>4. Len(received) + 1 \in 1 .. Len(order) + 1 /\ Len(order) + 1 \in 1 .. Len(order) + 1
      <3>1. Len(received) <= Len(order)
        BY DEF Ordered, InOrder
      <3> QED BY ONLY <3>1, <1>2, SMT
    <2>5. Consumed(new)' = Consumed(at) /\ Stream' = Stream
      BY <1>5, <2>3, <2>4 DEF Consumed, Stream, readerVars
    <2>6. Written(t)' = 0
      BY <1>4 DEF Written
    <2>7. new[Len(order')] + 0 = at[Len(order) + 1]
      <3>1. new[Len(order')] = at[Len(order) + 1]
        BY <1>3, <2>3, <2>4
      <3>2. Len(order) + 1 \in Nat
        BY <1>2, SMT
      <3>3. at[Len(order) + 1] \in Nat
        BY <3>2, OffsetsAreNumbers
      <3> QED BY ONLY <3>1, <3>3, SMT
    <2>8. Reaches(new)'
      BY <1>4, <2>1, <2>5, <2>6, <2>7 DEF Reaches
    <2>9. Traced(new)'
      BY <1>3, <2>3, <2>5, <2>8 DEF Traced
    <2> QED BY <2>9
  <1>10. Followed'
    BY <1>5, <1>9 DEF Followed, Ordered, readerVars
  <1> QED BY <1>6, <1>7, <1>8, <1>10 DEF Ordered

\* What is appended to the connection is appended to the stream.
LEMMA Reassociated ==
    \A a, b, c \in Seq(Units) : (a \o b) \o c = a \o (b \o c)
  BY ConcatAssociative

\* What SafeSend moves are the next units of the last message.
LEMMA SentInOrder ==
    ASSUME TypeInv, Orderly, Ordered, NEW t \in Writers, SafeSend(t)
    PROVE  Ordered'
  <1>1. PICK n \in 1 .. Len(Buffer(t)) - sent[t] :
             /\ wire' = wire \o SubSeq(Buffer(t), sent[t] + 1, sent[t] + n)
             /\ sent' = [sent EXCEPT ![t] = @ + n]
    BY DEF SafeSend
  <1> DEFINE new == SubSeq(Buffer(t), sent[t] + 1, sent[t] + n)
             last == order[Len(order)]
  <1>2. /\ order \in Seq(Messages) /\ Len(order) \in Nat /\ Len(received) \in Nat
        /\ Stream \in Seq(Units) /\ got \in Seq(Units) /\ wire \in Seq(Units)
        /\ \A at \in Offsets : Consumed(at) \in Nat /\ \A i \in Nat : at[i] \in Nat
    BY FramingTypes
  <1>3. t \in holder
    BY DEF SafeSend
  <1>4. /\ t \in Writers /\ current[t] \in Messages /\ sent[t] \in Nat /\ Written(t) \in Nat
        /\ part[t] \in {"header", "payload"}
        /\ PayloadSize[current[t]] \in Nat
    BY <1>3, FramingTypes
  <1>5. /\ Buffer(t) \in Seq(Units)
        /\ Len(Buffer(t)) = IF part[t] = "header" THEN HeaderSize ELSE PayloadSize[current[t]]
        /\ \A i \in 1 .. Len(Buffer(t)) :
              Buffer(t)[i] = Unit(current[t], i + IF part[t] = "header" THEN 0 ELSE HeaderSize)
    BY <1>4, BufferUnits
  <1>6. Len(Buffer(t)) \in Nat
    BY <1>5, LenProperties
  <1>7. /\ n \in Nat /\ sent[t] \in 0 .. Len(Buffer(t)) /\ sent[t] + n \in sent[t] .. Len(Buffer(t))
    BY <1>4, <1>6, SMT
  <1>8. /\ new \in Seq(Units) /\ Len(new) = (sent[t] + n) - sent[t]
        /\ \A i \in 1 .. (sent[t] + n) - sent[t] : new[i] = Buffer(t)[sent[t] + i]
    BY <1>5, <1>7, Parts, ZenonT(30)
  <1>9. Len(new) = n
    BY <1>4, <1>7, <1>8, SMT
  <1> HIDE DEF new
  <1>10. holder = {t} /\ order # << >> /\ current[t] = last
    BY <1>3 DEF Ordered, LastBegun
  <1>11. Written(t)' = Written(t) + n
    <2>1. sent'[t] = sent[t] + n /\ part' = part
      BY <1>1, <1>4 DEF SafeSend, TypeInv, TypeOK
    <2> QED BY <2>1, <1>4, <1>7, SMT DEF Written, HeaderSize
  <1>12. Written(t) + Len(new) <= Size(last)
    <2>1. Size(last) = 2 + PayloadSize[current[t]]
      BY <1>4, <1>10, Sizes
    <2>2. sent[t] + n <= IF part[t] = "header" THEN 2 ELSE PayloadSize[current[t]]
      BY <1>5, <1>6, <1>7, SMT DEF HeaderSize
    <2>3. Written(t) + n <= 2 + PayloadSize[current[t]]
      BY ONLY <1>4, <1>7, <2>2, SMTT(30) DEF Written, HeaderSize
    <2> QED BY <2>1, <2>3, <1>9
  <1>13. ASSUME NEW i \in 1 .. Len(new)
         PROVE  new[i] = Unit(last, Written(t) + i)
    <2>0. i \in 1 .. n
      BY <1>9
    <2>1. i \in 1 .. (sent[t] + n) - sent[t] /\ sent[t] + i \in 1 .. Len(Buffer(t))
      BY ONLY <2>0, <1>4, <1>6, <1>7, SMT
    <2>2. new[i] = Unit(current[t], (sent[t] + i) + IF part[t] = "header" THEN 0 ELSE HeaderSize)
      BY <2>1, <1>5, <1>8
    <2>3. (sent[t] + i) + (IF part[t] = "header" THEN 0 ELSE HeaderSize) = Written(t) + i
      BY <2>1, <1>4, <1>9, <1>7, SMT DEF Written, HeaderSize
    <2> QED BY <2>2, <2>3, <1>10
  <1>14. UNCHANGED <<holder, current, order, readerVars>>
    BY DEF SafeSend
  <1>15. Stream' = Stream \o new
    <2>1. wire' = wire \o new /\ got' = got
      BY <1>1, <1>14 DEF readerVars, new
    <2>2. (got \o wire) \o new = got \o (wire \o new)
      <3>1. got \in Seq(Units) /\ wire \in Seq(Units) /\ new \in Seq(Units)
        BY <1>2, <1>8
      <3> QED BY ONLY <3>1, Reassociated
    <2> QED BY <2>1, <2>2 DEF Stream
  <1>16. LastBegun' /\ InOrder' /\ HeaderNext'
    BY <1>14 DEF Ordered, LastBegun, InOrder, HeaderNext, readerVars
  <1>17. ASSUME NEW at \in Offsets, Traced(at)
         PROVE  Traced(at)'
    <2>1. Consumed(at) + Len(Stream) = at[Len(order)] + Written(t)
      BY <1>10, <1>17 DEF Traced, Reaches
    <2>2. Chained(at, order) /\ Spells(Stream, Consumed(at), at, order)
      BY <1>17 DEF Traced
    <2>3. /\ Spells(Stream \o new, Consumed(at), at, order)
          /\ Consumed(at) + Len(Stream \o new) = at[Len(order)] + (Written(t) + Len(new))
      <3> DEFINE w == Written(t)
                 base == Consumed(at)
      <3>1. base \in Nat /\ w \in Nat /\ order \in Seq(Messages) /\ Stream \in Seq(Units) /\ order # << >>
        BY <1>2, <1>4, <1>10
      <3>2. /\ Chained(at, order) /\ Spells(Stream, base, at, order)
            /\ base + Len(Stream) = at[Len(order)] + w
            /\ new \in Seq(Units) /\ w + Len(new) <= Size(order[Len(order)])
        BY <2>1, <2>2, <1>8, <1>12
      <3>3. \A i \in 1 .. Len(new) : new[i] = Unit(order[Len(order)], w + i)
        BY <1>13
      <3> HIDE DEF w, base
      <3>4. /\ Spells(Stream \o new, base, at, order)
            /\ base + Len(Stream \o new) = at[Len(order)] + (w + Len(new))
        BY <3>1, <3>2, <3>3, StreamGrows
      <3> QED BY <3>4 DEF w, base
    <2>4. Consumed(at)' = Consumed(at)
      BY <1>14 DEF Consumed, readerVars
    <2>5. Reaches(at)'
      BY <1>9, <1>10, <1>11, <1>14, <1>15, <2>3, <2>4 DEF Reaches
    <2> QED BY <1>14, <1>15, <2>2, <2>3, <2>4, <2>5 DEF Traced
  <1>18. Followed'
    BY <1>14, <1>17 DEF Followed, Ordered, readerVars
  <1> QED BY <1>16, <1>18 DEF Ordered
\* A payload begins where its header ends, and a message ends with its buffer.
LEMMA WritesInOrder ==
    ASSUME TypeInv, Orderly, Ordered, NEW t \in Writers,
           SafeSendBlocks(t) \/ BeginPayload(t) \/ EndSend(t)
    PROVE  Ordered'
  <1>1. /\ Len(order) \in Nat /\ order \in Seq(Messages)
        /\ \A at \in Offsets : \A i \in Nat : at[i] \in Nat
    BY FramingTypes
  <1>2. t \in holder
    BY DEF SafeSendBlocks, BeginPayload, EndSend
  <1>3. /\ t \in Writers /\ current[t] \in Messages /\ sent[t] \in Nat
        /\ part[t] \in {"header", "payload"} /\ PayloadSize[current[t]] \in Nat
        /\ Written(t) \in Nat
    BY <1>2, FramingTypes
  <1>4. /\ Buffer(t) \in Seq(Units)
        /\ Len(Buffer(t)) = IF part[t] = "header" THEN HeaderSize ELSE PayloadSize[current[t]]
    BY <1>3, BufferUnits
  <1>5. holder = {t} /\ order # << >> /\ current[t] = order[Len(order)]
    BY <1>2 DEF Ordered, LastBegun
  <1>6. UNCHANGED <<current, order, wire, readerVars>>
    BY DEF SafeSendBlocks, BeginPayload, EndSend
  <1>7. holder' \subseteq holder
    BY DEF SafeSendBlocks, BeginPayload, EndSend
  <1>8. LastBegun' /\ InOrder' /\ HeaderNext'
    BY <1>5, <1>6, <1>7 DEF Ordered, LastBegun, InOrder, HeaderNext, readerVars
  <1>9. ASSUME NEW at \in Offsets, Traced(at)
        PROVE  Traced(at)'
    <2>1. /\ Consumed(at) + Len(Stream) = at[Len(order)] + Written(t)
          /\ Chained(at, order) /\ Spells(Stream, Consumed(at), at, order)
      BY <1>5, <1>9 DEF Traced, Reaches
    <2>2. Consumed(at)' = Consumed(at) /\ Stream' = Stream
      BY <1>6 DEF Consumed, Stream, readerVars
    <2>3. CASE SafeSendBlocks(t)
      <3>1. Written(t)' = Written(t) /\ holder' = {t}
        BY <2>3, <1>5 DEF SafeSendBlocks, Written
      <3>2. Reaches(at)'
        BY <1>6, <2>1, <2>2, <3>1 DEF Reaches
      <3> QED BY <1>6, <2>1, <2>2, <3>2 DEF Traced
    <2>4. CASE BeginPayload(t)
      <3>1. holder' = {t} /\ part[t] = "header" /\ sent[t] = HeaderSize
        BY <2>4, <1>5 DEF BeginPayload
      <3>2. part'[t] = "payload" /\ sent'[t] = 0
        BY <2>4 DEF BeginPayload, TypeInv, TypeOK
      <3>3. Written(t)' = Written(t)
        BY <3>1, <3>2, SMT DEF Written, HeaderSize
      <3>4. Reaches(at)'
        BY <1>6, <2>1, <2>2, <3>1, <3>3 DEF Reaches
      <3> QED BY <1>6, <2>1, <2>2, <3>4 DEF Traced
    <2>5. CASE EndSend(t)
      <3>1. holder' = {}
        BY <2>5, <1>5 DEF EndSend
      <3>2. Written(t) = Size(current[t])
        BY <2>5, <1>3, <1>4, SMT DEF EndSend, Written, Size, HeaderSize
      <3>3. Len(order) \in 1 .. Len(order)
        BY <1>1, <1>5, EmptySeq, SMT
      <3>4. at[Len(order) + 1] = at[Len(order)] + Size(order[Len(order)])
        BY <2>1, <3>3 DEF Chained
      <3>5. Reaches(at)'
        BY <1>5, <1>6, <2>1, <2>2, <3>1, <3>2, <3>4 DEF Reaches
      <3> QED BY <1>6, <2>1, <2>2, <3>5 DEF Traced
    <2> QED BY <2>3, <2>4, <2>5
  <1>10. Followed'
    BY <1>6, <1>9 DEF Followed, Ordered, readerVars
  <1> QED BY <1>8, <1>10 DEF Ordered

\* What the reader has of a buffer, on an orderly stream: the next units of the
\* next message.
LEMMA NextUnits ==
    ASSUME TypeInv, Ordered, NEW at \in Offsets, Traced(at),
           NEW n \in Nat, NEW before \in Nat, Len(got) >= 1,
           n = Len(received) + 1,
           before = IF reading = "payload" THEN HeaderSize ELSE 0
    PROVE  /\ n \in 1 .. Len(order) /\ order[n] \in Messages
           /\ \A i \in 1 .. Len(got) : before + i <= Size(order[n]) => got[i] = Unit(order[n], before + i)
           /\ Len(got) \in 0 .. Len(Stream)
           /\ SubSeq(Stream, Len(got) + 1, Len(Stream)) = wire
           /\ at[n + 1] = at[n] + Size(order[n]) /\ Consumed(at) = at[n] + before
  <1>1. /\ got \in Seq(Units) /\ wire \in Seq(Units) /\ Stream \in Seq(Units)
        /\ Len(got) \in Nat /\ Len(wire) \in Nat /\ Len(Stream) = Len(got) + Len(wire)
        /\ order \in Seq(Messages) /\ Len(order) \in Nat
        /\ Consumed(at) \in Nat /\ \A i \in Nat : at[i] \in Nat
        /\ \A m \in Messages : Size(m) \in Nat
    BY FramingTypes
  <1>2. /\ \A i \in 1 .. Len(got) : Stream[i] = got[i]
        /\ \A i \in 1 .. Len(wire) : Stream[Len(got) + i] = wire[i]
    BY <1>1, ConcatProperties, SMT DEF Stream
  <1>3. Consumed(at) = at[n] + before
    BY DEF Consumed
  <1>4. Len(received) <= Len(order)
    BY DEF Ordered, InOrder
  <1>5. ASSUME n = Len(order) + 1
        PROVE  FALSE
    <2>1. Consumed(at) + Len(Stream) <= at[Len(order) + 1]
      <3>1. CASE holder = {}
        BY <3>1, <1>1, SMT DEF Traced, Reaches
      <3>2. ASSUME NEW t \in holder
            PROVE  Consumed(at) + Len(Stream) <= at[Len(order) + 1]
        <4>1. /\ order # << >> /\ current[t] = order[Len(order)]
              /\ Consumed(at) + Len(Stream) = at[Len(order)] + Written(t)
          BY <3>2 DEF Ordered, LastBegun, Traced, Reaches
        <4>2. Len(order) \in 1 .. Len(order)
          BY <1>1, <4>1, EmptySeq, SMT
        <4>3. at[Len(order) + 1] = at[Len(order)] + Size(current[t])
          BY <4>1, <4>2 DEF Traced, Chained
        <4>4. Written(t) \in Nat /\ Written(t) <= Size(current[t]) /\ current[t] \in Messages
          BY FramingTypes
        <4> QED BY <1>1, <4>1, <4>2, <4>3, <4>4, SMTT(30)
      <3> QED BY <3>1, <3>2
    <2>2. Consumed(at) + Len(Stream) <= at[n]
      BY <2>1, <1>5
    <2> QED BY <2>2, <1>1, <1>3, SMT
  <1>6. n \in 1 .. Len(order)
    BY <1>1, <1>4, <1>5, SMT
  <1>7. order[n] \in Messages
    BY <1>1, <1>6, ElementOfSeq
  <1>8. ASSUME NEW i \in 1 .. Len(got), before + i <= Size(order[n])
        PROVE  got[i] = Unit(order[n], before + i)
    <2>1. before + i \in 1 .. Size(order[n]) /\ at[n] + (before + i) = Consumed(at) + i
      BY <1>1, <1>3, <1>7, <1>8, SMTT(30)
    <2>2. i \in 1 .. Len(Stream)
      BY <1>1, SMT
    <2>3. Stream[i] = Unit(order[n], before + i)
      BY <1>6, <2>1, <2>2 DEF Traced, Spells
    <2> QED BY <2>3, <1>2
  <1>9. Len(got) \in 0 .. Len(Stream)
    BY <1>1, SMT
  <1>10. SubSeq(Stream, Len(got) + 1, Len(Stream)) = wire
    <2> DEFINE rest == SubSeq(Stream, Len(got) + 1, Len(Stream))
    <2>1. Len(Stream) \in Len(got) .. Len(Stream)
      BY <1>1, SMT
    <2>2. /\ rest \in Seq(Units) /\ Len(rest) = Len(Stream) - Len(got)
          /\ \A i \in 1 .. Len(Stream) - Len(got) : rest[i] = Stream[Len(got) + i]
      BY <1>1, <1>9, <2>1, Parts
    <2> HIDE DEF rest
    <2>3. Len(Stream) - Len(got) = Len(wire)
      BY <1>1, SMT
    <2>4. \A i \in 1 .. Len(rest) : rest[i] = wire[i]
      BY <1>2, <2>2, <2>3
    <2>5. rest = wire
      BY <1>1, <2>2, <2>3, <2>4, SeqEqual
    <2> QED BY <2>5 DEF rest
  <1>11. at[n + 1] = at[n] + Size(order[n])
    BY <1>6 DEF Traced, Chained
  <1> QED BY <1>3, <1>6, <1>7, <1>8, <1>9, <1>10, <1>11

\* A buffer that is complete is consumed: the stream is traced from there on.
LEMMA BufferConsumed ==
    ASSUME TypeInv, NEW at \in Offsets, Traced(at), wire' = SubSeq(Stream, Len(got) + 1, Len(Stream)),
           Len(got) \in 0 .. Len(Stream), got' = << >>,
           UNCHANGED <<holder, current, part, sent, order>>,
           Consumed(at)' = Consumed(at) + Len(got), wire' \in Seq(Units)
    PROVE  Traced(at)'
  <1>1. Stream \in Seq(Units) /\ Consumed(at) \in Nat
    BY FramingTypes
  <1>2. /\ Chained(at, order) /\ Spells(Stream, Consumed(at), at, order) /\ Reaches(at)
    BY DEF Traced
  <1>3. Stream' = SubSeq(Stream, Len(got) + 1, Len(Stream))
    BY ConcatEmptySeq DEF Stream
  <1>4. /\ Spells(SubSeq(Stream, Len(got) + 1, Len(Stream)), Consumed(at) + Len(got), at, order)
        /\ Consumed(at) + Len(got) + Len(SubSeq(Stream, Len(got) + 1, Len(Stream)))
             = Consumed(at) + Len(Stream)
    BY <1>1, <1>2, StreamShrinks
  <1>5. Consumed(at)' + Len(Stream') = Consumed(at) + Len(Stream)
    BY <1>3, <1>4
  <1>6. \A t \in holder : Written(t)' = Written(t)
    BY DEF Written
  <1>7. Reaches(at)'
    BY <1>2, <1>5, <1>6 DEF Reaches
  <1>8. Spells(Stream', Consumed(at)', at, order)
    BY <1>3, <1>4
  <1> QED BY <1>2, <1>7, <1>8 DEF Traced
\* SafeReceive leaves the stream as it is.
LEMMA ReceivedInOrder ==
    ASSUME TypeInv, Ordered, SafeReceive \/ SafeReceiveIdles
    PROVE  Ordered'
  <1>1. got \in Seq(Units) /\ wire \in Seq(Units) /\ Len(got) \in Nat /\ Len(wire) \in Nat
    BY FramingTypes
  <1>2. /\ UNCHANGED <<need, header, received, holder, current, part, sent, order>>
        /\ reading # "closed"
        /\ reading' = reading \/ reading' = "closed"
    BY DEF SafeReceive, SafeReceiveIdles, ReaderSkips, writerVars
  <1>3. Stream' = Stream
    <2>1. CASE SafeReceive
      <3>1. PICK n \in 1 .. need - Len(got) :
               /\ n <= Len(wire)
               /\ got' = got \o SubSeq(wire, 1, n)
               /\ wire' = SubSeq(wire, n + 1, Len(wire))
        BY <2>1 DEF SafeReceive
      <3>2. n \in 0 .. Len(wire)
        BY <1>1, <3>1, SMT
      <3>3. Together(got \o SubSeq(wire, 1, n), SubSeq(wire, n + 1, Len(wire))) = Together(got, wire)
        BY <1>1, <3>2, Received
      <3> QED BY <3>1, <3>3 DEF Stream, Together
    <2>2. CASE SafeReceiveIdles
      BY <2>2 DEF SafeReceiveIdles, Stream
    <2> QED BY <2>1, <2>2
  <1>4. LastBegun' /\ InOrder' /\ HeaderNext'
    BY <1>2 DEF Ordered, LastBegun, InOrder, HeaderNext
  <1>5. ASSUME reading' # "closed", NEW at \in Offsets, Traced(at)
        PROVE  Traced(at)'
    <2>1. reading' = reading
      BY <1>2, <1>5
    <2>2. Consumed(at)' = Consumed(at) /\ \A t \in holder : Written(t)' = Written(t)
      BY <1>2, <2>1 DEF Consumed, Written
    <2> QED BY <1>2, <1>3, <1>5, <2>2 DEF Traced, Reaches
  <1>6. Followed'
    BY <1>2, <1>5 DEF Followed, Ordered
  <1> QED BY <1>4, <1>6 DEF Ordered

\* A message that is returned is the next one.
LEMMA ReturnedInOrder ==
    ASSUME TypeInv, Ordered, NEW at \in Offsets, Traced(at),
           NEW n \in Nat, n = Len(received) + 1, n \in 1 .. Len(order),
           Returned(order[n]), UNCHANGED <<wire, holder, current, part, sent, order>>,
           Len(got) \in 0 .. Len(Stream), SubSeq(Stream, Len(got) + 1, Len(Stream)) = wire,
           Consumed(at) + Len(got) = at[n + 1]
    PROVE  Ordered'
  <1>1. /\ received \in Seq(Messages \cup {Garbled}) /\ order \in Seq(Messages)
        /\ Len(received) \in Nat /\ Len(order) \in Nat /\ wire \in Seq(Units)
    BY FramingTypes
  <1>2. /\ Len(received') = n /\ received'[n] = order[n]
        /\ \A i \in 1 .. Len(received) : received'[i] = received[i]
        /\ reading' = "header" /\ got' = << >>
    <2>1. order[n] \in Messages \cup {Garbled}
      BY <1>1, ElementOfSeq
    <2> QED BY <1>1, <2>1, AppendProperties DEF Returned
  <1>3. InOrder'
    <2>1. ASSUME NEW i \in 1 .. n
          PROVE  received'[i] = order[i]
      <3>1. i = n \/ i \in 1 .. Len(received)
        BY <1>1, SMT
      <3> QED BY <1>2, <3>1 DEF Ordered, InOrder
    <2>2. n <= Len(order)
      BY <1>1, SMT
    <2> QED BY <1>2, <2>1, <2>2 DEF InOrder
  <1>4. LastBegun' /\ HeaderNext'
    BY <1>2 DEF Ordered, LastBegun, HeaderNext
  <1>5. Consumed(at)' = Consumed(at) + Len(got)
    <2>1. Consumed(at)' = at[n + 1] + 0
      BY <1>2 DEF Consumed
    <2>2. at[n + 1] \in Nat
      <3>1. n + 1 \in Nat
        BY SMT
      <3> QED BY <3>1, OffsetsAreNumbers
    <2> QED BY <2>1, <2>2, SMT
  <1>6. Traced(at)'
    BY <1>1, <1>2, <1>5, BufferConsumed
  <1> QED BY <1>3, <1>4, <1>6 DEF Ordered, Followed

\* The header that was read is that of the next message.
LEMMA HeaderInOrder ==
    ASSUME TypeInv, Orderly, Ordered, HeaderRead \/ HeaderMisread
    PROVE  Ordered'
  <1>1. /\ reading = "header" /\ Len(got) = 2
        /\ UNCHANGED <<wire, holder, current, part, sent, order>>
    BY DEF HeaderRead, HeaderMisread, ReaderSkips, writerVars, HeaderSize
  <1>2. PICK at \in Offsets : Traced(at)
    BY <1>1 DEF Ordered, Followed
  <1> DEFINE n == Len(received) + 1
  <1>3. n \in Nat /\ n = Len(received) + 1 /\ 0 \in Nat /\ Len(got) >= 1
        /\ got \in Seq(Units) /\ wire \in Seq(Units)
    BY <1>1, FramingTypes, SMT
  <1>4. /\ n \in 1 .. Len(order) /\ order[n] \in Messages
        /\ \A i \in 1 .. Len(got) : 0 + i <= Size(order[n]) => got[i] = Unit(order[n], 0 + i)
        /\ Len(got) \in 0 .. Len(Stream)
        /\ SubSeq(Stream, Len(got) + 1, Len(Stream)) = wire
        /\ at[n + 1] = at[n] + Size(order[n]) /\ Consumed(at) = at[n] + 0
    <2>1. 0 = IF reading = "payload" THEN HeaderSize ELSE 0
      BY <1>1
    <2> HIDE DEF n
    <2> QED BY <1>2, <1>3, <2>1, NextUnits
  <1> HIDE DEF n
  <1>5. PayloadSize[order[n]] \in Nat /\ Size(order[n]) = 2 + PayloadSize[order[n]]
    BY <1>4, FramingAssumption DEF Size, HeaderSize
  <1>6. got[1] = Unit(order[n], 1) /\ got[2] = Unit(order[n], 2)
    BY <1>1, <1>4, <1>5, SMT
  <1>7. ASSUME HeaderMisread
        PROVE  FALSE
    <2>1. Header(order[n]) \in Seq(Units) /\ Len(Header(order[n])) = 2
      <3>1. Header(order[n]) \in [1 .. 2 -> Units]
        BY <1>4, SMT DEF Header, Unit, Units, HeaderSize
      <3>2. 2 \in Nat
        OBVIOUS
      <3> QED BY <3>1, <3>2, FunctionsAreSequences
    <2>2. \A i \in 1 .. 2 : Header(order[n])[i] = Unit(order[n], i)
      BY DEF Header, HeaderSize
    <2>3. \A i \in 1 .. Len(got) : got[i] = Header(order[n])[i]
      BY <1>1, <1>6, <2>2, SMT
    <2>4. got = Header(order[n])
      BY <1>1, <1>3, <2>1, <2>3, SeqEqual
    <2> QED BY <1>4, <1>7, <2>4 DEF HeaderMisread
  <1>8. PICK m \in Messages :
           /\ got = Header(m)
           /\ header' = m
           /\ IF PayloadSize[m] = 0 THEN Returned(m)
              ELSE /\ reading' = "payload"
                   /\ need' = PayloadSize[m]
                   /\ got' = << >>
                   /\ UNCHANGED received
    BY <1>7 DEF HeaderRead
  <1>9. m = order[n]
    <2>1. got[1] = Unit(m, 1)
      BY <1>8, SMT DEF Header, HeaderSize
    <2> QED BY <1>6, <2>1 DEF Unit
  <1>10. at[n] \in Nat
    BY <1>3, OffsetsAreNumbers
  <1>11. CASE PayloadSize[m] = 0
    <2>1. Returned(order[n])
      BY <1>8, <1>9, <1>11
    <2>2. Consumed(at) + Len(got) = at[n + 1]
      BY <1>1, <1>4, <1>5, <1>9, <1>10, <1>11, SMT
    <2> QED BY <1>1, <1>2, <1>3, <1>4, <2>1, <2>2, ReturnedInOrder
  <1>12. CASE PayloadSize[m] # 0
    <2>1. /\ reading' = "payload" /\ need' = PayloadSize[m] /\ got' = << >>
          /\ received' = received
      BY <1>8, <1>12
    <2>2. Len(received) < Len(order)
      BY <1>3, <1>4, FramingTypes, SMT
    <2>3. HeaderNext'
      BY <1>1, <1>3, <1>8, <1>9, <1>12, <2>1, <2>2 DEF HeaderNext
    <2>4. LastBegun' /\ InOrder'
      BY <1>1, <2>1 DEF Ordered, LastBegun, InOrder
    <2>5. Consumed(at)' = at[n] + 2
      BY <1>3, <2>1 DEF Consumed, HeaderSize
    <2>6. Consumed(at)' = Consumed(at) + Len(got)
      BY <1>1, <1>4, <1>10, <2>5, SMT
    <2>7. Traced(at)'
      BY <1>1, <1>2, <1>3, <1>4, <2>1, <2>6, BufferConsumed
    <2> QED BY <2>3, <2>4, <2>7 DEF Ordered, Followed
  <1> QED BY <1>11, <1>12

\* So is its payload.
LEMMA PayloadInOrder ==
    ASSUME TypeInv, Orderly, Ordered, PayloadRead
    PROVE  Ordered'
  <1> DEFINE n == Len(received) + 1
  <1>1. /\ reading = "payload" /\ Len(got) = need
        /\ UNCHANGED <<wire, holder, current, part, sent, order>>
        /\ Returned(IF header # Garbled /\ got = Payload(header) THEN header ELSE Garbled)
    BY DEF PayloadRead, ReaderSkips, writerVars
  <1>2. Len(received) < Len(order) /\ header = order[n] /\ need = PayloadSize[header] /\ need # 0
    BY <1>1 DEF Ordered, HeaderNext
  <1>3. PICK at \in Offsets : Traced(at)
    BY <1>1 DEF Ordered, Followed
  <1>4. /\ got \in Seq(Units) /\ wire \in Seq(Units) /\ Len(got) \in Nat /\ Len(wire) \in Nat
        /\ Len(Stream) = Len(got) + Len(wire) /\ order \in Seq(Messages) /\ Len(order) \in Nat
        /\ Len(received) \in Nat
    BY FramingTypes
  <1>5. n \in Nat /\ n \in 1 .. Len(order) /\ n = Len(received) + 1 /\ 2 \in Nat
    BY <1>2, <1>4, SMT
  <1>6. order[n] \in Messages
    BY <1>4, <1>5, ElementOfSeq
  <1> HIDE DEF n
  <1>7. PayloadSize[order[n]] \in Nat /\ Size(order[n]) = 2 + PayloadSize[order[n]]
        /\ order[n] # Garbled
    BY <1>6, FramingAssumption DEF Size, HeaderSize
  <1>8. CASE Len(got) >= 1
    <2>1. 2 = IF reading = "payload" THEN HeaderSize ELSE 0
      BY <1>1 DEF HeaderSize
    <2>2. /\ \A i \in 1 .. Len(got) : 2 + i <= Size(order[n]) => got[i] = Unit(order[n], 2 + i)
          /\ Len(got) \in 0 .. Len(Stream)
          /\ SubSeq(Stream, Len(got) + 1, Len(Stream)) = wire
          /\ at[n + 1] = at[n] + Size(order[n]) /\ Consumed(at) = at[n] + 2
      BY <1>3, <1>5, <1>8, <2>1, NextUnits
    <2>3. Payload(header) \in Seq(Units) /\ Len(Payload(header)) = need
      <3>1. Payload(header) \in [1 .. need -> Units]
        BY <1>2, <1>6, <1>7, SMT DEF Payload, Unit, Units, HeaderSize
      <3> QED BY <1>2, <1>7, <3>1, FunctionsAreSequences
    <2>4. \A i \in 1 .. Len(got) : Payload(header)[i] = Unit(order[n], 2 + i)
      BY <1>1, <1>2 DEF Payload, HeaderSize
    <2>5. \A i \in 1 .. Len(got) : got[i] = Unit(order[n], 2 + i)
      <3>1. Len(got) = PayloadSize[order[n]]
        BY <1>1, <1>2
      <3>2. \A i \in 1 .. Len(got) : 2 + i <= Size(order[n])
        BY ONLY <3>1, <1>7, SMT
      <3> QED BY <3>2, <2>2
    <2>6. got = Payload(header)
      BY <1>1, <1>4, <2>3, <2>4, <2>5, SeqEqual
    <2>7. Returned(order[n])
      BY <1>1, <1>2, <1>7, <2>6
    <2>8. Consumed(at) + Len(got) = at[n + 1]
      <3>1. at[n] \in Nat
        BY <1>5, OffsetsAreNumbers
      <3>2. Len(got) = PayloadSize[order[n]]
        BY <1>1, <1>2
      <3>3. (at[n] + 2) + PayloadSize[order[n]] = at[n] + (2 + PayloadSize[order[n]])
        BY ONLY <3>1, <1>7, SMT
      <3> QED BY <1>7, <2>2, <3>2, <3>3
    <2> QED BY <1>1, <1>3, <1>5, <2>2, <2>7, <2>8, ReturnedInOrder
  <1>9. Len(got) >= 1
    BY <1>1, <1>2, <1>4, SMT
  <1> QED BY <1>8, <1>9

\* FramingInv is inductive.
LEMMA FramingStep == FramingInv /\ [Next]_vars => FramingInv'
  <1> SUFFICES ASSUME FramingInv, [Next]_vars PROVE FramingInv'
    OBVIOUS
  <1>1. TypeInv' /\ TypeInv
    BY TypeStep DEF FramingInv
  <1>2. SUFFICES ASSUME Orderly' PROVE Ordered'
    BY <1>1 DEF FramingInv
  <1>3. Orderly /\ Ordered
    BY <1>1, <1>2, OrderlyBefore DEF FramingInv
  <1>4. CASE Reads
    BY <1>1, <1>3, <1>4, ReceivedInOrder, HeaderInOrder, PayloadInOrder DEF Reads
  <1>5. ASSUME NEW t \in Writers, NEW m \in Messages, BeginSend(t, m)
        PROVE  Ordered'
    BY <1>1, <1>2, <1>3, <1>5, BegunInOrder
  <1>6. ASSUME NEW t \in Writers, SafeSend(t) \/ SafeSendBlocks(t) \/ BeginPayload(t) \/ EndSend(t)
        PROVE  Ordered'
    BY <1>1, <1>3, <1>6, SentInOrder, WritesInOrder
  <1>7. ASSUME NEW t \in Writers, GiveUp(t)
        PROVE  FALSE
    BY <1>2, <1>7 DEF GiveUp, Orderly
  <1>8. CASE UNCHANGED vars
    <2>1. UNCHANGED <<Stream, received, reading>>
      BY <1>8 DEF vars, readerVars, Stream
    <2>2. \A at : Consumed(at)' = Consumed(at)
      BY <1>8 DEF vars, readerVars, Consumed
    <2>3. \A t : Written(t)' = Written(t)
      BY <1>8 DEF vars, writerVars, Written
    <2>4. \A at : Traced(at)' <=> Traced(at)
      BY <1>8, <2>1, <2>2, <2>3 DEF vars, writerVars, Traced, Reaches
    <2> QED BY <1>3, <1>8, <2>4 DEF vars, readerVars, writerVars, Ordered, LastBegun, InOrder,
                                     HeaderNext, Followed
  <1> QED BY <1>4, <1>5, <1>6, <1>7, <1>8 DEF Next, Writes

\* FramingInv holds at first: nothing is on the connection.
LEMMA FramingInit == Init => FramingInv
  <1> SUFFICES ASSUME Init PROVE FramingInv
    OBVIOUS
  <1>1. TypeInv
    BY TypeCorrectInit
  <1>2. /\ holder = {} /\ order = << >> /\ received = << >> /\ reading = "header"
        /\ got = << >> /\ wire = << >>
    BY DEF Init
  <1>3. Len(order) = 0 /\ Len(received) = 0
    BY <1>2, SMT
  <1>4. Stream = << >>
    BY <1>2, EmptySeq, ConcatEmptySeq DEF Stream
  <1>5. LastBegun /\ InOrder /\ HeaderNext
    BY <1>2, <1>3, SMT DEF LastBegun, InOrder, HeaderNext
  <1> DEFINE at == [i \in Nat |-> 0]
  <1>6. at \in Offsets /\ at[0 + 1] = 0
    BY SMT DEF Offsets
  <1> HIDE DEF at
  <1>7. Len(Stream) = 0 /\ Consumed(at) = 0
    BY <1>2, <1>3, <1>4, <1>6, SMT DEF Consumed
  <1>8. Chained(at, order) /\ Spells(Stream, Consumed(at), at, order)
    BY <1>3, <1>7, SMT DEF Chained, Spells
  <1>9. Reaches(at)
    BY <1>2, <1>3, <1>6, <1>7, SMT DEF Reaches
  <1>10. Followed
    BY <1>6, <1>8, <1>9 DEF Followed, Traced
  <1> QED BY <1>1, <1>5, <1>10 DEF FramingInv, Ordered

\* What the reader returned is what was sent first.
LEMMA WholeMessages == FramingInv => MessagesWhole
  <1> SUFFICES ASSUME FramingInv, Orderly PROVE IsPrefix(received, order)
    BY DEF MessagesWhole
  <1>1. TypeInv /\ InOrder
    BY DEF FramingInv, Ordered
  <1>2. /\ received \in Seq(Messages \cup {Garbled}) /\ order \in Seq(Messages)
        /\ Len(received) \in Nat /\ Len(order) \in Nat /\ Len(received) <= Len(order)
    BY <1>1, FramingTypes DEF InOrder
  <1> DEFINE n == Len(received)
             r == SubSeq(received, 0 + 1, n)
             o == SubSeq(order, 0 + 1, n)
  <1>3. 0 \in 0 .. Len(received) /\ n \in 0 .. Len(received) /\ 0 \in 0 .. Len(order) /\ n \in 0 .. Len(order)
    BY <1>2, SMT
  <1>4. order \in Seq(Messages \cup {Garbled})
    BY <1>2, SMT
  <1>5. /\ r \in Seq(Messages \cup {Garbled}) /\ Len(r) = n - 0
        /\ \A i \in 1 .. n - 0 : r[i] = received[0 + i]
    BY <1>2, <1>3, Parts
  <1>6. /\ o \in Seq(Messages \cup {Garbled}) /\ Len(o) = n - 0
        /\ \A i \in 1 .. n - 0 : o[i] = order[0 + i]
    BY <1>3, <1>4, Parts
  <1> HIDE DEF r, o
  <1>7. \A i \in 1 .. Len(r) : r[i] = o[i]
    BY <1>1, <1>2, <1>5, <1>6, SMT DEF InOrder
  <1>8. r = o
    BY <1>5, <1>6, <1>7, SeqEqual
  <1> QED BY <1>2, <1>8 DEF IsPrefix, r, o

\* The types of a connection, its writers and its reader.
THEOREM TypeCorrect == Spec => []TypeOK
  <1>1. TypeInv => TypeOK
    BY DEF TypeInv
  <1> QED BY <1>1, TypeCorrectInit, TypeStep, PTL DEF Spec

\* On an orderly stream the reader gets every message whole and in order, however
\* send and recv cut it up and wherever the writers and the reader are.
THEOREM MessagesAreWhole == Spec => []MessagesWhole
  <1> QED BY FramingInit, FramingStep, WholeMessages, PTL DEF Spec
=============================================================================
