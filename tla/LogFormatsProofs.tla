-------------------------- MODULE LogFormatsProofs --------------------------
(***************************************************************************)
(* The two formats of the logs.  First the lines on their way through the  *)
(* buffers into the file, for any pieces that are logged, any sizes, any   *)
(* turns of the log thread and any way in which fwrite() takes what it is  *)
(* given; then the packages of Nanolog, for any values.                    *)
(***************************************************************************)
EXTENDS LogLine, Packer, SequenceLemmas

-----------------------------------------------------------------------------
(* The file.                                                               *)

Texts == Seq(Chars)

\* What got to the file of each buffer.
Written(buffers) ==
  [k \in DOMAIN buffers |-> SubSeq(buffers[k].data, 1, buffers[k].size)]

AppendedBuffer == [data : Texts, size : Nat, failed : BOOLEAN]

\* append_unlocked() resets both counts together, and flush() only the second.
FileInv ==
  /\ file \in Texts /\ string_line \in Texts
  /\ finished \in 0..Len(string_line)
  /\ appending \in BOOLEAN
  /\ ~appending => string_line = <<>> /\ finished = 0
  /\ appended \in Seq(AppendedBuffer)
  /\ \A k \in DOMAIN appended : appended[k].size <= Len(appended[k].data)
  /\ FileIsBuffers
  /\ count_ \in 0..(num_append_ - 1)
  /\ unflushed \in 0..count_

LEMMA WrittenType ==
  ASSUME NEW buffers \in Seq(AppendedBuffer),
         \A k \in DOMAIN buffers : buffers[k].size <= Len(buffers[k].data)
  PROVE  Written(buffers) \in Seq(Texts)
<1>1. Len(buffers) \in Nat /\ DOMAIN buffers = 1..Len(buffers)
      /\ \A k \in 1..Len(buffers) : buffers[k] \in AppendedBuffer
  BY LenProperties, ElementOfSeq
<1>2. ASSUME NEW k \in 1..Len(buffers)
      PROVE  SubSeq(buffers[k].data, 1, buffers[k].size) \in Texts
  <2>1. buffers[k].data \in Texts /\ buffers[k].size \in Nat /\ buffers[k].size <= Len(buffers[k].data)
    BY <1>1 DEF AppendedBuffer
  <2> QED BY <2>1 DEF Texts
<1>3. Written(buffers) \in [1..Len(buffers) -> Texts]
  BY <1>1, <1>2 DEF Written
<1> QED BY <1>1, <1>3, SeqDef

LEMMA WrittenAppend ==
  ASSUME NEW buffers \in Seq(AppendedBuffer), NEW e \in AppendedBuffer
  PROVE  Written(Append(buffers, e)) = Append(Written(buffers), SubSeq(e.data, 1, e.size))
<1> DEFINE part(l) == SubSeq(l.data, 1, l.size)
<1>1. [k \in DOMAIN Append(buffers, e) |-> part(Append(buffers, e)[k])]
        = Append([k \in DOMAIN buffers |-> part(buffers[k])], part(e))
  <2> HIDE DEF part
  <2> QED OBVIOUS
<1> QED BY <1>1 DEF Written

LEMMA InitFileInv == FileInit => FileInv
<1> SUFFICES ASSUME FileInit PROVE FileInv
  OBVIOUS
<1>1. Written(<<>>) = <<>>
  BY DEF Written
<1>2. FileIsBuffers
  BY <1>1, FlattenEmpty, EmptySeq DEF FileInit, FileIsBuffers, Written
<1>3. /\ file \in Texts /\ string_line \in Texts /\ Len(string_line) = 0
      /\ appended \in Seq(AppendedBuffer) /\ DOMAIN appended = {}
  BY EmptySeq DEF FileInit, Texts
<1>4. /\ finished = 0 /\ count_ = 0 /\ unflushed = 0
      /\ appending = FALSE /\ string_line = <<>>
  BY DEF FileInit
<1>5. appending \in BOOLEAN
  BY <1>4
<1>6. \A k \in DOMAIN appended : appended[k].size <= Len(appended[k].data)
  BY <1>3
<1>7. /\ finished \in 0..Len(string_line)
      /\ count_ \in 0..(num_append_ - 1) /\ unflushed \in 0..count_
  BY <1>3, <1>4, NumAppendAssumption
<1> QED BY <1>2, <1>3, <1>4, <1>5, <1>6, <1>7 DEF FileInv

LEMMA AppendFileInv ==
  ASSUME FileInv, NEW data \in Texts, append(data)
  PROVE  FileInv'
<1>1. SubSeq(string_line, 1, finished) = <<>>
  BY DEF FileInv, append
<1>2. SubSeq(data, 1, 0) = <<>>
  OBVIOUS
<1>3. FileIsBuffers'
  BY <1>1, <1>2 DEF FileInv, FileIsBuffers, append
<1> QED BY <1>3 DEF FileInv, append, Texts

\* A call of write() moves a part of the buffer to the file.
LEMMA WriteFileInv ==
  ASSUME FileInv, NEW n \in 0..Remained, write(n)
  PROVE  FileInv'
<1> DEFINE old == FlattenSeq(Written(appended))
           part == SubSeq(string_line, 1, finished)
           more == SubSeq(Rest, 1, n)
<1>1. /\ string_line \in Seq(Chars) /\ Len(string_line) \in Nat
      /\ finished \in Nat /\ finished + n <= Len(string_line) /\ n \in Nat
  BY LenProperties DEF FileInv, Texts, Remained
<1>2. /\ old \in Texts /\ part \in Texts /\ more \in Texts
      /\ part \o more = SubSeq(string_line, 1, finished + n)
      /\ SubSeq(string_line, 1, finished + n) \in Texts
  <2>1. old \in Texts
    BY WrittenType, FlattenType DEF FileInv, Texts
  <2>2. more = SubSeq(string_line, finished + 1, finished + n)
    BY <1>1 DEF Rest
  <2>3. /\ part \in Texts /\ more \in Texts
        /\ SubSeq(string_line, 1, finished + n) \in Texts
    <3>1. \A i \in 1..Len(string_line) : string_line[i] \in Chars
      BY <1>1, ElementOfSeq
    <3>2. /\ \A i \in 1..finished : string_line[i] \in Chars
          /\ \A i \in (finished + 1)..(finished + n) : string_line[i] \in Chars
          /\ \A i \in 1..(finished + n) : string_line[i] \in Chars
      BY <1>1, <3>1
    <3>3. \A j \in Int, k \in Int :
            (\A i \in j..k : string_line[i] \in Chars)
              => SubSeq(string_line, j, k) \in Seq(Chars)
      BY SubSeqProperties
    <3>4. part \in Texts
      BY <1>1, <3>2, <3>3 DEF Texts
    <3>5. more \in Texts
      <4>1. finished + 1 \in Int /\ finished + n \in Int
        BY <1>1
      <4>2. SubSeq(string_line, finished + 1, finished + n) \in Seq(Chars)
        BY <3>2, <3>3, <4>1
      <4> QED BY <2>2, <4>2 DEF Texts
    <3>6. SubSeq(string_line, 1, finished + n) \in Texts
      BY <1>1, <3>2, <3>3 DEF Texts
    <3> QED BY <3>4, <3>5, <3>6
  <2>4. part \o more = SubSeq(string_line, 1, finished + n)
    BY <1>1, <2>2
  <2> QED BY <2>1, <2>3, <2>4
<1>3. file' = old \o SubSeq(string_line, 1, finished + n)
  <2>1. file = old \o part
    BY DEF FileInv, FileIsBuffers, Written
  <2>2. file' = file \o more
    BY DEF write
  <2> HIDE DEF old, part, more
  <2>3. (old \o part) \o more = old \o (part \o more)
    <3>1. \A a, b, c \in Texts : (a \o b) \o c = a \o (b \o c)
      BY ConcatAssociative DEF Texts
    <3> QED BY <1>2, <3>1
  <2> QED BY <1>2, <2>1, <2>2, <2>3
<1>4. file' \in Texts
  BY <1>2, <1>3, ConcatProperties DEF Texts
<1>5. CASE n = Remained \/ (n = 0 /\ ~first)
  <2> DEFINE e == [data |-> string_line, size |-> finished + n, failed |-> n # Remained]
  <2>1. /\ append_unlocked(finished + n, n # Remained) /\ finished' = 0
        /\ string_line' = <<>> /\ appending' = FALSE /\ appended' = Append(appended, e)
    BY <1>5 DEF write, append_unlocked
  <2>2. e \in AppendedBuffer
    <3>1. (n # Remained) \in BOOLEAN
      OBVIOUS
    <3>2. finished + n \in Nat /\ string_line \in Texts
      BY <1>1 DEF Texts
    <3> QED BY <3>1, <3>2, Zenon DEF AppendedBuffer
  <2>3. FlattenSeq(Written(appended')) = old \o SubSeq(string_line, 1, finished + n)
    <3>1. Written(appended') = Append(Written(appended), SubSeq(string_line, 1, finished + n))
      BY <2>1, <2>2, WrittenAppend DEF FileInv
    <3>2. Written(appended) \in Seq(Seq(Chars))
      BY WrittenType DEF FileInv, Texts
    <3>3. SubSeq(string_line, 1, finished + n) \in Seq(Chars)
      BY <1>2 DEF Texts
    <3> HIDE DEF old
    <3>4. FlattenSeq(Append(Written(appended), SubSeq(string_line, 1, finished + n)))
            = FlattenSeq(Written(appended)) \o SubSeq(string_line, 1, finished + n)
      BY <3>2, <3>3, FlattenAppend
    <3> QED BY <3>1, <3>4 DEF old
  <2>4. \A k \in DOMAIN appended' :
          /\ appended'[k].size <= Len(appended'[k].data)
          /\ appended'[k].size < Len(appended'[k].data) => appended'[k].failed
    <3>1. /\ e.size <= Len(e.data)
          /\ e.size < Len(e.data) => e.failed
      <4>1. /\ finished + n <= Len(string_line)
            /\ finished + n < Len(string_line) => n # Remained
        BY <1>1 DEF Remained
      <4>2. e.size = finished + n /\ e.data = string_line
        OBVIOUS
      <4>3. n # Remained => e.failed
        BY Zenon
      <4> QED BY <4>1, <4>2, <4>3
    <3> HIDE DEF e
    <3>2. \A k \in DOMAIN appended' : \/ k \in DOMAIN appended /\ appended'[k] = appended[k]
                                  \/ appended'[k] = e
      BY <2>1, <2>2 DEF FileInv
    <3> QED BY <3>1, <3>2 DEF FileInv, FileIsBuffers
  <2>5. FileIsBuffers'
    <3>1. SubSeq(string_line', 1, finished') = <<>>
      BY <2>1
    <3>2. (old \o SubSeq(string_line, 1, finished + n)) \o <<>>
            = old \o SubSeq(string_line, 1, finished + n)
      BY <1>2, ConcatProperties, ConcatEmptySeq DEF Texts
    <3> QED BY <1>3, <2>3, <2>4, <3>1, <3>2 DEF FileIsBuffers, Written
  <2>6. count_' \in 0..(num_append_ - 1) /\ unflushed' \in 0..count_'
    BY <2>1, NumAppendAssumption DEF append_unlocked, FileInv
  <2>7. appended' \in Seq(AppendedBuffer)
    BY <2>1, <2>2, AppendProperties DEF FileInv
  <2>8. string_line' \in Texts /\ finished' \in 0..Len(string_line')
    BY <2>1, EmptySeq DEF Texts
  <2> QED BY <1>4, <2>1, <2>4, <2>5, <2>6, <2>7, <2>8 DEF FileInv
<1>6. CASE ~(n = Remained \/ (n = 0 /\ ~first))
  <2>1. /\ finished' = finished + n
        /\ UNCHANGED <<appending, string_line, count_, appended, unflushed>>
    BY <1>6 DEF write
  <2>2. FileIsBuffers'
    BY <1>3, <2>1 DEF FileIsBuffers, FileInv, Written
  <2>3. finished' \in 0..Len(string_line')
    BY <1>1, <2>1
  <2>4. appending
    BY DEF write
  <2> QED BY <1>4, <2>1, <2>2, <2>3, <2>4 DEF FileInv
<1> QED BY <1>5, <1>6

LEMMA FlushFileInv == FileInv /\ flush => FileInv'
BY DEF FileInv, flush, FileIsBuffers

-----------------------------------------------------------------------------
(* convert().                                                              *)

\* The recursive function of convert(), on the numbers up to n.
Around(n) == {num \in Int : -n <= num /\ num <= n}
Converts(f, D) ==
  f = [num \in D |-> <<zero(Remainder(num))>> \o
                       (IF Quotient(num) = 0 THEN <<>> ELSE f[Quotient(num)])]

\* Dividing by ten gets nearer to zero, and leaves a digit with the sign of
\* the number.
LEMMA Division ==
  ASSUME NEW num \in Int
  PROVE  /\ Quotient(num) \in Int /\ Remainder(num) \in -9..9
         /\ num = 10 * Quotient(num) + Remainder(num)
         /\ num >= 0 => Quotient(num) >= 0 /\ Remainder(num) >= 0 /\ Quotient(num) <= num
         /\ num <= 0 => Quotient(num) <= 0 /\ Remainder(num) <= 0 /\ num <= Quotient(num)
         /\ num # 0 => Quotient(num) # num
<1>1. CASE num >= 0
  BY <1>1 DEF Quotient, Remainder
<1>2. CASE num < 0
  <2> DEFINE m == -num
  <2>1. m \in Nat /\ m \div 10 \in Nat /\ 10 * (m \div 10) <= m /\ m < 10 * (m \div 10) + 10
    BY <1>2
  <2> QED BY <1>2, <2>1 DEF Quotient, Remainder
<1> QED BY <1>1, <1>2

LEMMA ConvertsUnique ==
  ASSUME NEW n \in Nat, NEW m \in Nat, n <= m, NEW f, NEW g,
         Converts(f, Around(n)), Converts(g, Around(m))
  PROVE  \A num \in Around(n) : f[num] = g[num]
<1> DEFINE distance(num) == IF num < 0 THEN -num ELSE num
           differ == {k \in Nat : \E num \in Around(n) : distance(num) = k /\ f[num] # g[num]}
<1> SUFFICES ASSUME differ # {} PROVE FALSE
  <2>1. \A num \in Around(n) : distance(num) \in Nat
    BY DEF Around
  <2> QED BY <2>1
<1>1. PICK k \in differ : \A j \in differ : ~(j < k)
  <2>1. differ \subseteq Nat
    OBVIOUS
  <2> HIDE DEF differ
  <2> QED BY <2>1, LeastNumber
<1>2. PICK num \in Around(n) : distance(num) = k /\ f[num] # g[num]
  BY <1>1
<1>3. /\ num \in Int /\ num \in Around(m)
      /\ f[num] = <<zero(Remainder(num))>> \o
                    (IF Quotient(num) = 0 THEN <<>> ELSE f[Quotient(num)])
      /\ g[num] = <<zero(Remainder(num))>> \o
                    (IF Quotient(num) = 0 THEN <<>> ELSE g[Quotient(num)])
  <2>1. num \in Int /\ num \in Around(m)
    BY DEF Around
  <2>2. f[num] = <<zero(Remainder(num))>> \o
                   (IF Quotient(num) = 0 THEN <<>> ELSE f[Quotient(num)])
    BY DEF Converts
  <2>3. g[num] = <<zero(Remainder(num))>> \o
                   (IF Quotient(num) = 0 THEN <<>> ELSE g[Quotient(num)])
    BY <2>1 DEF Converts
  <2> QED BY <2>1, <2>2, <2>3
<1>4. Quotient(num) # 0 /\ f[Quotient(num)] # g[Quotient(num)]
  BY <1>2, <1>3
<1>5. /\ Quotient(num) \in Around(n) /\ distance(Quotient(num)) \in Nat
      /\ distance(Quotient(num)) < distance(num)
  <2> DEFINE q == Quotient(num)
  <2>1. /\ q \in Int /\ q # 0
        /\ num >= 0 => q >= 0 /\ q <= num
        /\ num <= 0 => q <= 0 /\ num <= q
        /\ num # 0 => q # num
    BY <1>3, <1>4, Division
  <2> HIDE DEF q
  <2>2. num \in Int /\ -n <= num /\ num <= n
    BY DEF Around
  <2>3. num # 0
    BY <2>1, <2>2
  <2>4. /\ q \in Around(n) /\ distance(q) \in Nat /\ distance(q) < distance(num)
    BY <2>1, <2>2, <2>3 DEF Around
  <2> QED BY <2>4 DEF q
<1>6. distance(Quotient(num)) \in differ
  BY <1>4, <1>5
<1> QED BY <1>1, <1>2, <1>5, <1>6

LEMMA ConvertsExists ==
  ASSUME NEW n \in Nat
  PROVE  \E f : Converts(f, Around(n))
<1> DEFINE none == {k \in Nat : ~ \E f : Converts(f, Around(k))}
<1> SUFFICES ASSUME none # {} PROVE FALSE
  OBVIOUS
<1>1. PICK k \in none : \A j \in none : ~(j < k)
  <2>1. none \subseteq Nat
    OBVIOUS
  <2> HIDE DEF none
  <2> QED BY <2>1, LeastNumber
<1>2. CASE k = 0
  <2> DEFINE f == [num \in Around(0) |-> <<zero(Remainder(num))>>]
  <2>1. \A num \in Around(0) : Quotient(num) = 0
    BY Division DEF Around
  <2>2. \A num \in Around(0) :
          <<zero(Remainder(num))>> = <<zero(Remainder(num))>> \o <<>>
    OBVIOUS
  <2>3. Converts(f, Around(0))
    BY <2>1, <2>2 DEF Converts
  <2> QED BY <1>1, <1>2, <2>3
<1>3. CASE k # 0
  <2>1. k - 1 \in Nat /\ k - 1 \notin none
    BY <1>1, <1>3
  <2>2. PICK f : Converts(f, Around(k - 1))
    BY <2>1
  <2> DEFINE g == [num \in Around(k) |->
                     IF num \in Around(k - 1) THEN f[num]
                     ELSE <<zero(Remainder(num))>> \o
                            (IF Quotient(num) = 0 THEN <<>> ELSE f[Quotient(num)])]
  <2>3. ASSUME NEW num \in Around(k) PROVE Quotient(num) \in Around(k - 1)
    <3> DEFINE q == Quotient(num)
    <3>1. num \in Int /\ -k <= num /\ num <= k /\ k \in Nat \ {0}
      BY <1>3 DEF Around
    <3>2. /\ q \in Int
          /\ num >= 0 => q >= 0 /\ q <= num
          /\ num <= 0 => q <= 0 /\ num <= q
          /\ num # 0 => q # num
      BY <3>1, Division
    <3> HIDE DEF q
    <3>3. q \in Around(k - 1)
      BY <3>1, <3>2 DEF Around
    <3> QED BY <3>3 DEF q
  <2>4. Around(k - 1) \subseteq Around(k)
    BY DEF Around
  <2>5. \A num \in Around(k) : g[Quotient(num)] = f[Quotient(num)]
    BY <2>3, <2>4
  <2>6. \A num \in Around(k - 1) :
          f[num] = <<zero(Remainder(num))>> \o
                     (IF Quotient(num) = 0 THEN <<>> ELSE f[Quotient(num)])
    BY <2>2 DEF Converts
  <2>7. \A num \in Around(k) :
          g[num] = <<zero(Remainder(num))>> \o
                     (IF Quotient(num) = 0 THEN <<>> ELSE g[Quotient(num)])
    BY <2>5, <2>6
  <2>8. g = [num \in Around(k) |-> g[num]]
    OBVIOUS
  <2> HIDE DEF g
  <2>9. Converts(g, Around(k))
    BY <2>7, <2>8 DEF Converts
  <2> QED BY <1>1, <2>9
<1> QED BY <1>2, <1>3

LEMMA ConvertsInt == \E f : Converts(f, Int)
<1> DEFINE distance(num) == IF num < 0 THEN -num ELSE num
           on(n) == CHOOSE f : Converts(f, Around(n))
           g == [num \in Int |-> on(distance(num))[num]]
<1>1. \A n \in Nat : Converts(on(n), Around(n))
  BY ConvertsExists
<1> HIDE DEF on
<1>2. \A num \in Int : distance(num) \in Nat /\ num \in Around(distance(num))
  BY DEF Around
<1>3. ASSUME NEW num \in Int
      PROVE  g[num] = <<zero(Remainder(num))>> \o
                        (IF Quotient(num) = 0 THEN <<>> ELSE g[Quotient(num)])
  <2> DEFINE n == distance(num)
             q == Quotient(num)
             m == distance(q)
  <2>1. n \in Nat /\ m \in Nat /\ m <= n /\ q \in Int /\ q \in Around(m) /\ num \in Around(n)
    BY <1>2, Division DEF Around
  <2>2. on(n)[num] = <<zero(Remainder(num))>> \o
                       (IF q = 0 THEN <<>> ELSE on(n)[q])
    <3> HIDE DEF n, q, m
    <3>1. on(n) = [i \in Around(n) |-> <<zero(Remainder(i))>> \o
                       (IF Quotient(i) = 0 THEN <<>> ELSE on(n)[Quotient(i)])]
      BY <1>1, <2>1 DEF Converts
    <3> QED BY <2>1, <3>1 DEF q
  <2>3. on(m)[q] = on(n)[q]
    <3> HIDE DEF n, q, m
    <3> QED BY <1>1, <2>1, ConvertsUnique
  <2>4. g[num] = on(n)[num] /\ g[q] = on(m)[q]
    BY <2>1
  <2> HIDE DEF g, n, m
  <2> QED BY <2>2, <2>3, <2>4
<1>4. g = [num \in Int |-> g[num]]
  OBVIOUS
<1> HIDE DEF g
<1>5. Converts(g, Int)
  BY <1>3, <1>4 DEF Converts
<1> QED BY <1>5

\* The digits of a number, from the last to the first.
DigitsOf == CHOOSE f : Converts(f, Int)

LEMMA DigitsOfNumber ==
  ASSUME NEW num \in Int
  PROVE  DigitsOf[num] = <<zero(Remainder(num))>> \o
                           (IF Quotient(num) = 0 THEN <<>> ELSE DigitsOf[Quotient(num)])
<1>1. Converts(DigitsOf, Int)
  BY ConvertsInt DEF DigitsOf
<1> HIDE DEF DigitsOf
<1> QED BY <1>1 DEF Converts

LEMMA ConvertIs ==
  ASSUME NEW value \in Int
  PROVE  convert(value) = Reverse(DigitsOf[value] \o (IF value < 0 THEN <<"-">> ELSE <<>>))
BY DEF convert, DigitsOf, Converts

-----------------------------------------------------------------------------
(* Reading back a number.                                                  *)

DigitOf(c) == CHOOSE k \in 0..9 : zero(k) = c
Reads(ds, f) ==
  f = [n \in 0..Len(ds) |-> IF n = 0 THEN 0 ELSE 10 * f[n - 1] + DigitOf(ds[n])]

LEMMA ReadsUnique ==
  ASSUME NEW ds \in Texts, NEW f, NEW g, Reads(ds, f), Reads(ds, g)
  PROVE  f = g
<1> DEFINE differ == {n \in 0..Len(ds) : f[n] # g[n]}
<1>1. Len(ds) \in Nat
  BY LenProperties DEF Texts
<1>2. /\ f = [n \in 0..Len(ds) |-> f[n]] /\ g = [n \in 0..Len(ds) |-> g[n]]
      /\ \A n \in 0..Len(ds) :
           /\ f[n] = IF n = 0 THEN 0 ELSE 10 * f[n - 1] + DigitOf(ds[n])
           /\ g[n] = IF n = 0 THEN 0 ELSE 10 * g[n - 1] + DigitOf(ds[n])
  BY DEF Reads
<1>3. differ = {}
  <2> SUFFICES ASSUME differ # {} PROVE FALSE
    OBVIOUS
  <2>1. differ \subseteq Nat
    BY <1>1
  <2>2. PICK n \in differ : \A j \in differ : ~(j < n)
    BY <2>1, LeastNumber, Zenon
  <2>3. n # 0 => f[n - 1] = g[n - 1]
    BY <1>1, <2>2
  <2> QED BY <1>2, <2>2, <2>3
<1> QED BY <1>2, <1>3

LEMMA ReadsAppend ==
  ASSUME NEW ds \in Texts, NEW d \in Chars, NEW f, Reads(ds, f)
  PROVE  LET n == Len(ds) + 1
             g == [i \in 0..n |-> IF i < n THEN f[i] ELSE 10 * f[n - 1] + DigitOf(d)]
         IN Reads(Append(ds, d), g)
<1> DEFINE n == Len(ds) + 1
           g == [i \in 0..n |-> IF i < n THEN f[i] ELSE 10 * f[n - 1] + DigitOf(d)]
<1>1. /\ Len(ds) \in Nat /\ Len(Append(ds, d)) = n
      /\ \A i \in 1..Len(ds) : Append(ds, d)[i] = ds[i]
      /\ Append(ds, d)[n] = d
  <2>1. ds \in Seq(Chars)
    BY DEF Texts
  <2>2. Len(ds) \in Nat /\ Len(Append(ds, d)) = n
    BY <2>1, LenProperties, AppendProperties
  <2>3. \A i \in 1..Len(ds) : Append(ds, d)[i] = ds[i]
    BY <2>1, AppendProperties
  <2>4. Append(ds, d)[n] = d
    BY <2>1, AppendProperties
  <2> QED BY <2>2, <2>3, <2>4
<1>2. \A i \in 0..Len(ds) : f[i] = IF i = 0 THEN 0 ELSE 10 * f[i - 1] + DigitOf(ds[i])
  BY DEF Reads
<1>3. ASSUME NEW i \in 0..n
      PROVE  g[i] = IF i = 0 THEN 0 ELSE 10 * g[i - 1] + DigitOf(Append(ds, d)[i])
  <2>1. CASE i < n
    <3>1. i \in 0..Len(ds) /\ g[i] = f[i]
      BY <1>1, <2>1
    <3>2. i # 0 => g[i - 1] = f[i - 1] /\ i \in 1..Len(ds)
      BY <1>1, <2>1
    <3> QED BY <1>1, <1>2, <3>1, <3>2
  <2>2. CASE i = n
    BY <1>1, <2>2
  <2> QED BY <1>1, <2>1, <2>2
<1>4. g = [i \in 0..n |-> IF i = 0 THEN 0 ELSE 10 * g[i - 1] + DigitOf(Append(ds, d)[i])]
  BY <1>3
<1> HIDE DEF g
<1>5. Reads(Append(ds, d), g)
  BY <1>1, <1>4 DEF Reads
<1> QED BY <1>5 DEF g

LEMMA ReadsExists ==
  ASSUME NEW ds \in Texts
  PROVE  \E f : Reads(ds, f)
<1> DEFINE T == {t \in Texts : \E f : Reads(t, f)}
<1>1. <<>> \in T
  <2> DEFINE f == [n \in 0..0 |-> 0]
  <2>1. f = [n \in 0..0 |-> IF n = 0 THEN 0 ELSE 10 * f[n - 1] + DigitOf(<<>>[n])]
    OBVIOUS
  <2> HIDE DEF f
  <2>2. Reads(<<>>, f)
    BY <2>1, EmptySeq DEF Reads
  <2> QED BY <2>2, EmptySeq DEF Texts
<1>2. ASSUME NEW t \in T, NEW e \in Chars PROVE Append(t, e) \in T
  <2>1. PICK f : Reads(t, f)
    OBVIOUS
  <2>2. \E g : Reads(Append(t, e), g)
    BY <2>1, ReadsAppend
  <2> QED BY <2>2, AppendProperties DEF Texts
<1>3. T \in SUBSET Seq(Chars)
  BY DEF Texts
<1> HIDE DEF T
<1>4. T = Seq(Chars)
  BY <1>1, <1>2, <1>3, SequenceInduction
<1> QED BY <1>4 DEF T, Texts

\* The value of a text of digits.
NumberOf(ds) == (CHOOSE f : Reads(ds, f))[Len(ds)]

LEMMA NumberOfEmpty == NumberOf(<<>>) = 0
<1>1. Reads(<<>>, CHOOSE f : Reads(<<>>, f))
  BY ReadsExists, EmptySeq DEF Texts
<1> QED BY <1>1, EmptySeq DEF NumberOf, Reads

LEMMA NumberOfAppend ==
  ASSUME NEW ds \in Texts, NEW d \in Chars
  PROVE  NumberOf(Append(ds, d)) = 10 * NumberOf(ds) + DigitOf(d)
<1> DEFINE f == CHOOSE h : Reads(ds, h)
           n == Len(ds) + 1
           g == [i \in 0..n |-> IF i < n THEN f[i] ELSE 10 * f[n - 1] + DigitOf(d)]
           c == CHOOSE h : Reads(Append(ds, d), h)
<1>1. Reads(ds, f)
  BY ReadsExists
<1> HIDE DEF f
<1>2. Reads(Append(ds, d), g)
  BY <1>1, ReadsAppend
<1>3. Append(ds, d) \in Texts /\ Len(Append(ds, d)) = n /\ Len(ds) \in Nat
  BY AppendProperties, LenProperties DEF Texts
<1>4. Reads(Append(ds, d), c)
  BY <1>3, ReadsExists
<1>5. c = g
  <2> HIDE DEF c, g
  <2> QED BY <1>2, <1>3, <1>4, ReadsUnique
<1>6. NumberOf(Append(ds, d)) = g[n]
  BY <1>3, <1>5 DEF NumberOf
<1>7. g[n] = 10 * f[Len(ds)] + DigitOf(d)
  <2>1. n \in 0..n /\ ~(n < n) /\ n - 1 = Len(ds)
    BY <1>3
  <2>2. g[n] = 10 * f[n - 1] + DigitOf(d)
    BY <2>1
  <2> QED BY <2>1, <2>2
<1> QED BY <1>6, <1>7 DEF NumberOf, f

LEMMA ValueOfText ==
  ASSUME NEW text
  PROVE  ValueOf(text) = IF text[1] = "-" THEN -NumberOf(Tail(text)) ELSE NumberOf(text)
<1>1. CASE text[1] = "-"
  BY <1>1 DEF ValueOf, NumberOf, Reads, DigitOf
<1>2. CASE text[1] # "-"
  BY <1>2 DEF ValueOf, NumberOf, Reads, DigitOf
<1> QED BY <1>1, <1>2

-----------------------------------------------------------------------------
(* The text of a number.                                                   *)

\* The table has a digit for every remainder, the same for both signs.
LEMMA DigitOfZero ==
  ASSUME NEW r \in -9..9
  PROVE  /\ zero(r) \in Chars /\ zero(r) # "-"
         /\ zero(r) = "0" => r = 0
         /\ DigitOf(zero(r)) = IF r < 0 THEN -r ELSE r
<1> DEFINE a == IF r < 0 THEN -r ELSE r
<1>1. r \in {-9, -8, -7, -6, -5, -4, -3, -2, -1, 0, 1, 2, 3, 4, 5, 6, 7, 8, 9}
  OBVIOUS
<1>2. zero(r) = zero(a) /\ a \in 0..9
  <2>1. zero(r) = zero(-r)
    BY <1>1 DEF zero, digits
  <2>2. a \in 0..9 /\ (a = r \/ a = -r)
    OBVIOUS
  <2> QED BY <2>1, <2>2
<1>3. \A k, j \in 0..9 : zero(k) = zero(j) => k = j
  <2>1. \A k \in 0..9 : k \in {0, 1, 2, 3, 4, 5, 6, 7, 8, 9}
    OBVIOUS
  <2>2. /\ zero(0) = "0" /\ zero(1) = "1" /\ zero(2) = "2" /\ zero(3) = "3" /\ zero(4) = "4"
        /\ zero(5) = "5" /\ zero(6) = "6" /\ zero(7) = "7" /\ zero(8) = "8" /\ zero(9) = "9"
    BY DEF zero, digits
  <2> QED BY <2>1, <2>2
<1>4. DigitOf(zero(r)) = a
  BY <1>2, <1>3 DEF DigitOf
<1>5. /\ zero(r) \in Chars /\ zero(r) # "-"
      /\ zero(r) = "0" => r = 0
  <2>1. /\ zero(0) = "0" /\ zero(1) = "1" /\ zero(2) = "2" /\ zero(3) = "3" /\ zero(4) = "4"
        /\ zero(5) = "5" /\ zero(6) = "6" /\ zero(7) = "7" /\ zero(8) = "8" /\ zero(9) = "9"
    BY DEF zero, digits
  <2>2. a \in {0, 1, 2, 3, 4, 5, 6, 7, 8, 9} /\ (a = 0 => r = 0)
    OBVIOUS
  <2>3. /\ zero(a) \in Chars /\ zero(a) # "-"
        /\ zero(a) = "0" => a = 0
    <3> HIDE DEF a
    <3>1. zero(a) \in {"0", "1", "2", "3", "4", "5", "6", "7", "8", "9"}
      BY <2>1, <2>2
    <3>2. zero(a) \in Chars
      BY <3>1, LineAssumption
    <3>3. zero(a) # "-"
      BY <3>1
    <3>4. zero(a) = "0" => a = 0
      BY <2>1, <2>2
    <3> QED BY <3>2, <3>3, <3>4
  <2> QED BY <1>2, <2>2, <2>3
<1> QED BY <1>4, <1>5

LEMMA ReverseProperties ==
  ASSUME NEW S, NEW s \in Seq(S), s # <<>>
  PROVE  /\ Reverse(s) \in Seq(S) /\ Len(Reverse(s)) = Len(s)
         /\ Reverse(s)[1] = s[Len(s)]
BY DEF Reverse

LEMMA ReverseCons ==
  ASSUME NEW S, NEW s \in Seq(S), NEW e \in S
  PROVE  Reverse(<<e>> \o s) = Append(Reverse(s), e)
BY DEF Reverse

LEMMA ReverseSnoc ==
  ASSUME NEW S, NEW s \in Seq(S), NEW e \in S
  PROVE  Reverse(s \o <<e>>) = <<e>> \o Reverse(s)
BY DEF Reverse

\* The digits of a number are those of its absolute value, without a needless
\* zero in front.
LEMMA DigitsReadBack ==
  ASSUME NEW num \in Int
  PROVE  LET w == DigitsOf[num] IN
         /\ w \in Texts /\ w # <<>>
         /\ NumberOf(Reverse(w)) = IF num < 0 THEN -num ELSE num
         /\ w[Len(w)] # "-"
         /\ w[Len(w)] = "0" => num = 0 /\ Len(w) = 1
<1> DEFINE Abs(n) == IF n < 0 THEN -n ELSE n
           Good(n) == LET w == DigitsOf[n] IN
             /\ w \in Texts /\ w # <<>>
             /\ NumberOf(Reverse(w)) = Abs(n)
             /\ w[Len(w)] # "-"
             /\ w[Len(w)] = "0" => n = 0 /\ Len(w) = 1
           bad == {k \in Nat : \E n \in Int : Abs(n) = k /\ ~Good(n)}
<1>1. ASSUME NEW n \in Int, Quotient(n) # 0 => Good(Quotient(n))
      PROVE  Good(n)
  <2> DEFINE q == Quotient(n)
             r == Remainder(n)
             d == zero(r)
             v == DigitsOf[q]
             w == DigitsOf[n]
  <2>1. /\ q \in Int /\ r \in -9..9 /\ n = 10 * q + r
        /\ n >= 0 => q >= 0 /\ r >= 0
        /\ n <= 0 => q <= 0 /\ r <= 0
    BY Division
  <2>2. /\ d \in Chars /\ d # "-"
        /\ d = "0" => r = 0
        /\ DigitOf(d) = Abs(r)
    BY <2>1, DigitOfZero
  <2>3. w = <<d>> \o (IF q = 0 THEN <<>> ELSE v)
    BY DigitsOfNumber
  <2>4. CASE q = 0
    <3>1. w = <<d>>
      BY <2>3, <2>4
    <3>2. Reverse(<<d>>) = Append(<<>>, d)
      BY DEF Reverse
    <3>3. NumberOf(Append(<<>>, d)) = Abs(r)
      <4>1. NumberOf(Append(<<>>, d)) = 10 * NumberOf(<<>>) + DigitOf(d)
        BY <2>2, NumberOfAppend, EmptySeq DEF Texts
      <4>2. Abs(r) \in Int
        BY <2>1
      <4> QED BY <2>2, <4>1, <4>2, NumberOfEmpty
    <3>4. w \in Texts /\ w # <<>> /\ Len(w) = 1 /\ w[Len(w)] = d
      BY <2>2, <3>1 DEF Texts
    <3>5. n = r
      BY <2>1, <2>4
    <3> HIDE DEF w, d, r, q, Abs
    <3>6. NumberOf(Reverse(w)) = Abs(n)
      BY <3>1, <3>2, <3>3, <3>5
    <3> QED BY <2>2, <3>4, <3>5, <3>6 DEF w
  <2>5. CASE q # 0
    <3>1. /\ v \in Texts /\ v # <<>>
          /\ NumberOf(Reverse(v)) = Abs(q)
          /\ v[Len(v)] # "-"
          /\ v[Len(v)] = "0" => q = 0
      BY <1>1, <2>5
    <3>2. w = <<d>> \o v
      BY <2>3, <2>5
    <3> HIDE DEF w, v, d
    <3>3. Len(v) \in Nat \ {0} /\ v \in Seq(Chars)
      BY <3>1, EmptySeq DEF Texts
    <3>4. w \in Texts /\ w # <<>> /\ w[Len(w)] = v[Len(v)]
      BY <2>2, <3>2, <3>3 DEF Texts
    <3>5. Reverse(w) = Append(Reverse(v), d) /\ Reverse(v) \in Texts
      BY <2>2, <3>1, <3>2, <3>3, ReverseCons, ReverseProperties DEF Texts
    <3>6. NumberOf(Reverse(w)) = 10 * Abs(q) + Abs(r)
      BY <2>2, <3>1, <3>5, NumberOfAppend
    <3>7. 10 * Abs(q) + Abs(r) = Abs(n)
      BY <2>1
    <3> HIDE DEF q, r, Abs
    <3> QED BY <2>5, <3>1, <3>4, <3>6, <3>7 DEF w
  <2> QED BY <2>4, <2>5
<1> SUFFICES ASSUME bad # {} PROVE FALSE
  <2>1. Abs(num) \in Nat
    OBVIOUS
  <2> HIDE DEF Abs
  <2>2. Good(num)
    BY <2>1
  <2> QED BY <2>2 DEF Abs
<1>2. PICK k \in bad : \A j \in bad : ~(j < k)
  <2>1. bad \subseteq Nat
    OBVIOUS
  <2> HIDE DEF bad
  <2> QED BY <2>1, LeastNumber
<1>3. PICK n \in Int : Abs(n) = k /\ ~Good(n)
  BY <1>2
<1> HIDE DEF Good
<1>4. Quotient(n) # 0 /\ ~Good(Quotient(n))
  BY <1>1, <1>3
<1>5. /\ Quotient(n) \in Int /\ Abs(Quotient(n)) \in Nat
      /\ Abs(Quotient(n)) < Abs(n)
  <2> DEFINE q == Quotient(n)
  <2>1. /\ q \in Int /\ q # 0
        /\ n >= 0 => q >= 0 /\ q <= n
        /\ n <= 0 => q <= 0 /\ n <= q
        /\ n # 0 => q # n
    BY <1>4, Division
  <2> HIDE DEF q
  <2>2. n # 0
    BY <2>1
  <2>3. Abs(q) \in Nat /\ Abs(q) < Abs(n)
    BY <2>1, <2>2
  <2> QED BY <2>1, <2>3 DEF q
<1>6. Abs(Quotient(n)) \in bad
  BY <1>4, <1>5
<1> QED BY <1>2, <1>3, <1>5, <1>6

\* convert() gives a text that reads back as the number, for every number.
LEMMA ConvertReadsBack ==
  ASSUME NEW value \in Int
  PROVE  LET text == convert(value) IN
         /\ text \in Texts
         /\ ValueOf(text) = value
         /\ text[1] = "0" => Len(text) = 1
         /\ text[1] = "-" => text[2] # "0"
<1> DEFINE w == DigitsOf[value]
           u == Reverse(w)
           text == convert(value)
<1>1. /\ w \in Seq(Chars) /\ w # <<>>
      /\ NumberOf(u) = IF value < 0 THEN -value ELSE value
      /\ w[Len(w)] # "-"
      /\ w[Len(w)] = "0" => value = 0 /\ Len(w) = 1
  BY DigitsReadBack DEF Texts
<1>2. "-" \in Chars
  BY LineAssumption
<1> HIDE DEF w
<1>3. /\ u \in Seq(Chars) /\ Len(u) = Len(w) /\ u[1] = w[Len(w)]
      /\ Len(u) \in Nat \ {0}
  <2>1. u \in Seq(Chars) /\ Len(u) = Len(w) /\ u[1] = w[Len(w)]
    BY <1>1, ReverseProperties
  <2>2. Len(w) \in Nat \ {0}
    BY <1>1, EmptySeq
  <2> QED BY <2>1, <2>2
<1>4. CASE value < 0
  <2>1. text = <<"-">> \o u
    <3>1. text = Reverse(w \o <<"-">>)
      BY <1>4, ConvertIs DEF w
    <3> QED BY <1>1, <1>2, <3>1, ReverseSnoc
  <2> HIDE DEF u, text
  <2>2. text \in Texts /\ text[1] = "-" /\ text[2] = u[1] /\ Tail(text) = u
    BY <1>2, <1>3, <2>1 DEF Texts
  <2>3. ValueOf(text) = -NumberOf(u)
    BY <2>2, ValueOfText
  <2> QED BY <1>1, <1>3, <1>4, <2>2, <2>3 DEF text, u
<1>5. CASE ~(value < 0)
  <2>1. text = u
    <3>1. text = Reverse(w \o <<>>)
      BY <1>5, ConvertIs DEF w
    <3> QED BY <1>1, <3>1, ConcatEmptySeq
  <2> HIDE DEF u, text
  <2>2. /\ text \in Texts /\ text[1] # "-"
        /\ text[1] = "0" => Len(text) = 1
    BY <1>1, <1>3, <2>1 DEF Texts
  <2>3. ValueOf(text) = NumberOf(u)
    BY <1>1, <1>3, <2>1, ValueOfText
  <2> QED BY <1>1, <1>3, <1>5, <2>1, <2>2, <2>3 DEF text, u, Texts
<1> QED BY <1>4, <1>5

-----------------------------------------------------------------------------
(* The line.                                                               *)

LEMMA Sizes ==
  /\ SIZE \in Nat /\ max_digit_size \in Nat
  /\ TimeSize \in Nat /\ 1 <= TimeSize /\ TimeSize < SIZE
BY SizeAssumption

\* Tuples of elements are sequences of them.
LEMMA Tuples ==
  ASSUME NEW S, NEW a \in S, NEW b \in S, NEW c \in S, NEW d \in S
  PROVE  /\ <<a>> \in Seq(S)
         /\ <<a, b, b, a>> \in Seq(S)
         /\ <<a, b, c, d, d, a>> \in Seq(S)
<1>1. <<a>> \in Seq(S)
  OBVIOUS
<1>2. <<a, b, b, a>> \in Seq(S)
  OBVIOUS
<1>3. <<a, b, c, d, d, a>> \in Seq(S)
  OBVIOUS
<1> QED BY <1>1, <1>2, <1>3

LEMMA Literals ==
  /\ <<"_", "n", "u", "l", "l", "_">> \in Texts
  /\ <<" ", "-", "-", " ">> \in Texts
  /\ <<":">> \in Texts
  /\ <<"NL">> \in Texts
  /\ "T" \in Chars /\ "NL" \in Chars
  /\ log_name_ \in Texts
<1>1. /\ "_" \in Chars /\ "n" \in Chars /\ "u" \in Chars /\ "l" \in Chars
      /\ " " \in Chars /\ "-" \in Chars /\ ":" \in Chars
      /\ "T" \in Chars /\ "NL" \in Chars
  BY LineAssumption
<1>2. log_name_ \in Texts
  BY LineAssumption DEF Texts
<1>3. <<"_", "n", "u", "l", "l", "_">> \in Texts
  BY <1>1, Tuples, Zenon DEF Texts
<1>4. <<" ", "-", "-", " ">> \in Texts
  BY <1>1, Tuples, Zenon DEF Texts
<1>5. <<":">> \in Texts /\ <<"NL">> \in Texts
  BY <1>1, Tuples, Zenon DEF Texts
<1> QED BY <1>1, <1>2, <1>3, <1>4, <1>5

\* Room is left in the buffer of the line.
Fitting(b) == b \in Texts /\ Len(b) < SIZE

\* What may be given to <<.
Printable(p) ==
  /\ TextOf(p) \in Texts
  /\ p.kind \in {"integer", "double"} => Len(TextOf(p)) < max_digit_size

LEMMA PiecesPrint ==
  ASSUME NEW p \in Pieces \union {NumLines}
  PROVE  Printable(p)
<1>1. CASE p.kind = "integer"
  <2>1. p.value \in Int
    BY <1>1, LineAssumption
  <2>2. convert(p.value) \in Texts
    BY <2>1, ConvertReadsBack
  <2> QED BY <1>1, <2>2, NumberAssumption DEF TextOf, Printable
<1>2. CASE p.kind = "null"
  <2>1. TextOf(p) = <<"_", "n", "u", "l", "l", "_">>
    BY <1>2 DEF TextOf
  <2> QED BY <1>2, <2>1, Literals DEF Printable
<1>3. CASE p.kind \notin {"integer", "null"}
  <2>1. TextOf(p) = p.text
    BY <1>3 DEF TextOf
  <2>2. p.text \in Texts
    BY <1>3, LineAssumption DEF Texts
  <2> QED BY <2>1, <2>2, NumberAssumption DEF Printable
<1> QED BY <1>1, <1>2, <1>3

LEMMA StringPrints ==
  ASSUME NEW text \in Texts
  PROVE  Printable(String(text)) /\ TextOf(String(text)) = text
         /\ String(text).kind = "string"
BY DEF String, TextOf, Printable

\* Neither a number, for which more is asked than it needs, nor a text, which
\* must leave a byte, fills the buffer.
LEMMA PutFits ==
  ASSUME NEW b, Fitting(b), NEW p, Printable(p)
  PROVE  Fitting(put(b, p))
<1>1. /\ b \in Seq(Chars) /\ TextOf(p) \in Seq(Chars)
      /\ Len(b) \in Nat /\ Len(TextOf(p)) \in Nat
  BY LenProperties DEF Fitting, Printable, Texts
<1>2. /\ b \o TextOf(p) \in Seq(Chars)
      /\ Len(b \o TextOf(p)) = Len(b) + Len(TextOf(p))
  BY <1>1, ConcatProperties
<1>3. CASE Fits(b, p)
  <2>1. Len(b) + Len(TextOf(p)) < SIZE
    BY <1>1, <1>3, Sizes DEF Fits, get_available_size, Printable
  <2> QED BY <1>2, <1>3, <2>1 DEF put, Fitting, Texts
<1>4. CASE ~Fits(b, p)
  BY <1>4 DEF put
<1> QED BY <1>3, <1>4

LEMMA FormatTimeFits == Fitting(format_time)
<1> DEFINE text == Append(Text(TimeSize - 1, "T"), "NL")
<1>1. TimeSize - 1 \in Nat /\ "T" \in Chars /\ "NL" \in Chars
  <2>1. TimeSize - 1 \in Nat
    BY Sizes
  <2> QED BY <2>1, Literals
<1>2. Text(TimeSize - 1, "T") \in Seq(Chars)
  <2>1. Text(TimeSize - 1, "T") \in [1..(TimeSize - 1) -> Chars]
    BY <1>1 DEF Text
  <2> QED BY <1>1, <2>1, SeqDef
<1>3. text \in Texts
  BY <1>1, <1>2, AppendProperties DEF Texts
<1>4. Fitting(<<>>)
  BY EmptySeq, Sizes DEF Fitting, Texts
<1> HIDE DEF text
<1>5. Fitting(put(<<>>, String(text)))
  BY <1>3, <1>4, StringPrints, PutFits
<1> QED BY <1>5 DEF format_time, text

LEMMA SnocIs ==
  ASSUME NEW S, NEW s \in Seq(S), NEW c \in S
  PROVE  /\ Append(s, c) = s \o <<c>>
         /\ Len(Append(s, c)) = Len(s) + 1
         /\ Append(s, c)[Len(s) + 1] = c
<1>1. Append(s, c) = s \o <<c>>
  OBVIOUS
<1>2. Len(Append(s, c)) = Len(s) + 1
  OBVIOUS
<1>3. Append(s, c)[Len(s) + 1] = c
  OBVIOUS
<1> QED BY <1>1, <1>2, <1>3

\* The line of ~Logger() still fits, and only the newline can be missing.
LEMMA EndedFits ==
  ASSUME NEW b, Fitting(b)
  PROVE  /\ Fitting(Ended(b))
         /\ Last(Ended(b)) = "NL" \/ Len(Ended(b)) = SIZE - 1
<1> DEFINE dashes == put(b, String(<<" ", "-", "-", " ">>))
           name == put(dashes, String(log_name_))
           colon == put(name, String(<<":">>))
           number == put(colon, NumLines)
<1>2. Fitting(dashes)
  BY Literals, StringPrints, PutFits
<1> HIDE DEF dashes
<1>3. Fitting(name)
  BY Literals, <1>2, StringPrints, PutFits
<1> HIDE DEF name
<1>4. Fitting(colon)
  BY Literals, <1>3, StringPrints, PutFits
<1> HIDE DEF colon
<1>5. Fitting(number)
  BY <1>4, PiecesPrint, PutFits
<1> HIDE DEF number
<1>6. Fitting(put(number, String(<<"NL">>)))
  BY Literals, <1>5, StringPrints, PutFits
<1>7. Ended(b) = put(number, String(<<"NL">>))
  BY DEF Ended, number, colon, name, dashes
<1>8. number \in Seq(Chars) /\ Len(number) \in Nat /\ Len(number) < SIZE
  BY <1>5, LenProperties DEF Fitting, Texts
<1>9. CASE Fits(number, String(<<"NL">>))
  <2>1. Ended(b) = number \o <<"NL">>
    BY Literals, <1>7, <1>9, StringPrints DEF put
  <2>2. Last(number \o <<"NL">>) = "NL"
    <3>1. /\ Append(number, "NL") = number \o <<"NL">>
          /\ Len(Append(number, "NL")) = Len(number) + 1
          /\ Append(number, "NL")[Len(number) + 1] = "NL"
      BY <1>8, Literals, SnocIs
    <3> QED BY <3>1 DEF Last
  <2> QED BY <1>6, <1>7, <2>1, <2>2
<1>10. CASE ~Fits(number, String(<<"NL">>))
  <2>1. Ended(b) = number
    BY <1>7, <1>10 DEF put
  <2>2. Len(number) = SIZE - 1
    <3>1. /\ String(<<"NL">>).kind = "string"
          /\ TextOf(String(<<"NL">>)) = <<"NL">>
      BY Literals, StringPrints
    <3>2. ~(SIZE - Len(number) > 1)
      BY <3>1, <1>10 DEF Fits, get_available_size
    <3> QED BY <3>2, <1>8, Sizes
  <2> QED BY <1>5, <2>1, <2>2
<1> QED BY <1>9, <1>10

-----------------------------------------------------------------------------
(* The buffers of Logging between the lines and the file.                  *)

\* The data of each buffer that was appended.
Datas(buffers) == [k \in DOMAIN buffers |-> buffers[k].data]

LEMMA DatasType ==
  ASSUME NEW buffers \in Seq(AppendedBuffer)
  PROVE  Datas(buffers) \in Seq(Texts)
<1>1. Len(buffers) \in Nat /\ DOMAIN buffers = 1..Len(buffers)
      /\ \A k \in 1..Len(buffers) : buffers[k] \in AppendedBuffer
  BY LenProperties, ElementOfSeq
<1>2. \A k \in 1..Len(buffers) : buffers[k].data \in Texts
  BY <1>1 DEF AppendedBuffer
<1>3. Datas(buffers) \in [1..Len(buffers) -> Texts]
  BY <1>1, <1>2 DEF Datas
<1> QED BY <1>1, <1>3, SeqDef

LEMMA DatasAppend ==
  ASSUME NEW buffers \in Seq(AppendedBuffer), NEW e \in AppendedBuffer
  PROVE  Datas(Append(buffers, e)) = Append(Datas(buffers), e.data)
<1> DEFINE data(l) == l.data
<1>1. [k \in DOMAIN Append(buffers, e) |-> data(Append(buffers, e)[k])]
        = Append([k \in DOMAIN buffers |-> data(buffers[k])], data(e))
  <2> HIDE DEF data
  <2> QED OBVIOUS
<1> QED BY <1>1 DEF Datas

\* The lines of the file's buffers, of the one being appended, of those that
\* wait, and of the current one.
Kept(fs, data, list, cur) == FlattenSeq(fs) \o data \o FlattenSeq(list) \o cur

LEMMA TextsAssociate == \A a, b, c \in Texts : (a \o b) \o c = a \o (b \o c)
<1> SUFFICES ASSUME NEW a \in Seq(Chars), NEW b \in Seq(Chars), NEW c \in Seq(Chars)
             PROVE  (a \o b) \o c = a \o (b \o c)
  BY DEF Texts
<1> QED BY ConcatAssociative

\* Nothing comes or goes when a buffer moves up.
LEMMA KeptMoves ==
  ASSUME NEW fs \in Seq(Texts), NEW data \in Texts, NEW list \in Seq(Texts),
         NEW cur \in Texts
  PROVE  /\ Kept(Append(fs, data), <<>>, list, cur) = Kept(fs, data, list, cur)
         /\ Kept(fs, data, Append(list, cur), <<>>) = Kept(fs, data, list, cur)
<1>1. PICK f \in Seq(Chars), l \in Seq(Chars), d \in Seq(Chars), c \in Seq(Chars) :
        f = FlattenSeq(fs) /\ l = FlattenSeq(list) /\ d = data /\ c = cur
  BY FlattenType DEF Texts
<1>2. \A x \in Seq(Chars) : x \o <<>> = x
  BY ConcatEmptySeq
<1>3. FlattenSeq(Append(fs, data)) = f \o d /\ FlattenSeq(Append(list, cur)) = l \o c
  <2>1. \A u \in Seq(Seq(Chars)), t \in Seq(Chars) :
          FlattenSeq(Append(u, t)) = FlattenSeq(u) \o t
    BY FlattenAppend
  <2>2. fs \in Seq(Seq(Chars)) /\ list \in Seq(Seq(Chars))
    BY DEF Texts
  <2> QED BY <1>1, <2>1, <2>2
<1>4. PICK b \in Seq(Chars) : b = f \o d
  BY ConcatProperties
<1>5. Kept(Append(fs, data), <<>>, list, cur) = Kept(fs, data, list, cur)
  <2>1. b \o <<>> = b
    BY <1>2
  <2> QED BY <1>1, <1>3, <1>4, <2>1, Zenon DEF Kept
<1>6. Kept(fs, data, Append(list, cur), <<>>) = Kept(fs, data, list, cur)
  <2>1. b \o (l \o c) = (b \o l) \o c
    BY TextsAssociate, Zenon DEF Texts
  <2>2. PICK w \in Seq(Chars) : w = b \o (l \o c)
    BY ConcatProperties
  <2>3. w \o <<>> = w
    BY <1>2
  <2> QED BY <1>1, <1>3, <1>4, <2>1, <2>2, <2>3, Zenon DEF Kept
<1> QED BY <1>5, <1>6

\* Nor when the first of the waiting buffers is taken.
LEMMA KeptTakes ==
  ASSUME NEW fs \in Seq(Texts), NEW list \in Seq(Texts), NEW cur \in Texts,
         list # <<>>
  PROVE  Kept(fs, Head(list), Tail(list), cur) = Kept(fs, <<>>, list, cur)
<1>1. PICK h \in Seq(Chars), t \in Seq(Seq(Chars)) : h = Head(list) /\ t = Tail(list)
  BY HeadTailProperties DEF Texts
<1>2. PICK f \in Seq(Chars), r \in Seq(Chars) : f = FlattenSeq(fs) /\ r = FlattenSeq(t)
  BY FlattenType DEF Texts
<1>3. FlattenSeq(list) = h \o r
  <2>1. <<h>> \in Seq(Seq(Chars)) /\ <<h>> = Append(<<>>, h)
    OBVIOUS
  <2>2. list = <<h>> \o t
    BY <1>1, HeadTailProperties
  <2>3. FlattenSeq(<<h>>) = h
    <3>1. <<>> \in Seq(Seq(Chars))
      BY EmptySeq
    <3>2. FlattenSeq(Append(<<>>, h)) = FlattenSeq(<<>>) \o h
      BY <3>1, FlattenAppend
    <3> QED BY <2>1, <3>2, FlattenEmpty, ConcatEmptySeq
  <2>4. FlattenSeq(<<h>> \o t) = FlattenSeq(<<h>>) \o FlattenSeq(t)
    BY <2>1, FlattenConcat
  <2> QED BY <1>2, <2>2, <2>3, <2>4
<1>4. (f \o h) \o r = (f \o <<>>) \o (h \o r)
  <2>1. (f \o h) \o r = f \o (h \o r)
    BY ConcatAssociative
  <2>2. f \o <<>> = f
    BY ConcatEmptySeq
  <2> QED BY <2>1, <2>2
<1> QED BY <1>1, <1>2, <1>3, <1>4, Zenon DEF Kept

Joined(a, b) == a \o b

\* What is put into the current buffer comes last.
LEMMA KeptMore ==
  ASSUME NEW fs \in Seq(Texts), NEW data \in Texts, NEW list \in Seq(Texts),
         NEW cur \in Texts, NEW line \in Texts
  PROVE  Kept(fs, data, list, Joined(cur, line)) = Joined(Kept(fs, data, list, cur), line)
<1>1. PICK f \in Seq(Chars), l \in Seq(Chars) : f = FlattenSeq(fs) /\ l = FlattenSeq(list)
  BY FlattenType DEF Texts
<1>2. PICK b \in Seq(Chars) : b = (f \o data) \o l
  BY ConcatProperties DEF Texts
<1>3. b \o (cur \o line) = (b \o cur) \o line
  BY TextsAssociate, Zenon DEF Texts
<1> QED BY <1>1, <1>2, <1>3, Zenon DEF Kept, Joined

\* A line that does not fill a LogBuffer goes into one that has room for it.
LEMMA PutLine ==
  ASSUME NEW b \in Texts, NEW line \in Texts, get_available_size(b) > Len(line)
  PROVE  put(b, String(line)) = Joined(b, line)
<1>1. String(line).kind = "string" /\ TextOf(String(line)) = line
  BY StringPrints
<1> QED BY <1>1 DEF put, Fits, Joined

-----------------------------------------------------------------------------
(* The machine.                                                            *)

LineInv ==
  /\ FileInv
  /\ LineFits
  /\ LinesAreKept
  /\ buffer_ \in Texts
  /\ pieces \in Seq(Pieces)
  /\ cur_buffer_ \in Texts
  /\ buffer_list_ \in Seq(Texts)
  /\ logged \in Seq(Texts)

\* What LineFits says of the end of the line follows from its first part.
LEMMA FittingFits ==
  ASSUME Fitting(buffer_)
  PROVE  LineFits
BY EndedFits DEF LineFits, Fitting

LEMMA KeptIs ==
  LinesAreKept <=> Kept(Datas(appended), string_line, buffer_list_, cur_buffer_)
                     = FlattenSeq(logged)
BY DEF LinesAreKept, Kept, Datas

LEMMA InitLineInv == LineInit /\ FileInit => LineInv
<1> SUFFICES ASSUME LineInit, FileInit PROVE LineInv
  OBVIOUS
<1>1. FileInv
  BY InitFileInv
<1>2. Fitting(buffer_)
  BY FormatTimeFits DEF LineInit
<1>3. LineFits
  BY <1>2, FittingFits
<1>4. LinesAreKept
  <2>1. Datas(<<>>) = <<>>
    BY DEF Datas
  <2>2. <<>> \o <<>> = <<>>
    OBVIOUS
  <2>3. Kept(Datas(<<>>), <<>>, <<>>, <<>>) = FlattenSeq(<<>>)
    BY <2>1, <2>2, FlattenEmpty DEF Kept
  <2> QED BY <2>3, KeptIs DEF LineInit, FileInit
<1> QED BY <1>1, <1>2, <1>3, <1>4, EmptySeq DEF LineInit, LineInv, Fitting, Texts

\* The file's own steps: only the end of an append() moves a buffer.
LEMMA FileKeeps ==
  ASSUME LineInv, FileNext /\ UNCHANGED lineVars
  PROVE  FileInv' /\ LinesAreKept'
<1>1. FileInv'
  BY WriteFileInv, FlushFileInv DEF FileNext, LineInv
<1>2. UNCHANGED <<cur_buffer_, buffer_list_, logged>>
  BY DEF lineVars
<1>3. CASE UNCHANGED <<appended, string_line>>
  <2>1. LinesAreKept'
    BY <1>2, <1>3 DEF LineInv, LinesAreKept
  <2> QED BY <1>1, <2>1
<1>4. CASE \E n \in Nat : \E gaveUp \in BOOLEAN : append_unlocked(n, gaveUp)
  <2>1. PICK n \in Nat : \E gaveUp \in BOOLEAN : append_unlocked(n, gaveUp)
    BY <1>4
  <2>2. PICK gaveUp \in BOOLEAN : append_unlocked(n, gaveUp)
    BY <2>1
  <2> DEFINE e == [data |-> string_line, size |-> n, failed |-> gaveUp]
  <2>3. e \in AppendedBuffer
    BY Zenon DEF AppendedBuffer, LineInv, FileInv
  <2>4. appended' = Append(appended, e) /\ string_line' = <<>> /\ e.data = string_line
    BY <2>2 DEF append_unlocked
  <2> HIDE DEF e
  <2>5. Datas(appended') = Append(Datas(appended), string_line)
    BY <2>3, <2>4, DatasAppend DEF LineInv, FileInv
  <2>6. PICK fs \in Seq(Texts) : fs = Datas(appended)
    BY DatasType DEF LineInv, FileInv
  <2>7. Kept(Append(fs, string_line), <<>>, buffer_list_, cur_buffer_)
          = Kept(fs, string_line, buffer_list_, cur_buffer_)
    BY KeptMoves DEF LineInv, FileInv
  <2>8. Kept(fs, string_line, buffer_list_, cur_buffer_) = FlattenSeq(logged)
    BY <2>6, KeptIs DEF LineInv
  <2>9. Kept(Datas(appended'), string_line', buffer_list_', cur_buffer_')
          = FlattenSeq(logged')
    BY <1>2, <2>4, <2>5, <2>6, <2>7, <2>8
  <2>10. LinesAreKept'
    BY <2>9 DEF LinesAreKept, Kept, Datas
  <2> QED BY <1>1, <2>10
<1>5. ASSUME NEW n \in 0..Remained, write(n),
             ~ UNCHANGED <<appended, string_line>>
      PROVE  \E m \in Nat : \E gaveUp \in BOOLEAN : append_unlocked(m, gaveUp)
  <2>1. append_unlocked(finished + n, n # Remained)
    BY <1>5 DEF write
  <2>2. finished + n \in Nat
    BY LenProperties DEF LineInv, FileInv, Texts, Remained
  <2>3. (n # Remained) \in BOOLEAN
    OBVIOUS
  <2> QED BY <2>1, <2>2, <2>3
<1>6. flush => UNCHANGED <<appended, string_line>>
  BY DEF flush
<1> QED BY <1>1, <1>3, <1>4, <1>5, <1>6 DEF FileNext

\* output(): the line comes behind the others, in this buffer or the next.
LEMMA OutputKeeps ==
  ASSUME LineInv, NEW line \in Texts, Len(line) < SIZE, output(line),
         logged' = Append(logged, line), UNCHANGED fileVars
  PROVE  /\ LinesAreKept'
         /\ cur_buffer_' \in Texts /\ buffer_list_' \in Seq(Texts)
         /\ logged' \in Seq(Texts)
<1>1. PICK fs \in Seq(Texts) : fs = Datas(appended)
  BY DatasType DEF LineInv, FileInv
<1>2. /\ string_line \in Texts /\ buffer_list_ \in Seq(Texts) /\ cur_buffer_ \in Texts
      /\ logged \in Seq(Texts)
  BY DEF LineInv, FileInv
<1>3. FlattenSeq(logged') = Joined(FlattenSeq(logged), line)
  <2>1. \A u \in Seq(Seq(Chars)), t \in Seq(Chars) :
          FlattenSeq(Append(u, t)) = FlattenSeq(u) \o t
    BY FlattenAppend
  <2> QED BY <1>2, <2>1 DEF Texts, Joined
<1>4. Kept(fs, string_line, buffer_list_, cur_buffer_) = FlattenSeq(logged)
  BY <1>1, KeptIs DEF LineInv
<1>5. /\ Kept(fs, string_line, buffer_list_', cur_buffer_') = FlattenSeq(logged')
      /\ cur_buffer_' \in Texts /\ buffer_list_' \in Seq(Texts)
  <2>1. \A b \in Texts : Joined(b, line) \in Texts
    BY ConcatProperties DEF Texts, Joined
  <2>2. CASE get_available_size(cur_buffer_) > Len(line)
    <3>1. cur_buffer_' = Joined(cur_buffer_, line) /\ buffer_list_' = buffer_list_
      BY <1>2, <2>2, PutLine DEF output
    <3>2. Kept(fs, string_line, buffer_list_, Joined(cur_buffer_, line))
            = Joined(Kept(fs, string_line, buffer_list_, cur_buffer_), line)
      BY <1>2, KeptMore
    <3> QED BY <1>2, <1>3, <1>4, <2>1, <3>1, <3>2
  <2>3. CASE ~(get_available_size(cur_buffer_) > Len(line))
    <3>1. <<>> \in Texts /\ get_available_size(<<>>) > Len(line)
      BY Sizes, EmptySeq DEF get_available_size, Texts
    <3>2. put(<<>>, String(line)) = Joined(<<>>, line)
      BY <3>1, PutLine
    <3>3. cur_buffer_' = Joined(<<>>, line)
          /\ buffer_list_' = Append(buffer_list_, cur_buffer_)
      BY <2>3, <3>2 DEF output
    <3>4. buffer_list_' \in Seq(Texts)
      BY <1>2, <3>3, AppendProperties
    <3>5. Kept(fs, string_line, buffer_list_', Joined(<<>>, line))
            = Joined(Kept(fs, string_line, buffer_list_', <<>>), line)
      BY <1>2, <3>1, <3>4, KeptMore
    <3>6. Kept(fs, string_line, Append(buffer_list_, cur_buffer_), <<>>)
            = Kept(fs, string_line, buffer_list_, cur_buffer_)
      BY <1>2, KeptMoves
    <3> QED BY <1>3, <1>4, <2>1, <3>1, <3>3, <3>4, <3>5, <3>6
  <2> QED BY <2>2, <2>3
<1>6. logged' \in Seq(Texts)
  BY <1>2, AppendProperties
<1>7. LinesAreKept'
  <2>1. appended' = appended /\ string_line' = string_line
    BY DEF fileVars
  <2>2. Kept(Datas(appended'), string_line', buffer_list_', cur_buffer_')
          = FlattenSeq(logged')
    BY <1>1, <1>5, <2>1
  <2> QED BY <2>2 DEF LinesAreKept, Kept, Datas
<1> QED BY <1>5, <1>6, <1>7

LEMMA NextLineInv ==
  LineInv /\ [LineNext]_<<lineVars, fileVars>> => LineInv'
<1> SUFFICES ASSUME LineInv, [LineNext]_<<lineVars, fileVars>> PROVE LineInv'
  OBVIOUS
<1>1. Fitting(buffer_)
  BY DEF LineInv, LineFits, Fitting
<1>2. Fitting(buffer_)' => LineFits' /\ buffer_' \in Texts
  <2> SUFFICES ASSUME Fitting(buffer_)' PROVE LineFits'
    BY DEF Fitting
  <2>1. /\ Fitting(Ended(buffer_'))
        /\ Last(Ended(buffer_')) = "NL" \/ Len(Ended(buffer_')) = SIZE - 1
    BY EndedFits
  <2> QED BY <2>1 DEF LineFits, Fitting
<1>3. UNCHANGED fileVars => FileInv'
  BY DEF fileVars, LineInv, FileInv, FileIsBuffers
<1>4. UNCHANGED <<cur_buffer_, buffer_list_, logged, fileVars>> => LinesAreKept'
  BY DEF fileVars, LineInv, LinesAreKept
<1>5. CASE \E p \in Pieces : insert(p)
  <2>1. PICK p \in Pieces : insert(p)
    BY <1>5
  <2>2. Fitting(put(buffer_, p))
    BY <1>1, PiecesPrint, PutFits
  <2>3. Fitting(buffer_)' /\ pieces' = Append(pieces, p)
        /\ UNCHANGED <<cur_buffer_, buffer_list_, logged, fileVars>>
    BY <2>1, <2>2 DEF insert
  <2>4. pieces' \in Seq(Pieces)
    BY <2>3, AppendProperties DEF LineInv
  <2> QED BY <1>2, <1>3, <1>4, <2>3, <2>4 DEF LineInv
<1>6. CASE end_line
  <2>1. PICK line \in Texts : line = Ended(buffer_) /\ Len(line) < SIZE
    BY <1>1, EndedFits DEF Fitting
  <2>2. /\ output(line) /\ logged' = Append(logged, line)
        /\ buffer_' = format_time /\ pieces' = <<>> /\ UNCHANGED fileVars
    BY <1>6, <2>1 DEF end_line
  <2>3. /\ LinesAreKept' /\ logged' \in Seq(Texts)
        /\ cur_buffer_' \in Texts /\ buffer_list_' \in Seq(Texts)
    BY <2>1, <2>2, OutputKeeps
  <2>4. Fitting(buffer_)'
    BY <2>2, FormatTimeFits
  <2> QED BY <1>2, <1>3, <2>2, <2>3, <2>4, EmptySeq DEF LineInv
<1>7. CASE exchange
  <2>1. /\ buffer_list_' = Append(buffer_list_, cur_buffer_) /\ cur_buffer_' = <<>>
        /\ UNCHANGED <<buffer_, pieces, logged, fileVars>>
    BY <1>7 DEF exchange
  <2>2. cur_buffer_' \in Texts /\ buffer_list_' \in Seq(Texts)
    BY <2>1, AppendProperties, EmptySeq DEF LineInv, Texts
  <2>3. LinesAreKept'
    <3>1. PICK fs \in Seq(Texts) : fs = Datas(appended)
      BY DatasType DEF LineInv, FileInv
    <3>2. Kept(fs, string_line, Append(buffer_list_, cur_buffer_), <<>>)
            = Kept(fs, string_line, buffer_list_, cur_buffer_)
      BY KeptMoves DEF LineInv, FileInv
    <3>3. Kept(fs, string_line, buffer_list_, cur_buffer_) = FlattenSeq(logged)
      BY <3>1, KeptIs DEF LineInv
    <3>4. appended' = appended /\ string_line' = string_line
      BY <2>1 DEF fileVars
    <3>5. Kept(Datas(appended'), string_line', buffer_list_', cur_buffer_')
            = FlattenSeq(logged')
      BY <2>1, <3>1, <3>2, <3>3, <3>4
    <3> QED BY <3>5 DEF LinesAreKept, Kept, Datas
  <2> QED BY <1>1, <1>2, <1>3, <2>1, <2>2, <2>3 DEF LineInv
<1>8. CASE append_buffer
  <2>1. /\ buffer_list_ # <<>> /\ append(Head(buffer_list_))
        /\ buffer_list_' = Tail(buffer_list_)
        /\ UNCHANGED <<buffer_, pieces, cur_buffer_, logged>>
    BY <1>8 DEF append_buffer
  <2>2. Head(buffer_list_) \in Texts /\ Tail(buffer_list_) \in Seq(Texts)
    BY <2>1, HeadTailProperties DEF LineInv
  <2>3. FileInv'
    BY <2>1, <2>2, AppendFileInv DEF LineInv
  <2>4. LinesAreKept'
    <3>1. PICK fs \in Seq(Texts) : fs = Datas(appended)
      BY DatasType DEF LineInv, FileInv
    <3>2. Kept(fs, Head(buffer_list_), Tail(buffer_list_), cur_buffer_)
            = Kept(fs, <<>>, buffer_list_, cur_buffer_)
      BY <2>1, KeptTakes DEF LineInv
    <3>3. Kept(fs, string_line, buffer_list_, cur_buffer_) = FlattenSeq(logged)
      BY <3>1, KeptIs DEF LineInv
    <3>4. /\ appended' = appended /\ string_line' = Head(buffer_list_)
          /\ string_line = <<>>
      BY <2>1 DEF append, LineInv, FileInv
    <3>5. Kept(Datas(appended'), string_line', buffer_list_', cur_buffer_')
            = FlattenSeq(logged')
      BY <2>1, <3>1, <3>2, <3>3, <3>4
    <3> QED BY <3>5 DEF LinesAreKept, Kept, Datas
  <2> QED BY <1>1, <1>2, <2>1, <2>2, <2>3, <2>4 DEF LineInv
<1>9. CASE FileNext /\ UNCHANGED lineVars
  <2>1. FileInv' /\ LinesAreKept'
    BY <1>9, FileKeeps
  <2>2. UNCHANGED <<buffer_, pieces, cur_buffer_, buffer_list_, logged>>
    BY <1>9 DEF lineVars
  <2> QED BY <1>1, <1>2, <2>1, <2>2 DEF LineInv
<1>10. CASE UNCHANGED <<lineVars, fileVars>>
  <2>1. UNCHANGED <<buffer_, pieces, cur_buffer_, buffer_list_, logged, fileVars>>
    BY <1>10 DEF lineVars
  <2> QED BY <1>1, <1>2, <1>3, <1>4, <2>1 DEF LineInv
<1> QED BY <1>5, <1>6, <1>7, <1>8, <1>9, <1>10 DEF LineNext

\* For any pieces, any sizes, any number of lines and any turns of the log
\* thread: the invariant of the line, the buffers and the file together, that
\* the theorems below follow from (~Logger, LogBuffer::append,
\* Logging::append, AppendUtil::append, append_unlocked).
THEOREM LineInvariant == LineSpec => []LineInv
BY InitLineInv, NextLineInv, PTL DEF LineSpec

\* The file is the lines that were logged, in order, whole and once, as far
\* as their buffers have been appended; only the rest of a buffer on which
\* append() gave up is missing, however fwrite() cuts the buffers
\* (Logging::append, thread_func, AppendUtil::append).
THEOREM FileHasTheLines == LineSpec => []FileIsLines
<1>1. LineInv => FileIsLines
  BY DEF LineInv, FileInv, FileIsLines
<1> QED BY <1>1, LineInvariant, PTL

\* Fewer than num_append_ LogBuffers, each of any number of lines, have been
\* appended since the last flush, whenever the log thread calls flush() in
\* between (append_unlocked, flush).
THEOREM FewWaitForAFlush == LineSpec => []FewUnflushed
<1>1. LineInv => FewUnflushed
  <2> SUFFICES ASSUME LineInv PROVE unflushed < num_append_
    BY DEF FewUnflushed
  <2>1. /\ num_append_ \in Nat /\ count_ \in 0..(num_append_ - 1)
        /\ unflushed \in 0..count_
    BY NumAppendAssumption DEF LineInv, FileInv
  <2> QED BY <2>1
<1> QED BY <1>1, LineInvariant, PTL

\* No line fills its LogBuffer, wherever it is ended, and every line ends with
\* a newline unless it is as long as a line can be (LogBuffer::append,
\* fromat_integer, ~Logger).
THEOREM LinesFit == LineSpec => []LineFits
<1>1. LineInv => LineFits
  BY DEF LineInv
<1> QED BY <1>1, LineInvariant, PTL

\* The text of every integer that is logged reads back as its value and has
\* no needless digit: for every integer, by induction on its size (convert).
THEOREM NumbersReadBack == LineSpec => []IntegersReadBack
<1>1. LineInv => IntegersReadBack
  <2> SUFFICES ASSUME LineInv, NEW k \in DOMAIN pieces, pieces[k].kind = "integer"
               PROVE  LET text == TextOf(pieces[k])
                      IN /\ ValueOf(text) = pieces[k].value
                         /\ text[1] = "0" => Len(text) = 1
                         /\ text[1] = "-" => text[2] # "0"
    BY DEF IntegersReadBack
  <2>1. pieces[k] \in Pieces
    BY ElementOfSeq, LenProperties DEF LineInv
  <2>2. pieces[k].value \in Int /\ TextOf(pieces[k]) = convert(pieces[k].value)
    BY <2>1, LineAssumption DEF TextOf
  <2> QED BY <2>2, ConvertReadsBack
<1> QED BY <1>1, LineInvariant, PTL

-----------------------------------------------------------------------------
(* Powers and sums.                                                        *)

\* f is the function that Power is defined as, up to m.
Powers(m, f) == f = [n \in 0..m |-> IF n = 0 THEN 1 ELSE B * f[n - 1]]

LEMMA PowersExist == \E f : Powers(8, f)
<1> DEFINE I == {m \in 0..8 : \E f : Powers(m, f)}
<1>1. 0 \in I
  <2>1. Powers(0, [n \in 0..0 |-> 1])
    BY DEF Powers
  <2> QED BY <2>1
<1>2. ASSUME NEW m \in 1..8, m - 1 \in I PROVE m \in I
  <2>1. PICK f : Powers(m - 1, f)
    BY <1>2
  <2> DEFINE g == [n \in 0..m |-> IF n < m THEN f[n] ELSE B * f[m - 1]]
  <2>2. ASSUME NEW n \in 0..m PROVE g[n] = IF n = 0 THEN 1 ELSE B * g[n - 1]
    <3>1. CASE n < m
      <4>1. n \in 0..(m - 1) /\ g[n] = f[n] /\ (n # 0 => g[n - 1] = f[n - 1])
        BY <3>1
      <4>2. f[n] = IF n = 0 THEN 1 ELSE B * f[n - 1]
        BY <2>1, <4>1 DEF Powers
      <4> QED BY <4>1, <4>2
    <3>2. CASE ~(n < m)
      <4>1. n = m /\ n # 0 /\ g[m] = B * f[m - 1] /\ g[m - 1] = f[m - 1]
        BY <3>2
      <4> QED BY <4>1
    <3> QED BY <3>1, <3>2
  <2>3. Powers(m, g)
    <3>1. g = [n \in 0..m |-> g[n]]
      OBVIOUS
    <3> HIDE DEF g
    <3>2. g = [n \in 0..m |-> IF n = 0 THEN 1 ELSE B * g[n - 1]]
      BY <2>2, <3>1
    <3> QED BY <3>2 DEF Powers
  <2> QED BY <2>3
<1>3. 8 \in I
  <2> HIDE DEF I
  <2> QED BY <1>1, <1>2, UpTo
<1> QED BY <1>3

LEMMA PowerIs ==
  Power[0] = 1 /\ \A n \in 1..8 : Power[n] = B * Power[n - 1]
<1>1. Power = CHOOSE f : Powers(8, f)
  BY Zenon DEF Power, Powers
<1>2. Powers(8, Power)
  BY <1>1, PowersExist
<1>3. \A n \in 0..8 : Power[n] = IF n = 0 THEN 1 ELSE B * Power[n - 1]
  BY <1>2 DEF Powers
<1> QED BY <1>3

\* A byte has at least two values.
LEMMA ByteFacts == B \in Nat /\ B >= 2
BY ByteAssumption

\* The powers grow.
LEMMA PowerGrows ==
  ASSUME NEW n \in 1..8
  PROVE  /\ Power[n] \in Nat \ {0} /\ Power[n - 1] \in Nat \ {0}
         /\ Power[n] = B * Power[n - 1] /\ 2 * Power[n - 1] <= Power[n]
<1>1. PICK I : I = {m \in 0..8 : Power[m] \in Nat \ {0}}
  OBVIOUS
<1>2. \A m \in 1..8 : m - 1 \in I => m \in I
  <2> SUFFICES ASSUME NEW m \in 1..8, m - 1 \in I PROVE m \in I
    OBVIOUS
  <2>1. PICK p \in Nat \ {0} : p = Power[m - 1] /\ Power[m] = B * p
    BY <1>1, PowerIs
  <2>2. B * p \in Nat \ {0}
    BY ByteFacts
  <2> QED BY <1>1, <2>1, <2>2
<1>3. 0 \in I
  BY <1>1, PowerIs
<1>4. \A k \in 0..8 : k \in I
  <2> SUFFICES ASSUME NEW k \in 0..8 PROVE k \in I
    OBVIOUS
  <2>1. \A i \in 1..k : i - 1 \in I => i \in I
    BY <1>2
  <2> QED BY <1>3, <2>1, UpTo
<1>5. n \in I /\ n - 1 \in I
  BY <1>4
<1>6. PICK p \in Nat \ {0} : p = Power[n - 1] /\ Power[n] = B * p
  BY <1>1, <1>5, PowerIs
<1>7. 2 * p <= B * p
  BY ByteFacts
<1> QED BY <1>1, <1>5, <1>6, <1>7

LEMMA PowerUp ==
  ASSUME NEW n \in 0..8, NEW k \in 0..8, n <= k
  PROVE  Power[n] \in Nat \ {0} /\ Power[k] \in Nat \ {0} /\ Power[n] <= Power[k]
<1>1. \A m \in 0..8 : Power[m] \in Nat \ {0}
  <2> SUFFICES ASSUME NEW m \in 0..8 PROVE Power[m] \in Nat \ {0}
    OBVIOUS
  <2>1. CASE m = 0
    BY <2>1, PowerIs
  <2>2. CASE m # 0
    BY <2>2, PowerGrows
  <2> QED BY <2>1, <2>2
<1>2. PICK I : I = {m \in 0..8 : n <= m => Power[n] <= Power[m]}
  OBVIOUS
<1>3. 0 \in I
  <2>1. n <= 0 => n = 0
    OBVIOUS
  <2>2. PICK a \in Nat : a = Power[0]
    BY PowerIs
  <2> QED BY <1>2, <2>1, <2>2
<1>4. \A m \in 1..k : m - 1 \in I => m \in I
  <2> SUFFICES ASSUME NEW m \in 1..k, m - 1 \in I PROVE m \in I
    OBVIOUS
  <2>1. CASE n = m
    BY <1>1, <1>2, <2>1
  <2>2. CASE n # m
    <3>1. n <= m => n <= m - 1
      BY <2>2
    <3>2. PICK a \in Nat, b \in Nat, c \in Nat : a = Power[n] /\ b = Power[m - 1] /\ c = Power[m]
      <4>1. n \in 0..8 /\ m - 1 \in 0..8 /\ m \in 0..8
        OBVIOUS
      <4>2. Power[n] \in Nat /\ Power[m - 1] \in Nat /\ Power[m] \in Nat
        BY <1>1, <4>1
      <4> QED BY <4>2
    <3>3. n <= m => a <= b
      BY <1>2, <3>1, <3>2
    <3>4. 2 * b <= c
      BY <3>2, PowerGrows
    <3>5. n <= m => a <= c
      BY <3>3, <3>4
    <3> QED BY <1>2, <3>2, <3>5
  <2> QED BY <2>1, <2>2
<1>5. k \in I
  BY <1>3, <1>4, UpTo
<1> QED BY <1>1, <1>2, <1>5

\* f has the sums of the beginnings of ns.
Sums(ns, n, f) == f = [i \in 0..n |-> IF i = 0 THEN 0 ELSE f[i - 1] + ns[i]]

LEMMA SumsExist ==
  ASSUME NEW ns, NEW n \in Nat
  PROVE  \E f : Sums(ns, n, f)
<1> DEFINE I == {m \in 0..n : \E f : Sums(ns, m, f)}
<1>1. 0 \in I
  <2>1. Sums(ns, 0, [i \in 0..0 |-> 0])
    BY DEF Sums
  <2> QED BY <2>1
<1>2. ASSUME NEW m \in 1..n, m - 1 \in I PROVE m \in I
  <2>1. PICK f : Sums(ns, m - 1, f)
    BY <1>2
  <2> DEFINE g == [i \in 0..m |-> IF i < m THEN f[i] ELSE f[m - 1] + ns[m]]
  <2>2. ASSUME NEW i \in 0..m PROVE g[i] = IF i = 0 THEN 0 ELSE g[i - 1] + ns[i]
    <3>1. CASE i < m
      <4>1. i \in 0..(m - 1) /\ g[i] = f[i] /\ (i # 0 => g[i - 1] = f[i - 1])
        BY <3>1
      <4>2. f[i] = IF i = 0 THEN 0 ELSE f[i - 1] + ns[i]
        BY <2>1, <4>1 DEF Sums
      <4> QED BY <4>1, <4>2
    <3>2. CASE ~(i < m)
      <4>1. i = m /\ i # 0 /\ g[m] = f[m - 1] + ns[m] /\ g[m - 1] = f[m - 1]
        BY <3>2
      <4> QED BY <4>1
    <3> QED BY <3>1, <3>2
  <2>3. Sums(ns, m, g)
    <3>1. g = [i \in 0..m |-> g[i]]
      OBVIOUS
    <3> HIDE DEF g
    <3>2. g = [i \in 0..m |-> IF i = 0 THEN 0 ELSE g[i - 1] + ns[i]]
      BY <2>2, <3>1
    <3> QED BY <3>2 DEF Sums
  <2> QED BY <2>3
<1>3. n \in I
  <2> HIDE DEF I
  <2> QED BY <1>1, <1>2, UpTo
<1> QED BY <1>3

\* What adds up as the sums do is the total.
LEMMA TotalIs ==
  ASSUME NEW ns, NEW n \in Nat, n = Len(ns),
         NEW f, f[0] = 0, \A i \in 1..n : f[i] = f[i - 1] + ns[i]
  PROVE  Total(ns) = f[n]
<1>1. PICK g : g = CHOOSE h : Sums(ns, n, h)
  OBVIOUS
<1>2. Sums(ns, n, g)
  BY <1>1, SumsExist
<1>3. Total(ns) = g[n]
  BY <1>1, Zenon DEF Total, Sums
<1>4. \A i \in 0..n : g[i] = IF i = 0 THEN 0 ELSE g[i - 1] + ns[i]
  BY <1>2 DEF Sums
<1>5. PICK I : I = {i \in 0..n : f[i] = g[i]}
  OBVIOUS
<1>6. 0 \in I
  BY <1>4, <1>5
<1>7. \A i \in 1..n : i - 1 \in I => i \in I
  <2> SUFFICES ASSUME NEW i \in 1..n, i - 1 \in I PROVE i \in I
    OBVIOUS
  <2>1. f[i] = f[i - 1] + ns[i] /\ f[i - 1] = g[i - 1]
    BY <1>5
  <2>2. g[i] = g[i - 1] + ns[i]
    BY <1>4
  <2> QED BY <1>5, <2>1, <2>2
<1>8. n \in I
  BY <1>6, <1>7, UpTo
<1> QED BY <1>3, <1>5, <1>8

-----------------------------------------------------------------------------
(* The digits of a number to the base B.                                   *)

LEMMA DivMod ==
  ASSUME NEW x \in Int, NEW P \in Nat \ {0}
  PROVE  /\ x \div P \in Int /\ (x \in Nat => x \div P \in Nat)
         /\ x % P \in 0..(P - 1)
         /\ x = (P * (x \div P)) + (x % P)
OBVIOUS

LEMMA ModIs ==
  ASSUME NEW x \in Int, NEW P \in Nat \ {0}, NEW q \in Int, NEW r \in 0..(P - 1),
         x = (P * q) + r
  PROVE  x % P = r
OBVIOUS

LEMMA Regroup ==
  ASSUME NEW b \in Nat, NEW P \in Nat, NEW q \in Int, NEW d \in Int
  PROVE  P * ((b * q) + d) = ((b * P) * q) + (P * d)
OBVIOUS

LEMMA NextDigit ==
  ASSUME NEW x \in Nat, NEW P \in Nat \ {0}
  PROVE  x % (B * P) = (x % P) + (((x \div P) % B) * P)
<1>1. PICK y \in Nat, r \in 0..(P - 1) :
        y = x \div P /\ r = x % P /\ x = (P * y) + r
  BY DivMod
<1>2. B \in Nat \ {0}
  BY ByteFacts
<1>3. PICK q \in Int, d \in 0..(B - 1) : d = y % B /\ y = (B * q) + d
  <2>1. PICK b \in Nat \ {0} : b = B
    BY <1>2
  <2>2. /\ y \div b \in Int /\ y % b \in 0..(b - 1)
        /\ y = (b * (y \div b)) + (y % b)
    BY DivMod
  <2> QED BY <2>1, <2>2
<1>4. (P * d) + r \in 0..((B * P) - 1)
  BY <1>2
<1>5. x = ((B * P) * q) + ((P * d) + r)
  <2>1. P * ((B * q) + d) = ((B * P) * q) + (P * d)
    BY <1>2, Regroup
  <2>2. (B * P) * q \in Int /\ P * d \in Int
    BY <1>2
  <2>3. x = (P * ((B * q) + d)) + r
    BY <1>1, <1>3
  <2>4. PICK u \in Int, w \in Int : u = (B * P) * q /\ w = P * d
    BY <2>2
  <2>5. x = (u + w) + r
    BY <2>1, <2>3, <2>4
  <2>6. (u + w) + r = u + (w + r)
    OBVIOUS
  <2> QED BY <2>4, <2>5, <2>6
<1>6. B * P \in Nat \ {0}
  BY <1>2
<1>7. x % (B * P) = (P * d) + r
  BY <1>4, <1>5, <1>6, ModIs
<1>8. P * d = d * P
  OBVIOUS
<1>9. (P * d) + r = r + (d * P)
  BY <1>8
<1> QED BY <1>1, <1>3, <1>7, <1>9

\* The first bytes of a number are the rest of its division by their power.
LEMMA NumberIs ==
  ASSUME NEW x \in Nat, NEW n \in 0..8, NEW bytes, DOMAIN bytes = 1..n,
         \A i \in 1..n : bytes[i] = (x \div Power[i - 1]) % B
  PROVE  Number(bytes) = x % Power[n]
<1> DEFINE ns == [i \in 1..n |-> bytes[i] * Power[i - 1]]
           f == [i \in 0..n |-> x % Power[i]]
<1>1. Number(bytes) = Total(ns)
  BY Zenon DEF Number
<1>2. Len(ns) = n /\ n \in Nat
  OBVIOUS
<1>3. f[0] = 0
  <2>1. x % 1 = 0
    OBVIOUS
  <2> QED BY <2>1, PowerIs
<1>4. \A i \in 1..n : f[i] = f[i - 1] + ns[i]
  <2> SUFFICES ASSUME NEW i \in 1..n PROVE f[i] = f[i - 1] + ns[i]
    OBVIOUS
  <2>1. f[i] = x % Power[i] /\ f[i - 1] = x % Power[i - 1] /\ ns[i] = bytes[i] * Power[i - 1]
    OBVIOUS
  <2>2. PICK P \in Nat \ {0} : P = Power[i - 1] /\ Power[i] = B * P
    <3>1. i \in 1..8
      OBVIOUS
    <3> QED BY <3>1, PowerGrows
  <2>3. x % (B * P) = (x % P) + (((x \div P) % B) * P)
    BY NextDigit
  <2> HIDE DEF f, ns
  <2> QED BY <2>1, <2>2, <2>3
<1>5. f[n] = x % Power[n]
  OBVIOUS
<1> HIDE DEF f, ns
<1>6. Total(ns) = f[n]
  BY <1>2, <1>3, <1>4, TotalIs
<1> QED BY <1>1, <1>5, <1>6

-----------------------------------------------------------------------------
(* How many bytes a number needs.                                          *)

LEMMA MinIs ==
  ASSUME NEW S, S \subseteq Nat, NEW m \in S, \A y \in S : m <= y
  PROVE  Min(S) = m
<1>1. Min(S) = CHOOSE x \in S : \A y \in S : x <= y
  BY Zenon DEF Min
<1>2. PICK c : c = CHOOSE x \in S : \A y \in S : x <= y
  OBVIOUS
<1>3. c \in S /\ \A y \in S : c <= y
  BY <1>2
<1>4. c <= m /\ m <= c /\ c \in Nat /\ m \in Nat
  BY <1>3
<1> QED BY <1>1, <1>2, <1>4

\* The numbers below Power[s] need at most s bytes.
LEMMA NumBytes ==
  ASSUME NEW x \in Nat, NEW s \in 1..8, x < Power[s]
  PROVE  \E k \in 1..s :
           /\ x < Power[k] /\ num_bytes(x) = k
           /\ Min({n \in 1..s : x < Power[n]}) = k
           /\ \A n \in 1..8 : x < Power[n] => k <= n
<1>1. PICK S : S = {n \in 1..8 : x < Power[n]}
  OBVIOUS
<1>2. PICK k \in S : \A y \in S : ~(y < k)
  <2>1. S \subseteq Nat /\ S # {}
    BY <1>1
  <2> QED BY <2>1, LeastNumber
<1>3. k \in 1..8 /\ x < Power[k] /\ s \in S
  BY <1>1, <1>2
<1>4. \A y \in S : y \in 1..8 /\ k <= y
  BY <1>1, <1>2, <1>3
<1>5. k <= s
  BY <1>3, <1>4
<1>6. num_bytes(x) = k
  <2> DEFINE N == {n \in 1..8 : x < Power[n] \/ n = 8}
  <2>1. N \subseteq Nat /\ k \in N
    BY <1>3
  <2>2. \A y \in N : k <= y
    BY <1>1, <1>3, <1>4
  <2>3. num_bytes(x) = Min(N)
    BY DEF num_bytes
  <2> HIDE DEF N
  <2> QED BY <2>1, <2>2, <2>3, MinIs
<1>7. Min({n \in 1..s : x < Power[n]}) = k
  <2> DEFINE N == {n \in 1..s : x < Power[n]}
  <2>1. N \subseteq Nat /\ k \in N
    BY <1>3, <1>5
  <2>2. \A y \in N : k <= y
    BY <1>1, <1>4
  <2> HIDE DEF N
  <2>3. Min(N) = k
    BY <2>1, <2>2, MinIs
  <2> QED BY <2>3 DEF N
<1>8. k \in 1..s
  BY <1>3, <1>5
<1>9. \A n \in 1..8 : x < Power[n] => k <= n
  BY <1>1, <1>4
<1> QED BY <1>3, <1>6, <1>7, <1>8, <1>9

\* The numbers from Power[s - 1] on need s bytes.
LEMMA NumBytesAll ==
  ASSUME NEW x \in Nat, NEW s \in 1..8, x < Power[s], Power[s - 1] <= x
  PROVE  num_bytes(x) = s /\ Min({n \in 1..s : x < Power[n]}) = s
<1>1. PICK k \in 1..s : /\ x < Power[k] /\ num_bytes(x) = k
                        /\ Min({n \in 1..s : x < Power[n]}) = k
  BY NumBytes
<1>2. CASE k <= s - 1
  <2>1. k \in 0..8 /\ s - 1 \in 0..8
    OBVIOUS
  <2>2. PICK a \in Nat, b \in Nat : a = Power[k] /\ b = Power[s - 1] /\ a <= b
    BY <1>2, <2>1, PowerUp
  <2>3. x < a /\ b <= x
    BY <1>1, <2>2
  <2> QED BY <2>2, <2>3
<1>3. CASE ~(k <= s - 1)
  BY <1>1, <1>3
<1> QED BY <1>2, <1>3

\* The range of an integer type, and its half.
LEMMA Halves ==
  ASSUME NEW s \in 1..8
  PROVE  \E H \in Nat \ {0} : /\ Power[s] = 2 * H /\ Power[s] \div 2 = H
                              /\ Power[s - 1] <= H
<1>1. PICK P \in Nat \ {0} : P = Power[s - 1] /\ Power[s] = B * P
  BY PowerGrows
<1>2. PICK h \in Nat \ {0} : B = 2 * h
  <2>1. PICK h \in 1..128 : B = 2 * h
    BY ByteAssumption
  <2> QED BY <2>1
<1>3. h * P \in Nat \ {0} /\ (2 * h) * P = 2 * (h * P) /\ P <= h * P
  OBVIOUS
<1>4. PICK H \in Nat \ {0} : H = h * P
  BY <1>3
<1>5. Power[s] = 2 * H /\ P <= H
  BY <1>1, <1>2, <1>3, <1>4
<1>6. (2 * H) \div 2 = H
  OBVIOUS
<1> QED BY <1>1, <1>5, <1>6

-----------------------------------------------------------------------------
(* A package by itself.                                                    *)

LEMMA TypeFacts ==
  ASSUME NEW T \in Types
  PROVE  /\ T \in Floating => sizeof(T) \in {4, 8, 16} /\ T \notin Signed /\ T \notin Unsigned
         /\ T \notin Floating => sizeof(T) \in {4, 8} /\ (T \in Signed \/ T \in Unsigned)
         /\ ~(T \in Signed /\ T \in Unsigned)
BY DEF Types, Floating, Signed, Unsigned, sizeof

\* The codes fit into a nibble.
LEMMA Codes ==
  /\ \A k \in 1..8 : BytesOfCode(k) = k /\ k % 16 = k /\ size_of_nibble(k) = k
  /\ \A k \in 1..7 : /\ BytesOfCode(8 + k) = k /\ (8 + k) % 16 = 8 + k
                     /\ size_of_nibble(8 + k) = k
  /\ BytesOfCode(16) = 16 /\ 16 % 16 = 0 /\ size_of_nibble(0) = 16
BY DEF BytesOfCode, size_of_nibble

\* The beginning of the bytes of an integer is the integer, when it is small.
LEMMA IntegerBytes ==
  ASSUME NEW T \in Types, T \notin Floating, NEW m \in Int,
         NEW u \in Nat, u = m % Power[sizeof(T)]
  PROVE  /\ Bytes(T, m) \in Seq(0..(B - 1)) /\ Len(Bytes(T, m)) = sizeof(T)
         /\ \A k \in 1..sizeof(T) : \A bytes :
              DOMAIN bytes = 1..k /\ (\A i \in 1..k : bytes[i] = Bytes(T, m)[i]) /\ u < Power[k]
                => Number(bytes) = u
<1>1. PICK s \in 1..8 : s = sizeof(T)
  BY TypeFacts
<1>2. Bytes(T, m) = [i \in 1..s |-> (u \div Power[i - 1]) % B]
  BY <1>1 DEF Bytes
<1>3. \A i \in 1..s : (u \div Power[i - 1]) % B \in 0..(B - 1)
  <2> SUFFICES ASSUME NEW i \in 1..s PROVE (u \div Power[i - 1]) % B \in 0..(B - 1)
    OBVIOUS
  <2>1. i \in 1..8
    OBVIOUS
  <2>2. PICK P \in Nat \ {0} : P = Power[i - 1]
    BY <2>1, PowerGrows
  <2>3. PICK q \in Int : q = u \div P
    BY DivMod
  <2>4. PICK b \in Nat \ {0} : b = B
    BY ByteFacts
  <2>5. q % b \in 0..(b - 1)
    BY DivMod
  <2> QED BY <2>2, <2>3, <2>4, <2>5
<1>4. Bytes(T, m) \in Seq(0..(B - 1)) /\ Len(Bytes(T, m)) = s
  BY <1>2, <1>3
<1>5. ASSUME NEW k \in 1..s, NEW bytes, DOMAIN bytes = 1..k,
             \A i \in 1..k : bytes[i] = Bytes(T, m)[i], u < Power[k]
      PROVE  Number(bytes) = u
  <2>1. \A i \in 1..k : bytes[i] = (u \div Power[i - 1]) % B
    <3>1. \A i \in 1..k : i \in 1..s
      OBVIOUS
    <3> QED BY <1>2, <1>5, <3>1
  <2>2. k \in 0..8
    OBVIOUS
  <2>3. Number(bytes) = u % Power[k]
    BY <1>5, <2>1, <2>2, NumberIs
  <2>4. PICK P \in Nat \ {0} : P = Power[k]
    <3>1. k \in 1..8
      OBVIOUS
    <3> QED BY <3>1, PowerGrows
  <2>5. u % P = u
    <3>1. u \in 0..(P - 1) /\ u = (P * 0) + u
      BY <1>5, <2>4
    <3> QED BY <3>1, ModIs
  <2> QED BY <2>3, <2>4, <2>5
<1> QED BY <1>1, <1>4, <1>5

\* What unpack() needs to know of a package: pack() returned code, wrote k
\* bytes that count, and these bytes give the value back.
Packs(T, v, code, k) ==
  /\ pack_code(T, v) = code /\ BytesOfCode(code) = k
  /\ FewestBytes(T, v) = k
  /\ code % 16 \in 0..15 /\ size_of_nibble(code % 16) = k
  /\ Bytes(T, magnitude(T, v)) \in Seq(0..(B - 1))
  /\ k <= Len(Bytes(T, magnitude(T, v)))
  /\ \A bytes :
       /\ bytes = [i \in 1..k |-> bytes[i]]
       /\ \A i \in 1..k : bytes[i] = Bytes(T, magnitude(T, v))[i]
       => unpack_value(T, code % 16, bytes) = v

LEMMA PacksFloating ==
  ASSUME NEW T \in Floating, NEW v \in Representable(T)
  PROVE  \E code \in Nat, k \in 1..16 : Packs(T, v, code, k)
<1>1. PICK s \in {4, 8, 16} : s = sizeof(T) /\ T \in Types /\ T \notin Signed /\ T \notin Unsigned
  BY TypeFacts DEF Types
<1>2. v \in [1..s -> 0..(B - 1)]
  BY <1>1 DEF Representable
<1>3. pack_code(T, v) = s
  BY <1>1 DEF pack_code, IsSmallNegative
<1>4. BytesOfCode(s) = s /\ s % 16 \in 0..15 /\ size_of_nibble(s % 16) = s
  BY Codes
<1>5. FewestBytes(T, v) = s
  BY <1>1, Zenon DEF FewestBytes
<1>6. magnitude(T, v) = v
  BY <1>1 DEF magnitude, IsSmallNegative
<1>7. Bytes(T, v) = v
  BY DEF Bytes
<1>8. v \in Seq(0..(B - 1)) /\ Len(v) = s
  <2>1. PICK S : S = 0..(B - 1)
    OBVIOUS
  <2>2. s \in Nat /\ v \in [1..s -> S]
    BY <1>2, <2>1
  <2>3. v \in Seq(S)
    BY <2>2, SeqDef
  <2>4. DOMAIN v = 1..s /\ DOMAIN v = 1..Len(v) /\ Len(v) \in Nat
    BY <2>2, <2>3, LenProperties
  <2>5. Len(v) = s
    BY <2>2, <2>4
  <2> QED BY <2>1, <2>3, <2>5
<1>9. ASSUME NEW bytes, bytes = [i \in 1..s |-> bytes[i]], \A i \in 1..s : bytes[i] = v[i]
      PROVE  unpack_value(T, s % 16, bytes) = v
  <2>1. v = [i \in 1..s |-> v[i]]
    BY <1>2
  <2>2. bytes = v
    BY <1>9, <2>1
  <2> QED BY <2>2 DEF unpack_value
<1>10. Packs(T, v, s, s)
  BY <1>3, <1>4, <1>5, <1>6, <1>7, <1>8, <1>9 DEF Packs
<1>11. s \in Nat /\ s \in 1..16
  OBVIOUS
<1> QED BY <1>10, <1>11

\* The numbers that keep their sign, or have none.
LEMMA PacksPlain ==
  ASSUME NEW T \in Types, T \notin Floating, NEW v \in Int, ~IsSmallNegative(T, v),
         NEW u \in Nat, u = v % Power[sizeof(T)], NEW k \in 1..sizeof(T), u < Power[k],
         num_bytes(u) = k, FewestBytes(T, v) = k, Cast(T, u) = v
  PROVE  \E code \in Nat, n \in 1..16 : Packs(T, v, code, n)
<1>1. PICK s \in 1..8 : s = sizeof(T)
  BY TypeFacts
<1>2. pack_code(T, v) = k
  BY DEF pack_code
<1>3. BytesOfCode(k) = k /\ k % 16 = k /\ size_of_nibble(k) = k /\ k \in 0..15 /\ k <= 8
      /\ k \in Nat /\ k \in 1..16
  BY <1>1, Codes
<1>4. magnitude(T, v) = v
  BY DEF magnitude
<1>5. Bytes(T, v) \in Seq(0..(B - 1)) /\ k <= Len(Bytes(T, v))
  BY IntegerBytes
<1>6. ASSUME NEW bytes, bytes = [i \in 1..k |-> bytes[i]],
             \A i \in 1..k : bytes[i] = Bytes(T, v)[i]
      PROVE  unpack_value(T, k, bytes) = v
  <2>1. DOMAIN bytes = 1..k
    BY <1>6
  <2>2. Number(bytes) = u
    BY <1>6, <2>1, IntegerBytes
  <2> QED BY <1>3, <2>2 DEF unpack_value
<1>7. Packs(T, v, k, k)
  BY <1>2, <1>3, <1>4, <1>5, <1>6 DEF Packs
<1> QED BY <1>3, <1>7

LEMMA PacksUnsigned ==
  ASSUME NEW T \in Unsigned, NEW v \in Representable(T)
  PROVE  \E code \in Nat, k \in 1..16 : Packs(T, v, code, k)
<1>1. T \in Types /\ T \notin Floating /\ T \notin Signed
  BY TypeFacts DEF Types
<1>2. PICK s \in 1..8 : s = sizeof(T)
  BY <1>1, TypeFacts
<1>3. PICK R \in Nat \ {0} : R = Power[s]
  BY PowerGrows
<1>4. v \in 0..(R - 1)
  BY <1>1, <1>2, <1>3 DEF Representable
<1>5. v % R = v
  <2>1. v = (R * 0) + v
    BY <1>4
  <2> QED BY <1>4, <2>1, ModIs
<1>6. PICK k \in 1..s : /\ v < Power[k] /\ num_bytes(v) = k
                        /\ Min({n \in 1..s : v < Power[n]}) = k
  <2>1. v \in Nat /\ v < Power[s]
    BY <1>3, <1>4
  <2> QED BY <2>1, NumBytes
<1>7. FewestBytes(T, v) = k
  <2>1. ~(v < 0)
    BY <1>4
  <2> QED BY <1>1, <1>2, <1>6, <2>1, Zenon DEF FewestBytes
<1>8. Cast(T, v) = v
  BY <1>1, <1>2, <1>3, <1>5 DEF Cast
<1>9. ~IsSmallNegative(T, v)
  BY <1>1 DEF IsSmallNegative
<1> QED BY <1>1, <1>2, <1>3, <1>4, <1>5, <1>6, <1>7, <1>8, <1>9, PacksPlain

\* A number of a signed type is coded by its size and sign.
LEMMA PacksNotNegative ==
  ASSUME NEW T \in Signed, NEW v \in Representable(T), v >= 0
  PROVE  \E code \in Nat, k \in 1..16 : Packs(T, v, code, k)
<1>1. T \in Types /\ T \notin Floating /\ T \notin Unsigned
  BY TypeFacts DEF Types
<1>2. PICK s \in 1..8 : s = sizeof(T)
  BY <1>1, TypeFacts
<1>3. PICK H \in Nat \ {0} : Power[s] = 2 * H /\ Power[s] \div 2 = H
  BY Halves
<1>4. v \in 0..(H - 1)
  <2>1. v \in -H..(H - 1)
    BY <1>1, <1>2, <1>3 DEF Representable
  <2> QED BY <2>1
<1>5. v % (2 * H) = v
  <2>1. v = ((2 * H) * 0) + v /\ v \in 0..((2 * H) - 1) /\ 2 * H \in Nat \ {0}
    BY <1>4
  <2> QED BY <2>1, ModIs
<1>6. PICK k \in 1..s : /\ v < Power[k] /\ num_bytes(v) = k
                        /\ Min({n \in 1..s : v < Power[n]}) = k
  <2>1. v \in Nat /\ v < Power[s]
    BY <1>3, <1>4
  <2> QED BY <2>1, NumBytes
<1>7. FewestBytes(T, v) = k
  <2>1. ~(v < 0)
    BY <1>4
  <2> QED BY <1>1, <1>2, <1>6, <2>1, Zenon DEF FewestBytes
<1>8. Cast(T, v) = v
  <2>1. ~(v >= H)
    BY <1>4
  <2> QED BY <1>2, <1>3, <1>5, <2>1 DEF Cast
<1>9. ~IsSmallNegative(T, v)
  BY <1>4 DEF IsSmallNegative
<1>10. v \in Nat /\ v = v % Power[s] /\ v \in Int
  BY <1>3, <1>4, <1>5
<1> QED BY <1>1, <1>2, <1>6, <1>7, <1>8, <1>9, <1>10, PacksPlain

LEMMA PacksLargeNegative ==
  ASSUME NEW T \in Signed, NEW v \in Representable(T), v < 0, ~IsSmallNegative(T, v)
  PROVE  \E code \in Nat, k \in 1..16 : Packs(T, v, code, k)
<1>1. T \in Types /\ T \notin Floating /\ T \notin Unsigned
  BY TypeFacts DEF Types
<1>2. PICK s \in 1..8 : s = sizeof(T)
  BY <1>1, TypeFacts
<1>3. PICK H \in Nat \ {0} : /\ Power[s] = 2 * H /\ Power[s] \div 2 = H
                             /\ Power[s - 1] <= H
  BY Halves
<1>4. PICK P \in Nat : P = Power[s - 1]
  BY PowerGrows
<1>5. v \in -H..(H - 1) /\ v <= -P
  <2>1. v \in -H..(H - 1)
    BY <1>1, <1>2, <1>3 DEF Representable
  <2>2. ~(v > -P)
    BY <1>2, <1>4 DEF IsSmallNegative
  <2> QED BY <2>1, <2>2
<1>6. PICK m \in Nat : m = -v /\ P <= m /\ m <= H
  BY <1>5
<1>7. PICK u \in Nat : u = (2 * H) + v
  BY <1>5
<1>8. H <= u /\ u < 2 * H /\ P <= u
  BY <1>3, <1>4, <1>5, <1>7
<1>9. v % (2 * H) = u /\ u % (2 * H) = u
  <2>1. v = ((2 * H) * (-1)) + u /\ u = ((2 * H) * 0) + u /\ u \in 0..((2 * H) - 1)
        /\ 2 * H \in Nat \ {0}
    BY <1>5, <1>7, <1>8
  <2> QED BY <2>1, ModIs
<1>10. num_bytes(u) = s
  BY <1>3, <1>4, <1>8, NumBytesAll
<1>11. FewestBytes(T, v) = s
  <2>1. m < Power[s] /\ Power[s - 1] <= m
    BY <1>3, <1>4, <1>6
  <2>2. Min({n \in 1..s : m < Power[n]}) = s
    BY <2>1, NumBytesAll
  <2> QED BY <1>1, <1>2, <1>6, <2>2, Zenon DEF FewestBytes
<1>12. Cast(T, u) = v
  <2>1. u >= H /\ u - (2 * H) = v
    BY <1>5, <1>7, <1>8
  <2> QED BY <1>2, <1>3, <1>9, <2>1 DEF Cast
<1>13. u = v % Power[s] /\ v \in Int /\ s \in 1..s /\ u < Power[s]
  BY <1>3, <1>5, <1>8, <1>9
<1> QED BY <1>1, <1>2, <1>10, <1>11, <1>12, <1>13, PacksPlain

LEMMA PacksSmallNegative ==
  ASSUME NEW T \in Signed, NEW v \in Representable(T), IsSmallNegative(T, v)
  PROVE  \E code \in Nat, k \in 1..16 : Packs(T, v, code, k)
<1>1. T \in Types /\ T \notin Floating /\ T \notin Unsigned
  BY TypeFacts DEF Types
<1>2. PICK s \in 2..8 : s = sizeof(T)
  BY <1>1, TypeFacts
<1>3. PICK H \in Nat \ {0} : /\ Power[s] = 2 * H /\ Power[s] \div 2 = H
                             /\ Power[s - 1] <= H
  BY Halves
<1>4. PICK P \in Nat : P = Power[s - 1]
  BY PowerGrows
<1>5. v \in Int /\ v < 0 /\ v > -P
  <2>1. v \in -H..(H - 1)
    BY <1>1, <1>2, <1>3 DEF Representable
  <2> QED BY <1>2, <1>4, <2>1 DEF IsSmallNegative
<1>6. PICK m \in Nat \ {0} : m = -v /\ v = -m /\ m < P
  BY <1>5
<1>7. m < H
  BY <1>3, <1>4, <1>6
<1>8. m % (2 * H) = m
  <2>1. m = ((2 * H) * 0) + m /\ m \in 0..((2 * H) - 1) /\ 2 * H \in Nat \ {0}
    BY <1>7
  <2> QED BY <2>1, ModIs
<1>9. PICK k \in 1..(s - 1) : /\ m < Power[k] /\ num_bytes(m) = k
                              /\ Min({n \in 1..s : m < Power[n]}) = k
  <2>1. m < Power[s] /\ m < Power[s - 1] /\ s - 1 \in 1..8 /\ s \in 1..8
    BY <1>3, <1>4, <1>6, <1>7
  <2>2. PICK k \in 1..s : /\ m < Power[k] /\ num_bytes(m) = k
                          /\ Min({n \in 1..s : m < Power[n]}) = k
                          /\ \A n \in 1..8 : m < Power[n] => k <= n
    BY <2>1, NumBytes
  <2>3. k <= s - 1 /\ k \in 1..(s - 1)
    BY <2>1, <2>2
  <2> QED BY <2>2, <2>3
<1>10. FewestBytes(T, v) = k
  BY <1>1, <1>2, <1>5, <1>6, <1>9, Zenon DEF FewestBytes
<1>11. pack_code(T, v) = 8 + k
  BY <1>1, <1>6, <1>9 DEF pack_code
<1>12. magnitude(T, v) = m
  BY <1>6 DEF magnitude
<1>13. k \in 1..7 /\ k \in 1..16 /\ 8 + k \in Nat /\ 8 + k \in 0..15 /\ ~(8 + k <= 8)
       /\ k \in 1..s /\ k <= s
  BY <1>9
<1>14. BytesOfCode(8 + k) = k /\ (8 + k) % 16 = 8 + k /\ size_of_nibble(8 + k) = k
  BY <1>13, Codes
<1>15. m = m % Power[s] /\ m \in Int /\ m \in Nat
  BY <1>3, <1>8
<1>16. Bytes(T, m) \in Seq(0..(B - 1)) /\ k <= Len(Bytes(T, m))
  BY <1>1, <1>2, <1>13, <1>15, IntegerBytes
<1>17. Cast(T, v) = v
  <2>1. PICK u \in Nat : u = (2 * H) + v /\ u >= H /\ u < 2 * H /\ u - (2 * H) = v
    BY <1>5, <1>6, <1>7
  <2>2. v % (2 * H) = u
    <3>1. v = ((2 * H) * (-1)) + u /\ u \in 0..((2 * H) - 1) /\ 2 * H \in Nat \ {0}
      BY <1>5, <2>1
    <3> QED BY <3>1, ModIs
  <2> QED BY <1>2, <1>3, <2>1, <2>2 DEF Cast
<1>18. ASSUME NEW bytes, bytes = [i \in 1..k |-> bytes[i]],
              \A i \in 1..k : bytes[i] = Bytes(T, m)[i]
       PROVE  unpack_value(T, 8 + k, bytes) = v
  <2>1. DOMAIN bytes = 1..k
    BY <1>18
  <2>2. \A j \in 1..sizeof(T) : \A b :
          DOMAIN b = 1..j /\ (\A i \in 1..j : b[i] = Bytes(T, m)[i]) /\ m < Power[j]
            => Number(b) = m
    BY <1>1, <1>2, <1>15, IntegerBytes
  <2>3. k \in 1..sizeof(T)
    BY <1>2, <1>13
  <2>4. Number(bytes) = m
    BY <1>9, <1>18, <2>1, <2>2, <2>3
  <2> QED BY <1>1, <1>6, <1>13, <1>17, <2>4 DEF unpack_value
<1>19. Packs(T, v, 8 + k, k)
  BY <1>10, <1>11, <1>12, <1>13, <1>14, <1>16, <1>18 DEF Packs
<1> QED BY <1>13, <1>19

\* Every value of every type packs.
LEMMA EveryValuePacks ==
  ASSUME NEW T \in Types, NEW v \in Representable(T)
  PROVE  \E code \in Nat, k \in 1..16 : Packs(T, v, code, k)
<1>1. CASE T \in Floating
  BY <1>1, PacksFloating
<1>2. CASE T \in Unsigned
  BY <1>2, PacksUnsigned
<1>3. CASE T \in Signed
  <2>1. CASE v >= 0
    BY <1>3, <2>1, PacksNotNegative
  <2>2. CASE v < 0 /\ IsSmallNegative(T, v)
    BY <1>3, <2>2, PacksSmallNegative
  <2>3. CASE v < 0 /\ ~IsSmallNegative(T, v)
    BY <1>3, <2>3, PacksLargeNegative
  <2>4. v >= 0 \/ v < 0
    <3>1. T \in Types /\ T \notin Floating /\ T \notin Unsigned
      BY <1>3, TypeFacts
    <3>2. PICK s \in 1..8 : s = sizeof(T)
      BY <3>1, TypeFacts
    <3>3. PICK H \in Nat \ {0} : Power[s] \div 2 = H
      BY Halves
    <3>4. v \in -H..(H - 1)
      BY <1>3, <3>1, <3>2, <3>3 DEF Representable
    <3> QED BY <3>4
  <2> QED BY <2>1, <2>2, <2>3, <2>4
<1> QED BY <1>1, <1>2, <1>3, TypeFacts

-----------------------------------------------------------------------------
(* The packages in the buffer.                                             *)

\* A byte, a value of some type, and a value with its type.
ByteValues == 0..(B - 1)
AnyValue == UNION {Representable(T) : T \in Types}
Package == {p \in [type : Types, value : AnyValue] : p.value \in Representable(p.type)}

\* What memcpy() copies of a package, and how much of it counts.
Content(p) == Bytes(p.type, magnitude(p.type, p.value))
Size(p) == BytesOfCode(pack_code(p.type, p.value))

\* Package k lies between the offsets off[k - 1] and off[k].  What was copied
\* beyond its size is overwritten by the next one.
Layout(off) ==
  /\ off \in [0..Len(packed) -> Nat]
  /\ off[0] = 0 /\ off[Len(packed)] = buffer /\ off[Len(unpacked)] = data_array
  /\ \A k \in 1..Len(packed) :
       /\ off[k] = off[k - 1] + Size(packed[k]) /\ off[k] <= buffer
       /\ \A j \in 1..Size(packed[k]) : memory[off[k - 1] + j] = Content(packed[k])[j]

PackInv ==
  /\ memory \in Seq(ByteValues) /\ buffer \in Nat /\ buffer <= Len(memory)
  /\ packed \in Seq(Package) /\ nibbles \in Seq(0..15) /\ unpacked \in Seq(AnyValue)
  /\ Len(nibbles) = Len(packed) /\ Len(unpacked) <= Len(packed)
  /\ \A k \in 1..Len(packed) :
       nibbles[k] = pack_code(packed[k].type, packed[k].value) % 16
  /\ RoundTrip
  /\ \E off : Layout(off)

LEMMA PackageFacts ==
  ASSUME NEW p \in Package
  PROVE  /\ p.type \in Types /\ p.value \in AnyValue
         /\ \E code \in Nat, k \in 1..16 : Packs(p.type, p.value, code, k)
<1>1. p.type \in Types /\ p.value \in AnyValue /\ p.value \in Representable(p.type)
  BY DEF Package
<1> QED BY <1>1, EveryValuePacks

\* The size of a package is found in its nibble, and is the least.
LEMMA SizeFacts ==
  ASSUME NEW p \in Package
  PROVE  /\ Size(p) \in 1..16
         /\ Size(p) = FewestBytes(p.type, p.value)
         /\ pack_code(p.type, p.value) % 16 \in 0..15
         /\ size_of_nibble(pack_code(p.type, p.value) % 16) = Size(p)
         /\ Content(p) \in Seq(ByteValues) /\ Size(p) <= Len(Content(p))
         /\ \A bytes :
              /\ bytes = [i \in 1..Size(p) |-> bytes[i]]
              /\ \A i \in 1..Size(p) : bytes[i] = Content(p)[i]
              => unpack_value(p.type, pack_code(p.type, p.value) % 16, bytes) = p.value
<1>1. PICK code \in Nat, k \in 1..16 : Packs(p.type, p.value, code, k)
  BY PackageFacts
<1>2. pack_code(p.type, p.value) = code /\ BytesOfCode(code) = k
  BY <1>1 DEF Packs
<1>3. Size(p) = k
  BY <1>2 DEF Size
<1> QED BY <1>1, <1>2, <1>3, Zenon DEF Packs, Content, ByteValues

LEMMA InitPackInv == PackInit => PackInv
<1> SUFFICES ASSUME PackInit PROVE PackInv
  OBVIOUS
<1>1. Layout([k \in 0..0 |-> 0])
  BY DEF PackInit, Layout
<1>2. RoundTrip
  BY DEF PackInit, RoundTrip
<1> QED BY <1>1, <1>2 DEF PackInit, PackInv

\* What has been stored before an offset stays, and the bytes follow it.
LEMMA StoredIs ==
  ASSUME memory \in Seq(ByteValues), NEW at \in Nat, at <= Len(memory),
         NEW bytes \in Seq(ByteValues)
  PROVE  /\ Stored(at, bytes) \in Seq(ByteValues)
         /\ at + Len(bytes) <= Len(Stored(at, bytes))
         /\ \A i \in 1..at : Stored(at, bytes)[i] = memory[i]
         /\ \A i \in 1..Len(bytes) : Stored(at, bytes)[at + i] = bytes[i]
<1>1. PICK n \in Nat, l \in Nat : n = Len(memory) /\ l = Len(bytes)
  BY LenProperties
<1>2. PICK m \in Nat : /\ m = IF at + l > n THEN at + l ELSE n
                       /\ at + l <= m /\ n <= m
  <2>1. CASE at + l > n
    BY <2>1
  <2>2. CASE ~(at + l > n)
    BY <2>2
  <2> QED BY <2>1, <2>2
<1>3. Stored(at, bytes) = [i \in 1..m |-> IF i > at /\ i <= at + l THEN bytes[i - at]
                                          ELSE memory[i]]
  BY <1>1, <1>2, Zenon DEF Stored
<1>4. \A i \in 1..m : Stored(at, bytes)[i] \in ByteValues
  <2> SUFFICES ASSUME NEW i \in 1..m PROVE Stored(at, bytes)[i] \in ByteValues
    OBVIOUS
  <2>1. CASE i > at /\ i <= at + l
    <3>1. i - at \in 1..l
      BY <2>1
    <3>2. bytes[i - at] \in ByteValues
      BY <1>1, <3>1, ElementOfSeq
    <3> QED BY <1>3, <2>1, <3>2
  <2>2. CASE ~(i > at /\ i <= at + l)
    <3>1. i \in 1..n
      BY <1>1, <1>2, <2>2
    <3>2. memory[i] \in ByteValues
      BY <1>1, <3>1, ElementOfSeq
    <3> QED BY <1>3, <2>2, <3>2
  <2> QED BY <2>1, <2>2
<1>5. Stored(at, bytes) \in Seq(ByteValues) /\ Len(Stored(at, bytes)) = m
  <2>1. Stored(at, bytes) \in [1..m -> ByteValues]
    <3> DEFINE g == [i \in 1..m |-> IF i > at /\ i <= at + l THEN bytes[i - at] ELSE memory[i]]
    <3>1. g = [i \in 1..m |-> g[i]]
      OBVIOUS
    <3>2. Stored(at, bytes) = g
      BY <1>3
    <3> HIDE DEF g
    <3> QED BY <1>4, <3>1, <3>2
  <2>2. PICK s : s = Stored(at, bytes)
    OBVIOUS
  <2>3. s \in Seq(ByteValues)
    BY <2>1, <2>2, SeqDef
  <2>4. DOMAIN s = 1..m /\ DOMAIN s = 1..Len(s) /\ Len(s) \in Nat
    BY <2>1, <2>2, <2>3, LenProperties
  <2>5. Len(s) = m
    BY <2>4
  <2> QED BY <2>2, <2>3, <2>5
<1>6. \A i \in 1..at : Stored(at, bytes)[i] = memory[i]
  <2> SUFFICES ASSUME NEW i \in 1..at PROVE Stored(at, bytes)[i] = memory[i]
    OBVIOUS
  <2>1. i \in 1..m /\ ~(i > at)
    BY <1>1, <1>2
  <2> QED BY <1>3, <2>1
<1>7. \A i \in 1..l : Stored(at, bytes)[at + i] = bytes[i]
  <2> SUFFICES ASSUME NEW i \in 1..l PROVE Stored(at, bytes)[at + i] = bytes[i]
    OBVIOUS
  <2>1. PICK a : a = at + i /\ a \in 1..m /\ a > at /\ a <= at + l /\ a - at = i
    BY <1>2
  <2>2. Stored(at, bytes)[a] = bytes[a - at]
    BY <1>3, <2>1
  <2> QED BY <2>1, <2>2
<1> QED BY <1>1, <1>2, <1>5, <1>6, <1>7

LEMMA PackPackInv ==
  ASSUME PackInv, NEW T \in Types, NEW v \in Values(T), pack(T, v)
  PROVE  PackInv'
<1> DEFINE p == [type |-> T, value |-> v]
           n == Len(packed)
           size == Size(p)
<1>1. v \in Representable(T) /\ p \in Package
  <2>1. v \in Representable(T)
    BY ValuesAssumption
  <2> QED BY <2>1 DEF Package, AnyValue
<1>2. /\ size \in 1..16 /\ pack_code(T, v) % 16 \in 0..15
      /\ Content(p) \in Seq(ByteValues) /\ size <= Len(Content(p))
  <2>1. p.type = T /\ p.value = v
    OBVIOUS
  <2> HIDE DEF p
  <2> QED BY <1>1, <2>1, SizeFacts
<1>3. /\ memory' = Stored(buffer, Content(p)) /\ buffer' = buffer + size
      /\ nibbles' = Append(nibbles, pack_code(T, v) % 16)
      /\ packed' = Append(packed, p)
      /\ data_array' = data_array /\ unpacked' = unpacked /\ unpacked = <<>>
  BY DEF pack, Content, Size
<1>4. p.type = T /\ p.value = v
  OBVIOUS
<1> HIDE DEF p, size
<1>5. n \in Nat /\ Len(packed') = n + 1 /\ packed' \in Seq(Package)
      /\ (\A k \in 1..n : packed'[k] = packed[k]) /\ packed'[n + 1] = p
  BY <1>1, <1>3, AppendProperties, LenProperties DEF PackInv
<1>6. /\ Len(nibbles') = n + 1 /\ nibbles' \in Seq(0..15)
      /\ (\A k \in 1..n : nibbles'[k] = nibbles[k]) /\ nibbles'[n + 1] = pack_code(T, v) % 16
  BY <1>2, <1>3, AppendProperties, LenProperties DEF PackInv
<1>7. \A k \in 1..(n + 1) : nibbles'[k] = pack_code(packed'[k].type, packed'[k].value) % 16
  <2> SUFFICES ASSUME NEW k \in 1..(n + 1)
               PROVE  nibbles'[k] = pack_code(packed'[k].type, packed'[k].value) % 16
    OBVIOUS
  <2>1. CASE k = n + 1
    BY <1>4, <1>5, <1>6, <2>1
  <2>2. CASE k # n + 1
    <3>1. k \in 1..n
      BY <1>5, <2>2
    <3> QED BY <1>5, <1>6, <3>1 DEF PackInv
  <2> QED BY <2>1, <2>2
<1>8. /\ memory' \in Seq(ByteValues) /\ buffer' <= Len(memory') /\ buffer' \in Nat
      /\ \A i \in 1..buffer : memory'[i] = memory[i]
      /\ \A i \in 1..size : memory'[buffer + i] = Content(p)[i]
  <2>1. PICK c \in Seq(ByteValues), m \in Seq(ByteValues) :
          c = Content(p) /\ m = Stored(buffer, c) /\ m = memory'
          /\ buffer + Len(c) <= Len(m)
          /\ (\A i \in 1..buffer : m[i] = memory[i])
          /\ (\A i \in 1..Len(c) : m[buffer + i] = c[i])
    BY <1>2, <1>3, StoredIs DEF PackInv
  <2>2. PICK l \in Nat, w \in Nat : l = Len(c) /\ w = Len(m)
    BY LenProperties
  <2>3. buffer \in Nat /\ buffer + l <= w /\ size <= l /\ size \in 1..16
    BY <1>2, <2>1, <2>2 DEF PackInv
  <2>4. buffer + size \in Nat /\ buffer + size <= w /\ 1..size \subseteq 1..l
    BY <2>3
  <2> QED BY <1>3, <2>1, <2>2, <2>4
<1>9. RoundTrip'
  BY <1>3 DEF RoundTrip
<1>10. \E off : Layout(off)'
  <2>1. PICK off : Layout(off)
    BY DEF PackInv
  <2> DEFINE g == [k \in 0..(n + 1) |-> IF k <= n THEN off[k] ELSE buffer + size]
  <2>2. /\ off \in [0..n -> Nat] /\ off[0] = 0 /\ off[n] = buffer /\ off[0] = data_array
        /\ buffer \in Nat
    BY <1>3, <2>1 DEF Layout, PackInv
  <2>3. /\ \A k \in 0..n : k \in 0..(n + 1) /\ g[k] = off[k]
        /\ g[n + 1] = buffer + size
    BY <1>5
  <2>4. g \in [0..(n + 1) -> Nat]
    <3>1. \A k \in 0..(n + 1) : g[k] \in Nat
      BY <1>2, <1>5, <2>2
    <3> QED BY <3>1
  <2> HIDE DEF g
  <2>5. ASSUME NEW k \in 1..(n + 1)
        PROVE  /\ g[k] = g[k - 1] + Size(packed'[k]) /\ g[k] <= buffer'
               /\ \A j \in 1..Size(packed'[k]) : memory'[g[k - 1] + j] = Content(packed'[k])[j]
    <3>1. CASE k = n + 1
      <4>1. k - 1 = n /\ n \in 0..n /\ g[k - 1] = buffer /\ g[k] = buffer + size
        BY <1>5, <2>2, <2>3, <3>1
      <4>2. packed'[k] = p /\ Size(p) = size
        BY <1>5, <3>1 DEF size
      <4>3. buffer + size \in Nat /\ buffer + size <= buffer'
        BY <1>2, <1>3, <2>2
      <4> QED BY <1>8, <4>1, <4>2, <4>3
    <3>2. CASE k # n + 1
      <4>1. k \in 1..n /\ k \in 0..n /\ k - 1 \in 0..n
        BY <1>5, <3>2
      <4>2. PICK q \in Package, s \in 1..16 : q = packed[k] /\ s = Size(q) /\ q = packed'[k]
        <5>1. packed[k] \in Package
          BY <1>5, <4>1, ElementOfSeq DEF PackInv
        <5>2. Size(packed[k]) \in 1..16
          BY <5>1, SizeFacts
        <5> QED BY <1>5, <4>1, <5>1, <5>2
      <4>3. PICK a \in Nat, b \in Nat : a = off[k - 1] /\ b = off[k]
        BY <2>2, <4>1
      <4>4. b = a + s /\ b <= buffer /\ \A j \in 1..s : memory[a + j] = Content(q)[j]
        BY <2>1, <4>1, <4>2, <4>3 DEF Layout
      <4>5. \A j \in 1..s : a + j \in 1..buffer
        <5>1. PICK end \in Nat : end = buffer /\ a + s <= end
          BY <2>2, <4>4
        <5>2. ASSUME NEW j \in 1..s PROVE a + j \in 1..buffer
          <6>1. a + j <= end /\ a + j >= 1 /\ a + j \in Int
            BY <5>1
          <6>2. a + j \in 1..end
            BY <6>1
          <6> QED BY <5>1, <6>2
        <5> QED BY <5>2
      <4>6. \A j \in 1..s : memory'[a + j] = Content(q)[j]
        BY <1>8, <4>4, <4>5
      <4>7. b <= buffer + size
        BY <1>2, <2>2, <4>4
      <4>8. g[k] = b /\ g[k - 1] = a
        BY <2>3, <4>1, <4>3
      <4> QED BY <1>3, <4>2, <4>4, <4>6, <4>7, <4>8
    <3> QED BY <3>1, <3>2
  <2>6. g[0] = 0 /\ g[n + 1] = buffer' /\ g[Len(unpacked')] = data_array'
    <3>1. 0 \in 0..n /\ Len(unpacked') = 0
      BY <1>3, <1>5, EmptySeq
    <3> QED BY <1>3, <2>2, <2>3, <3>1
  <2>7. PICK h : h = g
    OBVIOUS
  <2>8. Layout(h)'
    BY <1>5, <2>4, <2>5, <2>6, <2>7 DEF Layout
  <2> QED BY <2>8
<1>11. Len(unpacked') <= Len(packed') /\ unpacked' \in Seq(AnyValue)
  BY <1>3, <1>5, EmptySeq
<1> QED BY <1>5, <1>6, <1>7, <1>8, <1>9, <1>10, <1>11 DEF PackInv

\* The bytes between two offsets are those of a package.
LEMMA UnpackPackInv ==
  ASSUME PackInv, unpack
  PROVE  PackInv'
<1>1. PICK n \in Nat, d \in Nat : n = Len(packed) /\ d = Len(unpacked) /\ d < n
  BY LenProperties DEF PackInv, unpack
<1>2. PICK k \in 1..n : k = d + 1
  BY <1>1
<1>3. PICK off : Layout(off)
  BY DEF PackInv
<1>4. PICK p \in Package, s \in 1..16 : p = packed[k] /\ s = Size(p)
  <2>1. packed[k] \in Package
    BY <1>1, ElementOfSeq DEF PackInv
  <2>2. Size(packed[k]) \in 1..16
    BY <2>1, SizeFacts
  <2> QED BY <2>1, <2>2
<1>5. PICK a \in Nat, b \in Nat : /\ a = off[k - 1] /\ b = off[k] /\ a = data_array
                                  /\ b = a + s /\ b <= buffer
                                  /\ \A j \in 1..s : memory[a + j] = Content(p)[j]
  <2>1. k - 1 \in 0..n /\ k \in 0..n /\ k - 1 = d
    BY <1>2
  <2> QED BY <1>1, <1>3, <1>4, <2>1 DEF Layout
<1>6. nibbles[k] = pack_code(p.type, p.value) % 16
  BY <1>1, <1>4 DEF PackInv
<1>7. size_of_nibble(nibbles[k]) = s
  BY <1>4, <1>6, SizeFacts
<1> DEFINE bytes == SubSeq(memory, a + 1, a + s)
<1>8. bytes = [i \in 1..s |-> bytes[i]] /\ \A i \in 1..s : bytes[i] = Content(p)[i]
  <2>1. PICK m \in Seq(ByteValues) : m = memory /\ a + s <= Len(m) /\ Len(m) \in Nat
    BY <1>5, LenProperties DEF PackInv
  <2>2. a + 1 \in 1..(Len(m) + 1) /\ a + s \in ((a + 1) - 1)..Len(m)
        /\ ((a + s) - (a + 1)) + 1 = s
    BY <2>1
  <2>3. /\ bytes \in Seq(ByteValues) /\ Len(bytes) = s
        /\ \A i \in 1..s : bytes[i] = m[(a + 1) + i - 1]
    <3>1. \A i \in (a + 1)..(a + s) : m[i] \in ByteValues
      <4>1. \A i \in (a + 1)..(a + s) : i \in 1..Len(m)
        BY <2>1
      <4> QED BY <4>1, ElementOfSeq
    <3>2. PICK x \in Int, y \in Int : x = a + 1 /\ y = a + s /\ x <= y /\ (y - x) + 1 = s
      BY <2>2
    <3>3. /\ SubSeq(m, x, y) \in Seq(ByteValues) /\ Len(SubSeq(m, x, y)) = s
          /\ \A i \in 1..s : SubSeq(m, x, y)[i] = m[x + i - 1]
      BY <3>1, <3>2, SubSeqProperties
    <3> QED BY <2>1, <3>2, <3>3
  <2> HIDE DEF bytes
  <2>4. \A i \in 1..s : (a + 1) + i - 1 = a + i
    OBVIOUS
  <2>5. \A i \in 1..s : bytes[i] = Content(p)[i]
    BY <1>5, <2>1, <2>3, <2>4
  <2>6. bytes = [i \in 1..s |-> bytes[i]]
    BY <2>3
  <2> QED BY <2>5, <2>6
<1>9. unpack_value(p.type, nibbles[k], bytes) = p.value
  <2> HIDE DEF bytes
  <2>1. \A c : /\ c = [i \in 1..s |-> c[i]]
               /\ \A i \in 1..s : c[i] = Content(p)[i]
               => unpack_value(p.type, nibbles[k], c) = p.value
    <3>1. \A c : /\ c = [i \in 1..Size(p) |-> c[i]]
                 /\ \A i \in 1..Size(p) : c[i] = Content(p)[i]
                 => unpack_value(p.type, pack_code(p.type, p.value) % 16, c) = p.value
      BY SizeFacts
    <3> QED BY <1>4, <1>6, <3>1, Zenon
  <2> QED BY <1>8, <2>1
<1>10. unpacked' = Append(unpacked, p.value) /\ data_array' = b
       /\ memory' = memory /\ buffer' = buffer /\ nibbles' = nibbles /\ packed' = packed
  BY <1>1, <1>2, <1>4, <1>5, <1>7, <1>9 DEF unpack
<1> HIDE DEF bytes
<1>11. /\ unpacked' \in Seq(AnyValue) /\ Len(unpacked') = k
       /\ (\A i \in 1..d : unpacked'[i] = unpacked[i]) /\ unpacked'[k] = p.value
  BY <1>1, <1>2, <1>10, PackageFacts, AppendProperties DEF PackInv
<1>12. RoundTrip'
  <2>1. DOMAIN unpacked' = 1..k /\ DOMAIN unpacked = 1..d
    BY <1>1, <1>11, LenProperties DEF PackInv
  <2>2. ASSUME NEW i \in 1..k PROVE unpacked'[i] = packed[i].value
    <3>1. CASE i = k
      BY <1>4, <1>11, <3>1
    <3>2. CASE i # k
      <4>1. i \in 1..d
        BY <1>2, <3>2
      <4> QED BY <1>11, <2>1, <4>1 DEF PackInv, RoundTrip
    <3> QED BY <3>1, <3>2
  <2> QED BY <1>10, <2>1, <2>2 DEF RoundTrip
<1>13. Layout(off)'
  <2>1. off[Len(unpacked')] = data_array'
    BY <1>5, <1>10, <1>11
  <2> QED BY <1>3, <1>10, <2>1 DEF Layout
<1>14. Len(unpacked') <= Len(packed')
  BY <1>1, <1>10, <1>11
<1> QED BY <1>10, <1>11, <1>12, <1>13, <1>14 DEF PackInv

LEMMA NextPackInv == PackInv /\ [PackNext]_packVars => PackInv'
<1> SUFFICES ASSUME PackInv, [PackNext]_packVars PROVE PackInv'
  OBVIOUS
<1>1. CASE \E T \in Types : \E v \in Values(T) : pack(T, v)
  BY <1>1, PackPackInv
<1>2. CASE unpack
  BY <1>2, UnpackPackInv
<1>3. CASE UNCHANGED packVars
  <2>1. RoundTrip'
    BY <1>3 DEF PackInv, RoundTrip, packVars
  <2>2. PICK off : Layout(off)
    BY DEF PackInv
  <2>3. Layout(off)'
    BY <1>3, <2>2 DEF Layout, packVars
  <2> QED BY <1>3, <2>1, <2>3 DEF PackInv, packVars
<1> QED BY <1>1, <1>2, <1>3 DEF PackNext

\* The invariant of the buffer of packages: whatever values of whatever types
\* are packed, each package has its own bytes, as many as its nibble says, and
\* unpack() has come to the beginning of one (pack, unpack).
THEOREM PackInvariant == PackSpec => []PackInv
<1>1. PackInit => PackInv
  BY InitPackInv
<1>2. PackInv /\ [PackNext]_packVars => PackInv'
  BY NextPackInv
<1> QED BY <1>1, <1>2, PTL DEF PackSpec

\* The values unpacked are the values packed, in the same order: for every
\* value of every type, not only at the ends of their ranges, any width of a
\* byte and any number of packages (pack, unpack).
THEOREM PackagesComeBack == PackSpec => []RoundTrip
<1>1. PackInv => RoundTrip
  BY DEF PackInv
<1> QED BY <1>1, PackInvariant, PTL

\* The offsets are the sums of the sizes, written and found in the nibbles.
LEMMA LayoutIsMinimal == PackInv => PackageIsMinimal
<1> SUFFICES ASSUME PackInv PROVE PackageIsMinimal
  OBVIOUS
<1>1. PICK n \in Nat : /\ n = Len(packed) /\ n = Len(nibbles)
                       /\ DOMAIN packed = 1..n /\ DOMAIN nibbles = 1..n
  BY LenProperties DEF PackInv
<1>2. PICK off : Layout(off)
  BY DEF PackInv
<1>3. off[0] = 0 /\ off[n] = buffer /\ \A k \in 1..n : off[k] = off[k - 1] + Size(packed[k])
  BY <1>1, <1>2 DEF Layout
<1>4. \A k \in 1..n : /\ FewestBytes(packed[k].type, packed[k].value) = Size(packed[k])
                      /\ size_of_nibble(nibbles[k]) = Size(packed[k])
  <2> SUFFICES ASSUME NEW k \in 1..n
               PROVE  /\ FewestBytes(packed[k].type, packed[k].value) = Size(packed[k])
                      /\ size_of_nibble(nibbles[k]) = Size(packed[k])
    OBVIOUS
  <2>1. PICK p \in Package : p = packed[k]
    BY <1>1, ElementOfSeq DEF PackInv
  <2>2. nibbles[k] = pack_code(p.type, p.value) % 16
    BY <1>1, <2>1 DEF PackInv
  <2> QED BY <2>1, <2>2, SizeFacts
<1>5. ASSUME NEW ns, ns = [k \in 1..n |-> ns[k]], \A k \in 1..n : ns[k] = Size(packed[k])
      PROVE  Total(ns) = buffer
  <2>1. Len(ns) = n
    BY <1>5
  <2>2. \A k \in 1..n : off[k] = off[k - 1] + ns[k]
    BY <1>3, <1>5
  <2>3. Total(ns) = off[n]
    BY <1>3, <2>1, <2>2, TotalIs
  <2> QED BY <1>3, <2>3
<1>6. Total([k \in DOMAIN packed |-> FewestBytes(packed[k].type, packed[k].value)]) = buffer
  <2>1. PICK ns : ns = [k \in 1..n |-> FewestBytes(packed[k].type, packed[k].value)]
    OBVIOUS
  <2>2. ns = [k \in 1..n |-> ns[k]] /\ \A k \in 1..n : ns[k] = Size(packed[k])
    BY <1>4, <2>1
  <2> QED BY <1>1, <1>5, <2>1, <2>2
<1>7. get_size_of_package(nibbles) = buffer
  <2>1. PICK ns : ns = [k \in 1..n |-> size_of_nibble(nibbles[k])]
    OBVIOUS
  <2>2. ns = [k \in 1..n |-> ns[k]] /\ \A k \in 1..n : ns[k] = Size(packed[k])
    BY <1>4, <2>1
  <2>3. get_size_of_package(nibbles) = Total(ns)
    BY <1>1, <2>1, Zenon DEF get_size_of_package
  <2> QED BY <1>5, <2>2, <2>3
<1> QED BY <1>6, <1>7 DEF PackageIsMinimal

\* No package takes more bytes than its value needs without its sign, and
\* get_size_of_package() finds in the nibbles the number of bytes that pack()
\* has written.
THEOREM PackagesAreMinimal == PackSpec => []PackageIsMinimal
<1>1. PackInv => PackageIsMinimal
  BY LayoutIsMinimal
<1> QED BY <1>1, PackInvariant, PTL
=============================================================================
