-------------------------- MODULE HttpParserProofs --------------------------
(***************************************************************************)
(* However the bytes of a request are cut, whatever they are: a pass of    *)
(* handle_read() has one of the outcomes that HttpStages promises to       *)
(* Connection; and if the request is well-formed, the parser waits for the *)
(* rest of it or has analysed or refused it, no earlier than its headers   *)
(* have arrived, and what it stores under a name of the request is the     *)
(* value the request gives it.  A request that arrives in one piece is     *)
(* understood: its method, its name and its headers are those of the       *)
(* request.                                                                *)
(***************************************************************************)
EXTENDS HttpParser, SequenceLemmas

-----------------------------------------------------------------------------
(* The tokens of a request.                                                *)

LEMMA TokenFacts ==
  /\ "GET" \in Tokens /\ "POST" \in Tokens /\ "HEAD" \in Tokens
  /\ "SP" \in Tokens /\ "/" \in Tokens /\ "HTTP" \in Tokens
  /\ "1.0" \in Tokens /\ "1.1" \in Tokens
  /\ "CR" \in Tokens /\ "LF" \in Tokens /\ ":" \in Tokens
  /\ "junk" \notin Tokens
BY InputsAssumption

\* What stands where in s \o t, and in s with two tokens behind it.
LEMMA ConcatIs ==
  ASSUME NEW S, NEW s \in Seq(S), NEW t \in Seq(S), NEW d, d = s \o t
  PROVE  /\ d \in Seq(S) /\ Len(d) = Len(s) + Len(t)
         /\ Len(s) \in Nat /\ Len(t) \in Nat
         /\ \A j \in 1..Len(s) : d[j] = s[j]
         /\ \A j \in 1..Len(t) : d[Len(s) + j] = t[j]
<1>1. Len(s) \in Nat /\ Len(t) \in Nat
  BY LenProperties
<1>2. s \o t \in Seq(S) /\ Len(s \o t) = Len(s) + Len(t)
  BY ConcatProperties
<1>3. \A j \in 1..Len(s) : (s \o t)[j] = s[j]
  BY <1>1
<1>4. \A j \in 1..Len(t) : (s \o t)[Len(s) + j] = t[j]
  BY <1>1
<1> QED BY <1>1, <1>2, <1>3, <1>4

LEMMA PairIs ==
  ASSUME NEW S, NEW s \in Seq(S), NEW x \in S, NEW y \in S, NEW t, t = s \o <<x, y>>
  PROVE  /\ t \in Seq(S) /\ Len(t) = Len(s) + 2
         /\ \A j \in 1..Len(s) : t[j] = s[j]
         /\ t[Len(s) + 1] = x /\ t[Len(s) + 2] = y
<1>1. PICK p : p = <<x, y>>
  OBVIOUS
<1>2. p \in Seq(S) /\ Len(p) = 2 /\ p[1] = x /\ p[2] = y
  BY <1>1
<1>3. t = s \o p
  BY <1>1
<1>4. /\ t \in Seq(S) /\ Len(t) = Len(s) + Len(p) /\ Len(s) \in Nat
      /\ \A j \in 1..Len(s) : t[j] = s[j]
      /\ \A j \in 1..Len(p) : t[Len(s) + j] = p[j]
  BY <1>2, <1>3, ConcatIs
<1> QED BY <1>2, <1>4

\* The parts of a header, by position.
HeaderParts(e, k, v, s) ==
  /\ k \in Nat \ {0} /\ v \in Nat \ {0}
  /\ k = Len(e[1]) /\ v = Len(e[2])
  /\ s \in Seq(Tokens) /\ Len(s) = k + v + 4
  /\ \A j \in 1..k : s[j] = e[1][j] /\ s[j] \notin {"CR", "LF", ":", "SP"}
  /\ s[k + 1] = ":" /\ s[k + 2] = "SP"
  /\ \A j \in 1..v : s[k + 2 + j] = e[2][j] /\ s[k + 2 + j] \notin {"CR", "LF"}
  /\ s[k + v + 3] = "CR" /\ s[k + v + 4] = "LF"

\* A name and a value hold nothing that ends them.
LEMMA PlainText ==
  ASSUME NEW a \in Seq(Text \ {":", "SP"}), NEW b \in Seq(Text), a # <<>>, b # <<>>
  PROVE  /\ a \in Seq(Tokens) /\ b \in Seq(Tokens)
         /\ Len(a) \in Nat \ {0} /\ Len(b) \in Nat \ {0}
         /\ \A j \in 1..Len(a) : a[j] \notin {"CR", "LF", ":", "SP"}
         /\ \A j \in 1..Len(b) : b[j] \notin {"CR", "LF"}
<1>1. Len(a) \in Nat /\ Len(b) \in Nat /\ Len(a) # 0 /\ Len(b) # 0
  BY LenProperties, EmptySeq
<1>2. \A j \in 1..Len(a) : a[j] \in Text \ {":", "SP"}
  BY ElementOfSeq
<1>3. \A j \in 1..Len(b) : b[j] \in Text
  BY ElementOfSeq
<1>4. Text \ {":", "SP"} \subseteq Tokens /\ Text \subseteq Tokens
  BY DEF Text
<1>5. a \in Seq(Tokens) /\ b \in Seq(Tokens)
  BY <1>4, SeqMonotonic
<1>6. \A t \in Text : t \notin {"CR", "LF"}
  BY DEF Text
<1> QED BY <1>1, <1>2, <1>3, <1>5, <1>6

LEMMA PlainParts ==
  ASSUME NEW e, PlainHeader(e)
  PROVE  \E a, b \in Seq(Tokens) :
           /\ e[1] = a /\ e[2] = b
           /\ Len(a) \in Nat \ {0} /\ Len(b) \in Nat \ {0}
           /\ \A j \in 1..Len(a) : a[j] \notin {"CR", "LF", ":", "SP"}
           /\ \A j \in 1..Len(b) : b[j] \notin {"CR", "LF"}
<1>1. PICK a \in Seq(Text \ {":", "SP"}), b \in Seq(Text) :
        e[1] = a /\ e[2] = b /\ a # <<>> /\ b # <<>>
  BY DEF PlainHeader
<1> QED BY <1>1, PlainText

\* The text of a header has these parts.
LEMMA HeaderHasParts ==
  ASSUME NEW e, PlainHeader(e)
  PROVE  HeaderParts(e, Len(e[1]), Len(e[2]), Header(e))
<1>1. PICK a, b \in Seq(Tokens) :
           /\ e[1] = a /\ e[2] = b
           /\ Len(a) \in Nat \ {0} /\ Len(b) \in Nat \ {0}
           /\ \A j \in 1..Len(a) : a[j] \notin {"CR", "LF", ":", "SP"}
           /\ \A j \in 1..Len(b) : b[j] \notin {"CR", "LF"}
  BY PlainParts
<1>2. PICK x, y, z, w : x = ":" /\ y = "SP" /\ z = "CR" /\ w = "LF"
  OBVIOUS
<1>3. x \in Tokens /\ y \in Tokens /\ z \in Tokens /\ w \in Tokens
  BY <1>2, TokenFacts
<1>4. PICK c : c = a \o <<x, y>>
  OBVIOUS
<1>5. PICK d : d = c \o b
  OBVIOUS
<1>6. PICK s : s = d \o <<z, w>>
  OBVIOUS
<1>7. Header(e) = s
  BY <1>1, <1>2, <1>4, <1>5, <1>6, Zenon DEF Header
<1>8. PICK k, v : k = Len(a) /\ v = Len(b) /\ k \in Nat \ {0} /\ v \in Nat \ {0}
  BY <1>1
<1>9. /\ c \in Seq(Tokens) /\ Len(c) = k + 2
      /\ \A j \in 1..k : c[j] = a[j]
      /\ c[k + 1] = x /\ c[k + 2] = y
  BY <1>3, <1>4, <1>8, PairIs
<1>10. /\ d \in Seq(Tokens) /\ Len(d) = Len(c) + v
       /\ \A j \in 1..Len(c) : d[j] = c[j]
       /\ \A j \in 1..v : d[Len(c) + j] = b[j]
  <2>1. c \in Seq(Tokens)
    BY <1>9
  <2>2. /\ d \in Seq(Tokens) /\ Len(d) = Len(c) + Len(b)
        /\ \A j \in 1..Len(c) : d[j] = c[j]
        /\ \A j \in 1..Len(b) : d[Len(c) + j] = b[j]
    BY <1>5, <2>1, ConcatIs
  <2> QED BY <1>8, <2>2
<1>11. /\ s \in Seq(Tokens) /\ Len(s) = Len(d) + 2
       /\ \A j \in 1..Len(d) : s[j] = d[j]
       /\ s[Len(d) + 1] = z /\ s[Len(d) + 2] = w
  BY <1>3, <1>6, <1>10, PairIs
<1>12. Len(c) = k + 2 /\ Len(d) = k + v + 2 /\ Len(s) = k + v + 4
  BY <1>8, <1>9, <1>10, <1>11
<1>13. \A j \in 1..(k + 2) : s[j] = c[j]
  BY <1>8, <1>10, <1>11, <1>12
<1>14. \A j \in 1..k : s[j] = a[j]
  BY <1>8, <1>9, <1>13
<1>15. s[k + 1] = x /\ s[k + 2] = y
  BY <1>8, <1>9, <1>13
<1>16. \A j \in 1..v : s[k + 2 + j] = b[j]
  BY <1>8, <1>10, <1>11, <1>12
<1>17. s[k + v + 3] = z /\ s[k + v + 4] = w
  BY <1>8, <1>11, <1>12
<1>19. HeaderParts(e, k, v, s)
  <2>1. \A j \in 1..k : s[j] = e[1][j] /\ s[j] \notin {"CR", "LF", ":", "SP"}
    BY <1>1, <1>8, <1>14
  <2>2. \A j \in 1..v : s[k + 2 + j] = e[2][j] /\ s[k + 2 + j] \notin {"CR", "LF"}
    BY <1>1, <1>8, <1>16
  <2>3. k = Len(e[1]) /\ v = Len(e[2])
    BY <1>1, <1>8
  <2> QED BY <1>1, <1>2, <1>8, <1>11, <1>12, <1>15, <1>17, <2>1, <2>2, <2>3
           DEF HeaderParts
<1> QED BY <1>1, <1>7, <1>8, <1>19

\* If the separator ": " stands in front of p, it is part of a value: there is
\* another colon in front of it in the line.
InAValue(T, p) ==
  p > 2 /\ T[p - 2] = ":" /\ T[p - 1] = "SP" =>
    \E d \in 1..(p - 3) : T[d] = ":" /\ \A x \in d..(p - 1) : T[x] # "LF"

\* The k first tokens of s stand in G behind n.
Stands(s, k, G, n) ==
  k \in Nat /\ n \in Nat /\ \A j \in 1..k : G[n + j] = s[j]

LEMMA InAValueShift ==
  ASSUME NEW s, NEW k, NEW G, NEW n, Stands(s, k, G, n),
         NEW p \in 3..k, InAValue(s, p), NEW q, q = n + p
  PROVE  InAValue(G, q)
<1> SUFFICES ASSUME G[q - 2] = ":", G[q - 1] = "SP"
             PROVE  \E d \in 1..(q - 3) : G[d] = ":" /\ \A x \in d..(q - 1) : G[x] # "LF"
  BY DEF InAValue
<1>0. k \in Nat /\ n \in Nat /\ \A j \in 1..k : G[n + j] = s[j]
  BY DEF Stands
<1> USE <1>0
<1>1. /\ p - 2 \in 1..k /\ p - 1 \in 1..k /\ n + (p - 2) = q - 2 /\ n + (p - 1) = q - 1
  OBVIOUS
<1>2. s[p - 2] = ":" /\ s[p - 1] = "SP"
  BY <1>1
<1>3. PICK d \in 1..(p - 3) : s[d] = ":" /\ \A x \in d..(p - 1) : s[x] # "LF"
  BY <1>2 DEF InAValue
<1>4. n + d \in 1..(q - 3) /\ G[n + d] = ":"
  BY <1>3
<1>5. ASSUME NEW x \in (n + d)..(q - 1) PROVE G[x] # "LF"
  <2>1. x - n \in 1..k /\ n + (x - n) = x /\ x - n \in d..(p - 1)
    OBVIOUS
  <2> QED BY <1>3, <2>1
<1> QED BY <1>4, <1>5

\* Where a header ends.
HeaderEnds(s) ==
  /\ s \in Seq(Tokens) /\ Len(s) \in Nat /\ Len(s) >= 6
  /\ \A q \in 1..Len(s) : (s[q] = "CR" <=> q = Len(s) - 1) /\ (s[q] = "LF" <=> q = Len(s))
  /\ InAValue(s, Len(s) - 1) /\ s[1] # "SP"

LEMMA HeaderHasEnds ==
  ASSUME NEW e, PlainHeader(e)
  PROVE  HeaderEnds(Header(e))
<1>1. PICK k, v, s : s = Header(e) /\ HeaderParts(e, k, v, s)
  BY HeaderHasParts
<1>2. /\ k \in Nat \ {0} /\ v \in Nat \ {0} /\ Len(s) = k + v + 4
      /\ s \in Seq(Tokens)
  BY <1>1 DEF HeaderParts
<1>3. ASSUME NEW q \in 1..Len(s)
      PROVE  (s[q] = "CR" <=> q = Len(s) - 1) /\ (s[q] = "LF" <=> q = Len(s))
  <2>1. CASE q \in 1..k
    <3>1. s[q] \notin {"CR", "LF", ":", "SP"}
      BY <1>1, <2>1 DEF HeaderParts
    <3> QED BY <3>1, <2>1, <1>2
  <2>2. CASE q = k + 1
    <3>1. s[q] = ":"
      BY <1>1, <2>2 DEF HeaderParts
    <3> QED BY <3>1, <2>2, <1>2
  <2>3. CASE q = k + 2
    <3>1. s[q] = "SP"
      BY <1>1, <2>3 DEF HeaderParts
    <3> QED BY <3>1, <2>3, <1>2
  <2>4. CASE q - (k + 2) \in 1..v
    <3>1. \A j \in 1..v : s[k + 2 + j] \notin {"CR", "LF"}
      BY <1>1 DEF HeaderParts
    <3>2. k + 2 + (q - (k + 2)) = q
      BY <1>2
    <3>3. s[q] \notin {"CR", "LF"}
      BY <2>4, <3>1, <3>2
    <3> QED BY <3>3, <2>4, <1>2
  <2>5. CASE q = k + v + 3
    <3>1. s[q] = "CR"
      BY <1>1, <2>5 DEF HeaderParts
    <3> QED BY <3>1, <2>5, <1>2
  <2>6. CASE q = k + v + 4
    <3>1. s[q] = "LF"
      BY <1>1, <2>6 DEF HeaderParts
    <3> QED BY <3>1, <2>6, <1>2
  <2> QED BY <1>2, <2>1, <2>2, <2>3, <2>4, <2>5, <2>6
<1>4. s[1] # "SP"
  <2>1. 1 \in 1..k
    BY <1>2
  <2> QED BY <1>1, <2>1 DEF HeaderParts
<1>5. InAValue(s, Len(s) - 1)
  <2>1. /\ Len(s) - 1 - 2 = k + v + 1 /\ Len(s) - 1 - 3 = k + v
        /\ Len(s) - 1 - 1 = k + v + 2 /\ k + 1 \in 1..(k + v)
    BY <1>2
  <2>2. s[k + 1] = ":" /\ s[k + 2] = "SP"
    BY <1>1 DEF HeaderParts
  <2>3. \A x \in (k + 1)..(k + v + 2) : s[x] # "LF"
    BY <1>2, <1>3
  <2> QED BY <2>1, <2>2, <2>3 DEF InAValue
<1> QED BY <1>1, <1>2, <1>3, <1>4, <1>5 DEF HeaderEnds

-----------------------------------------------------------------------------
(* The headers of a request, one after the other.                          *)

HeaderLines(headers) == FlattenSeq([k \in DOMAIN headers |-> Header(headers[k])])

\* Behind position p of T, and up to the end of the headers, stands e.
HeaderAt(T, end, p, e) ==
  /\ p + Len(Header(e)) <= end
  /\ \A j \in 1..Len(Header(e)) : T[p + j] = Header(e)[j]

Lines(F, H) ==
  /\ Len(F) \in Nat
  /\ \/ Len(F) = 0
     \/ /\ Len(F) >= 6 /\ F[Len(F) - 1] = "CR" /\ F[Len(F)] = "LF"
        /\ F[1] \notin {"CR", "LF", "SP"}
  /\ \A p \in 1..(Len(F) - 1) : F[p] = "CR" <=> F[p + 1] = "LF"
  /\ \A p \in 2..Len(F) : F[p] = "CR" => F[p - 1] # "LF"
  /\ \A p \in 3..Len(F) : F[p] = "CR" => InAValue(F, p)
  /\ \A p \in 0..(Len(F) - 1) :
       p = 0 \/ F[p] = "LF" => \E e \in H : HeaderAt(F, Len(F), p, e)

\* G is F with s behind it.
Joined(F, s, G) ==
  /\ Len(F) \in Nat /\ Len(s) \in Nat /\ Len(G) = Len(F) + Len(s)
  /\ \A j \in 1..Len(F) : G[j] = F[j]
  /\ \A j \in 1..Len(s) : G[Len(F) + j] = s[j]

\* A header behind lines makes lines again.
LEMMA LinesAppend ==
  ASSUME NEW F, NEW H, Lines(F, H), NEW e \in H, NEW s, s = Header(e), HeaderEnds(s),
         NEW G, Joined(F, s, G)
  PROVE  Lines(G, H)
<1>0. PICK n \in Nat, k \in Nat : n = Len(F) /\ k = Len(s)
  BY DEF Joined
<1>1. /\ Len(G) = n + k
      /\ \A j \in 1..n : G[j] = F[j]
      /\ \A j \in 1..k : G[n + j] = s[j]
  BY <1>0 DEF Joined
<1> USE <1>0, <1>1
<1>2. k >= 6 /\ (n = 0 \/ n >= 6)
  BY DEF Lines, HeaderEnds
<1>4. \A q \in 1..k : (G[n + q] = "CR" <=> q = k - 1) /\ (G[n + q] = "LF" <=> q = k)
  BY DEF HeaderEnds
<1>5. \A p \in (n + 1)..(n + k) :
        (G[p] = "CR" <=> p = n + k - 1) /\ (G[p] = "LF" <=> p = n + k)
  <2> SUFFICES ASSUME NEW p \in (n + 1)..(n + k)
               PROVE  (G[p] = "CR" <=> p = n + k - 1) /\ (G[p] = "LF" <=> p = n + k)
    OBVIOUS
  <2>1. p - n \in 1..k /\ n + (p - n) = p
    BY <1>2
  <2>2. (G[n + (p - n)] = "CR" <=> p - n = k - 1) /\ (G[n + (p - n)] = "LF" <=> p - n = k)
    BY <1>4, <2>1
  <2> QED BY <1>2, <2>1, <2>2
<1>6. G[n + 1] \notin {"CR", "LF", "SP"}
  <2>1. 1 \in 1..k /\ 1 # k /\ 1 # k - 1
    BY <1>2
  <2>2. G[n + 1] = s[1] /\ s[1] # "SP"
    BY <2>1 DEF HeaderEnds
  <2> QED BY <1>4, <2>1, <2>2
<1>11. ASSUME NEW p \in 3..(n + k), G[p] = "CR" PROVE InAValue(G, p)
  <2>1. CASE p \in 3..n
    <3>1. F[p] = "CR" => InAValue(F, p)
      BY <2>1 DEF Lines
    <3>2. G[p] = F[p]
      BY <2>1
    <3>3. PICK z \in Nat : z = 0
      OBVIOUS
    <3>4. p = z + p /\ Stands(F, n, G, z)
      BY <3>3 DEF Stands
    <3> QED BY <1>11, <2>1, <3>1, <3>2, <3>4, InAValueShift
  <2>2. CASE p > n
    <3>1. p = n + k - 1
      <4>1. p \in (n + 1)..(n + k)
        BY <1>2, <2>2
      <4> QED BY <1>5, <1>11, <4>1
    <3>2. PICK q \in Nat : q = k - 1
      BY <1>2
    <3>3. q \in 3..k /\ p = n + q
      BY <1>2, <3>1, <3>2
    <3>4. InAValue(s, q)
      BY <3>2 DEF HeaderEnds
    <3>5. Stands(s, k, G, n)
      BY DEF Stands
    <3> QED BY <3>3, <3>4, <3>5, InAValueShift
  <2> QED BY <1>2, <2>1, <2>2
<1>7. /\ Len(G) >= 6 /\ G[Len(G) - 1] = "CR" /\ G[Len(G)] = "LF"
      /\ G[1] \notin {"CR", "LF", "SP"}
  <2>1. Len(G) >= 6 /\ G[Len(G) - 1] = "CR" /\ G[Len(G)] = "LF"
    <3>1. PICK x \in Nat, y \in Nat : x = n + k - 1 /\ y = n + k
      BY <1>2
    <3>2. x \in (n + 1)..(n + k) /\ y \in (n + 1)..(n + k) /\ y >= 6 /\ y - 1 = x
      BY <1>2, <3>1
    <3>3. G[x] = "CR" /\ G[y] = "LF"
      BY <1>5, <3>1, <3>2
    <3>4. Len(G) = y
      BY <3>1
    <3> QED BY ONLY <3>2, <3>3, <3>4
  <2>2. CASE n = 0
    BY <1>2, <1>6, <2>1, <2>2
  <2>3. CASE n # 0
    <3>1. F[1] \notin {"CR", "LF", "SP"}
      BY <2>3 DEF Lines
    <3>2. G[1] = F[1]
      BY <1>2, <2>3
    <3> QED BY <2>1, <3>1, <3>2
  <2> QED BY <2>2, <2>3
<1>8. ASSUME NEW p \in 1..(n + k - 1) PROVE G[p] = "CR" <=> G[p + 1] = "LF"
  <2>1. CASE p \in 1..(n - 1)
    <3>1. F[p] = "CR" <=> F[p + 1] = "LF"
      BY <2>1 DEF Lines
    <3>2. G[p] = F[p] /\ G[p + 1] = F[p + 1]
      BY <1>2, <2>1
    <3> QED BY <3>1, <3>2
  <2>2. CASE p = n
    <3>1. F[n] = "LF" /\ G[n] = F[n]
      BY <1>2, <2>2 DEF Lines
    <3>2. G[n + 1] # "LF"
      BY <1>6
    <3> QED BY <2>2, <3>1, <3>2
  <2>3. CASE p \in (n + 1)..(n + k - 1)
    BY <1>2, <1>5, <2>3
  <2> QED BY <1>2, <2>1, <2>2, <2>3
<1>9. ASSUME NEW p \in 2..(n + k), G[p] = "CR"
      PROVE  G[p - 1] # "LF"
  <2>1. CASE p \in 2..n
    <3>1. F[p] = "CR" => F[p - 1] # "LF"
      BY <2>1 DEF Lines
    <3>2. G[p] = F[p] /\ G[p - 1] = F[p - 1]
      <4>1. p \in 1..n /\ p - 1 \in 1..n
        BY <2>1
      <4> QED BY <4>1
    <3> QED BY <1>9, <3>1, <3>2
  <2>2. CASE p > n
    <3>1. p = n + k - 1
      <4>1. p \in (n + 1)..(n + k)
        BY <1>2, <2>2
      <4> QED BY <1>5, <1>9, <4>1
    <3>2. /\ p - 1 = n + k - 2 /\ p - 1 \in (n + 1)..(n + k) /\ p - 1 # n + k
      BY <1>2, <3>1
    <3> QED BY <1>5, <3>2
  <2> QED BY <1>2, <2>1, <2>2
<1>10. ASSUME NEW p \in 0..(n + k - 1), p = 0 \/ G[p] = "LF"
       PROVE  \E f \in H : HeaderAt(G, n + k, p, f)
  <2>1. CASE p = n
    <3>1. HeaderAt(G, n + k, n, e)
      BY <1>2 DEF HeaderAt
    <3> QED BY <2>1, <3>1
  <2>2. CASE p < n
    <3>1. p = 0 \/ F[p] = "LF"
      BY <1>2, <1>10, <2>2
    <3>2. PICK f \in H : HeaderAt(F, n, p, f)
      BY <1>2, <2>2, <3>1 DEF Lines
    <3>3. PICK h : h = Header(f)
      OBVIOUS
    <3>4. p + Len(h) <= n /\ \A j \in 1..Len(h) : F[p + j] = h[j]
      BY <3>2, <3>3 DEF HeaderAt
    <3>5. CASE Len(h) \in Nat
      <4>1. p + Len(h) <= n + k
        BY <1>2, <3>4, <3>5
      <4>2. ASSUME NEW j \in 1..Len(h) PROVE G[p + j] = h[j]
        <5>1. p + j \in 1..n
          BY <1>2, <2>2, <3>4, <3>5
        <5> QED BY <3>4, <5>1
      <4> QED BY <3>3, <4>1, <4>2 DEF HeaderAt
    <3> QED BY <3>5
  <2>3. CASE p > n
    BY <1>2, <1>5, <1>10, <2>3
  <2> QED BY <1>2, <2>1, <2>2, <2>3
<1> QED BY <1>2, <1>7, <1>8, <1>9, <1>10, <1>11 DEF Lines

\* One more header adds its line.
LEMMA HeaderLinesAppend ==
  ASSUME NEW H, \A e \in H : PlainHeader(e), NEW h \in Seq(H), NEW e \in H
  PROVE  HeaderLines(Append(h, e)) = HeaderLines(h) \o Header(e)
<1> DEFINE lines(u) == [k \in DOMAIN u |-> Header(u[k])]
<1>s. PICK s : s = Header(e) /\ HeaderEnds(s)
  BY HeaderHasEnds
<1>1. lines(Append(h, e)) = Append(lines(h), s)
  <2>1. [k \in DOMAIN Append(h, e) |-> Header(Append(h, e)[k])]
          = Append([k \in DOMAIN h |-> Header(h[k])], Header(e))
    OBVIOUS
  <2> QED BY <1>s, <2>1
<1>2. lines(h) \in Seq(Seq(Tokens)) /\ s \in Seq(Tokens)
  <2>1. Len(h) \in Nat /\ DOMAIN h = 1..Len(h) /\ \A k \in 1..Len(h) : h[k] \in H
    BY LenProperties, ElementOfSeq
  <2>2. \A k \in 1..Len(h) : Header(h[k]) \in Seq(Tokens)
    BY <2>1, HeaderHasEnds DEF HeaderEnds
  <2>3. lines(h) \in [1..Len(h) -> Seq(Tokens)]
    BY <2>1, <2>2
  <2> QED BY <1>s, <2>1, <2>3, SeqDef DEF HeaderEnds
<1>3. HeaderLines(Append(h, e)) = FlattenSeq(lines(Append(h, e)))
      /\ HeaderLines(h) = FlattenSeq(lines(h))
  BY DEF HeaderLines
<1> HIDE DEF lines
<1> QED BY <1>s, <1>1, <1>2, <1>3, FlattenAppend

\* F begins with the first header.
StartsWith(F, headers) == headers # <<>> => Len(F) # 0 /\ F[1] = Header(headers[1])[1]

\* The headers of a request, one after the other.
LEMMA LinesOfHeaders ==
  ASSUME NEW H, \A e \in H : PlainHeader(e), NEW headers \in Seq(H)
  PROVE  /\ HeaderLines(headers) \in Seq(Tokens) /\ Lines(HeaderLines(headers), H)
         /\ StartsWith(HeaderLines(headers), headers)
         /\ headers = <<>> => Len(HeaderLines(headers)) = 0
<1> DEFINE T == {h \in Seq(H) : /\ HeaderLines(h) \in Seq(Tokens)
                                /\ Lines(HeaderLines(h), H)
                                /\ StartsWith(HeaderLines(h), h)
                                /\ h = <<>> => Len(HeaderLines(h)) = 0}
<1>1. <<>> \in T
  <2>1. HeaderLines(<<>>) = <<>>
    BY FlattenEmpty DEF HeaderLines
  <2>2. Lines(<<>>, H)
    BY DEF Lines
  <2> QED BY <2>1, <2>2, EmptySeq DEF StartsWith
<1>2. ASSUME NEW h \in T, NEW e \in H PROVE Append(h, e) \in T
  <2>1. PICK s : s = Header(e) /\ HeaderEnds(s)
    BY HeaderHasEnds
  <2>2. HeaderLines(Append(h, e)) = HeaderLines(h) \o s
    BY <2>1, HeaderLinesAppend
  <2>3. PICK F, G : F = HeaderLines(h) /\ G = F \o s
    OBVIOUS
  <2>4. F \in Seq(Tokens) /\ Lines(F, H) /\ s \in Seq(Tokens)
    BY <2>1, <2>3 DEF HeaderEnds
  <2>6. /\ G \in Seq(Tokens) /\ Len(G) = Len(F) + Len(s)
        /\ Len(F) \in Nat /\ Len(s) \in Nat
        /\ \A j \in 1..Len(F) : G[j] = F[j]
        /\ \A j \in 1..Len(s) : G[Len(F) + j] = s[j]
    BY <2>3, <2>4, ConcatIs
  <2>7. Lines(G, H)
    <3>1. Joined(F, s, G)
      BY <2>6 DEF Joined
    <3> QED BY <2>1, <2>4, <3>1, LinesAppend
  <2>8. PICK u : u = Append(h, e)
    OBVIOUS
  <2>9. /\ h \in Seq(H) /\ StartsWith(F, h) /\ (h = <<>> => Len(F) = 0)
    BY <2>3
  <2>10. u # <<>> /\ u \in Seq(H)
    BY <2>8, <2>9, AppendProperties
  <2>11. StartsWith(G, u)
    <3>1. CASE h = <<>>
      <4>1. u[1] = e
        BY <2>8, <3>1
      <4>2. Len(F) = 0 /\ 1 \in 1..Len(s) /\ Len(s) # 0
        BY <2>1, <2>9, <3>1 DEF HeaderEnds
      <4>3. Len(G) # 0 /\ G[1] = s[1]
        BY <2>6, <4>2
      <4> QED BY <2>1, <4>1, <4>3 DEF StartsWith
    <3>2. CASE h # <<>>
      <4>1. u[1] = h[1]
        BY <2>8, <2>9, <3>2
      <4>2. Len(F) # 0 /\ F[1] = Header(h[1])[1]
        BY <2>9, <3>2 DEF StartsWith
      <4>3. Len(G) # 0 /\ G[1] = F[1]
        BY <2>6, <4>2
      <4> QED BY <4>1, <4>2, <4>3 DEF StartsWith
    <3> QED BY <3>1, <3>2
  <2> QED BY <2>2, <2>3, <2>6, <2>7, <2>8, <2>10, <2>11
<1>3. T = Seq(H)
  <2> HIDE DEF T
  <2>1. T \in SUBSET Seq(H)
    BY DEF T
  <2> QED BY <1>1, <1>2, <2>1, SequenceInduction
<1> QED BY <1>3

-----------------------------------------------------------------------------
(* A request.                                                              *)

LEMMA JoinedConcat ==
  ASSUME NEW S, NEW s \in Seq(S), NEW t \in Seq(S), NEW d, d = s \o t
  PROVE  d \in Seq(S) /\ Joined(s, t, d)
BY ConcatIs DEF Joined

LineEnds(W) ==
  /\ Len(W) \in Nat /\ Len(W) >= 3 /\ W[1] \notin {"CR", "LF", "r", "SP", ":"}
  /\ W[Len(W) - 2] # "SP" /\ W[Len(W) - 1] = "CR" /\ W[Len(W)] = "LF"
  /\ \A p \in 1..(Len(W) - 2) : W[p] \notin {"CR", "LF"}

\* What is joined from text is text.
LEMMA JoinedPlain ==
  ASSUME NEW s, NEW t, NEW d, Joined(s, t, d),
         \A p \in 1..Len(s) : s[p] \notin {"CR", "LF"},
         \A p \in 1..Len(t) : t[p] \notin {"CR", "LF"}
  PROVE  \A p \in 1..Len(d) : d[p] \notin {"CR", "LF"}
<1> SUFFICES ASSUME NEW p \in 1..Len(d) PROVE d[p] \notin {"CR", "LF"}
  OBVIOUS
<1>1. PICK n \in Nat, k \in Nat : n = Len(s) /\ k = Len(t) /\ Len(d) = n + k
  BY DEF Joined
<1>2. CASE p \in 1..n
  BY <1>1, <1>2 DEF Joined
<1>3. CASE p > n
  <2>1. p - n \in 1..k /\ n + (p - n) = p
    BY <1>1, <1>3
  <2>2. d[n + (p - n)] = t[p - n]
    BY <1>1, <2>1 DEF Joined
  <2> QED BY <1>1, <2>1, <2>2
<1> QED BY <1>1, <1>2, <1>3

\* The parts of a request line, by position.
LineParts(r, n, W) ==
  /\ n \in Nat /\ n = Len(r.name) /\ r.name \in Seq(Tokens)
  /\ W \in Seq(Tokens) /\ Len(W) = n + 9
  /\ W[1] = r.method /\ W[2] = "SP" /\ W[3] = "/"
  /\ \A j \in 1..n : W[3 + j] = r.name[j]
                     /\ W[3 + j] \notin {"CR", "LF", "SP", "GET", "POST"}
  /\ W[n + 4] = "SP" /\ W[n + 5] = "HTTP" /\ W[n + 6] = "/" /\ W[n + 7] = r.version
  /\ W[n + 8] = "CR" /\ W[n + 9] = "LF"

\* A request line is put together from them.
LEMMA LineHasParts ==
  ASSUME NEW r, PlainRequest(r)
  PROVE  LineParts(r, Len(r.name), Line(r))
<1>1. PICK x, y, h, c, l, m, v, name :
        /\ x = "SP" /\ y = "/" /\ h = "HTTP" /\ c = "CR" /\ l = "LF"
        /\ m = r.method /\ v = r.version /\ name = r.name
  OBVIOUS
<1>2. /\ x \in Tokens /\ y \in Tokens /\ h \in Tokens
      /\ c \in Tokens /\ l \in Tokens /\ m \in Tokens /\ v \in Tokens
  BY <1>1, TokenFacts DEF PlainRequest
<1>3. /\ name \in Seq(Tokens)
      /\ \A j \in 1..Len(name) : name[j] \notin {"CR", "LF", "SP", "GET", "POST"}
  <2>1. name \in Seq(Text \ {"SP", "GET", "POST"})
    BY <1>1 DEF PlainRequest
  <2>2. Text \ {"SP", "GET", "POST"} \subseteq Tokens
    BY DEF Text
  <2>3. \A j \in 1..Len(name) : name[j] \in Text \ {"SP", "GET", "POST"}
    BY <2>1, ElementOfSeq
  <2> QED BY <2>1, <2>2, <2>3, SeqMonotonic DEF Text
<1>4. PICK a, b : a = <<m, x, y>> /\ b = <<x, h, y, v, c, l>>
  OBVIOUS
<1>5. PICK f, W : f = a \o name /\ W = f \o b
  OBVIOUS
<1>6. Line(r) = W
  BY <1>1, <1>4, <1>5, Zenon DEF Line
<1>7. /\ a \in Seq(Tokens) /\ Len(a) = 3 /\ a[1] = m /\ a[2] = x /\ a[3] = y
      /\ b \in Seq(Tokens) /\ Len(b) = 6 /\ b[1] = x /\ b[2] = h /\ b[3] = y /\ b[4] = v
      /\ b[5] = c /\ b[6] = l
  BY <1>2, <1>4
<1>8. f \in Seq(Tokens) /\ Joined(a, name, f)
  BY <1>3, <1>5, <1>7, JoinedConcat
<1>9. W \in Seq(Tokens) /\ Joined(f, b, W)
  BY <1>5, <1>7, <1>8, JoinedConcat
<1>10. PICK n \in Nat : n = Len(name)
  BY <1>8 DEF Joined
<1>11. /\ Len(f) = n + 3 /\ \A j \in 1..3 : f[j] = a[j]
       /\ \A j \in 1..n : f[3 + j] = name[j]
  BY <1>7, <1>8, <1>10 DEF Joined
<1>12. /\ Len(W) = n + 9 /\ \A j \in 1..(n + 3) : W[j] = f[j]
       /\ \A j \in 1..6 : W[n + 3 + j] = b[j]
  BY <1>7, <1>9, <1>10, <1>11 DEF Joined
<1>13. W[1] = m /\ W[2] = x /\ W[3] = y
  <2>1. \A j \in 1..3 : j \in 1..(n + 3)
    OBVIOUS
  <2>2. \A j \in 1..3 : W[j] = a[j]
    BY <1>11, <1>12, <2>1
  <2>3. W[1] = a[1] /\ W[2] = a[2] /\ W[3] = a[3]
    BY <2>2
  <2> QED BY <1>7, <2>3
<1>14. \A j \in 1..n : W[3 + j] = name[j]
  <2>1. \A j \in 1..n : 3 + j \in 1..(n + 3)
    OBVIOUS
  <2> QED BY <1>11, <1>12, <2>1
<1>15. /\ W[n + 4] = x /\ W[n + 5] = h /\ W[n + 6] = y /\ W[n + 7] = v
       /\ W[n + 8] = c /\ W[n + 9] = l
  <2>1. /\ n + 3 + 1 = n + 4 /\ n + 3 + 2 = n + 5 /\ n + 3 + 3 = n + 6
        /\ n + 3 + 4 = n + 7 /\ n + 3 + 5 = n + 8 /\ n + 3 + 6 = n + 9
    OBVIOUS
  <2>2. /\ W[n + 3 + 1] = b[1] /\ W[n + 3 + 2] = b[2] /\ W[n + 3 + 3] = b[3]
        /\ W[n + 3 + 4] = b[4] /\ W[n + 3 + 5] = b[5] /\ W[n + 3 + 6] = b[6]
    BY <1>12
  <2> QED BY <1>7, <2>1, <2>2
<1>16. \A j \in 1..n : W[3 + j] \notin {"CR", "LF", "SP", "GET", "POST"}
  BY <1>3, <1>10, <1>14
<1>17. LineParts(r, n, W)
  BY <1>1, <1>3, <1>9, <1>10, <1>12, <1>13, <1>14, <1>15, <1>16 DEF LineParts
<1> QED BY <1>1, <1>6, <1>10, <1>17

\* A request line ends with the first CR and LF that it holds.
LEMMA LineHasEnds ==
  ASSUME NEW r, PlainRequest(r)
  PROVE  Line(r) \in Seq(Tokens) /\ LineEnds(Line(r))
<1>1. PICK n, W : W = Line(r) /\ LineParts(r, n, W)
  BY LineHasParts
<1>2. /\ n \in Nat /\ W \in Seq(Tokens) /\ Len(W) = n + 9
      /\ W[n + 7] = r.version /\ W[n + 8] = "CR" /\ W[n + 9] = "LF"
  BY <1>1 DEF LineParts
<1>3. r.version \notin {"CR", "LF", "SP"} /\ r.method \notin {"CR", "LF", "r", "SP", ":"}
  BY DEF PlainRequest
<1>4. \A p \in 1..(n + 7) : W[p] \notin {"CR", "LF"}
  <2> SUFFICES ASSUME NEW p \in 1..(n + 7) PROVE W[p] \notin {"CR", "LF"}
    OBVIOUS
  <2>1. CASE p \in 4..(n + 3)
    <3>1. PICK j \in 1..n : p = 3 + j
      <4>1. p - 3 \in 1..n /\ p = 3 + (p - 3)
        BY <1>2, <2>1
      <4> QED BY <4>1
    <3> QED BY <1>1, <3>1 DEF LineParts
  <2>2. CASE p \notin 4..(n + 3)
    <3>1. p \in {1, 2, 3, n + 4, n + 5, n + 6, n + 7}
      BY <1>2, <2>2
    <3>2. /\ W[1] = r.method /\ W[2] = "SP" /\ W[3] = "/" /\ W[n + 4] = "SP"
          /\ W[n + 5] = "HTTP" /\ W[n + 6] = "/" /\ W[n + 7] = r.version
      BY <1>1 DEF LineParts
    <3>3. \A x \in {W[1], W[2], W[3], W[n + 4], W[n + 5], W[n + 6], W[n + 7]} :
            x \notin {"CR", "LF"}
      BY ONLY <1>3, <3>2
    <3> QED BY ONLY <3>1, <3>3
  <2> QED BY <2>1, <2>2
<1>5. W[1] = r.method
  BY <1>1 DEF LineParts
<1>6. Len(W) \in Nat /\ Len(W) >= 3 /\ Len(W) - 2 = n + 7 /\ Len(W) - 1 = n + 8
  BY <1>2
<1>7. LineEnds(W)
  BY <1>2, <1>3, <1>4, <1>5, <1>6 DEF LineEnds
<1> QED BY <1>1, <1>2, <1>7

\* The headers are all there.
AllStand(F, headers) ==
  \A e \in ToSet(headers) : \E p \in 0..(Len(F) - 1) :
     (p = 0 \/ F[p] = "LF") /\ HeaderAt(F, Len(F), p, e)

\* A header stays where it is when something is joined behind it.
LEMMA HeaderAtJoined ==
  ASSUME NEW F, NEW s, NEW G, Joined(F, s, G), NEW p \in Nat, NEW e, PlainHeader(e),
         HeaderAt(F, Len(F), p, e)
  PROVE  HeaderAt(G, Len(G), p, e)
<1>1. PICK n \in Nat, k \in Nat : n = Len(F) /\ k = Len(s)
  BY DEF Joined
<1>2. Len(G) = n + k /\ \A j \in 1..n : G[j] = F[j]
  BY <1>1 DEF Joined
<1>3. PICK x : x = Header(e) /\ HeaderEnds(x)
  BY HeaderHasEnds
<1>4. PICK z \in Nat : z = Len(x)
  BY <1>3, LenProperties DEF HeaderEnds
<1>5. p + z <= n /\ \A j \in 1..z : F[p + j] = x[j]
  BY <1>1, <1>3, <1>4 DEF HeaderAt
<1>6. p + z <= n + k
  BY <1>5
<1>7. \A j \in 1..z : G[p + j] = x[j]
  <2>1. \A j \in 1..z : p + j \in 1..n
    BY <1>5
  <2> QED BY <1>2, <1>5, <2>1
<1> QED BY <1>2, <1>3, <1>4, <1>6, <1>7 DEF HeaderAt

\* The headers of a request all stand in what they are written as.
LEMMA HeadersAllStand ==
  ASSUME NEW H, \A e \in H : PlainHeader(e), NEW headers \in Seq(H)
  PROVE  AllStand(HeaderLines(headers), headers)
<1> DEFINE T == {h \in Seq(H) : AllStand(HeaderLines(h), h)}
<1>1. <<>> \in T
  <2>1. ToSet(<<>>) = {}
    BY DEF ToSet
  <2> QED BY <2>1, EmptySeq DEF AllStand
<1>2. ASSUME NEW h \in T, NEW e \in H PROVE Append(h, e) \in T
  <2>1. PICK s : s = Header(e) /\ HeaderEnds(s)
    BY HeaderHasEnds
  <2>2. PICK F, G : F = HeaderLines(h) /\ G = F \o s
    OBVIOUS
  <2>3. HeaderLines(Append(h, e)) = G
    BY <2>1, <2>2, HeaderLinesAppend
  <2>4. h \in Seq(H) /\ AllStand(F, h)
    BY <2>2
  <2>5. F \in Seq(Tokens) /\ Lines(F, H) /\ s \in Seq(Tokens)
    BY <2>1, <2>2, <2>4, LinesOfHeaders DEF HeaderEnds
  <2>6. Joined(F, s, G)
    BY <2>2, <2>5, JoinedConcat
  <2>7. PICK n \in Nat, k \in Nat : n = Len(F) /\ k = Len(s) /\ Len(G) = n + k
    BY <2>6 DEF Joined
  <2>8. k >= 6
    BY <2>1, <2>7 DEF HeaderEnds
  <2>9. PICK u : u = Append(h, e) /\ u \in Seq(H)
    BY <2>4, AppendProperties
  <2>10. AllStand(G, u)
    <3> SUFFICES ASSUME NEW f \in ToSet(u)
                 PROVE  \E p \in 0..(Len(G) - 1) :
                          (p = 0 \/ G[p] = "LF") /\ HeaderAt(G, Len(G), p, f)
      BY DEF AllStand
    <3>1. f \in ToSet(h) \/ f = e
      <4>1. PICK x \in DOMAIN u : f = u[x]
        BY DEF ToSet
      <4>2. PICK y \in Nat : y = Len(h) /\ DOMAIN h = 1..y
        BY <2>4, LenProperties
      <4>3. /\ Len(u) = y + 1 /\ u[y + 1] = e
            /\ \A i \in 1..y : u[i] = h[i]
        BY <2>4, <2>9, <4>2, AppendProperties
      <4>4. x \in 1..(y + 1)
        BY <2>9, <4>1, <4>3, LenProperties
      <4>5. CASE x = y + 1
        BY <4>1, <4>3, <4>5
      <4>6. CASE x # y + 1
        <5>1. x \in DOMAIN h /\ f = h[x]
          BY <4>1, <4>2, <4>3, <4>4, <4>6
        <5> QED BY <5>1 DEF ToSet
      <4> QED BY <4>5, <4>6
    <3>2. CASE f \in ToSet(h)
      <4>1. PICK p \in 0..(Len(F) - 1) : (p = 0 \/ F[p] = "LF") /\ HeaderAt(F, Len(F), p, f)
        BY <2>4, <3>2 DEF AllStand
      <4>2. p \in Nat /\ p <= n - 1 /\ p \in 0..(Len(G) - 1)
        BY <2>7, <4>1
      <4>3. p = 0 \/ G[p] = "LF"
        <5> SUFFICES ASSUME p # 0 PROVE G[p] = "LF"
          OBVIOUS
        <5>1. p \in 1..Len(F)
          BY <2>7, <4>2
        <5> QED BY <2>6, <4>1, <5>1 DEF Joined
      <4>4. PlainHeader(f)
        <5>1. f \in H
          <6>1. PICK x \in DOMAIN h : f = h[x]
            BY <3>2 DEF ToSet
          <6> QED BY <2>4, <6>1, ElementOfSeq, LenProperties
        <5> QED BY <5>1
      <4>5. HeaderAt(G, Len(G), p, f)
        BY <2>6, <4>1, <4>2, <4>4, HeaderAtJoined
      <4> QED BY <4>2, <4>3, <4>5
    <3>3. CASE f = e
      <4>1. n \in 0..(Len(G) - 1)
        BY <2>7, <2>8
      <4>2. n = 0 \/ G[n] = "LF"
        <5> SUFFICES ASSUME n # 0 PROVE G[n] = "LF"
          OBVIOUS
        <5>1. F[n] = "LF"
          BY <2>5, <2>7 DEF Lines
        <5>2. n \in 1..Len(F)
          BY <2>7
        <5> QED BY <2>6, <5>1, <5>2 DEF Joined
      <4>3. HeaderAt(G, Len(G), n, e)
        <5>1. \A j \in 1..Len(s) : G[n + j] = s[j]
          BY <2>6, <2>7 DEF Joined
        <5>2. n + Len(s) <= Len(G)
          BY <2>7
        <5> QED BY <2>1, <5>1, <5>2 DEF HeaderAt
      <4> QED BY <3>3, <4>1, <4>2, <4>3
    <3> QED BY <3>1, <3>2, <3>3
  <2> QED BY <2>3, <2>9, <2>10
<1>3. T = Seq(H)
  <2> HIDE DEF T
  <2>1. T \in SUBSET Seq(H)
    BY DEF T
  <2> QED BY <1>1, <1>2, <2>1, SequenceInduction
<1> QED BY <1>3

\* The line ends at L, the blank line behind the headers at E, and H are the
\* headers.
Shape(T, L, E, H) ==
  /\ Len(T) \in Nat /\ L \in Nat /\ E \in Nat
  /\ 3 <= L /\ L + 2 <= E /\ E <= Len(T)
  /\ T[1] \notin {"CR", "LF", "r", "SP", ":"}
  /\ \A p \in 1..(L - 2) : T[p] \notin {"CR", "LF"}
  /\ T[L - 1] = "CR" /\ T[L] = "LF"
  /\ T[E - 3] = "CR" /\ T[E - 2] = "LF" /\ T[E - 1] = "CR" /\ T[E] = "LF"
  /\ T[L + 1] \notin {"LF", "r", "SP"} /\ (T[L + 1] = "CR" => E = L + 2)
  /\ \A p \in 1..(E - 1) : T[p] = "CR" <=> T[p + 1] = "LF"
  /\ \A p \in 2..E :
       T[p] = "CR" => (T[p - 1] = "LF" <=> p = E - 1) /\ InAValue(T, p)
  /\ \A p \in L..(E - 3) : T[p] = "LF" => \E e \in H : HeaderAt(T, E - 2, p, e)
  /\ \A e \in H : PlainHeader(e)

\* A line, headers, a blank line and a body make a request.
LEMMA ShapeOfParts ==
  ASSUME NEW W, LineEnds(W), NEW H, \A e \in H : PlainHeader(e), NEW F, Lines(F, H),
         Len(F) # 0 => F[1] # "r", NEW D, Joined(W, F, D),
         NEW C, Len(C) = 2, C[1] = "CR", C[2] = "LF",
         NEW G, Joined(D, C, G), NEW B, NEW T, Joined(G, B, T),
         NEW E, E = Len(W) + Len(F) + 2
  PROVE  Shape(T, Len(W), E, H)
<1>1. PICK L \in Nat, n \in Nat, b \in Nat : L = Len(W) /\ n = Len(F) /\ b = Len(B)
  BY DEF Joined
<1>2. L >= 3 /\ E = L + n + 2 /\ (n = 0 \/ n >= 6)
  BY <1>1 DEF LineEnds, Lines
<1>3. /\ Len(D) = L + n
      /\ \A j \in 1..L : D[j] = W[j]
      /\ \A j \in 1..n : D[L + j] = F[j]
  BY <1>1 DEF Joined
<1>4. /\ Len(G) = L + n + 2
      /\ \A j \in 1..(L + n) : G[j] = D[j]
      /\ G[L + n + 1] = "CR" /\ G[L + n + 2] = "LF"
  BY <1>1, <1>3 DEF Joined
<1>5. Len(T) = L + n + 2 + b /\ \A j \in 1..(L + n + 2) : T[j] = G[j]
  BY <1>1, <1>4 DEF Joined
<1>6. \A j \in 1..L : T[j] = W[j]
  BY <1>3, <1>4, <1>5
<1>7. \A j \in 1..n : T[L + j] = F[j]
  BY <1>3, <1>4, <1>5
<1>8. T[E - 1] = "CR" /\ T[E] = "LF"
  BY <1>2, <1>4, <1>5
<1>9. /\ T[1] \notin {"CR", "LF", "r", "SP", ":"} /\ T[L - 1] = "CR" /\ T[L] = "LF"
      /\ T[L - 2] # "SP"
      /\ \A p \in 1..(L - 2) : T[p] \notin {"CR", "LF"}
  <2>1. /\ W[1] \notin {"CR", "LF", "r", "SP", ":"} /\ W[L - 1] = "CR" /\ W[L] = "LF"
        /\ W[L - 2] # "SP"
        /\ \A p \in 1..(L - 2) : W[p] \notin {"CR", "LF"}
    BY <1>1 DEF LineEnds
  <2>2. 1 \in 1..L /\ L - 2 \in 1..L /\ L - 1 \in 1..L /\ L \in 1..L /\ 1..(L - 2) \subseteq 1..L
    BY <1>2
  <2> QED BY <1>6, <2>1, <2>2
<1>10. n # 0 => T[E - 3] = "CR" /\ T[E - 2] = "LF" /\ T[L + 1] \notin {"CR", "LF", "r", "SP"}
  <2> HAVE n # 0
  <2>1. F[n - 1] = "CR" /\ F[n] = "LF" /\ F[1] \notin {"CR", "LF", "r", "SP"}
    BY <1>1 DEF Lines
  <2>2. n - 1 \in 1..n /\ n \in 1..n /\ 1 \in 1..n /\ L + (n - 1) = E - 3 /\ L + n = E - 2
    BY <1>2
  <2> QED BY <1>7, <2>1, <2>2
<1>11. n = 0 => T[E - 3] = "CR" /\ T[E - 2] = "LF" /\ T[L + 1] = "CR"
  <2> HAVE n = 0
  <2>1. E - 3 = L - 1 /\ E - 2 = L /\ L + 1 = E - 1
    BY <1>2
  <2> QED BY <1>8, <1>9, <2>1
<1>12. /\ T[E - 3] = "CR" /\ T[E - 2] = "LF"
       /\ T[L + 1] \notin {"LF", "r", "SP"} /\ (T[L + 1] = "CR" => E = L + 2)
  BY <1>2, <1>10, <1>11
<1>13. ASSUME NEW p \in 1..(E - 1) PROVE T[p] = "CR" <=> T[p + 1] = "LF"
  <2>1. CASE p \in 1..(L - 2)
    <3>1. T[p] # "CR"
      BY <1>9, <2>1
    <3>2. T[p + 1] # "LF"
      <4>1. p + 1 \in 1..(L - 2) \/ p + 1 = L - 1
        BY <1>2, <2>1
      <4> QED BY <1>9, <4>1
    <3> QED BY <3>1, <3>2
  <2>2. CASE p = L - 1
    BY <1>9, <2>2
  <2>3. CASE p = L
    BY <1>9, <1>12, <2>3
  <2>4. CASE p - L \in 1..(n - 1)
    <3>1. F[p - L] = "CR" <=> F[(p - L) + 1] = "LF"
      BY <1>1, <2>4 DEF Lines
    <3>2. p - L \in 1..n /\ (p - L) + 1 \in 1..n /\ L + (p - L) = p /\ L + ((p - L) + 1) = p + 1
      BY <1>2, <2>4
    <3> QED BY <1>7, <3>1, <3>2
  <2>5. CASE p = E - 2
    <3>1. p + 1 = E - 1
      BY <1>2, <2>5
    <3> QED BY <1>8, <1>12, <2>5, <3>1
  <2>6. CASE p = E - 1
    BY <1>2, <1>8, <2>6
  <2> QED BY <1>2, <2>1, <2>2, <2>3, <2>4, <2>5, <2>6
<1>14. ASSUME NEW p \in 2..E, T[p] = "CR"
       PROVE  (T[p - 1] = "LF" <=> p = E - 1) /\ InAValue(T, p)
  <2>1. CASE p - L \in 2..n
    <3>1. F[p - L] = "CR" => F[(p - L) - 1] # "LF"
      BY <1>1, <2>1 DEF Lines
    <3>2. p - L \in 1..n /\ (p - L) - 1 \in 1..n /\ L + (p - L) = p /\ L + ((p - L) - 1) = p - 1
      BY <1>2, <2>1
    <3>3. T[p - 1] # "LF" /\ p # E - 1 /\ T[p - 1] = F[(p - L) - 1] /\ T[p] = F[p - L]
      BY <1>2, <1>7, <1>14, <2>1, <3>1, <3>2
    <3>4. CASE p - L > 2
      <4>1. PICK q \in 3..n : q = p - L
        BY <2>1, <3>4
      <4>2. InAValue(F, q) /\ p = L + q
        BY <1>1, <1>14, <3>3, <4>1 DEF Lines
      <4>3. Stands(F, n, T, L)
        BY <1>7 DEF Stands
      <4>4. InAValue(T, p)
        BY <4>2, <4>3, InAValueShift
      <4> QED BY <3>3, <4>4
    <3>5. CASE p - L = 2
      <4>1. p - 1 = L + 1 /\ n # 0
        BY <1>2, <2>1, <3>5
      <4>2. T[p - 1] # "SP"
        BY <1>10, <4>1
      <4> QED BY <3>3, <4>2 DEF InAValue
    <3> QED BY <2>1, <3>4, <3>5
  <2>2. CASE p = L + 1 /\ n # 0
    BY <1>10, <1>14, <2>2
  <2>3. CASE p = E - 1
    <3>1. p - 1 = E - 2
      BY <1>2, <2>3
    <3> QED BY <1>12, <2>3, <3>1 DEF InAValue
  <2>4. CASE p = E
    BY <1>8, <1>14, <2>4
  <2>5. CASE p \in 2..L
    <3>1. p = L - 1
      BY <1>2, <1>9, <1>14, <2>5
    <3>2. p - 1 = L - 2 /\ p - 1 \in 1..(L - 2) /\ p # E - 1
      BY <1>2, <3>1
    <3> QED BY <1>9, <3>1, <3>2 DEF InAValue
  <2> QED BY <1>2, <2>1, <2>2, <2>3, <2>4, <2>5
<1>15. ASSUME NEW p \in L..(E - 3), T[p] = "LF"
       PROVE  \E e \in H : HeaderAt(T, E - 2, p, e)
  <2>1. PICK q \in 0..(n - 1) : p = L + q
    <3>1. p - L \in 0..(n - 1) /\ p = L + (p - L)
      BY <1>2
    <3> QED BY <3>1
  <2>2. q = 0 \/ F[q] = "LF"
    BY <1>7, <1>15, <2>1
  <2>3. PICK e \in H : HeaderAt(F, n, q, e)
    BY <1>1, <2>1, <2>2 DEF Lines
  <2>4. PICK s : s = Header(e) /\ Len(s) \in Nat
    BY HeaderHasEnds DEF HeaderEnds
  <2>5. q + Len(s) <= n /\ \A j \in 1..Len(s) : F[q + j] = s[j]
    BY <2>3, <2>4 DEF HeaderAt
  <2>6. p + Len(s) <= E - 2
    BY <1>2, <2>1, <2>4, <2>5
  <2>7. ASSUME NEW j \in 1..Len(s) PROVE T[p + j] = s[j]
    <3>1. q + j \in 1..n /\ L + (q + j) = p + j
      BY <1>2, <2>1, <2>4, <2>5
    <3> QED BY <1>7, <2>5, <3>1
  <2> QED BY <2>4, <2>6, <2>7 DEF HeaderAt
<1>16. Len(T) \in Nat /\ E \in Nat /\ L + 2 <= E /\ E <= Len(T)
  BY <1>2, <1>5
<1> QED BY <1>1, <1>2, <1>8, <1>9, <1>12, <1>13, <1>14, <1>15, <1>16 DEF Shape

\* A request, put together from its line, its headers, the blank line and its
\* body.
RequestIs(r, W, F, C, B, D, G, T) ==
  /\ W = Line(r) /\ F = HeaderLines(r.headers) /\ B = r.body /\ T = Request(r)
  /\ F \in Seq(Tokens) /\ B \in Seq(Tokens) /\ T \in Seq(Tokens)
  /\ Len(C) = 2 /\ C[1] = "CR" /\ C[2] = "LF"
  /\ Joined(W, F, D) /\ Joined(D, C, G) /\ Joined(G, B, T)

\* The headers, as a sequence.
LEMMA HeadersOf ==
  ASSUME NEW r, PlainRequest(r)
  PROVE  /\ \A e \in ToSet(r.headers) : PlainHeader(e)
         /\ r.headers \in Seq(ToSet(r.headers))
<1>1. PICK H : H = ToSet(r.headers)
  OBVIOUS
<1>2. \A e \in H : PlainHeader(e)
  BY <1>1 DEF PlainRequest
<1>3. r.headers \in Seq(H)
  <2>1. PICK h : h = r.headers
    OBVIOUS
  <2>2. h \in Seq(Seq(Tokens) \X Seq(Tokens))
    BY <2>1 DEF PlainRequest
  <2>3. H = {h[k] : k \in DOMAIN h}
    BY <1>1, <2>1 DEF ToSet
  <2>4. Len(h) \in Nat /\ DOMAIN h = 1..Len(h) /\ h = [k \in 1..Len(h) |-> h[k]]
    BY <2>2, LenProperties
  <2>5. h \in [1..Len(h) -> H]
    BY <2>3, <2>4
  <2> QED BY <2>1, <2>4, <2>5, SeqDef
<1> QED BY <1>1, <1>2, <1>3

\* A request is put together from them.
LEMMA RequestHasParts ==
  ASSUME NEW r, PlainRequest(r)
  PROVE  \E W, F, C, B, D, G, T : RequestIs(r, W, F, C, B, D, G, T)
<1>1. PICK H : H = ToSet(r.headers) /\ (\A e \in H : PlainHeader(e)) /\ r.headers \in Seq(H)
  BY HeadersOf
<1>4. PICK F : F = HeaderLines(r.headers) /\ F \in Seq(Tokens)
  BY <1>1, LinesOfHeaders
<1>5. PICK W : W = Line(r) /\ W \in Seq(Tokens)
  BY LineHasEnds
<1>6. PICK B : B = r.body /\ B \in Seq(Tokens)
  BY DEF PlainRequest
<1>7. PICK C, c, l : C = <<c, l>> /\ c = "CR" /\ l = "LF"
  OBVIOUS
<1>8. PICK D, G, T : D = W \o F /\ G = D \o C /\ T = G \o B
  OBVIOUS
<1>9. Request(r) = T
  BY <1>4, <1>5, <1>6, <1>7, <1>8, Zenon DEF Request, HeaderLines
<1>10. C \in Seq(Tokens) /\ Len(C) = 2 /\ C[1] = "CR" /\ C[2] = "LF"
  BY <1>7, TokenFacts
<1>11. D \in Seq(Tokens) /\ Joined(W, F, D)
  BY <1>4, <1>5, <1>8, JoinedConcat
<1>12. G \in Seq(Tokens) /\ Joined(D, C, G)
  BY <1>8, <1>10, <1>11, JoinedConcat
<1>13. T \in Seq(Tokens) /\ Joined(G, B, T)
  BY <1>6, <1>8, <1>12, JoinedConcat
<1>14. RequestIs(r, W, F, C, B, D, G, T)
  BY <1>4, <1>5, <1>6, <1>9, <1>10, <1>11, <1>12, <1>13 DEF RequestIs
<1> QED BY <1>14

\* The tokens of a plain request have the shape of one.
LEMMA RequestShape ==
  ASSUME NEW r, PlainRequest(r)
  PROVE  /\ Request(r) \in Seq(Tokens)
         /\ r.body \in Seq(Tokens) /\ Len(r.body) \in Nat
         /\ Shape(Request(r), Len(Line(r)), Len(Request(r)) - Len(r.body), ToSet(r.headers))
<1>1. PICK H, h : H = ToSet(r.headers) /\ h = r.headers
  OBVIOUS
<1>2. (\A e \in H : PlainHeader(e)) /\ h \in Seq(H)
  BY <1>1, HeadersOf
<1>3. PICK W, F, C, B, D, G, T : RequestIs(r, W, F, C, B, D, G, T)
  BY RequestHasParts
<1>4. LineEnds(W) /\ Lines(F, H) /\ StartsWith(F, h) /\ (h = <<>> => Len(F) = 0)
  BY <1>1, <1>2, <1>3, LineHasEnds, LinesOfHeaders DEF RequestIs
<1>5. Len(F) # 0 => F[1] # "r"
  <2> SUFFICES ASSUME h # <<>> PROVE F[1] # "r"
    BY <1>4
  <2>3. h[1] \in H /\ h[1][1][1] # "r"
    <3>1. 1 \in 1..Len(h)
      BY <1>2, EmptySeq, LenProperties
    <3> QED BY <1>1, <1>2, <3>1, ElementOfSeq DEF PlainRequest
  <2>4. PICK e : e = h[1] /\ PlainHeader(e) /\ e[1][1] # "r"
    BY <1>2, <2>3
  <2>5. PICK k, v, s : s = Header(e) /\ HeaderParts(e, k, v, s)
    BY <2>4, HeaderHasParts
  <2>6. s[1] = e[1][1]
    <3>1. k \in Nat \ {0} /\ \A j \in 1..k : s[j] = e[1][j]
      BY <2>5 DEF HeaderParts
    <3>2. 1 \in 1..k
      BY <3>1
    <3> QED BY <3>1, <3>2
  <2> QED BY <1>4, <2>4, <2>5, <2>6 DEF StartsWith
<1>6. PICK E : E = Len(W) + Len(F) + 2
  OBVIOUS
<1>7. E = Len(T) - Len(B) /\ Len(B) \in Nat
  BY <1>3, <1>6 DEF RequestIs, Joined
<1>8. /\ Joined(W, F, D) /\ Joined(D, C, G) /\ Joined(G, B, T)
      /\ Len(C) = 2 /\ C[1] = "CR" /\ C[2] = "LF"
  BY <1>3 DEF RequestIs
<1>9. Shape(T, Len(W), E, H)
  BY <1>2, <1>4, <1>5, <1>6, <1>8, ShapeOfParts
<1>10. W = Line(r) /\ B = r.body /\ T = Request(r) /\ T \in Seq(Tokens) /\ B \in Seq(Tokens)
  BY <1>3 DEF RequestIs
<1> QED BY <1>1, <1>7, <1>9, <1>10

\* A header e of H begins behind o.
StandsAt(T, L, E, o, e) ==
  o \in Nat /\ L <= o /\ T[o] = "LF" /\ HeaderAt(T, E - 2, o, e)

\* All of its headers stand in a request, and its line at the beginning.
LEMMA RequestStands ==
  ASSUME NEW r, PlainRequest(r)
  PROVE  LET T == Request(r)
             L == Len(Line(r))
             E == Len(T) - Len(r.body)
         IN /\ \A e \in ToSet(r.headers) : \E o : StandsAt(T, L, E, o, e)
            /\ \A j \in 1..L : T[j] = Line(r)[j]
<1>1. PICK H, h : H = ToSet(r.headers) /\ h = r.headers
  OBVIOUS
<1>2. (\A e \in H : PlainHeader(e)) /\ h \in Seq(H)
  BY <1>1, HeadersOf
<1>3. PICK W, F, C, B, D, G, T : RequestIs(r, W, F, C, B, D, G, T)
  BY RequestHasParts
<1>4. LineEnds(W) /\ AllStand(F, h)
  BY <1>1, <1>2, <1>3, LineHasEnds, HeadersAllStand DEF RequestIs
<1>5. PICK L \in Nat, n \in Nat, b \in Nat : L = Len(W) /\ n = Len(F) /\ b = Len(B)
  BY <1>3 DEF RequestIs, Joined
<1>6. /\ Len(T) = L + n + 2 + b
      /\ \A j \in 1..L : T[j] = W[j]
      /\ \A j \in 1..n : T[L + j] = F[j]
  <2>1. /\ Len(D) = L + n
        /\ \A j \in 1..L : D[j] = W[j]
        /\ \A j \in 1..n : D[L + j] = F[j]
    BY <1>3, <1>5 DEF RequestIs, Joined
  <2>2. Len(G) = L + n + 2 /\ \A j \in 1..(L + n) : G[j] = D[j]
    BY <1>3, <2>1 DEF RequestIs, Joined
  <2>3. Len(T) = L + n + 2 + b /\ \A j \in 1..(L + n + 2) : T[j] = G[j]
    BY <1>3, <1>5, <2>2 DEF RequestIs, Joined
  <2>4. \A j \in 1..L : T[j] = W[j]
    <3>1. \A j \in 1..L : j \in 1..(L + n) /\ j \in 1..(L + n + 2)
      OBVIOUS
    <3> QED BY <2>1, <2>2, <2>3, <3>1
  <2>5. \A j \in 1..n : T[L + j] = F[j]
    <3>1. \A j \in 1..n : L + j \in 1..(L + n) /\ L + j \in 1..(L + n + 2)
      OBVIOUS
    <3> QED BY <2>1, <2>2, <2>3, <3>1
  <2> QED BY <2>3, <2>4, <2>5
<1>7. PICK E \in Nat : E = Len(T) - b /\ E = L + n + 2
  BY <1>6
<1>8. ASSUME NEW e \in H PROVE \E o : StandsAt(T, L, E, o, e)
  <2>1. PICK p \in 0..(n - 1) : (p = 0 \/ F[p] = "LF") /\ HeaderAt(F, n, p, e)
    BY <1>1, <1>4, <1>5 DEF AllStand
  <2>2. PICK x : x = Header(e) /\ HeaderEnds(x)
    BY <1>2, HeaderHasEnds
  <2>3. PICK z \in Nat : z = Len(x)
    BY <2>2, LenProperties DEF HeaderEnds
  <2>4. p + z <= n /\ \A j \in 1..z : F[p + j] = x[j]
    BY <2>1, <2>2, <2>3 DEF HeaderAt
  <2>5. PICK o \in Nat : o = L + p
    BY <2>1
  <2>6. o + z <= E - 2 /\ L <= o
    BY <1>7, <2>1, <2>4, <2>5
  <2>7. T[o] = "LF"
    <3>1. CASE p = 0
      <4>1. o = L /\ L \in 1..L /\ W[L] = "LF"
        BY <1>4, <1>5, <2>5, <3>1 DEF LineEnds
      <4> QED BY <1>6, <4>1
    <3>2. CASE p # 0
      <4>1. p \in 1..n /\ F[p] = "LF"
        BY <2>1, <3>2
      <4> QED BY <1>6, <2>5, <4>1
    <3> QED BY <3>1, <3>2
  <2>8. ASSUME NEW j \in 1..z PROVE T[o + j] = x[j]
    <3>1. p + j \in 1..n /\ L + (p + j) = o + j
      BY <2>1, <2>4, <2>5
    <3> QED BY <1>6, <2>4, <3>1
  <2>9. HeaderAt(T, E - 2, o, e)
    BY <2>2, <2>3, <2>6, <2>8 DEF HeaderAt
  <2> QED BY <2>6, <2>7, <2>9 DEF StandsAt
<1>9. W = Line(r) /\ B = r.body /\ T = Request(r)
  BY <1>3 DEF RequestIs
<1> QED BY <1>1, <1>5, <1>6, <1>7, <1>8, <1>9

-----------------------------------------------------------------------------
(* The loop of parse_Headers().                                            *)

LocalFields == {"state", "headers", "key_start", "key_end", "value_start",
                "value_end", "read_cur", "next", "finished", "failed"}
States == {"H_START", "H_KEY", "H_COLON", "H_SPACES_AFTER_COLON", "H_VALUE", "H_CR",
           "H_LF", "H_END_CR", "H_END_LF"}

Locals(l) ==
  /\ DOMAIN l = LocalFields
  /\ l.key_start \in Nat /\ l.key_end \in Nat /\ l.value_start \in Nat
  /\ l.value_end \in Nat /\ l.read_cur \in Nat
  /\ l.next \in Nat \ {0}
  /\ l.finished \in BOOLEAN /\ l.failed \in BOOLEAN

\* A loop that is over does not turn.
LEMMA StepOver ==
  ASSUME NEW s, NEW l, Locals(l), NEW i \in Nat, l.finished \/ l.failed
  PROVE  step(s, l, i) = l
BY DEF step

\* A turn of the loop that has not come to its end.
Turning(s, l, i, k) ==
  /\ Locals(l) /\ l.state \in States /\ ~l.finished /\ ~l.failed
  /\ i \in Nat /\ k = step(s, l, i)

\* What a turn does in each of the states.
LEMMA TurnStart ==
  ASSUME NEW s, NEW l, NEW i, NEW k, Turning(s, l, i, k), l.state = "H_START"
  PROVE  \/ s[i] \in {"LF", "r"} /\ k.state = "H_START" /\ k.read_cur = l.read_cur
              /\ k.key_start = l.key_start
         \/ s[i] \notin {"LF", "r"} /\ k.state = "H_KEY" /\ k.read_cur = i
              /\ k.key_start = i
BY DEF Turning, step, Locals, LocalFields

LEMMA TurnKey ==
  ASSUME NEW s, NEW l, NEW i, NEW k, Turning(s, l, i, k), l.state = "H_KEY"
  PROVE  /\ k.read_cur = l.read_cur /\ k.key_start = l.key_start
         /\ \/ k.failed
            \/ s[i] = ":" /\ k.state = "H_COLON" /\ k.key_end = i
            \/ s[i] \notin {":", "CR", "LF"} /\ k.state = "H_KEY"
BY DEF Turning, step, Locals, LocalFields

LEMMA TurnColon ==
  ASSUME NEW s, NEW l, NEW i, NEW k, Turning(s, l, i, k), l.state = "H_COLON"
  PROVE  /\ k.read_cur = l.read_cur /\ k.key_start = l.key_start /\ k.key_end = l.key_end
         /\ k.failed \/ (s[i] = "SP" /\ k.state = "H_SPACES_AFTER_COLON")
BY DEF Turning, step, Locals, LocalFields

LEMMA TurnSpaces ==
  ASSUME NEW s, NEW l, NEW i, NEW k, Turning(s, l, i, k), l.state = "H_SPACES_AFTER_COLON"
  PROVE  /\ k.read_cur = l.read_cur /\ k.key_start = l.key_start /\ k.key_end = l.key_end
         /\ k.state = "H_VALUE" /\ k.value_start = i
BY DEF Turning, step, Locals, LocalFields

LEMMA TurnValue ==
  ASSUME NEW s, NEW l, NEW i, NEW k, Turning(s, l, i, k), l.state = "H_VALUE"
  PROVE  /\ k.read_cur = l.read_cur /\ k.key_start = l.key_start /\ k.key_end = l.key_end
         /\ k.value_start = l.value_start
         /\ \/ k.failed
            \/ s[i] = "CR" /\ k.state = "H_CR" /\ k.value_end = i
            \/ s[i] # "CR" /\ k.state = "H_VALUE"
BY DEF Turning, step, Locals, LocalFields

LEMMA TurnCR ==
  ASSUME NEW s, NEW l, NEW i, NEW k, Turning(s, l, i, k), l.state = "H_CR"
  PROVE  \/ k.failed /\ k.headers = l.headers
         \/ s[i] = "LF" /\ k.state = "H_LF" /\ k.read_cur = i
              /\ k.headers = With(l.headers, Key(s, l), Value(s, l))
BY DEF Turning, step, Locals, LocalFields

LEMMA TurnLF ==
  ASSUME NEW s, NEW l, NEW i, NEW k, Turning(s, l, i, k), l.state = "H_LF"
  PROVE  /\ k.read_cur = l.read_cur
         /\ \/ s[i] = "CR" /\ k.state = "H_END_CR"
            \/ s[i] # "CR" /\ k.state = "H_KEY" /\ k.key_start = i
BY DEF Turning, step, Locals, LocalFields

LEMMA TurnEndCR ==
  ASSUME NEW s, NEW l, NEW i, NEW k, Turning(s, l, i, k), l.state = "H_END_CR"
  PROVE  /\ k.read_cur = l.read_cur
         /\ k.failed \/ (s[i] = "LF" /\ k.state = "H_END_LF")
BY DEF Turning, step, Locals, LocalFields

LEMMA TurnEndLF ==
  ASSUME NEW s, NEW l, NEW i, NEW k, Turning(s, l, i, k), l.state = "H_END_LF"
  PROVE  /\ k.state = "H_END_LF" /\ (k.read_cur = l.read_cur \/ k.read_cur = i)
BY DEF Turning, step, Locals, LocalFields

\* What every turn keeps.
LEMMA TurnKeeps ==
  ASSUME NEW s, NEW l, NEW i, NEW k, Turning(s, l, i, k)
  PROVE  /\ Locals(k) /\ k.state \in States
         /\ k.finished => k.state = "H_END_LF"
         /\ k.headers = l.headers \/ (l.state = "H_CR" /\ k.state = "H_LF" /\ ~k.failed)
<1>0. i + 1 \in Nat \ {0}
  BY DEF Turning
<1>1. CASE l.state = "H_START"
  BY ZenonT(30), <1>0, <1>1 DEF Turning, step, Locals, LocalFields, States
<1>2. CASE l.state = "H_KEY"
  BY ZenonT(30), <1>0, <1>2 DEF Turning, step, Locals, LocalFields, States
<1>3. CASE l.state = "H_COLON"
  BY ZenonT(30), <1>0, <1>3 DEF Turning, step, Locals, LocalFields, States
<1>4. CASE l.state = "H_SPACES_AFTER_COLON"
  BY ZenonT(30), <1>0, <1>4 DEF Turning, step, Locals, LocalFields, States
<1>5. CASE l.state = "H_VALUE"
  BY ZenonT(30), <1>0, <1>5 DEF Turning, step, Locals, LocalFields, States
<1>6. CASE l.state = "H_CR"
  BY ZenonT(30), <1>0, <1>6 DEF Turning, step, Locals, LocalFields, States
<1>7. CASE l.state = "H_LF"
  BY ZenonT(30), <1>0, <1>7 DEF Turning, step, Locals, LocalFields, States
<1>8. CASE l.state = "H_END_CR"
  BY ZenonT(30), <1>0, <1>8 DEF Turning, step, Locals, LocalFields, States
<1>9. CASE l.state = "H_END_LF"
  BY ZenonT(30), <1>0, <1>9 DEF Turning, step, Locals, LocalFields, States
<1> QED BY <1>1, <1>2, <1>3, <1>4, <1>5, <1>6, <1>7, <1>8, <1>9 DEF Turning, States

-----------------------------------------------------------------------------
(* What the loop finds in the tokens of a request.                         *)

\* A key that no request has.
Spurious(key) == 1 \notin DOMAIN key \/ key[1] \in {"junk", "LF"}

Genuine(headers, H) ==
  \A key \in DOMAIN headers : Spurious(key) \/ <<key, headers[key]>> \in H

InValue == {"H_COLON", "H_SPACES_AFTER_COLON", "H_VALUE", "H_CR"}

\* The tokens of a header.
HeaderStands(T, E, o, k, v, e) ==
  /\ k \in Nat \ {0} /\ v \in Nat \ {0} /\ k = Len(e[1]) /\ v = Len(e[2])
  /\ o + k + v + 4 <= E - 2
  /\ \A j \in 1..k : T[o + j] = e[1][j] /\ T[o + j] \notin {"CR", "LF", ":", "SP"}
  /\ T[o + k + 1] = ":" /\ T[o + k + 2] = "SP"
  /\ \A j \in 1..v : T[o + k + 2 + j] = e[2][j] /\ T[o + k + 2 + j] \notin {"CR", "LF"}
  /\ T[o + k + v + 3] = "CR" /\ T[o + k + v + 4] = "LF"

\* They are the tokens of the header.
LEMMA HeaderAtStands ==
  ASSUME NEW T, NEW E, NEW o \in Int, NEW e, HeaderAt(T, E - 2, o, e), PlainHeader(e)
  PROVE  HeaderStands(T, E, o, Len(e[1]), Len(e[2]), e)
<1>1. PICK k, v, s : /\ s = Header(e) /\ k = Len(e[1]) /\ v = Len(e[2])
                     /\ HeaderParts(e, k, v, s)
  BY HeaderHasParts
<1>2. k \in Nat \ {0} /\ v \in Nat \ {0} /\ Len(s) = k + v + 4
  BY <1>1 DEF HeaderParts
<1>3. o + (k + v + 4) <= E - 2 /\ \A j \in 1..(k + v + 4) : T[o + j] = s[j]
  BY <1>1, <1>2 DEF HeaderAt
<1>4. \A j \in 1..k : T[o + j] = e[1][j] /\ T[o + j] \notin {"CR", "LF", ":", "SP"}
  <2>1. \A j \in 1..k : s[j] = e[1][j] /\ s[j] \notin {"CR", "LF", ":", "SP"}
    BY <1>1 DEF HeaderParts
  <2> QED BY <1>2, <1>3, <2>1
<1>5. T[o + (k + 1)] = ":" /\ T[o + (k + 2)] = "SP"
  <2>1. s[k + 1] = ":" /\ s[k + 2] = "SP"
    BY <1>1 DEF HeaderParts
  <2> QED BY <1>2, <1>3, <2>1
<1>6. \A j \in 1..v : T[o + (k + 2 + j)] = e[2][j] /\ T[o + (k + 2 + j)] \notin {"CR", "LF"}
  <2>1. \A j \in 1..v : s[k + 2 + j] = e[2][j] /\ s[k + 2 + j] \notin {"CR", "LF"}
    BY <1>1 DEF HeaderParts
  <2>2. \A j \in 1..v : k + 2 + j \in 1..(k + v + 4)
    BY <1>2
  <2> QED BY <1>3, <2>1, <2>2
<1>7. T[o + (k + v + 3)] = "CR" /\ T[o + (k + v + 4)] = "LF"
  <2>1. s[k + v + 3] = "CR" /\ s[k + v + 4] = "LF"
    BY <1>1 DEF HeaderParts
  <2> QED BY <1>2, <1>3, <2>1
<1>8. /\ o + (k + 1) = o + k + 1 /\ o + (k + 2) = o + k + 2
      /\ o + (k + v + 3) = o + k + v + 3 /\ o + (k + v + 4) = o + k + v + 4
      /\ \A j \in 1..v : o + (k + 2 + j) = o + k + 2 + j
  BY <1>2
<1> HIDE DEF HeaderAt
<1>9. o + k + v + 4 <= E - 2
  BY <1>3, <1>8
<1>10. T[o + k + 1] = ":" /\ T[o + k + 2] = "SP"
  BY <1>5, <1>8
<1>11. T[o + k + v + 3] = "CR" /\ T[o + k + v + 4] = "LF"
  BY <1>7, <1>8
<1>12. \A j \in 1..v : T[o + k + 2 + j] = e[2][j] /\ T[o + k + 2 + j] \notin {"CR", "LF"}
  BY <1>6, <1>8
<1>13. HeaderStands(T, E, o, k, v, e)
  BY <1>1, <1>2, <1>4, <1>9, <1>10, <1>11, <1>12 DEF HeaderStands
<1> QED BY <1>1, <1>13

\* A header begins behind the end of a line, unless that is the last line.
LEMMA HeaderBegins ==
  ASSUME NEW T, NEW L, NEW E, NEW H, Shape(T, L, E, H), NEW p \in Nat, p >= 1, p < E,
         T[p] = "LF", T[p + 1] # "CR"
  PROVE  \E e \in H : /\ HeaderAt(T, E - 2, p, e) /\ Len(e[1]) \in Nat \ {0}
                      /\ Len(e[2]) \in Nat \ {0}
<1>1. /\ L \in Nat /\ E \in Nat /\ 3 <= L /\ L + 2 <= E
      /\ T[E - 1] = "CR" /\ T[L - 1] = "CR"
      /\ \A q \in 1..(L - 2) : T[q] \notin {"CR", "LF"}
  BY DEF Shape
<1>2. p # E - 2 /\ p # E - 1
  BY <1>1
<1>3. p \in L..(E - 3)
  BY <1>1, <1>2
<1>4. PICK e \in H : HeaderAt(T, E - 2, p, e) /\ PlainHeader(e)
  BY <1>3 DEF Shape
<1> QED BY <1>4, PlainParts

\* Behind the end of a line stands no colon.
LEMMA NameBegins ==
  ASSUME NEW T, NEW L, NEW E, NEW H, Shape(T, L, E, H), NEW p \in Nat, p >= 1, p < E,
         T[p] = "LF"
  PROVE  T[p + 1] # ":"
<1> SUFFICES ASSUME T[p + 1] # "CR" PROVE T[p + 1] # ":"
  OBVIOUS
<1>1. PICK e \in H : /\ HeaderAt(T, E - 2, p, e) /\ Len(e[1]) \in Nat \ {0}
                     /\ Len(e[2]) \in Nat \ {0}
  BY HeaderBegins
<1>a. p \in Int /\ PlainHeader(e)
  BY <1>1 DEF Shape
<1>2. PICK k, v : HeaderStands(T, E, p, k, v, e)
  BY <1>1, <1>a, HeaderAtStands
<1>3. k \in Nat \ {0} /\ \A j \in 1..k : T[p + j] # ":"
  BY <1>2 DEF HeaderStands
<1>4. 1 \in 1..k
  BY <1>3
<1> QED BY <1>3, <1>4

\* The loop is within a header e of the request, which begins behind o.
Within(T, E, b, p, l, e, o, k, v) ==
  /\ k = Len(e[1]) /\ v = Len(e[2])
  /\ HeaderAt(T, E - 2, o, e)
  /\ o = b - 2 + l.key_start
  /\ l.state = "H_KEY" => o < p /\ p <= o + k
  /\ l.state # "H_KEY" => b - 1 + l.key_end = o + k + 1
  /\ l.state = "H_COLON" => p = o + k + 1
  /\ l.state = "H_SPACES_AFTER_COLON" => p = o + k + 2
  /\ l.state = "H_VALUE" => o + k + 3 <= p /\ p <= o + k + 2 + v
  /\ l.state \in {"H_VALUE", "H_CR"} => b - 1 + l.value_start = o + k + 3
  /\ l.state = "H_CR" => p = o + k + v + 3 /\ b - 1 + l.value_end = p

Tracks(T, E, H, b, p, l) ==
  \E e \in H : \E o, k, v : Within(T, E, b, p, l, e, o, k, v)

\* It is, or the key begins with something that no name begins with, or the
\* end of the header has not arrived.
KeyFrom(T, L, E, H, b, m, p, l) ==
  \/ l.key_start = 0
  \/ l.key_start <= p + 1 - b /\ T[b - 1 + l.key_start] = "LF"
  \/ l.state = "H_KEY" /\ p = E - 1
  \/ m < L - 1
  \/ Tracks(T, E, H, b, p, l)

\* c is where a line begins, or the end of the line in front of it.
LineBegins(T, c) == c = 1 \/ T[c - 1] = "LF" \/ T[c] = "LF"

\* No colon from c to p.
NoColon(T, c, p) == \A x \in c..p : T[x] # ":"

\* The buffer holds the tokens of T from b to m; the loop has looked at those
\* up to p.
Place(T, L, E, b, m, p, l) ==
  LET c == b - 1 + l.read_cur IN
  /\ l.read_cur >= 1 /\ c <= p + 1
  /\ IF l.state = "H_END_LF" THEN m >= E ELSE p < E
  /\ l.state = "H_START" =>
       /\ l.read_cur = 1
       /\ (b = 1 /\ p = 0 /\ m < L - 1) \/ (b = L /\ \A q \in L..p : T[q] \in {"LF", "r"})
  /\ l.state = "H_KEY" =>
       p = b - 1 \/ (c <= p /\ (T[c] # "CR" \/ p = E - 1) /\ NoColon(T, c, p))
  /\ l.state \in InValue => c <= E - 4 /\ T[c] # "CR"
  /\ l.state \in InValue \union {"H_KEY"} => T[c] # "SP" /\ LineBegins(T, c)
  /\ l.state = "H_COLON" => p = b - 1 \/ (T[p] = ":" /\ NoColon(T, c, p - 1))
  /\ l.state = "H_SPACES_AFTER_COLON" =>
       p = b - 1 \/ (p > b /\ T[p - 1] = ":" /\ T[p] = "SP" /\ NoColon(T, c, p - 2))
  /\ l.state = "H_VALUE" => p = b - 1 \/ (T[p] # "CR" /\ (T[p] = "LF" => p = b))
  /\ l.state = "H_CR" => p = b - 1 \/ (T[p] = "CR" /\ p # E - 1)
  /\ l.state = "H_LF" => IF p = b - 1 THEN T[b] = "LF" /\ b < E - 1
                                      ELSE T[p] = "LF" /\ c = p
  /\ l.state = "H_END_CR" => IF p = b - 1 THEN m >= E ELSE p = E - 1

Scan(T, L, E, H, b, m, p, l) ==
  /\ Locals(l) /\ l.state \in States
  /\ Genuine(l.headers, H)
  /\ l.finished => l.state = "H_END_LF"
  /\ l.failed \/ Place(T, L, E, b, m, p, l)
  /\ l.state \in InValue \union {"H_KEY"} /\ ~l.failed => KeyFrom(T, L, E, H, b, m, p, l)

\* Token i of s is token p + 1 of T.
Reads(T, b, p, s, i) ==
  /\ b \in Nat /\ b >= 1 /\ p \in Nat /\ p >= b - 1 /\ i \in Nat /\ i = p + 2 - b
  /\ \A j \in 1..i : s[j] = T[b - 1 + j]

\* A turn moves the loop on by one token.
LEMMA PlaceStep ==
  ASSUME NEW T, NEW L, NEW E, NEW H, Shape(T, L, E, H),
         NEW b, NEW p, NEW s, NEW i, Reads(T, b, p, s, i), NEW m \in Nat, p < m,
         NEW l, NEW k, Turning(s, l, i, k), Place(T, L, E, b, m, p, l), ~k.failed
  PROVE  Place(T, L, E, b, m, p + 1, k)
<1> DEFINE q == p + 1
<1>1. /\ b \in Nat /\ b >= 1 /\ p \in Nat /\ p >= b - 1 /\ i \in Nat /\ i = p + 2 - b
      /\ i >= 1 /\ s[i] = T[q] /\ q \in Nat /\ b - 1 + i = q
  BY DEF Reads
<1>2. /\ Len(T) \in Nat /\ L \in Nat /\ E \in Nat /\ 3 <= L /\ L + 2 <= E
      /\ T[1] \notin {"CR", "LF", "r"}
      /\ T[E - 3] = "CR" /\ T[E - 2] = "LF" /\ T[E - 1] = "CR" /\ T[E] = "LF"
      /\ T[L] = "LF" /\ T[L - 1] = "CR"
  BY DEF Shape
<1>f. T[1] # "SP" /\ T[1] # ":" /\ T[L + 1] # "SP"
  BY DEF Shape
<1>3. l.read_cur \in Nat /\ k.read_cur \in Nat
  <2>1. Locals(k) /\ Locals(l)
    BY TurnKeeps DEF Turning
  <2> QED BY <2>1 DEF Locals
<1>a. l.read_cur >= 1 /\ b - 1 + l.read_cur <= p + 1
  BY DEF Place
<1>e. /\ T[q] = "LF" \/ q # E
      /\ T[q] = "CR" \/ q # E - 1
      /\ T[q] = "LF" \/ q # E - 2
      /\ T[q] = "CR" \/ q # E - 3
  BY <1>2
<1>b. T[q] = "LF" /\ q <= E => T[p] = "CR"
  <2> SUFFICES ASSUME T[q] = "LF", q <= E PROVE T[p] = "CR"
    OBVIOUS
  <2>1. p \in 1..(E - 1)
    <3>1. p # 0
      BY <1>1, <1>2
    <3> QED BY <1>1, <1>2, <3>1
  <2> QED BY <2>1 DEF Shape
<1>c. ASSUME T[q] = "CR", q <= E, q > b
      PROVE  (T[p] = "LF" <=> q = E - 1) /\ InAValue(T, q)
  <2>1. q - 1 = p /\ q \in 2..E
    BY <1>1, <1>2, <1>c
  <2> QED BY <1>c, <2>1 DEF Shape
<1>4. CASE l.state = "H_START"
  <2>1. /\ l.read_cur = 1 /\ p < E
        /\ (b = 1 /\ p = 0) \/ (b = L /\ \A x \in L..p : T[x] \in {"LF", "r"})
    BY <1>4 DEF Place
  <2>2. CASE T[q] \in {"LF", "r"} /\ k.state = "H_START" /\ k.read_cur = l.read_cur
    <3>1. b = L /\ \A x \in L..q : T[x] \in {"LF", "r"}
      BY <1>1, <1>2, <2>1, <2>2
    <3>2. q < E
      <4>1. q \in L..q
        BY <1>1, <1>2, <3>1
      <4>2. T[q] # "CR"
        BY <3>1, <4>1
      <4>3. q # E
        <5> SUFFICES ASSUME q = E PROVE FALSE
          OBVIOUS
        <5>1. E - 1 \in L..q
          BY <1>2
        <5>2. T[E - 1] \in {"LF", "r"}
          BY <3>1, <5>1
        <5> QED BY <1>2, <5>2
      <4> QED BY <1>1, <1>2, <2>1, <4>3
    <3> QED BY <1>1, <1>3, <2>1, <2>2, <3>1, <3>2 DEF Place, InValue
  <2>3. CASE T[q] \notin {"LF", "r"} /\ k.state = "H_KEY" /\ k.read_cur = i
    <3>1. q < E
      <4>1. q # E
        BY <1>e, <2>3
      <4> QED BY <1>1, <1>2, <2>1, <4>1
    <3>2. T[q] = "CR" => q = E - 1
      <4>1. CASE b = 1 /\ p = 0
        BY <1>1, <1>2, <2>3, <4>1
      <4>2. CASE b = L /\ \A x \in L..p : T[x] \in {"LF", "r"}
        <5>1. CASE p = L - 1
          BY <1>1, <1>2, <2>3, <4>2, <5>1
        <5>2. CASE p >= L
          <6> SUFFICES ASSUME T[q] = "CR" PROVE q = E - 1
            OBVIOUS
          <6>1. T[p] \in {"LF", "r"}
            BY <1>1, <1>2, <4>2, <5>2
          <6>2. q - 1 = p /\ q \in 2..E
            BY <1>1, <1>2, <3>1, <5>2
          <6>3. T[p] = "LF" <=> q = E - 1
            BY <6>2 DEF Shape
          <6>4. T[p] = "LF"
            <7>1. CASE p = L
              BY <1>2, <7>1
            <7>2. CASE p > L
              <8>1. T[L + 1] \in {"LF", "r"}
                BY <1>1, <1>2, <4>2, <7>2
              <8> QED BY <8>1 DEF Shape
            <7> QED BY <1>1, <1>2, <5>2, <7>1, <7>2
          <6> QED BY <6>3, <6>4
        <5> QED BY <1>1, <1>2, <4>2, <5>1, <5>2
      <4> QED BY <2>1, <4>1, <4>2
    <3>3. T[q] # "SP"
      <4>1. CASE b = 1 /\ p = 0
        BY <1>1, <1>f, <4>1
      <4>2. CASE b = L /\ \A x \in L..p : T[x] \in {"LF", "r"}
        <5>1. CASE p = L - 1
          BY <1>2, <5>1
        <5>2. CASE p = L
          BY <1>f, <5>2
        <5>3. CASE p > L
          <6>1. T[L + 1] \in {"LF", "r"}
            BY <1>1, <1>2, <4>2, <5>3
          <6> QED BY <6>1 DEF Shape
        <5> QED BY <1>1, <1>2, <4>2, <5>1, <5>2, <5>3
      <4> QED BY <2>1, <4>1, <4>2
    <3>4. b - 1 + k.read_cur = q /\ k.read_cur >= 1
      BY <1>1, <1>3, <2>3
    <3>5. T[q] # ":" /\ LineBegins(T, q)
      <4>1. CASE b = 1 /\ p = 0
        BY <1>1, <1>f, <4>1 DEF LineBegins
      <4>2. CASE b = L /\ \A x \in L..p : T[x] \in {"LF", "r"}
        <5>1. CASE p = L - 1
          BY <1>2, <2>3, <5>1
        <5>2. CASE p = L
          <6>1. T[p] = "LF" /\ q - 1 = p /\ p >= 1 /\ p < E
            BY <1>1, <1>2, <5>2
          <6>2. T[p + 1] # ":"
            BY <1>1, <6>1, NameBegins
          <6> QED BY <6>1, <6>2 DEF LineBegins
        <5>3. CASE p > L
          <6>1. T[L + 1] \in {"LF", "r"}
            BY <1>1, <1>2, <4>2, <5>3
          <6> QED BY <6>1 DEF Shape
        <5> QED BY <1>1, <1>2, <4>2, <5>1, <5>2, <5>3
      <4> QED BY <2>1, <4>1, <4>2
    <3>6. NoColon(T, q, q)
      BY <1>1, <3>5 DEF NoColon
    <3> QED BY <1>1, <1>3, <2>3, <3>1, <3>2, <3>3, <3>4, <3>5, <3>6 DEF Place, InValue
  <2> QED BY <1>1, <1>4, <2>2, <2>3, TurnStart
<1>5. CASE l.state = "H_KEY"
  <2>1. /\ p < E
        /\ p = b - 1 \/ (b - 1 + l.read_cur <= p /\ (T[b - 1 + l.read_cur] # "CR" \/ p = E - 1))
    BY <1>5 DEF Place
  <2>a. /\ k.read_cur = l.read_cur
        /\ \/ T[q] = ":" /\ k.state = "H_COLON"
           \/ T[q] \notin {":", "CR", "LF"} /\ k.state = "H_KEY"
    BY <1>1, <1>5, TurnKey
  <2>2. T[q] \notin {"CR", "LF"}
    BY <2>a
  <2>3. q < E /\ q # E - 1 /\ q # E - 3 /\ q # E - 2 /\ p # E - 1
    BY <1>1, <1>2, <1>e, <2>1, <2>2
  <2>4. b - 1 + l.read_cur <= q /\ T[b - 1 + l.read_cur] # "CR"
    <3>1. CASE b - 1 + l.read_cur = q
      BY <1>1, <2>2, <3>1
    <3>2. CASE b - 1 + l.read_cur <= p
      <4>1. p # b - 1
        BY <1>1, <1>3, <1>a, <3>2
      <4>2. T[b - 1 + l.read_cur] # "CR"
        BY <2>1, <2>3, <4>1
      <4> QED BY <1>1, <1>3, <3>2, <4>2
    <3> QED BY <1>1, <1>3, <1>a, <3>1, <3>2
  <2>b. /\ b - 1 + k.read_cur <= q /\ k.read_cur >= 1
        /\ T[b - 1 + k.read_cur] # "CR"
    BY <2>a, <2>4, <1>a
  <2>c. T[b - 1 + k.read_cur] # "SP" /\ LineBegins(T, b - 1 + k.read_cur)
    BY <1>5, <2>a DEF Place
  <2>d. PICK c \in Nat : c = b - 1 + k.read_cur
    BY <1>1, <1>3, <2>b
  <2>e. NoColon(T, c, p)
    <3>1. CASE p = b - 1
      <4>1. c > p
        BY <1>1, <1>3, <2>b, <2>d, <3>1
      <4> QED BY <1>1, <4>1 DEF NoColon
    <3>2. CASE p # b - 1
      BY <1>5, <2>a, <2>d, <3>2 DEF Place
    <3> QED BY <3>1, <3>2
  <2>5. CASE T[q] = ":" /\ k.state = "H_COLON"
    <3>1. q <= E - 4
      BY <1>1, <1>2, <2>3
    <3>2. b - 1 + k.read_cur <= E - 4
      BY <1>1, <1>2, <1>3, <2>b, <3>1
    <3>3. NoColon(T, b - 1 + k.read_cur, q - 1)
      <4>1. q - 1 = p
        BY <1>1
      <4> QED BY <2>d, <2>e, <4>1
    <3> QED BY <1>1, <1>3, <2>b, <2>c, <2>3, <2>5, <3>2, <3>3 DEF Place, InValue
  <2>6. CASE T[q] # ":" /\ k.state = "H_KEY"
    <3>1. NoColon(T, c, q)
      BY <1>1, <2>e, <2>6 DEF NoColon
    <3> QED BY <1>1, <1>3, <2>b, <2>c, <2>d, <2>3, <2>6, <3>1 DEF Place, InValue
  <2> QED BY <2>a, <2>5, <2>6
<1>6. ASSUME l.state \in InValue, k.state \in InValue, k.read_cur = l.read_cur, q < E,
             k.state # "H_COLON",
             k.state = "H_SPACES_AFTER_COLON" =>
               /\ q > b /\ T[q - 1] = ":" /\ T[q] = "SP"
               /\ NoColon(T, b - 1 + k.read_cur, q - 2),
             k.state = "H_VALUE" => T[q] # "CR" /\ (T[q] = "LF" => q = b),
             k.state = "H_CR" => T[q] = "CR" /\ q # E - 1
      PROVE  Place(T, L, E, b, m, q, k)
  <2>1. /\ b - 1 + l.read_cur <= E - 4
        /\ T[b - 1 + l.read_cur] # "CR" /\ T[b - 1 + l.read_cur] # "SP"
        /\ LineBegins(T, b - 1 + l.read_cur)
    BY <1>6 DEF Place
  <2>2. /\ k.read_cur >= 1 /\ b - 1 + k.read_cur <= q + 1
        /\ b - 1 + k.read_cur <= E - 4
        /\ T[b - 1 + k.read_cur] # "CR" /\ T[b - 1 + k.read_cur] # "SP"
        /\ LineBegins(T, b - 1 + k.read_cur)
    BY <1>1, <1>3, <1>6, <1>a, <2>1
  <2> QED BY <1>6, <2>2 DEF Place, InValue
<1>d. ASSUME l.state \in InValue
      PROVE  b <= E - 4 /\ p < E /\ (p = b - 1 => T[b] # "CR" /\ T[b] # "SP")
  <2>1. /\ b - 1 + l.read_cur <= E - 4
        /\ T[b - 1 + l.read_cur] # "CR" /\ T[b - 1 + l.read_cur] # "SP"
    BY <1>d DEF Place
  <2>2. p < E
    <3>1. l.state # "H_END_LF"
      BY <1>d DEF InValue
    <3> QED BY <3>1 DEF Place
  <2>3. b <= E - 4
    BY <1>1, <1>2, <1>3, <1>a, <2>1
  <2>4. p = b - 1 => b - 1 + l.read_cur = b
    <3>1. PICK c \in Nat : c = l.read_cur
      BY <1>3
    <3>2. c >= 1 /\ b - 1 + c <= p + 1 /\ b \in Nat /\ p \in Nat
      BY <1>1, <1>a, <3>1
    <3>3. p = b - 1 => b - 1 + c = b
      BY <3>2
    <3> QED BY <3>1, <3>3
  <2> QED BY <2>1, <2>2, <2>3, <2>4
<1>7. CASE l.state = "H_COLON"
  <2>1. k.read_cur = l.read_cur /\ T[q] = "SP" /\ k.state = "H_SPACES_AFTER_COLON"
    BY <1>1, <1>7, TurnColon
  <2>2. q < E
    <3>1. q # E
      BY <1>e, <2>1
    <3>2. p < E
      BY <1>7, <1>d DEF InValue
    <3> QED BY <1>1, <1>2, <3>1, <3>2
  <2>3. q > b /\ T[q - 1] = ":" /\ NoColon(T, b - 1 + k.read_cur, q - 2)
    <3>1. p = b - 1 \/ (T[p] = ":" /\ NoColon(T, b - 1 + l.read_cur, p - 1))
      BY <1>7 DEF Place
    <3>2. p # b - 1
      <4>1. p = b - 1 => T[b] # "SP"
        BY <1>7, <1>d DEF InValue
      <4>2. p = b - 1 => q = b
        BY <1>1
      <4> QED BY <2>1, <4>1, <4>2
    <3>3. q - 2 = p - 1 /\ q - 1 = p /\ (p # b - 1 => q > b)
      BY <1>1
    <3> QED BY <2>1, <3>1, <3>2, <3>3
  <2> QED BY <1>6, <1>7, <2>1, <2>2, <2>3 DEF InValue
<1>8. CASE l.state = "H_SPACES_AFTER_COLON"
  <2>1. k.read_cur = l.read_cur /\ k.state = "H_VALUE"
    BY <1>1, <1>8, TurnSpaces
  <2>2. /\ p < E /\ b <= E - 4
        /\ p = b - 1 => T[b] # "CR"
    BY <1>8, <1>d DEF Place, InValue
  <2>3. T[q] # "CR"
    <3> SUFFICES ASSUME T[q] = "CR", p # b - 1 PROVE FALSE
      BY <1>1, <2>2
    <3>1. PICK c : c = b - 1 + l.read_cur
      OBVIOUS
    <3>2. /\ p > b /\ T[p - 1] = ":" /\ T[p] = "SP" /\ NoColon(T, c, p - 2)
          /\ LineBegins(T, c) /\ c <= p + 1
      BY <1>8, <3>1 DEF Place, InValue
    <3>3. /\ q <= E /\ q > b /\ q > 2 /\ q - 2 = p - 1 /\ q - 1 = p /\ q - 3 = p - 2
          /\ c \in Nat /\ c >= 1
      <4>1. p < E /\ E \in Nat /\ p > b
        BY <1>2, <2>2, <3>2
      <4>2. c \in Nat /\ c >= 1
        BY <1>1, <1>3, <1>a, <3>1
      <4> QED BY <1>1, <4>1, <4>2
    <3>4. InAValue(T, q)
      BY <1>c, <3>3
    <3>5. PICK d \in 1..(p - 2) : T[d] = ":" /\ \A x \in d..p : T[x] # "LF"
      BY <3>2, <3>3, <3>4 DEF InAValue
    <3>6. d < c
      BY <1>1, <3>2, <3>3, <3>5 DEF NoColon
    <3>7. c - 1 \in d..p
      BY <1>1, <3>2, <3>3, <3>5, <3>6
    <3>8. T[c] = "LF" /\ c = p + 1
      BY <1>1, <3>2, <3>3, <3>5, <3>6, <3>7 DEF LineBegins
    <3> QED BY <3>8
  <2>4. T[q] = "LF" => q = b
    <3> SUFFICES ASSUME T[q] = "LF", p # b - 1 PROVE FALSE
      BY <1>1
    <3>1. q <= E
      BY <1>1, <1>2, <2>2
    <3>2. T[p] = "CR"
      BY <1>b, <3>1
    <3> QED BY <1>8, <3>2 DEF Place
  <2>5. q < E
    BY <1>1, <1>2, <2>2, <2>4
  <2> QED BY <1>6, <1>8, <2>1, <2>3, <2>4, <2>5 DEF InValue
<1>9. CASE l.state = "H_VALUE"
  <2>1. /\ k.read_cur = l.read_cur
        /\ \/ T[q] = "CR" /\ k.state = "H_CR"
           \/ T[q] # "CR" /\ k.state = "H_VALUE"
    BY <1>1, <1>9, TurnValue
  <2>2. /\ p < E /\ b <= E - 4
        /\ p = b - 1 => T[b] # "CR"
        /\ p = b - 1 \/ (T[p] # "CR" /\ (T[p] = "LF" => p = b))
    BY <1>9, <1>d DEF Place, InValue
  <2>3. T[q] = "LF" => q = b
    BY <1>1, <1>2, <1>b, <2>2
  <2>4. q < E
    <3>1. q # E
      BY <1>1, <1>2, <1>e, <2>2, <2>3
    <3> QED BY <1>1, <1>2, <2>2, <3>1
  <2>5. T[q] = "CR" => q # E - 1
    BY <1>1, <1>2, <1>c, <2>2
  <2> QED BY <1>6, <1>9, <2>1, <2>3, <2>4, <2>5 DEF InValue
<1>10. CASE l.state = "H_CR"
  <2>1. T[q] = "LF" /\ k.state = "H_LF" /\ k.read_cur = i
    BY <1>1, <1>10, TurnCR
  <2>2. p < E /\ b <= E - 4 /\ (p = b - 1 \/ p # E - 1)
    BY <1>10, <1>d DEF Place, InValue
  <2>3. q < E /\ q # b - 1 /\ b - 1 + k.read_cur = q /\ k.read_cur >= 1
    BY <1>1, <1>2, <1>3, <2>1, <2>2
  <2> QED BY <1>1, <1>3, <2>1, <2>3 DEF Place, InValue
<1>11. CASE l.state = "H_LF"
  <2>1. /\ k.read_cur = l.read_cur
        /\ \/ T[q] = "CR" /\ k.state = "H_END_CR"
           \/ T[q] # "CR" /\ k.state = "H_KEY"
    BY <1>1, <1>11, TurnLF
  <2>2. p < E /\ IF p = b - 1 THEN T[b] = "LF" /\ b < E - 1
                              ELSE T[p] = "LF" /\ b - 1 + l.read_cur = p
    BY <1>11 DEF Place
  <2>3. q < E /\ (T[q] = "CR" => q = E - 1)
    <3>1. CASE p = b - 1
      BY <1>1, <1>2, <2>2, <3>1
    <3>2. CASE p # b - 1
      <4>1. T[p] = "LF" /\ q > b /\ q <= E
        BY <1>1, <1>2, <2>2, <3>2
      <4>2. T[q] = "CR" => q = E - 1
        BY <1>c, <4>1
      <4>3. p # E - 1
        BY <1>2, <4>1
      <4> QED BY <1>1, <1>2, <4>1, <4>2, <4>3
    <3> QED BY <3>1, <3>2
  <2>4. b - 1 + k.read_cur <= q /\ T[b - 1 + k.read_cur] = "LF"
    BY <1>1, <1>2, <1>3, <1>a, <2>1, <2>2
  <2>5. q # b - 1 /\ k.read_cur >= 1 /\ b - 1 + k.read_cur <= q + 1
    BY <1>1, <1>3, <1>a, <2>1
  <2>6. LineBegins(T, b - 1 + k.read_cur)
    BY <2>4 DEF LineBegins
  <2>7. NoColon(T, b - 1 + k.read_cur, q)
    <3>1. PICK c : c = b - 1 + k.read_cur
      OBVIOUS
    <3>2. CASE p = b - 1
      <4>1. c = q /\ T[c] # ":"
        BY <1>1, <1>3, <1>a, <2>1, <2>2, <2>4, <3>1, <3>2
      <4> QED BY <1>1, <3>1, <4>1 DEF NoColon
    <3>3. CASE p # b - 1
      <4>1. c = p /\ T[p] = "LF" /\ p >= 1 /\ p < E
        BY <1>1, <2>1, <2>2, <3>1, <3>3
      <4>2. T[p + 1] # ":"
        BY <1>1, <4>1, NameBegins
      <4> QED BY <1>1, <3>1, <4>1, <4>2 DEF NoColon
    <3> QED BY <3>2, <3>3
  <2> QED BY <2>1, <2>3, <2>4, <2>5, <2>6, <2>7 DEF Place, InValue
<1>12. CASE l.state = "H_END_CR"
  <2>1. T[q] = "LF" /\ k.state = "H_END_LF" /\ k.read_cur = l.read_cur
    BY <1>1, <1>12, TurnEndCR
  <2>2. m >= E
    BY <1>1, <1>2, <1>12 DEF Place
  <2> QED BY <1>1, <1>3, <1>a, <2>1, <2>2 DEF Place, InValue
<1>13. CASE l.state = "H_END_LF"
  <2>1. k.state = "H_END_LF" /\ (k.read_cur = l.read_cur \/ k.read_cur = i)
    BY <1>13, TurnEndLF
  <2>2. m >= E
    BY <1>13 DEF Place
  <2> QED BY <1>1, <1>3, <1>a, <2>1, <2>2 DEF Place, InValue
<1> QED BY <1>4, <1>5, <1>7, <1>8, <1>9, <1>10, <1>11, <1>12, <1>13 DEF Turning, States

\* A header is tracked from the first letter of its name on.
LEMMA TracksBegin ==
  ASSUME NEW T, NEW L, NEW E, NEW H, Shape(T, L, E, H), NEW p \in Nat, p >= 1, p < E,
         T[p] = "LF", T[p + 1] # "CR", NEW b \in Nat, NEW k, k.state = "H_KEY",
         k.key_start \in Nat, b - 2 + k.key_start = p
  PROVE  Tracks(T, E, H, b, p + 1, k)
<1>1. PICK e \in H : /\ HeaderAt(T, E - 2, p, e) /\ Len(e[1]) \in Nat \ {0}
                     /\ Len(e[2]) \in Nat \ {0}
  BY HeaderBegins
<1>2. Within(T, E, b, p + 1, k, e, p, Len(e[1]), Len(e[2]))
  BY <1>1 DEF Within
<1> QED BY <1>2 DEF Tracks

\* Within a header the loop finds what stands there.
LEMMA WithinStep ==
  ASSUME NEW T, NEW L, NEW E, NEW H, Shape(T, L, E, H),
         NEW b, NEW p, NEW s, NEW i, Reads(T, b, p, s, i),
         NEW l, NEW k, Turning(s, l, i, k), ~k.failed,
         l.state \in {"H_KEY", "H_COLON", "H_SPACES_AFTER_COLON", "H_VALUE"},
         NEW e \in H, NEW o, NEW kk, NEW v, Within(T, E, b, p, l, e, o, kk, v)
  PROVE  Within(T, E, b, p + 1, k, e, o, kk, v)
<1>1. /\ b \in Nat /\ p \in Nat /\ i \in Nat /\ b - 1 + i = p + 1
      /\ s[i] = T[p + 1]
  BY DEF Reads
<1>2. /\ l.key_start \in Nat /\ l.key_end \in Nat /\ l.value_start \in Nat
      /\ k.key_start \in Nat /\ k.key_end \in Nat /\ k.value_start \in Nat
      /\ k.value_end \in Nat
  <2>1. Locals(k) /\ Locals(l)
    BY TurnKeeps DEF Turning
  <2> QED BY <2>1 DEF Locals
<1>b. o = b - 2 + l.key_start /\ HeaderAt(T, E - 2, o, e) /\ kk = Len(e[1]) /\ v = Len(e[2])
  BY DEF Within
<1>c. /\ l.state = "H_KEY" => o < p /\ p <= o + kk
      /\ l.state # "H_KEY" => b - 1 + l.key_end = o + kk + 1
      /\ l.state = "H_COLON" => p = o + kk + 1
      /\ l.state = "H_SPACES_AFTER_COLON" => p = o + kk + 2
      /\ l.state = "H_VALUE" => o + kk + 3 <= p /\ p <= o + kk + 2 + v
      /\ l.state = "H_VALUE" => b - 1 + l.value_start = o + kk + 3
  BY DEF Within
<1>4. o \in Int
  BY <1>1, <1>2, <1>b
<1>5. HeaderStands(T, E, o, kk, v, e)
  BY <1>b, <1>4, HeaderAtStands DEF Shape
<1>6. kk \in Nat \ {0} /\ v \in Nat \ {0}
  BY <1>5 DEF HeaderStands
<1>7. CASE l.state = "H_KEY"
  <2>1. /\ k.key_start = l.key_start
        /\ \/ T[p + 1] = ":" /\ k.state = "H_COLON" /\ k.key_end = i
           \/ T[p + 1] # ":" /\ k.state = "H_KEY"
    BY <1>1, <1>7, TurnKey
  <2>2. CASE p = o + kk
    <3>1. T[p + 1] = ":"
      BY <1>1, <1>5, <2>2 DEF HeaderStands
    <3>2. k.state = "H_COLON" /\ k.key_end = i
      BY <2>1, <3>1
    <3>3. o = b - 2 + k.key_start
      BY <1>b, <2>1
    <3>4. b - 1 + k.key_end = o + kk + 1 /\ p + 1 = o + kk + 1
      BY <1>1, <1>4, <1>6, <2>2, <3>2
    <3> QED BY <1>b, <3>2, <3>3, <3>4 DEF Within
  <2>3. CASE p < o + kk
    <3>1. p + 1 - o \in 1..kk /\ o + (p + 1 - o) = p + 1
      <4>1. o < p
        BY <1>c, <1>7
      <4>2. PICK x \in Int : x = p + 1 - o
        BY <1>1, <1>4
      <4>3. x >= 1 /\ x <= kk /\ o + x = p + 1
        BY <1>1, <1>4, <1>6, <2>3, <4>1, <4>2
      <4> QED BY <1>6, <4>2, <4>3
    <3>2. T[p + 1] # ":"
      BY <1>5, <3>1 DEF HeaderStands
    <3>3. k.state = "H_KEY"
      BY <2>1, <3>2
    <3>4. o < p + 1 /\ p + 1 <= o + kk
      BY <1>1, <1>4, <1>6, <1>c, <1>7, <2>3
    <3>5. o = b - 2 + k.key_start
      BY <1>b, <2>1
    <3> QED BY <1>b, <3>3, <3>4, <3>5 DEF Within
  <2>4. p = o + kk \/ p < o + kk
    <3>1. p <= o + kk
      BY <1>c, <1>7
    <3> QED BY <1>1, <1>4, <1>6, <3>1
  <2> QED BY <2>2, <2>3, <2>4
<1>8. CASE l.state = "H_COLON"
  <2>1. /\ k.key_start = l.key_start /\ k.key_end = l.key_end
        /\ k.state = "H_SPACES_AFTER_COLON"
    BY <1>8, TurnColon
  <2>2. o = b - 2 + k.key_start
    BY <1>b, <2>1
  <2>3. b - 1 + k.key_end = o + kk + 1
    BY <1>8, <1>c, <2>1
  <2>4. p + 1 = o + kk + 2
    BY <1>1, <1>4, <1>6, <1>8, <1>c
  <2> QED BY <1>b, <2>1, <2>2, <2>3, <2>4 DEF Within
<1>d. PICK n \in Int : n = o + kk + 2
  BY <1>4, <1>6
<1>9. CASE l.state = "H_SPACES_AFTER_COLON"
  <2>1. /\ k.key_start = l.key_start /\ k.key_end = l.key_end
        /\ k.state = "H_VALUE" /\ k.value_start = i
    BY <1>9, TurnSpaces
  <2>2. p = n
    BY <1>c, <1>d, <1>9
  <2>3. b - 1 + k.value_start = o + kk + 3
    BY <1>1, <1>4, <1>6, <1>d, <2>1, <2>2
  <2>4. o + kk + 3 <= p + 1 /\ p + 1 <= o + kk + 2 + v
    BY <1>4, <1>6, <1>d, <2>2
  <2>5. b - 1 + k.key_end = o + kk + 1
    BY <1>c, <1>9, <2>1
  <2> QED BY <1>b, <2>1, <2>3, <2>4, <2>5 DEF Within
<1>10. CASE l.state = "H_VALUE"
  <2>1. /\ k.key_start = l.key_start /\ k.key_end = l.key_end
        /\ k.value_start = l.value_start
        /\ \/ T[p + 1] = "CR" /\ k.state = "H_CR" /\ k.value_end = i
           \/ T[p + 1] # "CR" /\ k.state = "H_VALUE"
    BY <1>1, <1>10, TurnValue
  <2>a. /\ b - 1 + k.key_end = o + kk + 1
        /\ b - 1 + k.value_start = o + kk + 3
    BY <1>c, <1>10, <2>1
  <2>b. n + 1 <= p /\ p <= n + v
    <3>1. o + kk + 3 <= p /\ p <= o + kk + 2 + v
      BY <1>c, <1>10
    <3> QED BY <1>1, <1>4, <1>6, <1>d, <3>1
  <2>2. CASE p = n + v
    <3>1. p + 1 = o + kk + v + 3
      BY <1>4, <1>6, <1>d, <2>2
    <3>2. T[p + 1] = "CR"
      BY <1>5, <3>1 DEF HeaderStands
    <3>3. k.state = "H_CR" /\ k.value_end = i
      BY <2>1, <3>2
    <3> QED BY <1>1, <1>b, <2>1, <2>a, <3>1, <3>3 DEF Within
  <2>3. CASE p < n + v
    <3>1. p + 1 - n \in 1..v /\ n + (p + 1 - n) = p + 1
      BY <1>1, <1>6, <2>b, <2>3
    <3>2. T[p + 1] # "CR"
      <4>1. \A j \in 1..v : T[n + j] # "CR"
        BY <1>5, <1>d DEF HeaderStands
      <4> QED BY <3>1, <4>1
    <3>3. k.state = "H_VALUE"
      BY <2>1, <3>2
    <3>4. o + kk + 3 <= p + 1 /\ p + 1 <= o + kk + 2 + v
      BY <1>1, <1>4, <1>6, <1>d, <2>b, <2>3
    <3> QED BY <1>b, <2>1, <2>a, <3>3, <3>4 DEF Within
  <2> QED BY <1>1, <1>6, <2>b, <2>2, <2>3
<1> QED BY <1>7, <1>8, <1>9, <1>10

LEMMA TracksStep ==
  ASSUME NEW T, NEW L, NEW E, NEW H, Shape(T, L, E, H),
         NEW b, NEW p, NEW s, NEW i, Reads(T, b, p, s, i),
         NEW l, NEW k, Turning(s, l, i, k), ~k.failed,
         l.state \in {"H_KEY", "H_COLON", "H_SPACES_AFTER_COLON", "H_VALUE"},
         Tracks(T, E, H, b, p, l)
  PROVE  Tracks(T, E, H, b, p + 1, k)
<1>1. PICK e \in H : \E o, kk, v : Within(T, E, b, p, l, e, o, kk, v)
  BY DEF Tracks
<1>2. PICK o, kk, v : Within(T, E, b, p, l, e, o, kk, v)
  BY <1>1
<1>3. Within(T, E, b, p + 1, k, e, o, kk, v)
  BY <1>2, WithinStep
<1> QED BY <1>3 DEF Tracks

InHeader == InValue \union {"H_KEY"}

\* A turn keeps what is known of where the key begins.
LEMMA KeyFromStep ==
  ASSUME NEW T, NEW L, NEW E, NEW H, Shape(T, L, E, H),
         NEW b, NEW p, NEW s, NEW i, Reads(T, b, p, s, i), NEW m \in Nat, p < m,
         NEW l, NEW k, Turning(s, l, i, k), ~k.failed,
         Place(T, L, E, b, m, p, l), Place(T, L, E, b, m, p + 1, k),
         l.state \in InHeader => KeyFrom(T, L, E, H, b, m, p, l),
         k.state \in InHeader
  PROVE  KeyFrom(T, L, E, H, b, m, p + 1, k)
<1>1. /\ b \in Nat /\ p \in Nat /\ i \in Nat /\ b - 1 + i = p + 1 /\ b >= 1 /\ p >= b - 1
      /\ s[i] = T[p + 1]
  BY DEF Reads
<1>2. l.key_start \in Nat /\ k.key_start \in Nat /\ l.read_cur \in Nat
  <2>1. Locals(k) /\ Locals(l)
    BY TurnKeeps DEF Turning
  <2> QED BY <2>1 DEF Locals
<1>3. /\ L \in Nat /\ E \in Nat /\ 3 <= L /\ L + 2 <= E
      /\ T[L - 1] = "CR" /\ T[L] = "LF" /\ T[E - 1] = "CR"
      /\ T[L + 1] \notin {"LF", "r"} /\ (T[L + 1] = "CR" => E = L + 2)
  BY DEF Shape
<1>4. CASE l.state = "H_START"
  <2>1. k.state = "H_KEY" /\ T[p + 1] \notin {"LF", "r"} /\ k.key_start = i
    BY <1>1, <1>4, TurnStart DEF InHeader, InValue
  <2>2. (b = 1 /\ p = 0 /\ m < L - 1) \/ (b = L /\ \A q \in L..p : T[q] \in {"LF", "r"})
    BY <1>4 DEF Place
  <2>3. CASE b = 1
    BY <1>3, <2>2, <2>3 DEF KeyFrom
  <2>4. CASE b # 1
    <3>1. b = L /\ \A q \in L..p : T[q] \in {"LF", "r"}
      BY <2>2, <2>4
    <3>2. p # L - 1
      BY <1>3, <2>1
    <3>3. ~(L + 1 <= p)
      BY <1>1, <1>3, <3>1
    <3>4. p = L
      BY <1>1, <1>3, <3>1, <3>2, <3>3
    <3>5. CASE T[p + 1] = "CR"
      <4>1. p + 1 = E - 1
        BY <1>3, <3>4, <3>5
      <4> QED BY <2>1, <4>1 DEF KeyFrom
    <3>6. CASE T[p + 1] # "CR"
      <4>1. T[p] = "LF" /\ p >= 1 /\ p < E /\ b - 2 + k.key_start = p
        BY <1>1, <1>2, <1>3, <2>1, <3>4
      <4>2. Tracks(T, E, H, b, p + 1, k)
        BY <1>1, <1>2, <2>1, <3>6, <4>1, TracksBegin
      <4> QED BY <4>2 DEF KeyFrom
    <3> QED BY <3>5, <3>6
  <2> QED BY <2>3, <2>4
<1>5. CASE l.state = "H_LF"
  <2>1. k.state = "H_KEY" /\ T[p + 1] # "CR" /\ k.key_start = i
    BY <1>1, <1>5, TurnLF DEF InHeader, InValue
  <2>2. p < E /\ IF p = b - 1 THEN T[b] = "LF" /\ b < E - 1
                              ELSE T[p] = "LF" /\ b - 1 + l.read_cur = p
    BY <1>5 DEF Place
  <2>3. CASE p = b - 1
    <3>1. k.key_start <= p + 1 + 1 - b /\ T[b - 1 + k.key_start] = "LF"
      BY <1>1, <2>1, <2>2, <2>3
    <3> QED BY <3>1 DEF KeyFrom
  <2>4. CASE p # b - 1
    <3>1. T[p] = "LF" /\ p >= 1 /\ p < E /\ b - 2 + k.key_start = p
      BY <1>1, <1>2, <2>1, <2>2, <2>4
    <3>2. Tracks(T, E, H, b, p + 1, k)
      BY <1>1, <1>2, <2>1, <3>1, TracksBegin
    <3> QED BY <3>2 DEF KeyFrom
  <2> QED BY <2>3, <2>4
<1>6. CASE l.state \in {"H_KEY", "H_COLON", "H_SPACES_AFTER_COLON", "H_VALUE"}
  <2>1. KeyFrom(T, L, E, H, b, m, p, l)
    BY <1>6 DEF InHeader, InValue
  <2>2. k.key_start = l.key_start
    BY <1>6, TurnKey, TurnColon, TurnSpaces, TurnValue
  <2>3. ~(l.state = "H_KEY" /\ p = E - 1)
    <3> SUFFICES ASSUME p = E - 1 PROVE FALSE
      OBVIOUS
    <3>1. p + 1 < E
      BY DEF Place, InHeader, InValue
    <3> QED BY <1>3, <3>1
  <2>4. l.key_start <= p + 1 - b => k.key_start <= p + 1 + 1 - b
    BY <1>1, <1>2, <2>2
  <2>5. Tracks(T, E, H, b, p, l) => Tracks(T, E, H, b, p + 1, k)
    BY <1>6, TracksStep
  <2> QED BY <2>1, <2>2, <2>3, <2>4, <2>5 DEF KeyFrom
<1>7. CASE l.state \in {"H_CR", "H_END_CR", "H_END_LF"}
  BY <1>7, TurnCR, TurnEndCR, TurnEndLF DEF InHeader, InValue
<1> QED BY <1>4, <1>5, <1>6, <1>7 DEF Turning, States

\* At the end of a header the loop stores its name and its value.
LEMMA StoredIsIt ==
  ASSUME NEW T, NEW L, NEW E, NEW H, Shape(T, L, E, H),
         NEW b, NEW p, NEW s, NEW i, Reads(T, b, p, s, i),
         NEW l, Locals(l), l.state = "H_CR", l.key_start # 0,
         NEW e \in H, NEW o, NEW k, NEW v, Within(T, E, b, p, l, e, o, k, v)
  PROVE  Key(s, l) = e[1] /\ Value(s, l) = e[2] /\ e = <<e[1], e[2]>>
<1>1. /\ b \in Nat /\ p \in Nat /\ i \in Nat /\ i = p + 2 - b /\ b >= 1 /\ p >= b - 1
      /\ \A j \in 1..i : s[j] = T[b - 1 + j]
  BY DEF Reads
<1>2. PICK ks \in Nat, ke \in Nat, vs \in Nat, ve \in Nat :
        ks = l.key_start /\ ke = l.key_end /\ vs = l.value_start /\ ve = l.value_end
  BY DEF Locals
<1>3. PICK key, value :
        /\ key = Key(s, l) /\ value = Value(s, l)
        /\ key = [j \in 1..(ke - ks) |-> IF ks + j = 1 THEN "junk" ELSE s[ks + j - 1]]
        /\ value = [j \in 1..(ve - vs) |-> IF vs + j = 1 THEN "junk" ELSE s[vs + j - 1]]
  BY <1>2 DEF Key, Value, Slice
<1>7. ks # 0
  BY <1>2
<1>10. /\ o = b - 2 + ks /\ HeaderAt(T, E - 2, o, e) /\ k = Len(e[1]) /\ v = Len(e[2])
       /\ b - 1 + ke = o + k + 1
       /\ b - 1 + vs = o + k + 3 /\ p = o + k + v + 3 /\ b - 1 + ve = p
  BY <1>2 DEF Within
<1>11. o \in Int
  BY <1>1, <1>2, <1>10
<1>12. PlainHeader(e)
  BY DEF Shape
<1>13. HeaderStands(T, E, o, k, v, e)
  BY <1>10, <1>11, <1>12, HeaderAtStands
<1>14. k \in Nat \ {0} /\ v \in Nat \ {0}
  BY <1>13 DEF HeaderStands
<1>15. /\ o = b - 2 + ks /\ b - 1 + ke = o + k + 1 /\ b - 1 + vs = o + k + 3
       /\ p = o + k + v + 3 /\ b - 1 + ve = p
  BY <1>10
<1>16. b \in Nat /\ p \in Nat /\ i = p + 2 - b
  BY <1>1
<1>17. ke - ks = k /\ ve - vs = v /\ vs = ks + k + 2
  <2>1. ke = ks + k
    BY <1>15, <1>16, <1>11, <1>14
  <2>2. vs = ke + 2
    BY <1>15, <1>16, <1>11, <1>14
  <2>3. ve = vs + v
    BY <1>15, <1>16, <1>11, <1>14
  <2> QED BY <1>14, <2>1, <2>2, <2>3
<1>18. i = ks + k + v + 3
  BY <1>15, <1>16, <1>11, <1>14
<1>19. key = e[1]
  <2>1. ASSUME NEW j \in 1..k PROVE key[j] = e[1][j]
    <3>1. /\ ks + j - 1 \in 1..i /\ ks + j # 1
      BY <1>7, <1>14, <1>18
    <3>a. b - 1 + (ks + j - 1) = o + j
      BY <1>15, <1>16
    <3>2. s[ks + j - 1] = T[o + j]
      BY <1>1, <3>1, <3>a
    <3>3. T[o + j] = e[1][j]
      BY <1>13 DEF HeaderStands
    <3> QED BY <1>3, <1>17, <3>1, <3>2, <3>3
  <2>2. \E a : a \in Seq(Tokens) /\ e[1] = a
    BY <1>12, PlainParts
  <2>3. e[1] = [j \in 1..k |-> e[1][j]]
    BY <1>10, <2>2
  <2>4. key = [j \in 1..k |-> key[j]]
    BY <1>3, <1>17
  <2> QED BY <2>1, <2>3, <2>4
<1>20. value = e[2]
  <2>1. ASSUME NEW j \in 1..v PROVE value[j] = e[2][j]
    <3>1. /\ vs + j - 1 \in 1..i /\ vs + j # 1
      BY <1>7, <1>14, <1>17, <1>18
    <3>a. b - 1 + (vs + j - 1) = o + k + 2 + j
      BY <1>15, <1>16, <1>14, <1>17
    <3>2. s[vs + j - 1] = T[o + k + 2 + j]
      BY <1>1, <3>1, <3>a
    <3>3. T[o + k + 2 + j] = e[2][j]
      BY <1>13 DEF HeaderStands
    <3> QED BY <1>3, <1>17, <3>1, <3>2, <3>3
  <2>2. \E a : a \in Seq(Tokens) /\ e[2] = a
    BY <1>12, PlainParts
  <2>3. e[2] = [j \in 1..v |-> e[2][j]]
    BY <1>10, <2>2
  <2>4. value = [j \in 1..v |-> value[j]]
    BY <1>3, <1>17
  <2> QED BY <2>1, <2>3, <2>4
<1>21. e = <<e[1], e[2]>>
  BY <1>12 DEF PlainHeader
<1> QED BY <1>3, <1>19, <1>20, <1>21

\* What is stored under a key of the request is its value.
LEMMA StoredIsGenuine ==
  ASSUME NEW T, NEW L, NEW E, NEW H, Shape(T, L, E, H),
         NEW b, NEW p, NEW s, NEW i, Reads(T, b, p, s, i), NEW m \in Nat, p < m,
         NEW l, Locals(l), l.state = "H_CR", T[p + 1] = "LF",
         KeyFrom(T, L, E, H, b, m, p, l)
  PROVE  Spurious(Key(s, l)) \/ <<Key(s, l), Value(s, l)>> \in H
<1>1. /\ b \in Nat /\ p \in Nat /\ i \in Nat /\ i = p + 2 - b /\ b >= 1 /\ p >= b - 1
      /\ \A j \in 1..i : s[j] = T[b - 1 + j]
  BY DEF Reads
<1>2. PICK ks \in Nat, ke \in Nat, vs \in Nat, ve \in Nat :
        ks = l.key_start /\ ke = l.key_end /\ vs = l.value_start /\ ve = l.value_end
  BY DEF Locals
<1>3. PICK key, value :
        /\ key = Key(s, l) /\ value = Value(s, l)
        /\ key = [j \in 1..(ke - ks) |-> IF ks + j = 1 THEN "junk" ELSE s[ks + j - 1]]
        /\ value = [j \in 1..(ve - vs) |-> IF vs + j = 1 THEN "junk" ELSE s[vs + j - 1]]
  BY <1>2 DEF Key, Value, Slice
<1>4. CASE ks = 0
  <2>1. 1 \in DOMAIN key => key[1] = "junk"
    BY <1>2, <1>3, <1>4
  <2> QED BY <1>3, <2>1 DEF Spurious
<1>5. CASE ks # 0 /\ ks <= p + 1 - b /\ T[b - 1 + ks] = "LF"
  <2>1. ks \in 1..i
    BY <1>1, <1>2, <1>5
  <2>2. s[ks] = "LF"
    BY <1>1, <1>5, <2>1
  <2>3. 1 \in DOMAIN key => key[1] = s[ks]
    BY <1>2, <1>3, <1>5
  <2> QED BY <1>3, <2>2, <2>3 DEF Spurious
<1>6. CASE m < L - 1
  <2>1. L \in Nat /\ \A q \in 1..(L - 2) : T[q] \notin {"CR", "LF"}
    BY DEF Shape
  <2>2. p + 1 \in 1..(L - 2)
    BY <1>1, <1>6, <2>1
  <2> QED BY <2>1, <2>2
<1>7. CASE ks # 0 /\ Tracks(T, E, H, b, p, l)
  <2>1. PICK e \in H : \E o, k, v : Within(T, E, b, p, l, e, o, k, v)
    BY <1>7 DEF Tracks
  <2>2. PICK o, k, v : Within(T, E, b, p, l, e, o, k, v)
    BY <2>1
  <2>3. Key(s, l) = e[1] /\ Value(s, l) = e[2] /\ e = <<e[1], e[2]>>
    BY <1>2, <1>7, <2>2, StoredIsIt
  <2>4. <<Key(s, l), Value(s, l)>> = e
    BY ONLY <2>3
  <2>5. e \in H
    OBVIOUS
  <2> QED BY ONLY <2>4, <2>5
<1> QED BY <1>2, <1>4, <1>5, <1>6, <1>7 DEF KeyFrom

\* A genuine header added to genuine headers.
LEMMA GenuineWith ==
  ASSUME NEW headers, NEW H, Genuine(headers, H), NEW key, NEW value,
         Spurious(key) \/ <<key, value>> \in H
  PROVE  Genuine(With(headers, key, value), H)
<1>1. PICK new : new = With(headers, key, value)
  OBVIOUS
<1>2. /\ DOMAIN new = {key} \union DOMAIN headers
      /\ \A x \in DOMAIN new : new[x] = IF x = key THEN value ELSE headers[x]
  BY <1>1 DEF With
<1> QED BY <1>1, <1>2 DEF Genuine

\* A turn keeps what the loop has found.
LEMMA ScanStep ==
  ASSUME NEW T, NEW L, NEW E, NEW H, Shape(T, L, E, H),
         NEW b, NEW p, NEW s, NEW i, Reads(T, b, p, s, i), NEW m \in Nat, p < m,
         NEW l, Scan(T, L, E, H, b, m, p, l), NEW k, k = step(s, l, i)
  PROVE  Scan(T, L, E, H, b, m, p + 1, k)
<1>1. /\ b \in Nat /\ p \in Nat /\ i \in Nat /\ b >= 1 /\ p >= b - 1 /\ b - 1 + i = p + 1
      /\ s[i] = T[p + 1]
  BY DEF Reads
<1>2. /\ Locals(l) /\ l.state \in States /\ Genuine(l.headers, H)
      /\ l.finished => l.state = "H_END_LF"
      /\ l.failed \/ Place(T, L, E, b, m, p, l)
      /\ l.state \in InHeader /\ ~l.failed => KeyFrom(T, L, E, H, b, m, p, l)
  BY DEF Scan, InHeader
<1>3. CASE l.failed
  <2>1. k = l
    BY <1>3 DEF step
  <2> QED BY <1>2, <1>3, <2>1 DEF Scan
<1>4. CASE l.finished /\ ~l.failed
  <2>1. k = l /\ l.state = "H_END_LF"
    BY <1>2, <1>4 DEF step
  <2>2. l.read_cur \in Nat
    BY <1>2 DEF Locals
  <2>3. Place(T, L, E, b, m, p + 1, l)
    <3>1. l.read_cur >= 1 /\ b - 1 + l.read_cur <= p + 1 /\ m >= E
      BY <1>2, <1>4, <2>1 DEF Place
    <3>2. b - 1 + l.read_cur <= p + 1 + 1
      BY <1>1, <2>2, <3>1
    <3> QED BY <2>1, <3>1, <3>2 DEF Place, InValue
  <2>4. l.state \notin InHeader
    BY <2>1 DEF InHeader, InValue
  <2> QED BY <1>2, <2>1, <2>3, <2>4 DEF Scan, InHeader
<1>5. CASE ~l.finished /\ ~l.failed
  <2>1. Turning(s, l, i, k) /\ Place(T, L, E, b, m, p, l)
    BY <1>1, <1>2, <1>5 DEF Turning
  <2>2. /\ Locals(k) /\ k.state \in States
        /\ k.finished => k.state = "H_END_LF"
        /\ k.headers = l.headers \/ (l.state = "H_CR" /\ k.state = "H_LF" /\ ~k.failed)
    BY <2>1, TurnKeeps
  <2>3. ~k.failed => Place(T, L, E, b, m, p + 1, k)
    BY <2>1, PlaceStep
  <2>4. ~k.failed /\ k.state \in InHeader => KeyFrom(T, L, E, H, b, m, p + 1, k)
    <3> SUFFICES ASSUME ~k.failed, k.state \in InHeader
                 PROVE  KeyFrom(T, L, E, H, b, m, p + 1, k)
      OBVIOUS
    <3>1. l.state \in InHeader => KeyFrom(T, L, E, H, b, m, p, l)
      BY <1>2, <1>5
    <3> QED BY <2>1, <2>3, <3>1, KeyFromStep
  <2>5. Genuine(k.headers, H)
    <3>1. CASE k.headers = l.headers
      BY <1>2, <3>1
    <3>2. CASE l.state = "H_CR" /\ k.state = "H_LF" /\ ~k.failed
      <4>1. s[i] = "LF" /\ k.headers = With(l.headers, Key(s, l), Value(s, l))
        BY <2>1, <3>2, TurnCR
      <4>2. KeyFrom(T, L, E, H, b, m, p, l)
        BY <1>2, <1>5, <3>2 DEF InHeader, InValue
      <4>3. Spurious(Key(s, l)) \/ <<Key(s, l), Value(s, l)>> \in H
        BY <1>1, <1>2, <3>2, <4>1, <4>2, StoredIsGenuine
      <4> QED BY <1>2, <4>1, <4>3, GenuineWith
    <3> QED BY <2>2, <3>1, <3>2
  <2> QED BY <2>2, <2>3, <2>4, <2>5 DEF Scan, InHeader
<1> QED BY <1>3, <1>4, <1>5

-----------------------------------------------------------------------------
(* The whole loop.                                                         *)

\* f[i] is what the loop has made of the first i tokens of s.
Loop(s, l, n, f) ==
  f = [i \in 0..n |-> IF i = 0 THEN l ELSE step(s, f[i - 1], i)]

\* The recursive function of Scanned() has a value.
LEMMA LoopExists ==
  ASSUME NEW s, NEW l, NEW n \in Nat
  PROVE  \E f : Loop(s, l, n, f)
<1> DEFINE without == {x \in Nat : ~(\E f : Loop(s, l, x, f))}
<1> SUFFICES ASSUME without # {} PROVE FALSE
  OBVIOUS
<1>1. PICK x \in without : \A y \in without : ~(y < x)
  <2>1. without \subseteq Nat
    OBVIOUS
  <2> QED BY <2>1, LeastNumber, Zenon
<1>2. CASE x = 0
  <2> DEFINE f == [i \in 0..0 |-> l]
  <2>1. Loop(s, l, 0, f)
    BY DEF Loop
  <2> QED BY <1>1, <1>2, <2>1
<1>3. CASE x # 0
  <2>1. x - 1 \in Nat /\ x - 1 < x /\ x \in Nat
    BY <1>1, <1>3
  <2>2. x - 1 \notin without
    BY <1>1, <2>1
  <2>3. PICK f : Loop(s, l, x - 1, f)
    BY <2>1, <2>2
  <2> DEFINE g == [i \in 0..x |-> IF i < x THEN f[i] ELSE step(s, f[x - 1], x)]
  <2>4. \A i \in 0..(x - 1) : f[i] = IF i = 0 THEN l ELSE step(s, f[i - 1], i)
    BY <2>3 DEF Loop
  <2>5. ASSUME NEW i \in 0..x PROVE g[i] = IF i = 0 THEN l ELSE step(s, g[i - 1], i)
    <3>1. CASE i < x
      <4>1. g[i] = f[i] /\ i \in 0..(x - 1)
        BY <2>1, <3>1
      <4>2. i # 0 => g[i - 1] = f[i - 1]
        BY <2>1, <3>1
      <4> QED BY <2>4, <4>1, <4>2
    <3>2. CASE i = x
      <4>1. g[x] = step(s, f[x - 1], x) /\ g[x - 1] = f[x - 1]
        BY <2>1
      <4> QED BY <1>3, <3>2, <4>1
    <3> QED BY <2>1, <3>1, <3>2
  <2>6. Loop(s, l, x, g)
    <3>1. g = [i \in 0..x |-> g[i]]
      OBVIOUS
    <3> HIDE DEF g
    <3>2. g = [i \in 0..x |-> IF i = 0 THEN l ELSE step(s, g[i - 1], i)]
      BY <2>5, <3>1
    <3> QED BY <3>2 DEF Loop
  <2> QED BY <1>1, <2>6
<1> QED BY <1>2, <1>3

\* Scanned() is what the loop has made of the whole buffer.
LEMMA ScannedIs ==
  ASSUME NEW h, Len(h.buffer_in_) \in Nat
  PROVE  \E f : /\ Loop(h.buffer_in_, NewLocals(h), Len(h.buffer_in_), f)
                /\ Scanned(h) = f[Len(h.buffer_in_)]
<1> DEFINE F == CHOOSE f : Loop(h.buffer_in_, NewLocals(h), Len(h.buffer_in_), f)
<1>1. Loop(h.buffer_in_, NewLocals(h), Len(h.buffer_in_), F)
  BY LoopExists
<1>2. Scanned(h) = F[Len(h.buffer_in_)]
  BY Zenon DEF Scanned, Loop
<1> QED BY <1>1, <1>2

\* What holds at the beginning of the loop holds at its end.
LEMMA ScanAll ==
  ASSUME NEW T, NEW L, NEW E, NEW H, Shape(T, L, E, H), NEW m \in Nat, NEW b \in Nat,
         b >= 1, b <= m + 1, NEW s, Len(s) = m + 1 - b,
         \A j \in 1..Len(s) : s[j] = T[b - 1 + j],
         NEW h, h.buffer_in_ = s, Scan(T, L, E, H, b, m, b - 1, NewLocals(h))
  PROVE  Scan(T, L, E, H, b, m, m, Scanned(h))
<1>1. PICK n \in Nat : n = m + 1 - b /\ n = Len(s)
  OBVIOUS
<1>2. PICK f : Loop(s, NewLocals(h), n, f) /\ Scanned(h) = f[n]
  BY <1>1, ScannedIs
<1>3. /\ f[0] = NewLocals(h)
      /\ \A i \in 1..n : f[i] = step(s, f[i - 1], i)
  BY <1>1, <1>2 DEF Loop
<1> DEFINE failing == {i \in 0..n : ~Scan(T, L, E, H, b, m, b - 1 + i, f[i])}
<1>4. failing = {}
  <2> SUFFICES ASSUME failing # {} PROVE FALSE
    OBVIOUS
  <2>1. PICK x \in failing : \A y \in failing : ~(y < x)
    <3>1. failing \subseteq Nat
      BY <1>1
    <3> HIDE DEF failing
    <3> QED BY <3>1, LeastNumber
  <2>2. x \in 0..n /\ ~Scan(T, L, E, H, b, m, b - 1 + x, f[x])
    BY <2>1
  <2>3. x # 0
    <3>1. b - 1 + 0 = b - 1
      OBVIOUS
    <3> QED BY <1>3, <2>2, <3>1
  <2>4. PICK y \in 0..n, p \in Nat : y = x - 1 /\ p = b - 1 + y /\ x \in 1..n
    BY <1>1, <2>2, <2>3
  <2>5. Scan(T, L, E, H, b, m, p, f[y])
    <3>1. y < x
      BY <2>4
    <3>2. y \notin failing
      BY <2>1, <3>1
    <3> QED BY <2>4, <3>2
  <2>6. f[x] = step(s, f[y], x)
    BY <1>3, <2>4
  <2>7. Reads(T, b, p, s, x)
    BY <1>1, <2>4 DEF Reads
  <2>8. p < m /\ b - 1 + x = p + 1
    BY <1>1, <2>4
  <2>9. Scan(T, L, E, H, b, m, p + 1, f[x])
    BY <2>5, <2>6, <2>7, <2>8, ScanStep
  <2> QED BY <2>2, <2>8, <2>9
<1>5. n \in 0..n /\ b - 1 + n = m
  BY <1>1
<1>6. Scan(T, L, E, H, b, m, b - 1 + n, f[n])
  BY <1>4, <1>5
<1> QED BY <1>2, <1>5, <1>6

-----------------------------------------------------------------------------
(* What a pass of handle_read() can have done.                             *)

Waiting == {"STATE_PARSE_URI", "STATE_PARSE_HEADERS", "STATE_RECV_BODY"}
Fields ==
  {"buffer_in_", "buffer_out_", "is_error_", "file_name_", "keep_alive_",
   "headers_", "Http_method_", "process_state_", "parse_state_"}

\* An object during a pass: it has not been answered with success yet, and
\* only a POST request gets to its body.
InPass(h) ==
  /\ DOMAIN h = Fields
  /\ h.is_error_ \in BOOLEAN
  /\ h.buffer_out_ # "200"
  /\ h.Http_method_ \in {"METHOD_GET", "METHOD_POST", "METHOD_HEAD"}
  /\ h.process_state_ = "STATE_RECV_BODY" => h.Http_method_ = "METHOD_POST"

\* Between two passes a connection that is still parsed waits in one of the
\* first three stages.
ParserInv ==
  ~http.is_error_ /\ http.process_state_ # "STATE_FINISH" =>
    InPass(http) /\ http.process_state_ \in Waiting

-----------------------------------------------------------------------------
(* The stages.                                                             *)

LEMMA HandledError ==
  ASSUME NEW h, InPass(h), NEW code, code # "200"
  PROVE  /\ InPass(handle_error(h, code)) /\ handle_error(h, code).is_error_
         /\ handle_error(h, code).process_state_ = h.process_state_
BY DEF handle_error, InPass, Fields

LEMMA URIOutcome ==
  ASSUME NEW h, InPass(h), In("STATE_PARSE_URI", h)
  PROVE  LET g == ParseURI(h) IN
         /\ InPass(g)
         /\ \/ g.is_error_ /\ g.process_state_ = "STATE_PARSE_URI"
            \/ ~g.is_error_ /\ g.process_state_ = "STATE_PARSE_HEADERS"
<1> DEFINE cr == find(h.buffer_in_, "CR", 1)
           line == IF cr = 0 THEN h.buffer_in_ ELSE SubSeq(h.buffer_in_, 1, cr - 1)
           method == Method(line)
           slash == find(line, "/", method.at)
           at == VersionAt(line, slash)
           bad == method.at = 0 \/ at > Len(line) \/ line[at] \notin {"1.0", "1.1"}
           rest == SubSeq(h.buffer_in_, cr + 1, Len(h.buffer_in_))
           name == FileName(line, slash)
<1>1. method.is \in {"METHOD_GET", "METHOD_POST", "METHOD_HEAD"}
  BY DEF Method
<1>2. ParseURI(h) = IF bad THEN handle_error([h EXCEPT !.buffer_in_ = <<>>], "400")
                    ELSE [h EXCEPT !.buffer_in_ = rest,
                                   !.Http_method_ = method.is,
                                   !.file_name_ = name,
                                   !.process_state_ = "STATE_PARSE_HEADERS"]
  BY DEF ParseURI
<1> HIDE DEF method, bad, rest, name
<1>3. CASE bad
  <2> DEFINE e == [h EXCEPT !.buffer_in_ = <<>>]
  <2>1. InPass(e) /\ e.process_state_ = "STATE_PARSE_URI"
    BY DEF InPass, Fields, In
  <2> HIDE DEF e
  <2>2. ParseURI(h) = handle_error(e, "400")
    BY <1>2, <1>3 DEF e
  <2> QED BY <2>1, <2>2, HandledError
<1>4. CASE ~bad
  BY <1>1, <1>2, <1>4 DEF InPass, Fields, In
<1> QED BY <1>3, <1>4

LEMMA HeadersOutcome ==
  ASSUME NEW h, InPass(h), In("STATE_PARSE_HEADERS", h)
  PROVE  LET g == ParseHeaders(h) IN
         /\ InPass(g)
         /\ \/ g.is_error_ /\ g.process_state_ = "STATE_PARSE_HEADERS"
            \/ ~g.is_error_ /\ g.process_state_ = "STATE_PARSE_HEADERS"
            \/ ~g.is_error_ /\ g.process_state_ = "STATE_RECV_BODY"
            \/ /\ ~g.is_error_ /\ g.process_state_ = "STATE_ANALYSIS"
               /\ g.Http_method_ # "METHOD_POST"
<1> DEFINE l == Scanned(h)
           h2 == [h EXCEPT !.parse_state_ = l.state, !.headers_ = l.headers]
           from(i) == [h2 EXCEPT !.buffer_in_ = SubSeq(h2.buffer_in_, i, Len(h2.buffer_in_))]
<1>1. ParseHeaders(h) =
        CASE l.failed -> handle_error(h2, "400")
          [] ~l.failed /\ HeadersEnd(l) ->
               [from(l.next) EXCEPT !.process_state_ =
                  IF h.Http_method_ = "METHOD_POST" THEN "STATE_RECV_BODY"
                                                    ELSE "STATE_ANALYSIS"]
          [] OTHER -> from(l.read_cur)
  BY DEF ParseHeaders
<1> HIDE DEF l
<1>2. /\ InPass(h2) /\ ~h2.is_error_ /\ h2.process_state_ = "STATE_PARSE_HEADERS"
      /\ h2.Http_method_ = h.Http_method_
  BY DEF InPass, Fields, In
<1> HIDE DEF h2
<1>3. \A i : /\ InPass(from(i)) /\ ~from(i).is_error_
             /\ from(i).process_state_ = "STATE_PARSE_HEADERS"
             /\ from(i).Http_method_ = h.Http_method_
  BY <1>2 DEF InPass, Fields
<1>4. /\ InPass(handle_error(h2, "400")) /\ handle_error(h2, "400").is_error_
      /\ handle_error(h2, "400").process_state_ = "STATE_PARSE_HEADERS"
  BY <1>2, HandledError
<1> HIDE DEF from
<1>5. CASE l.failed
  BY <1>1, <1>4, <1>5
<1>6. CASE ~l.failed /\ HeadersEnd(l)
  <2>1. ParseHeaders(h) = [from(l.next) EXCEPT !.process_state_ =
                             IF h.Http_method_ = "METHOD_POST" THEN "STATE_RECV_BODY"
                                                               ELSE "STATE_ANALYSIS"]
    BY <1>1, <1>6
  <2> QED BY <1>3, <2>1 DEF InPass, Fields
<1>7. CASE ~l.failed /\ ~HeadersEnd(l)
  <2>1. ParseHeaders(h) = from(l.read_cur)
    BY <1>1, <1>7
  <2> QED BY <1>3, <2>1
<1> QED BY <1>5, <1>6, <1>7

LEMMA BodyOutcome ==
  ASSUME NEW h, InPass(h), In("STATE_RECV_BODY", h)
  PROVE  LET g == ReceiveBody(h) IN
         /\ InPass(g) /\ g.Http_method_ = "METHOD_POST"
         /\ \/ g.is_error_ /\ g.process_state_ = "STATE_RECV_BODY"
            \/ ~g.is_error_ /\ g.process_state_ = "STATE_RECV_BODY"
            \/ ~g.is_error_ /\ g.process_state_ = "STATE_ANALYSIS"
<1>1. /\ h.Http_method_ = "METHOD_POST" /\ ~h.is_error_
      /\ h.process_state_ = "STATE_RECV_BODY"
  BY DEF InPass, In
<1>2. /\ InPass(handle_error(h, "400")) /\ handle_error(h, "400").is_error_
      /\ handle_error(h, "400").process_state_ = "STATE_RECV_BODY"
      /\ handle_error(h, "400").Http_method_ = "METHOD_POST"
  BY <1>1, HandledError DEF handle_error, InPass, Fields
<1>3. ReceiveBody(h) \in {handle_error(h, "400"), h,
                          [h EXCEPT !.process_state_ = "STATE_ANALYSIS"]}
  BY DEF ReceiveBody
<1> QED BY <1>1, <1>2, <1>3 DEF InPass, Fields

\* A POST request has no answer; any other is answered or has failed.
LEMMA AnalysisOutcome ==
  ASSUME NEW h, InPass(h), In("STATE_ANALYSIS", h), NEW fs \in FileSystem
  PROVE  LET g == AnalyzeRequest(h, fs) IN
         \/ g.is_error_ = TRUE /\ g.process_state_ = "STATE_ANALYSIS" /\ g.buffer_out_ # "200"
         \/ /\ h.Http_method_ # "METHOD_POST"
            /\ g.is_error_ = FALSE /\ g.process_state_ = "STATE_FINISH"
<1> DEFINE keep == WantsKeepAlive(h)
           k == [h EXCEPT !.keep_alive_ = keep]
           finish(out) == [k EXCEPT !.process_state_ = "STATE_FINISH",
                                    !.buffer_out_ = out]
<1>1. AnalyzeRequest(h, fs) \in
        IF h.Http_method_ = "METHOD_POST" THEN {[h EXCEPT !.is_error_ = TRUE]}
        ELSE {finish("200"), finish(""), handle_error(k, "404")}
  BY DEF AnalyzeRequest, FileSystem, InPass
<1> HIDE DEF keep
<1>2. InPass(k) /\ k.is_error_ = FALSE /\ k.process_state_ = "STATE_ANALYSIS"
  BY DEF InPass, Fields, In
<1> HIDE DEF k
<1>3. \A out : /\ finish(out).is_error_ = FALSE
               /\ finish(out).process_state_ = "STATE_FINISH"
  BY <1>2 DEF InPass, Fields
<1>4. /\ handle_error(k, "404").is_error_ = TRUE
      /\ handle_error(k, "404").process_state_ = "STATE_ANALYSIS"
      /\ handle_error(k, "404").buffer_out_ # "200"
  BY <1>2 DEF handle_error, InPass, Fields
<1>5. LET e == [h EXCEPT !.is_error_ = TRUE] IN
      e.is_error_ = TRUE /\ e.process_state_ = "STATE_ANALYSIS" /\ e.buffer_out_ # "200"
  BY DEF InPass, Fields, In
<1> HIDE DEF finish
<1> QED BY <1>1, <1>3, <1>4, <1>5

-----------------------------------------------------------------------------
(* A pass through the stages.                                              *)

At(h, stage, failed) == h.process_state_ = stage /\ h.is_error_ = failed

\* Where a pass is when analyze_request() is due: with the bytes of a URI, of
\* headers or of a body handled, or stopped by them.
LEMMA BeforeAnalysis ==
  ASSUME NEW h, InPass(h), ~h.is_error_, h.process_state_ \in Waiting
  PROVE  LET b == AfterBody(AfterHeaders(AfterURI(h))) IN
         /\ InPass(b)
         /\ \/ h.process_state_ = "STATE_PARSE_URI" /\ At(b, "STATE_PARSE_URI", TRUE)
            \/ /\ h.process_state_ \in {"STATE_PARSE_URI", "STATE_PARSE_HEADERS"}
               /\ \/ \E e \in BOOLEAN : At(b, "STATE_PARSE_HEADERS", e)
                  \/ At(b, "STATE_ANALYSIS", FALSE) /\ b.Http_method_ # "METHOD_POST"
            \/ \E e \in BOOLEAN : At(b, "STATE_RECV_BODY", e)
            \/ At(b, "STATE_ANALYSIS", FALSE) /\ b.Http_method_ = "METHOD_POST"
<1> DEFINE u == AfterURI(h)
           p == AfterHeaders(u)
           b == AfterBody(p)
<1>1. /\ InPass(u)
      /\ \/ h.process_state_ = "STATE_PARSE_URI" /\ At(u, "STATE_PARSE_URI", TRUE)
         \/ /\ h.process_state_ \in {"STATE_PARSE_URI", "STATE_PARSE_HEADERS"}
            /\ At(u, "STATE_PARSE_HEADERS", FALSE)
         \/ At(u, "STATE_RECV_BODY", FALSE)
  <2>1. CASE In("STATE_PARSE_URI", h)
    <3>1. u = ParseURI(h)
      BY <2>1 DEF AfterURI
    <3>2. u.is_error_ \in BOOLEAN /\ h.process_state_ = "STATE_PARSE_URI"
      BY <2>1, <3>1, URIOutcome DEF InPass, In
    <3> QED BY <2>1, <3>1, <3>2, URIOutcome DEF At
  <2>2. CASE ~In("STATE_PARSE_URI", h)
    <3>1. u = h /\ h.is_error_ = FALSE
      BY <2>2 DEF AfterURI, InPass
    <3> QED BY <2>2, <3>1 DEF At, In, Waiting
  <2> QED BY <2>1, <2>2
<1> HIDE DEF u
<1>2. /\ InPass(p)
      /\ \/ h.process_state_ = "STATE_PARSE_URI" /\ At(p, "STATE_PARSE_URI", TRUE)
         \/ /\ h.process_state_ \in {"STATE_PARSE_URI", "STATE_PARSE_HEADERS"}
            /\ \/ \E e \in BOOLEAN : At(p, "STATE_PARSE_HEADERS", e)
               \/ At(p, "STATE_ANALYSIS", FALSE) /\ p.Http_method_ # "METHOD_POST"
         \/ At(p, "STATE_RECV_BODY", FALSE)
  <2>1. CASE In("STATE_PARSE_HEADERS", u)
    <3>1. p = ParseHeaders(u)
      BY <2>1 DEF AfterHeaders
    <3>2. p.is_error_ \in BOOLEAN /\ InPass(p)
      BY <1>1, <2>1, <3>1, HeadersOutcome DEF InPass
    <3>3. h.process_state_ \in {"STATE_PARSE_URI", "STATE_PARSE_HEADERS"}
      BY <1>1, <2>1 DEF At, In
    <3> QED BY <1>1, <2>1, <3>1, <3>2, <3>3, HeadersOutcome DEF At
  <2>2. CASE ~In("STATE_PARSE_HEADERS", u)
    <3>1. p = u
      BY <2>2 DEF AfterHeaders
    <3> QED BY <1>1, <2>2, <3>1 DEF At, In
  <2> QED BY <2>1, <2>2
<1> HIDE DEF p
<1>3. CASE In("STATE_RECV_BODY", p)
  <2>1. b = ReceiveBody(p)
    BY <1>3 DEF AfterBody
  <2>2. /\ InPass(b) /\ b.is_error_ \in BOOLEAN /\ b.Http_method_ = "METHOD_POST"
        /\ \/ b.process_state_ = "STATE_RECV_BODY"
           \/ ~b.is_error_ /\ b.process_state_ = "STATE_ANALYSIS"
    BY <1>2, <1>3, <2>1, BodyOutcome DEF InPass
  <2> HIDE DEF b
  <2>3. \/ \E e \in BOOLEAN : At(b, "STATE_RECV_BODY", e)
        \/ At(b, "STATE_ANALYSIS", FALSE) /\ b.Http_method_ = "METHOD_POST"
    BY <2>2 DEF At
  <2> QED BY <2>2, <2>3 DEF b, p, u
<1>4. CASE ~In("STATE_RECV_BODY", p)
  <2>1. b = p
    BY <1>4 DEF AfterBody
  <2> HIDE DEF b
  <2> QED BY <1>2, <1>4, <2>1 DEF At, In, b, p, u
<1> QED BY <1>3, <1>4

LEMMA PassOutcome ==
  ASSUME NEW h, InPass(h), ~h.is_error_, h.process_state_ \in Waiting,
         NEW fs \in FileSystem
  PROVE  LET g == Analysed(AfterBody(AfterHeaders(AfterURI(h))), fs) IN
         /\ Outcome(g.process_state_, g.is_error_, g.buffer_out_ = "200")
              \in Outcomes(h.process_state_)
         /\ ~g.is_error_ /\ g.process_state_ # "STATE_FINISH" =>
              InPass(g) /\ g.process_state_ \in Waiting
<1> DEFINE b == AfterBody(AfterHeaders(AfterURI(h)))
           g == Analysed(b, fs)
           is == Outcome(g.process_state_, g.is_error_, g.buffer_out_ = "200")
<1>1. /\ InPass(b)
      /\ \/ h.process_state_ = "STATE_PARSE_URI" /\ At(b, "STATE_PARSE_URI", TRUE)
         \/ /\ h.process_state_ \in {"STATE_PARSE_URI", "STATE_PARSE_HEADERS"}
            /\ \/ \E e \in BOOLEAN : At(b, "STATE_PARSE_HEADERS", e)
               \/ At(b, "STATE_ANALYSIS", FALSE) /\ b.Http_method_ # "METHOD_POST"
         \/ \E e \in BOOLEAN : At(b, "STATE_RECV_BODY", e)
         \/ At(b, "STATE_ANALYSIS", FALSE) /\ b.Http_method_ = "METHOD_POST"
  BY BeforeAnalysis
<1> HIDE DEF b
<1>2. CASE ~In("STATE_ANALYSIS", b)
  <2>1. g = b /\ ~(At(b, "STATE_ANALYSIS", FALSE))
    BY <1>2 DEF Analysed, At, In
  <2> HIDE DEF g
  <2>2. (g.buffer_out_ = "200") = FALSE /\ InPass(g)
    BY <1>1, <2>1 DEF InPass
  <2>3. is \in {Outcome(g.process_state_, g.is_error_, FALSE)}
    BY <2>2
  <2>4. CASE h.process_state_ = "STATE_PARSE_URI" /\ At(b, "STATE_PARSE_URI", TRUE)
    <3>1. is = Failed("STATE_PARSE_URI")
      BY <2>1, <2>3, <2>4 DEF Failed, At
    <3>2. Outcomes(h.process_state_) = parse_URI
      BY <2>4 DEF Outcomes
    <3>3. g.is_error_
      BY <2>1, <2>4 DEF At
    <3> QED BY <3>1, <3>2, <3>3 DEF parse_URI, g, b
  <2>5. CASE /\ h.process_state_ \in {"STATE_PARSE_URI", "STATE_PARSE_HEADERS"}
             /\ \E e \in BOOLEAN : At(b, "STATE_PARSE_HEADERS", e)
    <3>1. is \in {Failed("STATE_PARSE_HEADERS"), Again("STATE_PARSE_HEADERS")}
      BY <2>1, <2>3, <2>5 DEF Failed, Again, At
    <3>2. parse_Headers \subseteq Outcomes(h.process_state_)
      BY <2>5 DEF Outcomes, parse_URI
    <3>3. g.process_state_ = "STATE_PARSE_HEADERS"
      BY <2>1, <2>5 DEF At
    <3> QED BY <2>2, <3>1, <3>2, <3>3 DEF parse_Headers, Waiting, g, b
  <2>6. CASE \E e \in BOOLEAN : At(b, "STATE_RECV_BODY", e)
    <3>1. is \in {Failed("STATE_RECV_BODY"), Again("STATE_RECV_BODY")}
      BY <2>1, <2>3, <2>6 DEF Failed, Again, At
    <3>2. receive_body \subseteq Outcomes(h.process_state_)
      BY DEF Outcomes, parse_URI, parse_Headers, Waiting
    <3>3. g.process_state_ = "STATE_RECV_BODY"
      BY <2>1, <2>6 DEF At
    <3> QED BY <2>2, <3>1, <3>2, <3>3 DEF receive_body, Waiting, g, b
  <2> QED BY <1>1, <2>1, <2>4, <2>5, <2>6
<1>3. CASE In("STATE_ANALYSIS", b)
  <2>1. g = AnalyzeRequest(b, fs)
    BY <1>3 DEF Analysed
  <2> HIDE DEF g
  <2>2. \/ g.is_error_ = TRUE /\ g.process_state_ = "STATE_ANALYSIS" /\ g.buffer_out_ # "200"
        \/ /\ b.Http_method_ # "METHOD_POST"
           /\ g.is_error_ = FALSE /\ g.process_state_ = "STATE_FINISH"
    BY <1>1, <1>3, <2>1, AnalysisOutcome
  <2>3. \/ is = Failed("STATE_ANALYSIS")
        \/ /\ b.Http_method_ # "METHOD_POST"
           /\ is \in {Outcome("STATE_FINISH", FALSE, out) : out \in BOOLEAN}
    BY <2>2 DEF Failed
  <2>4. CASE is = Failed("STATE_ANALYSIS")
    <3>1. receive_body \subseteq Outcomes(h.process_state_)
      BY DEF Outcomes, parse_URI, parse_Headers, Waiting
    <3> QED BY <2>2, <2>4, <3>1 DEF receive_body, g, b
  <2>5. CASE /\ b.Http_method_ # "METHOD_POST"
             /\ is \in {Outcome("STATE_FINISH", FALSE, out) : out \in BOOLEAN}
    <3>1. h.process_state_ \in {"STATE_PARSE_URI", "STATE_PARSE_HEADERS"}
      BY <1>1, <1>3, <2>5 DEF At, In
    <3>2. analyze_request \subseteq Outcomes(h.process_state_)
      BY <3>1 DEF Outcomes, parse_URI, parse_Headers
    <3> QED BY <2>2, <2>5, <3>2 DEF analyze_request, g, b
  <2> QED BY <2>3, <2>4, <2>5
<1> QED BY <1>2, <1>3

-----------------------------------------------------------------------------
(* The parser.                                                             *)

LEMMA InitParser == Init => ParserInv
<1>1. DOMAIN NewHttpData = Fields
  BY DEF NewHttpData, Fields
<1>2. /\ NewHttpData.is_error_ = FALSE /\ NewHttpData.buffer_out_ = ""
      /\ NewHttpData.Http_method_ = "METHOD_GET"
      /\ NewHttpData.process_state_ = "STATE_PARSE_URI"
  BY DEF NewHttpData
<1> QED BY <1>1, <1>2 DEF Init, ParserInv, InPass, Waiting

\* Whatever has been read, the pass over it has an outcome of its stage.
LEMMA ReadOutcome ==
  ASSUME ParserInv, handle_read
  PROVE  /\ ParserInv'
         /\ Outcome(http'.process_state_, http'.is_error_,
                    http'.buffer_out_ = "200") \in Outcomes(http.process_state_)
<1>1. PICK n \in 1..Len(arriving), fs \in FileSystem :
        http' = Analysed(AfterBody(AfterHeaders(AfterURI(
                  [http EXCEPT !.buffer_in_ =
                     http.buffer_in_ \o SubSeq(arriving, 1, n)]))), fs)
  BY DEF handle_read
<1> DEFINE received == [http EXCEPT !.buffer_in_ =
                          http.buffer_in_ \o SubSeq(arriving, 1, n)]
<1>2. InPass(http) /\ http.process_state_ \in Waiting /\ ~http.is_error_
  BY DEF ParserInv, handle_read
<1>3. /\ InPass(received) /\ ~received.is_error_
      /\ received.process_state_ = http.process_state_
  BY <1>2 DEF InPass, Fields
<1> HIDE DEF received
<1> DEFINE g == Analysed(AfterBody(AfterHeaders(AfterURI(received))), fs)
<1>4. /\ Outcome(g.process_state_, g.is_error_, g.buffer_out_ = "200")
           \in Outcomes(received.process_state_)
      /\ ~g.is_error_ /\ g.process_state_ # "STATE_FINISH" =>
           InPass(g) /\ g.process_state_ \in Waiting
  BY <1>2, <1>3, PassOutcome
<1>5. http' = g
  BY <1>1 DEF received
<1> HIDE DEF g
<1>6. ParserInv'
  BY <1>4, <1>5 DEF ParserInv, InPass
<1> QED BY <1>3, <1>4, <1>5, <1>6

\* Between two pieces of a request, whatever its bytes are, the connection is
\* one that waits for a request line, for headers or for a body, only a POST
\* request waits for a body, and none has been answered with success
\* (handle_read, parse_URI, parse_Headers).
THEOREM ParserInvariant == Spec => []ParserInv
<1>1. Init => ParserInv
  BY InitParser
<1>2. ParserInv /\ [Next]_vars => ParserInv'
  <2>1. CASE UNCHANGED vars
    BY <2>1 DEF vars, ParserInv, InPass
  <2> QED BY <2>1, ReadOutcome DEF Next
<1> QED BY <1>1, <1>2, PTL DEF Spec

\* For every set of requests and every way to cut them, well-formed or not, a
\* pass of handle_read() has one of the outcomes that Connection works with:
\* analyze_request() is reached with GET and HEAD from the headers only, and
\* with POST it never produces a response (handle_read, analyze_request).
THEOREM PassesAreStages == Spec => ImplementsStages
<1>1. ParserInv /\ [Next]_vars =>
        [Outcome(http'.process_state_, http'.is_error_,
                 http'.buffer_out_ = "200") \in Outcomes(http.process_state_)]_vars
  BY ReadOutcome DEF Next
<1> QED BY <1>1, ParserInvariant, PTL DEF Spec, ImplementsStages

-----------------------------------------------------------------------------
(* What a buffer holds.                                                    *)

\* s is what T has from position b to position m.
Holds(s, T, b, m) ==
  /\ s \in Seq(Tokens) /\ Len(s) = m + 1 - b
  /\ \A j \in 1..Len(s) : s[j] = T[b - 1 + j]

\* What stands where in the rest of a sequence.
LEMMA SubSeqHas ==
  ASSUME NEW s \in Seq(Tokens), NEW i \in Nat, NEW k \in Nat, i >= 1, i <= k + 1,
         k <= Len(s), NEW d, d = SubSeq(s, i, k)
  PROVE  /\ d \in Seq(Tokens) /\ Len(d) = k + 1 - i
         /\ \A j \in 1..(k + 1 - i) : d[j] = s[i - 1 + j]
<1>1. Len(s) \in Nat /\ \A j \in 1..Len(s) : s[j] \in Tokens
  BY LenProperties, ElementOfSeq
<1>2. PICK n \in Nat : n = k + 1 - i
  OBVIOUS
<1>3. d = [j \in 1..n |-> s[i + j - 1]]
  BY <1>2
<1>4. \A j \in 1..n : d[j] = s[i - 1 + j] /\ i - 1 + j \in 1..Len(s)
  <2> SUFFICES ASSUME NEW j \in 1..n PROVE d[j] = s[i - 1 + j] /\ i - 1 + j \in 1..Len(s)
    OBVIOUS
  <2>1. i + j - 1 = i - 1 + j /\ i - 1 + j \in 1..Len(s)
    BY <1>1, <1>2
  <2> QED BY <1>3, <2>1
<1>5. d \in [1..n -> Tokens]
  BY <1>1, <1>3, <1>4
<1>6. d \in Seq(Tokens) /\ Len(d) = n
  BY <1>5
<1> QED BY <1>2, <1>4, <1>6

\* A buffer of which the beginning is dropped, and one that grows.
LEMMA HoldsDrop ==
  ASSUME NEW T, NEW b \in Nat, NEW m \in Nat, NEW s, Holds(s, T, b, m),
         NEW i \in Nat, i >= 1, b + i <= m + 2, NEW d, d = SubSeq(s, i, Len(s))
  PROVE  Holds(d, T, b - 1 + i, m)
<1>1. PICK k \in Nat : k = Len(s) /\ k = m + 1 - b
  BY LenProperties DEF Holds
<1>2. /\ s \in Seq(Tokens) /\ \A j \in 1..k : s[j] = T[b - 1 + j]
  BY <1>1 DEF Holds
<1>3. i <= k + 1 /\ k <= Len(s) /\ d = SubSeq(s, i, k)
  BY <1>1
<1>4. /\ d \in Seq(Tokens) /\ Len(d) = k + 1 - i
      /\ \A j \in 1..(k + 1 - i) : d[j] = s[i - 1 + j]
  <2>1. s \in Seq(Tokens)
    BY <1>2
  <2> QED BY <1>3, <2>1, SubSeqHas
<1>5. k + 1 - i = m + 1 - (b - 1 + i)
  BY <1>1
<1>6. ASSUME NEW j \in 1..(k + 1 - i) PROVE d[j] = T[b - 1 + i - 1 + j]
  <2>1. i - 1 + j \in 1..k /\ b - 1 + (i - 1 + j) = b - 1 + i - 1 + j
    BY <1>1, <1>3
  <2> QED BY <1>2, <1>4, <2>1
<1> QED BY <1>4, <1>5, <1>6 DEF Holds

LEMMA HoldsMore ==
  ASSUME NEW T, NEW b \in Nat, NEW m \in Nat, b <= m + 1, NEW s, Holds(s, T, b, m),
         NEW N \in Nat, NEW a, Holds(a, T, m + 1, N), NEW n \in 1..Len(a)
  PROVE  /\ m + n \in Nat /\ m < m + n /\ m + n <= N
         /\ Holds(s \o SubSeq(a, 1, n), T, b, m + n)
         /\ Holds(SubSeq(a, n + 1, Len(a)), T, m + n + 1, N)
<1>1. PICK k \in Nat, x \in Nat : k = Len(s) /\ k = m + 1 - b /\ x = Len(a) /\ x = N - m
  <2>1. Len(a) \in Nat /\ Len(s) \in Nat
    BY LenProperties DEF Holds
  <2>2. Len(a) = N + 1 - (m + 1) /\ Len(s) = m + 1 - b
    BY DEF Holds
  <2> QED BY <2>1, <2>2
<1>2. /\ s \in Seq(Tokens) /\ a \in Seq(Tokens)
      /\ \A j \in 1..k : s[j] = T[b - 1 + j]
      /\ \A j \in 1..x : a[j] = T[m + 1 - 1 + j]
  BY <1>1 DEF Holds
<1>3. n \in Nat /\ n >= 1 /\ n <= x
  BY <1>1
<1>4. PICK d : d = SubSeq(a, 1, n)
  OBVIOUS
<1>5. /\ d \in Seq(Tokens) /\ Len(d) = n
      /\ \A j \in 1..n : d[j] = a[j]
  <2>1. n + 1 - 1 = n /\ \A j \in 1..n : 1 - 1 + j = j
    BY <1>3
  <2>2. PICK i \in Nat : i = 1
    OBVIOUS
  <2>3. i >= 1 /\ i <= n + 1 /\ n <= Len(a) /\ d = SubSeq(a, i, n)
    BY <1>1, <1>3, <1>4, <2>2
  <2>4. /\ d \in Seq(Tokens) /\ Len(d) = n + 1 - i
        /\ \A j \in 1..(n + 1 - i) : d[j] = a[i - 1 + j]
    BY <1>2, <1>3, <2>3, SubSeqHas
  <2> QED BY <2>1, <2>2, <2>4
<1>6. PICK c : c = s \o d /\ c \in Seq(Tokens) /\ Joined(s, d, c)
  BY <1>2, <1>5, JoinedConcat
<1>7. Holds(c, T, b, m + n)
  <2>1. /\ Len(c) = k + n
        /\ \A j \in 1..k : c[j] = s[j]
        /\ \A j \in 1..n : c[k + j] = d[j]
    BY <1>1, <1>5, <1>6 DEF Joined
  <2>2. ASSUME NEW j \in 1..(k + n) PROVE c[j] = T[b - 1 + j]
    <3>1. CASE j \in 1..k
      BY <1>2, <2>1, <3>1
    <3>2. CASE j - k \in 1..n
      <4>1. k + (j - k) = j /\ j - k \in 1..x /\ m + 1 - 1 + (j - k) = b - 1 + j
        BY <1>1, <1>3, <3>2
      <4>2. PICK t \in Nat : t = j - k /\ t \in 1..n
        BY <3>2
      <4>3. k + t = j /\ t \in 1..x /\ m + 1 - 1 + t = b - 1 + j
        BY <4>1, <4>2
      <4>4. c[k + t] = d[t]
        BY <2>1, <4>2
      <4>5. d[t] = a[t]
        BY <1>5, <4>2
      <4>6. a[t] = T[m + 1 - 1 + t]
        BY <1>2, <4>3
      <4> QED BY ONLY <4>3, <4>4, <4>5, <4>6
    <3> QED BY <1>3, <3>1, <3>2
  <2>3. k + n = m + n + 1 - b
    BY <1>1, <1>3
  <2> QED BY <1>6, <2>1, <2>2, <2>3 DEF Holds
<1>8. Holds(SubSeq(a, n + 1, Len(a)), T, m + n + 1, N)
  <2>1. PICK i \in Nat, y \in Nat : i = n + 1 /\ y = m + 1
    BY <1>3
  <2>2. PICK e : e = SubSeq(a, i, Len(a))
    OBVIOUS
  <2>3. i >= 1 /\ y + i <= N + 2 /\ y - 1 + i = m + n + 1 /\ Holds(a, T, y, N)
    BY <1>1, <1>3, <2>1
  <2>4. Holds(e, T, y - 1 + i, N)
    BY <2>2, <2>3, HoldsDrop
  <2> QED BY <2>1, <2>2, <2>3, <2>4
<1> QED BY <1>1, <1>3, <1>4, <1>6, <1>7, <1>8

\* find() from the beginning on: the first position of t, if there is one.
LEMMA FindIs ==
  ASSUME NEW s, NEW n \in Nat, n = Len(s), NEW t, NEW f, f = find(s, t, 1)
  PROVE  \/ f = 0 /\ \A j \in 1..n : s[j] # t
         \/ f \in 1..n /\ s[f] = t /\ \A j \in 1..n : s[j] = t => f <= j
<1> DEFINE I == {j \in 1..n : s[j] = t}
<1>1. f = IF I # {} THEN Min(I) ELSE 0
  BY DEF find, SelectInSubSeq
<1>2. CASE I = {}
  BY <1>1, <1>2
<1>3. CASE I # {}
  <2>1. I \subseteq Nat
    OBVIOUS
  <2>2. \E x \in I : \A y \in I : ~(y < x)
    <3> HIDE DEF I
    <3> QED BY <1>3, <2>1, LeastNumber
  <2>3. \E x \in I : \A y \in I : x <= y
    BY <2>1, <2>2
  <2>4. Min(I) \in I /\ \A y \in I : Min(I) <= y
    <3> HIDE DEF I
    <3> QED BY <2>3 DEF Min
  <2> QED BY <1>1, <1>3, <2>4
<1> QED BY <1>2, <1>3

\* Where the loop of parse_Headers() can begin, with the tokens from b to m.
Begins(T, L, E, b, m, state) ==
  /\ b >= 1 /\ b <= m + 1 /\ b <= E
  /\ state \in InHeader \union {"H_START", "H_LF", "H_END_CR"}
  /\ state = "H_START" => b = L \/ (b = 1 /\ m < L - 1)
  /\ state # "H_START" => b <= m
  /\ state \in InHeader => T[b] # "SP" /\ LineBegins(T, b)
  /\ state \in InValue => T[b] # "CR" /\ b <= E - 4
  /\ state = "H_LF" => T[b] = "LF" /\ b < E - 1
  /\ state = "H_END_CR" => m >= E

\* parse_URI() leaves the buffer where the headers can begin.
LEMMA URIProgress ==
  ASSUME NEW T, NEW L, NEW E, NEW H, Shape(T, L, E, H), NEW m \in Nat, m >= 1,
         NEW h, InPass(h), In("STATE_PARSE_URI", h), h.parse_state_ = "H_START",
         Holds(h.buffer_in_, T, 1, m), NEW g, g = ParseURI(h)
  PROVE  /\ g.headers_ = h.headers_
         /\ \/ g.is_error_
            \/ /\ g.process_state_ = "STATE_PARSE_HEADERS"
               /\ \E b \in Nat : /\ Begins(T, L, E, b, m, g.parse_state_)
                                 /\ Holds(g.buffer_in_, T, b, m)
<1> DEFINE line == IF find(h.buffer_in_, "CR", 1) = 0 THEN h.buffer_in_
                   ELSE SubSeq(h.buffer_in_, 1, find(h.buffer_in_, "CR", 1) - 1)
           slash == find(line, "/", Method(line).at)
           bad == \/ Method(line).at = 0
                  \/ VersionAt(line, slash) > Len(line)
                  \/ line[VersionAt(line, slash)] \notin {"1.0", "1.1"}
           method == Method(line).is
           name == FileName(line, slash)
<1>1. PICK s, cr : s = h.buffer_in_ /\ cr = find(s, "CR", 1)
  OBVIOUS
<1>2. PICK rest : rest = SubSeq(s, cr + 1, Len(s))
  OBVIOUS
<1>3. g = IF bad THEN handle_error([h EXCEPT !.buffer_in_ = <<>>], "400")
          ELSE [h EXCEPT !.buffer_in_ = rest, !.Http_method_ = method,
                         !.file_name_ = name, !.process_state_ = "STATE_PARSE_HEADERS"]
  BY <1>1, <1>2 DEF ParseURI
<1> HIDE DEF bad, method, name
<1>4. CASE bad
  <2>1. g = handle_error([h EXCEPT !.buffer_in_ = <<>>], "400")
    BY <1>3, <1>4
  <2> QED BY <2>1 DEF handle_error, InPass, Fields
<1>5. CASE ~bad
  <2>1. /\ g.headers_ = h.headers_ /\ g.process_state_ = "STATE_PARSE_HEADERS"
        /\ g.parse_state_ = "H_START" /\ g.buffer_in_ = rest
    BY <1>3, <1>5 DEF InPass, Fields
  <2>2. /\ L \in Nat /\ E \in Nat /\ 3 <= L /\ L + 2 <= E
        /\ T[L - 1] = "CR" /\ \A p \in 1..(L - 2) : T[p] # "CR"
    BY DEF Shape
  <2>3. s \in Seq(Tokens) /\ Len(s) = m /\ \A j \in 1..m : s[j] = T[j]
    <3>1. Len(s) = m + 1 - 1 /\ s \in Seq(Tokens) /\ \A j \in 1..Len(s) : s[j] = T[1 - 1 + j]
      BY <1>1 DEF Holds
    <3> QED BY <3>1
  <2>4. \/ cr = 0 /\ \A j \in 1..m : T[j] # "CR"
        \/ cr \in 1..m /\ T[cr] = "CR" /\ \A j \in 1..m : T[j] = "CR" => cr <= j
    <3>1. \/ cr = 0 /\ \A j \in 1..m : s[j] # "CR"
          \/ cr \in 1..m /\ s[cr] = "CR" /\ \A j \in 1..m : s[j] = "CR" => cr <= j
      BY <1>1, <2>3, FindIs
    <3> QED BY <2>3, <3>1
  <2>5. cr \in Nat /\ IF cr = 0 THEN m < L - 1 ELSE cr = L - 1 /\ L - 1 <= m
    <3>1. CASE cr = 0 /\ \A j \in 1..m : T[j] # "CR"
      <4>1. ~(L - 1 <= m)
        BY <2>2, <3>1
      <4> QED BY <2>2, <3>1, <4>1
    <3>2. CASE cr \in 1..m /\ T[cr] = "CR" /\ \A j \in 1..m : T[j] = "CR" => cr <= j
      <4>1. ~(cr <= L - 2)
        BY <2>2, <3>2
      <4>2. cr >= L - 1
        BY <2>2, <3>2, <4>1
      <4>3. L - 1 \in 1..m
        BY <2>2, <3>2, <4>2
      <4>4. cr <= L - 1
        BY <2>2, <3>2, <4>3
      <4> QED BY <2>2, <3>2, <4>2, <4>3, <4>4
    <3> QED BY <2>4, <3>1, <3>2
  <2>6. PICK i \in Nat, b \in Nat : i = cr + 1 /\ b = i
    BY <2>5
  <2>7. Begins(T, L, E, b, m, "H_START")
    BY <2>2, <2>5, <2>6 DEF Begins, InHeader, InValue
  <2>8. Holds(rest, T, b, m)
    <3>1. PICK one \in Nat : one = 1 /\ Holds(s, T, one, m)
      BY <1>1
    <3>2. i >= 1 /\ one + i <= m + 2 /\ rest = SubSeq(s, i, Len(s)) /\ one - 1 + i = b
      BY <1>2, <2>2, <2>5, <2>6, <3>1
    <3>3. Holds(rest, T, one - 1 + i, m)
      BY <3>1, <3>2, HoldsDrop
    <3> QED BY <3>2, <3>3
  <2> QED BY <2>1, <2>7, <2>8
<1> QED BY <1>4, <1>5

\* How the parser waits for the rest of the headers: the tokens from b to m
\* are in the buffer.
Kept(T, L, E, b, m, state) ==
  /\ b >= 1 /\ b <= m + 1 /\ m < E
  /\ state \in InHeader \union {"H_START", "H_LF", "H_END_CR"}
  /\ state = "H_START" => b = L
  /\ state \in InHeader => T[b] # "SP" /\ LineBegins(T, b)
  /\ state \in InValue => T[b] # "CR" /\ b <= E - 4
  /\ state = "H_LF" => b = m /\ T[b] = "LF"
  /\ state = "H_END_CR" => m = E - 1

\* With more tokens the loop can begin where it has been left.
LEMMA KeptBegins ==
  ASSUME NEW T, NEW L, NEW E, NEW H, Shape(T, L, E, H), NEW b \in Nat, NEW m \in Nat,
         NEW n \in Nat, m < n, NEW state, Kept(T, L, E, b, m, state)
  PROVE  Begins(T, L, E, b, n, state)
<1>1. /\ L \in Nat /\ E \in Nat /\ T[E - 1] = "CR"
  BY DEF Shape
<1>2. /\ b >= 1 /\ b <= m + 1 /\ m < E
      /\ state \in InHeader \union {"H_START", "H_LF", "H_END_CR"}
      /\ state = "H_START" => b = L
      /\ state \in InHeader => T[b] # "SP" /\ LineBegins(T, b)
      /\ state \in InValue => T[b] # "CR" /\ b <= E - 4
      /\ state = "H_LF" => b = m /\ T[b] = "LF"
      /\ state = "H_END_CR" => m = E - 1
  BY DEF Kept
<1>3. b <= n + 1 /\ b <= E /\ b <= n
  BY <1>1, <1>2
<1>4. state = "H_LF" => b < E - 1
  BY <1>1, <1>2
<1>5. state = "H_END_CR" => n >= E
  BY <1>1, <1>2
<1> QED BY <1>2, <1>3, <1>4, <1>5 DEF Begins

\* What is found holds before the first turn.
LEMMA BeginsScan ==
  ASSUME NEW T, NEW L, NEW E, NEW H, Shape(T, L, E, H), NEW b \in Nat, NEW m \in Nat,
         NEW h, Begins(T, L, E, b, m, h.parse_state_), Genuine(h.headers_, H)
  PROVE  Scan(T, L, E, H, b, m, b - 1, NewLocals(h))
<1>1. PICK l : l = NewLocals(h)
  OBVIOUS
<1>2. /\ Locals(l) /\ l.state = h.parse_state_ /\ l.headers = h.headers_
      /\ l.key_start = 0 /\ l.read_cur = 1 /\ l.finished = FALSE
  BY <1>1 DEF NewLocals, Locals, LocalFields
<1>3. E \in Nat /\ L \in Nat /\ 3 <= L
  BY DEF Shape
<1>4. /\ b >= 1 /\ b <= m + 1 /\ b <= E
      /\ l.state \in InHeader \union {"H_START", "H_LF", "H_END_CR"}
      /\ l.state = "H_START" => b = L \/ (b = 1 /\ m < L - 1)
      /\ l.state \in InHeader => T[b] # "SP" /\ LineBegins(T, b)
      /\ l.state \in InValue => T[b] # "CR" /\ b <= E - 4
      /\ l.state = "H_LF" => T[b] = "LF" /\ b < E - 1
      /\ l.state = "H_END_CR" => m >= E
  BY <1>2 DEF Begins
<1>5. b - 1 < E /\ b - 1 + l.read_cur = b /\ b <= b - 1 + 1 /\ (b = 1 => b - 1 = 0)
  BY <1>2, <1>3, <1>4
<1>6. b = L => \A q \in L..(b - 1) : T[q] \in {"LF", "r"}
  BY <1>3
<1>7. Place(T, L, E, b, m, b - 1, l)
  BY <1>2, <1>4, <1>5, <1>6 DEF Place, InHeader, InValue
<1>8. KeyFrom(T, L, E, H, b, m, b - 1, l)
  BY <1>2 DEF KeyFrom
<1>9. l.state \in States /\ l.state # "H_END_LF"
  BY <1>4 DEF States, InHeader, InValue
<1> QED BY <1>1, <1>2, <1>7, <1>8, <1>9 DEF Scan

\* When the loop has looked at all of the buffer.
LEMMA ScanKept ==
  ASSUME NEW T, NEW L, NEW E, NEW H, Shape(T, L, E, H), NEW b \in Nat, NEW m \in Nat,
         b >= 1, m >= 1, NEW l, b <= m \/ l.state = "H_START",
         Scan(T, L, E, H, b, m, m, l), ~l.failed, l.state # "H_END_LF"
  PROVE  /\ l.read_cur \in Nat /\ l.read_cur >= 1 /\ b + l.read_cur <= m + 2
         /\ Kept(T, L, E, b - 1 + l.read_cur, m, l.state)
<1>1. l.read_cur \in Nat /\ l.state \in States /\ Place(T, L, E, b, m, m, l)
  BY DEF Scan, Locals
<1>2. E \in Nat /\ L \in Nat
  BY DEF Shape
<1>3. PICK c \in Nat : c = b - 1 + l.read_cur
  BY <1>1
<1>4. /\ l.read_cur >= 1 /\ c <= m + 1 /\ m < E
      /\ l.state = "H_START" => l.read_cur = 1 /\ ((b = 1 /\ m = 0) \/ b = L)
      /\ l.state \in InHeader => T[c] # "SP" /\ LineBegins(T, c)
      /\ l.state \in InValue => c <= E - 4 /\ T[c] # "CR"
      /\ l.state = "H_LF" => IF m = b - 1 THEN T[b] = "LF" /\ b < E - 1
                                          ELSE T[m] = "LF" /\ c = m
      /\ l.state = "H_END_CR" => IF m = b - 1 THEN m >= E ELSE m = E - 1
  BY <1>1, <1>3 DEF Place, InHeader
<1>5. l.state = "H_START" => c = L
  BY <1>3, <1>4
<1>6. l.state = "H_LF" => c = m /\ T[c] = "LF"
  BY <1>4
<1>7. l.state = "H_END_CR" => m = E - 1
  BY <1>2, <1>4
<1>8. c >= 1 /\ b + l.read_cur <= m + 2
  BY <1>1, <1>3, <1>4
<1>9. l.state \in InHeader \union {"H_START", "H_LF", "H_END_CR"}
  BY <1>1 DEF States, InHeader, InValue
<1>10. Kept(T, L, E, c, m, l.state)
  BY <1>4, <1>5, <1>6, <1>7, <1>8, <1>9 DEF Kept
<1> QED BY <1>1, <1>3, <1>4, <1>8, <1>10

\* parse_Headers() fails, waits, or has seen the end of the headers.
LEMMA HeadersProgress ==
  ASSUME NEW T, NEW L, NEW E, NEW H, Shape(T, L, E, H), NEW m \in Nat, m >= 1,
         NEW b \in Nat, NEW h, InPass(h), In("STATE_PARSE_HEADERS", h),
         Begins(T, L, E, b, m, h.parse_state_), Holds(h.buffer_in_, T, b, m),
         Genuine(h.headers_, H), NEW g, g = ParseHeaders(h)
  PROVE  /\ Genuine(g.headers_, H)
         /\ \/ g.is_error_
            \/ /\ g.process_state_ = "STATE_PARSE_HEADERS"
               /\ \E c \in Nat : /\ Kept(T, L, E, c, m, g.parse_state_)
                                 /\ Holds(g.buffer_in_, T, c, m)
            \/ /\ g.process_state_ \in {"STATE_RECV_BODY", "STATE_ANALYSIS"}
               /\ m >= E /\ g.buffer_in_ \in Seq(Tokens)
<1>1. PICK s : s = h.buffer_in_
  OBVIOUS
<1>2. /\ s \in Seq(Tokens) /\ Len(s) \in Nat /\ Len(s) = m + 1 - b
      /\ \A j \in 1..Len(s) : s[j] = T[b - 1 + j]
  BY <1>1, LenProperties DEF Holds
<1>3. b >= 1 /\ b <= m + 1
  BY DEF Begins
<1>4. PICK l : l = Scanned(h)
  OBVIOUS
<1>5. Scan(T, L, E, H, b, m, m, l)
  <2>1. Scan(T, L, E, H, b, m, b - 1, NewLocals(h))
    BY BeginsScan
  <2> QED BY <1>1, <1>2, <1>3, <1>4, <2>1, ScanAll
<1>6. b <= m \/ l.state = "H_START"
  <2> SUFFICES ASSUME b = m + 1 PROVE l.state = "H_START"
    BY <1>3
  <2>1. Len(h.buffer_in_) = 0
    BY <1>1, <1>2
  <2>2. PICK f : /\ Loop(h.buffer_in_, NewLocals(h), 0, f) /\ l = f[0]
    BY <1>4, <2>1, ScannedIs
  <2>3. l = NewLocals(h)
    BY <2>2 DEF Loop
  <2>4. h.parse_state_ = "H_START"
    BY DEF Begins
  <2> QED BY <2>3, <2>4 DEF NewLocals
<1>7. Genuine(l.headers, H) /\ l.next \in Nat \ {0}
  BY <1>5 DEF Scan, Locals
<1> DEFINE h2 == [h EXCEPT !.parse_state_ = l.state, !.headers_ = l.headers]
           from(i) == [h2 EXCEPT !.buffer_in_ = SubSeq(h2.buffer_in_, i, Len(h2.buffer_in_))]
<1>8. g = CASE l.failed -> handle_error(h2, "400")
            [] ~l.failed /\ HeadersEnd(l) ->
                 [from(l.next) EXCEPT !.process_state_ =
                    IF h.Http_method_ = "METHOD_POST" THEN "STATE_RECV_BODY"
                                                      ELSE "STATE_ANALYSIS"]
            [] OTHER -> from(l.read_cur)
  BY <1>4 DEF ParseHeaders
<1>9. /\ DOMAIN h2 = Fields /\ h2.headers_ = l.headers /\ h2.parse_state_ = l.state
      /\ h2.buffer_in_ = s /\ h2.process_state_ = "STATE_PARSE_HEADERS"
  BY <1>1 DEF InPass, Fields, In
<1> HIDE DEF h2
<1>10. \A i : /\ DOMAIN from(i) = Fields /\ from(i).headers_ = l.headers
              /\ from(i).parse_state_ = l.state
              /\ from(i).buffer_in_ = SubSeq(s, i, Len(s))
              /\ from(i).process_state_ = "STATE_PARSE_HEADERS"
  BY <1>9 DEF Fields
<1> HIDE DEF from
<1>11. CASE l.failed
  <2>1. g = handle_error(h2, "400")
    BY <1>8, <1>11
  <2> QED BY <1>7, <1>9, <2>1 DEF handle_error, Fields
<1>12. CASE ~l.failed /\ l.state = "H_END_LF"
  <2>1. g = [from(l.next) EXCEPT !.process_state_ =
               IF h.Http_method_ = "METHOD_POST" THEN "STATE_RECV_BODY"
                                                 ELSE "STATE_ANALYSIS"]
    BY <1>8, <1>12 DEF HeadersEnd
  <2>2. /\ g.headers_ = l.headers /\ g.buffer_in_ = SubSeq(s, l.next, Len(s))
        /\ g.process_state_ \in {"STATE_RECV_BODY", "STATE_ANALYSIS"}
    BY <1>10, <2>1 DEF Fields
  <2>3. SubSeq(s, l.next, Len(s)) \in Seq(Tokens)
    <3>1. \A i \in l.next..Len(s) : i \in 1..Len(s)
      BY <1>2, <1>7
    <3> QED BY <1>2, <1>7, <3>1, SubSeqProperties
  <2>4. m >= E
    BY <1>5, <1>12 DEF Scan, Place
  <2> QED BY <1>7, <2>2, <2>3, <2>4
<1>13. CASE ~l.failed /\ l.state # "H_END_LF"
  <2>1. g = from(l.read_cur)
    BY <1>8, <1>13 DEF HeadersEnd
  <2>2. /\ g.headers_ = l.headers /\ g.buffer_in_ = SubSeq(s, l.read_cur, Len(s))
        /\ g.parse_state_ = l.state /\ g.process_state_ = "STATE_PARSE_HEADERS"
    BY <1>10, <2>1
  <2>3. /\ l.read_cur \in Nat /\ l.read_cur >= 1 /\ b + l.read_cur <= m + 2
        /\ Kept(T, L, E, b - 1 + l.read_cur, m, l.state)
    BY <1>3, <1>5, <1>6, <1>13, ScanKept
  <2>4. PICK c \in Nat : c = b - 1 + l.read_cur
    BY <2>3
  <2>5. Holds(g.buffer_in_, T, c, m)
    BY <1>1, <2>2, <2>3, <2>4, HoldsDrop
  <2> QED BY <1>7, <2>2, <2>3, <2>4, <2>5
<1> QED BY <1>11, <1>12, <1>13

\* A name of the request is not one that the loop makes up.
LEMMA NamesAreNotSpurious ==
  ASSUME NEW e, PlainHeader(e)
  PROVE  ~Spurious(e[1])
<1>1. PICK a \in Seq(Tokens) :
        /\ e[1] = a /\ Len(a) \in Nat \ {0}
        /\ \A j \in 1..Len(a) : a[j] \notin {"CR", "LF", ":", "SP"}
  BY PlainParts
<1>2. 1 \in 1..Len(a) /\ DOMAIN a = 1..Len(a)
  BY <1>1
<1>3. a[1] \in Tokens /\ a[1] # "LF"
  BY <1>1, <1>2, ElementOfSeq
<1> QED BY <1>1, <1>2, <1>3, TokenFacts DEF Spurious

\* A body that is missing is one that the request has.
LEMMA BodyProgress ==
  ASSUME NEW r, PlainRequest(r), NEW h, InPass(h), In("STATE_RECV_BODY", h),
         Genuine(h.headers_, ToSet(r.headers)), h.buffer_in_ \in Seq(Tokens),
         NEW g, g = ReceiveBody(h)
  PROVE  /\ g.headers_ = h.headers_
         /\ \/ g.is_error_
            \/ g = h /\ r.body # <<>>
            \/ g.process_state_ = "STATE_ANALYSIS"
<1>1. CASE ContentLength \notin DOMAIN h.headers_
  <2>1. g = handle_error(h, "400")
    BY <1>1 DEF ReceiveBody
  <2> QED BY <2>1 DEF handle_error, InPass, Fields
<1>2. CASE /\ ContentLength \in DOMAIN h.headers_
           /\ BodyMissing(h, Numbers[h.headers_[ContentLength][1]])
  <2>1. g = h
    BY <1>2 DEF ReceiveBody
  <2>2. ~Spurious(ContentLength)
    BY DEF Spurious, ContentLength
  <2>3. PICK v : v = h.headers_[ContentLength] /\ <<ContentLength, v>> \in ToSet(r.headers)
    BY <1>2, <2>2 DEF Genuine
  <2>4. Numbers[v[1]] = Len(r.body)
    BY <2>3 DEF PlainRequest
  <2>5. r.body # <<>>
    <3>1. Len(h.buffer_in_) \in Nat
      BY LenProperties
    <3>2. Len(h.buffer_in_) < Len(r.body)
      BY <1>2, <2>3, <2>4 DEF BodyMissing
    <3>3. r.body = <<>> => Len(r.body) = 0
      BY EmptySeq
    <3> QED BY <3>1, <3>2, <3>3
  <2> QED BY <2>1, <2>5
<1>3. CASE /\ ContentLength \in DOMAIN h.headers_
           /\ ~BodyMissing(h, Numbers[h.headers_[ContentLength][1]])
  <2>1. g = [h EXCEPT !.process_state_ = "STATE_ANALYSIS"]
    BY <1>3 DEF ReceiveBody
  <2> QED BY <2>1 DEF InPass, Fields
<1> QED BY <1>1, <1>2, <1>3

\* analyze_request() leaves the headers alone.
LEMMA AnalysisKeeps ==
  ASSUME NEW h, InPass(h), NEW fs \in FileSystem, NEW g, g = AnalyzeRequest(h, fs)
  PROVE  g.headers_ = h.headers_
<1> DEFINE keep == WantsKeepAlive(h)
           k == [h EXCEPT !.keep_alive_ = keep]
           finish(out) == [k EXCEPT !.process_state_ = "STATE_FINISH",
                                    !.buffer_out_ = out]
<1>1. g \in IF h.Http_method_ = "METHOD_POST" THEN {[h EXCEPT !.is_error_ = TRUE]}
            ELSE {finish("200"), finish(""), handle_error(k, "404")}
  BY DEF AnalyzeRequest, FileSystem, InPass
<1> HIDE DEF keep
<1>2. DOMAIN k = Fields /\ k.headers_ = h.headers_
  BY DEF InPass, Fields
<1> HIDE DEF k
<1>3. \A out : finish(out).headers_ = h.headers_
  BY <1>2 DEF Fields
<1>4. handle_error(k, "404").headers_ = h.headers_
  BY <1>2 DEF handle_error, Fields
<1>5. [h EXCEPT !.is_error_ = TRUE].headers_ = h.headers_
  BY DEF InPass, Fields
<1> HIDE DEF finish
<1> QED BY <1>1, <1>3, <1>4, <1>5

-----------------------------------------------------------------------------
(* A pass over a request.                                                  *)

\* What a connection has that waits for the token behind the m-th.
Waits(T, L, E, r, m, h) ==
  CASE h.process_state_ = "STATE_PARSE_URI" ->
         m = 0 /\ h.buffer_in_ = <<>> /\ h.parse_state_ = "H_START"
    [] h.process_state_ = "STATE_PARSE_HEADERS" ->
         \E b \in 1..(m + 1) : /\ Kept(T, L, E, b, m, h.parse_state_)
                               /\ Holds(h.buffer_in_, T, b, m)
    [] OTHER -> m >= E /\ r.body # <<>> /\ h.buffer_in_ \in Seq(Tokens)

\* A pass over the tokens that have arrived.
LEMMA PassProgress ==
  ASSUME NEW r, PlainRequest(r), NEW T, NEW L, NEW E, NEW H, H = ToSet(r.headers),
         Shape(T, L, E, H), NEW m \in Nat, m >= 1,
         NEW h, InPass(h), ~h.is_error_, h.process_state_ \in Waiting,
         Genuine(h.headers_, H), h.buffer_in_ \in Seq(Tokens),
         h.process_state_ = "STATE_PARSE_URI" =>
           h.parse_state_ = "H_START" /\ Holds(h.buffer_in_, T, 1, m),
         h.process_state_ = "STATE_PARSE_HEADERS" =>
           \E b \in Nat : /\ Begins(T, L, E, b, m, h.parse_state_)
                          /\ Holds(h.buffer_in_, T, b, m),
         h.process_state_ = "STATE_RECV_BODY" => m >= E /\ r.body # <<>>,
         NEW g, g = AfterBody(AfterHeaders(AfterURI(h)))
  PROVE  /\ Genuine(g.headers_, H)
         /\ In("STATE_ANALYSIS", g) => m >= E
         /\ ~g.is_error_ /\ g.process_state_ # "STATE_ANALYSIS" => Waits(T, L, E, r, m, g)
<1>1. PICK u, p : u = AfterURI(h) /\ p = AfterHeaders(u) /\ g = AfterBody(p)
  OBVIOUS
<1>2. /\ InPass(u) /\ Genuine(u.headers_, H)
      /\ \/ u.is_error_
         \/ /\ ~u.is_error_ /\ u.process_state_ = "STATE_PARSE_HEADERS"
            /\ \E b \in Nat : /\ Begins(T, L, E, b, m, u.parse_state_)
                              /\ Holds(u.buffer_in_, T, b, m)
         \/ /\ ~u.is_error_ /\ u.process_state_ = "STATE_RECV_BODY"
            /\ m >= E /\ r.body # <<>> /\ u.buffer_in_ \in Seq(Tokens)
  <2>1. CASE In("STATE_PARSE_URI", h)
    <3>1. u = ParseURI(h)
      BY <1>1, <2>1 DEF AfterURI
    <3>2. InPass(u)
      BY <2>1, <3>1, URIOutcome
    <3>3. h.parse_state_ = "H_START" /\ Holds(h.buffer_in_, T, 1, m)
      BY <2>1 DEF In
    <3>4. /\ u.headers_ = h.headers_
          /\ \/ u.is_error_
             \/ /\ u.process_state_ = "STATE_PARSE_HEADERS"
                /\ \E b \in Nat : /\ Begins(T, L, E, b, m, u.parse_state_)
                                  /\ Holds(u.buffer_in_, T, b, m)
      BY <2>1, <3>1, <3>3, URIProgress
    <3> QED BY <3>2, <3>4
  <2>2. CASE ~In("STATE_PARSE_URI", h)
    <3>1. u = h /\ h.process_state_ \in {"STATE_PARSE_HEADERS", "STATE_RECV_BODY"}
      BY <1>1, <2>2 DEF AfterURI, In, Waiting
    <3> QED BY <3>1
  <2> QED BY <2>1, <2>2
<1>3. /\ InPass(p) /\ Genuine(p.headers_, H)
      /\ \/ p.is_error_
         \/ /\ ~p.is_error_ /\ p.process_state_ = "STATE_PARSE_HEADERS"
            /\ Waits(T, L, E, r, m, p)
         \/ ~p.is_error_ /\ p.process_state_ = "STATE_ANALYSIS" /\ m >= E
         \/ /\ ~p.is_error_ /\ p.process_state_ = "STATE_RECV_BODY"
            /\ m >= E /\ p.buffer_in_ \in Seq(Tokens)
  <2>1. CASE In("STATE_PARSE_HEADERS", u)
    <3>1. p = ParseHeaders(u)
      BY <1>1, <2>1 DEF AfterHeaders
    <3>2. InPass(p)
      BY <1>2, <2>1, <3>1, HeadersOutcome
    <3>3. PICK b \in Nat : /\ Begins(T, L, E, b, m, u.parse_state_)
                           /\ Holds(u.buffer_in_, T, b, m)
      BY <1>2, <2>1 DEF In
    <3>4. /\ Genuine(p.headers_, H)
          /\ \/ p.is_error_
             \/ /\ p.process_state_ = "STATE_PARSE_HEADERS"
                /\ \E c \in Nat : /\ Kept(T, L, E, c, m, p.parse_state_)
                                  /\ Holds(p.buffer_in_, T, c, m)
             \/ /\ p.process_state_ \in {"STATE_RECV_BODY", "STATE_ANALYSIS"}
                /\ m >= E /\ p.buffer_in_ \in Seq(Tokens)
      BY <1>2, <2>1, <3>1, <3>3, HeadersProgress
    <3>5. ASSUME p.process_state_ = "STATE_PARSE_HEADERS",
                 NEW c \in Nat, Kept(T, L, E, c, m, p.parse_state_),
                 Holds(p.buffer_in_, T, c, m)
          PROVE  Waits(T, L, E, r, m, p)
      <4>1. c \in 1..(m + 1)
        BY <3>5 DEF Kept
      <4> QED BY <3>5, <4>1 DEF Waits
    <3> QED BY <3>2, <3>4, <3>5
  <2>2. CASE ~In("STATE_PARSE_HEADERS", u)
    <3>1. p = u
      BY <1>1, <2>2 DEF AfterHeaders
    <3> QED BY <1>2, <2>2, <3>1 DEF In
  <2> QED BY <2>1, <2>2
<1>4. CASE In("STATE_RECV_BODY", p)
  <2>1. g = ReceiveBody(p) /\ m >= E /\ p.buffer_in_ \in Seq(Tokens)
    BY <1>1, <1>3, <1>4 DEF AfterBody, In
  <2>2. /\ g.headers_ = p.headers_
        /\ \/ g.is_error_
           \/ g = p /\ r.body # <<>>
           \/ g.process_state_ = "STATE_ANALYSIS"
    BY <1>3, <1>4, <2>1, BodyProgress
  <2>3. ASSUME g = p, r.body # <<>> PROVE Waits(T, L, E, r, m, g)
    BY <1>4, <2>1, <2>3 DEF Waits, In
  <2> QED BY <1>3, <2>1, <2>2, <2>3
<1>5. CASE ~In("STATE_RECV_BODY", p)
  <2>1. g = p
    BY <1>1, <1>5 DEF AfterBody
  <2> QED BY <1>3, <1>5, <2>1 DEF In
<1> QED BY <1>4, <1>5

-----------------------------------------------------------------------------
(* Between two pieces.                                                     *)

HeadersEndAt(in) == Len(in.tokens) - Len(in.request.body)

\* m tokens of the request have been read.
Progress(m) ==
  LET r == input.request
      E == HeadersEndAt(input)
  IN /\ Holds(arriving, input.tokens, m + 1, Len(input.tokens))
     /\ Genuine(http.headers_, ToSet(r.headers))
     /\ analysed # Nothing => m >= E
     /\ ~http.is_error_ =>
          IF http.process_state_ \in Waiting
          THEN Waits(input.tokens, Len(Line(r)), E, r, m, http)
          ELSE analysed # Nothing

\* What has been read of a well-formed request is not misunderstood.
RequestInv ==
  /\ input \in Inputs
  /\ input.well_formed => \E m \in 0..Len(input.tokens) : Progress(m)

\* A well-formed input has the shape of a request.
LEMMA InputShape ==
  ASSUME NEW in \in Inputs, in.well_formed
  PROVE  /\ PlainRequest(in.request) /\ in.tokens \in Seq(Tokens)
         /\ Len(in.tokens) \in Nat /\ Len(in.request.body) \in Nat
         /\ Shape(in.tokens, Len(Line(in.request)), HeadersEndAt(in),
                  ToSet(in.request.headers))
<1>1. in.tokens \in Seq(Tokens) /\ in = WellFormed(in.request) /\ PlainRequest(in.request)
  BY InputsAssumption, Zenon
<1>2. PICK r, T : r = in.request /\ T = Request(r) /\ in = WellFormed(r)
  BY <1>1
<1>3. in.tokens = T
  <2>1. WellFormed(r).tokens = Request(r)
    BY DEF WellFormed
  <2> QED BY <1>2, <2>1, Zenon
<1>4. /\ r.body \in Seq(Tokens) /\ Len(r.body) \in Nat
      /\ Shape(T, Len(Line(r)), Len(T) - Len(r.body), ToSet(r.headers))
  BY <1>1, <1>2, RequestShape
<1>5. Len(in.tokens) \in Nat
  BY <1>1, LenProperties
<1> QED BY <1>1, <1>2, <1>3, <1>4, <1>5 DEF HeadersEndAt

\* It holds before anything has arrived.
LEMMA InitRequest == Init => RequestInv
<1> SUFFICES ASSUME Init, input.well_formed
             PROVE  input \in Inputs /\ \E m \in 0..Len(input.tokens) : Progress(m)
  BY Zenon DEF Init, RequestInv
<1>1. /\ input \in Inputs /\ http = NewHttpData /\ arriving = input.tokens
      /\ analysed = Nothing
  BY DEF Init
<1>2. input.tokens \in Seq(Tokens) /\ Len(input.tokens) \in Nat
  BY <1>1, InputShape
<1>3. PICK T, N : T = input.tokens /\ N = Len(T) /\ T \in Seq(Tokens) /\ N \in Nat
  BY <1>2
<1>4. Holds(T, T, 0 + 1, N)
  <2>1. N = N + 1 - (0 + 1) /\ \A j \in 1..N : 0 + 1 - 1 + j = j
    BY <1>3
  <2> QED BY <1>3, <2>1 DEF Holds
<1>5. /\ http.headers_ = <<>> /\ http.process_state_ = "STATE_PARSE_URI"
      /\ http.buffer_in_ = <<>> /\ http.parse_state_ = "H_START"
  BY <1>1 DEF NewHttpData
<1>6. Genuine(http.headers_, ToSet(input.request.headers))
  BY <1>5 DEF Genuine
<1>7. Progress(0)
  BY <1>1, <1>3, <1>4, <1>5, <1>6 DEF Progress, Waits, Waiting
<1>8. 0 \in 0..Len(input.tokens)
  BY <1>2
<1> QED BY <1>1, <1>7, <1>8

\* One more piece, and a pass over what the buffer holds then.
LEMMA ReadProgress ==
  ASSUME ParserInv, handle_read, input \in Inputs, input.well_formed,
         NEW m \in 0..Len(input.tokens), Progress(m)
  PROVE  \E k \in 0..Len(input.tokens) : Progress(k)'
<1>1. PICK r, T, L, E, H, N :
        /\ r = input.request /\ T = input.tokens /\ L = Len(Line(r))
        /\ E = HeadersEndAt(input) /\ H = ToSet(r.headers) /\ N = Len(T)
  OBVIOUS
<1>2. PlainRequest(r) /\ N \in Nat /\ m \in Nat /\ Shape(T, L, E, H)
  BY <1>1, InputShape
<1>3. InPass(http) /\ http.process_state_ \in Waiting /\ ~http.is_error_
  BY DEF ParserInv, handle_read
<1>4. /\ Holds(arriving, T, m + 1, N) /\ Genuine(http.headers_, H)
      /\ analysed # Nothing => m >= E
      /\ Waits(T, L, E, r, m, http)
  BY <1>1, <1>3 DEF Progress
<1>5. PICK n \in 1..Len(arriving), fs \in FileSystem :
        LET received == [http EXCEPT !.buffer_in_ =
                           http.buffer_in_ \o SubSeq(arriving, 1, n)]
            h == AfterBody(AfterHeaders(AfterURI(received)))
        IN /\ http' = Analysed(h, fs)
           /\ analysed' = IF In("STATE_ANALYSIS", h) THEN h ELSE analysed
           /\ arriving' = SubSeq(arriving, n + 1, Len(arriving))
           /\ input' = input
  BY DEF handle_read
<1>6. PICK x : x = SubSeq(arriving, 1, n)
  OBVIOUS
<1>7. PICK received : received = [http EXCEPT !.buffer_in_ = http.buffer_in_ \o x]
  OBVIOUS
<1>8. PICK h : h = AfterBody(AfterHeaders(AfterURI(received)))
  OBVIOUS
<1>9. /\ http' = Analysed(h, fs)
      /\ analysed' = IF In("STATE_ANALYSIS", h) THEN h ELSE analysed
      /\ arriving' = SubSeq(arriving, n + 1, Len(arriving))
      /\ input' = input
  BY <1>5, <1>6, <1>7, <1>8
<1>10. /\ InPass(received) /\ ~received.is_error_
       /\ received.process_state_ = http.process_state_
       /\ received.parse_state_ = http.parse_state_
       /\ received.headers_ = http.headers_
       /\ received.buffer_in_ = http.buffer_in_ \o x
  BY <1>3, <1>7 DEF InPass, Fields
<1>11. ASSUME NEW b \in Nat, b <= m + 1, Holds(http.buffer_in_, T, b, m)
       PROVE  Holds(received.buffer_in_, T, b, m + n)
  <2>1. PICK s : s = http.buffer_in_
    OBVIOUS
  <2>2. Holds(s \o SubSeq(arriving, 1, n), T, b, m + n)
    BY <1>2, <1>4, <1>11, <2>1, HoldsMore
  <2> QED BY <1>6, <1>10, <2>1, <2>2
<1>12. /\ m + n \in Nat /\ m < m + n /\ m + n <= N
       /\ Holds(arriving', T, m + n + 1, N)
  <2>1. PICK b, s : b \in Nat /\ b = m + 1 /\ s = <<>> /\ Holds(s, T, b, m)
    <3>1. PICK b \in Nat : b = m + 1 /\ m + 1 - b = 0
      BY <1>2
    <3>2. Holds(<<>>, T, b, m)
      BY <3>1 DEF Holds
    <3> QED BY <3>1, <3>2
  <2>2. b <= m + 1
    BY <1>2, <2>1
  <2> QED BY <1>2, <1>4, <1>9, <2>1, <2>2, HoldsMore
<1>13. PICK k \in Nat : k = m + n /\ k >= 1 /\ m < k /\ k <= N
  BY <1>2, <1>12
<1>14. http.process_state_ = "STATE_PARSE_URI" =>
         http.parse_state_ = "H_START" /\ Holds(received.buffer_in_, T, 1, k)
  <2> SUFFICES ASSUME http.process_state_ = "STATE_PARSE_URI"
               PROVE  http.parse_state_ = "H_START" /\ Holds(received.buffer_in_, T, 1, k)
    OBVIOUS
  <2>1. m = 0 /\ http.buffer_in_ = <<>> /\ http.parse_state_ = "H_START"
    BY <1>4 DEF Waits
  <2>2. PICK b \in Nat : b = 1
    OBVIOUS
  <2>3. Holds(http.buffer_in_, T, b, m)
    BY <2>1, <2>2 DEF Holds
  <2>4. b <= m + 1
    BY <2>1, <2>2
  <2> QED BY <1>11, <1>13, <2>1, <2>2, <2>3, <2>4
<1>15. http.process_state_ = "STATE_PARSE_HEADERS" =>
         \E b \in Nat : /\ Begins(T, L, E, b, k, http.parse_state_)
                        /\ Holds(received.buffer_in_, T, b, k)
  <2> SUFFICES ASSUME http.process_state_ = "STATE_PARSE_HEADERS"
               PROVE  \E b \in Nat : /\ Begins(T, L, E, b, k, http.parse_state_)
                                     /\ Holds(received.buffer_in_, T, b, k)
    OBVIOUS
  <2>1. PICK b \in 1..(m + 1) : /\ Kept(T, L, E, b, m, http.parse_state_)
                                /\ Holds(http.buffer_in_, T, b, m)
    BY <1>4 DEF Waits
  <2>2. b \in Nat /\ b <= m + 1
    BY <1>2
  <2>3. Begins(T, L, E, b, k, http.parse_state_)
    BY <1>2, <1>13, <2>1, <2>2, KeptBegins
  <2> QED BY <1>11, <1>13, <2>1, <2>2, <2>3
<1>16. http.process_state_ = "STATE_RECV_BODY" => m >= E /\ r.body # <<>>
  BY <1>4 DEF Waits
<1>17. received.buffer_in_ \in Seq(Tokens)
  <2>1. CASE http.process_state_ = "STATE_PARSE_URI"
    BY <1>14, <2>1 DEF Holds
  <2>2. CASE http.process_state_ = "STATE_PARSE_HEADERS"
    BY <1>15, <2>2 DEF Holds
  <2>3. CASE http.process_state_ = "STATE_RECV_BODY"
    <3>1. http.buffer_in_ \in Seq(Tokens)
      BY <1>4, <2>3 DEF Waits
    <3>2. x \in Seq(Tokens)
      <4>1. arriving \in Seq(Tokens) /\ Len(arriving) \in Nat
        BY <1>4, LenProperties DEF Holds
      <4>2. \A i \in 1..n : i \in 1..Len(arriving)
        BY <4>1
      <4> QED BY <1>6, <4>1, <4>2, SubSeqProperties
    <3> QED BY <1>10, <3>1, <3>2, ConcatProperties
  <2> QED BY <1>3, <2>1, <2>2, <2>3 DEF Waiting
<1>18. /\ Genuine(h.headers_, H)
       /\ In("STATE_ANALYSIS", h) => k >= E
       /\ ~h.is_error_ /\ h.process_state_ # "STATE_ANALYSIS" => Waits(T, L, E, r, k, h)
  <2>1. k >= E \/ ~(m >= E)
    BY <1>2, <1>13 DEF Shape
  <2>2. /\ Genuine(received.headers_, H) /\ received.process_state_ \in Waiting
        /\ received.process_state_ = "STATE_PARSE_URI" =>
             received.parse_state_ = "H_START" /\ Holds(received.buffer_in_, T, 1, k)
        /\ received.process_state_ = "STATE_PARSE_HEADERS" =>
             \E b \in Nat : /\ Begins(T, L, E, b, k, received.parse_state_)
                            /\ Holds(received.buffer_in_, T, b, k)
        /\ received.process_state_ = "STATE_RECV_BODY" => k >= E /\ r.body # <<>>
    BY <1>3, <1>4, <1>10, <1>14, <1>15, <1>16, <2>1
  <2>3. InPass(received) /\ ~received.is_error_
    BY <1>10
  <2>4. PlainRequest(r) /\ H = ToSet(r.headers) /\ Shape(T, L, E, H) /\ k >= 1
    BY <1>1, <1>2, <1>13
  <2> QED BY <1>8, <1>17, <2>2, <2>3, <2>4, PassProgress
<1>19. InPass(h) /\ (~h.is_error_ /\ h.process_state_ # "STATE_ANALYSIS"
                      => h.process_state_ \in Waiting)
  <2>1. received.process_state_ \in Waiting
    BY <1>3, <1>10
  <2> QED BY <1>8, <1>10, <2>1, BeforeAnalysis DEF At, Waiting
<1>20. /\ Genuine(http'.headers_, H)
       /\ analysed' # Nothing => k >= E
       /\ ~http'.is_error_ => IF http'.process_state_ \in Waiting
                              THEN Waits(T, L, E, r, k, http')
                              ELSE analysed' # Nothing
  <2>1. CASE In("STATE_ANALYSIS", h)
    <3>1. http' = AnalyzeRequest(h, fs) /\ analysed' = h
      BY <1>9, <2>1 DEF Analysed
    <3>2. http'.headers_ = h.headers_
      BY <1>19, <3>1, AnalysisKeeps
    <3>3. http'.is_error_ \/ http'.process_state_ = "STATE_FINISH"
      BY <1>19, <2>1, <3>1, AnalysisOutcome
    <3>4. h # Nothing
      BY <1>19 DEF InPass, Fields, Nothing
    <3> QED BY <1>18, <2>1, <3>1, <3>2, <3>3, <3>4 DEF Waiting
  <2>2. CASE ~In("STATE_ANALYSIS", h)
    <3>1. http' = h /\ analysed' = analysed
      BY <1>9, <2>2 DEF Analysed
    <3>2. analysed # Nothing => k >= E
      BY <1>2, <1>4, <1>13 DEF Shape
    <3>3. ~h.is_error_ => h.process_state_ # "STATE_ANALYSIS"
      BY <2>2 DEF In
    <3> QED BY <1>18, <1>19, <3>1, <3>2, <3>3
  <2> QED BY <2>1, <2>2
<1>21. Progress(k)'
  BY <1>1, <1>9, <1>12, <1>13, <1>20 DEF Progress
<1> QED BY <1>1, <1>2, <1>13, <1>21

-----------------------------------------------------------------------------
(* What it says.                                                           *)

\* Whatever is sent and however it is cut, what the parser has made of a
\* well-formed request so far is true of the request: the headers it has
\* stored are the request's, its buffer is a part of the request, and it
\* waits for headers only as long as not all of them have arrived
\* (handle_read, parse_URI, parse_Headers).
THEOREM RequestInvariant == Spec => []RequestInv
<1>1. Init => RequestInv
  BY InitRequest
<1>2. ParserInv /\ RequestInv /\ [Next]_vars => RequestInv'
  <2> SUFFICES ASSUME ParserInv, RequestInv, [Next]_vars PROVE RequestInv'
    OBVIOUS
  <2>1. CASE UNCHANGED vars
    BY <2>1, Zenon DEF vars, RequestInv, Progress
  <2>2. CASE handle_read
    <3>1. input' = input /\ input \in Inputs
      BY <2>2 DEF handle_read, RequestInv
    <3>2. CASE input.well_formed
      <4>1. PICK m \in 0..Len(input.tokens) : Progress(m)
        BY <3>2, Zenon DEF RequestInv
      <4>2. \E k \in 0..Len(input.tokens) : Progress(k)'
        BY <2>2, <3>1, <3>2, <4>1, ReadProgress
      <4> QED BY <3>1, <4>2, Zenon DEF RequestInv
    <3>3. CASE ~input.well_formed
      BY <3>1, <3>3, Zenon DEF RequestInv
    <3> QED BY <3>2, <3>3, Zenon
  <2> QED BY <2>1, <2>2 DEF Next
<1> QED BY <1>1, <1>2, ParserInvariant, PTL DEF Spec

\* What the invariant says of a request.
LEMMA RequestFacts ==
  ASSUME RequestInv, input.well_formed
  PROVE  \E m, N, n, E \in Nat :
           /\ N = Len(input.tokens) /\ n = Len(input.request.body) /\ E = N - n
           /\ m <= N /\ Len(arriving) = N - m
           /\ Genuine(http.headers_, ToSet(input.request.headers))
           /\ analysed # Nothing => m >= E
           /\ ~http.is_error_ => \/ analysed # Nothing \/ m < E
                                 \/ m >= E /\ input.request.body # <<>>
<1>1. PICK m \in 0..Len(input.tokens) : Progress(m)
  BY Zenon DEF RequestInv
<1>2. input \in Inputs
  BY Zenon DEF RequestInv
<1>3. PICK r, T, L, E, H, N, n :
        /\ r = input.request /\ T = input.tokens /\ L = Len(Line(r))
        /\ E = HeadersEndAt(input) /\ H = ToSet(r.headers) /\ N = Len(T) /\ n = Len(r.body)
  OBVIOUS
<1>4. N \in Nat /\ n \in Nat /\ Shape(T, L, E, H)
  BY <1>2, <1>3, InputShape
<1>5. E \in Nat /\ E >= 2 /\ E = N - n /\ m \in Nat /\ m <= N
  <2>1. L \in Nat /\ 3 <= L /\ E \in Nat /\ L + 2 <= E
    BY <1>4 DEF Shape
  <2>2. E = N - n
    BY <1>3 DEF HeadersEndAt
  <2>3. m \in 0..N
    BY <1>1, <1>3, Zenon
  <2> QED BY <1>4, <2>1, <2>2, <2>3
<1>6. /\ Holds(arriving, T, m + 1, N) /\ Genuine(http.headers_, H)
      /\ analysed # Nothing => m >= E
      /\ ~http.is_error_ => IF http.process_state_ \in Waiting
                            THEN Waits(T, L, E, r, m, http) ELSE analysed # Nothing
  BY <1>1, <1>3 DEF Progress
<1>7. Len(arriving) = N - m
  <2>1. Len(arriving) = N + 1 - (m + 1)
    BY <1>6 DEF Holds
  <2> QED BY <1>4, <1>5, <2>1
<1>8. ASSUME http.process_state_ \in Waiting, Waits(T, L, E, r, m, http)
      PROVE  m < E \/ (m >= E /\ r.body # <<>>)
  <2>1. CASE http.process_state_ = "STATE_PARSE_URI"
    BY <1>5, <1>8, <2>1 DEF Waits
  <2>2. CASE http.process_state_ = "STATE_PARSE_HEADERS"
    BY <1>8, <2>2 DEF Waits, Kept
  <2>3. CASE http.process_state_ = "STATE_RECV_BODY"
    BY <1>8, <2>3 DEF Waits
  <2> QED BY <1>8, <2>1, <2>2, <2>3 DEF Waiting
<1>9. ~http.is_error_ => \/ analysed # Nothing \/ m < E
                         \/ m >= E /\ r.body # <<>>
  BY <1>6, <1>8
<1> QED BY <1>3, <1>4, <1>5, <1>6, <1>7, <1>9

\* For every set of requests and every way to cut them into pieces, a request
\* is analysed only when all of its headers have arrived (H_END_CR, H_END_LF).
THEOREM HeadersArriveFirst == Spec => []NotAnalysedEarly
<1>1. RequestInv => NotAnalysedEarly
  <2> SUFFICES ASSUME RequestInv, input.well_formed, analysed # Nothing
               PROVE  Len(arriving) <= Len(input.request.body)
    BY Zenon DEF NotAnalysedEarly
  <2>1. PICK m, N, n, E \in Nat :
          /\ n = Len(input.request.body) /\ E = N - n /\ m <= N /\ Len(arriving) = N - m
          /\ m >= E
    BY RequestFacts
  <2> QED BY <2>1
<1> QED BY <1>1, RequestInvariant, PTL

\* For every set of requests and every way to cut them, the parser has
\* analysed or refused a request without a body when all of it has arrived.
THEOREM NothingIsAwaited == Spec => []Settled
<1>1. RequestInv => Settled
  <2> SUFFICES ASSUME RequestInv, input.well_formed, arriving = <<>>,
                      input.request.body = <<>>, analysed = Nothing, ~http.is_error_
               PROVE  FALSE
    BY Zenon DEF Settled, AllArrived
  <2>1. PICK m, N, n, E \in Nat :
          /\ n = Len(input.request.body) /\ E = N - n /\ m <= N /\ Len(arriving) = N - m
          /\ ~http.is_error_ => \/ analysed # Nothing \/ m < E
                                \/ m >= E /\ input.request.body # <<>>
    BY RequestFacts
  <2>2. n = 0 /\ N - m = 0
    BY <2>1
  <2> QED BY <2>1, <2>2
<1> QED BY <1>1, RequestInvariant, PTL

\* For every set of requests and every way to cut them, what is stored under
\* a key of the request is the value that the request gives it.
THEOREM HeadersAreTheirs == Spec => []HeadersNotFalsified
<1>1. RequestInv => HeadersNotFalsified
  <2> SUFFICES ASSUME RequestInv, input.well_formed,
                      NEW e \in ToSet(input.request.headers),
                      e[1] \in DOMAIN http.headers_
               PROVE  http.headers_[e[1]] = e[2]
    BY Zenon DEF HeadersNotFalsified
  <2>1. Genuine(http.headers_, ToSet(input.request.headers))
    BY RequestFacts
  <2>2. input \in Inputs
    BY Zenon DEF RequestInv
  <2>3. PlainRequest(input.request)
    BY <2>2, InputShape
  <2>4. PlainHeader(e)
    BY <2>3 DEF PlainRequest
  <2>5. PICK v, f : /\ v = http.headers_[e[1]] /\ f = <<e[1], v>>
                    /\ f \in ToSet(input.request.headers)
    BY <2>1, <2>4, NamesAreNotSpurious DEF Genuine
  <2>6. f[1] = e[1] /\ f[2] = v
    BY <2>5
  <2>7. e = f
    BY <2>3, <2>5, <2>6, Zenon DEF PlainRequest
  <2> QED BY <2>5, <2>6, <2>7
<1> QED BY <1>1, RequestInvariant, PTL

-----------------------------------------------------------------------------
(* A header stands in one place.                                          *)

\* Two headers that begin behind the end of a line and end at the same place
\* are the same.
LEMMA StandsOnce ==
  ASSUME NEW T, NEW E, NEW o \in Nat, NEW k, NEW v, NEW e, HeaderStands(T, E, o, k, v, e),
         NEW p \in Nat, NEW kk, NEW vv, NEW f, HeaderStands(T, E, p, kk, vv, f),
         T[o] = "LF", T[p] = "LF", o + k + v = p + kk + vv
  PROVE  o <= p
<1> SUFFICES ASSUME p < o PROVE FALSE
  OBVIOUS
<1>1. /\ kk \in Nat \ {0} /\ vv \in Nat \ {0} /\ k \in Nat \ {0} /\ v \in Nat \ {0}
      /\ \A j \in 1..kk : T[p + j] # "LF"
      /\ T[p + kk + 1] = ":" /\ T[p + kk + 2] = "SP"
      /\ \A j \in 1..vv : T[p + kk + 2 + j] # "LF"
      /\ T[p + kk + vv + 3] = "CR"
  BY DEF HeaderStands
<1>2. o <= p + kk + vv
  BY <1>1
<1>3. CASE o <= p + kk
  <2>1. o - p \in 1..kk /\ p + (o - p) = o
    BY <1>1, <1>3
  <2> QED BY <1>1, <2>1
<1>4. CASE o = p + kk + 1 \/ o = p + kk + 2
  BY <1>1, <1>4
<1>5. CASE o > p + kk + 2
  <2>1. o - (p + kk + 2) \in 1..vv /\ p + kk + 2 + (o - (p + kk + 2)) = o
    BY <1>1, <1>2, <1>5
  <2> QED BY <1>1, <2>1
<1> QED BY <1>1, <1>3, <1>4, <1>5

\* The headers that begin at one place have names of one length,
LEMMA NameOnce ==
  ASSUME NEW T, NEW E, NEW o \in Nat, NEW k, NEW v, NEW e, HeaderStands(T, E, o, k, v, e),
         NEW kk, NEW vv, NEW f, HeaderStands(T, E, o, kk, vv, f)
  PROVE  k <= kk
<1> SUFFICES ASSUME kk < k PROVE FALSE
  BY DEF HeaderStands
<1>1. kk \in Nat \ {0} /\ k \in Nat \ {0} /\ T[o + kk + 1] = ":"
      /\ \A j \in 1..k : T[o + j] # ":"
  BY DEF HeaderStands
<1>2. kk + 1 \in 1..k /\ o + (kk + 1) = o + kk + 1
  BY <1>1
<1> QED BY <1>1, <1>2

\* and are the same.
LEMMA HeaderOnce ==
  ASSUME NEW T, NEW E, NEW o \in Nat, NEW k, NEW v, NEW e, HeaderStands(T, E, o, k, v, e),
         NEW p \in Nat, NEW kk, NEW vv, NEW f, HeaderStands(T, E, p, kk, vv, f),
         T[o] = "LF", T[p] = "LF", o + k + v = p + kk + vv,
         PlainHeader(e), PlainHeader(f)
  PROVE  e[1] = f[1]
<1>1. o = p
  BY StandsOnce
<1>2. /\ k \in Nat \ {0} /\ kk \in Nat \ {0} /\ k = Len(e[1]) /\ kk = Len(f[1])
      /\ \A j \in 1..k : T[o + j] = e[1][j]
      /\ \A j \in 1..kk : T[o + j] = f[1][j]
  BY <1>1 DEF HeaderStands
<1>3. k = kk
  <2>1. k <= kk /\ kk <= k
    BY <1>1, NameOnce
  <2> QED BY <1>2, <2>1
<1>4. PICK a \in Seq(Tokens), c \in Seq(Tokens) : e[1] = a /\ f[1] = c
  BY PlainParts
<1>5. Len(a) = k /\ Len(c) = k /\ \A j \in 1..k : a[j] = c[j]
  BY <1>2, <1>3, <1>4
<1>6. a = c
  BY <1>5, SeqEqual
<1> QED BY <1>4, <1>6

\* What a turn needs not to fail.
LEMMA TurnGoesOn ==
  ASSUME NEW s, NEW l, NEW i, NEW k, Turning(s, l, i, k),
         l.state = "H_KEY" =>
           s[i] \notin {"CR", "LF"} /\ (s[i] = ":" => i > l.key_start),
         l.state = "H_COLON" => s[i] = "SP",
         l.state = "H_VALUE" => IF s[i] = "CR" THEN i > l.value_start
                                ELSE ~(i - l.value_start > MaxValue),
         l.state \in {"H_CR", "H_END_CR"} => s[i] = "LF"
  PROVE  ~k.failed
<1>1. CASE l.state = "H_START"
  BY <1>1 DEF Turning, step, Locals, LocalFields
<1>2. CASE l.state = "H_KEY"
  BY <1>2 DEF Turning, step, Locals, LocalFields
<1>3. CASE l.state = "H_COLON"
  BY <1>3 DEF Turning, step, Locals, LocalFields
<1>4. CASE l.state = "H_SPACES_AFTER_COLON"
  BY <1>4 DEF Turning, step, Locals, LocalFields
<1>5. CASE l.state = "H_VALUE"
  BY <1>5 DEF Turning, step, Locals, LocalFields
<1>6. CASE l.state = "H_CR"
  BY <1>6 DEF Turning, step, Locals, LocalFields
<1>7. CASE l.state = "H_LF"
  BY <1>7 DEF Turning, step, Locals, LocalFields
<1>8. CASE l.state = "H_END_CR"
  BY <1>8 DEF Turning, step, Locals, LocalFields
<1>9. CASE l.state = "H_END_LF"
  BY <1>9 DEF Turning, step, Locals, LocalFields
<1> QED BY <1>1, <1>2, <1>3, <1>4, <1>5, <1>6, <1>7, <1>8, <1>9 DEF Turning, States

-----------------------------------------------------------------------------
(* The loop of parse_Headers() over a whole request.                       *)

\* The loop, with the tokens from L on, is in a header of the request.
OnTrack(T, L, E, H, p, l) ==
  \E e \in H : \E o, k, v : Within(T, E, L, p, l, e, o, k, v) /\ StandsAt(T, L, E, o, e)

\* The headers up to p have been stored, and nothing else.
Stored(T, L, E, H, p, headers) ==
  /\ \A key \in DOMAIN headers : <<key, headers[key]>> \in H
  /\ \A e \in H : \A o, n : StandsAt(T, L, E, o, e) /\ n = o + Len(e[1]) + Len(e[2]) + 4
                              /\ n <= p => e[1] \in DOMAIN headers

\* The loop has read everything up to p as it is meant.
Reading(T, L, E, H, p, l) ==
  /\ Locals(l) /\ l.state \in States /\ ~l.failed
  /\ l.finished => l.state = "H_END_LF"
  /\ Stored(T, L, E, H, p, l.headers)
  /\ l.state = "H_START" => p = L - 1 \/ p = L
  /\ l.state \in InHeader => OnTrack(T, L, E, H, p, l)
  /\ l.state = "H_LF" => T[p] = "LF" /\ L <= p /\ p < E - 1
  /\ l.state = "H_END_CR" => p = E - 1
  /\ l.state = "H_END_LF" => p = E

\* What a header of the request is.
LEMMA StandsIs ==
  ASSUME NEW T, NEW L, NEW E, NEW H, Shape(T, L, E, H), NEW e \in H, NEW o,
         StandsAt(T, L, E, o, e)
  PROVE  /\ PlainHeader(e) /\ o \in Nat /\ L <= o /\ T[o] = "LF"
         /\ HeaderStands(T, E, o, Len(e[1]), Len(e[2]), e)
<1>1. o \in Nat /\ o \in Int /\ L <= o /\ T[o] = "LF" /\ HeaderAt(T, E - 2, o, e)
  BY DEF StandsAt
<1>2. PlainHeader(e)
  BY DEF Shape
<1> QED BY <1>1, <1>2, HeaderAtStands

\* A token that ends no header completes none.
LEMMA StoredNext ==
  ASSUME NEW T, NEW L, NEW E, NEW H, Shape(T, L, E, H), NEW p \in Nat, NEW headers,
         Stored(T, L, E, H, p, headers), T[p + 1] # "LF" \/ p + 1 <= L \/ p + 1 > E - 2
  PROVE  Stored(T, L, E, H, p + 1, headers)
<1> SUFFICES ASSUME NEW e \in H, NEW o, NEW n, StandsAt(T, L, E, o, e),
                    n = o + Len(e[1]) + Len(e[2]) + 4, n <= p + 1
             PROVE  e[1] \in DOMAIN headers
  BY DEF Stored
<1>1. L \in Nat /\ E \in Nat
  BY DEF Shape
<1>2. PICK k, v : /\ k = Len(e[1]) /\ v = Len(e[2]) /\ HeaderStands(T, E, o, k, v, e)
                  /\ o \in Nat /\ L <= o
  BY StandsIs
<1>3. k \in Nat \ {0} /\ v \in Nat \ {0} /\ o + k + v + 4 <= E - 2 /\ T[o + k + v + 4] = "LF"
  BY <1>2 DEF HeaderStands
<1>4. n = o + k + v + 4
  BY <1>2
<1>a. k \in Nat /\ v \in Nat /\ o \in Nat /\ L <= o /\ o + k + v + 4 <= E - 2
  BY <1>2, <1>3
<1>5. PICK m \in Nat : m = o + k + v + 4
  BY <1>a
<1>6. m = n /\ m <= p + 1 /\ m <= E - 2 /\ m >= L + 1 /\ T[m] = "LF"
  <2>1. m = n /\ T[m] = "LF"
    BY <1>3, <1>4, <1>5
  <2>2. m >= L + 1 /\ m <= E - 2
    BY <1>1, <1>a, <1>5
  <2> QED BY <2>1, <2>2
<1>7. m # p + 1
  BY <1>1, <1>6
<1>8. n <= p
  BY <1>6, <1>7
<1> QED BY <1>8 DEF Stored

\* Behind the end of a line the loop is in a header.
LEMMA OnTrackBegins ==
  ASSUME NEW T, NEW L, NEW E, NEW H, Shape(T, L, E, H), NEW p \in Nat, p >= 1, p < E, L <= p,
         T[p] = "LF", T[p + 1] # "CR", NEW k, k.state = "H_KEY",
         k.key_start \in Nat, L - 2 + k.key_start = p
  PROVE  OnTrack(T, L, E, H, p + 1, k)
<1>1. PICK e \in H : /\ HeaderAt(T, E - 2, p, e) /\ Len(e[1]) \in Nat \ {0}
                     /\ Len(e[2]) \in Nat \ {0}
  BY HeaderBegins
<1>2. Within(T, E, L, p + 1, k, e, p, Len(e[1]), Len(e[2]))
  BY <1>1 DEF Within
<1>3. StandsAt(T, L, E, p, e)
  BY <1>1 DEF StandsAt
<1> QED BY <1>2, <1>3 DEF OnTrack

\* The header that the loop is in.
LEMMA OnTrackIs ==
  ASSUME NEW T, NEW L, NEW E, NEW H, Shape(T, L, E, H), NEW p, NEW l,
         OnTrack(T, L, E, H, p, l)
  PROVE  \E e \in H : \E o, k, v :
           /\ Within(T, E, L, p, l, e, o, k, v) /\ StandsAt(T, L, E, o, e)
           /\ HeaderStands(T, E, o, k, v, e) /\ PlainHeader(e)
           /\ o \in Nat /\ L <= o /\ T[o] = "LF" /\ k = Len(e[1]) /\ v = Len(e[2])
<1>1. PICK e \in H : \E o, k, v : Within(T, E, L, p, l, e, o, k, v) /\ StandsAt(T, L, E, o, e)
  BY DEF OnTrack
<1>2. PICK o, k, v : Within(T, E, L, p, l, e, o, k, v) /\ StandsAt(T, L, E, o, e)
  BY <1>1
<1>3. k = Len(e[1]) /\ v = Len(e[2])
  BY <1>2 DEF Within
<1>4. /\ PlainHeader(e) /\ o \in Nat /\ L <= o /\ T[o] = "LF"
      /\ HeaderStands(T, E, o, Len(e[1]), Len(e[2]), e)
  BY <1>2, StandsIs
<1> QED BY <1>2, <1>3, <1>4

\* In a header, up to its end, a turn reads what is meant.
LEMMA OnTrackStep ==
  ASSUME NEW T, NEW L, NEW E, NEW H, Shape(T, L, E, H),
         \A e \in H : Len(e[2]) <= MaxValue,
         NEW p, NEW s, NEW i, Reads(T, L, p, s, i), NEW l, NEW k, Turning(s, l, i, k),
         l.state \in {"H_KEY", "H_COLON", "H_SPACES_AFTER_COLON", "H_VALUE"},
         OnTrack(T, L, E, H, p, l)
  PROVE  /\ ~k.failed /\ OnTrack(T, L, E, H, p + 1, k) /\ T[p + 1] # "LF"
         /\ k.state \in InHeader
<1>1. /\ L \in Nat /\ p \in Nat /\ i \in Nat /\ L - 1 + i = p + 1 /\ i = p + 2 - L
      /\ s[i] = T[p + 1]
  <2>1. /\ L \in Nat /\ p \in Nat /\ p >= L - 1 /\ i \in Nat /\ i = p + 2 - L
        /\ \A j \in 1..i : s[j] = T[L - 1 + j]
    BY DEF Reads
  <2>2. i \in 1..i /\ L - 1 + i = p + 1
    BY <2>1
  <2> QED BY <2>1, <2>2
<1>2. l.key_start \in Nat /\ l.value_start \in Nat
  BY DEF Turning, Locals
<1>3. PICK e \in H : \E o, kk, v :
           /\ Within(T, E, L, p, l, e, o, kk, v) /\ StandsAt(T, L, E, o, e)
           /\ HeaderStands(T, E, o, kk, v, e) /\ PlainHeader(e)
           /\ o \in Nat /\ L <= o /\ T[o] = "LF" /\ kk = Len(e[1]) /\ v = Len(e[2])
  BY OnTrackIs
<1>4. PICK o, kk, v :
           /\ Within(T, E, L, p, l, e, o, kk, v) /\ StandsAt(T, L, E, o, e)
           /\ HeaderStands(T, E, o, kk, v, e)
           /\ o \in Nat /\ v = Len(e[2])
  BY <1>3
<1>5. kk \in Nat \ {0} /\ v \in Nat \ {0} /\ v <= MaxValue /\ MaxValue \in Nat
  BY <1>4, MaxValueAssumption DEF HeaderStands
<1>6. /\ o = L - 2 + l.key_start
      /\ l.state = "H_KEY" => o < p /\ p <= o + kk
      /\ l.state = "H_COLON" => p = o + kk + 1
      /\ l.state = "H_SPACES_AFTER_COLON" => p = o + kk + 2
      /\ l.state = "H_VALUE" => /\ o + kk + 3 <= p /\ p <= o + kk + 2 + v
                                /\ L - 1 + l.value_start = o + kk + 3
  BY <1>4 DEF Within
<1>7. /\ \A j \in 1..kk : T[o + j] \notin {"CR", "LF", ":", "SP"}
      /\ T[o + kk + 1] = ":" /\ T[o + kk + 2] = "SP"
      /\ \A j \in 1..v : T[o + kk + 2 + j] \notin {"CR", "LF"}
      /\ T[o + kk + v + 3] = "CR"
  BY <1>4 DEF HeaderStands
<1>8. CASE l.state = "H_KEY"
  <2>1. o < p /\ p <= o + kk
    BY <1>6, <1>8
  <2>2. T[p + 1] \notin {"CR", "LF"}
    <3>1. CASE p = o + kk
      BY <1>7, <3>1
    <3>2. CASE p # o + kk
      <4>1. PICK j \in Nat : j = p + 1 - o
        BY <1>1, <1>4, <2>1
      <4>2. j \in 1..kk /\ o + j = p + 1
        BY <1>1, <1>4, <1>5, <2>1, <3>2, <4>1
      <4> QED BY <1>7, <4>2
    <3> QED BY <3>1, <3>2
  <2>3. i > l.key_start
    BY <1>1, <1>2, <1>6, <2>1
  <2>4. ~k.failed
    BY <1>1, <1>8, <2>2, <2>3, TurnGoesOn
  <2>5. k.state \in InHeader
    BY <1>8, <2>4, TurnKey DEF InHeader, InValue
  <2>6. Within(T, E, L, p + 1, k, e, o, kk, v)
    BY <1>4, <1>8, <2>4, WithinStep
  <2> QED BY <1>4, <2>2, <2>4, <2>5, <2>6 DEF OnTrack
<1>9. CASE l.state = "H_COLON"
  <2>1. p = o + kk + 1
    BY <1>6, <1>9
  <2>2. p + 1 = o + kk + 2
    BY <1>4, <1>5, <2>1
  <2>3. T[p + 1] = "SP"
    BY <1>7, <2>2
  <2>4. ~k.failed
    BY <1>1, <1>9, <2>3, TurnGoesOn
  <2>5. k.state \in InHeader
    BY <1>9, <2>4, TurnColon DEF InHeader, InValue
  <2>6. Within(T, E, L, p + 1, k, e, o, kk, v)
    BY <1>4, <1>9, <2>4, WithinStep
  <2> QED BY <1>4, <2>3, <2>4, <2>5, <2>6 DEF OnTrack
<1>10. CASE l.state = "H_SPACES_AFTER_COLON"
  <2>1. p = o + kk + 2
    BY <1>6, <1>10
  <2>2. 1 \in 1..v /\ p + 1 = o + kk + 2 + 1
    BY <1>5, <2>1
  <2>3. T[p + 1] # "LF"
    BY <1>7, <2>2
  <2>4. ~k.failed
    BY <1>10, TurnGoesOn
  <2>5. k.state \in InHeader
    BY <1>10, TurnSpaces DEF InHeader, InValue
  <2>6. Within(T, E, L, p + 1, k, e, o, kk, v)
    BY <1>4, <1>10, <2>4, WithinStep
  <2> QED BY <1>4, <2>3, <2>4, <2>5, <2>6 DEF OnTrack
<1>11. CASE l.state = "H_VALUE"
  <2>1. /\ o + kk + 3 <= p /\ p <= o + kk + 2 + v
        /\ L - 1 + l.value_start = o + kk + 3
    BY <1>6, <1>11
  <2>a. o \in Nat /\ kk \in Nat /\ v \in Nat /\ p \in Nat
    BY <1>1, <1>4, <1>5
  <2>b. PICK vs \in Nat : vs = l.value_start /\ L - 1 + vs = o + kk + 3
    BY <1>2, <2>1
  <2>2. PICK j \in Nat : j = p + 1 - (o + kk + 2)
    BY <2>a, <2>1
  <2>3. j >= 1 /\ j <= v + 1 /\ o + kk + 2 + j = p + 1 /\ i - l.value_start = j - 1
    <3>1. j >= 1 /\ j <= v + 1 /\ o + kk + 2 + j = p + 1
      BY <2>1, <2>2, <2>a
    <3>2. L \in Nat /\ i \in Nat /\ L - 1 + i = p + 1
      BY <1>1
    <3>3. i - vs = j - 1
      BY <2>2, <2>a, <2>b, <3>2
    <3> QED BY <2>b, <3>1, <3>3
  <2>4. T[p + 1] # "LF" /\ (T[p + 1] = "CR" <=> j = v + 1)
    <3>1. CASE j = v + 1
      <4>1. p + 1 = o + kk + v + 3
        BY <2>a, <2>3, <3>1
      <4> QED BY <1>7, <3>1, <4>1
    <3>2. CASE j # v + 1
      <4>1. j \in 1..v
        BY <1>5, <2>3, <3>2
      <4> QED BY <1>7, <2>3, <3>2, <4>1
    <3> QED BY <3>1, <3>2
  <2>5. /\ T[p + 1] # "CR" => ~(i - l.value_start > MaxValue)
        /\ T[p + 1] = "CR" => i > l.value_start
    <3>1. j # v + 1 => ~(j - 1 > MaxValue)
      BY <1>5, <2>3
    <3>2. j = v + 1 => j - 1 > 0
      BY <1>5
    <3>3. i \in Nat /\ vs \in Nat /\ (i - vs > 0 => i > vs)
      BY <1>1
    <3> QED BY <2>b, <2>3, <2>4, <3>1, <3>2, <3>3
  <2>6. ~k.failed
    BY <1>1, <1>11, <2>5, TurnGoesOn
  <2>7. k.state \in InHeader
    BY <1>11, <2>6, TurnValue DEF InHeader, InValue
  <2>8. Within(T, E, L, p + 1, k, e, o, kk, v)
    BY <1>4, <1>11, <2>6, WithinStep
  <2> QED BY <1>4, <2>4, <2>6, <2>7, <2>8 DEF OnTrack
<1> QED BY <1>8, <1>9, <1>10, <1>11

\* At the end of a header it is stored.
LEMMA StoredWith ==
  ASSUME NEW T, NEW L, NEW E, NEW H, Shape(T, L, E, H), NEW p \in Nat, NEW headers,
         Stored(T, L, E, H, p, headers), NEW e \in H, NEW o, StandsAt(T, L, E, o, e),
         p + 1 = o + Len(e[1]) + Len(e[2]) + 4
  PROVE  Stored(T, L, E, H, p + 1, With(headers, e[1], e[2]))
<1>1. PICK new : new = With(headers, e[1], e[2])
  OBVIOUS
<1>2. /\ DOMAIN new = {e[1]} \union DOMAIN headers
      /\ \A x \in DOMAIN new : new[x] = IF x = e[1] THEN e[2] ELSE headers[x]
  BY <1>1 DEF With
<1>3. PICK k, v : /\ k = Len(e[1]) /\ v = Len(e[2]) /\ HeaderStands(T, E, o, k, v, e)
                  /\ o \in Nat /\ T[o] = "LF" /\ PlainHeader(e)
  BY StandsIs
<1>4. k \in Nat /\ v \in Nat
  BY <1>3 DEF HeaderStands
<1>5. ASSUME NEW key \in DOMAIN new PROVE <<key, new[key]>> \in H
  <2>1. CASE key = e[1]
    <3>1. e = <<e[1], e[2]>>
      BY <1>3 DEF PlainHeader
    <3>2. <<key, new[key]>> = e
      BY <1>2, <2>1, <3>1
    <3> QED BY <3>2
  <2>2. CASE key # e[1]
    <3>1. key \in DOMAIN headers /\ new[key] = headers[key]
      BY <1>2, <2>2
    <3> QED BY <3>1 DEF Stored
  <2> QED BY <2>1, <2>2
<1>6. ASSUME NEW f \in H, NEW q, NEW n, StandsAt(T, L, E, q, f),
             n = q + Len(f[1]) + Len(f[2]) + 4, n <= p + 1
      PROVE  f[1] \in DOMAIN new
  <2>1. PICK kk, vv : /\ kk = Len(f[1]) /\ vv = Len(f[2])
                      /\ HeaderStands(T, E, q, kk, vv, f)
                      /\ q \in Nat /\ T[q] = "LF" /\ PlainHeader(f)
    BY <1>6, StandsIs
  <2>2. kk \in Nat /\ vv \in Nat
    BY <2>1 DEF HeaderStands
  <2>3. n = q + kk + vv + 4 /\ p + 1 = o + k + v + 4
    BY <1>3, <1>6, <2>1
  <2>a. q \in Nat /\ o \in Nat /\ k \in Nat /\ v \in Nat /\ kk \in Nat /\ vv \in Nat
    BY <1>3, <1>4, <2>1, <2>2
  <2>4. CASE n = p + 1
    <3>1. o + k + v = q + kk + vv
      BY <2>3, <2>4, <2>a
    <3>2. e[1] = f[1]
      <4>1. /\ HeaderStands(T, E, o, k, v, e) /\ HeaderStands(T, E, q, kk, vv, f)
            /\ T[o] = "LF" /\ T[q] = "LF" /\ PlainHeader(e) /\ PlainHeader(f)
        BY <1>3, <2>1
      <4> QED BY <2>a, <3>1, <4>1, HeaderOnce
    <3> QED BY <1>2, <3>2
  <2>5. CASE n # p + 1
    <3>1. n \in Nat
      BY <2>3, <2>a
    <3>2. n <= p
      BY <1>6, <2>5, <3>1
    <3>3. f[1] \in DOMAIN headers
      BY <1>6, <3>2 DEF Stored
    <3> QED BY <1>2, <3>3
  <2> QED BY <2>4, <2>5
<1>7. Stored(T, L, E, H, p + 1, new)
  BY <1>5, <1>6 DEF Stored
<1> QED BY <1>1, <1>7

\* A turn reads what is meant.
LEMMA ReadingStep ==
  ASSUME NEW T, NEW L, NEW E, NEW H, Shape(T, L, E, H), E # L + 2,
         \A e \in H : Len(e[2]) <= MaxValue,
         NEW p, NEW s, NEW i, Reads(T, L, p, s, i), p < E,
         NEW l, Reading(T, L, E, H, p, l), NEW k, k = step(s, l, i)
  PROVE  Reading(T, L, E, H, p + 1, k)
<1>1. /\ L \in Nat /\ p \in Nat /\ p >= L - 1 /\ i \in Nat /\ L - 1 + i = p + 1 /\ i = p + 2 - L
      /\ s[i] = T[p + 1]
  <2>1. /\ L \in Nat /\ p \in Nat /\ p >= L - 1 /\ i \in Nat /\ i = p + 2 - L
        /\ \A j \in 1..i : s[j] = T[L - 1 + j]
    BY DEF Reads
  <2>2. i \in 1..i /\ L - 1 + i = p + 1
    BY <2>1
  <2> QED BY <2>1, <2>2
<1>2. /\ E \in Nat /\ 3 <= L /\ L + 2 <= E /\ T[L] = "LF" /\ T[E] = "LF"
      /\ T[L + 1] \notin {"LF", "r"} /\ T[L + 1] # "CR"
  BY DEF Shape
<1>3. /\ Locals(l) /\ l.state \in States /\ ~l.failed
      /\ l.finished => l.state = "H_END_LF"
      /\ Stored(T, L, E, H, p, l.headers)
      /\ l.state = "H_START" => p = L - 1 \/ p = L
      /\ l.state \in InHeader => OnTrack(T, L, E, H, p, l)
      /\ l.state = "H_LF" => T[p] = "LF" /\ L <= p /\ p < E - 1
      /\ l.state = "H_END_CR" => p = E - 1
      /\ l.state = "H_END_LF" => p = E
  BY DEF Reading
<1>4. l.state # "H_END_LF"
  BY <1>1, <1>2, <1>3
<1>5. Turning(s, l, i, k)
  BY <1>1, <1>3, <1>4 DEF Turning
<1>6. /\ Locals(k) /\ k.state \in States
      /\ k.finished => k.state = "H_END_LF"
      /\ k.headers = l.headers \/ (l.state = "H_CR" /\ k.state = "H_LF" /\ ~k.failed)
  BY <1>5, TurnKeeps
<1>7. k.key_start \in Nat
  BY <1>6 DEF Locals
<1>8. CASE l.state = "H_START"
  <2>1. ~k.failed /\ k.headers = l.headers
    BY <1>5, <1>6, <1>8, TurnGoesOn
  <2>2. CASE p = L - 1
    <3>1. T[p + 1] = "LF" /\ p + 1 = L
      BY <1>1, <1>2, <2>2
    <3>2. k.state = "H_START"
      BY <1>1, <1>5, <1>8, <3>1, TurnStart
    <3>3. Stored(T, L, E, H, p + 1, k.headers)
      <4>1. p + 1 <= L
        BY <1>1, <3>1
      <4>2. p \in Nat /\ Stored(T, L, E, H, p, k.headers)
        BY <1>1, <1>3, <2>1
      <4> QED BY <4>1, <4>2, StoredNext
    <3> QED BY <1>6, <2>1, <3>1, <3>2, <3>3 DEF Reading, InHeader, InValue
  <2>3. CASE p = L
    <3>1. k.state = "H_KEY" /\ k.key_start = i
      BY <1>1, <1>2, <1>5, <1>8, <2>3, TurnStart
    <3>2. L - 2 + k.key_start = p /\ p >= 1 /\ L <= p
      BY <1>1, <1>2, <2>3, <3>1
    <3>3. T[p] = "LF" /\ T[p + 1] # "CR" /\ T[p + 1] # "LF"
      BY <1>2, <2>3
    <3>4. OnTrack(T, L, E, H, p + 1, k)
      BY <1>1, <1>7, <3>1, <3>2, <3>3, OnTrackBegins
    <3>5. Stored(T, L, E, H, p + 1, k.headers)
      BY <1>1, <1>3, <2>1, <3>3, StoredNext
    <3> QED BY <1>6, <2>1, <3>1, <3>4, <3>5 DEF Reading, InHeader, InValue
  <2> QED BY <1>3, <1>8, <2>2, <2>3
<1>9. CASE l.state \in {"H_KEY", "H_COLON", "H_SPACES_AFTER_COLON", "H_VALUE"}
  <2>1. OnTrack(T, L, E, H, p, l)
    BY <1>3, <1>9 DEF InHeader, InValue
  <2>2. /\ ~k.failed /\ OnTrack(T, L, E, H, p + 1, k) /\ T[p + 1] # "LF"
        /\ k.state \in InHeader
    BY <1>5, <1>9, <2>1, OnTrackStep
  <2>3. k.headers = l.headers
    BY <1>6, <1>9
  <2>4. Stored(T, L, E, H, p + 1, k.headers)
    BY <1>1, <1>3, <2>2, <2>3, StoredNext
  <2> QED BY <1>6, <2>2, <2>4 DEF Reading, InHeader, InValue
<1>10. CASE l.state = "H_CR"
  <2>1. PICK e \in H : \E o, kk, v :
           /\ Within(T, E, L, p, l, e, o, kk, v) /\ StandsAt(T, L, E, o, e)
           /\ HeaderStands(T, E, o, kk, v, e) /\ PlainHeader(e)
           /\ o \in Nat /\ L <= o /\ T[o] = "LF" /\ kk = Len(e[1]) /\ v = Len(e[2])
    BY <1>3, <1>10, OnTrackIs DEF InHeader, InValue
  <2>2. PICK o, kk, v :
           /\ Within(T, E, L, p, l, e, o, kk, v) /\ StandsAt(T, L, E, o, e)
           /\ HeaderStands(T, E, o, kk, v, e)
           /\ o \in Nat /\ L <= o /\ kk = Len(e[1]) /\ v = Len(e[2])
    BY <2>1
  <2>3. /\ kk \in Nat /\ v \in Nat /\ o + kk + v + 4 <= E - 2 /\ T[o + kk + v + 4] = "LF"
    BY <2>2 DEF HeaderStands
  <2>4. p = o + kk + v + 3 /\ o = L - 2 + l.key_start
    BY <1>10, <2>2 DEF Within
  <2>a. o \in Nat /\ kk \in Nat /\ v \in Nat /\ L <= o
    BY <2>2, <2>3
  <2>b. p = o + kk + v + 3
    BY <2>4
  <2>5. p + 1 = o + kk + v + 4
    BY <2>a, <2>b
  <2>6. T[p + 1] = "LF"
    BY <2>3, <2>5
  <2>7. l.key_start # 0
    <3>1. PICK x \in Nat : x = l.key_start
      BY <1>3 DEF Locals
    <3>2. /\ x \in Nat /\ L \in Nat /\ o \in Nat /\ L <= o /\ o = L - 2 + x
      BY <1>1, <2>2, <2>4, <3>1
    <3>3. x # 0
      BY ONLY <3>2
    <3> QED BY <3>1, <3>3
  <2>8. Key(s, l) = e[1] /\ Value(s, l) = e[2]
    BY <1>3, <1>10, <2>2, <2>7, StoredIsIt
  <2>9. ~k.failed
    BY <1>1, <1>5, <1>10, <2>6, TurnGoesOn
  <2>10. k.state = "H_LF" /\ k.headers = With(l.headers, e[1], e[2])
    BY <1>5, <1>10, <2>8, <2>9, TurnCR
  <2>11. Stored(T, L, E, H, p + 1, k.headers)
    <3>1. p \in Nat /\ Stored(T, L, E, H, p, l.headers) /\ StandsAt(T, L, E, o, e)
      BY <1>1, <1>3, <2>2
    <3>2. p + 1 = o + Len(e[1]) + Len(e[2]) + 4
      BY <2>2, <2>5
    <3>3. Stored(T, L, E, H, p + 1, With(l.headers, e[1], e[2]))
      BY <3>1, <3>2, StoredWith
    <3> QED BY <2>10, <3>3
  <2>12. L <= p + 1 /\ p + 1 < E - 1
    <3>1. p + 1 <= E - 2 /\ E \in Nat /\ p \in Nat /\ L \in Nat
      BY <1>1, <1>2, <2>3, <2>5
    <3> QED BY <2>5, <2>a, <3>1
  <2> QED BY <1>6, <2>6, <2>9, <2>10, <2>11, <2>12 DEF Reading, InHeader, InValue
<1>11. CASE l.state = "H_LF"
  <2>1. T[p] = "LF" /\ L <= p /\ p < E - 1
    BY <1>3, <1>11
  <2>2. ~k.failed /\ k.headers = l.headers
    BY <1>5, <1>6, <1>11, TurnGoesOn
  <2>3. p >= 1 /\ p < E /\ p + 1 < E /\ p + 1 \in 2..E /\ p + 1 - 1 = p
    BY <1>1, <1>2, <2>1
  <2>4. T[p + 1] # "LF"
    <3>1. p \in 1..(E - 1)
      BY <1>1, <1>2, <2>3
    <3>2. T[p] = "CR" <=> T[p + 1] = "LF"
      BY <3>1 DEF Shape
    <3> QED BY <2>1, <3>2
  <2>5. Stored(T, L, E, H, p + 1, k.headers)
    BY <1>1, <1>3, <2>2, <2>4, StoredNext
  <2>6. CASE T[p + 1] = "CR"
    <3>1. k.state = "H_END_CR"
      BY <1>1, <1>5, <1>11, <2>6, TurnLF
    <3>2. p + 1 = E - 1
      <4>1. PICK q \in Nat : q = p + 1
        BY <1>1
      <4>2. q \in 2..E /\ q - 1 = p /\ T[q] = "CR"
        BY <1>1, <2>3, <2>6, <4>1
      <4>3. T[q - 1] = "LF" <=> q = E - 1
        BY <4>2 DEF Shape
      <4> QED BY <2>1, <4>1, <4>2, <4>3
    <3> QED BY <1>6, <2>2, <2>5, <3>1, <3>2 DEF Reading, InHeader, InValue
  <2>7. CASE T[p + 1] # "CR"
    <3>1. k.state = "H_KEY" /\ k.key_start = i
      BY <1>1, <1>5, <1>11, <2>7, TurnLF
    <3>2. L - 2 + k.key_start = p
      BY <1>1, <3>1
    <3>3. OnTrack(T, L, E, H, p + 1, k)
      BY <1>1, <1>7, <2>1, <2>3, <2>7, <3>1, <3>2, OnTrackBegins
    <3> QED BY <1>6, <2>2, <2>5, <3>1, <3>3 DEF Reading, InHeader, InValue
  <2> QED BY <2>6, <2>7
<1>12. CASE l.state = "H_END_CR"
  <2>1. p + 1 = E /\ T[p + 1] = "LF"
    BY <1>1, <1>2, <1>3, <1>12
  <2>2. ~k.failed /\ k.headers = l.headers
    BY <1>1, <1>5, <1>6, <1>12, <2>1, TurnGoesOn
  <2>3. k.state = "H_END_LF"
    BY <1>5, <1>12, <2>2, TurnEndCR
  <2>4. p + 1 > E - 2
    BY <1>2, <2>1
  <2>5. Stored(T, L, E, H, p + 1, k.headers)
    BY <1>1, <1>3, <2>2, <2>4, StoredNext
  <2> QED BY <1>6, <2>1, <2>2, <2>3, <2>5 DEF Reading, InHeader, InValue
<1> QED BY <1>3, <1>4, <1>8, <1>9, <1>10, <1>11, <1>12 DEF States

\* A whole request behind its line is read as it is meant.
LEMMA ReadingAll ==
  ASSUME NEW T, NEW L, NEW E, NEW H, Shape(T, L, E, H), E # L + 2,
         \A e \in H : Len(e[2]) <= MaxValue,
         NEW h, Holds(h.buffer_in_, T, L, E), h.parse_state_ = "H_START", h.headers_ = <<>>
  PROVE  Reading(T, L, E, H, E, Scanned(h))
<1>1. L \in Nat /\ E \in Nat /\ 3 <= L /\ L + 2 <= E
  BY DEF Shape
<1>a. PICK s : s = h.buffer_in_ /\ Holds(s, T, L, E)
  OBVIOUS
<1>2. PICK n \in Nat : /\ s = h.buffer_in_ /\ n = E + 1 - L /\ n = Len(s)
                      /\ \A j \in 1..n : s[j] = T[L - 1 + j]
  BY <1>1, <1>a DEF Holds
<1>3. PICK f : Loop(s, NewLocals(h), n, f) /\ Scanned(h) = f[n]
  BY <1>2, ScannedIs
<1>4. /\ f[0] = NewLocals(h)
      /\ \A i \in 1..n : f[i] = step(s, f[i - 1], i)
  BY <1>3 DEF Loop
<1>5. Reading(T, L, E, H, L - 1, f[0])
  <2>1. PICK l : l = NewLocals(h) /\ l = f[0]
    BY <1>4
  <2>2. /\ Locals(l) /\ l.state = "H_START" /\ l.headers = <<>>
        /\ l.finished = FALSE /\ l.failed = FALSE
    BY <2>1 DEF NewLocals, Locals, LocalFields
  <2>3. Stored(T, L, E, H, L - 1, l.headers)
    <3>1. DOMAIN l.headers = {}
      BY <2>2
    <3>2. ASSUME NEW e \in H, NEW o, NEW x, StandsAt(T, L, E, o, e),
                 x = o + Len(e[1]) + Len(e[2]) + 4, x <= L - 1
          PROVE  FALSE
      <4>1. PICK k, v : /\ k = Len(e[1]) /\ v = Len(e[2]) /\ HeaderStands(T, E, o, k, v, e)
                        /\ o \in Nat /\ L <= o
        BY <3>2, StandsIs
      <4>2. k \in Nat /\ v \in Nat /\ o \in Nat /\ L <= o
        BY <4>1 DEF HeaderStands
      <4>3. o + k + v + 4 <= L - 1
        BY <3>2, <4>1
      <4> QED BY <1>1, <4>2, <4>3
    <3> QED BY <3>1, <3>2 DEF Stored
  <2> QED BY <2>1, <2>2, <2>3 DEF Reading, States, InHeader, InValue
<1> DEFINE I == {i \in 0..n : Reading(T, L, E, H, L - 1 + i, f[i])}
<1>6. 0 \in I
  <2>1. L - 1 + 0 = L - 1
    BY <1>1
  <2> QED BY <1>5, <2>1
<1>7. ASSUME NEW i \in 1..n, i - 1 \in I PROVE i \in I
  <2>1. PICK y \in 0..n, p \in Nat : y = i - 1 /\ p = L - 1 + y /\ i = p + 2 - L
    BY <1>1, <1>2
  <2>2. Reading(T, L, E, H, p, f[y])
    BY <1>7, <2>1
  <2>3. f[i] = step(s, f[y], i)
    BY <1>4, <2>1
  <2>4. Reads(T, L, p, s, i)
    BY <1>1, <1>2, <2>1 DEF Reads
  <2>5. p < E /\ L - 1 + i = p + 1
    BY <1>1, <1>2, <2>1
  <2>6. Reading(T, L, E, H, p + 1, f[i])
    BY <2>2, <2>3, <2>4, <2>5, ReadingStep
  <2> QED BY <2>5, <2>6
<1>8. n \in I
  <2> HIDE DEF I
  <2> QED BY <1>6, <1>7, UpTo
<1>9. L - 1 + n = E
  BY <1>1, <1>2
<1> QED BY <1>3, <1>8, <1>9

\* The headers are those of H.
Exactly(headers, H) == {<<key, headers[key]>> : key \in DOMAIN headers} = H

\* parse_Headers() takes the headers as they are meant.
LEMMA HeadersUnderstood ==
  ASSUME NEW T, NEW L, NEW E, NEW H, Shape(T, L, E, H), E # L + 2,
         \A e \in H : Len(e[2]) <= MaxValue,
         \A e \in H : \E o : StandsAt(T, L, E, o, e),
         \A e \in H : \A f \in H : e[1] = f[1] => e = f,
         NEW h, Holds(h.buffer_in_, T, L, E), h.parse_state_ = "H_START", h.headers_ = <<>>,
         InPass(h), In("STATE_PARSE_HEADERS", h), NEW g, g = ParseHeaders(h)
  PROVE  /\ Exactly(g.headers_, H)
         /\ g.file_name_ = h.file_name_ /\ g.Http_method_ = h.Http_method_
         /\ InPass(g) /\ ~g.is_error_ /\ Len(g.buffer_in_) \in Nat
         /\ g.process_state_ = IF h.Http_method_ = "METHOD_POST" THEN "STATE_RECV_BODY"
                                                                 ELSE "STATE_ANALYSIS"
<1>1. L \in Nat /\ E \in Nat /\ 3 <= L /\ L + 2 <= E
  BY DEF Shape
<1>2. PICK l : l = Scanned(h) /\ Reading(T, L, E, H, E, l)
  BY ReadingAll
<1>3. l.state = "H_END_LF"
  <2>1. ~OnTrack(T, L, E, H, E, l) \/ l.state \notin InHeader
    <3> SUFFICES ASSUME OnTrack(T, L, E, H, E, l), l.state \in InHeader PROVE FALSE
      OBVIOUS
    <3>1. PICK e \in H : \E o, k, v :
           /\ Within(T, E, L, E, l, e, o, k, v) /\ StandsAt(T, L, E, o, e)
           /\ HeaderStands(T, E, o, k, v, e) /\ PlainHeader(e)
           /\ o \in Nat /\ L <= o /\ T[o] = "LF" /\ k = Len(e[1]) /\ v = Len(e[2])
      BY OnTrackIs
    <3>2. PICK o, k, v : /\ Within(T, E, L, E, l, e, o, k, v) /\ HeaderStands(T, E, o, k, v, e)
                         /\ o \in Nat
      BY <3>1
    <3>3. k \in Nat /\ v \in Nat /\ o + k + v + 4 <= E - 2
      BY <3>2 DEF HeaderStands
    <3>4. E <= o + k + v + 3
      <4>1. \/ E <= o + k \/ E = o + k + 1 \/ E = o + k + 2
            \/ E <= o + k + 2 + v \/ E = o + k + v + 3
        BY <3>2 DEF Within, InHeader, InValue
      <4> QED BY <1>1, <3>2, <3>3, <4>1
    <3> QED BY <1>1, <3>2, <3>3, <3>4
  <2>2. /\ l.state \in States
        /\ l.state = "H_START" => E = L - 1 \/ E = L
        /\ l.state \in InHeader => OnTrack(T, L, E, H, E, l)
        /\ l.state = "H_LF" => E < E - 1
        /\ l.state = "H_END_CR" => E = E - 1
    BY <1>2 DEF Reading
  <2>3. l.state \notin {"H_START", "H_LF", "H_END_CR"}
    BY <1>1, <2>2
  <2> QED BY <2>1, <2>2, <2>3 DEF States, InHeader, InValue
<1>4. ~l.failed /\ l.next \in Nat /\ l.next >= 1 /\ Stored(T, L, E, H, E, l.headers)
  BY <1>2 DEF Reading, Locals
<1>5. Exactly(l.headers, H)
  <2>1. ASSUME NEW key \in DOMAIN l.headers PROVE <<key, l.headers[key]>> \in H
    BY <1>4 DEF Stored
  <2>2. ASSUME NEW e \in H
        PROVE  \E key \in DOMAIN l.headers : e = <<key, l.headers[key]>>
    <3>1. PICK o : StandsAt(T, L, E, o, e)
      OBVIOUS
    <3>2. PICK k, v : /\ k = Len(e[1]) /\ v = Len(e[2]) /\ HeaderStands(T, E, o, k, v, e)
      BY <3>1, StandsIs
    <3>3. k \in Nat /\ v \in Nat /\ o + k + v + 4 <= E - 2 /\ o \in Nat
      BY <3>1, <3>2 DEF HeaderStands, StandsAt
    <3>4. PICK n \in Nat : n = o + k + v + 4
      BY <3>3
    <3>5. n <= E
      BY <1>1, <3>3, <3>4
    <3>6. n = o + Len(e[1]) + Len(e[2]) + 4
      BY <3>2, <3>4
    <3>7. e[1] \in DOMAIN l.headers
      BY <1>4, <3>1, <3>5, <3>6 DEF Stored
    <3>8. PICK f : f = <<e[1], l.headers[e[1]]>> /\ f \in H
      BY <2>1, <3>7
    <3>9. f = e
      <4>1. f[1] = e[1]
        BY <3>8
      <4> QED BY <3>8, <4>1
    <3> QED BY <3>7, <3>8, <3>9
  <2> QED BY <2>1, <2>2 DEF Exactly
<1>6. PICK rest : rest = SubSeq(h.buffer_in_, l.next, Len(h.buffer_in_))
  OBVIOUS
<1>7. Len(rest) \in Nat
  <2>1. h.buffer_in_ \in Seq(Tokens)
    BY DEF Holds
  <2>a. PICK b : b = h.buffer_in_ /\ b \in Seq(Tokens)
    BY <2>1
  <2>2. PICK x \in Nat, n \in Nat : x = l.next /\ x >= 1 /\ n = Len(b)
    BY <1>4, <2>a, LenProperties
  <2>3. SubSeq(b, x, n) \in Seq(Tokens)
    <3>1. \A i \in x..n : b[i] \in Tokens
      BY <2>a, <2>2, ElementOfSeq
    <3> QED BY <2>a, <2>2, <3>1, SubSeqProperties
  <2> QED BY <1>6, <2>a, <2>2, <2>3, LenProperties
<1>8. g = [h EXCEPT !.parse_state_ = l.state, !.headers_ = l.headers, !.buffer_in_ = rest,
                    !.process_state_ = IF h.Http_method_ = "METHOD_POST"
                                       THEN "STATE_RECV_BODY" ELSE "STATE_ANALYSIS"]
  BY <1>2, <1>3, <1>4, <1>6 DEF ParseHeaders, HeadersEnd, InPass, Fields
<1>9. /\ g.headers_ = l.headers
      /\ g.file_name_ = h.file_name_ /\ g.Http_method_ = h.Http_method_
      /\ g.buffer_in_ = rest /\ ~g.is_error_
      /\ g.process_state_ = IF h.Http_method_ = "METHOD_POST" THEN "STATE_RECV_BODY"
                                                              ELSE "STATE_ANALYSIS"
  BY <1>8 DEF InPass, Fields, In
<1>10. InPass(g)
  BY HeadersOutcome
<1> QED BY <1>5, <1>7, <1>9, <1>10

-----------------------------------------------------------------------------
(* parse_URI() over a whole request.                                       *)

\* Where find() finds something,
LEMMA FindAt ==
  ASSUME NEW s, NEW n \in Nat, n = Len(s), NEW t, NEW from \in Nat,
         NEW x \in from..n, s[x] = t, \A j \in from..(x - 1) : s[j] # t
  PROVE  find(s, t, from) = x
<1> DEFINE I == {j \in from..n : s[j] = t}
<1>1. find(s, t, from) = IF I # {} THEN Min(I) ELSE 0
  BY DEF find, SelectInSubSeq
<1>2. x \in I
  OBVIOUS
<1>3. \A y \in I : x <= y
  <2> SUFFICES ASSUME NEW y \in I, ~(x <= y) PROVE FALSE
    OBVIOUS
  <2>1. y \in from..(x - 1) /\ s[y] = t
    OBVIOUS
  <2> QED BY <2>1
<1>4. I \subseteq Nat
  OBVIOUS
<1> HIDE DEF I
<1>5. PICK m : m = Min(I)
  OBVIOUS
<1>6. m = x
  <2>1. \E z \in I : \A y \in I : z <= y
    BY <1>2, <1>3
  <2>2. Min(I) \in I /\ \A y \in I : Min(I) <= y
    BY <2>1 DEF Min
  <2>3. m \in Nat /\ x \in Nat /\ m <= x /\ x <= m
    BY <1>2, <1>3, <1>4, <1>5, <2>2
  <2> QED BY <2>3
<1> QED BY <1>1, <1>2, <1>5, <1>6

\* and when it finds nothing.
LEMMA FindNot ==
  ASSUME NEW s, NEW n \in Nat, n = Len(s), NEW t, \A j \in 1..n : s[j] # t
  PROVE  find(s, t, 1) = 0
BY FindIs

\* The request line is understood.
LEMMA LineUnderstood ==
  ASSUME NEW r, PlainRequest(r), NEW n, NEW W, LineParts(r, n, W),
         NEW line \in Seq(Tokens), Len(line) = n + 7, \A j \in 1..(n + 7) : line[j] = W[j]
  PROVE  /\ Method(line).at = 1 /\ Method(line).is = Meant(r).Http_method_
         /\ find(line, "/", 1) = 3
         /\ VersionAt(line, 3) = n + 7 /\ line[n + 7] \in {"1.0", "1.1"}
         /\ FileName(line, 3) = Meant(r).file_name_
<1>1. n \in Nat /\ n = Len(r.name) /\ r.name \in Seq(Tokens)
  BY DEF LineParts
<1>2. PICK N \in Nat : N = n + 7 /\ N = Len(line)
  BY <1>1
<1>3. /\ W[1] = r.method /\ W[2] = "SP" /\ W[3] = "/" /\ W[n + 4] = "SP"
      /\ W[n + 5] = "HTTP" /\ W[n + 6] = "/" /\ W[n + 7] = r.version
      /\ \A j \in 1..n : W[3 + j] = r.name[j]
                         /\ W[3 + j] \notin {"CR", "LF", "SP", "GET", "POST"}
  BY DEF LineParts
<1>4. /\ line[1] = r.method /\ line[2] = "SP" /\ line[3] = "/" /\ line[n + 4] = "SP"
      /\ line[n + 5] = "HTTP" /\ line[n + 6] = "/" /\ line[n + 7] = r.version
  <2>1. /\ 1 \in 1..(n + 7) /\ 2 \in 1..(n + 7) /\ 3 \in 1..(n + 7) /\ n + 4 \in 1..(n + 7)
        /\ n + 5 \in 1..(n + 7) /\ n + 6 \in 1..(n + 7) /\ n + 7 \in 1..(n + 7)
    BY <1>1
  <2> QED BY <1>3, <2>1
<1>5. ASSUME NEW j \in 1..n
      PROVE  line[3 + j] = r.name[j] /\ line[3 + j] \notin {"SP", "GET", "POST"}
  <2>1. 3 + j \in 1..(n + 7)
    BY <1>1
  <2> QED BY <1>3, <2>1
<1>6. r.method \in {"GET", "POST", "HEAD"} /\ r.version \in {"1.0", "1.1"}
  BY DEF PlainRequest
<1>7. ASSUME NEW j \in 2..(n + 7) PROVE line[j] \notin {"GET", "POST"}
  <2>1. CASE j \in 4..(n + 3)
    <3>1. PICK x \in 1..n : j = 3 + x
      <4>1. j - 3 \in 1..n /\ j = 3 + (j - 3)
        BY <1>1, <2>1
      <4> QED BY <4>1
    <3> QED BY <1>5, <3>1
  <2>2. CASE j \notin 4..(n + 3)
    <3>1. j \in {2, 3, n + 4, n + 5, n + 6, n + 7}
      BY <1>1, <2>2
    <3>2. \A x \in {line[2], line[3], line[n + 4], line[n + 5], line[n + 6], line[n + 7]} :
            x \notin {"GET", "POST"}
      BY ONLY <1>4, <1>6
    <3> QED BY ONLY <3>1, <3>2
  <2> QED BY <2>1, <2>2
<1>8. Method(line).at = 1 /\ Method(line).is = Meant(r).Http_method_
  <2>a. N >= 1
    BY <1>1, <1>2
  <2>b. 1 \in 1..N
    BY <1>2, <2>a
  <2>c. \A j \in 1..(1 - 1) : FALSE
    OBVIOUS
  <2>0. 1 \in 1..N /\ \A j \in 1..(1 - 1) : line[j] # r.method
    BY <2>b, <2>c
  <2>1. find(line, r.method, 1) = 1
    BY <1>2, <1>4, <2>0, FindAt
  <2>2. r.method # "GET" => find(line, "GET", 1) = 0
    <3> SUFFICES ASSUME r.method # "GET" PROVE find(line, "GET", 1) = 0
      OBVIOUS
    <3>1. \A j \in 1..N : line[j] # "GET"
      BY <1>1, <1>2, <1>4, <1>7
    <3> QED BY <1>2, <3>1, FindNot
  <2>3. r.method # "POST" => find(line, "POST", 1) = 0
    <3> SUFFICES ASSUME r.method # "POST" PROVE find(line, "POST", 1) = 0
      OBVIOUS
    <3>1. \A j \in 1..N : line[j] # "POST"
      BY <1>1, <1>2, <1>4, <1>7
    <3> QED BY <1>2, <3>1, FindNot
  <2>4. CASE r.method = "GET"
    BY <2>1, <2>4 DEF Method, Meant
  <2>5. CASE r.method = "POST"
    BY <2>1, <2>2, <2>5 DEF Method, Meant
  <2>6. CASE r.method = "HEAD"
    BY <2>1, <2>2, <2>3, <2>6 DEF Method, Meant
  <2> QED BY <1>6, <2>4, <2>5, <2>6
<1>9. find(line, "/", 1) = 3
  <2>1. \A j \in 1..(3 - 1) : line[j] # "/"
    <3>1. \A j \in 1..(3 - 1) : j = 1 \/ j = 2
      OBVIOUS
    <3> QED BY <1>4, <1>6, <3>1
  <2>2. 3 \in 1..N
    BY <1>1, <1>2
  <2> QED BY <1>2, <1>4, <2>1, <2>2, FindAt
<1>10. NameEnd(line, 3) = n + 4
  <2>1. PICK x \in Nat : x = n + 4
    BY <1>1
  <2>2. \A j \in 3..(x - 1) : line[j] # "SP"
    <3> SUFFICES ASSUME NEW j \in 3..(x - 1) PROVE line[j] # "SP"
      OBVIOUS
    <3>1. CASE j = 3
      BY <1>4, <3>1
    <3>2. CASE j # 3
      <4>1. j - 3 \in 1..n /\ j = 3 + (j - 3)
        BY <1>1, <2>1, <3>2
      <4>2. PICK y \in 1..n : j = 3 + y
        BY <4>1
      <4> QED BY <1>5, <4>2
    <3> QED BY <3>1, <3>2
  <2>3. x \in 3..N /\ line[x] = "SP"
    BY <1>1, <1>2, <1>4, <2>1
  <2>4. find(line, "SP", 3) = x
    BY <1>2, <2>2, <2>3, FindAt
  <2> QED BY <2>1, <2>4 DEF NameEnd
<1>11. VersionAt(line, 3) = n + 7
  <2>1. PICK y \in Nat, x \in Nat : y = n + 4 /\ x = n + 6
    BY <1>1
  <2>2. \A j \in y..(x - 1) : line[j] # "/"
    <3>1. \A j \in y..(x - 1) : j = n + 4 \/ j = n + 5
      BY <1>1, <2>1
    <3> QED BY <1>4, <3>1
  <2>3. x \in y..N /\ line[x] = "/"
    BY <1>1, <1>2, <1>4, <2>1
  <2>4. find(line, "/", y) = x
    BY <1>2, <2>2, <2>3, FindAt
  <2>5. VersionAt(line, 3) = 1 + x
    <3>1. NameEnd(line, 3) = y /\ y # 0
      BY <1>1, <1>10, <2>1
    <3> QED BY <2>4, <3>1 DEF VersionAt
  <2> QED BY <1>1, <2>1, <2>5
<1>12. PICK name : name = SubSeq(line, 4, n + 3)
  OBVIOUS
<1>13. name = r.name
  <2>1. PICK i \in Nat, k \in Nat : i = 4 /\ k = n + 3
    BY <1>1
  <2>2. i >= 1 /\ i <= k + 1 /\ k <= Len(line) /\ name = SubSeq(line, i, k) /\ k + 1 - i = n
    BY <1>1, <1>2, <1>12, <2>1
  <2>3. /\ name \in Seq(Tokens) /\ Len(name) = k + 1 - i
        /\ \A j \in 1..(k + 1 - i) : name[j] = line[i - 1 + j]
    BY <2>2, SubSeqHas
  <2>4. Len(name) = n /\ \A j \in 1..n : name[j] = r.name[j]
    <3>1. \A j \in 1..n : i - 1 + j = 3 + j
      BY <2>1
    <3> QED BY <1>5, <2>2, <2>3, <3>1
  <2>5. PICK m : m = r.name /\ m \in Seq(Tokens)
    BY <1>1
  <2>6. Len(name) = Len(m) /\ \A j \in 1..Len(name) : name[j] = m[j]
    BY <1>1, <2>4, <2>5
  <2> QED BY <2>3, <2>5, <2>6, SeqEqual
<1>14. PICK f : f = find(name, "?", 1)
  OBVIOUS
<1>a. FileName(line, 3) =
        IF n = 0 THEN <<"index.html">> ELSE IF f = 0 THEN name ELSE SubSeq(name, 1, f - 1)
  <2>1. PICK space, z \in Nat : space = n + 4 /\ z = n + 3
    BY <1>1
  <2>2. NameEnd(line, 3) = space /\ space # 0 /\ space - 1 = z
    BY <1>1, <1>10, <2>1
  <2>3. SubSeq(line, 3 + 1, z) = name
    BY <1>12, <2>1
  <2>4. FileName(line, 3) =
          CASE 3 = 0 \/ space = 3 + 1 -> <<"index.html">>
            [] f # 0 -> SubSeq(name, 1, f - 1)
            [] OTHER -> name
    BY <1>14, <2>2, <2>3 DEF FileName
  <2>5. CASE n = 0
    <3>1. space = 3 + 1 /\ f = 0
      <4>1. Len(name) = 0
        BY <1>1, <1>13, <2>5
      <4>2. space = 3 + 1
        BY <2>1, <2>5
      <4> QED BY <1>14, <4>1, <4>2, FindIs
    <3> QED BY <2>4, <2>5, <3>1
  <2>6. CASE n # 0
    <3>1. ~(3 = 0 \/ space = 3 + 1)
      BY <1>1, <2>1, <2>6
    <3> QED BY <2>4, <2>6, <3>1
  <2> QED BY <2>5, <2>6
<1>15. FileName(line, 3) = Meant(r).file_name_
  <2>1. CASE n = 0
    <3>1. r.name = <<>>
      BY <1>1, <2>1, EmptySeq
    <3> QED BY <1>a, <2>1, <3>1 DEF Meant
  <2>2. CASE n # 0
    <3>1. n + 4 # 3 + 1 /\ r.name # <<>>
      BY <1>1, <2>2, EmptySeq
    <3>2. PICK q : q = {k \in DOMAIN name : name[k] = "?"}
      OBVIOUS
    <3>4. DOMAIN name = 1..n /\ Len(name) = n
      BY <1>1, <1>13, LenProperties
    <3>5. q = {k \in 1..Len(name) : name[k] = "?"}
      BY <3>2, <3>4
    <3>6. f = IF q # {} THEN Min(q) ELSE 0
      BY <1>14, <3>5 DEF find, SelectInSubSeq
    <3>7. f = 0 <=> q = {}
      <4>1. \/ f = 0 /\ \A j \in 1..n : name[j] # "?"
            \/ f \in 1..n /\ name[f] = "?" /\ \A j \in 1..n : name[j] = "?" => f <= j
        BY <1>1, <1>14, <3>4, FindIs
      <4>2. f \in 1..n /\ name[f] = "?" => f \in q
        BY <3>4, <3>5
      <4>3. f \in 1..n => f # 0
        OBVIOUS
      <4> QED BY <3>4, <3>5, <4>1, <4>2, <4>3
    <3>8. Meant(r).file_name_ = IF q = {} THEN name ELSE SubSeq(name, 1, Min(q) - 1)
      BY <1>13, <3>1, <3>2 DEF Meant
    <3>9. FileName(line, 3) = IF f = 0 THEN name ELSE SubSeq(name, 1, f - 1)
      BY <1>a, <2>2
    <3> QED BY <3>6, <3>7, <3>8, <3>9
  <2> QED BY <2>1, <2>2
<1> QED BY <1>4, <1>6, <1>8, <1>9, <1>11, <1>15

\* The first CR of a request ends its line.
LEMMA FirstCR ==
  ASSUME NEW T, NEW L, NEW E, NEW H, Shape(T, L, E, H), NEW s, Holds(s, T, 1, E)
  PROVE  find(s, "CR", 1) = L - 1
<1>1. /\ L \in Nat /\ E \in Nat /\ 3 <= L /\ L + 2 <= E
      /\ T[L - 1] = "CR" /\ \A p \in 1..(L - 2) : T[p] # "CR"
  BY DEF Shape
<1>2. Len(s) = E + 1 - 1 /\ \A j \in 1..Len(s) : s[j] = T[1 - 1 + j]
  BY DEF Holds
<1>3. E = Len(s) /\ \A j \in 1..E : s[j] = T[j]
  BY <1>1, <1>2
<1>4. PICK x \in Nat : x = L - 1 /\ x \in 1..E /\ x - 1 = L - 2
  BY <1>1
<1>5. \A j \in 1..(x - 1) : s[j] # "CR"
  <2>1. \A j \in 1..(x - 1) : j \in 1..E /\ j \in 1..(L - 2)
    BY <1>1, <1>4
  <2> QED BY <1>1, <1>3, <2>1
<1>6. s[x] = "CR"
  BY <1>1, <1>3, <1>4
<1>7. find(s, "CR", 1) = x
  BY <1>1, <1>3, <1>4, <1>5, <1>6, FindAt
<1> QED BY <1>4, <1>7

\* parse_URI() takes the line of a whole request as it is meant.
LEMMA URIUnderstood ==
  ASSUME NEW r, PlainRequest(r), NEW T, T = Request(r), NEW L, L = Len(Line(r)),
         NEW E, E = Len(T) - Len(r.body), Shape(T, L, E, ToSet(r.headers)),
         NEW h, InPass(h), In("STATE_PARSE_URI", h), Holds(h.buffer_in_, T, 1, E),
         NEW g, g = ParseURI(h)
  PROVE  /\ ~g.is_error_ /\ g.process_state_ = "STATE_PARSE_HEADERS"
         /\ g.parse_state_ = h.parse_state_ /\ g.headers_ = h.headers_
         /\ g.Http_method_ = Meant(r).Http_method_ /\ g.file_name_ = Meant(r).file_name_
         /\ Holds(g.buffer_in_, T, L, E)
<1>0. PICK n \in Nat : n = Len(r.name)
  BY LineHasParts DEF LineParts
<1>1. PICK W : W = Line(r) /\ LineParts(r, n, W)
  BY <1>0, LineHasParts
<1>2. Len(W) = n + 9 /\ W \in Seq(Tokens)
  BY <1>1 DEF LineParts
<1>3. /\ n \in Nat /\ L \in Nat /\ E \in Nat /\ L = n + 9 /\ L + 2 <= E
  <2>1. L = n + 9
    BY <1>1, <1>2
  <2>2. L \in Nat /\ E \in Nat /\ L + 2 <= E
    BY DEF Shape
  <2> QED BY <2>1, <2>2
<1>4. \A j \in 1..L : T[j] = W[j]
  BY <1>1, RequestStands
<1>b. PICK s : s = h.buffer_in_ /\ Holds(s, T, 1, E)
  OBVIOUS
<1>5. PICK cr \in Nat : cr = find(s, "CR", 1) /\ cr = n + 8 /\ cr - 1 = n + 7 /\ cr # 0
  <2>1. L - 1 = n + 8 /\ n + 8 - 1 = n + 7 /\ n + 8 # 0 /\ n + 8 \in Nat
    BY <1>3
  <2>2. find(s, "CR", 1) = L - 1
    BY <1>b, FirstCR
  <2> QED BY <2>1, <2>2
<1>6. s \in Seq(Tokens) /\ Len(s) = E /\ \A j \in 1..E : s[j] = T[j]
  <2>1. /\ s \in Seq(Tokens) /\ Len(s) = E + 1 - 1
        /\ \A j \in 1..Len(s) : s[j] = T[1 - 1 + j]
    BY <1>b DEF Holds
  <2>2. Len(s) = E
    BY <1>3, <2>1
  <2>3. \A j \in 1..E : 1 - 1 + j = j
    OBVIOUS
  <2> QED BY <2>1, <2>2, <2>3
<1>7. PICK line : line = SubSeq(s, 1, n + 7)
  OBVIOUS
<1>8. line \in Seq(Tokens) /\ Len(line) = n + 7 /\ \A j \in 1..(n + 7) : line[j] = W[j]
  <2>1. PICK one \in Nat, k \in Nat : one \in Nat /\ one = 1 /\ k \in Nat /\ k = n + 7
    OBVIOUS
  <2>2. one >= 1 /\ one <= k + 1 /\ k <= E /\ k + 1 - one = n + 7
    BY ONLY <1>3, <2>1
  <2>3. line = SubSeq(s, one, k) /\ k <= Len(s)
    BY <1>6, <1>7, <2>1, <2>2
  <2>4. /\ line \in Seq(Tokens) /\ Len(line) = k + 1 - one
        /\ \A j \in 1..(k + 1 - one) : line[j] = s[one - 1 + j]
    BY <1>6, <2>2, <2>3, SubSeqHas
  <2>5. \A j \in 1..(n + 7) : one - 1 + j = j /\ j \in 1..E /\ j \in 1..L
    BY ONLY <1>3, <2>1
  <2> QED BY <1>4, <1>6, <2>2, <2>4, <2>5
<1>9. /\ Method(line).at = 1 /\ Method(line).is = Meant(r).Http_method_
      /\ find(line, "/", 1) = 3
      /\ VersionAt(line, 3) = n + 7 /\ line[n + 7] \in {"1.0", "1.1"}
      /\ FileName(line, 3) = Meant(r).file_name_
  BY <1>1, <1>8, LineUnderstood
<1>10. PICK rest : rest = SubSeq(s, cr + 1, Len(s))
  OBVIOUS
<1>11. PICK method, name : method = Meant(r).Http_method_ /\ name = Meant(r).file_name_
  OBVIOUS
<1>12. g = [h EXCEPT !.buffer_in_ = rest, !.Http_method_ = method, !.file_name_ = name,
                     !.process_state_ = "STATE_PARSE_HEADERS"]
  <2>1. ~(n + 7 > Len(line))
    BY <1>8
  <2>2. ParseURI(h) =
          IF Method(line).at = 0 \/ VersionAt(line, find(line, "/", Method(line).at)) > Len(line)
             \/ line[VersionAt(line, find(line, "/", Method(line).at))] \notin {"1.0", "1.1"}
          THEN handle_error([h EXCEPT !.buffer_in_ = <<>>], "400")
          ELSE [h EXCEPT !.buffer_in_ = rest, !.Http_method_ = Method(line).is,
                         !.file_name_ = FileName(line, find(line, "/", Method(line).at)),
                         !.process_state_ = "STATE_PARSE_HEADERS"]
    BY <1>b, <1>5, <1>7, <1>10 DEF ParseURI
  <2>3. PICK at : at = Method(line).at /\ at = 1 /\ at # 0
    BY <1>9
  <2>4. PICK slash : slash = find(line, "/", at) /\ slash = 3
    BY <1>9, <2>3
  <2>5. PICK version : /\ version = VersionAt(line, slash) /\ version = n + 7
                       /\ ~(version > Len(line)) /\ line[version] \in {"1.0", "1.1"}
    BY <1>9, <2>1, <2>4
  <2>6. Method(line).is = method /\ FileName(line, slash) = name
    BY <1>9, <1>11, <2>4
  <2>7. ParseURI(h) =
          IF at = 0 \/ version > Len(line) \/ line[version] \notin {"1.0", "1.1"}
          THEN handle_error([h EXCEPT !.buffer_in_ = <<>>], "400")
          ELSE [h EXCEPT !.buffer_in_ = rest, !.Http_method_ = method,
                         !.file_name_ = name, !.process_state_ = "STATE_PARSE_HEADERS"]
    BY ONLY <2>2, <2>3, <2>4, <2>5, <2>6
  <2> QED BY <2>3, <2>5, <2>7
<1>13. /\ g.buffer_in_ = rest /\ g.Http_method_ = method /\ g.file_name_ = name
       /\ g.process_state_ = "STATE_PARSE_HEADERS" /\ g.is_error_ = h.is_error_
       /\ g.parse_state_ = h.parse_state_ /\ g.headers_ = h.headers_
  BY <1>12 DEF InPass, Fields
<1>14. Holds(rest, T, L, E)
  <2>1. PICK one \in Nat, i \in Nat : one = 1 /\ i = cr + 1 /\ i \in Nat /\ cr \in Nat
    OBVIOUS
  <2>a. cr = n + 8
    BY <1>5
  <2>2. i >= 1 /\ one + i <= E + 2 /\ one - 1 + i = L
    BY ONLY <1>3, <2>1, <2>a
  <2>3. Holds(s, T, one, E) /\ rest = SubSeq(s, i, Len(s))
    BY <1>b, <1>10, <2>1
  <2>4. Holds(rest, T, one - 1 + i, E)
    BY <1>3, <2>2, <2>3, HoldsDrop
  <2> QED BY <2>2, <2>4
<1> QED BY <1>11, <1>13, <1>14 DEF In

\* The body of a request that has none is there.
LEMMA BodyUnderstood ==
  ASSUME NEW r, PlainRequest(r), r.body = <<>>,
         \E e \in ToSet(r.headers) : e[1] = ContentLength,
         NEW h, InPass(h), In("STATE_RECV_BODY", h), Exactly(h.headers_, ToSet(r.headers)),
         Len(h.buffer_in_) \in Nat, NEW g, g = ReceiveBody(h)
  PROVE  /\ In("STATE_ANALYSIS", g) /\ DOMAIN g = Fields
         /\ g.headers_ = h.headers_
         /\ g.Http_method_ = h.Http_method_ /\ g.file_name_ = h.file_name_
<1>1. PICK e \in ToSet(r.headers) : e[1] = ContentLength
  OBVIOUS
<1>2. PICK key \in DOMAIN h.headers_ : e = <<key, h.headers_[key]>>
  BY <1>1 DEF Exactly
<1>3. key = ContentLength /\ e[2] = h.headers_[ContentLength]
  <2>1. e[1] = key /\ e[2] = h.headers_[key]
    BY <1>2
  <2> QED BY <1>1, <2>1
<1>4. Numbers[e[2][1]] = 0
  <2>1. Numbers[e[2][1]] = Len(r.body)
    BY <1>1 DEF PlainRequest
  <2> QED BY <2>1, EmptySeq
<1>5. ~BodyMissing(h, Numbers[h.headers_[ContentLength][1]])
  BY <1>3, <1>4 DEF BodyMissing
<1>6. g = [h EXCEPT !.process_state_ = "STATE_ANALYSIS"]
  BY <1>2, <1>3, <1>5 DEF ReceiveBody
<1> QED BY <1>6 DEF In, InPass, Fields

-----------------------------------------------------------------------------
(* A request that arrives in one piece.                                    *)

\* A request with headers is longer than its line and the blank line.
LEMMA HasHeaders ==
  ASSUME NEW r, PlainRequest(r), r.headers # <<>>,
         NEW T, NEW L, NEW E, NEW H, H = ToSet(r.headers), Shape(T, L, E, H),
         \A e \in H : \E o : StandsAt(T, L, E, o, e)
  PROVE  E # L + 2
<1>1. PICK hs : hs = r.headers /\ hs \in Seq(H) /\ hs # <<>>
  BY HeadersOf
<1>2. 1 \in DOMAIN hs
  BY <1>1, EmptySeq, LenProperties
<1>3. hs[1] \in H
  BY <1>1, <1>2 DEF ToSet
<1>4. PICK e \in H : TRUE
  BY <1>3
<1>5. PICK o : StandsAt(T, L, E, o, e)
  OBVIOUS
<1>6. PICK k, v : k = Len(e[1]) /\ v = Len(e[2]) /\ HeaderStands(T, E, o, k, v, e)
  BY <1>5, StandsIs
<1>7. /\ k \in Nat /\ v \in Nat /\ o \in Nat /\ L <= o /\ o + k + v + 4 <= E - 2
      /\ L \in Nat /\ E \in Nat
  BY <1>5, <1>6 DEF HeaderStands, StandsAt, Shape
<1> QED BY ONLY <1>7

\* A pass over a whole request without a body gets to its analysis, with what
\* the request means.
LEMMA PassUnderstood ==
  ASSUME NEW r, PlainRequest(r), Accepted(r), r.body = <<>>,
         NEW T, T = Request(r), NEW L, L = Len(Line(r)),
         NEW E, E = Len(T) - Len(r.body), NEW H, H = ToSet(r.headers), Shape(T, L, E, H),
         NEW h, InPass(h), In("STATE_PARSE_URI", h), h.parse_state_ = "H_START",
         h.headers_ = <<>>, Holds(h.buffer_in_, T, 1, E),
         NEW g, g = AfterBody(AfterHeaders(AfterURI(h)))
  PROVE  /\ In("STATE_ANALYSIS", g) /\ DOMAIN g = Fields /\ Exactly(g.headers_, H)
         /\ g.Http_method_ = Meant(r).Http_method_ /\ g.file_name_ = Meant(r).file_name_
<1>1. PICK u, p : u = AfterURI(h) /\ p = AfterHeaders(u) /\ g = AfterBody(p)
  OBVIOUS
<1>2. u = ParseURI(h)
  BY <1>1 DEF AfterURI
<1>3. /\ ~u.is_error_ /\ u.process_state_ = "STATE_PARSE_HEADERS"
      /\ u.parse_state_ = "H_START" /\ u.headers_ = <<>>
      /\ u.Http_method_ = Meant(r).Http_method_ /\ u.file_name_ = Meant(r).file_name_
      /\ Holds(u.buffer_in_, T, L, E)
  BY <1>2, URIUnderstood
<1>4. InPass(u) /\ In("STATE_PARSE_HEADERS", u)
  BY <1>2, <1>3, URIOutcome DEF In
<1>5. p = ParseHeaders(u)
  BY <1>1, <1>4 DEF AfterHeaders
<1>6. \A e \in H : \E o : StandsAt(T, L, E, o, e)
  BY RequestStands
<1>7. E # L + 2
  BY <1>6, HasHeaders DEF Accepted
<1>8. (\A e \in H : Len(e[2]) <= MaxValue) /\ \A e \in H : \A f \in H : e[1] = f[1] => e = f
  BY DEF Accepted, PlainRequest
<1>9. /\ Exactly(p.headers_, H)
      /\ p.file_name_ = u.file_name_ /\ p.Http_method_ = u.Http_method_
      /\ InPass(p) /\ ~p.is_error_ /\ Len(p.buffer_in_) \in Nat
      /\ p.process_state_ = IF u.Http_method_ = "METHOD_POST" THEN "STATE_RECV_BODY"
                                                              ELSE "STATE_ANALYSIS"
  BY <1>3, <1>4, <1>5, <1>6, <1>7, <1>8, HeadersUnderstood
<1>10. u.Http_method_ = "METHOD_POST" <=> r.method = "POST"
  <2>1. r.method \in {"GET", "POST", "HEAD"}
    BY DEF PlainRequest
  <2> QED BY <1>3, <2>1 DEF Meant
<1>11. CASE r.method = "POST"
  <2>1. In("STATE_RECV_BODY", p)
    BY <1>9, <1>10, <1>11 DEF In
  <2>2. g = ReceiveBody(p)
    BY <1>1, <2>1 DEF AfterBody
  <2>3. \E e \in H : e[1] = ContentLength
    BY <1>11 DEF Accepted
  <2>4. /\ In("STATE_ANALYSIS", g) /\ DOMAIN g = Fields
        /\ g.headers_ = p.headers_
        /\ g.Http_method_ = p.Http_method_ /\ g.file_name_ = p.file_name_
    BY <1>9, <2>1, <2>2, <2>3, BodyUnderstood
  <2> QED BY <1>3, <1>9, <2>4
<1>12. CASE r.method # "POST"
  <2>1. p.process_state_ = "STATE_ANALYSIS" /\ g = p
    BY <1>1, <1>9, <1>10, <1>12 DEF AfterBody, In
  <2> QED BY <1>3, <1>9, <2>1 DEF In, InPass
<1> QED BY <1>11, <1>12

\* The first piece has not been read yet, or what it has made of a request that
\* has arrived with it is what the request means.
FirstPieceInv ==
  /\ input \in Inputs /\ pieces \in Nat
  /\ pieces = 0 => http = NewHttpData /\ arriving = input.tokens /\ analysed = Nothing
  /\ OnePieceIsUnderstood

\* The first piece, when it is the whole request.
LEMMA FirstPiece ==
  ASSUME http = NewHttpData, arriving = input.tokens, handle_read,
         input \in Inputs, input.well_formed, arriving' = <<>>,
         input.request.body = <<>>, Accepted(input.request)
  PROVE  analysed' # Nothing /\ Understood' = Meant(input.request)
<1>1. PICK r, T, L, E, H, N :
        /\ r = input.request /\ T = input.tokens /\ L = Len(Line(r))
        /\ E = HeadersEndAt(input) /\ H = ToSet(r.headers) /\ N = Len(T)
  OBVIOUS
<1>2. PlainRequest(r) /\ T \in Seq(Tokens) /\ N \in Nat /\ Shape(T, L, E, H)
  BY <1>1, InputShape
<1>3. T = Request(r)
  <2>1. input = WellFormed(input.request)
    BY InputsAssumption, Zenon
  <2>2. PICK in : in = WellFormed(r) /\ in = input
    BY <1>1, <2>1
  <2>3. WellFormed(r).tokens = Request(r)
    BY DEF WellFormed
  <2> QED BY <1>1, <2>2, <2>3, Zenon
<1>4. E = Len(T) - Len(r.body) /\ E = N
  <2>1. PICK b : b = Len(r.body)
    OBVIOUS
  <2>2. b = 0
    BY <1>1, <2>1, EmptySeq
  <2>3. E = N - b /\ N \in Nat /\ N = Len(T)
    BY <1>1, <1>2, <2>1 DEF HeadersEndAt
  <2>4. E = N
    BY ONLY <2>2, <2>3
  <2> QED BY <2>1, <2>3, <2>4
<1>5. PICK n \in 1..N, fs \in FileSystem :
        LET received == [http EXCEPT !.buffer_in_ = http.buffer_in_ \o SubSeq(T, 1, n)]
            h == AfterBody(AfterHeaders(AfterURI(received)))
        IN /\ analysed' = IF In("STATE_ANALYSIS", h) THEN h ELSE analysed
           /\ arriving' = SubSeq(T, n + 1, N)
  BY <1>1 DEF handle_read
<1>6. n = N
  <2>1. PICK a \in Nat : a = n + 1
    OBVIOUS
  <2>2. SubSeq(T, n + 1, N) = <<>>
    BY <1>5
  <2>3. n < N => Len(SubSeq(T, n + 1, N)) = N - n
    BY <1>1, <1>2
  <2>4. Len(SubSeq(T, n + 1, N)) = 0
    BY <2>2, EmptySeq
  <2> QED BY <1>2, <2>3, <2>4
<1>7. PICK x : x = http.buffer_in_ \o SubSeq(T, 1, n)
  OBVIOUS
<1>8. x = T
  <2>1. http.buffer_in_ = <<>>
    BY DEF NewHttpData
  <2>2. SubSeq(T, 1, n) = T
    BY <1>1, <1>2, <1>6
  <2>3. x = <<>> \o T
    BY <1>7, <2>1, <2>2
  <2> QED BY <1>2, <2>3
<1>9. PICK received : received = [http EXCEPT !.buffer_in_ = x]
  OBVIOUS
<1>10. PICK h : h = AfterBody(AfterHeaders(AfterURI(received)))
  OBVIOUS
<1>11. analysed' = IF In("STATE_ANALYSIS", h) THEN h ELSE analysed
  BY <1>5, <1>7, <1>9, <1>10
<1>12. /\ InPass(received) /\ In("STATE_PARSE_URI", received)
       /\ received.parse_state_ = "H_START" /\ received.headers_ = <<>>
       /\ received.buffer_in_ = T
  BY <1>8, <1>9 DEF NewHttpData, InPass, Fields, In
<1>13. Holds(received.buffer_in_, T, 1, E)
  <2>1. \A j \in 1..N : 1 - 1 + j = j
    OBVIOUS
  <2>2. N = N + 1 - 1
    BY <1>2
  <2> QED BY <1>1, <1>2, <1>4, <1>12, <2>1, <2>2 DEF Holds
<1>14. Accepted(r) /\ r.body = <<>>
  BY <1>1
<1>15. /\ In("STATE_ANALYSIS", h) /\ DOMAIN h = Fields /\ Exactly(h.headers_, H)
       /\ h.Http_method_ = Meant(r).Http_method_ /\ h.file_name_ = Meant(r).file_name_
  BY <1>1, <1>2, <1>3, <1>4, <1>10, <1>12, <1>13, <1>14, PassUnderstood
<1>16. analysed' = h /\ h # Nothing
  <2>1. "parse_state_" \in DOMAIN h
    BY <1>15 DEF Fields
  <2>2. h # <<>>
    BY <2>1
  <2> QED BY <1>11, <1>15, <2>2 DEF Nothing
<1>17. Understood' = Meant(r)
  <2>1. Understood' = [Http_method_ |-> h.Http_method_, file_name_ |-> h.file_name_,
                       headers_ |-> {<<key, h.headers_[key]>> : key \in DOMAIN h.headers_}]
    BY <1>16 DEF Understood
  <2>2. {<<key, h.headers_[key]>> : key \in DOMAIN h.headers_} = H
    BY <1>15 DEF Exactly
  <2>3. PICK m : m = Meant(r)
    OBVIOUS
  <2>4. /\ m = [Http_method_ |-> m.Http_method_, file_name_ |-> m.file_name_,
                headers_ |-> m.headers_]
        /\ m.headers_ = H
    BY <1>1, <2>3 DEF Meant
  <2> QED BY <1>15, <2>1, <2>2, <2>3, <2>4
<1> QED BY <1>1, <1>16, <1>17

\* For every set of requests, one without a body that arrives in one piece is
\* analysed with the method, the name and the headers that its sender meant
\* (parse_URI, parse_Headers).
THEOREM WholeRequestsAreUnderstood == Spec => []OnePieceIsUnderstood
<1>1. Init => FirstPieceInv
  <2> SUFFICES ASSUME Init PROVE FirstPieceInv
    OBVIOUS
  <2>1. /\ input \in Inputs /\ pieces = 0 /\ http = NewHttpData
        /\ arriving = input.tokens /\ analysed = Nothing
    BY DEF Init
  <2>2. OnePieceIsUnderstood
    BY <2>1 DEF OnePieceIsUnderstood
  <2> QED BY <2>1, <2>2 DEF FirstPieceInv
<1>2. FirstPieceInv /\ [Next]_vars => FirstPieceInv'
  <2> SUFFICES ASSUME FirstPieceInv, [Next]_vars PROVE FirstPieceInv'
    OBVIOUS
  <2>1. CASE UNCHANGED vars
    BY <2>1, Zenon DEF vars, FirstPieceInv, OnePieceIsUnderstood, AllArrived, Understood
  <2>2. CASE handle_read
    <3>1. input' = input /\ input \in Inputs /\ pieces \in Nat /\ pieces' = pieces + 1
      BY <2>2 DEF handle_read, FirstPieceInv
    <3>2. pieces' \in Nat /\ pieces' # 0 /\ (pieces' = 1 => pieces = 0)
      BY <3>1
    <3>3. OnePieceIsUnderstood'
      <4> SUFFICES ASSUME input'.well_formed, pieces' = 1, arriving' = <<>>,
                          input'.request.body = <<>>, Accepted(input'.request)
                   PROVE  analysed' # Nothing /\ Understood' = Meant(input'.request)
        BY Zenon DEF OnePieceIsUnderstood, AllArrived
      <4>1. http = NewHttpData /\ arriving = input.tokens
        BY <3>2 DEF FirstPieceInv
      <4>2. /\ input.well_formed /\ input.request.body = <<>> /\ Accepted(input.request)
        BY <3>1
      <4>3. analysed' # Nothing /\ Understood' = Meant(input.request)
        BY <2>2, <3>1, <4>1, <4>2, FirstPiece
      <4> QED BY <3>1, <4>3
    <3> QED BY <3>1, <3>2, <3>3 DEF FirstPieceInv
  <2> QED BY <2>1, <2>2 DEF Next
<1>3. FirstPieceInv => OnePieceIsUnderstood
  BY DEF FirstPieceInv
<1> QED BY <1>1, <1>2, <1>3, PTL DEF Spec
=============================================================================
