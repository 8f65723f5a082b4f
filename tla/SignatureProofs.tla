--------------------------- MODULE SignatureProofs ---------------------------
(***************************************************************************)
(* Proofs about Signature, for any width of the integers, any skew, any    *)
(* lengths of header and body and any clock.                               *)
(***************************************************************************)
EXTENDS Signature, SequenceTheorems, TLAPS

(* Division with a remainder.                                               *)
LEMMA DivMod ==
    ASSUME NEW M \in Nat \ {0}, NEW a \in Int
    PROVE  /\ a % M \in 0..(M - 1) /\ a % M \in Int /\ a \div M \in Int
           /\ 0 <= a % M /\ a % M < M
           /\ a = M * (a \div M) + (a % M)
  OBVIOUS

(* Multiplication distributes over addition.                                *)
LEMMA Distribute ==
    ASSUME NEW M \in Int, NEW a \in Int, NEW b \in Int
    PROVE  (a + b) * M = M * a + b * M
  OBVIOUS

(* Arithmetic modulo M has one representative in each interval of length M. *)
LEMMA ModUnique ==
    ASSUME NEW M \in Nat \ {0}, NEW a \in Int, NEW b \in Int, NEW k \in Int,
           a = b + k * M, 0 <= b, b < M
    PROVE  a % M = b
<1>1. a % M \in 0..(M - 1) /\ a = M * (a \div M) + (a % M) /\ a \div M \in Int
  BY DivMod, Zenon
<1>2. PICK q \in Int : q = (a \div M) - k
  BY <1>1
<1>3. b = M * q + (a % M)
  BY <1>1, <1>2
<1>4. CASE q >= 1
  <2>1. M * q >= M
    BY <1>4
  <2> QED
    BY <1>1, <1>3, <2>1
<1>5. CASE q <= -1
  <2>1. M * q <= -M
    BY <1>5
  <2> QED
    BY <1>1, <1>3, <2>1
<1>6. CASE q = 0
  BY <1>1, <1>3, <1>6
<1> QED
  BY <1>4, <1>5, <1>6

(* A wrapped integer is in range, and some multiple of the modulus away.    *)
LEMMA WrapFacts ==
    ASSUME NEW x \in Int
    PROVE  /\ Wrap(x) \in MinInt..MaxInt
           /\ \E k \in Int : Wrap(x) = x + k * (2 * Half)
<1> USE SignatureAssumption DEF SignatureAssumption
<1>1. PICK M \in Nat \ {0} : M = 2 * Half
  OBVIOUS
<1>2. PICK y \in Int : y = x + Half
  OBVIOUS
<1>3. y % M \in 0..(M - 1) /\ y = M * (y \div M) + (y % M) /\ y \div M \in Int
  BY DivMod, Zenon
<1>4. Wrap(x) = (y % M) - Half
  BY <1>1, <1>2 DEF Wrap
<1>5. Wrap(x) \in MinInt..MaxInt
  BY <1>1, <1>3, <1>4 DEF MinInt, MaxInt
<1>6. PICK k \in Int : k = -(y \div M)
  BY <1>3
<1>7. Wrap(x) = x + k * M
  BY <1>2, <1>3, <1>4, <1>6
<1> QED
  BY <1>1, <1>5, <1>7, Zenon

(* Integers that differ by a multiple of the modulus wrap to the same one.  *)
LEMMA WrapEqual ==
    ASSUME NEW x \in Int, NEW y \in Int, NEW k \in Int, x = y + k * (2 * Half)
    PROVE  Wrap(x) = Wrap(y)
<1> USE SignatureAssumption DEF SignatureAssumption
<1>1. PICK M \in Nat \ {0} : M = 2 * Half
  OBVIOUS
<1>2. PICK z \in Int : z = y + Half
  OBVIOUS
<1>3. PICK r \in Int, q \in Int : r = z % M /\ q = z \div M
  BY DivMod, Zenon
<1>4. 0 <= r /\ r < M /\ z = M * q + r
  BY <1>3, DivMod, Zenon
<1>5. x + Half = r + (q + k) * M
  <2>1. (q + k) * M = M * q + k * M
    BY Distribute
  <2> QED
    BY <1>1, <1>2, <1>4, <2>1
<1>6. (x + Half) % M = r
  <2>1. x + Half \in Int /\ q + k \in Int
    OBVIOUS
  <2> QED
    BY <1>4, <1>5, <2>1, ModUnique, Zenon
<1> QED
  BY <1>1, <1>2, <1>3, <1>6, Zenon DEF Wrap

(* An integer in range wraps to itself.                                     *)
LEMMA WrapInRange ==
    ASSUME NEW x \in MinInt..MaxInt
    PROVE  Wrap(x) = x
<1> USE SignatureAssumption DEF SignatureAssumption
<1>1. PICK M \in Nat \ {0} : M = 2 * Half
  OBVIOUS
<1>2. PICK y \in Int : y = x + Half /\ 0 <= y /\ y < M
  BY <1>1 DEF MinInt, MaxInt
<1>3. y = y + 0 * M
  OBVIOUS
<1>4. y % M = y
  BY <1>2, <1>3, ModUnique
<1>5. Wrap(x) = y - Half
  BY <1>1, <1>2, <1>4, Zenon DEF Wrap
<1> QED
  BY <1>2, <1>5 DEF MinInt, MaxInt

(* A product is at least as far from zero as either factor.                 *)
LEMMA Product ==
    ASSUME NEW e \in Int, NEW N \in Nat \ {0}
    PROVE  /\ e >= 0 => e * N >= e
           /\ e <= 0 => e * N <= e
<1>1. CASE e >= 0
  <2>1. e * N = e + e * (N - 1) /\ e * (N - 1) >= 0 /\ e * (N - 1) \in Int
    BY <1>1
  <2> QED
    BY <1>1, <2>1
<1>2. CASE e <= 0
  <2>1. e * N = e + e * (N - 1) /\ e * (N - 1) <= 0 /\ e * (N - 1) \in Int
    BY <1>2
  <2> QED
    BY <1>2, <2>1
<1> QED
  BY <1>1, <1>2

(* A product is divided by one of its factors without a remainder.          *)
LEMMA ProductDiv ==
    ASSUME NEW e \in Int, NEW N \in Nat \ {0}
    PROVE  (e * N) % N = 0 /\ (e * N) \div N = e
<1>1. PICK d \in Int : d = e * N
  OBVIOUS
<1>2. d % N = 0
  <2>1. d = 0 + e * N /\ 0 < N
    BY <1>1
  <2> QED
    BY <2>1, ModUnique
<1>3. PICK q \in Int : q = d \div N
  BY DivMod, Zenon
<1>4. d = N * q
  BY <1>2, <1>3, DivMod
<1>5. PICK f \in Int : f = e - q
  OBVIOUS
<1>6. f * N = 0
  BY <1>1, <1>4, <1>5
<1>7. f = 0
  BY <1>6, Product
<1> QED
  BY <1>1, <1>2, <1>3, <1>5, <1>7

(* package time: as long as the difference of two times fits a Duration,    *)
(* Sub is exact, however far the internal seconds wrapped.                  *)
LEMMA SubExact ==
    ASSUME NEW a \in Int, NEW b \in Int, (a - b) * Nanos \in MinInt..MaxInt
    PROVE  Sub(Unix(a), Unix(b)) = (a - b) * Nanos
<1> USE SignatureAssumption DEF SignatureAssumption
<1>1. PICK M \in Nat \ {0} : M = 2 * Half
  OBVIOUS
<1>2. PICK t \in Int, i \in Int : t = Unix(a) /\ t = (a + UnixEpoch) + i * M
  <2>1. a + UnixEpoch \in Int
    OBVIOUS
  <2>2. PICK i \in Int : Wrap(a + UnixEpoch) = (a + UnixEpoch) + i * M
    BY <1>1, <2>1, WrapFacts, Zenon
  <2>3. Wrap(a + UnixEpoch) \in Int
    BY <2>1, <2>2
  <2> QED
    BY <2>2, <2>3, Zenon DEF Unix
<1>3. PICK u \in Int, j \in Int : u = Unix(b) /\ u = (b + UnixEpoch) + j * M
  <2>1. b + UnixEpoch \in Int
    OBVIOUS
  <2>2. PICK j \in Int : Wrap(b + UnixEpoch) = (b + UnixEpoch) + j * M
    BY <1>1, <2>1, WrapFacts, Zenon
  <2>3. Wrap(b + UnixEpoch) \in Int
    BY <2>1, <2>2
  <2> QED
    BY <2>2, <2>3, Zenon DEF Unix
<1>4. PICK e \in Int : e = a - b
  OBVIOUS
<1>5. e \in MinInt..MaxInt
  <2>1. e * Nanos \in MinInt..MaxInt /\ e * Nanos \in Int
    BY <1>4
  <2>2. (e >= 0 => e * Nanos >= e) /\ (e <= 0 => e * Nanos <= e)
    BY Product
  <2> QED
    BY <2>1, <2>2 DEF MinInt, MaxInt
<1>6. Wrap(t - u) = e
  <2>1. PICK k \in Int : k = i - j
    OBVIOUS
  <2>2. (k + j) * M = M * k + j * M
    BY Distribute
  <2>3. t - u = e + k * M
    BY <1>2, <1>3, <1>4, <2>1, <2>2
  <2>4. t - u \in Int
    OBVIOUS
  <2>5. Wrap(t - u) = Wrap(e)
    BY <1>1, <2>3, <2>4, WrapEqual, Zenon
  <2> QED
    BY <1>5, <2>5, WrapInRange, Zenon
<1>7. Wrap(Wrap(t - u) * Nanos) = e * Nanos
  BY <1>4, <1>6, WrapInRange, Zenon
<1>8. Wrap(u + e) = t
  <2>1. u + e = (a + UnixEpoch) + j * M
    BY <1>3, <1>4
  <2>2. u + e \in Int /\ a + UnixEpoch \in Int
    OBVIOUS
  <2>3. Wrap(u + e) = Wrap(a + UnixEpoch)
    BY <1>1, <2>1, <2>2, WrapEqual, Zenon
  <2> QED
    BY <1>2, <2>3, Zenon DEF Unix
<1>9. (e * Nanos) % Nanos = 0 /\ (e * Nanos) \div Nanos = e
  BY ProductDiv, Zenon
<1>10. Sub(t, u) = e * Nanos
  BY <1>7, <1>8, <1>9, Zenon DEF Sub
<1> QED
  BY <1>2, <1>3, <1>4, <1>10, Zenon

\* The distance of a timestamp from the clock.
Away(text) ==
    LET d == (now - Number(text)) * Nanos IN IF d < 0 THEN -d ELSE d

(* VerifyTimestamp: as far as Duration reaches, the window is exact, in the *)
(* past and in the future.                                                  *)
LEMMA TimestampExact ==
    ASSUME now \in Int, NEW text, text # <<>>, ParseIntOk(text), Away(text) <= MaxInt
    PROVE  /\ VerifyTimestamp(text) \in {"ok", "ErrTimestampSkewed"}
           /\ VerifyTimestamp(text) = "ErrTimestampSkewed" <=> Away(text) > Skew
<1> USE SignatureAssumption DEF SignatureAssumption
<1>1. PICK n \in Int : n = Number(text)
  BY DEF ParseIntOk, MinInt, MaxInt
<1>2. PICK d \in Int : d = (now - n) * Nanos
  OBVIOUS
<1>3. Away(text) = IF d < 0 THEN -d ELSE d
  BY <1>1, <1>2, Zenon DEF Away
<1>4. d \in MinInt..MaxInt /\ -d \in MinInt..MaxInt
  BY <1>3 DEF MinInt, MaxInt
<1>5. Sub(Unix(now), Unix(n)) = d
  BY <1>2, <1>4, SubExact, Zenon
<1>6. Wrap(-d) = -d
  BY <1>4, WrapInRange, Zenon
<1>7. VerifyTimestamp(text) = IF Away(text) > Skew THEN "ErrTimestampSkewed" ELSE "ok"
  BY <1>1, <1>3, <1>5, <1>6, Zenon DEF VerifyTimestamp
<1> QED
  BY <1>7, Zenon

(* package time: a time of the past that is too long ago for a Duration      *)
(* saturates at the largest one.  The sum that Sub checks cannot come out    *)
(* right by wrapping around, because the epoch is too far from the year 1.   *)
LEMMA SubPast ==
    ASSUME now \in 0..MaxNow, NEW n \in MinInt..MaxInt, n <= now,
           (now - n) * Nanos > MaxInt
    PROVE  Sub(Unix(now), Unix(n)) = MaxInt
<1> USE SignatureAssumption, EpochAssumption DEF SignatureAssumption
<1>1. PICK M \in Nat \ {0} : M = 2 * Half
  OBVIOUS
<1>2. now \in Int /\ n \in Int /\ now + UnixEpoch < Half /\ -Half <= n /\ 0 <= now
  BY DEF EpochAssumption, MinInt, MaxInt
<1>3. PICK t \in Int : t = now + UnixEpoch /\ t \in MinInt..MaxInt
  BY <1>2 DEF MinInt, MaxInt
<1>4. PICK u \in Int : u = n + UnixEpoch /\ u \in MinInt..MaxInt
  BY <1>2 DEF MinInt, MaxInt
<1>5. Unix(now) = t /\ Unix(n) = u
  BY <1>3, <1>4, WrapInRange, Zenon DEF Unix
<1>6. PICK e \in Int : e = now - n /\ e = t - u /\ 0 <= e /\ e <= M - 1 - UnixEpoch
  BY <1>1, <1>2, <1>3, <1>4
<1>7. e * Nanos > MaxInt
  BY <1>6
<1>8. PICK d \in Int : d = Wrap(Wrap(t - u) * Nanos) /\ d \in MinInt..MaxInt
  <2>1. t - u \in Int
    OBVIOUS
  <2>2. Wrap(t - u) \in MinInt..MaxInt
    BY <2>1, WrapFacts, Zenon
  <2>3. Wrap(t - u) * Nanos \in Int
    BY <2>2 DEF MinInt, MaxInt
  <2>4. Wrap(Wrap(t - u) * Nanos) \in MinInt..MaxInt
    BY <2>3, WrapFacts, Zenon
  <2>5. MinInt..MaxInt \subseteq Int
    BY DEF MinInt, MaxInt
  <2> QED
    BY <2>4, <2>5, Zenon
<1>9. ASSUME d % Nanos = 0, Wrap(u + (d \div Nanos)) = t
      PROVE  FALSE
  <2>1. PICK k \in Int : k = d \div Nanos /\ d = Nanos * k + (d % Nanos)
    BY DivMod, Zenon
  <2>2. k * Nanos = d
    BY <1>9, <2>1
  <2>3. k <= MaxInt
    BY <1>8, <2>2, Product DEF MinInt, MaxInt
  <2>4. u + k \in Int
    OBVIOUS
  <2>5. PICK j \in Int : t = u + k + j * M
    BY <1>1, <1>9, <2>1, <2>4, WrapFacts, Zenon
  <2>6. k = e - j * M
    BY <1>6, <2>5
  <2>7. CASE j = 0
    BY <1>7, <1>8, <2>2, <2>6, <2>7 DEF MinInt, MaxInt
  <2>8. CASE j <= -1
    <3>1. j * M <= -M
      BY <2>8
    <3> QED
      BY <1>1, <1>6, <2>3, <2>6, <3>1 DEF MaxInt
  <2>9. CASE j >= 1
    <3>1. j * M >= M
      BY <2>9
    <3>2. PICK c \in Nat : c = UnixEpoch + 1
      OBVIOUS
    <3>3. k <= -c
      BY <1>6, <2>6, <3>1, <3>2
    <3>4. k * Nanos <= (-c) * Nanos
      BY <3>3
    <3>5. (-c) * Nanos = -(c * Nanos) /\ c * Nanos > Half
      BY <3>2 DEF EpochAssumption
    <3> QED
      BY <1>8, <2>2, <3>4, <3>5 DEF MinInt, MaxInt
  <2> QED
    BY <2>7, <2>8, <2>9
<1>10. ~(t < u)
  BY <1>6
<1>11. Sub(t, u) = MaxInt
  BY <1>8, <1>9, <1>10, Zenon DEF Sub
<1> QED
  BY <1>5, <1>11, Zenon

(* VerifyTimestamp: a timestamp of the past is refused however long ago it  *)
(* was.                                                                     *)
LEMMA PastRefused ==
    ASSUME now \in 0..MaxNow, NEW text, text # <<>>, ParseIntOk(text),
           Number(text) <= now, Away(text) > MaxInt
    PROVE  VerifyTimestamp(text) = "ErrTimestampSkewed"
<1> USE SignatureAssumption DEF SignatureAssumption
<1>1. PICK n \in MinInt..MaxInt : n = Number(text)
  BY Zenon DEF ParseIntOk
<1>2. n \in Int /\ now \in Int /\ n <= now
  BY <1>1 DEF MinInt, MaxInt
<1>3. PICK d \in Int : d = (now - n) * Nanos /\ 0 <= d
  BY <1>2
<1>4. ~(d < 0)
  BY <1>3
<1>5. d > MaxInt
  BY <1>1, <1>3, <1>4, Zenon DEF Away
<1>6. Sub(Unix(now), Unix(n)) = MaxInt
  BY <1>2, <1>3, <1>5, SubPast, Zenon
<1>7. ~(MaxInt < 0) /\ MaxInt > Skew
  BY EpochAssumption DEF EpochAssumption, MaxInt
<1> QED
  BY <1>1, <1>6, <1>7, Zenon DEF VerifyTimestamp

Alphabet == {"v0", "1", "-", ":"}

(* strconv.ParseInt takes no text with a colon in it, nor the empty one.    *)
LEMMA NoColon ==
    ASSUME NEW text \in Seq(Alphabet), ParseIntOk(text)
    PROVE  text # <<>> /\ \A i \in 1..Len(text) : text[i] # ":"
<1>1. CASE text # <<>> /\ text[1] = "-"
  <2>1. Digits(text) = Tail(text)
    BY <1>1, Zenon DEF Digits
  <2>2. \A i \in 1..Len(Tail(text)) : Tail(text)[i] = "1"
    BY <2>1, Zenon DEF ParseIntOk
  <2>3. ASSUME NEW i \in 1..Len(text), i # 1
        PROVE  text[i] = "1"
    <3>1. i - 1 \in 1..Len(Tail(text)) /\ Tail(text)[i - 1] = text[i]
      BY <1>1, <2>3
    <3> QED
      BY <2>2, <3>1, Zenon
  <2> QED
    BY <1>1, <2>3
<1>2. CASE ~(text # <<>> /\ text[1] = "-")
  <2>1. Digits(text) = text
    BY <1>2, Zenon DEF Digits
  <2> QED
    BY <2>1, Zenon DEF ParseIntOk
<1> QED
  BY <1>1, <1>2, Zenon

(* The texts of a message are sequences.                                    *)
LEMMA MessageTexts ==
    ASSUME NEW m \in Messages
    PROVE  m.ts \in Seq(Alphabet) /\ m.body \in Seq(Alphabet)
<1>1. ASSUME NEW max \in Nat, NEW text \in Texts(max)
      PROVE  text \in Seq(Alphabet)
  <2>1. PICK n \in 0..max : text \in [1..n -> {"1", "-", ":"}]
    BY <1>1, Zenon DEF Texts
  <2>2. n \in Nat
    BY <2>1
  <2>3. text \in [1..n -> Alphabet]
    BY <2>1 DEF Alphabet
  <2> QED
    BY <2>2, <2>3, SeqDef, Zenon
<1>2. m.ts \in Texts(MaxHeader) /\ m.body \in Texts(MaxBody)
  BY DEF Messages
<1>3. MaxHeader \in Nat /\ MaxBody \in Nat
  BY SignatureAssumption DEF SignatureAssumption
<1> QED
  BY <1>1, <1>2, <1>3, Zenon

(* Two messages with the same texts are the same.                           *)
LEMMA MessageEqual ==
    ASSUME NEW m \in Messages, NEW w \in Messages, m.ts = w.ts, m.body = w.body
    PROVE  m = w
<1>1. ASSUME NEW A, NEW B, NEW x \in [ts : A, body : B], NEW y \in [ts : A, body : B],
             x.ts = y.ts, x.body = y.body
      PROVE  x = y
  BY <1>1
<1> QED
  BY <1>1, Zenon DEF Messages

\* c is p, of length n, followed by q.
Joined(p, q, c, n) ==
    /\ c \in Seq(Alphabet) /\ Len(c) = n + Len(q)
    /\ \A i \in 1..n : c[i] = p[i]
    /\ \A i \in 1..Len(q) : c[n + i] = q[i]

\* c is a prefix of two, then t, of length n, a colon, and b.
Parts(t, b, c, n) ==
    /\ Len(c) = n + 3 + Len(b)
    /\ \A i \in 1..n : c[2 + i] = t[i]
    /\ c[n + 3] = ":"
    /\ \A i \in 1..Len(b) : c[n + 3 + i] = b[i]

(* A concatenation, place by place.                                         *)
LEMMA ConcatPlaces ==
    ASSUME NEW p \in Seq(Alphabet), NEW q \in Seq(Alphabet), NEW n \in Nat, Len(p) = n
    PROVE  Joined(p, q, p \o q, n)
  BY DEF Joined

(* A message of four parts, the first of length two and the third a colon,  *)
(* place by place.                                                          *)
LEMMA FourParts ==
    ASSUME NEW v \in Seq(Alphabet), NEW t \in Seq(Alphabet), NEW x \in Seq(Alphabet),
           NEW b \in Seq(Alphabet), Len(v) = 2, Len(x) = 1, x[1] = ":",
           NEW n \in Nat, Len(t) = n
    PROVE  Parts(t, b, ((v \o t) \o x) \o b, n)
<1>1. PICK p : p = v \o t
  BY Zenon
<1>2. 2 \in Nat /\ 2 + n \in Nat /\ n + 3 \in Nat /\ 2 + n + 1 = n + 3
  OBVIOUS
<1>3. /\ p \in Seq(Alphabet) /\ Len(p) = 2 + n
      /\ \A i \in 1..n : p[2 + i] = t[i]
  <2>1. Joined(v, t, p, 2)
    BY <1>1, <1>2, ConcatPlaces, Zenon
  <2> QED
    BY <2>1, Zenon DEF Joined
<1>4. PICK q : q = p \o x
  BY Zenon
<1>5. /\ q \in Seq(Alphabet) /\ Len(q) = 2 + n + Len(x)
      /\ \A i \in 1..(2 + n) : q[i] = p[i]
      /\ \A i \in 1..Len(x) : q[2 + n + i] = x[i]
  <2>1. Joined(p, x, q, 2 + n)
    BY <1>2, <1>3, <1>4, ConcatPlaces, Zenon
  <2> QED
    BY <2>1, Zenon DEF Joined
<1>6. Len(q) = n + 3
  BY <1>2, <1>5, Zenon
<1>7. q[n + 3] = ":"
  <2>1. 1 \in 1..Len(x)
    OBVIOUS
  <2> QED
    BY <1>2, <1>5, <2>1, Zenon
<1>8. \A i \in 1..n : 2 + i \in 1..(2 + n) /\ 2 + i \in 1..(n + 3)
  OBVIOUS
<1>9. \A i \in 1..n : q[2 + i] = t[i]
  BY <1>3, <1>5, <1>8, Zenon
<1>10. PICK c : c = q \o b /\ c = ((v \o t) \o x) \o b
  BY <1>1, <1>4, Zenon
<1>11. /\ Len(c) = n + 3 + Len(b)
       /\ \A i \in 1..(n + 3) : c[i] = q[i]
       /\ \A i \in 1..Len(b) : c[n + 3 + i] = b[i]
  <2>1. Joined(q, b, c, n + 3)
    BY <1>2, <1>5, <1>6, <1>10, ConcatPlaces, ZenonT(30)
  <2> QED
    BY <2>1, Zenon DEF Joined
<1>12. n + 3 \in 1..(n + 3)
  OBVIOUS
<1>13. Parts(t, b, c, n)
  BY <1>7, <1>8, <1>9, <1>11, <1>12, Zenon DEF Parts
<1> QED
  BY <1>10, <1>13, Zenon

(* A text that was put together from a part without a colon, a colon and a  *)
(* second part can be taken apart in one way only.                          *)
LEMMA SplitUnique ==
    ASSUME NEW t \in Seq(Alphabet), NEW b \in Seq(Alphabet),
           NEW s \in Seq(Alphabet), NEW d \in Seq(Alphabet),
           \A i \in 1..Len(t) : t[i] # ":", \A i \in 1..Len(s) : s[i] # ":",
           <<"v0", ":">> \o t \o <<":">> \o b = <<"v0", ":">> \o s \o <<":">> \o d
    PROVE  t = s /\ b = d
<1>1. PICK v \in Seq(Alphabet), x \in Seq(Alphabet) :
        /\ v = <<"v0", ":">> /\ x = <<":">>
        /\ Len(v) = 2 /\ Len(x) = 1 /\ x[1] = ":"
  <2>1. <<"v0", ":">> \in Seq(Alphabet) /\ <<":">> \in Seq(Alphabet)
    BY DEF Alphabet
  <2>2. Len(<<"v0", ":">>) = 2 /\ Len(<<":">>) = 1 /\ <<":">>[1] = ":"
    OBVIOUS
  <2> QED
    BY <2>1, <2>2, Zenon
<1>2. PICK c : c = ((v \o t) \o x) \o b /\ c = ((v \o s) \o x) \o d
  BY <1>1, Zenon
<1>3. PICK n \in Nat, k \in Nat : n = Len(t) /\ k = Len(s)
  OBVIOUS
<1>4. /\ Len(c) = n + 3 + Len(b) /\ c[n + 3] = ":"
      /\ \A i \in 1..n : c[2 + i] = t[i]
      /\ \A i \in 1..Len(b) : c[n + 3 + i] = b[i]
  <2>1. Parts(t, b, ((v \o t) \o x) \o b, n)
    BY <1>1, <1>3, FourParts, Zenon
  <2> QED
    BY <1>2, <2>1, Zenon DEF Parts
<1>5. /\ Len(c) = k + 3 + Len(d) /\ c[k + 3] = ":"
      /\ \A i \in 1..k : c[2 + i] = s[i]
      /\ \A i \in 1..Len(d) : c[k + 3 + i] = d[i]
  <2>1. Parts(s, d, ((v \o s) \o x) \o d, k)
    BY <1>1, <1>3, FourParts, Zenon
  <2> QED
    BY <1>2, <2>1, Zenon DEF Parts
<1>6. n = k
  <2>1. ASSUME n < k PROVE FALSE
    <3>1. n + 1 \in 1..k /\ 2 + (n + 1) = n + 3
      BY <2>1
    <3> QED
      BY <1>3, <1>4, <1>5, <3>1, SMTT(20)
  <2>2. ASSUME k < n PROVE FALSE
    <3>1. k + 1 \in 1..n /\ 2 + (k + 1) = k + 3
      BY <2>2
    <3> QED
      BY <1>3, <1>4, <1>5, <3>1, SMTT(20)
  <2> QED
    BY <2>1, <2>2
<1>7. t = s
  <2>1. \A i \in 1..Len(t) : t[i] = s[i]
    BY <1>3, <1>4, <1>5, <1>6, Zenon
  <2> QED
    BY <1>3, <1>6, <2>1, SeqEqual, Zenon
<1>8. b = d
  <2>1. Len(b) = Len(d)
    BY <1>4, <1>5, <1>6
  <2>2. \A i \in 1..Len(b) : b[i] = d[i]
    BY <1>4, <1>5, <1>6, <2>1, Zenon
  <2> QED
    BY <2>1, <2>2, SeqEqual, Zenon
<1> QED
  BY <1>7, <1>8, Zenon

(* signature.go: with timestamps that parse, two messages with the same     *)
(* canonical form are the same message.                                     *)
LEMMA CanonicalInjective ==
    ASSUME NEW m \in Messages, NEW w \in Messages, ParseIntOk(m.ts), ParseIntOk(w.ts),
           canonicalMessage(m) = canonicalMessage(w)
    PROVE  m = w
<1>1. /\ m.ts \in Seq(Alphabet) /\ m.body \in Seq(Alphabet)
      /\ w.ts \in Seq(Alphabet) /\ w.body \in Seq(Alphabet)
  BY MessageTexts, Zenon
<1>2. /\ \A i \in 1..Len(m.ts) : m.ts[i] # ":"
      /\ \A i \in 1..Len(w.ts) : w.ts[i] # ":"
  BY <1>1, NoColon, Zenon
<1>3. <<"v0", ":">> \o m.ts \o <<":">> \o m.body = <<"v0", ":">> \o w.ts \o <<":">> \o w.body
  BY Zenon DEF canonicalMessage
<1>4. m.ts = w.ts /\ m.body = w.body
  BY <1>1, <1>2, <1>3, SplitUnique, ZenonT(30)
<1> QED
  BY <1>4, MessageEqual, Zenon

-----------------------------------------------------------------------------
Signatures == {"signed", "other", "garbled"}

\* The last verdict is what Verify says of the last message, at this moment.
VerdictInv ==
    /\ ParseIntOk(signed.ts)
    /\ verdict # "none" => \E sig \in Signatures : verdict = Verify(received, sig)

(* The three ways in which Verify can end: at the timestamp's form, at its  *)
(* age, or at the signature.                                                *)
LEMMA VerifyFacts ==
    ASSUME NEW m, NEW sig, NEW v, v = Verify(m, sig)
    PROVE  \/ v \in {"ErrTimestampMissing", "ErrTimestampMalformed"}
              /\ (m.ts = <<>> \/ ~ParseIntOk(m.ts))
           \/ /\ m.ts # <<>> /\ ParseIntOk(m.ts)
              /\ \/ v = "ErrTimestampSkewed" /\ VerifyTimestamp(m.ts) = "ErrTimestampSkewed"
                 \/ /\ VerifyTimestamp(m.ts) = "ok"
                    /\ v \in {"ok", "ErrMalformed", "ErrInvalidSignature"}
                    /\ v = "ok" => canonicalMessage(m) = canonicalMessage(signed)
<1>1. \/ VerifyTimestamp(m.ts) = "ErrTimestampMissing" /\ m.ts = <<>>
      \/ VerifyTimestamp(m.ts) = "ErrTimestampMalformed" /\ ~ParseIntOk(m.ts)
      \/ /\ m.ts # <<>> /\ ParseIntOk(m.ts)
         /\ VerifyTimestamp(m.ts) \in {"ErrTimestampSkewed", "ok"}
  BY Zenon DEF VerifyTimestamp
<1>2. LET h == VerifyHMAC(canonicalMessage(m), sig)
      IN  /\ h \in {"ok", "ErrMalformed", "ErrInvalidSignature"}
          /\ h = "ok" => canonicalMessage(m) = canonicalMessage(signed)
  BY Zenon DEF VerifyHMAC
<1>3. v = IF VerifyTimestamp(m.ts) # "ok" THEN VerifyTimestamp(m.ts)
          ELSE VerifyHMAC(canonicalMessage(m), sig)
  BY Zenon DEF Verify
<1> QED
  BY <1>1, <1>2, <1>3, Zenon

(* Every verdict is one of the sentinel errors or "ok", and is about the    *)
(* last message and the time at which it came.                              *)
LEMMA VerdictStep ==
    ASSUME TypeOK, VerdictInv, [Next]_vars
    PROVE  TypeOK' /\ VerdictInv'
<1>1. ASSUME NEW m \in Messages, NEW sig \in Signatures, Deliver(m, sig)
      PROVE  TypeOK' /\ VerdictInv'
  <2>1. /\ received' = m /\ now' = now /\ signed' = signed
        /\ verdict' = Verify(m, sig)
    BY <1>1, Zenon DEF Deliver
  <2>2. Verify(m, sig)' = Verify(m, sig)
    BY <2>1, Zenon DEF Verify, VerifyTimestamp, VerifyHMAC
  <2>3. Verify(m, sig) \in Verdicts
    <3>1. PICK v : v = Verify(m, sig)
      BY Zenon
    <3> QED
      BY <3>1, VerifyFacts, Zenon DEF Verdicts
  <2>4. TypeOK'
    BY <2>1, <2>3, Zenon DEF TypeOK
  <2> QED
    BY <2>1, <2>2, <2>4, Zenon DEF VerdictInv
<1>2. CASE Tick
  <2>1. now' \in 0..MaxNow
    BY <1>2, SignatureAssumption DEF Tick, TypeOK, SignatureAssumption
  <2> QED
    BY <1>2, <2>1, Zenon DEF Tick, TypeOK, VerdictInv
<1>3. CASE UNCHANGED vars
  <2>1. /\ now' = now /\ signed' = signed /\ received' = received /\ verdict' = verdict
    BY <1>3, Zenon DEF vars
  <2>2. ASSUME NEW sig
        PROVE  Verify(received, sig)' = Verify(received, sig)
    BY <2>1, Zenon DEF Verify, VerifyTimestamp, VerifyHMAC
  <2> QED
    BY <2>1, <2>2, Zenon DEF TypeOK, VerdictInv
<1> QED
  BY <1>1, <1>2, <1>3, Zenon DEF Next, Signatures

(* The inductive invariant, with the type invariant it needs.               *)
THEOREM VerdictCorrect == Spec => [](TypeOK /\ VerdictInv)
<1>1. Init => TypeOK /\ VerdictInv
  <2> SUFFICES ASSUME Init PROVE TypeOK /\ VerdictInv
    BY Zenon
  <2>1. 0 \in 0..MaxNow
    BY SignatureAssumption DEF SignatureAssumption
  <2> QED
    BY <2>1, Zenon DEF Init, TypeOK, VerdictInv
<1>2. TypeOK /\ VerdictInv /\ [Next]_vars => TypeOK' /\ VerdictInv'
  BY VerdictStep, Zenon
<1> QED
  BY <1>1, <1>2, PTL DEF Spec

(* The verdict is always one of the sentinel errors of signature.go, which  *)
(* the dispatcher's log tells apart.                                        *)
THEOREM TypeCorrect == Spec => []TypeOK
  BY VerdictCorrect, PTL

(* Nothing but the message that was signed is ever accepted, for headers    *)
(* and bodies of any length: no other split of the same canonical text into *)
(* timestamp and body passes.                                               *)
THEOREM AuthenticCorrect == Spec => []Authentic
<1>1. TypeOK /\ VerdictInv => Authentic
  <2> SUFFICES ASSUME TypeOK, VerdictInv, verdict = "ok" PROVE received = signed
    BY Zenon DEF Authentic
  <2>1. PICK sig \in Signatures : verdict = Verify(received, sig)
    BY Zenon DEF VerdictInv
  <2>2. ParseIntOk(received.ts) /\ canonicalMessage(received) = canonicalMessage(signed)
    BY <2>1, VerifyFacts, Zenon
  <2>3. received \in Messages /\ signed \in Messages /\ ParseIntOk(signed.ts)
    BY Zenon DEF TypeOK, VerdictInv
  <2> QED
    BY <2>2, <2>3, CanonicalInjective, Zenon
<1> QED
  BY <1>1, VerdictCorrect, PTL

(* For integers of any width, wherever the clock is and however far the     *)
(* internal seconds of package time wrap, a well-formed timestamp within    *)
(* the reach of Duration is refused exactly if it is outside the window.    *)
THEOREM WindowCorrect == Spec => []WindowExact
<1>1. TypeOK /\ VerdictInv => WindowExact
  <2> SUFFICES ASSUME TypeOK, VerdictInv, verdict # "none", ParseIntOk(received.ts),
                      Distance <= MaxInt
               PROVE  verdict = "ErrTimestampSkewed" <=> Distance > Skew
    BY Zenon DEF WindowExact
  <2>1. Distance = Away(received.ts)
    BY Zenon DEF Distance, Away
  <2>2. now \in Int /\ received.ts # <<>>
    BY MessageTexts, NoColon DEF TypeOK
  <2>3. /\ VerifyTimestamp(received.ts) \in {"ok", "ErrTimestampSkewed"}
        /\ VerifyTimestamp(received.ts) = "ErrTimestampSkewed" <=> Distance > Skew
    BY <2>1, <2>2, TimestampExact, Zenon
  <2>4. PICK sig \in Signatures : verdict = Verify(received, sig)
    BY Zenon DEF VerdictInv
  <2>5. verdict = "ErrTimestampSkewed" <=> VerifyTimestamp(received.ts) = "ErrTimestampSkewed"
    BY <2>2, <2>4, VerifyFacts, Zenon
  <2> QED
    BY <2>3, <2>5, Zenon
<1> QED
  BY <1>1, VerdictCorrect, PTL

(* Nothing outside the window is accepted, for integers of any width, but   *)
(* a timestamp further ahead of the clock than a Duration reaches: the one  *)
(* side on which the negation in VerifyTimestamp does not survive.          *)
THEOREM AcceptedCorrect == Spec => []WindowRespected
<1>1. TypeOK /\ VerdictInv => WindowRespected
  <2> SUFFICES ASSUME TypeOK, VerdictInv, verdict = "ok",
                      ~(Number(received.ts) > now /\ Distance > MaxInt)
               PROVE  Distance <= Skew
    BY Zenon DEF WindowRespected
  <2>1. PICK sig \in Signatures : verdict = Verify(received, sig)
    BY Zenon DEF VerdictInv
  <2>2. /\ ParseIntOk(received.ts) /\ received.ts # <<>>
        /\ VerifyTimestamp(received.ts) = "ok"
    BY <2>1, VerifyFacts, Zenon
  <2>3. Distance = Away(received.ts)
    BY Zenon DEF Distance, Away
  <2>4. now \in 0..MaxNow /\ now \in Int
    BY DEF TypeOK
  <2>5. Number(received.ts) \in Int
    BY <2>2, SignatureAssumption DEF ParseIntOk, MinInt, MaxInt, SignatureAssumption
  <2>6. Distance \in Int /\ Skew \in Int /\ MaxInt \in Int
    BY <2>4, <2>5, SignatureAssumption DEF Distance, MaxInt, SignatureAssumption
  <2>7. ~(Distance > MaxInt)
    <3>1. ~(Number(received.ts) > now) => Number(received.ts) <= now
      BY <2>4, <2>5
    <3> QED
      BY <2>2, <2>3, <2>4, <3>1, PastRefused, Zenon
  <2>8. Distance <= MaxInt
    BY <2>6, <2>7
  <2>9. ~(Distance > Skew)
    BY <2>2, <2>3, <2>4, <2>8, TimestampExact, Zenon
  <2> QED
    BY <2>6, <2>9
<1> QED
  BY <1>1, VerdictCorrect, PTL

(* A bad signature is only ever reported for a message that is fresh as far *)
(* as Duration can tell, so that a replay is never taken for corruption.    *)
THEOREM ReplayCorrect == Spec => []ReplayToldFromCorruption
<1>1. TypeOK /\ VerdictInv => ReplayToldFromCorruption
  <2> SUFFICES ASSUME TypeOK, VerdictInv, verdict \in {"ErrMalformed", "ErrInvalidSignature"}
               PROVE  ParseIntOk(received.ts) /\ (Distance <= MaxInt => Distance <= Skew)
    BY Zenon DEF ReplayToldFromCorruption
  <2>1. PICK sig \in Signatures : verdict = Verify(received, sig)
    BY Zenon DEF VerdictInv
  <2>2. /\ ParseIntOk(received.ts) /\ received.ts # <<>>
        /\ VerifyTimestamp(received.ts) = "ok"
    BY <2>1, VerifyFacts, Zenon
  <2>3. Distance = Away(received.ts)
    BY Zenon DEF Distance, Away
  <2>4. now \in Int
    BY DEF TypeOK
  <2>5. ASSUME Distance <= MaxInt PROVE ~(Distance > Skew)
    BY <2>2, <2>3, <2>4, <2>5, TimestampExact, Zenon
  <2>6. Distance \in Int /\ Skew \in Int
    <3>1. Number(received.ts) \in Int
      BY <2>2, SignatureAssumption DEF ParseIntOk, MinInt, MaxInt, SignatureAssumption
    <3> QED
      BY <2>4, <3>1, SignatureAssumption DEF Distance, SignatureAssumption
  <2>7. ~(Distance > Skew) => Distance <= Skew
    BY <2>6
  <2> QED
    BY <2>2, <2>5, <2>7, Zenon
<1> QED
  BY <1>1, VerdictCorrect, PTL

=============================================================================
