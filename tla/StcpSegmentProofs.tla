------------------------- MODULE StcpSegmentProofs -------------------------
(***************************************************************************)
(* Proofs about StcpSegment for any number of byte values and of segments, *)
(* any headers and payloads that fit a packet, and any cuts of the stream. *)
(* The first half is about the checksums: the sum of the words modulo      *)
(* W - 1, the byte orders and one wrong byte.  The second half is about    *)
(* the stream of bytes.                                                    *)
(***************************************************************************)
EXTENDS StcpSegment, SequenceTheorems, WellFoundedInduction, TLAPS

-----------------------------------------------------------------------------
(* Numbers *)

\* Every set of numbers has a least element.
LEMMA LeastNatural ==
  ASSUME NEW T, T \subseteq Nat, T # {}
  PROVE  \E x \in T : \A y \in T : x <= y
<1> DEFINE R == {ss \in Nat \X Nat : ss[1] < ss[2]}
<1>1. IsWellFoundedOn(R, Nat)
  BY NatLessThanWellFounded DEF OpToRel
<1>2. PICK x \in T : \A y \in T : ~(<<y, x>> \in R)
  <2> HIDE DEF R
  <2> QED  BY <1>1, WFMin
<1>3. ASSUME NEW y \in T PROVE x <= y
  <2>1. <<y, x>> \in Nat \X Nat
    OBVIOUS
  <2>2. ~(<<y, x>>[1] < <<y, x>>[2])
    BY <1>2, <2>1
  <2> QED  BY <2>2
<1> QED  BY <1>3

\* Bytes and words.
LEMMA BaseFacts == B \in Nat /\ B >= 2 /\ W \in Nat /\ W = B * B /\ W >= 2 * B
<1>1. B \in Nat /\ B >= 2
  BY BaseAssumption
<1> QED  BY <1>1 DEF W

\* Division by a positive number.
LEMMA DivMod ==
  ASSUME NEW n \in Nat, NEW d \in Nat, d > 0
  PROVE  /\ n \div d \in Nat /\ n % d \in 0..(d - 1)
         /\ n = d * (n \div d) + (n % d)
OBVIOUS

\* A product grows by at least one factor with the other.
LEMMA MulLess ==
  ASSUME NEW a \in Int, NEW b \in Int, NEW d \in Nat, a < b
  PROVE  d * a + d <= d * b
OBVIOUS

\* A quotient and a remainder determine each other.
LEMMA DivUnique ==
  ASSUME NEW n \in Nat, NEW d \in Nat, d > 0, NEW q \in Int, NEW r \in 0..(d - 1), n = d * q + r
  PROVE  n \div d = q /\ n % d = r
<1> DEFINE p == n \div d
           s == n % d
<1>1. p \in Nat /\ s \in 0..(d - 1) /\ n = d * p + s
  BY DivMod
<1> HIDE DEF p, s
<1>2. ASSUME p < q PROVE FALSE
  BY <1>1, <1>2, MulLess
<1>3. ASSUME q < p PROVE FALSE
  BY <1>1, <1>3, MulLess
<1>4. p = q
  BY <1>1, <1>2, <1>3
<1>5. s = r
  BY <1>1, <1>4
<1> QED  BY <1>4, <1>5 DEF p, s

-----------------------------------------------------------------------------
(* Folding *)

\* The one's complement sum that belongs to a sum of words: what is left of it
\* modulo W - 1, and W - 1 instead of 0 for a sum that is not 0.
Ones(sum) == IF sum = 0 THEN 0 ELSE 1 + ((sum - 1) % (W - 1))

\* The range of one's complement sums, and what they leave out.
LEMMA OnesFacts ==
  ASSUME NEW sum \in Nat, sum > 0
  PROVE  /\ Ones(sum) \in 1..(W - 1)
         /\ \E t \in Nat : sum = Ones(sum) + (W - 1) * t
<1> DEFINE d == W - 1
           n == sum - 1
<1>1. d \in Nat /\ d > 0 /\ n \in Nat
  BY BaseFacts
<1>2. n \div d \in Nat /\ n % d \in 0..(d - 1) /\ n = d * (n \div d) + (n % d)
  BY <1>1, DivMod
<1>3. Ones(sum) = 1 + (n % d)
  BY DEF Ones
<1> HIDE DEF d, n
<1>4. Ones(sum) \in 1..d
  BY <1>1, <1>2, <1>3
<1>5. sum = Ones(sum) + d * (n \div d)
  <2>1. sum = n + 1
    BY DEF n
  <2> QED  BY <1>1, <1>2, <1>3, <2>1
<1> QED  BY <1>2, <1>4, <1>5 DEF d

\* A number from 1 to W - 1 that is equal to the sum modulo W - 1 is the one's
\* complement sum.
LEMMA OnesUnique ==
  ASSUME NEW sum \in Nat, sum > 0, NEW x \in 1..(W - 1), NEW t \in Int, sum = x + (W - 1) * t
  PROVE  Ones(sum) = x
<1> DEFINE d == W - 1
           n == sum - 1
           r == x - 1
<1>1. d \in Nat /\ d > 0 /\ n \in Nat /\ r \in 0..(d - 1) /\ n = d * t + r
  BY BaseFacts
<1>2. n % d = r
  <2> HIDE DEF d, n, r
  <2> QED  BY <1>1, DivUnique
<1>3. Ones(sum) = 1 + (n % d)
  BY DEF Ones
<1> QED  BY <1>2, <1>3, BaseFacts

\* One fold leaves the one's complement sum as it is.
LEMMA FoldOnce ==
  ASSUME NEW sum \in Nat, sum > 0
  PROVE  /\ sum \div W \in Nat /\ sum % W \in 0..(W - 1)
         /\ sum = ((sum \div W) + (sum % W)) + (W - 1) * (sum \div W)
         /\ (sum \div W) + (sum % W) > 0
<1>1. sum \div W \in Nat /\ sum % W \in 0..(W - 1) /\ sum = W * (sum \div W) + (sum % W)
  BY BaseFacts, DivMod
<1> DEFINE q == sum \div W
           r == sum % W
<1>2. q \in Nat /\ r \in 0..(W - 1) /\ sum = W * q + r
  BY <1>1
<1> HIDE DEF q, r
<1>3. sum = (q + r) + (W - 1) * q /\ q + r > 0
  BY <1>2, BaseFacts
<1> QED  BY <1>1, <1>3 DEF q, r

\* The two folds of _mysock_tcp_checksum take in every carry of a sum that has
\* two words.
LEMMA FoldIsOnes ==
  ASSUME NEW sum \in Nat, sum < W * W
  PROVE  Fold(sum) = Ones(sum)
<1> DEFINE q == sum \div W
           r == sum % W
           once == q + r
<1>0. W \in Nat /\ W >= 4
  BY BaseFacts
<1>1. q \in Nat /\ r \in 0..(W - 1) /\ sum = W * q + r
  BY <1>0, DivMod
<1>2. Fold(sum) = (once + (once \div W)) % W
  BY DEF Fold
<1> HIDE DEF q, r
<1>3. q <= W - 1
  <2>1. ASSUME q > W - 1 PROVE FALSE
    <3>1. W * q >= W * W
      <4>1. W - 1 < q
        BY <2>1, <1>1, <1>0
      <4>2. W * (W - 1) + W <= W * q
        BY <4>1, <1>1, <1>0, MulLess
      <4> QED  BY <4>2, <1>1, <1>0
    <3> QED  BY <3>1, <1>1, <1>0
  <2> QED  BY <2>1, <1>1, <1>0
<1>4. once \in Nat /\ once <= 2 * W - 2
  BY <1>1, <1>3, <1>0
<1>5. sum = once + (W - 1) * q
  BY <1>1, <1>0
<1> HIDE DEF once
<1>6. CASE sum = 0
  <2>1. once = 0
    <3>1. W * q >= q
      BY <1>1, <1>0
    <3> QED  BY <1>1, <1>6, <1>0, <3>1 DEF once
  <2>2. once \div W = 0 /\ (once + (once \div W)) % W = 0
    BY <2>1, <1>0
  <2> QED  BY <2>2, <1>2, <1>6 DEF Ones
<1>7. CASE sum > 0
  <2>0. once > 0
    BY <1>1, <1>7, <1>0 DEF once
  <2>1. CASE once < W
    <3>1. once \div W = 0 /\ once % W = once
      <4>1. once = W * 0 + once /\ once \in 0..(W - 1) /\ W > 0
        BY <2>1, <1>4, <1>0
      <4> QED  BY <4>1, <1>4, <1>0, DivUnique
    <3>2. Fold(sum) = once
      BY <3>1, <1>2, <1>4
    <3>3. Ones(sum) = once
      BY <2>0, <2>1, <1>1, <1>4, <1>5, <1>7, <1>0, OnesUnique
    <3> QED  BY <3>2, <3>3
  <2>2. CASE once >= W
    <3>1. once \div W = 1
      <4>1. once = W * 1 + (once - W) /\ once - W \in 0..(W - 1) /\ W > 0
        BY <2>2, <1>4, <1>0
      <4> QED  BY <4>1, <1>4, <1>0, DivUnique
    <3>2. (once + 1) % W = once + 1 - W
      <4>1. once + 1 = W * 1 + (once + 1 - W) /\ once + 1 - W \in 0..(W - 1) /\ W > 0 /\ once + 1 \in Nat
        BY <2>2, <1>4, <1>0
      <4> QED  BY <4>1, <1>0, DivUnique
    <3>3. Ones(sum) = once + 1 - W
      <4>1. once + 1 - W \in 1..(W - 1) /\ q + 1 \in Int
        BY <2>2, <1>1, <1>4, <1>0
      <4>2. sum = (once + 1 - W) + (W - 1) * (q + 1)
        BY <1>1, <1>4, <1>5, <1>0
      <4> QED  BY <4>1, <4>2, <1>7, OnesUnique
    <3> QED  BY <3>1, <3>2, <3>3, <1>2
  <2> QED  BY <2>1, <2>2, <1>4, <1>0
<1> QED  BY <1>6, <1>7

\* One's complement sums do not change when a number is folded, so the loop of
\* cksum ends with them.
LEMMA CksumSumIsOnes ==
  ASSUME NEW n \in Nat
  PROVE  CksumSum(n) = Ones(n)
<1> DEFINE Loop(f) == f = [sum \in Nat |-> IF sum < W THEN sum ELSE f[(sum \div W) + (sum % W)]]
           ones == [sum \in Nat |-> Ones(sum)]
<1>0. W \in Nat /\ W >= 4
  BY BaseFacts
<1>1. ASSUME NEW sum \in Nat, sum < W PROVE Ones(sum) = sum
  <2>1. CASE sum = 0
    BY <2>1 DEF Ones
  <2>2. CASE sum > 0
    <3>1. sum \in 1..(W - 1) /\ sum = sum + (W - 1) * 0
      BY <2>2, <1>1, <1>0
    <3> QED  BY <3>1, <2>2, OnesUnique
  <2> QED  BY <2>1, <2>2
<1>2. ASSUME NEW sum \in Nat, sum >= W
      PROVE  /\ (sum \div W) + (sum % W) \in Nat /\ (sum \div W) + (sum % W) < sum
             /\ Ones((sum \div W) + (sum % W)) = Ones(sum)
  <2> DEFINE q == sum \div W
             m == (sum \div W) + (sum % W)
  <2>0. sum > 0
    BY <1>2, <1>0
  <2>9. /\ q \in Nat /\ sum % W \in 0..(W - 1) /\ m > 0 /\ sum = m + (W - 1) * q
    BY <2>0, FoldOnce
  <2>1. q \in Nat /\ m \in Nat /\ m > 0 /\ sum = m + (W - 1) * q
    BY <2>9, <1>0
  <2>2. q # 0
    <3>1. ASSUME q = 0 PROVE FALSE
      <4>1. sum % W \in 0..(W - 1) /\ sum = W * q + (sum % W)
        BY <1>0, DivMod
      <4> HIDE DEF q
      <4> QED  BY <4>1, <3>1, <1>2, <1>0
    <3> QED  BY <3>1
  <2> HIDE DEF q, m
  <2>3. m < sum
    <3>1. (W - 1) * q > 0
      BY <2>1, <2>2, <1>0
    <3> QED  BY <2>1, <3>1, <1>0
  <2>4. Ones(m) = Ones(sum)
    <3>1. Ones(m) \in 1..(W - 1)
      BY <2>1, OnesFacts
    <3>2. PICK t \in Nat : m = Ones(m) + (W - 1) * t
      BY <2>1, OnesFacts
    <3> DEFINE x == Ones(m)
    <3> HIDE DEF x
    <3>3. x \in 1..(W - 1) /\ sum = x + (W - 1) * (t + q) /\ t + q \in Int
      BY <3>1, <3>2, <2>1, <1>0 DEF x
    <3>4. Ones(sum) = x
      BY <3>3, <1>2, <1>0, OnesUnique
    <3> QED  BY <3>4 DEF x
  <2> QED  BY <2>1, <2>3, <2>4 DEF m
<1>3. Loop(ones)
  <2>1. ASSUME NEW sum \in Nat
        PROVE  ones[sum] = IF sum < W THEN sum ELSE ones[(sum \div W) + (sum % W)]
    <3>1. CASE sum < W
      BY <3>1, <1>1
    <3>2. CASE sum >= W
      BY <3>2, <1>2, <1>0
    <3> QED  BY <3>1, <3>2, <1>0
  <2> QED  BY <2>1
<1>4. Loop(CksumLoop)
  <2>1. CksumLoop = CHOOSE f : Loop(f)
    BY DEF CksumLoop
  <2> HIDE DEF Loop
  <2> QED  BY <2>1, <1>3
<1>5. \A sum \in Nat : CksumLoop[sum] = IF sum < W THEN sum ELSE CksumLoop[(sum \div W) + (sum % W)]
  BY <1>4
<1> DEFINE Bad == {sum \in Nat : CksumLoop[sum] # Ones(sum)}
<1>6. Bad = {}
  <2> SUFFICES ASSUME Bad # {} PROVE FALSE
    OBVIOUS
  <2>1. PICK s \in Bad : \A m \in Bad : s <= m
    <3>1. Bad \subseteq Nat
      OBVIOUS
    <3> HIDE DEF Bad
    <3> QED  BY <3>1, LeastNatural
  <2>2. s \in Nat /\ CksumLoop[s] # Ones(s)
    OBVIOUS
  <2>3. CASE s < W
    BY <2>2, <2>3, <1>1, <1>5
  <2>4. CASE s >= W
    <3>1. /\ (s \div W) + (s % W) \in Nat /\ (s \div W) + (s % W) < s
          /\ Ones((s \div W) + (s % W)) = Ones(s)
      BY <2>2, <2>4, <1>2
    <3>2. CksumLoop[s] = CksumLoop[(s \div W) + (s % W)]
      BY <2>2, <2>4, <1>5, <1>0
    <3> DEFINE m == (s \div W) + (s % W)
    <3>3. m \in Nat /\ m < s /\ CksumLoop[m] # Ones(m)
      BY <3>1, <3>2, <2>2
    <3> HIDE DEF m
    <3>4. m \in Bad
      BY <3>3
    <3> QED  BY <3>3, <3>4, <2>1, <2>2
  <2> QED  BY <2>2, <2>3, <2>4, <1>0
<1> QED  BY <1>6 DEF CksumSum

-----------------------------------------------------------------------------
(* Byte orders *)

\* A word with its bytes exchanged.
Swap(x) == (x % B) * B + (x \div B)

\* The two bytes of a word, and the word of two bytes.
LEMMA WordBytes ==
  ASSUME NEW x \in 0..(W - 1)
  PROVE  x \div B \in Byte /\ x % B \in Byte /\ x = B * (x \div B) + (x % B)
<1>1. x \in Nat /\ B \in Nat /\ B >= 2 /\ W = B * B /\ x < W
  BY BaseFacts
<1>2. x \div B \in Nat /\ x % B \in 0..(B - 1) /\ x = B * (x \div B) + (x % B)
  BY <1>1, DivMod
<1> DEFINE h == x \div B
           l == x % B
<1>3. h \in Nat /\ l \in 0..(B - 1) /\ x = B * h + l
  BY <1>2
<1> HIDE DEF h, l
<1>4. ASSUME h > B - 1 PROVE FALSE
  <2>1. B - 1 < h
    BY <1>4, <1>3, <1>1
  <2>2. B * (B - 1) + B <= B * h
    BY <2>1, <1>1, <1>3, MulLess
  <2> QED  BY <2>2, <1>1, <1>3
<1>5. h \in Byte
  BY <1>1, <1>3, <1>4 DEF Byte
<1> QED  BY <1>2, <1>5 DEF h, Byte

LEMMA BytesWord ==
  ASSUME NEW h \in Byte, NEW l \in Byte
  PROVE  /\ B * h + l \in 0..(W - 1)
         /\ (B * h + l) \div B = h /\ (B * h + l) % B = l
<1>1. B \in Nat /\ B >= 2 /\ W = B * B /\ h \in 0..(B - 1) /\ l \in 0..(B - 1)
  BY BaseFacts DEF Byte
<1>2. B * h + l \in Nat
  BY <1>1
<1>3. (B * h + l) \div B = h /\ (B * h + l) % B = l
  <2> DEFINE n == B * h + l
  <2>1. n \in Nat /\ n = B * h + l /\ B > 0 /\ h \in Int
    BY <1>1, <1>2
  <2> HIDE DEF n
  <2>2. n \div B = h /\ n % B = l
    BY <2>1, <1>1, DivUnique
  <2> QED  BY <2>2 DEF n
<1>4. B * h + l <= W - 1
  <2>1. h < B
    BY <1>1
  <2>2. B * h + B <= B * B
    BY <2>1, <1>1, MulLess
  <2> QED  BY <2>2, <1>1
<1> QED  BY <1>2, <1>3, <1>4, <1>1

\* What a host stores is what a host of the same byte order reads.
LEMMA HostWordFacts ==
  ASSUME NEW lit \in BOOLEAN
  PROVE  /\ \A n \in 0..(W - 1) : HostBytes(n, lit) \in Byte \X Byte
         /\ \A n \in 0..(W - 1) : HostWord(HostBytes(n, lit), lit) = n
         /\ \A h, l \in Byte : HostWord(<<h, l>>, lit) \in 0..(W - 1)
         /\ \A h, l \in Byte : HostBytes(HostWord(<<h, l>>, lit), lit) = <<h, l>>
<1>0. B \in Nat /\ Byte \subseteq Nat
  BY BaseFacts DEF Byte
<1>1. ASSUME NEW n \in 0..(W - 1)
      PROVE  HostBytes(n, lit) \in Byte \X Byte /\ HostWord(HostBytes(n, lit), lit) = n
  <2>1. n \div B \in Byte /\ n % B \in Byte /\ n = B * (n \div B) + (n % B)
    BY WordBytes
  <2> DEFINE h == n \div B
             l == n % B
  <2>2. h \in Byte /\ l \in Byte /\ n = B * h + l /\ HostBytes(n, lit) = IF lit THEN <<l, h>> ELSE <<h, l>>
    BY <2>1 DEF HostBytes, Hton
  <2> HIDE DEF h, l
  <2>3. h * B + l = n /\ l + B * h = n
    BY <2>2, <1>0
  <2> QED  BY <2>2, <2>3 DEF HostWord, Ntoh
<1>2. ASSUME NEW h \in Byte, NEW l \in Byte
      PROVE  /\ HostWord(<<h, l>>, lit) \in 0..(W - 1)
             /\ HostBytes(HostWord(<<h, l>>, lit), lit) = <<h, l>>
  <2>1. CASE lit
    <3>1. HostWord(<<h, l>>, lit) = B * l + h
      BY <2>1, <1>0 DEF HostWord
    <3> QED  BY <3>1, <2>1, BytesWord DEF HostBytes
  <2>2. CASE ~lit
    <3>1. HostWord(<<h, l>>, lit) = B * h + l
      BY <2>2, <1>0 DEF HostWord, Ntoh
    <3> QED  BY <3>1, <2>2, BytesWord DEF HostBytes, Hton
  <2> QED  BY <2>1, <2>2
<1> QED  BY <1>1, <1>2

\* The complement of exchanged bytes is the exchanged complement, and a host
\* that reads and stores bytes in the other order stores the same ones.
LEMMA SwapFacts ==
  ASSUME NEW x \in 0..(W - 1)
  PROVE  /\ Swap(x) \in 0..(W - 1) /\ (x > 0 => Swap(x) > 0)
         /\ (W - 1) - Swap(x) = Swap((W - 1) - x)
         /\ HostBytes(Swap(x), TRUE) = Hton(x)
         /\ B * x = Swap(x) + (W - 1) * (x \div B)
<1> DEFINE h == x \div B
           l == x % B
           y == (W - 1) - x
<1>0. B \in Nat /\ B >= 2 /\ Byte = 0..(B - 1) /\ W = B * B /\ W \in Nat
  BY BaseFacts DEF Byte
<1>1. h \in Byte /\ l \in Byte /\ x = B * h + l /\ Swap(x) = l * B + h /\ Hton(x) = <<h, l>>
  BY WordBytes DEF Swap, Hton
<1> HIDE DEF h, l
<1>2. l * B + h = B * l + h
  BY <1>0, <1>1
<1>3. B * l + h \in 0..(W - 1) /\ (B * l + h) \div B = l /\ (B * l + h) % B = h
  BY <1>1, BytesWord
<1>4. ASSUME x > 0 PROVE B * l + h > 0
  BY <1>0, <1>1, <1>4
<1>5. HostBytes(Swap(x), TRUE) = Hton(x)
  BY <1>1, <1>2, <1>3 DEF HostBytes
<1>6. Swap(y) = (W - 1) - (B * l + h)
  <2> DEFINE a == B - 1 - h
             b == B - 1 - l
  <2>1. a \in Byte /\ b \in Byte /\ y = B * a + b
    BY <1>0, <1>1
  <2>2. y \div B = a /\ y % B = b
    <3> HIDE DEF a, b, y
    <3> QED  BY <2>1, BytesWord
  <2>3. b * B + a = (W - 1) - (B * l + h)
    BY <1>0, <1>1
  <2> HIDE DEF a, b, y
  <2> QED  BY <2>2, <2>3 DEF Swap
<1>7. B * x = (B * l + h) + (W - 1) * h
  BY <1>0, <1>1
<1> QED  BY <1>1, <1>2, <1>3, <1>4, <1>5, <1>6, <1>7 DEF h

\* Sums of the same bytes in the two byte orders have one's complement sums
\* with exchanged bytes.
LEMMA SwapOnes ==
  ASSUME NEW big \in Nat, NEW lit \in Nat, big > 0, lit > 0, NEW t \in Int,
         B * big = lit + (W - 1) * t
  PROVE  Ones(lit) = Swap(Ones(big))
<1> DEFINE x == Ones(big)
           s == Swap(x)
           h == x \div B
<1>0. B \in Nat /\ W \in Nat /\ W >= 4
  BY BaseFacts
<1>1. x \in 1..(W - 1)
  BY OnesFacts
<1>2. PICK u \in Nat : big = x + (W - 1) * u
  BY OnesFacts
<1>3. x \in 0..(W - 1) /\ x > 0 /\ x \in Nat
  BY <1>0, <1>1
<1>4. s \in 0..(W - 1) /\ s > 0 /\ B * x = s + (W - 1) * h /\ h \in Nat
  <2>1. s \in 0..(W - 1) /\ s > 0 /\ B * x = s + (W - 1) * h
    <3> HIDE DEF x
    <3> QED  BY <1>3, SwapFacts
  <2>2. h \in Byte
    <3> HIDE DEF x
    <3> QED  BY <1>3, WordBytes
  <2> QED  BY <2>1, <2>2, <1>0 DEF Byte
<1> HIDE DEF x, s, h
<1>5. s \in 1..(W - 1)
  BY <1>4, <1>0
<1>6. lit = s + (W - 1) * (h + B * u - t)
  <2>1. B * big = B * x + B * ((W - 1) * u)
    BY <1>0, <1>2, <1>3
  <2>2. B * ((W - 1) * u) = (W - 1) * (B * u)
    BY <1>0
  <2>3. B * u \in Int /\ (W - 1) * (h + B * u - t) = (W - 1) * h + (W - 1) * (B * u) - (W - 1) * t
    BY <1>0, <1>4
  <2> QED  BY <2>1, <2>2, <2>3, <1>0, <1>4
<1>7. h + B * u - t \in Int
  BY <1>0, <1>4
<1>8. Ones(lit) = s
  BY <1>5, <1>6, <1>7, OnesUnique
<1> QED  BY <1>8 DEF s, x

-----------------------------------------------------------------------------
(* Sums *)

\* Induction up to a bound, for a set of numbers.
LEMMA UpTo ==
  ASSUME NEW m \in Nat, NEW S, 0 \in S, \A n \in 1..m : n - 1 \in S => n \in S
  PROVE  \A n \in 0..m : n \in S
<1> DEFINE Bad == {n \in 0..m : n \notin S}
<1> SUFFICES ASSUME Bad # {} PROVE FALSE
  OBVIOUS
<1>1. Bad \subseteq Nat
  OBVIOUS
<1>2. PICK n \in Bad : \A l \in Bad : n <= l
  <2> HIDE DEF Bad
  <2> QED  BY <1>1, LeastNatural
<1>3. n \in 1..m /\ n \notin S
  OBVIOUS
<1>4. n - 1 \in 0..m /\ ~(n <= n - 1)
  BY <1>3
<1>5. n - 1 \in S
  BY <1>2, <1>4
<1> QED  BY <1>3, <1>5

\* f[n] is the sum of the first n numbers of a.
Sums(f, a, m) ==
  /\ a \in [1..m -> Nat] /\ f \in [0..m -> Nat] /\ f[0] = 0
  /\ \A n \in 1..m : f[n] = f[n - 1] + a[n]

\* The partial sums of the loops exist.
LEMMA SumsExist ==
  ASSUME NEW m \in Nat, NEW a \in [1..m -> Nat]
  PROVE  \E f : Sums(f, a, m)
<1> DEFINE Part(f, n) == /\ f \in [0..n -> Nat] /\ f[0] = 0
                         /\ \A i \in 1..n : f[i] = f[i - 1] + a[i]
           S == {n \in 0..m : \E f : Part(f, n)}
<1>1. 0 \in S
  <2>1. Part([i \in 0..0 |-> 0], 0)
    OBVIOUS
  <2> HIDE DEF Part
  <2> QED  BY <2>1
<1>2. ASSUME NEW n \in 1..m, n - 1 \in S PROVE n \in S
  <2>1. PICK f : Part(f, n - 1)
    BY <1>2
  <2>0. n \in Nat /\ n >= 1 /\ n - 1 \in 0..(n - 1) /\ a[n] \in Nat
    OBVIOUS
  <2> DEFINE g == [i \in 0..n |-> IF i = n THEN f[n - 1] + a[n] ELSE f[i]]
  <2>2. /\ f \in [0..(n - 1) -> Nat] /\ f[0] = 0
        /\ \A i \in 1..(n - 1) : f[i] = f[i - 1] + a[i]
    BY <2>1
  <2>3. g \in [0..n -> Nat]
    <3>1. f[n - 1] \in Nat
      BY <2>0, <2>2
    <3>2. \A i \in 0..n : i # n => i \in 0..(n - 1)
      BY <2>0
    <3> QED  BY <3>1, <3>2, <2>0, <2>2
  <2>4. g[0] = 0 /\ g[n] = f[n - 1] + a[n] /\ \A i \in 0..(n - 1) : g[i] = f[i]
    BY <2>0, <2>2
  <2> HIDE DEF g
  <2>5. ASSUME NEW i \in 1..n PROVE g[i] = g[i - 1] + a[i]
    <3>1. CASE i = n
      BY <3>1, <2>0, <2>4
    <3>2. CASE i # n
      <4>1. i \in 1..(n - 1) /\ i \in 0..(n - 1) /\ i - 1 \in 0..(n - 1)
        BY <3>2, <2>0
      <4> QED  BY <4>1, <2>2, <2>4
    <3> QED  BY <3>1, <3>2
  <2>6. Part(g, n)
    BY <2>3, <2>4, <2>5
  <2> HIDE DEF Part
  <2> QED  BY <2>6
<1> HIDE DEF S
<1>4. \A n \in 0..m : n \in S
  BY <1>1, <1>2, UpTo
<1>3. m \in S
  BY <1>4
<1> QED  BY <1>3 DEF S, Sums

\* The other byte order.
LittleEndian == TRUE

LEMMA ByteOrders == BigEndian \in BOOLEAN /\ LittleEndian \in BOOLEAN
BY DEF BigEndian, LittleEndian

\* The words of a sequence of bytes, as a host of the given byte order reads them.
Words(s, lit) == [n \in 1..(Len(s) \div 2) |-> HostWord(<<s[2 * n - 1], s[2 * n]>>, lit)]

LEMMA WordsType ==
  ASSUME NEW s \in Seq(Byte), NEW lit \in BOOLEAN
  PROVE  /\ Len(s) \div 2 \in Nat
         /\ Words(s, lit) \in [1..(Len(s) \div 2) -> 0..(W - 1)]
         /\ Words(s, lit) \in [1..(Len(s) \div 2) -> Nat]
         /\ \A n \in 1..(Len(s) \div 2) : 2 * n - 1 \in 1..Len(s) /\ 2 * n \in 1..Len(s)
                                          /\ s[2 * n - 1] \in Byte /\ s[2 * n] \in Byte
<1> DEFINE m == Len(s) \div 2
<1>1. Len(s) \in Nat /\ m \in Nat /\ 2 * m <= Len(s)
  OBVIOUS
<1> HIDE DEF m
<1>2. \A n \in 1..m : 2 * n - 1 \in 1..Len(s) /\ 2 * n \in 1..Len(s)
  BY <1>1
<1>3. \A n \in 1..m : s[2 * n - 1] \in Byte /\ s[2 * n] \in Byte
  BY <1>2
<1>4. Words(s, lit) \in [1..m -> 0..(W - 1)]
  BY <1>3, HostWordFacts DEF Words, m
<1>5. 0..(W - 1) \subseteq Nat
  BY BaseFacts
<1> QED  BY <1>1, <1>2, <1>3, <1>4, <1>5 DEF m

\* SumWords adds up the words.
LEMMA SumWordsLoop ==
  ASSUME NEW s \in Seq(Byte), NEW lit \in BOOLEAN
  PROVE  \E f : Sums(f, Words(s, lit), Len(s) \div 2) /\ SumWords(s, lit) = f[Len(s) \div 2]
<1> DEFINE m == Len(s) \div 2
           Loop(f) == f = [n \in 0..m |-> IF n = 0 THEN 0
                             ELSE f[n - 1] + HostWord(<<s[2 * n - 1], s[2 * n]>>, lit)]
           p == CHOOSE f : Loop(f)
           a == Words(s, lit)
<1>0. m \in Nat /\ a \in [1..m -> Nat]
  BY WordsType
<1>a. \A n \in 1..m : a[n] = HostWord(<<s[2 * n - 1], s[2 * n]>>, lit)
  BY DEF Words
<1>1. PICK f : Sums(f, a, m)
  BY <1>0, SumsExist
<1>2. SumWords(s, lit) = p[m]
  BY DEF SumWords
<1> HIDE DEF a, m
<1>3. Loop(f)
  <2>1. f \in [0..m -> Nat]
    BY <1>1 DEF Sums
  <2>2. ASSUME NEW n \in 0..m
        PROVE  f[n] = IF n = 0 THEN 0 ELSE f[n - 1] + HostWord(<<s[2 * n - 1], s[2 * n]>>, lit)
    <3>1. CASE n = 0
      BY <3>1, <1>1 DEF Sums
    <3>2. CASE n # 0
      <4>1. n \in 1..m
        BY <3>2, <1>0
      <4> QED  BY <4>1, <3>2, <1>1, <1>a DEF Sums
    <3> QED  BY <3>1, <3>2
  <2> QED  BY <2>1, <2>2
<1>4. Loop(p)
  <2> HIDE DEF Loop
  <2> QED  BY <1>3
<1> HIDE DEF p
<1>5. DOMAIN p = 0..m /\ \A n \in 0..m : p[n] = IF n = 0 THEN 0
                             ELSE p[n - 1] + HostWord(<<s[2 * n - 1], s[2 * n]>>, lit)
  BY <1>4
<1>6. \A n \in 1..m : p[n] = p[n - 1] + a[n]
  <2> SUFFICES ASSUME NEW n \in 1..m PROVE p[n] = p[n - 1] + a[n]
    OBVIOUS
  <2>1. n \in 0..m /\ n # 0
    BY <1>0
  <2> QED  BY <2>1, <1>5, <1>a
<1>7. p[0] = 0
  <2>1. 0 \in 0..m
    BY <1>0
  <2> QED  BY <2>1, <1>5
<1> DEFINE S == {n \in 0..m : p[n] \in Nat}
<1>8. 0 \in S
  BY <1>0, <1>7
<1>9. ASSUME NEW n \in 1..m, n - 1 \in S PROVE n \in S
  BY <1>9, <1>0, <1>6
<1>10. \A n \in 0..m : n \in S
  <2> HIDE DEF S
  <2> QED  BY <1>0, <1>8, <1>9, UpTo
<1>11. p = [n \in 0..m |-> p[n]] /\ \A n \in 0..m : p[n] \in Nat
  <2>1. p = [n \in 0..m |-> p[n]]
    BY <1>4
  <2> QED  BY <2>1, <1>10
<1>12. p \in [0..m -> Nat]
  BY <1>11
<1>13. Sums(p, a, m)
  BY <1>0, <1>6, <1>7, <1>12 DEF Sums
<1> QED  BY <1>2, <1>13 DEF a, m

\* Sums and their terms: n terms of at most d are at most n * d.
LEMMA SumsBounds ==
  ASSUME NEW m \in Nat, NEW d \in Nat, NEW f, NEW a \in [1..m -> 0..d], Sums(f, a, m)
  PROVE  \A n \in 0..m : f[n] \in Nat /\ f[n] <= n * d
<1> DEFINE S == {n \in 0..m : f[n] \in Nat /\ f[n] <= n * d}
<1>1. 0 \in S
  BY DEF Sums
<1>2. ASSUME NEW n \in 1..m, n - 1 \in S PROVE n \in S
  <2>1. f[n] = f[n - 1] + a[n] /\ f[n - 1] \in Nat /\ f[n - 1] <= (n - 1) * d /\ a[n] \in 0..d
    BY <1>2 DEF Sums
  <2>2. (n - 1) * d + d = n * d
    OBVIOUS
  <2>3. (n - 1) * d \in Int /\ n * d \in Int
    OBVIOUS
  <2>4. f[n] \in Nat /\ f[n] <= n * d
    BY <2>1, <2>2, <2>3
  <2> QED  BY <2>4
<1>3. \A n \in 0..m : n \in S
  <2> HIDE DEF S
  <2> QED  BY <1>1, <1>2, UpTo
<1> QED  BY <1>3

\* No loop over the words of a buffer exceeds one word each.
LEMMA SumWordsBound ==
  ASSUME NEW s \in Seq(Byte), NEW lit \in BOOLEAN
  PROVE  SumWords(s, lit) \in Nat /\ SumWords(s, lit) <= (Len(s) \div 2) * (W - 1)
<1>1. PICK f : Sums(f, Words(s, lit), Len(s) \div 2) /\ SumWords(s, lit) = f[Len(s) \div 2]
  BY SumWordsLoop, ByteOrders
<1>2. /\ Len(s) \div 2 \in Nat /\ Words(s, lit) \in [1..(Len(s) \div 2) -> 0..(W - 1)]
      /\ W - 1 \in Nat
  <2>1. Len(s) \div 2 \in Nat /\ Words(s, lit) \in [1..(Len(s) \div 2) -> 0..(W - 1)]
    BY WordsType
  <2>2. W - 1 \in Nat
    BY BaseFacts
  <2> QED  BY <2>1, <2>2
<1> DEFINE m == Len(s) \div 2
<1>3. \A n \in 0..m : f[n] \in Nat /\ f[n] <= n * (W - 1)
  <2> HIDE DEF m
  <2> QED  BY <1>1, <1>2, SumsBounds DEF m
<1>4. m \in 0..m
  BY <1>2
<1> QED  BY <1>1, <1>3, <1>4

\* Sums of the same bytes in the two byte orders differ, but for a factor B,
\* by a multiple of W - 1.
LEMMA SumWordsSwap ==
  ASSUME NEW s \in Seq(Byte)
  PROVE  \E t \in Int : B * SumWords(s, BigEndian) = SumWords(s, LittleEndian) + (W - 1) * t
<1> DEFINE m == Len(s) \div 2
<1>1. PICK f : Sums(f, Words(s, BigEndian), m) /\ SumWords(s, BigEndian) = f[m]
  BY SumWordsLoop, ByteOrders
<1>2. PICK g : Sums(g, Words(s, LittleEndian), m) /\ SumWords(s, LittleEndian) = g[m]
  BY SumWordsLoop, ByteOrders
<1>3. m \in Nat /\ \A n \in 1..m : s[2 * n - 1] \in Byte /\ s[2 * n] \in Byte
  BY WordsType
<1>4. B \in Nat /\ W \in Nat /\ W = B * B /\ Byte \subseteq Nat
  BY BaseFacts DEF Byte
<1> DEFINE S == {n \in 0..m : \E t \in Int : B * f[n] = g[n] + (W - 1) * t}
<1>5. \A n \in 1..m : /\ Words(s, BigEndian)[n] = s[2 * n - 1] * B + s[2 * n]
                      /\ Words(s, LittleEndian)[n] = s[2 * n - 1] + B * s[2 * n]
  BY DEF Words, HostWord, Ntoh, BigEndian, LittleEndian
<1> HIDE DEF m
<1>6. 0 \in S
  <2>1. f[0] = 0 /\ g[0] = 0
    BY <1>1, <1>2 DEF Sums
  <2>2. B * f[0] = g[0] + (W - 1) * 0
    BY <2>1, <1>4
  <2> QED  BY <2>2, <1>3
<1>7. ASSUME NEW n \in 1..m, n - 1 \in S PROVE n \in S
  <2>1. PICK t \in Int : B * f[n - 1] = g[n - 1] + (W - 1) * t
    BY <1>7
  <2> DEFINE h == s[2 * n - 1]
             l == s[2 * n]
  <2>2. h \in Nat /\ l \in Nat
    BY <1>3, <1>4
  <2>3. f[n] = f[n - 1] + (h * B + l) /\ g[n] = g[n - 1] + (h + B * l)
    BY <1>1, <1>2, <1>5 DEF Sums
  <2>4. f[n - 1] \in Nat /\ g[n - 1] \in Nat
    <3>1. n - 1 \in 0..m
      BY <1>3
    <3> QED  BY <3>1, <1>1, <1>2 DEF Sums
  <2> HIDE DEF h, l
  <2> DEFINE u == f[n - 1]
             v == g[n - 1]
  <2>5. u \in Nat /\ v \in Nat /\ B * u = v + (W - 1) * t /\ f[n] = u + (h * B + l) /\ g[n] = v + (h + B * l)
    BY <2>1, <2>3, <2>4
  <2> HIDE DEF u, v
  <2>6. B * (u + (h * B + l)) = B * u + W * h + B * l
    BY <2>2, <2>5, <1>4
  <2>7. (W - 1) * (t + h) = (W - 1) * t + W * h - h
    BY <2>2, <1>4
  <2>8. W * h \in Int /\ B * l \in Int /\ (W - 1) * t \in Int /\ B * u \in Int
    BY <2>2, <2>5, <1>4
  <2>9. B * (u + (h * B + l)) = (v + (h + B * l)) + (W - 1) * (t + h)
    BY <2>2, <2>5, <2>6, <2>7, <2>8
  <2>10. B * f[n] = g[n] + (W - 1) * (t + h) /\ t + h \in Int
    BY <2>2, <2>5, <2>9
  <2> QED  BY <2>10
<1>8. \A n \in 0..m : n \in S
  <2> HIDE DEF S
  <2> QED  BY <1>3, <1>6, <1>7, UpTo
<1>9. m \in 0..m
  BY <1>3
<1> QED  BY <1>1, <1>2, <1>8, <1>9

\* The words of two sequences, the first of them of even length.
LEMMA SumWordsConcat ==
  ASSUME NEW s \in Seq(Byte), NEW t \in Seq(Byte), NEW lit \in BOOLEAN, Len(s) % 2 = 0
  PROVE  SumWords(s \o t, lit) = SumWords(s, lit) + SumWords(t, lit)
<1> DEFINE k == Len(s) \div 2
           m == Len(t) \div 2
           c == s \o t
<1>1. /\ c \in Seq(Byte) /\ Len(c) = Len(s) + Len(t) /\ Len(s) \in Nat /\ Len(t) \in Nat
      /\ \A i \in 1..Len(s) : c[i] = s[i]
      /\ \A i \in 1..Len(t) : c[Len(s) + i] = t[i]
  OBVIOUS
<1> HIDE DEF c
<1>2. k \in Nat /\ m \in Nat /\ Len(s) = 2 * k /\ Len(c) \div 2 = k + m /\ 2 * m <= Len(t)
  <2>1. \A x, y \in Nat : x % 2 = 0 => /\ x \div 2 \in Nat /\ y \div 2 \in Nat
                                      /\ x = 2 * (x \div 2) /\ 2 * (y \div 2) <= y
                                      /\ (x + y) \div 2 = (x \div 2) + (y \div 2)
    OBVIOUS
  <2> QED  BY <2>1, <1>1
<1>3. PICK f : Sums(f, Words(s, lit), k) /\ SumWords(s, lit) = f[k]
  BY SumWordsLoop, ByteOrders
<1>4. PICK g : Sums(g, Words(t, lit), m) /\ SumWords(t, lit) = g[m]
  BY SumWordsLoop, ByteOrders
<1>5. PICK h : Sums(h, Words(c, lit), k + m) /\ SumWords(c, lit) = h[k + m]
  BY <1>1, <1>2, SumWordsLoop
<1> HIDE DEF k, m
<1>6. ASSUME NEW n \in 1..k PROVE Words(c, lit)[n] = Words(s, lit)[n]
  <2>1. n \in 1..(k + m) /\ 2 * n - 1 \in 1..Len(s) /\ 2 * n \in 1..Len(s)
    BY <1>2
  <2> QED  BY <2>1, <1>1, <1>2 DEF Words, k
<1>7. ASSUME NEW n \in 1..m PROVE Words(c, lit)[k + n] = Words(t, lit)[n]
  <2>1. k + n \in 1..(k + m) /\ 2 * n - 1 \in 1..Len(t) /\ 2 * n \in 1..Len(t)
    BY <1>2
  <2>2. 2 * (k + n) - 1 = Len(s) + (2 * n - 1) /\ 2 * (k + n) = Len(s) + 2 * n
    BY <1>2
  <2>3. c[2 * (k + n) - 1] = t[2 * n - 1] /\ c[2 * (k + n)] = t[2 * n]
    BY <2>1, <2>2, <1>1
  <2> QED  BY <2>1, <2>3, <1>2 DEF Words, m
<1> DEFINE S == {n \in 0..k : h[n] = f[n]}
           T == {n \in 0..m : h[k + n] = f[k] + g[n]}
<1>8. \A n \in 0..k : n \in S
  <2>1. 0 \in S
    BY <1>2, <1>3, <1>5 DEF Sums
  <2>2. ASSUME NEW n \in 1..k, n - 1 \in S PROVE n \in S
    <3>1. n \in 1..(k + m)
      BY <1>2
    <3> QED  BY <3>1, <2>2, <1>3, <1>5, <1>6 DEF Sums
  <2> HIDE DEF S
  <2> QED  BY <1>2, <2>1, <2>2, UpTo
<1>9. \A n \in 0..m : n \in T
  <2>1. 0 \in T
    <3>1. k \in 0..k /\ h[k] = f[k] /\ g[0] = 0 /\ f[k] \in Nat
      BY <1>2, <1>3, <1>4, <1>8 DEF Sums
    <3> QED  BY <3>1, <1>2
  <2>2. ASSUME NEW n \in 1..m, n - 1 \in T PROVE n \in T
    <3>1. k + n \in 1..(k + m) /\ (k + n) - 1 = k + (n - 1) /\ n - 1 \in 0..m /\ n \in 0..m /\ k \in 0..k
      BY <1>2
    <3>2. h[k + n] = h[k + (n - 1)] + Words(c, lit)[k + n]
      BY <3>1, <1>5 DEF Sums
    <3>3. g[n] = g[n - 1] + Words(t, lit)[n]
      BY <1>4 DEF Sums
    <3>4. f[k] \in Nat /\ g[n - 1] \in Nat /\ Words(t, lit)[n] \in Nat
      BY <3>1, <1>3, <1>4 DEF Sums
    <3>5. h[k + (n - 1)] = f[k] + g[n - 1]
      BY <2>2
    <3>6. h[k + n] = f[k] + g[n]
      BY <3>2, <3>3, <3>4, <3>5, <1>7
    <3> QED  BY <3>1, <3>6
  <2> HIDE DEF T
  <2> QED  BY <1>2, <2>1, <2>2, UpTo
<1>10. m \in 0..m
  BY <1>2
<1> QED  BY <1>3, <1>4, <1>5, <1>9, <1>10 DEF c

\* The sum of a single word.
LEMMA SumWordsOne ==
  ASSUME NEW s \in Seq(Byte), Len(s) = 2, NEW lit \in BOOLEAN
  PROVE  SumWords(s, lit) = HostWord(s, lit)
<1>0. Len(s) \div 2 = 1
  OBVIOUS
<1>1. PICK f : Sums(f, Words(s, lit), 1) /\ SumWords(s, lit) = f[1]
  BY <1>0, SumWordsLoop
<1>2. f[1] = f[0] + Words(s, lit)[1] /\ f[0] = 0 /\ Words(s, lit)[1] \in Nat
  BY <1>1 DEF Sums
<1>3. Words(s, lit)[1] = HostWord(<<s[1], s[2]>>, lit)
  BY <1>0 DEF Words
<1>4. <<s[1], s[2]>> = s
  OBVIOUS
<1> QED  BY <1>1, <1>2, <1>3, <1>4

\* Arithmetic that the provers need by name.
LEMMA MulNat ==
  ASSUME NEW a \in Nat, NEW b \in Nat
  PROVE  a * b \in Nat
OBVIOUS

LEMMA AddDiff ==
  ASSUME NEW a \in Int, NEW x \in Int, NEW d \in Int
  PROVE  a + (x + d) = a + x + d /\ (x + d) + a = (x + a) + d
OBVIOUS

\* Equal terms have equal sums.
LEMMA SumsSame ==
  ASSUME NEW m \in Nat, NEW a, NEW f, NEW g, Sums(f, a, m), Sums(g, a, m)
  PROVE  f[m] = g[m]
<1> DEFINE S == {n \in 0..m : f[n] = g[n]}
<1>1. 0 \in S
  BY DEF Sums
<1>2. ASSUME NEW n \in 1..m, n - 1 \in S PROVE n \in S
  BY <1>2 DEF Sums
<1>3. \A n \in 0..m : n \in S
  <2> HIDE DEF S
  <2> QED  BY <1>1, <1>2, UpTo
<1>4. m \in 0..m
  OBVIOUS
<1> QED  BY <1>3, <1>4

\* Changing one number changes the sum by as much.
LEMMA SumsChange ==
  ASSUME NEW m \in Nat, NEW a, NEW b, NEW f, NEW g, Sums(f, a, m), Sums(g, b, m),
         NEW k \in 1..m, NEW d \in Int, b[k] = a[k] + d,
         \A n \in 1..m : n # k => b[n] = a[n]
  PROVE  g[m] = f[m] + d
<1> DEFINE S == {n \in 0..m : g[n] = f[n] + (IF n >= k THEN d ELSE 0)}
<1>0. k \in Nat /\ k >= 1
  OBVIOUS
<1>1. 0 \in S
  <2>1. f[0] = 0 /\ g[0] = 0 /\ ~(0 >= k)
    BY <1>0 DEF Sums
  <2> QED  BY <2>1
<1>2. ASSUME NEW n \in 1..m, n - 1 \in S PROVE n \in S
  <2>0. n - 1 \in 0..m /\ n \in 0..m /\ g[n - 1] = f[n - 1] + (IF n - 1 >= k THEN d ELSE 0)
    BY <1>2
  <2>9. /\ f[n - 1] \in Nat /\ g[n - 1] \in Nat /\ a[n] \in Nat /\ b[n] \in Nat
        /\ f[n] = f[n - 1] + a[n] /\ g[n] = g[n - 1] + b[n]
    BY <2>0 DEF Sums
  <2>1. /\ n - 1 \in 0..m /\ n \in 0..m /\ f[n - 1] \in Nat /\ g[n - 1] \in Nat
        /\ a[n] \in Nat /\ b[n] \in Nat
        /\ f[n] = f[n - 1] + a[n] /\ g[n] = g[n - 1] + b[n]
        /\ g[n - 1] = f[n - 1] + (IF n - 1 >= k THEN d ELSE 0)
    BY <2>0, <2>9
  <2>2. CASE n = k
    <3>1. ~(n - 1 >= k) /\ n >= k /\ b[n] = a[n] + d
      BY <2>2, <1>0
    <3> QED  BY <3>1, <2>1
  <2>3. CASE n > k
    <3>1. n - 1 >= k /\ n >= k /\ b[n] = a[n]
      BY <2>3, <1>0
    <3> QED  BY <3>1, <2>1
  <2>4. CASE n < k
    <3>1. ~(n - 1 >= k) /\ ~(n >= k) /\ b[n] = a[n]
      BY <2>4, <1>0
    <3> QED  BY <3>1, <2>1
  <2> QED  BY <2>2, <2>3, <2>4, <1>0
<1>3. \A n \in 0..m : n \in S
  <2> HIDE DEF S
  <2> QED  BY <1>1, <1>2, UpTo
<1>4. m \in 0..m /\ m >= k
  OBVIOUS
<1> QED  BY <1>3, <1>4

\* A byte that is changed changes the sum in network byte order by less than
\* W - 1.
LEMMA OneByteChanged ==
  ASSUME NEW s \in Seq(Byte), NEW t \in Seq(Byte), Len(t) = Len(s), NEW j \in 1..Len(s),
         t[j] # s[j], \A i \in 1..Len(s) : i # j => t[i] = s[i]
  PROVE  \E d \in Int : /\ d # 0 /\ d < W - 1 /\ 0 < d + (W - 1)
                        /\ SumWords(t, BigEndian) + OddByte(t, BigEndian)
                             = SumWords(s, BigEndian) + OddByte(s, BigEndian) + d
<1> DEFINE m == Len(s) \div 2
           e == t[j] - s[j]
<1>0. B \in Nat /\ B >= 2 /\ W = B * B /\ W \in Nat /\ Byte = 0..(B - 1)
  BY BaseFacts DEF Byte
<1>1. Len(s) \in Nat /\ m \in Nat /\ 2 * m <= Len(s) /\ Len(s) <= 2 * m + 1
      /\ (Len(s) % 2 = 0 <=> Len(s) = 2 * m)
  <2>1. \A x \in Nat : /\ x \div 2 \in Nat /\ 2 * (x \div 2) <= x /\ x <= 2 * (x \div 2) + 1
                       /\ (x % 2 = 0 <=> x = 2 * (x \div 2))
    OBVIOUS
  <2> QED  BY <2>1
<1>2. e \in Int /\ e # 0 /\ e < B /\ 0 < e + B /\ s[j] \in Byte /\ t[j] \in Byte
  <2>1. s[j] \in Byte /\ t[j] \in Byte
    OBVIOUS
  <2>2. \A b \in Nat : \A x, y \in 0..(b - 1) : /\ x - y \in Int /\ x - y < b /\ 0 < (x - y) + b
                                               /\ x # y => x - y # 0
    OBVIOUS
  <2>3. s[j] \in 0..(B - 1) /\ t[j] \in 0..(B - 1) /\ t[j] # s[j] /\ B \in Nat
    BY <2>1, <1>0
  <2>4. PICK x \in 0..(B - 1), y \in 0..(B - 1) : x = t[j] /\ y = s[j] /\ x # y
    BY <2>3
  <2>5. x - y \in Int /\ x - y < B /\ 0 < (x - y) + B /\ x - y # 0
    BY <2>2, <2>3, <2>4
  <2>6. e = x - y
    BY <2>4
  <2> QED  BY <2>1, <2>5, <2>6
<1>3. /\ B * e \in Int /\ B * e # 0 /\ B * e < W - 1 /\ 0 < B * e + (W - 1)
      /\ e < W - 1 /\ 0 < e + (W - 1)
  <2> HIDE DEF e
  <2>1. e \in Int /\ e # 0 /\ e < B /\ 0 - B < e /\ B \in Int /\ 0 - B \in Int
    BY <1>2, <1>0
  <2>2. B * e + B <= B * B
    BY <2>1, <1>0, MulLess, Zenon
  <2>3. B * (0 - B) + B <= B * e
    BY <2>1, <1>0, MulLess, Zenon
  <2>4. B * (0 - B) = 0 - W /\ B * B = W /\ B * e \in Int
    BY <2>1, <1>0
  <2>5. B * e # 0
    BY <2>1, <1>0
  <2>6. W >= 2 * B
    BY <1>0
  <2> DEFINE p == B * e
  <2>7. p \in Int /\ p # 0 /\ p + B <= W /\ (0 - W) + B <= p
    BY <2>2, <2>3, <2>4, <2>5
  <2>8. B \in Nat /\ B >= 2 /\ W \in Nat
    BY <1>0
  <2> HIDE DEF p
  <2>9. p < W - 1 /\ 0 < p + (W - 1) /\ e < W - 1 /\ 0 < e + (W - 1)
    BY <2>1, <2>6, <2>7, <2>8
  <2> QED  BY <2>4, <2>5, <2>9 DEF p
<1>4. PICK f : Sums(f, Words(s, BigEndian), m) /\ SumWords(s, BigEndian) = f[m]
  BY SumWordsLoop, ByteOrders
<1>5. PICK g : Sums(g, Words(t, BigEndian), m) /\ SumWords(t, BigEndian) = g[m]
  BY SumWordsLoop, ByteOrders
<1>6. f[m] \in Nat /\ g[m] \in Nat
  <2>1. m \in 0..m
    BY <1>1
  <2> HIDE DEF m
  <2> QED  BY <2>1, <1>4, <1>5 DEF Sums
<1>7. \A n \in 1..m : /\ 2 * n - 1 \in 1..Len(s) /\ 2 * n \in 1..Len(s)
                      /\ Words(s, BigEndian)[n] = s[2 * n - 1] * B + s[2 * n]
                      /\ Words(t, BigEndian)[n] = t[2 * n - 1] * B + t[2 * n]
  BY <1>1 DEF Words, HostWord, Ntoh, BigEndian, LittleEndian
<1>8. DOMAIN Words(s, BigEndian) = 1..m /\ DOMAIN Words(t, BigEndian) = 1..m
  BY DEF Words
<1>9. \A i \in 1..Len(s) : s[i] \in Nat /\ t[i] \in Nat
  <2>1. \A i \in 1..Len(s) : s[i] \in Byte /\ t[i] \in Byte
    OBVIOUS
  <2> QED  BY <2>1, <1>0
<1> HIDE DEF m
<1>10. CASE j > 2 * m
  <2>1. j = Len(s) /\ Len(s) # 2 * m /\ Len(s) % 2 # 0
    BY <1>1, <1>10
  <2>2. OddByte(s, BigEndian) = s[j] * B /\ OddByte(t, BigEndian) = t[j] * B
    <3>1. s[j] * B \in Nat /\ t[j] * B \in Nat
      BY <1>9, <1>0
    <3> QED  BY <2>1, <3>1 DEF OddByte, HostWord, Ntoh, BigEndian
  <2>3. \A n \in 1..m : Words(s, BigEndian)[n] = Words(t, BigEndian)[n]
    <3> SUFFICES ASSUME NEW n \in 1..m PROVE Words(s, BigEndian)[n] = Words(t, BigEndian)[n]
      OBVIOUS
    <3>1. 2 * n - 1 # j /\ 2 * n # j
      BY <1>1, <1>10
    <3> QED  BY <3>1, <1>7
  <2>4. f[m] = g[m]
    <3>1. Words(s, BigEndian) = [n \in 1..m |-> Words(s, BigEndian)[n]] /\ Words(t, BigEndian) = [n \in 1..m |-> Words(t, BigEndian)[n]]
      BY <1>4, <1>5 DEF Sums
    <3>2. Words(s, BigEndian) = Words(t, BigEndian)
      BY <2>3, <3>1
    <3> QED  BY <3>2, <1>1, <1>4, <1>5, SumsSame
  <2>5. t[j] * B = s[j] * B + B * e /\ t[j] * B \in Nat /\ s[j] * B \in Nat
    BY <1>9, <1>0
  <2> HIDE DEF e
  <2>6. SumWords(t, BigEndian) + OddByte(t, BigEndian) = SumWords(s, BigEndian) + OddByte(s, BigEndian) + B * e
    <3>1. s[j] * B \in Int /\ B * e \in Int /\ f[m] \in Int
      BY <2>5, <1>3, <1>6
    <3>2. f[m] + (s[j] * B + B * e) = f[m] + s[j] * B + B * e
      BY <3>1, AddDiff
    <3> QED  BY <3>2, <2>2, <2>4, <2>5, <1>4, <1>5, Zenon
  <2> QED  BY <2>6, <1>3
<1>11. CASE j <= 2 * m
  <2>1. OddByte(s, BigEndian) = OddByte(t, BigEndian) /\ OddByte(s, BigEndian) \in Nat
    <3>1. CASE Len(s) % 2 = 0
      BY <3>1 DEF OddByte
    <3>2. CASE Len(s) % 2 # 0
      <4>1. Len(s) \in 1..Len(s) /\ Len(s) # j
        BY <3>2, <1>1, <1>11
      <4>2. t[Len(s)] = s[Len(s)] /\ s[Len(s)] \in Nat
        BY <4>1, <1>9
      <4>3. s[Len(s)] * B + 0 \in Nat
        BY <4>2, <1>0
      <4> QED  BY <3>2, <4>2, <4>3 DEF OddByte, HostWord, Ntoh, BigEndian
    <3> QED  BY <3>1, <3>2
  <2>2. ASSUME NEW k \in 1..m, NEW d \in Int, d # 0, d < W - 1, 0 < d + (W - 1),
               j \in {2 * k - 1, 2 * k}, Words(t, BigEndian)[k] = Words(s, BigEndian)[k] + d
        PROVE  \E x \in Int : /\ x # 0 /\ x < W - 1 /\ 0 < x + (W - 1)
                              /\ SumWords(t, BigEndian) + OddByte(t, BigEndian)
                                   = SumWords(s, BigEndian) + OddByte(s, BigEndian) + x
    <3>1. \A n \in 1..m : n # k => Words(t, BigEndian)[n] = Words(s, BigEndian)[n]
      <4> SUFFICES ASSUME NEW n \in 1..m, n # k PROVE Words(t, BigEndian)[n] = Words(s, BigEndian)[n]
        OBVIOUS
      <4>1. 2 * n - 1 # j /\ 2 * n # j
        BY <2>2, <1>1
      <4> QED  BY <4>1, <1>7
    <3>4. m \in Nat
      BY <1>1
    <3>2. g[m] = f[m] + d
      BY <3>1, <3>4, <2>2, <1>4, <1>5, SumsChange
    <3>3. SumWords(t, BigEndian) + OddByte(t, BigEndian) = SumWords(s, BigEndian) + OddByte(s, BigEndian) + d
      <4>1. f[m] \in Int /\ OddByte(s, BigEndian) \in Int
        BY <2>1, <3>4, <1>6
      <4>2. (f[m] + d) + OddByte(s, BigEndian) = f[m] + OddByte(s, BigEndian) + d
        BY <4>1, AddDiff
      <4> QED  BY <4>2, <3>2, <2>1, <1>4, <1>5, Zenon
    <3> QED  BY <3>3, <2>2
  <2>3. PICK k \in 1..m : j = 2 * k - 1 \/ j = 2 * k
    <3> DEFINE k == (j + 1) \div 2
    <3>1. j \in Nat /\ j >= 1 /\ j <= 2 * m
      BY <1>11
    <3>2. k \in 1..m /\ (j = 2 * k - 1 \/ j = 2 * k)
      BY <3>1, <1>1
    <3> QED  BY <3>2
  <2>4. /\ 2 * k - 1 \in 1..Len(s) /\ 2 * k \in 1..Len(s)
        /\ Words(s, BigEndian)[k] = s[2 * k - 1] * B + s[2 * k]
        /\ Words(t, BigEndian)[k] = t[2 * k - 1] * B + t[2 * k]
    BY <1>7
  <2>5. CASE j = 2 * k - 1
    <3>1. t[2 * k] = s[2 * k] /\ t[2 * k] \in Nat
      BY <2>4, <2>5, <1>9
    <3>2. t[j] * B = s[j] * B + B * e /\ t[j] * B \in Nat /\ s[j] * B \in Nat
      <4>1. \A x, y, b \in Nat : x * b = y * b + b * (x - y) /\ x * b \in Nat /\ y * b \in Nat
        OBVIOUS
      <4>2. t[j] \in Nat /\ s[j] \in Nat /\ B \in Nat
        BY <1>9, <1>0
      <4> QED  BY <4>1, <4>2
    <3>3. Words(t, BigEndian)[k] = Words(s, BigEndian)[k] + B * e
      <4> HIDE DEF e
      <4>1. s[j] * B \in Int /\ B * e \in Int /\ s[2 * k] \in Int
        BY <3>1, <3>2, <1>3
      <4>2. (s[j] * B + B * e) + s[2 * k] = (s[j] * B + s[2 * k]) + B * e
        BY <4>1, AddDiff
      <4> QED  BY <4>2, <2>4, <2>5, <3>1, <3>2, Zenon
    <3> HIDE DEF e
    <3> QED  BY <3>3, <2>2, <2>5, <1>3
  <2>6. CASE j = 2 * k
    <3>1. t[2 * k - 1] = s[2 * k - 1] /\ t[2 * k - 1] \in Nat
      BY <2>4, <2>6, <1>9
    <3>2. t[2 * k - 1] * B \in Nat
      BY <3>1, <1>0, MulNat
    <3>3. Words(t, BigEndian)[k] = Words(s, BigEndian)[k] + e
      <4>1. t[j] = s[j] + e /\ s[j] \in Int
        BY <1>9
      <4> HIDE DEF e
      <4>2. t[2 * k - 1] * B \in Int /\ e \in Int
        BY <3>2, <1>2
      <4>3. t[2 * k - 1] * B + (s[j] + e) = t[2 * k - 1] * B + s[j] + e
        BY <4>1, <4>2, AddDiff
      <4> QED  BY <4>1, <4>3, <2>4, <2>6, <3>1, Zenon
    <3> HIDE DEF e
    <3> QED  BY <3>3, <2>2, <2>6, <1>2, <1>3
  <2> QED  BY <2>3, <2>5, <2>6
<1>12. j > 2 * m \/ j <= 2 * m
  BY <1>1
<1> QED  BY <1>10, <1>11, <1>12

-----------------------------------------------------------------------------
(* Checksums *)

Packet == {p \in Seq(Byte) : HDR_LEN <= Len(p) /\ Len(p) <= MAX_IP_PAYLOAD_LEN}

\* The header is in the packet, th_sum in the header, the length in a word.
LEMMA PacketFacts ==
  ASSUME NEW p \in Packet
  PROVE  /\ p \in Seq(Byte) /\ Len(p) \in Nat /\ Len(p) \in 0..(W - 1) /\ Len(p) <= MAX_IP_PAYLOAD_LEN
         /\ SUM_AT \in Nat /\ SUM_AT + 1 \in 1..Len(p) /\ SUM_AT + 2 \in 1..Len(p)
         /\ DOMAIN p = 1..Len(p)
<1>1. p \in Seq(Byte) /\ HDR_LEN <= Len(p) /\ Len(p) <= MAX_IP_PAYLOAD_LEN
  BY DEF Packet
<1>2. Len(p) \in Nat /\ DOMAIN p = 1..Len(p)
  BY <1>1
<1>3. HDR_LEN \in Nat /\ SUM_AT \in Nat /\ MAX_IP_PAYLOAD_LEN \in Nat /\ SUM_AT + 2 <= HDR_LEN
      /\ MAX_IP_PAYLOAD_LEN < W
  BY SegmentAssumption
<1>4. W \in Nat
  BY BaseFacts
<1> QED  BY <1>1, <1>2, <1>3, <1>4

LEMMA PairFacts ==
  ASSUME NEW a \in Byte \X Byte
  PROVE  a \in Seq(Byte) /\ Len(a) = 2 /\ a = <<a[1], a[2]>> /\ a[1] \in Byte /\ a[2] \in Byte
<1>1. PICK x \in Byte, y \in Byte : a = <<x, y>>
  OBVIOUS
<1>2. <<x, y>> \in Seq(Byte) /\ Len(<<x, y>>) = 2 /\ <<x, y>>[1] = x /\ <<x, y>>[2] = y
  OBVIOUS
<1> QED  BY <1>1, <1>2

LEMMA HtonType ==
  ASSUME NEW n \in 0..(W - 1)
  PROVE  Hton(n) \in Byte \X Byte
BY WordBytes DEF Hton

\* The words of the pseudo header: two addresses, protocol and length.
PseudoWords(src, dst, len, lit) ==
  HostWord(src, lit) + HostWord(dst, lit) + HostWord(<<0, IPPROTO_TCP>>, lit) + HostWord(Hton(len), lit)

\* They are what the sum over the pseudo header has.
LEMMA PseudoSum ==
  ASSUME NEW src \in Byte \X Byte, NEW dst \in Byte \X Byte, NEW len \in 0..(W - 1), NEW lit \in BOOLEAN
  PROVE  /\ PseudoHeader(src, dst, len) \in Seq(Byte) /\ Len(PseudoHeader(src, dst, len)) = 8
         /\ SumWords(PseudoHeader(src, dst, len), lit) = PseudoWords(src, dst, len, lit)
<1> DEFINE a == src \o dst
           p == <<0, IPPROTO_TCP>>
           b == a \o p
           h == Hton(len)
           c == b \o h
<1>1. src \in Seq(Byte) /\ Len(src) = 2 /\ dst \in Seq(Byte) /\ Len(dst) = 2
  BY PairFacts
<1>2. p \in Seq(Byte) /\ Len(p) = 2
  <2>1. 0 \in Byte /\ IPPROTO_TCP \in Byte
    BY SegmentAssumption, BaseAssumption DEF Byte
  <2> QED  BY <2>1
<1>3. h \in Seq(Byte) /\ Len(h) = 2
  BY HtonType, PairFacts
<1> HIDE DEF p, h
<1>4. a \in Seq(Byte) /\ Len(a) = 4
  <2>1. a \in Seq(Byte) /\ Len(a) = Len(src) + Len(dst)
    BY <1>1, ConcatProperties
  <2> QED  BY <1>1, <2>1
<1> HIDE DEF a
<1>5. b \in Seq(Byte) /\ Len(b) = 6
  <2>1. b \in Seq(Byte) /\ Len(b) = Len(a) + Len(p)
    BY <1>2, <1>4, ConcatProperties
  <2> QED  BY <1>2, <1>4, <2>1
<1> HIDE DEF b
<1>6. c \in Seq(Byte) /\ Len(c) = 8
  <2>1. c \in Seq(Byte) /\ Len(c) = Len(b) + Len(h)
    BY <1>3, <1>5, ConcatProperties
  <2> QED  BY <1>3, <1>5, <2>1
<1>7. c = PseudoHeader(src, dst, len)
  BY DEF c, b, a, p, h, PseudoHeader
<1> HIDE DEF c
<1>8. Len(src) % 2 = 0 /\ Len(a) % 2 = 0 /\ Len(b) % 2 = 0
  BY <1>1, <1>4, <1>5
<1>9. SumWords(a, lit) = HostWord(src, lit) + HostWord(dst, lit)
  BY <1>1, <1>8, SumWordsConcat, SumWordsOne DEF a
<1>10. SumWords(b, lit) = HostWord(src, lit) + HostWord(dst, lit) + HostWord(p, lit)
  BY <1>2, <1>4, <1>8, <1>9, SumWordsConcat, SumWordsOne DEF b
<1>11. SumWords(c, lit) = HostWord(src, lit) + HostWord(dst, lit) + HostWord(p, lit) + HostWord(h, lit)
  BY <1>3, <1>5, <1>8, <1>10, SumWordsConcat, SumWordsOne DEF c
<1> QED  BY <1>6, <1>7, <1>11 DEF p, h, PseudoWords

\* Blank changes th_sum and nothing else; a last odd byte is never in it.
LEMMA BlankFacts ==
  ASSUME NEW p \in Packet
  PROVE  /\ Blank(p) \in Packet /\ Len(Blank(p)) = Len(p)
         /\ Blank(p)[SUM_AT + 1] = 0 /\ Blank(p)[SUM_AT + 2] = 0
         /\ \A i \in 1..Len(p) : i \notin {SUM_AT + 1, SUM_AT + 2} => Blank(p)[i] = p[i]
         /\ \A lit \in BOOLEAN : OddByte(Blank(p), lit) = OddByte(p, lit)
<1>1. /\ p \in Seq(Byte) /\ Len(p) \in Nat /\ DOMAIN p = 1..Len(p)
      /\ SUM_AT \in Nat /\ SUM_AT + 1 \in 1..Len(p) /\ SUM_AT + 2 \in 1..Len(p)
  BY PacketFacts
<1>0. 0 \in Byte
  BY BaseAssumption DEF Byte
<1> DEFINE q == [p EXCEPT ![SUM_AT + 1] = 0]
           r == [q EXCEPT ![SUM_AT + 2] = 0]
<1>2. q \in Seq(Byte) /\ Len(q) = Len(p) /\ q[SUM_AT + 1] = 0
      /\ \A i \in 1..Len(p) : i # SUM_AT + 1 => q[i] = p[i]
  BY <1>0, <1>1
<1> HIDE DEF q
<1>3. r \in Seq(Byte) /\ Len(r) = Len(p) /\ r[SUM_AT + 2] = 0
      /\ \A i \in 1..Len(p) : i # SUM_AT + 2 => r[i] = q[i]
  BY <1>0, <1>1, <1>2
<1>4. Blank(p) = r
  BY DEF Blank, r, q
<1> HIDE DEF r
<1>5. r[SUM_AT + 1] = 0
  BY <1>1, <1>2, <1>3
<1>6. r \in Packet
  BY <1>3 DEF Packet
<1>7. \A i \in 1..Len(p) : i \notin {SUM_AT + 1, SUM_AT + 2} => r[i] = p[i]
  BY <1>2, <1>3
<1>8. ASSUME NEW lit \in BOOLEAN PROVE OddByte(r, lit) = OddByte(p, lit)
  <2>1. CASE Len(p) % 2 = 0
    BY <2>1, <1>3 DEF OddByte
  <2>2. CASE Len(p) % 2 # 0
    <3>1. SUM_AT % 2 = 0
      BY SegmentAssumption
    <3>2. Len(p) \in 1..Len(p) /\ Len(p) \notin {SUM_AT + 1, SUM_AT + 2}
      <4>4. \A x, y \in Nat : x % 2 = 0 /\ y % 2 # 0 /\ x + 2 \in 1..y => y # x + 2 /\ y # x + 1
        OBVIOUS
      <4>1. Len(p) # SUM_AT + 2 /\ Len(p) # SUM_AT + 1
        BY <2>2, <3>1, <1>1, <4>4
      <4>3. Len(p) \in 1..Len(p)
        BY <1>1
      <4> QED  BY <4>1, <4>3
    <3>3. r[Len(p)] = p[Len(p)]
      BY <3>2, <1>7
    <3> QED  BY <3>3, <1>3 DEF OddByte
  <2> QED  BY <2>1, <2>2
<1> QED  BY <1>3, <1>4, <1>5, <1>6, <1>7, <1>8

\* What _mysock_tcp_checksum has added up before it folds.
Total(src, dst, p, lit) ==
  SumWords(PseudoHeader(src, dst, Len(p)), lit) + SumWords(Blank(p), lit) + OddByte(p, lit)

\* The odd byte is one more word.
LEMMA OddByteFacts ==
  ASSUME NEW s \in Seq(Byte), Len(s) > 0, NEW lit \in BOOLEAN
  PROVE  /\ OddByte(s, lit) \in Nat
         /\ OddByte(s, lit) <= (Len(s) % 2) * (W - 1)
<1>1. Len(s) \in Nat
  OBVIOUS
<1>2. CASE Len(s) % 2 = 0
  <2>1. OddByte(s, lit) = 0
    BY <1>2 DEF OddByte
  <2>2. (Len(s) % 2) * (W - 1) = 0
    BY <1>2, BaseFacts
  <2> QED  BY <2>1, <2>2
<1>3. CASE Len(s) % 2 # 0
  <2>1. s[Len(s)] \in Byte /\ 0 \in Byte
    BY BaseAssumption, <1>1 DEF Byte
  <2>2. OddByte(s, lit) = HostWord(<<s[Len(s)], 0>>, lit)
    BY <1>3 DEF OddByte
  <2>3. OddByte(s, lit) \in 0..(W - 1)
    BY <2>1, <2>2, HostWordFacts
  <2>4. Len(s) % 2 = 1
    BY <1>1, <1>3
  <2>5. (Len(s) % 2) * (W - 1) = W - 1 /\ W \in Nat
    BY <2>4, BaseFacts
  <2> QED  BY <2>3, <2>5
<1> QED  BY <1>2, <1>3

\* The sum is positive and has at most two words, the int it is kept in does
\* not overflow, and the byte order matters for the place of its bytes only.
LEMMA TotalFacts ==
  ASSUME NEW src \in Byte \X Byte, NEW dst \in Byte \X Byte, NEW p \in Packet
  PROVE  /\ \A lit \in BOOLEAN : /\ Total(src, dst, p, lit) \in Nat
                                 /\ Total(src, dst, p, lit) > 0
                                 /\ Total(src, dst, p, lit) < (W * W) \div 2
                                 /\ Total(src, dst, p, lit) < W * W
         /\ \E t \in Int : B * Total(src, dst, p, BigEndian) = Total(src, dst, p, LittleEndian) + (W - 1) * t
<1> DEFINE len == Len(p)
           ps == PseudoHeader(src, dst, len)
           bl == Blank(p)
<1>0. /\ p \in Seq(Byte) /\ len \in Nat /\ len \in 0..(W - 1) /\ len <= MAX_IP_PAYLOAD_LEN /\ len > 0
      /\ SUM_AT \in Nat
  BY PacketFacts
<1>1. bl \in Seq(Byte) /\ Len(bl) = len
  BY BlankFacts DEF Packet
<1>2. \A lit \in BOOLEAN :
        /\ ps \in Seq(Byte) /\ Len(ps) = 8
        /\ SumWords(ps, lit) = PseudoWords(src, dst, len, lit)
  BY <1>0, PseudoSum
<1>3. B \in Nat /\ B >= 2 /\ W \in Nat /\ W >= 4 /\ W = B * B
  BY BaseFacts
<1> HIDE DEF ps, bl
<1>4. ASSUME NEW lit \in BOOLEAN
      PROVE  /\ Total(src, dst, p, lit) \in Nat /\ Total(src, dst, p, lit) > 0
             /\ Total(src, dst, p, lit) < (W * W) \div 2
             /\ Total(src, dst, p, lit) < W * W
  <2> DEFINE x == SumWords(ps, lit)
             y == SumWords(bl, lit)
             z == OddByte(p, lit)
             m == len \div 2
             r == len % 2
             d == W - 1
  <2>1. x \in Nat /\ x <= 4 * d
    <3>1. 8 \div 2 = 4
      OBVIOUS
    <3> QED  BY <3>1, <1>2, SumWordsBound
  <2>2. y \in Nat /\ y <= m * d
    BY <1>1, SumWordsBound
  <2>3. z \in Nat /\ z <= r * d
    BY <1>0, OddByteFacts
  <2>4. x > 0
    <3>1. IPPROTO_TCP \in Byte /\ 0 \in Byte /\ IPPROTO_TCP \in Nat /\ IPPROTO_TCP > 0
      BY SegmentAssumption, BaseAssumption DEF Byte
    <3>2. HostWord(src, lit) \in 0..d /\ HostWord(dst, lit) \in 0..d /\ HostWord(Hton(len), lit) \in 0..d
      BY <1>0, PairFacts, HtonType, HostWordFacts
    <3>3. HostWord(<<0, IPPROTO_TCP>>, lit) \in Nat /\ HostWord(<<0, IPPROTO_TCP>>, lit) > 0
      <4>1. IPPROTO_TCP * B \in Nat /\ B * IPPROTO_TCP > 0
        BY <3>1, <1>3
      <4>2. HostWord(<<0, IPPROTO_TCP>>, lit) \in {0 + B * IPPROTO_TCP, 0 * B + IPPROTO_TCP}
        BY DEF HostWord, Ntoh
      <4> QED  BY <4>1, <4>2, <3>1, <1>3
    <3>4. d \in Nat
      BY <1>3
    <3>5. x = HostWord(src, lit) + HostWord(dst, lit) + HostWord(<<0, IPPROTO_TCP>>, lit) + HostWord(Hton(len), lit)
      BY <1>2 DEF PseudoWords
    <3> DEFINE a1 == HostWord(src, lit)
               a2 == HostWord(dst, lit)
               a3 == HostWord(<<0, IPPROTO_TCP>>, lit)
               a4 == HostWord(Hton(len), lit)
    <3> HIDE DEF d, a1, a2, a3, a4, x
    <3>6. x = a1 + a2 + a3 + a4 /\ a1 \in 0..d /\ a2 \in 0..d /\ a3 \in Nat /\ a3 > 0 /\ a4 \in 0..d
      BY <3>2, <3>3, <3>5 DEF a1, a2, a3, a4
    <3> QED  BY <3>4, <3>6
  <2>5. m \in Nat /\ r \in Nat /\ 4 + m + r <= (PSEUDO_LEN + MAX_IP_PAYLOAD_LEN + 1) \div 2
    <3>1. MAX_IP_PAYLOAD_LEN \in Nat /\ PSEUDO_LEN = 8
      BY SegmentAssumption DEF PSEUDO_LEN
    <3>2. \A a, b \in Nat : a <= b => /\ a \div 2 \in Nat /\ a % 2 \in Nat
                                      /\ 4 + (a \div 2) + (a % 2) <= (8 + b + 1) \div 2
      OBVIOUS
    <3> QED  BY <3>1, <3>2, <1>0
  <2> DEFINE e == (PSEUDO_LEN + MAX_IP_PAYLOAD_LEN + 1) \div 2
  <2>6. e * d < (W * W) \div 2 /\ e \in Nat /\ d \in Nat
    <3>1. MAX_IP_PAYLOAD_LEN \in Nat /\ PSEUDO_LEN = 8
      BY SegmentAssumption DEF PSEUDO_LEN
    <3>2. e \in Nat
      BY <3>1
    <3> QED  BY <3>2, <1>3, SegmentAssumption
  <2>7. Total(src, dst, p, lit) = x + y + z
    BY DEF Total, ps, bl
  <2>8. W * W \in Nat /\ (W * W) \div 2 <= W * W /\ (W * W) \div 2 \in Nat
    <3>1. \A a \in Nat : a \div 2 <= a /\ a \div 2 \in Nat
      OBVIOUS
    <3> QED  BY <3>1, <1>3, MulNat
  <2> DEFINE h == (W * W) \div 2
             ww == W * W
  <2> HIDE DEF x, y, z, m, r, e, d, h, ww
  <2>9. 4 * d + m * d + r * d = (4 + m + r) * d
    BY <2>5, <2>6
  <2>10. (4 + m + r) * d <= e * d
    <3>1. 4 + m + r \in Nat /\ 4 + m + r <= e
      BY <2>5 DEF e
    <3>2. \A a, b, c \in Nat : a <= b => a * c <= b * c
      OBVIOUS
    <3> QED  BY <3>1, <3>2, <2>6
  <2>11. m * d \in Nat /\ r * d \in Nat /\ e * d \in Nat /\ (4 + m + r) * d \in Nat
    <3>1. 4 + m + r \in Nat
      BY <2>5
    <3> QED  BY <3>1, <2>5, <2>6, MulNat
  <2>12. x + y + z <= e * d
    BY <2>1, <2>2, <2>3, <2>6, <2>9, <2>10, <2>11
  <2>13. x + y + z \in Nat /\ x + y + z > 0 /\ x + y + z < h /\ x + y + z < ww
    <3>1. h \in Nat /\ ww \in Nat /\ h <= ww /\ e * d < h
      BY <2>6, <2>8 DEF h, ww
    <3> QED  BY <3>1, <2>1, <2>2, <2>3, <2>4, <2>11, <2>12
  <2> QED  BY <2>7, <2>13 DEF h, ww
<1>5. \E t \in Int : B * Total(src, dst, p, BigEndian) = Total(src, dst, p, LittleEndian) + (W - 1) * t
  <2>1. PICK t \in Int : B * SumWords(ps, BigEndian) = SumWords(ps, LittleEndian) + (W - 1) * t
    BY <1>2, SumWordsSwap
  <2>2. PICK u \in Int : B * SumWords(bl, BigEndian) = SumWords(bl, LittleEndian) + (W - 1) * u
    BY <1>1, SumWordsSwap
  <2>3. PICK v \in Int : B * OddByte(p, BigEndian) = OddByte(p, LittleEndian) + (W - 1) * v
    <3>1. CASE len % 2 = 0
      <4>1. OddByte(p, BigEndian) = 0 /\ OddByte(p, LittleEndian) = 0
        BY <3>1 DEF OddByte
      <4>2. B * 0 = 0 + (W - 1) * 0 /\ 0 \in Int
        BY <1>3
      <4> QED  BY <4>1, <4>2
    <3>2. CASE len % 2 # 0
      <4> DEFINE l == p[len]
      <4>1. l \in Byte
        BY <1>0
      <4>2. l \in Nat
        BY <4>1, <1>3 DEF Byte
      <4>3. OddByte(p, BigEndian) = l * B + 0 /\ OddByte(p, LittleEndian) = l + B * 0
        BY <3>2 DEF OddByte, HostWord, Ntoh, BigEndian, LittleEndian
      <4> HIDE DEF l
      <4>4. B * (l * B + 0) = (l + B * 0) + (W - 1) * l /\ l \in Int
        BY <4>2, <1>3
      <4> QED  BY <4>3, <4>4
    <3> QED  BY <3>1, <3>2
  <2> DEFINE x == SumWords(ps, BigEndian)
             y == SumWords(bl, BigEndian)
             z == OddByte(p, BigEndian)
             x1 == SumWords(ps, LittleEndian)
             y1 == SumWords(bl, LittleEndian)
             z1 == OddByte(p, LittleEndian)
  <2>4. x \in Nat /\ y \in Nat /\ z \in Nat /\ x1 \in Nat /\ y1 \in Nat /\ z1 \in Nat
    BY <1>0, <1>1, <1>2, ByteOrders, SumWordsBound, OddByteFacts
  <2>5. Total(src, dst, p, BigEndian) = x + y + z /\ Total(src, dst, p, LittleEndian) = x1 + y1 + z1
    BY DEF Total, ps, bl
  <2>6. B * x = x1 + (W - 1) * t /\ B * y = y1 + (W - 1) * u /\ B * z = z1 + (W - 1) * v
    BY <2>1, <2>2, <2>3
  <2> HIDE DEF x, y, z, x1, y1, z1
  <2>7. B * (x + y + z) = B * x + B * y + B * z
    BY <2>4, <1>3
  <2>8. (W - 1) * (t + u + v) = (W - 1) * t + (W - 1) * u + (W - 1) * v
    BY <1>3
  <2>9. (W - 1) * t \in Int /\ (W - 1) * u \in Int /\ (W - 1) * v \in Int
    BY <1>3
  <2>10. B * (x + y + z) = (x1 + y1 + z1) + (W - 1) * (t + u + v) /\ t + u + v \in Int
    BY <2>4, <2>6, <2>7, <2>8, <2>9
  <2> QED  BY <2>5, <2>10
<1> QED  BY <1>4, <1>5

\* The number that belongs into th_sum, in network byte order.
NetSum(src, dst, p) == (W - 1) - Ones(Total(src, dst, p, BigEndian))

\* Different numbers have different bytes.
LEMMA HtonInjective ==
  ASSUME NEW m \in 0..(W - 1), NEW n \in 0..(W - 1), Hton(m) = Hton(n)
  PROVE  m = n
<1>1. m = B * (m \div B) + (m % B) /\ n = B * (n \div B) + (n % B)
  BY WordBytes
<1>2. m \div B = n \div B /\ m % B = n % B
  BY DEF Hton
<1> QED  BY <1>1, <1>2

\* The sum is never 0 and its complement fits th_sum.
LEMMA NetSumType ==
  ASSUME NEW src \in Byte \X Byte, NEW dst \in Byte \X Byte, NEW p \in Packet
  PROVE  /\ Ones(Total(src, dst, p, BigEndian)) \in 1..(W - 1)
         /\ NetSum(src, dst, p) \in 0..(W - 1)
<1> DEFINE x == Ones(Total(src, dst, p, BigEndian))
<1>1. x \in 1..(W - 1)
  BY TotalFacts, ByteOrders, OnesFacts
<1>2. W \in Nat
  BY BaseFacts
<1>3. NetSum(src, dst, p) = (W - 1) - x
  BY DEF NetSum
<1> HIDE DEF x
<1>4. NetSum(src, dst, p) \in 0..(W - 1)
  BY <1>1, <1>2, <1>3
<1> QED  BY <1>1, <1>4 DEF x

\* A host of either byte order stores the same two bytes.
LEMMA ChecksumBytes ==
  ASSUME NEW src \in Byte \X Byte, NEW dst \in Byte \X Byte, NEW p \in Packet, NEW lit \in BOOLEAN
  PROVE  /\ TcpChecksum(src, dst, p, lit) \in 0..(W - 1)
         /\ HostBytes(TcpChecksum(src, dst, p, lit), lit) = Hton(NetSum(src, dst, p))
<1> DEFINE big == Total(src, dst, p, BigEndian)
           own == Total(src, dst, p, lit)
           c == TcpChecksum(src, dst, p, lit)
           x == Ones(big)
<1>0. W \in Nat
  BY BaseFacts
<1>1. own \in Nat /\ own > 0 /\ own < W * W
  BY TotalFacts
<1>2. c = (W - 1) - Ones(own)
  <2>1. c = (W - 1) - Fold(own)
    BY DEF TcpChecksum, Total
  <2> HIDE DEF own, c
  <2> QED  BY <2>1, <1>1, FoldIsOnes
<1>3. Ones(own) \in 1..(W - 1)
  <2> HIDE DEF own
  <2> QED  BY <1>1, OnesFacts
<1>4. c \in 0..(W - 1)
  <2> DEFINE y == Ones(own)
  <2> HIDE DEF y, c
  <2>1. c = (W - 1) - y /\ y \in 1..(W - 1)
    BY <1>2, <1>3 DEF y
  <2> QED  BY <2>1, <1>0
<1>5. CASE lit = BigEndian
  <2>1. c = NetSum(src, dst, p)
    BY <1>2, <1>5 DEF NetSum
  <2>2. HostBytes(c, lit) = Hton(c)
    BY <1>5 DEF HostBytes, BigEndian
  <2> QED  BY <2>1, <2>2, <1>4
<1>6. CASE lit = LittleEndian
  <2>1. Ones(own) = Swap(x)
    <3>1. big \in Nat /\ big > 0
      BY TotalFacts, ByteOrders
    <3>2. PICK t \in Int : B * big = own + (W - 1) * t
      BY <1>6, TotalFacts
    <3> HIDE DEF big, own
    <3> QED  BY <3>1, <3>2, <1>1, SwapOnes
  <2>2. x \in 1..(W - 1)
    BY NetSumType
  <2> HIDE DEF x, c, own, big
  <2>3. x \in 0..(W - 1) /\ (W - 1) - x \in 0..(W - 1)
    BY <2>2, <1>0
  <2>4. c = Swap((W - 1) - x)
    BY <2>1, <2>3, <1>2, SwapFacts
  <2>5. HostBytes(c, lit) = Hton((W - 1) - x)
    <3>1. HostBytes(Swap((W - 1) - x), TRUE) = Hton((W - 1) - x)
      BY <2>3, SwapFacts
    <3> QED  BY <3>1, <2>4, <1>6 DEF LittleEndian
  <2>6. (W - 1) - x = NetSum(src, dst, p)
    BY DEF x, big, NetSum
  <2> QED  BY <2>5, <2>6, <1>4 DEF c
<1>7. lit = BigEndian \/ lit = LittleEndian
  BY DEF BigEndian, LittleEndian
<1> QED  BY <1>5, <1>6, <1>7

\* Whatever its byte order, a host accepts a segment if and only if the two
\* bytes of th_sum are those of the sum in network byte order.
LEMMA VerifyExact ==
  ASSUME NEW src \in Byte \X Byte, NEW dst \in Byte \X Byte, NEW p \in Packet, NEW lit \in BOOLEAN
  PROVE  TcpChecksum(src, dst, p, lit) = HostWord(StoredSum(p), lit)
           <=> StoredSum(p) = Hton(NetSum(src, dst, p))
<1> DEFINE c == TcpChecksum(src, dst, p, lit)
           h == p[SUM_AT + 1]
           l == p[SUM_AT + 2]
<1>1. c \in 0..(W - 1) /\ HostBytes(c, lit) = Hton(NetSum(src, dst, p))
  BY ChecksumBytes
<1>2. StoredSum(p) = <<h, l>> /\ h \in Byte /\ l \in Byte
  BY PacketFacts DEF StoredSum
<1> HIDE DEF c, h, l
<1>3. HostWord(HostBytes(c, lit), lit) = c /\ HostBytes(HostWord(<<h, l>>, lit), lit) = <<h, l>>
  BY <1>1, <1>2, HostWordFacts
<1>4. ASSUME c = HostWord(StoredSum(p), lit) PROVE StoredSum(p) = Hton(NetSum(src, dst, p))
  BY <1>1, <1>2, <1>3, <1>4
<1>5. ASSUME StoredSum(p) = Hton(NetSum(src, dst, p)) PROVE c = HostWord(StoredSum(p), lit)
  BY <1>1, <1>2, <1>3, <1>5
<1> QED  BY <1>4, <1>5 DEF c

\* The sum does not depend on th_sum.
LEMMA TotalSame ==
  ASSUME NEW src \in Byte \X Byte, NEW dst \in Byte \X Byte, NEW p \in Packet, NEW q \in Packet,
         Len(p) = Len(q),
         \A i \in 1..Len(p) : i \notin {SUM_AT + 1, SUM_AT + 2} => p[i] = q[i]
  PROVE  /\ Blank(p) = Blank(q)
         /\ \A lit \in BOOLEAN : Total(src, dst, p, lit) = Total(src, dst, q, lit)
<1>1. /\ Blank(p) \in Packet /\ Len(Blank(p)) = Len(p)
      /\ Blank(p)[SUM_AT + 1] = 0 /\ Blank(p)[SUM_AT + 2] = 0
      /\ \A i \in 1..Len(p) : i \notin {SUM_AT + 1, SUM_AT + 2} => Blank(p)[i] = p[i]
      /\ \A lit \in BOOLEAN : OddByte(Blank(p), lit) = OddByte(p, lit)
  BY BlankFacts
<1>2. /\ Blank(q) \in Packet /\ Len(Blank(q)) = Len(q)
      /\ Blank(q)[SUM_AT + 1] = 0 /\ Blank(q)[SUM_AT + 2] = 0
      /\ \A i \in 1..Len(q) : i \notin {SUM_AT + 1, SUM_AT + 2} => Blank(q)[i] = q[i]
      /\ \A lit \in BOOLEAN : OddByte(Blank(q), lit) = OddByte(q, lit)
  BY BlankFacts
<1> DEFINE a == Blank(p)
           b == Blank(q)
<1> HIDE DEF a, b
<1>3. a \in Seq(Byte) /\ b \in Seq(Byte) /\ Len(a) = Len(b) /\ Len(a) = Len(p)
  BY <1>1, <1>2 DEF Packet, a, b
<1>4. \A i \in 1..Len(p) : a[i] = b[i]
  BY <1>1, <1>2 DEF a, b
<1>5. a = b
  BY <1>3, <1>4, SeqEqual
<1>6. Blank(p) = Blank(q)
  BY <1>5 DEF a, b
<1>7. ASSUME NEW lit \in BOOLEAN PROVE Total(src, dst, p, lit) = Total(src, dst, q, lit)
  BY <1>1, <1>2, <1>6 DEF Total
<1> QED  BY <1>6, <1>7

\* A host that talks to itself may exchange the addresses.
LEMMA TotalExchanged ==
  ASSUME NEW src \in Byte \X Byte, NEW dst \in Byte \X Byte, NEW p \in Packet
  PROVE  NetSum(src, dst, p) = NetSum(dst, src, p)
<1> DEFINE a == HostWord(src, BigEndian)
           b == HostWord(dst, BigEndian)
           c == HostWord(<<0, IPPROTO_TCP>>, BigEndian)
           d == HostWord(Hton(Len(p)), BigEndian)
<1>1. Len(p) \in 0..(W - 1)
  BY PacketFacts
<1>2. /\ SumWords(PseudoHeader(src, dst, Len(p)), BigEndian) = a + b + c + d
      /\ SumWords(PseudoHeader(dst, src, Len(p)), BigEndian) = b + a + c + d
  <2>1. /\ SumWords(PseudoHeader(src, dst, Len(p)), BigEndian) = PseudoWords(src, dst, Len(p), BigEndian)
        /\ SumWords(PseudoHeader(dst, src, Len(p)), BigEndian) = PseudoWords(dst, src, Len(p), BigEndian)
    BY <1>1, ByteOrders, PseudoSum
  <2>2. /\ PseudoWords(src, dst, Len(p), BigEndian) = a + b + c + d
        /\ PseudoWords(dst, src, Len(p), BigEndian) = b + a + c + d
    BY Zenon DEF PseudoWords
  <2> QED  BY <2>1, <2>2, Zenon
<1>3. a \in 0..(W - 1) /\ b \in 0..(W - 1)
  BY PairFacts, HostWordFacts, ByteOrders
<1>4. a + b = b + a
  <2> HIDE DEF a, b
  <2>1. W \in Nat
    BY BaseFacts
  <2> QED  BY <2>1, <1>3
<1>5. Total(src, dst, p, BigEndian) = Total(dst, src, p, BigEndian)
  <2> HIDE DEF a, b, c, d
  <2> QED  BY <1>2, <1>4, Zenon DEF Total
<1> QED  BY <1>5, Zenon DEF NetSum

\* A segment with one wrong byte is never accepted.
LEMMA DamageFound ==
  ASSUME NEW src \in Byte \X Byte, NEW dst \in Byte \X Byte, NEW p \in Packet, NEW q \in Packet,
         Len(q) = Len(p), NEW j \in 1..Len(p), q[j] # p[j],
         \A i \in 1..Len(p) : i # j => q[i] = p[i],
         StoredSum(p) = Hton(NetSum(src, dst, p))
  PROVE  StoredSum(q) # Hton(NetSum(src, dst, q))
<1>0. SUM_AT \in Nat /\ SUM_AT + 1 \in 1..Len(p) /\ SUM_AT + 2 \in 1..Len(p) /\ SUM_AT + 1 # SUM_AT + 2
  BY PacketFacts
<1>1. CASE j \in {SUM_AT + 1, SUM_AT + 2}
  <2>1. Total(src, dst, q, BigEndian) = Total(src, dst, p, BigEndian)
    BY <1>1, ByteOrders, TotalSame
  <2>2. NetSum(src, dst, q) = NetSum(src, dst, p)
    BY <2>1, Zenon DEF NetSum
  <2>3. StoredSum(q) # StoredSum(p)
    BY <1>1 DEF StoredSum
  <2> QED  BY <2>2, <2>3
<1>2. CASE j \notin {SUM_AT + 1, SUM_AT + 2}
  <2>1. StoredSum(q) = StoredSum(p)
    BY <1>0, <1>2 DEF StoredSum
  <2> DEFINE a == Blank(p)
             b == Blank(q)
             tp == Total(src, dst, p, BigEndian)
             tq == Total(src, dst, q, BigEndian)
  <2>2. /\ a \in Seq(Byte) /\ Len(a) = Len(p) /\ a[SUM_AT + 1] = 0 /\ a[SUM_AT + 2] = 0
        /\ \A i \in 1..Len(p) : i \notin {SUM_AT + 1, SUM_AT + 2} => a[i] = p[i]
        /\ OddByte(a, BigEndian) = OddByte(p, BigEndian)
    BY BlankFacts, ByteOrders DEF Packet
  <2>3. /\ b \in Seq(Byte) /\ Len(b) = Len(q) /\ b[SUM_AT + 1] = 0 /\ b[SUM_AT + 2] = 0
        /\ \A i \in 1..Len(q) : i \notin {SUM_AT + 1, SUM_AT + 2} => b[i] = q[i]
        /\ OddByte(b, BigEndian) = OddByte(q, BigEndian)
    BY BlankFacts, ByteOrders DEF Packet
  <2> DEFINE x == SumWords(PseudoHeader(src, dst, Len(p)), BigEndian)
             y == SumWords(a, BigEndian) + OddByte(a, BigEndian)
             z == SumWords(b, BigEndian) + OddByte(b, BigEndian)
  <2>4. x \in Nat /\ SumWords(a, BigEndian) \in Nat /\ SumWords(b, BigEndian) \in Nat
        /\ OddByte(a, BigEndian) \in Nat /\ OddByte(b, BigEndian) \in Nat
    <3>1. Len(p) \in 0..(W - 1) /\ Len(p) > 0
      BY PacketFacts
    <3>2. PseudoHeader(src, dst, Len(p)) \in Seq(Byte)
      BY <3>1, PseudoSum, ByteOrders
    <3> HIDE DEF a, b
    <3> QED  BY <3>1, <3>2, <2>2, <2>3, ByteOrders, SumWordsBound, OddByteFacts
  <2>5. \E d \in Int : d # 0 /\ d < W - 1 /\ 0 < d + (W - 1) /\ z = y + d
    <3> HIDE DEF a, b
    <3>1. \A i \in 1..Len(a) : i # j => b[i] = a[i]
      BY <2>2, <2>3
    <3>2. j \in 1..Len(a) /\ b[j] # a[j] /\ Len(b) = Len(a)
      BY <1>2, <2>2, <2>3
    <3> QED  BY <3>1, <3>2, <2>2, <2>3, OneByteChanged
  <2>6. PICK d \in Int : d # 0 /\ d < W - 1 /\ 0 < d + (W - 1) /\ z = y + d
    BY <2>5
  <2>7. tp = x + y /\ tq = x + z
    <3>1. \A s1, s2, s3 \in Nat : s1 + s2 + s3 = s1 + (s2 + s3)
      OBVIOUS
    <3>2. tp = x + SumWords(a, BigEndian) + OddByte(a, BigEndian)
      BY <2>2 DEF Total
    <3>3. tq = x + SumWords(b, BigEndian) + OddByte(b, BigEndian)
      BY <2>3 DEF Total
    <3> HIDE DEF a, b, x, tp, tq
    <3> QED  BY <3>1, <3>2, <3>3, <2>4
  <2>8. tp \in Nat /\ tp > 0 /\ tq \in Nat /\ tq > 0
    BY TotalFacts, ByteOrders
  <2>9. x \in Nat /\ y \in Nat
    <3> HIDE DEF a, x
    <3> QED  BY <2>4
  <2> HIDE DEF a, b, x, y, z, tp, tq
  <2>10. tq = tp + d
    BY <2>6, <2>7, <2>9
  <2>11. Ones(tq) # Ones(tp)
    <3> SUFFICES ASSUME Ones(tq) = Ones(tp) PROVE FALSE
      OBVIOUS
    <3> DEFINE o == Ones(tp)
    <3>1. o \in 1..(W - 1)
      BY <2>8, OnesFacts
    <3>2. PICK t \in Nat : tp = o + (W - 1) * t
      BY <2>8, OnesFacts
    <3>3. PICK u \in Nat : tq = o + (W - 1) * u
      BY <2>8, OnesFacts
    <3> HIDE DEF o
    <3> DEFINE w == W - 1
    <3>4. w \in Nat /\ o \in Int /\ d < w /\ 0 < d + w
      BY <3>1, <2>6, BaseFacts
    <3>5. w * u = w * t + d
      <4>1. w * u \in Int /\ w * t \in Int
        BY <3>4
      <4>2. o + w * u = o + w * t + d
        BY <3>2, <3>3, <2>10
      <4> HIDE DEF w
      <4> QED  BY <4>1, <4>2, <3>4
    <3> HIDE DEF w
    <3>6. ~(t < u)
      <4> SUFFICES ASSUME t < u PROVE FALSE
        OBVIOUS
      <4>1. w * t + w <= w * u /\ w * t \in Int
        BY <3>4, MulLess
      <4> QED  BY <4>1, <3>4, <3>5
    <3>7. ~(u < t)
      <4> SUFFICES ASSUME u < t PROVE FALSE
        OBVIOUS
      <4>1. w * u + w <= w * t /\ w * t \in Int
        BY <3>4, MulLess
      <4> QED  BY <4>1, <3>4, <3>5
    <3>8. t = u
      BY <3>6, <3>7
    <3>9. w * t \in Int
      BY <3>4
    <3> QED  BY <3>5, <3>8, <3>9, <2>6
  <2>12. NetSum(src, dst, q) # NetSum(src, dst, p)
    <3> DEFINE o == Ones(tp)
               r == Ones(tq)
    <3>1. o \in 1..(W - 1) /\ r \in 1..(W - 1) /\ r # o
      BY <2>8, <2>11, OnesFacts
    <3>2. NetSum(src, dst, q) = (W - 1) - r /\ NetSum(src, dst, p) = (W - 1) - o
      BY DEF NetSum, tp, tq
    <3> HIDE DEF o, r
    <3>3. W \in Nat
      BY BaseFacts
    <3> QED  BY <3>1, <3>2, <3>3
  <2> QED  BY <2>1, <2>12, NetSumType, HtonInjective
<1> QED  BY <1>1, <1>2

-----------------------------------------------------------------------------
(* The stream *)

\* s is the piece of a stream that begins behind the first a bytes.
Piece(s, str, a) ==
  /\ s \in Seq(Byte) /\ a + Len(s) <= Len(str)
  /\ \A i \in 1..Len(s) : s[i] = str[a + i]

\* How pieces are found, joined and cut.
LEMMA PieceEmpty ==
  ASSUME NEW str \in Seq(Byte), NEW a \in 0..Len(str)
  PROVE  Piece(<<>>, str, a)
<1>1. <<>> \in Seq(Byte) /\ Len(<<>>) = 0 /\ Len(str) \in Nat
  OBVIOUS
<1> QED  BY <1>1 DEF Piece

LEMMA PieceEqual ==
  ASSUME NEW str, NEW a \in Nat, NEW s, NEW t, Piece(s, str, a), Piece(t, str, a), Len(s) = Len(t)
  PROVE  s = t
<1>1. s \in Seq(Byte) /\ t \in Seq(Byte) /\ \A i \in 1..Len(s) : s[i] = t[i]
  BY DEF Piece
<1> QED  BY <1>1, SeqEqual

LEMMA PieceConcat ==
  ASSUME NEW str \in Seq(Byte), NEW a \in Nat, NEW s, NEW t,
         Piece(s, str, a), Piece(t, str, a + Len(s))
  PROVE  Piece(s \o t, str, a) /\ Len(s \o t) = Len(s) + Len(t)
<1> DEFINE c == s \o t
           m == Len(s)
           n == Len(t)
<1>1. s \in Seq(Byte) /\ t \in Seq(Byte) /\ m \in Nat /\ n \in Nat /\ Len(str) \in Nat
  BY DEF Piece
<1>2. c \in Seq(Byte) /\ Len(c) = m + n
      /\ \A i \in 1..(m + n) : c[i] = IF i <= m THEN s[i] ELSE t[i - m]
  BY <1>1, ConcatProperties
<1>3. a + m + n <= Len(str) /\ \A i \in 1..m : s[i] = str[a + i]
  BY DEF Piece
<1>4. \A i \in 1..n : t[i] = str[a + m + i]
  BY DEF Piece
<1> HIDE DEF c, m, n
<1>5. ASSUME NEW i \in 1..(m + n) PROVE c[i] = str[a + i]
  <2>1. CASE i <= m
    BY <2>1, <1>1, <1>2, <1>3
  <2>2. CASE ~(i <= m)
    <3>1. i - m \in 1..n /\ a + m + (i - m) = a + i
      BY <2>2, <1>1
    <3>2. t[i - m] = str[a + m + (i - m)]
      BY <3>1, <1>4
    <3> QED  BY <3>1, <3>2, <2>2, <1>2
  <2> QED  BY <2>1, <2>2
<1>6. Piece(c, str, a)
  BY <1>1, <1>2, <1>3, <1>5 DEF Piece
<1> QED  BY <1>2, <1>6 DEF c, m, n

LEMMA PieceCut ==
  ASSUME NEW str \in Seq(Byte), NEW a \in Nat, NEW s, Piece(s, str, a), NEW n \in 1..Len(s)
  PROVE  /\ Piece(SubSeq(s, 1, n), str, a) /\ Len(SubSeq(s, 1, n)) = n
         /\ Piece(SubSeq(s, n + 1, Len(s)), str, a + n) /\ Len(SubSeq(s, n + 1, Len(s))) = Len(s) - n
<1> DEFINE m == Len(s)
           u == SubSeq(s, 1, n)
           v == SubSeq(s, n + 1, m)
<1>1. s \in Seq(Byte) /\ m \in Nat /\ Len(str) \in Nat /\ n \in Nat /\ n <= m
  BY DEF Piece
<1>2. a + m <= Len(str) /\ \A i \in 1..m : s[i] = str[a + i]
  BY DEF Piece
<1>3. u \in Seq(Byte) /\ Len(u) = n /\ \A i \in 1..n : u[i] = s[i]
  BY <1>1
<1>4. v \in Seq(Byte) /\ Len(v) = m - n /\ \A i \in 1..(m - n) : v[i] = s[n + i]
  BY <1>1
<1> HIDE DEF m, u, v
<1>5. Piece(u, str, a)
  <2>1. a + Len(u) <= Len(str)
    BY <1>1, <1>2, <1>3
  <2>2. \A i \in 1..Len(u) : i \in 1..m /\ i \in 1..n
    BY <1>1, <1>3
  <2>3. \A i \in 1..Len(u) : u[i] = str[a + i]
    BY <2>2, <1>2, <1>3
  <2> QED  BY <2>1, <2>3, <1>3 DEF Piece
<1>6. Piece(v, str, a + n)
  <2>1. a + n + Len(v) <= Len(str)
    BY <1>1, <1>2, <1>4
  <2>2. ASSUME NEW i \in 1..Len(v) PROVE v[i] = str[a + n + i]
    <3>1. n + i \in 1..m /\ a + (n + i) = a + n + i /\ i \in 1..(m - n)
      BY <1>1, <1>4
    <3>2. s[n + i] = str[a + (n + i)]
      BY <3>1, <1>2
    <3> QED  BY <3>1, <3>2, <1>4
  <2> QED  BY <2>1, <2>2, <1>4 DEF Piece
<1> QED  BY <1>3, <1>4, <1>5, <1>6 DEF m, u, v

\* A stream that grows keeps its pieces.
LEMMA PieceLonger ==
  ASSUME NEW str \in Seq(Byte), NEW x \in Seq(Byte), NEW a \in Nat, NEW s, Piece(s, str, a)
  PROVE  Piece(s, str \o x, a)
<1> DEFINE c == str \o x
<1>1. s \in Seq(Byte) /\ Len(s) \in Nat /\ Len(str) \in Nat /\ Len(x) \in Nat
      /\ a + Len(s) <= Len(str) /\ \A i \in 1..Len(s) : s[i] = str[a + i]
  BY DEF Piece
<1>2. Len(c) = Len(str) + Len(x) /\ \A i \in 1..Len(str) : c[i] = str[i]
  OBVIOUS
<1> HIDE DEF c
<1>3. ASSUME NEW i \in 1..Len(s) PROVE s[i] = c[a + i]
  <2>1. a + i \in 1..Len(str)
    BY <1>1
  <2> QED  BY <2>1, <1>1, <1>2
<1>4. a + Len(s) <= Len(c)
  BY <1>1, <1>2
<1>5. Piece(s, c, a)
  BY <1>1, <1>3, <1>4 DEF Piece
<1> QED  BY <1>5 DEF c

LEMMA PieceAppended ==
  ASSUME NEW str \in Seq(Byte), NEW x \in Seq(Byte)
  PROVE  Piece(x, str \o x, Len(str))
<1> DEFINE c == str \o x
<1>1. Len(str) \in Nat /\ Len(x) \in Nat /\ Len(c) = Len(str) + Len(x)
      /\ \A i \in 1..Len(x) : c[Len(str) + i] = x[i]
  OBVIOUS
<1> HIDE DEF c
<1>2. Piece(x, c, Len(str))
  BY <1>1 DEF Piece
<1> QED  BY <1>2 DEF c

\* A byte that changes behind a piece leaves the piece alone.
LEMMA PieceBefore ==
  ASSUME NEW str \in Seq(Byte), NEW pos \in 1..Len(str), NEW byte \in Byte, NEW a \in Nat, NEW s,
         Piece(s, str, a), a + Len(s) < pos
  PROVE  Piece(s, [str EXCEPT ![pos] = byte], a)
<1> DEFINE c == [str EXCEPT ![pos] = byte]
<1>1. s \in Seq(Byte) /\ Len(s) \in Nat /\ Len(str) \in Nat
      /\ a + Len(s) <= Len(str) /\ \A i \in 1..Len(s) : s[i] = str[a + i]
  BY DEF Piece
<1>2. Len(c) = Len(str) /\ \A i \in 1..Len(str) : i # pos => c[i] = str[i]
  OBVIOUS
<1> HIDE DEF c
<1>3. ASSUME NEW i \in 1..Len(s) PROVE s[i] = c[a + i]
  <2>1. a + i \in 1..Len(str) /\ a + i # pos
    BY <1>1
  <2> QED  BY <2>1, <1>1, <1>2
<1>4. Piece(s, c, a)
  BY <1>1, <1>2, <1>3 DEF Piece
<1> QED  BY <1>4 DEF c

\* A piece that the byte lies in changes in the same place.
LEMMA PieceAround ==
  ASSUME NEW str \in Seq(Byte), NEW a \in Nat, NEW s, Piece(s, str, a),
         NEW j \in 1..Len(s), NEW byte \in Byte
  PROVE  Piece([s EXCEPT ![j] = byte], [str EXCEPT ![a + j] = byte], a)
<1> DEFINE c == [str EXCEPT ![a + j] = byte]
           t == [s EXCEPT ![j] = byte]
<1>1. s \in Seq(Byte) /\ Len(s) \in Nat /\ Len(str) \in Nat
      /\ a + Len(s) <= Len(str) /\ \A i \in 1..Len(s) : s[i] = str[a + i]
  BY DEF Piece
<1>2. a + j \in 1..Len(str)
  BY <1>1
<1>3. Len(c) = Len(str) /\ c[a + j] = byte /\ \A i \in 1..Len(str) : i # a + j => c[i] = str[i]
  BY <1>2
<1>4. t \in Seq(Byte) /\ Len(t) = Len(s) /\ t[j] = byte /\ \A i \in 1..Len(s) : i # j => t[i] = s[i]
  BY <1>1
<1> HIDE DEF c, t
<1>5. ASSUME NEW i \in 1..Len(t) PROVE t[i] = c[a + i]
  <2>1. CASE i = j
    BY <2>1, <1>3, <1>4
  <2>2. CASE i # j
    <3>1. a + i \in 1..Len(str) /\ a + i # a + j /\ i \in 1..Len(s)
      BY <2>2, <1>1, <1>4
    <3> QED  BY <3>1, <2>2, <1>1, <1>3, <1>4
  <2> QED  BY <2>1, <2>2
<1>6. Piece(t, c, a)
  BY <1>1, <1>3, <1>4, <1>5 DEF Piece
<1> QED  BY <1>6 DEF c, t

-----------------------------------------------------------------------------
(* Sending *)

\* A packet whose th_sum is the sum in network byte order.
Summed(p) == p \in Packet /\ StoredSum(p) = Hton(NetSum(host.nameS, host.wireR, p))

\* The addresses are words.
LEMMA HostFacts ==
  ASSUME host \in Hosts
  PROVE  /\ host.nameS \in Byte \X Byte /\ host.wireS \in Byte \X Byte
         /\ host.nameR \in Byte \X Byte /\ host.wireR \in Byte \X Byte
<1>1. host \in [{"nameS", "wireS", "nameR", "wireR"} -> Addrs]
  BY SegmentAssumption
<1>2. Addrs \subseteq Byte \X Byte
  BY DEF Addrs
<1> QED  BY <1>1, <1>2

\* _mysock_set_checksum stores the sum in network byte order.
LEMMA SetChecksumFacts ==
  ASSUME host \in Hosts, little.S \in BOOLEAN, NEW x \in Packet
  PROVE  Summed(SetChecksum(x))
<1> DEFINE src == host.nameS
           dst == host.wireR
           n == NetSum(src, dst, x)
           s == HostBytes(TcpChecksum(src, dst, x, little.S), little.S)
           q == [x EXCEPT ![SUM_AT + 1] = s[1]]
           r == [q EXCEPT ![SUM_AT + 2] = s[2]]
<1>1. src \in Byte \X Byte /\ dst \in Byte \X Byte
  BY HostFacts
<1>2. s = Hton(n) /\ n \in 0..(W - 1)
  BY <1>1, ChecksumBytes, NetSumType
<1>3. Hton(n) \in Byte \X Byte
  <2> HIDE DEF n
  <2> QED  BY <1>2, HtonType
<1>4. s = <<s[1], s[2]>> /\ s[1] \in Byte /\ s[2] \in Byte
  <2> HIDE DEF s, n
  <2> QED  BY <1>2, <1>3, PairFacts
<1>5. SetChecksum(x) = r
  BY DEF SetChecksum
<1>6. /\ x \in Seq(Byte) /\ Len(x) \in Nat /\ DOMAIN x = 1..Len(x)
      /\ SUM_AT \in Nat /\ SUM_AT + 1 \in 1..Len(x) /\ SUM_AT + 2 \in 1..Len(x)
  BY PacketFacts
<1> HIDE DEF s
<1>7. q \in Seq(Byte) /\ Len(q) = Len(x) /\ q[SUM_AT + 1] = s[1]
      /\ \A i \in 1..Len(x) : i # SUM_AT + 1 => q[i] = x[i]
  BY <1>4, <1>6
<1> HIDE DEF q
<1>8. r \in Seq(Byte) /\ Len(r) = Len(x) /\ r[SUM_AT + 2] = s[2]
      /\ \A i \in 1..Len(x) : i # SUM_AT + 2 => r[i] = q[i]
  BY <1>4, <1>6, <1>7
<1> HIDE DEF r
<1>9. r[SUM_AT + 1] = s[1]
  <2>1. SUM_AT + 1 # SUM_AT + 2
    BY <1>6
  <2> QED  BY <2>1, <1>6, <1>7, <1>8
<1>10. r \in Packet
  BY <1>8 DEF Packet
<1>11. StoredSum(r) = s
  BY <1>4, <1>8, <1>9 DEF StoredSum
<1>12. \A i \in 1..Len(r) : i \notin {SUM_AT + 1, SUM_AT + 2} => r[i] = x[i]
  BY <1>7, <1>8
<1>13. Total(src, dst, r, BigEndian) = Total(src, dst, x, BigEndian)
  <2> HIDE DEF src, dst
  <2> QED  BY <1>1, <1>8, <1>10, <1>12, ByteOrders, TotalSame
<1>14. NetSum(src, dst, r) = n
  BY <1>13, Zenon DEF NetSum
<1>15. StoredSum(r) = Hton(NetSum(src, dst, r))
  <2> HIDE DEF n, src, dst
  <2> QED  BY <1>2, <1>11, <1>14
<1> QED  BY <1>5, <1>10, <1>15 DEF Summed

\* What stcp_network_send hands to _network_send_packet.
LEMMA PacketSent ==
  ASSUME host \in Hosts, little.S \in BOOLEAN, NEW h \in Headers, NEW p \in Payloads
  PROVE  Summed(SetChecksum(Blank(h \o p)))
<1>1. h \in Seq(Byte) /\ p \in Seq(Byte) /\ Len(h) = HDR_LEN /\ Len(h) + Len(p) <= MAX_IP_PAYLOAD_LEN
      /\ HDR_LEN \in Nat
  BY SegmentAssumption
<1>2. h \o p \in Seq(Byte) /\ Len(h \o p) = Len(h) + Len(p) /\ Len(p) \in Nat
  BY <1>1
<1>3. h \o p \in Packet
  BY <1>1, <1>2 DEF Packet
<1>4. Blank(h \o p) \in Packet
  BY <1>3, BlankFacts
<1> QED  BY <1>4, SetChecksumFacts

-----------------------------------------------------------------------------
(* The inductive invariant *)

\* What may arrive for segment i: the segment itself, or it with one wrong byte.
Arrives(i, q) ==
  /\ q \in Seq(Byte) /\ Len(q) = Len(sent[i])
  /\ i \notin damaged => q = sent[i]
  /\ i \in damaged => \E j \in 1..Len(q) : /\ q[j] # sent[i][j]
                                           /\ \A m \in 1..Len(q) : m # j => q[m] = sent[i][m]

\* off[i] bytes of the stream are before the length of segment i.
Layout(off) ==
  /\ off \in [1..(Len(sent) + 1) -> Nat] /\ off[1] = 0
  /\ \A i \in 1..Len(sent) : off[i + 1] = off[i] + 2 + Len(sent[i])
  /\ \A i, j \in 1..(Len(sent) + 1) : i <= j => off[i] <= off[j]

\* The stream: for each segment its length and its bytes.
Frames(off, str) ==
  /\ str \in Seq(Byte) /\ Len(str) = off[Len(sent) + 1]
  /\ \A i \in 1..Len(sent) :
       /\ Piece(Hton(Len(sent[i])), str, off[i])
       /\ \E q : Piece(q, str, off[i] + 2) /\ Arrives(i, q)

\* The call of _tcp_io(read) begins rd bytes into the stream.
Reading(off, rd) ==
  /\ rd \in Nat /\ part \in {"length", "segment", "ended"}
  /\ part = "length" => rd = off[Len(received) + 1] /\ need = 2
  /\ part = "segment" => /\ Len(received) < Len(sent)
                         /\ rd = off[Len(received) + 1] + 2
                         /\ need = Len(sent[Len(received) + 1])

\* What is read, in the connection and still to be written is, in this order,
\* the stream from there on; only a broken connection loses the end of it.
InOrder(str, rd) ==
  part # "ended" =>
    /\ Len(got) < need
    /\ Piece(got, str, rd) /\ Piece(net, str, rd + Len(got))
    /\ state # "broken" => /\ Piece(out, str, rd + Len(got) + Len(net))
                           /\ rd + Len(got) + Len(net) + Len(out) = Len(str)

\* The two ends of the connection.
Ends ==
  /\ host \in Hosts /\ little.S \in BOOLEAN /\ little.R \in BOOLEAN
  /\ sent \in Seq(Packet) /\ \A i \in 1..Len(sent) : Summed(sent[i])
  /\ damaged \subseteq 1..Len(sent)
  /\ state \in {"open", "closed", "broken"}
  /\ out # <<>> => state = "open" /\ Len(sent) > 0
  /\ part = "ended" => state # "open"
  /\ state = "closed" /\ part = "ended" => Len(received) = Len(sent)

Arrived ==
  /\ received \in Seq(Seq(Byte)) /\ Len(received) <= Len(sent)
  /\ \A i \in 1..Len(received) : Arrives(i, received[i])

StreamInv ==
  Ends /\ Arrived /\ \E off, str, rd : Layout(off) /\ Frames(off, str) /\ Reading(off, rd) /\ InOrder(str, rd)

\* The two bytes of the length, and that they say it.
LEMMA HtonSeq ==
  ASSUME NEW p \in Packet
  PROVE  /\ Hton(Len(p)) \in Seq(Byte) /\ Len(Hton(Len(p))) = 2
         /\ Ntoh(Hton(Len(p))) = Len(p) /\ Len(p) > 1 /\ Len(p) \in Nat /\ p \in Seq(Byte)
         /\ Len(p) <= MAX_IP_PAYLOAD_LEN
<1>1. Len(p) \in 0..(W - 1) /\ Len(p) \in Nat /\ SUM_AT \in Nat /\ SUM_AT + 2 \in 1..Len(p) /\ p \in Seq(Byte)
      /\ Len(p) <= MAX_IP_PAYLOAD_LEN
  BY PacketFacts
<1>2. Hton(Len(p)) \in Byte \X Byte
  BY <1>1, HtonType
<1>3. Hton(Len(p)) \in Seq(Byte) /\ Len(Hton(Len(p))) = 2
  BY <1>2, PairFacts
<1>4. Ntoh(Hton(Len(p))) = Len(p)
  <2> DEFINE n == Len(p)
  <2>1. n = B * (n \div B) + (n % B) /\ n \div B \in Byte /\ n % B \in Byte
    BY <1>1, WordBytes
  <2>2. B \in Nat /\ Byte \subseteq Nat
    BY BaseFacts DEF Byte
  <2>3. (n \div B) * B = B * (n \div B)
    <3>1. \A x, y \in Nat : x * y = y * x
      OBVIOUS
    <3> QED  BY <2>1, <2>2, <3>1
  <2>4. Ntoh(Hton(n)) = (n \div B) * B + (n % B)
    BY DEF Ntoh, Hton
  <2> QED  BY <2>1, <2>3, <2>4
<1> QED  BY <1>1, <1>3, <1>4

\* Nothing is sent: the stream is empty.
LEMMA InitStream == Init => StreamInv
<1> SUFFICES ASSUME Init PROVE StreamInv
  OBVIOUS
<1> DEFINE off == [i \in 1..1 |-> 0]
           str == <<>>
<1>1. sent = <<>> /\ Len(sent) = 0 /\ received = <<>> /\ Len(received) = 0 /\ part = "length" /\ need = 2
      /\ got = <<>> /\ net = <<>> /\ out = <<>> /\ state = "open" /\ damaged = {}
  BY DEF Init
<1>2. Ends
  <2>1. host \in Hosts /\ little.S \in BOOLEAN /\ little.R \in BOOLEAN
    BY DEF Init
  <2> QED  BY <1>1, <2>1 DEF Ends
<1>3. Arrived
  BY <1>1 DEF Arrived
<1>4. Layout(off)
  BY <1>1 DEF Layout
<1>5. str \in Seq(Byte) /\ Len(str) = 0 /\ off[1] = 0
  OBVIOUS
<1> HIDE DEF off, str
<1>6. Frames(off, str)
  BY <1>1, <1>5 DEF Frames
<1>7. Reading(off, 0)
  BY <1>1, <1>5 DEF Reading
<1>8. Piece(<<>>, str, 0)
  <2>1. 0 \in 0..Len(str)
    BY <1>5
  <2> QED  BY <2>1, <1>5, PieceEmpty
<1>9. InOrder(str, 0)
  <2>1. Len(<<>>) = 0 /\ 0 + 0 = 0
    OBVIOUS
  <2> QED  BY <1>1, <1>5, <1>8, <2>1 DEF InOrder
<1> QED  BY <1>2, <1>3, <1>4, <1>6, <1>7, <1>9 DEF StreamInv

-----------------------------------------------------------------------------
(* The steps *)

\* A step that leaves the segments and their stream alone.
LEMMA StreamKept ==
  ASSUME UNCHANGED <<sent, damaged>>, NEW off, NEW str
  PROVE  /\ Layout(off) => Layout(off)'
         /\ Frames(off, str) => Frames(off, str)'
         /\ \A i, q : Arrives(i, q) <=> Arrives(i, q)'
BY DEF Layout, Frames, Arrives

LEMMA EndsKept ==
  ASSUME Ends, UNCHANGED <<host, little, sent, damaged>>
  PROVE  /\ (host \in Hosts /\ little.S \in BOOLEAN /\ little.R \in BOOLEAN)'
         /\ (sent \in Seq(Packet) /\ \A i \in 1..Len(sent) : Summed(sent[i]))'
         /\ (damaged \subseteq 1..Len(sent))'
BY DEF Ends, Summed, StoredSum

LEMMA ArrivedKept ==
  ASSUME Arrived, UNCHANGED <<sent, damaged, received>>
  PROVE  Arrived'
<1>1. \A i, q : Arrives(i, q) <=> Arrives(i, q)'
  BY StreamKept
<1> QED  BY <1>1 DEF Arrived

\* The segment whose bytes out holds.
LEMMA LastSegment ==
  ASSUME sent \in Seq(Packet), Len(sent) > 0
  PROVE  /\ Last(sent) = sent[Len(sent)] /\ Len(sent) \in 1..Len(sent) /\ Last(sent) \in Packet
         /\ Len(sent) \in Nat
BY DEF Last

\* write() moves the boundary between out and net.
LEMMA WriteStep ==
  ASSUME StreamInv, NEW n \in Int, TcpWrite(n)
  PROVE  StreamInv'
<1> USE DEF TcpWrite, recvVars
<1>1. Ends /\ Arrived /\ state = "open" /\ out # <<>> /\ part # "ended"
  BY DEF StreamInv, Ends
<1>2. PICK off, str, rd : Layout(off) /\ Frames(off, str) /\ Reading(off, rd) /\ InOrder(str, rd)
  BY DEF StreamInv
<1>3. /\ Len(got) < need /\ Piece(got, str, rd) /\ Piece(net, str, rd + Len(got))
      /\ Piece(out, str, rd + Len(got) + Len(net))
      /\ rd + Len(got) + Len(net) + Len(out) = Len(str) /\ rd \in Nat /\ str \in Seq(Byte)
  BY <1>1, <1>2 DEF InOrder, Reading, Frames
<1>4. Len(got) \in Nat /\ Len(net) \in Nat /\ Len(out) \in Nat /\ out \in Seq(Byte) /\ net \in Seq(Byte)
  BY <1>3 DEF Piece
<1>5. n \in 1..Len(out)
  <2>1. Len(Last(sent)) \in Nat
    BY <1>1, LastSegment, PacketFacts DEF Ends
  <2>2. NextWrite <= Len(out) /\ NextWrite \in Int
    BY <1>4, <2>1 DEF NextWrite
  <2> QED  BY <2>2, <1>4
<1> DEFINE a == rd + Len(got)
           c == a + Len(net)
           u == SubSeq(out, 1, n)
           v == SubSeq(out, n + 1, Len(out))
<1>6. a \in Nat /\ c \in Nat
  BY <1>3, <1>4
<1>7. Piece(u, str, c) /\ Len(u) = n /\ Piece(v, str, c + n) /\ Len(v) = Len(out) - n
  <2> HIDE DEF c
  <2>1. Piece(out, str, c)
    BY <1>3 DEF c
  <2> QED  BY <2>1, <1>3, <1>5, <1>6, PieceCut
<1>8. Piece(net \o u, str, a) /\ Len(net \o u) = Len(net) + n
  <2> HIDE DEF u, a
  <2>1. Piece(net, str, a) /\ Piece(u, str, a + Len(net))
    BY <1>3, <1>7 DEF a
  <2>2. Len(u) = n
    BY <1>7
  <2>3. Piece(net \o u, str, a) /\ Len(net \o u) = Len(net) + Len(u)
    BY <2>1, <1>3, <1>6, PieceConcat
  <2> QED  BY <2>2, <2>3
<1>9. net' = net \o u /\ out' = v /\ got' = got /\ need' = need /\ part' = part /\ received' = received
      /\ sent' = sent /\ damaged' = damaged /\ state' = state /\ host' = host /\ little' = little
  OBVIOUS
<1> HIDE DEF TcpWrite, recvVars
<1>10. InOrder(str, rd)'
  <2>1. Piece(v, str, rd + Len(got) + (Len(net) + n))
        /\ rd + Len(got) + (Len(net) + n) + (Len(out) - n) = Len(str)
    <3>1. rd + Len(got) + (Len(net) + n) = c + n
      BY <1>3, <1>4
    <3>2. rd + Len(got) + (Len(net) + n) + (Len(out) - n) = rd + Len(got) + Len(net) + Len(out)
      <4>1. n \in Nat
        BY <1>5
      <4>2. PICK g \in Nat, m \in Nat, o \in Nat : g = Len(got) /\ m = Len(net) /\ o = Len(out)
        BY <1>4
      <4>3. rd + g + (m + n) + (o - n) = rd + g + m + o
        BY <4>1, <1>3
      <4> QED  BY <4>2, <4>3
    <3> HIDE DEF u, v
    <3> QED  BY <3>1, <3>2, <1>3, <1>7
  <2> HIDE DEF u, v
  <2> QED  BY <2>1, <1>3, <1>7, <1>8, <1>9 DEF InOrder
<1>11. Reading(off, rd)'
  BY <1>2, <1>9 DEF Reading
<1>12. Layout(off)' /\ Frames(off, str)'
  BY <1>2, <1>9, StreamKept
<1>13. Arrived'
  BY <1>1, <1>9, ArrivedKept
<1>14. Ends'
  <2>1. (out # <<>> => state = "open" /\ Len(sent) > 0)'
    BY <1>1, <1>9 DEF Ends
  <2> QED  BY <1>1, <1>9, <2>1, EndsKept DEF Ends
<1> QED  BY <1>10, <1>11, <1>12, <1>13, <1>14 DEF StreamInv

\* The bytes that are lost are the last ones of the stream.
LEMMA WriteFailsStep ==
  ASSUME StreamInv, WriteFails
  PROVE  StreamInv'
<1> USE DEF WriteFails, recvVars
<1>1. Ends /\ Arrived /\ state = "open" /\ part # "ended"
  BY DEF StreamInv, Ends
<1>2. PICK off, str, rd : Layout(off) /\ Frames(off, str) /\ Reading(off, rd) /\ InOrder(str, rd)
  BY DEF StreamInv
<1>3. out' = <<>> /\ state' = "broken" /\ got' = got /\ need' = need /\ part' = part /\ received' = received
      /\ sent' = sent /\ damaged' = damaged /\ net' = net /\ host' = host /\ little' = little
  OBVIOUS
<1> HIDE DEF WriteFails, recvVars
<1>4. InOrder(str, rd)'
  BY <1>1, <1>2, <1>3 DEF InOrder
<1>5. Reading(off, rd)'
  BY <1>2, <1>3 DEF Reading
<1>6. Layout(off)' /\ Frames(off, str)'
  BY <1>2, <1>3, StreamKept
<1>7. Arrived'
  BY <1>1, <1>3, ArrivedKept
<1>8. Ends'
  BY <1>1, <1>3, EndsKept DEF Ends
<1> QED  BY <1>4, <1>5, <1>6, <1>7, <1>8 DEF StreamInv

\* The sender closes only when everything is written.
LEMMA CloseStep ==
  ASSUME StreamInv, CloseSender
  PROVE  StreamInv'
<1> USE DEF CloseSender, recvVars
<1>1. Ends /\ Arrived /\ state = "open" /\ part # "ended" /\ out = <<>>
  BY DEF StreamInv, Ends
<1>2. PICK off, str, rd : Layout(off) /\ Frames(off, str) /\ Reading(off, rd) /\ InOrder(str, rd)
  BY DEF StreamInv
<1>3. out' = out /\ state' = "closed" /\ got' = got /\ need' = need /\ part' = part /\ received' = received
      /\ sent' = sent /\ damaged' = damaged /\ net' = net /\ host' = host /\ little' = little
  OBVIOUS
<1> HIDE DEF CloseSender, recvVars
<1>4. InOrder(str, rd)'
  BY <1>1, <1>2, <1>3 DEF InOrder
<1>5. Reading(off, rd)'
  BY <1>2, <1>3 DEF Reading
<1>6. Layout(off)' /\ Frames(off, str)'
  BY <1>2, <1>3, StreamKept
<1>7. Arrived'
  BY <1>1, <1>3, ArrivedKept
<1>8. Ends'
  BY <1>1, <1>3, EndsKept DEF Ends
<1> QED  BY <1>4, <1>5, <1>6, <1>7, <1>8 DEF StreamInv

\* When the receiver is at the end of a stream that is whole, it has all of the
\* segments: a part of one would be longer than what it has read.
LEMMA ReadEndsStep ==
  ASSUME StreamInv, ReadEnds
  PROVE  StreamInv'
<1> USE DEF ReadEnds
<1>1. Ends /\ Arrived /\ state # "open" /\ part # "ended" /\ out = <<>> /\ (state = "closed" => net = <<>>)
  BY DEF StreamInv, Ends
<1>2. PICK off, str, rd : Layout(off) /\ Frames(off, str) /\ Reading(off, rd) /\ InOrder(str, rd)
  BY DEF StreamInv
<1>3. out' = out /\ state' = state /\ got' = <<>> /\ need' = need /\ part' = "ended" /\ received' = received
      /\ sent' = sent /\ damaged' = damaged /\ net' = net /\ host' = host /\ little' = little
  OBVIOUS
<1> HIDE DEF ReadEnds
<1>4. ASSUME state = "closed" PROVE Len(received) = Len(sent)
  <2> DEFINE k == Len(received)
             n == Len(sent)
  <2>1. k \in Nat /\ n \in Nat /\ k <= n /\ sent \in Seq(Packet)
    BY <1>1 DEF Arrived, Ends
  <2>2. /\ Len(got) < need /\ Piece(got, str, rd) /\ rd + Len(got) + Len(<<>>) + Len(<<>>) = Len(str)
        /\ rd \in Nat /\ Len(str) = off[n + 1]
    BY <1>1, <1>2, <1>4 DEF InOrder, Reading, Frames
  <2>3. Len(got) \in Nat
    BY <2>2 DEF Piece
  <2>4. rd + Len(got) = off[n + 1]
    BY <2>2, <2>3
  <2> SUFFICES ASSUME k < n PROVE FALSE
    BY <2>1
  <2>5. k + 1 \in 1..n /\ k + 1 \in 1..(n + 1) /\ k + 2 \in 1..(n + 1) /\ k + 2 <= n + 1 /\ n + 1 \in 1..(n + 1)
    BY <2>1
  <2>6. off[k + 1] \in Nat /\ off[k + 2] \in Nat /\ off[n + 1] \in Nat /\ off[k + 2] <= off[n + 1]
    BY <1>2, <2>5 DEF Layout
  <2>7. off[k + 2] = off[k + 1] + 2 + Len(sent[k + 1])
    <3>1. off[(k + 1) + 1] = off[k + 1] + 2 + Len(sent[k + 1])
      BY <1>2, <2>5 DEF Layout
    <3>2. (k + 1) + 1 = k + 2
      BY <2>1
    <3> QED  BY <3>1, <3>2
  <2>8. Len(sent[k + 1]) \in Nat /\ Len(sent[k + 1]) > 1
    BY <2>1, <2>5, HtonSeq
  <2>9. part = "length" => rd = off[k + 1] /\ need = 2
    BY <1>2 DEF Reading
  <2>10. part = "segment" => rd = off[k + 1] + 2 /\ need = Len(sent[k + 1])
    BY <1>2 DEF Reading
  <2>11. part = "length" \/ part = "segment"
    BY <1>1, <1>2 DEF Reading
  <2> HIDE DEF k, n
  <2> QED  BY <2>2, <2>3, <2>4, <2>6, <2>7, <2>8, <2>9, <2>10, <2>11
<1>5. InOrder(str, rd)'
  BY <1>3 DEF InOrder
<1>6. Reading(off, rd)'
  BY <1>2, <1>3 DEF Reading
<1>7. Layout(off)' /\ Frames(off, str)'
  BY <1>2, <1>3, StreamKept
<1>8. Arrived'
  BY <1>1, <1>3, ArrivedKept
<1>9. Ends'
  BY <1>1, <1>3, <1>4, EndsKept DEF Ends
<1> QED  BY <1>5, <1>6, <1>7, <1>8, <1>9 DEF StreamInv

\* The lesser of two numbers.
LEMMA MinPair ==
  ASSUME NEW a \in Int, NEW b \in Int
  PROVE  Min({a, b}) \in Int /\ Min({a, b}) <= a /\ Min({a, b}) <= b /\ (a <= b => Min({a, b}) = a)
<1>1. \E x \in {a, b} : \A y \in {a, b} : x <= y
  OBVIOUS
<1>2. Min({a, b}) \in {a, b} /\ \A y \in {a, b} : Min({a, b}) <= y
  BY <1>1 DEF Min
<1> QED  BY <1>2

\* The parts of a piece are pieces.
LEMMA PieceParts ==
  ASSUME NEW str \in Seq(Byte), NEW a \in Nat, NEW s \in Seq(Byte), NEW t \in Seq(Byte), Piece(s \o t, str, a)
  PROVE  Piece(s, str, a) /\ Piece(t, str, a + Len(s))
<1> DEFINE c == s \o t
           m == Len(s)
           n == Len(t)
<1>1. m \in Nat /\ n \in Nat /\ Len(c) = m + n /\ Len(str) \in Nat
      /\ (\A i \in 1..m : c[i] = s[i]) /\ (\A i \in 1..n : c[m + i] = t[i])
  OBVIOUS
<1>2. a + Len(c) <= Len(str) /\ \A i \in 1..Len(c) : c[i] = str[a + i]
  BY DEF Piece
<1> HIDE DEF c, m, n
<1>3. ASSUME NEW i \in 1..m PROVE s[i] = str[a + i]
  <2>1. i \in 1..Len(c)
    BY <1>1
  <2> QED  BY <2>1, <1>1, <1>2
<1>4. ASSUME NEW i \in 1..n PROVE t[i] = str[a + m + i]
  <2>1. m + i \in 1..Len(c) /\ a + (m + i) = a + m + i
    BY <1>1
  <2>2. c[m + i] = str[a + (m + i)]
    BY <2>1, <1>2
  <2> QED  BY <2>1, <2>2, <1>1
<1>5. a + m <= Len(str) /\ a + m + n <= Len(str)
  BY <1>1, <1>2
<1> QED  BY <1>3, <1>4, <1>5 DEF Piece, m, n

\* read() takes from the place where the last one stopped; a complete length or
\* segment moves the place to the next part.
LEMMA ReadStep ==
  ASSUME StreamInv, NEW n \in Int, TcpRead(n)
  PROVE  StreamInv'
<1> DEFINE bytes == got \o SubSeq(net, 1, n)
           k == Len(received)
<1>0. /\ part # "ended" /\ n \in 1..Min({Len(net), need - Len(got)})
      /\ net' = SubSeq(net, n + 1, Len(net))
      /\ UNCHANGED <<host, little, sent, out, state, damaged>>
  BY DEF TcpRead
<1>1. Ends /\ Arrived
  BY DEF StreamInv
<1>2. PICK off, str, rd : Layout(off) /\ Frames(off, str) /\ Reading(off, rd) /\ InOrder(str, rd)
  BY DEF StreamInv
<1>3. /\ Len(got) < need /\ Piece(got, str, rd) /\ Piece(net, str, rd + Len(got))
      /\ rd \in Nat /\ str \in Seq(Byte)
      /\ state # "broken" => /\ Piece(out, str, rd + Len(got) + Len(net))
                             /\ rd + Len(got) + Len(net) + Len(out) = Len(str)
  BY <1>0, <1>2 DEF InOrder, Reading, Frames
<1>4. /\ Len(got) \in Nat /\ Len(net) \in Nat /\ net \in Seq(Byte) /\ Len(str) \in Nat
      /\ state # "broken" => Len(out) \in Nat
  BY <1>3 DEF Piece
<1>5. k \in Nat /\ Len(sent) \in Nat /\ k <= Len(sent) /\ sent \in Seq(Packet) /\ received \in Seq(Seq(Byte))
  BY <1>1 DEF Arrived, Ends
<1>6. need \in Nat
  <2>1. part = "segment" => k + 1 \in 1..Len(sent)
    BY <1>2, <1>5 DEF Reading
  <2>2. part = "segment" => need \in Nat
    BY <2>1, <1>2, <1>5, HtonSeq DEF Reading
  <2> QED  BY <1>0, <1>2, <2>2 DEF Reading
<1>7. n \in 1..Len(net) /\ Len(got) + n <= need
  <2>1. need - Len(got) \in Int /\ Len(net) \in Int
    BY <1>4, <1>6
  <2>2. Min({Len(net), need - Len(got)}) \in Int /\ Min({Len(net), need - Len(got)}) <= Len(net)
        /\ Min({Len(net), need - Len(got)}) <= need - Len(got)
    BY <2>1, MinPair, Zenon
  <2> QED  BY <2>2, <1>0, <1>4, <1>6
<1>8. /\ Piece(bytes, str, rd) /\ Len(bytes) = Len(got) + n
      /\ Piece(net', str, rd + Len(got) + n) /\ Len(net') = Len(net) - n
  <2> DEFINE a == rd + Len(got)
             u == SubSeq(net, 1, n)
             v == SubSeq(net, n + 1, Len(net))
  <2>1. a \in Nat
    BY <1>3, <1>4
  <2>2. Piece(u, str, a) /\ Len(u) = n /\ Piece(v, str, a + n) /\ Len(v) = Len(net) - n
    BY <2>1, <1>3, <1>7, PieceCut
  <2> HIDE DEF u
  <2>3. Piece(got \o u, str, rd) /\ Len(got \o u) = Len(got) + Len(u)
    BY <2>2, <1>3, PieceConcat
  <2>4. Piece(bytes, str, rd) /\ Len(bytes) = Len(got) + n
    BY <2>2, <2>3 DEF u
  <2>5. Piece(net', str, rd + Len(got) + n) /\ Len(net') = Len(net) - n
    BY <2>2, <1>0
  <2> QED  BY <2>4, <2>5
<1>9. Layout(off)' /\ Frames(off, str)' /\ \A i, q : Arrives(i, q) <=> Arrives(i, q)'
  BY <1>0, <1>2, StreamKept
<1>10. Ends'
  <2>1. part' # "ended"
    BY <1>0 DEF TcpRead
  <2> QED  BY <1>0, <1>1, <2>1, EndsKept DEF Ends
<1>11. bytes \in Seq(Byte)
  BY <1>8 DEF Piece
<1>12. \/ ~TcpIoDone(bytes, need) /\ got' = bytes /\ UNCHANGED <<need, part, received>>
       \/ /\ TcpIoDone(bytes, need) /\ part = "length" /\ got' = <<>> /\ part' = "segment"
          /\ need' = Min({Ntoh(bytes), MAX_IP_PAYLOAD_LEN}) /\ UNCHANGED received
       \/ /\ TcpIoDone(bytes, need) /\ part = "segment" /\ got' = <<>> /\ part' = "length" /\ need' = 2
          /\ received' = Append(received, bytes)
  BY DEF TcpRead
<1> HIDE DEF bytes
<1>13. ASSUME ~TcpIoDone(bytes, need), got' = bytes, UNCHANGED <<need, part, received>>
       PROVE  StreamInv'
  <2>1. Len(bytes) < need
    BY <1>4, <1>6, <1>7, <1>8, <1>13 DEF TcpIoDone
  <2>2. Reading(off, rd)'
    BY <1>0, <1>2, <1>13 DEF Reading
  <2>3. rd + Len(bytes) = rd + Len(got) + n
    BY <1>3, <1>4, <1>7, <1>8
  <2>4. Piece(net', str, rd + Len(bytes))
    BY <2>3, <1>8
  <2>5. state # "broken" => rd + Len(bytes) + Len(net') = rd + Len(got) + Len(net)
    BY <1>3, <1>4, <1>7, <1>8
  <2>6. InOrder(str, rd)'
    BY <2>1, <2>4, <2>5, <1>0, <1>3, <1>8, <1>13 DEF InOrder
  <2>7. Arrived'
    BY <1>0, <1>1, <1>13, ArrivedKept
  <2> QED  BY <2>2, <2>6, <2>7, <1>9, <1>10 DEF StreamInv
<1>14. PICK e \in Nat : e = rd + need
  BY <1>3, <1>6
\* what a complete call of _tcp_io(read) leaves of the stream
<1>15. ASSUME TcpIoDone(bytes, need), got' = <<>>, need' \in Nat, need' > 0
       PROVE  Len(bytes) = need /\ e <= Len(str) /\ e \in Nat /\ InOrder(str, e)'
  <2>1. Len(bytes) = need /\ e = rd + Len(got) + n
    <3>1. Len(bytes) = need
      BY <1>15 DEF TcpIoDone
    <3>2. e = rd + (Len(got) + n)
      BY <3>1, <1>8, <1>14
    <3>3. rd + (Len(got) + n) = rd + Len(got) + n
      BY <1>3, <1>4, <1>7
    <3> QED  BY <3>1, <3>2, <3>3
  <2>2. e <= Len(str) /\ e \in Nat
    BY <2>1, <1>3, <1>6, <1>8, <1>14 DEF Piece
  <2>3. Len(got') = 0 /\ e + 0 = e
    BY <2>2, <1>15
  <2>4. Piece(got', str, e)
    BY <2>2, <1>3, <1>4, <1>15, PieceEmpty
  <2>5. Piece(net', str, e + Len(got'))
    BY <2>1, <2>3, <1>8
  <2>6. state # "broken" => e + Len(got') + Len(net') = rd + Len(got) + Len(net)
    <3>1. e + Len(got') = rd + Len(got) + n
      BY <2>1, <2>3
    <3>2. \A x, y, z, m \in Nat : x + y + m + (z - m) = x + y + z
      OBVIOUS
    <3>3. rd + Len(got) + n + (Len(net) - n) = rd + Len(got) + Len(net)
      BY <3>2, <1>3, <1>4, <1>7
    <3> QED  BY <3>1, <3>3, <1>8
  <2>7. Len(got') < need'
    BY <2>3, <1>15
  <2>8. InOrder(str, e)'
    BY <2>4, <2>5, <2>6, <2>7, <1>0, <1>3 DEF InOrder
  <2> QED  BY <2>1, <2>2, <2>8
\* the length of the next segment
<1>16. ASSUME TcpIoDone(bytes, need), part = "length", got' = <<>>, part' = "segment",
              need' = Min({Ntoh(bytes), MAX_IP_PAYLOAD_LEN}), UNCHANGED received
       PROVE  StreamInv'
  <2>1. rd = off[k + 1] /\ need = 2 /\ Len(str) = off[Len(sent) + 1]
    BY <1>2, <1>16 DEF Reading, Frames
  <2>2. Len(bytes) = 2 /\ rd + 2 <= Len(str)
    BY <2>1, <1>8, <1>16 DEF TcpIoDone, Piece
  <2>3. k < Len(sent)
    BY <2>1, <2>2, <1>3, <1>4, <1>5
  <2>4. k + 1 \in 1..Len(sent)
    BY <2>3, <1>5
  <2> DEFINE p == sent[k + 1]
  <2>5. /\ p \in Packet /\ Len(Hton(Len(p))) = 2 /\ Ntoh(Hton(Len(p))) = Len(p)
        /\ Len(p) > 1 /\ Len(p) \in Nat /\ Len(p) <= MAX_IP_PAYLOAD_LEN
    BY <2>4, <1>5, HtonSeq
  <2>6. Piece(Hton(Len(p)), str, rd)
    BY <2>1, <2>4, <1>2 DEF Frames
  <2>7. bytes = Hton(Len(p))
    BY <2>2, <2>5, <2>6, <1>3, <1>8, PieceEqual
  <2>8. need' = Len(p)
    <3>1. MAX_IP_PAYLOAD_LEN \in Int /\ Len(p) \in Int
      BY <2>5, SegmentAssumption
    <3>2. Ntoh(bytes) = Len(p)
      BY <2>5, <2>7
    <3>3. need' = Min({Len(p), MAX_IP_PAYLOAD_LEN})
      BY <3>2, <1>16
    <3> HIDE DEF p
    <3> QED  BY <3>1, <3>3, <2>5, MinPair, Zenon
  <2>9. e \in Nat /\ InOrder(str, e)'
    BY <2>5, <2>8, <1>15, <1>16
  <2>10. Reading(off, e)'
    <3>1. e = off[k + 1] + 2
      BY <2>1, <1>14
    <3> QED  BY <3>1, <2>3, <2>8, <2>9, <1>0, <1>16 DEF Reading
  <2>11. Arrived'
    BY <1>0, <1>1, <1>16, ArrivedKept
  <2> QED  BY <2>9, <2>10, <2>11, <1>9, <1>10 DEF StreamInv
\* the segment
<1>17. ASSUME TcpIoDone(bytes, need), part = "segment", got' = <<>>, part' = "length", need' = 2,
              received' = Append(received, bytes)
       PROVE  StreamInv'
  <2>1. /\ k < Len(sent) /\ rd = off[k + 1] + 2 /\ need = Len(sent[k + 1])
        /\ k + 1 \in 1..Len(sent)
    BY <1>2, <1>5, <1>17 DEF Reading
  <2>2. Len(bytes) = need /\ e \in Nat /\ InOrder(str, e)'
    BY <1>15, <1>17
  <2>3. PICK q : Piece(q, str, off[k + 1] + 2) /\ Arrives(k + 1, q)
    BY <2>1, <1>2 DEF Frames
  <2>4. bytes = q
    <3>1. Len(q) = Len(sent[k + 1])
      BY <2>3 DEF Arrives
    <3> QED  BY <3>1, <2>1, <2>2, <2>3, <1>3, <1>8, PieceEqual
  <2>5. /\ received' \in Seq(Seq(Byte)) /\ Len(received') = k + 1 /\ received'[k + 1] = bytes
        /\ \A i \in 1..k : received'[i] = received[i]
    BY <1>5, <1>11, <1>17
  <2>6. ASSUME NEW i \in 1..(k + 1) PROVE Arrives(i, received'[i])
    <3>1. CASE i = k + 1
      BY <3>1, <2>3, <2>4, <2>5
    <3>2. CASE i # k + 1
      <4>1. i \in 1..k
        BY <3>2, <1>5
      <4> QED  BY <4>1, <2>5, <1>1 DEF Arrived
    <3> QED  BY <3>1, <3>2
  <2>7. Arrived'
    <3>1. k + 1 <= Len(sent)
      BY <2>1, <1>5
    <3> QED  BY <3>1, <2>5, <2>6, <1>0, <1>9 DEF Arrived
  <2>8. e = off[k + 2] /\ (k + 1) + 1 = k + 2
    <3>1. off[(k + 1) + 1] = off[k + 1] + 2 + Len(sent[k + 1])
      BY <2>1, <1>2 DEF Layout
    <3>2. (k + 1) + 1 = k + 2
      BY <1>5
    <3> QED  BY <3>1, <3>2, <2>1, <1>14
  <2>9. Reading(off, e)'
    <3>1. off[Len(received') + 1] = e
      BY <2>5, <2>8
    <3> QED  BY <3>1, <2>2, <1>17 DEF Reading
  <2> QED  BY <2>2, <2>7, <2>9, <1>9, <1>10 DEF StreamInv
<1> QED  BY <1>12, <1>13, <1>16, <1>17

\* A new segment is appended to the stream with its length.
LEMMA SendStep ==
  ASSUME StreamInv, NEW header \in Headers, NEW payload \in Payloads, NetworkSend(header, payload)
  PROVE  StreamInv'
<1>1. Ends /\ Arrived
  BY DEF StreamInv
<1>2. PICK off, str, rd : Layout(off) /\ Frames(off, str) /\ Reading(off, rd) /\ InOrder(str, rd)
  BY DEF StreamInv
<1>3. PICK p : p = SetChecksum(Blank(header \o payload))
  OBVIOUS
<1>4. /\ state = "open" /\ out = <<>> /\ sent' = Append(sent, p) /\ out' = Hton(Len(p)) \o p
      /\ host' = host /\ little' = little /\ net' = net /\ state' = state /\ damaged' = damaged
      /\ need' = need /\ got' = got /\ part' = part /\ received' = received
  BY <1>3 DEF NetworkSend, recvVars
<1>5. Summed(p) /\ p \in Packet
  BY <1>1, <1>3, PacketSent DEF Ends, Summed
<1> DEFINE n == Len(sent)
           k == Len(received)
           h == Hton(Len(p))
           x == h \o p
<1>6. /\ h \in Seq(Byte) /\ Len(h) = 2 /\ Len(p) > 1 /\ Len(p) \in Nat /\ p \in Seq(Byte)
  BY <1>5, HtonSeq
<1>7. n \in Nat /\ sent \in Seq(Packet) /\ k \in Nat /\ k <= n /\ received \in Seq(Seq(Byte))
      /\ part # "ended" /\ damaged \subseteq 1..n
  BY <1>1, <1>4 DEF Ends, Arrived
<1>8. /\ sent' \in Seq(Packet) /\ Len(sent') = n + 1 /\ sent'[n + 1] = p
      /\ \A i \in 1..n : sent'[i] = sent[i]
  BY <1>4, <1>5, <1>7
<1>9. /\ str \in Seq(Byte) /\ Len(str) \in Nat /\ Len(str) = off[n + 1]
      /\ off \in [1..(n + 1) -> Nat] /\ off[1] = 0
      /\ \A i \in 1..n : off[i + 1] = off[i] + 2 + Len(sent[i])
      /\ \A i, j \in 1..(n + 1) : i <= j => off[i] <= off[j]
  BY <1>2 DEF Frames, Layout
<1>10. PICK strN : strN = str \o x
  OBVIOUS
<1>11. PICK offN : offN = [i \in 1..(n + 2) |-> IF i = n + 2 THEN off[n + 1] + 2 + Len(p) ELSE off[i]]
  OBVIOUS
<1>12. /\ x \in Seq(Byte) /\ Len(x) = 2 + Len(p) /\ strN \in Seq(Byte) /\ Len(strN) = Len(str) + 2 + Len(p)
  <2> HIDE DEF h
  <2>1. x \in Seq(Byte) /\ Len(x) = Len(h) + Len(p)
    BY <1>6, ConcatProperties
  <2> HIDE DEF x
  <2>2. strN \in Seq(Byte) /\ Len(strN) = Len(str) + Len(x)
    BY <2>1, <1>9, <1>10, ConcatProperties
  <2> QED  BY <2>1, <2>2, <1>6, <1>9
<1>13. Piece(x, strN, Len(str)) /\ Piece(h, strN, Len(str)) /\ Piece(p, strN, Len(str) + 2)
  <2>1. Piece(x, strN, Len(str))
    <3> HIDE DEF x
    <3> QED  BY <1>9, <1>12, <1>10, PieceAppended
  <2> HIDE DEF h
  <2>2. Piece(h, strN, Len(str)) /\ Piece(p, strN, Len(str) + Len(h))
    BY <2>1, <1>6, <1>9, <1>12, PieceParts
  <2> QED  BY <2>1, <2>2, <1>6
<1>14. \A a \in Nat : \A s : Piece(s, str, a) => Piece(s, strN, a)
  <2> HIDE DEF x
  <2> QED  BY <1>9, <1>12, <1>10, PieceLonger
<1>15. /\ offN \in [1..(n + 2) -> Nat] /\ offN[n + 2] = off[n + 1] + 2 + Len(p)
       /\ \A i \in 1..(n + 1) : offN[i] = off[i]
  <2>1. n + 1 \in 1..(n + 1) /\ n + 2 \in 1..(n + 2) /\ 1..(n + 1) \subseteq 1..(n + 2)
        /\ \A i \in 1..(n + 2) : i # n + 2 => i \in 1..(n + 1)
    BY <1>7
  <2>2. off[n + 1] + 2 + Len(p) \in Nat
    BY <2>1, <1>6, <1>9
  <2>3. \A i \in 1..(n + 1) : i # n + 2
    BY <1>7
  <2> HIDE DEF n
  <2> QED  BY <2>1, <2>2, <2>3, <1>9, <1>11
<1>16. Layout(offN)'
  <2>1. offN[1] = 0 /\ (n + 1) + 1 = n + 2
    BY <1>7, <1>9, <1>15
  <2>2. ASSUME NEW i \in 1..(n + 1) PROVE offN[i + 1] = offN[i] + 2 + Len(sent'[i])
    <3>1. CASE i = n + 1
      BY <3>1, <2>1, <1>8, <1>15
    <3>2. CASE i # n + 1
      <4>1. i \in 1..n /\ i + 1 \in 1..(n + 1)
        BY <3>2, <1>7
      <4> QED  BY <4>1, <1>8, <1>9, <1>15
    <3> QED  BY <3>1, <3>2
  <2>3. ASSUME NEW i \in 1..(n + 2), NEW j \in 1..(n + 2), i <= j PROVE offN[i] <= offN[j]
    <3>1. CASE j # n + 2
      <4>1. i \in 1..(n + 1) /\ j \in 1..(n + 1)
        BY <3>1, <2>3, <1>7
      <4> QED  BY <4>1, <2>3, <1>9, <1>15
    <3>2. CASE j = n + 2 /\ i # n + 2
      <4>1. i \in 1..(n + 1) /\ n + 1 \in 1..(n + 1) /\ i <= n + 1
        BY <3>2, <1>7
      <4>2. off[i] <= off[n + 1] /\ off[i] \in Nat /\ off[n + 1] \in Nat
        BY <4>1, <1>9
      <4> QED  BY <3>2, <4>1, <4>2, <1>6, <1>15
    <3>3. CASE j = n + 2 /\ i = n + 2
      BY <3>3, <1>15
    <3> QED  BY <3>1, <3>2, <3>3
  <2> QED  BY <2>1, <2>2, <2>3, <1>8, <1>15 DEF Layout
<1>17. \A i \in 1..n : \A q : Arrives(i, q) => Arrives(i, q)'
  BY <1>4, <1>8 DEF Arrives
<1>18. Frames(offN, strN)'
  <2>1. Len(strN) = offN[Len(sent') + 1]
    <3>1. (n + 1) + 1 = n + 2
      BY <1>7
    <3> QED  BY <3>1, <1>8, <1>9, <1>12, <1>15
  <2>2. ASSUME NEW i \in 1..(n + 1)
        PROVE  /\ Piece(Hton(Len(sent'[i])), strN, offN[i])
               /\ \E q : Piece(q, strN, offN[i] + 2) /\ Arrives(i, q)'
    <3>1. CASE i = n + 1
      <4>1. n + 1 \in 1..(n + 1)
        BY <1>7
      <4>2. offN[i] = Len(str) /\ sent'[i] = p
        BY <4>1, <3>1, <1>8, <1>9, <1>15
      <4>3. i \notin damaged'
        BY <3>1, <1>4, <1>7
      <4>4. Arrives(i, p)'
        BY <4>2, <4>3, <1>6 DEF Arrives
      <4> QED  BY <4>2, <4>4, <1>13
    <3>2. CASE i # n + 1
      <4>1. i \in 1..n
        BY <3>2, <1>7
      <4>2. offN[i] = off[i] /\ sent'[i] = sent[i] /\ off[i] \in Nat /\ off[i] + 2 \in Nat
        <5>1. off[i] \in Nat
          BY <1>9
        <5> QED  BY <4>1, <5>1, <1>8, <1>15
      <4>3. PICK q : Piece(q, str, off[i] + 2) /\ Arrives(i, q)
        BY <4>1, <1>2 DEF Frames
      <4>4. Piece(Hton(Len(sent[i])), str, off[i])
        BY <4>1, <1>2 DEF Frames
      <4>5. Piece(q, strN, off[i] + 2) /\ Piece(Hton(Len(sent[i])), strN, off[i])
        BY <4>2, <4>3, <4>4, <1>14
      <4>6. Arrives(i, q)'
        BY <4>1, <4>3, <1>17
      <4> QED  BY <4>2, <4>5, <4>6
    <3> QED  BY <3>1, <3>2
  <2> QED  BY <2>1, <2>2, <1>8, <1>12 DEF Frames
<1>19. Reading(offN, rd)'
  <2>1. k + 1 \in 1..(n + 1)
    BY <1>7
  <2>2. offN[k + 1] = off[k + 1]
    BY <2>1, <1>15
  <2>3. k < n => k < n + 1 /\ sent'[k + 1] = sent[k + 1]
    <3>1. k < n => k + 1 \in 1..n
      BY <1>7
    <3> QED  BY <3>1, <1>7, <1>8
  <2> QED  BY <2>2, <2>3, <1>2, <1>4, <1>8 DEF Reading
<1>20. InOrder(strN, rd)'
  <2>1. /\ Len(got) < need /\ Piece(got, str, rd) /\ Piece(net, str, rd + Len(got))
        /\ rd + Len(got) + Len(net) + Len(<<>>) = Len(str) /\ rd \in Nat
    BY <1>2, <1>4, <1>7 DEF InOrder, Reading
  <2>2. Len(got) \in Nat /\ Len(net) \in Nat /\ rd + Len(got) \in Nat
    BY <2>1 DEF Piece
  <2>3. Piece(got, strN, rd) /\ Piece(net, strN, rd + Len(got))
    BY <2>1, <2>2, <1>14
  <2>4. rd + Len(got) + Len(net) = Len(str)
    BY <2>1, <2>2
  <2>5. out' = x
    BY <1>4
  <2> HIDE DEF x
  <2>6. Len(str) + Len(x) = Len(strN)
    BY <1>6, <1>9, <1>12
  <2> QED  BY <2>1, <2>3, <2>4, <2>5, <2>6, <1>4, <1>13 DEF InOrder
<1>21. Arrived'
  <2>1. ASSUME NEW i \in 1..k PROVE Arrives(i, received[i])'
    <3>1. i \in 1..n /\ Arrives(i, received[i])
      BY <1>1, <1>7 DEF Arrived
    <3>2. PICK q : q = received[i]
      OBVIOUS
    <3>3. Arrives(i, q)'
      BY <3>1, <3>2, <1>17
    <3> QED  BY <3>2, <3>3, <1>4
  <2>2. k <= n + 1
    BY <1>7
  <2> QED  BY <2>1, <2>2, <1>4, <1>7, <1>8 DEF Arrived
<1>22. Ends'
  <2>1. ASSUME NEW i \in 1..(n + 1) PROVE Summed(sent'[i])
    <3>1. CASE i = n + 1
      BY <3>1, <1>5, <1>8
    <3>2. CASE i # n + 1
      <4>1. i \in 1..n
        BY <3>2, <1>7
      <4> QED  BY <4>1, <1>1, <1>8 DEF Ends
    <3> QED  BY <3>1, <3>2
  <2>2. \A q : Summed(q)' <=> Summed(q)
    BY <1>4 DEF Summed, StoredSum
  <2>3. \A i \in 1..(n + 1) : (Summed(sent[i]))'
    BY <2>1, <1>4 DEF Summed, StoredSum
  <2>4. damaged \subseteq 1..(n + 1) /\ n + 1 > 0
    BY <1>7
  <2> QED  BY <2>3, <2>4, <1>1, <1>4, <1>7, <1>8 DEF Ends
<1> QED  BY <1>16, <1>18, <1>19, <1>20, <1>21, <1>22 DEF StreamInv

\* The damaged byte is one of the last segment, which has not been received.
LEMMA DamageStep ==
  ASSUME StreamInv, NEW j, NEW byte \in Byte, Damage(j, byte)
  PROVE  StreamInv'
<1>1. Ends /\ Arrived
  BY DEF StreamInv
<1>2. PICK off, str, rd : Layout(off) /\ Frames(off, str) /\ Reading(off, rd) /\ InOrder(str, rd)
  BY DEF StreamInv
<1>3. /\ damaged = {} /\ out # <<>> /\ Len(out) <= Len(Last(sent)) /\ j \in DOMAIN out /\ out[j] # byte
      /\ out' = [out EXCEPT ![j] = byte] /\ damaged' = {Len(sent)}
      /\ host' = host /\ little' = little /\ sent' = sent /\ net' = net /\ state' = state
      /\ need' = need /\ got' = got /\ part' = part /\ received' = received
  BY DEF Damage, recvVars
<1> DEFINE k == Len(received)
<1>4. state = "open" /\ part # "ended" /\ Len(sent) > 0 /\ sent \in Seq(Packet) /\ k \in Nat
      /\ received \in Seq(Seq(Byte)) /\ k <= Len(sent)
  BY <1>1, <1>3 DEF Ends, Arrived
<1>5. PICK n : n = Len(sent)
  OBVIOUS
<1>6. n \in Nat /\ n > 0 /\ n \in 1..n /\ n + 1 \in 1..(n + 1) /\ n \in 1..(n + 1) /\ Len(Last(sent)) = Len(sent[n])
      /\ Len(sent[n]) \in Nat
  <2>1. Len(sent[n]) \in Nat
    BY <1>4, <1>5, LastSegment, PacketFacts
  <2> QED  BY <2>1, <1>4, <1>5, LastSegment
<1>7. /\ Len(got) < need /\ Piece(got, str, rd) /\ Piece(net, str, rd + Len(got))
      /\ Piece(out, str, rd + Len(got) + Len(net))
      /\ rd + Len(got) + Len(net) + Len(out) = Len(str) /\ rd \in Nat /\ str \in Seq(Byte)
      /\ Len(str) = off[n + 1] /\ Len(str) \in Nat
  BY <1>2, <1>4, <1>5 DEF InOrder, Reading, Frames
<1>8. /\ Len(got) \in Nat /\ Len(net) \in Nat /\ Len(out) \in Nat /\ out \in Seq(Byte)
      /\ j \in 1..Len(out)
  BY <1>3, <1>7 DEF Piece
<1>9. PICK c \in Nat : c = rd + Len(got) + Len(net)
  BY <1>7, <1>8
<1>10. /\ off \in [1..(n + 1) -> Nat]
       /\ off[n + 1] = off[n] + 2 + Len(sent[n])
       /\ \A i, m \in 1..(n + 1) : i <= m => off[i] <= off[m]
       /\ \A i \in 1..n : off[i + 1] = off[i] + 2 + Len(sent[i])
  BY <1>2, <1>5, <1>6 DEF Layout
<1>11. PICK b \in Nat : b = off[n] + 2
  BY <1>6, <1>10
<1>12. /\ b <= c /\ c + Len(out) = Len(str) /\ Len(str) = b + Len(sent[n]) /\ c + j \in 1..Len(str)
       /\ c < Len(str)
  <2>1. Len(str) = b + Len(sent[n])
    BY <1>7, <1>10, <1>11
  <2>2. Len(out) <= Len(sent[n]) /\ c + Len(out) = Len(str)
    BY <1>3, <1>6, <1>7, <1>9
  <2> QED  BY <2>1, <2>2, <1>6, <1>8
<1>13. PICK strN : strN = [str EXCEPT ![c + j] = byte]
  OBVIOUS
<1>14. strN \in Seq(Byte) /\ Len(strN) = Len(str)
  BY <1>7, <1>12, <1>13
<1>15. \A a \in Nat : \A s : Piece(s, str, a) /\ a + Len(s) < c + j => Piece(s, strN, a)
  BY <1>7, <1>12, <1>13, PieceBefore
<1>16. Piece(out', strN, c) /\ Len(out') = Len(out)
  <2>1. Piece([out EXCEPT ![j] = byte], [str EXCEPT ![c + j] = byte], c)
    BY <1>7, <1>8, <1>9, PieceAround
  <2> QED  BY <2>1, <1>3, <1>8, <1>13
<1>17. InOrder(strN, rd)'
  <2>1. rd + Len(got) < c + j /\ rd + Len(got) \in Nat
    BY <1>7, <1>8, <1>9
  <2>2. rd + Len(got) + Len(net) < c + j
    BY <1>7, <1>8, <1>9
  <2>3. Piece(got, strN, rd) /\ Piece(net, strN, rd + Len(got))
    BY <2>1, <2>2, <1>7, <1>15
  <2> QED  BY <2>3, <1>3, <1>7, <1>9, <1>14, <1>16 DEF InOrder
<1>18. Reading(off, rd)'
  BY <1>2, <1>3 DEF Reading
<1>19. Layout(off)'
  BY <1>2, <1>3 DEF Layout
<1>20. k < n
  <2>1. part = "length" => rd = off[k + 1]
    BY <1>2 DEF Reading
  <2>2. part = "segment" => k < n
    BY <1>2, <1>5 DEF Reading
  <2>3. part = "length" \/ part = "segment"
    BY <1>2, <1>4 DEF Reading
  <2>4. rd < off[n + 1]
    BY <1>7, <1>8
  <2>5. k <= n
    BY <1>4, <1>5
  <2>6. k = n => rd # off[k + 1]
    BY <2>4, <1>7
  <2> QED  BY <2>1, <2>2, <2>3, <2>5, <2>6, <1>4, <1>6
<1>21. ASSUME NEW i \in 1..n, i # n, NEW q PROVE Arrives(i, q) => Arrives(i, q)'
  BY <1>3, <1>5, <1>21 DEF Arrives
<1>22. Arrived'
  <2>1. ASSUME NEW i \in 1..k PROVE Arrives(i, received[i])'
    <3>1. i \in 1..n /\ i # n /\ Arrives(i, received[i])
      BY <1>1, <1>4, <1>6, <1>20 DEF Arrived
    <3>2. PICK q : q = received[i]
      OBVIOUS
    <3>3. Arrives(i, q)'
      BY <3>1, <3>2, <1>21
    <3> QED  BY <3>2, <3>3, <1>3
  <2> QED  BY <2>1, <1>3, <1>4 DEF Arrived
<1>23. Frames(off, strN)'
  <2>1. ASSUME NEW i \in 1..n, i # n
        PROVE  /\ Piece(Hton(Len(sent[i])), strN, off[i])
               /\ \E q : Piece(q, strN, off[i] + 2) /\ Arrives(i, q)'
    <3>1. PICK q : Piece(q, str, off[i] + 2) /\ Arrives(i, q)
      BY <1>2, <1>5 DEF Frames
    <3>2. Piece(Hton(Len(sent[i])), str, off[i])
      BY <1>2, <1>5 DEF Frames
    <3>3. i \in 1..(n + 1) /\ i + 1 \in 1..(n + 1) /\ i + 1 <= n
      BY <2>1, <1>6
    <3>4. /\ off[i] \in Nat /\ off[i] + 2 \in Nat /\ off[i + 1] \in Nat /\ off[n] \in Nat
          /\ off[i + 1] <= off[n] /\ off[i + 1] = off[i] + 2 + Len(sent[i])
      <4>1. off[i] \in Nat /\ off[i + 1] \in Nat /\ off[n] \in Nat
        BY <3>3, <1>6, <1>10
      <4>2. off[i + 1] <= off[n]
        BY <3>3, <1>6, <1>10
      <4>3. off[i + 1] = off[i] + 2 + Len(sent[i])
        BY <1>10
      <4> QED  BY <4>1, <4>2, <4>3
    <3>5. /\ Len(Hton(Len(sent[i]))) = 2 /\ Len(sent[i]) \in Nat
      BY <1>4, <1>5, HtonSeq
    <3>6. Len(q) = Len(sent[i])
      BY <3>1 DEF Arrives
    <3>7. off[i] + 2 + Len(q) < c + j /\ off[i] + Len(Hton(Len(sent[i]))) < c + j
      <4>1. c + j \in Nat /\ c < c + j /\ off[n] + 2 <= c
        BY <1>8, <1>11, <1>12
      <4>2. off[i] + 2 + Len(q) <= off[n]
        BY <3>4, <3>6
      <4>3. off[i] + 2 <= off[n]
        <5>1. \A u, v, x \in Nat : u + 2 + x <= v => u + 2 <= v
          OBVIOUS
        <5> QED  BY <5>1, <3>4, <3>5
      <4>4. Len(q) \in Nat
        BY <3>5, <3>6
      <4>5. \A u, v, w, x, y \in Nat : u + 2 + x <= v /\ u + 2 <= v /\ v + 2 <= w /\ w < y
                                        => u + 2 + x < y /\ u + 2 < y
        OBVIOUS
      <4>6. off[i] + 2 + Len(q) < c + j /\ off[i] + 2 < c + j
        BY <4>1, <4>2, <4>3, <4>4, <4>5, <3>4
      <4> QED  BY <4>6, <3>5
    <3>8. Piece(q, strN, off[i] + 2) /\ Piece(Hton(Len(sent[i])), strN, off[i])
      BY <3>1, <3>2, <3>4, <3>7, <1>15
    <3>9. Arrives(i, q)'
      BY <3>1, <2>1, <1>21
    <3> QED  BY <3>8, <3>9
  <2>2. Piece(Hton(Len(sent[n])), strN, off[n])
    <3>1. Piece(Hton(Len(sent[n])), str, off[n])
      BY <1>2, <1>5, <1>6 DEF Frames
    <3>2. Len(Hton(Len(sent[n]))) = 2
      BY <1>4, <1>5, <1>6, HtonSeq
    <3>3. off[n] \in Nat /\ off[n] + Len(Hton(Len(sent[n]))) < c + j
      BY <3>2, <1>6, <1>8, <1>10, <1>11, <1>12
    <3> QED  BY <3>1, <3>3, <1>15
  <2>3. \E q : Piece(q, strN, off[n] + 2) /\ Arrives(n, q)'
    <3>1. PICK q : Piece(q, str, off[n] + 2) /\ Arrives(n, q)
      BY <1>2, <1>5, <1>6 DEF Frames
    <3>2. q = sent[n] /\ q \in Seq(Byte)
      BY <3>1, <1>3 DEF Arrives
    <3>3. PICK m \in 1..Len(q) : b + m = c + j
      <4>1. (c + j) - b \in 1..Len(q)
        BY <3>2, <1>6, <1>8, <1>12
      <4>2. b + ((c + j) - b) = c + j
        BY <1>8
      <4> QED  BY <4>1, <4>2
    <3> DEFINE r == [q EXCEPT ![m] = byte]
    <3>4. Piece(r, [str EXCEPT ![b + m] = byte], b)
      BY <3>1, <1>7, <1>11, PieceAround
    <3>5. Piece(r, strN, off[n] + 2)
      BY <3>3, <3>4, <1>11, <1>13
    <3>6. r \in Seq(Byte) /\ Len(r) = Len(q) /\ r[m] = byte /\ \A i \in 1..Len(q) : i # m => r[i] = q[i]
      BY <3>2
    <3>7. q[m] # byte
      <4>1. q[m] = str[b + m]
        BY <3>1, <1>11 DEF Piece
      <4>2. out[j] = str[c + j]
        BY <1>7, <1>8, <1>9 DEF Piece
      <4> QED  BY <4>1, <4>2, <3>3, <1>3
    <3> HIDE DEF r
    <3>8. n \in damaged' /\ sent'[n] = q
      BY <3>2, <1>3, <1>5
    <3>9. m \in 1..Len(r) /\ r[m] # sent'[n][m] /\ \A i \in 1..Len(r) : i # m => r[i] = sent'[n][i]
      BY <3>6, <3>7, <3>8
    <3>10. PICK z : z = r
      OBVIOUS
    <3>11. Arrives(n, z)'
      BY <3>6, <3>8, <3>9, <3>10 DEF Arrives
    <3> QED  BY <3>5, <3>10, <3>11
  <2>4. ASSUME NEW i \in 1..n
        PROVE  /\ Piece(Hton(Len(sent[i])), strN, off[i])
               /\ \E q : Piece(q, strN, off[i] + 2) /\ Arrives(i, q)'
    BY <2>1, <2>2, <2>3
  <2> QED  BY <2>4, <1>3, <1>5, <1>7, <1>14 DEF Frames
<1>24. Ends'
  <2>1. (\A i \in 1..Len(sent) : Summed(sent[i]))'
    BY <1>1, <1>3 DEF Ends, Summed, StoredSum
  <2>2. damaged' \subseteq 1..Len(sent)
    BY <1>3, <1>5, <1>6
  <2> QED  BY <2>1, <2>2, <1>1, <1>3, <1>4 DEF Ends
<1> QED  BY <1>17, <1>18, <1>19, <1>22, <1>23, <1>24 DEF StreamInv

-----------------------------------------------------------------------------
(* The theorems *)

\* Every step keeps the invariant.
LEMMA StreamStep == StreamInv /\ [Next]_vars => StreamInv'
<1> SUFFICES ASSUME StreamInv, [Next]_vars PROVE StreamInv'
  OBVIOUS
<1>0. MAX_IP_PAYLOAD_LEN \in Nat
  BY SegmentAssumption
<1>1. ASSUME NEW h \in Headers, NEW p \in Payloads, NetworkSend(h, p) PROVE StreamInv'
  BY <1>1, SendStep
<1>2. ASSUME NEW n \in 1..MAX_IP_PAYLOAD_LEN, TcpWrite(n) PROVE StreamInv'
  BY <1>0, <1>2, WriteStep
<1>3. ASSUME NEW n \in 1..MAX_IP_PAYLOAD_LEN, TcpRead(n) PROVE StreamInv'
  BY <1>0, <1>3, ReadStep
<1>4. CASE WriteFails
  BY <1>4, WriteFailsStep
<1>5. CASE CloseSender
  BY <1>5, CloseStep
<1>6. CASE ReadEnds
  BY <1>6, ReadEndsStep
<1>7. ASSUME NEW j \in 1..MAX_IP_PAYLOAD_LEN, NEW byte \in Byte, Damage(j, byte) PROVE StreamInv'
  BY <1>7, DamageStep
<1>8. CASE UNCHANGED vars
  <2>1. /\ host' = host /\ little' = little /\ sent' = sent /\ out' = out /\ net' = net /\ state' = state
        /\ need' = need /\ got' = got /\ part' = part /\ received' = received /\ damaged' = damaged
    BY <1>8 DEF vars
  <2>2. Ends /\ Arrived
    BY DEF StreamInv
  <2>3. PICK off, str, rd : Layout(off) /\ Frames(off, str) /\ Reading(off, rd) /\ InOrder(str, rd)
    BY DEF StreamInv
  <2>4. Layout(off)' /\ Frames(off, str)'
    BY <2>1, <2>3, StreamKept
  <2>5. Reading(off, rd)'
    BY <2>1, <2>3 DEF Reading
  <2>6. InOrder(str, rd)'
    BY <2>1, <2>3 DEF InOrder
  <2>7. Arrived'
    BY <2>1, <2>2, ArrivedKept
  <2>8. Ends'
    BY <2>1, <2>2, EndsKept DEF Ends
  <2> QED  BY <2>4, <2>5, <2>6, <2>7, <2>8 DEF StreamInv
<1> QED  BY <1>1, <1>2, <1>3, <1>4, <1>5, <1>6, <1>7, <1>8 DEF Next

\* The bytes read, in the connection and to be written are always the rest of
\* one stream of framed segments.
THEOREM StreamInvariant == Spec => []StreamInv
BY InitStream, StreamStep, PTL DEF Spec

\* However write() and read() cut the stream of _tcp_io, wherever it breaks or
\* is closed, and whatever the number and the lengths of the segments:
\* _network_recv_packet returns whole segments, in order, each once.
THEOREM SegmentsArriveWhole == Spec => []SegmentsWhole
<1>1. StreamInv => SegmentsWhole
  <2> SUFFICES ASSUME StreamInv PROVE SegmentsWhole
    OBVIOUS
  <2>1. Ends /\ Arrived
    BY DEF StreamInv
  <2>2. DOMAIN received = 1..Len(received)
    BY <2>1 DEF Arrived
  <2>3. ASSUME NEW i \in DOMAIN received
        PROVE  Len(received[i]) = Len(sent[i]) /\ (i \notin damaged => received[i] = sent[i])
    BY <2>1, <2>2 DEF Arrived, Arrives
  <2> QED  BY <2>1, <2>3 DEF SegmentsWhole, Ends, Arrived
<1> QED  BY <1>1, StreamInvariant, PTL

\* The assertion of stcp_network_recv tells every damaged segment from a whole
\* one, for all pairs of byte orders, all lengths and any number of byte values.
THEOREM ChecksumDecides == Spec => []ChecksumExact
<1>1. StreamInv => ChecksumExact
  <2> SUFFICES ASSUME StreamInv, OneHost \/ Named, NEW i \in DOMAIN received
               PROVE  VerifyChecksum(received[i]) <=> i \notin damaged
    BY DEF ChecksumExact
  <2>1. Ends /\ Arrived
    BY DEF StreamInv
  <2>2. i \in 1..Len(received) /\ i \in 1..Len(sent)
    BY <2>1 DEF Arrived, Ends
  <2> DEFINE src == host.wireS
             dst == host.nameR
             p == sent[i]
             q == received[i]
  <2>3. /\ host.nameS \in Byte \X Byte /\ src \in Byte \X Byte
        /\ dst \in Byte \X Byte /\ host.wireR \in Byte \X Byte /\ little.R \in BOOLEAN
    BY <2>1, HostFacts DEF Ends
  <2>4. Summed(p) /\ Arrives(i, q)
    BY <2>1, <2>2 DEF Ends, Arrived
  <2>5. p \in Packet /\ q \in Packet /\ Len(q) = Len(p)
    BY <2>4 DEF Summed, Arrives, Packet
  <2>6. \A r \in Packet : NetSum(host.nameS, host.wireR, r) = NetSum(src, dst, r)
    <3>1. CASE Named
      BY <3>1 DEF Named
    <3>2. CASE OneHost
      <4>1. src = host.wireR /\ dst = host.nameS
        BY <3>2 DEF OneHost
      <4> QED  BY <4>1, <2>3, TotalExchanged
    <3> QED  BY <3>1, <3>2
  <2>7. StoredSum(p) = Hton(NetSum(src, dst, p))
    BY <2>4, <2>5, <2>6 DEF Summed
  <2>8. VerifyChecksum(q) <=> StoredSum(q) = Hton(NetSum(src, dst, q))
    BY <2>3, <2>5, VerifyExact DEF VerifyChecksum
  <2>9. CASE i \notin damaged
    BY <2>4, <2>7, <2>8, <2>9 DEF Arrives
  <2>10. CASE i \in damaged
    <3>1. PICK j \in 1..Len(q) : q[j] # p[j] /\ \A m \in 1..Len(q) : m # j => q[m] = p[m]
      BY <2>4, <2>10 DEF Arrives
    <3> HIDE DEF src, dst, p, q
    <3>2. StoredSum(q) # Hton(NetSum(src, dst, q))
      BY <3>1, <2>3, <2>5, <2>7, DamageFound
    <3> QED  BY <3>2, <2>8, <2>10 DEF q
  <2> QED  BY <2>9, <2>10
<1> QED  BY <1>1, StreamInvariant, PTL

\* Pseudo header and segment in one buffer have the sum of their parts.
LEMMA DataSum ==
  ASSUME NEW src \in Byte \X Byte, NEW dst \in Byte \X Byte, NEW p \in Packet
  PROVE  SumWords(PseudoHeader(src, dst, Len(p)) \o Blank(p), BigEndian)
           + OddByte(PseudoHeader(src, dst, Len(p)) \o Blank(p), BigEndian)
         = Total(src, dst, p, BigEndian)
<1> DEFINE h == PseudoHeader(src, dst, Len(p))
           b == Blank(p)
           d == h \o b
<1>1. Len(p) \in 0..(W - 1) /\ Len(p) \in Nat /\ Len(p) > 0
  BY PacketFacts
<1>2. h \in Seq(Byte) /\ Len(h) = 8
  BY <1>1, PseudoSum, ByteOrders
<1>3. b \in Seq(Byte) /\ Len(b) = Len(p) /\ OddByte(b, BigEndian) = OddByte(p, BigEndian)
  BY BlankFacts, ByteOrders DEF Packet
<1>4. Total(src, dst, p, BigEndian) = SumWords(h, BigEndian) + SumWords(b, BigEndian) + OddByte(p, BigEndian)
  BY Zenon DEF Total
<1> HIDE DEF h, b
<1>5. Len(h) % 2 = 0
  BY <1>2
<1>6. SumWords(d, BigEndian) = SumWords(h, BigEndian) + SumWords(b, BigEndian)
  BY <1>2, <1>3, <1>5, ByteOrders, SumWordsConcat
<1>7. Len(d) = 8 + Len(p) /\ d[Len(d)] = b[Len(b)]
  <2>1. Len(d) = Len(h) + Len(b) /\ \A i \in 1..Len(b) : d[Len(h) + i] = b[i]
    <3>1. \A s, t \in Seq(Byte) : /\ Len(s \o t) = Len(s) + Len(t)
                                  /\ \A i \in 1..Len(t) : (s \o t)[Len(s) + i] = t[i]
      OBVIOUS
    <3> QED  BY <3>1, <1>2, <1>3
  <2>2. Len(b) \in 1..Len(b)
    BY <1>1, <1>3
  <2>3. d[Len(h) + Len(b)] = b[Len(b)]
    BY <2>1, <2>2
  <2> HIDE DEF d
  <2> QED  BY <2>1, <2>3, <1>2, <1>3
<1>8. OddByte(d, BigEndian) = OddByte(b, BigEndian)
  <2>1. \A n \in Nat : (8 + n) % 2 = n % 2
    OBVIOUS
  <2>2. Len(d) % 2 = Len(b) % 2
    BY <2>1, <1>1, <1>3, <1>7
  <2> HIDE DEF d
  <2> QED  BY <2>2, <1>7 DEF OddByte
<1> HIDE DEF d
<1>9. SumWords(d, BigEndian) + OddByte(d, BigEndian) = Total(src, dst, p, BigEndian)
  BY <1>3, <1>4, <1>6, <1>8, Zenon
<1> QED  BY <1>9, Zenon DEF d, h, b

\* The two checksums of the repository compute the same function of RFC 1071:
\* the one with two folds after an int sum, and the one that folds in a loop.
THEOREM ChecksumsAgree == Spec => []SumsAgree
<1>1. StreamInv => SumsAgree
  <2> SUFFICES ASSUME StreamInv, NEW i \in DOMAIN sent
               PROVE  LET data == PseudoHeader(host.nameS, host.wireR, Len(sent[i])) \o Blank(sent[i])
                          c == (W - 1) - OnesComplementSum(data)
                      IN /\ StoredSum(sent[i]) = Hton(c)
                         /\ Cksum(data) = IF c = 0 THEN W - 1 ELSE c
    BY DEF SumsAgree
  <2> DEFINE data == PseudoHeader(host.nameS, host.wireR, Len(sent[i])) \o Blank(sent[i])
             c == (W - 1) - OnesComplementSum(data)
             total == Total(host.nameS, host.wireR, sent[i], BigEndian)
             sum == SumWords(data, BigEndian) + OddByte(data, BigEndian)
  <2>1. Ends
    BY DEF StreamInv
  <2>2. Summed(sent[i])
    BY <2>1 DEF Ends
  <2>3. /\ host.nameS \in Byte \X Byte /\ host.wireR \in Byte \X Byte /\ sent[i] \in Packet
    BY <2>1, <2>2, HostFacts DEF Ends, Summed
  <2>4. sum = total /\ total \in Nat /\ total > 0
    BY <2>3, DataSum, TotalFacts, ByteOrders
  <2>5. OnesComplementSum(data) = Ones(sum)
    <3> HIDE DEF data
    <3> QED  BY DEF OnesComplementSum, Ones
  <2>6. StoredSum(sent[i]) = Hton((W - 1) - Ones(total))
    BY <2>2 DEF Summed, NetSum
  <2> HIDE DEF data, total, sum
  <2>7. StoredSum(sent[i]) = Hton(c)
    BY <2>4, <2>5, <2>6
  <2>8. CksumSum(sum) = Ones(sum)
    BY <2>4, CksumSumIsOnes
  <2>9. Cksum(data) = IF (W - 1) - CksumSum(sum) = 0 THEN W - 1 ELSE (W - 1) - CksumSum(sum)
    BY DEF Cksum, sum
  <2>10. Cksum(data) = IF c = 0 THEN W - 1 ELSE c
    BY <2>5, <2>8, <2>9
  <2> QED  BY <2>7, <2>10 DEF data
<1> QED  BY <1>1, StreamInvariant, PTL
=============================================================================
