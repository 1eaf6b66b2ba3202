----------------------------- MODULE WordProofs -----------------------------
(***************************************************************************)
(* Arithmetic the proofs share: words and their digits, quotients and      *)
(* rests, products.                                                        *)
(***************************************************************************)
EXTENDS Words, Integers, TLAPS

\* A word is its two digits.
LEMMA Digits ==
  ASSUME NEW w \in Word
  PROVE  /\ w % Radix \in Digit /\ w \div Radix \in Digit
         /\ w = Radix * (w \div Radix) + (w % Radix)
<1>1. Radix \in Nat /\ Radix > 1
  BY RadixAssumption
<1>2. w \in Nat /\ w < Radix * Radix
  BY <1>1 DEF Word, WordSize
<1> DEFINE q == w \div Radix
           r == w % Radix
<1>3. q \in Int /\ r \in 0 .. Radix - 1 /\ w = Radix * q + r
  BY <1>1, <1>2
<1> HIDE DEF q, r
<1>4. q >= 0
  BY <1>1, <1>2, <1>3
<1>5. q < Radix
  BY <1>1, <1>2, <1>3
<1>6. q \in Digit /\ r \in Digit
  BY <1>1, <1>3, <1>4, <1>5 DEF Digit
<1>7. QED
  BY <1>3, <1>6 DEF q, r

\* Two digits make a word.
LEMMA FromDigits ==
  ASSUME NEW l \in Digit, NEW h \in Digit
  PROVE  l + h * Radix \in Word /\ h * Radix \in Word /\ l \in Word
<1>1. Radix \in Nat /\ Radix > 1
  BY RadixAssumption
<1>2. l \in 0 .. Radix - 1 /\ h \in 0 .. Radix - 1
  BY DEF Digit
<1>3. h * Radix \in Nat /\ h * Radix <= (Radix - 1) * Radix
  BY <1>1, <1>2
<1>4. (Radix - 1) * Radix = Radix * Radix - Radix
  BY <1>1
<1>5. QED
  BY <1>1, <1>2, <1>3, <1>4 DEF Word, WordSize

\* There is a word, and a full turn is longer than any.
LEMMA TurnIsPositive == WordSize \in Nat \ {0} /\ 0 \in Word
<1>1. Radix \in Nat /\ Radix > 1
  BY RadixAssumption
<1>2. Radix * Radix \in Nat /\ Radix * Radix >= Radix
  BY <1>1
<1>3. QED
  BY <1>1, <1>2 DEF Word, WordSize

\* Writing one half of a word leaves a word.
LEMMA HalvesWritten ==
  ASSUME NEW w \in Word, NEW v \in Digit
  PROVE  WithLow(w, v) \in Word /\ WithHigh(w, v) \in Word
<1> DEFINE q == w \div Radix
           r == w % Radix
<1>1. q \in Digit /\ r \in Digit /\ w = Radix * q + r
  BY Digits
<1>2. WithLow(w, v) = w - r + v /\ WithHigh(w, v) = r + v * Radix
  BY DEF WithLow, WithHigh
<1> HIDE DEF q, r
<1>3. Radix \in Nat
  BY RadixAssumption
<1>4. w - r + v = v + q * Radix
  BY <1>1, <1>3 DEF Digit
<1>5. QED
  BY <1>1, <1>2, <1>4, FromDigits

\* Division is what it should be.
LEMMA Quotient ==
  ASSUME NEW p \in Nat \ {0}, NEW q \in Int, NEW r \in 0 .. p - 1
  PROVE  (q * p + r) \div p = q
  OBVIOUS

\* A number is its quotient and its rest.
LEMMA QuotientAndRest ==
  ASSUME NEW p \in Nat \ {0}, NEW x \in Nat
  PROVE  /\ x \div p \in Nat /\ x % p \in 0 .. p - 1
         /\ x = (x \div p) * p + (x % p)
  OBVIOUS

\* The rest of a number that is given as quotient and rest.
LEMMA Rest ==
  ASSUME NEW p \in Nat \ {0}, NEW q \in Int, NEW r \in 0 .. p - 1
  PROVE  (q * p + r) % p = r
  OBVIOUS

\* A number below the modulus is its own rest.
LEMMA WithinTurn ==
  ASSUME NEW p \in Nat \ {0}, NEW x \in 0 .. p - 1
  PROVE  x % p = x
  OBVIOUS

\* Products of natural numbers, and their order.
LEMMA Products ==
  ASSUME NEW a \in Nat, NEW b \in Nat, NEW c \in Nat, a <= b
  PROVE  a * c \in Nat /\ b * c \in Nat /\ a * c <= b * c
<1> DEFINE d == b - a
<1>1. d \in Nat /\ b = a + d
  OBVIOUS
<1> HIDE DEF d
<1>2. a * c \in Nat /\ d * c \in Nat
  BY <1>1
<1>3. (a + d) * c = a * c + d * c
  BY <1>1
<1>4. QED
  BY <1>1, <1>2, <1>3

\* How many blocks of s bytes hold n bytes.
LEMMA Ceiling ==
  ASSUME NEW n \in Nat \ {0}, NEW s \in Nat \ {0}
  PROVE  LET k == (n + s - 1) \div s IN
         k \in Nat \ {0} /\ k * s >= n /\ k * s - s < n
<1> DEFINE x == n + s - 1
           k == x \div s
           r == x % s
<1>1. x \in Nat /\ x >= s
  OBVIOUS
<1>2. k \in Nat /\ r \in 0 .. s - 1 /\ x = k * s + r
  BY <1>1, QuotientAndRest
<1>3. x = n + s - 1
  OBVIOUS
<1> HIDE DEF k, r, x
<1>4. k # 0
  BY <1>1, <1>2
<1>5. k * s \in Int
  BY <1>2
<1>6. k * s >= n /\ k * s - s < n
  BY <1>2, <1>3, <1>5
<1>7. QED
  BY <1>2, <1>4, <1>6 DEF k, x

\* Whole turns of a page register do not count.
LEMMA PageWraps ==
  ASSUME NEW pages \in Nat \ {0}, NEW size \in Nat \ {0}, NEW page \in Nat,
         NEW x \in 0 .. size - 1
  PROVE  /\ (page * size + x) % (pages * size) = (page % pages) * size + x
         /\ (page % pages) * size + x \in 0 .. pages * size - 1
<1> DEFINE q == page \div pages
           p == page % pages
           m == pages * size
<1>1. q \in Nat /\ p \in 0 .. pages - 1 /\ page = q * pages + p
  BY QuotientAndRest
<1>2. page * size + x = q * (pages * size) + (p * size + x)
  <2> HIDE DEF q, p
  <2>1. (q * pages + p) * size = q * (pages * size) + p * size
    BY <1>1
  <2>2. p * size \in Int /\ q * (pages * size) \in Int
    BY <1>1
  <2>3. QED
    BY <1>1, <2>1, <2>2
<1> HIDE DEF q, p
<1>3. p \in Nat /\ p + 1 <= pages /\ p + 1 \in Nat
  BY <1>1
<1>4. (p + 1) * size <= m /\ m \in Nat
  BY <1>3, Products
<1>5. (p + 1) * size = p * size + size /\ p * size \in Nat
  BY <1>3
<1> HIDE DEF m
<1>6. m \in Nat \ {0} /\ p * size + x \in 0 .. m - 1
  BY <1>4, <1>5
<1>7. (q * m + (p * size + x)) % m = p * size + x
  BY <1>1, <1>6, Rest
<1>8. QED
  BY <1>2, <1>6, <1>7 DEF m, p
=============================================================================
