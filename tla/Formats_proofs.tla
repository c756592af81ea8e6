--------------------------- MODULE Formats_proofs ---------------------------
(***************************************************************************)
(* That what comes in from outside is read as what it means: bodies of the *)
(* CDN (Content), for any cipher, any width of a byte and of a block, and  *)
(* any bytes a server may send; listings of Steam (Vdf), for any text, any *)
(* layout and any number.                                                  *)
(*                                                                         *)
(* What these modules compute by recursion over a sequence is known here   *)
(* by its base and its step; that it holds at every place follows from the *)
(* least place at which it would not.                                      *)
(***************************************************************************)
EXTENDS Content, Vdf, FiniteSetTheorems, WellFoundedInduction, TLAPS

----------------------------------------------------------------------------
(***************************************************************************)
(* Induction over the places of a sequence, by the least counterexample.   *)
(***************************************************************************)
LEMMA LeastOf ==
  ASSUME NEW T, T \subseteq Nat, T # {}
  PROVE  \E m \in T : \A k \in T : m <= k
<1>1. PICK m \in T : \A k \in T : ~(<<k, m>> \in OpToRel(<, Nat))
  BY WFMin, NatLessThanWellFounded
<1>2. ASSUME NEW k \in T PROVE m <= k
  <2>1. m \in Nat /\ k \in Nat /\ ~(k < m)
    BY <1>1 DEF OpToRel
  <2> QED BY <2>1
<1> QED BY <1>2

\* What holds at zero and goes from one to the next holds up to n.
LEMMA UpTo ==
  ASSUME NEW n \in Nat, NEW T, 0 \in T, \A k \in 0 .. n - 1 : k \in T => k + 1 \in T
  PROVE  0 .. n \subseteq T
<1> DEFINE U == {k \in 0 .. n : k \notin T}
<1>1. SUFFICES ASSUME U # {} PROVE FALSE
  OBVIOUS
<1>a. U \subseteq Nat
  OBVIOUS
<1> HIDE DEF U
<1>2. PICK m \in U : \A k \in U : m <= k
  BY <1>1, <1>a, LeastOf
<1>3. m \in 0 .. n /\ m \notin T /\ m # 0
  BY DEF U
<1>4. m - 1 \in 0 .. n - 1 /\ m - 1 \in T
  BY <1>2, <1>3 DEF U
<1> QED BY <1>3, <1>4

\* There is a function that begins with base and goes on with next.
Steps(f, n, S, base, next) ==
  /\ f \in [0 .. n -> S] /\ f[0] = base
  /\ \A k \in 1 .. n : f[k] = next[k][f[k - 1]]

LEMMA Recursion ==
  ASSUME NEW n \in Nat, NEW S, NEW base \in S, NEW next \in [1 .. n -> [S -> S]]
  PROVE  \E f : Steps(f, n, S, base, next)
<1> DEFINE Upto(m, f) == Steps(f, m, S, base, next)
           T == {m \in 0 .. n : \E f : Upto(m, f)}
<1>1. 0 \in T
  <2>1. Upto(0, [k \in 0 .. 0 |-> base])
    BY DEF Steps
  <2> HIDE DEF Upto
  <2>2. 0 \in 0 .. n
    OBVIOUS
  <2> QED BY <2>1, <2>2
<1>2. ASSUME NEW m \in 0 .. n - 1, m \in T PROVE m + 1 \in T
  <2>1. PICK f : Upto(m, f)
    BY <1>2
  <2> DEFINE g == [k \in 0 .. m + 1 |-> IF k = m + 1 THEN next[m + 1][f[m]] ELSE f[k]]
  <2>2. m \in Nat /\ m + 1 \in 1 .. n /\ f[m] \in S
    BY <2>1 DEF Steps
  <2>3. next[m + 1][f[m]] \in S
    BY <2>2
  <2>4. g \in [0 .. m + 1 -> S] /\ \A k \in 0 .. m : g[k] = f[k]
    BY <2>1, <2>2, <2>3 DEF Steps
  <2>5. g[m + 1] = next[m + 1][f[m]]
    BY <2>2
  <2> HIDE DEF g
  <2>6. ASSUME NEW k \in 1 .. m + 1 PROVE g[k] = next[k][g[k - 1]]
    <3>1. CASE k = m + 1
      BY <2>2, <2>4, <2>5, <3>1
    <3>2. CASE k # m + 1
      <4>1. k \in 1 .. m /\ k - 1 \in 0 .. m /\ k \in 0 .. m
        BY <2>2, <3>2
      <4> QED BY <2>1, <2>4, <4>1 DEF Steps
    <3> QED BY <3>1, <3>2
  <2>7. Upto(m + 1, g)
    BY <2>1, <2>2, <2>4, <2>6 DEF Steps
  <2> QED BY <2>2, <2>7
<1> HIDE DEF T
<1>3. 0 .. n \subseteq T
  BY <1>1, <1>2, UpTo
<1>4. n \in T
  BY <1>3
<1> QED BY <1>4 DEF T

----------------------------------------------------------------------------
(***************************************************************************)
(* Bytes in blocks.                                                        *)
(***************************************************************************)
LEMMA BlockLenIs == BlockLen \in Nat \ {0} /\ BlockLen \in Byte /\ ByteMax \in Nat
BY CryptoAssumption DEF Byte

\* A position in joined blocks is a position in one of them.
LEMMA Place ==
  ASSUME NEW N \in Nat, NEW k \in 1 .. N * BlockLen
  PROVE  /\ ((k - 1) \div BlockLen) + 1 \in 1 .. N
         /\ ((k - 1) % BlockLen) + 1 \in 1 .. BlockLen
         /\ k = ((((k - 1) \div BlockLen) + 1) - 1) * BlockLen + (((k - 1) % BlockLen) + 1)
<1> DEFINE q == (k - 1) \div BlockLen
           r == (k - 1) % BlockLen
<1>1. BlockLen \in Nat \ {0} /\ N * BlockLen \in Nat /\ k - 1 \in Nat /\ k - 1 < N * BlockLen
  BY BlockLenIs
<1>2. q \in Nat /\ r \in 0 .. BlockLen - 1 /\ k - 1 = q * BlockLen + r
  BY <1>1
<1> HIDE DEF q, r
<1>3. q < N
  BY <1>1, <1>2
<1>4. q + 1 \in 1 .. N /\ r + 1 \in 1 .. BlockLen /\ k = ((q + 1) - 1) * BlockLen + (r + 1)
  BY <1>1, <1>2, <1>3
<1> QED BY <1>4 DEF q, r

LEMMA PlaceOf ==
  ASSUME NEW N \in Nat, NEW n \in 1 .. N, NEW k \in 1 .. BlockLen
  PROVE  LET p == (n - 1) * BlockLen + k
         IN  /\ p \in 1 .. N * BlockLen
             /\ ((p - 1) \div BlockLen) + 1 = n
             /\ ((p - 1) % BlockLen) + 1 = k
<1> DEFINE p == (n - 1) * BlockLen + k
           q == n - 1
           r == k - 1
<1>1. BlockLen \in Nat \ {0} /\ q \in Nat /\ q < N /\ r \in 0 .. BlockLen - 1 /\ p - 1 = q * BlockLen + r
  BY BlockLenIs
<1> HIDE DEF q, r
<1>2. (q * BlockLen + r) \div BlockLen = q /\ (q * BlockLen + r) % BlockLen = r
  BY <1>1
<1>3. q * BlockLen + r < N * BlockLen
  BY <1>1
<1>4. q * BlockLen \in Nat /\ N * BlockLen \in Nat /\ p \in Int
  BY <1>1, BlockLenIs
<1>5. p \in 1 .. N * BlockLen
  BY <1>1, <1>3, <1>4
<1>6. q + 1 = n /\ r + 1 = k
  BY DEF q, r
<1> HIDE DEF p
<1> QED BY <1>1, <1>2, <1>5, <1>6 DEF p

LEMMA Multiple ==
  ASSUME NEW N \in Nat
  PROVE  (N * BlockLen) \div BlockLen = N /\ (N * BlockLen) % BlockLen = 0
BY BlockLenIs

LEMMA BlockRest ==
  ASSUME NEW q \in Nat, NEW r \in 0 .. BlockLen - 1
  PROVE  (q * BlockLen + r) % BlockLen = r
BY BlockLenIs

LEMMA JoinedBlocks ==
  ASSUME NEW list \in Seq(Blocks)
  PROVE  /\ Joined(list) \in Seq(Byte)
         /\ Len(Joined(list)) = Len(list) * BlockLen
         /\ Whole(Joined(list)) /\ BlocksIn(Joined(list)) = Len(list)
         /\ \A n \in 1 .. Len(list) : BlockAt(Joined(list), n) = list[n]
<1> DEFINE N == Len(list)
           j == Joined(list)
<1>1. N \in Nat /\ N * BlockLen \in Nat /\ \A n \in 1 .. N : list[n] \in [1 .. BlockLen -> Byte]
  BY BlockLenIs DEF Blocks
<1>2. ASSUME NEW k \in 1 .. N * BlockLen
      PROVE  list[((k - 1) \div BlockLen) + 1][((k - 1) % BlockLen) + 1] \in Byte
  BY <1>1, Place, Zenon
<1>3. j \in [1 .. N * BlockLen -> Byte]
  BY <1>2 DEF Joined
<1>4. j \in Seq(Byte) /\ Len(j) = N * BlockLen
  BY <1>1, <1>3
<1>5. (N * BlockLen) \div BlockLen = N /\ (N * BlockLen) % BlockLen = 0
  BY <1>1, Multiple
<1>6. Whole(j) /\ BlocksIn(j) = N
  BY <1>1, <1>4, <1>5 DEF Whole, BlocksIn
<1>7. ASSUME NEW n \in 1 .. N PROVE BlockAt(j, n) = list[n]
  <2>1. ASSUME NEW k \in 1 .. BlockLen PROVE j[(n - 1) * BlockLen + k] = list[n][k]
    <3> DEFINE p == (n - 1) * BlockLen + k
    <3>1. /\ p \in 1 .. N * BlockLen
          /\ ((p - 1) \div BlockLen) + 1 = n /\ ((p - 1) % BlockLen) + 1 = k
      BY <1>1, PlaceOf
    <3> HIDE DEF p
    <3>2. j[p] = list[((p - 1) \div BlockLen) + 1][((p - 1) % BlockLen) + 1]
      BY <3>1 DEF Joined
    <3> QED BY <3>1, <3>2 DEF p
  <2> HIDE DEF j
  <2> QED BY <1>1, <2>1 DEF BlockAt
<1> QED BY <1>4, <1>6, <1>7

LEMMA WholeBytes ==
  ASSUME NEW bytes \in Seq(Byte), Whole(bytes)
  PROVE  /\ BlocksIn(bytes) \in Nat /\ Len(bytes) = BlocksIn(bytes) * BlockLen
         /\ \A n \in 1 .. BlocksIn(bytes) : BlockAt(bytes, n) \in Blocks
         /\ \A list \in Seq(Blocks) :
              /\ Len(list) = BlocksIn(bytes)
              /\ \A n \in 1 .. BlocksIn(bytes) : list[n] = BlockAt(bytes, n)
              => Joined(list) = bytes
<1> DEFINE N == BlocksIn(bytes)
<1>1. Len(bytes) \in Nat /\ Len(bytes) % BlockLen = 0 /\ \A k \in 1 .. Len(bytes) : bytes[k] \in Byte
  BY DEF Whole
<1>2. N \in Nat /\ Len(bytes) = N * BlockLen
  BY <1>1, BlockLenIs DEF BlocksIn
<1> HIDE DEF N
<1>3. ASSUME NEW n \in 1 .. N PROVE BlockAt(bytes, n) \in Blocks
  <2>1. ASSUME NEW k \in 1 .. BlockLen PROVE bytes[(n - 1) * BlockLen + k] \in Byte
    BY <1>1, <1>2, PlaceOf
  <2> QED BY <2>1 DEF BlockAt, Blocks
<1>4. ASSUME NEW list \in Seq(Blocks), Len(list) = N, \A n \in 1 .. N : list[n] = BlockAt(bytes, n)
      PROVE  Joined(list) = bytes
  <2>1. Joined(list) \in Seq(Byte) /\ Len(Joined(list)) = Len(bytes)
    BY <1>2, <1>4, JoinedBlocks
  <2>2. ASSUME NEW k \in 1 .. Len(bytes) PROVE Joined(list)[k] = bytes[k]
    <3> DEFINE q == ((k - 1) \div BlockLen) + 1
               r == ((k - 1) % BlockLen) + 1
    <3>1. q \in 1 .. N /\ r \in 1 .. BlockLen /\ k = (q - 1) * BlockLen + r
      BY <1>2, Place
    <3>2. Joined(list)[k] = list[q][r]
      BY <1>2, <1>4 DEF Joined
    <3> HIDE DEF q, r
    <3>3. list[q] = BlockAt(bytes, q)
      BY <1>4, <3>1
    <3>4. list[q][r] = bytes[(q - 1) * BlockLen + r]
      BY <3>1, <3>3 DEF BlockAt
    <3> QED BY <3>1, <3>2, <3>4
  <2> QED BY <2>1, <2>2
<1> QED BY <1>2, <1>3, <1>4 DEF N

----------------------------------------------------------------------------
(***************************************************************************)
(* Padding, and the cipher there and back.                                 *)
(***************************************************************************)
LEMMA PaddedIs ==
  ASSUME NEW plain \in Seq(Byte)
  PROVE  LET n == BlockLen - (Len(plain) % BlockLen)
         IN  /\ n \in 1 .. BlockLen /\ n \in Byte
             /\ Padded(plain) \in Seq(Byte) /\ Len(Padded(plain)) = Len(plain) + n
             /\ Whole(Padded(plain)) /\ BlocksIn(Padded(plain)) >= 1
             /\ \A k \in 1 .. Len(plain) : Padded(plain)[k] = plain[k]
             /\ \A k \in Len(plain) + 1 .. Len(plain) + n : Padded(plain)[k] = n
<1> DEFINE L == Len(plain)
           n == BlockLen - (L % BlockLen)
           pad == [k \in 1 .. n |-> n]
<1>1. L \in Nat /\ BlockLen \in Nat \ {0} /\ BlockLen \in Byte /\ ByteMax \in Nat
  BY BlockLenIs
<1>2. n \in 1 .. BlockLen /\ n \in Byte
  BY <1>1 DEF Byte
<1>3. (L + n) % BlockLen = 0 /\ (L + n) \div BlockLen >= 1
  <2> HIDE DEF L
  <2>1. L = (L \div BlockLen) * BlockLen + (L % BlockLen) /\ L \div BlockLen \in Nat
    BY <1>1
  <2> DEFINE q == L \div BlockLen
  <2>2. L + n = (q + 1) * BlockLen /\ q + 1 \in Nat
    BY <1>1, <2>1
  <2> HIDE DEF q, n
  <2>3. ((q + 1) * BlockLen) \div BlockLen = q + 1 /\ ((q + 1) * BlockLen) % BlockLen = 0
    BY <2>2, Multiple
  <2>4. q \in Nat
    BY <2>1 DEF q
  <2> QED BY <2>2, <2>3, <2>4
<1> HIDE DEF n, L
<1>4. pad \in Seq(Byte) /\ Len(pad) = n
  BY <1>2
<1>5. Padded(plain) = plain \o pad
  BY DEF Padded, n, L
<1> HIDE DEF pad
<1>6. Padded(plain) \in Seq(Byte) /\ Len(Padded(plain)) = L + n
  <2>1. plain \o pad \in Seq(Byte) /\ Len(plain \o pad) = Len(plain) + Len(pad)
    BY <1>4
  <2> QED BY <1>4, <1>5, <2>1 DEF L
<1>7. ASSUME NEW k \in 1 .. L PROVE Padded(plain)[k] = plain[k]
  <2>1. k \in 1 .. Len(plain) + Len(pad) /\ k <= Len(plain)
    BY <1>1, <1>2, <1>4 DEF L
  <2> QED BY <1>4, <1>5, <2>1
<1>8. \A k \in L + 1 .. L + n : Padded(plain)[k] = n
  <2>1. ASSUME NEW k \in L + 1 .. L + n PROVE Padded(plain)[k] = n
    <3>1. k - L \in 1 .. n
      BY <1>1, <1>2
    <3>2. Padded(plain)[k] = pad[k - L]
      BY <1>1, <1>2, <1>4, <1>5, <3>1 DEF L
    <3> QED BY <3>1, <3>2 DEF pad
  <2> QED BY <2>1
<1>9. Whole(Padded(plain)) /\ BlocksIn(Padded(plain)) >= 1
  BY <1>3, <1>6 DEF Whole, BlocksIn
<1> QED BY <1>2, <1>6, <1>7, <1>8, <1>9 DEF n, L

\* A padding that was put on is taken off again.
LEMMA UnpadPadded ==
  ASSUME NEW plain \in Seq(Byte) PROVE Unpad(Padded(plain)) = Good(plain)
<1> DEFINE L == Len(plain)
           n == BlockLen - (L % BlockLen)
           p == Padded(plain)
<1>a. L \in Nat /\ BlockLen \in Nat
  BY BlockLenIs
<1>b. /\ n \in 1 .. BlockLen
      /\ p \in Seq(Byte) /\ Len(p) = L + n
      /\ \A k \in 1 .. L : p[k] = plain[k]
      /\ \A k \in L + 1 .. L + n : p[k] = n
  BY PaddedIs, Zenon
<1>1. /\ n \in 1 .. BlockLen /\ L \in Nat /\ BlockLen \in Nat
      /\ p \in Seq(Byte) /\ Len(p) = L + n
      /\ \A k \in 1 .. L : p[k] = plain[k]
      /\ \A k \in L + 1 .. L + n : p[k] = n
  BY <1>a, <1>b
<1> HIDE DEF p, n
<1>2. p # <<>> /\ Last(p) = n
  BY <1>1 DEF Last
<1>3. SubSeq(p, 1, Len(p) - n) = plain
  <2>1. Len(p) - n = L
    BY <1>1
  <2>2. SubSeq(p, 1, L) \in Seq(Byte) /\ Len(SubSeq(p, 1, L)) = L
        /\ \A k \in 1 .. L : SubSeq(p, 1, L)[k] = p[k]
    BY <1>1
  <2> QED BY <1>1, <2>1, <2>2
<1>4. Len(p) - n + 1 .. Len(p) = L + 1 .. L + n
  BY <1>1
<1>5. ~(n = 0 \/ n > BlockLen \/ n > Len(p) \/ \E k \in Len(p) - n + 1 .. Len(p) : p[k] # n)
  BY <1>1, <1>4
<1>6. Unpad(p) = Good(SubSeq(p, 1, Len(p) - n))
  BY <1>2, <1>5 DEF Unpad
<1> QED BY <1>3, <1>6 DEF p

\* A padding that is taken off was put on by Padded.
LEMMA PaddedUnpad ==
  ASSUME NEW b \in Seq(Byte), Whole(b), Unpad(b).ok
  PROVE  /\ Unpad(b) = Good(Unpad(b).out) /\ Unpad(b).out \in Seq(Byte)
         /\ Padded(Unpad(b).out) = b /\ Len(Unpad(b).out) < Len(b)
<1> DEFINE n == Last(b)
           L == Len(b) - n
           plain == SubSeq(b, 1, L)
<1>1. BlockLen \in Nat \ {0} /\ Len(b) \in Nat /\ Len(b) % BlockLen = 0 /\ ByteMax \in Nat
  BY BlockLenIs DEF Whole
<1>2. /\ b # <<>> /\ ~(n = 0) /\ ~(n > BlockLen) /\ ~(n > Len(b))
      /\ \A k \in L + 1 .. Len(b) : b[k] = n
      /\ Unpad(b) = Good(plain)
  BY DEF Unpad, NotOk
<1>3. n \in Byte /\ n \in 1 .. BlockLen /\ L \in Nat /\ L < Len(b)
  <2>1. Len(b) > 0
    BY <1>1, <1>2
  <2>2. n \in Byte
    BY <2>1, <1>1 DEF Last
  <2> QED BY <1>1, <1>2, <2>2 DEF Byte
<1> HIDE DEF n, L
<1>4. plain \in Seq(Byte) /\ Len(plain) = L /\ \A k \in 1 .. L : plain[k] = b[k]
  BY <1>1, <1>3
<1> HIDE DEF plain
<1>5. Unpad(b).out = plain
  BY <1>2 DEF Good
<1>6. BlockLen - (L % BlockLen) = n
  <2> DEFINE q == Len(b) \div BlockLen
  <2>1. Len(b) = q * BlockLen /\ q \in Nat /\ q >= 1
    BY <1>1, <1>3
  <2> HIDE DEF q
  <2>2. L = (q - 1) * BlockLen + (BlockLen - n) /\ q - 1 \in Nat /\ BlockLen - n \in 0 .. BlockLen - 1
    BY <1>1, <1>3, <2>1 DEF L
  <2> DEFINE u == q - 1
             v == BlockLen - n
  <2> HIDE DEF u, v
  <2>3. (u * BlockLen + v) % BlockLen = v
    <3>1. u \in Nat /\ v \in 0 .. BlockLen - 1
      BY <2>2 DEF u, v
    <3> QED BY <3>1, BlockRest
  <2>4. L % BlockLen = v
    BY <2>2, <2>3 DEF u, v
  <2> QED BY <1>1, <1>3, <2>4 DEF v
<1>7. /\ Padded(plain) \in Seq(Byte) /\ Len(Padded(plain)) = Len(b)
      /\ \A k \in 1 .. L : Padded(plain)[k] = b[k]
      /\ \A k \in L + 1 .. Len(b) : Padded(plain)[k] = n
  <2>1. L + n = Len(b)
    BY <1>1, <1>3 DEF L
  <2> QED BY <1>3, <1>4, <1>6, <2>1, PaddedIs
<1>8. ASSUME NEW k \in 1 .. Len(b) PROVE Padded(plain)[k] = b[k]
  BY <1>2, <1>3, <1>7
<1>9. Padded(plain) = b
  BY <1>7, <1>8
<1> QED BY <1>2, <1>3, <1>4, <1>5, <1>9

LEMMA XoredBack ==
  ASSUME NEW a \in Blocks, NEW b \in Blocks
  PROVE  XorBlock(a, b) \in Blocks /\ XorBlock(XorBlock(a, b), b) = a
<1>1. \A k \in 1 .. BlockLen : a[k] \in Byte /\ b[k] \in Byte
  BY DEF Blocks
<1>2. \A k \in 1 .. BlockLen : Xor(a[k], b[k]) \in Byte /\ Xor(Xor(a[k], b[k]), b[k]) = a[k]
  BY <1>1, CryptoAssumption
<1>3. XorBlock(a, b) \in Blocks /\ \A k \in 1 .. BlockLen : XorBlock(a, b)[k] = Xor(a[k], b[k])
  BY <1>2 DEF XorBlock, Blocks
<1>4. XorBlock(XorBlock(a, b), b) = [k \in 1 .. BlockLen |-> a[k]]
  BY <1>2, <1>3 DEF XorBlock
<1> QED BY <1>3, <1>4 DEF Blocks

LEMMA Deciphered ==
  ASSUME NEW key \in DOMAIN Decrypt, NEW b \in Blocks
  PROVE  /\ Decrypt[key][b] \in Blocks /\ Encrypt(key, b) \in Blocks
         /\ Decrypt[key][Encrypt(key, b)] = b
         /\ Encrypt(key, Decrypt[key][b]) = b
<1>1. /\ Decrypt[key] \in [Blocks -> Blocks] /\ DOMAIN Decrypt[key] = Blocks
      /\ \A c \in Blocks : \E a \in Blocks : Decrypt[key][a] = c
      /\ \A a, c \in Blocks : Decrypt[key][a] = Decrypt[key][c] => a = c
  BY CryptoAssumption
<1>2. ASSUME NEW c \in Blocks PROVE Encrypt(key, c) \in Blocks /\ Decrypt[key][Encrypt(key, c)] = c
  <2>1. \E a \in DOMAIN Decrypt[key] : Decrypt[key][a] = c
    BY <1>1
  <2> QED BY <1>1, <2>1 DEF Encrypt
<1>3. Decrypt[key][b] \in Blocks
  BY <1>1
<1>4. Encrypt(key, Decrypt[key][b]) = b
  BY <1>1, <1>2, <1>3
<1> QED BY <1>2, <1>3, <1>4

----------------------------------------------------------------------------
(***************************************************************************)
(* The cipher.                                                             *)
(***************************************************************************)
LEMMA ChainedIs ==
  ASSUME NEW p \in Seq(Byte), Whole(p), NEW key \in DOMAIN Decrypt, NEW iv \in Blocks
  PROVE  LET c == Chained(p, key, iv)
         IN  /\ c \in [0 .. BlocksIn(p) -> Blocks] /\ c[0] = iv
             /\ \A n \in 1 .. BlocksIn(p) : c[n] = Encrypt(key, XorBlock(BlockAt(p, n), c[n - 1]))
<1> DEFINE N == BlocksIn(p)
           next == [n \in 1 .. N |-> [b \in Blocks |-> Encrypt(key, XorBlock(BlockAt(p, n), b))]]
           Chain(c) == c = [n \in 0 .. N |-> IF n = 0 THEN iv
                                             ELSE Encrypt(key, XorBlock(BlockAt(p, n), c[n - 1]))]
<1>1. N \in Nat /\ \A n \in 1 .. N : BlockAt(p, n) \in Blocks
  BY WholeBytes
<1> HIDE DEF N
<1>2. next \in [1 .. N -> [Blocks -> Blocks]]
  <2>1. ASSUME NEW n \in 1 .. N, NEW b \in Blocks
        PROVE  Encrypt(key, XorBlock(BlockAt(p, n), b)) \in Blocks
    BY <1>1, XoredBack, Deciphered
  <2> QED BY <2>1
<1>3. \A b \in Blocks : \A n \in 1 .. N : next[n][b] = Encrypt(key, XorBlock(BlockAt(p, n), b))
  OBVIOUS
<1> HIDE DEF next
<1>4. PICK f : Steps(f, N, Blocks, iv, next)
  BY <1>1, <1>2, Recursion
<1>5. Chain(f)
  <2>1. ASSUME NEW n \in 0 .. N
        PROVE  f[n] = IF n = 0 THEN iv ELSE Encrypt(key, XorBlock(BlockAt(p, n), f[n - 1]))
    <3>1. CASE n = 0
      BY <1>4, <3>1 DEF Steps
    <3>2. CASE n # 0
      <4>1. n \in 1 .. N /\ n - 1 \in 0 .. N
        BY <1>1, <3>2
      <4> QED BY <1>3, <1>4, <3>2, <4>1 DEF Steps
    <3> QED BY <3>1, <3>2
  <2>2. DOMAIN f = 0 .. N /\ f = [n \in DOMAIN f |-> f[n]]
    BY <1>4 DEF Steps
  <2> QED BY <2>1, <2>2
<1>6. Chained(p, key, iv) = CHOOSE c : Chain(c)
  BY DEF Chained, N
<1>7. Chain(Chained(p, key, iv))
  BY <1>5, <1>6
<1> DEFINE c == Chained(p, key, iv)
<1>8. /\ c = [n \in 0 .. N |-> c[n]] /\ c[0] = iv
      /\ \A n \in 1 .. N : c[n] = Encrypt(key, XorBlock(BlockAt(p, n), c[n - 1]))
  <2> HIDE DEF c
  <2>1. c = [n \in 0 .. N |-> IF n = 0 THEN iv ELSE Encrypt(key, XorBlock(BlockAt(p, n), c[n - 1]))]
    BY <1>7 DEF c
  <2>2. DOMAIN c = 0 .. N
    BY <2>1
  <2>3. c[0] = iv
    BY <1>1, <2>1
  <2>4. ASSUME NEW n \in 1 .. N PROVE c[n] = Encrypt(key, XorBlock(BlockAt(p, n), c[n - 1]))
    <3>1. n \in 0 .. N /\ n # 0
      OBVIOUS
    <3> QED BY <2>1, <3>1
  <2>5. c = [n \in 0 .. N |-> c[n]]
    BY <2>1
  <2> QED BY <2>3, <2>4, <2>5
<1>9. 0 .. N \subseteq {n \in 0 .. N : c[n] \in Blocks}
  <2> DEFINE T == {n \in 0 .. N : c[n] \in Blocks}
  <2>1. 0 \in T
    BY <1>1, <1>8
  <2>2. ASSUME NEW n \in 0 .. N - 1, n \in T PROVE n + 1 \in T
    <3>1. n + 1 \in 1 .. N /\ n + 1 \in 0 .. N /\ (n + 1) - 1 = n
      BY <1>1
    <3>2. XorBlock(BlockAt(p, n + 1), c[n]) \in Blocks
      BY <1>1, <2>2, <3>1, XoredBack
    <3>3. c[n + 1] = Encrypt(key, XorBlock(BlockAt(p, n + 1), c[n]))
      BY <1>8, <3>1
    <3> QED BY <3>1, <3>2, <3>3, Deciphered
  <2> HIDE DEF T
  <2> QED BY <1>1, <2>1, <2>2, UpTo DEF T
<1>10. c \in [0 .. N -> Blocks]
  BY <1>8, <1>9
<1> QED BY <1>8, <1>10 DEF N

LEMMA EncryptedIs ==
  ASSUME NEW key \in DOMAIN Decrypt, NEW plain \in Seq(Byte), NEW iv \in Blocks
  PROVE  LET p == Padded(plain)
             c == Chained(p, key, iv)
             raw == SymmetricEncrypt(plain, key, iv)
         IN  /\ raw \in Seq(Byte) /\ Whole(raw) /\ BlocksIn(raw) = BlocksIn(p) + 1
             /\ BlockAt(raw, 1) = Encrypt(key, iv)
             /\ \A n \in 1 .. BlocksIn(p) : BlockAt(raw, n + 1) = c[n]
<1> DEFINE p == Padded(plain)
           c == Chained(p, key, iv)
           N == BlocksIn(p)
           list == [n \in 1 .. N + 1 |-> IF n = 1 THEN Encrypt(key, iv) ELSE c[n - 1]]
           raw == SymmetricEncrypt(plain, key, iv)
<1>1. p \in Seq(Byte) /\ Whole(p)
  BY PaddedIs
<1>2. raw = Joined(list)
  BY DEF SymmetricEncrypt
<1> HIDE DEF p
<1>3. N \in Nat /\ c \in [0 .. N -> Blocks]
  BY <1>1, WholeBytes, ChainedIs
<1>4. Encrypt(key, iv) \in Blocks
  BY Deciphered
<1> HIDE DEF c, N, raw
<1>5. list \in Seq(Blocks) /\ Len(list) = N + 1
  BY <1>3, <1>4
<1>6. list[1] = Encrypt(key, iv) /\ \A n \in 1 .. N : list[n + 1] = c[n]
  BY <1>3
<1>7. 1 \in 1 .. N + 1 /\ \A n \in 1 .. N : n + 1 \in 1 .. N + 1
  BY <1>3
<1> HIDE DEF list
<1>8. /\ raw \in Seq(Byte) /\ Whole(raw) /\ BlocksIn(raw) = N + 1
      /\ \A n \in 1 .. N + 1 : BlockAt(raw, n) = list[n]
  BY <1>2, <1>5, JoinedBlocks
<1> QED BY <1>6, <1>7, <1>8 DEF raw, c, N, p

\* What SymmetricEncrypt makes is decrypted to what it was made of, and the IV is the
\* first block.
THEOREM RoundTrip ==
  ASSUME NEW key \in DOMAIN Decrypt, NEW plain \in Seq(Byte), NEW iv \in Blocks
  PROVE  SymmetricDecrypt(SymmetricEncrypt(plain, key, iv), key) = Good(plain)
<1> DEFINE p == Padded(plain)
           c == Chained(p, key, iv)
           N == BlocksIn(p)
           raw == SymmetricEncrypt(plain, key, iv)
           list == [n \in 1 .. BlocksIn(raw) - 1 |-> PlainBlock(raw, key, n + 1)]
<1>1. p \in Seq(Byte) /\ Whole(p) /\ N >= 1 /\ Unpad(p) = Good(plain)
  BY PaddedIs, UnpadPadded
<1>2. /\ Whole(raw) /\ BlocksIn(raw) = N + 1
      /\ BlockAt(raw, 1) = Encrypt(key, iv)
      /\ \A n \in 1 .. N : BlockAt(raw, n + 1) = c[n]
  BY EncryptedIs
<1> HIDE DEF p, raw
<1>3. /\ N \in Nat /\ c \in [0 .. N -> Blocks] /\ c[0] = iv
      /\ \A n \in 1 .. N : c[n] = Encrypt(key, XorBlock(BlockAt(p, n), c[n - 1]))
      /\ \A n \in 1 .. N : BlockAt(p, n) \in Blocks
  BY <1>1, WholeBytes, ChainedIs
<1> HIDE DEF c, N
<1>4. ASSUME NEW n \in 1 .. N PROVE PlainBlock(raw, key, n + 1) = BlockAt(p, n)
  <2> DEFINE before == IF n + 1 = 2 THEN Decrypt[key][BlockAt(raw, 1)] ELSE BlockAt(raw, n)
  <2>1. BlockAt(p, n) \in Blocks /\ c[n - 1] \in Blocks /\ n - 1 \in 0 .. N
    BY <1>3
  <2>2. Decrypt[key][BlockAt(raw, n + 1)] = XorBlock(BlockAt(p, n), c[n - 1])
    BY <1>2, <1>3, <2>1, XoredBack, Deciphered
  <2>3. before = c[n - 1]
    <3>1. CASE n = 1
      <4>1. before = Decrypt[key][Encrypt(key, iv)]
        BY <1>2, <3>1
      <4> QED BY <1>3, <3>1, <4>1, Deciphered
    <3>2. CASE n # 1
      <4>1. n - 1 \in 1 .. N /\ (n - 1) + 1 = n /\ n + 1 # 2
        BY <1>3, <3>2
      <4>2. BlockAt(raw, n) = c[n - 1]
        BY <1>2, <4>1
      <4> QED BY <4>1, <4>2
    <3> QED BY <3>1, <3>2
  <2> HIDE DEF before
  <2>4. PlainBlock(raw, key, n + 1) = XorBlock(Decrypt[key][BlockAt(raw, n + 1)], before)
    <3>1. (n + 1) - 1 = n
      OBVIOUS
    <3> QED BY <3>1 DEF PlainBlock, before
  <2> QED BY <2>1, <2>2, <2>3, <2>4, XoredBack
<1>5. (N + 1) - 1 = N /\ ~(N + 1 < 2)
  BY <1>1, <1>3 DEF N
<1>6. list \in Seq(Blocks) /\ Len(list) = N /\ \A n \in 1 .. N : list[n] = BlockAt(p, n)
  BY <1>2, <1>3, <1>4, <1>5
<1>7. SymmetricDecrypt(raw, key) = Unpad(Joined(list))
  BY <1>2, <1>5 DEF SymmetricDecrypt
<1> HIDE DEF list
<1>8. Joined(list) = p
  BY <1>1, <1>6, WholeBytes DEF N
<1> QED BY <1>1, <1>7, <1>8 DEF raw

\* Only what SymmetricEncrypt makes can be decrypted.
THEOREM OnlyEncrypted ==
  ASSUME NEW key \in DOMAIN Decrypt, NEW raw \in Seq(Byte), SymmetricDecrypt(raw, key).ok
  PROVE  LET plain == SymmetricDecrypt(raw, key).out
         IN  /\ SymmetricDecrypt(raw, key) = Good(plain)
             /\ plain \in Seq(Byte) /\ Len(plain) < Len(raw) - BlockLen
             /\ Decrypt[key][BlockAt(raw, 1)] \in Blocks
             /\ raw = SymmetricEncrypt(plain, key, Decrypt[key][BlockAt(raw, 1)])
<1> DEFINE M == BlocksIn(raw)
           list == [n \in 1 .. M - 1 |-> PlainBlock(raw, key, n + 1)]
           p == Joined(list)
           plain == Unpad(p).out
           iv == Decrypt[key][BlockAt(raw, 1)]
           c == Chained(p, key, iv)
           enc == SymmetricEncrypt(plain, key, iv)
<1>1. Whole(raw) /\ ~(M < 2) /\ SymmetricDecrypt(raw, key) = Unpad(p)
  BY DEF SymmetricDecrypt, NotOk
<1>2. /\ M \in Nat /\ M >= 2 /\ Len(raw) = M * BlockLen
      /\ \A n \in 1 .. M : BlockAt(raw, n) \in Blocks
  BY <1>1, WholeBytes
<1> HIDE DEF M
<1>3. 1 \in 1 .. M /\ iv \in Blocks
  BY <1>2, Deciphered
<1> HIDE DEF iv
<1>4. ASSUME NEW n \in 1 .. M - 1
      PROVE  LET before == IF n = 1 THEN iv ELSE BlockAt(raw, n)
             IN  /\ before \in Blocks /\ n + 1 \in 1 .. M
                 /\ PlainBlock(raw, key, n + 1) \in Blocks
                 /\ Encrypt(key, XorBlock(PlainBlock(raw, key, n + 1), before)) = BlockAt(raw, n + 1)
  <2> DEFINE before == IF n = 1 THEN iv ELSE BlockAt(raw, n)
             d == Decrypt[key][BlockAt(raw, n + 1)]
  <2>1. n + 1 \in 1 .. M /\ n \in 1 .. M /\ (n + 1 = 2 <=> n = 1) /\ (n + 1) - 1 = n
    BY <1>2
  <2>2. before \in Blocks
    BY <1>2, <1>3, <2>1
  <2>3. PlainBlock(raw, key, n + 1) = XorBlock(d, before)
    BY <2>1 DEF PlainBlock, iv
  <2>4. d \in Blocks /\ Encrypt(key, d) = BlockAt(raw, n + 1)
    BY <1>2, <2>1, Deciphered
  <2> HIDE DEF before, d
  <2>5. XorBlock(d, before) \in Blocks /\ XorBlock(XorBlock(d, before), before) = d
    BY <2>2, <2>4, XoredBack
  <2> QED BY <2>1, <2>2, <2>3, <2>4, <2>5 DEF before
<1>5. list \in Seq(Blocks) /\ Len(list) = M - 1
  <2>1. M - 1 \in Nat
    BY <1>2
  <2>2. \A n \in 1 .. M - 1 : PlainBlock(raw, key, n + 1) \in Blocks
    BY <1>4
  <2> QED BY <2>1, <2>2
<1>6. \A n \in 1 .. M - 1 : list[n] = PlainBlock(raw, key, n + 1)
  OBVIOUS
<1> HIDE DEF list
<1>7. /\ p \in Seq(Byte) /\ Whole(p) /\ BlocksIn(p) = M - 1 /\ Len(p) = (M - 1) * BlockLen
      /\ \A n \in 1 .. M - 1 : BlockAt(p, n) = PlainBlock(raw, key, n + 1)
  BY <1>5, <1>6, JoinedBlocks
<1> HIDE DEF p
<1>8. /\ Unpad(p) = Good(plain) /\ plain \in Seq(Byte)
      /\ Padded(plain) = p /\ Len(plain) < Len(p)
  BY <1>1, <1>7, PaddedUnpad
<1> HIDE DEF plain
<1>9. /\ c \in [0 .. M - 1 -> Blocks] /\ c[0] = iv
      /\ \A n \in 1 .. M - 1 : c[n] = Encrypt(key, XorBlock(BlockAt(p, n), c[n - 1]))
  BY <1>3, <1>7, ChainedIs
<1> HIDE DEF c
<1>10. \A n \in 1 .. M - 1 : c[n] = BlockAt(raw, n + 1)
  <2> DEFINE T == {n \in 0 .. M - 1 : c[n] = IF n = 0 THEN iv ELSE BlockAt(raw, n + 1)}
  <2>1. 0 \in T
    BY <1>2, <1>9
  <2>2. ASSUME NEW n \in 0 .. (M - 1) - 1, n \in T PROVE n + 1 \in T
    <3>1. n + 1 \in 1 .. M - 1 /\ n + 1 \in 0 .. M - 1 /\ (n + 1) - 1 = n /\ n + 1 # 0
          /\ (n + 1 = 1 <=> n = 0)
      BY <1>2
    <3>2. c[n] = IF n + 1 = 1 THEN iv ELSE BlockAt(raw, n + 1)
      BY <2>2, <3>1
    <3>3. c[n + 1] = Encrypt(key, XorBlock(PlainBlock(raw, key, (n + 1) + 1), c[n]))
      BY <1>7, <1>9, <3>1
    <3>4. c[n + 1] = BlockAt(raw, (n + 1) + 1)
      BY <1>4, <3>1, <3>2, <3>3
    <3> QED BY <3>1, <3>4
  <2>3. M - 1 \in Nat
    BY <1>2
  <2> HIDE DEF T
  <2>4. 0 .. M - 1 \subseteq T
    BY <2>1, <2>2, <2>3, UpTo
  <2>5. ASSUME NEW n \in 1 .. M - 1 PROVE c[n] = BlockAt(raw, n + 1)
    <3>1. n \in 0 .. M - 1 /\ n # 0
      BY <1>2
    <3> QED BY <2>4, <3>1 DEF T
  <2> QED BY <2>5
<1>11. /\ enc \in Seq(Byte) /\ Whole(enc) /\ BlocksIn(enc) = M
       /\ \A n \in 1 .. M : BlockAt(enc, n) = BlockAt(raw, n)
  <2>1. /\ enc \in Seq(Byte) /\ Whole(enc) /\ BlocksIn(enc) = (M - 1) + 1
        /\ BlockAt(enc, 1) = Encrypt(key, iv)
        /\ \A n \in 1 .. M - 1 : BlockAt(enc, n + 1) = c[n]
    BY <1>3, <1>7, <1>8, EncryptedIs DEF c
  <2>2. BlockAt(enc, 1) = BlockAt(raw, 1)
    BY <1>2, <1>3, <2>1, Deciphered DEF iv
  <2>3. ASSUME NEW n \in 1 .. M, n # 1 PROVE BlockAt(enc, n) = BlockAt(raw, n)
    <3>1. n - 1 \in 1 .. M - 1 /\ (n - 1) + 1 = n
      BY <1>2, <2>3
    <3>2. BlockAt(enc, (n - 1) + 1) = BlockAt(raw, (n - 1) + 1)
      BY <1>10, <2>1, <3>1
    <3> QED BY <3>1, <3>2
  <2>4. (M - 1) + 1 = M
    BY <1>2
  <2> QED BY <2>1, <2>2, <2>3, <2>4
<1> HIDE DEF enc
<1>12. enc = raw
  <2> DEFINE all == [n \in 1 .. M |-> BlockAt(raw, n)]
  <2>1. all \in Seq(Blocks) /\ Len(all) = M /\ \A n \in 1 .. M : all[n] = BlockAt(raw, n)
    BY <1>2
  <2> HIDE DEF all
  <2>2. Joined(all) = raw
    BY <1>1, <2>1, WholeBytes DEF M
  <2>3. Joined(all) = enc
    BY <1>11, <2>1, WholeBytes
  <2> QED BY <2>2, <2>3
<1>13. Len(plain) < Len(raw) - BlockLen
  <2>1. (M - 1) * BlockLen = M * BlockLen - BlockLen
    BY <1>2, BlockLenIs
  <2> QED BY <1>2, <1>7, <1>8, <2>1
<1>14. SymmetricDecrypt(raw, key).out = plain
  BY <1>1 DEF plain
<1> QED BY <1>1, <1>3, <1>8, <1>12, <1>13, <1>14 DEF enc, iv

----------------------------------------------------------------------------
(***************************************************************************)
(* What a body decodes to.                                                 *)
(***************************************************************************)

\* An id that Steam sealed is read.
LEMMA SealedIs ==
  ASSUME DepotKey \in DOMAIN Decrypt, NEW id \in Seq(Byte)
  PROVE  DecryptECB(Sealed(id), DepotKey) = Good(id)
<1> DEFINE p == Padded(id)
           N == BlocksIn(p)
           enc == [n \in 1 .. N |-> Encrypt(DepotKey, BlockAt(p, n))]
           raw == Sealed(id)
           dec == [n \in 1 .. BlocksIn(raw) |-> Decrypt[DepotKey][BlockAt(raw, n)]]
<1>1. p \in Seq(Byte) /\ Whole(p) /\ Unpad(p) = Good(id)
  BY PaddedIs, UnpadPadded
<1>2. raw = Joined(enc)
  BY DEF Sealed
<1> HIDE DEF p
<1>3. N \in Nat /\ \A n \in 1 .. N : BlockAt(p, n) \in Blocks
  BY <1>1, WholeBytes
<1> HIDE DEF N, raw
<1>4. enc \in Seq(Blocks) /\ Len(enc) = N
      /\ \A n \in 1 .. N : enc[n] = Encrypt(DepotKey, BlockAt(p, n))
  BY <1>3, Deciphered
<1> HIDE DEF enc
<1>5. Whole(raw) /\ BlocksIn(raw) = N /\ \A n \in 1 .. N : BlockAt(raw, n) = enc[n]
  BY <1>2, <1>4, JoinedBlocks
<1>6. dec \in Seq(Blocks) /\ Len(dec) = N /\ \A n \in 1 .. N : dec[n] = BlockAt(p, n)
  <2>1. \A n \in 1 .. N : Decrypt[DepotKey][BlockAt(raw, n)] = BlockAt(p, n)
    BY <1>3, <1>4, <1>5, Deciphered
  <2> QED BY <1>3, <1>5, <2>1
<1>7. DecryptECB(raw, DepotKey) = Unpad(Joined(dec))
  BY <1>5 DEF DecryptECB
<1> HIDE DEF dec
<1>8. Joined(dec) = p
  BY <1>1, <1>6, WholeBytes DEF N
<1> QED BY <1>1, <1>7, <1>8 DEF raw

\* A container of the chunk is decompressed to the chunk, whichever it is.
LEMMA ContainerIs ==
  ASSUME chunk \in Chunks, NEW c \in Containers
  PROVE  c \in Seq(Byte) /\ Decompressed(c) = Good(chunk)
<1>1. /\ chunk \in Seq(Byte) /\ Len(chunk) \in Byte
      /\ VSZ \in Byte /\ VZ \in Byte /\ PK \in Byte
  BY BodiesAssumption, CryptoAssumption DEF Byte, VSZ, VZ, PK
<1>2. PICK b \in DOMAIN Inflate :
        /\ Inflate[b] = chunk
        /\ \/ c = <<VSZ>> \o b \o <<Len(chunk)>>
           \/ c = <<VZ>> \o b \o <<Len(chunk)>>
           \/ c = <<PK>> \o b
  BY DEF Containers
<1>3. b \in Seq(Byte) /\ Inflated(b) = Good(chunk)
  BY <1>2, BodiesAssumption DEF Inflated
<1>4. ASSUME NEW mark \in Byte, c = <<mark>> \o b \o <<Len(chunk)>>
      PROVE  /\ c \in Seq(Byte) /\ Len(c) > 1 /\ c[1] = mark
             /\ Middle(c) = b /\ Last(c) = Len(chunk)
  <2>1. /\ c \in Seq(Byte) /\ Len(c) = Len(b) + 2 /\ Len(b) \in Nat /\ c[1] = mark
        /\ c[Len(b) + 2] = Len(chunk) /\ \A k \in 1 .. Len(b) : c[k + 1] = b[k]
    BY <1>1, <1>3, <1>4
  <2>2. /\ Middle(c) \in Seq(Byte) /\ Len(Middle(c)) = Len(b)
        /\ \A k \in 1 .. Len(b) : Middle(c)[k] = c[k + 1]
    BY <2>1 DEF Middle
  <2>3. Middle(c) = b
    BY <1>3, <2>1, <2>2
  <2> QED BY <2>1, <2>3 DEF Last
<1>5. CASE c = <<VSZ>> \o b \o <<Len(chunk)>>
  <2>1. c \in Seq(Byte) /\ Len(c) > 1 /\ c[1] = VSZ /\ Middle(c) = b /\ Last(c) = Len(chunk)
    BY <1>1, <1>4, <1>5
  <2>2. DecompressVZstd(c) = Good(chunk)
    <3>1. DecompressVZstd(c) =
            IF Inflated(Middle(c)).ok
            THEN IF Len(Inflated(Middle(c)).out) = Last(c) THEN Good(Inflated(Middle(c)).out) ELSE NotOk
            ELSE NotOk
      BY DEF DecompressVZstd, Then
    <3> QED BY <1>3, <2>1, <3>1 DEF Good
  <2>3. Decompressed(c) = DecompressVZstd(c)
    BY <2>1 DEF Decompressed, VSZ, VZ, PK
  <2> QED BY <2>1, <2>2, <2>3
<1>6. CASE c = <<VZ>> \o b \o <<Len(chunk)>>
  <2>1. c \in Seq(Byte) /\ Len(c) > 1 /\ c[1] = VZ /\ Middle(c) = b /\ Last(c) = Len(chunk)
    BY <1>1, <1>4, <1>6
  <2>2. SubSeq(chunk, 1, Len(chunk)) = chunk
    BY <1>1
  <2>3. DecompressVZip(c) = Good(chunk)
    <3>1. DecompressVZip(c) =
            IF Inflated(Middle(c)).ok
            THEN IF Len(Inflated(Middle(c)).out) >= Last(c)
                 THEN Good(SubSeq(Inflated(Middle(c)).out, 1, Last(c))) ELSE NotOk
            ELSE NotOk
      BY DEF DecompressVZip, Then
    <3>2. Len(chunk) >= Len(chunk)
      BY <1>1
    <3>3. Inflated(Middle(c)).ok /\ Inflated(Middle(c)).out = chunk
      BY <1>3, <2>1 DEF Good
    <3> QED BY <2>1, <2>2, <3>1, <3>2, <3>3
  <2>4. Decompressed(c) = DecompressVZip(c)
    BY <2>1 DEF Decompressed, VSZ, VZ, PK
  <2> QED BY <2>1, <2>3, <2>4
<1>7. CASE c = <<PK>> \o b
  <2>1. c \in Seq(Byte) /\ c # <<>> /\ c[1] = PK /\ Tail(c) = b
    BY <1>1, <1>3, <1>7
  <2>2. DecompressZip(c) = Good(chunk)
    BY <1>3, <2>1 DEF DecompressZip
  <2>3. Decompressed(c) = DecompressZip(c)
    BY <2>1 DEF Decompressed, VSZ, VZ, PK
  <2> QED BY <2>1, <2>2, <2>3
<1> QED BY <1>2, <1>5, <1>6, <1>7

----------------------------------------------------------------------------
(***************************************************************************)
(* The sections of a manifest.                                             *)
(***************************************************************************)
ReadStates == [ok : BOOLEAN, ended : BOOLEAN, payload : SUBSET Seq(SentFiles), encrypted : SUBSET BOOLEAN]

LEMMA ReadSectionIs ==
  ASSUME NEW m \in ReadStates, NEW section \in SentSections
  PROVE  ReadSection(m, section) \in ReadStates
<1>1. section.encrypted \in BOOLEAN /\ section.files \in Seq(SentFiles)
  BY ManifestsAssumption
<1>2. /\ [m EXCEPT !.ended = TRUE] \in ReadStates /\ [m EXCEPT !.ok = FALSE] \in ReadStates
      /\ [m EXCEPT !.payload = {section.files}] \in ReadStates
      /\ [m EXCEPT !.encrypted = {section.encrypted}] \in ReadStates
  BY <1>1 DEF ReadStates
<1> QED BY <1>2 DEF ReadSection

LEMMA ReadingIs ==
  ASSUME NEW sections \in Manifests
  PROVE  LET r == Reading(sections)
         IN  /\ \A n \in 0 .. Len(sections) : r[n] \in ReadStates
             /\ r[0] = NothingRead
             /\ \A n \in 1 .. Len(sections) : r[n] = ReadSection(r[n - 1], sections[n])
<1> DEFINE N == Len(sections)
           next == [n \in 1 .. N |-> [m \in ReadStates |-> ReadSection(m, sections[n])]]
           Chain(r) == r = [n \in 0 .. N |-> IF n = 0 THEN NothingRead ELSE ReadSection(r[n - 1], sections[n])]
           r == Reading(sections)
<1>1. N \in Nat /\ \A n \in 1 .. N : sections[n] \in SentSections
  BY ManifestsAssumption
<1>2. Reading(sections) = CHOOSE f : Chain(f)
  BY DEF Reading
<1> HIDE DEF N
<1>3. next \in [1 .. N -> [ReadStates -> ReadStates]]
  BY <1>1, ReadSectionIs
<1>4. \A m \in ReadStates : \A n \in 1 .. N : next[n][m] = ReadSection(m, sections[n])
  OBVIOUS
<1>5. NothingRead \in ReadStates
  BY DEF NothingRead, ReadStates
<1> HIDE DEF next
<1>6. PICK f : Steps(f, N, ReadStates, NothingRead, next)
  BY <1>1, <1>3, <1>5, Recursion
<1>7. Chain(f)
  <2>1. ASSUME NEW n \in 0 .. N
        PROVE  f[n] = IF n = 0 THEN NothingRead ELSE ReadSection(f[n - 1], sections[n])
    <3>1. CASE n = 0
      BY <1>6, <3>1 DEF Steps
    <3>2. CASE n # 0
      <4>1. n \in 1 .. N /\ n - 1 \in 0 .. N
        BY <1>1, <3>2
      <4> QED BY <1>4, <1>6, <3>2, <4>1 DEF Steps
    <3> QED BY <3>1, <3>2
  <2>2. DOMAIN f = 0 .. N /\ f = [n \in DOMAIN f |-> f[n]]
    BY <1>6 DEF Steps
  <2> QED BY <2>1, <2>2
<1>8. Chain(r)
  BY <1>2, <1>7
<1> HIDE DEF r
<1>9. r[0] = NothingRead
  BY <1>1, <1>8
<1>10. ASSUME NEW n \in 1 .. N PROVE r[n] = ReadSection(r[n - 1], sections[n])
  <2>1. n \in 0 .. N /\ n # 0
    OBVIOUS
  <2> QED BY <1>8, <2>1
<1>11. 0 .. N \subseteq {n \in 0 .. N : r[n] \in ReadStates}
  <2> DEFINE T == {n \in 0 .. N : r[n] \in ReadStates}
  <2>1. 0 \in T
    BY <1>1, <1>5, <1>9
  <2>2. ASSUME NEW n \in 0 .. N - 1, n \in T PROVE n + 1 \in T
    <3>1. n + 1 \in 1 .. N /\ n + 1 \in 0 .. N /\ (n + 1) - 1 = n
      BY <1>1
    <3>2. r[n + 1] = ReadSection(r[n], sections[n + 1])
      BY <1>10, <3>1
    <3> QED BY <1>1, <2>2, <3>1, <3>2, ReadSectionIs
  <2> HIDE DEF T
  <2> QED BY <1>1, <2>1, <2>2, UpTo DEF T
<1> QED BY <1>9, <1>10, <1>11 DEF N, r

\* What has been read of the first n sections is the last of its kind before the end.
ReadUpTo(body_, n) ==
  {k \in 1 .. n : \A e \in 1 .. n : body_[e].magic = "end" => k < e}

KindUpTo(body_, n, magic) == {k \in ReadUpTo(body_, n) : body_[k].magic = magic}

LastIs(K, got, of) ==
  IF got = {} THEN K = {} ELSE \E k \in K : (\A j \in K : j <= k) /\ got = {of[k]}

ReadWell(sections, n, m) ==
  m.ok =>
    /\ m.ended <=> \E e \in 1 .. n : sections[e].magic = "end"
    /\ \A k \in ReadUpTo(sections, n) : sections[k].whole
    /\ LastIs(KindUpTo(sections, n, "payload"), m.payload, [k \in 1 .. n |-> sections[k].files])
    /\ LastIs(KindUpTo(sections, n, "metadata"), m.encrypted, [k \in 1 .. n |-> sections[k].encrypted])

LEMMA ReadWellStep ==
  ASSUME NEW sections \in Manifests, NEW n \in Nat, n + 1 \in 1 .. Len(sections),
         NEW m \in ReadStates, ReadWell(sections, n, m)
  PROVE  ReadWell(sections, n + 1, ReadSection(m, sections[n + 1]))
<1> DEFINE s == sections[n + 1]
           m2 == ReadSection(m, s)
           R == ReadUpTo(sections, n)
           R2 == ReadUpTo(sections, n + 1)
           files_ == [k \in 1 .. n |-> sections[k].files]
           files2 == [k \in 1 .. n + 1 |-> sections[k].files]
           enc == [k \in 1 .. n |-> sections[k].encrypted]
           enc2 == [k \in 1 .. n + 1 |-> sections[k].encrypted]
<1>1. 1 .. n + 1 = 1 .. n \cup {n + 1} /\ n + 1 \notin 1 .. n
  OBVIOUS
<1>2. SUFFICES ASSUME m2.ok PROVE ReadWell(sections, n + 1, m2)
  BY DEF ReadWell
<1>3. m.ok
  BY <1>2 DEF ReadSection, ReadStates
<1>4. /\ m.ended <=> \E e \in 1 .. n : sections[e].magic = "end"
      /\ \A k \in R : sections[k].whole
      /\ LastIs(KindUpTo(sections, n, "payload"), m.payload, files_)
      /\ LastIs(KindUpTo(sections, n, "metadata"), m.encrypted, enc)
  BY <1>3 DEF ReadWell
<1>5. ASSUME NEW K, NEW got, NEW f, NEW f2, K \subseteq 1 .. n, LastIs(K, got, f),
             \A k \in 1 .. n : f2[k] = f[k]
      PROVE  LastIs(K, got, f2)
  BY <1>5 DEF LastIs
<1>6. /\ KindUpTo(sections, n, "payload") \subseteq 1 .. n /\ KindUpTo(sections, n, "metadata") \subseteq 1 .. n
      /\ \A k \in 1 .. n : files2[k] = files_[k] /\ enc2[k] = enc[k]
  BY DEF KindUpTo, ReadUpTo
<1>7. /\ LastIs(KindUpTo(sections, n, "payload"), m.payload, files2)
      /\ LastIs(KindUpTo(sections, n, "metadata"), m.encrypted, enc2)
  BY <1>4, <1>5, <1>6, SMTT(30)
<1>8. files2[n + 1] = s.files /\ enc2[n + 1] = s.encrypted
  OBVIOUS
<1> HIDE DEF files_, enc, files2, enc2, s, m2
<1>9. CASE m.ended \/ s.magic = "end"
  <2>1. R2 = R
    BY <1>1, <1>4, <1>9 DEF ReadUpTo, s
  <2>2. m2 = [m EXCEPT !.ended = TRUE]
    BY <1>3, <1>9 DEF m2, ReadSection, ReadStates
  <2>3. m2.ended /\ m2.payload = m.payload /\ m2.encrypted = m.encrypted
    BY <2>2 DEF ReadStates
  <2>4. \E e \in 1 .. n + 1 : sections[e].magic = "end"
    BY <1>1, <1>4, <1>9 DEF s
  <2> QED BY <1>4, <1>7, <2>1, <2>3, <2>4 DEF ReadWell, KindUpTo, files2, enc2
<1>10. CASE ~m.ended /\ s.magic # "end"
  <2>1. R2 = R \cup {n + 1} /\ R = 1 .. n
    BY <1>1, <1>4, <1>10 DEF ReadUpTo, s
  <2>2. s.whole /\ ~m2.ended
    BY <1>2, <1>3, <1>10 DEF m2, ReadSection, ReadStates
  <2>3. ~\E e \in 1 .. n + 1 : sections[e].magic = "end"
    BY <1>1, <1>4, <1>10 DEF s
  <2>4. \A k \in R2 : sections[k].whole
    BY <1>4, <2>1, <2>2 DEF s
  <2>5. ASSUME NEW magic, NEW K, K = KindUpTo(sections, n, magic)
        PROVE  KindUpTo(sections, n + 1, magic) = IF s.magic = magic THEN K \cup {n + 1} ELSE K
    BY <2>1, <2>5 DEF KindUpTo, s
  <2>6. ASSUME NEW K, K \subseteq 1 .. n, NEW f
        PROVE  LastIs(K \cup {n + 1}, {f[n + 1]}, f)
    BY <2>6 DEF LastIs
  <2>7. LastIs(KindUpTo(sections, n + 1, "payload"), m2.payload, files2)
    <3>1. CASE s.magic = "payload"
      <4>1. m2.payload = {s.files}
        BY <1>2, <1>3, <1>10, <3>1 DEF m2, ReadSection, ReadStates
      <4>2. KindUpTo(sections, n + 1, "payload") = KindUpTo(sections, n, "payload") \cup {n + 1}
        BY <2>5, <3>1
      <4>3. LastIs(KindUpTo(sections, n, "payload") \cup {n + 1}, {files2[n + 1]}, files2)
        BY <1>6, <2>6
      <4> QED BY <1>8, <4>1, <4>2, <4>3
    <3>2. CASE s.magic # "payload"
      <4>1. m2.payload = m.payload
        BY <1>2, <1>3, <1>10, <3>2 DEF m2, ReadSection, ReadStates
      <4> QED BY <1>7, <2>5, <3>2, <4>1
    <3> QED BY <3>1, <3>2
  <2>8. LastIs(KindUpTo(sections, n + 1, "metadata"), m2.encrypted, enc2)
    <3>1. CASE s.magic = "metadata"
      <4>1. m2.encrypted = {s.encrypted}
        BY <1>2, <1>3, <1>10, <3>1 DEF m2, ReadSection, ReadStates
      <4>2. KindUpTo(sections, n + 1, "metadata") = KindUpTo(sections, n, "metadata") \cup {n + 1}
        BY <2>5, <3>1
      <4>3. LastIs(KindUpTo(sections, n, "metadata") \cup {n + 1}, {enc2[n + 1]}, enc2)
        BY <1>6, <2>6
      <4> QED BY <1>8, <4>1, <4>2, <4>3
    <3>2. CASE s.magic # "metadata"
      <4>1. m2.encrypted = m.encrypted
        BY <1>2, <1>3, <1>10, <3>2 DEF m2, ReadSection, ReadStates
      <4> QED BY <1>7, <2>5, <3>2, <4>1
    <3> QED BY <3>1, <3>2
  <2> QED BY <2>2, <2>3, <2>4, <2>7, <2>8 DEF ReadWell, files2, enc2
<1> QED BY <1>9, <1>10 DEF s, m2

LEMMA ReadSectionsIs ==
  ASSUME NEW sections \in Manifests
  PROVE  ReadSections(sections) \in ReadStates /\ ReadWell(sections, Len(sections), ReadSections(sections))
<1> DEFINE N == Len(sections)
           r == Reading(sections)
           T == {n \in 0 .. N : ReadWell(sections, n, r[n])}
<1>1. /\ N \in Nat /\ \A n \in 0 .. N : r[n] \in ReadStates
      /\ r[0] = NothingRead /\ \A n \in 1 .. N : r[n] = ReadSection(r[n - 1], sections[n])
  BY ReadingIs, ManifestsAssumption
<1> HIDE DEF r
<1>2. 0 \in T
  BY <1>1 DEF ReadWell, NothingRead, LastIs, KindUpTo, ReadUpTo
<1>3. ASSUME NEW n \in 0 .. N - 1, n \in T PROVE n + 1 \in T
  <2>1. n \in Nat /\ n + 1 \in 1 .. N /\ n + 1 \in 0 .. N /\ (n + 1) - 1 = n /\ r[n] \in ReadStates
    BY <1>1
  <2>2. r[n + 1] = ReadSection(r[n], sections[n + 1])
    BY <1>1, <2>1
  <2>3. ReadWell(sections, n + 1, r[n + 1])
    BY <1>3, <2>1, <2>2, ReadWellStep
  <2> QED BY <2>1, <2>3
<1> HIDE DEF T
<1>4. 0 .. N \subseteq T
  BY <1>1, <1>2, <1>3, UpTo
<1>5. N \in T
  BY <1>1, <1>4
<1> QED BY <1>1, <1>5 DEF T, r, ReadSections

\* A name that can be decrypted is what Steam encrypted.
LEMMA NameIsClear ==
  ASSUME DepotKey # NoKey, NEW enc \in Seq(Byte), NEW clear, IsClear(enc, clear), DecryptName(enc).ok
  PROVE  Normal(DecryptName(enc).out) = clear
<1> DEFINE d == SymmetricDecrypt(enc, DepotKey)
           plain == d.out
<1>1. DepotKey \in DOMAIN Decrypt
  BY CryptoAssumption
<1>2. DecryptName(enc) = IF d.ok THEN Good(TrimNULs(plain)) ELSE NotOk
  BY DEF DecryptName, Then
<1>3. d.ok /\ DecryptName(enc).out = TrimNULs(plain)
  BY <1>2 DEF Good, NotOk
<1>4. /\ plain \in Seq(Byte) /\ Len(plain) < Len(enc) - BlockLen
      /\ enc = SymmetricEncrypt(plain, DepotKey, IVof(enc))
  BY <1>1, <1>3, OnlyEncrypted DEF IVof
<1> HIDE DEF d, plain
<1>5. plain \in PlainNames(enc)
  <2>1. Len(plain) \in 0 .. Len(enc) - BlockLen - 1 /\ plain \in [1 .. Len(plain) -> Byte]
    BY <1>4, BlockLenIs
  <2> QED BY <2>1 DEF PlainNames
<1> QED BY <1>3, <1>4, <1>5 DEF IsClear, Normal

\* How the files of a payload are listed.
FilesRead(all, encrypted, list) ==
  IF encrypted
  THEN LET clear == [k \in DOMAIN all |-> DecryptFile(all[k])]
       IN  DepotKey # NoKey /\ AllOk(clear) /\ list = Normalized(clear)
  ELSE list = Normalized([k \in DOMAIN all |-> PlainFile(all[k])])

LEMMA FilesAreClear ==
  ASSUME NEW all \in Seq(SentFiles), NEW encrypted \in BOOLEAN, NEW list, FilesRead(all, encrypted, list)
  PROVE  list = [k \in DOMAIN all |->
                   IF encrypted THEN all[k].clear
                   ELSE [name |-> Normal(all[k].name), link |-> Normal(all[k].link)]]
<1>1. CASE ~encrypted
  <2> DEFINE plain == [k \in DOMAIN all |-> PlainFile(all[k])]
  <2>1. list = Normalized(plain)
    BY <1>1 DEF FilesRead
  <2>2. DOMAIN plain = DOMAIN all
        /\ \A k \in DOMAIN all : plain[k].name.out = all[k].name /\ plain[k].link.out = all[k].link
    BY DEF PlainFile, Good
  <2> HIDE DEF plain
  <2> QED BY <1>1, <2>1, <2>2 DEF Normalized
<1>2. CASE encrypted
  <2> DEFINE dec == [k \in DOMAIN all |-> DecryptFile(all[k])]
  <2>1. DepotKey # NoKey /\ AllOk(dec) /\ list = Normalized(dec)
    BY <1>2 DEF FilesRead
  <2>2. ASSUME NEW k \in DOMAIN all
        PROVE  [name |-> Normal(dec[k].name.out), link |-> Normal(dec[k].link.out)] = all[k].clear
    <3>1. all[k] \in SentFiles /\ dec[k].name.ok /\ dec[k].link.ok /\ dec[k] = DecryptFile(all[k])
      BY <2>1 DEF AllOk
    <3>2. /\ all[k].clear = [name |-> all[k].clear.name, link |-> all[k].clear.link]
          /\ all[k].name \in Seq(Byte) /\ IsClear(all[k].name, all[k].clear.name)
          /\ IF all[k].link = <<>> THEN all[k].clear.link = <<>>
             ELSE all[k].link \in Seq(Byte) /\ IsClear(all[k].link, all[k].clear.link)
      BY <2>1, <3>1, ManifestsAssumption
    <3>3. dec[k].name = DecryptName(all[k].name)
          /\ dec[k].link = IF all[k].link = <<>> THEN Good(<<>>) ELSE DecryptName(all[k].link)
      BY <3>1 DEF DecryptFile
    <3>4. Normal(dec[k].name.out) = all[k].clear.name
      BY <2>1, <3>1, <3>2, <3>3, NameIsClear
    <3>5. CASE all[k].link = <<>>
      <4>1. dec[k].link.out = <<>>
        BY <3>3, <3>5 DEF Good
      <4>2. Normal(<<>>) = <<>>
        BY DEF Normal
      <4> QED BY <3>2, <3>4, <3>5, <4>1, <4>2
    <3>6. CASE all[k].link # <<>>
      <4>1. Normal(dec[k].link.out) = all[k].clear.link
        BY <2>1, <3>1, <3>2, <3>3, <3>6, NameIsClear
      <4> QED BY <3>2, <3>4, <4>1
    <3> QED BY <3>5, <3>6
  <2>3. DOMAIN dec = DOMAIN all
    OBVIOUS
  <2> HIDE DEF dec
  <2> QED BY <1>2, <2>1, <2>2, <2>3 DEF Normalized
<1> QED BY <1>1, <1>2

----------------------------------------------------------------------------
(***************************************************************************)
(* The invariant.                                                          *)
(***************************************************************************)

\* Where each kind of fetch may be, and what a body is.
FetchKinds ==
  /\ what \in {"chunk", "manifest", "id"} /\ chunk \in Chunks
  /\ what = "id" => fetch \in {"resolve", "ok", "failed"}
  /\ what # "id" => fetch # "resolve"
  /\ what = "chunk" => body \in Seq(Byte)

\* A chunk is what was asked for; a body that did not end the fetch was no good.
ChunkWell ==
  what = "chunk" =>
    IF fetch = "ok" THEN data = chunk
    ELSE \/ Len(body) < BlockLen
         \/ ~(DecodeChunk(body).ok /\ Checks(DecodeChunk(body).out))

IdWell ==
  what = "id" /\ fetch # "resolve" =>
    LET plain == DecryptECB(body, DepotKey)
    IN  IF plain.ok /\ Len(plain.out) >= IdLen
        THEN fetch = "ok" /\ data = SubSeq(plain.out, 1, IdLen)
        ELSE fetch = "failed"

ManifestWell ==
  what = "manifest" /\ fetch = "ok" =>
    /\ body \in Manifests
    /\ ReadSections(body).ok /\ ReadSections(body).payload # {} /\ ReadSections(body).encrypted # {}
    /\ \E all \in ReadSections(body).payload :
         FilesRead(all, ReadSections(body).encrypted = {TRUE}, files)

ContentInv == FetchKinds /\ ChunkWell /\ IdWell /\ ManifestWell

LEMMA ContentInvInit == ContentInit => ContentInv
<1> SUFFICES ASSUME ContentInit PROVE ContentInv
  OBVIOUS
<1>1. Len(<<>>) < BlockLen /\ <<>> \in Seq(Byte)
  BY BlockLenIs
<1> QED BY <1>1 DEF ContentInit, ContentInv, FetchKinds, ChunkWell, IdWell, ManifestWell

LEMMA ContentInvStep == ContentInv /\ [ContentNext]_contentVars => ContentInv'
<1> SUFFICES ASSUME ContentInv, [ContentNext]_contentVars PROVE ContentInv'
  OBVIOUS
<1> USE DEF ContentInv
<1>1. CASE ListServers
  BY <1>1 DEF ListServers, FetchKinds, ChunkWell, IdWell, ManifestWell, DecodeChunk, Checks
<1>2. CASE TryAgain
  <2>1. Len(<<>>) < BlockLen /\ <<>> \in Seq(Byte)
    BY BlockLenIs
  <2> QED BY <1>2, <2>1 DEF TryAgain, FetchKinds, ChunkWell, IdWell, ManifestWell
<1>3. ASSUME NEW enc \in Ids, ReadId(enc) PROVE ContentInv'
  BY <1>3 DEF ReadId, FetchEnds, FetchKinds, ChunkWell, IdWell, ManifestWell
<1>4. ASSUME NEW raw \in Bodies, ChunkBody(raw) PROVE ContentInv'
  <2>1. /\ what = "chunk" /\ fetch = "get" /\ body' = raw /\ raw \in Seq(Byte)
        /\ UNCHANGED <<what, chunk>>
    BY <1>4, BodiesAssumption DEF ChunkBody, Fetching, FetchEnds, NoGood
  <2>2. DecodeChunk(raw)' = DecodeChunk(raw) /\ \A out : Checks(out)' = Checks(out)
    BY <2>1 DEF DecodeChunk, Checks
  <2>3. CASE DecodeChunk(raw).ok /\ Checks(DecodeChunk(raw).out)
    <3>1. fetch' = "ok" /\ data' = chunk
      BY <1>4, <2>3 DEF ChunkBody, FetchEnds, Checks
    <3> QED BY <2>1, <3>1 DEF FetchKinds, ChunkWell, IdWell, ManifestWell
  <2>4. CASE ~(DecodeChunk(raw).ok /\ Checks(DecodeChunk(raw).out))
    <3>1. fetch' \in {"failed", "backoff"}
      BY <1>4, <2>4 DEF ChunkBody, NoGood
    <3> QED BY <2>1, <2>4, <3>1 DEF FetchKinds, ChunkWell, IdWell, ManifestWell, DecodeChunk, Checks
  <2> QED BY <2>3, <2>4
<1>5. ASSUME NEW sections \in Manifests, ManifestBody(sections) PROVE ContentInv'
  <2>1. what = "manifest" /\ fetch = "get" /\ body' = sections /\ UNCHANGED <<what, chunk>>
    BY <1>5 DEF ManifestBody, Fetching, FetchEnds, NoGood
  <2>2. fetch' \in {"failed", "backoff", "ok"}
    BY <1>5 DEF ManifestBody, FetchEnds, NoGood
  <2> DEFINE m == ReadSections(sections)
             all == CHOOSE list \in m.payload : TRUE
             encrypted == m.encrypted = {TRUE}
             clear == [k \in DOMAIN all |-> IF encrypted THEN DecryptFile(all[k]) ELSE PlainFile(all[k])]
  <2>3. ASSUME fetch' = "ok"
        PROVE  m.ok /\ m.payload # {} /\ m.encrypted # {} /\ FilesRead(all, encrypted, files')
    <3>1. /\ ~(~m.ok \/ m.payload = {} \/ m.encrypted = {})
          /\ ~(encrypted /\ (DepotKey = NoKey \/ ~AllOk(clear)))
          /\ files' = Normalized(clear)
      BY <1>5, <2>3 DEF ManifestBody, FetchEnds, NoGood
    <3>2. CASE encrypted
      <4>1. clear = [k \in DOMAIN all |-> DecryptFile(all[k])]
        BY <3>2
      <4> QED BY <3>1, <3>2, <4>1 DEF FilesRead
    <3>3. CASE ~encrypted
      <4>1. clear = [k \in DOMAIN all |-> PlainFile(all[k])]
        BY <3>3
      <4> QED BY <3>1, <3>3, <4>1 DEF FilesRead
    <3> QED BY <3>2, <3>3
  <2>4. m.payload # {} => all \in m.payload
    OBVIOUS
  <2> HIDE DEF all
  <2>5. ManifestWell'
    BY <2>1, <2>3, <2>4 DEF ManifestWell, FilesRead
  <2> QED BY <2>1, <2>2, <2>5 DEF FetchKinds, ChunkWell, IdWell
<1>6. CASE UNCHANGED contentVars
  BY <1>6 DEF contentVars, FetchKinds, ChunkWell, IdWell, ManifestWell, DecodeChunk, Checks
<1> QED
  BY <1>1, <1>2, <1>3, <1>4, <1>5, <1>6 DEF ContentNext

\* The invariant says that a good body is accepted and an id is the one that was sealed.
LEMMA InvBytes == ContentInv => BytesAsMeant
<1> SUFFICES ASSUME ContentInv PROVE BytesAsMeant
  OBVIOUS
<1> USE DEF ContentInv
<1>1. ASSUME fetch = "ok" PROVE (what = "chunk" => data = chunk) /\ (what = "id" => Whole(body))
  BY <1>1 DEF ChunkWell, IdWell, DecryptECB, NotOk
<1>2. ASSUME DepotKey # NoKey, what = "chunk", Len(body) >= BlockLen, body \in RightBodies
      PROVE  fetch = "ok"
  <2>1. DepotKey \in DOMAIN Decrypt /\ chunk \in Chunks
    BY <1>2, CryptoAssumption DEF FetchKinds
  <2>2. PICK c \in Containers : body = SymmetricEncrypt(c, DepotKey, IVof(body))
    BY <1>2 DEF RightBodies
  <2>3. c \in Seq(Byte) /\ Decompressed(c) = Good(chunk)
    BY <2>1, ContainerIs
  <2>4. IVof(body) \in Blocks
    <3>1. body \in Seq(Byte)
      BY <1>2 DEF FetchKinds
    <3>2. ASSUME NEW k \in 1 .. BlockLen PROVE body[(1 - 1) * BlockLen + k] \in Byte
      BY <1>2, <3>1, BlockLenIs
    <3>3. BlockAt(body, 1) \in Blocks
      BY <3>2 DEF BlockAt, Blocks
    <3> QED BY <2>1, <3>3, Deciphered DEF IVof
  <2>5. SymmetricDecrypt(body, DepotKey) = Good(c)
    BY <2>1, <2>2, <2>3, <2>4, RoundTrip
  <2>6. DecodeChunk(body) = Good(chunk)
    <3>1. DecodeChunk(body) = IF SymmetricDecrypt(body, DepotKey).ok
                              THEN Decompressed(SymmetricDecrypt(body, DepotKey).out) ELSE NotOk
      BY DEF DecodeChunk, Then
    <3> QED BY <2>3, <2>5, <3>1 DEF Good
  <2>7. DecodeChunk(body).ok /\ Checks(DecodeChunk(body).out)
    BY <2>6 DEF Good, Checks
  <2>8. ~(Len(body) < BlockLen)
    BY <1>2, BlockLenIs DEF FetchKinds
  <2> QED BY <1>2, <2>7, <2>8 DEF ChunkWell
<1>3. ASSUME DepotKey # NoKey, what = "id", fetch # "resolve", NEW id \in [1 .. IdLen -> Byte],
             body = Sealed(id)
      PROVE  fetch = "ok" /\ data = id
  <2>1. DepotKey \in DOMAIN Decrypt
    BY <1>3, CryptoAssumption
  <2>2. IdLen \in Nat /\ id \in Seq(Byte) /\ Len(id) = IdLen
    BY <1>3, BlockLenIs DEF IdLen
  <2>3. DecryptECB(body, DepotKey) = Good(id)
    BY <1>3, <2>1, <2>2, SealedIs
  <2>4. SubSeq(id, 1, IdLen) = id /\ Len(id) >= IdLen
    BY <2>2
  <2>5. DecryptECB(body, DepotKey).ok /\ DecryptECB(body, DepotKey).out = id
    BY <2>3, SMTT(30) DEF Good
  <2> QED BY <1>3, <2>4, <2>5 DEF IdWell
<1> QED BY <1>1, <1>2, <1>3 DEF BytesAsMeant

LEMMA InvClear == ContentInv => ManifestInClear
<1> SUFFICES ASSUME ContentInv, what = "manifest", fetch = "ok" PROVE ManifestInClear
  BY ZenonT(60) DEF ManifestInClear
<1> DEFINE m == ReadSections(body)
           N == Len(body)
           ends == {k \in DOMAIN body : body[k].magic = "end"}
           read == {k \in DOMAIN body : \A e \in ends : k < e}
           of(magic) == {k \in read : body[k].magic = magic}
           at(magic) == CHOOSE k \in of(magic) : \A j \in of(magic) : j <= k
<1>1. /\ body \in Manifests /\ m.ok /\ m.payload # {} /\ m.encrypted # {}
      /\ \E all \in m.payload : FilesRead(all, m.encrypted = {TRUE}, files)
  BY DEF ContentInv, ManifestWell
<1>2. m \in ReadStates /\ ReadWell(body, N, m) /\ DOMAIN body = 1 .. N /\ N \in Nat
      /\ \A k \in 1 .. N : body[k] \in SentSections
  BY <1>1, ReadSectionsIs, ManifestsAssumption
<1>3. read = ReadUpTo(body, N) /\ \A magic : of(magic) = KindUpTo(body, N, magic)
  BY <1>2 DEF ReadUpTo, KindUpTo
<1>4. \A k \in read : body[k].whole
  BY <1>1, <1>2, <1>3 DEF ReadWell
<1>5. ASSUME NEW magic, NEW got, NEW f, got # {}, LastIs(KindUpTo(body, N, magic), got, f)
      PROVE  of(magic) # {} /\ at(magic) \in 1 .. N /\ got = {f[at(magic)]}
  <2>1. PICK k \in of(magic) : (\A j \in of(magic) : j <= k) /\ got = {f[k]}
    BY <1>3, <1>5 DEF LastIs
  <2>2. \A j \in of(magic) : j \in 1 .. N
    BY <1>2
  <2>3. at(magic) \in of(magic) /\ \A j \in of(magic) : j <= at(magic)
    BY <2>1
  <2> HIDE DEF at
  <2>4. at(magic) = k
    <3>1. k <= at(magic) /\ at(magic) <= k /\ k \in 1 .. N /\ at(magic) \in 1 .. N
      BY <2>1, <2>2, <2>3
    <3> QED BY <1>2, <3>1
  <2> QED BY <2>1, <2>2, <2>4
<1> HIDE DEF at
<1>6. /\ of("payload") # {} /\ at("payload") \in 1 .. N /\ m.payload = {body[at("payload")].files}
      /\ of("metadata") # {} /\ at("metadata") \in 1 .. N /\ m.encrypted = {body[at("metadata")].encrypted}
  <2> DEFINE sent == [k \in 1 .. N |-> body[k].files]
             enc == [k \in 1 .. N |-> body[k].encrypted]
  <2>1. /\ LastIs(KindUpTo(body, N, "payload"), m.payload, sent)
        /\ LastIs(KindUpTo(body, N, "metadata"), m.encrypted, enc)
    BY <1>1, <1>2 DEF ReadWell
  <2>2. /\ \A k \in 1 .. N : sent[k] = body[k].files
        /\ \A k \in 1 .. N : enc[k] = body[k].encrypted
    OBVIOUS
  <2> HIDE DEF sent, enc, of, m
  <2>3. of("payload") # {} /\ at("payload") \in 1 .. N /\ m.payload = {sent[at("payload")]}
    BY <1>1, <1>5, <2>1
  <2>4. of("metadata") # {} /\ at("metadata") \in 1 .. N /\ m.encrypted = {enc[at("metadata")]}
    BY <1>1, <1>5, <2>1
  <2> QED BY <2>2, <2>3, <2>4
<1> DEFINE sent == body[at("payload")].files
           encrypted == body[at("metadata")].encrypted
           clear(file) == IF encrypted THEN file.clear
                          ELSE [name |-> Normal(file.name), link |-> Normal(file.link)]
<1>7. sent \in Seq(SentFiles) /\ encrypted \in BOOLEAN /\ FilesRead(sent, encrypted, files)
  <2>1. body[at("payload")] \in SentSections /\ body[at("metadata")] \in SentSections
    BY <1>2, <1>6
  <2>2. sent \in Seq(SentFiles) /\ encrypted \in BOOLEAN
    BY <2>1, ManifestsAssumption
  <2>3. (m.encrypted = {TRUE}) = encrypted
    BY <1>6, <2>2
  <2> HIDE DEF sent, encrypted
  <2>4. FilesRead(sent, encrypted, files)
    BY <1>1, <1>6, <2>3 DEF sent
  <2> QED BY <2>2, <2>4
<1> HIDE DEF sent, encrypted
<1>8. files = [k \in DOMAIN sent |-> clear(sent[k])]
  BY <1>7, FilesAreClear
<1> QED BY <1>4, <1>6, <1>8, ZenonT(60) DEF ManifestInClear, at, sent, encrypted

\* A chunk that is returned is the chunk that was asked for, whatever bytes a server
\* sends, and no body that holds it is refused; the id of a locked branch's manifest is
\* the one Steam encrypted.
THEOREM BytesCorrect == ContentSpec => []BytesAsMeant
BY ContentInvInit, ContentInvStep, InvBytes, PTL DEF ContentSpec

\* A manifest that is returned has the files of its last payload, every name in clear.
THEOREM ClearCorrect == ContentSpec => []ManifestInClear
BY ContentInvInit, ContentInvStep, InvClear, PTL DEF ContentSpec

----------------------------------------------------------------------------
\* What goes from all later places to the one before them holds at all of them.
LEMMA DownTo ==
  ASSUME NEW lo \in Nat, NEW hi \in Nat, NEW T,
         \A k \in lo .. hi : (\A j \in k + 1 .. hi : j \in T) => k \in T
  PROVE  lo .. hi \subseteq T
<1> DEFINE U == {hi - k : k \in {j \in lo .. hi : j \notin T}}
<1>1. SUFFICES ASSUME NEW bad \in lo .. hi, bad \notin T PROVE FALSE
  OBVIOUS
<1>2. U \subseteq Nat /\ U # {}
  <2>1. bad \in {j \in lo .. hi : j \notin T}
    BY <1>1
  <2>2. hi - bad \in U
    BY <2>1
  <2>3. \A u \in U : u \in Nat
    OBVIOUS
  <2> QED BY <2>2, <2>3
<1>3. PICK m \in U : \A k \in U : m <= k
  <2> HIDE DEF U
  <2> QED BY <1>2, LeastOf
<1>4. PICK k \in lo .. hi : k \notin T /\ m = hi - k
  OBVIOUS
<1>5. PICK j \in k + 1 .. hi : j \notin T
  BY <1>4
<1>6. j \in lo .. hi /\ hi - j \in U
  BY <1>5
<1>7. hi - k <= hi - j
  BY <1>3, <1>4, <1>6
<1> QED BY <1>7

\* There is a function whose value at a place next makes of those at later ones.
Back(f, lo, hi, S, next) ==
  /\ f \in [lo .. hi -> S]
  /\ \A k \in lo .. hi : f[k] = next[k][[j \in k + 1 .. hi |-> f[j]]]

LEMMA Backwards ==
  ASSUME NEW lo \in Nat, NEW hi \in Nat, lo <= hi + 1, NEW S, NEW next,
         \A k \in lo .. hi : next[k] \in [[k + 1 .. hi -> S] -> S]
  PROVE  \E f : Back(f, lo, hi, S, next)
<1> DEFINE N == hi + 1 - lo
           T == {m \in 0 .. N : \E f : Back(f, hi + 1 - m, hi, S, next)}
<1>1. 0 \in T
  <2>1. Back([k \in hi + 1 .. hi |-> 0], hi + 1, hi, S, next)
    BY DEF Back
  <2>2. 0 \in 0 .. N /\ hi + 1 - 0 = hi + 1
    OBVIOUS
  <2> QED BY <2>1, <2>2
<1>2. ASSUME NEW m \in 0 .. N - 1, m \in T PROVE m + 1 \in T
  <2> DEFINE a == hi - m
  <2>0. a \in lo .. hi /\ hi + 1 - m = a + 1 /\ hi + 1 - (m + 1) = a /\ m + 1 \in 0 .. N /\ a \in Int
    OBVIOUS
  <2>1. PICK f : Back(f, a + 1, hi, S, next)
    BY <1>2, <2>0
  <2> HIDE DEF a
  <2> DEFINE g == [k \in a .. hi |-> IF k = a THEN next[a][f] ELSE f[k]]
  <2>2. f \in [a + 1 .. hi -> S] /\ next[a][f] \in S
    BY <2>0, <2>1 DEF Back
  <2>3. g \in [a .. hi -> S] /\ g[a] = next[a][f] /\ \A k \in a + 1 .. hi : g[k] = f[k]
    BY <2>0, <2>2
  <2> HIDE DEF g
  <2>4. ASSUME NEW k \in a .. hi PROVE g[k] = next[k][[j \in k + 1 .. hi |-> g[j]]]
    <3>1. [j \in k + 1 .. hi |-> g[j]] = [j \in k + 1 .. hi |-> f[j]]
      BY <2>0, <2>3
    <3>2. CASE k = a
      <4>1. [j \in k + 1 .. hi |-> f[j]] = f
        BY <2>2, <3>2
      <4> QED BY <2>3, <3>1, <3>2, <4>1
    <3>3. CASE k # a
      <4>1. k \in a + 1 .. hi
        BY <2>0, <3>3
      <4> QED BY <2>1, <2>3, <3>1, <4>1 DEF Back
    <3> QED BY <3>2, <3>3
  <2>5. Back(g, a, hi, S, next)
    BY <2>3, <2>4 DEF Back
  <2> QED BY <2>0, <2>5
<1>3. N \in Nat
  OBVIOUS
<1> HIDE DEF T
<1>4. N \in T
  BY <1>1, <1>2, <1>3, UpTo
<1>5. hi + 1 - N = lo
  OBVIOUS
<1> QED BY <1>4, <1>5 DEF T

----------------------------------------------------------------------------
(***************************************************************************)
(* Documents (Vdf): what the helpers of both parsers return.               *)
(***************************************************************************)
LEMMA Characters ==
  /\ \A c \in {Space, LBrace, RBrace, Quote} :
       c \notin {"\t", "\r", "\n", NUL, "/", "\\", "n", "t", "r"}
  /\ Space \notin {LBrace, RBrace, Quote} /\ LBrace \notin {RBrace, Quote} /\ RBrace # Quote
  /\ NUL \notin {"\t", "\r", "\n", "/", "\\"}
<1>1. Space \notin {"\t", "\r", "\n", NUL, "/", "\\", "n", "t", "r"}
  BY Zenon DEF Space, NUL
<1>2. LBrace \notin {"\t", "\r", "\n", NUL, "/", "\\", "n", "t", "r"}
  BY Zenon DEF LBrace, NUL
<1>3. RBrace \notin {"\t", "\r", "\n", NUL, "/", "\\", "n", "t", "r"}
  BY Zenon DEF RBrace, NUL
<1>4. Quote \notin {"\t", "\r", "\n", NUL, "/", "\\", "n", "t", "r"}
  BY Zenon DEF Quote, NUL
<1>5. Space \notin {LBrace, RBrace, Quote} /\ LBrace \notin {RBrace, Quote} /\ RBrace # Quote
  BY Zenon DEF Space, LBrace, RBrace, Quote
<1>6. NUL \notin {"\t", "\r", "\n", "/", "\\"}
  BY Zenon DEF NUL
<1> QED BY <1>1, <1>2, <1>3, <1>4, <1>5, <1>6

LEMMA NextOfIs ==
  ASSUME Len(src) \in Nat, NEW chars, NEW p \in 1 .. Len(src) + 1
  PROVE  LET end == NextOf(chars, p)
         IN  /\ end \in p .. Len(src) + 1
             /\ \A j \in p .. end - 1 : src[j] \notin chars
             /\ ~AtEnd(end) => src[end] \in chars
<1> DEFINE U == {k \in p .. Len(src) : src[k] \in chars} \cup {Len(src) + 1}
<1>1. U \subseteq Nat /\ U # {}
  OBVIOUS
<1>2. NextOf(chars, p) \in U /\ \A k \in U : NextOf(chars, p) <= k
  <2>1. \E m \in U : \A k \in U : m <= k
    <3> HIDE DEF U
    <3> QED BY <1>1, LeastOf
  <2> QED BY <2>1 DEF NextOf, Min
<1> DEFINE e == NextOf(chars, p)
<1> HIDE DEF e
<1>3. e \in U /\ \A k \in U : e <= k
  BY <1>2 DEF e
<1>4. e \in p .. Len(src) + 1 /\ (~AtEnd(e) => src[e] \in chars)
  BY <1>3 DEF AtEnd
<1>5. ASSUME NEW j \in p .. e - 1 PROVE src[j] \notin chars
  <2>1. j \in p .. Len(src) /\ ~(e <= j)
    BY <1>4
  <2>2. j \notin U
    BY <1>3, <2>1
  <2> QED BY <2>1, <2>2
<1> QED BY <1>4, <1>5 DEF e

\* skipSpace goes on where its loop goes.
SkipStep(k, skip) ==
  IF AtEnd(k) THEN k
  ELSE IF src[k] \in Blanks THEN skip[k + 1]
  ELSE IF Comment(k) THEN skip[NextOf({"\n"}, k)] ELSE k

LEMMA LineEnds ==
  ASSUME Len(src) \in Nat, NEW k \in 1 .. Len(src) + 1, Comment(k)
  PROVE  NextOf({"\n"}, k) \in k + 1 .. Len(src) + 1
<1>1. NextOf({"\n"}, k) \in k .. Len(src) + 1 /\ src[k] = "/" /\ k < Len(src)
  BY NextOfIs DEF Comment
<1>2. NextOf({"\n"}, k) # k
  <2>1. ~AtEnd(k) /\ src[k] \notin {"\n"}
    BY <1>1 DEF AtEnd
  <2> QED BY <2>1, NextOfIs
<1> QED BY <1>1, <1>2

LEMMA SkippingIs ==
  ASSUME Len(src) \in Nat, NEW k \in 1 .. Len(src) + 1
  PROVE  SkipSpace(k) = SkipStep(k, Skipping)
<1> DEFINE lo == 1
           hi == Len(src) + 1
           S == lo .. hi
           next == [j \in lo .. hi |-> [g \in [j + 1 .. hi -> S] |-> SkipStep(j, g)]]
           Chain(f) == f = [j \in 1 .. Len(src) + 1 |->
                              IF AtEnd(j) THEN j
                              ELSE IF src[j] \in Blanks THEN f[j + 1]
                              ELSE IF Comment(j) THEN f[NextOf({"\n"}, j)] ELSE j]
<1>1. Skipping = CHOOSE f : Chain(f)
  BY DEF Skipping
<1>2. ASSUME NEW j \in lo .. hi, NEW g \in [j + 1 .. hi -> S] PROVE SkipStep(j, g) \in S
  <2>1. CASE AtEnd(j)
    BY <2>1 DEF SkipStep
  <2>2. CASE ~AtEnd(j)
    <3>1. j + 1 \in j + 1 .. hi
      BY <2>2 DEF AtEnd
    <3>2. Comment(j) => NextOf({"\n"}, j) \in j + 1 .. hi
      BY LineEnds
    <3> QED BY <2>2, <3>1, <3>2 DEF SkipStep
  <2> QED BY <2>1, <2>2
<1>3. \A j \in lo .. hi : next[j] \in [[j + 1 .. hi -> S] -> S]
  BY <1>2
<1>4. \A j \in lo .. hi : \A g \in [j + 1 .. hi -> S] : next[j][g] = SkipStep(j, g)
  OBVIOUS
<1> HIDE DEF next
<1>5. \E f : Back(f, lo, hi, S, next)
  <2>1. lo \in Nat /\ hi \in Nat /\ lo <= hi + 1
    OBVIOUS
  <2> HIDE DEF lo, hi, S
  <2> QED BY <1>3, <2>1, Backwards
<1>6. PICK f : Back(f, lo, hi, S, next)
  BY <1>5
<1>7. ASSUME NEW j \in lo .. hi PROVE f[j] = SkipStep(j, f)
  <2> DEFINE g == [i \in j + 1 .. hi |-> f[i]]
  <2>1. g \in [j + 1 .. hi -> S] /\ f[j] = SkipStep(j, g)
    <3>1. g \in [j + 1 .. hi -> S]
      BY <1>6 DEF Back
    <3> QED BY <1>4, <1>6, <3>1 DEF Back
  <2>2. CASE AtEnd(j)
    BY <2>1, <2>2 DEF SkipStep
  <2>3. CASE ~AtEnd(j)
    <3>1. j + 1 \in j + 1 .. hi
      BY <2>3 DEF AtEnd
    <3>2. Comment(j) => NextOf({"\n"}, j) \in j + 1 .. hi
      BY LineEnds
    <3>3. g[j + 1] = f[j + 1] /\ (Comment(j) => g[NextOf({"\n"}, j)] = f[NextOf({"\n"}, j)])
      BY <3>1, <3>2
    <3> QED BY <2>1, <3>3 DEF SkipStep
  <2> QED BY <2>2, <2>3
<1>8. Chain(f)
  <2>1. \A j \in 1 .. Len(src) + 1 :
          f[j] = IF AtEnd(j) THEN j
                 ELSE IF src[j] \in Blanks THEN f[j + 1]
                 ELSE IF Comment(j) THEN f[NextOf({"\n"}, j)] ELSE j
    BY <1>7 DEF SkipStep
  <2>2. DOMAIN f = 1 .. Len(src) + 1 /\ f = [j \in DOMAIN f |-> f[j]]
    BY <1>6 DEF Back
  <2> QED BY <2>1, <2>2
<1>9. Chain(Skipping)
  BY <1>1, <1>8
<1> DEFINE sk == Skipping
<1> HIDE DEF sk
<1>10. Chain(sk)
  BY <1>9 DEF sk
<1>11. sk[k] = SkipStep(k, sk)
  BY <1>10 DEF SkipStep
<1> QED BY <1>11 DEF SkipSpace, sk

\* A string in quotes is read where its loop reads.
Chars == {src[k] : k \in 1 .. Len(src)} \cup {"\n", "\t", "\r"}
Tokens == [ok : BOOLEAN, next : Nat, token : Seq(Chars)]

QuoteStep(k, read) ==
  IF AtEnd(k) THEN NoToken
  ELSE IF src[k] = Quote THEN [ok |-> TRUE, next |-> k + 1, token |-> <<>>]
  ELSE IF src[k] = "\\"
  THEN IF AtEnd(k + 1) THEN NoToken ELSE Prefixed(Escaped(src[k + 1]), read[k + 2])
  ELSE Prefixed(src[k], read[k + 1])

LEMMA PrefixedIs ==
  ASSUME NEW c \in Chars, NEW r \in Tokens
  PROVE  /\ Prefixed(c, r) \in Tokens
         /\ Prefixed(c, r).ok = r.ok /\ Prefixed(c, r).next = r.next
         /\ Prefixed(c, r).token = <<c>> \o r.token
<1>1. <<c>> \o r.token \in Seq(Chars)
  <2>1. <<c>> \in Seq(Chars) /\ r.token \in Seq(Chars)
    BY DEF Tokens
  <2> QED BY <2>1
<1> QED BY <1>1 DEF Prefixed, Tokens

LEMMA QuotingIs ==
  ASSUME Len(src) \in Nat, NEW k \in 2 .. Len(src) + 2
  PROVE  Quoting[k] \in Tokens /\ Quoting[k] = QuoteStep(k, Quoting)
<1> DEFINE lo == 2
           hi == Len(src) + 2
           S == Tokens
           next == [j \in lo .. hi |-> [g \in [j + 1 .. hi -> S] |-> QuoteStep(j, g)]]
           Chain(f) == f = [j \in 2 .. Len(src) + 2 |->
                              IF AtEnd(j) THEN NoToken
                              ELSE CASE src[j] = Quote -> [ok |-> TRUE, next |-> j + 1, token |-> <<>>]
                                     [] src[j] = "\\" -> IF AtEnd(j + 1) THEN NoToken
                                                         ELSE Prefixed(Escaped(src[j + 1]), f[j + 2])
                                     [] OTHER         -> Prefixed(src[j], f[j + 1])]
<1>0. Len(src) \in Nat /\ NoToken \in Tokens
  BY DEF NoToken, Tokens
<1>1. Quoting = CHOOSE f : Chain(f)
  BY DEF Quoting
<1>2. ASSUME NEW j \in lo .. hi, NEW g \in [j + 1 .. hi -> S] PROVE QuoteStep(j, g) \in S
  <2>1. CASE AtEnd(j)
    BY <1>0, <2>1 DEF QuoteStep
  <2>2. CASE ~AtEnd(j)
    <3>1. j \in 1 .. Len(src) /\ j + 1 \in j + 1 .. hi /\ src[j] \in Chars
      BY <1>0, <2>2 DEF AtEnd, Chars
    <3>2. Prefixed(src[j], g[j + 1]) \in Tokens
      BY <3>1, PrefixedIs
    <3>3. [ok |-> TRUE, next |-> j + 1, token |-> <<>>] \in Tokens
      BY <1>0, <3>1 DEF Tokens
    <3>4. ASSUME ~AtEnd(j + 1) PROVE Prefixed(Escaped(src[j + 1]), g[j + 2]) \in Tokens
      <4>1. j + 1 \in 1 .. Len(src) /\ j + 2 \in j + 1 .. hi
        BY <1>0, <3>1, <3>4 DEF AtEnd
      <4>2. src[j + 1] \in Chars /\ g[j + 2] \in Tokens
        BY <4>1 DEF Chars
      <4>3. Escaped(src[j + 1]) \in Chars
        <5>1. "\n" \in Chars /\ "\t" \in Chars /\ "\r" \in Chars
          BY DEF Chars
        <5> QED BY <4>2, <5>1 DEF Escaped
      <4> QED BY <4>2, <4>3, PrefixedIs
    <3> QED BY <1>0, <2>2, <3>2, <3>3, <3>4 DEF QuoteStep
  <2> QED BY <2>1, <2>2
<1>3. \A j \in lo .. hi : next[j] \in [[j + 1 .. hi -> S] -> S]
  BY <1>2
<1>4. \A j \in lo .. hi : \A g \in [j + 1 .. hi -> S] : next[j][g] = QuoteStep(j, g)
  OBVIOUS
<1> HIDE DEF next
<1>5. \E f : Back(f, lo, hi, S, next)
  <2>1. lo \in Nat /\ hi \in Nat /\ lo <= hi + 1
    BY <1>0
  <2> HIDE DEF lo, hi, S
  <2> QED BY <1>3, <2>1, Backwards
<1>6. PICK f : Back(f, lo, hi, S, next)
  BY <1>5
<1>7. ASSUME NEW j \in lo .. hi PROVE f[j] = QuoteStep(j, f)
  <2> DEFINE g == [i \in j + 1 .. hi |-> f[i]]
  <2>1. g \in [j + 1 .. hi -> S] /\ f[j] = QuoteStep(j, g)
    <3>1. g \in [j + 1 .. hi -> S]
      BY <1>0, <1>6 DEF Back
    <3> QED BY <1>4, <1>6, <3>1 DEF Back
  <2>2. CASE AtEnd(j)
    BY <2>1, <2>2 DEF QuoteStep
  <2>3. CASE ~AtEnd(j)
    <3>1. g[j + 1] = f[j + 1] /\ (~AtEnd(j + 1) => g[j + 2] = f[j + 2])
      BY <1>0, <2>3 DEF AtEnd
    <3> QED BY <2>1, <3>1 DEF QuoteStep
  <2> QED BY <2>2, <2>3
<1>8. Chain(f)
  <2>1. \A j \in 2 .. Len(src) + 2 :
          f[j] = IF AtEnd(j) THEN NoToken
                 ELSE CASE src[j] = Quote -> [ok |-> TRUE, next |-> j + 1, token |-> <<>>]
                        [] src[j] = "\\" -> IF AtEnd(j + 1) THEN NoToken
                                            ELSE Prefixed(Escaped(src[j + 1]), f[j + 2])
                        [] OTHER         -> Prefixed(src[j], f[j + 1])
    BY <1>7, Characters DEF QuoteStep
  <2>2. DOMAIN f = 2 .. Len(src) + 2 /\ f = [j \in DOMAIN f |-> f[j]]
    BY <1>6 DEF Back
  <2> QED BY <2>1, <2>2
<1> HIDE DEF Chain
<1>9. Chain(Quoting)
  BY <1>1, <1>8
<1> DEFINE q == Quoting
<1> HIDE DEF q
<1>r. Chain(q)
  BY <1>9 DEF q
<1>10. \A j \in lo .. hi : q[j] = QuoteStep(j, q)
  BY <1>r, Characters DEF QuoteStep, Chain
<1>11. lo .. hi \subseteq {j \in lo .. hi : q[j] \in Tokens}
  <2> DEFINE T == {j \in lo .. hi : q[j] \in Tokens}
  <2>1. ASSUME NEW j \in lo .. hi, \A i \in j + 1 .. hi : i \in T PROVE j \in T
    <3> DEFINE g == [i \in j + 1 .. hi |-> q[i]]
    <3>1. g \in [j + 1 .. hi -> S]
      BY <2>1
    <3>2. QuoteStep(j, g) \in Tokens
      BY <1>2, <3>1
    <3>3. QuoteStep(j, g) = QuoteStep(j, q)
      <4>1. ~AtEnd(j) => g[j + 1] = q[j + 1] /\ (~AtEnd(j + 1) => g[j + 2] = q[j + 2])
        BY <1>0 DEF AtEnd
      <4> HIDE DEF g
      <4> QED BY <4>1 DEF QuoteStep
    <3> QED BY <1>10, <3>2, <3>3
  <2>2. lo \in Nat /\ hi \in Nat
    BY <1>0
  <2> HIDE DEF T, lo, hi
  <2>3. lo .. hi \subseteq T
    BY <2>1, <2>2, DownTo
  <2> QED BY <2>3 DEF T
<1> QED BY <1>10, <1>11 DEF q, QuoteStep

\* What a text holds up to a place is what it held before, and one character more.
Scanned == [mode : {"between", "quoted", "escape", "comment", "plain"},
            opened : Nat, closed : Nat, tokens : Nat, stray : BOOLEAN]

NothingScanned == [mode |-> "between", opened |-> 0, closed |-> 0, tokens |-> 0, stray |-> FALSE]

LEMMA AddIs ==
  ASSUME NEW s \in Scanned, NEW text, NEW k PROVE Add(s, text, k) \in Scanned
<1>1. Between(s, text, k) \in Scanned
  <2>1. [s EXCEPT !.mode = "between"] \in Scanned /\ [s EXCEPT !.mode = "comment"] \in Scanned
    BY DEF Scanned
  <2>a. s.tokens + 1 \in Nat /\ s.opened + 1 \in Nat
    BY DEF Scanned
  <2>2. [s EXCEPT !.mode = "quoted", !.tokens = @ + 1] \in Scanned
    BY <2>a DEF Scanned
  <2>3. [s EXCEPT !.mode = "plain", !.tokens = @ + 1] \in Scanned
    BY <2>a DEF Scanned
  <2>4. [s EXCEPT !.mode = "between", !.opened = @ + 1] \in Scanned
    BY <2>a DEF Scanned
  <2>5. [s EXCEPT !.mode = "between", !.closed = @ + 1, !.stray = @ \/ s.closed >= s.opened] \in Scanned
    <3>1. (s.stray \/ s.closed >= s.opened) \in BOOLEAN /\ s.closed + 1 \in Nat
      BY DEF Scanned
    <3> QED BY <3>1 DEF Scanned
  <2> QED BY <2>1, <2>2, <2>3, <2>4, <2>5 DEF Between
<1>2. /\ [s EXCEPT !.mode = "between"] \in Scanned /\ [s EXCEPT !.mode = "quoted"] \in Scanned
      /\ [s EXCEPT !.mode = "escape"] \in Scanned
  BY DEF Scanned
<1> QED BY <1>1, <1>2 DEF Add

LEMMA ScanningIs ==
  ASSUME NEW text, Len(text) \in Nat
  PROVE  LET s == Scanning(text)
         IN  /\ \A k \in 0 .. Len(text) : s[k] \in Scanned
             /\ s[0] = NothingScanned
             /\ \A k \in 1 .. Len(text) : s[k] = Add(s[k - 1], text, k)
<1> DEFINE N == Len(text)
           next == [k \in 1 .. N |-> [s \in Scanned |-> Add(s, text, k)]]
           Chain(f) == f = [k \in 0 .. N |-> IF k = 0 THEN NothingScanned ELSE Add(f[k - 1], text, k)]
           r == Scanning(text)
<1>2. Scanning(text) = CHOOSE f : Chain(f)
  BY DEF Scanning, NothingScanned
<1>1. N \in Nat
  OBVIOUS
<1> HIDE DEF N
<1>3. next \in [1 .. N -> [Scanned -> Scanned]]
  BY <1>1, AddIs
<1>4. \A s \in Scanned : \A k \in 1 .. N : next[k][s] = Add(s, text, k)
  OBVIOUS
<1>5. NothingScanned \in Scanned
  BY DEF NothingScanned, Scanned
<1> HIDE DEF next
<1>6. PICK f : Steps(f, N, Scanned, NothingScanned, next)
  BY <1>1, <1>3, <1>5, Recursion
<1>7. Chain(f)
  <2>1. ASSUME NEW k \in 0 .. N
        PROVE  f[k] = IF k = 0 THEN NothingScanned ELSE Add(f[k - 1], text, k)
    <3>1. CASE k = 0
      BY <1>6, <3>1 DEF Steps
    <3>2. CASE k # 0
      <4>1. k \in 1 .. N /\ k - 1 \in 0 .. N
        BY <1>1, <3>2
      <4> QED BY <1>4, <1>6, <3>2, <4>1 DEF Steps
    <3> QED BY <3>1, <3>2
  <2>2. DOMAIN f = 0 .. N /\ f = [k \in DOMAIN f |-> f[k]]
    BY <1>6 DEF Steps
  <2> QED BY <2>1, <2>2
<1>8. Chain(r)
  BY <1>2, <1>7
<1> HIDE DEF r
<1>9. r[0] = NothingScanned
  BY <1>1, <1>8
<1>10. ASSUME NEW k \in 1 .. N PROVE r[k] = Add(r[k - 1], text, k)
  <2>1. k \in 0 .. N /\ k # 0
    OBVIOUS
  <2> QED BY <1>8, <2>1
<1>11. 0 .. N \subseteq {k \in 0 .. N : r[k] \in Scanned}
  <2> DEFINE T == {k \in 0 .. N : r[k] \in Scanned}
  <2>1. 0 \in T
    BY <1>1, <1>5, <1>9
  <2>2. ASSUME NEW k \in 0 .. N - 1, k \in T PROVE k + 1 \in T
    <3>1. k + 1 \in 1 .. N /\ k + 1 \in 0 .. N /\ (k + 1) - 1 = k
      BY <1>1
    <3>2. r[k + 1] = Add(r[k], text, k + 1)
      BY <1>10, <3>1
    <3> QED BY <1>1, <2>2, <3>1, <3>2, AddIs
  <2> HIDE DEF T
  <2> QED BY <1>1, <2>1, <2>2, UpTo DEF T
<1> QED BY <1>9, <1>10, <1>11 DEF N, r

----------------------------------------------------------------------------
(***************************************************************************)
(* Every character of a text is looked at, and counted once.               *)
(***************************************************************************)
SameCount(s, t) ==
  s.opened = t.opened /\ s.closed = t.closed /\ s.tokens = t.tokens /\ s.stray = t.stray

\* Nothing is half read at p: what stands there begins something.
ReadyAt(text, p) ==
  LET mode == Scanning(text)[p - 1].mode
  IN  mode = "between" \/ (mode = "plain" /\ (p > Len(text) \/ text[p] \in Stops))

LineDone(text, p) == Scanning(text)[p - 1].mode = "comment" /\ (p > Len(text) \/ text[p] = "\n")

SkipWell(p, q) ==
  /\ q \in p .. Len(src) + 1
  /\ SameCount(Scanning(src)[q - 1], Scanning(src)[p - 1])
  /\ IF AtEnd(q) THEN Scanning(src)[q - 1].mode \in {"between", "plain", "comment"}
     ELSE ReadyAt(src, q) /\ src[q] \notin Blanks /\ ~Comment(q)

LEMMA SkipWellIs ==
  ASSUME Len(src) \in Nat, NEW p \in 1 .. Len(src) + 1, ReadyAt(src, p)
  PROVE  SkipWell(p, SkipSpace(p))
<1> DEFINE N == Len(src)
           s == Scanning(src)
           Turn(k) == ReadyAt(src, k) \/ LineDone(src, k)
           T == {k \in 1 .. N + 1 : Turn(k) => SkipWell(k, SkipSpace(k))}
<1>1. /\ N \in Nat /\ \A k \in 0 .. N : s[k] \in Scanned
      /\ \A k \in 1 .. N : s[k] = Add(s[k - 1], src, k)
  BY ScanningIs
<1>s. \A k : ReadyAt(src, k) <=> \/ s[k - 1].mode = "between"
                                 \/ s[k - 1].mode = "plain" /\ (AtEnd(k) \/ src[k] \in Stops)
  BY DEF ReadyAt, AtEnd
<1>t. \A k : LineDone(src, k) <=> s[k - 1].mode = "comment" /\ (AtEnd(k) \/ src[k] = "\n")
  BY DEF LineDone, AtEnd
<1>w. \A k, q : SkipWell(k, q) <=>
        /\ q \in k .. N + 1 /\ SameCount(s[q - 1], s[k - 1])
        /\ IF AtEnd(q) THEN s[q - 1].mode \in {"between", "plain", "comment"}
           ELSE ReadyAt(src, q) /\ src[q] \notin Blanks /\ ~Comment(q)
  BY DEF SkipWell
<1> HIDE DEF s
<1>2. ASSUME NEW k \in 1 .. N + 1, \A j \in k + 1 .. N + 1 : j \in T, Turn(k)
      PROVE  SkipWell(k, SkipSpace(k))
  <2>1. SkipSpace(k) = SkipStep(k, Skipping) /\ \A j : Skipping[j] = SkipSpace(j)
    BY SkippingIs DEF SkipSpace
  <2>2. CASE AtEnd(k)
    <3>1. SkipSpace(k) = k
      BY <2>1, <2>2 DEF SkipStep
    <3> QED BY <1>2, <1>s, <1>t, <1>w, <2>2, <3>1 DEF SameCount
  <2>3. ASSUME NEW q \in k + 1 .. N + 1, SkipSpace(k) = SkipSpace(q), Turn(q), SameCount(s[q - 1], s[k - 1])
        PROVE  SkipWell(k, SkipSpace(k))
    <3>1. SkipWell(q, SkipSpace(q))
      BY <1>2, <2>3
    <3> QED BY <1>w, <2>3, <3>1 DEF SameCount
  <2>4. CASE ~AtEnd(k) /\ src[k] \in Blanks
    <3>1. k \in 1 .. N /\ k + 1 \in k + 1 .. N + 1 /\ (k + 1) - 1 = k
      BY <1>1, <2>4 DEF AtEnd
    <3>2. SkipSpace(k) = SkipSpace(k + 1)
      BY <2>1, <2>4 DEF SkipStep
    <3>3. s[k - 1] \in Scanned /\ s[k] = Add(s[k - 1], src, k)
      BY <1>1, <3>1
    <3>4. s[k] = [s[k - 1] EXCEPT !.mode = "between"]
      BY <1>2, <1>s, <1>t, <2>4, <3>3, Characters DEF Add, Between, Blanks, Stops
    <3>5. s[k].mode = "between" /\ SameCount(s[k], s[k - 1])
      BY <3>3, <3>4 DEF SameCount, Scanned
    <3>6. Turn(k + 1)
      BY <1>s, <3>1, <3>5
    <3> QED BY <2>3, <3>1, <3>2, <3>5, <3>6
  <2>5. CASE ~AtEnd(k) /\ src[k] \notin Blanks /\ Comment(k)
    <3> DEFINE e == NextOf({"\n"}, k)
    <3>1. /\ e \in k + 1 .. N + 1 /\ \A j \in k .. e - 1 : src[j] # "\n"
          /\ AtEnd(e) \/ src[e] = "\n"
      BY <1>1, <2>5, LineEnds, NextOfIs
    <3>2. SkipSpace(k) = SkipSpace(e)
      BY <2>1, <2>5 DEF SkipStep
    <3> HIDE DEF e
    <3>3. k \in 1 .. N /\ s[k - 1] \in Scanned /\ s[k] = Add(s[k - 1], src, k)
      BY <1>1, <2>5 DEF AtEnd
    <3>4. s[k] = [s[k - 1] EXCEPT !.mode = "comment"]
      <4>1. src[k] = "/" /\ k < Len(src) /\ src[k + 1] = "/"
        BY <2>5 DEF Comment
      <4>2. s[k - 1].mode = "between"
        BY <1>2, <1>s, <1>t, <2>5, <4>1, Characters DEF Stops
      <4> QED BY <3>3, <4>1, <4>2, <2>5, Characters DEF Add, Between, Blanks
    <3>5. s[k].mode = "comment" /\ SameCount(s[k], s[k - 1])
      BY <3>3, <3>4 DEF SameCount, Scanned
    <3> DEFINE U == {i \in 0 .. e - 1 - k : s[k + i] = s[k]}
    <3>6. 0 .. e - 1 - k \subseteq U
      <4>1. 0 \in U
        BY <3>1, <3>3
      <4>2. ASSUME NEW i \in 0 .. e - 1 - k - 1, i \in U PROVE i + 1 \in U
        <5>1. k + (i + 1) \in 1 .. N /\ (k + (i + 1)) - 1 = k + i /\ k + (i + 1) \in k .. e - 1
          BY <1>1, <3>1
        <5>2. s[k + (i + 1)] = Add(s[k], src, k + (i + 1)) /\ src[k + (i + 1)] # "\n"
          BY <1>1, <3>1, <4>2, <5>1
        <5>3. s[k + (i + 1)] = s[k]
          BY <3>5, <5>2 DEF Add
        <5> QED BY <3>1, <3>3, <5>3
      <4>3. e - 1 - k \in Nat
        BY <3>1
      <4> HIDE DEF U
      <4> QED BY <4>1, <4>2, <4>3, UpTo
    <3>7. s[e - 1] = s[k]
      <4>1. e - 1 - k \in 0 .. e - 1 - k /\ k + (e - 1 - k) = e - 1
        BY <3>1
      <4> QED BY <3>6, <4>1
    <3>8. Turn(e) /\ SameCount(s[e - 1], s[k - 1])
      BY <1>t, <3>1, <3>5, <3>7
    <3> QED BY <2>3, <3>1, <3>2, <3>8
  <2>6. CASE ~AtEnd(k) /\ src[k] \notin Blanks /\ ~Comment(k)
    <3>1. SkipSpace(k) = k
      BY <2>1, <2>6 DEF SkipStep
    <3>2. ReadyAt(src, k)
      BY <1>2, <1>t, <2>6 DEF Blanks
    <3> QED BY <1>w, <2>6, <3>1, <3>2 DEF SameCount
  <2> QED BY <2>2, <2>4, <2>5, <2>6
<1>3. 1 .. N + 1 \subseteq T
  <2>1. \A k \in 1 .. N + 1 : (\A j \in k + 1 .. N + 1 : j \in T) => k \in T
    BY <1>2
  <2>2. 1 \in Nat /\ N + 1 \in Nat
    BY <1>1
  <2> HIDE DEF T
  <2> QED BY <2>1, <2>2, DownTo, ZenonT(60)
<1> QED BY <1>3

\* What a token leaves behind.
TokenWell(p, q) ==
  LET s == Scanning(src)
  IN  /\ q \in p + 1 .. Len(src) + 1 /\ ReadyAt(src, q)
      /\ SameCount(s[q - 1], [s[p - 1] EXCEPT !.tokens = @ + 1])

LEMMA PlainWell ==
  ASSUME Len(src) \in Nat, NEW p \in 1 .. Len(src), ReadyAt(src, p),
         src[p] \notin Blanks \cup Stops \cup {Quote}, ~Comment(p)
  PROVE  TokenWell(p, Plain(p).next)
<1> DEFINE N == Len(src)
           s == Scanning(src)
           e == NextOf(Stops, p)
<1>1. /\ N \in Nat /\ \A k \in 0 .. N : s[k] \in Scanned
      /\ \A k \in 1 .. N : s[k] = Add(s[k - 1], src, k)
  BY ScanningIs
<1>p. p \in 1 .. Len(src) + 1 /\ src[p] \notin Stops
  OBVIOUS
<1>2. e \in p .. N + 1 /\ (\A j \in p .. e - 1 : src[j] \notin Stops) /\ (AtEnd(e) \/ src[e] \in Stops)
  BY <1>p, NextOfIs
<1>3. e \in p + 1 .. N + 1 /\ Plain(p).next = e
  BY <1>p, <1>2 DEF AtEnd, Plain
<1>4. s[p - 1].mode = "between"
  BY <1>p DEF ReadyAt
<1>5. ReadyAt(src, e) <=> s[e - 1].mode = "between" \/ (s[e - 1].mode = "plain" /\ (AtEnd(e) \/ src[e] \in Stops))
  BY DEF ReadyAt, AtEnd
<1>w. TokenWell(p, e) <=> /\ e \in p + 1 .. N + 1 /\ ReadyAt(src, e)
                          /\ SameCount(s[e - 1], [s[p - 1] EXCEPT !.tokens = @ + 1])
  BY DEF TokenWell
<1> HIDE DEF s, e
<1>6. s[p - 1] \in Scanned /\ s[p] = [s[p - 1] EXCEPT !.mode = "plain", !.tokens = @ + 1]
  <2>1. p \in 1 .. N /\ p - 1 \in 0 .. N
    BY <1>1
  <2>2. s[p - 1] \in Scanned /\ s[p] = Add(s[p - 1], src, p)
    BY <1>1, <2>1
  <2>3. s[p] = Between(s[p - 1], src, p)
    BY <1>4, <2>2 DEF Add
  <2> QED BY <2>2, <2>3 DEF Between, Comment, Stops
<1>7. s[p].mode = "plain" /\ SameCount(s[p], [s[p - 1] EXCEPT !.tokens = @ + 1])
  BY <1>6 DEF SameCount, Scanned
<1> DEFINE U == {i \in 0 .. e - 1 - p : s[p + i] = s[p]}
<1>8. 0 .. e - 1 - p \subseteq U
  <2>1. 0 \in U
    BY <1>3
  <2>2. ASSUME NEW i \in 0 .. e - 1 - p - 1, i \in U PROVE i + 1 \in U
    <3>1. p + (i + 1) \in 1 .. N /\ (p + (i + 1)) - 1 = p + i /\ p + (i + 1) \in p .. e - 1
      BY <1>1, <1>3
    <3>2. s[p + (i + 1)] = Add(s[p], src, p + (i + 1)) /\ src[p + (i + 1)] \notin Stops
      BY <1>1, <1>2, <2>2, <3>1
    <3>3. s[p + (i + 1)] = s[p]
      BY <1>7, <3>2 DEF Add
    <3> QED BY <1>3, <3>3
  <2>3. e - 1 - p \in Nat
    BY <1>3
  <2> HIDE DEF U
  <2> QED BY <2>1, <2>2, <2>3, UpTo
<1>9. s[e - 1] = s[p]
  <2>1. e - 1 - p \in 0 .. e - 1 - p /\ p + (e - 1 - p) = e - 1
    BY <1>3
  <2> QED BY <1>8, <2>1
<1>10. TokenWell(p, e)
  BY <1>2, <1>3, <1>5, <1>7, <1>9, <1>w
<1> QED BY <1>3, <1>10

LEMMA QuotedWell ==
  ASSUME Len(src) \in Nat, NEW p \in 1 .. Len(src), ReadyAt(src, p), src[p] = Quote, Quoted(p).ok
  PROVE  TokenWell(p, Quoted(p).next)
<1> DEFINE N == Len(src)
           s == Scanning(src)
           q == Quoting
           EndsAt(k) == /\ q[k].next \in k + 1 .. N + 1
                      /\ s[q[k].next - 1].mode = "between" /\ SameCount(s[q[k].next - 1], s[k - 1])
           T == {k \in 2 .. N + 2 : k - 1 <= N /\ s[k - 1].mode = "quoted" /\ q[k].ok => EndsAt(k)}
<1>1. /\ N \in Nat /\ \A k \in 0 .. N : s[k] \in Scanned
      /\ \A k \in 1 .. N : s[k] = Add(s[k - 1], src, k)
  BY ScanningIs
<1>2. \A k \in 2 .. N + 2 : q[k] \in Tokens /\ q[k] = QuoteStep(k, q)
  BY QuotingIs
<1>r. \A k : ReadyAt(src, k) <=> \/ s[k - 1].mode = "between"
                                 \/ s[k - 1].mode = "plain" /\ (AtEnd(k) \/ src[k] \in Stops)
  BY DEF ReadyAt, AtEnd
<1>w. \A e : TokenWell(p, e) <=> /\ e \in p + 1 .. N + 1 /\ ReadyAt(src, e)
                                 /\ SameCount(s[e - 1], [s[p - 1] EXCEPT !.tokens = @ + 1])
  BY DEF TokenWell
<1>q. Quoted(p) = q[p + 1]
  BY DEF Quoted
<1> HIDE DEF s, q
<1>3. ASSUME NEW k \in 2 .. N + 2, \A j \in k + 1 .. N + 2 : j \in T,
             k - 1 <= N, s[k - 1].mode = "quoted", q[k].ok
      PROVE  EndsAt(k)
  <2>1. q[k] = QuoteStep(k, q) /\ ~AtEnd(k)
    BY <1>2, <1>3 DEF QuoteStep, NoToken
  <2>2. k \in 1 .. N /\ s[k] = Add(s[k - 1], src, k) /\ s[k - 1] \in Scanned
    BY <1>1, <2>1 DEF AtEnd
  <2>3. CASE src[k] = Quote
    <3>1. q[k].next = k + 1
      BY <2>1, <2>3 DEF QuoteStep
    <3>2. s[k] = [s[k - 1] EXCEPT !.mode = "between"]
      BY <1>3, <2>2, <2>3, Characters DEF Add
    <3>3. s[k].mode = "between" /\ SameCount(s[k], s[k - 1])
      BY <2>2, <3>2 DEF SameCount, Scanned
    <3> QED BY <1>1, <2>2, <3>1, <3>3
  <2>4. CASE src[k] = "\\"
    <3>1. ~AtEnd(k + 1) /\ q[k] = Prefixed(Escaped(src[k + 1]), q[k + 2])
      BY <1>3, <2>1, <2>4, Characters DEF QuoteStep, NoToken
    <3>2. k + 1 \in 1 .. N /\ k + 2 \in k + 1 .. N + 2 /\ k + 2 \in 2 .. N + 2
      BY <1>1, <2>2, <3>1 DEF AtEnd
    <3>3. q[k + 2] \in Tokens
      BY <1>2, <3>2
    <3>4. q[k].ok = q[k + 2].ok /\ q[k].next = q[k + 2].next
      BY <3>1, <3>3 DEF Prefixed, Tokens
    <3>5. s[k] = [s[k - 1] EXCEPT !.mode = "escape"]
      BY <1>3, <2>2, <2>4, Characters DEF Add
    <3>6. s[k].mode = "escape" /\ SameCount(s[k], s[k - 1]) /\ s[k] \in Scanned
      BY <1>1, <2>2, <3>5, SMTT(30) DEF SameCount, Scanned
    <3>7. s[k + 1] = Add(s[k], src, k + 1)
      BY <1>1, <2>2, <3>2
    <3>8. s[k + 1] = [s[k] EXCEPT !.mode = "quoted"]
      BY <3>6, <3>7 DEF Add
    <3>9. s[k + 1].mode = "quoted" /\ SameCount(s[k + 1], s[k - 1])
      BY <3>6, <3>8 DEF SameCount, Scanned
    <3>10. EndsAt(k + 2)
      <4>1. k + 2 \in T /\ (k + 2) - 1 = k + 1 /\ k + 1 <= N
        BY <1>3, <3>2, SMTT(30)
      <4> QED BY <1>3, <3>4, <3>9, <4>1
    <3>11. (k + 2) - 1 = k + 1
      BY <2>2
    <3> QED BY <2>2, <3>2, <3>4, <3>9, <3>10, <3>11 DEF SameCount
  <2>5. CASE src[k] \notin {Quote, "\\"}
    <3>1. q[k] = Prefixed(src[k], q[k + 1])
      BY <2>1, <2>5 DEF QuoteStep
    <3>2. k + 1 \in k + 1 .. N + 2 /\ k + 1 \in 2 .. N + 2 /\ (k + 1) - 1 = k
      BY <1>1, <2>2
    <3>3. q[k + 1] \in Tokens
      BY <1>2, <3>2
    <3>4. q[k].ok = q[k + 1].ok /\ q[k].next = q[k + 1].next
      BY <3>1, <3>3 DEF Prefixed, Tokens
    <3>5. s[k] = s[k - 1]
      BY <1>3, <2>2, <2>5 DEF Add
    <3>6. EndsAt(k + 1)
      <4>1. k + 1 \in T /\ k <= N
        BY <1>3, <2>2, <3>2, SMTT(30)
      <4> QED BY <1>3, <3>2, <3>4, <3>5, <4>1
    <3> QED BY <2>2, <3>2, <3>4, <3>5, <3>6 DEF SameCount
  <2> QED BY <2>3, <2>4, <2>5
<1>4. 2 .. N + 2 \subseteq T
  <2>1. \A k \in 2 .. N + 2 : (\A j \in k + 1 .. N + 2 : j \in T) => k \in T
    BY <1>3
  <2> DEFINE hi == N + 2
  <2>2. 2 \in Nat /\ hi \in Nat
    BY <1>1
  <2>3. \A k \in 2 .. hi : (\A j \in k + 1 .. hi : j \in T) => k \in T
    BY <2>1
  <2> HIDE DEF T, hi
  <2>4. 2 .. hi \subseteq T
    BY <2>2, <2>3, DownTo
  <2> QED BY <2>4 DEF hi
<1>5. p \in 1 .. N /\ p + 1 \in 2 .. N + 2 /\ (p + 1) - 1 = p /\ p - 1 \in 0 .. N
  BY <1>1
<1>6. s[p - 1] \in Scanned /\ s[p] = Add(s[p - 1], src, p)
  BY <1>1, <1>5
<1>7. s[p - 1].mode = "between"
  BY <1>r, <1>5, Characters DEF Stops, AtEnd
<1>8. s[p] = [s[p - 1] EXCEPT !.mode = "quoted", !.tokens = @ + 1]
  <2>1. s[p] = Between(s[p - 1], src, p)
    BY <1>6, <1>7 DEF Add
  <2> QED BY <2>1, Characters DEF Between, Blanks
<1>9. s[p].mode = "quoted" /\ SameCount(s[p], [s[p - 1] EXCEPT !.tokens = @ + 1])
  BY <1>6, <1>8 DEF SameCount, Scanned
<1>10. EndsAt(p + 1)
  <2>1. q[p + 1].ok /\ p + 1 \in T
    BY <1>4, <1>5, <1>q
  <2> QED BY <1>5, <1>9, <2>1
<1>11. ReadyAt(src, q[p + 1].next)
  BY <1>10, <1>r
<1>12. q[p + 1].next \in p + 1 .. N + 1
  BY <1>5, <1>10
<1>13. SameCount(s[q[p + 1].next - 1], [s[p - 1] EXCEPT !.tokens = @ + 1])
  BY <1>5, <1>9, <1>10 DEF SameCount
<1> QED BY <1>11, <1>12, <1>13, <1>q, <1>w

\* A token that is read counts once, and nothing before it is half read.
LEMMA TokenWellIs ==
  ASSUME Len(src) \in Nat, NEW p \in 1 .. Len(src) + 1, ReadyAt(src, p), Token(p).ok
  PROVE  TokenWell(p, Token(p).next)
<1> DEFINE e == SkipSpace(p)
<1>1. SkipWell(p, e) /\ Token(p) = TokenAt(e)
  BY SkipWellIs DEF Token
<1> HIDE DEF e
<1>2. ~AtEnd(e) /\ src[e] \notin {LBrace, RBrace}
  BY <1>1 DEF TokenAt, NoToken
<1>3. e \in p .. Len(src) /\ e \in 1 .. Len(src) /\ ReadyAt(src, e) /\ src[e] \notin Blanks /\ ~Comment(e)
  BY <1>1, <1>2 DEF SkipWell, AtEnd
<1>4. TokenWell(e, Token(p).next)
  <2>1. CASE src[e] = Quote
    <3>1. Token(p) = Quoted(e)
      BY <1>1, <1>2, <2>1 DEF TokenAt
    <3> QED BY <1>3, <2>1, <3>1, QuotedWell
  <2>2. CASE src[e] # Quote
    <3>1. Token(p) = Plain(e)
      BY <1>1, <1>2, <2>2 DEF TokenAt
    <3>2. src[e] \notin Blanks \cup Stops \cup {Quote}
      BY <1>2, <1>3, <2>2 DEF Blanks, Stops
    <3> QED BY <1>3, <3>1, <3>2, PlainWell
  <2> QED BY <2>1, <2>2
<1> DEFINE s == Scanning(src)
           n == Token(p).next
<1>5. s[e - 1] \in Scanned /\ s[p - 1] \in Scanned
  <2>1. e - 1 \in 0 .. Len(src) /\ p - 1 \in 0 .. Len(src)
    BY <1>3
  <2> QED BY <2>1, ScanningIs
<1>6. SameCount(s[e - 1], s[p - 1]) /\ SameCount(s[n - 1], [s[e - 1] EXCEPT !.tokens = @ + 1])
  BY <1>1, <1>4 DEF SkipWell, TokenWell
<1>7. n \in e + 1 .. Len(src) + 1 /\ ReadyAt(src, n)
  BY <1>4 DEF TokenWell
<1> HIDE DEF s, n
<1>8. SameCount(s[n - 1], [s[p - 1] EXCEPT !.tokens = @ + 1])
  BY <1>5, <1>6 DEF SameCount, Scanned
<1>9. n \in p + 1 .. Len(src) + 1
  BY <1>3, <1>7
<1> QED BY <1>7, <1>8, <1>9 DEF TokenWell, s, n

----------------------------------------------------------------------------
(***************************************************************************)
(* Sequences in a row.                                                     *)
(***************************************************************************)
Joins(f, n, S, seqs) ==
  /\ f \in [0 .. n -> Seq(S)] /\ f[0] = <<>>
  /\ \A k \in 1 .. n : f[k] = f[k - 1] \o seqs[k]

LEMMA Flattened ==
  ASSUME NEW n \in Nat, NEW S, NEW seqs \in [1 .. n -> Seq(S)]
  PROVE  \E f : Joins(f, n, S, seqs) /\ FlattenSeq(seqs) = f[n]
<1> DEFINE next == [k \in 1 .. n |-> [s \in Seq(S) |-> s \o seqs[k]]]
           Chain(f) == f = [k \in 1 .. Len(seqs) |-> IF k = 1 THEN seqs[k] ELSE f[k - 1] \o seqs[k]]
           g == CHOOSE f : Chain(f)
<1>1. /\ next \in [1 .. n -> [Seq(S) -> Seq(S)]] /\ <<>> \in Seq(S)
      /\ \A k \in 1 .. n : \A s \in Seq(S) : next[k][s] = s \o seqs[k]
  OBVIOUS
<1> HIDE DEF next
<1>2. PICK f : Steps(f, n, Seq(S), <<>>, next)
  BY <1>1, Recursion
<1>3. Joins(f, n, S, seqs)
  <2>1. ASSUME NEW k \in 1 .. n PROVE f[k] = f[k - 1] \o seqs[k]
    <3>1. k - 1 \in 0 .. n
      OBVIOUS
    <3>2. f[k - 1] \in Seq(S)
      BY <1>2, <3>1 DEF Steps
    <3> QED BY <1>1, <1>2, <3>2 DEF Steps
  <2> QED BY <1>2, <2>1 DEF Joins, Steps
<1>4. Len(seqs) = n
  OBVIOUS
<1>5. FlattenSeq(seqs) = IF n = 0 THEN seqs ELSE g[n]
  BY <1>4 DEF FlattenSeq
<1>6. CASE n = 0
  <2>1. seqs = <<>>
    BY <1>6
  <2> QED BY <1>3, <1>5, <1>6, <2>1 DEF Joins
<1>7. CASE n # 0
  <2> DEFINE h == [k \in 1 .. n |-> f[k]]
  <2>1. h = [k \in 1 .. n |-> IF k = 1 THEN seqs[k] ELSE h[k - 1] \o seqs[k]]
    <3>1. ASSUME NEW k \in 1 .. n PROVE h[k] = IF k = 1 THEN seqs[k] ELSE h[k - 1] \o seqs[k]
      <4>1. CASE k = 1
        <5>1. f[1] = <<>> \o seqs[1] /\ seqs[1] \in Seq(S)
          <6>1. 1 \in 1 .. n /\ 1 - 1 = 0
            BY <1>7
          <6> QED BY <1>3, <6>1 DEF Joins
        <5>2. <<>> \o seqs[1] = seqs[1]
          BY <5>1
        <5> QED BY <4>1, <5>1, <5>2
      <4>2. CASE k # 1
        <5>1. k - 1 \in 1 .. n
          BY <4>2
        <5> QED BY <1>3, <4>2, <5>1 DEF Joins
      <4> QED BY <4>1, <4>2
    <3> QED BY <3>1
  <2>2. Chain(h)
    <3> HIDE DEF h
    <3> QED BY <1>4, <2>1
  <2> HIDE DEF h
  <2>3. Chain(g)
    <3> HIDE DEF Chain
    <3> QED BY <2>2
  <2> HIDE DEF g
  <2>4. \A k \in 1 .. n : g[k] = IF k = 1 THEN seqs[k] ELSE g[k - 1] \o seqs[k]
    BY <1>4, <2>3
  <2>5. \A k \in 1 .. n : h[k] = IF k = 1 THEN seqs[k] ELSE h[k - 1] \o seqs[k]
    BY <2>1
  <2> DEFINE T == {k \in 0 .. n : k = 0 \/ g[k] = h[k]}
  <2>6. \A k \in 0 .. n - 1 : k \in T => k + 1 \in T
    <3>1. ASSUME NEW k \in 0 .. n - 1, k \in T PROVE k + 1 \in T
      <4>1. k + 1 \in 1 .. n /\ (k + 1) - 1 = k
        OBVIOUS
      <4>2. CASE k = 0
        BY <2>4, <2>5, <4>1, <4>2
      <4>3. CASE k # 0
        <5>1. g[k] = h[k]
          BY <3>1, <4>3
        <5> QED BY <2>4, <2>5, <4>1, <4>3, <5>1
      <4> QED BY <4>2, <4>3
    <3> QED BY <3>1
  <2>7. 0 \in T
    OBVIOUS
  <2> HIDE DEF T
  <2>a. 0 .. n \subseteq T
    BY <2>6, <2>7, UpTo
  <2>8. n \in T
    BY <2>a
  <2>9. g[n] = f[n]
    BY <1>7, <2>8 DEF T, h
  <2> QED BY <1>3, <1>5, <1>7, <2>9
<1> QED BY <1>6, <1>7

LEMMA FlattenedIs ==
  ASSUME NEW n \in Nat, NEW S, NEW seqs \in [1 .. n -> Seq(S)]
  PROVE  FlattenSeq(seqs) \in Seq(S)
<1>1. PICK f : Joins(f, n, S, seqs) /\ FlattenSeq(seqs) = f[n]
  BY Flattened
<1> QED BY <1>1 DEF Joins

LEMMA RepeatIs ==
  ASSUME NEW n \in Nat, NEW S, NEW s \in Seq(S)
  PROVE  Repeat(n, s) \in Seq(S)
<1>1. [k \in 1 .. n |-> s] \in [1 .. n -> Seq(S)]
  OBVIOUS
<1> QED BY <1>1, FlattenedIs DEF Repeat

----------------------------------------------------------------------------
(***************************************************************************)
(* What Steam writes is a sequence.                                        *)
(***************************************************************************)
Printed == STRING \cup {Space, LBrace, RBrace, Quote, "\\", "n", "\n", "/"}
TextNodes == [depth : Nat, key : Seq(STRING), value : [text : Seq(STRING)] \cup {Block}]
ByteNodes == [depth : Nat, key : Seq(Letters), value : [text : Seq(Letters)] \cup [number : Int] \cup {Block}]

LEMMA ListingsAre ==
  /\ TextListings \subseteq Seq(TextNodes) /\ BinaryListings \subseteq Seq(ByteNodes)
  /\ \A listing \in TextListings \cup BinaryListings : WellNested(listing)
BY VdfAssumption DEF Listings, TextNodes, ByteNodes

LEMMA EndedIs ==
  ASSUME NEW listing, Len(listing) \in Nat, \A k \in 1 .. Len(listing) : listing[k].depth \in Nat,
         WellNested(listing), NEW k \in 1 .. Len(listing) + 1
  PROVE  Ended(listing, k) \in Nat
<1>1. CASE k \in 1 .. Len(listing)
  <2>1. Ended(listing, k) >= 0
    BY <1>1 DEF WellNested
  <2>2. k # 1 => k - 1 \in 1 .. Len(listing)
    BY <1>1
  <2> QED BY <1>1, <2>1, <2>2 DEF Ended
<1>2. CASE k = Len(listing) + 1
  <2>1. k # 1 => k - 1 \in 1 .. Len(listing)
    BY <1>2
  <2> QED BY <1>2, <2>1 DEF Ended
<1> QED BY <1>1, <1>2

\* A token in quotes, one character of it after the other.
Printing(c) ==
  CASE c \in {Quote, "\\"} -> <<"\\", c>>
    [] c = "\n"           -> <<"\\", "n">>
    [] OTHER              -> <<c>>

LEMMA PrintedIs ==
  ASSUME NEW token \in Seq(STRING)
  PROVE  LET f == [k \in 1 .. Len(token) |-> Printing(token[k])]
         IN  /\ f \in [1 .. Len(token) -> Seq(Printed)]
             /\ InQuotes(token) = <<Quote>> \o FlattenSeq(f) \o <<Quote>>
             /\ InQuotes(token) \in Seq(Printed)
<1> DEFINE f == [k \in 1 .. Len(token) |-> Printing(token[k])]
<1>1. ASSUME NEW k \in 1 .. Len(token) PROVE Printing(token[k]) \in Seq(Printed)
  <2>1. token[k] \in Printed /\ "\\" \in Printed /\ "n" \in Printed
    BY DEF Printed
  <2>2. /\ <<"\\", token[k]>> \in Seq(Printed) /\ <<"\\", "n">> \in Seq(Printed)
        /\ <<token[k]>> \in Seq(Printed)
    BY <2>1
  <2> QED BY <2>2 DEF Printing
<1>2. f \in [1 .. Len(token) -> Seq(Printed)] /\ Len(token) \in Nat
  BY <1>1
<1>3. InQuotes(token) = <<Quote>> \o FlattenSeq(f) \o <<Quote>>
  BY DEF InQuotes, Printing
<1> HIDE DEF f
<1>4. FlattenSeq(f) \in Seq(Printed)
  BY <1>2, FlattenedIs
<1>5. <<Quote>> \in Seq(Printed)
  BY DEF Printed
<1>6. InQuotes(token) \in Seq(Printed)
  BY <1>3, <1>4, <1>5
<1> QED BY <1>2, <1>3, <1>6 DEF f

\* A document is its nodes' chunks in a row.
TextBody(listing, space, k) ==
  IF k > Len(listing) THEN <<>>
  ELSE IF IsBlock(listing[k]) THEN InQuotes(listing[k].key) \o space \o <<LBrace>> \o space
  ELSE InQuotes(listing[k].key) \o space \o InQuotes(listing[k].value.text) \o space

TextChunk(listing, space, k) ==
  Repeat(Ended(listing, k), space \o <<RBrace>>) \o TextBody(listing, space, k)

LEMMA SpacesAre == Spaces \subseteq Seq(Printed)
<1>1. {Space, "\n", "/", Quote} \subseteq Printed
  BY DEF Printed
<1>2. <<>> \in Seq(Printed) /\ <<Space>> \in Seq(Printed) /\ <<"\n", "/", "/", Quote, "\n">> \in Seq(Printed)
  BY <1>1
<1> QED BY <1>2 DEF Spaces

LEMMA TextOfIs ==
  ASSUME NEW listing \in TextListings, NEW space \in Spaces
  PROVE  /\ \A k \in 1 .. Len(listing) + 1 : TextBody(listing, space, k) \in Seq(Printed)
         /\ [k \in 1 .. Len(listing) + 1 |-> TextChunk(listing, space, k)]
              \in [1 .. Len(listing) + 1 -> Seq(Printed)]
         /\ TextOf(listing, space) = FlattenSeq([k \in 1 .. Len(listing) + 1 |-> TextChunk(listing, space, k)])
         /\ TextOf(listing, space) \in Seq(Printed)
<1> DEFINE f == [k \in 1 .. Len(listing) + 1 |-> TextChunk(listing, space, k)]
<1>1. listing \in Seq(TextNodes) /\ WellNested(listing) /\ Len(listing) \in Nat /\ space \in Seq(Printed)
  BY ListingsAre, SpacesAre
<1>2. ASSUME NEW k \in 1 .. Len(listing) + 1 PROVE TextBody(listing, space, k) \in Seq(Printed)
  <2>1. CASE k > Len(listing)
    BY <2>1 DEF TextBody
  <2>2. CASE ~(k > Len(listing))
    <3>1. listing[k] \in TextNodes
      BY <1>1, <2>2
    <3>2. InQuotes(listing[k].key) \in Seq(Printed)
      BY <3>1, PrintedIs DEF TextNodes
    <3>3. ~IsBlock(listing[k]) => InQuotes(listing[k].value.text) \in Seq(Printed)
      BY <3>1, PrintedIs DEF TextNodes, IsBlock
    <3>4. <<LBrace>> \in Seq(Printed)
      BY DEF Printed
    <3> QED BY <1>1, <2>2, <3>2, <3>3, <3>4 DEF TextBody
  <2> QED BY <2>1, <2>2
<1>3. f \in [1 .. Len(listing) + 1 -> Seq(Printed)]
  <2>1. ASSUME NEW k \in 1 .. Len(listing) + 1 PROVE TextChunk(listing, space, k) \in Seq(Printed)
    <3>z. \A j \in 1 .. Len(listing) : listing[j] \in TextNodes
      BY <1>1
    <3>a. \A j \in 1 .. Len(listing) : listing[j].depth \in Nat
      BY <3>z DEF TextNodes
    <3>1. Ended(listing, k) \in Nat
      BY <1>1, <3>a, EndedIs
    <3>2. space \o <<RBrace>> \in Seq(Printed)
      <4>1. <<RBrace>> \in Seq(Printed)
        BY DEF Printed
      <4> QED BY <1>1, <4>1
    <3>3. Repeat(Ended(listing, k), space \o <<RBrace>>) \in Seq(Printed)
      BY <3>1, <3>2, RepeatIs
    <3> QED BY <1>2, <3>3 DEF TextChunk
  <2> QED BY <2>1
<1>4. TextOf(listing, space) = FlattenSeq(f)
  BY DEF TextOf, Written, TextChunk, TextBody
<1> HIDE DEF f
<1>5. FlattenSeq(f) \in Seq(Printed)
  <2> DEFINE n == Len(listing) + 1
  <2>1. n \in Nat
    BY <1>1
  <2> HIDE DEF n
  <2>2. f \in [1 .. n -> Seq(Printed)] => FlattenSeq(f) \in Seq(Printed)
    BY <2>1, FlattenedIs
  <2> QED BY <1>3, <2>2 DEF n
<1> QED BY <1>2, <1>3, <1>4, <1>5 DEF f

----------------------------------------------------------------------------
(***************************************************************************)
(* Numbers.                                                                *)
(***************************************************************************)
PowersUpTo(f, n) ==
  /\ f[0] = 1 /\ \A k \in 1 .. n : f[k] = 256 * f[k - 1]
  /\ \A k \in 0 .. n : f[k] \in Nat \ {0}

LEMMA PowersFound ==
  ASSUME NEW width \in Nat
  PROVE  \E f : PowersUpTo(f, width) /\ Numbers(width) = f[width]
<1> DEFINE S == Nat \ {0}
           next == [k \in 1 .. width |-> [m \in S |-> 256 * m]]
           Chain(f) == f = [n \in 0 .. width |-> IF n = 0 THEN 1 ELSE 256 * f[n - 1]]
           g == CHOOSE f : Chain(f)
<1>1. next \in [1 .. width -> [S -> S]] /\ 1 \in S /\ \A k \in 1 .. width : \A m \in S : next[k][m] = 256 * m
  <2>1. \A m \in S : 256 * m \in S
    OBVIOUS
  <2> QED BY <2>1
<1> HIDE DEF next
<1>2. PICK f : Steps(f, width, S, 1, next)
  <2> HIDE DEF S
  <2> QED BY <1>1, Recursion
<1>3. /\ f \in [0 .. width -> S] /\ f[0] = 1
      /\ \A k \in 1 .. width : f[k] = 256 * f[k - 1]
  <2>1. \A k \in 1 .. width : k - 1 \in 0 .. width
    OBVIOUS
  <2>2. f \in [0 .. width -> S] /\ f[0] = 1 /\ \A k \in 1 .. width : f[k] = next[k][f[k - 1]]
    BY <1>2 DEF Steps
  <2>3. \A k \in 1 .. width : f[k - 1] \in S
    BY <2>1, <2>2
  <2>4. \A k \in 1 .. width : next[k][f[k - 1]] = 256 * f[k - 1]
    BY <1>1, <2>3, ZenonT(60)
  <2>5. \A k \in 1 .. width : f[k] = 256 * f[k - 1]
    BY <2>2, <2>4
  <2> QED BY <2>2, <2>5
<1>4. Chain(f)
  <2>1. \A n \in 0 .. width : n # 0 => n \in 1 .. width
    OBVIOUS
  <2>2. \A n \in 0 .. width : f[n] = IF n = 0 THEN 1 ELSE 256 * f[n - 1]
    BY <1>3, <2>1
  <2> QED BY <1>3, <2>2
<1>5. Chain(g)
  <2> HIDE DEF Chain
  <2> QED BY <1>4
<1>6. Numbers(width) = g[width]
  BY DEF Numbers
<1> HIDE DEF g
<1>7. g[0] = 1 /\ \A k \in 1 .. width : g[k] = 256 * g[k - 1]
  <2>1. \A n \in 0 .. width : g[n] = IF n = 0 THEN 1 ELSE 256 * g[n - 1]
    BY <1>5
  <2>2. 0 \in 0 .. width /\ \A k \in 1 .. width : k \in 0 .. width /\ k # 0
    OBVIOUS
  <2> QED BY <2>1, <2>2
<1>8. \A k \in 0 .. width : g[k] \in S
  <2> DEFINE T == {k \in 0 .. width : g[k] \in S}
  <2>1. 0 \in T
    BY <1>7
  <2>2. ASSUME NEW k \in 0 .. width - 1, k \in T PROVE k + 1 \in T
    <3>1. k + 1 \in 1 .. width /\ k + 1 \in 0 .. width /\ (k + 1) - 1 = k
      OBVIOUS
    <3>2. g[k + 1] = 256 * g[k]
      BY <1>7, <3>1
    <3> QED BY <2>2, <3>1, <3>2
  <2> HIDE DEF T
  <2>3. 0 .. width \subseteq T
    BY <2>1, <2>2, UpTo
  <2> QED BY <2>3 DEF T
<1>9. PowersUpTo(g, width)
  BY <1>7, <1>8 DEF PowersUpTo
<1> QED BY <1>6, <1>9

LEMMA NumbersAre ==
  /\ Numbers(0) = 1
  /\ \A n \in Nat : Numbers(n) \in Nat \ {0} /\ Numbers(n + 1) = 256 * Numbers(n)
<1>1. Numbers(0) = 1
  <2>1. PICK f : PowersUpTo(f, 0) /\ Numbers(0) = f[0]
    BY PowersFound
  <2> QED BY <2>1 DEF PowersUpTo
<1>2. ASSUME NEW n \in Nat PROVE Numbers(n) \in Nat \ {0} /\ Numbers(n + 1) = 256 * Numbers(n)
  <2>1. PICK f : PowersUpTo(f, n) /\ Numbers(n) = f[n]
    BY PowersFound
  <2>2. PICK g : PowersUpTo(g, n + 1) /\ Numbers(n + 1) = g[n + 1]
    <3>1. n + 1 \in Nat
      OBVIOUS
    <3> QED BY <3>1, PowersFound
  <2> DEFINE T == {k \in 0 .. n : f[k] = g[k]}
  <2>3. 0 \in T
    BY <2>1, <2>2 DEF PowersUpTo
  <2>4. ASSUME NEW k \in 0 .. n - 1, k \in T PROVE k + 1 \in T
    <3>1. k + 1 \in 1 .. n /\ k + 1 \in 1 .. n + 1 /\ (k + 1) - 1 = k
      OBVIOUS
    <3>2. f[k + 1] = 256 * f[k] /\ g[k + 1] = 256 * g[k]
      BY <2>1, <2>2, <3>1 DEF PowersUpTo
    <3> QED BY <2>4, <3>1, <3>2
  <2> HIDE DEF T
  <2>5. 0 .. n \subseteq T
    BY <2>3, <2>4, UpTo
  <2>6. f[n] = g[n]
    BY <2>5 DEF T
  <2>7. n + 1 \in 1 .. n + 1 /\ (n + 1) - 1 = n /\ n \in 0 .. n
    OBVIOUS
  <2> QED BY <2>1, <2>2, <2>6, <2>7 DEF PowersUpTo
<1> QED BY <1>1, <1>2

LEMMA BytesAre ==
  ASSUME NEW n \in Int, NEW width \in Nat
  PROVE  Bytes(n, width) \in [1 .. width -> Octets]
<1>1. ASSUME NEW k \in 1 .. width
      PROVE  ((n % Numbers(width)) \div Numbers(k - 1)) % 256 \in Octets
  <2> DEFINE a == Numbers(width)
             b == Numbers(k - 1)
  <2>1. a \in Nat \ {0} /\ b \in Nat \ {0}
    BY NumbersAre
  <2> HIDE DEF a, b
  <2>2. n % a \in Nat
    BY <2>1
  <2>3. (n % a) \div b \in Nat
    BY <2>1, <2>2
  <2>4. ((n % a) \div b) % 256 \in 0 .. 255
    BY <2>3
  <2> QED BY <2>4 DEF a, b, Octets
<1> QED BY <1>1 DEF Bytes

\* A binary document is its nodes' chunks in a row, too.
ByteBody(listing, tag, k) ==
  IF k > Len(listing) THEN <<>>
  ELSE IF IsBlock(listing[k]) THEN << 0 >> \o listing[k].key \o << 0 >>
  ELSE <<Tagged(listing[k].value, tag)>> \o listing[k].key \o << 0 >> \o
       (IF IsNumber(listing[k].value)
        THEN Bytes(listing[k].value.number, IF tag = 2 THEN Half ELSE Full)
        ELSE listing[k].value.text \o << 0 >>)

ByteChunk(listing, tag, k) == Repeat(Ended(listing, k), << 8 >>) \o ByteBody(listing, tag, k)

LEMMA BytesOfIs ==
  ASSUME NEW listing \in BinaryListings, NEW tag \in {2, 7, 10}
  PROVE  /\ \A k \in 1 .. Len(listing) + 1 : ByteBody(listing, tag, k) \in Seq(Octets)
         /\ [k \in 1 .. Len(listing) + 1 |-> ByteChunk(listing, tag, k)]
              \in [1 .. Len(listing) + 1 -> Seq(Octets)]
         /\ BytesOf(listing, tag) = FlattenSeq([k \in 1 .. Len(listing) + 1 |-> ByteChunk(listing, tag, k)])
         /\ BytesOf(listing, tag) \in Seq(Octets)
<1> DEFINE f == [k \in 1 .. Len(listing) + 1 |-> ByteChunk(listing, tag, k)]
<1>1. listing \in Seq(ByteNodes) /\ WellNested(listing) /\ Len(listing) \in Nat
  BY ListingsAre
<1>2. ASSUME NEW k \in 1 .. Len(listing) + 1 PROVE ByteBody(listing, tag, k) \in Seq(Octets)
  <2>1. CASE k > Len(listing)
    BY <2>1 DEF ByteBody
  <2>2. CASE ~(k > Len(listing))
    <3> DEFINE node == listing[k]
    <3>1. node \in ByteNodes
      BY <1>1, <2>2
    <3> HIDE DEF node
    <3>2. node.key \in Seq(Octets)
      <4>1. node.key \in Seq(Letters) /\ Letters \subseteq Octets
        BY <3>1 DEF ByteNodes, Letters, Octets
      <4> QED BY <4>1
    <3>3. ~IsBlock(node) /\ ~IsNumber(node.value) => node.value.text \in Seq(Octets)
      <4>1. node.value \in [text : Seq(Letters)] \cup [number : Int] \cup {Block} /\ Letters \subseteq Octets
        BY <3>1 DEF ByteNodes, Letters, Octets
      <4>2. \A v \in [number : Int] : IsNumber(v)
        BY DEF IsNumber
      <4>3. ~IsBlock(node) /\ ~IsNumber(node.value) => node.value.text \in Seq(Letters)
        BY <4>1, <4>2 DEF IsBlock
      <4> QED BY <4>1, <4>3
    <3>4. ~IsBlock(node) /\ IsNumber(node.value) =>
            Bytes(node.value.number, IF tag = 2 THEN Half ELSE Full) \in Seq(Octets)
      <4>1. node.value \in [text : Seq(Letters)] \cup [number : Int] \cup {Block}
        BY <3>1 DEF ByteNodes
      <4>2. \A v \in [text : Seq(Letters)] : ~IsNumber(v)
        <5>1. ASSUME NEW v \in [text : Seq(Letters)] PROVE ~IsNumber(v)
          <6>1. DOMAIN v = {"text"} /\ "text" # "number"
            OBVIOUS
          <6> QED BY <6>1 DEF IsNumber
        <5> QED BY <5>1
      <4>3. ASSUME ~IsBlock(node), IsNumber(node.value) PROVE node.value.number \in Int
        BY <4>1, <4>2, <4>3 DEF IsBlock
      <4>4. (IF tag = 2 THEN Half ELSE Full) \in Nat
        BY VdfAssumption
      <4>5. ASSUME NEW w \in Nat, NEW m \in Int PROVE Bytes(m, w) \in Seq(Octets)
        <5>1. Bytes(m, w) \in [1 .. w -> Octets]
          BY BytesAre
        <5> QED BY <5>1
      <4> QED BY <4>3, <4>4, <4>5
    <3>5. << 0 >> \in Seq(Octets) /\ <<Tagged(node.value, tag)>> \in Seq(Octets)
      <4>1. 0 \in Octets /\ Tagged(node.value, tag) \in Octets
        BY DEF Octets, Tagged
      <4> QED BY <4>1
    <3>6. ByteBody(listing, tag, k) =
            IF IsBlock(node) THEN << 0 >> \o node.key \o << 0 >>
            ELSE <<Tagged(node.value, tag)>> \o node.key \o << 0 >> \o
                 (IF IsNumber(node.value)
                  THEN Bytes(node.value.number, IF tag = 2 THEN Half ELSE Full)
                  ELSE node.value.text \o << 0 >>)
      BY <2>2 DEF ByteBody, node
    <3> QED BY <3>2, <3>3, <3>4, <3>5, <3>6
  <2> QED BY <2>1, <2>2
<1>3. f \in [1 .. Len(listing) + 1 -> Seq(Octets)]
  <2>1. ASSUME NEW k \in 1 .. Len(listing) + 1 PROVE ByteChunk(listing, tag, k) \in Seq(Octets)
    <3>z. \A j \in 1 .. Len(listing) : listing[j] \in ByteNodes
      BY <1>1
    <3>a. \A j \in 1 .. Len(listing) : listing[j].depth \in Nat
      BY <3>z DEF ByteNodes
    <3>1. Ended(listing, k) \in Nat
      BY <1>1, <3>a, EndedIs
    <3>2. << 8 >> \in Seq(Octets)
      BY DEF Octets
    <3>3. Repeat(Ended(listing, k), << 8 >>) \in Seq(Octets)
      BY <3>1, <3>2, RepeatIs
    <3> QED BY <1>2, <3>3 DEF ByteChunk
  <2> QED BY <2>1
<1>4. BytesOf(listing, tag) = FlattenSeq(f)
  BY DEF BytesOf, Written, ByteChunk, ByteBody
<1> HIDE DEF f
<1>5. FlattenSeq(f) \in Seq(Octets)
  <2> DEFINE n == Len(listing) + 1
  <2>1. n \in Nat
    BY <1>1
  <2> HIDE DEF n
  <2>2. f \in [1 .. n -> Seq(Octets)] => FlattenSeq(f) \in Seq(Octets)
    BY <2>1, FlattenedIs
  <2> QED BY <1>3, <2>2 DEF n
<1> QED BY <1>2, <1>3, <1>4, <1>5 DEF f

----------------------------------------------------------------------------
(***************************************************************************)
(* The nodes read are a tree, and the text is all in it.                   *)
(***************************************************************************)
LEMMA Appended ==
  ASSUME NEW s, \E S : s \in Seq(S), NEW x
  PROVE  LET t == Append(s, x)
         IN  /\ \E S : t \in Seq(S)
             /\ Len(s) \in Nat /\ Len(t) = Len(s) + 1 /\ t[Len(s) + 1] = x
             /\ \A k \in 1 .. Len(s) : t[k] = s[k]
             /\ DOMAIN s = 1 .. Len(s) /\ DOMAIN t = 1 .. Len(s) + 1
<1>1. PICK S : s \in Seq(S)
  OBVIOUS
<1>2. s \in Seq(S \cup {x})
  BY <1>1
<1>3. Append(s, x) \in Seq(S \cup {x})
  BY <1>2
<1> QED BY <1>2, <1>3

BlocksAt(list) == {k \in DOMAIN list : IsBlock(list[k])}
BlocksOf(list) == Cardinality(BlocksAt(list))

LEMMA BlocksAppended ==
  ASSUME NEW s, \E S : s \in Seq(S), NEW x
  PROVE  /\ BlocksOf(s) \in Nat
         /\ BlocksOf(Append(s, x)) = BlocksOf(s) + (IF IsBlock(x) THEN 1 ELSE 0)
<1> DEFINE t == Append(s, x)
           n == Len(s)
<1>1. /\ n \in Nat /\ t[n + 1] = x /\ \A k \in 1 .. n : t[k] = s[k]
      /\ DOMAIN s = 1 .. n /\ DOMAIN t = 1 .. n + 1
  BY Appended
<1> HIDE DEF t, n
<1>2. IsFiniteSet(BlocksAt(s))
  <2>1. BlocksAt(s) \in SUBSET (1 .. n) /\ 1 \in Int /\ n \in Int
    BY <1>1 DEF BlocksAt
  <2>2. IsFiniteSet(1 .. n)
    BY <2>1, FS_Interval
  <2> QED BY <2>1, <2>2, FS_Subset
<1>3. BlocksOf(s) \in Nat
  BY <1>2, FS_CardinalityType DEF BlocksOf
<1>4. n + 1 \notin BlocksAt(s)
  BY <1>1 DEF BlocksAt
<1>5. CASE IsBlock(x)
  <2>1. BlocksAt(t) = BlocksAt(s) \cup {n + 1}
    BY <1>1, <1>5 DEF BlocksAt
  <2> QED BY <1>2, <1>3, <1>4, <1>5, <2>1, FS_AddElement DEF BlocksOf, t
<1>6. CASE ~IsBlock(x)
  <2>1. BlocksAt(t) = BlocksAt(s)
    BY <1>1, <1>6 DEF BlocksAt
  <2> QED BY <1>3, <1>6, <2>1 DEF BlocksOf, t
<1> QED BY <1>3, <1>5, <1>6 DEF t

LEMMA NoBlocks == BlocksOf(<<>>) = 0
<1>1. BlocksAt(<<>>) = {}
  BY DEF BlocksAt
<1> QED BY <1>1, FS_EmptySet DEF BlocksOf

LEMMA LeafIsNoBlock ==
  ASSUME NEW key, NEW value PROVE ~IsBlock(Node(key, Text(value))) /\ IsBlock(Node(key, Block))
<1>1. Text(value) # Block
  <2>1. DOMAIN Text(value) = {"text"} /\ DOMAIN Block = {"block"} /\ "text" # "block"
    BY DEF Text, Block
  <2> QED BY <2>1
<1> QED BY <1>1 DEF IsBlock, Node

\* A brace counts once, and nothing is half read after it.
LEMMA BraceWell ==
  ASSUME Len(src) \in Nat, NEW p \in 1 .. Len(src), ReadyAt(src, p), src[p] \in {LBrace, RBrace}
  PROVE  LET s == Scanning(src)[p - 1]
             t == Scanning(src)[p]
         IN  /\ ReadyAt(src, p + 1) /\ t.tokens = s.tokens
             /\ IF src[p] = LBrace
                THEN t.opened = s.opened + 1 /\ t.closed = s.closed /\ t.stray = s.stray
                ELSE /\ t.opened = s.opened /\ t.closed = s.closed + 1
                     /\ t.stray = (s.stray \/ s.closed >= s.opened)
<1> DEFINE s == Scanning(src)[p - 1]
           t == Scanning(src)[p]
<1>1. s \in Scanned /\ t = Add(s, src, p) /\ (p + 1) - 1 = p
  <2>1. p - 1 \in 0 .. Len(src)
    OBVIOUS
  <2> QED BY <2>1, ScanningIs
<1>2. s.mode = "between" \/ (s.mode = "plain" /\ src[p] \in Stops)
  BY DEF ReadyAt, Stops
<1>r. t.mode = "between" => ReadyAt(src, p + 1)
  BY <1>1 DEF ReadyAt
<1> HIDE DEF s, t
<1>3. t = Between(s, src, p)
  BY <1>1, <1>2 DEF Add
<1>4. CASE src[p] = LBrace
  <2>1. t = [s EXCEPT !.mode = "between", !.opened = @ + 1]
    BY <1>3, <1>4, Characters DEF Between, Blanks
  <2>2. /\ t.mode = "between" /\ t.tokens = s.tokens /\ t.opened = s.opened + 1
        /\ t.closed = s.closed /\ t.stray = s.stray
    BY <1>1, <2>1 DEF Scanned
  <2> QED BY <1>4, <1>r, <2>2 DEF s, t
<1>5. CASE src[p] = RBrace
  <2>1. t = [s EXCEPT !.mode = "between", !.closed = @ + 1, !.stray = @ \/ s.closed >= s.opened]
    BY <1>3, <1>5, Characters DEF Between, Blanks
  <2>2. /\ t.mode = "between" /\ t.tokens = s.tokens /\ t.opened = s.opened /\ t.closed = s.closed + 1
        /\ t.stray = (s.stray \/ s.closed >= s.opened)
    BY <1>1, <2>1 DEF Scanned
  <2>3. src[p] # LBrace
    BY <1>5, Characters
  <2> QED BY <1>r, <2>2, <2>3 DEF s, t
<1> QED BY <1>4, <1>5

\* Everything before pos is in the nodes.
Counted ==
  LET s == Scanning(src)[pos - 1]
  IN  /\ ReadyAt(src, pos)
      /\ ~s.stray /\ s.opened = BlocksOf(nodes) /\ s.closed = BlocksOf(nodes) - depth
      /\ s.tokens = 2 * Len(nodes) - BlocksOf(nodes)

\* The nodes read are a tree, of which depth blocks are open.
Tree ==
  /\ Len(src) \in Nat /\ pos \in 1 .. Len(src) + 1 /\ Len(nodes) < pos
  /\ \E S : nodes \in Seq(S)
  /\ \A k \in 1 .. Len(nodes) : nodes[k].depth \in Nat
  /\ WellNested(nodes) /\ depth \in 0 .. Ended(nodes, Len(nodes) + 1)

TextDone ==
  LET found == Scanning(src)[Len(src)]
  IN  /\ found.mode \notin {"quoted", "escape"} /\ ~found.stray
      /\ found.opened = BlocksOf(nodes) /\ found.closed = BlocksOf(nodes)
      /\ found.tokens = 2 * Len(nodes) - BlocksOf(nodes)

VdfInv ==
  /\ format \in {"text", "binary"} /\ parsed \in {"reading", "ok", "error"}
  /\ Tree
  /\ parsed = "ok" => depth = 0
  /\ format = "text" /\ parsed = "reading" => Counted
  /\ format = "text" /\ parsed = "ok" => TextDone

LEMMA InvTree == VdfInv => VdfTypeOK /\ Accounted
BY DEF VdfInv, Tree, VdfTypeOK, Accounted, TextDone, Scan, BlocksOf, BlocksAt

LEMMA GrownTree ==
  ASSUME Tree, NEW node, node.depth = depth, NEW next \in pos + 1 .. Len(src) + 1,
         Goes(node, IF IsBlock(node) THEN 1 ELSE 0, next)
  PROVE  Tree'
<1> DEFINE n == Len(nodes)
           t == Append(nodes, node)
<1>1. /\ \E S : t \in Seq(S)
      /\ n \in Nat /\ Len(t) = n + 1 /\ t[n + 1] = node /\ \A k \in 1 .. n : t[k] = nodes[k]
      /\ DOMAIN nodes = 1 .. n /\ DOMAIN t = 1 .. n + 1
  <2>1. \E S : nodes \in Seq(S)
    BY DEF Tree
  <2> HIDE DEF n, t
  <2>2. LET u == Append(nodes, node)
        IN  /\ \E S : u \in Seq(S)
            /\ Len(nodes) \in Nat /\ Len(u) = Len(nodes) + 1 /\ u[Len(nodes) + 1] = node
            /\ \A k \in 1 .. Len(nodes) : u[k] = nodes[k]
            /\ DOMAIN nodes = 1 .. Len(nodes) /\ DOMAIN u = 1 .. Len(nodes) + 1
    BY <2>1, Appended
  <2> QED BY <2>2 DEF n, t
<1>2. nodes' = t /\ depth' = depth + (IF IsBlock(node) THEN 1 ELSE 0) /\ pos' = next /\ src' = src
  BY DEF Goes
<1> HIDE DEF n, t
<1>3. depth \in Nat /\ pos \in 1 .. Len(src) + 1 /\ Len(src) \in Nat
  <2>1. Ended(nodes, n + 1) \in Nat
    <3>1. n + 1 \in 1 .. Len(nodes) + 1
      BY <1>1 DEF n
    <3> QED BY <3>1, EndedIs DEF Tree
  <2> QED BY <2>1 DEF Tree, n
<1>4. \A k \in 1 .. n + 1 : t[k].depth \in Nat
  BY <1>1, <1>3 DEF Tree, n
<1>5. \A k \in 1 .. n : Ended(t, k) = Ended(nodes, k)
  <2>1. ASSUME NEW k \in 1 .. n PROVE Ended(t, k) = Ended(nodes, k)
    <3>1. k \in 1 .. n + 1 /\ ~(k > n) /\ ~(k > n + 1) /\ t[k] = nodes[k]
      BY <1>1
    <3>2. CASE k = 1
      BY <1>1, <3>1, <3>2 DEF Ended, n
    <3>3. CASE k # 1
      <4>1. k - 1 \in 1 .. n
        BY <1>1, <3>3
      <4>2. t[k - 1] = nodes[k - 1]
        BY <1>1, <4>1
      <4> QED BY <1>1, <3>1, <3>3, <4>2 DEF Ended, n
    <3> QED BY <3>2, <3>3
  <2> QED BY <2>1
<1>6. Ended(t, n + 1) = Ended(nodes, n + 1) - depth
  <2>1. CASE n = 0
    BY <1>1, <1>3, <2>1 DEF Ended, n
  <2>2. CASE n # 0
    <3>1. n \in 1 .. n /\ (n + 1) - 1 = n /\ n + 1 # 1 /\ n + 1 > n /\ ~(n + 1 > n + 1)
      BY <1>1, <2>2
    <3>2. t[n] = nodes[n] /\ nodes[n].depth \in Nat
      BY <1>1, <3>1 DEF Tree, n
    <3> QED BY <1>1, <1>3, <3>1, <3>2 DEF Ended, n
  <2> QED BY <2>1, <2>2
<1>7. Ended(t, n + 1) >= 0 /\ Ended(nodes, n + 1) \in Nat
  <2>1. n + 1 \in 1 .. Len(nodes) + 1
    BY <1>1 DEF n
  <2>2. Ended(nodes, n + 1) \in Nat
    BY <2>1, EndedIs, <1>1 DEF Tree, n
  <2> QED BY <1>3, <1>6, <2>2 DEF Tree, n
<1>8. WellNested(t)
  <2>1. \A k \in 1 .. n : Ended(nodes, k) >= 0
    BY DEF Tree, WellNested, n
  <2>2. ASSUME NEW k \in 1 .. n + 1 PROVE Ended(t, k) >= 0
    BY <1>1, <1>5, <1>7, <2>1
  <2> QED BY <1>1, <2>2 DEF WellNested
<1>9. Ended(t, (n + 1) + 1) = depth + (IF IsBlock(node) THEN 1 ELSE 0)
  <2>1. (n + 1) + 1 # 1 /\ ((n + 1) + 1) - 1 = n + 1 /\ (n + 1) + 1 > n + 1
    BY <1>1
  <2> QED BY <1>1, <1>3, <2>1 DEF Ended
<1>10. depth' \in 0 .. Ended(t, Len(t) + 1)
  BY <1>1, <1>2, <1>3, <1>9
<1>11. Len(t) < next
  BY <1>1, <1>3 DEF Tree, n
<1>12. \A k \in 1 .. Len(t) : t[k].depth \in Nat
  BY <1>1, <1>4
<1> QED BY <1>1, <1>2, <1>3, <1>8, <1>10, <1>11, <1>12 DEF Tree

LEMMA ClosedTree ==
  ASSUME Tree, depth > 0, NEW next \in pos + 1 .. Len(src) + 1, Closes(next)
  PROVE  Tree'
<1>1. /\ Len(src) \in Nat /\ pos \in 1 .. Len(src) + 1 /\ Len(nodes) < pos
      /\ \E S : nodes \in Seq(S)
      /\ \A k \in 1 .. Len(nodes) : nodes[k].depth \in Nat
      /\ WellNested(nodes) /\ depth \in 0 .. Ended(nodes, Len(nodes) + 1)
  BY DEF Tree
<1>2. Len(nodes) \in Nat
  <2>1. PICK S : nodes \in Seq(S)
    BY <1>1
  <2> QED BY <2>1
<1>3. Ended(nodes, Len(nodes) + 1) \in Nat
  <2>1. Len(nodes) + 1 \in 1 .. Len(nodes) + 1
    BY <1>2
  <2> QED BY <1>1, <1>2, <2>1, EndedIs
<1>4. depth' = depth - 1 /\ pos' = next /\ nodes' = nodes /\ src' = src
  BY DEF Closes
<1>5. depth - 1 \in 0 .. Ended(nodes, Len(nodes) + 1) /\ Len(nodes) < next
  BY <1>1, <1>2, <1>3
<1>6. next \in 1 .. Len(src) + 1
  BY <1>1
<1> QED BY <1>1, <1>4, <1>5, <1>6 DEF Tree

LEMMA SameTree == Tree /\ UNCHANGED <<src, pos, nodes, depth>> => Tree'
BY DEF Tree

----------------------------------------------------------------------------
(***************************************************************************)
(* One turn of either parser keeps that.                                   *)
(***************************************************************************)
LEMMA CstringIs ==
  ASSUME Len(src) \in Nat, NEW p \in 1 .. Len(src) + 1, Cstring(p).ok
  PROVE  Cstring(p).next \in p + 1 .. Len(src) + 1
<1> DEFINE end == NextOf({Zero}, p)
<1>1. end \in p .. Len(src) + 1
  BY NextOfIs
<1>2. Cstring(p) = IF AtEnd(end) THEN NoToken
                   ELSE [ok |-> TRUE, next |-> end + 1, token |-> SubSeq(src, p, end - 1)]
  BY DEF Cstring
<1> HIDE DEF end
<1> QED BY <1>1, <1>2 DEF AtEnd, NoToken

LEMMA TakeIs ==
  ASSUME Len(src) \in Nat, NEW p \in 1 .. Len(src) + 1, NEW n \in Nat, Take(p, n).ok
  PROVE  Take(p, n).next \in p .. Len(src) + 1
BY DEF Take, NoToken

LEMMA BinaryValueIs ==
  ASSUME Tree, ~AtEnd(pos), BinaryKey.ok, BinaryValue.ok
  PROVE  BinaryKey.next \in pos + 1 .. Len(src) + 1 /\ BinaryValue.next \in pos + 1 .. Len(src) + 1
<1>1. Len(src) \in Nat /\ pos + 1 \in 1 .. Len(src) + 1 /\ pos \in Nat
  BY DEF Tree, AtEnd
<1>2. BinaryKey.next \in pos + 2 .. Len(src) + 1
  <2>1. BinaryKey.next \in (pos + 1) + 1 .. Len(src) + 1
    BY <1>1, CstringIs DEF BinaryKey
  <2> QED BY <1>1, <2>1
<1> DEFINE p == BinaryKey.next
<1>3. p \in 1 .. Len(src) + 1 /\ Half \in Nat /\ Full \in Nat
  BY <1>1, <1>2, VdfAssumption
<1>4. /\ Cstring(p).ok => Cstring(p).next \in p + 1 .. Len(src) + 1
      /\ Take(p, Half).ok => Take(p, Half).next \in p .. Len(src) + 1
      /\ Take(p, Full).ok => Take(p, Full).next \in p .. Len(src) + 1
  <2> HIDE DEF p
  <2> QED BY <1>1, <1>3, CstringIs, TakeIs
<1>5. \E taken \in {Cstring(p), Take(p, Half), Take(p, Full)} : taken.ok /\ BinaryValue.next = taken.next
  BY DEF BinaryValue, As, NoToken, Cstring, Take
<1>6. BinaryValue.next \in p .. Len(src) + 1
  <2> HIDE DEF p
  <2> QED BY <1>1, <1>3, <1>4, <1>5
<1> QED BY <1>1, <1>2, <1>6

LEMMA TextStep ==
  ASSUME VdfInv, TextEnds \/ TextBlockEnds \/ TextBlock \/ TextLeaf \/ TextBad PROVE VdfInv'
<1> DEFINE s(k) == Scanning(src)[k - 1]
           B == BlocksOf(nodes)
           n == Len(nodes)
<1>1. format = "text" /\ parsed = "reading" /\ Tree /\ Counted
  BY DEF VdfInv, TextEnds, TextBlockEnds, TextBlock, TextLeaf, TextBad, Reads
<1>2. Len(src) \in Nat /\ pos \in 1 .. Len(src) + 1 /\ depth \in Int
  BY <1>1 DEF Tree
<1>3. SkipWell(pos, Here)
  BY <1>1, <1>2, SkipWellIs DEF Here, Counted
<1>4. B \in Nat /\ n \in Nat
  <2>1. \E S : nodes \in Seq(S)
    BY <1>1 DEF Tree
  <2> QED BY <2>1, BlocksAppended, Appended
<1>5. /\ ReadyAt(src, pos)
      /\ ~s(pos).stray /\ s(pos).opened = B /\ s(pos).closed = B - depth /\ s(pos).tokens = 2 * n - B
  BY <1>1 DEF Counted
<1>6. \A k \in 1 .. Len(src) + 1 : s(k) \in Scanned
  <2>1. \A k \in 1 .. Len(src) + 1 : k - 1 \in 0 .. Len(src)
    BY <1>2
  <2> QED BY <1>2, <2>1, ScanningIs
<1>7. Counted' <=> LET t == Scanning(src')[pos' - 1]
                   IN  /\ ReadyAt(src', pos')
                       /\ ~t.stray /\ t.opened = BlocksOf(nodes') /\ t.closed = BlocksOf(nodes') - depth'
                       /\ t.tokens = 2 * Len(nodes') - BlocksOf(nodes')
  BY DEF Counted
<1>8. CASE TextEnds
  <2>1. AtEnd(Here) /\ parsed' = (IF depth = 0 THEN "ok" ELSE "error") /\ UNCHANGED <<format, src, pos, nodes, depth>>
    BY <1>8 DEF TextEnds, Ends
  <2>2. ASSUME depth = 0 PROVE TextDone
    <3>1. Here = Len(src) + 1 /\ (Len(src) + 1) - 1 = Len(src)
      BY <1>2, <1>3, <2>1 DEF SkipWell, AtEnd
    <3>2. s(Here).mode \in {"between", "plain", "comment"} /\ SameCount(s(Here), s(pos))
      BY <1>3, <2>1 DEF SkipWell
    <3>3. s(Here) = Scanning(src)[Len(src)]
      BY <3>1
    <3> HIDE DEF s, B, n
    <3>4. LET found == Scanning(src)[Len(src)]
          IN  /\ found.mode \notin {"quoted", "escape"} /\ ~found.stray
              /\ found.opened = B /\ found.closed = B /\ found.tokens = 2 * n - B
      BY <1>4, <1>5, <2>2, <3>2, <3>3 DEF SameCount
    <3> QED BY <3>4 DEF TextDone, B, n
  <2>3. Tree' /\ (depth = 0 => TextDone')
    BY <1>1, <2>1, <2>2, SameTree DEF TextDone
  <2> QED BY <1>1, <2>1, <2>3 DEF VdfInv
<1>9. CASE TextBad
  <2>1. parsed' = "error" /\ UNCHANGED <<format, src, pos, nodes, depth>>
    BY <1>9 DEF TextBad, Ends
  <2>2. Tree'
    BY <1>1, <2>1, SameTree
  <2> QED BY <1>1, <2>1, <2>2 DEF VdfInv
<1>10. CASE TextBlockEnds
  <2>1. depth > 0 /\ ~AtEnd(Here) /\ src[Here] = RBrace /\ Closes(Here + 1)
    BY <1>10 DEF TextBlockEnds, BlockEnds
  <2>2. /\ Here \in pos .. Len(src) /\ ReadyAt(src, Here) /\ SameCount(s(Here), s(pos))
        /\ Here \in 1 .. Len(src) /\ Here + 1 \in pos + 1 .. Len(src) + 1
    BY <1>2, <1>3, <2>1 DEF SkipWell, AtEnd
  <2>3. Tree'
    BY <1>1, <2>1, <2>2, ClosedTree
  <2>4. UNCHANGED <<format, src, parsed, nodes>> /\ pos' = Here + 1 /\ depth' = depth - 1
    BY <2>1 DEF Closes
  <2>5. /\ ReadyAt(src, Here + 1) /\ s(Here + 1).tokens = s(Here).tokens
        /\ s(Here + 1).opened = s(Here).opened /\ s(Here + 1).closed = s(Here).closed + 1
        /\ s(Here + 1).stray = (s(Here).stray \/ s(Here).closed >= s(Here).opened)
    <3>1. (Here + 1) - 1 = Here /\ src[Here] # LBrace /\ src[Here] \in {LBrace, RBrace}
      BY <2>1, <2>2, Characters
    <3> QED BY <1>2, <2>2, <3>1, BraceWell
  <2> HIDE DEF s, B, n
  <2>a. /\ ~s(Here).stray /\ s(Here).opened = B /\ s(Here).closed = B - depth /\ s(Here).tokens = 2 * n - B
    BY <1>5, <2>2 DEF SameCount
  <2>b. ~(s(Here).closed >= s(Here).opened)
    BY <1>2, <1>4, <2>1, <2>a
  <2>c. ~s(Here + 1).stray
    BY <2>5, <2>a, <2>b
  <2>6. /\ ~s(Here + 1).stray /\ s(Here + 1).opened = B
        /\ s(Here + 1).closed = B - (depth - 1) /\ s(Here + 1).tokens = 2 * n - B
    BY <1>2, <1>4, <2>5, <2>a, <2>c
  <2>7. Counted'
    BY <1>7, <2>4, <2>5, <2>6 DEF s, B, n
  <2> QED BY <1>1, <2>3, <2>4, <2>7 DEF VdfInv
<1>11. ASSUME Key.ok PROVE TokenWell(pos, Key.next)
  BY <1>2, <1>5, <1>11, TokenWellIs DEF Key
<1>12. CASE TextBlock
  <2> DEFINE node == Node(Key.token, Block)
  <2>1. Key.ok /\ ~AtEnd(After) /\ src[After] = LBrace /\ Goes(node, 1, After + 1)
    BY <1>12 DEF TextBlock, Opens
  <2>2. IsBlock(node) /\ node.depth = depth
    BY LeafIsNoBlock DEF Node
  <2>3. /\ Key.next \in pos + 1 .. Len(src) + 1 /\ ReadyAt(src, Key.next)
        /\ SameCount(s(Key.next), [s(pos) EXCEPT !.tokens = @ + 1])
    BY <1>11, <2>1 DEF TokenWell
  <2>4. Key.next \in 1 .. Len(src) + 1
    BY <1>2, <2>3
  <2>5. SkipWell(Key.next, After)
    BY <1>2, <2>3, <2>4, SkipWellIs DEF After
  <2>6. /\ After \in 1 .. Len(src) /\ ReadyAt(src, After) /\ SameCount(s(After), s(Key.next))
        /\ After + 1 \in pos + 1 .. Len(src) + 1
    BY <1>2, <2>1, <2>3, <2>4, <2>5, SMTT(30) DEF SkipWell, AtEnd
  <2> HIDE DEF node
  <2>7. Tree'
    BY <1>1, <2>1, <2>2, <2>6, GrownTree
  <2>8. /\ UNCHANGED <<format, src, parsed>> /\ pos' = After + 1 /\ depth' = depth + 1
        /\ nodes' = Append(nodes, node)
    BY <2>1 DEF Goes
  <2>9. BlocksOf(nodes') = B + 1 /\ Len(nodes') = n + 1
    <3>1. \E S : nodes \in Seq(S)
      BY <1>1 DEF Tree
    <3> QED BY <2>2, <2>8, <3>1, BlocksAppended, Appended
  <2>10. /\ ReadyAt(src, After + 1) /\ s(After + 1).tokens = s(After).tokens
         /\ s(After + 1).opened = s(After).opened + 1 /\ s(After + 1).closed = s(After).closed
         /\ s(After + 1).stray = s(After).stray
    <3>1. (After + 1) - 1 = After /\ src[After] \in {LBrace, RBrace}
      BY <2>1, <2>6
    <3> QED BY <1>2, <2>1, <2>6, <3>1, BraceWell
  <2>11. s(pos) \in Scanned
    BY <1>2, <1>6
  <2> HIDE DEF s, B, n
  <2>12. s(Key.next).tokens = s(pos).tokens + 1 /\ s(Key.next).opened = s(pos).opened
         /\ s(Key.next).closed = s(pos).closed /\ s(Key.next).stray = s(pos).stray
    BY <2>3, <2>11 DEF SameCount, Scanned
  <2>13. /\ ~s(After + 1).stray /\ s(After + 1).opened = B + 1 /\ s(After + 1).closed = (B + 1) - (depth + 1)
         /\ s(After + 1).tokens = 2 * (n + 1) - (B + 1)
    BY <1>2, <1>4, <1>5, <2>6, <2>10, <2>12 DEF SameCount
  <2>14. Counted'
    BY <1>7, <2>8, <2>9, <2>10, <2>13 DEF s
  <2> QED BY <1>1, <2>7, <2>8, <2>14 DEF VdfInv
<1>13. CASE TextLeaf
  <2> DEFINE node == Node(Key.token, Text(Value.token))
  <2>1. Key.ok /\ Value.ok /\ Goes(node, 0, Value.next)
    BY <1>13 DEF TextLeaf
  <2>2. ~IsBlock(node) /\ node.depth = depth
    BY LeafIsNoBlock DEF Node
  <2>3. /\ Key.next \in pos + 1 .. Len(src) + 1 /\ ReadyAt(src, Key.next)
        /\ SameCount(s(Key.next), [s(pos) EXCEPT !.tokens = @ + 1])
    BY <1>11, <2>1 DEF TokenWell
  <2>4. Key.next \in 1 .. Len(src) + 1
    BY <1>2, <2>3
  <2>5. TokenWell(Key.next, Value.next)
    BY <1>2, <2>1, <2>3, <2>4, TokenWellIs DEF Value
  <2>6. /\ Value.next \in Key.next + 1 .. Len(src) + 1 /\ ReadyAt(src, Value.next)
        /\ SameCount(s(Value.next), [s(Key.next) EXCEPT !.tokens = @ + 1])
    BY <2>5 DEF TokenWell
  <2>a. Value.next \in pos + 1 .. Len(src) + 1
    BY <1>2, <2>3, <2>6
  <2> HIDE DEF node
  <2>7. Tree'
    BY <1>1, <2>1, <2>2, <2>a, GrownTree
  <2>8. /\ UNCHANGED <<format, src, parsed>> /\ pos' = Value.next /\ depth' = depth
        /\ nodes' = Append(nodes, node)
    BY <1>2, <2>1 DEF Goes
  <2>9. BlocksOf(nodes') = B /\ Len(nodes') = n + 1
    <3>1. \E S : nodes \in Seq(S)
      BY <1>1 DEF Tree
    <3>2. BlocksOf(Append(nodes, node)) = BlocksOf(nodes) + 0
      BY <2>2, <3>1, BlocksAppended
    <3> QED BY <1>4, <2>8, <3>1, <3>2, Appended
  <2>11. s(pos) \in Scanned /\ s(Key.next) \in Scanned
    BY <1>2, <1>6, <2>4
  <2> HIDE DEF s, B, n
  <2>12. s(Key.next).tokens = s(pos).tokens + 1 /\ s(Key.next).opened = s(pos).opened
         /\ s(Key.next).closed = s(pos).closed /\ s(Key.next).stray = s(pos).stray
    BY <2>3, <2>11 DEF SameCount, Scanned
  <2>b. s(Value.next).tokens = s(Key.next).tokens + 1 /\ s(Value.next).opened = s(Key.next).opened
         /\ s(Value.next).closed = s(Key.next).closed /\ s(Value.next).stray = s(Key.next).stray
    BY <2>6, <2>11 DEF SameCount, Scanned
  <2>13. /\ ~s(Value.next).stray /\ s(Value.next).opened = B /\ s(Value.next).closed = B - depth
         /\ s(Value.next).tokens = 2 * (n + 1) - B
    BY <1>2, <1>4, <1>5, <2>12, <2>b
  <2>14. Counted'
    BY <1>7, <2>6, <2>8, <2>9, <2>13 DEF s
  <2> QED BY <1>1, <2>7, <2>8, <2>14 DEF VdfInv
<1> QED BY <1>8, <1>9, <1>10, <1>12, <1>13

LEMMA BinaryStep ==
  ASSUME VdfInv, BinaryEnds \/ BinaryBlockEnds \/ BinaryBlock \/ BinaryLeaf \/ BinaryBad PROVE VdfInv'
<1>1. format = "binary" /\ parsed = "reading" /\ Tree
  BY DEF VdfInv, BinaryEnds, BinaryBlockEnds, BinaryBlock, BinaryLeaf, BinaryBad, Reads
<1>2. Len(src) \in Nat /\ pos \in 1 .. Len(src) + 1 /\ depth \in Int
  BY <1>1 DEF Tree
<1>3. CASE BinaryEnds \/ BinaryBad
  <2>1. /\ parsed' = "error" \/ (parsed' = "ok" /\ depth = 0)
        /\ UNCHANGED <<format, src, pos, nodes, depth>>
    BY <1>3 DEF BinaryEnds, BinaryBad, Ends
  <2>2. Tree'
    BY <1>1, <2>1, SameTree
  <2> QED BY <1>1, <2>1, <2>2 DEF VdfInv
<1>4. CASE BinaryBlockEnds
  <2>1. depth > 0 /\ ~AtEnd(pos) /\ Closes(pos + 1)
    BY <1>4 DEF BinaryBlockEnds, EndTag
  <2>2. pos + 1 \in pos + 1 .. Len(src) + 1
    BY <1>2, <2>1 DEF AtEnd
  <2>3. Tree'
    BY <1>1, <2>1, <2>2, ClosedTree
  <2> QED BY <1>1, <2>1, <2>3 DEF VdfInv, Closes
<1>5. CASE BinaryBlock
  <2> DEFINE node == Node(BinaryKey.token, Block)
  <2>1. ~AtEnd(pos) /\ BinaryKey.ok /\ Goes(node, 1, BinaryKey.next)
    BY <1>5 DEF BinaryBlock
  <2>2. IsBlock(node) /\ node.depth = depth
    BY LeafIsNoBlock DEF Node
  <2>3. BinaryKey.next \in pos + 1 .. Len(src) + 1
    <3>1. pos + 1 \in 1 .. Len(src) + 1 /\ BinaryKey.ok
      BY <1>2, <2>1 DEF AtEnd
    <3>2. BinaryKey.next \in (pos + 1) + 1 .. Len(src) + 1
      BY <1>2, <3>1, CstringIs DEF BinaryKey
    <3> QED BY <1>2, <3>2
  <2> HIDE DEF node
  <2>4. Tree'
    BY <1>1, <2>1, <2>2, <2>3, GrownTree
  <2> QED BY <1>1, <2>1, <2>4 DEF VdfInv, Goes
<1>6. CASE BinaryLeaf
  <2> DEFINE node == Node(BinaryKey.token, BinaryValue.token)
  <2>1. ~AtEnd(pos) /\ BinaryKey.ok /\ BinaryValue.ok /\ Goes(node, 0, BinaryValue.next)
    BY <1>6 DEF BinaryLeaf
  <2>2. ~IsBlock(node) /\ node.depth = depth
    <3>1. \E v : BinaryValue.token \in {Text(v), [number |-> v], [float |-> v]}
      <4> DEFINE p == BinaryKey.next
      <4>1. \A taken \in {Cstring(p), Take(p, Half), Take(p, Full)} :
              taken = [ok |-> taken.ok, next |-> taken.next, token |-> taken.token]
        BY DEF Cstring, Take, NoToken
      <4>2. \A taken, x : taken = [ok |-> taken.ok, next |-> taken.next, token |-> taken.token] =>
                             [taken EXCEPT !.token = x].token = x
        OBVIOUS
      <4>3. \E taken \in {Cstring(p), Take(p, Half), Take(p, Full)} :
              \/ BinaryValue = [taken EXCEPT !.token = Text(taken.token)]
              \/ BinaryValue = [taken EXCEPT !.token = IntOf(taken.token)]
              \/ BinaryValue = [taken EXCEPT !.token = UintOf(taken.token)]
              \/ BinaryValue = [taken EXCEPT !.token = FloatOf(taken.token)]
        BY <2>1 DEF BinaryValue, As, NoToken
      <4> HIDE DEF p
      <4>4. PICK taken \in {Cstring(p), Take(p, Half), Take(p, Full)} :
              \/ BinaryValue = [taken EXCEPT !.token = Text(taken.token)]
              \/ BinaryValue = [taken EXCEPT !.token = IntOf(taken.token)]
              \/ BinaryValue = [taken EXCEPT !.token = UintOf(taken.token)]
              \/ BinaryValue = [taken EXCEPT !.token = FloatOf(taken.token)]
        BY <4>3
      <4>5. \A x : [taken EXCEPT !.token = x].token = x
        BY <4>1, <4>2
      <4>6. BinaryValue.token \in {Text(taken.token), IntOf(taken.token), UintOf(taken.token), FloatOf(taken.token)}
        BY <4>4, <4>5
      <4> QED BY <4>6 DEF IntOf, UintOf, FloatOf
    <3>2. \A v : Text(v) # Block /\ [number |-> v] # Block /\ [float |-> v] # Block
      <4>1. ASSUME NEW v PROVE Text(v) # Block /\ [number |-> v] # Block /\ [float |-> v] # Block
        <5>1. /\ DOMAIN Text(v) = {"text"} /\ DOMAIN [number |-> v] = {"number"} /\ DOMAIN [float |-> v] = {"float"}
              /\ DOMAIN Block = {"block"} /\ "text" # "block" /\ "number" # "block" /\ "float" # "block"
          BY DEF Text, Block
        <5> QED BY <5>1
      <4> QED BY <4>1
    <3> QED BY <3>1, <3>2 DEF IsBlock, Node
  <2>3. BinaryValue.next \in pos + 1 .. Len(src) + 1
    BY <1>1, <2>1, BinaryValueIs
  <2> HIDE DEF node
  <2>4. Tree'
    BY <1>1, <2>1, <2>2, <2>3, GrownTree
  <2>5. parsed' = parsed /\ format' = format
    BY <2>1 DEF Goes
  <2> QED BY <1>1, <2>4, <2>5 DEF VdfInv
<1> QED BY <1>3, <1>4, <1>5, <1>6

\* What is read is a sequence.
LEMMA SourceIs == VdfInit => Len(src) \in Nat
<1> SUFFICES ASSUME VdfInit PROVE Len(src) \in Nat
  OBVIOUS
<1>1. CASE src \in RawTexts \cup RawBytes
  <2>1. src \in Seq(STRING) \/ src \in Seq(Octets)
    BY <1>1, VdfAssumption
  <2> QED BY <2>1
<1>2. ASSUME NEW listing \in TextListings, NEW space \in Spaces, src = TextOf(listing, space)
      PROVE  Len(src) \in Nat
  <2>1. src \in Seq(Printed)
    BY <1>2, TextOfIs
  <2> QED BY <2>1
<1>3. ASSUME NEW listing \in BinaryListings, NEW tag \in {2, 7, 10}, NEW end \in EndTags,
             src = BytesOf(listing, tag) \o <<end>>
      PROVE  Len(src) \in Nat
  <2>1. BytesOf(listing, tag) \in Seq(Octets) /\ <<end>> \in Seq(Octets)
    <3>1. end \in Octets
      BY DEF EndTags, Octets
    <3>2. <<end>> \in Seq(Octets)
      BY <3>1
    <3>3. BytesOf(listing, tag) \in Seq(Octets)
      BY BytesOfIs
    <3> QED BY <3>2, <3>3
  <2>2. src \in Seq(Octets)
    BY <1>3, <2>1
  <2> QED BY <2>2
<1> QED BY <1>1, <1>2, <1>3 DEF VdfInit

LEMMA VdfInvInit == VdfInit => VdfInv
<1> SUFFICES ASSUME VdfInit PROVE VdfInv
  OBVIOUS
<1>1. /\ pos = 1 /\ nodes = <<>> /\ depth = 0 /\ parsed = "reading" /\ format \in {"text", "binary"}
      /\ Len(src) \in Nat
  BY SourceIs DEF VdfInit
<1>2. Tree
  <2>1. nodes \in Seq({}) /\ Len(nodes) = 0
    BY <1>1
  <2>2. WellNested(nodes)
    BY <2>1 DEF WellNested
  <2>3. Ended(nodes, Len(nodes) + 1) = 0
    BY <2>1 DEF Ended
  <2>4. \E S : nodes \in Seq(S)
    BY <2>1
  <2> QED BY <1>1, <2>1, <2>2, <2>3, <2>4 DEF Tree
<1>3. Counted
  <2>1. Scanning(src)[pos - 1] = NothingScanned
    <3>1. pos - 1 = 0
      BY <1>1
    <3> QED BY <1>1, <3>1, ScanningIs
  <2>2. BlocksOf(nodes) = 0 /\ Len(nodes) = 0
    BY <1>1, NoBlocks
  <2> QED BY <1>1, <2>1, <2>2 DEF Counted, ReadyAt, NothingScanned
<1> QED BY <1>1, <1>2, <1>3 DEF VdfInv

LEMMA VdfInvStep == VdfInv /\ [VdfNext]_vdfVars => VdfInv'
<1> SUFFICES ASSUME VdfInv, [VdfNext]_vdfVars PROVE VdfInv'
  OBVIOUS
<1>1. CASE UNCHANGED vdfVars
  <2>1. UNCHANGED <<format, src, pos, nodes, depth, parsed>>
    BY <1>1 DEF vdfVars
  <2> QED BY <2>1 DEF VdfInv, Tree, Counted, TextDone
<1>2. CASE TextEnds \/ TextBlockEnds \/ TextBlock \/ TextLeaf \/ TextBad
  BY <1>2, TextStep
<1>3. CASE BinaryEnds \/ BinaryBlockEnds \/ BinaryBlock \/ BinaryLeaf \/ BinaryBad
  BY <1>3, BinaryStep
<1> QED BY <1>1, <1>2, <1>3 DEF VdfNext

LEMMA VdfInvAlways == VdfSpec => []VdfInv
BY VdfInvInit, VdfInvStep, PTL DEF VdfSpec

\* A text that is accepted is accepted whole, and no node is made of nothing
\* (Accounted; vdf.go:112-150).
THEOREM AccountedCorrect == VdfSpec => []Accounted
BY VdfInvAlways, InvTree, PTL

\* The nodes read are a tree, and the parser knows how many of its blocks are
\* open (VdfTypeOK; vdf.go:74-150, binary.go:29-110).
THEOREM VdfTypeCorrect == VdfSpec => []VdfTypeOK
BY VdfInvAlways, InvTree, PTL

----------------------------------------------------------------------------
(***************************************************************************)
(* Where the parts of a written document stand in it.                      *)
(***************************************************************************)
Stands(whole, at, part) ==
  at + Len(part) <= Len(whole) /\ \A i \in 1 .. Len(part) : whole[at + i] = part[i]

LEMMA StandsIn ==
  ASSUME NEW S, NEW whole \in Seq(S), NEW part \in Seq(S), NEW inner \in Seq(S), NEW a \in Nat, NEW b \in Nat,
         Stands(whole, a, part), Stands(part, b, inner)
  PROVE  Stands(whole, a + b, inner)
<1>1. Len(whole) \in Nat /\ Len(part) \in Nat /\ Len(inner) \in Nat
  OBVIOUS
<1>2. \A i \in 1 .. Len(inner) : b + i \in 1 .. Len(part) /\ (a + b) + i = a + (b + i)
  BY <1>1 DEF Stands
<1>3. (a + b) + Len(inner) <= Len(whole)
  BY <1>1 DEF Stands
<1>4. \A i \in 1 .. Len(inner) : whole[(a + b) + i] = inner[i]
  BY <1>2 DEF Stands
<1> QED BY <1>3, <1>4 DEF Stands

LEMMA StandsBoth ==
  ASSUME NEW S, NEW whole \in Seq(S), NEW first \in Seq(S), NEW second \in Seq(S), NEW a \in Nat,
         Stands(whole, a, first \o second)
  PROVE  Stands(whole, a, first) /\ Stands(whole, a + Len(first), second)
<1> DEFINE part == first \o second
<1>1. /\ Len(whole) \in Nat /\ Len(first) \in Nat /\ Len(second) \in Nat /\ Len(part) = Len(first) + Len(second)
      /\ \A i \in 1 .. Len(first) : part[i] = first[i]
      /\ \A i \in 1 .. Len(second) : part[Len(first) + i] = second[i]
  OBVIOUS
<1>2. a + Len(part) <= Len(whole) /\ \A i \in 1 .. Len(part) : whole[a + i] = part[i]
  BY DEF Stands
<1> HIDE DEF part
<1>3. \A i \in 1 .. Len(first) : i \in 1 .. Len(part)
  BY <1>1
<1>4. \A i \in 1 .. Len(second) : Len(first) + i \in 1 .. Len(part) /\ (a + Len(first)) + i = a + (Len(first) + i)
  BY <1>1
<1>5. Stands(whole, a, first)
  BY <1>1, <1>2, <1>3 DEF Stands
<1>6. Stands(whole, a + Len(first), second)
  BY <1>1, <1>2, <1>4 DEF Stands
<1> QED BY <1>5, <1>6

Places(at, n, seqs, whole) ==
  /\ at \in [0 .. n -> Nat] /\ at[0] = 0 /\ at[n] = Len(whole)
  /\ \A k \in 1 .. n : at[k] = at[k - 1] + Len(seqs[k]) /\ Stands(whole, at[k - 1], seqs[k])

LEMMA RowIs ==
  ASSUME NEW n \in Nat, NEW S, NEW seqs \in [1 .. n -> Seq(S)]
  PROVE  \E at : Places(at, n, seqs, FlattenSeq(seqs))
<1>1. PICK f : Joins(f, n, S, seqs) /\ FlattenSeq(seqs) = f[n]
  BY Flattened
<1>a. /\ \A k \in 0 .. n : f[k] \in Seq(S) /\ Len(f[k]) \in Nat
      /\ f[0] = <<>> /\ \A k \in 1 .. n : f[k] = f[k - 1] \o seqs[k]
  <2>1. \A k \in 0 .. n : f[k] \in Seq(S)
    BY <1>1 DEF Joins
  <2>2. \A k \in 0 .. n : Len(f[k]) \in Nat
    BY <2>1
  <2> QED BY <1>1, <2>1, <2>2 DEF Joins
<1> DEFINE at == [k \in 0 .. n |-> Len(f[k])]
<1>2. \A k \in 0 .. n : at[k] = Len(f[k]) /\ at[k] \in Nat
  BY <1>a
<1>6. at \in [0 .. n -> Nat] /\ at[0] = 0 /\ at[n] = Len(f[n])
  <2>1. Len(f[0]) = 0
    BY <1>a
  <2> QED BY <1>a, <2>1
<1> HIDE DEF at
<1>3. ASSUME NEW k \in 1 .. n
      PROVE  /\ k - 1 \in 0 .. n /\ k \in 0 .. n /\ seqs[k] \in Seq(S)
             /\ Len(f[k]) = Len(f[k - 1]) + Len(seqs[k])
             /\ \A i \in 1 .. Len(f[k - 1]) : f[k][i] = f[k - 1][i]
             /\ \A i \in 1 .. Len(seqs[k]) : f[k][Len(f[k - 1]) + i] = seqs[k][i]
  <2>1. k - 1 \in 0 .. n /\ k \in 0 .. n /\ seqs[k] \in Seq(S)
    OBVIOUS
  <2>2. f[k - 1] \in Seq(S) /\ f[k] = f[k - 1] \o seqs[k]
    BY <1>a, <2>1
  <2> QED BY <2>1, <2>2
<1>4. ASSUME NEW k \in 0 .. n
      PROVE  Len(f[k]) <= Len(f[n]) /\ \A i \in 1 .. Len(f[k]) : f[n][i] = f[k][i]
  <2> DEFINE T == {m \in 0 .. n - k : Len(f[k]) <= Len(f[k + m]) /\ \A i \in 1 .. Len(f[k]) : f[k + m][i] = f[k][i]}
  <2>1. 0 \in T
    <3>1. k + 0 = k /\ Len(f[k]) \in Nat
      BY <1>a
    <3> QED BY <3>1
  <2>2. ASSUME NEW m \in 0 .. (n - k) - 1, m \in T PROVE m + 1 \in T
    <3> DEFINE j == k + (m + 1)
    <3>1. j \in 1 .. n /\ j - 1 = k + m /\ m + 1 \in 0 .. n - k /\ k + m \in 0 .. n
      OBVIOUS
    <3> HIDE DEF j
    <3>2. /\ Len(f[j]) = Len(f[k + m]) + Len(seqs[j]) /\ \A i \in 1 .. Len(f[k + m]) : f[j][i] = f[k + m][i]
          /\ seqs[j] \in Seq(S)
      <4>1. /\ Len(f[j]) = Len(f[j - 1]) + Len(seqs[j]) /\ \A i \in 1 .. Len(f[j - 1]) : f[j][i] = f[j - 1][i]
            /\ seqs[j] \in Seq(S)
        BY <1>3, <3>1
      <4> QED BY <3>1, <4>1
    <3>3. Len(f[k]) \in Nat /\ Len(f[k + m]) \in Nat /\ Len(seqs[j]) \in Nat
      <4>1. Len(seqs[j]) \in Nat
        BY <3>2
      <4>2. Len(f[k]) \in Nat
        BY <1>a
      <4>3. Len(f[k + m]) \in Nat
        BY <1>a, <3>1
      <4> QED BY <4>1, <4>2, <4>3
    <3>4. Len(f[k]) <= Len(f[k + m]) /\ \A i \in 1 .. Len(f[k]) : f[k + m][i] = f[k][i]
      BY <2>2
    <3>a. \A i \in 1 .. Len(f[k]) : i \in 1 .. Len(f[k + m])
      BY <3>3, <3>4
    <3>b. Len(f[k]) <= Len(f[j])
      <4>1. \A x, y, z \in Nat : x <= y => x <= y + z
        OBVIOUS
      <4>2. Len(f[k]) <= Len(f[k + m]) + Len(seqs[j])
        BY <3>3, <3>4, <4>1
      <4> QED BY <3>2, <4>2
    <3>c. ASSUME NEW i \in 1 .. Len(f[k]) PROVE f[j][i] = f[k][i]
      <4>1. f[j][i] = f[k + m][i]
        BY <3>2, <3>a
      <4> QED BY <3>4, <4>1
    <3>5. Len(f[k]) <= Len(f[j]) /\ \A i \in 1 .. Len(f[k]) : f[j][i] = f[k][i]
      BY <3>b, <3>c
    <3> QED BY <3>1, <3>5 DEF j
  <2>3. n - k \in Nat
    OBVIOUS
  <2> HIDE DEF T
  <2>4. 0 .. n - k \subseteq T
    BY <2>1, <2>2, <2>3, UpTo
  <2>5. n - k \in T /\ k + (n - k) = n
    BY <2>4
  <2> QED BY <2>5 DEF T
<1>5. ASSUME NEW k \in 1 .. n PROVE at[k] = at[k - 1] + Len(seqs[k]) /\ Stands(f[n], at[k - 1], seqs[k])
  <2>1. at[k] = Len(f[k]) /\ at[k - 1] = Len(f[k - 1]) /\ at[k - 1] \in Nat /\ Len(seqs[k]) \in Nat
    <3>1. k - 1 \in 0 .. n /\ k \in 0 .. n /\ seqs[k] \in Seq(S)
      BY <1>3
    <3> QED BY <1>2, <3>1
  <2>2. Len(f[k]) <= Len(f[n]) /\ \A i \in 1 .. Len(f[k]) : f[n][i] = f[k][i]
    BY <1>3, <1>4
  <2> HIDE DEF at
  <2>3. Len(f[k]) = Len(f[k - 1]) + Len(seqs[k]) /\ \A i \in 1 .. Len(seqs[k]) : f[k][Len(f[k - 1]) + i] = seqs[k][i]
    BY <1>3
  <2>4. \A i \in 1 .. Len(seqs[k]) : at[k - 1] + i \in 1 .. Len(f[k])
    BY <2>1, <2>3
  <2>5. \A i \in 1 .. Len(seqs[k]) : f[n][at[k - 1] + i] = seqs[k][i]
    BY <2>1, <2>2, <2>3, <2>4
  <2> QED BY <2>1, <2>2, <2>3, <2>5 DEF Stands
<1>7. Places(at, n, seqs, f[n])
  BY <1>5, <1>6 DEF Places
<1> QED BY <1>1, <1>7

LEMMA RepeatPlaces ==
  ASSUME NEW n \in Nat, NEW S, NEW s \in Seq(S)
  PROVE  /\ Repeat(n, s) \in Seq(S) /\ Len(Repeat(n, s)) = n * Len(s)
         /\ \A k \in 0 .. n - 1 : Stands(Repeat(n, s), k * Len(s), s)
<1> DEFINE seqs == [k \in 1 .. n |-> s]
<1>1. PICK at : Places(at, n, seqs, FlattenSeq(seqs))
  <2>1. seqs \in [1 .. n -> Seq(S)]
    OBVIOUS
  <2> HIDE DEF seqs
  <2> QED BY <2>1, RowIs
<1>2. /\ at[0] = 0 /\ at[n] = Len(Repeat(n, s))
      /\ \A k \in 1 .. n : at[k] = at[k - 1] + Len(s) /\ Stands(Repeat(n, s), at[k - 1], s)
  BY <1>1 DEF Places, Repeat
<1> DEFINE T == {k \in 0 .. n : at[k] = k * Len(s)}
<1>3. 0 .. n \subseteq T
  <2>1. 0 \in T
    BY <1>2
  <2>2. ASSUME NEW k \in 0 .. n - 1, k \in T PROVE k + 1 \in T
    <3>1. k + 1 \in 1 .. n /\ k + 1 \in 0 .. n /\ (k + 1) - 1 = k /\ Len(s) \in Nat
      OBVIOUS
    <3>2. at[k + 1] = k * Len(s) + Len(s)
      BY <1>2, <2>2, <3>1
    <3>3. k * Len(s) + Len(s) = (k + 1) * Len(s)
      BY <3>1
    <3> QED BY <3>1, <3>2, <3>3
  <2> HIDE DEF T
  <2> QED BY <2>1, <2>2, UpTo
<1>4. Len(Repeat(n, s)) = n * Len(s)
  BY <1>2, <1>3
<1>5. ASSUME NEW k \in 0 .. n - 1 PROVE Stands(Repeat(n, s), k * Len(s), s)
  <2>1. k + 1 \in 1 .. n /\ (k + 1) - 1 = k /\ k \in T
    BY <1>3
  <2> QED BY <1>2, <2>1
<1> QED BY <1>4, <1>5, RepeatIs

----------------------------------------------------------------------------
(***************************************************************************)
(* What was written is read.                                               *)
(***************************************************************************)
Prefix(c, rest) == <<c>> \o rest

LEMMA SubSeqFrom ==
  ASSUME NEW S, NEW token \in Seq(S), NEW k \in 0 .. Len(token) - 1
  PROVE  /\ SubSeq(token, k + 2, Len(token)) \in Seq(S)
         /\ Prefix(token[k + 1], SubSeq(token, k + 2, Len(token))) = SubSeq(token, k + 1, Len(token))
<1> DEFINE n == Len(token)
           t == SubSeq(token, k + 2, n)
           u == SubSeq(token, k + 1, n)
<1>1. n \in Nat /\ k \in Nat /\ k < n
  OBVIOUS
<1>2. /\ t \in Seq(S) /\ Len(t) = n - k - 1 /\ \A i \in 1 .. n - k - 1 : t[i] = token[k + 1 + i]
  BY <1>1
<1>3. /\ u \in Seq(S) /\ Len(u) = n - k /\ \A i \in 1 .. n - k : u[i] = token[k + i]
  BY <1>1
<1>4. token[k + 1] \in S
  BY <1>1
<1> HIDE DEF t, u, n
<1>5. /\ <<token[k + 1]>> \o t \in Seq(S) /\ Len(<<token[k + 1]>> \o t) = n - k
      /\ (<<token[k + 1]>> \o t)[1] = token[k + 1]
      /\ \A i \in 1 .. n - k - 1 : (<<token[k + 1]>> \o t)[i + 1] = t[i]
  <2>1. <<token[k + 1]>> \in Seq(S) /\ Len(<<token[k + 1]>>) = 1
    BY <1>4
  <2>2. Len(t) \in Nat /\ Len(<<token[k + 1]>> \o t) = 1 + Len(t)
    BY <1>2, <2>1
  <2> QED BY <1>1, <1>2, <2>1, <2>2
<1>6. ASSUME NEW i \in 1 .. n - k PROVE (<<token[k + 1]>> \o t)[i] = u[i]
  <2>1. CASE i = 1
    BY <1>1, <1>3, <1>5, <2>1
  <2>2. CASE i # 1
    <3>1. i - 1 \in 1 .. n - k - 1 /\ (i - 1) + 1 = i /\ k + 1 + (i - 1) = k + i
      BY <1>1, <2>2
    <3>2. (<<token[k + 1]>> \o t)[i] = t[i - 1] /\ t[i - 1] = token[k + i]
      BY <1>2, <1>5, <3>1
    <3> QED BY <1>3, <3>2
  <2> QED BY <2>1, <2>2
<1>7. <<token[k + 1]>> \o t = u
  BY <1>3, <1>5, <1>6
<1> QED BY <1>2, <1>7 DEF Prefix, t, u, n

LEMMA PrintingIs ==
  ASSUME NEW c
  PROVE  \/ c \in {Quote, "\\"} /\ Printing(c) = <<"\\", c>> /\ Escaped(c) = c
         \/ c = "\n" /\ Printing(c) = <<"\\", "n">> /\ Escaped("n") = c
         \/ c \notin {Quote, "\\"} /\ Printing(c) = <<c>>
<1>1. CASE c \in {Quote, "\\"}
  <2>1. Printing(c) = <<"\\", c>>
    BY <1>1, Characters DEF Printing
  <2>2. c \notin {"n", "t", "r"}
    BY <1>1, Characters
  <2> QED BY <1>1, <2>1, <2>2 DEF Escaped
<1>2. CASE c = "\n"
  <2>1. c \notin {Quote, "\\"}
    BY <1>2, Characters
  <2>2. Printing(c) = <<"\\", "n">>
    BY <1>2, <2>1 DEF Printing
  <2> QED BY <1>2, <2>2 DEF Escaped
<1>3. CASE c \notin {Quote, "\\", "\n"}
  BY <1>3 DEF Printing
<1> QED BY <1>1, <1>2, <1>3

LEMMA ReadsQuoted ==
  ASSUME Len(src) \in Nat, NEW token \in Seq(STRING), NEW a \in Nat, Stands(src, a, InQuotes(token))
  PROVE  /\ Len(InQuotes(token)) \in Nat \ {0} /\ src[a + 1] = Quote /\ a + Len(InQuotes(token)) <= Len(src)
         /\ Quoted(a + 1).ok /\ Quoted(a + 1).next = a + Len(InQuotes(token)) + 1
         /\ Quoted(a + 1).token = token
<1> DEFINE n == Len(token)
           seqs == [k \in 1 .. n |-> Printing(token[k])]
           inside == FlattenSeq(seqs)
           end == a + Len(InQuotes(token)) + 1
           b == a + 1
<1>1. /\ n \in Nat /\ seqs \in [1 .. n -> Seq(Printed)] /\ InQuotes(token) = <<Quote>> \o inside \o <<Quote>>
      /\ \A k \in 1 .. n : seqs[k] = Printing(token[k])
  <2>1. LET f == [k \in 1 .. Len(token) |-> Printing(token[k])]
        IN  /\ f \in [1 .. Len(token) -> Seq(Printed)]
            /\ InQuotes(token) = <<Quote>> \o FlattenSeq(f) \o <<Quote>>
            /\ InQuotes(token) \in Seq(Printed)
    BY PrintedIs
  <2> QED BY <2>1
<1> HIDE DEF seqs
<1>2. inside \in Seq(Printed) /\ <<Quote>> \in Seq(Printed) /\ Len(<<Quote>>) = 1 /\ Len(inside) \in Nat
  <2>1. inside \in Seq(Printed)
    BY <1>1, FlattenedIs
  <2> QED BY <2>1 DEF Printed
<1>3. PICK at : Places(at, n, seqs, inside)
  BY <1>1, RowIs
<1>4. /\ \A k \in 0 .. n : at[k] \in Nat
      /\ at[0] = 0 /\ at[n] = Len(inside)
      /\ \A k \in 1 .. n : at[k] = at[k - 1] + Len(seqs[k]) /\ Stands(inside, at[k - 1], seqs[k])
  BY <1>3 DEF Places
<1> HIDE DEF inside
<1>5. /\ Len(InQuotes(token)) = Len(inside) + 2 /\ a + Len(inside) + 2 <= Len(src)
      /\ src[a + 1] = Quote /\ src[b + Len(inside) + 1] = Quote
      /\ \A i \in 1 .. Len(inside) : src[b + i] = inside[i]
  <2> DEFINE q == <<Quote>> \o inside \o <<Quote>>
  <2>1. /\ Len(q) = Len(inside) + 2 /\ q[1] = Quote /\ q[Len(inside) + 2] = Quote
        /\ \A i \in 1 .. Len(inside) : q[i + 1] = inside[i]
    BY <1>2
  <2> HIDE DEF q
  <2>2. a + Len(q) <= Len(src) /\ \A i \in 1 .. Len(q) : src[a + i] = q[i]
    BY <1>1 DEF Stands, q
  <2>3. \A i \in 1 .. Len(inside) : i + 1 \in 1 .. Len(q) /\ a + (i + 1) = b + i
    BY <1>2, <2>1
  <2>4. \A i \in 1 .. Len(inside) : src[b + i] = inside[i]
    BY <2>1, <2>2, <2>3
  <2>5. 1 \in 1 .. Len(q) /\ Len(inside) + 2 \in 1 .. Len(q) /\ a + (Len(inside) + 2) = b + Len(inside) + 1
    BY <1>2, <2>1
  <2>6. src[a + 1] = Quote /\ src[b + Len(inside) + 1] = Quote
    BY <2>1, <2>2, <2>5
  <2> QED BY <1>1, <1>2, <2>1, <2>2, <2>4, <2>6 DEF q
<1> DEFINE Result(r, k) == r.ok /\ r.next = end /\ r.token = SubSeq(token, k + 1, n)
           T == {k \in 0 .. n : Result(Quoting[b + at[k] + 1], k)}
<1>6. end = b + at[n] + 2 /\ end \in Nat
  BY <1>2, <1>4, <1>5
<1> HIDE DEF end
<1>7. ASSUME NEW k \in 0 .. n, \A j \in k + 1 .. n : j \in T PROVE k \in T
  <2>1. CASE k = n
    <3> DEFINE p == b + at[n] + 1
    <3>1. p \in 2 .. Len(src) + 2 /\ ~AtEnd(p) /\ src[p] = Quote /\ p + 1 = end
      BY <1>2, <1>4, <1>5, <1>6 DEF AtEnd
    <3> HIDE DEF p
    <3>2. Quoting[p] = [ok |-> TRUE, next |-> p + 1, token |-> <<>>]
      BY <3>1, QuotingIs DEF QuoteStep
    <3>3. SubSeq(token, n + 1, n) = <<>>
      BY <1>1
    <3>4. Quoting[p].ok /\ Quoting[p].next = end /\ Quoting[p].token = <<>>
      BY <3>1, <3>2
    <3>5. Result(Quoting[p], n)
      BY <3>3, <3>4
    <3>6. Result(Quoting[b + at[n] + 1], n) /\ n \in 0 .. n
      BY <1>1, <3>5 DEF p
    <3> QED BY <2>1, <3>6
  <2>2. CASE k # n
    <3> DEFINE c == token[k + 1]
               p == b + at[k] + 1
               rest == SubSeq(token, k + 2, n)
    <3>1. /\ k + 1 \in 1 .. n /\ (k + 1) - 1 = k /\ k + 1 \in k + 1 .. n /\ k + 1 \in 0 .. n /\ (k + 1) + 1 = k + 2
          /\ k \in 0 .. n - 1
      BY <1>1, <2>2
    <3>2. /\ at[k] \in Nat /\ at[k + 1] = at[k] + Len(Printing(c)) /\ Stands(inside, at[k], Printing(c))
      BY <1>1, <1>4, <3>1
    <3> DEFINE r == Quoting[b + at[k + 1] + 1]
    <3>3. r.ok /\ r.next = end /\ r.token = rest
      BY <1>7, <3>1
    <3>r. r \in Tokens
      <4>1. at[k + 1] \in 0 .. Len(inside)
        BY <1>2, <1>4, <3>1, <3>2 DEF Stands
      <4>2. b + at[k + 1] + 1 \in 2 .. Len(src) + 2
        <5> DEFINE x == at[k + 1]
                   y == Len(inside)
                   z == Len(src)
        <5>1. x \in 0 .. y /\ y \in Nat /\ z \in Nat /\ a + y + 2 <= z /\ b = a + 1
          BY <1>2, <1>5, <4>1
        <5> HIDE DEF x, y, z, b
        <5>2. b + x + 1 \in 2 .. z + 2
          BY <5>1
        <5> QED BY <5>2 DEF x, z
      <4> QED BY <4>2, QuotingIs
    <3>4. rest \in Seq(STRING) /\ Prefix(c, rest) = SubSeq(token, k + 1, n)
      BY <3>1, SubSeqFrom
    <3> HIDE DEF c, rest, r
    <3>5. \A x : \A t \in Tokens : /\ Prefixed(x, t).ok = t.ok /\ Prefixed(x, t).next = t.next
                                   /\ Prefixed(x, t).token = Prefix(x, t.token)
      BY DEF Prefixed, Prefix, Tokens
    <3>6. /\ p \in 2 .. Len(src) + 2 /\ ~AtEnd(p)
          /\ \A i \in 1 .. Len(Printing(c)) : src[p + (i - 1)] = Printing(c)[i]
          /\ Len(Printing(c)) \in {1, 2} /\ p + (Len(Printing(c)) - 1) <= Len(src)
      <4>1. Len(Printing(c)) \in {1, 2}
        BY PrintingIs
      <4>2. /\ at[k] + Len(Printing(c)) <= Len(inside)
            /\ \A i \in 1 .. Len(Printing(c)) : inside[at[k] + i] = Printing(c)[i]
        BY <3>2 DEF Stands
      <4>3. \A i \in 1 .. Len(Printing(c)) : at[k] + i \in 1 .. Len(inside) /\ b + (at[k] + i) = p + (i - 1)
        <5> DEFINE x == at[k]
                   m == Len(Printing(c))
                   y == Len(inside)
        <5>1. x \in Nat /\ y \in Nat /\ m \in {1, 2} /\ x + m <= y /\ p = b + x + 1 /\ b \in Nat
          BY <1>2, <3>2, <4>1, <4>2
        <5> HIDE DEF x, m, y, p, b
        <5>2. \A i \in 1 .. m : x + i \in 1 .. y /\ b + (x + i) = p + (i - 1)
          BY <5>1
        <5> QED BY <5>2 DEF x, m, y
      <4>4. \A i \in 1 .. Len(Printing(c)) : src[p + (i - 1)] = Printing(c)[i]
        BY <1>5, <4>2, <4>3
      <4>5. p \in 2 .. Len(src) + 2 /\ ~AtEnd(p) /\ p + (Len(Printing(c)) - 1) <= Len(src)
        <5> DEFINE m == Len(Printing(c))
        <5>1. m \in {1, 2} /\ at[k] + m <= Len(inside) /\ at[k] \in Nat
          BY <3>2, <4>1, <4>2
        <5> HIDE DEF m
        <5>2. p + (m - 1) <= Len(src) /\ p \in 2 .. Len(src) /\ Len(src) \in Nat
          <6> DEFINE x == at[k]
                     y == Len(inside)
                     z == Len(src)
          <6>1. x \in Nat /\ y \in Nat /\ z \in Nat /\ x + m <= y /\ a + y + 2 <= z /\ m \in {1, 2} /\ a \in Nat
            BY <1>2, <1>5, <5>1
          <6>2. p = a + 1 + x + 1
            OBVIOUS
          <6> HIDE DEF x, y, z, p
          <6>3. p + (m - 1) <= z /\ p \in 2 .. z
            BY <6>1, <6>2
          <6> QED BY <6>1, <6>3 DEF z
        <5> QED BY <5>2 DEF m, AtEnd
      <4> QED BY <4>1, <4>4, <4>5
    <3>7. Quoting[p] = QuoteStep(p, Quoting)
      BY <3>6, QuotingIs
    <3>8. ASSUME Len(Printing(c)) = 2 PROVE Result(Quoting[p], k)
      <4>a. Printing(c) # <<c>>
        BY <3>8
      <4>1. \E x : Printing(c) = <<"\\", x>> /\ Escaped(x) = c
        BY <4>a, PrintingIs
      <4>2. PICK x : Printing(c) = <<"\\", x>> /\ Escaped(x) = c
        BY <4>1
      <4>3. src[p] = "\\" /\ src[p + 1] = x /\ ~AtEnd(p + 1) /\ b + at[k + 1] + 1 = p + 2
        <5>1. 1 \in 1 .. Len(Printing(c)) /\ 2 \in 1 .. Len(Printing(c)) /\ p + (1 - 1) = p /\ p + (2 - 1) = p + 1
          BY <3>6, <3>8
        <5>2. src[p] = Printing(c)[1] /\ src[p + 1] = Printing(c)[2]
          BY <3>6, <5>1
        <5> QED BY <3>2, <3>6, <3>8, <4>2, <5>2, SMTT(30) DEF AtEnd
      <4>4. Quoting[p] = Prefixed(c, r)
        BY <3>6, <3>7, <4>2, <4>3, Characters DEF QuoteStep, r
      <4> QED BY <3>3, <3>4, <3>5, <3>r, <4>4
    <3>9. ASSUME Len(Printing(c)) = 1 PROVE Result(Quoting[p], k)
      <4>a. Printing(c) # <<"\\", c>> /\ Printing(c) # <<"\\", "n">>
        BY <3>9, SMTT(30)
      <4>1. c \notin {Quote, "\\"} /\ Printing(c) = <<c>>
        BY <4>a, PrintingIs
      <4>2. src[p] = c /\ b + at[k + 1] + 1 = p + 1
        <5>1. 1 \in 1 .. Len(Printing(c)) /\ p + (1 - 1) = p
          BY <3>6, <3>9
        <5>2. src[p] = Printing(c)[1]
          BY <3>6, <5>1
        <5> QED BY <3>2, <3>9, <4>1, <5>2
      <4>3. Quoting[p] = Prefixed(c, r)
        BY <3>6, <3>7, <4>1, <4>2 DEF QuoteStep, r
      <4> QED BY <3>3, <3>4, <3>5, <3>r, <4>3
    <3>10. Result(Quoting[p], k)
      BY <3>6, <3>8, <3>9
    <3> QED BY <3>10
  <2> QED BY <2>1, <2>2
<1>8. 0 \in T
  <2> HIDE DEF T, n
  <2>1. 0 .. n \subseteq T
    BY <1>1, <1>7, DownTo
  <2> QED BY <1>1, <2>1
<1>9. Quoting[b + 1].ok /\ Quoting[b + 1].next = end /\ Quoting[b + 1].token = token
  <2>1. SubSeq(token, 0 + 1, n) = token
    BY <1>1
  <2>2. b + at[0] + 1 = b + 1
    BY <1>4
  <2> QED BY <1>8, <2>1, <2>2
<1>10. Quoted(a + 1) = Quoting[b + 1]
  BY DEF Quoted
<1> QED BY <1>2, <1>5, <1>9, <1>10, SMTT(30) DEF end

LEMMA SkipsNothing ==
  ASSUME Len(src) \in Nat, NEW p \in 1 .. Len(src) + 1,
         AtEnd(p) \/ src[p] \in {Quote, LBrace, RBrace}
  PROVE  SkipSpace(p) = p
<1>1. SkipSpace(p) = SkipStep(p, Skipping)
  BY SkippingIs
<1>2. ~AtEnd(p) => src[p] \notin Blanks /\ ~Comment(p)
  BY Characters DEF Blanks, Comment
<1> QED BY <1>1, <1>2 DEF SkipStep

\* The layout between two tokens is skipped.
LEMMA SkipsSpaces ==
  ASSUME Len(src) \in Nat, NEW space \in Spaces, NEW a \in Nat, Stands(src, a, space)
  PROVE  /\ Len(space) \in Nat /\ a + Len(space) <= Len(src)
         /\ SkipSpace(a + 1) = SkipSpace(a + Len(space) + 1)
<1>1. Len(space) \in Nat /\ a + Len(space) <= Len(src) /\ \A i \in 1 .. Len(space) : src[a + i] = space[i]
  BY DEF Stands, Spaces
<1>2. ASSUME NEW p \in 1 .. Len(src), src[p] \in Blanks PROVE SkipSpace(p) = SkipSpace(p + 1)
  <2>1. p \in 1 .. Len(src) + 1 /\ ~AtEnd(p)
    BY DEF AtEnd
  <2> QED BY <1>2, <2>1, SkippingIs DEF SkipStep, SkipSpace
<1>3. CASE space = <<>>
  <2>1. Len(space) = 0 /\ a + Len(space) + 1 = a + 1
    BY <1>3
  <2> QED BY <1>1, <2>1
<1>4. CASE space = <<Space>>
  <2>1. Len(space) = 1 /\ space[1] = Space
    BY <1>4
  <2>2. a + 1 \in 1 .. Len(src) /\ src[a + 1] \in Blanks
    BY <1>1, <2>1 DEF Blanks
  <2> QED BY <1>1, <1>2, <2>1, <2>2
<1>5. CASE space = <<"\n", "/", "/", Quote, "\n">>
  <2>1. /\ Len(space) = 5 /\ space[1] = "\n" /\ space[2] = "/" /\ space[3] = "/" /\ space[4] = Quote
        /\ space[5] = "\n"
    BY <1>5
  <2>2. /\ a + 5 <= Len(src) /\ src[a + 1] = "\n" /\ src[a + 2] = "/" /\ src[a + 3] = "/"
        /\ src[a + 4] = Quote /\ src[a + 5] = "\n"
    BY <1>1, <2>1
  <2>3. SkipSpace(a + 1) = SkipSpace(a + 2)
    BY <1>2, <2>2 DEF Blanks
  <2>4. SkipSpace(a + 5) = SkipSpace(a + 6)
    BY <1>2, <2>2 DEF Blanks
  <2>5. NextOf({"\n"}, a + 2) = a + 5
    <3> DEFINE e == NextOf({"\n"}, a + 2)
    <3>1. a + 2 \in 1 .. Len(src) + 1
      BY <2>2
    <3>2. e \in a + 2 .. Len(src) + 1 /\ (\A j \in a + 2 .. e - 1 : src[j] # "\n") /\ (~AtEnd(e) => src[e] = "\n")
      BY <3>1, NextOfIs
    <3> HIDE DEF e
    <3>3. ~(a + 5 < e)
      <4>1. a + 5 < e => a + 5 \in a + 2 .. e - 1
        BY <3>2
      <4> QED BY <2>2, <3>2, <4>1
    <3>4. e # a + 2 /\ e # a + 3 /\ e # a + 4
      <4>1. "/" # "\n" /\ Quote # "\n"
        BY Characters
      <4> QED BY <2>2, <3>2, <4>1 DEF AtEnd
    <3>5. e = a + 5
      BY <3>2, <3>3, <3>4
    <3> QED BY <3>5 DEF e
  <2>6. SkipSpace(a + 2) = SkipSpace(a + 5)
    <3>1. a + 2 \in 1 .. Len(src) + 1 /\ ~AtEnd(a + 2) /\ Comment(a + 2) /\ src[a + 2] \notin Blanks
      <4>1. (a + 2) + 1 = a + 3 /\ "/" \notin Blanks
        BY Characters DEF Blanks
      <4> QED BY <2>2, <4>1 DEF AtEnd, Comment
    <3> QED BY <2>5, <3>1, SkippingIs DEF SkipStep, SkipSpace
  <2> QED BY <1>1, <2>1, <2>3, <2>4, <2>6
<1> QED BY <1>3, <1>4, <1>5 DEF Spaces

----------------------------------------------------------------------------
LEMMA ChunkStands ==
  ASSUME NEW S, NEW whole \in Seq(S), NEW a \in Nat, NEW close \in Seq(S), NEW inside \in Seq(S), NEW e \in Nat,
         Stands(whole, a, Repeat(e, close) \o inside)
  PROVE  /\ Len(Repeat(e, close) \o inside) = e * Len(close) + Len(inside)
         /\ \A d \in 0 .. e - 1 : Stands(whole, a + d * Len(close), close)
         /\ Stands(whole, a + e * Len(close), inside)
<1> DEFINE row == Repeat(e, close)
<1>1. /\ row \in Seq(S) /\ Len(row) = e * Len(close)
      /\ \A d \in 0 .. e - 1 : Stands(row, d * Len(close), close)
  BY RepeatPlaces
<1> HIDE DEF row
<1>2. Stands(whole, a, row) /\ Stands(whole, a + Len(row), inside)
  BY <1>1, StandsBoth DEF row
<1>3. Len(row \o inside) = Len(row) + Len(inside)
  <2>1. row \in Seq(S) /\ inside \in Seq(S)
    BY <1>1
  <2> QED BY <2>1
<1>4. ASSUME NEW d \in 0 .. e - 1 PROVE Stands(whole, a + d * Len(close), close)
  <2> DEFINE b == d * Len(close)
  <2>1. b \in Nat
    <3>1. \A x, y \in Nat : x * y \in Nat
      OBVIOUS
    <3> QED BY <3>1
  <2>2. Stands(row, b, close)
    BY <1>1
  <2> HIDE DEF b
  <2>3. Stands(whole, a + b, close)
    BY <1>1, <1>2, <2>1, <2>2, StandsIn
  <2> QED BY <2>3 DEF b
<1> QED BY <1>1, <1>2, <1>3, <1>4 DEF row

LEMMA PartGrows ==
  ASSUME NEW S, NEW listing \in Seq(S), NEW m \in 0 .. Len(listing) - 1
  PROVE  Append(SubSeq(listing, 1, m), listing[m + 1]) = SubSeq(listing, 1, m + 1)
<1> DEFINE x == listing[m + 1]
           t == SubSeq(listing, 1, m)
           u == SubSeq(listing, 1, m + 1)
<1>1. m \in Nat /\ m + 1 \in 1 .. Len(listing) /\ x \in S /\ m + 1 \in Nat
  OBVIOUS
<1>2. /\ t \in Seq(S) /\ Len(t) = m /\ \A i \in 1 .. m : t[i] = listing[i]
  BY <1>1
<1>3. /\ u \in Seq(S) /\ Len(u) = m + 1 /\ \A i \in 1 .. m + 1 : u[i] = listing[i]
  BY <1>1
<1> HIDE DEF t, u, x
<1>4. /\ Append(t, x) \in Seq(S) /\ Len(Append(t, x)) = m + 1 /\ Append(t, x)[m + 1] = x
      /\ \A i \in 1 .. m : Append(t, x)[i] = t[i]
  BY <1>1, <1>2
<1>5. ASSUME NEW i \in 1 .. m + 1 PROVE Append(t, x)[i] = u[i]
  <2>1. i \in 1 .. m \/ i = m + 1
    BY <1>1
  <2> QED BY <1>2, <1>3, <1>4, <2>1 DEF x
<1>6. Append(t, x) = u
  BY <1>3, <1>4, <1>5
<1> QED BY <1>6 DEF t, u, x

----------------------------------------------------------------------------
(***************************************************************************)
(* A text is read back.                                                    *)
(***************************************************************************)
\* How many blocks are open when the k-th node has not come yet.
Was(listing, k) ==
  IF k = 1 THEN 0 ELSE listing[k - 1].depth + (IF IsBlock(listing[k - 1]) THEN 1 ELSE 0)

\* The nodes read are the first of the listing, and d blocks ended since.
Begun(listing, d) ==
  /\ Len(nodes) \in 0 .. Len(listing) /\ nodes = SubSeq(listing, 1, Len(nodes))
  /\ d \in 0 .. Ended(listing, Len(nodes) + 1) /\ depth = Was(listing, Len(nodes) + 1) - d

\* The next character is at x, or only layout is before it.
Near(p, x, space) == p = x \/ (p \in Nat \ {0} /\ p + Len(space) = x /\ Stands(src, p - 1, space))

TextRow(listing, space) == [k \in 1 .. Len(listing) + 1 |-> TextChunk(listing, space, k)]

TextBack(listing, space, at, d) ==
  /\ format = "text" /\ meant = {listing} /\ src = TextOf(listing, space)
  /\ Places(at, Len(listing) + 1, TextRow(listing, space), src)
  /\ parsed # "error"
  /\ parsed = "ok" => nodes = listing
  /\ parsed = "reading" => /\ Begun(listing, d)
                           /\ Near(pos, at[Len(nodes)] + d * (Len(space) + 1) + 1, space)

LEMMA BegunIs ==
  ASSUME NEW S, NEW listing \in Seq(S), WellNested(listing), \A k \in 1 .. Len(listing) : listing[k].depth \in Nat,
         NEW d, Begun(listing, d)
  PROVE  /\ Len(listing) \in Nat /\ Len(nodes) \in Nat /\ Len(nodes) <= Len(listing)
         /\ Ended(listing, Len(nodes) + 1) \in Nat /\ d \in Nat /\ d <= Ended(listing, Len(nodes) + 1)
         /\ depth \in Nat /\ (d < Ended(listing, Len(nodes) + 1) => depth > 0)
         /\ d = Ended(listing, Len(nodes) + 1) =>
              depth = IF Len(nodes) = Len(listing) THEN 0 ELSE listing[Len(nodes) + 1].depth
<1> DEFINE m == Len(nodes)
           e == Ended(listing, m + 1)
           w == Was(listing, m + 1)
<1>1. Len(listing) \in Nat /\ m \in 0 .. Len(listing) /\ d \in 0 .. e /\ depth = w - d
  BY DEF Begun
<1>2. m \in Nat /\ m + 1 \in 1 .. Len(listing) + 1 /\ m <= Len(listing)
  BY <1>1
<1>3. e \in Nat
  BY <1>1, <1>2, EndedIs
<1>4. e = w - (IF m + 1 > Len(listing) THEN 0 ELSE listing[m + 1].depth)
  BY DEF Ended, Was
<1>5. w \in Int
  <2>1. CASE m + 1 = 1
    BY <2>1 DEF Was
  <2>2. CASE m + 1 # 1
    <3>1. (m + 1) - 1 \in 1 .. Len(listing)
      BY <1>1, <2>2
    <3> QED BY <2>2, <3>1 DEF Was
  <2> QED BY <2>1, <2>2
<1>6. (IF m + 1 > Len(listing) THEN 0 ELSE listing[m + 1].depth) \in Nat
  BY <1>1, <1>2
<1> HIDE DEF e, w
<1>7. w - e \in Nat /\ (m = Len(listing) => w - e = 0) /\ (m # Len(listing) => w - e = listing[m + 1].depth)
  <2>1. m = Len(listing) <=> m + 1 > Len(listing)
    BY <1>1, <1>2
  <2> HIDE DEF m
  <2> QED BY <1>3, <1>4, <1>5, <1>6, <2>1
<1>8. depth \in Nat /\ (d < e => depth > 0) /\ (d = e => depth = w - e)
  BY <1>1, <1>3, <1>5, <1>7
<1> HIDE DEF m
<1>9. d \in Nat /\ d <= e
  BY <1>1, <1>3
<1> QED BY <1>1, <1>2, <1>3, <1>7, <1>8, <1>9 DEF m, e

LEMMA TextStands ==
  ASSUME NEW listing \in TextListings, NEW space \in Spaces, NEW at, NEW d,
         TextBack(listing, space, at, d), Begun(listing, d)
  PROVE  LET m == Len(nodes)
             e == Ended(listing, m + 1)
             w == Len(space) + 1
             inside == TextBody(listing, space, m + 1)
         IN  /\ Len(src) \in Nat /\ at[m] \in Nat /\ at[m + 1] \in Nat /\ Len(space) \in Nat
             /\ at[m] + d * w \in Nat /\ at[m] + (d + 1) * w = at[m] + d * w + w
             /\ d < e => Stands(src, at[m] + d * w, space \o <<RBrace>>)
             /\ d = e => /\ Stands(src, at[m] + d * w, inside)
                         /\ at[m + 1] = at[m] + d * w + Len(inside)
             /\ m = Len(listing) => inside = <<>> /\ at[m + 1] = Len(src)
<1> DEFINE n == Len(listing)
           m == Len(nodes)
           e == Ended(listing, m + 1)
           close == space \o <<RBrace>>
           w == Len(space) + 1
           inside == TextBody(listing, space, m + 1)
<1>1. /\ listing \in Seq(TextNodes) /\ WellNested(listing) /\ \A k \in 1 .. n : listing[k].depth \in Nat
  <2>1. listing \in Seq(TextNodes) /\ WellNested(listing)
    BY ListingsAre
  <2>2. \A k \in 1 .. n : listing[k] \in TextNodes
    BY <2>1
  <2> QED BY <2>1, <2>2 DEF TextNodes
<1>2. n \in Nat /\ m \in Nat /\ m <= n /\ e \in Nat /\ d \in Nat /\ d <= e
  BY <1>1, BegunIs
<1>3. src \in Seq(Printed) /\ inside \in Seq(Printed) /\ Len(src) \in Nat
  <2>1. m + 1 \in 1 .. Len(listing) + 1
    BY <1>2
  <2>2. src \in Seq(Printed)
    BY TextOfIs DEF TextBack
  <2>3. Len(src) \in Nat
    BY <2>2
  <2>4. \A k \in 1 .. Len(listing) + 1 : TextBody(listing, space, k) \in Seq(Printed)
    BY TextOfIs
  <2> QED BY <2>1, <2>2, <2>3, <2>4
<1>4. close \in Seq(Printed) /\ Len(close) = w /\ Len(space) \in Nat
  <2>1. space \in Seq(Printed) /\ <<RBrace>> \in Seq(Printed) /\ Len(<<RBrace>>) = 1
    BY SpacesAre DEF Printed
  <2> QED BY <2>1
<1>5. /\ \A k \in 0 .. n + 1 : at[k] \in Nat
      /\ at[n + 1] = Len(src)
      /\ \A k \in 1 .. n + 1 : /\ at[k] = at[k - 1] + Len(TextChunk(listing, space, k))
                               /\ Stands(src, at[k - 1], TextChunk(listing, space, k))
  BY DEF TextBack, Places, TextRow
<1>6. /\ at[m] \in Nat /\ at[m + 1] \in Nat /\ at[m + 1] = at[m] + Len(Repeat(e, close) \o inside)
      /\ Stands(src, at[m], Repeat(e, close) \o inside)
  <2>1. m \in 0 .. n + 1 /\ m + 1 \in 1 .. n + 1 /\ m + 1 \in 0 .. n + 1 /\ (m + 1) - 1 = m
    BY <1>2
  <2>2. TextChunk(listing, space, m + 1) = Repeat(e, close) \o inside
    BY DEF TextChunk
  <2> HIDE DEF close, inside, e, n
  <2> QED BY <1>5, <2>1, <2>2
<1>7. m = n => inside = <<>> /\ at[m + 1] = Len(src)
  <2>1. m = n => m + 1 > Len(listing)
    BY <1>2
  <2> QED BY <1>5, <2>1 DEF TextBody
<1> HIDE DEF close, inside, e, n, m, w
<1>8. /\ Len(Repeat(e, close) \o inside) = e * w + Len(inside)
      /\ \A j \in 0 .. e - 1 : Stands(src, at[m] + j * w, close)
      /\ Stands(src, at[m] + e * w, inside)
  <2> DEFINE a == at[m]
  <2>1. a \in Nat /\ Stands(src, a, Repeat(e, close) \o inside)
    BY <1>6
  <2> HIDE DEF a
  <2>2. /\ Len(Repeat(e, close) \o inside) = e * Len(close) + Len(inside)
        /\ \A j \in 0 .. e - 1 : Stands(src, a + j * Len(close), close)
        /\ Stands(src, a + e * Len(close), inside)
    BY <1>2, <1>3, <1>4, <2>1, ChunkStands
  <2> QED BY <1>4, <2>2 DEF a
<1>9. w \in Nat
  BY <1>4 DEF w
<1>10. at[m] + d * w \in Nat /\ at[m] + (d + 1) * w = at[m] + d * w + w
  <2>1. \A x, y, z \in Nat : x + y * z \in Nat /\ x + (y + 1) * z = x + y * z + z
    OBVIOUS
  <2> QED BY <1>2, <1>6, <1>9, <2>1
<1>11. d < e => Stands(src, at[m] + d * w, close)
  <2>1. d < e => d \in 0 .. e - 1
    BY <1>2
  <2> QED BY <1>8, <2>1
<1>12. d = e => /\ Stands(src, at[m] + d * w, inside)
                /\ at[m + 1] = at[m] + d * w + Len(inside)
  <2>1. Len(inside) \in Nat /\ e * w \in Nat
    <3>1. \A x, y \in Nat : x * y \in Nat
      OBVIOUS
    <3> QED BY <1>2, <1>3, <1>9, <3>1
  <2>2. at[m] + (e * w + Len(inside)) = (at[m] + e * w) + Len(inside)
    BY <1>6, <2>1
  <2> QED BY <1>6, <1>8, <2>2
<1> QED BY <1>3, <1>4, <1>6, <1>7, <1>10, <1>11, <1>12 DEF close, inside, e, n, m, w

\* However little of the layout is left.
LEMMA NearIs ==
  ASSUME Len(src) \in Nat, NEW space \in Spaces, NEW x \in Nat, Near(pos, x + 1, space)
  PROVE  SkipSpace(pos) = SkipSpace(x + 1)
<1>1. CASE pos = x + 1
  BY <1>1
<1>2. CASE pos \in Nat \ {0} /\ pos + Len(space) = x + 1 /\ Stands(src, pos - 1, space)
  <2> DEFINE a == pos - 1
  <2>1. a \in Nat /\ a + 1 = pos /\ Stands(src, a, space)
    BY <1>2
  <2> HIDE DEF a
  <2>2. Len(space) \in Nat /\ SkipSpace(a + 1) = SkipSpace(a + Len(space) + 1)
    BY <2>1, SkipsSpaces
  <2>3. a + Len(space) + 1 = x + 1
    BY <1>2, <2>1, <2>2
  <2> QED BY <2>1, <2>2, <2>3
<1> QED BY <1>1, <1>2 DEF Near

\* Layout, and then a character that is not.
LEMMA SkipsTo ==
  ASSUME Len(src) \in Nat, NEW space \in Spaces, NEW a \in Nat, NEW c \in {Quote, LBrace, RBrace},
         Stands(src, a, space), a + Len(space) + 1 <= Len(src), src[a + Len(space) + 1] = c
  PROVE  SkipSpace(a + 1) = a + Len(space) + 1
<1> DEFINE p == a + Len(space) + 1
<1>1. Len(space) \in Nat /\ SkipSpace(a + 1) = SkipSpace(p)
  BY SkipsSpaces
<1>2. p \in 1 .. Len(src) + 1 /\ src[p] \in {Quote, LBrace, RBrace}
  BY <1>1
<1> HIDE DEF p
<1>3. SkipSpace(p) = p
  BY <1>2, SkipsNothing
<1> QED BY <1>1, <1>3 DEF p

LEMMA TextCloses ==
  ASSUME NEW listing \in TextListings, NEW space \in Spaces, NEW at, NEW d,
         TextBack(listing, space, at, d), parsed = "reading", d < Ended(listing, Len(nodes) + 1)
  PROVE  /\ Here + 1 = at[Len(nodes)] + (d + 1) * (Len(space) + 1) + 1 /\ ~AtEnd(Here) /\ src[Here] = RBrace
<1> DEFINE x == at[Len(nodes)] + d * (Len(space) + 1)
<1>1. Begun(listing, d) /\ Near(pos, x + 1, space)
  BY DEF TextBack
<1>2. /\ Len(src) \in Nat /\ Len(space) \in Nat /\ x \in Nat
      /\ at[Len(nodes)] + (d + 1) * (Len(space) + 1) = x + (Len(space) + 1)
      /\ Stands(src, x, space \o <<RBrace>>)
  BY <1>1, TextStands
<1> HIDE DEF x
<1>3. Here = SkipSpace(x + 1)
  BY <1>1, <1>2, NearIs DEF Here
<1>4. Stands(src, x, space) /\ Stands(src, x + Len(space), <<RBrace>>)
  <2>a. src \in Seq(Printed)
    BY TextOfIs DEF TextBack
  <2>b. space \in Seq(Printed)
    BY SpacesAre
  <2>c. <<RBrace>> \in Seq(Printed)
    BY DEF Printed
  <2>1. src \in Seq(Printed) /\ space \in Seq(Printed) /\ <<RBrace>> \in Seq(Printed)
    BY <2>a, <2>b, <2>c
  <2> QED BY <1>2, <2>1, StandsBoth
<1>5. x + Len(space) + 1 <= Len(src) /\ src[x + Len(space) + 1] = RBrace
  <2>1. Len(<<RBrace>>) = 1 /\ 1 \in 1 .. Len(<<RBrace>>) /\ <<RBrace>>[1] = RBrace
    OBVIOUS
  <2> QED BY <1>4, <2>1 DEF Stands
<1>6. SkipSpace(x + 1) = x + Len(space) + 1
  BY <1>2, <1>4, <1>5, SkipsTo
<1>7. ~AtEnd(x + Len(space) + 1)
  BY <1>2, <1>5 DEF AtEnd
<1>8. x + Len(space) + 1 + 1 = x + (Len(space) + 1) + 1
  BY <1>2
<1> QED BY <1>2, <1>3, <1>5, <1>6, <1>7, <1>8

LEMMA TextStops ==
  ASSUME NEW listing \in TextListings, NEW space \in Spaces, NEW at, NEW d,
         TextBack(listing, space, at, d), parsed = "reading", d = Ended(listing, Len(nodes) + 1),
         Len(nodes) = Len(listing)
  PROVE  AtEnd(Here)
<1> DEFINE x == at[Len(nodes)] + d * (Len(space) + 1)
<1>1. Begun(listing, d) /\ Near(pos, x + 1, space)
  BY DEF TextBack
<1>2. /\ Len(src) \in Nat /\ x \in Nat /\ x = Len(src)
  <2>1. /\ Len(src) \in Nat /\ x \in Nat
        /\ Len(src) = x + Len(TextBody(listing, space, Len(nodes) + 1))
        /\ TextBody(listing, space, Len(nodes) + 1) = <<>>
    BY <1>1, TextStands
  <2>2. Len(TextBody(listing, space, Len(nodes) + 1)) = 0
    BY <2>1
  <2> QED BY <2>1, <2>2
<1> HIDE DEF x
<1>3. Here = SkipSpace(x + 1)
  BY <1>1, <1>2, NearIs DEF Here
<1>4. AtEnd(x + 1) /\ x + 1 \in 1 .. Len(src) + 1
  BY <1>2 DEF AtEnd
<1>5. SkipSpace(x + 1) = x + 1
  BY <1>2, <1>4, SkipsNothing
<1> QED BY <1>3, <1>4, <1>5

LEMMA StandsFour ==
  ASSUME NEW S, NEW whole \in Seq(S), NEW p \in Seq(S), NEW q \in Seq(S), NEW r \in Seq(S), NEW s \in Seq(S),
         NEW a \in Nat, Stands(whole, a, p \o q \o r \o s)
  PROVE  /\ Len(p) \in Nat /\ Len(q) \in Nat /\ Len(r) \in Nat /\ Len(s) \in Nat
         /\ Len(p \o q \o r \o s) = Len(p) + Len(q) + Len(r) + Len(s)
         /\ Stands(whole, a, p) /\ Stands(whole, a + Len(p), q)
         /\ Stands(whole, a + Len(p) + Len(q), r) /\ Stands(whole, a + Len(p) + Len(q) + Len(r), s)
<1>1. Len(p) \in Nat /\ Len(q) \in Nat /\ Len(r) \in Nat /\ Len(s) \in Nat
  OBVIOUS
<1>2. p \o q \in Seq(S) /\ Len(p \o q) = Len(p) + Len(q)
  OBVIOUS
<1> DEFINE pq == p \o q
           pqr == pq \o r
<1>3. pqr \in Seq(S) /\ Len(pqr) = Len(pq) + Len(r)
  BY <1>2
<1> HIDE DEF pqr
<1>4. Len(pqr \o s) = Len(pqr) + Len(s)
  <2>1. pqr \in Seq(S) /\ s \in Seq(S)
    BY <1>3
  <2> QED BY <2>1
<1>5. Stands(whole, a, pqr) /\ Stands(whole, a + Len(pqr), s)
  BY <1>3, StandsBoth DEF pqr
<1> HIDE DEF pq
<1>6. Stands(whole, a, pq) /\ Stands(whole, a + Len(pq), r)
  BY <1>2, <1>5, StandsBoth DEF pqr, pq
<1>7. Stands(whole, a, p) /\ Stands(whole, a + Len(p), q)
  BY <1>6, StandsBoth DEF pq
<1>8. Len(pq) = Len(p) + Len(q) /\ Len(pqr) = Len(p) + Len(q) + Len(r)
  BY <1>2, <1>3 DEF pq
<1>9. a + Len(pq) = a + Len(p) + Len(q) /\ a + Len(pqr) = a + Len(p) + Len(q) + Len(r)
  BY <1>1, <1>8
<1> QED BY <1>1, <1>4, <1>5, <1>6, <1>7, <1>8, <1>9 DEF pq, pqr

\* A string in quotes, after layout.
LEMMA TokenIs ==
  ASSUME Len(src) \in Nat, NEW token \in Seq(STRING), NEW x \in Nat, Stands(src, x, InQuotes(token)),
         NEW p, SkipSpace(p) = x + 1
  PROVE  /\ Token(p).ok /\ Token(p).token = token /\ Token(p).next = x + Len(InQuotes(token)) + 1
         /\ src[x + 1] = Quote /\ x + 1 <= Len(src) /\ Len(InQuotes(token)) \in Nat
<1>1. /\ Len(InQuotes(token)) \in Nat \ {0} /\ src[x + 1] = Quote /\ x + Len(InQuotes(token)) <= Len(src)
      /\ Quoted(x + 1).ok /\ Quoted(x + 1).next = x + Len(InQuotes(token)) + 1
      /\ Quoted(x + 1).token = token
  BY ReadsQuoted
<1>2. ~AtEnd(x + 1) /\ x + 1 <= Len(src)
  BY <1>1 DEF AtEnd
<1>3. Token(p) = Quoted(x + 1)
  BY <1>1, <1>2, Characters DEF Token, TokenAt
<1> QED BY <1>1, <1>2, <1>3

LEMMA TextOpens ==
  ASSUME NEW listing \in TextListings, NEW space \in Spaces, NEW at, NEW d,
         TextBack(listing, space, at, d), parsed = "reading", d = Ended(listing, Len(nodes) + 1),
         Len(nodes) # Len(listing)
  PROVE  LET node == listing[Len(nodes) + 1]
         IN  /\ ~AtEnd(Here) /\ src[Here] = Quote
             /\ Key.ok /\ Key.token = node.key /\ ~AtEnd(After)
             /\ Opens <=> IsBlock(node)
             /\ IsBlock(node) => Near(After + 1, at[Len(nodes) + 1] + 1, space)
             /\ ~IsBlock(node) => /\ Value.ok /\ Value.token = node.value.text
                                  /\ Near(Value.next, at[Len(nodes) + 1] + 1, space)
<1> DEFINE m == Len(nodes)
           node == listing[m + 1]
           x == at[m] + d * (Len(space) + 1)
           q == InQuotes(node.key)
           inside == TextBody(listing, space, m + 1)
           y == x + Len(q)
           z == y + Len(space)
<1>1. Begun(listing, d) /\ Near(pos, x + 1, space)
  BY DEF TextBack
<1>2. /\ Len(src) \in Nat /\ Len(space) \in Nat /\ x \in Nat
      /\ Stands(src, x, inside) /\ at[m + 1] = x + Len(inside)
  BY <1>1, TextStands
<1>3. /\ node \in TextNodes /\ m + 1 <= Len(listing) /\ m \in Nat
  <2>1. listing \in Seq(TextNodes)
    BY ListingsAre
  <2>2. m + 1 \in 1 .. Len(listing)
    BY <1>1, <2>1 DEF Begun
  <2>3. node \in TextNodes
    BY <2>1, <2>2
  <2> QED BY <1>1, <2>1, <2>2, <2>3 DEF Begun
<1>4. node.key \in Seq(STRING) /\ (~IsBlock(node) => node.value.text \in Seq(STRING))
  BY <1>3 DEF TextNodes, IsBlock
<1>5. inside = IF IsBlock(node) THEN q \o space \o <<LBrace>> \o space
             ELSE q \o space \o InQuotes(node.value.text) \o space
  BY <1>3 DEF TextBody
<1>6. q \in Seq(Printed) /\ (~IsBlock(node) => InQuotes(node.value.text) \in Seq(Printed))
  <2> HIDE DEF node
  <2> QED BY <1>4, PrintedIs
<1>7. src \in Seq(Printed) /\ space \in Seq(Printed) /\ <<LBrace>> \in Seq(Printed)
  <2>a. src \in Seq(Printed)
    BY TextOfIs DEF TextBack
  <2>b. space \in Seq(Printed)
    BY SpacesAre
  <2>c. <<LBrace>> \in Seq(Printed)
    BY DEF Printed
  <2> QED BY <2>a, <2>b, <2>c
<1> HIDE DEF x, q, inside, node, m
<1> DEFINE r == IF IsBlock(node) THEN <<LBrace>> ELSE InQuotes(node.value.text)
<1>8. r \in Seq(Printed) /\ inside = q \o space \o r \o space
  BY <1>5, <1>6, <1>7
<1> HIDE DEF r
<1>9. /\ Len(q) \in Nat /\ Len(r) \in Nat
      /\ Len(inside) = Len(q) + Len(space) + Len(r) + Len(space)
      /\ Stands(src, x, q) /\ Stands(src, y, space) /\ Stands(src, z, r) /\ Stands(src, z + Len(r), space)
  BY <1>2, <1>6, <1>7, <1>8, StandsFour
<1>10. y \in Nat /\ z \in Nat
  BY <1>2, <1>9
<1>11. at[m + 1] = z + Len(r) + Len(space)
  BY <1>2, <1>9
<1> HIDE DEF y, z
<1>12. SkipSpace(pos) = SkipSpace(x + 1)
  BY <1>1, <1>2, NearIs
<1>13. x + 1 <= Len(src) /\ src[x + 1] = Quote
  BY <1>2, <1>4, <1>9, ReadsQuoted DEF q
<1>14. SkipSpace(x + 1) = x + 1
  <2>1. x + 1 \in 1 .. Len(src) + 1
    BY <1>2, <1>13
  <2> QED BY <1>2, <1>13, <2>1, SkipsNothing
<1>15. /\ Key.ok /\ Key.token = node.key /\ Key.next = y + 1
  BY <1>2, <1>4, <1>9, <1>12, <1>14, TokenIs DEF Key, q, y
<1>16. z + 1 <= Len(src) /\ src[z + 1] = (IF IsBlock(node) THEN LBrace ELSE Quote)
  <2>1. CASE IsBlock(node)
    <3>1. Len(r) = 1 /\ 1 \in 1 .. Len(r) /\ r[1] = LBrace
      BY <2>1 DEF r
    <3> QED BY <1>9, <1>10, <2>1, <3>1 DEF Stands
  <2>2. CASE ~IsBlock(node)
    <3>1. r = InQuotes(node.value.text)
      BY <2>2 DEF r
    <3>2. /\ Len(r) \in Nat \ {0} /\ src[z + 1] = Quote /\ z + Len(r) <= Len(src)
      BY <1>2, <1>4, <1>9, <1>10, <2>2, <3>1, ReadsQuoted
    <3> QED BY <1>2, <1>10, <2>2, <3>2
  <2> QED BY <2>1, <2>2
<1>17. SkipSpace(y + 1) = z + 1
  <2>1. y + Len(space) + 1 <= Len(src) /\ src[y + Len(space) + 1] \in {Quote, LBrace, RBrace}
    BY <1>16 DEF z
  <2> QED BY <1>2, <1>9, <1>10, <2>1, SkipsTo DEF z
<1>18. After = z + 1 /\ ~AtEnd(After) /\ (Opens <=> IsBlock(node))
  <2>1. LBrace # Quote
    BY Characters
  <2> QED BY <1>2, <1>10, <1>15, <1>16, <1>17, <2>1 DEF After, AtEnd, Opens
<1>19. IsBlock(node) => Near(After + 1, at[m + 1] + 1, space)
  <2> SUFFICES ASSUME IsBlock(node) PROVE Near(After + 1, at[m + 1] + 1, space)
    OBVIOUS
  <2>1. Len(r) = 1
    BY DEF r
  <2> DEFINE p == After + 1
  <2>2. p = z + 2
    BY <1>10, <1>18
  <2> HIDE DEF p
  <2>3. p \in Nat \ {0} /\ p - 1 = z + Len(r) /\ p + Len(space) = at[m + 1] + 1
    BY <1>2, <1>10, <1>11, <2>1, <2>2
  <2>4. Near(p, at[m + 1] + 1, space)
    BY <1>9, <2>3 DEF Near
  <2> QED BY <2>4 DEF p
<1>20. ~IsBlock(node) => /\ Value.ok /\ Value.token = node.value.text
                         /\ Near(Value.next, at[m + 1] + 1, space)
  <2> SUFFICES ASSUME ~IsBlock(node) PROVE Value.ok /\ Value.token = node.value.text
                                           /\ Near(Value.next, at[m + 1] + 1, space)
    OBVIOUS
  <2>1. r = InQuotes(node.value.text)
    BY DEF r
  <2> DEFINE t == node.value.text
             p == Key.next
  <2>a. t \in Seq(STRING) /\ Stands(src, z, InQuotes(t)) /\ SkipSpace(p) = z + 1
    BY <1>4, <1>9, <1>15, <1>17, <2>1
  <2>b. Value = Token(p)
    BY DEF Value
  <2> HIDE DEF t, p
  <2>c. Token(p).ok /\ Token(p).token = t /\ Token(p).next = z + Len(InQuotes(t)) + 1
    BY <1>2, <1>10, <2>a, TokenIs
  <2>2. Value.ok /\ Value.token = node.value.text /\ Value.next = z + Len(r) + 1
    BY <2>1, <2>b, <2>c DEF t
  <2>3. /\ Value.next \in Nat \ {0} /\ Value.next - 1 = z + Len(r)
        /\ Value.next + Len(space) = at[m + 1] + 1
    BY <1>2, <1>9, <1>10, <1>11, <2>2, SMTT(30)
  <2> QED BY <1>9, <2>2, <2>3 DEF Near
<1>21. ~AtEnd(Here) /\ src[Here] = Quote
  BY <1>2, <1>12, <1>13, <1>14 DEF Here, AtEnd
<1> QED BY <1>15, <1>18, <1>19, <1>20, <1>21 DEF m, node

\* A turn that reads the listing's next node, and one that ends a block of it.
LEMMA BegunGrows ==
  ASSUME NEW S, NEW listing \in Seq(S), WellNested(listing), \A k \in 1 .. Len(listing) : listing[k].depth \in Nat,
         NEW d, Begun(listing, d), d = Ended(listing, Len(nodes) + 1), Len(nodes) # Len(listing),
         NEW next, Goes(listing[Len(nodes) + 1], IF IsBlock(listing[Len(nodes) + 1]) THEN 1 ELSE 0, next)
  PROVE  Begun(listing, 0)' /\ Len(nodes') = Len(nodes) + 1
<1> DEFINE m == Len(nodes)
           node == listing[m + 1]
           t == SubSeq(listing, 1, m + 1)
           open == IF IsBlock(node) THEN 1 ELSE 0
<1>1. /\ Len(listing) \in Nat /\ m \in Nat /\ m <= Len(listing) /\ depth = node.depth
  BY BegunIs
<1>2. m + 1 \in 1 .. Len(listing) /\ m \in 0 .. Len(listing) - 1 /\ m + 1 \in 0 .. Len(listing)
  BY <1>1
<1>3. nodes = SubSeq(listing, 1, m)
  BY DEF Begun
<1>4. nodes' = Append(nodes, node) /\ depth' = depth + open
  BY DEF Goes
<1>5. nodes' = t
  <2>1. Append(SubSeq(listing, 1, m), listing[m + 1]) = SubSeq(listing, 1, m + 1)
    BY <1>2, PartGrows
  <2> QED BY <1>3, <1>4, <2>1
<1>6. Len(t) = m + 1
  BY <1>2
<1>7. Ended(listing, (m + 1) + 1) \in Nat
  <2>1. (m + 1) + 1 \in 1 .. Len(listing) + 1
    BY <1>1, <1>2
  <2> HIDE DEF m
  <2> QED BY <1>1, <2>1, EndedIs
<1>8. Was(listing, (m + 1) + 1) = node.depth + open
  <2>1. (m + 1) + 1 # 1 /\ ((m + 1) + 1) - 1 = m + 1
    BY <1>1
  <2> QED BY <2>1 DEF Was
<1>9. depth' = Was(listing, (m + 1) + 1) - 0
  <2>1. node.depth \in Nat /\ open \in Nat
    BY <1>2
  <2> QED BY <1>1, <1>4, <1>8, <2>1
<1>10. 0 \in 0 .. Ended(listing, (m + 1) + 1)
  BY <1>7
<1>11. Len(nodes') = m + 1
  BY <1>5, <1>6
<1> HIDE DEF t, node, open, m
<1>12. Begun(listing, 0)' <=> /\ Len(nodes') \in 0 .. Len(listing) /\ nodes' = SubSeq(listing, 1, Len(nodes'))
                              /\ 0 \in 0 .. Ended(listing, Len(nodes') + 1)
                              /\ depth' = Was(listing, Len(nodes') + 1) - 0
  BY DEF Begun
<1> QED BY <1>2, <1>5, <1>9, <1>10, <1>11, <1>12 DEF t, m

LEMMA BegunCloses ==
  ASSUME NEW S, NEW listing \in Seq(S), WellNested(listing), \A k \in 1 .. Len(listing) : listing[k].depth \in Nat,
         NEW d, Begun(listing, d), d < Ended(listing, Len(nodes) + 1),
         NEW next, Closes(next)
  PROVE  Begun(listing, d + 1)' /\ nodes' = nodes
<1>1. nodes' = nodes /\ depth' = depth - 1
  BY DEF Closes
<1>2. /\ Len(nodes) \in 0 .. Len(listing) /\ nodes = SubSeq(listing, 1, Len(nodes))
      /\ d \in Nat /\ Ended(listing, Len(nodes) + 1) \in Nat /\ depth = Was(listing, Len(nodes) + 1) - d
      /\ depth \in Nat
  BY BegunIs DEF Begun
<1>3. d + 1 \in 0 .. Ended(listing, Len(nodes) + 1)
  BY <1>2
<1>4. depth - 1 = Was(listing, Len(nodes) + 1) - (d + 1)
  <2> DEFINE w == Was(listing, Len(nodes) + 1)
  <2>1. w \in Int
    <3>1. CASE Len(nodes) + 1 = 1
      BY <3>1 DEF Was
    <3>2. CASE Len(nodes) + 1 # 1
      <4>1. (Len(nodes) + 1) - 1 \in 1 .. Len(listing)
        BY <1>2, <3>2
      <4> QED BY <3>2, <4>1 DEF Was
    <3> QED BY <3>1, <3>2
  <2> HIDE DEF w
  <2>2. depth = w - d
    BY <1>2 DEF w
  <2>a. d \in Int
    BY <1>2
  <2>b. \A x, y \in Int : (x - y) - 1 = x - (y + 1)
    OBVIOUS
  <2>3. depth - 1 = w - (d + 1)
    BY <2>1, <2>2, <2>a, <2>b
  <2> QED BY <2>3 DEF w
<1>5. Begun(listing, d + 1)' <=> /\ Len(nodes') \in 0 .. Len(listing) /\ nodes' = SubSeq(listing, 1, Len(nodes'))
                                 /\ d + 1 \in 0 .. Ended(listing, Len(nodes') + 1)
                                 /\ depth' = Was(listing, Len(nodes') + 1) - (d + 1)
  BY DEF Begun
<1> QED BY <1>1, <1>2, <1>3, <1>4, <1>5

\* The nodes of a listing are read from it.
LEMMA NodeIs ==
  ASSUME NEW D, NEW K, NEW V, NEW node \in [depth : D, key : K, value : V], node.depth = depth
  PROVE  Node(node.key, node.value) = node
BY DEF Node

LEMMA TextBackStep ==
  ASSUME NEW listing \in TextListings, NEW space \in Spaces, NEW at, NEW d,
         TextBack(listing, space, at, d), VdfNext
  PROVE  \E e : TextBack(listing, space, at, e)'
<1> DEFINE m == Len(nodes)
           e == Ended(listing, m + 1)
           w == Len(space) + 1
           node == listing[m + 1]
<1>1. /\ format = "text" /\ parsed = "reading"
      /\ TextEnds \/ TextBlockEnds \/ TextBlock \/ TextLeaf \/ TextBad
  <2>1. format = "text"
    BY DEF TextBack
  <2> QED BY <2>1 DEF VdfNext, TextEnds, TextBlockEnds, TextBlock, TextLeaf, TextBad,
               BinaryEnds, BinaryBlockEnds, BinaryBlock, BinaryLeaf, BinaryBad, Reads
<1>2. /\ meant = {listing} /\ src = TextOf(listing, space)
      /\ Places(at, Len(listing) + 1, TextRow(listing, space), src)
      /\ Begun(listing, d)
  BY <1>1 DEF TextBack
<1>3. /\ listing \in Seq(TextNodes) /\ WellNested(listing) /\ \A k \in 1 .. Len(listing) : listing[k].depth \in Nat
  <2>1. listing \in Seq(TextNodes) /\ WellNested(listing)
    BY ListingsAre
  <2>2. \A k \in 1 .. Len(listing) : listing[k] \in TextNodes
    BY <2>1
  <2> QED BY <2>1, <2>2 DEF TextNodes
<1>4. /\ Len(listing) \in Nat /\ m \in Nat /\ m <= Len(listing)
      /\ e \in Nat /\ d \in Nat /\ d <= e
      /\ depth \in Nat /\ (d < e => depth > 0)
      /\ d = e => depth = IF m = Len(listing) THEN 0 ELSE node.depth
  BY <1>2, <1>3, BegunIs
<1>5. ASSUME NEW j, UNCHANGED <<format, meant, src, parsed>>, Begun(listing, j)',
             Near(pos', at[Len(nodes')] + j * w + 1, space)
      PROVE  TextBack(listing, space, at, j)'
  <2>1. Near(pos, at[Len(nodes)] + j * w + 1, space)'
    BY <1>5 DEF Near
  <2>2. Places(at, Len(listing) + 1, TextRow(listing, space), src)'
    BY <1>2, <1>5
  <2> QED BY <1>1, <1>2, <1>5, <2>1, <2>2 DEF TextBack
<1>6. CASE d < e
  <2>1. /\ Here + 1 = at[m] + (d + 1) * w + 1 /\ ~AtEnd(Here) /\ src[Here] = RBrace
    BY <1>1, <1>6, TextCloses
  <2>2. BlockEnds
    BY <1>4, <1>6, <2>1 DEF BlockEnds
  <2>3. TextBlockEnds
    BY <1>1, <2>1, <2>2 DEF TextEnds, TextBlock, TextLeaf, TextBad
  <2>4. Closes(Here + 1)
    BY <2>3 DEF TextBlockEnds
  <2>5. Begun(listing, d + 1)' /\ nodes' = nodes
    BY <1>2, <1>3, <1>6, <2>4, BegunCloses
  <2>6. pos' = at[Len(nodes')] + (d + 1) * w + 1
    BY <2>1, <2>4, <2>5 DEF Closes
  <2>7. UNCHANGED <<format, meant, src, parsed>>
    BY <2>4 DEF Closes
  <2>8. Near(pos', at[Len(nodes')] + (d + 1) * w + 1, space)
    BY <2>6 DEF Near
  <2>9. TextBack(listing, space, at, d + 1)'
    BY <1>5, <2>5, <2>7, <2>8
  <2> QED BY <2>9
<1>7. CASE d = e /\ m = Len(listing)
  <2>1. AtEnd(Here)
    BY <1>1, <1>7, TextStops
  <2>2. TextEnds
    BY <1>1, <2>1 DEF TextBlockEnds, BlockEnds, TextBlock, TextLeaf, TextBad
  <2>3. parsed' = "ok" /\ UNCHANGED <<format, src, pos, nodes, depth, meant>>
    BY <1>4, <1>7, <2>2 DEF TextEnds, Ends
  <2>4. nodes = listing
    <3>1. nodes = SubSeq(listing, 1, Len(listing))
      BY <1>2, <1>7 DEF Begun
    <3> QED BY <1>3, <3>1
  <2>5. TextBack(listing, space, at, d)'
    BY <1>1, <1>2, <2>3, <2>4 DEF TextBack
  <2> QED BY <2>5
<1>8. CASE d = e /\ m # Len(listing)
  <2>1. /\ ~AtEnd(Here) /\ src[Here] = Quote
        /\ Key.ok /\ Key.token = node.key /\ ~AtEnd(After)
        /\ Opens <=> IsBlock(node)
        /\ IsBlock(node) => Near(After + 1, at[m + 1] + 1, space)
        /\ ~IsBlock(node) => /\ Value.ok /\ Value.token = node.value.text
                             /\ Near(Value.next, at[m + 1] + 1, space)
    BY <1>1, <1>8, TextOpens
  <2>2. ~BlockEnds
    BY <2>1, Characters DEF BlockEnds
  <2>3. node \in TextNodes /\ node.depth = depth
    <3>1. m + 1 \in 1 .. Len(listing)
      BY <1>4, <1>8
    <3> QED BY <1>3, <1>4, <1>8, <3>1
  <2>4. Node(node.key, node.value) = node
    <3> HIDE DEF node
    <3> QED BY <2>3, NodeIs DEF TextNodes
  <2>5. \E next : /\ Goes(node, IF IsBlock(node) THEN 1 ELSE 0, next)
                  /\ Near(next, at[m + 1] + 1, space)
    <3>1. CASE IsBlock(node)
      <4>1. TextBlock
        BY <1>1, <2>1, <2>2, <3>1 DEF TextEnds, TextBlockEnds, TextLeaf, TextBad
      <4>2. Goes(Node(node.key, Block), 1, After + 1)
        BY <2>1, <4>1 DEF TextBlock
      <4>3. node.value = Block
        BY <3>1 DEF IsBlock
      <4>4. Goes(node, 1, After + 1)
        BY <2>4, <4>2, <4>3
      <4> QED BY <2>1, <3>1, <4>4
    <3>2. CASE ~IsBlock(node)
      <4>1. TextLeaf
        BY <1>1, <2>1, <2>2, <3>2 DEF TextEnds, TextBlockEnds, TextBlock, TextBad
      <4>2. Goes(Node(node.key, Text(node.value.text)), 0, Value.next)
        BY <2>1, <3>2, <4>1 DEF TextLeaf
      <4>3. node.value = Text(node.value.text)
        BY <2>3, <3>2 DEF IsBlock, TextNodes, Text
      <4>4. Goes(node, 0, Value.next)
        BY <2>4, <4>2, <4>3
      <4> QED BY <2>1, <3>2, <4>4
    <3> QED BY <3>1, <3>2
  <2>6. PICK next : /\ Goes(node, IF IsBlock(node) THEN 1 ELSE 0, next)
                    /\ Near(next, at[m + 1] + 1, space)
    BY <2>5
  <2>7. Begun(listing, 0)' /\ Len(nodes') = m + 1
    BY <1>2, <1>3, <1>8, <2>6, BegunGrows
  <2>8. UNCHANGED <<format, meant, src, parsed>> /\ pos' = next
    BY <2>6 DEF Goes
  <2>9. at[m + 1] + 0 * w + 1 = at[m + 1] + 1
    <3>1. at[m + 1] \in Nat /\ Len(space) \in Nat
      BY <1>2, TextStands
    <3>2. \A x, y \in Nat : x + 0 * (y + 1) + 1 = x + 1
      OBVIOUS
    <3> QED BY <3>1, <3>2
  <2>10. Near(pos', at[Len(nodes')] + 0 * w + 1, space)
    BY <2>6, <2>7, <2>8, <2>9
  <2>11. TextBack(listing, space, at, 0)'
    BY <1>5, <2>7, <2>8, <2>10
  <2> QED BY <2>11
<1> QED BY <1>4, <1>6, <1>7, <1>8

----------------------------------------------------------------------------
LEMMA QuotientIs ==
  ASSUME NEW m \in Int, NEW p \in Nat \ {0}, NEW q \in Int, NEW r \in 0 .. p - 1, m = p * q + r
  PROVE  m \div p = q /\ m % p = r /\ (m \in Nat => q \in Nat)
<1> DEFINE t == m \div p
           u == m % p
<1>1. t \in Int /\ u \in 0 .. p - 1 /\ m = p * t + u
  OBVIOUS
<1> HIDE DEF t, u
<1>2. p * (t - q) = r - u
  <2>1. p * t + u = p * q + r
    BY <1>1
  <2>2. p * (t - q) = p * t - p * q
    BY <1>1
  <2>3. p * t \in Int /\ p * q \in Int
    BY <1>1
  <2> QED BY <1>1, <2>1, <2>2, <2>3
<1>3. r - u < p /\ r - u > -p /\ r - u \in Int
  BY <1>1
<1>4. ASSUME NEW x \in Int, x >= 1 PROVE p * x >= p
  BY <1>4
<1>5. ASSUME NEW x \in Int, x <= -1 PROVE p * x <= -p
  BY <1>5
<1>6. t - q \in Int /\ ~(t - q >= 1) /\ ~(t - q <= -1)
  BY <1>1, <1>2, <1>3, <1>4, <1>5
<1>7. t = q
  BY <1>1, <1>6
<1>8. ASSUME m \in Nat PROVE q \in Nat
  <2>1. ASSUME q <= -1 PROVE FALSE
    <3>1. p * q <= -p
      BY <1>5, <2>1
    <3>2. p * q \in Int
      OBVIOUS
    <3> QED BY <1>8, <3>1, <3>2
  <2> QED BY <2>1
<1>9. u = r
  <2>1. p * t = p * q /\ p * q \in Int
    BY <1>7
  <2> QED BY <1>1, <2>1
<1> QED BY <1>7, <1>8, <1>9 DEF t, u

\* A number's digits to the base 256.
Over(m, p) == m \div p
Digit(m, p) == (m \div p) % 256

LEMMA DigitIs ==
  ASSUME NEW m \in Nat, NEW p \in Nat \ {0}
  PROVE  Over(m, p) \in Nat /\ Over(m, 256 * p) \in Nat /\ Over(m, p) = Digit(m, p) + 256 * Over(m, 256 * p)
<1> DEFINE q == m \div p
           r == m % p
           t == q \div 256
           u == q % 256
<1>1. q \in Nat /\ r \in 0 .. p - 1 /\ m = p * q + r
  OBVIOUS
<1> HIDE DEF q, r
<1>2. t \in Nat /\ u \in 0 .. 255 /\ q = 256 * t + u
  BY <1>1
<1> HIDE DEF t, u
<1>3. m = (256 * p) * t + (p * u + r)
  <2>1. p * q = p * (256 * t) + p * u
    BY <1>1, <1>2
  <2>2. p * (256 * t) = (256 * p) * t /\ p * (256 * t) \in Int /\ p * u \in Int /\ p * q \in Int
    BY <1>1, <1>2
  <2>3. \A x, y, z \in Int : x = y + z => (x + r) = y + (z + r)
    BY <1>1
  <2>4. p * q + r = p * (256 * t) + (p * u + r)
    BY <2>1, <2>2, <2>3
  <2> QED BY <1>1, <2>2, <2>4
<1>4. p * u + r \in 0 .. 256 * p - 1
  <2>1. p * u \in Nat /\ p * u <= p * 255
    BY <1>2
  <2> QED BY <1>1, <2>1
<1>5. 256 * p \in Nat \ {0}
  OBVIOUS
<1> DEFINE b == 256 * p
           c == p * u + r
<1>6. m = b * t + c /\ c \in 0 .. b - 1 /\ b \in Nat \ {0}
  BY <1>3, <1>4, <1>5
<1> HIDE DEF b, c
<1>7. m \div b = t
  BY <1>2, <1>6, QuotientIs
<1> QED BY <1>1, <1>2, <1>7 DEF q, t, u, b, Over, Digit

\* The number in so many bytes is what was written there.
LEMMA UnsignedIs ==
  ASSUME NEW n \in Int, NEW w \in Nat
  PROVE  /\ n % Numbers(w) \in 0 .. Numbers(w) - 1
         /\ Unsigned(Bytes(n, w)) = n % Numbers(w)
<1> DEFINE bytes == Bytes(n, w)
           m == n % Numbers(w)
           Chain(f) == f = [k \in 1 .. Len(bytes) + 1 |-> IF k > Len(bytes) THEN 0 ELSE bytes[k] + 256 * f[k + 1]]
           g == CHOOSE f : Chain(f)
           d == [k \in 1 .. w + 1 |-> IF k > w THEN 0 ELSE m \div Numbers(k - 1)]
<1>1. m \in 0 .. Numbers(w) - 1 /\ m \in Nat
  <2> DEFINE a == Numbers(w)
  <2>1. a \in Nat \ {0}
    BY NumbersAre
  <2> HIDE DEF a
  <2>2. n % a \in 0 .. a - 1
    BY <2>1
  <2> QED BY <2>1, <2>2 DEF a
<1>2. Len(bytes) = w /\ \A k \in 1 .. w : bytes[k] = (m \div Numbers(k - 1)) % 256
  <2>1. bytes = [k \in 1 .. w |-> (m \div Numbers(k - 1)) % 256]
    BY DEF Bytes
  <2> HIDE DEF bytes, m
  <2>2. DOMAIN bytes = 1 .. w
    BY <2>1
  <2>3. bytes \in Seq(Octets)
    <3>1. bytes \in [1 .. w -> Octets]
      BY BytesAre DEF bytes
    <3> QED BY <3>1
  <2>4. Len(bytes) = w
    BY <2>2, <2>3
  <2> QED BY <2>1, <2>4
<1> HIDE DEF m
<1>3. m \div Numbers(w) = 0
  <2> DEFINE a == Numbers(w)
  <2>1. a \in Nat \ {0} /\ m \in 0 .. a - 1 /\ m = a * 0 + m
    <3>1. a \in Nat \ {0}
      BY NumbersAre
    <3> HIDE DEF a
    <3>2. \A x, y \in Nat : y = x * 0 + y
      OBVIOUS
    <3>3. m = a * 0 + m
      BY <1>1, <3>1, <3>2
    <3> QED BY <1>1, <3>1, <3>3 DEF a
  <2> HIDE DEF a
  <2>2. m \div a = 0
    BY <1>1, <2>1, QuotientIs
  <2> QED BY <2>2 DEF a
<1>4. ASSUME NEW k \in 1 .. w
      PROVE  m \div Numbers(k - 1) = bytes[k] + 256 * (m \div Numbers(k))
  <2> DEFINE p == Numbers(k - 1)
  <2>1. p \in Nat \ {0} /\ Numbers(k) = 256 * p
    <3>1. k - 1 \in Nat /\ (k - 1) + 1 = k
      OBVIOUS
    <3> QED BY <3>1, NumbersAre
  <2> HIDE DEF p
  <2>2. Over(m, p) = Digit(m, p) + 256 * Over(m, 256 * p)
    BY <1>1, <2>1, DigitIs
  <2> HIDE DEF bytes
  <2>3. bytes[k] = (m \div p) % 256
    BY <1>2 DEF p
  <2>4. m \div p = bytes[k] + 256 * (m \div (256 * p))
    BY <2>2, <2>3 DEF Over, Digit
  <2> QED BY <2>1, <2>4 DEF p
<1>5. /\ d = [k \in 1 .. w + 1 |-> d[k]]
      /\ d[w + 1] = 0 /\ \A k \in 1 .. w : d[k] = m \div Numbers(k - 1)
  BY DEF d
<1>6. \A k \in 1 .. w : d[k] = bytes[k] + 256 * d[k + 1]
  <2>1. ASSUME NEW k \in 1 .. w PROVE d[k] = bytes[k] + 256 * d[k + 1]
    <3>1. d[k + 1] = m \div Numbers(k)
      <4>1. CASE k = w
        BY <1>3, <1>5, <4>1
      <4>2. CASE k # w
        <5>1. k + 1 \in 1 .. w /\ (k + 1) - 1 = k
          BY <4>2
        <5>2. d[k + 1] = m \div Numbers((k + 1) - 1)
          BY <1>5, <5>1
        <5> QED BY <5>1, <5>2
      <4> QED BY <4>1, <4>2
    <3> QED BY <1>4, <1>5, <3>1
  <2> QED BY <2>1
<1> HIDE DEF d, bytes
<1>7. Chain(d)
  <2>1. \A k \in 1 .. w + 1 : d[k] = IF k > w THEN 0 ELSE bytes[k] + 256 * d[k + 1]
    <3>1. ASSUME NEW k \in 1 .. w + 1 PROVE d[k] = IF k > w THEN 0 ELSE bytes[k] + 256 * d[k + 1]
      <4>1. k > w => k = w + 1
        OBVIOUS
      <4>2. ~(k > w) => k \in 1 .. w
        OBVIOUS
      <4> QED BY <1>5, <1>6, <4>1, <4>2, ZenonT(60)
    <3> QED BY <3>1
  <2>2. [k \in 1 .. w + 1 |-> d[k]] = [k \in 1 .. w + 1 |-> IF k > w THEN 0 ELSE bytes[k] + 256 * d[k + 1]]
    BY <2>1
  <2> QED BY <1>2, <1>5, <2>2, ZenonT(60)
<1>8. Chain(g)
  <2> HIDE DEF Chain
  <2> QED BY <1>7
<1>9. Unsigned(bytes) = g[1]
  BY DEF Unsigned
<1> HIDE DEF g
<1>10. g[w + 1] = 0 /\ \A k \in 1 .. w : g[k] = bytes[k] + 256 * g[k + 1]
  <2>1. \A k \in 1 .. w + 1 : g[k] = IF k > w THEN 0 ELSE bytes[k] + 256 * g[k + 1]
    BY <1>2, <1>8
  <2>2. w + 1 \in 1 .. w + 1 /\ w + 1 > w /\ \A k \in 1 .. w : k \in 1 .. w + 1 /\ ~(k > w)
    OBVIOUS
  <2> QED BY <2>1, <2>2
<1>11. 1 .. w + 1 \subseteq {k \in 1 .. w + 1 : g[k] = d[k]}
  <2> DEFINE T == {k \in 1 .. w + 1 : g[k] = d[k]}
  <2>1. ASSUME NEW k \in 1 .. w + 1, \A j \in k + 1 .. w + 1 : j \in T PROVE k \in T
    <3>1. CASE k = w + 1
      BY <1>5, <1>10, <3>1
    <3>2. CASE k # w + 1
      <4>1. k \in 1 .. w /\ k + 1 \in k + 1 .. w + 1
        BY <3>2
      <4> QED BY <1>6, <1>10, <2>1, <4>1
    <3> QED BY <3>1, <3>2
  <2>2. 1 \in Nat /\ w + 1 \in Nat
    OBVIOUS
  <2> DEFINE hi == w + 1
  <2> HIDE DEF T, hi
  <2>3. 1 .. hi \subseteq T
    BY <2>1, <2>2, DownTo DEF hi
  <2> QED BY <2>3 DEF T, hi
<1>12. d[1] = m
  <2>1. CASE w = 0
    <3>1. Numbers(w) = 1
      BY <2>1, NumbersAre
    <3> QED BY <1>1, <1>5, <2>1, <3>1
  <2>2. CASE w # 0
    <3>1. 1 \in 1 .. w /\ 1 - 1 = 0
      BY <2>2
    <3>2. d[1] = m \div Numbers(0)
      BY <1>5, <3>1
    <3>3. m \div 1 = m
      BY <1>1
    <3> QED BY <3>2, <3>3, NumbersAre
  <2> QED BY <2>1, <2>2
<1>13. 1 \in 1 .. w + 1
  OBVIOUS
<1> QED BY <1>1, <1>9, <1>11, <1>12, <1>13 DEF m, bytes

Rest(m, p) == m % p

LEMMA RemainderIs ==
  ASSUME NEW n \in Int, NEW p \in Nat \ {0}
  PROVE  (n \in 0 .. p - 1 => Rest(n, p) = n) /\ (n + p \in 0 .. p - 1 => Rest(n, p) = n + p)
<1>1. ASSUME n \in 0 .. p - 1 PROVE n % p = n
  <2>1. \A x, y \in Int : x = y * 0 + x
    OBVIOUS
  <2>2. n = p * 0 + n
    BY <2>1
  <2> QED BY <1>1, <2>2, QuotientIs
<1>2. ASSUME n + p \in 0 .. p - 1 PROVE n % p = n + p
  <2>1. \A x, y \in Int : x = y * (-1) + (x + y)
    OBVIOUS
  <2>2. n = p * (-1) + (n + p)
    BY <2>1
  <2> DEFINE r == n + p
  <2> HIDE DEF r
  <2>3. n = p * (-1) + r /\ r \in 0 .. p - 1 /\ -1 \in Int
    BY <1>2, <2>2 DEF r
  <2>4. n % p = r
    BY <2>3, QuotientIs
  <2> QED BY <2>4 DEF r
<1> QED BY <1>1, <1>2 DEF Rest

\* Its sign is in its last byte.
LEMMA SignedIs ==
  ASSUME NEW n \in Int, NEW w \in Nat \ {0}, 2 * n \in -Numbers(w) .. Numbers(w) - 1
  PROVE  Signed(Bytes(n, w)) = n
<1> DEFINE bytes == Bytes(n, w)
           all == Numbers(w)
           p == Numbers(w - 1)
           m == n % all
<1>1. /\ p \in Nat \ {0} /\ all = 256 * p /\ all \in Nat \ {0} /\ 2 * n \in -all .. all - 1
  <2>1. w - 1 \in Nat /\ (w - 1) + 1 = w
    OBVIOUS
  <2> QED BY <2>1, NumbersAre
<1>2. Unsigned(bytes) = m /\ m \in 0 .. all - 1
  BY UnsignedIs
<1>3. Len(bytes) = w /\ bytes[w] = Digit(m, p)
  <2>1. bytes = [k \in 1 .. w |-> (m \div Numbers(k - 1)) % 256]
    BY DEF Bytes
  <2>2. bytes \in Seq(Octets)
    <3>1. bytes \in [1 .. w -> Octets]
      BY BytesAre
    <3> QED BY <3>1
  <2> HIDE DEF bytes, m, p
  <2>3. DOMAIN bytes = 1 .. w /\ w \in 1 .. w
    BY <2>1
  <2>4. bytes[w] = (m \div p) % 256
    BY <2>1, <2>3 DEF p
  <2> QED BY <2>2, <2>3, <2>4 DEF Digit
<1> HIDE DEF bytes, all, p, m
<1>4. m \in Nat
  BY <1>1, <1>2
<1>5. Digit(m, p) = m \div p
  <2>a. Over(m, p) = Digit(m, p) + 256 * Over(m, 256 * p) /\ Over(m, p) \in Nat
    <3>1. m \in Nat /\ p \in Nat \ {0}
      BY <1>1, <1>4
    <3>2. Over(m, p) = Digit(m, p) + 256 * Over(m, 256 * p)
      BY <3>1, DigitIs
    <3>3. Over(m, p) \in Nat
      BY <3>1 DEF Over
    <3> QED BY <3>2, <3>3
  <2>1. Over(m, p) = Digit(m, p) + 256 * Over(m, all) /\ Over(m, p) \in Nat
    BY <1>1, <2>a
  <2>2. Over(m, all) = 0
    <3>1. \A x, y \in Int : x = y * 0 + x
      OBVIOUS
    <3>2. m = all * 0 + m
      BY <1>1, <1>4, <3>1
    <3>3. m \div all = 0
      BY <1>1, <1>2, <1>4, <3>2, QuotientIs
    <3> QED BY <3>3 DEF Over
  <2>3. Digit(m, p) \in Nat
    BY <1>1, <1>4 DEF Digit
  <2>4. Over(m, p) = Digit(m, p)
    BY <2>1, <2>2, <2>3
  <2> QED BY <2>4 DEF Over
<1>6. Last(bytes) = m \div p
  BY <1>3, <1>5 DEF Last
<1>7. (m \div p < 128) <=> 2 * m < all
  <2> DEFINE q == m \div p
             r == m % p
  <2>1. q \in Nat /\ r \in 0 .. p - 1 /\ m = p * q + r
    BY <1>1, <1>4
  <2> HIDE DEF q, r
  <2>2. ASSUME q < 128 PROVE 2 * m < all
    <3>1. p * q <= p * 127
      BY <1>1, <2>1, <2>2
    <3> QED BY <1>1, <2>1, <3>1
  <2>3. ASSUME q >= 128 PROVE 2 * m >= all
    <3>1. p * q >= p * 128
      BY <1>1, <2>1, <2>3
    <3> QED BY <1>1, <2>1, <3>1
  <2>4. (q < 128) <=> 2 * m < all
    BY <1>1, <1>4, <2>1, <2>2, <2>3
  <2> QED BY <2>4 DEF q
<1>8. CASE n >= 0
  <2>1. n \in 0 .. all - 1
    BY <1>1, <1>8
  <2>2. m = n
    <3>1. Rest(n, all) = n
      BY <1>1, <2>1, RemainderIs
    <3> QED BY <3>1 DEF m, Rest
  <2>3. 2 * m < all
    BY <1>1, <2>2
  <2> QED BY <1>2, <1>6, <1>7, <2>2, <2>3 DEF Signed, bytes
<1>9. CASE n < 0
  <2>1. n + all \in 0 .. all - 1
    BY <1>1, <1>9
  <2>2. m = n + all
    <3>1. Rest(n, all) = n + all
      BY <1>1, <2>1, RemainderIs
    <3> QED BY <3>1 DEF m, Rest
  <2>3. ~(2 * m < all)
    BY <1>1, <2>2
  <2>4. Signed(bytes) = m - all
    BY <1>2, <1>3, <1>6, <1>7, <2>3 DEF Signed, all
  <2>5. m - all = n
    BY <1>1, <2>2
  <2> QED BY <2>4, <2>5 DEF bytes
<1> QED BY <1>8, <1>9

----------------------------------------------------------------------------
(***************************************************************************)
(* Bytes are read back.                                                    *)
(***************************************************************************)
LEMMA PartStands ==
  ASSUME NEW S, NEW whole \in Seq(S), NEW part \in Seq(S), NEW x \in Nat, Stands(whole, x, part)
  PROVE  SubSeq(whole, x + 1, x + Len(part)) = part
<1> DEFINE n == Len(part)
           t == SubSeq(whole, x + 1, x + n)
<1>1. n \in Nat /\ x + n <= Len(whole) /\ Len(whole) \in Nat /\ \A i \in 1 .. n : whole[x + i] = part[i]
  BY DEF Stands
<1>2. t \in Seq(S) /\ Len(t) = n /\ \A i \in 1 .. n : t[i] = whole[x + i]
  <2> DEFINE a == x + 1
             b == x + n
  <2>1. a \in Nat /\ b \in Nat /\ a >= 1 /\ b <= Len(whole) /\ b - a + 1 = n
    BY <1>1
  <2>2. t = SubSeq(whole, a, b)
    OBVIOUS
  <2> HIDE DEF a, b, n, t
  <2>3. t \in Seq(S)
    BY <1>1, <2>1, <2>2
  <2>4. Len(t) = n
    BY <1>1, <2>1, <2>2
  <2>5. \A i \in 1 .. n : t[i] = whole[a + i - 1]
    BY <1>1, <2>1, <2>2
  <2>6. \A i \in 1 .. n : a + i - 1 = x + i
    BY <1>1 DEF a
  <2> QED BY <2>3, <2>4, <2>5, <2>6
<1> HIDE DEF t, n
<1>3. \A i \in 1 .. n : t[i] = part[i]
  BY <1>1, <1>2
<1>4. part \in Seq(S) /\ Len(part) = n
  BY DEF n
<1>5. t = part
  BY <1>2, <1>3, <1>4
<1> QED BY <1>5 DEF t, n

LEMMA CstringReads ==
  ASSUME NEW S, src \in Seq(S), NEW token \in Seq(Letters), token \in Seq(S), NEW x \in Nat,
         Stands(src, x, token), Stands(src, x + Len(token), << 0 >>)
  PROVE  /\ Len(token) \in Nat
         /\ Cstring(x + 1) = [ok |-> TRUE, next |-> x + Len(token) + 2, token |-> token]
<1> DEFINE n == Len(token)
           e == NextOf({Zero}, x + 1)
<1>1. /\ n \in Nat /\ Len(src) \in Nat /\ x + n + 1 <= Len(src)
      /\ \A i \in 1 .. n : src[x + i] = token[i] /\ token[i] # 0
      /\ src[x + n + 1] = 0
  <2>1. Len(<< 0 >>) = 1 /\ << 0 >>[1] = 0 /\ 1 \in 1 .. Len(<< 0 >>)
    OBVIOUS
  <2>2. \A i \in 1 .. n : token[i] \in Letters
    OBVIOUS
  <2>3. \A c \in Letters : c # 0
    BY DEF Letters
  <2>4. x + n + 1 <= Len(src) /\ src[x + n + 1] = 0
    BY <2>1 DEF Stands
  <2>5. \A i \in 1 .. n : src[x + i] = token[i]
    BY DEF Stands
  <2> QED BY <2>2, <2>3, <2>4, <2>5
<1>2. e = x + n + 1
  <2>1. x + 1 \in 1 .. Len(src) + 1
    BY <1>1
  <2>2. e \in x + 1 .. Len(src) + 1 /\ (\A j \in x + 1 .. e - 1 : src[j] # 0) /\ (~AtEnd(e) => src[e] = 0)
    BY <1>1, <2>1, NextOfIs DEF Zero
  <2> HIDE DEF e, n
  <2>3. ~(x + n + 1 < e)
    <3>1. x + n + 1 < e => x + n + 1 \in x + 1 .. e - 1
      BY <1>1, <2>2
    <3> QED BY <1>1, <2>2, <3>1
  <2>4. ~(e < x + n + 1)
    <3> SUFFICES ASSUME e < x + n + 1 PROVE FALSE
      OBVIOUS
    <3>1. e - x \in 1 .. n /\ x + (e - x) = e /\ ~AtEnd(e)
      BY <1>1, <2>2 DEF AtEnd
    <3>2. src[x + (e - x)] # 0
      BY <1>1, <3>1
    <3> QED BY <2>2, <3>1, <3>2
  <2> QED BY <1>1, <2>2, <2>3, <2>4
<1>3. ~AtEnd(x + n + 1) /\ (x + n + 1) - 1 = x + n /\ (x + n + 1) + 1 = x + n + 2
  BY <1>1 DEF AtEnd
<1>4. SubSeq(src, x + 1, x + n) = token
  BY PartStands
<1>5. Cstring(x + 1) = IF AtEnd(e) THEN NoToken
                       ELSE [ok |-> TRUE, next |-> e + 1, token |-> SubSeq(src, x + 1, e - 1)]
  BY DEF Cstring
<1> HIDE DEF e, n
<1>6. Cstring(x + 1) = [ok |-> TRUE, next |-> x + n + 2, token |-> token]
  BY <1>2, <1>3, <1>4, <1>5
<1> QED BY <1>1, <1>6 DEF n

LEMMA TakeReads ==
  ASSUME NEW S, src \in Seq(S), NEW bytes \in Seq(S), NEW x \in Nat, Stands(src, x, bytes)
  PROVE  Take(x + 1, Len(bytes)) = [ok |-> TRUE, next |-> x + 1 + Len(bytes), token |-> bytes]
<1> DEFINE n == Len(bytes)
<1>1. n \in Nat /\ x + n <= Len(src) /\ Len(src) \in Nat
  BY DEF Stands
<1>2. SubSeq(src, x + 1, x + n) = bytes
  BY PartStands
<1>3. (x + 1) + n - 1 = x + n /\ ~(x + n > Len(src))
  BY <1>1
<1> HIDE DEF n
<1>4. Take(x + 1, n) = IF (x + 1) + n - 1 > Len(src) THEN NoToken
                       ELSE [ok |-> TRUE, next |-> (x + 1) + n, token |-> SubSeq(src, x + 1, (x + 1) + n - 1)]
  BY DEF Take
<1>5. Take(x + 1, n) = [ok |-> TRUE, next |-> x + 1 + n, token |-> bytes]
  BY <1>2, <1>3, <1>4
<1> QED BY <1>5 DEF n

\* A value's bytes.
ValueBytes(value, tag) ==
  IF IsNumber(value) THEN Bytes(value.number, IF tag = 2 THEN Half ELSE Full) ELSE value.text \o << 0 >>

Values == [text : Seq(Letters)] \cup [number : Int]

LEMMA ValuesAre ==
  ASSUME NEW value \in Values
  PROVE  \/ ~IsNumber(value) /\ value.text \in Seq(Letters) /\ value = Text(value.text)
         \/ IsNumber(value) /\ value.number \in Int /\ value = [number |-> value.number]
<1>1. CASE value \in [text : Seq(Letters)]
  <2>1. DOMAIN value = {"text"} /\ "text" # "number"
    BY <1>1
  <2> QED BY <1>1, <2>1 DEF IsNumber, Text
<1>2. CASE value \in [number : Int]
  <2>1. DOMAIN value = {"number"}
    BY <1>2
  <2> QED BY <1>2, <2>1 DEF IsNumber
<1> QED BY <1>1, <1>2 DEF Values

LEMMA ValueReads ==
  ASSUME src \in Seq(Octets), NEW tag \in {2, 7, 10}, NEW value \in Values, NEW z \in Nat,
         IsNumber(value) => Fits(value.number, tag),
         Stands(src, z, ValueBytes(value, tag)),
         src[pos] = Tagged(value, tag), BinaryKey.next = z + 1
  PROVE  /\ BinaryValue.ok /\ BinaryValue.token = value
         /\ BinaryValue.next = z + Len(ValueBytes(value, tag)) + 1
<1> DEFINE p == BinaryKey.next
           t == src[pos]
           bytes == ValueBytes(value, tag)
<1>1. BinaryValue = CASE t \in Tags.string  -> As(Text, Cstring(p))
                      [] t \in Tags.int32   -> As(IntOf, Take(p, Half))
                      [] t \in Tags.float32 -> As(FloatOf, Take(p, Half))
                      [] t \in Tags.uint64  -> As(UintOf, Take(p, Full))
                      [] t \in Tags.int64   -> As(IntOf, Take(p, Full))
                      [] OTHER              -> NoToken
  BY DEF BinaryValue
<1>2. /\ Tags.string = {1, 5} /\ Tags.int32 = {2, 4, 6} /\ Tags.float32 = {3} /\ Tags.uint64 = {7}
      /\ Tags.int64 = {10}
  BY DEF Tags
<1>3. /\ t = 1  => BinaryValue = As(Text, Cstring(p))
      /\ t = 2  => BinaryValue = As(IntOf, Take(p, Half))
      /\ t = 7  => BinaryValue = As(UintOf, Take(p, Full))
      /\ t = 10 => BinaryValue = As(IntOf, Take(p, Full))
  <2> HIDE DEF p, t
  <2> QED BY <1>1, <1>2
<1>4. /\ \A x, y : LET r == [ok |-> TRUE, next |-> x, token |-> y]
                   IN  As(Text, r) = [ok |-> TRUE, next |-> x, token |-> Text(y)]
      /\ \A x, y : LET r == [ok |-> TRUE, next |-> x, token |-> y]
                   IN  As(IntOf, r) = [ok |-> TRUE, next |-> x, token |-> IntOf(y)]
      /\ \A x, y : LET r == [ok |-> TRUE, next |-> x, token |-> y]
                   IN  As(UintOf, r) = [ok |-> TRUE, next |-> x, token |-> UintOf(y)]
  BY DEF As
<1>5. CASE ~IsNumber(value)
  <2> DEFINE text == value.text
  <2>1. text \in Seq(Letters) /\ value = Text(text) /\ t = 1 /\ bytes = text \o << 0 >>
    BY <1>5, ValuesAre DEF Tagged, ValueBytes
  <2>2. text \in Seq(Octets) /\ << 0 >> \in Seq(Octets) /\ Len(<< 0 >>) = 1
    <3>1. Letters \subseteq Octets /\ 0 \in Octets
      BY DEF Letters, Octets
    <3> QED BY <2>1, <3>1
  <2> HIDE DEF text, bytes, t, p
  <2>3. Stands(src, z, text) /\ Stands(src, z + Len(text), << 0 >>) /\ Len(bytes) = Len(text) + 1
    <3>1. Stands(src, z, text \o << 0 >>)
      BY <2>1 DEF bytes
    <3>2. Stands(src, z, text) /\ Stands(src, z + Len(text), << 0 >>)
      BY <2>2, <3>1, StandsBoth
    <3>3. Len(text \o << 0 >>) = Len(text) + Len(<< 0 >>)
      BY <2>2
    <3> QED BY <2>1, <2>2, <3>2, <3>3
  <2>4. Len(text) \in Nat /\ Cstring(z + 1) = [ok |-> TRUE, next |-> z + Len(text) + 2, token |-> text]
    BY <2>1, <2>2, <2>3, CstringReads
  <2>5. BinaryValue = [ok |-> TRUE, next |-> z + Len(text) + 2, token |-> Text(text)]
    <3>1. BinaryValue = As(Text, Cstring(z + 1))
      BY <1>3, <2>1 DEF p
    <3> QED BY <1>4, <2>4, <3>1
  <2>6. z + Len(text) + 2 = z + Len(bytes) + 1
    BY <2>3, <2>4
  <2> QED BY <2>1, <2>5, <2>6 DEF bytes
<1>6. CASE IsNumber(value)
  <2> DEFINE n == value.number
             w == IF tag = 2 THEN Half ELSE Full
  <2>1. n \in Int /\ value = [number |-> n] /\ t = tag /\ bytes = Bytes(n, w)
    BY <1>6, ValuesAre DEF Tagged, ValueBytes
  <2>2. w \in Nat \ {0}
    BY VdfAssumption
  <2>3. bytes \in Seq(Octets) /\ Len(bytes) = w
    <3> DEFINE b == Bytes(n, w)
    <3>1. b \in [1 .. w -> Octets]
      <4> HIDE DEF n, w
      <4> QED BY <2>1, <2>2, BytesAre
    <3> HIDE DEF b, w
    <3>2. b \in Seq(Octets) /\ DOMAIN b = 1 .. w
      BY <2>2, <3>1
    <3>3. Len(b) = w
      BY <2>2, <3>2
    <3> QED BY <2>1, <3>2, <3>3 DEF b, w
  <2> HIDE DEF bytes
  <2>4. Take(z + 1, Len(bytes)) = [ok |-> TRUE, next |-> z + 1 + Len(bytes), token |-> bytes]
    BY <2>3, TakeReads DEF bytes
  <2>5. Take(p, w) = [ok |-> TRUE, next |-> z + 1 + w, token |-> bytes]
    BY <2>3, <2>4
  <2>6. BinaryValue = [ok |-> TRUE, next |-> z + 1 + w, token |-> value]
    <3>1. CASE tag = 2
      <4>1. Signed(bytes) = n
        <5>1. 2 * n \in -Numbers(Half) .. Numbers(Half) - 1 /\ w = Half
          BY <1>6, <3>1 DEF Fits
        <5> HIDE DEF n, w
        <5> QED BY <2>1, <2>2, <5>1, SignedIs
      <4>2. BinaryValue = As(IntOf, Take(p, w))
        BY <1>3, <2>1, <3>1
      <4> HIDE DEF n, w, p
      <4> QED BY <1>4, <2>1, <2>5, <4>1, <4>2 DEF IntOf
    <3>2. CASE tag = 7
      <4>1. Unsigned(bytes) = n
        <5>1. n \in 0 .. Numbers(Full) - 1 /\ w = Full
          BY <1>6, <3>2 DEF Fits
        <5> HIDE DEF n, w
        <5>2. Unsigned(bytes) = Rest(n, Numbers(w))
          BY <2>1, <2>2, UnsignedIs DEF Rest
        <5>3. Numbers(w) \in Nat \ {0}
          BY <2>2, NumbersAre
        <5>4. Rest(n, Numbers(w)) = n
          BY <2>1, <5>1, <5>3, RemainderIs
        <5> QED BY <5>2, <5>4
      <4>2. BinaryValue = As(UintOf, Take(p, w))
        BY <1>3, <2>1, <3>2
      <4> HIDE DEF n, w, p
      <4> QED BY <1>4, <2>1, <2>5, <4>1, <4>2 DEF UintOf
    <3>3. CASE tag = 10
      <4>1. Signed(bytes) = n
        <5>1. 2 * n \in -Numbers(Full) .. Numbers(Full) - 1 /\ w = Full
          BY <1>6, <3>3 DEF Fits
        <5> HIDE DEF n, w
        <5> QED BY <2>1, <2>2, <5>1, SignedIs
      <4>2. BinaryValue = As(IntOf, Take(p, w))
        BY <1>3, <2>1, <3>3
      <4> HIDE DEF n, w, p
      <4> QED BY <1>4, <2>1, <2>5, <4>1, <4>2 DEF IntOf
    <3> QED BY <3>1, <3>2, <3>3
  <2> HIDE DEF w
  <2>7. z + 1 + w = z + Len(bytes) + 1
    BY <2>2, <2>3
  <2> QED BY <2>6, <2>7 DEF bytes
<1> QED BY <1>5, <1>6

ByteRow(listing, tag) == [k \in 1 .. Len(listing) + 1 |-> ByteChunk(listing, tag, k)]

\* Every number of the listing has a place in the tag's bytes.
Fitting(listing, tag) ==
  \A k \in 1 .. Len(listing) :
    ~IsBlock(listing[k]) /\ IsNumber(listing[k].value) => Fits(listing[k].value.number, tag)

ByteBack(listing, tag, end, at, d) ==
  /\ format = "binary" /\ meant = {listing} /\ src = BytesOf(listing, tag) \o <<end>>
  /\ Places(at, Len(listing) + 1, ByteRow(listing, tag), BytesOf(listing, tag))
  /\ parsed # "error"
  /\ parsed = "ok" => nodes = listing
  /\ parsed = "reading" => Begun(listing, d) /\ pos = at[Len(nodes)] + d + 1

LEMMA ByteListingIs ==
  ASSUME NEW listing \in BinaryListings
  PROVE  /\ listing \in Seq(ByteNodes) /\ WellNested(listing) /\ Len(listing) \in Nat
         /\ \A k \in 1 .. Len(listing) : listing[k] \in ByteNodes /\ listing[k].depth \in Nat
<1>1. listing \in Seq(ByteNodes) /\ WellNested(listing)
  BY ListingsAre
<1>2. \A k \in 1 .. Len(listing) : listing[k] \in ByteNodes
  BY <1>1
<1>3. \A node \in ByteNodes : node.depth \in Nat
  BY DEF ByteNodes
<1> QED BY <1>1, <1>2, <1>3

LEMMA ByteStands ==
  ASSUME NEW listing \in BinaryListings, NEW tag \in {2, 7, 10}, NEW end \in EndTags, NEW at, NEW d,
         ByteBack(listing, tag, end, at, d), Begun(listing, d)
  PROVE  LET m == Len(nodes)
             e == Ended(listing, m + 1)
             inside == ByteBody(listing, tag, m + 1)
         IN  /\ src \in Seq(Octets) /\ Len(src) \in Nat /\ at[m] \in Nat /\ at[m + 1] \in Nat
             /\ src[Len(src)] = end /\ Len(src) \in 1 .. Len(src)
             /\ d < e => Stands(src, at[m] + d, << 8 >>)
             /\ d = e => Stands(src, at[m] + d, inside) /\ at[m + 1] = at[m] + d + Len(inside)
             /\ m = Len(listing) => inside = <<>> /\ at[m + 1] + 1 = Len(src)
<1> DEFINE n == Len(listing)
           m == Len(nodes)
           e == Ended(listing, m + 1)
           close == << 8 >>
           inside == ByteBody(listing, tag, m + 1)
           whole == BytesOf(listing, tag)
<1>1. /\ listing \in Seq(ByteNodes) /\ WellNested(listing) /\ \A k \in 1 .. n : listing[k].depth \in Nat
  BY ByteListingIs
<1>2. n \in Nat /\ m \in Nat /\ m <= n /\ e \in Nat /\ d \in Nat /\ d <= e
  BY <1>1, BegunIs
<1>3. whole \in Seq(Octets) /\ inside \in Seq(Octets)
  <2>1. m + 1 \in 1 .. Len(listing) + 1
    BY <1>2
  <2>2. whole \in Seq(Octets)
    BY BytesOfIs
  <2>3. \A k \in 1 .. Len(listing) + 1 : ByteBody(listing, tag, k) \in Seq(Octets)
    BY BytesOfIs
  <2> QED BY <2>1, <2>2, <2>3
<1>4. close \in Seq(Octets) /\ Len(close) = 1 /\ <<end>> \in Seq(Octets) /\ Len(<<end>>) = 1
  <2>1. 8 \in Octets /\ end \in Octets
    BY DEF Octets, EndTags
  <2> QED BY <2>1
<1>5. /\ \A k \in 0 .. n + 1 : at[k] \in Nat
      /\ at[n + 1] = Len(whole)
      /\ \A k \in 1 .. n + 1 : /\ at[k] = at[k - 1] + Len(ByteChunk(listing, tag, k))
                               /\ Stands(whole, at[k - 1], ByteChunk(listing, tag, k))
  BY DEF ByteBack, Places, ByteRow
<1>6. /\ at[m] \in Nat /\ at[m + 1] \in Nat /\ at[m + 1] = at[m] + Len(Repeat(e, close) \o inside)
      /\ Stands(whole, at[m], Repeat(e, close) \o inside)
  <2>1. m \in 0 .. n + 1 /\ m + 1 \in 1 .. n + 1 /\ m + 1 \in 0 .. n + 1 /\ (m + 1) - 1 = m
    BY <1>2
  <2>2. ByteChunk(listing, tag, m + 1) = Repeat(e, close) \o inside
    BY DEF ByteChunk
  <2> HIDE DEF close, inside, e, n, whole
  <2> QED BY <1>5, <2>1, <2>2
<1>7. m = n => inside = <<>> /\ at[m + 1] = Len(whole)
  <2>1. m = n => m + 1 > Len(listing)
    BY <1>2
  <2> QED BY <1>5, <2>1 DEF ByteBody
<1>w. src = whole \o <<end>>
  BY DEF ByteBack
<1> HIDE DEF close, inside, e, n, m, whole
<1>8. /\ Len(Repeat(e, close) \o inside) = e * Len(close) + Len(inside)
      /\ \A j \in 0 .. e - 1 : Stands(whole, at[m] + j * Len(close), close)
      /\ Stands(whole, at[m] + e * Len(close), inside)
  <2> DEFINE a == at[m]
  <2>1. a \in Nat /\ Stands(whole, a, Repeat(e, close) \o inside)
    BY <1>6
  <2> HIDE DEF a
  <2>2. /\ Len(Repeat(e, close) \o inside) = e * Len(close) + Len(inside)
        /\ \A j \in 0 .. e - 1 : Stands(whole, a + j * Len(close), close)
        /\ Stands(whole, a + e * Len(close), inside)
    BY <1>2, <1>3, <1>4, <2>1, ChunkStands
  <2> QED BY <2>2 DEF a
<1>9. /\ src \in Seq(Octets) /\ Len(src) \in Nat /\ Len(src) = Len(whole) + 1
      /\ src[Len(whole) + 1] = end /\ \A i \in 1 .. Len(whole) : src[i] = whole[i]
  BY <1>3, <1>4, <1>w
<1>10. ASSUME NEW x \in Nat, NEW part \in Seq(Octets), Stands(whole, x, part) PROVE Stands(src, x, part)
  <2>1. Len(whole) \in Nat /\ Len(part) \in Nat
    BY <1>3
  <2>2. \A i \in 1 .. Len(part) : x + i \in 1 .. Len(whole)
    BY <1>10, <2>1 DEF Stands
  <2> QED BY <1>9, <1>10, <2>1, <2>2, SMTT(30) DEF Stands
<1>11. d < e => Stands(src, at[m] + d, close)
  <2> SUFFICES ASSUME d < e PROVE Stands(src, at[m] + d, close)
    OBVIOUS
  <2>1. d \in 0 .. e - 1 /\ d * Len(close) = d /\ at[m] + d \in Nat
    BY <1>2, <1>4, <1>6
  <2>2. Stands(whole, at[m] + d, close)
    BY <1>8, <2>1
  <2> QED BY <1>4, <1>10, <2>1, <2>2
<1>12. d = e => Stands(src, at[m] + d, inside) /\ at[m + 1] = at[m] + d + Len(inside)
  <2> SUFFICES ASSUME d = e PROVE Stands(src, at[m] + d, inside) /\ at[m + 1] = at[m] + d + Len(inside)
    OBVIOUS
  <2>1. e * Len(close) = e /\ at[m] + d \in Nat /\ Len(inside) \in Nat
    BY <1>2, <1>3, <1>4, <1>6
  <2>2. Stands(whole, at[m] + d, inside)
    BY <1>8, <2>1
  <2>3. at[m] + (e + Len(inside)) = at[m] + d + Len(inside)
    BY <1>2, <1>6, <2>1, SMTT(30)
  <2> QED BY <1>3, <1>6, <1>8, <1>10, <2>1, <2>2, <2>3
<1>13. m = n => inside = <<>> /\ at[m + 1] + 1 = Len(src)
  BY <1>7, <1>9
<1>14. src[Len(src)] = end /\ Len(src) \in 1 .. Len(src)
  <2>1. Len(whole) \in Nat
    BY <1>3
  <2> QED BY <1>9, <2>1
<1> QED BY <1>6, <1>9, <1>11, <1>12, <1>13, <1>14 DEF close, inside, e, n, m

LEMMA ByteOpens ==
  ASSUME NEW listing \in BinaryListings, NEW tag \in {2, 7, 10}, NEW end \in EndTags, NEW at, NEW d,
         Fitting(listing, tag),
         ByteBack(listing, tag, end, at, d), parsed = "reading", d = Ended(listing, Len(nodes) + 1),
         Len(nodes) # Len(listing)
  PROVE  LET node == listing[Len(nodes) + 1]
         IN  /\ ~AtEnd(pos) /\ ~EndTag /\ BinaryKey.ok /\ BinaryKey.token = node.key
             /\ (src[pos] = Zero) <=> IsBlock(node)
             /\ IsBlock(node) => BinaryKey.next = at[Len(nodes) + 1] + 1
             /\ ~IsBlock(node) => /\ BinaryValue.ok /\ BinaryValue.token = node.value
                                  /\ BinaryValue.next = at[Len(nodes) + 1] + 1
<1> DEFINE m == Len(nodes)
           node == listing[m + 1]
           key == node.key
           x == at[m] + d
           inside == ByteBody(listing, tag, m + 1)
           first == IF IsBlock(node) THEN 0 ELSE Tagged(node.value, tag)
           rest == ValueBytes(node.value, tag)
           z == x + 1 + Len(key) + 1
<1>1. Begun(listing, d) /\ pos = x + 1
  BY DEF ByteBack
<1>2. /\ src \in Seq(Octets) /\ Len(src) \in Nat /\ at[m] \in Nat
      /\ Stands(src, x, inside) /\ at[m + 1] = x + Len(inside)
  BY <1>1, ByteStands
<1>3. /\ node \in ByteNodes /\ m + 1 \in 1 .. Len(listing) /\ m \in Nat /\ Len(listing) \in Nat /\ d \in Nat
  <2>1. /\ listing \in Seq(ByteNodes) /\ WellNested(listing) /\ \A k \in 1 .. Len(listing) : listing[k].depth \in Nat
    BY ByteListingIs
  <2>2. Len(listing) \in Nat /\ m \in Nat /\ m <= Len(listing) /\ d \in Nat
    BY <1>1, <2>1, BegunIs
  <2>3. m + 1 \in 1 .. Len(listing)
    BY <2>2
  <2> QED BY <2>2, <2>3, ByteListingIs
<1>4. key \in Seq(Letters) /\ key \in Seq(Octets) /\ (~IsBlock(node) => node.value \in Values)
  <2>1. Letters \subseteq Octets
    BY DEF Letters, Octets
  <2>2. key \in Seq(Letters)
    BY <1>3 DEF ByteNodes
  <2>3. node.value \in [text : Seq(Letters)] \cup [number : Int] \cup {Block}
    BY <1>3 DEF ByteNodes
  <2> QED BY <2>1, <2>2, <2>3 DEF IsBlock, Values
<1>5. ~IsBlock(node) /\ IsNumber(node.value) => Fits(node.value.number, tag)
  BY <1>3 DEF Fitting
<1>6. inside = IF IsBlock(node) THEN <<first>> \o key \o << 0 >>
             ELSE <<first>> \o key \o << 0 >> \o rest
  BY <1>3 DEF ByteBody, ValueBytes
<1>7. x \in Nat
  BY <1>2, <1>3
<1>8. /\ <<first>> \in Seq(Octets) /\ << 0 >> \in Seq(Octets) /\ Len(<<first>>) = 1 /\ Len(<< 0 >>) = 1
      /\ first \in {0, 1, 2, 7, 10} /\ (first = 0 <=> IsBlock(node))
  <2>1. first \in {0, 1, 2, 7, 10} /\ (first = 0 <=> IsBlock(node))
    BY DEF Tagged
  <2> HIDE DEF first
  <2>2. first \in Octets /\ 0 \in Octets
    BY <2>1 DEF Octets
  <2> QED BY <2>1, <2>2
<1>9. ~IsBlock(node) => rest \in Seq(Octets)
  <2> SUFFICES ASSUME ~IsBlock(node) PROVE rest \in Seq(Octets)
    OBVIOUS
  <2> DEFINE value == node.value
             w == IF tag = 2 THEN Half ELSE Full
  <2> HIDE DEF value
  <2>1. CASE ~IsNumber(value)
    <3>1. value.text \in Seq(Letters) /\ Letters \subseteq Octets
      BY <1>4, <2>1, ValuesAre DEF value, Letters, Octets
    <3>2. value.text \in Seq(Octets)
      BY <3>1
    <3>3. value.text \o << 0 >> \in Seq(Octets)
      BY <1>8, <3>2
    <3> QED BY <2>1, <3>3 DEF ValueBytes, value
  <2>2. CASE IsNumber(value)
    <3>1. value.number \in Int /\ w \in Nat
      BY <1>4, <2>2, ValuesAre, VdfAssumption DEF value
    <3> HIDE DEF w
    <3>2. Bytes(value.number, w) \in [1 .. w -> Octets]
      BY <3>1, BytesAre
    <3>3. Bytes(value.number, w) \in Seq(Octets)
      BY <3>1, <3>2
    <3> QED BY <2>2, <3>3 DEF ValueBytes, value, w
  <2> QED BY <2>1, <2>2
<1> HIDE DEF m, node, x, inside, first, rest, key
<1>10. /\ Len(key) \in Nat
       /\ Stands(src, x, <<first>>) /\ Stands(src, x + 1, key) /\ Stands(src, x + 1 + Len(key), << 0 >>)
       /\ IsBlock(node) => Len(inside) = 1 + Len(key) + 1
       /\ ~IsBlock(node) => Stands(src, z, rest) /\ Len(inside) = 1 + Len(key) + 1 + Len(rest) /\ Len(rest) \in Nat
  <2>1. CASE ~IsBlock(node)
    <3>1. rest \in Seq(Octets) /\ Stands(src, x, <<first>> \o key \o << 0 >> \o rest)
      BY <1>2, <1>6, <1>9, <2>1
    <3>2. /\ Len(key) \in Nat /\ Len(rest) \in Nat
          /\ Len(<<first>> \o key \o << 0 >> \o rest) = Len(<<first>>) + Len(key) + Len(<< 0 >>) + Len(rest)
          /\ Stands(src, x, <<first>>) /\ Stands(src, x + Len(<<first>>), key)
          /\ Stands(src, x + Len(<<first>>) + Len(key), << 0 >>)
          /\ Stands(src, x + Len(<<first>>) + Len(key) + Len(<< 0 >>), rest)
      <4> DEFINE p == <<first>>
                 r == << 0 >>
      <4>1. p \in Seq(Octets) /\ r \in Seq(Octets) /\ Stands(src, x, p \o key \o r \o rest)
        BY <1>8, <3>1
      <4> HIDE DEF p, r
      <4>2. /\ Len(key) \in Nat /\ Len(rest) \in Nat
            /\ Len(p \o key \o r \o rest) = Len(p) + Len(key) + Len(r) + Len(rest)
            /\ Stands(src, x, p) /\ Stands(src, x + Len(p), key)
            /\ Stands(src, x + Len(p) + Len(key), r)
            /\ Stands(src, x + Len(p) + Len(key) + Len(r), rest)
        BY <1>2, <1>4, <1>7, <3>1, <4>1, StandsFour
      <4> QED BY <4>2 DEF p, r
    <3>3. inside = <<first>> \o key \o << 0 >> \o rest
      BY <1>6, <2>1
    <3> QED BY <1>8, <2>1, <3>2, <3>3
  <2>2. CASE IsBlock(node)
    <3> DEFINE two == <<first>> \o key
    <3>1. inside = two \o << 0 >>
      BY <1>6, <2>2
    <3>2. two \in Seq(Octets) /\ Len(two) = 1 + Len(key) /\ Len(key) \in Nat
      BY <1>4, <1>8
    <3> HIDE DEF two
    <3>3. Stands(src, x, two) /\ Stands(src, x + Len(two), << 0 >>)
      BY <1>2, <1>7, <1>8, <3>1, <3>2, StandsBoth
    <3>4. Stands(src, x, <<first>>) /\ Stands(src, x + Len(<<first>>), key)
      BY <1>2, <1>4, <1>7, <1>8, <3>3, StandsBoth DEF two
    <3>5. Len(inside) = Len(two) + Len(<< 0 >>)
      BY <1>8, <3>1, <3>2
    <3>6. x + (1 + Len(key)) = x + 1 + Len(key)
      BY <1>7, <3>2
    <3> QED BY <1>8, <2>2, <3>2, <3>3, <3>4, <3>5, <3>6
  <2> QED BY <2>1, <2>2
<1>11. src[pos] = first /\ ~AtEnd(pos)
  <2>1. Len(<<first>>) = 1 /\ 1 \in 1 .. Len(<<first>>) /\ <<first>>[1] = first
    OBVIOUS
  <2>2. x + 1 <= Len(src) /\ src[x + 1] = first
    BY <1>10, <2>1 DEF Stands
  <2> QED BY <1>1, <1>2, <1>7, <2>2 DEF AtEnd, x, m
<1>12. ~EndTag
  BY <1>8, <1>11 DEF EndTag, EndTags
<1>13. BinaryKey.ok /\ BinaryKey.token = key /\ BinaryKey.next = z + 1
  <2> DEFINE a == x + 1
  <2>1. a \in Nat /\ pos + 1 = a + 1 /\ Stands(src, a, key) /\ Stands(src, a + Len(key), << 0 >>)
    BY <1>1, <1>7, <1>10 DEF x, m
  <2> HIDE DEF a
  <2>2. Cstring(a + 1) = [ok |-> TRUE, next |-> a + Len(key) + 2, token |-> key]
    BY <1>2, <1>4, <2>1, CstringReads
  <2>3. a + Len(key) + 2 = z + 1
    BY <1>7, <1>10 DEF a
  <2> QED BY <2>1, <2>2, <2>3 DEF BinaryKey
<1>14. IsBlock(node) => BinaryKey.next = at[m + 1] + 1
  <2> SUFFICES ASSUME IsBlock(node) PROVE BinaryKey.next = at[m + 1] + 1
    OBVIOUS
  <2>1. at[m + 1] = x + (1 + Len(key) + 1)
    BY <1>2, <1>10
  <2>2. \A a, b \in Nat : a + (1 + b + 1) = a + 1 + b + 1
    OBVIOUS
  <2> QED BY <1>7, <1>10, <1>13, <2>1, <2>2
<1>15. ~IsBlock(node) => /\ BinaryValue.ok /\ BinaryValue.token = node.value
                         /\ BinaryValue.next = at[m + 1] + 1
  <2> SUFFICES ASSUME ~IsBlock(node) PROVE /\ BinaryValue.ok /\ BinaryValue.token = node.value
                                           /\ BinaryValue.next = at[m + 1] + 1
    OBVIOUS
  <2> DEFINE value == node.value
  <2>1. /\ value \in Values /\ (IsNumber(value) => Fits(value.number, tag)) /\ z \in Nat
        /\ Stands(src, z, ValueBytes(value, tag)) /\ src[pos] = Tagged(value, tag) /\ BinaryKey.next = z + 1
    <3>1. z \in Nat
      BY <1>7, <1>10
    <3> HIDE DEF z
    <3> QED BY <1>4, <1>5, <1>10, <1>11, <1>13, <3>1 DEF rest, first, z
  <2> HIDE DEF value, z
  <2>2. /\ BinaryValue.ok /\ BinaryValue.token = value
        /\ BinaryValue.next = z + Len(ValueBytes(value, tag)) + 1
    BY <1>2, <2>1, ValueReads
  <2>3. at[m + 1] = z + Len(rest)
    <3>1. at[m + 1] = x + (1 + Len(key) + 1 + Len(rest))
      BY <1>2, <1>10
    <3>2. \A a, b, c \in Nat : a + (1 + b + 1 + c) = a + 1 + b + 1 + c
      OBVIOUS
    <3> QED BY <1>7, <1>10, <3>1, <3>2 DEF z
  <2> QED BY <2>2, <2>3 DEF value, rest
<1> QED BY <1>8, <1>11, <1>12, <1>13, <1>14, <1>15 DEF m, node, key, Zero

LEMMA ByteBackStep ==
  ASSUME NEW listing \in BinaryListings, NEW tag \in {2, 7, 10}, NEW end \in EndTags, NEW at, NEW d,
         Fitting(listing, tag), ByteBack(listing, tag, end, at, d), VdfNext
  PROVE  \E e : ByteBack(listing, tag, end, at, e)'
<1> DEFINE m == Len(nodes)
           e == Ended(listing, m + 1)
           node == listing[m + 1]
           whole == BytesOf(listing, tag)
<1>1. /\ format = "binary" /\ parsed = "reading"
      /\ BinaryEnds \/ BinaryBlockEnds \/ BinaryBlock \/ BinaryLeaf \/ BinaryBad
  <2>1. format = "binary"
    BY DEF ByteBack
  <2> QED BY <2>1 DEF VdfNext, TextEnds, TextBlockEnds, TextBlock, TextLeaf, TextBad,
               BinaryEnds, BinaryBlockEnds, BinaryBlock, BinaryLeaf, BinaryBad, Reads
<1>2. /\ meant = {listing} /\ src = whole \o <<end>>
      /\ Places(at, Len(listing) + 1, ByteRow(listing, tag), whole)
      /\ Begun(listing, d) /\ pos = at[m] + d + 1
  BY <1>1 DEF ByteBack
<1>3. /\ listing \in Seq(ByteNodes) /\ WellNested(listing) /\ \A k \in 1 .. Len(listing) : listing[k].depth \in Nat
  BY ByteListingIs
<1>4. /\ Len(listing) \in Nat /\ m \in Nat /\ m <= Len(listing)
      /\ e \in Nat /\ d \in Nat /\ d <= e
      /\ depth \in Nat /\ (d < e => depth > 0)
      /\ d = e => depth = IF m = Len(listing) THEN 0 ELSE node.depth
  BY <1>2, <1>3, BegunIs
<1>5. ASSUME NEW j, UNCHANGED <<format, meant, src, parsed>>, Begun(listing, j)',
             pos' = at[Len(nodes')] + j + 1
      PROVE  ByteBack(listing, tag, end, at, j)'
  BY <1>1, <1>2, <1>5 DEF ByteBack
<1>6. /\ Len(src) \in Nat /\ at[m] \in Nat /\ at[m + 1] \in Nat
      /\ src[Len(src)] = end /\ Len(src) \in 1 .. Len(src)
      /\ d < e => Stands(src, at[m] + d, << 8 >>)
      /\ d = e => at[m + 1] = at[m] + d + Len(ByteBody(listing, tag, m + 1))
      /\ m = Len(listing) => ByteBody(listing, tag, m + 1) = <<>> /\ at[m + 1] + 1 = Len(src)
  <2> DEFINE inside == ByteBody(listing, tag, m + 1)
  <2>1. /\ src \in Seq(Octets) /\ Len(src) \in Nat /\ at[m] \in Nat /\ at[m + 1] \in Nat
        /\ src[Len(src)] = end /\ Len(src) \in 1 .. Len(src)
        /\ d < e => Stands(src, at[m] + d, << 8 >>)
        /\ d = e => Stands(src, at[m] + d, inside) /\ at[m + 1] = at[m] + d + Len(inside)
        /\ m = Len(listing) => inside = <<>> /\ at[m + 1] + 1 = Len(src)
    BY <1>2, ByteStands, SMTT(30)
  <2> HIDE DEF inside, m, e
  <2> QED BY <2>1 DEF inside
<1>7. CASE d < e
  <2>1. src[pos] = 8 /\ ~AtEnd(pos)
    <3>1. Len(<< 8 >>) = 1 /\ << 8 >>[1] = 8 /\ 1 \in 1 .. Len(<< 8 >>)
      OBVIOUS
    <3>2. at[m] + d + 1 <= Len(src) /\ src[at[m] + d + 1] = 8
      BY <1>6, <1>7, <3>1 DEF Stands
    <3>3. at[m] + d + 1 \in Nat
      BY <1>4, <1>6
    <3>4. src[pos] = 8 /\ pos <= Len(src) /\ pos \in Nat
      BY <1>2, <3>2, <3>3
    <3> QED BY <1>6, <3>4 DEF AtEnd
  <2>2. BinaryBlockEnds
    <3>1. EndTag /\ depth > 0
      BY <1>4, <1>7, <2>1 DEF EndTag, EndTags
    <3>2. depth # 0
      BY <3>1
    <3> QED BY <1>1, <2>1, <3>1, <3>2 DEF BinaryEnds, BinaryBlock, BinaryLeaf, BinaryBad
  <2>3. Closes(pos + 1)
    BY <2>2 DEF BinaryBlockEnds
  <2>4. Begun(listing, d + 1)' /\ nodes' = nodes
    BY <1>2, <1>3, <1>7, <2>3, BegunCloses
  <2>5. UNCHANGED <<format, meant, src, parsed>> /\ pos' = pos + 1
    BY <2>3 DEF Closes
  <2>6. pos' = at[Len(nodes')] + (d + 1) + 1
    <3>1. \A x, y \in Nat : (x + y + 1) + 1 = x + (y + 1) + 1
      OBVIOUS
    <3> QED BY <1>2, <1>4, <1>6, <2>4, <2>5, <3>1
  <2>7. ByteBack(listing, tag, end, at, d + 1)'
    BY <1>5, <2>4, <2>5, <2>6
  <2> QED BY <2>7
<1>8. CASE d = e /\ m = Len(listing)
  <2>1. pos = Len(src) /\ src[pos] = end /\ ~AtEnd(pos) /\ depth = 0
    <3>1. Len(ByteBody(listing, tag, m + 1)) = 0
      BY <1>6, <1>8
    <3>2. at[m + 1] = at[m] + d
      BY <1>4, <1>6, <1>8, <3>1
    <3>3. pos = Len(src)
      BY <1>2, <1>6, <1>8, <3>2
    <3> QED BY <1>4, <1>6, <1>8, <3>3 DEF AtEnd
  <2>2. EndTag /\ ~(depth > 0)
    BY <2>1 DEF EndTag
  <2>3. BinaryEnds
    BY <1>1, <2>1, <2>2 DEF BinaryBlockEnds, BinaryBlock, BinaryLeaf, BinaryBad
  <2>4. parsed' = "ok" /\ UNCHANGED <<format, src, pos, nodes, depth, meant>>
    BY <2>1, <2>3 DEF BinaryEnds, Ends
  <2>5. nodes = listing
    <3>1. nodes = SubSeq(listing, 1, Len(listing))
      BY <1>2, <1>8 DEF Begun
    <3> QED BY <1>3, <3>1
  <2>6. ByteBack(listing, tag, end, at, d)'
    BY <1>1, <1>2, <2>4, <2>5 DEF ByteBack
  <2> QED BY <2>6
<1>9. CASE d = e /\ m # Len(listing)
  <2>1. /\ ~AtEnd(pos) /\ ~EndTag /\ BinaryKey.ok /\ BinaryKey.token = node.key
        /\ (src[pos] = Zero) <=> IsBlock(node)
        /\ IsBlock(node) => BinaryKey.next = at[m + 1] + 1
        /\ ~IsBlock(node) => /\ BinaryValue.ok /\ BinaryValue.token = node.value
                             /\ BinaryValue.next = at[m + 1] + 1
    BY <1>1, <1>9, ByteOpens
  <2>2. node \in ByteNodes /\ node.depth = depth
    <3>1. m + 1 \in 1 .. Len(listing)
      BY <1>4, <1>9
    <3> QED BY <1>3, <1>4, <1>9, <3>1
  <2>3. Node(node.key, node.value) = node
    <3> HIDE DEF node
    <3> QED BY <2>2, NodeIs DEF ByteNodes
  <2>4. Goes(node, IF IsBlock(node) THEN 1 ELSE 0, at[m + 1] + 1)
    <3>1. CASE IsBlock(node)
      <4>1. BinaryBlock
        BY <1>1, <2>1, <3>1 DEF BinaryEnds, BinaryBlockEnds, BinaryLeaf, BinaryBad
      <4>2. Goes(Node(node.key, Block), 1, BinaryKey.next)
        BY <2>1, <4>1 DEF BinaryBlock
      <4>3. node.value = Block
        BY <3>1 DEF IsBlock
      <4> QED BY <2>1, <2>3, <3>1, <4>2, <4>3
    <3>2. CASE ~IsBlock(node)
      <4>1. BinaryLeaf
        BY <1>1, <2>1, <3>2 DEF BinaryEnds, BinaryBlockEnds, BinaryBlock, BinaryBad
      <4>2. Goes(Node(node.key, node.value), 0, BinaryValue.next)
        BY <2>1, <3>2, <4>1 DEF BinaryLeaf
      <4> QED BY <2>1, <2>3, <3>2, <4>2
    <3> QED BY <3>1, <3>2
  <2>5. Begun(listing, 0)' /\ Len(nodes') = m + 1
    BY <1>2, <1>3, <1>9, <2>4, BegunGrows
  <2>6. UNCHANGED <<format, meant, src, parsed>> /\ pos' = at[m + 1] + 1
    BY <2>4 DEF Goes
  <2>7. pos' = at[Len(nodes')] + 0 + 1
    <3>1. at[m + 1] + 0 + 1 = at[m + 1] + 1
      BY <1>6
    <3> QED BY <2>5, <2>6, <3>1
  <2>8. ByteBack(listing, tag, end, at, 0)'
    BY <1>5, <2>5, <2>6, <2>7
  <2> QED BY <2>8
<1> QED BY <1>4, <1>7, <1>8, <1>9

----------------------------------------------------------------------------
\* What was written is read back: the text or the bytes still to read are the
\* rest of the listing.
BackInv ==
  \/ meant = {}
  \/ \E listing \in TextListings, space \in Spaces : \E at, d : TextBack(listing, space, at, d)
  \/ \E listing \in BinaryListings, tag \in {2, 7, 10}, end \in EndTags :
       Fitting(listing, tag) /\ \E at, d : ByteBack(listing, tag, end, at, d)

LEMMA BegunNow ==
  ASSUME NEW S, NEW listing \in Seq(S), WellNested(listing), \A k \in 1 .. Len(listing) : listing[k].depth \in Nat,
         nodes = <<>>, depth = 0
  PROVE  Begun(listing, 0)
<1>1. Len(nodes) = 0 /\ Len(listing) \in Nat /\ SubSeq(listing, 1, 0) = <<>>
  BY Zenon, SMT
<1>2. Ended(listing, 1) \in Nat
  <2>1. 1 \in 1 .. Len(listing) + 1
    BY <1>1
  <2> QED BY <1>1, <2>1, EndedIs
<1>3. Was(listing, 0 + 1) = 0
  BY DEF Was
<1> QED BY <1>1, <1>2, <1>3 DEF Begun

LEMMA BackInit == VdfInit => BackInv
<1> SUFFICES ASSUME VdfInit, meant # {} PROVE BackInv
  BY DEF BackInv
<1>1. pos = 1 /\ nodes = <<>> /\ depth = 0 /\ parsed = "reading" /\ Len(nodes) = 0
  BY DEF VdfInit
<1>2. ASSUME NEW listing \in TextListings, NEW space \in Spaces,
             format = "text", meant = {listing}, src = TextOf(listing, space)
      PROVE  BackInv
  <2>1. /\ listing \in Seq(TextNodes) /\ WellNested(listing) /\ \A k \in 1 .. Len(listing) : listing[k].depth \in Nat
        /\ Len(listing) + 1 \in Nat
    <3>1. listing \in Seq(TextNodes) /\ WellNested(listing)
      BY ListingsAre
    <3>2. \A k \in 1 .. Len(listing) : listing[k] \in TextNodes
      BY <3>1
    <3>3. Len(listing) + 1 \in Nat
      BY <3>1
    <3> QED BY <3>1, <3>2, <3>3 DEF TextNodes
  <2>2. Begun(listing, 0)
    BY <1>1, <2>1, BegunNow
  <2>3. PICK at : Places(at, Len(listing) + 1, TextRow(listing, space), src)
    <3> DEFINE n == Len(listing) + 1
               row == TextRow(listing, space)
    <3>1. row \in [1 .. n -> Seq(Printed)] /\ src = FlattenSeq(row)
      BY <1>2, TextOfIs DEF TextRow
    <3>2. n \in Nat
      BY <2>1
    <3> HIDE DEF n, row
    <3>3. \E at : Places(at, n, row, FlattenSeq(row))
      BY <3>1, <3>2, RowIs
    <3> QED BY <3>1, <3>3 DEF n, row
  <2>4. Near(pos, at[Len(nodes)] + 0 * (Len(space) + 1) + 1, space)
    <3>1. at[0] = 0 /\ Len(space) \in Nat
      BY <2>3, SpacesAre DEF Places
    <3>2. \A x \in Nat : 0 + 0 * (x + 1) + 1 = 1
      OBVIOUS
    <3> QED BY <1>1, <3>1, <3>2 DEF Near
  <2>5. TextBack(listing, space, at, 0)
    BY <1>1, <1>2, <2>2, <2>3, <2>4 DEF TextBack
  <2> QED BY <2>5 DEF BackInv
<1>3. ASSUME NEW listing \in BinaryListings, NEW tag \in {2, 7, 10}, NEW end \in EndTags, Fitting(listing, tag),
             format = "binary", meant = {listing}, src = BytesOf(listing, tag) \o <<end>>
      PROVE  BackInv
  <2>1. /\ listing \in Seq(ByteNodes) /\ WellNested(listing) /\ \A k \in 1 .. Len(listing) : listing[k].depth \in Nat
        /\ Len(listing) + 1 \in Nat
    BY ByteListingIs
  <2>2. Begun(listing, 0)
    BY <1>1, <2>1, BegunNow
  <2>3. PICK at : Places(at, Len(listing) + 1, ByteRow(listing, tag), BytesOf(listing, tag))
    <3> DEFINE n == Len(listing) + 1
               row == ByteRow(listing, tag)
    <3>1. row \in [1 .. n -> Seq(Octets)] /\ BytesOf(listing, tag) = FlattenSeq(row)
      BY BytesOfIs DEF ByteRow
    <3>2. n \in Nat
      BY <2>1
    <3> HIDE DEF n, row
    <3>3. \E at : Places(at, n, row, FlattenSeq(row))
      BY <3>1, <3>2, RowIs
    <3> QED BY <3>1, <3>3 DEF n, row
  <2>4. pos = at[Len(nodes)] + 0 + 1
    <3>1. at[0] = 0
      BY <2>3 DEF Places
    <3> QED BY <1>1, <3>1
  <2>5. ByteBack(listing, tag, end, at, 0)
    BY <1>1, <1>3, <2>2, <2>3, <2>4 DEF ByteBack
  <2> QED BY <1>3, <2>5 DEF BackInv
<1> QED BY <1>2, <1>3 DEF VdfInit, Fitting

LEMMA BackStep == BackInv /\ [VdfNext]_vdfVars => BackInv'
<1> SUFFICES ASSUME BackInv, [VdfNext]_vdfVars PROVE BackInv'
  OBVIOUS
<1>1. CASE UNCHANGED vdfVars
  <2>1. UNCHANGED <<format, src, pos, nodes, depth, parsed, meant>>
    BY <1>1 DEF vdfVars
  <2>2. ASSUME NEW listing, NEW d PROVE Begun(listing, d)' <=> Begun(listing, d)
    BY <2>1 DEF Begun
  <2>3. ASSUME NEW listing, NEW space, NEW at, NEW d, TextBack(listing, space, at, d)
        PROVE  TextBack(listing, space, at, d)'
    BY <2>1, <2>2, <2>3 DEF TextBack, Near
  <2>4. ASSUME NEW listing, NEW tag, NEW end, NEW at, NEW d, ByteBack(listing, tag, end, at, d)
        PROVE  ByteBack(listing, tag, end, at, d)'
    BY <2>1, <2>2, <2>4 DEF ByteBack
  <2> QED BY <2>1, <2>3, <2>4 DEF BackInv
<1>2. CASE VdfNext
  <2>1. CASE meant = {}
    <3>1. meant' = meant
      BY <1>2 DEF VdfNext, TextEnds, TextBlockEnds, TextBlock, TextLeaf, TextBad, BinaryEnds, BinaryBlockEnds,
                  BinaryBlock, BinaryLeaf, BinaryBad, Ends, Goes, Closes
    <3> QED BY <2>1, <3>1 DEF BackInv
  <2>2. ASSUME NEW listing \in TextListings, NEW space \in Spaces, NEW at, NEW d, TextBack(listing, space, at, d)
        PROVE  BackInv'
    <3>1. \E e : TextBack(listing, space, at, e)'
      BY <1>2, <2>2, TextBackStep
    <3> QED BY <3>1 DEF BackInv
  <2>3. ASSUME NEW listing \in BinaryListings, NEW tag \in {2, 7, 10}, NEW end \in EndTags, NEW at, NEW d,
               Fitting(listing, tag), ByteBack(listing, tag, end, at, d)
        PROVE  BackInv'
    <3>1. \E e : ByteBack(listing, tag, end, at, e)'
      BY <1>2, <2>3, ByteBackStep
    <3> QED BY <2>3, <3>1 DEF BackInv
  <2> QED BY <2>1, <2>2, <2>3 DEF BackInv
<1> QED BY <1>1, <1>2

LEMMA BackIs == BackInv => ReadsBack
BY DEF BackInv, TextBack, ByteBack, ReadsBack

\* A document that means something is read as what it means, however long it is
\* and whatever it holds, and is never refused (ReadsBack; vdf.go:74-194,
\* binary.go:29-135).
THEOREM ReadsBackCorrect == VdfSpec => []ReadsBack
BY BackInit, BackStep, BackIs, PTL DEF VdfSpec
=============================================================================
