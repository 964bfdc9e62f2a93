-------------------------- MODULE BlockAssemblyProofs --------------------------
(***************************************************************************)
(* For every template, every percentage of the recipients and every        *)
(* extranonce: a block spends exactly the coinbase value, its root is that *)
(* of its transactions, its lengths, height and amounts are read as they   *)
(* were meant, and the pool's output pays to the pool's address.           *)
(***************************************************************************)
EXTENDS BlockAssembly, SumProofs, SequenceTheorems

\* A node reads back what varIntBuffer wrote.
LEMMA VarIntRoundTrip ==
  ASSUME NEW n \in Nat, n < 65536
  PROVE  ReadVarInt(VarIntBuffer(n)) = n
<1>1. CASE n < 253
  BY <1>1 DEF ReadVarInt, VarIntBuffer
<1>2. CASE n >= 253
  <2>1. VarIntBuffer(n) = <<253, n % 256, n \div 256>>
    BY <1>2 DEF VarIntBuffer
  <2>2. (n % 256) + 256 * (n \div 256) = n
    OBVIOUS
  <2> QED
    BY <2>1, <2>2 DEF ReadVarInt
<1> QED
  BY <1>1, <1>2

-------------------------------------------------------------------------------
(* Numbers as bytes *)

\* One pass of the recursion, for numbers in D.
BytesOf(n, rest) == IF n <= 127 THEN <<n>> ELSE <<n % 256>> \o rest
BytesPass(f, D)  == [n \in D |-> BytesOf(n, f[n \div 256])]

LEMMA Shorter == ASSUME NEW n \in Nat, n > 127 PROVE n \div 256 \in 0 .. n - 1
  OBVIOUS

LEMMA OneByte == ASSUME NEW n \in Nat, n <= 127, NEW a, NEW b PROVE BytesOf(n, a) = BytesOf(n, b)
  BY Zenon DEF BytesOf

LEMMA BytesUpTo == \A n \in Nat : \E f : f = BytesPass(f, 0 .. n)
<1> DEFINE T == {n \in Nat : \E f : f = BytesPass(f, 0 .. n)}
<1>1. 0 \in T
  <2> DEFINE f == [n \in 0 .. 0 |-> BytesOf(n, 0)]
  <2>1. \A n \in 0 .. 0 : BytesOf(n, 0) = BytesOf(n, f[n \div 256])
    BY OneByte
  <2>2. f = BytesPass(f, 0 .. 0)
    BY <2>1 DEF BytesPass
  <2> QED
    BY <2>2
<1>2. ASSUME NEW n \in Nat, n \in T
      PROVE  n + 1 \in T
  <2>1. PICK f : f = BytesPass(f, 0 .. n)
    BY <1>2
  <2> DEFINE g == BytesPass(f, 0 .. n + 1)
  <2>2. ASSUME NEW m \in 0 .. n + 1
        PROVE  BytesOf(m, f[m \div 256]) = BytesOf(m, g[m \div 256])
    <3> DEFINE k == m \div 256
    <3>1. CASE m <= 127
      BY <3>1, OneByte
    <3>2. CASE m > 127
      <4>1. k \in 0 .. n /\ k \in 0 .. n + 1
        BY <3>2, Shorter
      <4> HIDE DEF k
      <4>2. f[k] = BytesOf(k, f[k \div 256])
        BY <2>1, <4>1, Zenon DEF BytesPass
      <4>3. g[k] = BytesOf(k, f[k \div 256])
        BY <4>1, Zenon DEF BytesPass
      <4> QED
        BY <4>2, <4>3 DEF k
    <3> QED
      BY <3>1, <3>2
  <2>3. g = BytesPass(g, 0 .. n + 1)
    BY <2>2 DEF BytesPass
  <2> QED
    BY <2>3
<1> HIDE DEF T
<1>3. \A n \in Nat : n \in T
  BY <1>1, <1>2, Induction, Zenon
<1> QED
  BY <1>3 DEF T

\* Two such functions agree where both are defined.
LEMMA BytesAgree ==
  ASSUME NEW j \in Nat, NEW k \in Nat, NEW f, NEW g,
         f = BytesPass(f, 0 .. j), g = BytesPass(g, 0 .. k), k <= j
  PROVE  f[k] = g[k]
<1> DEFINE T == {n \in Nat : \A m \in 0 .. n : m <= k => f[m] = g[m]}
<1>1. ASSUME NEW m \in 0 .. k
      PROVE  f[m] = BytesOf(m, f[m \div 256]) /\ g[m] = BytesOf(m, g[m \div 256])
  <2>1. m \in 0 .. j
    OBVIOUS
  <2> QED
    BY <2>1, ZenonT(30) DEF BytesPass
<1>2. 0 \in T
  <2>1. f[0] = g[0]
    BY <1>1, OneByte
  <2> QED
    BY <2>1
<1>3. ASSUME NEW n \in Nat, n \in T
      PROVE  n + 1 \in T
  <2> SUFFICES ASSUME NEW m \in 0 .. n + 1, m <= k
               PROVE  f[m] = g[m]
    OBVIOUS
  <2>1. CASE m <= 127
    BY <1>1, <2>1, OneByte
  <2>2. CASE m > 127
    <3>1. f[m \div 256] = g[m \div 256]
      BY <1>3, <2>2, Shorter
    <3> QED
      BY <1>1, <2>2, <3>1
  <2> QED
    BY <2>1, <2>2
<1> HIDE DEF T
<1>4. \A n \in Nat : n \in T
  BY <1>2, <1>3, Induction, Zenon
<1>5. k \in T
  BY <1>4
<1> QED
  BY <1>5 DEF T

\* The recursion defines a function.
LEMMA SignedBytesDef == \A n \in Nat : SignedBytes[n] = BytesOf(n, SignedBytes[n \div 256])
<1> DEFINE F(n) == CHOOSE f : f = BytesPass(f, 0 .. n)
           h == [n \in Nat |-> F(n)[n]]
<1>1. \A n \in Nat : F(n) = BytesPass(F(n), 0 .. n)
  BY BytesUpTo, Zenon
<1> HIDE DEF F
<1>2. ASSUME NEW n \in Nat
      PROVE  h[n] = BytesOf(n, h[n \div 256])
  <2>1. F(n)[n] = BytesOf(n, F(n)[n \div 256])
    <3>1. n \in 0 .. n
      OBVIOUS
    <3>2. BytesPass(F(n), 0 .. n)[n] = BytesOf(n, F(n)[n \div 256])
      BY <3>1, Zenon DEF BytesPass
    <3> QED
      BY <1>1, <3>2, Zenon
  <2>2. CASE n <= 127
    BY <2>1, <2>2, OneByte
  <2>3. CASE n > 127
    <3> DEFINE k == n \div 256
    <3>1. k \in Nat /\ k <= n
      BY <2>3, Shorter
    <3> HIDE DEF k
    <3>2. F(n)[k] = F(k)[k]
      BY <1>1, <3>1, BytesAgree
    <3>3. h[k] = F(k)[k] /\ h[n] = F(n)[n]
      BY <3>1
    <3> HIDE DEF h
    <3> QED
      BY <2>1, <3>2, <3>3 DEF k
  <2> QED
    BY <2>2, <2>3
<1>3. h = [n \in Nat |-> BytesOf(n, h[n \div 256])]
  BY <1>2
<1> HIDE DEF h
<1>4. SignedBytes = [n \in Nat |-> BytesOf(n, SignedBytes[n \div 256])]
  BY <1>3, ZenonT(30) DEF SignedBytes, BytesOf
<1> QED
  BY <1>4, Zenon

LEMMA Prepended ==
  ASSUME NEW x \in Nat, NEW r \in Seq(Nat)
  PROVE  /\ <<x>> \o r \in Seq(Nat) /\ Len(<<x>> \o r) = Len(r) + 1
         /\ (<<x>> \o r)[1] = x
         /\ \A i \in 1 .. Len(r) : (<<x>> \o r)[i + 1] = r[i]
  OBVIOUS

LEMMA BytesOfSmall ==
  ASSUME NEW n \in Nat, n <= 127
  PROVE  SignedBytes[n] \in Seq(Nat) /\ Len(SignedBytes[n]) = 1 /\ SignedBytes[n][1] = n
<1>1. SignedBytes[n] = <<n>>
  BY SignedBytesDef, Zenon DEF BytesOf
<1> QED
  BY <1>1

\* What one more byte in front makes of the bytes r.
OneMore(s, x, r) ==
  /\ s \in Seq(Nat) /\ Len(s) = Len(r) + 1 /\ s[1] = x
  /\ Len(r) >= 1 => s[2] = r[1]
  /\ Len(r) >= 2 => s[3] = r[2]
  /\ Len(r) >= 3 => s[4] = r[3]

LEMMA BytesOfLarge ==
  ASSUME NEW n \in Nat, n > 127, NEW q \in Nat, q = n \div 256, SignedBytes[q] \in Seq(Nat)
  PROVE  OneMore(SignedBytes[n], n % 256, SignedBytes[q])
<1> DEFINE r == SignedBytes[q]
           s == <<n % 256>> \o r
<1>1. ~(n <= 127) /\ n % 256 \in Nat
  OBVIOUS
<1>2. SignedBytes[n] = s
  BY <1>1, SignedBytesDef, Zenon DEF BytesOf
<1>3. r \in Seq(Nat) /\ Len(r) \in Nat
  OBVIOUS
<1> HIDE DEF r
<1>4. /\ s \in Seq(Nat) /\ Len(s) = Len(r) + 1 /\ s[1] = n % 256
      /\ \A i \in 1 .. Len(r) : s[i + 1] = r[i]
  BY <1>1, <1>3, Prepended
<1> HIDE DEF s
<1>5. Len(r) >= 1 => s[1 + 1] = r[1]
  BY <1>3, <1>4
<1>6. Len(r) >= 2 => s[2 + 1] = r[2]
  BY <1>3, <1>4
<1>7. Len(r) >= 3 => s[3 + 1] = r[3]
  BY <1>3, <1>4
<1> QED
  BY <1>2, <1>4, <1>5, <1>6, <1>7 DEF OneMore, r

\* The bytes of a number of up to four are its digits, as many as leave the
\* sign bit of the last one free.
LEMMA BytesByLength ==
  ASSUME NEW n \in Nat, NEW b \in Nat, NEW c \in Nat, NEW d \in Nat,
         b = n \div 256, c = b \div 256, d = c \div 256, d <= 127,
         NEW s, s = SignedBytes[n]
  PROVE  /\ s \in Seq(Nat)
         /\ n <= 127            => Len(s) = 1 /\ s[1] = n
         /\ n > 127 /\ b <= 127 => Len(s) = 2 /\ s[1] = n % 256 /\ s[2] = b
         /\ b > 127 /\ c <= 127 => Len(s) = 3 /\ s[1] = n % 256 /\ s[2] = b % 256 /\ s[3] = c
         /\ c > 127 => /\ Len(s) = 4 /\ s[1] = n % 256 /\ s[2] = b % 256
                       /\ s[3] = c % 256 /\ s[4] = d
<1> DEFINE sb == SignedBytes[b]
           sc == SignedBytes[c]
           sd == SignedBytes[d]
<1>1. (b > 127 => n > 127) /\ (c > 127 => b > 127)
  OBVIOUS
<1>2. sd \in Seq(Nat) /\ Len(sd) = 1 /\ sd[1] = d
  BY BytesOfSmall
<1>3. n <= 127 => s \in Seq(Nat) /\ Len(s) = 1 /\ s[1] = n
  BY BytesOfSmall
<1>4. b <= 127 => sb \in Seq(Nat) /\ Len(sb) = 1 /\ sb[1] = b
  BY BytesOfSmall
<1>5. c <= 127 => sc \in Seq(Nat) /\ Len(sc) = 1 /\ sc[1] = c
  BY BytesOfSmall
<1>6. c > 127 => OneMore(sc, c % 256, sd)
  BY <1>2, BytesOfLarge
<1>7. sc \in Seq(Nat)
  BY <1>5, <1>6 DEF OneMore
<1>8. b > 127 => OneMore(sb, b % 256, sc)
  BY <1>7, BytesOfLarge
<1>9. sb \in Seq(Nat)
  BY <1>4, <1>8 DEF OneMore
<1>10. n > 127 => OneMore(s, n % 256, sb)
  BY <1>9, BytesOfLarge
<1> HIDE DEF sb, sc, sd
<1>11. ASSUME n > 127, b <= 127
       PROVE  s \in Seq(Nat) /\ Len(s) = 2 /\ s[1] = n % 256 /\ s[2] = b
  <2>1. OneMore(s, n % 256, sb) /\ sb \in Seq(Nat) /\ Len(sb) = 1 /\ sb[1] = b
    BY <1>4, <1>10, <1>11
  <2> QED
    BY <2>1 DEF OneMore
<1>12. ASSUME b > 127, c <= 127
       PROVE  s \in Seq(Nat) /\ Len(s) = 3 /\ s[1] = n % 256 /\ s[2] = b % 256 /\ s[3] = c
  <2>1. /\ OneMore(s, n % 256, sb) /\ OneMore(sb, b % 256, sc)
        /\ sc \in Seq(Nat) /\ Len(sc) = 1 /\ sc[1] = c
    BY <1>1, <1>5, <1>8, <1>10, <1>12
  <2> QED
    BY <2>1 DEF OneMore
<1>13. ASSUME c > 127
       PROVE  /\ s \in Seq(Nat) /\ Len(s) = 4 /\ s[1] = n % 256 /\ s[2] = b % 256
              /\ s[3] = c % 256 /\ s[4] = d
  <2>1. /\ OneMore(s, n % 256, sb) /\ OneMore(sb, b % 256, sc) /\ OneMore(sc, c % 256, sd)
        /\ sd \in Seq(Nat) /\ Len(sd) = 1 /\ sd[1] = d
    BY <1>1, <1>2, <1>6, <1>8, <1>10, <1>13
  <2> QED
    BY <2>1, SMTT(30) DEF OneMore
<1>14. s \in Seq(Nat)
  BY <1>3, <1>9, <1>10 DEF OneMore
<1> QED
  BY <1>3, <1>11, <1>12, <1>13, <1>14

Place == <<1, 256, 256 * 256, 256 * 256 * 256>>

LEMMA Places ==
  ASSUME NEW n \in Nat, NEW b \in Nat, NEW c \in Nat, NEW d \in Nat,
         b = n \div 256, c = b \div 256, d = c \div 256
  PROVE  /\ n \div Place[1] = n /\ n \div Place[2] = b
         /\ n \div Place[3] = c /\ n \div Place[4] = d
<1>1. Place[1] = 1 /\ Place[2] = 256 /\ Place[3] = 65536 /\ Place[4] = 16777216
  BY SMT DEF Place
<1>2. n \div 65536 = c /\ n \div 16777216 = d /\ n \div 1 = n
  BY SMT
<1> QED
  BY <1>1, <1>2, SMT

\* The loop of serializeNumber writes what a node would, for any height whose
\* bytes are four at most.
LEMMA HeightPushed ==
  ASSUME NEW n \in Nat \ {0}, ((n \div 256) \div 256) \div 256 <= 127
  PROVE  /\ SerializeNumber(n) = MinimalPush(n)
         /\ SerializeNumber(n) \in Seq(Nat) /\ Len(SerializeNumber(n)) < 10
<1> DEFINE b == n \div 256
           c == b \div 256
           d == c \div 256
           s == SignedBytes[n]
           Digits(l) == [i \in 1 .. l |-> (n \div Place[i]) % 256]
           Fits(l) == n \div Place[l] < 128
           length == CHOOSE l \in 1 .. 4 : Fits(l) /\ (l > 1 => ~Fits(l - 1))
<1>1. /\ b \in Nat /\ c \in Nat /\ d \in Nat /\ d <= 127
      /\ (b > 127 => n > 127) /\ (c > 127 => b > 127)
      /\ (n <= 127 => b = 0) /\ (b <= 127 => c = 0) /\ (c <= 127 => d = 0)
  OBVIOUS
<1>2. /\ s \in Seq(Nat)
      /\ n <= 127            => Len(s) = 1 /\ s[1] = n
      /\ n > 127 /\ b <= 127 => Len(s) = 2 /\ s[1] = n % 256 /\ s[2] = b
      /\ b > 127 /\ c <= 127 => Len(s) = 3 /\ s[1] = n % 256 /\ s[2] = b % 256 /\ s[3] = c
      /\ c > 127 => /\ Len(s) = 4 /\ s[1] = n % 256 /\ s[2] = b % 256
                    /\ s[3] = c % 256 /\ s[4] = d
  BY <1>1, BytesByLength, SMTT(30)
<1>3. /\ n \div Place[1] = n /\ n \div Place[2] = b
      /\ n \div Place[3] = c /\ n \div Place[4] = d
  BY <1>1, Places
<1> HIDE DEF b, c, d, s
<1>4. /\ Fits(1) <=> n < 128
      /\ Fits(2) <=> b < 128
      /\ Fits(3) <=> c < 128
      /\ Fits(4) <=> d < 128
  BY <1>3
<1>5. Fits(4)
  BY <1>1, <1>4
<1> HIDE DEF Fits
<1>6. /\ n <= 127 => length = 1
      /\ n > 127 /\ b <= 127 => length = 2
      /\ b > 127 /\ c <= 127 => length = 3
      /\ c > 127 => length = 4
  BY <1>1, <1>4, <1>5
<1> HIDE DEF length
<1> DEFINE DigitsOf(l) == Len(s) = l /\ \A i \in 1 .. l : s[i] = (n \div Place[i]) % 256
<1>7. DigitsOf(length) /\ length \in 1 .. 4
  <2>1. CASE n <= 127
    <3>1. length = 1 /\ Len(s) = 1 /\ s[1] = (n \div Place[1]) % 256
      BY <1>1, <1>2, <1>3, <1>6, <2>1
    <3> QED
      BY <3>1
  <2>2. CASE n > 127 /\ b <= 127
    <3>1. length = 2 /\ Len(s) = 2 /\ s[1] = n % 256 /\ s[2] = b
      BY <1>2, <1>6, <2>2
    <3>2. b = b % 256
      BY <1>1, <2>2
    <3>3. s[1] = (n \div Place[1]) % 256 /\ s[2] = (n \div Place[2]) % 256
      BY <3>1, <3>2, <1>3
    <3> QED
      BY <3>1, <3>3
  <2>3. CASE b > 127 /\ c <= 127
    <3>1. length = 3 /\ Len(s) = 3 /\ s[1] = n % 256 /\ s[2] = b % 256 /\ s[3] = c
      BY <1>2, <1>6, <2>3
    <3>2. c = c % 256
      BY <1>1, <2>3
    <3>3. /\ s[1] = (n \div Place[1]) % 256 /\ s[2] = (n \div Place[2]) % 256
          /\ s[3] = (n \div Place[3]) % 256
      BY <3>1, <3>2, <1>3
    <3> QED
      BY <3>1, <3>3
  <2>4. CASE c > 127
    <3>1. /\ length = 4 /\ Len(s) = 4 /\ s[1] = n % 256 /\ s[2] = b % 256
          /\ s[3] = c % 256 /\ s[4] = d
      BY <1>2, <1>6, <2>4
    <3>2. d = d % 256
      BY <1>1
    <3>3. /\ s[1] = (n \div Place[1]) % 256 /\ s[2] = (n \div Place[2]) % 256
          /\ s[3] = (n \div Place[3]) % 256 /\ s[4] = (n \div Place[4]) % 256
      BY <3>1, <3>2, <1>3
    <3> QED
      BY <3>1, <3>3
  <2> QED
    BY <1>1, <2>1, <2>2, <2>3, <2>4
<1>8. Len(s) = length /\ length \in 1 .. 4
  BY <1>7
<1>9. s = Digits(length)
  BY <1>2, <1>7
<1>10. SerializeNumber(n) = IF n \in 1 .. 16 THEN <<80 + n>> ELSE <<Len(s)>> \o s
  BY DEF SerializeNumber, s
<1>11. MinimalPush(n) = IF n \in 1 .. 16 THEN <<80 + n>> ELSE <<length>> \o Digits(length)
  BY Zenon DEF MinimalPush, length, Fits, Place
<1>12. SerializeNumber(n) = MinimalPush(n)
  BY <1>8, <1>9, <1>10, <1>11
<1>13. CASE n \in 1 .. 16
  BY <1>10, <1>12, <1>13
<1>14. CASE n \notin 1 .. 16
  <2>1. SerializeNumber(n) = <<Len(s)>> \o s /\ Len(s) \in Nat /\ Len(s) <= 4
    BY <1>8, <1>10, <1>14
  <2> QED
    BY <2>1, <1>2, <1>12, Prepended
<1> QED
  BY <1>13, <1>14

-------------------------------------------------------------------------------

LEMMA ThreeParts ==
  ASSUME NEW a \in Seq(Nat), NEW b \in Seq(Nat), NEW c \in Seq(Nat)
  PROVE  Len(a \o b \o c) = Len(a) + Len(b) + Len(c)
<1>1. a \o b \in Seq(Nat) /\ Len(a \o b) = Len(a) + Len(b)
  OBVIOUS
<1> QED
  BY <1>1

Early == {"tree", "payments", "recipients"}

\* What is paid out and what is left to the pool are together the coinbase
\* value, until the pool is paid what is left.
Balance ==
  /\ {reward, left, paid} \subseteq Int
  /\ paid + (IF step \in Early THEN left ELSE 0) = rpc.coinbasevalue

\* Each pass of a loop adds at most one output.
FewOutputs ==
  LET payments == Len(rpc.payments)
      all      == payments + 1 + Len(RewardRecipients)
  IN  /\ todo \in Seq(Nat) /\ outputs \in Seq(Int)
      /\ step = "tree"       => outputs = <<>>
      /\ step = "payments"   => Len(outputs) + Len(todo) <= payments
      /\ step = "recipients" => Len(outputs) + Len(todo) <= all
      /\ step \in {"ready", "block"} => Len(outputs) <= all + 2

AssemblyInv ==
  /\ rpc \in Templates
  /\ step \in Early \cup {"ready", "block"}
  /\ Balance /\ FewOutputs /\ LengthsRead

LEMMA TemplateFacts ==
  ASSUME NEW t \in Templates
  PROVE  /\ t.coinbasevalue \in Nat /\ t.payments \in Seq(Nat) /\ t.payee_amount \in Nat
         /\ t.transactions \in Seq(Seq(Nat)) /\ Len(t.transactions) < 65535
         /\ Len(t.payments) + Len(RewardRecipients) < 65532
         /\ SerializeNumber(t.height) \in Seq(Nat) /\ Len(SerializeNumber(t.height)) < 10
         /\ SerializeNumber(t.height) = MinimalPush(t.height)
         /\ RewardRecipients \in Seq(Nat)
<1> DEFINE h == t.height
<1>1. h \in Nat \ {0} /\ h <= MaxNumber
  BY TemplatesAssumption, SizesAssumption DEF TemplatesAssumption, SizesAssumption
<1> HIDE DEF h
<1>2. ((h \div 256) \div 256) \div 256 <= 127
  BY <1>1, SMT DEF MaxNumber
<1>3. /\ SerializeNumber(h) = MinimalPush(h)
      /\ SerializeNumber(h) \in Seq(Nat) /\ Len(SerializeNumber(h)) < 10
  BY <1>1, <1>2, HeightPushed
<1> QED
  BY <1>3, TemplatesAssumption, SizesAssumption DEF TemplatesAssumption, SizesAssumption, h

LEMMA InvInit == AssemblyInit => AssemblyInv
<1> SUFFICES ASSUME AssemblyInit
             PROVE  AssemblyInv
  OBVIOUS
<1>1. rpc \in Templates /\ step = "tree" /\ paid = 0 /\ left = rpc.coinbasevalue
      /\ reward = rpc.coinbasevalue /\ todo = <<>> /\ outputs = <<>>
  BY DEF AssemblyInit
<1>2. rpc.coinbasevalue \in Nat
  BY <1>1, TemplateFacts
<1> QED
  BY <1>1, <1>2 DEF AssemblyInv, Balance, FewOutputs, LengthsRead, Early

\* An output of amount that is taken off the pool's part.
LEMMA PushKeeps ==
  ASSUME FewOutputs, Balance, step \in Early, NEW amount \in Int, Push(amount),
         left' = left - amount, UNCHANGED rpc
  PROVE  /\ outputs' \in Seq(Int) /\ Len(outputs') = Len(outputs) + 1
         /\ left' \in Int /\ paid' \in Int /\ paid' + left' = rpc'.coinbasevalue
  BY DEF FewOutputs, Balance, Push

LEMMA InvPayments ==
  ASSUME AssemblyInv, PayPayment \/ PayPayee \/ PayRecipient
  PROVE  AssemblyInv'
<1>1. /\ rpc \in Templates /\ reward \in Int /\ left \in Int /\ paid \in Int
      /\ todo \in Seq(Nat) /\ outputs \in Seq(Int)
  BY DEF AssemblyInv, Balance, FewOutputs
<1>2. /\ Len(rpc.payments) \in Nat /\ Len(RewardRecipients) \in Nat
      /\ RewardRecipients \in Seq(Nat) /\ rpc.payee_amount \in Nat
  BY <1>1, TemplateFacts
<1>3. CASE PayPayment
  <2>1. /\ step = "payments" /\ step' = "payments" /\ rpc' = rpc
        /\ todo # <<>> /\ todo' = Tail(todo)
        /\ PayFixed(Head(todo))
    BY <1>3 DEF PayPayment
  <2>2. Head(todo) \in Int /\ todo' \in Seq(Nat) /\ Len(todo') = Len(todo) - 1
    BY <2>1, <1>1
  <2>3. /\ outputs' \in Seq(Int) /\ Len(outputs') = Len(outputs) + 1
        /\ left' \in Int /\ paid' \in Int /\ paid' + left' = rpc'.coinbasevalue
    BY <2>1, <2>2, PushKeeps DEF PayFixed, Early, AssemblyInv
  <2>4. reward' \in Int
    BY <2>1, <2>2, <1>1 DEF PayFixed
  <2>5. Balance'
    BY <2>1, <2>3, <2>4 DEF Balance, Early
  <2>6. Len(outputs) + Len(todo) <= Len(rpc.payments)
    BY <2>1 DEF AssemblyInv, FewOutputs
  <2>7. FewOutputs'
    <3>1. Len(outputs') + Len(todo') <= Len(rpc'.payments)
      <4>1. Len(outputs) \in Nat /\ Len(todo) \in Nat
        BY <1>1
      <4> QED
        BY <2>1, <2>2, <2>3, <2>6, <4>1, SMTT(30)
    <3> QED
      BY <2>1, <2>2, <2>3, <3>1, Zenon DEF FewOutputs
  <2> QED
    BY <2>1, <2>5, <2>7, <1>1 DEF AssemblyInv, LengthsRead, Early
<1>4. CASE PayPayee
  <2>1. /\ step = "payments" /\ step' = "recipients" /\ rpc' = rpc
        /\ todo = <<>> /\ todo' = RewardRecipients
        /\ Len(outputs) <= Len(rpc.payments)
    BY <1>4, <1>1 DEF PayPayee, AssemblyInv, FewOutputs
  <2>2. /\ outputs' \in Seq(Int) /\ Len(outputs') <= Len(outputs) + 1
        /\ left' \in Int /\ paid' \in Int /\ paid' + left' = rpc'.coinbasevalue
        /\ reward' \in Int
    <3>1. CASE rpc.payee
      <4>1. PayFixed(PayeeReward) /\ PayeeReward \in Int
        BY <1>1, <1>2, <1>4, <3>1 DEF PayPayee, PayeeReward
      <4> QED
        BY <4>1, <2>1, <1>1, PushKeeps DEF PayFixed, Early, AssemblyInv
    <3>2. CASE ~rpc.payee
      BY <3>2, <2>1, <1>1, <1>4 DEF PayPayee, AssemblyInv, Balance, Early
    <3> QED
      BY <3>1, <3>2
  <2> QED
    BY <2>1, <2>2, <1>1, <1>2 DEF AssemblyInv, Balance, FewOutputs, LengthsRead, Early
<1>5. CASE PayRecipient
  <2> DEFINE amount == RecipientReward(Head(todo), reward)
  <2>1. /\ step = "recipients" /\ step' = "recipients" /\ rpc' = rpc /\ reward' = reward
        /\ todo # <<>> /\ todo' = Tail(todo)
        /\ Push(amount) /\ left' = left - amount
    BY <1>5 DEF PayRecipient
  <2>2. amount \in Int /\ todo' \in Seq(Nat) /\ Len(todo') = Len(todo) - 1
    <3>1. Head(todo) \in Nat
      BY <2>1, <1>1
    <3> QED
      BY <3>1, <2>1, <1>1 DEF RecipientReward
  <2> HIDE DEF amount
  <2>3. /\ outputs' \in Seq(Int) /\ Len(outputs') = Len(outputs) + 1
        /\ left' \in Int /\ paid' \in Int /\ paid' + left' = rpc'.coinbasevalue
    BY <2>1, <2>2, PushKeeps DEF Early, AssemblyInv
  <2>4. Balance'
    BY <2>1, <2>3, <1>1 DEF Balance, Early
  <2>5. Len(outputs) + Len(todo) <= Len(rpc.payments) + 1 + Len(RewardRecipients)
    BY <2>1 DEF AssemblyInv, FewOutputs
  <2>6. FewOutputs'
    <3>1. Len(outputs') + Len(todo') <= Len(rpc'.payments) + 1 + Len(RewardRecipients)
      <4>1. Len(outputs) \in Nat /\ Len(todo) \in Nat
        BY <1>1
      <4>2. /\ rpc' = rpc /\ Len(outputs') = Len(outputs) + 1
            /\ Len(todo') = Len(todo) - 1
        BY <2>1, <2>2, <2>3
      <4> QED
        BY <2>5, <1>2, <4>1, <4>2
    <3> QED
      BY <2>1, <2>2, <2>3, <3>1, Zenon DEF FewOutputs
  <2> QED
    BY <2>1, <2>4, <2>6, <1>1 DEF AssemblyInv, LengthsRead, Early
<1> QED
  BY <1>3, <1>4, <1>5

\* The commitment is of no value, so that the pool's output settles the balance.
LEMMA InvPool == ASSUME AssemblyInv, PayPool PROVE AssemblyInv'
<1>1. /\ rpc \in Templates /\ reward \in Int /\ left \in Int /\ paid \in Int
      /\ todo = <<>> /\ outputs \in Seq(Int) /\ paid + left = rpc.coinbasevalue
      /\ Len(outputs) <= Len(rpc.payments) + 1 + Len(RewardRecipients)
  BY DEF PayPool, AssemblyInv, Balance, FewOutputs, Early
<1>2. Len(rpc.payments) \in Nat /\ Len(RewardRecipients) \in Nat
  BY <1>1, TemplateFacts
<1>3. /\ step' = "ready" /\ UNCHANGED <<rpc, todo, reward, left>>
      /\ paid' = paid + left /\ outputs' = FrontOutputs \o outputs
  BY DEF PayPool
<1>4. FrontOutputs \in Seq(Int) /\ Len(FrontOutputs) <= 2
  BY <1>1 DEF FrontOutputs
<1>5. outputs' \in Seq(Int) /\ Len(outputs') <= Len(outputs) + 2
  BY <1>1, <1>3, <1>4
<1>6. todo' \in Seq(Nat)
  BY <1>1, <1>3
<1> QED
  BY <1>1, <1>2, <1>3, <1>5, <1>6 DEF AssemblyInv, Balance, FewOutputs, LengthsRead, Early

\* The script is as long as was announced since only an extranonce2 that fills
\* the placeholder gets here.
LEMMA InvBlock ==
  ASSUME AssemblyInv, NEW size \in NonceSizes, AssembleBlock(size)
  PROVE  AssemblyInv'
<1>1. /\ step = "ready" /\ step' = "block" /\ size = 4
      /\ UNCHANGED <<rpc, todo, reward, left, outputs, paid>>
  BY DEF AssembleBlock, RightSize, ExtraNonce2Size, PlaceholderSize, ExtraNonce1Size
<1>2. rpc \in Templates /\ outputs \in Seq(Int)
      /\ Len(outputs) <= Len(rpc.payments) + 3 + Len(RewardRecipients)
  BY <1>1, TemplateFacts DEF AssemblyInv, FewOutputs
<1>3. /\ Len(rpc.transactions) + 1 \in Nat /\ Len(rpc.transactions) + 1 < 65536
      /\ Len(outputs) \in Nat /\ Len(outputs) < 65536
  <2>1. /\ rpc.transactions \in Seq(Seq(Nat)) /\ Len(rpc.transactions) < 65535
        /\ rpc.payments \in Seq(Nat) /\ RewardRecipients \in Seq(Nat)
        /\ Len(rpc.payments) + Len(RewardRecipients) < 65532
    BY <1>2, TemplateFacts
  <2>2. /\ Len(rpc.transactions) \in Nat /\ Len(outputs) \in Nat
        /\ Len(rpc.payments) \in Nat /\ Len(RewardRecipients) \in Nat
    BY <2>1, <1>2
  <2> QED
    BY <2>1, <2>2, <1>2
<1> DEFINE height == SerializeNumber(rpc.height)
           script == ScriptSigPart1 \o [i \in 1 .. ExtraNonce1Size + size |-> 0]
                     \o ScriptSigPart2
           amounts == [i \in DOMAIN outputs |-> PackInt64LE(outputs[i])]
<1>4. ScriptLength \in Nat /\ ScriptLength < 65536 /\ Len(script) = ScriptLength
  <2>1. height \in Seq(Nat) /\ Len(height) < 10
    BY <1>2, TemplateFacts
  <2> HIDE DEF height
  <2>2. /\ ScriptSigPart1 \in Seq(Nat) /\ Len(ScriptSigPart1) = Len(height) + 6
    BY <2>1 DEF ScriptSigPart1, height
  <2>3. /\ ScriptSigPart2 \in Seq(Nat) /\ Len(ScriptSigPart2) = 14
    BY DEF ScriptSigPart2
  <2> DEFINE nonces == [i \in 1 .. ExtraNonce1Size + size |-> 0]
  <2>4. nonces \in Seq(Nat) /\ Len(nonces) = 8
    BY <1>1 DEF ExtraNonce1Size
  <2>5. script = ScriptSigPart1 \o nonces \o ScriptSigPart2
    OBVIOUS
  <2> HIDE DEF nonces, script
  <2>6. Len(script) = Len(ScriptSigPart1) + 8 + 14
    <3>1. Len(ScriptSigPart1 \o nonces \o ScriptSigPart2)
            = Len(ScriptSigPart1) + Len(nonces) + Len(ScriptSigPart2)
      BY <2>2, <2>3, <2>4, ThreeParts, Zenon
    <3> QED
      BY <3>1, <2>3, <2>4, <2>5
  <2>7. Len(height) \in Nat
    BY <2>1
  <2> QED
    BY <2>1, <2>2, <2>3, <2>6, <2>7 DEF ScriptLength, PlaceholderSize
<1>5. Len(amounts) = Len(outputs)
  BY <1>2
<1>6. /\ block'.count = VarIntBuffer(Len(rpc.transactions) + 1)
      /\ block'.scriptLength = VarIntBuffer(ScriptLength)
      /\ block'.script = script
      /\ block'.outputCount = VarIntBuffer(Len(outputs))
      /\ block'.amounts = amounts
  BY DEF AssembleBlock
<1> HIDE DEF script, amounts
<1>7. LengthsRead'
  <2>1. /\ ReadVarInt(VarIntBuffer(Len(rpc.transactions) + 1)) = Len(rpc.transactions) + 1
        /\ ReadVarInt(VarIntBuffer(ScriptLength)) = ScriptLength
        /\ ReadVarInt(VarIntBuffer(Len(outputs))) = Len(outputs)
    BY <1>3, <1>4, VarIntRoundTrip
  <2> QED
    BY <2>1, <1>1, <1>4, <1>5, <1>6 DEF LengthsRead
<1> QED
  BY <1>1, <1>7 DEF AssemblyInv, Balance, FewOutputs, Early

LEMMA InvStep == AssemblyInv /\ [AssemblyNext]_assemblyVars => AssemblyInv'
<1> SUFFICES ASSUME AssemblyInv, [AssemblyNext]_assemblyVars
             PROVE  AssemblyInv'
  OBVIOUS
<1>1. CASE MerkleStep
  BY <1>1 DEF MerkleStep, AssemblyInv, Balance, FewOutputs, LengthsRead
<1>2. CASE StartOutputs
  <2>1. /\ rpc.payments \in Seq(Nat) /\ Len(rpc.payments) \in Nat
    BY TemplateFacts DEF AssemblyInv
  <2> QED
    BY <1>2, <2>1 DEF StartOutputs, AssemblyInv, Balance, FewOutputs, LengthsRead, Early
<1>3. CASE PayPayment \/ PayPayee \/ PayRecipient
  BY <1>3, InvPayments
<1>4. CASE PayPool
  BY <1>4, InvPool
<1>5. ASSUME NEW size \in NonceSizes, AssembleBlock(size)
      PROVE  AssemblyInv'
  BY <1>5, InvBlock
<1>6. CASE UNCHANGED assemblyVars
  BY <1>6 DEF assemblyVars, AssemblyInv, Balance, FewOutputs, LengthsRead
<1> QED
  BY <1>1, <1>2, <1>3, <1>4, <1>5, <1>6 DEF AssemblyNext

LEMMA AssemblyInvariant == AssemblySpec => []AssemblyInv
  BY InvInit, InvStep, PTL DEF AssemblySpec

(***************************************************************************)
(* A node reads as many transactions, outputs and script bytes as there    *)
(* are, for every template of up to 0xffff of them and every extranonce    *)
(* size a miner may send (processShare refuses all but one).               *)
(***************************************************************************)
THEOREM LengthsAlwaysRead == AssemblySpec => []LengthsRead
<1>1. AssemblyInv => LengthsRead
  BY DEF AssemblyInv
<1> QED
  BY <1>1, AssemblyInvariant, PTL

(***************************************************************************)
(* The amounts generateOutputTransactions pushes are together exactly the  *)
(* coinbase value, whatever is floored and rounded on the way, for all     *)
(* payments, percentages and values.                                       *)
(***************************************************************************)
THEOREM AlwaysSpendsItAll == AssemblySpec => []SpendsItAll
<1>1. AssemblyInv => SpendsItAll
  BY DEF AssemblyInv, Balance, SpendsItAll, Early
<1> QED
  BY <1>1, AssemblyInvariant, PTL

-------------------------------------------------------------------------------
\* A set of indices has a greatest.
LEMMA MaxIn ==
  ASSUME NEW n \in Nat, NEW t \in SUBSET (1 .. n), t # {}
  PROVE  Max(t) \in t /\ \A y \in t : Max(t) >= y
<1> DEFINE below == {n - x : x \in t}
<1>1. below \subseteq Nat /\ below # {}
  <2>1. ASSUME NEW x \in t PROVE n - x \in Nat
    <3>1. x \in Int /\ 1 <= x /\ x <= n
      OBVIOUS
    <3> QED
      BY <3>1
  <2>2. PICK x \in t : TRUE
    OBVIOUS
  <2>3. n - x \in below
    OBVIOUS
  <2>4. \A m \in below : m \in Nat
    BY <2>1
  <2> QED
    BY <2>3, <2>4, Zenon
<1>2. PICK m \in below : \A y \in below : ~ (<<y, m>> \in OpToRel(<, Nat))
  BY <1>1, NatLessThanWellFounded, WFMin, Zenon
<1>3. \A y \in below : ~(y < m)
  BY <1>1, <1>2 DEF OpToRel
<1>4. PICK x \in t : m = n - x
  OBVIOUS
<1>5. ASSUME NEW y \in t PROVE x >= y
  <2>1. n - y \in below
    OBVIOUS
  <2>2. ~(n - y < n - x)
    BY <1>3, <1>4, <2>1, Zenon
  <2>3. x \in Int /\ y \in Int
    OBVIOUS
  <2> HIDE DEF below
  <2> QED
    BY <2>2, <2>3
<1> QED
  BY <1>4, <1>5, Zenon DEF Max
-------------------------------------------------------------------------------
(* The steps of the tree folded up *)

JoinedBy(first, s) ==
  CHOOSE f : f = [t \in SUBSET DOMAIN s |->
                    IF t = {} THEN first ELSE LET x == Max(t) IN MerkleJoin(f[t \ {x}], s[x])]

LEMMA WithFirstJoins ==
  ASSUME NEW first, NEW s
  PROVE  WithFirst(first, s) = JoinedBy(first, s)[DOMAIN s]
  BY Zenon DEF WithFirst, FoldLeft, MapThenFoldSet, JoinedBy

JoinPass(first, s, f, D) ==
  [t \in D |-> IF t = {} THEN first ELSE MerkleJoin(f[t \ {Max(t)}], s[Max(t)])]

LEMMA JoinsExist ==
  ASSUME NEW first, NEW s, NEW l \in Nat
  PROVE  \A n \in Nat : \E f : f = JoinPass(first, s, f, UpTo(1 .. l, n))
<1> DEFINE D == 1 .. l
           T == {n \in Nat : \E f : f = JoinPass(first, s, f, UpTo(D, n))}
<1>1. ASSUME NEW t \in SUBSET D, t # {}
      PROVE  /\ t \ {Max(t)} \in SUBSET D
             /\ Cardinality(t) \in Nat /\ Cardinality(t \ {Max(t)}) \in Nat
             /\ Cardinality(t \ {Max(t)}) = Cardinality(t) - 1
  <2>1. Max(t) \in t
    BY <1>1, MaxIn
  <2>2. IsFiniteSet(1 .. l)
    BY FS_Interval
  <2>3. IsFiniteSet(t)
    BY <2>2, FS_Subset
  <2> HIDE DEF D
  <2> DEFINE m == Max(t)
  <2> HIDE DEF m
  <2>4. IsFiniteSet(t \ {m}) /\ Cardinality(t \ {m}) = Cardinality(t) - 1
    <3>1. m \in t
      BY <2>1 DEF m
    <3> QED
      BY <3>1, <2>3, FS_RemoveElement
  <2>5. Cardinality(t) \in Nat /\ Cardinality(t \ {m}) \in Nat
    BY <2>3, <2>4, FS_CardinalityType
  <2> QED
    BY <2>4, <2>5 DEF m
<1>2. 0 \in T
  <2> DEFINE f == [t \in UpTo(D, 0) |-> first]
  <2>1. \A t \in UpTo(D, 0) : t = {}
    <3> SUFFICES ASSUME NEW t \in SUBSET D, Cardinality(t) <= 0, t # {}
                 PROVE  FALSE
      BY DEF UpTo
    <3>1. /\ Cardinality(t) \in Nat /\ Cardinality(t \ {Max(t)}) \in Nat
          /\ Cardinality(t \ {Max(t)}) = Cardinality(t) - 1
      BY <1>1
    <3> QED
      BY <3>1
  <2>2. f = JoinPass(first, s, f, UpTo(D, 0))
    BY <2>1 DEF JoinPass
  <2> QED
    BY <2>2
<1>3. ASSUME NEW n \in Nat, n \in T
      PROVE  n + 1 \in T
  <2>1. PICK f : f = JoinPass(first, s, f, UpTo(D, n))
    BY <1>3
  <2> DEFINE g == JoinPass(first, s, f, UpTo(D, n + 1))
  <2>2. ASSUME NEW t \in UpTo(D, n + 1), t # {}
        PROVE  f[t \ {Max(t)}] = g[t \ {Max(t)}]
    <3> DEFINE u == t \ {Max(t)}
    <3>0. t \in SUBSET D /\ Cardinality(t) <= n + 1
      BY DEF UpTo
    <3>4. /\ u \in SUBSET D /\ Cardinality(t) \in Nat
          /\ Cardinality(u) \in Nat /\ Cardinality(u) = Cardinality(t) - 1
      BY <1>1, <2>2, <3>0
    <3> HIDE DEF u, D
    <3>1. u \in UpTo(D, n) /\ u \in UpTo(D, n + 1)
      BY <3>0, <3>4 DEF UpTo
    <3>2. f[u] = IF u = {} THEN first ELSE MerkleJoin(f[u \ {Max(u)}], s[Max(u)])
      BY <2>1, <3>1, Zenon DEF JoinPass
    <3>3. g[u] = IF u = {} THEN first ELSE MerkleJoin(f[u \ {Max(u)}], s[Max(u)])
      BY <3>1, Zenon DEF JoinPass
    <3>5. f[u] = g[u]
      BY <3>2, <3>3
    <3> QED
      BY <3>5 DEF u
  <2>3. g = JoinPass(first, s, g, UpTo(D, n + 1))
    BY <2>2 DEF JoinPass
  <2> QED
    BY <2>3
<1> HIDE DEF T
<1>4. \A n \in Nat : n \in T
  BY <1>2, <1>3, Induction, Zenon
<1> QED
  BY <1>4 DEF T

LEMMA JoinsEquation ==
  ASSUME NEW first, NEW s, NEW l \in Nat, DOMAIN s = 1 .. l
  PROVE  JoinedBy(first, s) = JoinPass(first, s, JoinedBy(first, s), SUBSET DOMAIN s)
<1> DEFINE D == 1 .. l
<1>1. IsFiniteSet(D)
  BY FS_Interval
<1>2. UpTo(D, Cardinality(D)) = SUBSET D /\ Cardinality(D) \in Nat
  BY <1>1, FS_Subset, FS_CardinalityType DEF UpTo
<1>3. PICK f : f = JoinPass(first, s, f, SUBSET DOMAIN s)
  <2>2. \A n \in Nat : \E f : f = JoinPass(first, s, f, UpTo(D, n))
    BY JoinsExist
  <2> HIDE DEF D
  <2>1. \E f : f = JoinPass(first, s, f, UpTo(D, Cardinality(D)))
    BY <1>2, <2>2
  <2>3. PICK f : f = JoinPass(first, s, f, UpTo(D, Cardinality(D)))
    BY <2>1
  <2> QED
    BY <1>2, <2>3 DEF D
<1>4. f = [t \in SUBSET DOMAIN s |->
             IF t = {} THEN first ELSE LET x == Max(t) IN MerkleJoin(f[t \ {x}], s[x])]
  BY <1>3, Zenon DEF JoinPass
<1>5. JoinedBy(first, s) = [t \in SUBSET DOMAIN s |->
         IF t = {} THEN first
         ELSE LET x == Max(t) IN MerkleJoin(JoinedBy(first, s)[t \ {x}], s[x])]
  BY <1>4, Zenon DEF JoinedBy
<1> QED
  BY <1>5, Zenon DEF JoinPass

LEMMA JoinedNone ==
  ASSUME NEW first, NEW s, NEW l \in Nat, DOMAIN s = 1 .. l
  PROVE  JoinedBy(first, s)[{}] = first
<1>1. {} \in SUBSET DOMAIN s
  OBVIOUS
<1> QED
  BY <1>1, JoinsEquation, Zenon DEF JoinPass

LEMMA JoinedSome ==
  ASSUME NEW first, NEW s, NEW l \in Nat, DOMAIN s = 1 .. l,
         NEW t \in SUBSET DOMAIN s, t # {}
  PROVE  JoinedBy(first, s)[t] = MerkleJoin(JoinedBy(first, s)[t \ {Max(t)}], s[Max(t)])
<1> DEFINE f == JoinedBy(first, s)
<1>1. f = JoinPass(first, s, f, SUBSET DOMAIN s)
  BY JoinsEquation
<1> HIDE DEF f
<1>2. f[t] = MerkleJoin(f[t \ {Max(t)}], s[Max(t)])
  BY <1>1 DEF JoinPass
<1> QED
  BY <1>2 DEF f

\* Only the steps at the indices matter.
LEMMA JoinsAgree ==
  ASSUME NEW first, NEW l \in Nat, NEW s, DOMAIN s = 1 .. l,
         NEW m \in Nat, NEW r, DOMAIN r = 1 .. m,
         NEW E, E \subseteq DOMAIN s, E \subseteq DOMAIN r, \A x \in E : s[x] = r[x]
  PROVE  JoinedBy(first, s)[E] = JoinedBy(first, r)[E]
<1> DEFINE S == {t \in SUBSET E : JoinedBy(first, s)[t] = JoinedBy(first, r)[t]}
<1>1. ASSUME NEW t \in SUBSET E, \A x \in t : t \ {x} \in S
      PROVE  t \in S
  <2>1. t \in SUBSET DOMAIN s /\ t \in SUBSET DOMAIN r
    OBVIOUS
  <2>2. CASE t = {}
    <3>1. JoinedBy(first, s)[{}] = first /\ JoinedBy(first, r)[{}] = first
      BY JoinedNone
    <3> QED
      BY <2>2, <3>1
  <2>3. CASE t # {}
    <3> DEFINE c == Max(t)
    <3>1. c \in t
      BY <2>1, <2>3, MaxIn
    <3>2. JoinedBy(first, s)[t] = MerkleJoin(JoinedBy(first, s)[t \ {c}], s[c])
      BY <2>1, <2>3, JoinedSome
    <3>3. JoinedBy(first, r)[t] = MerkleJoin(JoinedBy(first, r)[t \ {c}], r[c])
      BY <2>1, <2>3, JoinedSome
    <3> HIDE DEF c
    <3>4. JoinedBy(first, s)[t \ {c}] = JoinedBy(first, r)[t \ {c}] /\ s[c] = r[c]
      BY <1>1, <3>1
    <3> QED
      BY <3>2, <3>3, <3>4
  <2> QED
    BY <2>2, <2>3
<1>2. IsFiniteSet(E)
  <2>1. IsFiniteSet(1 .. l)
    BY FS_Interval
  <2> QED
    BY <2>1, FS_Subset
<1> HIDE DEF S
<1>3. \A t \in SUBSET E : t \in S
  BY <1>1, <1>2, SubsetInduction, Zenon
<1> QED
  BY <1>3 DEF S

LEMMA WithFirstNone == ASSUME NEW first PROVE WithFirst(first, <<>>) = first
<1>1. DOMAIN <<>> = 1 .. 0 /\ DOMAIN <<>> = {} /\ 0 \in Nat
  OBVIOUS
<1>2. JoinedBy(first, <<>>)[{}] = first
  BY <1>1, JoinedNone, Zenon
<1>3. WithFirst(first, <<>>) = JoinedBy(first, <<>>)[DOMAIN <<>>]
  BY WithFirstJoins, Zenon
<1> QED
  BY <1>1, <1>2, <1>3, Zenon

\* One more step joins once more.
LEMMA WithFirstAppend ==
  ASSUME NEW first, NEW S, NEW s \in Seq(S), NEW x \in S
  PROVE  WithFirst(first, Append(s, x)) = MerkleJoin(WithFirst(first, s), x)
<1> DEFINE r == Append(s, x)
           n == Len(s)
<1>1. /\ n \in Nat /\ n + 1 \in Nat /\ DOMAIN s = 1 .. n /\ DOMAIN r = 1 .. (n + 1)
      /\ \A i \in 1 .. n : s[i] = r[i]
      /\ r[n + 1] = x
  OBVIOUS
<1> HIDE DEF r, n
<1> DEFINE D == 1 .. (n + 1)
<1>2. n + 1 \in D /\ D \in SUBSET (1 .. (n + 1)) /\ D # {}
  <2>1. n + 1 \in D
    BY <1>1
  <2> QED
    BY <2>1
<1>3. Max(D) \in D /\ \A y \in D : Max(D) >= y
  BY <1>1, <1>2, MaxIn
<1> DEFINE m == Max(D)
<1>4. m = n + 1
  <2> HIDE DEF m
  <2>1. m \in 1 .. (n + 1) /\ m >= n + 1
    BY <1>2, <1>3 DEF m
  <2> QED
    BY <1>1, <2>1
<1>5. D \ {n + 1} = 1 .. n
  BY <1>1
<1>6. JoinedBy(first, r)[D] = MerkleJoin(JoinedBy(first, r)[1 .. n], r[n + 1])
  <2>1. D \in SUBSET DOMAIN r
    BY <1>1
  <2> HIDE DEF m
  <2>2. JoinedBy(first, r)[D] = MerkleJoin(JoinedBy(first, r)[D \ {m}], r[m])
    <3>1. ASSUME NEW t \in SUBSET DOMAIN r, t # {}
          PROVE  JoinedBy(first, r)[t] = MerkleJoin(JoinedBy(first, r)[t \ {Max(t)}], r[Max(t)])
      BY <1>1, <3>1, JoinedSome, ZenonT(30)
    <3> HIDE DEF D
    <3> QED
      BY <1>2, <2>1, <3>1 DEF m
  <2> QED
    BY <1>4, <1>5, <2>2, Zenon
<1>7. JoinedBy(first, s)[1 .. n] = JoinedBy(first, r)[1 .. n]
  <2>1. 1 .. n \subseteq DOMAIN s /\ 1 .. n \subseteq DOMAIN r
    BY <1>1
  <2> QED
    BY <1>1, <2>1, JoinsAgree
<1>8. /\ WithFirst(first, r) = JoinedBy(first, r)[DOMAIN r]
      /\ WithFirst(first, s) = JoinedBy(first, s)[DOMAIN s]
  BY WithFirstJoins, Zenon
<1> QED
  BY <1>1, <1>6, <1>7, <1>8, Zenon DEF r

-------------------------------------------------------------------------------
(* The tree of a node *)

TreePass(leaves, f, n) == [k \in 0 .. n |-> IF k = 0 THEN leaves ELSE Parents(f[k - 1])]

LEMMA TreeExists ==
  ASSUME NEW leaves
  PROVE  \A n \in Nat : \E f : f = TreePass(leaves, f, n)
<1> DEFINE T == {n \in Nat : \E f : f = TreePass(leaves, f, n)}
<1>1. 0 \in T
  <2> DEFINE f == [k \in 0 .. 0 |-> leaves]
  <2>1. f = TreePass(leaves, f, 0)
    BY DEF TreePass
  <2> QED
    BY <2>1
<1>2. ASSUME NEW n \in Nat, n \in T
      PROVE  n + 1 \in T
  <2>1. PICK f : f = TreePass(leaves, f, n)
    BY <1>2
  <2> DEFINE g == TreePass(leaves, f, n + 1)
  <2>2. ASSUME NEW k \in 0 .. (n + 1), k # 0
        PROVE  f[k - 1] = g[k - 1]
    <3>1. k - 1 \in 0 .. n /\ k - 1 \in 0 .. (n + 1)
      BY <2>2
    <3> DEFINE j == k - 1
    <3> HIDE DEF j
    <3>2. f[j] = IF j = 0 THEN leaves ELSE Parents(f[j - 1])
      BY <2>1, <3>1 DEF TreePass, j
    <3>3. g[j] = IF j = 0 THEN leaves ELSE Parents(f[j - 1])
      BY <3>1 DEF TreePass, j
    <3>4. f[j] = g[j]
      BY <3>2, <3>3
    <3> QED
      BY <3>4 DEF j
  <2>3. g = TreePass(leaves, g, n + 1)
    BY <2>2 DEF TreePass
  <2> QED
    BY <2>3
<1> HIDE DEF T
<1>3. \A n \in Nat : n \in T
  BY <1>1, <1>2, Induction, Zenon
<1> QED
  BY <1>3 DEF T

\* The levels of the tree are made as its definition says.
LEMMA TreeEquation ==
  ASSUME NEW leaves, Len(leaves) \in Nat
  PROVE  /\ Tree(leaves)[0] = leaves
         /\ \A k \in 1 .. Len(leaves) : Tree(leaves)[k] = Parents(Tree(leaves)[k - 1])
<1> DEFINE n == Len(leaves)
<1>1. PICK f : f = TreePass(leaves, f, n)
  BY TreeExists
<1>2. f = [k \in 0 .. Len(leaves) |-> IF k = 0 THEN leaves ELSE Parents(f[k - 1])]
  BY <1>1, Zenon DEF TreePass
<1>3. Tree(leaves)
        = [k \in 0 .. Len(leaves) |-> IF k = 0 THEN leaves ELSE Parents(Tree(leaves)[k - 1])]
  BY <1>2, Zenon DEF Tree
<1> DEFINE t == Tree(leaves)
<1> HIDE DEF t
<1>4. t = [k \in 0 .. Len(leaves) |-> IF k = 0 THEN leaves ELSE Parents(t[k - 1])]
  BY <1>3, Zenon DEF t
<1>5. 0 \in 0 .. n /\ \A k \in 1 .. n : k \in 0 .. n /\ k # 0
  OBVIOUS
<1> QED
  BY <1>4, <1>5 DEF t

LEMMA ParentsLength ==
  ASSUME NEW nodes, Len(nodes) \in Nat
  PROVE  /\ Len(Parents(nodes)) = (Len(nodes) + 1) \div 2
         /\ \A i \in 1 .. (Len(nodes) + 1) \div 2 :
              Parents(nodes)[i]
                = MerkleJoin(nodes[2 * i - 1],
                             nodes[IF 2 * i <= Len(nodes) THEN 2 * i ELSE 2 * i - 1])
<1> DEFINE m == (Len(nodes) + 1) \div 2
           e(i) == MerkleJoin(nodes[2 * i - 1],
                              nodes[IF 2 * i <= Len(nodes) THEN 2 * i ELSE 2 * i - 1])
<1>1. m \in Nat
  OBVIOUS
<1>2. Parents(nodes) = [i \in 1 .. m |-> e(i)]
  BY Zenon DEF Parents
<1> HIDE DEF e, m
<1>3. Len([i \in 1 .. m |-> e(i)]) = m
  BY <1>1
<1>4. \A i \in 1 .. m : [j \in 1 .. m |-> e(j)][i] = e(i)
  OBVIOUS
<1> QED
  BY <1>2, <1>3, <1>4 DEF e, m

\* There is one top, the first level that has one node.
LEMMA RootIsTop ==
  ASSUME NEW leaves, Len(leaves) \in Nat, NEW k \in 0 .. Len(leaves), IsTop(Tree(leaves), k)
  PROVE  MerkleRoot(leaves) = Tree(leaves)[k][1]
<1> DEFINE tree == Tree(leaves)
           top  == CHOOSE l \in 0 .. Len(leaves) : IsTop(tree, l)
<1>1. MerkleRoot(leaves) = tree[top][1]
  BY Zenon DEF MerkleRoot
<1>2. top \in 0 .. Len(leaves) /\ IsTop(tree, top)
  BY Zenon
<1> HIDE DEF tree, top
<1>3. IsTop(tree, k)
  BY DEF tree
<1>4. top = k
  <2>1. k \in Nat /\ top \in Nat
    BY <1>2
  <2>2. Len(tree[k]) = 1 /\ \A j \in 0 .. k - 1 : Len(tree[j]) > 1
    BY <1>3, Zenon DEF IsTop
  <2>3. Len(tree[top]) = 1 /\ \A j \in 0 .. top - 1 : Len(tree[j]) > 1
    BY <1>2, Zenon DEF IsTop
  <2>4. ~(1 > 1)
    OBVIOUS
  <2>5. ~(k \in 0 .. top - 1) /\ ~(top \in 0 .. k - 1)
    BY <2>2, <2>3, <2>4, Zenon
  <2> QED
    BY <2>1, <2>5
<1> QED
  BY <1>1, <1>4 DEF tree

-------------------------------------------------------------------------------
(* The steps sent to the miners *)

Leaves == <<CoinbaseHash>> \o rpc.transactions

\* The level above l, whose first node is missing: the nodes that are there are
\* the parents of those of a level of the tree.
LEMMA NextLevelNodes ==
  ASSUME NEW S, NEW l \in Seq(S), Len(l) > 1,
         NEW nodes, Len(nodes) = Len(l), \A i \in 2 .. Len(l) : nodes[i] = l[i]
  PROVE  /\ Len(NextLevel(l)) = Len(Parents(nodes)) /\ Len(NextLevel(l)) = (Len(l) + 1) \div 2
         /\ \A i \in 2 .. Len(NextLevel(l)) : NextLevel(l)[i] = Parents(nodes)[i]
         /\ \E R : S \subseteq R /\ NextLevel(l) \in Seq(R)
<1> DEFINE n    == Len(l)
           even == IF n % 2 = 1 THEN Append(l, Last(l)) ELSE l
           m    == (n - 1) \div 2
           pair(j) == MerkleJoin(even[2 * j + 1], even[2 * j + 2])
           pairs == [j \in 1 .. m |-> pair(j)]
           R    == S \cup {Null} \cup {pair(j) : j \in 1 .. m}
<1>1. n \in Nat /\ n > 1 /\ m \in Nat /\ (n + 1) \div 2 = m + 1
  OBVIOUS
<1>2. NextLevel(l) = <<Null>> \o pairs
  BY Zenon DEF NextLevel
<1>3. \A i \in 2 .. m + 1 :
        pair(i - 1) = MerkleJoin(nodes[2 * i - 1],
                                 nodes[IF 2 * i <= n THEN 2 * i ELSE 2 * i - 1])
  <2> SUFFICES ASSUME NEW i \in 2 .. m + 1
               PROVE  /\ even[2 * (i - 1) + 1] = nodes[2 * i - 1]
                      /\ even[2 * (i - 1) + 2] = nodes[IF 2 * i <= n THEN 2 * i ELSE 2 * i - 1]
    BY Zenon
  <2>1. i \in Nat /\ i >= 2 /\ 2 * (i - 1) + 1 = 2 * i - 1 /\ 2 * (i - 1) + 2 = 2 * i
    OBVIOUS
  <2>2. 2 * i - 1 <= n /\ 2 * i - 1 \in 2 .. n
    BY <1>1
  <2>3. CASE n % 2 = 1
    <3>1. even = Append(l, l[n])
      BY <2>3, Zenon DEF Last
    <3>2. /\ \A x \in 1 .. n : Append(l, l[n])[x] = l[x]
          /\ Append(l, l[n])[n + 1] = l[n]
      BY <1>1
    <3> HIDE DEF even
    <3>3. even[2 * i - 1] = l[2 * i - 1]
      BY <2>2, <3>1, <3>2
    <3>4. CASE 2 * i <= n
      <4>1. 2 * i \in 2 .. n /\ 2 * i \in 1 .. n
        BY <3>4, <2>1, <1>1
      <4>2. even[2 * i] = l[2 * i]
        BY <4>1, <3>1, <3>2
      <4> QED
        BY <2>1, <2>2, <3>3, <3>4, <4>1, <4>2
    <3>5. CASE ~(2 * i <= n)
      <4>1. 2 * i = n + 1 /\ 2 * i - 1 = n
        BY <3>5, <2>1, <2>2, <1>1
      <4>2. even[2 * i] = l[2 * i - 1]
        BY <4>1, <3>1, <3>2
      <4> QED
        BY <2>1, <2>2, <3>3, <3>5, <4>2
    <3> QED
      BY <3>4, <3>5
  <2>4. CASE n % 2 # 1
    <3>1. even = l
      BY <2>4
    <3>2. 2 * i <= n /\ 2 * i \in 2 .. n
      BY <2>1, <2>2, <2>4, <1>1
    <3> HIDE DEF even
    <3> QED
      BY <2>1, <2>2, <3>1, <3>2
  <2> QED
    BY <2>3, <2>4
<1>4. \A j \in 1 .. m : pair(j) \in R
  OBVIOUS
<1>5. Null \in R /\ S \subseteq R
  OBVIOUS
<1> HIDE DEF R, pair, m, n
<1>6. pairs \in Seq(R) /\ Len(pairs) = m /\ \A j \in 1 .. m : pairs[j] = pair(j)
  BY <1>1, <1>4
<1> HIDE DEF pairs
<1>7. /\ <<Null>> \o pairs \in Seq(R) /\ Len(<<Null>> \o pairs) = m + 1
      /\ \A i \in 2 .. m + 1 : (<<Null>> \o pairs)[i] = pair(i - 1)
  BY <1>1, <1>5, <1>6
<1>8. /\ Len(Parents(nodes)) = m + 1
      /\ \A i \in 1 .. m + 1 :
           Parents(nodes)[i] = MerkleJoin(nodes[2 * i - 1],
                                          nodes[IF 2 * i <= n THEN 2 * i ELSE 2 * i - 1])
  <2>1. Len(nodes) \in Nat /\ Len(nodes) = n
    BY <1>1 DEF n
  <2> QED
    BY <1>1, <2>1, ParentsLength
<1>9. Len(NextLevel(l)) = m + 1 /\ (Len(l) + 1) \div 2 = m + 1
  BY <1>1, <1>2, <1>7 DEF n
<1>10. ASSUME NEW i \in 2 .. m + 1
       PROVE  NextLevel(l)[i] = Parents(nodes)[i]
  <2>1. i \in 1 .. m + 1
    BY <1>1
  <2> QED
    BY <1>2, <1>3, <1>7, <1>8, <2>1
<1> QED
  BY <1>2, <1>5, <1>7, <1>8, <1>9, <1>10

\* The nodes the steps are taken from are those of the tree's level that the
\* steps so far lead to; its first node is what the steps make of the coinbase.
TreeInv ==
  /\ rpc \in Templates
  /\ \E S : level \in Seq(S) /\ branch \in Seq(S)
  /\ Len(level) >= 1 /\ Len(level) + Len(branch) <= Len(Leaves)
  /\ LET tree == Tree(Leaves)
         here == tree[Len(branch)]
     IN  /\ Len(here) = Len(level) /\ \A i \in 2 .. Len(level) : here[i] = level[i]
         /\ here[1] = WithFirst(CoinbaseHash, branch)
         /\ \A k \in 0 .. Len(branch) - 1 : Len(tree[k]) > 1
  /\ step # "tree" => Len(level) = 1
  /\ step = "block" => block.root = WithFirst(CoinbaseHash, branch)

LEMMA LeavesFacts ==
  ASSUME rpc \in Templates
  PROVE  /\ rpc.transactions \in Seq(Seq(Nat))
         /\ Len(Leaves) \in Nat /\ Len(Leaves) = Len(rpc.transactions) + 1
         /\ Leaves[1] = CoinbaseHash
         /\ \A i \in 2 .. Len(Leaves) : Leaves[i] = rpc.transactions[i - 1]
<1>1. rpc.transactions \in Seq(Seq(Nat))
  BY TemplatesAssumption DEF TemplatesAssumption
<1> DEFINE txs == rpc.transactions
<1>2. CoinbaseHash \in Seq(Nat)
  BY DEF CoinbaseHash
<1> HIDE DEF txs
<1>3. txs \in Seq(Seq(Nat))
  BY <1>1 DEF txs
<1>4. /\ Len(<<CoinbaseHash>> \o txs) \in Nat
      /\ Len(<<CoinbaseHash>> \o txs) = Len(txs) + 1
      /\ (<<CoinbaseHash>> \o txs)[1] = CoinbaseHash
      /\ \A i \in 2 .. Len(txs) + 1 : (<<CoinbaseHash>> \o txs)[i] = txs[i - 1]
  BY <1>2, <1>3
<1> QED
  BY <1>1, <1>4 DEF Leaves, txs

LEMMA TreeInvInit == AssemblyInit => TreeInv
<1> SUFFICES ASSUME AssemblyInit
             PROVE  TreeInv
  OBVIOUS
<1> DEFINE txs == rpc.transactions
<1>1. rpc \in Templates /\ step = "tree" /\ level = <<Null>> \o txs /\ branch = <<>>
  BY DEF AssemblyInit
<1>2. txs \in Seq(Seq(Nat)) /\ Len(Leaves) \in Nat
  BY <1>1, LeavesFacts
<1>3. Null \in Seq(Nat)
  BY DEF Null
<1> HIDE DEF txs
<1>4. /\ level \in Seq(Seq(Nat)) /\ Len(level) = Len(txs) + 1
      /\ \A i \in 2 .. Len(level) : level[i] = txs[i - 1]
      /\ branch \in Seq(Seq(Nat)) /\ Len(branch) = 0
  BY <1>1, <1>2, <1>3
<1>5. /\ Len(Leaves) = Len(txs) + 1 /\ Leaves[1] = CoinbaseHash
      /\ \A i \in 2 .. Len(Leaves) : Leaves[i] = txs[i - 1]
  BY <1>1, LeavesFacts DEF txs
<1>6. Tree(Leaves)[0] = Leaves
  BY <1>2, TreeEquation
<1>7. Leaves[1] = WithFirst(CoinbaseHash, branch)
  BY <1>1, <1>5, WithFirstNone
<1>8. Len(txs) \in Nat
  BY <1>2
<1>9. \A k \in 0 .. Len(branch) - 1 : Len(Tree(Leaves)[k]) > 1
  BY <1>4
<1>10. Len(level) >= 1 /\ Len(level) + Len(branch) <= Len(Leaves)
  BY <1>4, <1>5, <1>8
<1>11. \A i \in 2 .. Len(level) : Leaves[i] = level[i]
  BY <1>4, <1>5
<1>12. step # "block"
  BY <1>1
<1>13. \E S : level \in Seq(S) /\ branch \in Seq(S)
  BY <1>4
<1> QED
  BY <1>1, <1>4, <1>5, <1>6, <1>7, <1>9, <1>10, <1>11, <1>12, <1>13, Zenon DEF TreeInv

LEMMA TreeInvMerkle == ASSUME TreeInv, MerkleStep PROVE TreeInv'
<1> DEFINE tree == Tree(Leaves)
           k    == Len(branch)
           n    == Len(level)
<1>1. PICK S : level \in Seq(S) /\ branch \in Seq(S)
  BY Zenon DEF TreeInv
<1>2. /\ rpc \in Templates /\ n >= 1 /\ n + k <= Len(Leaves)
      /\ Len(tree[k]) = n /\ \A i \in 2 .. n : tree[k][i] = level[i]
      /\ tree[k][1] = WithFirst(CoinbaseHash, branch)
      /\ \A j \in 0 .. k - 1 : Len(tree[j]) > 1
  BY Zenon DEF TreeInv
<1>3. /\ step = "tree" /\ n > 1 /\ branch' = Append(branch, level[2])
      /\ level' = NextLevel(level) /\ step' = step /\ rpc' = rpc
  BY DEF MerkleStep
<1>4. Leaves' = Leaves
  BY <1>3 DEF Leaves
<1>5. Len(Leaves) \in Nat
  BY <1>2, LeavesFacts
<1>6. n \in Nat /\ k \in Nat /\ level[2] \in S
  BY <1>1, <1>3
<1> HIDE DEF tree
<1>7. tree[k + 1] = Parents(tree[k])
  <2>1. \A j \in 1 .. Len(Leaves) : tree[j] = Parents(tree[j - 1])
    BY <1>5, TreeEquation DEF tree
  <2>2. k + 1 \in 1 .. Len(Leaves) /\ k + 1 - 1 = k
    BY <1>2, <1>3, <1>5, <1>6
  <2> QED
    BY <2>1, <2>2
<1> DEFINE up == NextLevel(level)
<1>8. /\ Len(up) = Len(Parents(tree[k])) /\ Len(up) = (n + 1) \div 2
      /\ \A i \in 2 .. Len(up) : up[i] = Parents(tree[k])[i]
      /\ \E R : S \subseteq R /\ up \in Seq(R)
  BY <1>1, <1>2, <1>3, NextLevelNodes
<1> HIDE DEF up, n, k
<1>9. Len(up) >= 1 /\ Len(up) + (k + 1) <= Len(Leaves)
  BY <1>2, <1>3, <1>5, <1>6, <1>8 DEF n
<1>10. Len(branch') = k + 1 /\ WithFirst(CoinbaseHash, branch')
                                 = MerkleJoin(WithFirst(CoinbaseHash, branch), level[2])
  BY <1>1, <1>3, <1>6, WithFirstAppend DEF k
<1>11. Parents(tree[k])[1] = MerkleJoin(tree[k][1], tree[k][2])
  <2>1. 1 \in 1 .. (n + 1) \div 2 /\ 2 * 1 - 1 = 1 /\ 2 * 1 <= n /\ 2 * 1 = 2
    BY <1>3, <1>6 DEF n
  <2>2. Len(tree[k]) \in Nat /\ Len(tree[k]) = n
    BY <1>2, <1>6
  <2>3. \A i \in 1 .. (n + 1) \div 2 :
          Parents(tree[k])[i]
            = MerkleJoin(tree[k][2 * i - 1], tree[k][IF 2 * i <= n THEN 2 * i ELSE 2 * i - 1])
    BY <2>2, ParentsLength
  <2>4. Parents(tree[k])[1]
          = MerkleJoin(tree[k][2 * 1 - 1], tree[k][IF 2 * 1 <= n THEN 2 * 1 ELSE 2 * 1 - 1])
    BY <2>1, <2>3, Zenon
  <2> QED
    BY <2>1, <2>4
<1>12. tree[k][2] = level[2]
  BY <1>2, <1>3, <1>6 DEF n
<1>13. tree[k + 1][1] = WithFirst(CoinbaseHash, branch')
  BY <1>2, <1>7, <1>10, <1>11, <1>12
<1>14. \A j \in 0 .. (k + 1) - 1 : Len(tree[j]) > 1
  <2> SUFFICES ASSUME NEW j \in 0 .. k
               PROVE  Len(tree[j]) > 1
    BY <1>6
  <2>1. CASE j = k
    BY <2>1, <1>2, <1>3
  <2>2. CASE j # k
    <3>1. j \in 0 .. k - 1
      BY <2>2, <1>6
    <3> QED
      BY <3>1, <1>2
  <2> QED
    BY <2>1, <2>2
<1>15. \E R : level' \in Seq(R) /\ branch' \in Seq(R)
  <2>1. PICK R : S \subseteq R /\ up \in Seq(R)
    BY <1>8
  <2>2. Append(branch, level[2]) \in Seq(R)
    BY <2>1, <1>1, <1>6
  <2> QED
    BY <2>1, <2>2, <1>3 DEF up
<1>16. level' = up /\ tree = Tree(Leaves)'
  BY <1>3, <1>4 DEF up, tree
<1>17. Len(tree[k + 1]) = Len(up) /\ \A i \in 2 .. Len(up) : tree[k + 1][i] = up[i]
  BY <1>7, <1>8
<1>18. rpc' \in Templates /\ step' = "tree" /\ step' # "block"
  BY <1>2, <1>3
<1> QED
  BY <1>4, <1>9, <1>10, <1>13, <1>14, <1>15, <1>16, <1>17, <1>18, Zenon DEF TreeInv

\* The steps are not touched any more.
LEMMA TreeInvLater ==
  ASSUME TreeInv, UNCHANGED <<rpc, level, branch>>,
         step' # "tree" => Len(level) <= 1,
         step' = "block" => block'.root = WithFirst(CoinbaseHash, branch)
  PROVE  TreeInv'
<1>1. rpc' = rpc /\ level' = level /\ branch' = branch /\ Leaves' = Leaves
  BY DEF Leaves
<1>2. ASSUME Len(level) <= 1 PROVE Len(level) = 1
  <2>1. PICK S : level \in Seq(S)
    BY Zenon DEF TreeInv
  <2>2. Len(level) \in Nat
    BY <2>1
  <2>3. Len(level) >= 1
    BY Zenon DEF TreeInv
  <2> QED
    BY <1>2, <2>2, <2>3
<1> QED
  BY <1>1, <1>2, Zenon DEF TreeInv

LEMMA TreeInvStep == TreeInv /\ [AssemblyNext]_assemblyVars => TreeInv'
<1> SUFFICES ASSUME TreeInv, [AssemblyNext]_assemblyVars
             PROVE  TreeInv'
  OBVIOUS
<1>0. step # "tree" => Len(level) <= 1
  <2>1. step # "tree" => Len(level) = 1
    BY Zenon DEF TreeInv
  <2>2. 1 <= 1
    OBVIOUS
  <2> QED
    BY <2>1, <2>2, Zenon
<1>1. CASE MerkleStep
  BY <1>1, TreeInvMerkle
<1>2. CASE StartOutputs
  <2>1. UNCHANGED <<rpc, level, branch>> /\ Len(level) <= 1 /\ step' = "payments"
    BY <1>2 DEF StartOutputs
  <2> QED
    BY <2>1, TreeInvLater
<1>3. CASE PayPayment
  <2>1. UNCHANGED <<rpc, level, branch>> /\ step = "payments" /\ step' = "payments"
    BY <1>3 DEF PayPayment
  <2> QED
    BY <2>1, <1>0, TreeInvLater
<1>4. CASE PayPayee
  <2>1. UNCHANGED <<rpc, level, branch>> /\ step = "payments" /\ step' = "recipients"
    BY <1>4 DEF PayPayee
  <2> QED
    BY <2>1, <1>0, TreeInvLater
<1>5. CASE PayRecipient
  <2>1. UNCHANGED <<rpc, level, branch>> /\ step = "recipients" /\ step' = "recipients"
    BY <1>5 DEF PayRecipient
  <2> QED
    BY <2>1, <1>0, TreeInvLater
<1>6. CASE PayPool
  <2>1. UNCHANGED <<rpc, level, branch>> /\ step = "recipients" /\ step' = "ready"
    BY <1>6 DEF PayPool
  <2> QED
    BY <2>1, <1>0, TreeInvLater
<1>7. ASSUME NEW size \in NonceSizes, AssembleBlock(size)
      PROVE  TreeInv'
  <2>1. /\ UNCHANGED <<rpc, level, branch>> /\ step = "ready" /\ step' = "block"
        /\ block'.root = WithFirst(CoinbaseHash, branch)
    BY <1>7 DEF AssembleBlock
  <2> QED
    BY <2>1, <1>0, TreeInvLater
<1>8. CASE UNCHANGED assemblyVars
  <2>1. UNCHANGED <<rpc, level, branch, step, block>>
    BY <1>8 DEF assemblyVars
  <2>2. step = "block" => block.root = WithFirst(CoinbaseHash, branch)
    BY Zenon DEF TreeInv
  <2> QED
    BY <2>1, <2>2, <1>0, TreeInvLater
<1> QED
  BY <1>1, <1>2, <1>3, <1>4, <1>5, <1>6, <1>7, <1>8 DEF AssemblyNext

(***************************************************************************)
(* The root that a miner gets by joining the coinbase's hash with the      *)
(* steps of calculateSteps is the root a node computes of all the          *)
(* transactions, for any number of them.                                   *)
(***************************************************************************)
THEOREM RootAlwaysAgrees == AssemblySpec => []RootAgrees
<1>1. TreeInv => RootAgrees
  <2> SUFFICES ASSUME TreeInv, step = "block"
               PROVE  block.root = MerkleRoot(Leaves)
    BY DEF RootAgrees, Leaves
  <2> DEFINE k == Len(branch)
  <2>1. PICK S : level \in Seq(S) /\ branch \in Seq(S)
    BY Zenon DEF TreeInv
  <2>2. /\ rpc \in Templates /\ Len(level) = 1 /\ 1 + k <= Len(Leaves)
        /\ Len(Tree(Leaves)[k]) = 1
        /\ Tree(Leaves)[k][1] = WithFirst(CoinbaseHash, branch)
        /\ \A j \in 0 .. k - 1 : Len(Tree(Leaves)[j]) > 1
    <3>1. Len(level) = 1
      BY DEF TreeInv
    <3> QED
      BY <3>1 DEF TreeInv
  <2>3. k \in 0 .. Len(Leaves) /\ Len(Leaves) \in Nat
    BY <2>1, <2>2, LeavesFacts
  <2>4. IsTop(Tree(Leaves), k)
    BY <2>2, Zenon DEF IsTop
  <2>5. MerkleRoot(Leaves) = Tree(Leaves)[k][1]
    BY <2>3, <2>4, RootIsTop
  <2>6. block.root = WithFirst(CoinbaseHash, branch)
    BY DEF TreeInv
  <2> QED
    BY <2>2, <2>5, <2>6
<1> QED
  BY <1>1, TreeInvInit, TreeInvStep, PTL DEF AssemblySpec

-------------------------------------------------------------------------------
(* What is paid to whom *)

\* The payments are counted with the sums of SumProofs.
LEMMA SumOfIsTotal == ASSUME NEW s PROVE SumOf(s) = Total(s)
  BY FoldIsSum, Zenon DEF SumOf, FoldSeq, Total

Parts(s, r) == [i \in DOMAIN s |-> RecipientReward(s[i], r)]

LEMMA PoolPart == ASSUME NEW r PROVE RewardToPool(r) = r - Total(Parts(RewardRecipients, r))
<1> DEFINE p == Parts(RewardRecipients, r)
<1>1. RewardToPool(r) = r - FoldFunction(+, 0, p)
  BY Zenon DEF RewardToPool, SumFunction, SumFunctionOnSet, FoldFunction, Parts
<1>2. FoldFunction(+, 0, p) = Total(p)
  BY FoldIsSum, Zenon DEF Total
<1> QED
  BY <1>1, <1>2, Zenon

LEMMA PartsSeq ==
  ASSUME NEW s \in Seq(Nat), NEW r \in Int
  PROVE  /\ Parts(s, r) \in Seq(Int) /\ Len(Parts(s, r)) = Len(s)
         /\ \A i \in 1 .. Len(s) :
              Parts(s, r)[i] = RecipientReward(s[i], r) /\ Parts(s, r)[i] \in Int
<1>1. \A i \in 1 .. Len(s) : RecipientReward(s[i], r) \in Int
  BY DEF RecipientReward
<1>2. Len(s) \in Nat /\ DOMAIN s = 1 .. Len(s)
  OBVIOUS
<1> QED
  BY <1>1, <1>2 DEF Parts

LEMMA PartsFirst ==
  ASSUME NEW s \in Seq(Nat), s # <<>>, NEW r \in Int
  PROVE  Total(Parts(s, r)) = RecipientReward(Head(s), r) + Total(Parts(Tail(s), r))
<1> DEFINE a == RecipientReward(Head(s), r)
           p == Parts(s, r)
           q == Parts(Tail(s), r)
<1>1. /\ Tail(s) \in Seq(Nat) /\ Head(s) \in Nat /\ Len(s) \in Nat /\ Len(s) > 0
      /\ Len(Tail(s)) = Len(s) - 1 /\ Head(s) = s[1]
      /\ \A i \in 1 .. Len(s) - 1 : Tail(s)[i] = s[i + 1]
  OBVIOUS
<1>2. a \in Int
  BY <1>1 DEF RecipientReward
<1>3. /\ p \in Seq(Int) /\ Len(p) = Len(s)
      /\ \A i \in 1 .. Len(s) : p[i] = RecipientReward(s[i], r)
  BY PartsSeq
<1>4. /\ q \in Seq(Int) /\ Len(q) = Len(s) - 1
      /\ \A i \in 1 .. Len(s) - 1 : q[i] = RecipientReward(Tail(s)[i], r)
  BY <1>1, PartsSeq
<1>5. p[1] = a /\ \A i \in 1 .. Len(s) - 1 : p[i + 1] = q[i]
  <2>1. 1 \in 1 .. Len(s) /\ \A i \in 1 .. Len(s) - 1 : i + 1 \in 1 .. Len(s)
    BY <1>1
  <2>2. p[1] = a
    BY <1>1, <1>3, <2>1
  <2> HIDE DEF p, q
  <2>3. \A i \in 1 .. Len(s) - 1 : p[i + 1] = q[i]
    BY <1>1, <1>3, <1>4, <2>1
  <2> QED
    BY <2>2, <2>3
<1> HIDE DEF a, p, q
<1>6. p = <<a>> \o q
  BY <1>1, <1>2, <1>3, <1>4, <1>5
<1>7. Total(<<a>> \o q) = a + Total(q)
  BY <1>2, <1>4, TotalFirst
<1> QED
  BY <1>6, <1>7 DEF a, p, q

\* The floors of percentages that are a hundred at most fit in the reward.
LEMMA PoolPartNat ==
  ASSUME NEW r \in Nat
  PROVE  RewardToPool(r) \in Nat
<1> DEFINE s == RewardRecipients
           p == Parts(s, r)
<1>1. s \in Seq(Nat) /\ Total(s) <= 100
  <2>1. SumOf(s) = Total(s)
    BY SumOfIsTotal
  <2> QED
    BY <2>1, SizesAssumption, AffordableAssumption DEF SizesAssumption, AffordableAssumption
<1> HIDE DEF s
<1>2. /\ p \in Seq(Int) /\ Len(p) = Len(s) /\ Len(s) \in Nat
      /\ \A i \in 1 .. Len(s) : p[i] = RecipientReward(s[i], r) /\ p[i] \in Int /\ s[i] \in Nat
  BY <1>1, PartsSeq
<1>3. \A x \in Nat : 100 * RecipientReward(x, r) <= r * x /\ r * x \in Nat
  <2>1. \A y \in Nat : 100 * (y \div 100) <= y
    OBVIOUS
  <2>2. \A x \in Nat : x * r \in Nat /\ x * r = r * x
    OBVIOUS
  <2> QED
    BY <2>1, <2>2 DEF RecipientReward
<1> HIDE DEF p
<1>4. /\ DOMAIN p = DOMAIN s /\ DOMAIN p = 1 .. Len(s) /\ IsFiniteSet(DOMAIN p)
  <2>1. DOMAIN p = DOMAIN s /\ DOMAIN p = 1 .. Len(s)
    BY <1>1, <1>2
  <2>2. IsFiniteSet(1 .. Len(s))
    BY <1>2, FS_Interval
  <2> QED
    BY <2>1, <2>2
<1>5. \A x \in DOMAIN p : p[x] \in Int /\ s[x] \in Int /\ 100 * p[x] <= r * s[x]
  BY <1>2, <1>3, <1>4, SMTT(30)
<1>6. 100 * Total(p) <= r * Total(s)
  <2>1. \A t \in SUBSET DOMAIN p : 100 * PartSums(p)[t] <= r * PartSums(s)[t]
    BY <1>4, <1>5, PartSumsBound
  <2> QED
    BY <1>4, <2>1 DEF Total
<1>7. Total(s) \in Nat
  BY <1>1, TotalNat
<1>8. Total(p) \in Int
  <2>1. \A t \in SUBSET DOMAIN p : PartSums(p)[t] \in Int
    BY <1>4, <1>5, PartSumsType
  <2> QED
    BY <2>1 DEF Total
<1>9. r * Total(s) <= 100 * r
  <2>1. \A a, b \in Nat : b <= 100 => a * b <= 100 * a
    OBVIOUS
  <2> QED
    BY <1>1, <1>7, <2>1
<1>10. Total(p) <= r
  <2>1. r * Total(s) \in Int
    BY <1>7
  <2> QED
    BY <1>6, <1>8, <1>9, <2>1
<1> QED
  BY <1>8, <1>10, PoolPart DEF p, s

PayeePart == IF rpc.payee THEN rpc.payee_amount ELSE 0

\* What the loop in hand has still to pay is there to be paid.
Accounts ==
  /\ address \in PoolAddresses /\ paid = Total(outputs)
  /\ step \in {"tree", "payments"} => left = reward
  /\ step = "tree" => reward = rpc.coinbasevalue
  /\ step = "payments" => Total(todo) + PayeePart <= reward
  /\ step \in {"recipients", "ready", "block"} => reward \in Nat
  /\ step = "recipients" => left = RewardToPool(reward) + Total(Parts(todo, reward))
  /\ step \in {"ready", "block"} => left = RewardToPool(reward)

\* The types that AssemblyInv gives.
LEMMA AssemblyTypes ==
  ASSUME AssemblyInv
  PROVE  /\ rpc \in Templates /\ reward \in Int /\ left \in Int /\ paid \in Int
         /\ todo \in Seq(Nat) /\ outputs \in Seq(Int)
         /\ step \in {"tree", "payments", "recipients", "ready", "block"}
         /\ rpc.coinbasevalue \in Nat /\ rpc.payments \in Seq(Nat)
         /\ rpc.payee_amount \in Nat /\ PayeePart \in Nat
         /\ Total(rpc.payments) + PayeePart <= rpc.coinbasevalue
<1>1. /\ rpc \in Templates /\ reward \in Int /\ left \in Int /\ paid \in Int
      /\ todo \in Seq(Nat) /\ outputs \in Seq(Int)
      /\ step \in {"tree", "payments", "recipients", "ready", "block"}
  BY DEF AssemblyInv, Balance, FewOutputs, Early
<1>2. rpc.coinbasevalue \in Nat /\ rpc.payments \in Seq(Nat) /\ rpc.payee_amount \in Nat
  BY <1>1, TemplateFacts
<1>3. PayeePart \in Nat
  BY <1>2 DEF PayeePart
<1>4. SumOf(rpc.payments) + PayeePart <= rpc.coinbasevalue
  BY <1>1, AffordableAssumption DEF AffordableAssumption, PayeePart
<1>5. SumOf(rpc.payments) = Total(rpc.payments)
  BY SumOfIsTotal
<1> QED
  BY <1>1, <1>2, <1>3, <1>4, <1>5

LEMMA AccountsInit == AssemblyInit => Accounts
<1> SUFFICES ASSUME AssemblyInit
             PROVE  Accounts
  OBVIOUS
<1>1. /\ step = "tree" /\ paid = 0 /\ left = rpc.coinbasevalue /\ address \in PoolAddresses
      /\ reward = rpc.coinbasevalue /\ outputs = <<>>
  BY DEF AssemblyInit
<1> QED
  BY <1>1, TotalEmpty DEF Accounts

\* What is pushed is counted.
LEMMA PushCounts ==
  ASSUME NEW amount \in Int, outputs \in Seq(Int), paid = Total(outputs), Push(amount)
  PROVE  paid' = Total(outputs')
<1>1. Total(Append(outputs, amount)) = Total(outputs) + amount
  BY TotalAppend
<1> QED
  BY <1>1 DEF Push

LEMMA AccountsPayment == ASSUME AssemblyInv, Accounts, PayPayment PROVE Accounts'
<1>1. /\ todo \in Seq(Nat) /\ outputs \in Seq(Int) /\ reward \in Int /\ left \in Int
      /\ PayeePart \in Nat
  BY AssemblyTypes
<1>2. /\ step = "payments" /\ step' = "payments" /\ rpc' = rpc /\ address' = address
      /\ todo # <<>> /\ todo' = Tail(todo) /\ Push(Head(todo))
      /\ reward' = reward - Head(todo) /\ left' = left - Head(todo)
  BY DEF PayPayment, PayFixed
<1>3. /\ address \in PoolAddresses /\ paid = Total(outputs) /\ left = reward
      /\ Total(todo) + PayeePart <= reward
  BY <1>2 DEF Accounts
<1> DEFINE h == Head(todo)
           r == Tail(todo)
<1>4. h \in Nat /\ r \in Seq(Nat) /\ todo = <<h>> \o r
  BY <1>1, <1>2
<1> HIDE DEF h, r
<1>5. Total(<<h>> \o r) = h + Total(r) /\ Total(r) \in Nat
  BY <1>4, TotalFirst, TotalNat
<1>6. Total(todo') + PayeePart <= reward'
  <2>1. todo' = r /\ reward' = reward - h
    BY <1>2 DEF h, r
  <2>2. Total(todo) = h + Total(r)
    BY <1>4, <1>5, Zenon
  <2>3. h \in Int /\ Total(r) \in Int
    BY <1>4, <1>5
  <2> QED
    BY <1>1, <1>3, <2>1, <2>2, <2>3
<1>7. paid' = Total(outputs')
  BY <1>1, <1>2, <1>3, <1>4, PushCounts DEF h
<1>8. PayeePart' = PayeePart
  BY <1>2 DEF PayeePart
<1> QED
  BY <1>2, <1>3, <1>6, <1>7, <1>8 DEF Accounts

\* A payee's fifth is at most what is there to be paid.
LEMMA AccountsPayee == ASSUME AssemblyInv, Accounts, PayPayee PROVE Accounts'
<1>1. /\ todo \in Seq(Nat) /\ outputs \in Seq(Int) /\ reward \in Int /\ left \in Int
      /\ PayeePart \in Nat /\ rpc.payee_amount \in Nat
  BY AssemblyTypes
<1>2. /\ step = "payments" /\ step' = "recipients" /\ rpc' = rpc /\ address' = address
      /\ todo = <<>> /\ todo' = RewardRecipients
      /\ IF rpc.payee THEN PayFixed(PayeeReward) ELSE UNCHANGED <<outputs, paid, reward, left>>
  BY DEF PayPayee
<1>3. /\ address \in PoolAddresses /\ paid = Total(outputs) /\ left = reward
      /\ Total(todo) + PayeePart <= reward
  BY <1>2 DEF Accounts
<1>4. PayeePart <= reward /\ reward \in Nat
  BY <1>1, <1>2, <1>3, TotalEmpty
<1>5. paid' = Total(outputs') /\ left' = reward' /\ reward' \in Nat
  <2>1. CASE rpc.payee
    <3>1. PayeeReward \in Nat /\ PayeeReward <= reward
      BY <1>1, <1>4, <2>1 DEF PayeePart, PayeeReward
    <3>2. /\ Push(PayeeReward) /\ reward' = reward - PayeeReward
          /\ left' = left - PayeeReward
      BY <1>2, <2>1 DEF PayFixed
    <3>3. paid' = Total(outputs')
      BY <1>1, <1>3, <3>1, <3>2, PushCounts
    <3> QED
      BY <1>3, <1>4, <3>1, <3>2, <3>3
  <2>2. CASE ~rpc.payee
    BY <1>2, <1>3, <1>4, <2>2
  <2> QED
    BY <2>1, <2>2
<1>6. reward' = RewardToPool(reward') + Total(Parts(todo', reward'))
  <2> DEFINE p == Parts(RewardRecipients, reward')
  <2>1. RewardToPool(reward') = reward' - Total(p)
    BY PoolPart
  <2>2. p \in Seq(Int)
    BY <1>5, PartsSeq, SizesAssumption DEF SizesAssumption
  <2> HIDE DEF p
  <2>3. Total(p) \in Int
    BY <2>2, TotalAppend
  <2>4. reward' = RewardToPool(reward') + Total(p)
    BY <1>5, <2>1, <2>3
  <2> QED
    BY <1>2, <2>4 DEF p
<1> QED
  BY <1>2, <1>3, <1>5, <1>6 DEF Accounts

LEMMA AccountsRecipient == ASSUME AssemblyInv, Accounts, PayRecipient PROVE Accounts'
<1> DEFINE a == RecipientReward(Head(todo), reward)
<1>1. /\ todo \in Seq(Nat) /\ outputs \in Seq(Int) /\ reward \in Int /\ left \in Int
  BY AssemblyTypes
<1>2. /\ step = "recipients" /\ step' = "recipients" /\ rpc' = rpc /\ address' = address
      /\ todo # <<>> /\ todo' = Tail(todo) /\ reward' = reward
      /\ Push(a) /\ left' = left - a
  BY DEF PayRecipient
<1>3. /\ address \in PoolAddresses /\ paid = Total(outputs) /\ reward \in Nat
      /\ left = RewardToPool(reward) + Total(Parts(todo, reward))
  BY <1>2 DEF Accounts
<1>4. a \in Int
  <2>1. Head(todo) \in Nat
    BY <1>1, <1>2
  <2> QED
    BY <1>3, <2>1 DEF RecipientReward
<1>5. Total(Parts(todo, reward)) = a + Total(Parts(Tail(todo), reward))
  BY <1>1, <1>2, PartsFirst
<1>6. Total(Parts(Tail(todo), reward)) \in Int /\ RewardToPool(reward) \in Nat
  <2>1. Tail(todo) \in Seq(Nat)
    BY <1>1, <1>2
  <2>2. Parts(Tail(todo), reward) \in Seq(Int)
    BY <1>1, <2>1, PartsSeq
  <2> QED
    BY <1>3, <2>2, TotalAppend, PoolPartNat
<1> HIDE DEF a
<1>7. left' = RewardToPool(reward') + Total(Parts(todo', reward'))
  BY <1>1, <1>2, <1>3, <1>4, <1>5, <1>6
<1>8. paid' = Total(outputs')
  BY <1>1, <1>2, <1>3, <1>4, PushCounts
<1> QED
  BY <1>2, <1>3, <1>7, <1>8 DEF Accounts

\* The commitment is worth nothing, what is left goes in front.
LEMMA AccountsPool == ASSUME AssemblyInv, Accounts, PayPool PROVE Accounts'
<1>1. outputs \in Seq(Int) /\ left \in Int /\ reward \in Int
  BY AssemblyTypes
<1>2. /\ step = "recipients" /\ step' = "ready" /\ todo = <<>>
      /\ UNCHANGED <<rpc, address, todo, reward, left>>
      /\ outputs' = FrontOutputs \o outputs /\ paid' = paid + left
  BY DEF PayPool
<1>3. /\ address \in PoolAddresses /\ paid = Total(outputs) /\ reward \in Nat
      /\ left = RewardToPool(reward) + Total(Parts(todo, reward))
  BY <1>2 DEF Accounts
<1>4. Total(Parts(todo, reward)) = 0
  <2>1. Parts(<<>>, reward) = <<>>
    BY DEF Parts
  <2> QED
    BY <1>2, <2>1, TotalEmpty
<1>5. left = RewardToPool(reward)
  BY <1>3, <1>4, PoolPartNat
<1> DEFINE s == <<left>> \o outputs
<1>6. s \in Seq(Int) /\ Total(s) = left + paid /\ paid \in Int
  <2>1. s \in Seq(Int)
    BY <1>1
  <2>2. Total(s) = left + Total(outputs) /\ Total(outputs) \in Int
    BY <1>1, TotalFirst, TotalAppend
  <2> QED
    BY <1>3, <2>1, <2>2
<1>7. outputs' = IF rpc.commitment THEN <<0>> \o s ELSE s
  BY <1>1, <1>2 DEF FrontOutputs
<1> HIDE DEF s
<1>8. Total(<<0>> \o s) = 0 + Total(s)
  BY <1>6, TotalFirst
<1>9. paid' = Total(outputs')
  BY <1>1, <1>2, <1>6, <1>7, <1>8
<1> QED
  BY <1>2, <1>3, <1>5, <1>9 DEF Accounts

LEMMA AccountsStep == AssemblyInv /\ Accounts /\ [AssemblyNext]_assemblyVars => Accounts'
<1> SUFFICES ASSUME AssemblyInv, Accounts, [AssemblyNext]_assemblyVars
             PROVE  Accounts'
  OBVIOUS
<1>1. CASE MerkleStep
  <2>1. /\ step = "tree" /\ UNCHANGED <<rpc, address, step, todo, reward, left, outputs, paid>>
    BY <1>1 DEF MerkleStep
  <2> QED
    BY <2>1 DEF Accounts, PayeePart
<1>2. CASE StartOutputs
  <2>1. /\ step = "tree" /\ step' = "payments" /\ todo' = rpc.payments
        /\ UNCHANGED <<rpc, address, reward, left, outputs, paid>>
    BY <1>2 DEF StartOutputs
  <2>2. /\ address \in PoolAddresses /\ paid = Total(outputs) /\ left = reward
        /\ reward = rpc.coinbasevalue
    BY <2>1 DEF Accounts
  <2>3. Total(rpc.payments) + PayeePart <= reward /\ PayeePart' = PayeePart
    BY <2>1, <2>2, AssemblyTypes DEF PayeePart
  <2> QED
    BY <2>1, <2>2, <2>3 DEF Accounts
<1>3. CASE PayPayment
  BY <1>3, AccountsPayment
<1>4. CASE PayPayee
  BY <1>4, AccountsPayee
<1>5. CASE PayRecipient
  BY <1>5, AccountsRecipient
<1>6. CASE PayPool
  BY <1>6, AccountsPool
<1>7. ASSUME NEW size \in NonceSizes, AssembleBlock(size)
      PROVE  Accounts'
  <2>1. /\ step = "ready" /\ step' = "block"
        /\ UNCHANGED <<rpc, address, todo, reward, left, outputs, paid>>
    BY <1>7 DEF AssembleBlock
  <2> QED
    BY <2>1 DEF Accounts, PayeePart
<1>8. CASE UNCHANGED assemblyVars
  BY <1>8 DEF assemblyVars, Accounts, PayeePart
<1> QED
  BY <1>1, <1>2, <1>3, <1>4, <1>5, <1>6, <1>7, <1>8 DEF AssemblyNext

LEMMA AccountsInvariant == AssemblySpec => []Accounts
  BY AccountsInit, AccountsStep, AssemblyInvariant, PTL DEF AssemblySpec

(***************************************************************************)
(* generateOutputTransactions spends the coinbase value to the satoshi,    *)
(* and what it leaves to the pool is what the payout ledger reckons with   *)
(* and never negative, for all payments the value covers and all           *)
(* percentages of a hundred in all.                                        *)
(***************************************************************************)
THEOREM OutputsAlwaysAddUp == AssemblySpec => []OutputsAddUp
<1>1. AssemblyInv /\ Accounts => OutputsAddUp
  <2> SUFFICES ASSUME AssemblyInv, Accounts
               PROVE  OutputsAddUp
    OBVIOUS
  <2>1. SpendsItAll
    BY DEF AssemblyInv, Balance, SpendsItAll, Early
  <2>2. step \in {"ready", "block"} => left = RewardToPool(reward) /\ reward \in Nat
    BY DEF Accounts
  <2> QED
    BY <2>1, <2>2, PoolPartNat DEF OutputsAddUp
<1> QED
  BY <1>1, AssemblyInvariant, AccountsInvariant, PTL

-------------------------------------------------------------------------------
(* What a node reads *)

LEMMA AmountRead == ASSUME NEW n \in Int PROVE ReadInt64LE(PackInt64LE(n)) = n
<1>1. Word \in Nat \ {0}
  BY WordAssumption DEF WordAssumption
<1>2. (n % Word) + Word * (n \div Word) = n
  BY <1>1
<1> QED
  BY <1>2 DEF ReadInt64LE, PackInt64LE

LEMMA Regrouped ==
  ASSUME NEW a \in Seq(Nat), NEW b \in Seq(Nat), NEW c \in Seq(Nat)
  PROVE  (a \o b) \o c = a \o (b \o c)
  BY ConcatAssociative

LEMMA AppendedPrefix ==
  ASSUME NEW a \in Seq(Nat), NEW b \in Seq(Nat)
  PROVE  IsPrefix(a, a \o b)
<1> DEFINE c == a \o b
<1>1. /\ c \in Seq(Nat) /\ Len(a) \in Nat /\ Len(a) <= Len(c)
      /\ \A i \in 1 .. Len(a) : c[i] = a[i]
  OBVIOUS
<1> HIDE DEF c
<1>2. SubSeq(a, 1, Len(a)) = SubSeq(c, 1, Len(a))
  BY <1>1
<1> QED
  BY <1>1, <1>2 DEF IsPrefix, c

LEMMA AmountsRead ==
  ASSUME NEW s \in Seq(Int), NEW amounts, amounts = [i \in DOMAIN s |-> PackInt64LE(s[i])]
  PROVE  [i \in DOMAIN amounts |-> ReadInt64LE(amounts[i])] = s
<1>1. \A i \in DOMAIN s : ReadInt64LE(amounts[i]) = s[i]
  BY AmountRead
<1>2. DOMAIN amounts = DOMAIN s
  OBVIOUS
<1>3. [i \in DOMAIN amounts |-> ReadInt64LE(amounts[i])] = [i \in DOMAIN s |-> s[i]]
  BY <1>1, <1>2
<1>4. s = [i \in DOMAIN s |-> s[i]]
  OBVIOUS
<1> QED
  BY <1>3, <1>4

\* The script starts with the height, and the amounts are those of the outputs.
Written ==
  /\ block # NoBlock <=> step = "block"
  /\ step = "block" => /\ IsPrefix(MinimalPush(rpc.height), block.script)
                       /\ block.amounts = [i \in DOMAIN outputs |-> PackInt64LE(outputs[i])]

LEMMA WrittenBlock ==
  ASSUME AssemblyInv, NEW size \in NonceSizes, AssembleBlock(size)
  PROVE  Written'
<1> DEFINE height == SerializeNumber(rpc.height)
           nonces == [i \in 1 .. ExtraNonce1Size + size |-> 0]
           zeros  == [i \in 1 .. 6 |-> 0]
<1>1. /\ step' = "block" /\ size = 4 /\ rpc' = rpc /\ outputs' = outputs
      /\ block'.script = ScriptSigPart1 \o nonces \o ScriptSigPart2
      /\ block'.amounts = [i \in DOMAIN outputs |-> PackInt64LE(outputs[i])]
      /\ DOMAIN block' # {}
  BY SMTT(30) DEF AssembleBlock, RightSize, ExtraNonce2Size, PlaceholderSize, ExtraNonce1Size
<1>2. block' # NoBlock
  <2>1. DOMAIN NoBlock = {}
    BY DEF NoBlock
  <2> QED
    BY <1>1, <2>1, Zenon
<1>3. height \in Seq(Nat) /\ height = MinimalPush(rpc.height)
  <2>1. rpc \in Templates
    BY DEF AssemblyInv
  <2> QED
    BY <2>1, TemplateFacts
<1>4. nonces \in Seq(Nat) /\ zeros \in Seq(Nat) /\ ScriptSigPart2 \in Seq(Nat)
  BY <1>1 DEF ExtraNonce1Size, ScriptSigPart2
<1>5. ScriptSigPart1 = height \o zeros
  BY DEF ScriptSigPart1
<1> HIDE DEF height, nonces, zeros
<1> DEFINE rest == zeros \o (nonces \o ScriptSigPart2)
<1>6. rest \in Seq(Nat)
  BY <1>4
<1>7. (height \o zeros) \o nonces \o ScriptSigPart2 = height \o rest
  <2> DEFINE last == ScriptSigPart2
  <2> HIDE DEF last
  <2>1. height \o zeros \in Seq(Nat) /\ nonces \o last \in Seq(Nat) /\ last \in Seq(Nat)
    BY <1>3, <1>4 DEF last
  <2>2. ((height \o zeros) \o nonces) \o last = (height \o zeros) \o (nonces \o last)
    BY <1>4, <2>1, Regrouped, SMTT(30)
  <2>3. (height \o zeros) \o (nonces \o last) = height \o (zeros \o (nonces \o last))
    BY <1>3, <1>4, <2>1, Regrouped, SMTT(30)
  <2> QED
    BY <2>2, <2>3 DEF last
<1> HIDE DEF rest
<1>8. IsPrefix(height, height \o rest)
  BY <1>3, <1>6, AppendedPrefix
<1>9. IsPrefix(MinimalPush(rpc.height), block'.script)
  BY <1>1, <1>3, <1>5, <1>7, <1>8, Zenon
<1> QED
  BY <1>1, <1>2, <1>9 DEF Written

LEMMA WrittenStep == AssemblyInv /\ Written /\ [AssemblyNext]_assemblyVars => Written'
<1> SUFFICES ASSUME AssemblyInv, Written, [AssemblyNext]_assemblyVars
             PROVE  Written'
  OBVIOUS
<1>1. CASE MerkleStep
  BY <1>1 DEF MerkleStep, Written
<1>2. CASE StartOutputs
  BY <1>2 DEF StartOutputs, Written
<1>3. CASE PayPayment
  BY <1>3 DEF PayPayment, Written
<1>4. CASE PayPayee
  BY <1>4 DEF PayPayee, Written
<1>5. CASE PayRecipient
  BY <1>5 DEF PayRecipient, Written
<1>6. CASE PayPool
  BY <1>6 DEF PayPool, Written
<1>7. ASSUME NEW size \in NonceSizes, AssembleBlock(size)
      PROVE  Written'
  BY <1>7, WrittenBlock
<1>8. CASE UNCHANGED assemblyVars
  BY <1>8 DEF assemblyVars, Written
<1> QED
  BY <1>1, <1>2, <1>3, <1>4, <1>5, <1>6, <1>7, <1>8 DEF AssemblyNext

LEMMA WrittenInvariant == AssemblySpec => []Written
<1>1. AssemblyInit => Written
  BY DEF AssemblyInit, Written
<1> QED
  BY <1>1, WrittenStep, AssemblyInvariant, PTL DEF AssemblySpec

(***************************************************************************)
(* The types of what is assembled; in particular paid is the sum of the    *)
(* outputs pushed so far, in whatever order the fold takes them.           *)
(***************************************************************************)
THEOREM AssemblyWellTyped == AssemblySpec => []AssemblyTypeOK
<1>1. AssemblyInv /\ Accounts /\ Written => AssemblyTypeOK
  <2> SUFFICES ASSUME AssemblyInv, Accounts, Written
               PROVE  AssemblyTypeOK
    OBVIOUS
  <2>1. paid = SumOf(outputs)
    BY SumOfIsTotal DEF Accounts
  <2> QED
    BY <2>1, AssemblyTypes DEF AssemblyTypeOK, Accounts, Written
<1> QED
  BY <1>1, AssemblyInvariant, AccountsInvariant, WrittenInvariant, PTL

(***************************************************************************)
(* A node finds the height that serializeNumber wrote where the script     *)
(* starts, for every height up to 2^31 - 1, and amounts that packInt64LE   *)
(* wrote which are together what the template allows.                      *)
(***************************************************************************)
THEOREM NodeAlwaysReadsBlock == AssemblySpec => []NodeReadsBlock
<1>1. AssemblyInv /\ Accounts /\ Written => NodeReadsBlock
  <2> SUFFICES ASSUME AssemblyInv, Accounts, Written, step = "block"
               PROVE  /\ IsPrefix(MinimalPush(rpc.height), block.script)
                      /\ SumOf([i \in DOMAIN block.amounts |-> ReadInt64LE(block.amounts[i])])
                           = rpc.coinbasevalue
    BY DEF NodeReadsBlock
  <2> DEFINE amounts == block.amounts
  <2>1. amounts = [i \in DOMAIN outputs |-> PackInt64LE(outputs[i])]
    BY DEF Written
  <2>2. outputs \in Seq(Int)
    BY AssemblyTypes
  <2> HIDE DEF amounts
  <2>3. [i \in DOMAIN amounts |-> ReadInt64LE(amounts[i])] = outputs
    BY <2>1, <2>2, AmountsRead
  <2>4. SumOf(outputs) = paid
    BY SumOfIsTotal DEF Accounts
  <2>5. paid = rpc.coinbasevalue
    BY DEF AssemblyInv, Balance, Early
  <2>6. IsPrefix(MinimalPush(rpc.height), block.script)
    BY DEF Written
  <2> QED
    BY <2>3, <2>4, <2>5, <2>6 DEF amounts
<1> QED
  BY <1>1, AssemblyInvariant, AccountsInvariant, WrittenInvariant, PTL

-------------------------------------------------------------------------------
(* Quotients and powers of two *)

LEMMA Powers ==
  /\ 2^0 = 1 /\ 2^1 = 2 /\ 2^2 = 4 /\ 2^3 = 8 /\ 2^4 = 16 /\ 2^5 = 32 /\ 2^6 = 64
  /\ 2^7 = 128 /\ 2^8 = 256 /\ 2^9 = 512 /\ 2^10 = 1024 /\ 2^11 = 2048
  OBVIOUS

LEMMA Ordered ==
  ASSUME NEW d \in Nat, NEW a \in Nat, NEW b \in Nat, a <= b
  PROVE  d * a <= d * b
  OBVIOUS

LEMMA Quotient ==
  ASSUME NEW d \in Nat \ {0}, NEW q \in Nat, NEW r \in Nat, r < d
  PROVE  (d * q + r) \div d = q
<1> DEFINE n == d * q + r
           p == n \div d
           s == n % d
<1>1. n \in Nat /\ p \in Nat /\ s \in Nat /\ s < d
  OBVIOUS
<1>2. n = d * p + s
  <2>1. \A m \in Nat : (m % d) + d * (m \div d) = m
    OBVIOUS
  <2> QED
    BY <2>1, <1>1
<1> HIDE DEF p, s
<1>3. ASSUME p < q PROVE FALSE
  <2>1. d * (p + 1) <= d * q
    BY <1>1, <1>3, Ordered
  <2>2. d * (p + 1) = d * p + d /\ d * p \in Nat /\ d * q \in Nat
    BY <1>1
  <2> QED
    BY <1>1, <1>2, <2>1, <2>2
<1>4. ASSUME q < p PROVE FALSE
  <2>1. d * (q + 1) <= d * p
    BY <1>1, <1>4, Ordered
  <2>2. d * (q + 1) = d * q + d /\ d * p \in Nat /\ d * q \in Nat
    BY <1>1
  <2> QED
    BY <1>1, <1>2, <2>1, <2>2
<1>5. p = q
  BY <1>1, <1>3, <1>4
<1> QED
  BY <1>5 DEF p

LEMMA Cancelled ==
  ASSUME NEW t \in Nat \ {0}, NEW u \in Nat \ {0}, NEW y \in Nat, NEW c \in Nat, c < t
  PROVE  (t * y + c) \div (t * u) = y \div u
<1> DEFINE q == y \div u
           r == y % u
           d == t * u
<1>1. q \in Nat /\ r \in Nat /\ r < u /\ y = u * q + r
  <2>1. \A m \in Nat : (m % u) + u * (m \div u) = m
    OBVIOUS
  <2> QED
    BY <2>1
<1> HIDE DEF q, r
<1>2. d \in Nat \ {0}
  OBVIOUS
<1>3. t * y + c = d * q + (t * r + c)
  <2>1. t * (u * q + r) = t * (u * q) + t * r
    BY <1>1
  <2>2. t * (u * q) = (t * u) * q
    BY <1>1
  <2>3. t * r \in Nat /\ (t * u) * q \in Nat
    BY <1>1
  <2> QED
    BY <1>1, <2>1, <2>2, <2>3
<1>4. t * r + c \in Nat /\ t * r + c < d
  <2>1. t * (r + 1) <= t * u
    BY <1>1, Ordered
  <2>2. t * (r + 1) = t * r + t /\ t * r \in Nat
    BY <1>1
  <2> QED
    BY <2>1, <2>2
<1> HIDE DEF d
<1>5. (d * q + (t * r + c)) \div d = q
  BY <1>1, <1>2, <1>4, Quotient
<1> QED
  BY <1>3, <1>5 DEF q, d

\* n \div d is y \div u, with a factor t in common and something left over.
Reduces(n, d, t, u, y) ==
  /\ t \in Nat \ {0} /\ u \in Nat \ {0} /\ y \in Nat /\ n \in Nat
  /\ d = t * u /\ t * y <= n /\ n < t * y + t

LEMMA Reduced ==
  ASSUME NEW n, NEW d, NEW t, NEW u, NEW y, Reduces(n, d, t, u, y)
  PROVE  n \div d = y \div u
<1> DEFINE c == n - t * y
<1>1. /\ t \in Nat \ {0} /\ u \in Nat \ {0} /\ y \in Nat /\ n \in Nat /\ d = t * u
      /\ t * y \in Nat /\ c \in Nat /\ c < t /\ n = t * y + c
  BY DEF Reduces
<1> HIDE DEF c
<1>2. (t * y + c) \div (t * u) = y \div u
  BY <1>1, Cancelled, SMTT(30)
<1> QED
  BY <1>1, <1>2

\* As it is used: a byte x, t * y + c with c < t in the next place.
LEMMA InNextByte ==
  ASSUME NEW t \in Nat \ {0}, NEW p \in Nat, 256 = t * p, NEW u \in Nat \ {0},
         NEW y \in Nat, NEW c \in Nat, c < t, NEW x \in Nat
  PROVE  Reduces(256 * x + (t * y + c), t * u, t, u, p * x + y)
<1>1. 256 * x = t * (p * x)
  <2>1. (t * p) * x = t * (p * x)
    OBVIOUS
  <2> QED
    BY <2>1
<1>2. t * (p * x + y) = t * (p * x) + t * y
  OBVIOUS
<1>3. p * x + y \in Nat /\ t * (p * x) \in Nat /\ t * y \in Nat
  OBVIOUS
<1> QED
  BY <1>1, <1>2, <1>3 DEF Reduces

LEMMA InThisByte ==
  ASSUME NEW t \in Nat \ {0}, NEW u \in Nat \ {0},
         NEW y \in Nat, NEW c \in Nat, c < t, NEW x \in Nat, x < 256
  PROVE  Reduces(256 * (t * y + c) + x, 256 * (t * u), 256 * t, u, y)
<1>1. 256 * (t * y + c) = (256 * t) * y + 256 * c /\ 256 * (t * u) = (256 * t) * u
  OBVIOUS
<1>2. 256 * t \in Nat \ {0} /\ (256 * t) * y \in Nat /\ 256 * c + x < 256 * t
  OBVIOUS
<1> QED
  BY <1>1, <1>2 DEF Reduces

LEMMA PowersMultiply ==
  ASSUME NEW m \in 0 .. 11, NEW n \in 0 .. 11, m + n <= 11
  PROVE  2^m \in Nat \ {0} /\ 2^(m + n) = 2^m * 2^n
<1> DEFINE P(k) == 2^k
<1>1. /\ P(0) = 1 /\ P(1) = 2 /\ P(2) = 4 /\ P(3) = 8 /\ P(4) = 16 /\ P(5) = 32 /\ P(6) = 64
      /\ P(7) = 128 /\ P(8) = 256 /\ P(9) = 512 /\ P(10) = 1024 /\ P(11) = 2048
  BY Powers
<1>2. 2^m = P(m) /\ 2^n = P(n) /\ 2^(m + n) = P(m + n)
  OBVIOUS
<1> HIDE DEF P
<1>3. P(m) \in Nat \ {0}
  BY <1>1
<1>4. m = 0 \/ m = 1 \/ m = 2 \/ m = 3 \/ m = 4 \/ m = 5 \/ m = 6 \/ m = 7 \/ m = 8 \/ m = 9
      \/ m = 10 \/ m = 11
  OBVIOUS
<1>5. P(m + n) = P(m) * P(n)
  BY <1>1, <1>4
<1> QED
  BY <1>2, <1>3, <1>5

LEMMA PowerProduct ==
  ASSUME NEW m \in Nat, NEW n \in Nat, NEW k \in Nat, k = m + n, k <= 11
  PROVE  2^k = 2^m * 2^n /\ 2^m \in Nat \ {0} /\ 2^n \in Nat \ {0}
<1>1. m \in 0 .. 11 /\ n \in 0 .. 11 /\ m + n <= 11 /\ n + m <= 11
  OBVIOUS
<1>2. 2^(m + n) = 2^m * 2^n /\ 2^m \in Nat \ {0}
  BY <1>1, PowersMultiply
<1>3. 2^n \in Nat \ {0}
  BY <1>1, PowersMultiply
<1> QED
  BY <1>2, <1>3

LEMMA DivisionOf ==
  ASSUME NEW n \in Nat, NEW d \in Nat \ {0}
  PROVE  /\ n \div d \in Nat /\ n % d \in Nat /\ n % d < d
         /\ n = d * (n \div d) + (n % d)
<1> DEFINE q == n \div d
           r == n % d
<1>1. r + d * q = n
  <2>1. \A m \in Nat : (m % d) + d * (m \div d) = m
    OBVIOUS
  <2> QED
    BY <2>1
<1>2. q \in Nat /\ r \in Nat /\ r < d
  OBVIOUS
<1> HIDE DEF q, r
<1>3. n = d * q + r
  BY <1>1, <1>2
<1> QED
  BY <1>2, <1>3 DEF q, r

LEMMA Remainder ==
  ASSUME NEW d \in Nat \ {0}, NEW q \in Nat, NEW r \in Nat, r < d
  PROVE  (d * q + r) % d = r
<1> DEFINE n == d * q + r
           p == n \div d
           s == n % d
<1>1. n \in Nat /\ d * q \in Nat
  OBVIOUS
<1>2. p = q
  BY Quotient
<1>3. n = d * p + s /\ s \in Nat
  BY <1>1, DivisionOf
<1> HIDE DEF p, s
<1>4. d * q + r = d * q + s
  BY <1>2, <1>3
<1> HIDE DEF n
<1>5. r = s
  BY <1>1, <1>3, <1>4
<1> QED
  BY <1>5 DEF s, n

\* The byte that the accumulator gives out, and what stays in it.
GivesByte(T, K, z) ==
  /\ (((256 * T) * K + z) \div T) % 256 = z \div T
  /\ ((256 * T) * K + z) % T = z % T
  /\ z \div T \in Nat /\ z \div T < 256

LEMMA ByteOut ==
  ASSUME NEW T \in Nat \ {0}, NEW K \in Nat, NEW z \in Nat, z < 256 * T
  PROVE  GivesByte(T, K, z)
<1> DEFINE q == z \div T
           r == z % T
           m == 256 * K + q
<1>1. q \in Nat /\ r \in Nat /\ r < T /\ z = T * q + r
  BY DivisionOf
<1> HIDE DEF q, r
<1>2. q < 256
  <2>1. ASSUME 256 <= q PROVE FALSE
    <3>1. T * 256 <= T * q /\ T * q \in Nat
      BY <1>1, <2>1, Ordered
    <3> QED
      BY <1>1, <3>1
  <2> QED
    BY <1>1, <2>1
<1>3. m \in Nat
  BY <1>1
<1>4. (256 * T) * K + z = T * m + r
  <2>1. T * (256 * K + q) = T * (256 * K) + T * q
    BY <1>1
  <2>2. T * (256 * K) = (256 * T) * K
    OBVIOUS
  <2>3. T * q \in Nat /\ T * (256 * K) \in Nat
    BY <1>1
  <2> QED
    BY <1>1, <2>1, <2>2, <2>3
<1>5. m % 256 = q
  BY <1>1, <1>2
<1> HIDE DEF m
<1>6. (T * m + r) \div T = m /\ (T * m + r) % T = r
  BY <1>1, <1>3, Quotient, Remainder
<1> QED
  BY <1>1, <1>2, <1>4, <1>5, <1>6, Zenon DEF GivesByte, q, r

\* The symbol fills the byte: v \div T of it are the byte's last bits.
Fills(T, t, a, v) ==
  /\ (32 * a + v) \div T = t * a + (v \div T)
  /\ (32 * a + v) % T = v % T
  /\ v \div T \in Nat /\ v \div T < t
  /\ v % T \in Nat /\ v % T < T

LEMMA Filling ==
  ASSUME NEW T \in Nat \ {0}, NEW t \in Nat \ {0}, t * T = 32,
         NEW a \in Nat, NEW v \in 0 .. 31
  PROVE  Fills(T, t, a, v)
<1> DEFINE q == v \div T
           r == v % T
           m == t * a + q
<1>1. q \in Nat /\ r \in Nat /\ r < T /\ v = T * q + r
  BY DivisionOf
<1> HIDE DEF q, r
<1>2. q < t
  <2>1. ASSUME t <= q PROVE FALSE
    <3>1. T * t <= T * q /\ T * q \in Nat
      BY <1>1, <2>1, Ordered
    <3>2. T * t = 32
      OBVIOUS
    <3> QED
      BY <1>1, <3>1, <3>2
  <2> QED
    BY <1>1, <2>1
<1>3. 32 * a + v = T * m + r /\ m \in Nat
  <2>1. T * (t * a + q) = T * (t * a) + T * q
    BY <1>1
  <2>2. T * (t * a) = (t * T) * a
    OBVIOUS
  <2>3. T * q \in Nat /\ t * a \in Nat
    BY <1>1
  <2> QED
    BY <1>1, <2>1, <2>2, <2>3
<1> HIDE DEF m
<1>4. (T * m + r) \div T = m /\ (T * m + r) % T = r
  BY <1>1, <1>3, Quotient, Remainder
<1>5. (32 * a + v) \div T = t * a + q /\ (32 * a + v) % T = r
  BY <1>3, <1>4 DEF m
<1> QED
  BY <1>1, <1>2, <1>5, Zenon DEF Fills, q, r

-------------------------------------------------------------------------------
(* The conversion of an address: five bits in two bytes *)

Bytes == 0 .. 255

LEMMA ByteRange ==
  ASSUME NEW e \in Seq(Bytes), NEW i \in Nat
  PROVE  Byte(e, i) \in Nat /\ Byte(e, i) < 256
<1>1. CASE i < Len(e)
  <2>1. i + 1 \in 1 .. Len(e)
    BY <1>1
  <2>2. e[i + 1] \in Bytes
    BY <2>1, ElementOfSeq
  <2>3. Byte(e, i) = e[i + 1]
    BY <1>1 DEF Byte
  <2>4. \A x \in Bytes : x \in Nat /\ x < 256
    BY DEF Bytes
  <2> QED
    BY <2>2, <2>3, <2>4
<1>2. CASE ~(i < Len(e))
  BY <1>2 DEF Byte
<1> QED
  BY <1>1, <1>2

\* f goes on from e after the first b bits of byte L + 1.
GoesOn(e, f, L, b, y, c) ==
  LET t == 2^(8 - b)
  IN  /\ L \in Nat /\ b \in 0 .. 7 /\ y \in Nat /\ c \in Nat /\ c < t
      /\ e \in Seq(Bytes) /\ Len(e) = L + 1 /\ e[L + 1] = t * y
      /\ f \in Seq(Bytes) /\ Len(f) \in {L + 1, L + 2} /\ f[L + 1] = t * y + c
      /\ \A i \in 1 .. L : f[i] = e[i]

\* Five bits lie in the first b bits of byte L + 1 or before it: what the rest of
\* that byte and the next one are makes no difference.
LEMMA OldBits ==
  ASSUME NEW e, NEW f, NEW L, NEW b, NEW y, NEW c, GoesOn(e, f, L, b, y, c),
         NEW k \in Nat, k + 5 <= 8 * L + b
  PROVE  FiveBits(f, k) = FiveBits(e, k)
<1> DEFINE t == 2^(8 - b)
<1>0. /\ L \in Nat /\ b \in 0 .. 7 /\ y \in Nat /\ c \in Nat /\ c < t
      /\ e \in Seq(Bytes) /\ Len(e) = L + 1 /\ e[L + 1] = t * y
      /\ f \in Seq(Bytes) /\ Len(f) \in {L + 1, L + 2} /\ f[L + 1] = t * y + c
      /\ (\A i \in 1 .. L : f[i] = e[i]) /\ t = 2^(8 - b)
  BY Zenon DEF GoesOn
<1> HIDE DEF t
<1> USE <1>0
<1> DEFINE q == k \div 8
           o == k % 8
           d == 2^(11 - o)
           p == 2^b
<1>1. q \in Nat /\ o \in 0 .. 7 /\ k = 8 * q + o /\ q <= L
  OBVIOUS
<1>2. /\ FiveBits(f, k) = ((256 * Byte(f, q) + Byte(f, q + 1)) \div d) % 32
      /\ FiveBits(e, k) = ((256 * Byte(e, q) + Byte(e, q + 1)) \div d) % 32
  BY DEF FiveBits
<1>3. t \in Nat \ {0} /\ p \in Nat /\ 256 = t * p
  <2>1. 8 - b \in Nat /\ b \in Nat /\ 8 = (8 - b) + b /\ 8 \in Nat /\ 8 <= 11
    OBVIOUS
  <2>2. 2^8 = 2^(8 - b) * 2^b /\ 2^(8 - b) \in Nat \ {0} /\ 2^b \in Nat \ {0}
    BY <2>1, PowerProduct
  <2> QED
    BY <2>2, Powers
<1> HIDE DEF q, o, d, p
<1>4. \A i \in Nat : /\ Byte(e, i) \in Nat /\ Byte(e, i) < 256
                    /\ Byte(f, i) \in Nat /\ Byte(f, i) < 256
  BY ByteRange
<1>5. Byte(e, L) = t * y /\ Byte(f, L) = t * y + c /\ Byte(e, L + 1) = 0
  BY DEF Byte
<1>6. \A i \in Nat : i < L => Byte(e, i) = Byte(f, i)
  BY DEF Byte
<1>7. CASE q = L
  <2> DEFINE k3 == 3 - o
             k8 == 8
             k11 == 11 - o
             m == 8 - b
             n == b - o - 5
             u == 2^n
             z == Byte(f, L + 1)
  <2>1. /\ n \in Nat /\ m \in Nat /\ k3 \in Nat /\ k8 \in Nat /\ k11 \in Nat
        /\ k3 = m + n /\ k3 <= 11 /\ k11 = k8 + k3 /\ k11 <= 11
    BY <1>1, <1>7
  <2>2. d = 2^k11 /\ t = 2^m /\ 2^k8 = 256
    BY Powers DEF d
  <2> HIDE DEF k3, k8, k11, m, n, z
  <2>3. u \in Nat \ {0} /\ d = 256 * (t * u)
    <3>1. 2^k3 = 2^m * u /\ u \in Nat \ {0}
      BY <2>1, PowerProduct
    <3>2. 2^k11 = 2^k8 * 2^k3
      BY <2>1, PowerProduct
    <3> QED
      BY <2>2, <3>1, <3>2
  <2> HIDE DEF u
  <2>4. z \in Nat /\ z < 256
    BY <1>4 DEF z
  <2>5. Reduces(256 * (t * y + c) + z, d, 256 * t, u, y)
    BY <1>3, <2>3, <2>4, InThisByte, ZenonT(30)
  <2>6. Reduces(256 * (t * y + 0) + 0, d, 256 * t, u, y)
    <3>1. 0 \in Nat /\ 0 < t /\ 0 < 256
      BY <1>3
    <3> QED
      BY <1>3, <2>3, <3>1, InThisByte, ZenonT(30)
  <2>7. (256 * (t * y + c) + z) \div d = y \div u /\ (256 * (t * y + 0) + 0) \div d = y \div u
    BY <2>5, <2>6, Reduced
  <2>8. t * y + 0 = t * y
    BY <1>3
  <2> QED
    BY <1>2, <1>5, <1>7, <2>7, <2>8 DEF z
<1>8. CASE q + 1 = L
  <2> DEFINE k11 == 11 - o
             m == 8 - b
             n == 3 + b - o
             u == 2^n
             x == Byte(e, q)
  <2>1. n \in Nat /\ m \in Nat /\ k11 \in Nat /\ k11 = m + n /\ k11 <= 11
    BY <1>1, <1>8
  <2>2. d = 2^k11 /\ t = 2^m
    BY DEF d
  <2> HIDE DEF k11, m, n
  <2>3. u \in Nat \ {0} /\ d = t * u
    BY <2>1, <2>2, PowerProduct
  <2>4. x \in Nat /\ x = Byte(f, q)
    <3>1. q < L /\ q \in Nat
      BY <1>1, <1>8
    <3> QED
      BY <3>1, <1>4, <1>6
  <2> HIDE DEF u, x
  <2>5. Reduces(256 * x + (t * y + c), d, t, u, p * x + y)
    BY <1>3, <2>3, <2>4, InNextByte, ZenonT(30)
  <2>6. Reduces(256 * x + (t * y + 0), d, t, u, p * x + y)
    <3>1. 0 \in Nat /\ 0 < t
      BY <1>3
    <3> QED
      BY <1>3, <2>3, <2>4, <3>1, InNextByte, ZenonT(30)
  <2>7. (256 * x + (t * y + c)) \div d = (256 * x + (t * y + 0)) \div d
    BY <2>5, <2>6, Reduced
  <2>8. t * y + 0 = t * y
    BY <1>3
  <2>9. Byte(e, q + 1) = t * y /\ Byte(f, q + 1) = t * y + c
    BY <1>5, <1>8
  <2> QED
    BY <1>2, <2>4, <2>7, <2>8, <2>9 DEF x
<1>9. CASE q + 1 < L
  <2>1. Byte(e, q) = Byte(f, q) /\ Byte(e, q + 1) = Byte(f, q + 1)
    BY <1>1, <1>6, <1>9
  <2> QED
    BY <1>2, <2>1
<1> QED
  BY <1>1, <1>7, <1>8, <1>9

-------------------------------------------------------------------------------
(* One pass of the loop *)

Symbols == 0 .. 31

\* The bytes so far, and one more with the bits that still wait.
Pending(s) == Append(s.ret, (s.acc % 2^s.bits) * 2^(8 - s.bits))

Converter(s) == s.acc \in Nat /\ s.bits \in 0 .. 7 /\ s.ret \in Seq(Bytes)

LEMMA AccMultiple ==
  ASSUME NEW b \in 0 .. 7
  PROVE  \E Q \in Nat \ {0} : AccSize = (32 * 2^b) * Q
<1> DEFINE m == 7 - b
           k7 == 7
           M == AccSize \div 4096
           P == 2^b
           R == 2^m
<1>1. b \in Nat /\ m \in Nat /\ k7 \in Nat /\ k7 = b + m /\ k7 <= 11
  OBVIOUS
<1>2. 2^k7 = 128
  BY Powers
<1> HIDE DEF m, k7
<1>3. 128 = P * R /\ P \in Nat \ {0} /\ R \in Nat \ {0}
  BY <1>1, <1>2, PowerProduct
<1>4. M \in Nat \ {0} /\ AccSize = 4096 * M
  BY AccAssumption
<1> HIDE DEF P, R, M
<1>5. R * M \in Nat \ {0}
  BY <1>3, <1>4
<1>6. AccSize = (32 * P) * (R * M)
  <2>1. (32 * P) * (R * M) = (32 * (P * R)) * M
    BY <1>3, <1>4
  <2> QED
    BY <1>3, <1>4, <2>1
<1> QED
  BY <1>5, <1>6 DEF P

\* The bits that wait fit their byte.
LEMMA WaitingByte ==
  ASSUME NEW t \in Nat \ {0}, NEW P \in Nat \ {0}, t * P = 256, NEW a \in Nat, a < P
  PROVE  t * a \in Bytes /\ a * t = t * a
<1>1. t * (a + 1) <= t * P
  BY Ordered
<1>2. t * (a + 1) = t * a + t /\ t * a \in Nat
  OBVIOUS
<1>3. t * a \in Nat /\ t * a < 256
  BY <1>1, <1>2
<1> QED
  BY <1>3 DEF Bytes

LEMMA PowersOfBits ==
  ASSUME NEW b \in 0 .. 7
  PROVE  2^b \in Nat \ {0} /\ 2^(8 - b) \in Nat \ {0} /\ 2^(8 - b) * 2^b = 256
<1> DEFINE m == 8 - b
           k8 == 8
<1>1. b \in Nat /\ m \in Nat /\ k8 \in Nat /\ k8 = m + b /\ k8 <= 11
  OBVIOUS
<1>2. 2^k8 = 256
  BY Powers
<1> HIDE DEF m, k8
<1>3. 256 = 2^m * 2^b /\ 2^m \in Nat \ {0} /\ 2^b \in Nat \ {0}
  BY <1>1, <1>2, PowerProduct
<1> QED
  BY <1>3 DEF m

LEMMA PendingBytes ==
  ASSUME NEW s, Converter(s)
  PROVE  /\ Pending(s) \in Seq(Bytes) /\ Len(Pending(s)) = Len(s.ret) + 1
         /\ Pending(s)[Len(s.ret) + 1] = 2^(8 - s.bits) * (s.acc % 2^s.bits)
         /\ \A i \in 1 .. Len(s.ret) : Pending(s)[i] = s.ret[i]
<1> DEFINE P == 2^s.bits
           t == 2^(8 - s.bits)
           a == s.acc % P
<1>1. s.acc \in Nat /\ s.bits \in 0 .. 7 /\ s.ret \in Seq(Bytes)
  BY DEF Converter
<1>2. P \in Nat \ {0} /\ t \in Nat \ {0} /\ t * P = 256
  <2> DEFINE b == s.bits
  <2>1. b \in 0 .. 7
    BY <1>1
  <2> HIDE DEF b
  <2>2. 2^b \in Nat \ {0} /\ 2^(8 - b) \in Nat \ {0} /\ 2^(8 - b) * 2^b = 256
    BY <2>1, PowersOfBits
  <2> QED
    BY <2>2 DEF b
<1>3. Pending(s) = Append(s.ret, a * t)
  BY DEF Pending
<1> HIDE DEF P, t
<1>4. a \in Nat /\ a < P
  BY <1>1, <1>2, DivisionOf
<1> HIDE DEF a
<1>5. t * a \in Bytes /\ a * t = t * a
  BY <1>2, <1>4, WaitingByte
<1>6. Pending(s) = Append(s.ret, t * a)
  BY <1>3, <1>5
<1> DEFINE x == t * a
<1>7. x \in Bytes /\ Pending(s) = Append(s.ret, x)
  BY <1>5, <1>6
<1> HIDE DEF x
<1>8. /\ Pending(s) \in Seq(Bytes) /\ Len(Pending(s)) = Len(s.ret) + 1
      /\ Pending(s)[Len(s.ret) + 1] = x
      /\ \A i \in 1 .. Len(s.ret) : Pending(s)[i] = s.ret[i]
  BY <1>1, <1>7
<1> QED
  BY <1>8 DEF x, t, a, P

\* The low bits of the accumulator after a symbol, in spite of the overflow.
LowPart(P, x, v) ==
  /\ x % P \in Nat /\ 32 * (x % P) + v \in Nat /\ 32 * (x % P) + v < 32 * P
  /\ \E K \in Nat : (32 * x + v) % AccSize = (32 * P) * K + (32 * (x % P) + v)

LEMMA LowBits ==
  ASSUME NEW b \in 0 .. 7, NEW x \in Nat, NEW v \in 0 .. 31
  PROVE  LowPart(2^b, x, v)
<1> DEFINE P == 2^b
           A == AccSize
           g == x \div P
           a == x % P
           w == (32 * x + v) \div A
           y == (32 * x + v) % A
           R == 32 * P
<1>0. P \in Nat \ {0}
  BY PowersOfBits DEF P
<1>13. PICK Q \in Nat \ {0} : A = (32 * P) * Q
  BY AccMultiple DEF P, A
<1> DEFINE K == g - Q * w
<1> HIDE DEF P, A
<1>1. g \in Nat /\ a \in Nat /\ a < P /\ x = P * g + a
  BY <1>0, DivisionOf
<1>2. A \in Nat \ {0}
  BY <1>0, <1>13
<1>3. w \in Nat /\ y \in Nat /\ 32 * x + v = A * w + y
  <2> DEFINE n == 32 * x + v
  <2>1. n \in Nat
    OBVIOUS
  <2> HIDE DEF n
  <2>2. n \div A \in Nat /\ n % A \in Nat /\ n = A * (n \div A) + (n % A)
    BY <1>2, <2>1, DivisionOf
  <2> QED
    BY <2>2 DEF n
<1> HIDE DEF g, w, y, a
<1>4. 32 * a + v \in Nat /\ 32 * a + v < R
  BY <1>0, <1>1
<1>5. 32 * x + v = R * g + (32 * a + v)
  <2>1. 32 * (P * g + a) = (32 * P) * g + 32 * a
    BY <1>0, <1>1
  <2>2. (32 * P) * g \in Nat
    BY <1>0, <1>1
  <2> QED
    BY <1>0, <1>1, <2>1, <2>2
<1>6. A * w = R * (Q * w)
  BY <1>0, <1>3, <1>13
<1>7. R \in Nat \ {0} /\ Q * w \in Nat
  BY <1>0, <1>3
<1> HIDE DEF R
<1>8. R * (g - Q * w) = R * g - R * (Q * w) /\ R * g \in Nat /\ R * (Q * w) \in Nat
  BY <1>1, <1>7
<1>9. y = R * K + (32 * a + v)
  BY <1>3, <1>4, <1>5, <1>6, <1>8
<1>10. K \in Nat
  <2>1. K \in Int
    BY <1>1, <1>7
  <2> HIDE DEF K
  <2>2. ASSUME K <= -1 PROVE FALSE
    <3>1. R * K <= -R
      BY <1>7, <2>1, <2>2
    <3>2. R * K \in Int
      BY <1>7, <2>1
    <3> QED
      BY <1>3, <1>4, <1>7, <1>9, <3>1, <3>2
  <2> QED
    BY <2>1, <2>2
<1>11. y = R * K + (32 * a + v) /\ K \in Nat
  BY <1>9, <1>10
<1> HIDE DEF K
<1>12. a = x % P /\ y = (32 * x + v) % A /\ R = 32 * P
  BY DEF a, y, R
<1> QED
  BY <1>1, <1>4, <1>11, <1>12, Zenon DEF LowPart, P, A

\* What a symbol adds: the bits that waited stay where they are.
Extends(s, v, n) ==
  LET L == Len(s.ret)
      e == Pending(s)
      f == Pending(n)
  IN  /\ Converter(n) /\ 8 * Len(n.ret) + n.bits = 8 * L + s.bits + 5
      /\ Len(f) \in {L + 1, L + 2}
      /\ \A i \in 1 .. L : f[i] = e[i]
      /\ \E c \in Nat : c < 2^(8 - s.bits) /\ f[L + 1] = 2^(8 - s.bits) * (s.acc % 2^s.bits) + c
      /\ FiveBits(f, 8 * L + s.bits) = v

\* Where the new symbol is.
LEMMA NewBits ==
  ASSUME NEW L \in Nat, NEW b \in 0 .. 7, NEW f
  PROVE  FiveBits(f, 8 * L + b) = ((256 * Byte(f, L) + Byte(f, L + 1)) \div 2^(11 - b)) % 32
<1> DEFINE k == 8 * L + b
<1>1. k \div 8 = L /\ k % 8 = b
  OBVIOUS
<1> HIDE DEF k
<1>2. FiveBits(f, k) = ((256 * Byte(f, L) + Byte(f, L + 1)) \div 2^(11 - b)) % 32
  BY <1>1, Zenon DEF FiveBits
<1> QED
  BY <1>2 DEF k

\* A symbol that does not fill the byte.
LEMMA FeedFew ==
  ASSUME NEW s, Converter(s), NEW v \in Symbols, s.bits < 3
  PROVE  Extends(s, v, Feed(s, v))
<1> DEFINE L == Len(s.ret)
           b == s.bits
           P == 2^b
           t == 2^(8 - b)
           t1 == 2^(3 - b)
           D == 2^(11 - b)
           P1 == 2^(b + 5)
           a == s.acc % P
           z == 32 * a + v
           n == Feed(s, v)
           f == Pending(n)
<1>1. s.acc \in Nat /\ b \in 0 .. 7 /\ b < 3 /\ s.ret \in Seq(Bytes) /\ L \in Nat /\ v \in 0 .. 31
  BY DEF Converter, Symbols
<1>2. n = [acc |-> (32 * s.acc + v) % AccSize, bits |-> b + 5, ret |-> s.ret]
  BY <1>1 DEF Feed
<1> HIDE DEF n, b
<1>3. /\ P \in Nat \ {0} /\ t1 \in Nat \ {0} /\ P1 = 32 * P /\ t = 32 * t1 /\ D = 256 * t1
      /\ t * P = 256
  <2> DEFINE k5 == 5
             k8 == 8
             m == 3 - b
             b5 == b + 5
             b8 == 8 - b
             b11 == 11 - b
  <2>1. /\ k5 \in Nat /\ k8 \in Nat /\ b \in Nat /\ m \in Nat
        /\ b5 \in Nat /\ b8 \in Nat /\ b11 \in Nat
        /\ b5 <= 11 /\ b8 <= 11 /\ b11 <= 11
        /\ b5 = k5 + b /\ b8 = k5 + m /\ b11 = k8 + m
    BY <1>1
  <2>2. 2^k5 = 32 /\ 2^k8 = 256
    BY Powers
  <2>3. t * P = 256 /\ P \in Nat \ {0}
    BY <1>1, PowersOfBits
  <2> HIDE DEF k5, k8, m, b5, b8, b11
  <2>4. 2^b5 = 2^k5 * 2^b /\ 2^b8 = 2^k5 * 2^m /\ 2^b11 = 2^k8 * 2^m /\ 2^m \in Nat \ {0}
    BY <2>1, PowerProduct
  <2> QED
    BY <2>2, <2>3, <2>4 DEF m, b5, b8, b11
<1>5. n.bits = b + 5 /\ n.ret = s.ret /\ n.acc = (32 * s.acc + v) % AccSize /\ n.bits \in 0 .. 7
  BY <1>1, <1>2
<1>6. FiveBits(f, 8 * L + b) = ((256 * Byte(f, L) + Byte(f, L + 1)) \div D) % 32
  BY <1>1, NewBits, ZenonT(30)
<1>7. f = Append(s.ret, (n.acc % P1) * t1)
  <2>1. 8 - (b + 5) = 3 - b
    BY <1>1
  <2> QED
    BY <1>5, <2>1 DEF Pending
<1> HIDE DEF P, t, t1, D, P1, a, z, f
<1>8. a = s.acc % P
  BY DEF a
<1>9. /\ a \in Nat /\ 32 * a + v \in Nat /\ 32 * a + v < 32 * P
      /\ \E K \in Nat : (32 * s.acc + v) % AccSize = (32 * P) * K + (32 * a + v)
  <2>1. LowPart(P, s.acc, v)
    BY <1>1, LowBits DEF P
  <2> QED
    BY <1>8, <2>1, Zenon DEF LowPart
<1>10. PICK K \in Nat : n.acc = P1 * K + z
  BY <1>3, <1>5, <1>9 DEF z
<1>11. z \in Nat /\ z < P1 /\ P1 \in Nat \ {0}
  BY <1>3, <1>9 DEF z
<1>12. n.acc % P1 = z /\ n.acc \in Nat
  <2>1. (P1 * K + z) % P1 = z
    BY <1>11, Remainder
  <2>2. P1 * K + z \in Nat
    BY <1>11
  <2> QED
    BY <1>10, <2>1, <2>2
<1>13. t1 * P1 = 256
  <2>1. t1 * (32 * P) = (32 * t1) * P
    BY <1>3
  <2> QED
    BY <1>3, <2>1
<1>14. t1 * z \in Bytes /\ z * t1 = t1 * z
  BY <1>3, <1>11, <1>13, WaitingByte
<1>15. f = Append(s.ret, t1 * z) /\ t1 * z \in Bytes
  BY <1>7, <1>12, <1>14
<1>16. t1 * z = t * a + t1 * v /\ t1 * v \in Nat /\ t1 * v < t
  <2>1. t1 * (32 * a + v) = (32 * t1) * a + t1 * v
    BY <1>1, <1>3, <1>9
  <2>2. t1 * (v + 1) <= t1 * 32 /\ v \in Nat
    BY <1>1, <1>3, Ordered
  <2>3. t1 * (v + 1) = t1 * v + t1 /\ t1 * v \in Nat
    BY <1>1, <1>3
  <2> QED
    BY <1>3, <2>1, <2>2, <2>3 DEF z
<1>17. Len(f) = L + 1 /\ f[L + 1] = t1 * z /\ \A i \in 1 .. L : f[i] = s.ret[i]
  <2> DEFINE x == t1 * z
  <2>1. x \in Bytes /\ f = Append(s.ret, x)
    BY <1>15
  <2> HIDE DEF x
  <2>2. Len(f) = L + 1 /\ f[L + 1] = x /\ \A i \in 1 .. L : f[i] = s.ret[i]
    BY <1>1, <2>1
  <2> QED
    BY <2>2 DEF x
<1>18. ((256 * Byte(f, L) + Byte(f, L + 1)) \div D) % 32 = v
  <2>1. Byte(f, L) = t1 * z /\ Byte(f, L + 1) = 0
    BY <1>1, <1>17 DEF Byte
  <2>2. 256 * (t1 * z) + 0 = D * z + 0
    BY <1>3, <1>11
  <2>3. (D * z + 0) \div D = z
    <3>1. D \in Nat \ {0} /\ 0 \in Nat /\ 0 < D
      BY <1>3
    <3> QED
      BY <1>11, <3>1, Quotient
  <2>4. z % 32 = v
    <3>1. a \in Nat /\ v \in 0 .. 31
      BY <1>1, <1>9
    <3> QED
      BY <3>1 DEF z
  <2> QED
    BY <2>1, <2>2, <2>3, <2>4
<1>19. \A i \in 1 .. L : f[i] = Pending(s)[i]
  BY <1>17, PendingBytes
<1>20. Converter(n)
  BY <1>1, <1>5, <1>12 DEF Converter
<1>21. 8 * Len(n.ret) + n.bits = 8 * L + b + 5
  <2>1. Len(n.ret) = L /\ n.bits = b + 5 /\ L \in Nat /\ b \in Nat
    BY <1>1, <1>5
  <2> HIDE DEF L
  <2> QED
    BY <2>1
<1>22. \E c \in Nat : c < t /\ f[L + 1] = t * a + c
  BY <1>16, <1>17
<1>23. FiveBits(f, 8 * L + b) = v /\ Len(f) \in {L + 1, L + 2}
  BY <1>6, <1>17, <1>18
<1> QED
  BY <1>19, <1>20, <1>21, <1>22, <1>23, Zenon DEF Extends, f, n, b, t, a, P

\* A symbol that fills the byte.
LEMMA FeedFull ==
  ASSUME NEW s, Converter(s), NEW v \in Symbols, s.bits >= 3
  PROVE  Extends(s, v, Feed(s, v))
<1> DEFINE L == Len(s.ret)
           b == s.bits
           P == 2^b
           t == 2^(8 - b)
           T == 2^(b - 3)
           D == 2^(11 - b)
           a == s.acc % P
           z == 32 * a + v
           B == z \div T
           r == z % T
           n == Feed(s, v)
           f == Pending(n)
<1>1. s.acc \in Nat /\ b \in 0 .. 7 /\ b >= 3 /\ s.ret \in Seq(Bytes) /\ L \in Nat /\ v \in 0 .. 31
  BY DEF Converter, Symbols
<1>2. n = [acc  |-> (32 * s.acc + v) % AccSize, bits |-> b - 3,
           ret  |-> Append(s.ret, (((32 * s.acc + v) % AccSize) \div T) % 256)]
  <2>1. b + 5 >= 8 /\ (b + 5) - 8 = b - 3
    BY <1>1
  <2>2. Feed(s, v) =
          [acc |-> (32 * s.acc + v) % AccSize, bits |-> (b + 5) - 8,
           ret |-> Append(s.ret, (((32 * s.acc + v) % AccSize) \div 2^((b + 5) - 8)) % 256)]
    BY <2>1, Zenon DEF Feed
  <2> QED
    BY <2>1, <2>2, Zenon
<1> HIDE DEF n, b
<1>3. /\ P \in Nat \ {0} /\ T \in Nat \ {0} /\ t \in Nat \ {0}
      /\ 32 * P = 256 * T /\ t * T = 32 /\ D = 8 * t /\ D * T = 256
  <2> DEFINE k3 == 3
             k5 == 5
             m == b - 3
             b8 == 8 - b
             b11 == 11 - b
  <2>1. /\ k3 \in Nat /\ k5 \in Nat /\ b \in Nat /\ m \in Nat /\ b8 \in Nat /\ b11 \in Nat
        /\ b <= 11 /\ k5 <= 11 /\ b11 <= 11
        /\ b = k3 + m /\ k5 = b8 + m /\ b11 = k3 + b8
    BY <1>1
  <2>2. 2^k3 = 8 /\ 2^k5 = 32
    BY Powers
  <2> HIDE DEF k3, k5, m, b8, b11
  <2>3. /\ 2^b = 2^k3 * 2^m /\ 2^k5 = 2^b8 * 2^m /\ 2^b11 = 2^k3 * 2^b8
        /\ 2^m \in Nat \ {0} /\ 2^b8 \in Nat \ {0}
    BY <2>1, PowerProduct
  <2>4. 2^b \in Nat \ {0}
    BY <1>1, PowersOfBits
  <2>5. /\ P = 8 * T /\ t * T = 32 /\ D = 8 * t
        /\ T \in Nat \ {0} /\ t \in Nat \ {0} /\ P \in Nat \ {0}
    BY <2>2, <2>3, <2>4 DEF m, b8, b11
  <2> HIDE DEF P, T, t, D
  <2>6. (8 * t) * T = 8 * (t * T)
    BY <2>5
  <2> QED
    BY <2>5, <2>6
<1>4. b - 3 \in 0 .. 7 /\ 8 - (b - 3) = 11 - b
  BY <1>1
<1>5. /\ n.bits = b - 3 /\ n.acc = (32 * s.acc + v) % AccSize
      /\ n.ret = Append(s.ret, (n.acc \div T) % 256)
  BY <1>2
<1>6. FiveBits(f, 8 * L + b) = ((256 * Byte(f, L) + Byte(f, L + 1)) \div D) % 32
  BY <1>1, NewBits, ZenonT(30)
<1>7. f = Append(n.ret, (n.acc % T) * D)
  BY <1>4, <1>5 DEF Pending
<1> HIDE DEF P, t, T, D, a, z, B, r, f
<1>8. /\ a \in Nat /\ 32 * a + v \in Nat /\ 32 * a + v < 32 * P
      /\ \E K \in Nat : (32 * s.acc + v) % AccSize = (32 * P) * K + (32 * a + v)
  <2>1. LowPart(P, s.acc, v)
    BY <1>1, LowBits DEF P
  <2> QED
    BY <2>1, Zenon DEF LowPart, a
<1>9. PICK K \in Nat : n.acc = (256 * T) * K + z
  <2>1. \E K \in Nat : n.acc = (32 * P) * K + z
    BY <1>5, <1>8, Zenon DEF z
  <2>2. 32 * P = 256 * T
    BY <1>3
  <2> QED
    BY <2>1, <2>2, Zenon
<1>10. z \in Nat /\ z < 256 * T
  BY <1>3, <1>8 DEF z
<1>11. (n.acc \div T) % 256 = B /\ n.acc % T = r /\ B \in Nat /\ B < 256
  <2>1. T \in Nat \ {0}
    BY <1>3
  <2>2. GivesByte(T, K, z)
    BY <1>10, <2>1, ByteOut
  <2> QED
    BY <1>9, <2>2, Zenon DEF GivesByte, B, r
<1>12. /\ B = t * a + v \div T /\ v \div T \in Nat /\ v \div T < t
       /\ r \in Nat /\ r < T
  <2>1. T \in Nat \ {0} /\ t \in Nat \ {0} /\ t * T = 32 /\ a \in Nat /\ v \in 0 .. 31
    BY <1>1, <1>3, <1>8
  <2>2. Fills(T, t, a, v)
    BY <2>1, Filling
  <2> QED
    BY <2>2, Zenon DEF Fills, B, r, z
<1>13. z = T * B + r
  BY <1>3, <1>10, DivisionOf DEF B, r
<1>14. n.acc \in Nat
  <2>1. 256 * T \in Nat /\ (256 * T) * K \in Nat
    BY <1>3
  <2> QED
    BY <1>9, <1>10, <2>1
<1>15. D * r \in Bytes /\ r * D = D * r
  <2>1. D \in Nat \ {0} /\ T \in Nat \ {0} /\ D * T = 256 /\ r \in Nat /\ r < T
    BY <1>3, <1>12
  <2> QED
    BY <2>1, WaitingByte
<1>16. n.ret = Append(s.ret, B) /\ f = Append(n.ret, D * r) /\ B \in Bytes
  BY <1>5, <1>7, <1>11, <1>15 DEF Bytes
<1>17. n.ret \in Seq(Bytes) /\ Len(n.ret) = L + 1
  BY <1>1, <1>16
<1>18. Len(f) = L + 2 /\ f[L + 1] = B /\ f[L + 2] = D * r /\ \A i \in 1 .. L : f[i] = s.ret[i]
  <2> DEFINE x == D * r
  <2>1. x \in Bytes /\ f = Append(n.ret, x)
    BY <1>15, <1>16
  <2> HIDE DEF x
  <2>2. Len(f) = L + 2 /\ f[L + 2] = x /\ \A i \in 1 .. L + 1 : f[i] = n.ret[i]
    BY <1>17, <2>1
  <2>3. n.ret[L + 1] = B /\ \A i \in 1 .. L : n.ret[i] = s.ret[i]
    BY <1>1, <1>16
  <2>4. f[L + 1] = B /\ \A i \in 1 .. L : f[i] = s.ret[i]
    BY <1>1, <2>2, <2>3, SMTT(30)
  <2> QED
    BY <2>2, <2>4 DEF x
<1>19. ((256 * Byte(f, L) + Byte(f, L + 1)) \div D) % 32 = v
  <2>1. Byte(f, L) = B /\ Byte(f, L + 1) = D * r
    BY <1>1, <1>18 DEF Byte
  <2>2. 256 * B + D * r = D * z + 0
    <3>1. D \in Nat /\ T \in Nat /\ B \in Nat /\ r \in Nat
      BY <1>3, <1>11, <1>12
    <3>2. D * (T * B + r) = D * (T * B) + D * r /\ D * (T * B) = (D * T) * B
      BY <3>1
    <3>3. D * T = 256 /\ z = T * B + r /\ D * z \in Nat
      BY <1>3, <1>10, <1>13
    <3>4. D * z = 256 * B + D * r
      BY <3>2, <3>3
    <3> QED
      BY <3>3, <3>4
  <2>3. (D * z + 0) \div D = z
    <3>1. D \in Nat \ {0} /\ 0 \in Nat /\ 0 < D
      BY <1>3
    <3> QED
      BY <1>10, <3>1, Quotient
  <2>4. z % 32 = v
    <3>1. a \in Nat /\ v \in 0 .. 31
      BY <1>1, <1>8
    <3> QED
      BY <3>1 DEF z
  <2> QED
    BY <2>1, <2>2, <2>3, <2>4
<1>20. \A i \in 1 .. L : f[i] = Pending(s)[i]
  BY <1>18, PendingBytes
<1>21. Converter(n)
  BY <1>4, <1>5, <1>14, <1>17 DEF Converter
<1>22. 8 * Len(n.ret) + n.bits = 8 * L + b + 5
  <2>1. Len(n.ret) = L + 1 /\ n.bits = b - 3 /\ L \in Nat /\ b \in Nat
    BY <1>1, <1>5, <1>17
  <2> HIDE DEF L
  <2> QED
    BY <2>1
<1>23. \E c \in Nat : c < t /\ f[L + 1] = t * a + c
  BY <1>12, <1>18
<1>24. FiveBits(f, 8 * L + b) = v /\ Len(f) \in {L + 1, L + 2}
  BY <1>6, <1>18, <1>19
<1> QED
  BY <1>20, <1>21, <1>22, <1>23, <1>24, Zenon DEF Extends, f, n, b, t, a, P

-------------------------------------------------------------------------------
(* The loop *)

\* After j symbols: they are read in the bytes so far and the bits that wait.
Holds(s, symbols, j) ==
  /\ Converter(s) /\ 8 * Len(s.ret) + s.bits = 5 * j
  /\ \A i \in 0 .. j - 1 : FiveBits(Pending(s), 5 * i) = symbols[i + 1]

LEMMA OldSymbols ==
  ASSUME NEW s, Converter(s), NEW v, NEW n, Extends(s, v, n),
         NEW k \in Nat, k + 5 <= 8 * Len(s.ret) + s.bits
  PROVE  FiveBits(Pending(n), k) = FiveBits(Pending(s), k)
<1> DEFINE L == Len(s.ret)
           b == s.bits
           t == 2^(8 - b)
           y == s.acc % 2^b
           e == Pending(s)
           f == Pending(n)
<1>1. Converter(n) /\ Len(f) \in {L + 1, L + 2} /\ \A i \in 1 .. L : f[i] = e[i]
  BY Zenon DEF Extends
<1>2. PICK c \in Nat : c < t /\ f[L + 1] = t * y + c
  BY Zenon DEF Extends
<1>3. e \in Seq(Bytes) /\ Len(e) = L + 1 /\ e[L + 1] = t * y
  BY PendingBytes, Zenon
<1>4. f \in Seq(Bytes)
  BY <1>1, PendingBytes, Zenon
<1>5. L \in Nat /\ b \in 0 .. 7 /\ s.acc \in Nat /\ k + 5 <= 8 * L + b
  BY DEF Converter
<1>6. y \in Nat
  <2> DEFINE P == 2^b
             x == s.acc
  <2>1. P \in Nat \ {0} /\ x \in Nat
    BY <1>5, PowersOfBits
  <2> HIDE DEF P, x
  <2>2. x % P \in Nat
    BY <2>1, DivisionOf
  <2> QED
    BY <2>2 DEF P, x
<1> HIDE DEF L, b, t, y, e, f
<1>8. FiveBits(f, k) = FiveBits(e, k)
  <2>1. GoesOn(e, f, L, b, y, c)
    BY <1>1, <1>2, <1>3, <1>4, <1>5, <1>6, Zenon DEF GoesOn, t
  <2> QED
    BY <1>5, <2>1, OldBits
<1> QED
  BY <1>8 DEF e, f

LEMMA FeedHolds ==
  ASSUME NEW symbols \in Seq(Symbols), NEW j \in Nat, j < Len(symbols),
         NEW s, Holds(s, symbols, j)
  PROVE  Holds(Feed(s, symbols[j + 1]), symbols, j + 1)
<1> DEFINE v == symbols[j + 1]
           n == Feed(s, v)
<1>1. v \in Symbols
  <2>1. j + 1 \in 1 .. Len(symbols)
    OBVIOUS
  <2> QED
    BY <2>1, ElementOfSeq
<1>2. /\ Converter(s) /\ 8 * Len(s.ret) + s.bits = 5 * j
      /\ \A i \in 0 .. j - 1 : FiveBits(Pending(s), 5 * i) = symbols[i + 1]
  BY Zenon DEF Holds
<1>3. s.bits \in Nat /\ Len(s.ret) \in Nat
  BY <1>2 DEF Converter
<1> HIDE DEF v
<1>4. Extends(s, v, n)
  <2>1. s.bits < 3 \/ s.bits >= 3
    BY <1>3
  <2> QED
    BY <1>1, <1>2, <2>1, FeedFew, FeedFull, Zenon
<1> HIDE DEF n
<1>5. /\ Converter(n) /\ 8 * Len(n.ret) + n.bits = 8 * Len(s.ret) + s.bits + 5
      /\ FiveBits(Pending(n), 8 * Len(s.ret) + s.bits) = v
  BY <1>4, Zenon DEF Extends
<1>6. 8 * Len(n.ret) + n.bits = 5 * (j + 1)
  BY <1>2, <1>3, <1>5
<1>7. ASSUME NEW i \in 0 .. (j + 1) - 1
      PROVE  FiveBits(Pending(n), 5 * i) = symbols[i + 1]
  <2>1. CASE i = j
    BY <1>2, <1>5, <2>1, Zenon DEF v
  <2>2. CASE i < j
    <3>1. i \in 0 .. j - 1 /\ 5 * i \in Nat /\ 5 * i + 5 <= 8 * Len(s.ret) + s.bits
      BY <1>2, <1>3, <2>2
    <3>2. FiveBits(Pending(n), 5 * i) = FiveBits(Pending(s), 5 * i)
      BY <1>2, <1>4, <3>1, OldSymbols, Zenon
    <3> QED
      BY <1>2, <3>1, <3>2, Zenon
  <2> QED
    BY <2>1, <2>2
<1> QED
  BY <1>5, <1>6, <1>7, Zenon DEF Holds, n, v

-------------------------------------------------------------------------------

Start == [acc |-> 0, bits |-> 0, ret |-> <<>>]

FedPass(symbols, f, n) == [j \in 0 .. n |-> IF j = 0 THEN Start ELSE Feed(f[j - 1], symbols[j])]

LEMMA FedExists ==
  ASSUME NEW symbols
  PROVE  \A n \in Nat : \E f : f = FedPass(symbols, f, n)
<1> DEFINE T == {n \in Nat : \E f : f = FedPass(symbols, f, n)}
<1>1. 0 \in T
  <2> DEFINE f == [j \in 0 .. 0 |-> Start]
  <2>1. f = FedPass(symbols, f, 0)
    BY DEF FedPass
  <2> QED
    BY <2>1
<1>2. ASSUME NEW n \in Nat, n \in T
      PROVE  n + 1 \in T
  <2>1. PICK f : f = FedPass(symbols, f, n)
    BY <1>2
  <2> DEFINE g == FedPass(symbols, f, n + 1)
  <2>2. ASSUME NEW k \in 0 .. (n + 1), k # 0
        PROVE  f[k - 1] = g[k - 1]
    <3>1. k - 1 \in 0 .. n /\ k - 1 \in 0 .. (n + 1)
      BY <2>2
    <3> DEFINE j == k - 1
    <3> HIDE DEF j
    <3>2. f[j] = IF j = 0 THEN Start ELSE Feed(f[j - 1], symbols[j])
      BY <2>1, <3>1 DEF FedPass, j
    <3>3. g[j] = IF j = 0 THEN Start ELSE Feed(f[j - 1], symbols[j])
      BY <3>1 DEF FedPass, j
    <3>4. f[j] = g[j]
      BY <3>2, <3>3
    <3> QED
      BY <3>4 DEF j
  <2>3. g = FedPass(symbols, g, n + 1)
    BY <2>2 DEF FedPass
  <2> QED
    BY <2>3
<1> HIDE DEF T
<1>3. \A n \in Nat : n \in T
  BY <1>1, <1>2, Induction, Zenon
<1> QED
  BY <1>3 DEF T

\* The loop does what its definition says.
LEMMA FedEquation ==
  ASSUME NEW symbols, Len(symbols) \in Nat
  PROVE  /\ Fed(symbols)[0] = Start
         /\ \A j \in 1 .. Len(symbols) : Fed(symbols)[j] = Feed(Fed(symbols)[j - 1], symbols[j])
<1> DEFINE n == Len(symbols)
<1>1. PICK f : f = FedPass(symbols, f, n)
  BY FedExists
<1>2. f = [j \in 0 .. Len(symbols) |->
             IF j = 0 THEN [acc |-> 0, bits |-> 0, ret |-> <<>>] ELSE Feed(f[j - 1], symbols[j])]
  BY <1>1, Zenon DEF FedPass, Start
<1>3. Fed(symbols)
        = [j \in 0 .. Len(symbols) |->
             IF j = 0 THEN [acc |-> 0, bits |-> 0, ret |-> <<>>]
             ELSE Feed(Fed(symbols)[j - 1], symbols[j])]
  BY <1>2, Zenon DEF Fed
<1>4. Fed(symbols)[0] = Start
  BY <1>3 DEF Start
<1>5. ASSUME NEW j \in 1 .. Len(symbols)
      PROVE  Fed(symbols)[j] = Feed(Fed(symbols)[j - 1], symbols[j])
  <2>1. j \in 0 .. Len(symbols) /\ j # 0
    OBVIOUS
  <2> QED
    BY <1>3, <2>1
<1> QED
  BY <1>4, <1>5

\* The invariant of the loop.
LEMMA FedHolds ==
  ASSUME NEW symbols \in Seq(Symbols), NEW j \in 0 .. Len(symbols)
  PROVE  Holds(Fed(symbols)[j], symbols, j)
<1> DEFINE T == {n \in Nat : n <= Len(symbols) => Holds(Fed(symbols)[n], symbols, n)}
<1>1. 0 \in T
  <2>1. Fed(symbols)[0] = Start
    BY FedEquation
  <2>2. Converter(Start) /\ 8 * Len(Start.ret) + Start.bits = 5 * 0
    BY DEF Converter, Start
  <2>3. 0 .. 0 - 1 = {}
    OBVIOUS
  <2>4. Holds(Start, symbols, 0)
    BY <2>2, <2>3, Zenon DEF Holds
  <2> QED
    BY <2>1, <2>4
<1>2. ASSUME NEW n \in Nat, n \in T
      PROVE  n + 1 \in T
  <2>1. SUFFICES ASSUME n + 1 <= Len(symbols)
                 PROVE  Holds(Fed(symbols)[n + 1], symbols, n + 1)
    OBVIOUS
  <2>2. n + 1 \in 1 .. Len(symbols) /\ n + 1 - 1 = n /\ n <= Len(symbols) /\ n < Len(symbols)
    BY <2>1
  <2>3. Holds(Fed(symbols)[n], symbols, n)
    BY <1>2, <2>2
  <2>4. Fed(symbols)[n + 1] = Feed(Fed(symbols)[n], symbols[n + 1])
    <3>1. Fed(symbols)[n + 1] = Feed(Fed(symbols)[n + 1 - 1], symbols[n + 1])
      BY <2>2, FedEquation
    <3> QED
      BY <2>2, <3>1, Zenon
  <2> QED
    BY <2>2, <2>3, <2>4, FeedHolds, Zenon
<1> HIDE DEF T
<1>3. \A n \in Nat : n \in T
  BY <1>1, <1>2, Induction, Zenon
<1> QED
  BY <1>3 DEF T

-------------------------------------------------------------------------------
(* The address of the pool *)

\* A byte of zeros behind the program is read like none.
LEMMA ZeroByte ==
  ASSUME NEW p \in Seq(Bytes), NEW k \in Nat
  PROVE  FiveBits(Append(p, 0), k) = FiveBits(p, k)
<1> DEFINE e == Append(p, 0)
           q == k \div 8
           o == k % 8
<1>1. Len(e) = Len(p) + 1 /\ Len(p) \in Nat
  OBVIOUS
<1>2. (\A i \in 1 .. Len(p) : e[i] = p[i]) /\ e[Len(p) + 1] = 0
  OBVIOUS
<1>3. q \in Nat /\ q + 1 \in Nat
  OBVIOUS
<1> HIDE DEF e, q, o
<1>4. ASSUME NEW i \in Nat
      PROVE  Byte(e, i) = Byte(p, i)
  <2>1. CASE i < Len(p)
    <3>1. i + 1 \in 1 .. Len(p) /\ i < Len(e)
      BY <1>1, <2>1
    <3> QED
      BY <1>2, <2>1, <3>1 DEF Byte
  <2>2. CASE i = Len(p)
    <3>1. i < Len(e) /\ ~(i < Len(p))
      BY <1>1, <2>2
    <3> QED
      BY <1>2, <2>2, <3>1 DEF Byte
  <2>3. CASE i > Len(p)
    <3>1. ~(i < Len(e)) /\ ~(i < Len(p))
      BY <1>1, <2>3
    <3> QED
      BY <3>1 DEF Byte
  <2> QED
    BY <1>1, <2>1, <2>2, <2>3
<1>5. Byte(e, q) = Byte(p, q) /\ Byte(e, q + 1) = Byte(p, q + 1)
  BY <1>3, <1>4
<1> QED
  BY <1>5, Zenon DEF FiveBits, e, q

\* The program's bits are those of the symbols, and no more than fill its bytes.
LEMMA ConvertedBits ==
  ASSUME NEW symbols \in Seq(Symbols), NEW p, p = ConvertBits(symbols), p # Invalid
  PROVE  /\ p \in Seq(Bytes)
         /\ symbols = [j \in 1 .. (8 * Len(p) + 4) \div 5 |-> FiveBits(p, 5 * (j - 1))]
<1> DEFINE n == Len(symbols)
           end == Fed(symbols)[n]
           N == (8 * Len(p) + 4) \div 5
<1>1. n \in Nat /\ n \in 0 .. n
  OBVIOUS
<1>2. Holds(end, symbols, n)
  BY <1>1, FedHolds
<1>3. p = IF end.bits >= 5 \/ end.acc % 2^end.bits # 0 THEN Invalid ELSE end.ret
  BY Zenon DEF ConvertBits
<1> HIDE DEF end
<1>4. ~(end.bits >= 5) /\ end.acc % 2^end.bits = 0 /\ p = end.ret
  BY <1>3, Zenon
<1>5. /\ Converter(end) /\ 8 * Len(p) + end.bits = 5 * n
      /\ \A i \in 0 .. n - 1 : FiveBits(Pending(end), 5 * i) = symbols[i + 1]
  BY <1>2, <1>4, Zenon DEF Holds
<1>6. p \in Seq(Bytes) /\ end.bits \in 0 .. 4 /\ Len(p) \in Nat
  BY <1>4, <1>5 DEF Converter
<1>7. N = n
  BY <1>1, <1>5, <1>6, SMTT(30)
<1>8. Pending(end) = Append(p, 0)
  <2> DEFINE t == 2^(8 - end.bits)
  <2>1. t \in Nat
    <3> DEFINE b == end.bits
    <3>1. b \in 0 .. 7
      BY <1>6
    <3> HIDE DEF b
    <3>2. 2^(8 - b) \in Nat \ {0}
      BY <3>1, PowersOfBits
    <3> QED
      BY <3>2 DEF b
  <2>2. Pending(end) = Append(p, 0 * t)
    BY <1>4, Zenon DEF Pending
  <2> HIDE DEF t
  <2>3. 0 * t = 0
    BY <2>1
  <2> QED
    BY <2>2, <2>3, Zenon
<1>9. \A j \in 1 .. n : symbols[j] = FiveBits(p, 5 * (j - 1))
  <2> TAKE j \in 1 .. n
  <2> DEFINE i == j - 1
  <2>1. i \in 0 .. n - 1 /\ i + 1 = j /\ 5 * i \in Nat
    BY <1>1
  <2> HIDE DEF i
  <2>2. FiveBits(Append(p, 0), 5 * i) = symbols[j]
    BY <1>5, <1>8, <2>1, Zenon
  <2>3. FiveBits(Append(p, 0), 5 * i) = FiveBits(p, 5 * i)
    BY <1>6, <2>1, ZeroByte
  <2> QED
    BY <2>2, <2>3, Zenon DEF i
<1>10. symbols = [j \in 1 .. n |-> symbols[j]]
  OBVIOUS
<1>11. [j \in 1 .. n |-> symbols[j]] = [j \in 1 .. n |-> FiveBits(p, 5 * (j - 1))]
  BY <1>9, Zenon
<1>12. symbols = [j \in 1 .. N |-> FiveBits(p, 5 * (j - 1))]
  BY <1>7, <1>10, <1>11, Zenon
<1> QED
  BY <1>6, <1>12

\* An address that is not refused is paid.
LEMMA AddressPaid ==
  ASSUME NEW a, a.kind = "bech32" => a.data \in Seq(Symbols) /\ Len(a.data) >= 1,
         AddressToScript(a) # Invalid
  PROVE  PaysTo(AddressToScript(a), a)
<1>1. CASE a.kind = "bech32"
  <2> DEFINE d == a.data
             version == d[1]
             program == ConvertBits(Tail(d))
             script == AddressToScript(a)
             vb == VersionByte(version)
             n == Len(program)
  <2>1. d \in Seq(Symbols) /\ Len(d) >= 1
    BY <1>1
  <2>2. script = SegwitAddressToScript(d) /\ script # Invalid
    BY <1>1, Zenon DEF AddressToScript
  <2>3. script = <<vb, n>> \o program /\ n \in 2 .. 40
    BY <2>2, Zenon DEF SegwitAddressToScript
  <2> HIDE DEF script
  <2>4. program # Invalid
    <3>1. Len(<<>>) = 0 /\ ~(0 \in 2 .. 40)
      OBVIOUS
    <3> QED
      BY <2>3, <3>1, Zenon DEF Invalid
  <2>5. Tail(d) \in Seq(Symbols) /\ d = <<version>> \o Tail(d)
    BY <2>1
  <2>6. /\ program \in Seq(Bytes)
        /\ Tail(d) = [j \in 1 .. (8 * n + 4) \div 5 |-> FiveBits(program, 5 * (j - 1))]
    BY <2>4, <2>5, ConvertedBits
  <2>7. d = SegwitSymbols(version, program)
    BY <2>5, <2>6, Zenon DEF SegwitSymbols
  <2> HIDE DEF program, version, d, vb
  <2>8. SubSeq(script, 3, Len(script)) = program
    <3>1. Len(<<vb, n>>) = 2
      OBVIOUS
    <3> QED
      BY <2>3, <2>6
  <2>9. \A i \in DOMAIN program : program[i] \in 0 .. 255
    <3>1. DOMAIN program = 1 .. n
      BY <2>6
    <3> QED
      BY <2>6, <3>1, ElementOfSeq, Zenon DEF Bytes
  <2> QED
    BY <1>1, <2>3, <2>7, <2>8, <2>9, Zenon DEF PaysTo, script, version, d, vb
<1>2. CASE a.kind # "bech32"
  <2>1. AddressToScript(a) = HashScript(SubSeq(a.data, 2, 21))
    BY <1>2, Zenon DEF AddressToScript
  <2> QED
    BY <1>2, <2>1, Zenon DEF PaysTo
<1> QED
  BY <1>1, <1>2

\* The pool's address is one that has a script, and the script is in the block.
Paying ==
  /\ address \in PoolAddresses /\ AddressToScript(address) # Invalid
  /\ step = "block" => block.poolScript = AddressToScript(address)

LEMMA PayingInvariant == AssemblySpec => []Paying
<1>1. AssemblyInit => Paying
  BY Zenon DEF AssemblyInit, Paying
<1>2. ASSUME Paying, [AssemblyNext]_assemblyVars
      PROVE  Paying'
  <2>1. CASE UNCHANGED assemblyVars
    BY <1>2, <2>1, Zenon DEF Paying, assemblyVars
  <2>2. CASE \E size \in NonceSizes : AssembleBlock(size)
    BY <1>2, <2>2 DEF Paying, AssembleBlock
  <2>3. ASSUME \/ MerkleStep \/ StartOutputs \/ PayPayment \/ PayPayee \/ PayRecipient \/ PayPool
        PROVE  address' = address /\ block' = block /\ (step' = "block" => step = "block")
    BY <2>3 DEF MerkleStep, StartOutputs, PayPayment, PayPayee, PayRecipient, PayPool
  <2>4. CASE MerkleStep \/ StartOutputs \/ PayPayment \/ PayPayee \/ PayRecipient \/ PayPool
    BY <1>2, <2>3, <2>4, Zenon DEF Paying
  <2> QED
    BY <1>2, <2>1, <2>2, <2>4, Zenon DEF AssemblyNext
<1> QED
  BY <1>1, <1>2, PTL DEF AssemblySpec

(***************************************************************************)
(* The script of the pool's output pays to the pool's own address, however *)
(* the accumulator of the conversion overflows: encoding the program in it *)
(* gives back every symbol of the address.                                 *)
(***************************************************************************)
THEOREM PoolAlwaysPaid == AssemblySpec => []PoolPaidToAddress
<1>1. Paying => PoolPaidToAddress
  <2>1. ASSUME Paying, step = "block"
        PROVE  PaysTo(block.poolScript, address)
    <3>1. address \in PoolAddresses /\ AddressToScript(address) # Invalid
          /\ block.poolScript = AddressToScript(address)
      BY <2>1, Zenon DEF Paying
    <3>2. address.kind = "bech32" => address.data \in Seq(Symbols) /\ Len(address.data) >= 1
      BY <3>1, AddressAssumption, Zenon DEF Symbols
    <3> QED
      BY <3>1, <3>2, AddressPaid, Zenon
  <2> QED
    BY <2>1, Zenon DEF PoolPaidToAddress
<1> QED
  BY <1>1, PayingInvariant, PTL
===============================================================================
