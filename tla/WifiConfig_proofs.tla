-------------------------- MODULE WifiConfig_proofs -------------------------
(***************************************************************************)
(* Proofs about WifiConfig: the base64 text of every sequence of bytes     *)
(* decodes to those bytes, and the two variables of the configuration are  *)
(* those of one write, for every set of configurations, every other        *)
(* variable and every size of the area.                                    *)
(***************************************************************************)
EXTENDS WifiConfig, TLAPS

(* The coding.                                                             *)

LEMMA NoPad ==
  ASSUME NEW c \in 0..63
  PROVE  c # Pad /\ Sextet(c) = c
BY DEF Pad, Sextet

LEMMA ByteAtType ==
  ASSUME NEW b \in Seq(Bytes), NEW i \in Nat
  PROVE  ByteAt(b, i) \in Bytes
<1>1. CASE i \in DOMAIN b
  BY <1>1 DEF ByteAt
<1>2. CASE i \notin DOMAIN b
  BY <1>2 DEF ByteAt, Bytes
<1> QED  BY <1>1, <1>2

\* Three bytes are four sextets, and those are the three bytes.
LEMMA OctetsOfSextets ==
  ASSUME NEW x \in Bytes, NEW y \in Bytes, NEW z \in Bytes
  PROVE  LET s == Sextets(x, y, z) IN
         /\ s[1] \in 0..63 /\ s[2] \in 0..63 /\ s[3] \in 0..63 /\ s[4] \in 0..63
         /\ Octets(s[1], s[2], s[3], s[4]) = <<x, y, z>>
<1> DEFINE a == x \div 4   b == x % 4
           c == y \div 16  d == y % 16
           e == z \div 64  f == z % 64
<1>1. /\ a \in 0..63 /\ b \in 0..3 /\ x = 4 * a + b
      /\ c \in 0..15 /\ d \in 0..15 /\ y = 16 * c + d
      /\ e \in 0..3 /\ f \in 0..63 /\ z = 64 * e + f
  BY DEF Bytes
<1>2. Sextets(x, y, z) = <<a, b * 16 + c, d * 4 + e, f>>
  BY DEF Sextets
<1> HIDE DEF a, b, c, d, e, f
<1>3. b * 16 + c \in 0..63 /\ d * 4 + e \in 0..63
  BY <1>1
<1> DEFINE t == a * 262144 + (b * 16 + c) * 4096 + (d * 4 + e) * 64 + f
<1>4. t = x * 65536 + y * 256 + z /\ t \in Nat
  BY <1>1
<1>5. x \in 0..255 /\ y \in 0..255 /\ z \in 0..255
  BY DEF Bytes
<1> HIDE DEF t
<1>6. t \div 65536 = x
  BY <1>4, <1>5
<1>7. t \div 256 = x * 256 + y
  BY <1>4, <1>5
<1>8. t % 256 = z
  BY <1>4, <1>5
<1>9. (t \div 65536) % 256 = x /\ (t \div 256) % 256 = y
  BY <1>5, <1>6, <1>7
<1>10. Octets(a, b * 16 + c, d * 4 + e, f) = <<x, y, z>>
  BY <1>8, <1>9 DEF Octets, t
<1> QED  BY <1>1, <1>2, <1>3, <1>10

\* How many blocks there are for n bytes, and the memory taken for them.
LEMMA Blocks ==
  ASSUME NEW n \in Nat, n > 0
  PROVE  LET q == (n + 2) \div 3 IN
         /\ q \in Nat /\ q > 0
         /\ 3 * q >= n /\ n >= 3 * q - 2
         /\ 4 * q + 1 <= (n * 4) \div 3 + 4
<1> DEFINE q == (n + 2) \div 3   r == (n * 4) \div 3
<1>1. q \in Nat /\ 3 * q <= n + 2 /\ n + 2 < 3 * q + 3
  OBVIOUS
<1>2. r \in Nat /\ 3 * r <= n * 4 /\ n * 4 < 3 * r + 3
  OBVIOUS
<1> HIDE DEF q, r
<1> QED  BY <1>1, <1>2 DEF q, r

\* The characters of the text by their blocks g and their places s in those.
LEMMA Encoded ==
  ASSUME NEW b \in Seq(Bytes), b # <<>>
  PROVE  LET n == Len(b)
             q == (n + 2) \div 3
             e == str_base64_encode_len(b)
         IN  /\ Len(e) = 4 * q /\ e # <<>> /\ Len(e) % 4 = 0 /\ Len(e) \div 4 = q
             /\ \A g \in 0 .. q - 1, s \in 0..3 :
                  e[4 * g + s + 1] =
                    IF 3 * g + s > n THEN Pad
                    ELSE Sextets(ByteAt(b, 3 * g + 1), ByteAt(b, 3 * g + 2),
                                 ByteAt(b, 3 * g + 3))[s + 1]
<1> DEFINE n == Len(b)
           q == (n + 2) \div 3
           e == str_base64_encode_len(b)
<1>1. n \in Nat /\ n > 0
  OBVIOUS
<1>2. q \in Nat /\ q > 0
  BY <1>1, Blocks
<1>3. e = [i \in 1 .. 4 * q |->
             LET g == (i - 1) \div 4
                 s == (i - 1) % 4
             IN  IF 3 * g + s > n THEN Pad
                 ELSE Sextets(ByteAt(b, 3 * g + 1), ByteAt(b, 3 * g + 2),
                              ByteAt(b, 3 * g + 3))[s + 1]]
  BY DEF str_base64_encode_len
<1> HIDE DEF n, q, e
<1>4. Len(e) = 4 * q /\ e # <<>>
  <2> DEFINE S == {e[i] : i \in 1 .. 4 * q}
  <2>1. e \in [1 .. 4 * q -> S]
    BY <1>3
  <2> HIDE DEF S
  <2>2. e \in Seq(S) /\ DOMAIN e = 1 .. 4 * q
    BY <1>2, <2>1
  <2>3. Len(e) = 4 * q
    BY <1>2, <2>2
  <2> QED  BY <1>2, <2>3
<1>5. (4 * q) % 4 = 0 /\ (4 * q) \div 4 = q
  BY <1>2
<1>6. ASSUME NEW g \in 0 .. q - 1, NEW s \in 0..3
      PROVE  e[4 * g + s + 1] =
               IF 3 * g + s > n THEN Pad
               ELSE Sextets(ByteAt(b, 3 * g + 1), ByteAt(b, 3 * g + 2),
                            ByteAt(b, 3 * g + 3))[s + 1]
  <2> DEFINE i == 4 * g + s + 1
  <2>1. i \in 1 .. 4 * q /\ (i - 1) \div 4 = g /\ (i - 1) % 4 = s
    BY <1>2
  <2> HIDE DEF i
  <2> QED  BY <1>3, <2>1 DEF i
<1> QED  BY <1>4, <1>5, <1>6 DEF n, q, e

\* A text of whole blocks is as long as its bytes once its Pads are taken off.
LEMMA DecodedAsLong ==
  ASSUME NEW b \in Seq(Bytes), b # <<>>
  PROVE  DecodedLen(str_base64_encode_len(b)) = Len(b)
<1> DEFINE n == Len(b)
           q == (n + 2) \div 3
           e == str_base64_encode_len(b)
<1>1. n \in Nat /\ n > 0
  OBVIOUS
<1>2. q \in Nat /\ q > 0 /\ 3 * q >= n /\ n >= 3 * q - 2
  BY <1>1, Blocks
<1>3. Len(e) = 4 * q /\ Len(e) \div 4 = q
  BY Encoded
<1> DEFINE x == ByteAt(b, 3 * (q - 1) + 1)
           y == ByteAt(b, 3 * (q - 1) + 2)
           z == ByteAt(b, 3 * (q - 1) + 3)
<1>4. x \in Bytes /\ y \in Bytes /\ z \in Bytes
  BY <1>2, ByteAtType
<1>5. /\ e[4 * q] = IF 3 * q > n THEN Pad ELSE Sextets(x, y, z)[4]
      /\ e[4 * q - 1] = IF 3 * q - 1 > n THEN Pad ELSE Sextets(x, y, z)[3]
  <2>1. q - 1 \in 0 .. q - 1
    BY <1>2
  <2>2. /\ 4 * (q - 1) + 3 + 1 = 4 * q /\ 4 * (q - 1) + 2 + 1 = 4 * q - 1
        /\ 3 * (q - 1) + 3 = 3 * q /\ 3 * (q - 1) + 2 = 3 * q - 1
    BY <1>2
  <2>3. \A g \in 0 .. q - 1, s \in 0..3 :
          e[4 * g + s + 1] =
            IF 3 * g + s > n THEN Pad
            ELSE Sextets(ByteAt(b, 3 * g + 1), ByteAt(b, 3 * g + 2),
                         ByteAt(b, 3 * g + 3))[s + 1]
    BY Encoded
  <2> HIDE DEF n, q, e
  <2>4. e[4 * (q - 1) + 3 + 1] = IF 3 * (q - 1) + 3 > n THEN Pad ELSE Sextets(x, y, z)[3 + 1]
    BY <2>1, <2>3
  <2>5. e[4 * (q - 1) + 2 + 1] = IF 3 * (q - 1) + 2 > n THEN Pad ELSE Sextets(x, y, z)[2 + 1]
    BY <2>1, <2>3
  <2> HIDE DEF x, y, z
  <2> QED  BY <2>2, <2>4, <2>5
<1> HIDE DEF x, y, z, n, q, e
<1>6. Sextets(x, y, z)[3] # Pad /\ Sextets(x, y, z)[4] # Pad
  <2>1. Sextets(x, y, z)[3] \in 0..63 /\ Sextets(x, y, z)[4] \in 0..63
    BY <1>4, OctetsOfSextets
  <2> QED  BY ONLY <2>1, NoPad
<1>7. e[4 * q] = Pad <=> 3 * q > n
  BY <1>5, <1>6
<1>8. e[4 * q - 1] = Pad <=> 3 * q - 1 > n
  BY <1>5, <1>6
<1>9. DecodedLen(e) = q * 3 - (IF 3 * q > n THEN 1 ELSE 0) - (IF 3 * q - 1 > n THEN 1 ELSE 0)
  BY <1>3, <1>7, <1>8 DEF DecodedLen
<1> QED  BY <1>1, <1>2, <1>9 DEF n, q, e

\* What the decoder takes a character of the text for is the sextet of the
\* bytes, those after the end being zero.
LEMMA SextetsRead ==
  ASSUME NEW b \in Seq(Bytes), b # <<>>,
         NEW g \in Nat, 3 * g + 1 <= Len(b), NEW s \in 0..3
  PROVE  Sextet(str_base64_encode_len(b)[4 * g + s + 1]) =
           Sextets(ByteAt(b, 3 * g + 1), ByteAt(b, 3 * g + 2),
                   ByteAt(b, 3 * g + 3))[s + 1]
<1> DEFINE n == Len(b)
           q == (n + 2) \div 3
           e == str_base64_encode_len(b)
           x == ByteAt(b, 3 * g + 1)
           y == ByteAt(b, 3 * g + 2)
           z == ByteAt(b, 3 * g + 3)
<1>1. n \in Nat /\ n > 0
  OBVIOUS
<1>2. q \in Nat /\ q > 0 /\ 3 * q >= n /\ n >= 3 * q - 2
  BY <1>1, Blocks
<1>3. x \in Bytes /\ y \in Bytes /\ z \in Bytes
  BY ByteAtType
<1>4. e[4 * g + s + 1] = IF 3 * g + s > n THEN Pad ELSE Sextets(x, y, z)[s + 1]
  <2>1. g \in 0 .. q - 1
    BY <1>1, <1>2
  <2> QED  BY <2>1, Encoded
<1>5. Sextets(x, y, z)[s + 1] \in 0..63
  <2>1. s + 1 \in {1, 2, 3, 4}
    OBVIOUS
  <2> HIDE DEF x, y, z
  <2> QED  BY <1>3, <2>1, OctetsOfSextets
<1>6. CASE ~(3 * g + s > n)
  <2> HIDE DEF x, y, z, e, n
  <2>1. e[4 * g + s + 1] = Sextets(x, y, z)[s + 1]
    BY <1>4, <1>6
  <2>2. Sextet(e[4 * g + s + 1]) = Sextets(x, y, z)[s + 1]
    BY ONLY <1>5, <2>1, NoPad
  <2> QED  BY <2>2 DEF x, y, z, e
<1>7. CASE 3 * g + s > n /\ s = 3
  <2>1. 3 * g + 3 \notin DOMAIN b
    BY <1>7
  <2>2. z = 0
    BY <2>1 DEF ByteAt
  <2> HIDE DEF x, y, z, e, n
  <2>3. Sextets(x, y, z)[s + 1] = 0
    BY <1>7, <2>2 DEF Sextets
  <2> QED  BY <1>4, <1>7, <2>3 DEF Sextet, x, y, z, e
<1>8. CASE 3 * g + s > n /\ s = 2
  <2>1. 3 * g + 3 \notin DOMAIN b /\ 3 * g + 2 \notin DOMAIN b
    BY <1>8
  <2>2. z = 0 /\ y = 0
    BY <2>1 DEF ByteAt
  <2> HIDE DEF x, y, z, e, n
  <2>3. Sextets(x, y, z)[s + 1] = 0
    BY <1>8, <2>2 DEF Sextets
  <2> QED  BY <1>4, <1>8, <2>3 DEF Sextet, x, y, z, e
<1>9. 3 * g + s > n => s = 2 \/ s = 3
  OBVIOUS
<1> QED  BY <1>6, <1>7, <1>8, <1>9

\* str_base64_decode gives every sequence of bytes back that
\* str_base64_encode_len was given.
THEOREM RoundTrip ==
  ASSUME NEW b \in Seq(Bytes), b # <<>>
  PROVE  str_base64_decode(str_base64_encode_len(b)) = b
<1> DEFINE n == Len(b)
           e == str_base64_encode_len(b)
           at(j, i) == Sextet(e[4 * ((j - 1) \div 3) + i])
<1>1. n \in Nat /\ n > 0 /\ DOMAIN b = 1 .. n
  OBVIOUS
<1>2. e # <<>> /\ Len(e) % 4 = 0 /\ DecodedLen(e) = n
  BY Encoded, DecodedAsLong
<1>3. str_base64_decode(e) =
        [j \in 1 .. n |-> Octets(at(j, 1), at(j, 2), at(j, 3), at(j, 4))[((j - 1) % 3) + 1]]
  <2> HIDE DEF e, n
  <2> QED  BY <1>2 DEF str_base64_decode
<1>4. ASSUME NEW j \in 1 .. n
      PROVE  Octets(at(j, 1), at(j, 2), at(j, 3), at(j, 4))[((j - 1) % 3) + 1] = b[j]
  <2> DEFINE g == (j - 1) \div 3
             t == (j - 1) % 3
             x == ByteAt(b, 3 * g + 1)
             y == ByteAt(b, 3 * g + 2)
             z == ByteAt(b, 3 * g + 3)
             s == Sextets(x, y, z)
  <2>1. g \in Nat /\ t \in 0..2 /\ j = 3 * g + t + 1
    OBVIOUS
  <2>2. 3 * g + 1 <= Len(b)
    <3> HIDE DEF g, t
    <3> QED  BY <1>1, <2>1
  <2>3. x \in Bytes /\ y \in Bytes /\ z \in Bytes
    BY <2>1, ByteAtType
  <2>4. Sextet(e[4 * g + 0 + 1]) = s[0 + 1] /\ Sextet(e[4 * g + 1 + 1]) = s[1 + 1]
    BY <2>1, <2>2, SextetsRead
  <2>5. Sextet(e[4 * g + 2 + 1]) = s[2 + 1] /\ Sextet(e[4 * g + 3 + 1]) = s[3 + 1]
    BY <2>1, <2>2, SextetsRead
  <2>6. at(j, 1) = s[1] /\ at(j, 2) = s[2] /\ at(j, 3) = s[3] /\ at(j, 4) = s[4]
    <3>1. /\ 4 * g + 0 + 1 = 4 * g + 1 /\ 4 * g + 1 + 1 = 4 * g + 2
          /\ 4 * g + 2 + 1 = 4 * g + 3 /\ 4 * g + 3 + 1 = 4 * g + 4
      BY <2>1
    <3> HIDE DEF s
    <3> QED  BY <2>4, <2>5, <3>1
  <2>7. Octets(s[1], s[2], s[3], s[4]) = <<x, y, z>>
    BY <2>3, OctetsOfSextets
  <2>8. <<x, y, z>>[t + 1] = ByteAt(b, 3 * g + t + 1)
    <3> HIDE DEF g, t
    <3>1. t = 0 \/ t = 1 \/ t = 2
      BY <2>1
    <3>2. CASE t = 0
      <4>1. 3 * g + t + 1 = 3 * g + 1 /\ t + 1 = 1  BY <2>1, <3>2
      <4> QED  BY <4>1
    <3>3. CASE t = 1
      <4>1. 3 * g + t + 1 = 3 * g + 2 /\ t + 1 = 2  BY <2>1, <3>3
      <4> QED  BY <4>1
    <3>4. CASE t = 2
      <4>1. 3 * g + t + 1 = 3 * g + 3 /\ t + 1 = 3  BY <2>1, <3>4
      <4> QED  BY <4>1
    <3> QED  BY <3>1, <3>2, <3>3, <3>4
  <2>9. ByteAt(b, 3 * g + t + 1) = b[j]
    <3> HIDE DEF g, t
    <3> QED  BY <1>1, <2>1 DEF ByteAt
  <2> HIDE DEF s, x, y, z
  <2> QED  BY <2>6, <2>7, <2>8, <2>9
<1> HIDE DEF at, e, n
<1>5. str_base64_decode(e) = [j \in 1 .. n |-> b[j]]
  BY <1>3, <1>4
<1> QED  BY <1>1, <1>5 DEF e

-----------------------------------------------------------------------------
(* The variables.                                                          *)

\* What ef_set_env and del_env do to a cache, to the variable they are called
\* for and to the others.
LEMMA DelEnv ==
  ASSUME NEW e \in Envs, NEW k \in Keys
  PROVE  /\ del_env(e, k) \in Envs
         /\ DOMAIN del_env(e, k) = DOMAIN e \ {k}
         /\ \A x \in DOMAIN e \ {k} : del_env(e, k)[x] = e[x]
<1>1. PICK K \in SUBSET Keys : e \in [K -> Values]
  BY DEF Envs
<1>2. /\ del_env(e, k) \in [K \ {k} -> Values]
      /\ \A x \in K \ {k} : del_env(e, k)[x] = e[x]
  BY <1>1 DEF del_env, Restrict
<1>3. DOMAIN e = K /\ DOMAIN del_env(e, k) = K \ {k} /\ K \ {k} \in SUBSET Keys
  BY <1>1, <1>2
<1>4. del_env(e, k) \in Envs
  BY <1>2, <1>3 DEF Envs
<1> QED  BY <1>2, <1>3, <1>4

LEMMA SetEnv ==
  ASSUME NEW e \in Envs, NEW k \in Keys, NEW v \in Values
  PROVE  LET f == ef_set_env(e, k, v) IN
         /\ f \in Envs
         /\ \A x \in Keys \ {k} : x \in DOMAIN f <=> x \in DOMAIN e
         /\ \A x \in DOMAIN e \ {k} : f[x] = e[x]
         /\ k \in DOMAIN f => f[k] = v
<1> DEFINE rest == del_env(e, k)
           more == [x \in DOMAIN rest \union {k} |-> IF x = k THEN v ELSE rest[x]]
           f == ef_set_env(e, k, v)
<1>1. CASE k \in DOMAIN e /\ e[k] = v
  BY <1>1 DEF ef_set_env
<1>2. CASE ~(k \in DOMAIN e /\ e[k] = v) /\ ~Fits(rest, v)
  <2>1. f = rest
    BY <1>2 DEF ef_set_env
  <2>2. /\ rest \in Envs /\ DOMAIN rest = DOMAIN e \ {k}
        /\ \A x \in DOMAIN e \ {k} : rest[x] = e[x]
    BY DelEnv
  <2>3. DOMAIN e \in SUBSET Keys
    BY DEF Envs
  <2> HIDE DEF rest
  <2>4. /\ rest \in Envs
        /\ \A x \in Keys \ {k} : x \in DOMAIN rest <=> x \in DOMAIN e
        /\ \A x \in DOMAIN e \ {k} : rest[x] = e[x]
        /\ k \notin DOMAIN rest
    BY <2>2
  <2> HIDE DEF f
  <2>5. /\ f \in Envs
        /\ \A x \in Keys \ {k} : x \in DOMAIN f <=> x \in DOMAIN e
        /\ \A x \in DOMAIN e \ {k} : f[x] = e[x]
        /\ k \in DOMAIN f => f[k] = v
    BY <2>1, <2>4
  <2> QED  BY <2>5 DEF f
<1>3. CASE ~(k \in DOMAIN e /\ e[k] = v) /\ Fits(rest, v)
  <2>1. f = more
    BY <1>3 DEF ef_set_env
  <2>2. /\ rest \in Envs /\ DOMAIN rest = DOMAIN e \ {k}
        /\ \A x \in DOMAIN e \ {k} : rest[x] = e[x]
    BY DelEnv
  <2>3. PICK K \in SUBSET Keys : rest \in [K -> Values]
    BY <2>2 DEF Envs
  <2> HIDE DEF rest
  <2>4. more \in [K \union {k} -> Values] /\ K \union {k} \in SUBSET Keys
    BY <2>3
  <2>5. more \in Envs
    BY <2>4 DEF Envs
  <2> HIDE DEF f
  <2> QED  BY <2>1, <2>2, <2>5 DEF f
<1> QED  BY <1>1, <1>2, <1>3

LEMMA ConfigFacts ==
  ASSUME NEW c \in Configs
  PROVE  /\ c # <<>> /\ Len(c) \in Nat
         /\ LenOf(c) \in Values /\ InfoOf(c) \in Values
         /\ LenOf(c).len = Len(c)
         /\ str_base64_decode(InfoOf(c).info) = c
<1>1. c \in Seq(Bytes) /\ c # <<>> /\ LenOf(c) \in Values /\ InfoOf(c) \in Values
  BY WifiConfigAssumption
<1>2. LenOf(c).len = Len(c) /\ InfoOf(c).info = str_base64_encode_len(c)
  BY DEF LenOf, InfoOf
<1> QED  BY <1>1, <1>2, RoundTrip

Names == {"wlan_cfg_len", "wlan_cfg_info"}

LEMMA NamesAreKeys == "wlan_cfg_len" \in Keys /\ "wlan_cfg_info" \in Keys
BY WifiConfigAssumption

\* Caches with the same variables of the configuration.
SameConfig(e, f) ==
  \A x \in Names : /\ x \in DOMAIN f <=> x \in DOMAIN e
                   /\ x \in DOMAIN e => f[x] = e[x]

LEMMA SameKeeps ==
  ASSUME NEW e, NEW f, SameConfig(e, f)
  PROVE  /\ Known(e) => Known(f)
         /\ \A c : Holds(e, c) => Holds(f, c)
         /\ "wlan_cfg_len" \in DOMAIN f <=> "wlan_cfg_len" \in DOMAIN e
         /\ "wlan_cfg_len" \in DOMAIN f => f["wlan_cfg_len"] = e["wlan_cfg_len"]
         /\ "wlan_cfg_info" \in DOMAIN f => f["wlan_cfg_info"] = e["wlan_cfg_info"]
         /\ "wlan_cfg_info" \in DOMAIN f <=> "wlan_cfg_info" \in DOMAIN e
<1>1. /\ "wlan_cfg_len" \in DOMAIN f <=> "wlan_cfg_len" \in DOMAIN e
      /\ "wlan_cfg_info" \in DOMAIN f <=> "wlan_cfg_info" \in DOMAIN e
      /\ "wlan_cfg_len" \in DOMAIN e => f["wlan_cfg_len"] = e["wlan_cfg_len"]
      /\ "wlan_cfg_info" \in DOMAIN e => f["wlan_cfg_info"] = e["wlan_cfg_info"]
  BY DEF SameConfig, Names
<1>2. Known(e) => Known(f)
  BY <1>1 DEF Known
<1>3. \A c : Holds(e, c) => Holds(f, c)
  BY <1>1 DEF Holds
<1> QED  BY <1>1, <1>2, <1>3

LEMMA DefaultHoldsNone == Known(Default) /\ Holds(Default, <<>>)
BY WifiConfigAssumption DEF Known, Holds

LEMMA WifiInit == Init => WifiInv
<1> SUFFICES ASSUME Init PROVE WifiInv
  OBVIOUS
<1>1. /\ view = Default /\ durable = Default /\ pc = "get_len" /\ cfg = <<>>
      /\ len = 0 /\ got = <<>> /\ kept = <<>> /\ moved = {} /\ torn = FALSE /\ full = FALSE
  BY DEF Init, Store!Init
<1>2. Default \in Envs
  BY WifiConfigAssumption
<1>3. TypeOK
  <2>1. torn \in BOOLEAN /\ full \in BOOLEAN
    BY <1>1, Zenon
  <2>4. len \in Int /\ moved \subseteq Lookups
    <3>1. len = 0 /\ moved = {}
      BY <1>1, Zenon
    <3> QED  BY ONLY <3>1
  <2>2. pc \in Lookups \union {"get_len", "read_cfg", "idle", "set_len", "set_info", "save"}
    BY <1>1
  <2>3. got \in Configs \union {<<>>} \union Strays /\ cfg \in Configs \union {<<>>} /\ kept \in Configs \union {<<>>}
    BY <1>1
  <2> QED  BY <1>1, <1>2, <2>1, <2>2, <2>3, <2>4 DEF TypeOK
<1>4. Written
  BY <1>1 DEF Written
<1>5. Undisturbed
  BY <1>1, DefaultHoldsNone DEF Undisturbed, Lookups
<1> QED  BY <1>1, <1>3, <1>4, <1>5, DefaultHoldsNone DEF WifiInv

LEMMA WifiBegins ==
  ASSUME WifiInv, GetLenBegins \/ ReadCfgBegins
  PROVE  WifiInv'
<1>1. TypeOK /\ Known(view) /\ Known(durable) /\ Written /\ Undisturbed
  BY DEF WifiInv
<1>2. /\ \/ pc = "get_len" /\ pc' = "in_get_len"
         \/ pc = "read_cfg" /\ pc' = "in_read_cfg"
      /\ view' = view /\ durable' = durable /\ cfg' = cfg /\ len' = len /\ got' = got
      /\ kept' = kept /\ moved' = moved /\ torn' = torn /\ full' = full
  BY DEF GetLenBegins, ReadCfgBegins, Begins, hist
<1>3. TypeOK'
  BY <1>1, <1>2 DEF TypeOK, Lookups
<1>4. Written'
  BY <1>1, <1>2 DEF Written
<1>5. Undisturbed'
  BY <1>1, <1>2 DEF Undisturbed, Lookups
<1> QED  BY <1>1, <1>2, <1>3, <1>4, <1>5 DEF WifiInv

LEMMA WifiGetLen ==
  ASSUME WifiInv, get_len
  PROVE  WifiInv'
<1>1. TypeOK /\ Known(view) /\ Known(durable) /\ Written /\ Undisturbed
  BY DEF WifiInv
<1>2. /\ pc = "in_get_len" /\ pc' = "read_cfg"
      /\ \/ len' = IF "wlan_cfg_len" \in DOMAIN view THEN view["wlan_cfg_len"].len ELSE 0
         \/ pc \in moved /\ len' \in StrayLens
      /\ view' = view /\ durable' = durable /\ cfg' = cfg /\ got' = got
      /\ kept' = kept /\ moved' = moved /\ torn' = torn /\ full' = full
  BY DEF get_len, hist
<1>3. len' \in Int
  <2>1. "wlan_cfg_len" \in DOMAIN view => view["wlan_cfg_len"].len \in Int
    BY <1>1, ConfigFacts DEF Known
  <2>2. StrayLens \subseteq Int
    BY WifiConfigAssumption
  <2>3. CASE len' = IF "wlan_cfg_len" \in DOMAIN view THEN view["wlan_cfg_len"].len ELSE 0
    <3>1. CASE "wlan_cfg_len" \in DOMAIN view
      BY <2>1, <2>3, <3>1
    <3>2. CASE "wlan_cfg_len" \notin DOMAIN view
      BY <2>3, <3>2
    <3> QED  BY <3>1, <3>2
  <2>4. CASE len' \in StrayLens
    BY <2>2, <2>4
  <2> QED  BY <1>2, <2>3, <2>4, Zenon
<1>4. TypeOK'
  BY <1>1, <1>2, <1>3 DEF TypeOK, Lookups
<1>5. Written'
  BY <1>1, <1>2 DEF Written
<1>6. kept # <<>> /\ Holds(view, kept) /\ moved = {} => len' = Len(kept)
  <2>1. kept \in Configs \union {<<>>}
    BY <1>1 DEF TypeOK, Lookups
  <2> QED  BY <1>2, <2>1, ConfigFacts DEF Holds
<1>7. Undisturbed'
  BY <1>1, <1>2, <1>6 DEF Undisturbed, Lookups
<1> QED  BY <1>1, <1>2, <1>4, <1>5, <1>7 DEF WifiInv

LEMMA WifiReadCfg ==
  ASSUME WifiInv, read_cfg
  PROVE  /\ WifiInv'
         /\ ~torn /\ ~full => /\ "in_read_cfg" \notin moved => got' = kept
                              /\ moved = {} /\ got' # <<>> => len = Len(got')
<1>1. TypeOK /\ Known(view) /\ Known(durable) /\ Written /\ Undisturbed
  BY DEF WifiInv
<1>2. /\ pc = "in_read_cfg" /\ pc' = "idle"
      /\ \/ got' = IF "wlan_cfg_info" \in DOMAIN view
                   THEN str_base64_decode(view["wlan_cfg_info"].info) ELSE <<>>
         \/ pc \in moved /\ got' \in Strays
      /\ view' = view /\ durable' = durable /\ cfg' = cfg /\ len' = len
      /\ kept' = kept /\ moved' = {} /\ torn' = torn /\ full' = full
  BY DEF read_cfg
<1>3. got' \in Configs \union {<<>>} \union Strays
  BY <1>1, <1>2, ConfigFacts DEF Known
<1>4. TypeOK'
  BY <1>1, <1>2, <1>3 DEF TypeOK, Lookups
<1>5. Written'
  BY <1>1, <1>2 DEF Written
<1>6. Undisturbed'
  BY <1>1, <1>2 DEF Undisturbed, Lookups
<1>7. ~torn /\ ~full => Holds(view, kept) /\ (kept # <<>> /\ moved = {} => len = Len(kept))
  BY <1>1, <1>2 DEF Undisturbed, Lookups
<1>8. Holds(view, kept) /\ "in_read_cfg" \notin moved => got' = kept
  <2>1. kept \in Configs \union {<<>>}
    BY <1>1 DEF TypeOK, Lookups
  <2> QED  BY <1>2, <2>1, ConfigFacts DEF Holds
<1> QED  BY <1>1, <1>2, <1>4, <1>5, <1>6, <1>7, <1>8 DEF WifiInv

LEMMA WifiWriteBegins ==
  ASSUME WifiInv, WriteBegins
  PROVE  WifiInv'
<1>1. TypeOK /\ Known(view) /\ Known(durable) /\ Written /\ Undisturbed
  BY DEF WifiInv
<1>2. /\ pc = "idle" /\ pc' = "set_len" /\ cfg' \in Configs
      /\ view' = view /\ durable' = durable /\ len' = len /\ got' = got
      /\ kept' = kept /\ moved' = moved /\ torn' = torn /\ full' = full
  BY DEF WriteBegins, hist
<1>3. TypeOK'
  BY <1>1, <1>2 DEF TypeOK, Lookups
<1>4. Written'
  BY <1>1, <1>2, ConfigFacts DEF Written
<1>5. Undisturbed'
  BY <1>1, <1>2 DEF Undisturbed, Lookups
<1> QED  BY <1>1, <1>2, <1>3, <1>4, <1>5 DEF WifiInv

\* Between the two sets the length is the new configuration's, if it fitted.
LEMMA WifiSetLen ==
  ASSUME WifiInv, SetLen
  PROVE  WifiInv'
<1>1. TypeOK /\ Known(view) /\ Known(durable) /\ Written /\ Undisturbed
  BY DEF WifiInv
<1>2. /\ pc = "set_len" /\ pc' = "set_info"
      /\ view' = ef_set_env(view, "wlan_cfg_len", LenOf(cfg))
      /\ full' = (full \/ "wlan_cfg_len" \notin DOMAIN view')
      /\ durable' = durable /\ cfg' = cfg /\ len' = len /\ got' = got
      /\ kept' = kept /\ moved' = moved /\ torn' = torn
  BY DEF SetLen, Put
<1>3. cfg \in Configs /\ LenOf(cfg) \in Values
  BY <1>1, <1>2, ConfigFacts DEF Written, TypeOK
<1>4. view \in Envs
  BY <1>1 DEF TypeOK, Lookups
<1>5. /\ view' \in Envs
      /\ \A x \in Keys \ {"wlan_cfg_len"} : x \in DOMAIN view' <=> x \in DOMAIN view
      /\ \A x \in DOMAIN view \ {"wlan_cfg_len"} : view'[x] = view[x]
      /\ "wlan_cfg_len" \in DOMAIN view' => view'["wlan_cfg_len"] = LenOf(cfg)
  BY <1>2, <1>3, <1>4, NamesAreKeys, SetEnv
<1>6. /\ "wlan_cfg_info" \in DOMAIN view' <=> "wlan_cfg_info" \in DOMAIN view
      /\ "wlan_cfg_info" \in DOMAIN view' =>
           view'["wlan_cfg_info"] = view["wlan_cfg_info"]
  BY <1>5, NamesAreKeys
<1>7. Known(view')
  BY <1>1, <1>3, <1>5, <1>6 DEF Known
<1>8. full' \in BOOLEAN
  BY <1>2
<1>9. TypeOK'
  BY <1>1, <1>2, <1>5, <1>8 DEF TypeOK, Lookups
<1>10. Written'
  BY <1>1, <1>2, <1>3, <1>5 DEF Written
<1>11. ~full' => ~full /\ "wlan_cfg_len" \in DOMAIN view'
  BY <1>2, Zenon
<1>12. Undisturbed'
  BY <1>1, <1>2, <1>11 DEF Undisturbed, Lookups
<1> QED  BY <1>1, <1>2, <1>7, <1>9, <1>10, <1>12 DEF WifiInv

\* After them both are the new configuration's, those that fitted.
LEMMA WifiSetInfo ==
  ASSUME WifiInv, SetInfo
  PROVE  WifiInv'
<1>1. TypeOK /\ Known(view) /\ Known(durable) /\ Written /\ Undisturbed
  BY DEF WifiInv
<1>2. /\ pc = "set_info" /\ pc' = "save"
      /\ view' = ef_set_env(view, "wlan_cfg_info", InfoOf(cfg))
      /\ full' = (full \/ "wlan_cfg_info" \notin DOMAIN view')
      /\ durable' = durable /\ cfg' = cfg /\ len' = len /\ got' = got
      /\ kept' = kept /\ moved' = moved /\ torn' = torn
  BY DEF SetInfo, Put
<1>3. cfg \in Configs /\ InfoOf(cfg) \in Values /\ cfg # <<>>
  BY <1>1, <1>2, ConfigFacts DEF Written, TypeOK
<1>4. view \in Envs
  BY <1>1 DEF TypeOK, Lookups
<1>5. /\ view' \in Envs
      /\ \A x \in Keys \ {"wlan_cfg_info"} : x \in DOMAIN view' <=> x \in DOMAIN view
      /\ \A x \in DOMAIN view \ {"wlan_cfg_info"} : view'[x] = view[x]
      /\ "wlan_cfg_info" \in DOMAIN view' => view'["wlan_cfg_info"] = InfoOf(cfg)
  BY <1>2, <1>3, <1>4, NamesAreKeys, SetEnv
<1>6. /\ "wlan_cfg_len" \in DOMAIN view' <=> "wlan_cfg_len" \in DOMAIN view
      /\ "wlan_cfg_len" \in DOMAIN view' =>
           view'["wlan_cfg_len"] = view["wlan_cfg_len"]
  BY <1>5, NamesAreKeys
<1>7. Known(view')
  BY <1>1, <1>3, <1>5, <1>6 DEF Known
<1>8. full' \in BOOLEAN
  BY <1>2
<1>9. TypeOK'
  BY <1>1, <1>2, <1>5, <1>8 DEF TypeOK, Lookups
<1>10. "wlan_cfg_len" \in DOMAIN view' => view'["wlan_cfg_len"] = LenOf(cfg)
  BY <1>1, <1>2, <1>6 DEF Written
<1>11. Written'
  BY <1>1, <1>2, <1>3, <1>5, <1>10 DEF Written
<1>12. ~full' => ~full /\ "wlan_cfg_info" \in DOMAIN view'
  BY <1>2, Zenon
<1>13. ~torn /\ ~full => "wlan_cfg_len" \in DOMAIN view /\ Holds(durable, kept)
  BY <1>1, <1>2 DEF Undisturbed, Lookups
<1>14. ~torn' /\ ~full' => Holds(view', cfg)
  BY <1>2, <1>3, <1>5, <1>6, <1>10, <1>12, <1>13 DEF Holds
<1>15. Undisturbed'
  BY <1>2, <1>12, <1>13, <1>14 DEF Undisturbed, Lookups
<1> QED  BY <1>1, <1>2, <1>7, <1>9, <1>11, <1>15 DEF WifiInv

\* What a save in the midst of write_cfg finds: the variables of cfg or none,
\* if both or none are there.
LEMMA WholeOrNone ==
  ASSUME WifiInv, pc = "save",
         "wlan_cfg_len" \in DOMAIN view <=> "wlan_cfg_info" \in DOMAIN view
  PROVE  Holds(view, IF "wlan_cfg_info" \in DOMAIN view THEN cfg ELSE <<>>)
<1>1. /\ cfg # <<>>
      /\ "wlan_cfg_len" \in DOMAIN view => view["wlan_cfg_len"] = LenOf(cfg)
      /\ "wlan_cfg_info" \in DOMAIN view => view["wlan_cfg_info"] = InfoOf(cfg)
  BY DEF WifiInv, Written
<1>2. CASE "wlan_cfg_info" \in DOMAIN view
  BY <1>1, <1>2 DEF Holds
<1>3. CASE "wlan_cfg_info" \notin DOMAIN view
  BY <1>3 DEF Holds
<1> QED  BY <1>2, <1>3

LEMMA WifiSave ==
  ASSUME WifiInv, Save
  PROVE  WifiInv'
<1> DEFINE whole == "wlan_cfg_len" \in DOMAIN view <=> "wlan_cfg_info" \in DOMAIN view
           found == IF "wlan_cfg_info" \in DOMAIN view THEN cfg ELSE <<>>
<1>1. TypeOK /\ Known(view) /\ Known(durable) /\ Written /\ Undisturbed
  BY DEF WifiInv
<1>2. /\ pc = "save" /\ pc' = "idle" /\ durable' = view /\ view' = view
      /\ kept' = found /\ torn' = (torn /\ ~whole) /\ full' = (full /\ ~whole)
      /\ cfg' = <<>> /\ len' = len /\ got' = got /\ moved' = moved
  BY DEF Save, Store!Commit
<1>3. torn' \in BOOLEAN /\ full' \in BOOLEAN
  BY <1>2
<1>4. TypeOK'
  BY <1>1, <1>2, <1>3 DEF TypeOK, Lookups
<1>5. Written'
  BY <1>2 DEF Written
<1>6. cfg # <<>>
  BY <1>1, <1>2 DEF Written
<1>7. ~torn /\ ~full => whole
  BY <1>1, <1>2, <1>6 DEF Undisturbed, Holds
<1>8. whole => Holds(view, found)
  BY <1>2, WholeOrNone
<1>9. torn \in BOOLEAN /\ full \in BOOLEAN
  BY <1>1 DEF TypeOK, Lookups
<1> HIDE DEF whole, found
<1>10. ~torn' /\ ~full' => whole
  BY ONLY <1>2, <1>7, Zenon
<1>11. Undisturbed'
  BY <1>2, <1>8, <1>10 DEF Undisturbed, Lookups
<1> QED  BY <1>1, <1>2, <1>4, <1>5, <1>11 DEF WifiInv

\* The shell's variables are others than the configuration's.
\* A history of moves only grows within a start.
LEMMA MovedFacts ==
  ASSUME TypeOK, NEW f
  PROVE  MovedBy(f) \subseteq Lookups /\ (MovedBy(f) = {} => moved = {})
BY DEF MovedBy, TypeOK

LEMMA WifiSetenv ==
  ASSUME WifiInv, setenv
  PROVE  WifiInv'
<1>1. TypeOK /\ Known(view) /\ Known(durable) /\ Written /\ Undisturbed
  BY DEF WifiInv
<1>2. /\ pc' = pc /\ durable' = durable /\ cfg' = cfg /\ len' = len /\ got' = got
      /\ kept' = kept /\ moved' = MovedBy(view') /\ torn' = torn /\ full' = full
  BY DEF setenv
<1>3. PICK k \in Keys \ {"wlan_cfg_len", "wlan_cfg_info"} :
        \/ \E v \in Others : view' = ef_set_env(view, k, v)
        \/ view' = del_env(view, k)
  BY DEF setenv
<1>4. view \in Envs
  BY <1>1 DEF TypeOK, Lookups
<1>5. k # "wlan_cfg_len" /\ k # "wlan_cfg_info"
  BY <1>3
<1>6. view' \in Envs /\ SameConfig(view, view')
  <2>1. ASSUME NEW v \in Others, view' = ef_set_env(view, k, v)
        PROVE  view' \in Envs /\ SameConfig(view, view')
    <3>1. v \in Values
      BY WifiConfigAssumption
    <3>2. /\ view' \in Envs
          /\ \A x \in Keys \ {k} : x \in DOMAIN view' <=> x \in DOMAIN view
          /\ \A x \in DOMAIN view \ {k} : view'[x] = view[x]
      BY <1>4, <2>1, <3>1, SetEnv
    <3> QED  BY <1>5, <3>2, NamesAreKeys DEF SameConfig, Names
  <2>2. ASSUME view' = del_env(view, k)
        PROVE  view' \in Envs /\ SameConfig(view, view')
    BY <1>4, <1>5, <2>2, DelEnv DEF SameConfig, Names
  <2> QED  BY <1>3, <2>1, <2>2
<1>7. /\ Known(view')
      /\ \A c : Holds(view, c) => Holds(view', c)
      /\ "wlan_cfg_len" \in DOMAIN view' <=> "wlan_cfg_len" \in DOMAIN view
      /\ "wlan_cfg_info" \in DOMAIN view' <=> "wlan_cfg_info" \in DOMAIN view
      /\ "wlan_cfg_len" \in DOMAIN view' =>
           view'["wlan_cfg_len"] = view["wlan_cfg_len"]
      /\ "wlan_cfg_info" \in DOMAIN view' =>
           view'["wlan_cfg_info"] = view["wlan_cfg_info"]
  BY <1>1, <1>6, SameKeeps
<1>11. moved' \subseteq Lookups /\ (moved' = {} => moved = {})
  BY <1>1, <1>2, MovedFacts
<1>8. TypeOK'
  BY <1>1, <1>2, <1>6, <1>11 DEF TypeOK, Lookups
<1>9. Written'
  BY <1>1, <1>2, <1>7 DEF Written
<1>10. Undisturbed'
  BY <1>1, <1>2, <1>7, <1>11 DEF Undisturbed, Lookups
<1> QED  BY <1>1, <1>2, <1>7, <1>8, <1>9, <1>10 DEF WifiInv

LEMMA WifiSaveenv ==
  ASSUME WifiInv, saveenv
  PROVE  WifiInv'
<1>1. TypeOK /\ Known(view) /\ Known(durable) /\ Written /\ Undisturbed
  BY DEF WifiInv
<1>2. /\ durable' = view /\ view' = view
      /\ torn' = (torn \/ pc = "set_info")
      /\ kept' = IF pc = "save" /\ "wlan_cfg_info" \in DOMAIN view THEN cfg ELSE kept
      /\ pc' = pc /\ cfg' = cfg /\ len' = len /\ got' = got /\ moved' = moved /\ full' = full
  BY DEF saveenv, Store!Commit
<1>3. torn' \in BOOLEAN
  BY <1>2
<1>4. TypeOK'
  BY <1>1, <1>2, <1>3 DEF TypeOK, Lookups
<1>5. Written'
  BY <1>1, <1>2 DEF Written
<1>6. ~torn' => ~torn /\ pc # "set_info"
  BY <1>2, Zenon
<1>7. CASE pc = "save"
  <2>1. cfg # <<>>
    BY <1>1, <1>7 DEF Written
  <2>2. Holds(view, cfg) => "wlan_cfg_info" \in DOMAIN view
    BY <2>1 DEF Holds
  <2>3. Holds(view, <<>>) => "wlan_cfg_info" \notin DOMAIN view
    BY DEF Holds
  <2>4. Undisturbed'
    BY <1>1, <1>2, <1>6, <1>7, <2>2, <2>3 DEF Undisturbed, Lookups
  <2> QED  BY <1>1, <1>2, <1>4, <1>5, <2>4 DEF WifiInv
<1>8. CASE pc # "save"
  <2>1. kept' = kept
    BY <1>2, <1>8
  <2>2. pc \in Lookups \union {"get_len", "read_cfg", "idle", "set_len", "set_info"}
    BY <1>1, <1>8 DEF TypeOK, Lookups
  <2>3. Undisturbed'
    BY <1>1, <1>2, <1>6, <2>1, <2>2 DEF Undisturbed, Lookups
  <2> QED  BY <1>1, <1>2, <1>4, <1>5, <2>3 DEF WifiInv
<1> QED  BY <1>7, <1>8

LEMMA WifiResetenv ==
  ASSUME WifiInv, resetenv
  PROVE  WifiInv'
<1>1. TypeOK /\ Written /\ Undisturbed
  BY DEF WifiInv
<1>2. /\ view' = Default /\ durable' = Default
      /\ torn' = (torn \/ pc = "set_info") /\ kept' = <<>>
      /\ pc' = pc /\ cfg' = cfg /\ len' = len /\ got' = got /\ moved' = MovedBy(view') /\ full' = full
  BY DEF resetenv
<1>3. torn' \in BOOLEAN /\ Default \in Envs
  BY <1>2, WifiConfigAssumption
<1>9. moved' \subseteq Lookups
  BY <1>1, <1>2, MovedFacts
<1>4. TypeOK'
  BY <1>1, <1>2, <1>3, <1>9 DEF TypeOK, Lookups
<1>5. DOMAIN Default \intersect {"wlan_cfg_len", "wlan_cfg_info"} = {}
  BY WifiConfigAssumption
<1>6. Written'
  BY <1>1, <1>2, <1>5 DEF Written
<1>7. ~torn' => pc # "set_info"
  BY <1>2, Zenon
<1>8. Undisturbed'
  BY <1>2, <1>7, DefaultHoldsNone DEF Undisturbed, Lookups
<1> QED  BY <1>2, <1>4, <1>6, <1>8, DefaultHoldsNone DEF WifiInv

\* Wherever the power fails.
LEMMA WifiPowerFail ==
  ASSUME WifiInv, PowerFail
  PROVE  WifiInv'
<1>1. TypeOK /\ Known(durable) /\ Undisturbed
  BY DEF WifiInv
<1>2. /\ view' = durable /\ durable' = durable
      /\ pc' = "get_len" /\ cfg' = <<>> /\ len' = 0 /\ got' = <<>>
      /\ kept' = kept /\ moved' = {} /\ torn' = torn /\ full' = full
  BY DEF PowerFail, Store!PowerFail
<1>3. TypeOK'
  BY <1>1, <1>2 DEF TypeOK, Lookups
<1>4. Written'
  BY <1>2 DEF Written
<1>5. Undisturbed'
  BY <1>1, <1>2 DEF Undisturbed, Lookups
<1> QED  BY <1>1, <1>2, <1>3, <1>4, <1>5 DEF WifiInv

LEMMA WifiStep ==
  ASSUME WifiInv, [Next]_vars
  PROVE  WifiInv'
<1>1. CASE Wlan
  BY <1>1, WifiBegins, WifiGetLen, WifiReadCfg, WifiWriteBegins, WifiSetLen, WifiSetInfo,
     WifiSave DEF Wlan
<1>2. CASE Shell
  BY <1>2, WifiSetenv, WifiSaveenv, WifiResetenv DEF Shell
<1>3. CASE PowerFail
  BY <1>3, WifiPowerFail
<1>4. CASE UNCHANGED vars
  BY <1>4 DEF vars, hist, WifiInv, TypeOK, Known, Written, Undisturbed
<1> QED  BY <1>1, <1>2, <1>3, <1>4 DEF Next

\* The invariant of the configuration, for any configurations and other
\* variables, and any room.
THEOREM WifiCorrect == Spec => []WifiInv
BY WifiInit, WifiStep, PTL DEF Spec

\* What WifiInv says of one state is what write_cfg promises.
LEMMA ConfigKeptState == WifiInv => ConfigKept
<1> SUFFICES ASSUME WifiInv PROVE ConfigKept
  OBVIOUS
<1>1. TypeOK /\ Undisturbed
  BY DEF WifiInv
<1>2. PairUnlessDisturbed
  BY <1>1 DEF Undisturbed, PairUnlessDisturbed
<1>3. ASSUME cfg # <<>>
      PROVE  Len(str_base64_encode_len(cfg)) + 1 <= EncodedRoom(Len(cfg))
  <2>1. cfg \in Seq(Bytes) /\ cfg # <<>>
    BY <1>1, <1>3, WifiConfigAssumption DEF TypeOK, Lookups
  <2> DEFINE n == Len(cfg)
             q == (n + 2) \div 3
  <2>2. n \in Nat /\ n > 0
    BY <2>1
  <2>3. 4 * q + 1 <= (n * 4) \div 3 + 4
    BY <2>2, Blocks
  <2>4. Len(str_base64_encode_len(cfg)) = 4 * q
    BY <2>1, Encoded
  <2> HIDE DEF q
  <2> QED  BY <2>3, <2>4 DEF EncodedRoom
<1> QED  BY <1>1, <1>2, <1>3 DEF ConfigKept, EncodeFits

\* After a restart the two variables are those of one write_cfg that ended, or
\* neither is there, wherever the power failed; and the encoded text fits the
\* memory write_cfg took for it.
THEOREM ConfigurationWhole == Spec => []ConfigKept
BY WifiCorrect, ConfigKeptState, PTL

\* A start reads back the bytes of the last write_cfg that ended, with their
\* length, although get_len and read_cfg look for them on their own, unless the
\* shell moves what lies in RAM while one of the two is under way.
THEOREM StartReadsBack == Spec => ReadsBack
<1>1. WifiInv /\ [Next]_vars =>
        [read_cfg /\ ~torn /\ ~full =>
           /\ "in_read_cfg" \notin moved => got' = kept
           /\ moved = {} /\ got' # <<>> => len = Len(got')]_vars
  BY WifiReadCfg
<1> QED  BY <1>1, WifiCorrect, PTL DEF Spec, ReadsBack
=============================================================================
