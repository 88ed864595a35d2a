--------------------------- MODULE SessionProofs ---------------------------
(***************************************************************************)
(* What holds of a session, from its login to its end.                     *)
(*                                                                         *)
(* The login (NativeLogin), for any schemas, any number of logins and any  *)
(* number of requests: the keystreams and the current schema.  The         *)
(* protocol runs in lock step but for the status messages of a long        *)
(* statement.  The inductive invariant says what may be on its way in each *)
(* exchange (ShapeInv, AskInv), how far the two ends of each keystream are *)
(* apart because of it (PosInv), when they start (PhaseInv, KeyInv), and   *)
(* what the client will know of the schema once it has read it (SchemaInv).*)
(*                                                                         *)
(* The password of that login (NativePassword), for any password, phrase   *)
(* and even length of a block.                                             *)
(*                                                                         *)
(* The connection and its session (Session), for all timeouts, limits and  *)
(* numbers of writes.  The inductive invariant is TypeOK, TransactionAgrees*)
(* and TimeoutInv; the properties of transactions follow step by step.     *)
(* The last part carries them over to the connection of the driver manager *)
(* (FfiConnection) and adds what its AutoCommit option promises.           *)
(***************************************************************************)
EXTENDS FfiConnection, NativeLogin, NativePassword, SequenceTheorems, TLAPS

-----------------------------------------------------------------------------
(* The password                                                            *)

\* A product with a positive number is at least as large as the other factor.
LEMMA TimesGrows ==
  ASSUME NEW x \in Nat, NEW y \in Nat, NEW d \in Nat, x < y
  PROVE  x * d + d <= y * d
<1>1. PICK z \in Nat : y = x + 1 + z
  <2>1. y - x - 1 \in Nat /\ y = x + 1 + (y - x - 1)
    OBVIOUS
  <2>. QED BY <2>1
<1>2. z * d \in Nat
  OBVIOUS
<1>3. y * d = x * d + d + z * d
  BY <1>1
<1>4. x * d \in Nat
  OBVIOUS
<1>. QED BY <1>2, <1>3, <1>4

\* Quotient and remainder.
LEMMA Division ==
  ASSUME NEW n \in Nat, NEW d \in Nat, d > 0
  PROVE  /\ n \div d \in Nat /\ n % d \in Nat /\ n % d < d
         /\ n = (n \div d) * d + (n % d)
  OBVIOUS

\* The quotient is the only number with its remainder below the divisor.
LEMMA QuotientUnique ==
  ASSUME NEW q \in Nat, NEW r \in Nat, NEW d \in Nat, r < d
  PROVE  (q * d + r) \div d = q /\ (q * d + r) % d = r
<1>. DEFINE n == q * d + r
<1>. DEFINE p == n \div d
<1>. DEFINE s == n % d
<1>1. n \in Nat /\ q * d \in Nat /\ d > 0
  OBVIOUS
<1>2. p \in Nat /\ s \in Nat /\ s < d /\ n = p * d + s
  BY <1>1, Division
<1>3. p * d \in Nat
  BY <1>2
<1>4. ~ p < q
  <2>. SUFFICES ASSUME p < q PROVE FALSE
    OBVIOUS
  <2>1. p * d + d <= q * d
    BY <1>2, TimesGrows
  <2>. HIDE DEF p, s
  <2>. QED BY <1>1, <1>2, <1>3, <2>1
<1>5. ~ q < p
  <2>. SUFFICES ASSUME q < p PROVE FALSE
    OBVIOUS
  <2>1. q * d + d <= p * d
    BY <1>2, TimesGrows
  <2>. HIDE DEF p, s
  <2>. QED BY <1>1, <1>2, <1>3, <2>1
<1>6. p = q
  <2>. HIDE DEF p
  <2>. QED BY <1>2, <1>4, <1>5
<1>7. s = r
  <2>. HIDE DEF p, s
  <2>. QED BY <1>1, <1>2, <1>6
<1>. QED BY <1>6, <1>7

\* A number below a multiple of the divisor has a quotient below the factor.
LEMMA QuotientBelow ==
  ASSUME NEW n \in Nat, NEW m \in Nat, NEW d \in Nat, d > 0, n < m * d
  PROVE  n \div d < m
<1>1. PICK q \in Nat, r \in Nat : q = n \div d /\ r < d /\ n = q * d + r
  BY Division
<1>2. SUFFICES ASSUME ~ q < m PROVE FALSE
  BY <1>1
<1>3. q * d \in Nat /\ m * d \in Nat
  OBVIOUS
<1>4. q = m \/ m < q
  BY <1>2
<1>5. CASE m < q
  <2>1. m * d + d <= q * d
    BY <1>5, TimesGrows
  <2>. QED BY <1>1, <1>3, <2>1
<1>. QED BY <1>1, <1>3, <1>4, <1>5

\* RsaKeyLength is twice a positive number.
LEMMA HalfBlock ==
  /\ RsaKeyLength \div 2 \in Nat /\ RsaKeyLength \div 2 > 0
  /\ RsaKeyLength = 2 * (RsaKeyLength \div 2)
  BY NativePasswordAssumption

\* WholeBlocks rounds up to a multiple of the block.
LEMMA WholeBlocksFacts ==
  ASSUME NEW n \in Nat
  PROVE  \E q \in Nat : WholeBlocks(n) = q * RsaKeyLength /\ n <= q * RsaKeyLength
<1>1. RsaKeyLength \in Nat /\ RsaKeyLength > 0
  BY NativePasswordAssumption
<1>2. PICK q \in Nat, r \in Nat : q = n \div RsaKeyLength /\ r = n % RsaKeyLength /\ r < RsaKeyLength /\ n = q * RsaKeyLength + r
  BY <1>1, Division
<1>3. q * RsaKeyLength \in Nat
  BY <1>1
<1>4. CASE r = 0
  <2>1. WholeBlocks(n) = q * RsaKeyLength /\ n <= q * RsaKeyLength
    BY <1>1, <1>2, <1>3, <1>4 DEF WholeBlocks
  <2>. QED BY <2>1
<1>5. CASE r # 0
  <2>1. q + 1 \in Nat /\ (q + 1) * RsaKeyLength = q * RsaKeyLength + RsaKeyLength
    BY <1>1
  <2>2. WholeBlocks(n) = n + RsaKeyLength - r
    BY <1>1, <1>2, <1>5 DEF WholeBlocks
  <2>3. PICK qb \in Nat : qb = q * RsaKeyLength
    BY <1>3
  <2>4. WholeBlocks(n) = qb + RsaKeyLength /\ n <= qb + RsaKeyLength
    BY <1>1, <1>2, <2>2, <2>3
  <2>5. WholeBlocks(n) = (q + 1) * RsaKeyLength /\ n <= (q + 1) * RsaKeyLength
    BY <2>1, <2>3, <2>4
  <2>. QED BY <2>1, <2>5
<1>. QED BY <1>4, <1>5

\* The bytes of the plaintext, and the number of blocks that it fills.
LEMMA InterleavedFacts ==
  ASSUME NEW password \in Seq(Nat), NEW phrase \in Seq(Nat), phrase # <<>>
  PROVE  LET plain == Interleaved(password, phrase) IN
         /\ plain \in Seq(Nat)
         /\ \E q \in Nat : Len(plain) = q * RsaKeyLength
         /\ 2 * Len(password) + 2 <= Len(plain) /\ 2 * Len(phrase) <= Len(plain)
         /\ \A k \in 1 .. Len(password) : plain[2 * k - 1] = password[k]
         /\ plain[2 * Len(password) + 1] = 0
         /\ \A k \in 1 .. Len(phrase) : plain[2 * k] = phrase[k]
<1>. DEFINE pwd == Append(password, 0)
<1>. DEFINE longest == IF Len(pwd) > Len(phrase) THEN Len(pwd) ELSE Len(phrase)
<1>. DEFINE plain == Interleaved(password, phrase)
<1>. DEFINE l == Len(pwd)
<1>. DEFINE p == Len(phrase)
<1>1. /\ pwd \in Seq(Nat) /\ Len(pwd) = Len(password) + 1 /\ Len(password) \in Nat
      /\ \A k \in 1 .. Len(password) : pwd[k] = password[k]
      /\ pwd[Len(password) + 1] = 0
  OBVIOUS
<1>2. Len(phrase) \in Nat /\ Len(phrase) > 0
  OBVIOUS
<1>3. l \in Nat /\ l > 0 /\ p \in Nat /\ p > 0 /\ longest \in Nat /\ l <= longest /\ p <= longest
  BY <1>1, <1>2
<1>4. PICK q \in Nat : WholeBlocks(2 * longest) = q * RsaKeyLength /\ 2 * longest <= q * RsaKeyLength
  <2>1. 2 * longest \in Nat
    BY <1>3
  <2>. QED BY <2>1, WholeBlocksFacts
<1>5. PICK size \in Nat : size = q * RsaKeyLength
  BY NativePasswordAssumption
<1>6. plain = [i \in 1 .. size |-> LET k == (i - 1) \div 2 IN IF i % 2 = 1 THEN pwd[(k % l) + 1] ELSE phrase[(k % p) + 1]]
  BY <1>4, <1>5 DEF Interleaved
<1>7. ASSUME NEW i \in 1 .. size PROVE plain[i] \in Nat
  <2>1. PICK k \in Nat : k = (i - 1) \div 2
    OBVIOUS
  <2>2. (k % l) + 1 \in 1 .. l /\ (k % p) + 1 \in 1 .. p
    <3>1. k % l \in Nat /\ k % l < l /\ k % p \in Nat /\ k % p < p
      BY <1>3, Division
    <3>. HIDE DEF l, p
    <3>. QED BY <1>3, <3>1
  <2>3. pwd[(k % l) + 1] \in Nat /\ phrase[(k % p) + 1] \in Nat
    BY <1>1, <2>2
  <2>4. plain[i] = IF i % 2 = 1 THEN pwd[(k % l) + 1] ELSE phrase[(k % p) + 1]
    BY <1>6, <2>1
  <2>. QED BY <2>3, <2>4
<1>8. plain \in Seq(Nat) /\ Len(plain) = size
  <2>1. plain = [i \in 1 .. size |-> plain[i]]
    BY <1>6
  <2>. HIDE DEF plain
  <2>2. plain \in [1 .. size -> Nat]
    BY <1>7, <2>1
  <2>. QED BY <1>5, <2>2
<1>9. 2 * l <= size /\ 2 * p <= size
  <2>. HIDE DEF l, p, longest
  <2>. QED BY <1>3, <1>4, <1>5
<1>10. ASSUME NEW j \in Nat, j < l PROVE plain[2 * j + 1] = pwd[j + 1]
  <2>1. 2 * j + 1 \in 1 .. size /\ (2 * j + 1) % 2 = 1 /\ ((2 * j + 1) - 1) \div 2 = j
    <3>. HIDE DEF l, p
    <3>. QED BY <1>3, <1>5, <1>9, <1>10
  <2>2. j % l = j
    <3>. HIDE DEF l, p
    <3>1. 0 * l + j = j
      BY <1>3
    <3>2. (0 * l + j) % l = j
      BY <1>3, <1>10, QuotientUnique
    <3>. QED BY <3>1, <3>2
  <2>. HIDE DEF plain, pwd, l, p
  <2>. QED BY <1>6, <2>1, <2>2
<1>11. ASSUME NEW j \in Nat, j < p PROVE plain[2 * j + 2] = phrase[j + 1]
  <2>1. 2 * j + 2 \in 1 .. size /\ (2 * j + 2) % 2 # 1 /\ ((2 * j + 2) - 1) \div 2 = j
    <3>. HIDE DEF l, p
    <3>. QED BY <1>3, <1>5, <1>9, <1>11
  <2>2. j % p = j
    <3>. HIDE DEF l, p
    <3>1. 0 * p + j = j
      BY <1>3
    <3>2. (0 * p + j) % p = j
      BY <1>3, <1>11, QuotientUnique
    <3>. QED BY <3>1, <3>2
  <2>. HIDE DEF plain, pwd, l, p
  <2>. QED BY <1>6, <2>1, <2>2
<1>12. ASSUME NEW k \in 1 .. Len(password) PROVE plain[2 * k - 1] = password[k]
  <2>1. k - 1 \in Nat /\ k - 1 < l /\ 2 * (k - 1) + 1 = 2 * k - 1 /\ (k - 1) + 1 = k
    BY <1>1
  <2>. HIDE DEF plain, l
  <2>. QED BY <1>1, <1>10, <2>1
<1>13. plain[2 * Len(password) + 1] = 0
  <2>1. Len(password) < l
    BY <1>1
  <2>. HIDE DEF plain, l
  <2>. QED BY <1>1, <1>10, <2>1
<1>14. ASSUME NEW k \in 1 .. Len(phrase) PROVE plain[2 * k] = phrase[k]
  <2>1. k - 1 \in Nat /\ k - 1 < p /\ 2 * (k - 1) + 2 = 2 * k /\ (k - 1) + 1 = k
    BY <1>2
  <2>. HIDE DEF plain, p
  <2>. QED BY <1>11, <2>1
<1>15. 2 * Len(password) + 2 <= Len(plain) /\ 2 * Len(phrase) <= Len(plain)
  <2>. HIDE DEF plain
  <2>. QED BY <1>1, <1>2, <1>8, <1>9
<1>16. Len(plain) = q * RsaKeyLength
  BY <1>5, <1>8
<1>. HIDE DEF plain
<1>. QED BY <1>8, <1>12, <1>13, <1>14, <1>15, <1>16 DEF plain

\* The blocks carry the text: the i-th byte that the server reads is the i-th of it.
Carries(sent, text, key) ==
  /\ Len(sent) * (RsaKeyLength \div 2) = Len(text)
  /\ \A b \in DOMAIN sent : Len(sent[b][2]) = RsaKeyLength \div 2 /\ sent[b][3] = key[1] /\ sent[b][4] = key[2]
  /\ \A i \in 1 .. Len(text) : PlainByte(sent, i) = text[i]

LEMMA BlocksCarry ==
  ASSUME NEW password \in Seq(Nat), NEW phrase \in Seq(Nat), phrase # <<>>, NEW key
  PROVE  Carries(ExasolEncodePwd(password, phrase, key), Interleaved(password, phrase), key)
<1>. DEFINE text == Interleaved(password, phrase)
<1>. DEFINE sent == ExasolEncodePwd(password, phrase, key)
<1>. DEFINE h == RsaKeyLength \div 2
<1>1. h \in Nat /\ h > 0 /\ RsaKeyLength = 2 * h
  BY HalfBlock
<1>2. text \in Seq(Nat)
  BY InterleavedFacts
<1>3. PICK q \in Nat : Len(text) = q * RsaKeyLength
  BY InterleavedFacts
<1>4. PICK m \in Nat : m = 2 * q
  OBVIOUS
<1>. HIDE DEF h
<1>5. Len(text) = m * h /\ m * h \in Nat
  BY <1>1, <1>3, <1>4
<1>6. (2 * Len(text)) \div RsaKeyLength = m
  <2>1. 2 * Len(text) = m * RsaKeyLength + 0
    BY <1>1, <1>4, <1>5
  <2>2. (m * RsaKeyLength + 0) \div RsaKeyLength = m
    BY QuotientUnique, NativePasswordAssumption
  <2>. QED BY <2>1, <2>2
<1>7. sent = [b \in 1 .. m |-> <<"rsa", SubSeq(text, (b - 1) * h + 1, b * h), key[1], key[2]>>]
  BY <1>6 DEF ExasolEncodePwd, h
<1>8. ASSUME NEW b \in 1 .. m
      PROVE  LET part == SubSeq(text, (b - 1) * h + 1, b * h) IN
             /\ part \in Seq(Nat) /\ Len(part) = h
             /\ \A j \in 1 .. h : part[j] = text[(b - 1) * h + j]
  <2>1. PICK a \in Nat : a = (b - 1) * h
    BY <1>1
  <2>2. b * h = a + h
    BY <1>1, <2>1
  <2>3. a + h <= Len(text)
    <3>1. b - 1 \in Nat /\ b - 1 < m
      OBVIOUS
    <3>2. (b - 1) * h + h <= m * h
      BY <1>1, <3>1, TimesGrows
    <3>. QED BY <1>5, <2>1, <3>2
  <2>. DEFINE part == SubSeq(text, a + 1, a + h)
  <2>4. PICK f, g : f = a + 1 /\ g = a + h
    OBVIOUS
  <2>5. /\ part \in Seq(Nat)
        /\ Len(part) = IF f <= g THEN g - f + 1 ELSE 0
        /\ \A i \in 1 .. g - f + 1 : part[i] = text[f + i - 1]
    <3>. HIDE DEF text
    <3>1. f \in Int /\ g \in Int /\ \A i \in f .. g : i \in 1 .. Len(text)
      BY <1>1, <1>2, <2>3, <2>4
    <3>2. \A i \in f .. g : text[i] \in Nat
      BY <1>2, <3>1
    <3>3. /\ SubSeq(text, f, g) \in Seq(Nat)
          /\ Len(SubSeq(text, f, g)) = IF f <= g THEN g - f + 1 ELSE 0
          /\ \A i \in 1 .. g - f + 1 : SubSeq(text, f, g)[i] = text[f + i - 1]
      BY <3>1, <3>2, SubSeqProperties
    <3>. QED BY <2>4, <3>3
  <2>6. g - f + 1 = h /\ f <= g
    BY <1>1, <2>4
  <2>7. Len(part) = h /\ \A j \in 1 .. h : part[j] = text[a + j]
    <3>. HIDE DEF part, text
    <3>1. \A j \in 1 .. h : f + j - 1 = a + j
      BY <1>1, <2>4
    <3>. QED BY <2>5, <2>6, <3>1
  <2>. HIDE DEF text
  <2>. QED BY <2>1, <2>2, <2>5, <2>7
<1>. HIDE DEF text
<1>9. Len(sent) = m
  <2>1. sent = [b \in 1 .. m |-> sent[b]]
    BY <1>7
  <2>. HIDE DEF sent
  <2>2. sent \in [1 .. m -> {sent[b] : b \in 1 .. m}]
    BY <2>1
  <2>. QED BY <2>2
<1>. HIDE DEF sent
<1>10. \A b \in DOMAIN sent : Len(sent[b][2]) = h /\ sent[b][3] = key[1] /\ sent[b][4] = key[2]
  BY <1>7, <1>8
<1>11. ASSUME NEW i \in 1 .. Len(text) PROVE PlainByte(sent, i) = text[i]
  <2>1. PICK n \in Nat : n = i - 1 /\ i = n + 1 /\ n < m * h
    BY <1>2, <1>5
  <2>2. PICK c \in Nat, r \in Nat : c = n \div h /\ r = n % h /\ r < h /\ n = c * h + r
    BY <1>1, Division
  <2>3. c < m
    BY <1>1, <2>1, <2>2, QuotientBelow
  <2>4. c + 1 \in 1 .. m /\ (c + 1) - 1 = c /\ r + 1 \in 1 .. h
    BY <1>1, <2>2, <2>3
  <2>5. PlainByte(sent, i) = sent[c + 1][2][r + 1]
    BY <2>1, <2>2 DEF PlainByte, h
  <2>6. sent[c + 1][2] = SubSeq(text, ((c + 1) - 1) * h + 1, (c + 1) * h)
    BY <1>7, <2>4
  <2>7. sent[c + 1][2][r + 1] = text[((c + 1) - 1) * h + (r + 1)]
    BY <1>8, <2>4, <2>6
  <2>8. ((c + 1) - 1) * h + (r + 1) = i
    BY <1>1, <2>1, <2>2, <2>4
  <2>. QED BY <2>5, <2>7, <2>8
<1>. QED BY <1>5, <1>9, <1>10, <1>11 DEF text, sent, h, Carries

\* exasol_encode_pwd, for every password, every phrase and every even block length: the
\* rounding to whole blocks and the splitting lose no byte of the password and none of the
\* phrase (PasswordRead).
THEOREM PasswordArrives ==
  ASSUME NEW password \in Seq(Nat), NEW phrase \in Seq(Nat) \ {<<>>}, NEW key
  PROVE  PasswordRead(ExasolEncodePwd(password, phrase, key), password, phrase, key)
<1>. DEFINE text == Interleaved(password, phrase)
<1>. DEFINE sent == ExasolEncodePwd(password, phrase, key)
<1>. DEFINE h == RsaKeyLength \div 2
<1>0. phrase \in Seq(Nat) /\ phrase # <<>>
  OBVIOUS
<1>1. /\ Len(sent) * h = Len(text)
      /\ \A b \in DOMAIN sent : Len(sent[b][2]) = h /\ sent[b][3] = key[1] /\ sent[b][4] = key[2]
      /\ \A i \in 1 .. Len(text) : PlainByte(sent, i) = text[i]
  <2>1. Carries(sent, text, key)
    BY <1>0, BlocksCarry
  <2>. HIDE DEF sent, text
  <2>. QED BY <2>1 DEF Carries
<1>2. /\ Len(text) \in Nat
      /\ 2 * Len(password) + 2 <= Len(text) /\ 2 * Len(phrase) <= Len(text)
      /\ \A k \in 1 .. Len(password) : text[2 * k - 1] = password[k]
      /\ text[2 * Len(password) + 1] = 0
      /\ \A k \in 1 .. Len(phrase) : text[2 * k] = phrase[k]
  BY <1>0, InterleavedFacts
<1>. HIDE DEF text, sent, h
<1>3. Len(password) \in Nat /\ Len(phrase) \in Nat
  OBVIOUS
<1>4. ASSUME NEW k \in 1 .. Len(password) PROVE PlainByte(sent, 2 * k - 1) = password[k]
  <2>1. 2 * k - 1 \in 1 .. Len(text)
    BY <1>2, <1>3
  <2>. QED BY <1>1, <1>2, <2>1
<1>5. PlainByte(sent, 2 * Len(password) + 1) = 0
  <2>1. 2 * Len(password) + 1 \in 1 .. Len(text)
    BY <1>2, <1>3
  <2>. QED BY <1>1, <1>2, <2>1
<1>6. ASSUME NEW k \in 1 .. Len(phrase) PROVE PlainByte(sent, 2 * k) = phrase[k]
  <2>1. 2 * k \in 1 .. Len(text)
    BY <1>2, <1>3
  <2>. QED BY <1>1, <1>2, <2>1
<1>7. 2 * Len(password) + 1 <= Len(sent) * h /\ 2 * Len(phrase) <= Len(sent) * h
  <2>1. PICK n \in Nat : n = Len(text) /\ n = Len(sent) * h
    BY <1>1, <1>2
  <2>. QED BY <1>2, <1>3, <2>1
<1>. QED BY <1>1, <1>4, <1>5, <1>6, <1>7 DEF PasswordRead, sent, h

-----------------------------------------------------------------------------
(* The login                                                               *)

Ops == {"idle", "login", "auth", "attributes", "timeout", "schema", "schema_refresh", "refresh", "execute",
        "disconnect"}
Plain   == {"login", "auth"}
Refresh == {"attributes", "schema_refresh", "refresh"}

Questions == [cmd : Plain \cup {"get_attributes", "set_timeout", "set_schema", "execute", "disconnect"},
              arg : Names \cup {"none", "keys", "no_keys"}, size : {0, 1}, pos : Int]
Replies   == [kind : {"done", "exception", "still_executing"}, schema : Schemas \cup {"absent", "empty"},
              size : {0, 1}, pos : Int]

\* What the variables may hold.
LoginTypeOK ==
  /\ tls \in {"on", "off"} /\ uri \in Names \cup {"none"} /\ user \in {"connection", "transport"}
  /\ caller \in {"connecting", "open", "failed", "closed"}
  /\ failure \in {"none", "login", "timeout", "schema"}
  /\ lifecycle \in {"Connected", "Authenticated", "Closed"}
  /\ stream \in {"open", "none"}
  /\ op \in Ops
  /\ send \in Nat \cup {Clear} /\ recv \in Nat \cup {Clear}
  /\ schema \in Schemas \cup {"empty"}
  /\ logins \in Nat /\ ops \in Nat
  /\ garbled \in {"yes", "no"}
  /\ toServer \in Seq(Questions) /\ toClient \in Seq(Replies)
  /\ srv \in {"login", "auth", "session", "closed"}
  /\ srvSend \in Nat \cup {Clear} /\ srvRecv \in Nat \cup {Clear}
  /\ srvSchema \in Schemas \cup {"empty"}
  /\ untold \in {"no", "set", "failed", "elsewhere"}

\* How many messages may be on their way.
ShapeInv ==
  /\ caller \in {"failed", "closed"} => op = "idle"
  /\ op = "idle" => Len(toClient) = 0
  /\ op # "execute" => Len(toClient) <= 1
  /\ op = "execute" => /\ Len(toClient) <= 2
                       /\ Len(toClient) = 2 => toClient[1].kind = "still_executing"
  /\ (op = "disconnect" /\ srv # "closed") => Len(toClient) = 0
  /\ srv # "closed" =>
       /\ op = "idle" => Len(toServer) = 0
       /\ op \notin {"idle", "execute"} => Len(toServer) + Len(toClient) = 1
       /\ op = "execute" =>
            \/ Len(toServer) = 1 /\ Len(toClient) = 0
            \/ Len(toServer) = 1 /\ Len(toClient) = 1 /\ toClient[1].kind = "still_executing"
            \/ Len(toServer) = 0 /\ Len(toClient) = 1 /\ toClient[1].kind # "still_executing"
            \/ Len(toServer) = 0 /\ Len(toClient) = 2 /\ toClient[2].kind # "still_executing"

\* The command on its way is the one the client awaits the answer of.
AskInv ==
  (srv # "closed" /\ Len(toServer) = 1) =>
    /\ op \in Plain => toServer[1].cmd = op
    /\ op \in Refresh => toServer[1].cmd = "get_attributes"
    /\ op = "timeout" => toServer[1].cmd = "set_timeout"
    /\ op = "schema" => toServer[1].cmd = "set_schema"
    /\ op \in {"execute", "disconnect"} => toServer[1].cmd = op

Start == IF tls = "on" THEN Clear ELSE 0

\* When both sides start to encipher.
PhaseInv ==
  /\ srv \in Plain => /\ op \in Plain \cup {"idle"} /\ lifecycle # "Authenticated"
                      /\ send = Clear /\ recv = Clear /\ srvSend = Clear /\ srvRecv = Clear
  /\ (srv = "session" /\ op = "login") => Len(toClient) = 0
  /\ (srv = "session" /\ op = "auth") => /\ Len(toServer) = 0 /\ toClient[1].kind # "exception"
                                         /\ srvSend = Start /\ srvRecv = Start
  /\ (op = "auth" /\ Len(toClient) = 1 /\ toClient[1].kind # "exception") => srv \in {"session", "closed"}

\* After the keys were exchanged the client enciphers exactly without TLS.
KeyInv ==
  /\ (op \notin Plain \cup {"idle"} \/ lifecycle = "Authenticated") => (send = Clear <=> tls = "on")
  /\ EncryptedIffNoTls

Adv(p, n) == IF p = Clear THEN Clear ELSE p + n

\* The two ends of each keystream are as far apart as what is on its way.
PosInv ==
  /\ Len(toClient) >= 1 => toClient[1].pos = recv
  /\ Len(toClient) = 2 => toClient[2].pos = Adv(recv, toClient[1].size)
  /\ (srv = "session" /\ op \notin Plain) =>
       /\ Len(toServer) = 0 => send = srvRecv
       /\ Len(toServer) = 1 => toServer[1].pos = srvRecv /\ send = Adv(srvRecv, toServer[1].size)
       /\ Len(toClient) = 0 => srvSend = recv
       /\ Len(toClient) = 1 => srvSend = Adv(recv, toClient[1].size)
       /\ Len(toClient) = 2 => srvSend = Adv(toClient[2].pos, toClient[2].size)

\* The schema the client records when it reads answer a in exchange o.
Recorded(o, a) ==
  IF a.schema # "absent" THEN a.schema ELSE IF o \in Refresh /\ a.kind # "exception" THEN "empty" ELSE schema

\* What the client knows, or will know, of the schema.
SchemaInv ==
  /\ op \in Plain => (Len(toClient) = 1 => toClient[1].schema = "absent")
  /\ (srv = "session" /\ Len(toClient) >= 1 /\ toClient[1].kind = "still_executing") =>
       toClient[1].schema = "absent"
  /\ (srv \in Plain \/ (srv = "session" /\ op = "auth")) => schema = "empty" /\ srvSchema = "empty" /\ untold = "no"
  /\ (srv = "session" /\ op \notin Plain /\ caller \in {"connecting", "open"} /\ untold = "no") =>
       /\ Len(toClient) = 0 => schema = srvSchema
       /\ Len(toClient) = 1 => Recorded(op, toClient[1]) = srvSchema
       /\ Len(toClient) = 2 => Recorded(op, toClient[2]) = srvSchema
  /\ (srv = "session" /\ untold = "set" /\ op \notin Plain) =>
       \/ op = "schema" /\ Len(toServer) = 0 /\ toClient[1].kind = "done"
       \/ op = "schema_refresh" /\ (Len(toClient) = 1 => toClient[1].kind = "exception")

\* The inductive invariant.
LoginInv ==
  /\ LoginTypeOK /\ Deciphered /\ ShapeInv /\ AskInv /\ PhaseInv /\ KeyInv /\ PosInv /\ SchemaInv
  /\ NoSessionLeft
-----------------------------------------------------------------------------
(* The channels                                                            *)

\* What Append does to a sequence.
LEMMA AppendFacts ==
  ASSUME NEW S, NEW s \in Seq(S), NEW e \in S
  PROVE  /\ Append(s, e) \in Seq(S)
         /\ Len(s) \in Nat /\ Len(Append(s, e)) = Len(s) + 1
         /\ \A i \in 1 .. Len(s) : Append(s, e)[i] = s[i]
         /\ Append(s, e)[Len(s) + 1] = e
  OBVIOUS

\* What Head and Tail are of a sequence that is not empty.
LEMMA TailFacts ==
  ASSUME NEW S, NEW s \in Seq(S), s # <<>>
  PROVE  /\ Tail(s) \in Seq(S) /\ Head(s) \in S
         /\ Len(s) \in Nat /\ Len(s) >= 1 /\ Len(Tail(s)) = Len(s) - 1
         /\ \A i \in 1 .. Len(Tail(s)) : Tail(s)[i] = s[i + 1]
         /\ Head(s) = s[1]
  OBVIOUS

\* The empty sequence has no length.
LEMMA EmptyFacts ==
  ASSUME NEW S
  PROVE  /\ <<>> \in Seq(S) /\ Len(<<>>) = 0
         /\ \A s \in Seq(S) : Len(s) \in Nat /\ (Len(s) = 0 <=> s = <<>>) /\ DOMAIN s = 1 .. Len(s)
  OBVIOUS

\* A question is enciphered exactly without TLS, and carries keys exactly then.
Fit(m) ==
  /\ m.cmd = "auth" => (m.arg = "keys" <=> tls = "off")
  /\ m.cmd \notin {"login", "auth"} /\ m.size > 0 => (m.pos # Clear <=> tls = "off")

\* Sending a question that fits keeps every question fitting.
LEMMA FitAppend ==
  ASSUME LoginTypeOK, EncryptedIffNoTls, UNCHANGED tls, NEW m \in Questions, Fit(m), toServer' = Append(toServer, m)
  PROVE  EncryptedIffNoTls'
<1>0. toServer \in Seq(Questions)
  BY DEF LoginTypeOK
<1>1. /\ toServer' \in Seq(Questions)
      /\ Len(toServer) \in Nat /\ Len(toServer') = Len(toServer) + 1
      /\ \A i \in 1 .. Len(toServer) : toServer'[i] = toServer[i]
      /\ toServer'[Len(toServer) + 1] = m
  <2>. HIDE DEF Questions
  <2>. QED BY <1>0, AppendFacts
<1>2. DOMAIN toServer = 1 .. Len(toServer) /\ DOMAIN toServer' = 1 .. Len(toServer')
  BY <1>0, <1>1, EmptyFacts
<1>3. SUFFICES ASSUME NEW i \in DOMAIN toServer'
               PROVE  Fit(toServer'[i])
  BY DEF EncryptedIffNoTls, Fit
<1>4. CASE i = Len(toServer) + 1
  BY <1>1, <1>4
<1>5. CASE i # Len(toServer) + 1
  <2>1. i \in 1 .. Len(toServer)
    BY <1>1, <1>2, <1>5
  <2>. QED BY <1>1, <1>2, <2>1 DEF EncryptedIffNoTls, Fit
<1>. QED BY <1>4, <1>5

\* So does the server taking one.
LEMMA FitTail ==
  ASSUME LoginTypeOK, EncryptedIffNoTls, UNCHANGED tls, toServer # <<>>, toServer' = Tail(toServer)
  PROVE  EncryptedIffNoTls'
<1>1. /\ toServer \in Seq(Questions) /\ toServer' \in Seq(Questions)
      /\ Len(toServer) \in Nat /\ Len(toServer') = Len(toServer) - 1
      /\ \A i \in 1 .. Len(toServer') : toServer'[i] = toServer[i + 1]
  BY TailFacts DEF LoginTypeOK
<1>2. DOMAIN toServer = 1 .. Len(toServer) /\ DOMAIN toServer' = 1 .. Len(toServer')
  BY <1>1, EmptyFacts
<1>3. SUFFICES ASSUME NEW i \in DOMAIN toServer'
               PROVE  Fit(toServer'[i])
  BY DEF EncryptedIffNoTls, Fit
<1>4. toServer'[i] = toServer[i + 1] /\ i + 1 \in DOMAIN toServer
  BY <1>1, <1>2
<1>. QED BY <1>4 DEF EncryptedIffNoTls, Fit

\* So does a channel that was emptied, or is as it was.
LEMMA FitRest ==
  ASSUME EncryptedIffNoTls, UNCHANGED tls, toServer' = <<>> \/ UNCHANGED toServer
  PROVE  EncryptedIffNoTls'
<1>1. CASE toServer' = <<>>
  BY <1>1 DEF EncryptedIffNoTls
<1>2. CASE UNCHANGED toServer
  BY <1>2 DEF EncryptedIffNoTls
<1>. QED BY <1>1, <1>2

\* What the client finds when it reads an answer.
LEMMA AnswerFacts ==
  ASSUME LoginInv, toClient # <<>>, toClient' = Tail(toClient)
  PROVE  /\ Answer \in Replies /\ Answer = toClient[1] /\ Answer.pos = recv /\ ReadableAnswer
         /\ Len(toClient) \in Nat /\ Len(toClient) >= 1 /\ Len(toClient') = Len(toClient) - 1
         /\ toClient' \in Seq(Replies)
         /\ op # "idle"
         /\ op # "execute" => Len(toClient) = 1 /\ Len(toClient') = 0
         /\ op = "execute" => Len(toClient) \in {1, 2}
         /\ Len(toClient) = 2 => toClient'[1] = toClient[2]
<1>1. toClient \in Seq(Replies)
  BY DEF LoginInv, LoginTypeOK
<1>2. /\ Answer \in Replies /\ Answer = toClient[1]
      /\ Len(toClient) \in Nat /\ Len(toClient) >= 1 /\ Len(toClient') = Len(toClient) - 1
      /\ toClient' \in Seq(Replies)
      /\ \A i \in 1 .. Len(toClient') : toClient'[i] = toClient[i + 1]
  BY <1>1, TailFacts DEF Answer
<1>. QED BY <1>2 DEF LoginInv, ShapeInv, PosInv, ReadableAnswer

\* What the client leaves on its way when it asks.
LEMMA AskFacts ==
  ASSUME LoginInv, NEW m \in Questions, toServer' = Append(toServer, m)
  PROVE  /\ toServer' \in Seq(Questions) /\ Len(toServer) \in Nat /\ Len(toServer') = Len(toServer) + 1
         /\ Len(toServer) = 0 => toServer'[1] = m
<1>1. toServer \in Seq(Questions)
  BY DEF LoginInv, LoginTypeOK
<1>. QED BY <1>1, AppendFacts

-----------------------------------------------------------------------------
(* Nothing is on its way                                                   *)

\* The client has read its answer, or had none to read: both ends of the keystreams
\* agree, and it knows the schema unless the server has not told.
InStep ==
  /\ UNCHANGED <<tls, uri, user, garbled, srv, srvSend, srvRecv, srvSchema>>
  /\ toClient' \in Seq(Replies) /\ Len(toClient') = 0
  /\ recv' \in Nat \cup {Clear} /\ (recv = Clear => recv' = Clear)
  /\ schema' \in Schemas \cup {"empty"}
  /\ srv # "closed" => Len(toServer) = 0
  /\ srv \in Plain => schema' = "empty"
  /\ srv = "session" => /\ op \notin Plain /\ send = srvRecv /\ srvSend = recv'
                        /\ untold = "no" => schema' = srvSchema

\* What the step leaves of the variables only the client has.
Local ==
  /\ caller' \in {"connecting", "open", "failed", "closed"}
  /\ failure' \in {"none", "login", "timeout", "schema"}
  /\ lifecycle' \in {"Connected", "Authenticated", "Closed"}
  /\ stream' \in {"open", "none"}
  /\ logins' \in Nat /\ ops' \in Nat
  /\ untold' \in {"no", "set", "failed", "elsewhere"} /\ (untold' = "no" => untold = "no")
  /\ srv \in Plain => untold' = untold
  /\ caller' = "failed" => failure' # "schema"
  /\ lifecycle' = "Authenticated" => lifecycle = "Authenticated" \/ op \notin Plain \cup {"idle"}

\* An answer leaves client and server in step.
LEMMA AnswerInStep ==
  ASSUME LoginInv, op # "execute", op # "disconnect", Receive, schema' = Recorded(op, Answer),
         op = "auth" => Answer.kind = "exception"
  PROVE  /\ InStep
         /\ op # "idle" /\ caller \in {"connecting", "open"}
         /\ (srv = "session" /\ untold = "set") => \/ op = "schema" /\ Answer.kind = "done"
                                                   \/ op = "schema_refresh" /\ Answer.kind = "exception"
<1>. USE DEF LoginInv
<1>1. toClient # <<>> /\ toClient' = Tail(toClient) /\ recv' = Adv(recv, Answer.size)
      /\ UNCHANGED <<tls, uri, user, garbled, srv, srvSend, srvRecv, srvSchema>>
  BY DEF Receive, choices, Adv
<1>2. /\ Answer \in Replies /\ Answer = toClient[1] /\ op # "idle"
      /\ Len(toClient) = 1 /\ Len(toClient') = 0 /\ toClient' \in Seq(Replies)
  BY <1>1, AnswerFacts
<1>3. /\ Answer.size \in {0, 1} /\ Answer.schema \in Schemas \cup {"absent", "empty"}
      /\ Answer.kind \in {"done", "exception", "still_executing"}
  BY <1>2 DEF Replies
<1>4. /\ caller \in {"connecting", "open"}
      /\ srv # "closed" => Len(toServer) = 0
  <2>1. Len(toServer) \in Nat /\ caller \in {"connecting", "open", "failed", "closed"}
    BY EmptyFacts DEF LoginTypeOK
  <2>. QED BY <1>2, <2>1 DEF ShapeInv
<1>5. srv = "session" => op \notin Plain
  BY <1>2 DEF PhaseInv, Plain
<1>6. recv' \in Nat \cup {Clear} /\ (recv = Clear => recv' = Clear)
  BY <1>1, <1>3 DEF LoginTypeOK, Adv, Clear
<1>7. schema' \in Schemas \cup {"empty"}
  BY <1>3 DEF LoginTypeOK, Recorded
<1>8. srv \in Plain => schema' = "empty"
  BY <1>2, <1>5 DEF SchemaInv, Plain, Recorded, PhaseInv, Refresh
<1>9. srv = "session" => send = srvRecv /\ srvSend = recv'
  BY <1>1, <1>2, <1>4, <1>5 DEF PosInv
<1>10. srv = "session" /\ untold = "no" => schema' = srvSchema
  BY <1>2, <1>4, <1>5 DEF SchemaInv
<1>11. (srv = "session" /\ untold = "set") => \/ op = "schema" /\ Answer.kind = "done"
                                              \/ op = "schema_refresh" /\ Answer.kind = "exception"
  BY <1>2, <1>5 DEF SchemaInv
<1>. QED BY <1>1, <1>2, <1>4, <1>5, <1>6, <1>7, <1>8, <1>9, <1>10, <1>11 DEF InStep

\* A client that is in step may rest.
LEMMA RestKeeps ==
  ASSUME LoginInv, InStep, Local, op' = "idle", UNCHANGED <<toServer, send>>,
         srv = "session" => untold' # "set"
  PROVE  LoginInv'
<1>. USE DEF LoginInv
<1>1. LoginTypeOK'
  BY DEF LoginTypeOK, InStep, Local, Ops
<1>2. Deciphered' /\ ShapeInv' /\ AskInv'
  BY DEF Deciphered, ShapeInv, AskInv, InStep, Plain, Refresh
<1>3. PhaseInv'
  BY DEF PhaseInv, InStep, Local, Plain
<1>4. EncryptedIffNoTls'
  BY FitRest DEF KeyInv, InStep
<1>5. KeyInv'
  BY <1>4 DEF KeyInv, InStep, Local, Plain
<1>6. PosInv'
  BY DEF PosInv, InStep, Plain
<1>7. SchemaInv'
  BY DEF SchemaInv, InStep, Local, Plain, Recorded, PhaseInv
<1>8. NoSessionLeft'
  BY DEF NoSessionLeft, Local
<1>. QED BY <1>1, <1>2, <1>3, <1>5, <1>6, <1>7, <1>8

\* The command of each exchange.
Asks(o, cmd) ==
  \/ o \in Refresh /\ cmd = "get_attributes"
  \/ o = "timeout" /\ cmd = "set_timeout"
  \/ o = "schema" /\ cmd = "set_schema"
  \/ o \in {"execute", "disconnect"} /\ cmd = o

\* A client that is in step may begin an exchange.
LEMMA AskKeeps ==
  ASSUME LoginInv, InStep, Local,
         lifecycle = "Authenticated" \/ op \notin Plain \cup {"idle"},
         NEW o, NEW cmd, NEW arg \in Names \cup {"none"}, NEW size \in {0, 1}, Asks(o, cmd),
         SendMessage(cmd, arg, size), op' = o, caller' \in {"connecting", "open"},
         (srv = "session" /\ untold' = "set") => o = "schema_refresh"
  PROVE  LoginInv'
<1>. USE DEF LoginInv
<1>. DEFINE m == [cmd |-> cmd, arg |-> arg, size |-> size, pos |-> send]
<1>1. /\ send \in Nat \cup {Clear} /\ tls \in {"on", "off"} /\ (send = Clear <=> tls = "on")
      /\ srv \notin Plain
  BY DEF LoginTypeOK, KeyInv, PhaseInv
<1>2. o \in Ops /\ o \notin Plain \cup {"idle"}
  BY DEF Asks, Ops, Plain, Refresh
<1>3. m \in Questions /\ Fit(m) /\ toServer' = Append(toServer, m) /\ send' = Adv(send, size)
  BY <1>1 DEF SendMessage, Asks, Questions, Plain, Refresh, Clear, Fit, Adv
<1>4. m.cmd = cmd /\ m.pos = send /\ m.size = size
  OBVIOUS
<1>. HIDE DEF m
<1>5. /\ toServer' \in Seq(Questions)
      /\ srv # "closed" => Len(toServer') = 1 /\ toServer'[1] = m
  BY <1>3, AskFacts DEF InStep
<1>6. send' \in Nat \cup {Clear} /\ (send' = Clear <=> tls = "on")
  BY <1>1, <1>3 DEF Adv, Clear
<1>7. LoginTypeOK'
  BY <1>2, <1>5, <1>6 DEF LoginTypeOK, InStep, Local
<1>8. Deciphered' /\ ShapeInv' /\ NoSessionLeft'
  BY <1>2, <1>5 DEF Deciphered, ShapeInv, InStep, NoSessionLeft
<1>9. AskInv'
  BY <1>2, <1>4, <1>5 DEF AskInv, Asks, Plain, Refresh, InStep
<1>10. PhaseInv'
  BY <1>1, <1>2 DEF PhaseInv, InStep, Plain
<1>11. EncryptedIffNoTls'
  BY <1>3, FitAppend DEF KeyInv, InStep
<1>12. KeyInv'
  BY <1>6, <1>11 DEF KeyInv, InStep
<1>13. PosInv'
  BY <1>2, <1>3, <1>4, <1>5 DEF PosInv, InStep
<1>14. SchemaInv'
  BY <1>1, <1>2 DEF SchemaInv, InStep, Local, Plain, Recorded
<1>. QED BY <1>7, <1>8, <1>9, <1>10, <1>12, <1>13, <1>14

-----------------------------------------------------------------------------
(* The steps of the client                                                 *)

\* BeginLogin keeps the invariant.
LEMMA BeginLoginKeeps == LoginInv /\ BeginLogin => LoginInv'
<1>. SUFFICES ASSUME LoginInv, BeginLogin PROVE LoginInv'
  OBVIOUS
<1>. DEFINE m == [cmd |-> "login", arg |-> "none", size |-> 1, pos |-> Clear]
<1>1. m \in Questions /\ Fit(m) /\ toServer' = Append(toServer, m)
  BY DEF BeginLogin, SendRaw, Questions, Plain, Clear, Fit
<1>. HIDE DEF m
<1>2. /\ toServer' \in Seq(Questions) /\ Len(toServer) \in Nat /\ Len(toServer') = Len(toServer) + 1
      /\ Len(toServer) = 0 => toServer'[1] = m
  BY <1>1, AskFacts
<1>3. m.cmd = "login"
  BY DEF m
<1>4. /\ op = "idle" /\ op' = "login" /\ lifecycle = "Connected" /\ caller = "connecting" /\ logins' = logins + 1
      /\ UNCHANGED <<tls, uri, user, caller, failure, lifecycle, stream, send, recv, schema, ops, garbled, toClient,
                     srv, srvSend, srvRecv, srvSchema, untold>>
  BY DEF BeginLogin, SendRaw, choices, server
<1>. USE DEF LoginInv
<1>5. Len(toClient) = 0 /\ Len(toClient') = 0 /\ (srv # "closed" => Len(toServer') = 1 /\ toServer'[1] = m)
  BY <1>2, <1>4 DEF ShapeInv
<1>6. LoginTypeOK'
  <2>1. op' \in Ops /\ logins' \in Nat
    BY <1>4 DEF LoginTypeOK, Ops
  <2>. QED BY <1>2, <1>4, <2>1 DEF LoginTypeOK
<1>7. ShapeInv' /\ AskInv' /\ Deciphered' /\ NoSessionLeft'
  BY <1>3, <1>4, <1>5 DEF ShapeInv, AskInv, Deciphered, Plain, Refresh, NoSessionLeft
<1>8. PhaseInv'
  BY <1>4, <1>5 DEF PhaseInv, Plain, Start
<1>9. EncryptedIffNoTls'
  BY <1>1, <1>4, FitAppend DEF KeyInv
<1>10. KeyInv' /\ PosInv'
  BY <1>4, <1>5, <1>9 DEF KeyInv, PosInv, Plain
<1>11. SchemaInv'
  <2>1. srv' = srv /\ op' = "login" /\ Len(toClient') = 0
    BY <1>4, <1>5
  <2>2. srv' \in Plain => schema' = "empty" /\ srvSchema' = "empty" /\ untold' = "no"
    BY <1>4 DEF SchemaInv
  <2>. QED BY <2>1, <2>2 DEF SchemaInv, Plain
<1>. QED BY <1>6, <1>7, <1>8, <1>10, <1>11

\* A client that waits for nothing is in step.
LEMMA IdleInStep ==
  ASSUME LoginInv, op = "idle", caller \in {"connecting", "open"},
         UNCHANGED <<tls, uri, user, garbled, srv, srvSend, srvRecv, srvSchema, toClient, recv, schema>>
  PROVE  InStep /\ (srv = "session" => untold # "set")
<1>. USE DEF LoginInv
<1>1. Len(toClient) = 0 /\ (srv # "closed" => Len(toServer) = 0)
  BY DEF ShapeInv
<1>2. srv = "session" => /\ op \notin Plain /\ send = srvRecv /\ srvSend = recv /\ untold # "set"
                         /\ untold = "no" => schema = srvSchema
  BY <1>1 DEF PosInv, SchemaInv, Plain
<1>3. srv \in Plain => schema = "empty"
  BY DEF SchemaInv
<1>. QED BY <1>1, <1>2, <1>3 DEF InStep, LoginTypeOK

\* A step of the setup that follows, in step, keeps the invariant.
LEMMA NextSetupKeeps ==
  ASSUME LoginInv, InStep, op \notin Plain \cup {"idle"}, caller \in {"connecting", "open"},
         srv = "session" => untold # "set", NEW done, NextSetup(done),
         lifecycle' \in {lifecycle, "Authenticated"}, UNCHANGED <<failure, stream, untold, logins, ops>>
  PROVE  LoginInv'
<1>1. caller' \in {"connecting", "open"}
  BY DEF NextSetup
<1>2. Local
  BY <1>1 DEF Local, LoginInv, LoginTypeOK
<1>3. CASE SendMessage("set_timeout", "none", 1) /\ op' = "timeout"
  BY <1>1, <1>2, <1>3, AskKeeps DEF Asks
<1>4. CASE uri # "none" /\ SendMessage("set_schema", uri, 1) /\ op' = "schema"
  <2>1. uri \in Names \cup {"none"}
    BY DEF LoginInv, LoginTypeOK
  <2>. QED BY <1>1, <1>2, <1>4, <2>1, AskKeeps DEF Asks
<1>5. CASE op' = "idle" /\ UNCHANGED <<toServer, send>>
  BY <1>2, <1>5, RestKeeps
<1>. QED BY <1>3, <1>4, <1>5 DEF NextSetup

\* SchemaFails, in step, keeps the invariant.
LEMMA SchemaFailsKeeps ==
  ASSUME LoginInv, InStep, op \notin Plain \cup {"idle"}, caller \in {"connecting", "open"}, SchemaFails,
         srv = "session" => untold' # "set",
         untold' \in {"no", "set", "failed", "elsewhere"}, untold' = "no" => untold = "no",
         UNCHANGED <<lifecycle, stream, logins, ops>>
  PROVE  LoginInv'
<1>1. UNCHANGED caller /\ srv \notin Plain
  BY DEF SchemaFails, LoginInv, PhaseInv
<1>2. failure' \in {"none", "login", "timeout", "schema"}
  BY DEF SchemaFails, LoginInv, LoginTypeOK
<1>3. Local
  BY <1>1, <1>2 DEF Local, LoginInv, LoginTypeOK
<1>4. CASE SendMessage("disconnect", "none", 0) /\ op' = "disconnect"
  BY <1>1, <1>3, <1>4, AskKeeps DEF Asks
<1>5. CASE op' = "idle" /\ UNCHANGED <<toServer, send>>
  BY <1>3, <1>5, RestKeeps
<1>. QED BY <1>4, <1>5 DEF SchemaFails

\* LoginFails, in step, keeps the invariant.
LEMMA LoginFailsKeeps ==
  ASSUME LoginInv, InStep, LoginFails, op # "idle", UNCHANGED <<toServer, send, lifecycle, logins, ops, untold>>,
         srv = "session" => untold # "set"
  PROVE  LoginInv'
<1>. USE DEF LoginInv
<1>1. caller # "failed"
  BY DEF ShapeInv
<1>2. Local
  BY <1>1 DEF Local, LoginFails, LoginTypeOK
<1>. QED BY <1>2, RestKeeps DEF LoginFails

\* LoginAnswered keeps the invariant.
LEMMA LoginAnsweredKeeps == LoginInv /\ LoginAnswered => LoginInv'
<1>. SUFFICES ASSUME LoginInv, LoginAnswered PROVE LoginInv'
  OBVIOUS
<1>. USE DEF LoginInv
<1>1. op = "login" /\ Receive /\ schema' = Recorded(op, Answer) /\ UNCHANGED <<untold, lifecycle, logins, ops>>
  BY DEF LoginAnswered, RecordSchema, Recorded, Refresh
<1>2. InStep /\ caller \in {"connecting", "open"} /\ (srv = "session" => untold # "set") /\ srv # "session"
  <2>1. InStep
    BY <1>1, AnswerInStep
  <2>2. caller \in {"connecting", "open"} /\ (srv = "session" => untold # "set")
    BY <1>1, AnswerInStep
  <2>. QED BY <1>1, <2>1, <2>2 DEF InStep, Plain
<1>3. CASE LoginFails /\ UNCHANGED <<toServer, send>>
  BY <1>1, <1>2, <1>3, LoginFailsKeeps
<1>4. CASE BuildAuthMessage /\ op' = "auth" /\ UNCHANGED <<caller, failure, stream>>
  <2>. DEFINE m == [cmd |-> "auth", arg |-> IF tls = "on" THEN "no_keys" ELSE "keys", size |-> 1, pos |-> Clear]
  <2>1. m \in Questions /\ Fit(m) /\ toServer' = Append(toServer, m) /\ UNCHANGED send
    BY <1>4 DEF BuildAuthMessage, SendRaw, Questions, Plain, Clear, Fit, LoginTypeOK
  <2>2. m.cmd = "auth"
    OBVIOUS
  <2>. HIDE DEF m
  <2>3. /\ toServer' \in Seq(Questions)
        /\ srv # "closed" => Len(toServer') = 1 /\ toServer'[1] = m
    BY <1>2, <2>1, AskFacts DEF InStep
  <2>4. LoginTypeOK'
    BY <1>1, <1>2, <1>4, <2>1, <2>3 DEF LoginTypeOK, InStep, Ops
  <2>5. Deciphered' /\ ShapeInv' /\ NoSessionLeft'
    BY <1>1, <1>2, <1>4, <2>3 DEF Deciphered, ShapeInv, InStep, NoSessionLeft
  <2>6. AskInv' /\ PhaseInv'
    BY <1>1, <1>2, <1>4, <2>1, <2>2, <2>3 DEF AskInv, PhaseInv, Plain, Refresh, InStep
  <2>7. EncryptedIffNoTls'
    BY <1>2, <2>1, FitAppend DEF KeyInv, InStep
  <2>8. KeyInv' /\ PosInv'
    BY <1>1, <1>2, <1>4, <2>1, <2>7 DEF KeyInv, PosInv, InStep, Plain
  <2>9. SchemaInv'
    BY <1>1, <1>2, <1>4 DEF SchemaInv, InStep, Plain
  <2>. QED BY <2>4, <2>5, <2>6, <2>8, <2>9
<1>. QED BY <1>3, <1>4 DEF LoginAnswered

\* AuthAnswered keeps the invariant.
LEMMA AuthAnsweredKeeps == LoginInv /\ AuthAnswered => LoginInv'
<1>. SUFFICES ASSUME LoginInv, AuthAnswered PROVE LoginInv'
  OBVIOUS
<1>. USE DEF LoginInv
<1>1. /\ op = "auth" /\ schema' = Recorded(op, Answer) /\ toClient # <<>> /\ toClient' = Tail(toClient)
      /\ UNCHANGED <<tls, uri, user, lifecycle, logins, ops, garbled, srv, srvSend, srvRecv, srvSchema, untold>>
  BY DEF AuthAnswered, RecordSchema, Recorded, Refresh, choices, server
<1>2. CASE Answer.kind = "exception"
  <2>1. Receive /\ LoginFails /\ UNCHANGED <<toServer, send>>
    BY <1>1, <1>2 DEF AuthAnswered, Receive, choices
  <2>2. InStep /\ (srv = "session" => untold # "set")
    BY <1>1, <1>2, <2>1, AnswerInStep
  <2>. QED BY <1>1, <2>1, <2>2, LoginFailsKeeps
<1>3. CASE Answer.kind # "exception"
  <2>. DEFINE m == [cmd |-> "get_attributes", arg |-> "none", size |-> 0, pos |-> Start]
  <2>1. m \in Questions /\ Fit(m) /\ toServer' = Append(toServer, m) /\ send' = Start /\ recv' = Start
    BY <1>3 DEF AuthAnswered, SetKeys, Start, Questions, Plain, Clear, Fit
  <2>2. m.cmd = "get_attributes" /\ m.pos = Start /\ m.size = 0
    OBVIOUS
  <2>. HIDE DEF m
  <2>3. op' = "attributes" /\ UNCHANGED <<caller, failure, stream>>
    BY <1>3 DEF AuthAnswered
  <2>4. /\ Answer = toClient[1] /\ Len(toClient) = 1 /\ Len(toClient') = 0 /\ toClient' \in Seq(Replies)
        /\ Answer \in Replies
    BY <1>1, AnswerFacts
  <2>5. /\ srv \notin Plain
        /\ srv = "session" => srvSend = Start /\ srvRecv = Start /\ schema = "empty" /\ srvSchema = "empty"
                              /\ untold = "no" /\ Len(toServer) = 0
    BY <1>1, <1>3, <2>4 DEF PhaseInv, SchemaInv, Plain, LoginTypeOK
  <2>6. Answer.schema = "absent" /\ schema' = schema
    BY <1>1, <2>4 DEF SchemaInv, Plain, Recorded, Refresh
  <2>7. /\ toServer' \in Seq(Questions)
        /\ srv # "closed" => Len(toServer') = 1 /\ toServer'[1] = m
    <3>1. srv # "closed" => srv = "session"
      BY <2>5 DEF LoginTypeOK, Plain
    <3>. QED BY <2>1, <2>5, <3>1, AskFacts
  <2>8. Start' = Start /\ Start \in Nat \cup {Clear} /\ (Start = Clear <=> tls = "on")
    BY <1>1 DEF Start, Clear
  <2>9. LoginTypeOK'
    BY <1>1, <2>1, <2>3, <2>4, <2>6, <2>7, <2>8 DEF LoginTypeOK, Ops
  <2>10. Deciphered' /\ ShapeInv' /\ NoSessionLeft'
    BY <1>1, <2>3, <2>4, <2>7 DEF Deciphered, ShapeInv, NoSessionLeft
  <2>11. AskInv' /\ PhaseInv'
    BY <1>1, <2>2, <2>3, <2>5, <2>7 DEF AskInv, PhaseInv, Plain, Refresh
  <2>12. EncryptedIffNoTls'
    BY <1>1, <2>1, FitAppend DEF KeyInv
  <2>13. KeyInv'
    BY <1>1, <2>1, <2>8, <2>12 DEF KeyInv
  <2>14. PosInv'
    <3>1. Adv(Start, 0) = Start
      BY <2>8 DEF Adv
    <3>2. srv' = "session" => Len(toServer') = 1 /\ toServer'[1] = m /\ srvRecv' = Start /\ srvSend' = Start
      BY <1>1, <2>5, <2>7
    <3>. QED BY <2>1, <2>2, <2>4, <3>1, <3>2 DEF PosInv
  <2>15. SchemaInv'
    <3>1. srv' = srv /\ srvSchema' = srvSchema /\ untold' = untold /\ op' \notin Plain /\ op' # "auth"
      BY <1>1, <2>3 DEF Plain
    <3>2. srv' = "session" => schema' = srvSchema' /\ untold' = "no"
      BY <2>5, <2>6, <3>1
    <3>. QED BY <2>4, <2>5, <3>1, <3>2 DEF SchemaInv
  <2>. QED BY <2>9, <2>10, <2>11, <2>13, <2>14, <2>15
<1>. QED BY <1>2, <1>3

\* AttributesAnswered keeps the invariant.
LEMMA AttributesAnsweredKeeps == LoginInv /\ AttributesAnswered => LoginInv'
<1>. SUFFICES ASSUME LoginInv, AttributesAnswered PROVE LoginInv'
  OBVIOUS
<1>1. /\ op = "attributes" /\ op \notin Plain \cup {"idle"} /\ Receive /\ schema' = Recorded(op, Answer)
      /\ UNCHANGED <<untold, logins, ops>>
  BY DEF AttributesAnswered, RecordSchema, ReadSchema, Recorded, Refresh, Plain
<1>2. InStep /\ caller \in {"connecting", "open"} /\ (srv = "session" => untold # "set")
  BY <1>1, AnswerInStep
<1>3. CASE Answer.kind = "exception"
  BY <1>1, <1>2, <1>3, LoginFailsKeeps DEF AttributesAnswered
<1>4. CASE Answer.kind # "exception"
  <2>1. lifecycle' = "Authenticated" /\ NextSetup("login") /\ UNCHANGED <<failure, stream>>
    BY <1>4 DEF AttributesAnswered
  <2>. QED BY <1>1, <1>2, <2>1, NextSetupKeeps
<1>. QED BY <1>3, <1>4

\* TimeoutAnswered keeps the invariant.
LEMMA TimeoutAnsweredKeeps == LoginInv /\ TimeoutAnswered => LoginInv'
<1>. SUFFICES ASSUME LoginInv, TimeoutAnswered PROVE LoginInv'
  OBVIOUS
<1>1. /\ op = "timeout" /\ op \notin Plain \cup {"idle"} /\ Receive /\ schema' = Recorded(op, Answer)
      /\ UNCHANGED <<untold, lifecycle, logins, ops>>
  BY DEF TimeoutAnswered, RecordSchema, Recorded, Refresh, Plain, bounds
<1>2. InStep /\ caller \in {"connecting", "open"} /\ (srv = "session" => untold # "set")
  BY <1>1, AnswerInStep
<1>3. CASE Answer.kind = "exception"
  <2>1. /\ caller' = "failed" /\ failure' = "timeout" /\ stream' = "none" /\ op' = "idle"
        /\ UNCHANGED <<toServer, send>>
    BY <1>3 DEF TimeoutAnswered
  <2>2. Local
    BY <1>1, <2>1 DEF Local, LoginInv, LoginTypeOK
  <2>. QED BY <1>1, <1>2, <2>1, <2>2, RestKeeps
<1>4. CASE Answer.kind # "exception"
  <2>1. NextSetup("timeout") /\ UNCHANGED <<failure, stream>>
    BY <1>4 DEF TimeoutAnswered
  <2>. QED BY <1>1, <1>2, <2>1, NextSetupKeeps
<1>. QED BY <1>3, <1>4

\* SchemaAnswered keeps the invariant.
LEMMA SchemaAnsweredKeeps == LoginInv /\ SchemaAnswered => LoginInv'
<1>. SUFFICES ASSUME LoginInv, SchemaAnswered PROVE LoginInv'
  OBVIOUS
<1>1. /\ op = "schema" /\ op \notin Plain \cup {"idle"} /\ Receive /\ schema' = Recorded(op, Answer)
      /\ UNCHANGED <<untold, lifecycle, stream, logins, ops>>
  BY DEF SchemaAnswered, RecordSchema, Recorded, Refresh, Plain, bounds
<1>2. /\ InStep /\ caller \in {"connecting", "open"}
      /\ (srv = "session" /\ untold = "set") => Answer.kind = "done"
  BY <1>1, AnswerInStep
<1>3. CASE Answer.kind = "exception"
  <2>1. SchemaFails
    BY <1>3 DEF SchemaAnswered
  <2>2. srv = "session" => untold' # "set"
    BY <1>1, <1>2, <1>3
  <2>3. untold \in {"no", "set", "failed", "elsewhere"}
    BY DEF LoginInv, LoginTypeOK
  <2>. QED BY <1>1, <1>2, <2>1, <2>2, <2>3, SchemaFailsKeeps
<1>4. CASE Answer.kind # "exception"
  <2>1. SendMessage("get_attributes", "none", 0) /\ op' = "schema_refresh" /\ UNCHANGED <<caller, failure>>
    BY <1>4 DEF SchemaAnswered
  <2>2. Local
    BY <1>1, <1>2, <2>1 DEF Local, LoginInv, LoginTypeOK
  <2>3. Asks("schema_refresh", "get_attributes")
    BY DEF Asks, Refresh
  <2>. QED BY <1>1, <1>2, <2>1, <2>2, <2>3, AskKeeps
<1>. QED BY <1>3, <1>4

\* RefreshAnswered keeps the invariant.
LEMMA RefreshAnsweredKeeps == LoginInv /\ RefreshAnswered => LoginInv'
<1>. SUFFICES ASSUME LoginInv, RefreshAnswered PROVE LoginInv'
  OBVIOUS
<1>1. /\ op \in {"schema_refresh", "refresh"} /\ op \notin Plain \cup {"idle"} /\ op # "auth" /\ op # "execute"
      /\ op # "disconnect" /\ Receive /\ schema' = Recorded(op, Answer)
      /\ UNCHANGED <<lifecycle, stream, logins, ops>>
  BY DEF RefreshAnswered, RecordSchema, ReadSchema, Recorded, Refresh, Plain, bounds
<1>2. /\ InStep /\ caller \in {"connecting", "open"}
      /\ (srv = "session" /\ untold = "set") => op = "schema_refresh" /\ Answer.kind = "exception"
  BY <1>1, AnswerInStep
<1>3. srv \notin Plain
  BY <1>1 DEF LoginInv, PhaseInv
<1>4. CASE Answer.kind = "exception"
  <2>1. untold' = IF untold = "set" THEN "failed" ELSE untold
    BY <1>4 DEF RefreshAnswered
  <2>2. untold' \in {"no", "failed", "elsewhere"} /\ (untold' = "no" => untold = "no")
    BY <2>1 DEF LoginInv, LoginTypeOK
  <2>3. CASE op = "schema_refresh"
    BY <1>1, <1>2, <1>3, <1>4, <2>2, <2>3, SchemaFailsKeeps DEF RefreshAnswered
  <2>4. CASE op # "schema_refresh"
    <3>1. op' = "idle" /\ UNCHANGED <<caller, failure, toServer, send>>
      BY <1>4, <2>4 DEF RefreshAnswered
    <3>2. Local
      BY <1>1, <1>2, <1>3, <2>2, <3>1 DEF Local, LoginInv, LoginTypeOK
    <3>. QED BY <1>2, <2>2, <3>1, <3>2, RestKeeps
  <2>. QED BY <2>3, <2>4
<1>5. CASE Answer.kind # "exception"
  <2>1. /\ op' = "idle" /\ caller' = (IF caller = "connecting" THEN "open" ELSE caller)
        /\ UNCHANGED <<failure, toServer, send, untold>>
    BY <1>5 DEF RefreshAnswered
  <2>2. Local
    BY <1>1, <1>2, <2>1 DEF Local, LoginInv, LoginTypeOK
  <2>. QED BY <1>2, <1>5, <2>1, <2>2, RestKeeps
<1>. QED BY <1>4, <1>5

\* Request keeps the invariant.
LEMMA RequestKeeps == LoginInv /\ Request => LoginInv'
<1>. SUFFICES ASSUME LoginInv, Request PROVE LoginInv'
  OBVIOUS
<1>1. /\ op = "idle" /\ lifecycle = "Authenticated" /\ caller = "open" /\ ops' = ops + 1
      /\ UNCHANGED <<tls, uri, user, caller, failure, lifecycle, stream, recv, schema, logins, garbled, toClient,
                     srv, srvSend, srvRecv, srvSchema, untold>>
  BY DEF Request, choices, server
<1>2. InStep /\ (srv = "session" => untold # "set")
  BY <1>1, IdleInStep
<1>3. Local
  BY <1>1 DEF Local, LoginInv, LoginTypeOK
<1>4. CASE SendMessage("execute", "none", 1) /\ op' = "execute"
  BY <1>1, <1>2, <1>3, <1>4, AskKeeps DEF Asks
<1>5. ASSUME NEW name \in Names, SendMessage("set_schema", name, 1), op' = "schema"
      PROVE  LoginInv'
  BY <1>1, <1>2, <1>3, <1>5, AskKeeps DEF Asks
<1>6. CASE SendMessage("get_attributes", "none", 0) /\ op' = "refresh"
  BY <1>1, <1>2, <1>3, <1>6, AskKeeps DEF Asks, Refresh
<1>. QED BY <1>4, <1>5, <1>6 DEF Request

\* ExecuteAnswered keeps the invariant.
LEMMA ExecuteAnsweredKeeps == LoginInv /\ ExecuteAnswered => LoginInv'
<1>. SUFFICES ASSUME LoginInv, ExecuteAnswered PROVE LoginInv'
  OBVIOUS
<1>. USE DEF LoginInv
<1>1. /\ op = "execute" /\ toClient # <<>> /\ toClient' = Tail(toClient) /\ recv' = Adv(recv, Answer.size)
      /\ schema' = (IF Answer.schema = "absent" THEN schema ELSE Answer.schema)
      /\ op' = (IF Answer.kind = "still_executing" THEN "execute" ELSE "idle")
      /\ UNCHANGED <<tls, uri, user, garbled, srv, srvSend, srvRecv, srvSchema, untold, caller, failure, lifecycle,
                     stream, send, logins, ops, toServer>>
  BY DEF ExecuteAnswered, Receive, RecordSchema, choices, bounds, Adv
<1>2. /\ Answer \in Replies /\ Answer = toClient[1]
      /\ Len(toClient) \in {1, 2} /\ Len(toClient') = Len(toClient) - 1 /\ toClient' \in Seq(Replies)
      /\ Len(toClient) = 2 => toClient'[1] = toClient[2]
  BY <1>1, AnswerFacts
<1>3. /\ Answer.size \in {0, 1} /\ Answer.schema \in Schemas \cup {"absent", "empty"}
      /\ Answer.kind \in {"done", "exception", "still_executing"}
  BY <1>2 DEF Replies
<1>4. Len(toServer) \in Nat /\ caller \in {"connecting", "open"} /\ srv \notin Plain
  BY <1>1, EmptyFacts DEF LoginTypeOK, ShapeInv, PhaseInv, Plain
<1>5. LoginTypeOK'
  <2>1. recv' \in Nat \cup {Clear} /\ schema' \in Schemas \cup {"empty"} /\ op' \in Ops
    BY <1>1, <1>3 DEF LoginTypeOK, Adv, Clear, Ops
  <2>. QED BY <1>1, <1>2, <2>1 DEF LoginTypeOK
<1>6. EncryptedIffNoTls'
  BY <1>1, FitRest DEF KeyInv
<1>7. /\ Len(toClient) = 2 => Answer.kind = "still_executing"
      /\ srv # "closed" =>
            \/ Len(toClient) = 1 /\ Len(toServer) = 1 /\ Answer.kind = "still_executing"
            \/ Len(toClient) = 1 /\ Len(toServer) = 0 /\ Answer.kind # "still_executing"
            \/ Len(toClient) = 2 /\ Len(toServer) = 0 /\ toClient'[1].kind # "still_executing"
  BY <1>1, <1>2 DEF ShapeInv
<1>8. Deciphered' /\ ShapeInv' /\ AskInv'
  <2>1. Deciphered'
    BY <1>1, <1>2 DEF Deciphered
  <2>2. ShapeInv'
    BY <1>1, <1>2, <1>3, <1>4, <1>7 DEF ShapeInv
  <2>3. AskInv'
    BY <1>1, <1>2, <1>4, <1>7 DEF AskInv, Plain, Refresh
  <2>. QED BY <2>1, <2>2, <2>3
<1>9. PhaseInv' /\ KeyInv' /\ NoSessionLeft'
  BY <1>1, <1>4, <1>6 DEF PhaseInv, KeyInv, NoSessionLeft, Plain
<1>10. PosInv'
  BY <1>1, <1>2, <1>7 DEF PosInv, Plain
<1>11. SchemaInv'
  <2>1. (srv = "session" /\ Answer.kind = "still_executing") => schema' = schema
    BY <1>1, <1>2 DEF SchemaInv
  <2>2. (srv = "session" /\ untold = "no") =>
          /\ Len(toClient) = 1 => schema' = srvSchema
          /\ Len(toClient) = 2 => (IF toClient[2].schema # "absent" THEN toClient[2].schema ELSE schema) = srvSchema
    BY <1>1, <1>2, <1>4 DEF SchemaInv, Recorded, Plain, Refresh
  <2>3. srv = "session" => untold # "set"
    BY <1>1 DEF SchemaInv, Plain
  <2>. QED BY <1>1, <1>2, <1>3, <1>4, <1>7, <2>1, <2>3 DEF SchemaInv, Recorded, Plain, Refresh
<1>. QED BY <1>5, <1>8, <1>9, <1>10, <1>11

\* release_connection keeps the invariant.
LEMMA ReleaseKeeps ==
  ASSUME LoginInv, ReleaseConnection, lifecycle' = "Closed", op' = "idle", caller' \in {"failed", "closed"},
         caller' = "failed" => srv = "closed", op = "idle" \/ srv = "closed",
         UNCHANGED <<tls, uri, user, failure, send, recv, logins, ops, garbled, srv, srvSend, srvRecv,
                     srvSchema, untold>>
  PROVE  LoginInv'
<1>. USE DEF LoginInv
<1>1. /\ stream' = "none" /\ schema' = "empty" /\ toServer' = <<>>
      /\ toServer' \in Seq(Questions) /\ toClient' \in Seq(Replies) /\ Len(toServer') = 0 /\ Len(toClient') = 0
  BY EmptyFacts DEF ReleaseConnection
<1>2. LoginTypeOK'
  BY <1>1 DEF LoginTypeOK, Ops
<1>3. Deciphered' /\ ShapeInv' /\ AskInv' /\ NoSessionLeft'
  BY <1>1 DEF Deciphered, ShapeInv, AskInv, NoSessionLeft
<1>4. PhaseInv'
  BY <1>1 DEF PhaseInv, Plain
<1>5. EncryptedIffNoTls'
  BY <1>1, FitRest DEF KeyInv
<1>6. KeyInv'
  BY <1>1, <1>5 DEF KeyInv
<1>7. PosInv'
  <2>1. (srv = "session") => send = srvRecv /\ srvSend = recv
    BY DEF PosInv, ShapeInv, Plain
  <2>. QED BY <1>1, <2>1 DEF PosInv
<1>8. SchemaInv'
  <2>1. /\ srv = "session" => untold # "set"
        /\ srv \in Plain => srvSchema = "empty" /\ untold = "no"
    BY DEF SchemaInv, Plain
  <2>. QED BY <1>1, <2>1 DEF SchemaInv, Plain
<1>. QED BY <1>2, <1>3, <1>4, <1>6, <1>7, <1>8

\* BeginClose keeps the invariant.
LEMMA BeginCloseKeeps == LoginInv /\ BeginClose => LoginInv'
<1>. SUFFICES ASSUME LoginInv, BeginClose PROVE LoginInv'
  OBVIOUS
<1>1. op = "idle" /\ UNCHANGED <<tls, uri, user, failure, recv, logins, ops, garbled, srv, srvSend, srvRecv,
                                srvSchema, untold>>
  BY DEF BeginClose, choices, bounds, server
<1>2. CASE lifecycle = "Authenticated"
  <2>1. /\ caller = "open" /\ SendMessage("disconnect", "none", 0) /\ op' = "disconnect"
        /\ UNCHANGED <<caller, lifecycle, stream, schema, toClient>>
    BY <1>2 DEF BeginClose
  <2>2. InStep /\ (srv = "session" => untold # "set")
    BY <1>1, <2>1, IdleInStep
  <2>3. Local
    BY <1>1, <2>1 DEF Local, LoginInv, LoginTypeOK
  <2>. QED BY <1>1, <1>2, <2>1, <2>2, <2>3, AskKeeps DEF Asks
<1>3. CASE lifecycle # "Authenticated"
  <2>1. ReleaseConnection /\ lifecycle' = "Closed" /\ caller' = "closed" /\ UNCHANGED <<send, op>>
    BY <1>3 DEF BeginClose
  <2>. QED BY <1>1, <2>1, ReleaseKeeps
<1>. QED BY <1>2, <1>3

\* DisconnectAnswered and DisconnectFails keep the invariant.
LEMMA CloseKeeps == LoginInv /\ (DisconnectAnswered \/ DisconnectFails) => LoginInv'
<1>. SUFFICES ASSUME LoginInv, DisconnectAnswered \/ DisconnectFails PROVE LoginInv'
  OBVIOUS
<1>1. /\ op = "disconnect" /\ ReleaseConnection /\ lifecycle' = "Closed" /\ op' = "idle"
      /\ caller' = (IF failure = "schema" THEN "failed" ELSE "closed")
      /\ UNCHANGED <<tls, uri, user, failure, send, recv, logins, ops, garbled, srv, srvSend, srvRecv,
                     srvSchema, untold>>
  BY DEF DisconnectAnswered, DisconnectFails, CloseEnds, choices, bounds, server
<1>2. srv = "closed"
  <2>1. CASE DisconnectAnswered
    <3>1. Len(toClient) # 0
      BY <2>1, EmptyFacts DEF DisconnectAnswered, LoginInv, LoginTypeOK
    <3>. QED BY <1>1, <3>1 DEF LoginInv, ShapeInv
  <2>2. CASE DisconnectFails
    BY <2>2 DEF DisconnectFails
  <2>. QED BY <2>1, <2>2
<1>. QED BY <1>1, <1>2, ReleaseKeeps

\* ReadFails keeps the invariant: it is the connection that is gone.
LEMMA ReadFailsKeeps == LoginInv /\ ReadFails => LoginInv'
<1>. SUFFICES ASSUME LoginInv, ReadFails PROVE LoginInv'
  OBVIOUS
<1>1. /\ op # "idle" /\ op # "disconnect"
      /\ UNCHANGED <<tls, uri, user, lifecycle, recv, schema, logins, ops, srv, srvSend, srvRecv, srvSchema, untold>>
  BY DEF ReadFails, choices, server
<1>2. toClient = <<>>
  <2>1. SUFFICES ASSUME toClient # <<>> PROVE FALSE
    OBVIOUS
  <2>2. toClient' = Tail(toClient) /\ ~ReadableAnswer
    BY <2>1 DEF ReadFails
  <2>. QED BY <2>1, <2>2, AnswerFacts
<1>3. srv = "closed" /\ UNCHANGED <<garbled, toClient>>
  BY <1>2 DEF ReadFails
<1>4. Len(toClient') = 0 /\ toClient' \in Seq(Replies)
  BY <1>2, <1>3, EmptyFacts
<1>5. InStep
  BY <1>1, <1>3, <1>4 DEF InStep, LoginInv, LoginTypeOK, Plain
<1>6. caller \in {"connecting", "open"}
  BY <1>1 DEF LoginInv, LoginTypeOK, ShapeInv
<1>7. CASE op \in {"login", "auth", "attributes"}
  <2>1. LoginFails /\ UNCHANGED <<toServer, send>>
    BY <1>7 DEF ReadFails
  <2>. QED BY <1>1, <1>3, <1>5, <2>1, LoginFailsKeeps
<1>8. CASE op = "timeout"
  <2>1. /\ caller' = "failed" /\ failure' = "timeout" /\ stream' = "none" /\ op' = "idle"
        /\ UNCHANGED <<toServer, send>>
    BY <1>8 DEF ReadFails
  <2>2. Local
    BY <1>1, <2>1 DEF Local, LoginInv, LoginTypeOK
  <2>. QED BY <1>3, <1>5, <2>1, <2>2, RestKeeps
<1>9. CASE op \in {"schema", "schema_refresh"}
  <2>1. SchemaFails /\ UNCHANGED stream /\ op \notin Plain \cup {"idle"}
    BY <1>9 DEF ReadFails, Plain
  <2>2. untold \in {"no", "set", "failed", "elsewhere"}
    BY DEF LoginInv, LoginTypeOK
  <2>. QED BY <1>1, <1>3, <1>5, <1>6, <2>1, <2>2, SchemaFailsKeeps
<1>10. CASE op \in {"refresh", "execute"}
  <2>1. op' = "idle" /\ UNCHANGED <<caller, failure, stream, toServer, send>>
    BY <1>10 DEF ReadFails
  <2>2. Local
    BY <1>1, <1>6, <2>1 DEF Local, LoginInv, LoginTypeOK
  <2>. QED BY <1>3, <1>5, <2>1, <2>2, RestKeeps
<1>. QED BY <1>1, <1>7, <1>8, <1>9, <1>10 DEF LoginInv, LoginTypeOK, Ops

-----------------------------------------------------------------------------
(* The steps of the server                                                 *)

\* What the server finds when it takes a question.
LEMMA AskedFacts ==
  ASSUME LoginInv, toServer # <<>>, srv # "closed"
  PROVE  /\ Asked \in Questions /\ Asked = toServer[1] /\ Len(toServer) = 1
         /\ Tail(toServer) \in Seq(Questions) /\ Len(Tail(toServer)) = 0
         /\ op # "idle" /\ op \in Ops /\ caller \in {"connecting", "open"}
         /\ op # "execute" => Len(toClient) = 0
         /\ op = "execute" => \/ Len(toClient) = 0
                              \/ Len(toClient) = 1 /\ toClient[1].kind = "still_executing"
<1>. USE DEF LoginInv
<1>1. toServer \in Seq(Questions) /\ op \in Ops /\ caller \in {"connecting", "open", "failed", "closed"}
  BY DEF LoginTypeOK
<1>2. /\ Asked \in Questions /\ Asked = toServer[1] /\ Tail(toServer) \in Seq(Questions)
      /\ Len(toServer) \in Nat /\ Len(toServer) >= 1 /\ Len(Tail(toServer)) = Len(toServer) - 1
  BY <1>1, TailFacts DEF Asked
<1>3. Len(toClient) \in Nat
  BY EmptyFacts DEF LoginTypeOK
<1>. QED BY <1>1, <1>2, <1>3 DEF ShapeInv

\* ServerLogin keeps the invariant.
LEMMA ServerLoginKeeps == LoginInv /\ ServerLogin => LoginInv'
<1>. SUFFICES ASSUME LoginInv, ServerLogin PROVE LoginInv'
  OBVIOUS
<1>. USE DEF LoginInv
<1>1. PICK kind \in {"done", "exception"}, size \in {0, 1} :
        /\ toClient' = Append(toClient, [kind |-> kind, schema |-> "absent", size |-> size, pos |-> Clear])
        /\ srv' = (CASE kind = "exception" -> "login" [] Asked.cmd = "login" -> "auth" [] OTHER -> "session")
        /\ srvSend' = (IF srv' = "session" /\ Asked.arg = "keys" THEN 0 ELSE srvSend)
        /\ srvRecv' = srvSend'
  BY DEF ServerLogin
<1>2. /\ srv \in Plain /\ srv # "closed" /\ toServer # <<>> /\ toServer' = Tail(toServer)
      /\ UNCHANGED <<tls, uri, user, caller, failure, lifecycle, stream, op, send, recv, schema, logins, ops, garbled,
                     srvSchema, untold>>
  BY DEF ServerLogin, Consume, Plain, choices, ciphers, bounds
<1>3. /\ Asked \in Questions /\ Asked = toServer[1] /\ Len(toServer) = 1
      /\ toServer' \in Seq(Questions) /\ Len(toServer') = 0 /\ op # "idle"
      /\ op # "execute" => Len(toClient) = 0
  BY <1>2, AskedFacts
<1>4. op \in Plain /\ Asked.cmd = op /\ Len(toClient) = 0 /\ recv = Clear /\ srvSend = Clear /\ send = Clear
  BY <1>2, <1>3 DEF PhaseInv, AskInv, Plain
<1>. DEFINE a == [kind |-> kind, schema |-> "absent", size |-> size, pos |-> Clear]
<1>5. a \in Replies /\ a.pos = Clear /\ a.schema = "absent" /\ a.kind = kind
  BY DEF Replies, Clear
<1>. HIDE DEF a
<1>6. toClient' \in Seq(Replies) /\ Len(toClient') = 1 /\ toClient'[1] = a
  <2>1. toClient \in Seq(Replies) /\ toClient' = Append(toClient, a)
    BY <1>1 DEF LoginTypeOK, a
  <2>. QED BY <1>4, <1>5, <2>1, AppendFacts
<1>7. Asked.cmd = "auth" => (Asked.arg = "keys" <=> tls = "off")
  <2>1. 1 \in DOMAIN toServer
    BY <1>3, EmptyFacts DEF LoginTypeOK
  <2>. QED BY <1>3, <2>1 DEF KeyInv, EncryptedIffNoTls
<1>8. srv' \in {"login", "auth", "session"} /\ (srv' = "session" <=> (kind # "exception" /\ op = "auth"))
  BY <1>1, <1>4 DEF Plain
<1>9. srvSend' = (IF srv' = "session" THEN Start ELSE Clear) /\ srvRecv' = srvSend' /\ Start' = Start
  BY <1>1, <1>2, <1>4, <1>7, <1>8 DEF Start, LoginTypeOK
<1>10. LoginTypeOK'
  <2>1. srvSend' \in Nat \cup {Clear} /\ srvRecv' \in Nat \cup {Clear}
    BY <1>9 DEF Start
  <2>. QED BY <1>2, <1>3, <1>6, <1>8, <2>1 DEF LoginTypeOK
<1>11. Deciphered' /\ ShapeInv' /\ AskInv' /\ NoSessionLeft'
  BY <1>2, <1>3, <1>4, <1>6 DEF Deciphered, ShapeInv, AskInv, NoSessionLeft, Plain
<1>12. PhaseInv'
  BY <1>2, <1>3, <1>4, <1>5, <1>6, <1>8, <1>9 DEF PhaseInv, Plain
<1>13. EncryptedIffNoTls'
  BY <1>2, FitTail DEF KeyInv
<1>14. KeyInv'
  BY <1>2, <1>4, <1>13 DEF KeyInv, PhaseInv, Plain
<1>15. PosInv'
  BY <1>2, <1>4, <1>5, <1>6 DEF PosInv
<1>16. SchemaInv'
  BY <1>2, <1>4, <1>5, <1>6 DEF SchemaInv, Plain
<1>. QED BY <1>10, <1>11, <1>12, <1>14, <1>15, <1>16

\* Before its answer to a question of the session the server knows what the client knows.
LEMMA KnownSchema ==
  ASSUME LoginInv, srv = "session", toServer # <<>>, op \notin Plain
  PROVE  /\ untold = "no" => schema = srvSchema
         /\ untold = "set" => op = "schema_refresh"
<1>1. /\ Len(toServer) = 1 /\ caller \in {"connecting", "open"}
      /\ op # "execute" => Len(toClient) = 0
      /\ op = "execute" => \/ Len(toClient) = 0
                           \/ Len(toClient) = 1 /\ toClient[1].kind = "still_executing"
  BY AskedFacts
<1>. QED BY <1>1 DEF LoginInv, SchemaInv, Recorded, Refresh

\* An answer to a question of the session keeps the invariant when it tells the schema
\* as it is, or leaves it untold.
LEMMA ReplyKeeps ==
  ASSUME LoginInv, srv = "session", toServer # <<>>, op \notin Plain,
         Consume, UNCHANGED garbled, srvRecv' = Adv(srvRecv, Asked.size),
         srv' = IF op = "disconnect" THEN "closed" ELSE srv,
         NEW kind \in {"done", "exception"}, NEW attribute \in Schemas \cup {"absent", "empty"}, NEW size \in {0, 1},
         Reply(kind, attribute, size),
         srvSchema' \in Schemas \cup {"empty"}, untold' \in {"no", "set", "failed", "elsewhere"},
         untold' = "no" => srvSchema' = IF attribute # "absent" THEN attribute
                                        ELSE IF op \in Refresh /\ kind # "exception" THEN "empty" ELSE schema,
         untold' = "set" => (op = "schema" /\ kind = "done") \/ (op = "schema_refresh" /\ kind = "exception")
  PROVE  LoginInv'
<1>. USE DEF LoginInv
<1>. DEFINE a == [kind |-> kind, schema |-> attribute, size |-> size, pos |-> srvSend]
<1>1. /\ toServer' = Tail(toServer)
      /\ UNCHANGED <<tls, uri, user, caller, failure, lifecycle, stream, op, send, recv, schema, logins, ops, garbled>>
  BY DEF Consume, choices, ciphers, bounds
<1>2. /\ Asked \in Questions /\ Asked = toServer[1] /\ Len(toServer) = 1
      /\ toServer' \in Seq(Questions) /\ Len(toServer') = 0 /\ op # "idle" /\ caller \in {"connecting", "open"}
      /\ op # "execute" => Len(toClient) = 0
      /\ op = "execute" => \/ Len(toClient) = 0
                           \/ Len(toClient) = 1 /\ toClient[1].kind = "still_executing"
  BY <1>1, AskedFacts
<1>3. /\ srvSend \in Nat \cup {Clear} /\ srvRecv \in Nat \cup {Clear} /\ Asked.size \in {0, 1}
      /\ toClient \in Seq(Replies)
  BY <1>2 DEF LoginTypeOK, Questions
<1>4. a \in Replies /\ a.kind = kind /\ a.schema = attribute /\ a.size = size /\ a.pos = srvSend
  BY <1>3 DEF Replies, Clear
<1>5. toClient' = Append(toClient, a) /\ srvSend' = Adv(srvSend, size)
  BY DEF Reply, Adv
<1>. HIDE DEF a
<1>6. /\ toClient' \in Seq(Replies) /\ Len(toClient') = Len(toClient) + 1
      /\ Len(toClient) = 0 => toClient'[1] = a
      /\ Len(toClient) = 1 => toClient'[1] = toClient[1] /\ toClient'[2] = a
  BY <1>3, <1>4, <1>5, AppendFacts
<1>7. srvSend' \in Nat \cup {Clear} /\ srvRecv' \in Nat \cup {Clear}
  BY <1>3, <1>5 DEF Adv, Clear
<1>8. LoginTypeOK'
  BY <1>1, <1>2, <1>6, <1>7 DEF LoginTypeOK
<1>9. Deciphered' /\ AskInv' /\ NoSessionLeft'
  BY <1>1, <1>2 DEF Deciphered, AskInv, NoSessionLeft
<1>10. ShapeInv'
  BY <1>1, <1>2, <1>4, <1>6 DEF ShapeInv
<1>11. PhaseInv'
  BY <1>1, <1>2 DEF PhaseInv, Plain
<1>12. EncryptedIffNoTls'
  BY <1>1, FitTail DEF KeyInv
<1>13. KeyInv'
  BY <1>1, <1>12 DEF KeyInv
<1>14. PosInv'
  <2>1. send = srvRecv'
    BY <1>2 DEF PosInv
  <2>2. CASE Len(toClient) = 0
    BY <1>1, <1>2, <1>4, <1>5, <1>6, <2>1, <2>2 DEF PosInv
  <2>3. CASE Len(toClient) = 1
    BY <1>1, <1>2, <1>4, <1>5, <1>6, <2>1, <2>3 DEF PosInv
  <2>. QED BY <1>2, <2>2, <2>3
<1>15. SchemaInv'
  <2>1. op' \notin Plain /\ srv' \notin Plain
    BY <1>1 DEF Plain
  <2>2. srv' # "session" => SchemaInv'
    BY <2>1 DEF SchemaInv
  <2>3. CASE Len(toClient) = 0
    <3>1. Len(toClient') = 1 /\ toClient'[1].schema = attribute /\ toClient'[1].kind = kind
      BY <1>4, <1>6, <2>3
    <3>2. untold' = "no" => Recorded(op, toClient[1])' = srvSchema'
      BY <1>1, <3>1 DEF Recorded
    <3>3. untold' = "set" => \/ op' = "schema" /\ Len(toServer') = 0 /\ toClient'[1].kind = "done"
                             \/ op' = "schema_refresh" /\ (Len(toClient') = 1 => toClient'[1].kind = "exception")
      BY <1>1, <1>2, <3>1
    <3>. QED BY <2>1, <2>2, <3>1, <3>2, <3>3 DEF SchemaInv, Plain
  <2>4. CASE Len(toClient) = 1
    <3>1. /\ Len(toClient') = 2 /\ toClient'[2].schema = attribute /\ toClient'[2].kind = kind
          /\ toClient'[1] = toClient[1]
      BY <1>4, <1>6, <2>4
    <3>2. op = "execute" /\ op \notin {"schema", "schema_refresh"}
      BY <1>2, <2>4
    <3>. QED BY <1>1, <1>2, <2>1, <2>2, <2>4, <3>1, <3>2 DEF SchemaInv, Recorded
  <2>. QED BY <1>2, <2>3, <2>4
<1>. QED BY <1>8, <1>9, <1>10, <1>11, <1>13, <1>14, <1>15

\* ServerRequest keeps the invariant.
LEMMA ServerRequestKeeps == LoginInv /\ ServerRequest => LoginInv'
<1>. SUFFICES ASSUME LoginInv, ServerRequest PROVE LoginInv'
  OBVIOUS
<1>1. /\ srv = "session" /\ toServer # <<>> /\ Consume /\ UNCHANGED garbled
      /\ Asked.cmd \notin Plain /\ srvRecv' = Adv(srvRecv, Asked.size)
  BY DEF ServerRequest, Adv, Plain
<1>2. /\ Asked = toServer[1] /\ Len(toServer) = 1 /\ op # "idle" /\ op \in Ops
      /\ Asked \in Questions
  BY <1>1, AskedFacts
<1>3. /\ op \notin Plain
      /\ op \in Refresh => Asked.cmd = "get_attributes"
      /\ op = "timeout" => Asked.cmd = "set_timeout"
      /\ op = "schema" => Asked.cmd = "set_schema"
      /\ op \in {"execute", "disconnect"} => Asked.cmd = op
  BY <1>1, <1>2 DEF LoginInv, AskInv
<1>4. op \in Refresh \/ op \in {"timeout", "schema", "execute", "disconnect"}
  BY <1>2, <1>3 DEF Ops, Plain, Refresh
<1>5. srv' = IF op = "disconnect" THEN "closed" ELSE srv
  BY <1>3, <1>4 DEF ServerRequest, Refresh
<1>6. /\ untold = "no" => schema = srvSchema
      /\ untold = "set" => op = "schema_refresh"
  BY <1>1, <1>3, KnownSchema
<1>7. /\ srvSchema \in Schemas \cup {"empty"} /\ untold \in {"no", "set", "failed", "elsewhere"}
      /\ "absent" \notin Schemas
  BY NativeLoginAssumption DEF LoginInv, LoginTypeOK
<1>8. CASE /\ Asked.cmd = "get_attributes"
           /\ Reply("done", IF srvSchema = "empty" THEN "absent" ELSE srvSchema, 1)
           /\ untold' = "no" /\ UNCHANGED srvSchema
  <2>. DEFINE attribute == IF srvSchema = "empty" THEN "absent" ELSE srvSchema
  <2>1. op \in Refresh
    BY <1>3, <1>4, <1>8
  <2>2. /\ attribute \in Schemas \cup {"absent", "empty"} /\ Reply("done", attribute, 1)
        /\ srvSchema' = IF attribute # "absent" THEN attribute ELSE "empty"
    BY <1>7, <1>8
  <2>. HIDE DEF attribute
  <2>. QED BY <1>1, <1>3, <1>5, <1>7, <1>8, <2>1, <2>2, ReplyKeeps
<1>9. CASE /\ Asked.cmd = "set_schema" /\ Opened(Asked.arg) # "none"
           /\ srvSchema' = Opened(Asked.arg) /\ untold' = "set"
           /\ Reply("done", "absent", 0)
  <2>1. op = "schema"
    BY <1>3, <1>4, <1>9
  <2>2. srvSchema' \in Schemas \cup {"empty"}
    BY <1>9 DEF Opened
  <2>. QED BY <1>1, <1>3, <1>5, <1>9, <2>1, <2>2, ReplyKeeps
<1>10. ASSUME NEW opened \in Schemas \cup {"empty"}, Asked.cmd = "execute", srvSchema' = opened,
              untold' = (IF opened = srvSchema THEN untold ELSE "no"),
              Reply("done", IF opened = srvSchema THEN "absent" ELSE opened, 1)
       PROVE  LoginInv'
  <2>. DEFINE attribute == IF opened = srvSchema THEN "absent" ELSE opened
  <2>1. op = "execute" /\ op \notin Refresh
    BY <1>3, <1>4, <1>10 DEF Refresh
  <2>2. /\ attribute \in Schemas \cup {"absent", "empty"} /\ Reply("done", attribute, 1)
        /\ untold' = "no" => srvSchema' = IF attribute # "absent" THEN attribute ELSE schema
        /\ untold' # "set" /\ untold' \in {"no", "set", "failed", "elsewhere"}
    BY <1>6, <1>7, <1>10, <2>1
  <2>. HIDE DEF attribute
  <2>. QED BY <1>1, <1>3, <1>5, <1>10, <2>1, <2>2, ReplyKeeps
<1>11. CASE /\ Asked.cmd \in {"set_timeout", "disconnect"}
            /\ Reply("done", "absent", 0) /\ UNCHANGED <<srvSchema, untold>>
  <2>1. op \notin Refresh /\ op # "schema_refresh"
    BY <1>3, <1>11 DEF Refresh
  <2>. QED BY <1>1, <1>3, <1>5, <1>6, <1>7, <1>11, <2>1, ReplyKeeps
<1>12. CASE Reply("exception", "absent", 1) /\ UNCHANGED <<srvSchema, untold>>
  BY <1>1, <1>3, <1>5, <1>6, <1>7, <1>12, ReplyKeeps
<1>. QED BY <1>8, <1>9, <1>10, <1>11, <1>12 DEF ServerRequest

\* ServerStillExecuting keeps the invariant.
LEMMA ServerStillExecutingKeeps == LoginInv /\ ServerStillExecuting => LoginInv'
<1>. SUFFICES ASSUME LoginInv, ServerStillExecuting PROVE LoginInv'
  OBVIOUS
<1>. USE DEF LoginInv
<1>. DEFINE a == [kind |-> "still_executing", schema |-> "absent", size |-> 1, pos |-> srvSend]
<1>1. /\ srv = "session" /\ toServer # <<>> /\ Asked.cmd = "execute" /\ toClient = <<>> /\ ops' = ops + 1
      /\ toClient' = Append(toClient, a) /\ srvSend' = Adv(srvSend, 1)
      /\ UNCHANGED <<tls, uri, user, caller, failure, lifecycle, stream, op, send, recv, schema, logins, garbled,
                     toServer, srv, srvRecv, srvSchema, untold>>
  BY DEF ServerStillExecuting, Reply, Adv, choices, ciphers
<1>2. /\ Asked = toServer[1] /\ Len(toServer) = 1 /\ op # "idle" /\ op \in Ops /\ caller \in {"connecting", "open"}
  BY <1>1, AskedFacts
<1>3. op = "execute"
  BY <1>1, <1>2 DEF AskInv, Ops, Plain, Refresh
<1>4. toClient \in Seq(Replies) /\ Len(toClient) = 0 /\ srvSend \in Nat \cup {Clear}
  BY <1>1, EmptyFacts DEF LoginTypeOK
<1>5. a \in Replies /\ a.kind = "still_executing" /\ a.schema = "absent" /\ a.size = 1 /\ a.pos = srvSend
  BY <1>4 DEF Replies, Clear
<1>. HIDE DEF a
<1>6. toClient' \in Seq(Replies) /\ Len(toClient') = 1 /\ toClient'[1] = a
  BY <1>1, <1>4, <1>5, AppendFacts
<1>7. srvSend' \in Nat \cup {Clear}
  BY <1>1, <1>4 DEF Adv, Clear
<1>8. LoginTypeOK'
  <2>1. ops' \in Nat
    BY <1>1 DEF LoginTypeOK
  <2>. QED BY <1>1, <1>6, <1>7, <2>1 DEF LoginTypeOK
<1>9. Deciphered' /\ NoSessionLeft' /\ AskInv'
  BY <1>1, <1>2, <1>3 DEF Deciphered, NoSessionLeft, AskInv, Plain, Refresh
<1>10. ShapeInv'
  BY <1>1, <1>2, <1>3, <1>5, <1>6 DEF ShapeInv
<1>11. PhaseInv'
  BY <1>1, <1>3 DEF PhaseInv, Plain
<1>12. EncryptedIffNoTls'
  BY <1>1, FitRest DEF KeyInv
<1>13. KeyInv'
  BY <1>1, <1>12 DEF KeyInv
<1>14. PosInv'
  BY <1>1, <1>2, <1>3, <1>4, <1>5, <1>6 DEF PosInv, Plain
<1>15. SchemaInv'
  <2>1. (untold = "no" => schema = srvSchema) /\ untold # "set"
    BY <1>1, <1>3, KnownSchema DEF Plain
  <2>. QED BY <1>1, <1>3, <1>5, <1>6, <2>1 DEF SchemaInv, Recorded, Plain, Refresh
<1>. QED BY <1>8, <1>9, <1>10, <1>11, <1>13, <1>14, <1>15

\* A step that ends the connection on the side of the server keeps the invariant.
LEMMA GoneKeeps ==
  ASSUME LoginInv, srv' = "closed", toServer' \in Seq(Questions), EncryptedIffNoTls',
         UNCHANGED <<tls, uri, user, caller, failure, lifecycle, stream, op, send, recv, schema, logins, ops, garbled,
                     toClient, srvSend, srvRecv, srvSchema, untold>>
  PROVE  LoginInv'
<1>. USE DEF LoginInv
<1>1. LoginTypeOK'
  BY DEF LoginTypeOK
<1>2. Deciphered' /\ ShapeInv' /\ AskInv' /\ NoSessionLeft'
  BY DEF Deciphered, ShapeInv, AskInv, NoSessionLeft
<1>3. PhaseInv' /\ KeyInv'
  BY DEF PhaseInv, KeyInv, Plain
<1>4. PosInv' /\ SchemaInv'
  BY DEF PosInv, SchemaInv, Plain
<1>. QED BY <1>1, <1>2, <1>3, <1>4

\* ServerRejectsGarbage keeps the invariant: what the server rejects is a login that is
\* tried again in a session, never a request.
LEMMA ServerRejectsKeeps == LoginInv /\ ServerRejectsGarbage => LoginInv'
<1>. SUFFICES ASSUME LoginInv, ServerRejectsGarbage PROVE LoginInv'
  OBVIOUS
<1>1. /\ srv = "session" /\ srv' = "closed" /\ toServer # <<>> /\ toServer' = Tail(toServer)
      /\ UNCHANGED <<tls, uri, user, caller, failure, lifecycle, stream, op, send, recv, schema, logins, ops,
                     toClient, srvSend, srvRecv, srvSchema, untold>>
  BY DEF ServerRejectsGarbage, Consume, choices, ciphers, bounds
<1>2. Asked = toServer[1] /\ Len(toServer) = 1 /\ toServer' \in Seq(Questions)
  BY <1>1, AskedFacts
<1>3. Asked.cmd \in Plain
  <2>1. op \notin Plain => Asked.pos = srvRecv
    BY <1>1, <1>2 DEF LoginInv, PosInv
  <2>2. op \in Plain => Asked.cmd \in Plain
    BY <1>1, <1>2 DEF LoginInv, AskInv
  <2>. QED BY <2>1, <2>2 DEF ServerRejectsGarbage, Plain
<1>4. UNCHANGED garbled
  BY <1>3 DEF ServerRejectsGarbage, Plain
<1>5. EncryptedIffNoTls'
  BY <1>1, FitTail DEF LoginInv, KeyInv
<1>. QED BY <1>1, <1>2, <1>4, <1>5, GoneKeeps

\* PeerGone keeps the invariant.
LEMMA PeerGoneKeeps == LoginInv /\ PeerGone => LoginInv'
<1>. SUFFICES ASSUME LoginInv, PeerGone PROVE LoginInv'
  OBVIOUS
<1>1. /\ srv' = "closed" /\ toServer' = <<>>
      /\ UNCHANGED <<tls, uri, user, caller, failure, lifecycle, stream, op, send, recv, schema, logins, ops, garbled,
                     toClient, srvSend, srvRecv, srvSchema, untold>>
  BY DEF PeerGone, choices, ciphers, bounds
<1>2. toServer' \in Seq(Questions)
  BY <1>1, EmptyFacts
<1>3. EncryptedIffNoTls'
  BY <1>1, FitRest DEF LoginInv, KeyInv
<1>. QED BY <1>1, <1>2, <1>3, GoneKeeps

\* SchemaDroppedElsewhere keeps the invariant.
LEMMA SchemaDroppedKeeps == LoginInv /\ SchemaDroppedElsewhere => LoginInv'
<1>. SUFFICES ASSUME LoginInv, SchemaDroppedElsewhere PROVE LoginInv'
  OBVIOUS
<1>. USE DEF LoginInv
<1>1. /\ srv = "session" /\ srvSchema # "empty" /\ srvSchema' = "empty" /\ untold' = "elsewhere"
      /\ UNCHANGED <<tls, uri, user, caller, failure, lifecycle, stream, op, send, recv, schema, logins, ops, garbled,
                     toServer, toClient, srv, srvSend, srvRecv>>
  BY DEF SchemaDroppedElsewhere, choices, ciphers, bounds
<1>2. LoginTypeOK'
  BY <1>1 DEF LoginTypeOK
<1>3. Deciphered' /\ ShapeInv' /\ AskInv' /\ NoSessionLeft'
  BY <1>1 DEF Deciphered, ShapeInv, AskInv, NoSessionLeft
<1>4. PhaseInv' /\ PosInv'
  BY <1>1 DEF PhaseInv, PosInv, Start
<1>5. EncryptedIffNoTls'
  BY <1>1, FitRest DEF KeyInv
<1>6. KeyInv' /\ SchemaInv'
  BY <1>1, <1>5 DEF KeyInv, SchemaInv, Plain
<1>. QED BY <1>2, <1>3, <1>4, <1>6

-----------------------------------------------------------------------------
(* The theorems                                                            *)

\* The invariant holds initially.
LEMMA InitLogin == LoginInit => LoginInv
<1>. SUFFICES ASSUME LoginInit PROVE LoginInv
  OBVIOUS
<1>1. /\ toServer = <<>> /\ toServer \in Seq(Questions) /\ toClient \in Seq(Replies)
      /\ Len(toServer) = 0 /\ Len(toClient) = 0
  BY EmptyFacts DEF LoginInit
<1>2. LoginTypeOK
  BY <1>1 DEF LoginInit, LoginTypeOK, Ops
<1>3. Deciphered /\ ShapeInv /\ AskInv /\ NoSessionLeft
  BY <1>1 DEF LoginInit, Deciphered, ShapeInv, AskInv, NoSessionLeft
<1>4. EncryptedIffNoTls
  BY <1>1 DEF EncryptedIffNoTls
<1>5. PhaseInv /\ KeyInv
  BY <1>1, <1>4 DEF LoginInit, PhaseInv, KeyInv, Plain
<1>6. PosInv /\ SchemaInv
  BY <1>1 DEF LoginInit, PosInv, SchemaInv, Plain
<1>. QED BY <1>2, <1>3, <1>5, <1>6 DEF LoginInv

\* A step that changes nothing keeps it.
LEMMA LoginStutter == LoginInv /\ UNCHANGED loginVars => LoginInv'
<1>. SUFFICES ASSUME LoginInv, UNCHANGED loginVars PROVE LoginInv'
  OBVIOUS
<1>. USE DEF LoginInv
<1>1. UNCHANGED <<tls, uri, user, caller, failure, lifecycle, stream, op, send, recv, schema, logins, ops, garbled,
                  toServer, toClient, srv, srvSend, srvRecv, srvSchema, untold>>
  BY DEF loginVars, choices, ciphers, bounds, server
<1>2. LoginTypeOK'
  BY <1>1 DEF LoginTypeOK
<1>3. Deciphered' /\ ShapeInv' /\ AskInv' /\ NoSessionLeft'
  BY <1>1 DEF Deciphered, ShapeInv, AskInv, NoSessionLeft
<1>4. PhaseInv' /\ PosInv'
  BY <1>1 DEF PhaseInv, PosInv, Start
<1>5. EncryptedIffNoTls'
  BY <1>1, FitRest DEF KeyInv
<1>6. KeyInv' /\ SchemaInv'
  BY <1>1, <1>5 DEF KeyInv, SchemaInv, Recorded
<1>. QED BY <1>2, <1>3, <1>4, <1>6

\* What is on its way in each exchange of a native connection, and how far the two ends
\* of its keystreams and its current schema are apart because of it.
THEOREM LoginInvariant == LoginSpec => []LoginInv
<1>1. LoginInit => LoginInv
  BY InitLogin
<1>2. LoginInv /\ [LoginNext]_loginVars => LoginInv'
  BY BeginLoginKeeps, LoginAnsweredKeeps, AuthAnsweredKeeps, AttributesAnsweredKeeps, TimeoutAnsweredKeeps,
     SchemaAnsweredKeeps, RefreshAnsweredKeeps, RequestKeeps, ExecuteAnsweredKeeps, BeginCloseKeeps, CloseKeeps,
     ReadFailsKeeps, ServerLoginKeeps, ServerRequestKeeps, ServerStillExecutingKeeps, ServerRejectsKeeps,
     SchemaDroppedKeeps, PeerGoneKeeps, LoginStutter
     DEF LoginNext, Login, Setup, Work, Server
<1>. QED BY <1>1, <1>2, PTL DEF LoginSpec

\* Both sides of a native connection decipher every payload at the position it was
\* enciphered at, and encipher exactly when the socket has no TLS, for any number of
\* logins and requests and however they fail.
THEOREM KeystreamsStayAgreed == LoginSpec => []KeystreamsAgree
<1>1. LoginInv => KeystreamsAgree
  BY DEF LoginInv, KeyInv, KeystreamsAgree
<1>. QED BY <1>1, LoginInvariant, PTL

\* A connection that is open and waits for nothing is in the schema the driver reports,
\* and one that could not be brought into its schema has ended on the server.
THEOREM SessionStaysInSchema == LoginSpec => []SessionInSchema
<1>1. LoginInv => SessionInSchema
  <2>. SUFFICES ASSUME LoginInv PROVE SessionInSchema
    OBVIOUS
  <2>1. SchemaFollowsServer
    <3>1. op = "idle" => Len(toClient) = 0 /\ op \notin Plain
      BY DEF LoginInv, ShapeInv, Plain
    <3>. QED BY <3>1 DEF LoginInv, SchemaInv, SchemaFollowsServer
  <2>. QED BY <2>1 DEF LoginInv, SessionInSchema
<1>. QED BY <1>1, LoginInvariant, PTL

-----------------------------------------------------------------------------
(* Transactions and timeouts of a session                                  *)

\* Every timeout is a whole number of seconds, rounded up.
LEMMA SecsCeilType ==
  ASSUME NEW d \in Nat
  PROVE  SecsCeil(d) \in Nat
<1>. DEFINE q == d \div TicksPerSecond
            m == d % TicksPerSecond
<1>1. q \in Nat /\ m \in Nat
  BY SessionAssumption
<1>. HIDE DEF q, m
<1>. QED
  BY <1>1 DEF SecsCeil, q, m

\* What a Statement keeps of a timeout is a number of ticks, and the timeout itself
\* if it was a whole number of milliseconds.
LEMMA MillisType ==
  ASSUME NEW d \in Nat
  PROVE  Millis(d) \in Nat /\ (d % TicksPerMilli = 0 => Millis(d) = d)
<1>1. TicksPerMilli \in Nat /\ TicksPerMilli > 0
  BY SessionAssumption
<1>2. /\ d \div TicksPerMilli \in Nat /\ d % TicksPerMilli \in Nat
      /\ d = (d \div TicksPerMilli) * TicksPerMilli + (d % TicksPerMilli)
  BY <1>1, Division
<1>3. (d \div TicksPerMilli) * TicksPerMilli \in Nat
  BY <1>1, <1>2
<1>. QED
  BY <1>2, <1>3 DEF Millis

\* What a statement, and the end of a session, do to the server's data.
LEMMA EffectType ==
  ASSUME TypeOK, NEW s \in Statements, Effect(s) \/ EndOfSession \/ UNCHANGED data
  PROVE  writes' \in Nat /\ staged' \subseteq Nat /\ visible' \subseteq Nat
<1>1. writes \in Nat /\ staged \subseteq Nat /\ visible \subseteq Nat
  BY DEF TypeOK
<1>2. CASE EndOfSession
  BY <1>1, <1>2 DEF EndOfSession
<1>3. CASE UNCHANGED data
  BY <1>1, <1>3 DEF data
<1>4. CASE Effect(s)
  <2>1. CASE s = "write"
    <3>. DEFINE n == writes + 1
    <3>1. /\ writes' = n
          /\ staged' = IF autocommit = "on" THEN {} ELSE staged \cup {n}
          /\ visible' = IF autocommit = "on" THEN visible \cup staged \cup {n} ELSE visible
      BY <1>4, <2>1 DEF Effect
    <3>2. n \in Nat
      BY <1>1
    <3>. HIDE DEF n
    <3>. QED
      BY <1>1, <3>1, <3>2
  <2>2. CASE s # "write"
    BY <1>1, <1>4, <2>2 DEF Effect, data
  <2>. QED
    BY <2>1, <2>2
<1>. QED
  BY <1>2, <1>3, <1>4

\* Run and set_query_timeout keep the types of what they change.
LEMMA RunType ==
  ASSUME TypeOK, NEW s \in Statements, NEW r \in Results, Run(s, r)
  PROVE  /\ writes' \in Nat /\ staged' \subseteq Nat /\ visible' \subseteq Nat
         /\ link' \in {"up", "broken", "closed", "terminated"}
<1>1. Effect(s) \/ EndOfSession \/ UNCHANGED data
  BY DEF Run, data
<1>2. link' \in {"up", "broken", "closed", "terminated"}
  BY DEF Run, TypeOK
<1>. QED
  BY <1>1, <1>2, EffectType

\* One reconciled statement: what execute_statement may change, and how.
LEMMA ExecuteStatementType ==
  ASSUME TypeOK, NEW asked \in Nat, NEW s \in Statements, NEW r \in Results,
         ExecuteStatement(asked, s, r)
  PROVE  /\ writes' \in Nat /\ staged' \subseteq Nat /\ visible' \subseteq Nat
         /\ link' \in {link, "broken"}
         /\ query_timeout' \in Nat
         /\ limit' \in Nat
         /\ ran' = ran \/ ran' \in [path : {"statement"}, asked : Nat, had : Nat]
<1>. DEFINE t == Millis(asked)
            target == SecsCeil(t)
            differs == target # SecsCeil(query_timeout)
<1>0. t \in Nat /\ target \in Nat /\ limit \in Nat /\ query_timeout \in Nat
  BY SecsCeilType, MillisType DEF TypeOK
<1>1. CASE differs /\ r = "err" /\ SetQueryTimeoutFails(target) /\ UNCHANGED <<query_timeout, ran>>
  <2>1. EndOfSession \/ UNCHANGED data
    BY <1>1 DEF SetQueryTimeoutFails, data
  <2>2. writes' \in Nat /\ staged' \subseteq Nat /\ visible' \subseteq Nat
    BY <2>1, EffectType
  <2>3. link' \in {link, "broken"} /\ limit' \in {limit, target}
    BY <1>1 DEF SetQueryTimeoutFails
  <2>. QED
    BY <1>0, <1>1, <2>2, <2>3
<1>2. CASE /\ link = "up"
           /\ limit' = (IF differs THEN target ELSE limit)
           /\ ran' = [path |-> "statement", asked |-> asked, had |-> limit']
           /\ Run(s, r)
           /\ RecordApplied(t, differs, r)
  <2>1. writes' \in Nat /\ staged' \subseteq Nat /\ visible' \subseteq Nat
    BY <1>2, RunType
  <2>2. link' \in {link, "broken"}
    BY <1>2 DEF Run
  <2>3. limit' \in Nat /\ query_timeout' \in Nat
    BY <1>0, <1>2 DEF RecordApplied
  <2>. QED
    BY <1>0, <1>2, <2>1, <2>2, <2>3
<1>3. CASE UNCHANGED <<limit, link, data, query_timeout, ran>>
  BY <1>0, <1>3 DEF TypeOK, data
<1>. QED
  BY <1>1, <1>2, <1>3 DEF ExecuteStatement

\* The paths that do not reconcile: prepared statements, imports and exports.
LEMMA RunAsIsType ==
  ASSUME TypeOK, NEW p \in {"prepared", "transfer"}, NEW r \in Results, RunAsIs(p, r)
  PROVE  /\ writes' \in Nat /\ staged' \subseteq Nat /\ visible' \subseteq Nat
         /\ link' = link \/ (link = "up" /\ link' = "broken")
         /\ ran' = ran \/ ran' \in [path : {p}, asked : Nat, had : Nat]
<1>0. params_timeout \in Nat /\ limit \in Nat
  BY DEF TypeOK
<1>1. CASE /\ link = "up"
           /\ \E s \in {"read", "write"} : Run(s, r)
           /\ ran' = [path |-> p, asked |-> params_timeout, had |-> limit]
  <2>1. PICK s \in Statements : Run(s, r)
    BY <1>1 DEF Statements
  <2>2. writes' \in Nat /\ staged' \subseteq Nat /\ visible' \subseteq Nat
    BY <2>1, RunType
  <2>3. link' \in {link, "broken"}
    BY <2>1 DEF Run
  <2>. QED
    BY <1>0, <1>1, <2>2, <2>3
<1>2. CASE UNCHANGED <<data, link, ran>>
  BY <1>2 DEF TypeOK, data
<1>. QED
  BY <1>1, <1>2 DEF RunAsIs

Calls == {"connect", "execute", "prepared", "transfer", "begin", "commit", "rollback", "close", "option",
          "request"}

\* Every call is recorded with its outcome.
LEMMA ReturnsType ==
  ASSUME NEW c \in Calls, NEW r \in Results, Returns(c, r)
  PROVE  last' \in [call : Calls, result : Results] /\ last'.call = c
BY DEF Returns

\* Each operation keeps the types; the timeouts a statement may have are numbers.
LEMMA TypeStep ==
  ASSUME TypeOK, [Next]_vars
  PROVE  TypeOK'
<1>. USE DEF Calls
<1>0. ConnTimeouts \subseteq Nat /\ StatementTimeouts \subseteq Nat
  BY SessionAssumption
<1>1. CASE UNCHANGED vars
  BY <1>1 DEF TypeOK, vars, data
<1>2. CASE Next
  <2>0. params_timeout' = params_timeout /\ params_timeout \in Nat
    BY <1>2 DEF Next, TypeOK
  <2>1. CASE Execute
    <3>1. PICK t \in Nat, s \in Statements, r \in Results :
            ExecuteStatement(t, s, r) /\ Returns("execute", r)
      BY <1>0, <2>0, <2>1 DEF Execute, Statements
    <3>2. UNCHANGED <<state, in_transaction, autocommit>>
      BY <2>1 DEF Execute
    <3>. QED
      BY <2>0, <3>1, <3>2, ExecuteStatementType, ReturnsType DEF TypeOK
  <2>2. CASE ExecutePrepared
    <3>1. PICK r \in Results : RunAsIs("prepared", r) /\ Returns("prepared", r)
      BY <2>2 DEF ExecutePrepared
    <3>. QED
      BY <2>0, <3>1, RunAsIsType, ReturnsType DEF TypeOK, RunAsIs
  <2>3. CASE Transfer
    <3>1. PICK r \in Results : RunAsIs("transfer", r) /\ Returns("transfer", r)
      BY <2>3 DEF Transfer
    <3>. QED
      BY <2>0, <3>1, RunAsIsType, ReturnsType DEF TypeOK, RunAsIs
  <2>4. CASE TransferTimesOut
    <3>1. last' \in [call : Calls, result : Results]
      BY <2>4, ReturnsType DEF TransferTimesOut, Results
    <3>. QED
      BY <2>0, <2>4, <3>1 DEF TypeOK, TransferTimesOut, EndOfSession
  <2>5. CASE Begin
    <3>1. CASE \E r \in Results : BeginTransaction(r) /\ Returns("begin", r)
      <4>1. PICK r \in Results : BeginTransaction(r) /\ Returns("begin", r)
        BY <3>1
      <4>2. last' \in [call : Calls, result : Results]
        BY <4>1, ReturnsType
      <4>. QED
        BY <2>0, <4>1, <4>2 DEF TypeOK, BeginTransaction, EndOfSession, data
    <3>2. CASE BeginRefused /\ Returns("begin", "err")
      <4>1. last' \in [call : Calls, result : Results]
        BY <3>2, ReturnsType DEF Results
      <4>. QED
        BY <2>0, <3>2, <4>1 DEF TypeOK, BeginRefused, data
    <3>. QED
      BY <2>5, <3>1, <3>2 DEF Begin
  <2>6. CASE Commit \/ Rollback
    <3>1. PICK s \in Statements, c \in {"commit", "rollback"}, r \in Results :
            EndTransaction(s, r) /\ Returns(c, r)
      BY <2>6 DEF Commit, Rollback, Statements
    <3>2. last' \in [call : Calls, result : Results]
      BY <3>1, ReturnsType
    <3>3. CASE UNCHANGED <<state, in_transaction, query_timeout, link, limit, data, ran, autocommit>>
      BY <2>0, <3>2, <3>3 DEF TypeOK, data
    <3>4. CASE /\ ExecuteStatement(params_timeout, s, r)
               /\ in_transaction' = (IF r = "ok" THEN "no" ELSE "yes")
               /\ state' = (IF r = "ok" THEN "Ready" ELSE state)
               /\ UNCHANGED autocommit
      BY <2>0, <3>2, <3>4, ExecuteStatementType DEF TypeOK
    <3>. QED
      BY <3>1, <3>3, <3>4 DEF EndTransaction
  <2>7. CASE Shutdown
    <3>1. last' \in [call : Calls, result : Results]
      BY <2>7, ReturnsType DEF Shutdown, Results
    <3>. QED
      BY <2>0, <2>7, <3>1 DEF TypeOK, Shutdown, EndOfSession
  <2>8. CASE OtherRequest
    <3>1. last' \in [call : Calls, result : Results]
      BY <2>8, ReturnsType DEF OtherRequest, Results
    <3>. QED
      BY <2>0, <2>8, <3>1 DEF TypeOK, OtherRequest, EndOfSession, data
  <2>. QED
    BY <1>2, <2>1, <2>2, <2>3, <2>4, <2>5, <2>6, <2>7, <2>8 DEF Next
<1>. QED
  BY <1>1, <1>2

\* Session, link and server keep their types, for every set of timeouts.
THEOREM TypeCorrect == Spec => []TypeOK
<1>1. Init => TypeOK
  BY SessionAssumption, SecsCeilType DEF Init, TypeOK, Results
<1>. QED
  BY <1>1, TypeStep, PTL DEF Spec

-----------------------------------------------------------------------------
(* Transactions                                                            *)

\* No failure of an operation separates the flag, the state and the server.
LEMMA AgreesStep ==
  ASSUME TypeOK, TransactionAgrees, [Next]_vars
  PROVE  TransactionAgrees'
<1>. USE DEF TransactionAgrees
<1>0. ConnTimeouts \subseteq Nat /\ StatementTimeouts \subseteq Nat
  BY SessionAssumption
<1>1. CASE UNCHANGED vars
  BY <1>1 DEF vars
<1>2. CASE Next
  <2>0. params_timeout \in Nat /\ link \in {"up", "broken", "closed", "terminated"}
    BY DEF TypeOK
  <2>1. CASE Execute
    BY <2>1 DEF Execute, CanExecute
  <2>2. CASE ExecutePrepared
    BY <2>2 DEF ExecutePrepared, RunAsIs, CanExecute
  <2>3. CASE Transfer
    <3>1. PICK r \in Results : RunAsIs("transfer", r)
      BY <2>3 DEF Transfer
    <3>2. link' = link \/ (link = "up" /\ link' = "broken")
      BY <3>1, RunAsIsType
    <3>. QED
      BY <3>1, <3>2 DEF RunAsIs
  <2>4. CASE TransferTimesOut
    BY <2>4 DEF TransferTimesOut
  <2>5. CASE Begin
    BY <2>5 DEF Begin, BeginTransaction, BeginRefused, CanExecute
  <2>6. CASE Commit \/ Rollback
    <3>1. PICK s \in Statements, r \in Results : EndTransaction(s, r)
      BY <2>6 DEF Commit, Rollback, Statements
    <3>. QED
      BY <3>1 DEF EndTransaction
  <2>7. CASE Shutdown
    BY <2>0, <2>7 DEF Shutdown
  <2>8. CASE OtherRequest
    BY <2>8 DEF OtherRequest
  <2>. QED
    BY <1>2, <2>1, <2>2, <2>3, <2>4, <2>5, <2>6, <2>7, <2>8 DEF Next
<1>. QED
  BY <1>1, <1>2

\* begin_transaction, commit, rollback and close keep Session.in_transaction, the
\* session's state and the server's autocommit consistent, however they fail.
THEOREM TransactionsAgree == Spec => []TransactionAgrees
<1>1. Init => TransactionAgrees
  BY DEF Init, TransactionAgrees
<1>. QED
  BY <1>1, AgreesStep, TypeCorrect, PTL DEF Spec

\* While the server does not commit by itself, only COMMIT makes anything visible.
LEMMA OnlyCommitShows ==
  ASSUME NEW s \in Statements, NEW r \in Results, Run(s, r), autocommit = "off", s # "COMMIT"
  PROVE  visible' = visible
BY DEF Run, Effect, EndOfSession, data, Statements

\* The same for a reconciled statement, whose set_query_timeout may fail.
LEMMA OnlyCommitShowsExecuted ==
  ASSUME NEW t, NEW s \in Statements, NEW r \in Results, ExecuteStatement(t, s, r),
         autocommit = "off", s # "COMMIT"
  PROVE  visible' = visible
<1>1. CASE Run(s, r)
  BY <1>1, OnlyCommitShows
<1>2. CASE \E secs : SetQueryTimeoutFails(secs)
  BY <1>2 DEF SetQueryTimeoutFails, EndOfSession, data
<1>3. CASE UNCHANGED data
  BY <1>3 DEF data
<1>. QED
  BY <1>1, <1>2, <1>3 DEF ExecuteStatement

\* Inside a transaction a step that changes what other sessions see is a commit.
LEMMA LeakStep ==
  ASSUME TypeOK, TransactionAgrees, [Next]_vars, in_transaction = "yes", visible' # visible
  PROVE  last'.call \in {"commit", "option"}
<1>0. autocommit = "off"
  BY DEF TransactionAgrees
<1>1. ~UNCHANGED vars
  BY DEF vars, data
<1>2. ~Execute
  BY <1>0, OnlyCommitShowsExecuted DEF Execute, Statements
<1>3. ~ExecutePrepared /\ ~Transfer
  BY <1>0, OnlyCommitShows DEF ExecutePrepared, Transfer, RunAsIs, Statements, data
<1>4. ~TransferTimesOut /\ ~Shutdown /\ ~OtherRequest
  BY DEF TransferTimesOut, Shutdown, OtherRequest, EndOfSession, data
<1>5. ~Begin
  BY DEF Begin, BeginTransaction, BeginRefused, EndOfSession, data
<1>6. ~Rollback
  <2>1. SUFFICES ASSUME NEW r \in Results, EndTransaction("ROLLBACK", r)
                 PROVE  FALSE
    BY DEF Rollback
  <2>. QED
    BY <1>0, <2>1, OnlyCommitShowsExecuted DEF EndTransaction, Statements, data
<1>7. Commit => last'.call = "commit"
  BY DEF Commit, Returns
<1>. QED
  BY <1>1, <1>2, <1>3, <1>4, <1>5, <1>6, <1>7 DEF Next

\* Nothing of a transaction is visible to other sessions before commit().
THEOREM NothingLeaks == Spec => NothingLeaksBeforeCommit
<1>1. ASSUME TypeOK, TransactionAgrees, [Next]_vars
      PROVE  [(in_transaction = "yes" /\ visible' # visible)
                => (last'.call \in {"commit", "option"})]_vars
  BY <1>1, LeakStep
<1>. QED
  BY <1>1, TypeCorrect, TransactionsAgree, PTL DEF Spec, NothingLeaksBeforeCommit

\* A step that takes the session out of its transaction ends it on the server.
LEMMA EndStep ==
  ASSUME [Next]_vars, in_transaction = "yes", in_transaction' = "no"
  PROVE  /\ staged' = {}
         /\ visible' = IF last'.call \in {"rollback", "close"} THEN visible ELSE visible \cup staged
<1>1. CASE Commit
  <2>1. PICK r \in Results : EndTransaction("COMMIT", r) /\ Returns("commit", r)
    BY <1>1 DEF Commit
  <2>2. r = "ok" /\ ExecuteStatement(params_timeout, "COMMIT", r)
    BY <2>1 DEF EndTransaction, Results
  <2>3. Run("COMMIT", r)
    BY <2>2 DEF ExecuteStatement
  <2>4. staged' = {} /\ visible' = visible \cup staged
    BY <2>2, <2>3 DEF Run, Effect
  <2>5. last'.call = "commit"
    BY <2>1 DEF Returns
  <2>. QED
    BY <2>4, <2>5
<1>2. CASE Rollback
  <2>1. PICK r \in Results : EndTransaction("ROLLBACK", r) /\ Returns("rollback", r)
    BY <1>2 DEF Rollback
  <2>2. r = "ok" /\ ExecuteStatement(params_timeout, "ROLLBACK", r)
    BY <2>1 DEF EndTransaction, Results
  <2>3. Run("ROLLBACK", r)
    BY <2>2 DEF ExecuteStatement
  <2>4. staged' = {} /\ visible' = visible
    BY <2>2, <2>3 DEF Run, Effect
  <2>5. last'.call = "rollback"
    BY <2>1 DEF Returns
  <2>. QED
    BY <2>4, <2>5
<1>3. CASE Shutdown
  BY <1>3 DEF Shutdown, EndOfSession, Returns
<1>4. ~UNCHANGED vars /\ ~Execute /\ ~ExecutePrepared /\ ~Transfer /\ ~TransferTimesOut /\ ~Begin
      /\ ~OtherRequest
  BY DEF vars, Execute, ExecutePrepared, Transfer, RunAsIs, TransferTimesOut, Begin,
         BeginTransaction, BeginRefused, OtherRequest
<1>. QED
  BY <1>1, <1>2, <1>3, <1>4 DEF Next

\* commit() and rollback() that leave a transaction decide all of its writes.
THEOREM EndsWhole == Spec => TransactionEndsWhole
<1>1. ASSUME [Next]_vars
      PROVE  [(in_transaction = "yes" /\ in_transaction' = "no") =>
                (staged' = {} /\ visible' = IF last'.call \in {"rollback", "close"}
                                              THEN visible ELSE visible \cup staged)]_vars
  BY <1>1, EndStep
<1>. QED
  BY <1>1, PTL DEF Spec, TransactionEndsWhole

-----------------------------------------------------------------------------
(* The statement timeout                                                   *)

TimeoutInv == BaselineInv /\ TimeoutInForce

\* What is said of the last statement stays true until another one runs, and says
\* nothing of the paths that do not reconcile.
LEMMA RanKept ==
  ASSUME TimeoutInForce, ran' = ran \/ ran'.path # "statement"
  PROVE  TimeoutInForce'
BY DEF TimeoutInForce, RanUnder, Millis, SecsCeil

\* The baseline stays true while nobody changes it or the server's limit.
LEMMA BaselineKept ==
  ASSUME BaselineInv, UNCHANGED <<limit, query_timeout>>, link' = "up" => link = "up"
  PROVE  BaselineInv'
BY DEF BaselineInv, SecsCeil

\* A statement with the timeout asked ran under the limit of what it carries.
LEMMA RanCarried ==
  ASSUME NEW asked \in Nat, ran'.asked = asked,
         \/ ran'.had = SecsCeil(Millis(asked))
         \/ SecsCeil(Millis(asked)) = 0 /\ ran'.had = AmbientLimit
  PROVE  TimeoutInForce'
<1>1. RanUnder(Millis(asked))'
  BY DEF RanUnder, Millis, SecsCeil
<1>2. asked % TicksPerMilli = 0 => RanUnder(asked)'
  BY MillisType DEF RanUnder, SecsCeil
<1>. QED
  BY <1>1, <1>2 DEF TimeoutInForce, RanUnder, Millis, SecsCeil

\* A reconciled statement runs under its own limit and leaves a true baseline.
LEMMA ReconcileStep ==
  ASSUME TimeoutInv, NEW asked \in Nat, NEW s, NEW r, ExecuteStatement(asked, s, r)
  PROVE  TimeoutInv'
<1>. DEFINE t == Millis(asked)
            target == SecsCeil(t)
            differs == target # SecsCeil(query_timeout)
<1>1. CASE SetQueryTimeoutFails(target) /\ UNCHANGED <<query_timeout, ran>>
  <2>1. UNCHANGED <<limit, query_timeout, link>> \/ link' = "broken"
    BY <1>1 DEF SetQueryTimeoutFails
  <2>2. BaselineInv'
    BY <2>1, BaselineKept DEF TimeoutInv, BaselineInv
  <2>. QED
    BY <1>1, <2>2, RanKept DEF TimeoutInv
<1>2. CASE /\ link = "up"
           /\ limit' = (IF differs THEN target ELSE limit)
           /\ ran' = [path |-> "statement", asked |-> asked, had |-> limit']
           /\ RecordApplied(t, differs, r)
  <2>1. CASE differs
    <3>1. limit' = target /\ query_timeout' = t /\ ran'.had = target /\ ran'.asked = asked
      BY <1>2, <2>1 DEF RecordApplied
    <3>2. BaselineInv'
      <4>1. SecsCeil(query_timeout)' = target
        BY <3>1 DEF SecsCeil
      <4>. HIDE DEF t
      <4>. QED
        BY <3>1, <4>1 DEF BaselineInv
    <3>. QED
      BY <3>1, <3>2, RanCarried DEF TimeoutInv
  <2>2. CASE ~differs
    <3>1. limit' = limit /\ query_timeout' = query_timeout /\ ran'.had = limit /\ ran'.asked = asked
      BY <1>2, <2>2 DEF RecordApplied
    <3>2. target = SecsCeil(query_timeout)
      BY <2>2
    <3>3. limit = target \/ (target = 0 /\ limit = AmbientLimit)
      BY <1>2, <3>2 DEF TimeoutInv, BaselineInv
    <3>4. BaselineInv'
      BY <1>2, <3>1, BaselineKept DEF TimeoutInv
    <3>. QED
      BY <3>1, <3>3, <3>4, RanCarried DEF TimeoutInv
  <2>. QED
    BY <2>1, <2>2
<1>3. CASE UNCHANGED <<limit, link, query_timeout, ran>>
  BY <1>3, RanKept, BaselineKept DEF TimeoutInv
<1>. QED
  BY <1>1, <1>2, <1>3 DEF ExecuteStatement

\* No other operation changes the limit, and none brings a lost link back.
LEMMA TimeoutStep ==
  ASSUME TypeOK, TimeoutInv, [Next]_vars
  PROVE  TimeoutInv'
<1>1. CASE Execute \/ Commit \/ Rollback
  <2>1. CASE \E t \in Nat : \E s, r : ExecuteStatement(t, s, r)
    BY <2>1, ReconcileStep
  <2>2. CASE UNCHANGED <<limit, link, query_timeout, ran>>
    BY <2>2, RanKept, BaselineKept DEF TimeoutInv
  <2>3. \A t \in StatementTimeouts \cup {params_timeout} : t \in Nat
    BY SessionAssumption DEF TypeOK
  <2>4. CASE Execute
    BY <2>1, <2>3, <2>4 DEF Execute
  <2>5. CASE Commit \/ Rollback
    BY <2>1, <2>2, <2>3, <2>5 DEF Commit, Rollback, EndTransaction
  <2>. QED
    BY <1>1, <2>4, <2>5
<1>2. CASE ExecutePrepared \/ Transfer
  <2>1. PICK p \in {"prepared", "transfer"}, r \in Results : RunAsIs(p, r)
    BY <1>2 DEF ExecutePrepared, Transfer
  <2>2. /\ link' = link \/ link' = "broken"
        /\ ran' = ran \/ ran'.path # "statement"
    BY <2>1, RunAsIsType
  <2>. QED
    BY <2>1, <2>2, RanKept, BaselineKept DEF RunAsIs, TimeoutInv
<1>3. CASE TransferTimesOut \/ Begin \/ Shutdown \/ OtherRequest
  <2>1. UNCHANGED <<limit, query_timeout, ran>> /\ (link' = "up" => link = "up")
    BY <1>3 DEF TransferTimesOut, Begin, BeginTransaction, BeginRefused, Shutdown, OtherRequest
  <2>. QED
    BY <2>1, RanKept, BaselineKept DEF TimeoutInv
<1>4. CASE UNCHANGED vars
  BY <1>4, RanKept, BaselineKept DEF vars, TimeoutInv
<1>. QED
  BY <1>1, <1>2, <1>3, <1>4 DEF Next

\* A new connection has run nothing, and its baseline is what the server has.
LEMMA TimeoutInit == Init => TimeoutInv
<1>1. SecsCeil(0) = 0
  BY SessionAssumption, Z3 DEF SecsCeil
<1>2. Init => TimeoutInForce
  BY DEF Init, TimeoutInForce
<1>3. Init => BaselineInv
  BY <1>1 DEF Init, BaselineInv
<1>. QED
  BY <1>2, <1>3 DEF TimeoutInv

\* A statement whose timeout is a whole number of milliseconds runs under it, and
\* any statement under what is left of its timeout in milliseconds, whatever ran, or
\* failed, before it.
THEOREM TimeoutsHold == Spec => [](BaselineInv /\ TimeoutInForce)
<1>2. TimeoutInv => BaselineInv /\ TimeoutInForce
  BY DEF TimeoutInv
<1>. QED
  BY <1>2, TimeoutInit, TimeoutStep, TypeCorrect, PTL DEF Spec

-----------------------------------------------------------------------------
(* The connection of the driver manager                                    *)

\* A call that ended before it reached the Connection.
RefusedStep == UNCHANGED session /\ \E c \in Calls, r \in Results : Returns(c, r)

\* A change of AutoCommit that reached the Connection.
OptionStep ==
  /\ UNCHANGED params_timeout
  /\ \E r \in Results :
       /\ EndTransaction("COMMIT", r) \/ BeginTransaction(r) \/ BeginRefused
       /\ Returns("option", r)

\* What set_option does to the session.
LEMMA ApplyAutoCommitIs ==
  ASSUME ApplyAutoCommit
  PROVE  OptionStep \/ RefusedStep
<1>1. PICK enabled \in {"on", "off"} :
        \/ enabled = auto_commit /\ Returns("option", "ok") /\ UNCHANGED session
        \/ DialFails("option")
        \/ \E r \in Results :
             /\ IF enabled = "on" THEN CommitOpenTransaction(r) ELSE OpenTransaction(r)
             /\ Returns("option", r)
  BY DEF ApplyAutoCommit
<1>2. CASE (Returns("option", "ok") /\ UNCHANGED session) \/ DialFails("option")
  BY <1>2 DEF RefusedStep, DialFails, Calls, Results
<1>3. CASE \E r \in Results : /\ CommitOpenTransaction(r) \/ OpenTransaction(r)
                              /\ Returns("option", r)
  BY <1>3 DEF OptionStep, CommitOpenTransaction, OpenTransaction
<1>. QED
  BY <1>1, <1>2, <1>3

\* What commit, rollback, a statement and the drop do to the session.
LEMMA OtherCallsAre ==
  ASSUME FfiCommit \/ FfiRollback \/ FfiStatement \/ FfiDrop
  PROVE  Next \/ RefusedStep
<1>1. CASE FfiCommit
  <2>1. CASE UNCHANGED session /\ Returns("commit", "err")
    BY <2>1 DEF RefusedStep, Calls, Results
  <2>2. CASE (\E r \in Results : EndTransaction("COMMIT", r) /\ Returns("commit", r)) /\ UNCHANGED params_timeout
    BY <2>2 DEF Next, Commit
  <2>. QED
    BY <1>1, <2>1, <2>2 DEF FfiCommit, FfiEnd, DialFails
<1>2. CASE FfiRollback
  <2>1. CASE UNCHANGED session /\ Returns("rollback", "err")
    BY <2>1 DEF RefusedStep, Calls, Results
  <2>2. CASE (\E r \in Results : EndTransaction("ROLLBACK", r) /\ Returns("rollback", r)) /\ UNCHANGED params_timeout
    BY <2>2 DEF Next, Rollback
  <2>. QED
    BY <1>2, <2>1, <2>2 DEF FfiRollback, FfiEnd, DialFails
<1>3. CASE FfiStatement
  <2>1. CASE DialFails("execute")
    BY <2>1 DEF RefusedStep, DialFails, Calls, Results
  <2>2. CASE /\ CanExecute
             /\ \E s \in {"read", "write"}, r \in Results :
                  ExecuteStatement(params_timeout, s, r) /\ Returns("execute", r)
             /\ UNCHANGED <<params_timeout, state, in_transaction, autocommit>>
    BY <2>2 DEF Next, Execute
  <2>3. CASE (ExecutePrepared \/ Transfer \/ OtherRequest) /\ UNCHANGED params_timeout
    BY <2>3 DEF Next
  <2>. QED
    BY <1>3, <2>1, <2>2, <2>3 DEF FfiStatement
<1>4. CASE FfiDrop
  BY <1>4 DEF FfiDrop, Next
<1>. QED
  BY <1>1, <1>2, <1>3, <1>4

\* Whatever the driver manager calls is, for the session, an operation of the
\* Connection, a change of the option, or a call refused before it.
LEMMA FfiStepIs ==
  ASSUME [FfiNext]_ffiVars
  PROVE  [Next]_vars \/ OptionStep \/ RefusedStep
<1>1. CASE UNCHANGED ffiVars
  BY <1>1 DEF ffiVars
<1>2. CASE FfiNext
  BY <1>2, ApplyAutoCommitIs, OtherCallsAre DEF FfiNext
<1>. QED
  BY <1>1, <1>2

\* The invariants of the session that do not depend on who calls it.
SessionInv == TypeOK /\ TransactionAgrees /\ TimeoutInv

\* A change of AutoCommit keeps the session, its state and its baseline true.
LEMMA OptionStepKeeps ==
  ASSUME SessionInv, OptionStep
  PROVE  SessionInv'
<1>1. PICK r \in Results : /\ EndTransaction("COMMIT", r) \/ BeginTransaction(r) \/ BeginRefused
                           /\ Returns("option", r)
  BY DEF OptionStep
<1>2. last' \in [call : Calls, result : Results] /\ params_timeout' = params_timeout
  BY <1>1, ReturnsType DEF Calls, OptionStep
<1>3. TypeOK /\ TransactionAgrees /\ TimeoutInv /\ params_timeout \in Nat
  BY DEF SessionInv, TypeOK
<1>4. CASE EndTransaction("COMMIT", r)
  <2>1. CASE UNCHANGED <<state, in_transaction, query_timeout, link, limit, data, ran, autocommit>>
    <3>1. TimeoutInv'
      BY <1>3, <2>1, RanKept, BaselineKept DEF TimeoutInv
    <3>. QED
      BY <1>2, <1>3, <2>1, <3>1 DEF SessionInv, TypeOK, TransactionAgrees, data, Calls
  <2>2. CASE /\ in_transaction = "yes"
             /\ ExecuteStatement(params_timeout, "COMMIT", r)
             /\ in_transaction' = (IF r = "ok" THEN "no" ELSE "yes")
             /\ state' = (IF r = "ok" THEN "Ready" ELSE state)
             /\ UNCHANGED autocommit
    <3>1. TimeoutInv'
      BY <1>3, <2>2, ReconcileStep DEF TypeOK
    <3>2. TypeOK'
      BY <1>2, <1>3, <2>2, ExecuteStatementType DEF TypeOK, Statements, Calls
    <3>3. TransactionAgrees'
      BY <1>3, <2>2 DEF TransactionAgrees
    <3>. QED
      BY <3>1, <3>2, <3>3 DEF SessionInv
  <2>. QED
    BY <1>4, <2>1, <2>2 DEF EndTransaction
<1>5. CASE BeginTransaction(r) \/ BeginRefused
  <2>1. UNCHANGED <<limit, query_timeout, ran>> /\ (link' = "up" => link = "up")
    BY <1>5 DEF BeginTransaction, BeginRefused
  <2>2. TimeoutInv'
    BY <1>3, <2>1, RanKept, BaselineKept DEF TimeoutInv
  <2>3. TypeOK'
    BY <1>2, <1>3, <1>5 DEF TypeOK, Calls, BeginTransaction, BeginRefused, EndOfSession, data
  <2>4. TransactionAgrees'
    BY <1>3, <1>5 DEF TransactionAgrees, BeginTransaction, BeginRefused, CanExecute
  <2>. QED
    BY <2>2, <2>3, <2>4 DEF SessionInv
<1>. QED
  BY <1>1, <1>4, <1>5

\* Every call of the driver manager keeps the invariants of the session.
LEMMA FfiSessionStep ==
  ASSUME SessionInv, [FfiNext]_ffiVars
  PROVE  SessionInv'
<1>1. CASE [Next]_vars
  BY <1>1, TypeStep, AgreesStep, TimeoutStep DEF SessionInv
<1>2. CASE RefusedStep
  <2>1. last' \in [call : Calls, result : Results] /\ UNCHANGED session
    BY <1>2, ReturnsType DEF RefusedStep
  <2>2. TimeoutInv'
    BY <2>1, RanKept, BaselineKept DEF SessionInv, TimeoutInv, session
  <2>. QED
    BY <2>1, <2>2 DEF SessionInv, TypeOK, TransactionAgrees, session, data, Calls
<1>. QED
  BY <1>1, <1>2, FfiStepIs, OptionStepKeeps

\* Through the driver manager too the session agrees with the server on its
\* transaction, and every statement runs under its own timeout as far as it is
\* given in milliseconds: what the Connection promises survives AutoCommit,
\* refused calls and failed dials.
THEOREM FfiSessionSafe == FfiSpec => [](TypeOK /\ TransactionAgrees /\ TimeoutInForce)
<1>1. FfiInit => SessionInv
  <2>2. Init => TypeOK
    BY SessionAssumption, SecsCeilType DEF Init, TypeOK, Results
  <2>3. Init => TransactionAgrees
    BY DEF Init, TransactionAgrees
  <2>. QED
    BY <2>2, <2>3, TimeoutInit DEF FfiInit, SessionInv
<1>2. SessionInv => TypeOK /\ TransactionAgrees /\ TimeoutInForce
  BY DEF SessionInv, TimeoutInv
<1>. QED
  BY <1>1, <1>2, FfiSessionStep, PTL DEF FfiSpec

\* A change of AutoCommit makes writes visible only as the commit it is.
LEMMA OptionCommits ==
  ASSUME OptionStep
  PROVE  /\ last'.call = "option"
         /\ (in_transaction = "yes" /\ in_transaction' = "no")
              => (staged' = {} /\ visible' = visible \cup staged)
<1>1. PICK r \in Results : /\ EndTransaction("COMMIT", r) \/ BeginTransaction(r) \/ BeginRefused
                           /\ Returns("option", r)
  BY DEF OptionStep
<1>2. last'.call = "option"
  BY <1>1 DEF Returns
<1>3. ASSUME in_transaction = "yes", in_transaction' = "no"
      PROVE  staged' = {} /\ visible' = visible \cup staged
  <2>1. r = "ok" /\ ExecuteStatement(params_timeout, "COMMIT", r)
    BY <1>1, <1>3 DEF EndTransaction, BeginTransaction, BeginRefused, Results
  <2>2. Run("COMMIT", r)
    BY <2>1 DEF ExecuteStatement
  <2>. QED
    BY <2>1, <2>2 DEF Run, Effect
<1>. QED
  BY <1>2, <1>3

\* Inside a transaction nothing becomes visible before commit() or the change of
\* AutoCommit that commits, whatever the driver manager calls.
THEOREM FfiNothingLeaks == FfiSpec => NothingLeaksBeforeCommit
<1>1. ASSUME TypeOK, TransactionAgrees, [FfiNext]_ffiVars
      PROVE  [(in_transaction = "yes" /\ visible' # visible)
                => (last'.call \in {"commit", "option"})]_vars
  BY <1>1, FfiStepIs, LeakStep, OptionCommits DEF RefusedStep, session, data
<1>. QED
  BY <1>1, FfiSessionSafe, PTL DEF FfiSpec, NothingLeaksBeforeCommit

\* A transaction that commit(), rollback(), the option or the drop of the
\* connection ends is ended whole on the server.
THEOREM FfiEndsWhole == FfiSpec => TransactionEndsWhole
<1>1. ASSUME [FfiNext]_ffiVars
      PROVE  [(in_transaction = "yes" /\ in_transaction' = "no") =>
                (staged' = {} /\ visible' = IF last'.call \in {"rollback", "close"}
                                              THEN visible ELSE visible \cup staged)]_vars
  BY <1>1, FfiStepIs, EndStep, OptionCommits DEF RefusedStep, session
<1>. QED
  BY <1>1, PTL DEF FfiSpec, TransactionEndsWhole

\* A program that uses the Connection itself never sets the option.
ManualInv ==
  /\ inner \in {"none", "some", "direct"}
  /\ inner = "direct" => auto_commit = "on"
  /\ ManualOnceSwitched

\* Each call keeps ManualInv: only a successful begin_transaction ends a change of
\* the option to "off" with success, and nothing the FFI calls turns autocommit on
\* again.
LEMMA ManualStep ==
  ASSUME ManualInv, [FfiNext]_ffiVars
  PROVE  ManualInv'
<1>. USE DEF ManualInv, ManualOnceSwitched
<1>1. CASE ApplyAutoCommit /\ inner # "direct"
  <2>1. PICK enabled \in {"on", "off"} :
         /\ auto_commit' = enabled
         /\ \/ /\ enabled = auto_commit
               /\ UNCHANGED <<session, inner, switched>>
            \/ /\ DialFails("option")
               /\ switched' = "err"
            \/ /\ Connected
               /\ \E r \in Results :
                    /\ IF enabled = "on" THEN CommitOpenTransaction(r) ELSE OpenTransaction(r)
                    /\ switched' = r
    BY <1>1 DEF ApplyAutoCommit
  <2>2. CASE enabled = auto_commit /\ UNCHANGED <<session, inner, switched>>
    BY <2>1, <2>2 DEF session
  <2>3. CASE DialFails("option") /\ switched' = "err"
    BY <1>1, <2>1, <2>3 DEF DialFails
  <2>4. CASE Connected /\ enabled = "on"
    BY <2>1, <2>4 DEF Connected
  <2>5. CASE Connected /\ \E r \in Results : OpenTransaction(r) /\ switched' = r
    <3>1. PICK r \in Results : OpenTransaction(r) /\ switched' = r
      BY <2>5
    <3>2. r = "ok" => autocommit' = "off"
      BY <3>1 DEF OpenTransaction, BeginTransaction
    <3>. QED
      BY <2>5, <3>1, <3>2 DEF Connected
  <2>. QED
    BY <2>1, <2>2, <2>3, <2>4, <2>5
<1>2. CASE (FfiCommit \/ FfiRollback) /\ inner # "direct"
  BY <1>2 DEF FfiCommit, FfiRollback, FfiEnd, DialFails, Connected, EndTransaction, session, options
<1>3. CASE FfiStatement /\ inner # "direct"
  BY <1>3 DEF FfiStatement, DialFails, Connected, ExecutePrepared, Transfer, RunAsIs, OtherRequest, session, options
<1>4. CASE FfiDrop
  BY <1>4 DEF FfiDrop, Shutdown, options
<1>5. CASE inner = "direct" /\ UNCHANGED <<inner, options>>
  BY <1>5 DEF options
<1>6. CASE UNCHANGED ffiVars
  BY <1>6 DEF ffiVars, vars, options
<1>. QED
  BY <1>1, <1>2, <1>3, <1>4, <1>5, <1>6 DEF FfiNext

\* After a change of AutoCommit to off that went through, the server stages every
\* statement, through any sequence of calls, failures and lost connections, until
\* the option changes again.  A call that finds the option off already is no such
\* change: it returns Ok whatever became of the change before it.
THEOREM OffStaysManual == FfiSpec => []ManualOnceSwitched
<1>1. FfiInit => ManualInv
  BY DEF FfiInit, ManualInv, ManualOnceSwitched
<1>2. ManualInv => ManualOnceSwitched
  BY DEF ManualInv
<1>. QED
  BY <1>1, <1>2, ManualStep, PTL DEF FfiSpec
=============================================================================
