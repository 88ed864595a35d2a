--------------------------- MODULE NativePassword ---------------------------
(***************************************************************************)
(* The encoded password of a native login (exasol_encode_pwd of            *)
(* src/src/transport/native/handshake.rs).  A block of ciphertext is       *)
(* <<"rsa", plaintext, n, e>>: only the server, which has the private key, *)
(* can tell the plaintext.  It stands for modpow with a modulus and an     *)
(* exponent that are not zero and a modulus of at most a block; see Usable *)
(* of NativeKeys.                                                          *)
(***************************************************************************)
EXTENDS Integers, Sequences

CONSTANT RsaKeyLength   \* RSA_KEY_LENGTH, 128: the bytes of a block of ciphertext

ASSUME NativePasswordAssumption == RsaKeyLength \in Nat /\ RsaKeyLength > 0 /\ RsaKeyLength % 2 = 0

\* Mutant: the plaintext is rounded down to whole blocks.
WholeBlocks_Down(n) == n - (n % RsaKeyLength)

\* The plaintext fills whole blocks.
WholeBlocks(n) == IF n % RsaKeyLength = 0 THEN n ELSE n + RsaKeyLength - (n % RsaKeyLength)

\* exasol_encode_pwd: password, ended by a zero, and phrase, byte by byte in turn, each
\* from its start again when it ends.
Interleaved(password, phrase) ==
  LET pwd     == Append(password, 0)
      longest == IF Len(pwd) > Len(phrase) THEN Len(pwd) ELSE Len(phrase) IN
  [i \in 1 .. WholeBlocks(2 * longest) |->
     LET k == (i - 1) \div 2 IN IF i % 2 = 1 THEN pwd[(k % Len(pwd)) + 1] ELSE phrase[(k % Len(phrase)) + 1]]

\* exasol_encode_pwd: half a block of plaintext in each block of ciphertext.
ExasolEncodePwd(password, phrase, key) ==
  LET plain  == Interleaved(password, phrase)
      input  == RsaKeyLength \div 2
      blocks == (2 * Len(plain)) \div RsaKeyLength IN
  IF phrase = <<>> THEN <<>>
  ELSE [b \in 1 .. blocks |-> <<"rsa", SubSeq(plain, (b - 1) * input + 1, b * input), key[1], key[2]>>]

-----------------------------------------------------------------------------
(* What the server reads                                                   *)

\* The i-th byte of the plaintexts of the blocks, one block after the other.
PlainByte(sent, i) ==
  LET input == RsaKeyLength \div 2 IN sent[((i - 1) \div input) + 1][2][((i - 1) % input) + 1]

\* The server, which decrypts block by block, finds in every other byte, from the first
\* one on, the whole password and the zero behind it, and in the bytes between them its
\* own phrase to the end; each block is enciphered with its key and holds half a block
\* of plaintext.
PasswordRead(sent, password, phrase, key) ==
  LET input == RsaKeyLength \div 2 IN
  /\ \A b \in DOMAIN sent : Len(sent[b][2]) = input /\ sent[b][3] = key[1] /\ sent[b][4] = key[2]
  /\ 2 * Len(password) + 1 <= Len(sent) * input /\ 2 * Len(phrase) <= Len(sent) * input
  /\ \A k \in 1 .. Len(password) : PlainByte(sent, 2 * k - 1) = password[k]
  /\ PlainByte(sent, 2 * Len(password) + 1) = 0
  /\ \A k \in 1 .. Len(phrase) : PlainByte(sent, 2 * k) = phrase[k]
=============================================================================
