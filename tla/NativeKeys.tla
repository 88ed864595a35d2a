----------------------------- MODULE NativeKeys -----------------------------
(***************************************************************************)
(* The server's key in a native login (src/src/transport/native/           *)
(* handshake.rs).  It comes as PKCS#1 DER, like that of the WebSocket      *)
(* transport, or as two halves, exponent and modulus.                      *)
(***************************************************************************)
EXTENDS WsMessages, NativePassword

\* parse_rsa_public_key_pkcs1_der, read_der_length, read_der_integer: as in messages.rs.
Pkcs1Key(der) == ParseRsaPublicKey(der)

Zero(bytes) == \A i \in DOMAIN bytes : bytes[i] = 0

\* BigUint::from_bytes_be.
Unpadded(bytes) ==
  LET digits == {i \in DOMAIN bytes : bytes[i] # 0} IN
  IF digits = {} THEN <<>> ELSE From(bytes, CHOOSE i \in digits : \A j \in digits : i <= j)

\* parse_rsa_public_key: <<n, e>>.
NativeRsaKey(data) ==
  LET half == Len(data) \div 2
      e    == SubSeq(data, 1, half)
      n    == SubSeq(data, half + 1, Len(data)) IN
  CASE data # <<>> /\ data[1] = 48                  -> Pkcs1Key(data)
    [] data = <<>>                                  -> BadKey
    [] OTHER -> IF Len(data) < 4 \/ Len(data) % 2 # 0 \/ Zero(n) \/ Zero(e) THEN BadKey ELSE <<Unpadded(n), Unpadded(e)>>

\* A key that enciphers: modpow panics if the modulus is zero, and gives the same block for
\* every plaintext if the exponent is.  Only a key in two halves is checked for this.
Usable(key) == key # BadKey /\ ~Zero(key[1]) /\ ~Zero(key[2])
=============================================================================
