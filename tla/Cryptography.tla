---------------------------- MODULE Cryptography ----------------------------
(***************************************************************************)
(* crypto/web_cryptography.ts of the client, as perfect cryptography.  A   *)
(* key is a set of the numbers it was made from: {n} is a generated AES    *)
(* key or key pair, {m, n} the secret that two ECDH pairs share, and {} is *)
(* the text "" that a direct room has before its key is derived.           *)
(* Encryption takes its IV from the key, so equal inputs give equal        *)
(* outputs.  Failed is the exception thrown by an operation.               *)
(***************************************************************************)
CONSTANT Failed

NoKey == {}

generateSymmetricKey(n) == {n}
generateKeyPair(n)      == {n}
generateECDHKeyPair(n)  == {n}

\* The same key from either side: what {a} derives with {b}, {b} derives with {a}.
deriveSharedSecretKey(private, public) == private \cup public

\* JSON.parse("") throws: nothing is encrypted or decrypted with NoKey.
encryptMessageSymmetric(message, key) ==
  IF key = NoKey THEN Failed ELSE [sealed |-> message, with |-> key]
\* AES-GCM authenticates: another key is refused, not decrypted to rubbish.
decryptMessageSymmetric(cipher, key) ==
  IF key # NoKey /\ key = cipher.with THEN cipher.sealed ELSE Failed

\* RSA-OAEP: a key pair is represented by one value, public and private part.
encryptMessageAsymmetric(message, public) == [sealed |-> message, to |-> public]
decryptMessageAsymmetric(cipher, private) ==
  IF cipher.to = private THEN cipher.sealed ELSE Failed

\* SHA-256 without collisions.
hash(text) == <<"sha256", text>>
=============================================================================
