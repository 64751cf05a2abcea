------------------------------ MODULE Envelope ------------------------------
(***************************************************************************)
(* internal/crypto/envelope.go: a secret is sealed under a data key (DEK), *)
(* and the DEK is sealed under the key-encryption key (KEK) read from a    *)
(* file.  A key is a value of its own; AES-256-GCM is abstracted to what   *)
(* its callers can tell: a blob opens exactly under the key and the        *)
(* additional data (AAD) it was sealed with.  Nonces and the format byte   *)
(* never differ between blobs the program itself wrote.                    *)
(***************************************************************************)
CONSTANT NoKey      \* bytes that are no key: wrong length, or nothing was read

Blobs(K, P, A) == [key : K, plain : P, aad : A]

\* A mutant: the length of the key is not checked.
acceptAnyKey(key) == TRUE

validateKey(key) == key # NoKey

encryptAESGCM(key, plain, aad) == [key |-> key, plain |-> plain, aad |-> aad]

\* decryptAESGCM succeeds; the plaintext it then returns is blob.plain.
decryptAESGCM(key, blob, aad) ==
    /\ validateKey(key)
    /\ blob.key = key
    /\ blob.aad = aad

\* NewEnvelope wraps a DEK drawn at random; the caller passes the draw.
NewEnvelope(kek, version, dek, aad) ==
    [wrappedDEK |-> encryptAESGCM(kek, dek, aad), kekVersion |-> version]

\* OpenEnvelope succeeds; it never looks at the envelope's KEK version.
OpenEnvelope(kek, wrappedDEK, aad) ==
    /\ decryptAESGCM(kek, wrappedDEK, aad)
    /\ validateKey(wrappedDEK.plain)

\* EncryptWithAAD of an encrypter or a decrypter holding dek.
EncryptWithAAD(dek, plain, aad) == encryptAESGCM(dek, plain, aad)

\* DecryptWithAAD of a decrypter holding dek succeeds.
DecryptWithAAD(dek, blob, aad) == decryptAESGCM(dek, blob, aad)
=============================================================================
