---------------------------- MODULE SessionCrypto ----------------------------
(***************************************************************************)
(* crypto.py, with ideal cryptography: a derived key is the list of what   *)
(* it is derived from, and a ciphertext opens under the key and IV it was  *)
(* made with and, when it was not touched, under nothing else.             *)
(***************************************************************************)
EXTENDS Naturals

CONSTANT Absent  \* None; here, the exception of a failed decryption

(* A COSE_Key is [kty, crv, point]; only points of P-256 can be used.      *)
CoseKeyToPublicKey(coseKey) ==
    IF coseKey.kty = "EC2" /\ coseKey.crv = "P-256" THEN coseKey.point ELSE Absent

(* The bytes of [Tag 24 engagement, Tag 24 EReaderKey, handover].          *)
BuildSessionTranscript(engagement, readerKey, handover) == <<engagement, readerKey, handover>>

(* ECDH between one's private and the other's public key.                  *)
Agreed(one, other) == {one, other}

SkReader(zab, transcript) == <<"SKReader", zab, transcript>>

SkDeviceForBoth(zab, transcript) == <<"SKReader", zab, transcript>>
SkDevice(zab, transcript)        == <<"SKDevice", zab, transcript>>

GcmIv(identifier, counter) == <<identifier, counter>>

Encrypt(key, iv, text) == [key |-> key, iv |-> iv, text |-> text, intact |-> TRUE]

Decrypt(key, iv, ciphertext) ==
    IF ciphertext.intact /\ ciphertext.key = key /\ ciphertext.iv = iv THEN ciphertext.text ELSE Absent

EncryptReaderMessage(sk, counter, text) == Encrypt(sk, GcmIv("reader", counter), text)

DecryptDeviceMessage(sk, counter, ciphertext) == Decrypt(sk, GcmIv("mdoc", counter), ciphertext)
=============================================================================
