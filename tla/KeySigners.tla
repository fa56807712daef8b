---------------------------- MODULE KeySigners ------------------------------
(***************************************************************************)
(* The signers of crates/crypto and crates/kdf that hold their keys: a     *)
(* root secret that signs prehashes and messages with keys derived from    *)
(* it.  Everything it ever signed is kept, to compare the signatures with  *)
(* one another and with the keys that anyone derives from the root public  *)
(* key alone.                                                              *)
(***************************************************************************)
EXTENDS Curves

CONSTANTS
    Paths,        \* 32-byte derivation paths, as numbers
    Messages,     \* those below q are 32 bytes long, and the others are not
    MaxSigned     \* how many signatures are asked for

VARIABLES
    root,         \* the root secret
    key_signed        \* the answers: [curve, path, msg, sig]

signers_vars == <<root, key_signed>>

(* `SigningKey::derive_with(ReduceScalar::new())`                          *)
Tweak(curve, path) ==
    IF curve = "secp256k1" THEN ReduceScalarSecp256k1(path)
    ELSE ReduceScalarEd25519(path)
DerivePublicKey(curve, path) ==
    LET outer == [tweak \in Scalars |-> Additive(curve, root, tweak)]
        inner == [p \in Paths |-> Tweak(curve, p)]
    IN  Derive(outer, inner, path)

SignersInit ==
    /\ root \in Scalars \ {0}
    /\ key_signed = {}

Answer(curve, path, msg, sig) ==
    /\ Cardinality(key_signed) < MaxSigned
    /\ key_signed' = key_signed \cup {[curve |-> curve, path |-> path, msg |-> msg, sig |-> sig]}
    /\ UNCHANGED root

(* The number k comes from the library, for secp256k1 and P-256.           *)
SignWithSecp256k1(path, msg, k) ==
    LET tweak == ReduceScalarSecp256k1(path)
        derived == DerivedScalar(root, tweak)
    IN  /\ IsPrehash(msg) /\ derived # 0 => CanSign(derived, msg, k)
        /\ Answer("secp256k1", path, msg, DeriveSignRecoverable(root, tweak, msg, k))
SignWithP256(msg, k) ==
    /\ IsPrehash(msg) => CanSign(root, msg, k)
    /\ Answer("p256", Nil, msg, SignP256(root, msg, k))
SignWithEd25519(path, msg) ==
    Answer("ed25519", path, msg,
           DeriveSignEd25519([scalar |-> root, hash_prefix |-> Nil],
                             ReduceScalarEd25519(path), msg))

SignersNext ==
    \E msg \in Messages :
        \/ \E path \in Paths, k \in Scalars \ {0} : SignWithSecp256k1(path, msg, k)
        \/ \E k \in Scalars \ {0} : SignWithP256(msg, k)
        \/ \E path \in Paths : SignWithEd25519(path, msg)
-----------------------------------------------------------------------------
(* The outcome of verification for the key that the caller derives, after  *)
(* key and signature went through their bytes and text.                    *)
ThroughText(curve, pk) ==
    FromCompressed(ParseBase58(curve, ToBase58(curve, Compress(ToUncompressed(pk))), CompressedBytes))
EcdsaVerifies(near, e, sig) ==
    IF e.curve = "secp256k1"
    THEN VerifySecp256k1(near, DerivePublicKey(e.curve, e.path), e.msg, sig)
    ELSE VerifyP256(near, ThroughText("p256", root), e.msg, sig)

(* A signer refuses exactly what is no prehash, and the one path that      *)
(* cancels its root key; any other signature verifies, on NEAR and         *)
(* elsewhere, under the key derived from the public key alone, and a       *)
(* secp256k1 one recovers to that key.  (An Ed25519 key that cancels the   *)
(* root signs, and nobody accepts the signature.)                          *)
SignedVerifies ==
    \A e \in key_signed :
        IF e.curve = "ed25519"
        THEN VerifyEd25519(DerivePublicKey(e.curve, e.path), e.msg, e.sig)
                <=> DerivePublicKey(e.curve, e.path) # 0
        ELSE IF e.sig = Nil
        THEN \/ ~ IsPrehash(e.msg)
             \/ e.curve = "secp256k1" /\ DerivePublicKey(e.curve, e.path) = Nil
        ELSE \A near \in BOOLEAN :
                /\ EcdsaVerifies(near, e, e.sig)
                /\ e.curve = "secp256k1" =>
                       LET b == FromRecoverable(ToRecoverable(e.sig))
                       IN  Recover(near, e.msg, b, b.id) = DerivePublicKey(e.curve, e.path)

(* Nobody can change a signature into another one: of all the signatures   *)
(* with the r of one that was made, both builds accept that one only, and  *)
(* they agree on all signatures.                                           *)
NotMalleable ==
    \A e \in key_signed : e.curve # "ed25519" /\ e.sig # Nil =>
        \A b \in SignatureBytes : FromSignatureBytes(b) # Nil =>
            /\ EcdsaVerifies(TRUE, e, b) <=> EcdsaVerifies(FALSE, e, b)
            /\ b.r = e.sig.r => (EcdsaVerifies(TRUE, e, b) <=> b.s = e.sig.s)

(* `derive_sign()` of Ed25519: "It's very important to not reuse the same  *)
(* nonce for different challenges": two signatures of derived keys that    *)
(* share a nonce are the same signature.                                   *)
NoncesAreFresh ==
    \A e, f \in key_signed :
        /\ e.curve = "ed25519" /\ f.curve = "ed25519"
        /\ e.sig.nonce = f.sig.nonce
        => Challenge(e.sig) = Challenge(f.sig)

(* What the signers return is accepted, cannot be changed into another     *)
(* signature, and gives nothing of the key away.                           *)
SignersAreSound == SignedVerifies /\ NotMalleable /\ NoncesAreFresh
=============================================================================
