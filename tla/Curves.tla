------------------------------- MODULE Curves -------------------------------
(***************************************************************************)
(* Keys and signatures (crates/crypto) and the derivation of keys          *)
(* (crates/kdf), over a toy group: the numbers modulo a prime q, with the  *)
(* generator 1, so that a point is its own logarithm.  A point and its     *)
(* negative have the same x coordinate and differ in the parity of y, as   *)
(* on a curve, which is what ECDSA, its recovery ids and its malleability  *)
(* depend on.  Ed25519 is symbolic: hashes never collide.                  *)
(*                                                                         *)
(* The crates have two builds: one runs on NEAR and calls the host, the    *)
(* other runs anywhere and calls a library.                                *)
(***************************************************************************)
EXTENDS Naturals, Sequences, FiniteSets

CONSTANTS
    q,       \* the order of the group, an odd prime
    Nil

ASSUME GroupAssumption == q \in Nat /\ q > 3 /\ \A d \in 2 .. q - 1 : q % d # 0

Scalars == 0 .. q - 1
Inv(a) == CHOOSE b \in Scalars : (a * b) % q = 1
Neg(a) == (q - a) % q

(* Affine coordinates of a point other than 0, and of nothing else.        *)
X(P) == IF P > q \div 2 THEN q - P ELSE P
Y(P) == IF P > q \div 2 THEN 1 ELSE 0
Xs == 1 .. q \div 2
Point(x, y) == IF x \notin Xs \/ y \notin {0, 1} THEN Nil
               ELSE IF y = 0 THEN x ELSE q - x

IsHigh(s) == s > q \div 2
-----------------------------------------------------------------------------
(* Bytes of keys and signatures.  Coordinates that are on no curve, and    *)
(* scalars that are none, are also bytes.                                  *)
CompressedBytes == [tag : 1 .. 3, x : 0 .. q]
SignatureBytes == [r : 0 .. q, s : 0 .. q]

ToUncompressed(P) == [x |-> X(P), y |-> Y(P)]
FromUncompressed(b) == Point(b.x, b.y)
ToCompressed(P) == [tag |-> 2 + Y(P), x |-> X(P)]
FromCompressed(b) == IF b.tag = 1 THEN Nil ELSE Point(b.x, b.tag - 2)

(* P256UncompressedPublicKey::compress(), which looks at no more of y than *)
(* its parity.                                                             *)
Compress(b) == [tag |-> 2 + (b.y % 2), x |-> b.x]

FromSignatureBytes(b) == IF b.r \in 1 .. q - 1 /\ b.s \in 1 .. q - 1 THEN b ELSE Nil

(* Secp256k1RecoverableSignature: the recovery id is one byte more.        *)
ToRecoverable(sig) == [r |-> sig.r, s |-> sig.s, id |-> sig.id]
FromRecoverable(b) ==
    IF FromSignatureBytes([r |-> b.r, s |-> b.s]) = Nil \/ b.id \notin 0 .. 3
    THEN Nil ELSE b

(* The text of a key: the name of its curve may be left out.               *)
ToBase58(curve, b) == [curve |-> curve, data |-> b]
ParseBase58(curve, text, bytes) ==
    IF text.curve \in {curve, Nil} /\ text.data \in bytes THEN text.data ELSE Nil
-----------------------------------------------------------------------------
(* Signing and verification take a prehash of 32 bytes and nothing else.   *)
IsPrehash(z) == z \in Scalars

(* ECDSA of the libraries, for a prehash z and a secret number k.          *)
RawSign(sk, z, k) ==
    [r |-> X(k), s |-> (Inv(k) * (z + X(k) * sk)) % q, id |-> Y(k)]
Normalized(sig) ==
    IF IsHigh(sig.s) THEN [sig EXCEPT !.s = Neg(@), !.id = 1 - @] ELSE sig
CanSign(sk, z, k) == k # 0 /\ RawSign(sk, z, k).s # 0

VerifyPrehash(pk, z, sig) ==
    LET R == (z * Inv(sig.s) + sig.r * Inv(sig.s) * pk) % q
    IN  R # 0 /\ X(R) = sig.r
RecoverFromPrehash(z, sig, id) ==
    LET R == Point(sig.r, id)
        pk == (Inv(sig.r) * (sig.s * R + Neg(z))) % q
    IN  IF R = Nil THEN Nil ELSE IF pk = 0 THEN Nil ELSE pk

(* Secp256k1::recover(): on NEAR the host refuses high s, and its answer   *)
(* is bytes.                                                               *)
Recover(near, z, sig, id) ==
    LET pk == RecoverFromPrehash(z, sig, id)
    IN  IF ~ IsPrehash(z) \/ IsHigh(sig.s) THEN Nil
        ELSE IF near /\ pk # Nil THEN FromUncompressed(ToUncompressed(pk))
        ELSE pk

(* Secp256k1::verify(): the host can only recover, so that the build for   *)
(* NEAR tries all recovery ids.                                            *)
VerifySecp256k1(near, pk, z, sig) ==
    /\ IsPrehash(z)
    /\ IF near THEN \E id \in 0 .. 3 : Recover(near, z, sig, id) = pk
       ELSE ~ IsHigh(sig.s) /\ VerifyPrehash(pk, z, sig)

(* P256::verify().                                                         *)
VerifyP256(near, pk, z, sig) ==
    /\ IsPrehash(z)
    /\ ~ IsHigh(sig.s)
    /\ VerifyPrehash(IF near THEN FromCompressed(ToCompressed(pk)) ELSE pk, z, sig)

(* Signer::sign() of both curves; k256 normalizes by itself.               *)
SignRecoverable(sk, z, k) ==
    IF IsPrehash(z) THEN Normalized(RawSign(sk, z, k)) ELSE Nil
SignP256Raw(sk, z, k) == IF IsPrehash(z) THEN RawSign(sk, z, k) ELSE Nil
SignP256(sk, z, k) == IF IsPrehash(z) THEN Normalized(RawSign(sk, z, k)) ELSE Nil

(* Ed25519: the secret number is a hash of a secret prefix and the         *)
(* message, and the challenge a hash of that, the key and the message.     *)
RawSignEd25519(esk, msg) ==
    [nonce |-> <<esk.hash_prefix, msg>>, by |-> esk.scalar, msg |-> msg]
Challenge(sig) == <<sig.nonce, sig.by, sig.msg>>
IsWeak(pk) == pk = 0
VerifyEd25519(pk, msg, sig) == ~ IsWeak(pk) /\ sig.by = pk /\ sig.msg = msg
-----------------------------------------------------------------------------
(* A schema is a function of a path, and Derive composes two.              *)
Derive(outer, inner, path) == outer[inner[path]]

(* ReduceScalar: bytes to a scalar, which is never zero for secp256k1.     *)
ReduceScalarEd25519(n) == n % q
ReduceScalarSecp256k1(n) == (n % (q - 1)) + 1

(* Additive: the point at infinity is a key of Ed25519 and no key of       *)
(* secp256k1, where it is a panic.                                         *)
Point2pk(curve, P) == IF curve = "secp256k1" /\ P = 0 THEN Nil ELSE P
Additive(curve, master_pk, tweak) == Point2pk(curve, (master_pk + tweak) % q)

(* derive_sign_recoverable() of a secp256k1 key: an error if the derived   *)
(* key is zero.                                                            *)
DerivedScalar(sk, tweak) == (sk + tweak) % q
DeriveSignRecoverable(sk, tweak, z, k) ==
    LET derived == DerivedScalar(sk, tweak)
    IN  IF derived = 0 THEN Nil ELSE SignRecoverable(derived, z, k)

(* derive_sign() of an Ed25519 key: the prefix is derived, too.            *)
DerivedPrefix(hash_prefix, tweak) == <<hash_prefix, tweak>>
DeriveSignEd25519(esk, tweak, msg) ==
    RawSignEd25519([scalar |-> DerivedScalar(esk.scalar, tweak),
                    hash_prefix |-> DerivedPrefix(esk.hash_prefix, tweak)], msg)
=============================================================================
