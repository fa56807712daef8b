-------------------------------- MODULE Mpc ---------------------------------
(***************************************************************************)
(* Clients of the MPC network (crates/mpc): the on-chain signer, which     *)
(* sends sign() to the MPC contract and looks for its signature among the  *)
(* receipts of the transaction, and confidential key derivation (CKD), in  *)
(* which an application asks for a secret that only it can decrypt.  The   *)
(* groups of the pairing are the group of Curves, so that e(a, b) = a * b. *)
(***************************************************************************)
EXTENDS Curves

CONSTANTS
    MpcAccounts,       \* accounts that call the MPC contract
    MpcPaths,          \* derivation paths
    MpcMessages,       \* those below q are 32 bytes long
    TweakDigest(_, _), \* SHA3 of "epsilon derivation", predecessor and path
    AppHash(_, _),     \* the point of "app_id derivation", predecessor and path
    MpcDomains,        \* domain id -> curve and secret key of the network
    MpcNonces,         \* secret numbers the network signs with
    MaxReceipts,       \* receipts of one transaction
    MaxOpened,         \* CKD answers that an application opens
    OffGroup           \* a point of the curve that is not in the group

VARIABLES
    mpc_signer,        \* MpcOnChainSigner, Nil before from_domain_id()
    mpc_request,       \* what is being signed
    mpc_receipts,      \* outcomes of the receipts of its transaction
    mpc_result,        \* what derive_sign() returned
    ckd_app,           \* the ephemeral key of an application and its app id
    opened             \* CKD answers and what became of them

signing_vars == <<mpc_signer, mpc_request, mpc_receipts, mpc_result>>
ckd_vars == <<ckd_app, opened>>
mpc_vars == <<signing_vars, ckd_vars>>
-----------------------------------------------------------------------------
(* crates/mpc/kdf: the digest becomes a scalar, for secp256k1 only if it   *)
(* already is one.                                                         *)
ToScalar(curve, digest) ==
    IF curve = "ed25519" THEN digest % q
    ELSE IF digest \in 1 .. q - 1 THEN digest ELSE Nil
MpcTweakOfPath(curve, predecessor, path) ==
    ToScalar(curve, TweakDigest(CHOOSE a \in MpcAccounts : TRUE, path))
MpcTweak(curve, predecessor, path) == ToScalar(curve, TweakDigest(predecessor, path))

(* The MPC contract: it derives secret keys on its own.                    *)
MpcDerivedSecret(domain, predecessor, path) ==
    LET d == MpcDomains[domain]
        tweak == TweakDigest(predecessor, path)
    IN  IF d.curve = "secp256k1" /\ tweak \notin 1 .. q - 1 THEN Nil
        ELSE DerivedScalar(d.secret, tweak)
MpcResponse(domain, predecessor, path, msg, k) ==
    LET d == MpcDomains[domain]
        sk == MpcDerivedSecret(domain, predecessor, path)
    IN  IF sk \in {Nil, 0} THEN Nil
        ELSE IF d.curve = "ed25519"
        THEN [scheme |-> "ed25519",
              signature |-> RawSignEd25519([scalar |-> sk, hash_prefix |-> k], msg)]
        ELSE IF ~ IsPrehash(msg) \/ ~ CanSign(sk, msg, k) THEN Nil
        ELSE LET sig == Normalized(RawSign(sk, msg, k))
             IN  [scheme |-> "secp256k1", s |-> sig.s, recovery_id |-> sig.id,
                  big_r |-> ToCompressed(Point(sig.r, sig.id))]
-----------------------------------------------------------------------------
Ok(sig) == [ok |-> TRUE, sig |-> sig]
Err(error) == [ok |-> FALSE, error |-> error]

(* MpcOnChainSigner::from_domain_id(): the domain has to be of the curve.  *)
FromDomainId(curve, sender, domain) ==
    /\ mpc_signer = Nil /\ mpc_result = Nil
    /\ IF MpcDomains[domain].curve = curve
       THEN /\ mpc_signer' = [curve |-> curve, sender |-> sender, domain |-> domain,
                              public_key |-> MpcDomains[domain].secret]
            /\ UNCHANGED mpc_result
       ELSE mpc_result' = Err("InvalidDomain") /\ UNCHANGED mpc_signer
    /\ UNCHANGED <<mpc_request, mpc_receipts, ckd_vars>>

MpcDerivedKey(s, path) ==
    LET tweak == MpcTweak(s.curve, s.sender, path)
    IN  IF tweak = Nil THEN Nil ELSE Additive(s.curve, s.public_key, tweak)

(* derive_sign() and derive_sign_recoverable(), up to the transaction.     *)
MsgToPayload(curve, msg) == curve = "ed25519" \/ IsPrehash(msg)
SendSignRequest(path, msg, recoverable) ==
    /\ mpc_signer # Nil /\ mpc_request = Nil /\ mpc_result = Nil
    /\ recoverable => mpc_signer.curve = "secp256k1"
    /\ IF MsgToPayload(mpc_signer.curve, msg)
       THEN /\ mpc_request' = [path |-> path, msg |-> msg, recoverable |-> recoverable]
            /\ UNCHANGED mpc_result
       ELSE mpc_result' = Err("InvalidPayload") /\ UNCHANGED mpc_request
    /\ UNCHANGED <<mpc_signer, mpc_receipts, ckd_vars>>

(* Receipts of the transaction: the answer to this request, answers to     *)
(* other requests that were sent along, receipts that failed or returned   *)
(* something else (Nil), and receipts of other contracts.                 *)
AddReceipt(ours, executor, value) ==
    /\ mpc_request # Nil /\ mpc_result = Nil
    /\ Len(mpc_receipts) < MaxReceipts
    /\ mpc_receipts' =
           Append(mpc_receipts, [ours |-> ours, executor |-> executor, value |-> value])
    /\ UNCHANGED <<mpc_signer, mpc_request, mpc_result, ckd_vars>>
AnswerRequest(k) ==
    /\ mpc_request # Nil
    /\ LET value == MpcResponse(mpc_signer.domain, mpc_signer.sender,
                                mpc_request.path, mpc_request.msg, k)
       IN  value # Nil /\ AddReceipt(TRUE, "mpc", value)
AnswerAnother(sender, domain, path, msg, k, executor) ==
    AddReceipt(FALSE, executor, MpcResponse(domain, sender, path, msg, k))

(* The extraction of a signature from a response: one that is of another   *)
(* curve, does not parse or does not verify is "either invalid or not      *)
(* ours".                                                                  *)
ParseRecoverableSignature(resp) ==
    IF resp.scheme # "secp256k1" THEN Nil
    ELSE FromRecoverable([r |-> resp.big_r.x, s |-> resp.s, id |-> resp.recovery_id])
ExtractSignature(curve, resp) ==
    IF curve = "secp256k1" THEN ParseRecoverableSignature(resp)
    ELSE IF resp.scheme = "ed25519" THEN resp.signature ELSE Nil
MpcVerify(curve, pk, msg, sig) ==
    IF curve = "secp256k1" THEN VerifySecp256k1(FALSE, pk, msg, sig)
    ELSE VerifyEd25519(pk, msg, sig)
IsOurs(resp) ==
    LET sig == ExtractSignature(mpc_signer.curve, resp)
        pk == MpcDerivedKey(mpc_signer, mpc_request.path)
    IN  /\ sig # Nil
        /\ IF mpc_request.recoverable
           THEN Recover(FALSE, mpc_request.msg, sig, sig.id) = pk
           ELSE MpcVerify(mpc_signer.curve, pk, mpc_request.msg, sig)

(* sign_extract(), once the transaction was executed: the first response   *)
(* that extracts.  Without a derived key it panics on the first signature. *)
SignExtract ==
    LET Matching == {i \in DOMAIN mpc_receipts :
                        /\ mpc_receipts[i].executor = "mpc"
                        /\ mpc_receipts[i].value # Nil
                        /\ IsOurs(mpc_receipts[i].value)}
        Parsed == {i \in DOMAIN mpc_receipts :
                      /\ mpc_receipts[i].executor = "mpc"
                      /\ mpc_receipts[i].value # Nil
                      /\ ExtractSignature(mpc_signer.curve, mpc_receipts[i].value) # Nil}
    IN  /\ mpc_request # Nil /\ mpc_result = Nil
        /\ mpc_result' =
               IF MpcDerivedKey(mpc_signer, mpc_request.path) = Nil
               THEN IF Parsed = {} THEN Err("SignatureNotFound") ELSE Err("Panic")
               ELSE IF Matching = {} THEN Err("SignatureNotFound")
               ELSE LET i == CHOOSE i \in Matching : \A j \in Matching : i <= j
                    IN  Ok(ExtractSignature(mpc_signer.curve, mpc_receipts[i].value))
        /\ UNCHANGED <<mpc_signer, mpc_request, mpc_receipts, ckd_vars>>
-----------------------------------------------------------------------------
(* crates/mpc/kdf: the app id is a hash of the account and the path.       *)
AppId(predecessor, path) == <<predecessor, path>>

(* crates/mpc/ckd.  Compressed bytes of a point that is not in the group   *)
(* do not parse; is_valid_g1() and is_valid_g2() also refuse the identity. *)
IsValidPoint(p) == p \notin {0, OffGroup}
Pairing(a, b) == (a * b) % q
HashPoint(app_id) == AppHash(app_id[1], app_id[2])

(* The network's key for CKD is the one of its last domain.                *)
MpcCkdSecret == MpcDomains[CHOOSE d \in DOMAIN MpcDomains : MpcDomains[d].curve = "bls12381"].secret

PublicKeyPv(sk) == [pk1 |-> sk, pk2 |-> sk]
IsValidPv(pk) ==
    /\ IsValidPoint(pk.pk1) /\ IsValidPoint(pk.pk2)
    /\ Pairing(pk.pk1, 1) = Pairing(1, pk.pk2)

IsValidResponse(resp) == IsValidPoint(resp.big_c) /\ IsValidPoint(resp.big_y)

(* AppPublicKeyPV::verify(): anyone can check an answer.                   *)
VerifyPv(pk, mpc_pk, app_id, resp) ==
    /\ IsValidResponse(resp)
    /\ Pairing(resp.big_c, 1)
          = (Pairing(resp.big_y, pk.pk2) + Pairing(HashPoint(app_id), mpc_pk)) % q

(* AppPrivateKey::decrypt_verify(): the application decrypts the answer    *)
(* and checks that the secret is the network's signature of its app id.    *)
DecryptAdding(sk, resp) ==
    IF IsValidResponse(resp) THEN (resp.big_c + resp.big_y * sk) % q ELSE Nil
Decrypt(sk, resp) ==
    IF IsValidResponse(resp) THEN (resp.big_c + Neg((resp.big_y * sk) % q)) % q ELSE Nil
VerifySecret(mpc_pk, app_id, secret) ==
    /\ IsValidPoint(secret) /\ IsValidPoint(mpc_pk)
    /\ Pairing(secret, 1) = Pairing(HashPoint(app_id), mpc_pk)
DecryptVerify(sk, mpc_pk, app_id, resp) ==
    LET secret == Decrypt(sk, resp)
    IN  IF secret = Nil THEN Nil
        ELSE IF VerifySecret(mpc_pk, app_id, secret) THEN secret ELSE Nil

(* An application makes an ephemeral key for each request, and opens       *)
(* whatever it is given as the answer.                                     *)
Ephemeral(predecessor, path, sk) ==
    /\ ckd_app = Nil
    /\ ckd_app' = [sk |-> sk, id |-> AppId(predecessor, path)]
    /\ UNCHANGED <<opened, signing_vars>>
Open(resp) ==
    /\ ckd_app # Nil
    /\ Cardinality(opened) < MaxOpened
    /\ opened' = opened \cup
           {[id |-> ckd_app.id,
             public |-> VerifyPv(PublicKeyPv(ckd_app.sk), MpcCkdSecret, ckd_app.id, resp),
             secret |-> DecryptVerify(ckd_app.sk, MpcCkdSecret, ckd_app.id, resp)]}
    /\ ckd_app' = Nil
    /\ UNCHANGED signing_vars
-----------------------------------------------------------------------------
MpcInit ==
    /\ mpc_signer = Nil /\ mpc_request = Nil
    /\ mpc_receipts = <<>> /\ mpc_result = Nil
    /\ ckd_app = Nil /\ opened = {}

CkdPoints == Scalars \cup {OffGroup}
SigningDomains == {d \in DOMAIN MpcDomains : MpcDomains[d].curve # "bls12381"}

SigningNext ==
    \/ \E curve \in {"secp256k1", "ed25519"}, a \in MpcAccounts, d \in SigningDomains :
           FromDomainId(curve, a, d)
    \/ \E path \in MpcPaths, msg \in MpcMessages, recoverable \in BOOLEAN :
           SendSignRequest(path, msg, recoverable)
    \/ \E k \in MpcNonces : AnswerRequest(k)
    \/ \E a \in MpcAccounts, d \in SigningDomains, path \in MpcPaths,
          msg \in MpcMessages, k \in MpcNonces, executor \in {"mpc", "other"} :
           AnswerAnother(a, d, path, msg, k, executor)
    \/ SignExtract
CkdNext ==
    \/ \E a \in MpcAccounts, path \in MpcPaths, sk \in Scalars \ {0} : Ephemeral(a, path, sk)
    \/ \E y, c \in CkdPoints : Open([big_y |-> y, big_c |-> c])
-----------------------------------------------------------------------------
(* A signature that derive_sign() returns verifies under the key that the  *)
(* network derived for this caller and path, whatever else the transaction *)
(* contains, and it returns one whenever its own request was answered.     *)
OurSignatureIsFound ==
    mpc_request # Nil /\ mpc_result # Nil =>
        /\ mpc_result.ok =>
               MpcVerify(mpc_signer.curve,
                         MpcDerivedSecret(mpc_signer.domain, mpc_signer.sender, mpc_request.path),
                         mpc_request.msg, mpc_result.sig)
        /\ (\E i \in DOMAIN mpc_receipts : mpc_receipts[i].ours) => mpc_result.ok

(* However the answers and the ephemeral keys vary, an app id has one      *)
(* secret: the network's signature of it.  An application gets it exactly  *)
(* when the public check of the MPC contract accepts the answer.           *)
SecretsAreUnique ==
    /\ ckd_app # Nil => IsValidPv(PublicKeyPv(ckd_app.sk))
    /\ \A o \in opened :
           /\ o.public <=> o.secret # Nil
           /\ o.secret # Nil => o.secret = (MpcCkdSecret * HashPoint(o.id)) % q
=============================================================================
