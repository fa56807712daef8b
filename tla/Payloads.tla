------------------------------ MODULE Payloads ------------------------------
(***************************************************************************)
(* What a key signs off chain, and who takes it for what.  The same key    *)
(* may sign intents for the Verifier, in the standard of its wallet        *)
(* (crates/signatures, payload/ of defuse/core), requests and NEP-641      *)
(* messages of a wallet contract (contracts/wallet/signatures), and        *)
(* NEP-641 messages of an account that it is an access key of.  A relayer  *)
(* takes one of the signatures and submits it in any envelope it likes, to *)
(* any of the three.                                                       *)
(*                                                                         *)
(* Bytes are tuples whose first member names their shape, hashes do not    *)
(* collide, a key is named after its curve, and a signature is the pair of *)
(* a key and the bytes that it signed.                                     *)
(***************************************************************************)
EXTENDS Integers, FiniteSets

CONSTANTS
    Texts,          \* the strings to sign, parsed as JSON
    AccountIds,     \* recipients that are account ids
    Recipients,     \* recipients of NEP-413 messages
    PayloadNonces,
    Timestamps,     \* in ticks
    TicksPerSecond,
    MaxEnvelopes,   \* how many envelopes are signed
    NoField         \* a field that the JSON does not have, a failed step

VARIABLES
    envelopes,      \* the envelopes that were signed
    accepted        \* what was accepted: [by, key, payload]

payloads_vars == <<envelopes, accepted>>
-----------------------------------------------------------------------------
(* DefusePayload: serde needs every field and ignores all others.          *)
ParseDefusePayload(text) ==
    IF \E f \in {"signer_id", "deadline", "intents", "verifying_contract", "nonce"} :
          text[f] = NoField
    THEN NoField ELSE text

(* Nep413DefuseMessage, in an envelope with the nonce and the contract.    *)
ParseNep413DefuseMessage(text) ==
    IF \E f \in {"signer_id", "deadline", "intents"} : text[f] = NoField
    THEN NoField ELSE text
ExtractNep413(e) ==
    LET m == ParseNep413DefuseMessage(e.text)
    IN  IF m = NoField \/ e.recipient \notin AccountIds THEN NoField
        ELSE [m EXCEPT !.verifying_contract = e.recipient, !.nonce = e.nonce]

(* TON Connect: text only, and no deadline before the time of signing.     *)
ExtractTonConnect(e) ==
    LET p == ParseDefusePayload(e.text)
    IN  IF e.schema # "text" \/ p = NoField THEN NoField
        ELSE IF p.deadline < e.timestamp THEN NoField ELSE p

ExtractDefusePayload(e) ==
    CASE e.standard = "nep413" -> ExtractNep413(e)
      [] e.standard = "ton_connect" -> ExtractTonConnect(e)
      [] OTHER -> ParseDefusePayload(e.text)
-----------------------------------------------------------------------------
(* What is hashed and signed in each standard.                             *)
Sha256(bytes) == <<"sha256", bytes>>
Keccak256(bytes) == <<"keccak256", bytes>>
Sha3(bytes) == <<"sha3", bytes>>

Seconds(timestamp) == timestamp \div TicksPerSecond

(* NEP-461: the tag of off-chain messages of a NEP.                        *)
OffchainPrefixTag(nep) == <<"2^31 +", nep>>

Nep413Prehash(text, nonce, recipient) ==
    Sha256(<<"borsh", OffchainPrefixTag(413), text, nonce, recipient>>)
Erc191Prehash(text) == Keccak256(<<"Ethereum Signed Message", text>>)
Tip191Prehash(text) == Keccak256(<<"TRON Signed Message", text>>)
Sep53Prehash(text) == Sha256(<<"Stellar Signed Message", text>>)
CellMessageHash(e) == Sha256(<<"message#75569022", Seconds(e.timestamp), e.text>>)
TonConnectPrehashUntyped(e) ==
    IF e.timestamp < 0 THEN NoField
    ELSE IF e.schema = "cell" THEN CellMessageHash(e)
    ELSE Sha256(<<"ton-connect/sign-data", Seconds(e.timestamp), e.text>>)
TonConnectPrehash(e) ==
    IF e.timestamp < 0 THEN NoField
    ELSE IF e.schema = "cell" THEN CellMessageHash(e)
    ELSE Sha256(<<"ton-connect/sign-data", Seconds(e.timestamp), e.schema, e.text>>)

(* The canonical hashes of the wallet and of NEP-641, and the NEP-413      *)
(* payload of an off-chain message: the nonce holds all of the message,    *)
(* the recipient shows whole seconds only.                                 *)
RequestMessageHash(e) == Sha3(<<"NEAR_WALLET_CONTRACT/V1", e.timestamp, e.text>>)
OffchainMessageHash(e) == Sha3(<<"NEAR_NEP641_OFFCHAIN_MESSAGE/V1", e.timestamp, e.text>>)
IntoNep413Prehash(e) ==
    Nep413Prehash(e.text, OffchainMessageHash(e), <<"chain: signer @", Seconds(e.timestamp)>>)
MessageHash(e) ==
    IF e.standard = "wallet_request" THEN RequestMessageHash(e) ELSE OffchainMessageHash(e)

(* A WebAuthn authenticator signs its own data and the hash of the data of *)
(* the client, in which the challenge is.                                  *)
EffectiveMsg(a) ==
    <<"authenticator_data", a.auth_data_len, a.flags,
      Sha256(<<"client_data_json", a.typ, a.challenge>>)>>
MaybePrehash(curve, msg) == IF curve = "p256" THEN Sha256(msg) ELSE msg

(* MultiPayload::hash().                                                   *)
PayloadHash(e) ==
    CASE e.standard = "nep413" -> Nep413Prehash(e.text, e.nonce, e.recipient)
      [] e.standard = "erc191" -> Erc191Prehash(e.text)
      [] e.standard = "tip191" -> Tip191Prehash(e.text)
      [] e.standard = "sep53" -> Sep53Prehash(e.text)
      [] e.standard = "ton_connect" -> TonConnectPrehash(e)
      [] e.standard \in {"raw_ed25519", "webauthn"} -> Sha256(<<"text", e.text>>)

(* What the authenticator is challenged to sign.                           *)
ChallengeOf(e) == IF e.standard = "webauthn" THEN PayloadHash(e) ELSE MessageHash(e)

SignedBytes(e) ==
    CASE e.assertion # NoField -> MaybePrehash(e.curve, EffectiveMsg(e.assertion))
      [] e.assertion = NoField /\ e.standard = "raw_ed25519" -> <<"text", e.text>>
      [] e.assertion = NoField /\ e.standard = "access_key" -> IntoNep413Prehash(e)
      [] e.assertion = NoField /\ e.standard \in {"wallet_request", "wallet_offchain"} ->
             MessageHash(e)
      [] OTHER -> PayloadHash(e)
-----------------------------------------------------------------------------
(* Webauthn::check() of an assertion; some wallets require that the user   *)
(* was verified.                                                           *)
CheckFlags(flags, uv_required) ==
    /\ "UP" \in flags
    /\ uv_required => "UV" \in flags
    /\ "BS" \in flags => "BE" \in flags
CheckAssertion(a, challenge, uv_required) ==
    /\ a.auth_data_len >= 37
    /\ CheckFlags(a.flags, uv_required)
    /\ a.typ = "webauthn.get"
    /\ a.challenge = challenge

(* Curve::verify() and recover().                                          *)
Signs(sig, curve, bytes) == sig.key = curve /\ sig.bytes = bytes

VerifyNep413(e, sig) ==
    Signs(sig, "ed25519", Nep413Prehash(e.text, e.nonce, e.recipient))
RecoverErc191(e, sig) == Signs(sig, "secp256k1", Erc191Prehash(e.text))
RecoverTip191(e, sig) == Signs(sig, "secp256k1", Tip191Prehash(e.text))
VerifyRawEd25519(e, sig) == Signs(sig, "ed25519", <<"text", e.text>>)
VerifySep53(e, sig) == Signs(sig, "ed25519", Sep53Prehash(e.text))
VerifyTonConnect(e, sig) ==
    TonConnectPrehash(e) # NoField /\ Signs(sig, "ed25519", TonConnectPrehash(e))
VerifyWebAuthn(e, sig, uv_required) ==
    /\ CheckAssertion(e.assertion, ChallengeOf(e), uv_required)
    /\ Signs(sig, e.curve, MaybePrehash(e.curve, EffectiveMsg(e.assertion)))

(* MultiPayload::verify().                                                 *)
Verify(e, sig) ==
    CASE e.standard = "nep413" -> VerifyNep413(e, sig)
      [] e.standard = "erc191" -> RecoverErc191(e, sig)
      [] e.standard = "tip191" -> RecoverTip191(e, sig)
      [] e.standard = "raw_ed25519" -> VerifyRawEd25519(e, sig)
      [] e.standard = "webauthn" -> VerifyWebAuthn(e, sig, FALSE)
      [] e.standard = "ton_connect" -> VerifyTonConnect(e, sig)
      [] e.standard = "sep53" -> VerifySep53(e, sig)

(* SignatureSchema of the wallet contracts.                                *)
VerifyWalletEd25519(e, sig) == Signs(sig, "ed25519", MessageHash(e))
VerifyWalletWebauthn(e, sig) == VerifyWebAuthn(e, sig, e.uv_required)
VerifyNoSign(e, sig) == FALSE
VerifyWallet(e, sig) ==
    CASE e.schema = "ed25519" -> VerifyWalletEd25519(e, sig)
      [] e.schema = "webauthn" -> VerifyWalletWebauthn(e, sig)
      [] e.schema = "no_sign" -> VerifyNoSign(e, sig)

(* AccessKeySchema::verify().                                              *)
VerifyAccessKey(e, sig) == Signs(sig, e.curve, IntoNep413Prehash(e))
-----------------------------------------------------------------------------
Texted == [standard : {"erc191", "tip191"}, curve : {"secp256k1"}, text : Texts,
           assertion : {NoField}]
          \cup [standard : {"raw_ed25519", "sep53"}, curve : {"ed25519"}, text : Texts,
                assertion : {NoField}]
Nep413Payloads ==
    [standard : {"nep413"}, curve : {"ed25519"}, text : Texts, nonce : PayloadNonces,
     recipient : Recipients, assertion : {NoField}]
TonConnectPayloads ==
    [standard : {"ton_connect"}, curve : {"ed25519"}, text : Texts,
     schema : {"text", "binary", "cell"}, timestamp : Timestamps, assertion : {NoField}]
AccessKeyMessages ==
    [standard : {"access_key"}, curve : {"ed25519", "secp256k1"}, text : Texts,
     timestamp : {t \in Timestamps : t >= 0}, assertion : {NoField}]
WalletMessages ==
    [standard : {"wallet_request", "wallet_offchain"}, curve : {"ed25519"}, text : Texts,
     timestamp : {0}, schema : {"ed25519", "no_sign"}, assertion : {NoField}]

(* With assertions for a challenge of a given set.                         *)
Assertions(challenges) ==
    [auth_data_len : {36, 37}, flags : {{"UP"}, {"UV"}, {"UP", "BS"}, {"UP", "UV", "BE", "BS"}},
     typ : {"webauthn.get", "webauthn.create"}, challenge : challenges]
WebAuthnPayloads(challenges) ==
    [standard : {"webauthn"}, curve : {"ed25519", "p256"}, text : Texts,
     assertion : Assertions(challenges)]
WalletWebauthnMessages(challenges) ==
    [standard : {"wallet_request", "wallet_offchain"}, curve : {"ed25519", "p256"},
     text : Texts, timestamp : {0}, schema : {"webauthn"}, uv_required : BOOLEAN,
     assertion : Assertions(challenges)]

Envelopes(challenges) ==
    UNION {Texted, Nep413Payloads, TonConnectPayloads, AccessKeyMessages, WalletMessages,
           WebAuthnPayloads(challenges), WalletWebauthnMessages(challenges)}

(* What an envelope says, and to whom.                                     *)
Meaning(e) ==
    CASE e.standard = "access_key" ->
             [by |-> "resolver", key |-> e.curve, payload |-> <<e.timestamp, e.text>>]
      [] e.standard \in {"wallet_request", "wallet_offchain"} ->
             [by |-> e.standard, key |-> e.curve, payload |-> <<e.timestamp, e.text>>]
      [] OTHER ->
             [by |-> "verifier", key |-> e.curve, payload |-> ExtractDefusePayload(e)]
Accepts(e, sig) ==
    CASE e.standard = "access_key" -> VerifyAccessKey(e, sig)
      [] e.standard \in {"wallet_request", "wallet_offchain"} -> VerifyWallet(e, sig)
      [] OTHER -> Verify(e, sig) /\ ExtractDefusePayload(e) # NoField

PayloadsInit == envelopes = {} /\ accepted = {}

(* A client signs: the challenge of an authenticator is what it asks for.  *)
SignEnvelope ==
    /\ Cardinality(envelopes) < MaxEnvelopes
    /\ \E e \in Envelopes({NoField}) :
          LET signed == IF e.assertion = NoField THEN e
                        ELSE [e EXCEPT !.assertion.challenge = ChallengeOf(e)]
          IN  SignedBytes(signed) # NoField /\ envelopes' = envelopes \cup {signed}
    /\ UNCHANGED accepted

(* A relayer submits one of the signatures, in an envelope of its choice.  *)
SubmitEnvelope ==
    \E s \in envelopes :
        LET sig == [key |-> s.curve, bytes |-> SignedBytes(s)]
            challenges == IF s.assertion = NoField THEN {} ELSE {s.assertion.challenge}
        IN  \E e \in Envelopes(challenges) :
                /\ Accepts(e, sig)
                /\ accepted' = accepted \cup {Meaning(e)}
                /\ UNCHANGED envelopes

PayloadsNext == SignEnvelope \/ SubmitEnvelope
-----------------------------------------------------------------------------
(* A signature is taken for what it was given for, by whom it was given    *)
(* to, and for nothing else: whatever the Verifier, a wallet or a resolver *)
(* of off-chain messages accepts from a key is what the key signed for it  *)
(* (MultiPayload, SignatureSchema, AccessKeySchema).  The part of a second *)
(* in the timestamp of TON Connect alone is not signed: an intent that     *)
(* expires in the second it was signed in may be accepted or not.          *)
AcceptedAsSigned ==
    \A a \in accepted :
        \E e \in envelopes :
            /\ e.assertion # NoField => "UP" \in e.assertion.flags
            /\ \/ a = Meaning(e)
               \/ /\ e.standard = "ton_connect" /\ e.schema = "text"
                  /\ a = [Meaning(e) EXCEPT !.payload = e.text]
                  /\ Seconds(e.text.deadline) = Seconds(e.timestamp)
=============================================================================
