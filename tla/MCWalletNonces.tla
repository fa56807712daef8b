--------------------------- MODULE MCWalletNonces ---------------------------
(***************************************************************************)
(* A wallet whose owner has signed, for each of two nonces, messages with  *)
(* every creation time and both a timeout shorter and one longer than the  *)
(* wallet's own.                                                           *)
(***************************************************************************)
EXTENDS WalletNonces

CONSTANT NonceValues

MCMessages ==
    [nonce : NonceValues, created_at : 0 .. MaxTime,
     timeout : {Timeout - 1, Timeout + 1}]
=============================================================================
