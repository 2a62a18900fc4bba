---------------------------- MODULE MCCipherConfig ----------------------------
(***************************************************************************)
(* The structs of CipherConfig for TLC.                                    *)
(***************************************************************************)
EXTENDS CipherConfig

(* What pk init can hand over at this commit: numbers are defaults, a binary
   key has no KDF algorithm, and something is worth writing. *)
MCReachable ==
    {c \in [kdf_algorithm : {Null, "default", "SHA1"},
            hmac_algorithm : {Null, "default", "SHA1"},
            compatibility : {4}, page_size : {4096}, kdf_iter : {256000},
            buf : {Null, "key"}, is_binary : BOOLEAN] :
        /\ c.is_binary => c.kdf_algorithm = Null /\ c.buf # Null
        /\ \E type \in FIELD_KDF_ALGORITHM..FIELD_KEY : IsWritten(c, type)}

(* What it could hand over if the numeric options were parsed. *)
MCAll ==
    MCReachable \cup
    {c \in [kdf_algorithm : {Null, "SHA1"}, hmac_algorithm : {Null, "SHA1"},
            compatibility : {3, 4}, page_size : {1024, 4096},
            kdf_iter : {5000, 256000}, buf : {Null, "key"}, is_binary : BOOLEAN] :
        /\ c.is_binary => c.kdf_algorithm = Null /\ c.buf # Null
        /\ \E type \in FIELD_KDF_ALGORITHM..FIELD_KEY : IsWritten(c, type)}
===============================================================================
