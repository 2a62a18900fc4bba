----------------------------- MODULE CipherConfig -----------------------------
(***************************************************************************)
(* The cipher config file (src/cipher-config.c) from the struct that       *)
(* pk init writes to the struct that a later command reads back:           *)
(*                                                                         *)
(*   serialize_cipher_config()    one field per value that is not the      *)
(*                                default, and the key if there is one;    *)
(*   persist_cipher_config()      the fields, then their SHA-256;          *)
(*   resolve_cipher_config()      the size and digest checks;              *)
(*   deserialize_cipher_config()  a loop that stores each field through    *)
(*                                fmap[type].                              *)
(*                                                                         *)
(* A file is a sequence of fields [type, data] with the digest as its last *)
(* entry.  SHA-256 is taken to be injective: the digest of a sequence is   *)
(* the sequence.  A kill of the writer leaves a proper prefix; a cut in    *)
(* the middle of an entry fails the same checks as a cut before it.        *)
(***************************************************************************)
EXTENDS Integers, Sequences

CONSTANTS
    Configs,  \* the structs (and keys) the writer starts from
    Null,     \* the null pointer
    Garbage   \* bytes of one value stored where another is expected: part of
              \* a pointer in an unsigned, or an unsigned in a pointer

(* enum field_type *)
FIELD_KDF_ALGORITHM  == 1
FIELD_HMAC_ALGORITHM == 2
FIELD_COMPATIBILITY  == 3
FIELD_PAGE_SIZE      == 4
FIELD_KDF_ITER       == 5
FIELD_KEY            == 6
FIELD_KEY_PASSPHRASE == 7
FIELD_KEY_BINARY     == 8
field_type_end       == 9
Digest               == 0   \* not a field: the trailing hash

(* The defaults, CPRDEF_*. *)
DefaultAlgorithm == "default"
Default == [compatibility |-> 4, page_size |-> 4096, kdf_iter |-> 256000]

(* struct cipher_config and struct cipher_key together. *)
CC_INIT == [kdf_algorithm |-> Null, hmac_algorithm |-> Null,
            compatibility |-> Default.compatibility,
            page_size |-> Default.page_size, kdf_iter |-> Default.kdf_iter,
            buf |-> Null, is_binary |-> FALSE]

VARIABLES
    config,  \* what the writer was given
    file,    \* the bytes at cred_cc_path
    field,   \* the field serialize_cipher_config() looks at next
    pos,     \* the entry deserialize_cipher_config() looks at next
    out,     \* the struct the reader fills
    status   \* where the pair of them is

vars == <<config, file, field, pos, out, status>>

Results  == {"ok", "EINCPHR", "bug", "crash"}
Statuses == {"serialize", "digest", "closed", "decode"} \cup Results

IsChanged(alg) == alg # Null /\ alg # DefaultAlgorithm

(* Does the writer append this field, and with which data? *)
IsWritten(c, type) ==
    CASE type = FIELD_KDF_ALGORITHM  -> IsChanged(c.kdf_algorithm)
      [] type = FIELD_HMAC_ALGORITHM -> IsChanged(c.hmac_algorithm)
      [] type = FIELD_COMPATIBILITY  -> c.compatibility # Default.compatibility
      [] type = FIELD_PAGE_SIZE      -> c.page_size # Default.page_size
      [] type = FIELD_KDF_ITER       -> c.kdf_iter # Default.kdf_iter
      [] type = FIELD_KEY            -> c.buf # Null

(* The reader takes a type before it looks for the end, so a body has to have a
   field.  It has: pk init writes a file only for an algorithm that is not
   the default or for a key (use_cc in cmd_init()). *)
ASSUME ConfigsAssumption ==
    \A c \in Configs : \E type \in FIELD_KDF_ALGORITHM..FIELD_KEY : IsWritten(c, type)

DataOf(c, type) ==
    CASE type = FIELD_KDF_ALGORITHM  -> c.kdf_algorithm
      [] type = FIELD_HMAC_ALGORITHM -> c.hmac_algorithm
      [] type = FIELD_COMPATIBILITY  -> c.compatibility
      [] type = FIELD_PAGE_SIZE      -> c.page_size
      [] type = FIELD_KDF_ITER       -> c.kdf_iter
      [] type = FIELD_KEY            -> c.buf

(* The type byte: the key's is FIELD_KEY + is_binary. *)
TypeByte(c, type) ==
    IF type = FIELD_KEY /\ c.is_binary THEN FIELD_KEY + 1 ELSE type

(***************************************************************************)
(* The writer.                                                             *)
(***************************************************************************)
Serialize ==
    /\ status = "serialize"
    /\ file' = IF IsWritten(config, field)
               THEN Append(file, [type |-> TypeByte(config, field),
                                  data |-> DataOf(config, field)])
               ELSE file
    /\ field' = field + 1
    /\ status' = IF field = FIELD_KEY THEN "digest" ELSE status
    /\ UNCHANGED <<config, pos, out>>

AppendDigest ==
    /\ status = "digest"
    /\ file' = Append(file, [type |-> Digest, data |-> file])
    /\ status' = "closed"
    /\ UNCHANGED <<config, field, pos, out>>

(* The writer is killed in populate_file(), after open() or within write(). *)
CutShort ==
    /\ status = "digest"
    /\ \E n \in 0..Len(file) : file' = SubSeq(file, 1, n)
    /\ status' = "closed"
    /\ UNCHANGED <<config, field, pos, out>>

(***************************************************************************)
(* The reader.                                                             *)
(***************************************************************************)

(* Mutant: the size is checked and the digest is not. *)
IsIntact_SizeOnly(f) == f # <<>>

(* resolve_cipher_config(): long enough for a digest, and it is the right one. *)
IsIntact(f) ==
    /\ f # <<>>
    /\ f[Len(f)].type = Digest
    /\ f[Len(f)].data = SubSeq(f, 1, Len(f) - 1)

Resolve ==
    /\ status = "closed"
    /\ status' = IF IsIntact(file) THEN "decode" ELSE "EINCPHR"
    /\ UNCHANGED <<config, file, field, pos, out>>

(* The body the reader loops over, without the digest. *)
Body == SubSeq(file, 1, Len(file) - 1)

(* What the store through fmap[type] changes.  fmap lists the addresses from
   its element 0 on, and the types start at 1, so each field goes to the
   member after its own: the pointer of an HMAC algorithm covers
   compatibility and page_size, and the iterations go into key->buf. *)
Store(m, f) ==
    CASE f.type = FIELD_KDF_ALGORITHM  -> [m EXCEPT !.hmac_algorithm = f.data]
      [] f.type = FIELD_HMAC_ALGORITHM -> [m EXCEPT !.compatibility = Garbage,
                                                    !.page_size = Garbage]
      [] f.type = FIELD_COMPATIBILITY  -> [m EXCEPT !.page_size = f.data]
      [] f.type = FIELD_PAGE_SIZE      -> [m EXCEPT !.kdf_iter = f.data]
      [] f.type = FIELD_KDF_ITER       -> [m EXCEPT !.buf = Garbage]
      [] OTHER                         -> m

(* The loop ends when the field it has just read was the last. *)
AfterField(n) == IF n = Len(Body) THEN "ok" ELSE "decode"

(* Mutant: the buffer is not moved past the data. *)
DecodeField_NoAdvance ==
    /\ status = "decode" /\ pos <= Len(Body)
    /\ Body[pos].type \in FIELD_KDF_ALGORITHM..FIELD_KDF_ITER
    /\ out' = Store(out, Body[pos])
    /\ status' = AfterField(pos)
    /\ UNCHANGED <<config, file, field, pos>>

DecodeField ==
    /\ status = "decode" /\ pos <= Len(Body)
    /\ Body[pos].type \in FIELD_KDF_ALGORITHM..FIELD_KDF_ITER
    /\ out' = Store(out, Body[pos])
    /\ pos' = pos + 1
    /\ status' = AfterField(pos)
    /\ UNCHANGED <<config, file, field>>

(* fmap[FIELD_KEY] is past the end of fmap: the store goes through whatever
   word is there.  Either that faults, or it lands outside the struct and
   only is_binary, the comparison with FIELD_KEY_BINARY, is assigned. *)
DecodeKey ==
    /\ status = "decode" /\ pos <= Len(Body)
    /\ Body[pos].type \in {FIELD_KEY_PASSPHRASE, FIELD_KEY_BINARY}
    /\ \/ /\ status' = "crash"
          /\ UNCHANGED <<out, pos>>
       \/ /\ out' = [out EXCEPT !.is_binary = Body[pos].type = FIELD_KEY_BINARY]
          /\ pos' = pos + 1
          /\ status' = AfterField(pos)
    /\ UNCHANGED <<config, file, field>>

(* FIELD_KEY itself, which the writer gives a passphrase, has no case. *)
DecodeUnknown ==
    /\ status = "decode" /\ pos <= Len(Body)
    /\ Body[pos].type = FIELD_KEY
    /\ status' = "bug"
    /\ UNCHANGED <<config, file, field, pos, out>>

Init ==
    /\ config \in Configs
    /\ file = <<>> /\ field = FIELD_KDF_ALGORITHM /\ pos = 1
    /\ out = CC_INIT
    /\ status = "serialize"

Read == Resolve \/ DecodeField \/ DecodeKey \/ DecodeUnknown

Next ==
    \/ Serialize \/ AppendDigest \/ CutShort
    \/ Read
    \/ status \in Results /\ UNCHANGED vars

Spec == Init /\ [][Next]_vars

(* Both commands run to their ends unless they are killed. *)
FairSpec == Spec /\ WF_vars(Serialize \/ AppendDigest) /\ WF_vars(Read)
-------------------------------------------------------------------------------
(* A file that a killed init left incomplete is never taken for a
   configuration: every decoding starts from all fields the writer meant to
   write, in order, each at most once. *)
OnlyWholeFilesDecoded ==
    status \in {"decode", "ok", "bug", "crash"} =>
        /\ \A type \in FIELD_KDF_ALGORITHM..FIELD_KEY :
              IsWritten(config, type) <=>
                  \E i \in DOMAIN Body :
                      Body[i] = [type |-> TypeByte(config, type),
                                 data |-> DataOf(config, type)]
        /\ \A i, j \in DOMAIN Body : i < j => Body[i].type < Body[j].type

(* "The key file stores the most important things: the key and related cipher
   configurations" (docs/pk-init.adoc:28): what a command reads from a whole
   file is what init put there, a default algorithm and none being the same. *)
Meaning(c) == [c EXCEPT !.kdf_algorithm = IF IsChanged(@) THEN @ ELSE Null,
                        !.hmac_algorithm = IF IsChanged(@) THEN @ ELSE Null]

RoundTrip ==
    status \in {"ok", "bug", "crash"} =>
        status = "ok" /\ Meaning(out) = Meaning(config)

(* Every reading of a file comes to an end. *)
ReadEnds == status = "closed" ~> status \in Results
===============================================================================
