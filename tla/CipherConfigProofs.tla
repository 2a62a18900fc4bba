--------------------------- MODULE CipherConfigProofs ---------------------------
(***************************************************************************)
(* Theorems about CipherConfig, for any structs the writer starts from and *)
(* whatever serialize_cipher_config() puts into a field.                   *)
(***************************************************************************)
EXTENDS CipherConfig, SequenceTheorems, TLAPS

Types == FIELD_KDF_ALGORITHM .. FIELD_KEY

(* The fields the writer may append. *)
Entry == [type : FIELD_KDF_ALGORITHM .. FIELD_KEY_BINARY,
          data : {DataOf(config, type) : type \in Types}]

EntryOf(type) == [type |-> TypeByte(config, type), data |-> DataOf(config, type)]

(* What the writer has appended when it comes to the field n. *)
Written(f, n) ==
    /\ f \in Seq(Entry)
    /\ \A type \in Types : type < n =>
          (IsWritten(config, type) <=> \E i \in DOMAIN f : f[i] = EntryOf(type))
    /\ \A i, j \in DOMAIN f : i < j => f[i].type < f[j].type
    /\ \A i \in DOMAIN f : n \in Types => f[i].type < n

AllFields == FIELD_KEY + 1

(* A file that is closed is a whole one, or the beginning of its fields. *)
FileInv ==
    /\ status = "serialize" => field \in Types /\ Written(file, field)
    /\ status = "digest" => Written(file, AllFields)
    /\ status = "closed" =>
          \E f \in Seq(Entry) :
             /\ Written(f, AllFields)
             /\ \/ file = Append(f, [type |-> Digest, data |-> f])
                \/ \E n \in 0 .. Len(f) : file = SubSeq(f, 1, n)
    /\ status \in {"decode", "ok", "bug", "crash"} => Written(Body, AllFields)

LEMMA Numbers ==
    /\ Types = 1 .. 6 /\ AllFields = 7 /\ Digest = 0
    /\ FIELD_KDF_ALGORITHM .. FIELD_KEY_BINARY = 1 .. 8 /\ FIELD_KEY = 6
    /\ \A type \in Types : TypeByte(config, type) \in 1 .. 8 /\ TypeByte(config, type) >= type
                           /\ (type < 6 => TypeByte(config, type) = type)
BY DEF Types, AllFields, Digest, FIELD_KDF_ALGORITHM, FIELD_KEY_BINARY, FIELD_KEY, TypeByte

LEMMA FileInit == Init => FileInv
<1> SUFFICES ASSUME Init PROVE FileInv
    OBVIOUS
<1>1. Written(<<>>, 1)
      BY Numbers DEF Written
<1> QED BY <1>1, Numbers DEF Init, FileInv, FIELD_KDF_ALGORITHM

(* A field that is looked at is appended, or it is none of the file's. *)
LEMMA Serialized ==
    ASSUME status = "serialize", field \in Types, Written(file, field), Serialize
    PROVE  Written(file', field + 1)
<1> USE Numbers
<1>1. CASE IsWritten(config, field)
  <2> DEFINE e == EntryOf(field)
  <2>1. e \in Entry
        BY DEF Entry, EntryOf
  <2>2. file' = Append(file, e) /\ file \in Seq(Entry)
        BY <1>1 DEF Serialize, EntryOf, Written
  <2>3. /\ file' \in Seq(Entry) /\ DOMAIN file' = 1 .. Len(file) + 1
        /\ DOMAIN file = 1 .. Len(file) /\ Len(file) \in Nat
        /\ \A i \in DOMAIN file : file'[i] = file[i]
        /\ file'[Len(file) + 1] = e
        BY <2>1, <2>2
  <2>4. e.type = TypeByte(config, field)
        BY DEF EntryOf
  <2>5. ASSUME NEW type \in Types, type < field + 1
        PROVE  IsWritten(config, type) <=> \E i \in DOMAIN file' : file'[i] = EntryOf(type)
    <3>1. CASE type = field
          BY <1>1, <2>3, <3>1
    <3>2. CASE type < field
      <4>1. EntryOf(type) # e
        <5>1. EntryOf(type).type = type
              BY <3>2 DEF EntryOf
        <5> QED BY <5>1, <2>4, <3>2
      <4> HIDE DEF e
      <4>2. IsWritten(config, type) <=> \E i \in DOMAIN file : file[i] = EntryOf(type)
            BY <3>2 DEF Written
      <4> QED BY <4>1, <4>2, <2>3
    <3> QED BY <2>5, <3>1, <3>2
  <2>6. \A i \in DOMAIN file : file[i].type < field
        BY DEF Written
  <2>7. ASSUME NEW i \in DOMAIN file', NEW j \in DOMAIN file', i < j
        PROVE  file'[i].type < file'[j].type
    <3> HIDE DEF e
    <3>1. i \in DOMAIN file
          BY <2>3, <2>7
    <3>2. CASE j \in DOMAIN file
          BY <2>3, <2>7, <3>1, <3>2 DEF Written
    <3>3. CASE j = Len(file) + 1
      <4>1. file[i].type < field /\ file[i] \in Entry
            BY <2>2, <2>6, <3>1
      <4>2. file'[i].type = file[i].type /\ file'[j].type = TypeByte(config, field)
            BY <2>3, <2>4, <3>1, <3>3
      <4> QED BY <4>1, <4>2 DEF Entry
    <3> QED BY <2>3, <3>2, <3>3
  <2>8. ASSUME NEW i \in DOMAIN file', field + 1 \in Types
        PROVE  file'[i].type < field + 1
    <3> HIDE DEF e
    <3>1. CASE i \in DOMAIN file
      <4>1. file[i] \in Entry /\ file[i].type < field
            BY <2>2, <2>6, <3>1
      <4> QED BY <2>3, <3>1, <4>1 DEF Entry
    <3>2. CASE i = Len(file) + 1
          BY <2>3, <2>4, <2>8, <3>2
    <3> QED BY <2>3, <3>1, <3>2
  <2> HIDE DEF e
  <2> QED BY <2>3, <2>5, <2>7, <2>8 DEF Written
<1>2. CASE ~IsWritten(config, field)
  <2>1. file' = file
        BY <1>2 DEF Serialize
  <2>2. ~\E i \in DOMAIN file : file[i] = EntryOf(field)
    <3>1. EntryOf(field).type >= field
          BY DEF EntryOf
    <3>2. \A i \in DOMAIN file : file[i].type < field /\ file[i] \in Entry
          BY DEF Written
    <3> QED BY <3>1, <3>2 DEF Entry, EntryOf
  <2>3. ASSUME NEW type \in Types, type < field + 1
        PROVE  IsWritten(config, type) <=> \E i \in DOMAIN file : file[i] = EntryOf(type)
        BY <1>2, <2>2, <2>3 DEF Written
  <2>4. ASSUME NEW i \in DOMAIN file PROVE file[i].type < field + 1
    <3>1. file[i] \in Entry /\ file[i].type < field
          BY DEF Written
    <3> QED BY <3>1 DEF Entry
  <2> QED BY <2>1, <2>3, <2>4 DEF Written
<1> QED BY <1>1, <1>2

(* The checks of resolve_cipher_config() let a whole file pass only. *)
LEMMA Resolved ==
    ASSUME NEW f \in Seq(Entry), IsIntact(file),
           \/ file = Append(f, [type |-> Digest, data |-> f])
           \/ \E n \in 0 .. Len(f) : file = SubSeq(f, 1, n)
    PROVE  Body = f
<1>1. CASE file = Append(f, [type |-> Digest, data |-> f])
  <2>1. /\ Len(file) = Len(f) + 1 /\ Len(f) \in Nat
        /\ \A i \in 1 .. Len(f) : file[i] = f[i]
        BY <1>1
  <2>2. Body = [i \in 1 .. Len(f) |-> file[i]]
        BY <1>1, <2>1 DEF Body
  <2> QED BY <2>1, <2>2
<1>2. CASE \E n \in 0 .. Len(f) : file = SubSeq(f, 1, n)
  <2>1. PICK n \in 0 .. Len(f) : file = SubSeq(f, 1, n)
        BY <1>2
  <2>2. Len(file) = n /\ \A i \in 1 .. n : file[i] = f[i]
        BY <2>1
  <2>3. n # 0
        BY <2>1 DEF IsIntact
  <2>4. file[Len(file)] \in Entry
        BY <2>2, <2>3
  <2>5. file[Len(file)].type # Digest
    <3> DEFINE e == file[Len(file)]
    <3>1. e.type \in FIELD_KDF_ALGORITHM .. FIELD_KEY_BINARY
      <4>1. e \in Entry
            BY <2>4
      <4> HIDE DEF e
      <4> QED BY <4>1 DEF Entry
    <3> HIDE DEF e
    <3>2. \A type \in FIELD_KDF_ALGORITHM .. FIELD_KEY_BINARY : type # Digest
          BY DEF FIELD_KDF_ALGORITHM, FIELD_KEY_BINARY, Digest
    <3>3. e.type # Digest
          BY <3>1, <3>2
    <3> QED BY <3>3 DEF e
  <2> QED BY <2>5 DEF IsIntact
<1> QED BY <1>1, <1>2

LEMMA FileStep == FileInv /\ [Next]_vars => FileInv'
<1> SUFFICES ASSUME FileInv, [Next]_vars PROVE FileInv'
    OBVIOUS
<1>0. config' = config /\ \A f, n : Written(f, n)' <=> Written(f, n)
  <2>1. config' = config
        BY DEF Next, vars, Read, Serialize, AppendDigest, CutShort, Resolve, DecodeField,
               DecodeKey, DecodeUnknown
  <2> QED BY <2>1 DEF Written, Entry, EntryOf
<1>1. CASE Serialize
  <2>1. field \in Types /\ Written(file', field') /\ field' = field + 1
        BY <1>1, Serialized DEF FileInv, Serialize
  <2>2. status' = IF field = FIELD_KEY THEN "digest" ELSE "serialize"
        BY <1>1 DEF Serialize
  <2>3. CASE field = FIELD_KEY
    <3>1. Written(file', AllFields)
          BY <2>1, <2>3 DEF AllFields
    <3> QED BY <1>0, <2>2, <2>3, <3>1 DEF FileInv
  <2>4. CASE field # FIELD_KEY
    <3>1. field' \in Types
          BY <2>1, <2>4, Numbers
    <3> QED BY <1>0, <2>1, <2>2, <2>4, <3>1 DEF FileInv
  <2> QED BY <2>3, <2>4
<1>2. CASE AppendDigest
  <2>1. /\ Written(file, AllFields) /\ status' = "closed"
        /\ file' = Append(file, [type |-> Digest, data |-> file])
        BY <1>2 DEF AppendDigest, FileInv
  <2>2. file \in Seq(Entry) /\ file \in Seq(Entry')
        BY <1>0, <2>1 DEF Written, Entry
  <2> QED BY <1>0, <2>1, <2>2 DEF FileInv
<1>3. CASE CutShort
  <2>1. /\ Written(file, AllFields) /\ status' = "closed"
        /\ \E n \in 0 .. Len(file) : file' = SubSeq(file, 1, n)
        BY <1>3 DEF CutShort, FileInv
  <2>2. file \in Seq(Entry')
        BY <1>0, <2>1 DEF Written, Entry
  <2> QED BY <1>0, <2>1, <2>2 DEF FileInv
<1>4. CASE Resolve
  <2>1. file' = file /\ Body' = Body /\ status = "closed"
        /\ status' = IF IsIntact(file) THEN "decode" ELSE "EINCPHR"
        BY <1>4 DEF Resolve, Body
  <2>2. CASE IsIntact(file)
    <3>1. PICK f \in Seq(Entry) :
             /\ Written(f, AllFields)
             /\ \/ file = Append(f, [type |-> Digest, data |-> f])
                \/ \E n \in 0 .. Len(f) : file = SubSeq(f, 1, n)
          BY <2>1 DEF FileInv
    <3>2. Body = f
          BY <2>2, <3>1, Resolved
    <3> QED BY <1>0, <2>1, <2>2, <3>1, <3>2 DEF FileInv
  <2>3. CASE ~IsIntact(file)
        BY <2>1, <2>3 DEF FileInv
  <2> QED BY <2>2, <2>3
<1>5. CASE DecodeField \/ DecodeKey \/ DecodeUnknown
  <2>1. /\ file' = file /\ Body' = Body /\ status = "decode"
        /\ status' \in {"decode", "ok", "bug", "crash"}
        BY <1>5 DEF DecodeField, DecodeKey, DecodeUnknown, Body, AfterField
  <2> QED BY <1>0, <2>1 DEF FileInv
<1>6. CASE UNCHANGED vars
      BY <1>6 DEF vars, FileInv, Written, Entry, EntryOf, Body
<1> QED BY <1>1, <1>2, <1>3, <1>4, <1>5, <1>6 DEF Next, Read

(* A config that a killed init left incomplete never reaches the decoder: it reads all
   fields init meant to write, or resolve_cipher_config() refuses the file. *)
THEOREM OnlyWholeDecoded == Spec => []OnlyWholeFilesDecoded
<1>1. FileInv => OnlyWholeFilesDecoded
  <2> SUFFICES ASSUME FileInv, status \in {"decode", "ok", "bug", "crash"}
               PROVE  OnlyWholeFilesDecoded
      BY DEF OnlyWholeFilesDecoded
  <2>1. Written(Body, AllFields)
        BY DEF FileInv
  <2>2. \A type \in Types : type < AllFields
        BY Numbers
  <2> QED BY <2>1, <2>2 DEF Written, EntryOf, OnlyWholeFilesDecoded, Types
<1> QED BY FileInit, FileStep, <1>1, PTL DEF Spec
===============================================================================
