-------------------------------- MODULE Gguf --------------------------------
(***************************************************************************)
(* GgufFile::parse of src/model/gguf.rs: the index of a GGUF file is read  *)
(* front to back and every tensor becomes a slice of the file.             *)
(*                                                                         *)
(* The contents of the file are revealed as they are read: a read that     *)
(* fits in the file returns any value such a field can hold.  The cursor   *)
(* never moves back over a byte it has read, so this is every file.        *)
(* A u64 is a number up to U64Max, and usize has the same width.           *)
(***************************************************************************)
EXTENDS Naturals, Sequences, FiniteSets

CONSTANTS
  BlobLen,       \* the lengths a file can have
  Word32,        \* the values of a 32-bit field
  Word64,        \* the values of a 64-bit field
  U64Max,        \* the largest u64
  StringCap,     \* the longest string read_string accepts
  RankCap,       \* the highest tensor rank accepted
  Key,           \* metadata keys
  AlignmentKey,  \* "general.alignment"
  TypeTag,       \* tags of metadata values met in a file
  TensorName,    \* names of tensors
  DtypeTag       \* tags of tensor element types met in a file

\* The types of metadata values and of tensor elements, by the names of their tags.
ValueType == {"UINT8", "INT8", "UINT16", "INT16", "UINT32", "INT32", "FLOAT32",
              "BOOL", "STRING", "ARRAY", "UINT64", "INT64", "FLOAT64"}
TensorType == {"F32", "F16", "Q4_0", "Q5_0", "Q8_0", "Q4_K", "Q6_K", "Other"}

ASSUME GgufAssumption ==
  /\ U64Max \in Nat /\ StringCap \in Nat /\ RankCap \in Nat
  /\ BlobLen \subseteq 0..U64Max
  /\ Word32 \subseteq 0..U64Max /\ Word64 \subseteq 0..U64Max
  /\ TypeTag \subseteq ValueType /\ DtypeTag \subseteq TensorType

VARIABLES
  len,       \* blob.len()
  pc,        \* what is read next
  pos,       \* cur.pos
  count,     \* tensor_count
  left,      \* entries, or array elements, that are still to be read
  entries,   \* metadata entries left while an array is read
  metadata,  \* the values read so far, by key
  infos,     \* tensor_infos
  reserved,  \* the capacity tensor_infos was created with
  data_base, \* tensor_data_base
  tensors,   \* the slices made so far
  by_name    \* name -> index in tensors

pvars == <<len, pc, pos, count, left, entries, metadata, infos, reserved, data_base, tensors, by_name>>
-----------------------------------------------------------------------------
\* Mutant: sums and products are not checked.
SomeAlways(n) == TRUE

\* A checked_add or checked_mul returns Some exactly when the result is a u64.
Some(n) == n \in 0..U64Max

\* The sum a build without overflow checks computes; exact when it is Some.
Plus(a, b) == IF a + b > U64Max THEN a + b - (U64Max + 1) ELSE a + b

\* Cursor::read_n of n bytes succeeds.
CanRead(n) == Some(pos + n) /\ Plus(pos, n) =< len

\* Bytes of one value of each fixed-size metadata type.
ScalarSize == [UINT8 |-> 1, INT8 |-> 1, BOOL |-> 1, UINT16 |-> 2, INT16 |-> 2,
               UINT32 |-> 4, INT32 |-> 4, FLOAT32 |-> 4,
               UINT64 |-> 8, INT64 |-> 8, FLOAT64 |-> 8]

\* Elements and bytes of one block of each tensor element type with a known size.
Block == [F32 |-> [numel |-> 1, bytes |-> 4], F16 |-> [numel |-> 1, bytes |-> 2],
          Q4_0 |-> [numel |-> 32, bytes |-> 18], Q8_0 |-> [numel |-> 32, bytes |-> 34],
          Q5_0 |-> [numel |-> 32, bytes |-> 22],
          Q4_K |-> [numel |-> 256, bytes |-> 144], Q6_K |-> [numel |-> 256, bytes |-> 210]]

BytesForNumel(dtype, numel) == (numel \div Block[dtype].numel) * Block[dtype].bytes

SizeKnown(dtype, numel) ==
  dtype \in DOMAIN Block /\ numel % Block[dtype].numel = 0

\* The product of the first i dimensions; past U64Max it stays there, as the
\* fold of checked_numel stops at the first product that does not fit.
CheckedNumel(shape) ==
  LET prefix[i \in 0..Len(shape)] ==
        IF i = 0 THEN 1
        ELSE IF Some(prefix[i - 1]) THEN prefix[i - 1] * shape[i] ELSE U64Max + 1
  IN  prefix[Len(shape)]

\* parse returns an error, and what it has built is dropped.
Refuse ==
  /\ pc' = "refused" /\ pos' = 0 /\ count' = 0 /\ left' = 0 /\ entries' = 0
  /\ metadata' = << >> /\ infos' = << >> /\ reserved' = 0 /\ data_base' = 0
  /\ tensors' = << >> /\ by_name' = << >>
  /\ UNCHANGED len
-----------------------------------------------------------------------------
ParseInit ==
  /\ len \in BlobLen
  /\ pc = "header" /\ pos = 0 /\ count = 0 /\ left = 0 /\ entries = 0
  /\ metadata = << >> /\ infos = << >> /\ reserved = 0 /\ data_base = 0
  /\ tensors = << >> /\ by_name = << >>

ReadHeader ==
  /\ pc = "header"
  /\ \/ Refuse                     \* truncated, bad magic or unsupported version
     \/ /\ CanRead(24)
        /\ \E n \in Word64, kv \in Word64 : count' = n /\ left' = kv
        /\ pos' = Plus(pos, 24)
        /\ pc' = "metadata"
        /\ UNCHANGED <<len, entries, metadata, infos, reserved, data_base, tensors, by_name>>

\* A key, a tag and a value of a fixed size, or a string.
Insert(key, tag, value) ==
  metadata' = [k \in DOMAIN metadata \cup {key} |->
                 IF k = key THEN [tag |-> tag, value |-> value] ELSE metadata[k]]

EntryRead == left' = left - 1 /\ pc' = "metadata"

ReadScalar(key, n, tag) ==
  LET size == 8 + n + 4 + ScalarSize[tag] IN
  /\ n =< StringCap /\ CanRead(size)
  /\ pos' = Plus(pos, size)
  /\ \E v \in (IF tag = "UINT32" THEN Word32 ELSE {0}) : Insert(key, tag, v)
  /\ EntryRead /\ UNCHANGED entries

ReadText(key, n) ==
  \E m \in Word64 :
    LET size == 8 + n + 4 + 8 + m IN
    /\ n =< StringCap /\ m =< StringCap /\ CanRead(size)
    /\ pos' = Plus(pos, size)
    /\ Insert(key, "STRING", 0)
    /\ EntryRead /\ UNCHANGED entries

\* An array is skipped: by its byte total when its elements have a fixed size.
ReadArray(key, n) ==
  \E tag \in TypeTag \cap DOMAIN ScalarSize, m \in Word64 :
    LET start == 8 + n + 4 + 4 + 8
        total == m * ScalarSize[tag]
    IN  /\ n =< StringCap /\ CanRead(start)
        /\ Some(total) /\ CanRead(start + total)
        /\ pos' = Plus(pos, start + total)
        /\ Insert(key, "ARRAY", 0)
        /\ EntryRead /\ UNCHANGED entries

\* ... and string by string when they are strings.
BeginStringArray(key, n) ==
  \E m \in Word64 :
    LET start == 8 + n + 4 + 4 + 8 IN
    /\ n =< StringCap /\ CanRead(start)
    /\ pos' = Plus(pos, start)
    /\ Insert(key, "ARRAY", 0)
    /\ entries' = left - 1 /\ left' = m /\ pc' = "strings"

ReadEntry ==
  /\ pc = "metadata" /\ left > 0
  /\ \/ Refuse                     \* truncated, unknown tag, nested array, not UTF-8
     \/ /\ \E key \in Key, n \in Word64 :
             \/ \E tag \in TypeTag \cap DOMAIN ScalarSize : ReadScalar(key, n, tag)
             \/ "STRING" \in TypeTag /\ (ReadText(key, n) \/ BeginStringArray(key, n))
             \/ ReadArray(key, n)
        /\ UNCHANGED <<len, count, infos, reserved, data_base, tensors, by_name>>

\* Mutant: the loop over the strings of an array runs once too often.
SkipOneMore ==
  /\ pc = "strings" /\ CanRead(8)
  /\ pos' = Plus(pos, 8) /\ left' = left - 1
  /\ UNCHANGED <<len, pc, count, entries, metadata, infos, reserved, data_base, tensors, by_name>>

SkipString ==
  /\ pc = "strings" /\ left > 0
  /\ \/ Refuse
     \/ \E n \in Word64 :
          /\ CanRead(8) /\ CanRead(8 + n)
          /\ pos' = Plus(pos, 8 + n)
          /\ left' = left - 1
          /\ UNCHANGED <<len, pc, count, entries, metadata, infos, reserved, data_base, tensors, by_name>>

EndStringArray ==
  /\ pc = "strings" /\ left = 0
  /\ left' = entries /\ pc' = "metadata"
  /\ UNCHANGED <<len, pos, count, entries, metadata, infos, reserved, data_base, tensors, by_name>>

\* The capacity is capped by the smallest record that could be left: 24 bytes.
MinTensorInfoBytes == 24

\* Mutant: as many records as the header states.
ReservationUncapped(n) == n

Reservation(n) ==
  LET most == (len - pos) \div MinTensorInfoBytes + 1 IN IF n < most THEN n ELSE most

EndMetadata ==
  /\ pc = "metadata" /\ left = 0
  /\ reserved' = Reservation(count)
  /\ left' = count /\ pc' = "infos"
  /\ UNCHANGED <<len, pos, count, entries, metadata, infos, data_base, tensors, by_name>>

ReadInfo ==
  /\ pc = "infos" /\ left > 0
  /\ \/ Refuse                     \* truncated, a rank over the cap, not UTF-8
     \/ \E name \in TensorName, n \in Word64, rank \in Word32 :
          LET size == 8 + n + 4 + 8 * rank + 4 + 8 IN
          /\ rank =< RankCap /\ n =< StringCap /\ CanRead(size)
          /\ \E shape \in [1..rank -> Word64], dtype \in DtypeTag, offset \in Word64 :
               infos' = Append(infos, [name |-> name, shape |-> shape, dtype |-> dtype,
                                       offset |-> offset])
          /\ pos' = Plus(pos, size)
          /\ left' = left - 1
          /\ UNCHANGED <<len, pc, count, entries, metadata, reserved, data_base, tensors, by_name>>

Alignment ==
  IF AlignmentKey \in DOMAIN metadata /\ metadata[AlignmentKey].tag = "UINT32"
  THEN metadata[AlignmentKey].value ELSE 32

\* Mutant: the division rounds down.
AlignedDown == (pos \div Alignment) * Alignment

\* The next multiple of the alignment, wherever that is.
Aligned == ((pos + Alignment - 1) \div Alignment) * Alignment

Align ==
  /\ pc = "infos" /\ left = 0
  /\ IF Alignment = 0 \/ ~Some(Aligned) THEN Refuse
     ELSE /\ pos' = Aligned /\ data_base' = Aligned /\ pc' = "slices"
          /\ UNCHANGED <<len, count, left, entries, metadata, infos, reserved, tensors, by_name>>

\* Mutant: a name met again keeps the tensor it had.
InsertNameOnce(name, i) ==
  by_name' = [x \in DOMAIN by_name \cup {name} |->
                IF x \in DOMAIN by_name THEN by_name[x] ELSE i]

\* A name met again finds the later tensor.
InsertName(name, i) ==
  by_name' = [x \in DOMAIN by_name \cup {name} |-> IF x = name THEN i ELSE by_name[x]]

Materialize ==
  /\ pc = "slices" /\ Len(tensors) < Len(infos)
  /\ LET i == Len(tensors) + 1
         info == infos[i]
         numel == CheckedNumel(info.shape)
         nbytes == BytesForNumel(info.dtype, numel)
         start == Plus(data_base, info.offset)
         end == Plus(start, nbytes)
     IN  IF /\ Some(numel) /\ SizeKnown(info.dtype, numel) /\ Some(nbytes)
            /\ Some(data_base + info.offset) /\ Some(start + nbytes) /\ end =< len
         THEN /\ tensors' = Append(tensors, [name |-> info.name, start |-> start, end |-> end])
              /\ InsertName(info.name, i)
              /\ UNCHANGED <<len, pc, pos, count, left, entries, metadata, infos, reserved, data_base>>
         ELSE Refuse

ParseDone ==
  /\ pc = "slices" /\ Len(tensors) = Len(infos)
  /\ pc' = "done"
  /\ UNCHANGED <<len, pos, count, left, entries, metadata, infos, reserved, data_base, tensors, by_name>>

ParseNext ==
  \/ ReadHeader \/ ReadEntry \/ SkipString \/ EndStringArray \/ EndMetadata
  \/ ReadInfo \/ Align \/ Materialize \/ ParseDone

\* The parser is one loop on one thread: it keeps running until it returns.
ParseSpec == ParseInit /\ [][ParseNext]_pvars /\ WF_pvars(ParseNext)
-----------------------------------------------------------------------------
ParseTypeOK ==
  /\ len \in 0..U64Max
  /\ pc \in {"header", "metadata", "strings", "infos", "slices", "done", "refused"}
  /\ pos \in 0..U64Max /\ data_base \in 0..U64Max
  /\ count \in 0..U64Max /\ left \in 0..U64Max /\ entries \in 0..U64Max
  /\ reserved \in 0..U64Max
  /\ Len(tensors) =< Len(infos)

\* Every slice parse makes lies in the file and runs forward, and is as long as
\* its element type and shape say: &blob[start..end] cannot panic, whatever
\* lengths, ranks, offsets and alignment the file states.
TensorsInFile ==
  \A i \in 1..Len(tensors) :
    /\ data_base =< tensors[i].start
    /\ tensors[i].start =< tensors[i].end
    /\ tensors[i].end =< len
    /\ tensors[i].end - tensors[i].start
         = BytesForNumel(infos[i].dtype, CheckedNumel(infos[i].shape))

\* tensor(name) indexes within the slices, and finds the last tensor of that
\* name and no other: a loader never binds a weight to another tensor's bytes.
LookupFindsLast ==
  /\ DOMAIN by_name = {tensors[i].name : i \in 1..Len(tensors)}
  /\ \A name \in DOMAIN by_name :
       /\ by_name[name] \in 1..Len(tensors)
       /\ tensors[by_name[name]].name = name
       /\ \A i \in by_name[name] + 1..Len(tensors) : tensors[i].name # name

\* The capacity reserved before the records are read is at most one record more
\* than the file has room for, and a file that is accepted had exactly that
\* many records: the cap bounds the allocation and never cuts a real index.
ReservationIsExact ==
  /\ reserved * MinTensorInfoBytes =< len + MinTensorInfoBytes
  /\ pc = "done" => reserved = Len(infos) /\ reserved = count

\* Until an error no byte of the index is read twice, and the data section never begins
\* before the index ends.
CursorMovesForward == [][pc' # "refused" => pos' >= pos]_pvars
=============================================================================
