------------------------------ MODULE Protocol -------------------------------
(***************************************************************************)
(* The layout of objects in messages and chunks, and of messages: what     *)
(* each generator writes and what the parser of the same message reads.    *)
(*                                                                         *)
(* An object is a byte with the size of its key, three bytes with the size *)
(* of its value, the key and the value.  An object larger than a chunk is  *)
(* split: each part repeats the sizes and the key, then has the offset of  *)
(* its piece of the value in three bytes, and the piece.  A data chunk is a *)
(* sequence of objects followed by zeros; nothing but the sizes in it tells *)
(* where an object begins.  (common/ds/key_value.cc, chunk_util.hh)        *)
(*                                                                         *)
(* Generator and parser are separate code.  Both work on a pointer that     *)
(* moves on by the width of each field, and nothing on the wire says which *)
(* field is where.  The length in the header of the message is computed    *)
(* apart from the writing, from constants that sum up the widths of the    *)
(* fixed fields; the receiver cuts the stream into messages by it, so that *)
(* a wrong one garbles everything that follows.                            *)
(*                                                                         *)
(* A field is <<name, index, width>>, the place of a field is              *)
(* <<name, index, offset, width>>.  generateX has the length put into the  *)
(* header and the fields in the order of writing; parseX the places where  *)
(* the receiver reads, by its own offsets, and the bytes it asks for.  The *)
(* parameters p that decide on the layout are the sizes of the key and the *)
(* value, whether the key is followed by the offset of a split, the number *)
(* n of list entries, and the number m of entries of a second list.        *)
(***************************************************************************)
EXTENDS Integers, Sequences, SequencesExt, FiniteSets

CONSTANT ChunkSize    \* bytes in a chunk

\* KEY_VALUE_METADATA_SIZE and SPLIT_OFFSET_SIZE.
MetadataSize == 4
SplitOffsetSize == 3

-----------------------------------------------------------------------------
(***************************************************************************)
(* Splitting large objects: k and v are the sizes of the key and the value. *)
(***************************************************************************)

\* LargeObjectUtil::isLarge and the size of the pieces it returns.
IsLarge(k, v) == ChunkSize < MetadataSize + k + v

SplitSize(k) == ChunkSize - MetadataSize - k - SplitOffsetSize

NumOfSplit(k, v) ==
  IF ~IsLarge(k, v) THEN 1
  ELSE v \div SplitSize(k) + (IF v % SplitSize(k) = 0 THEN 0 ELSE 1)

getValueOffsetAtSplit(k, v, index) == IF IsLarge(k, v) THEN index * SplitSize(k) ELSE 0

\* A value size of 0 stands for one that is not known: the object is large.
getSplitIndex(k, v, offset) ==
  LET size == IF v = 0 THEN ChunkSize + offset ELSE v
  IN  IF IsLarge(k, size) THEN offset \div SplitSize(k) ELSE 0

\* The size of the piece at an offset, the last one being shorter.
PieceSize(k, v, offset) ==
  CASE ~IsLarge(k, v) -> v
    [] offset + SplitSize(k) > v -> v - offset
    [] OTHER -> SplitSize(k)

\* KeyValue::getSize.
ObjectSize(k, v, offset) ==
  MetadataSize + k + (IF IsLarge(k, v) THEN SplitOffsetSize ELSE 0) + PieceSize(k, v, offset)

-----------------------------------------------------------------------------
(***************************************************************************)
(* Objects in a chunk.  Bytes are numbers, a size below 256 is <<0, 0, n>>. *)
(***************************************************************************)
Zeros(n) == [i \in 1 .. n |-> 0]

ThreeBytes(n) == <<0, 0, n>>

\* KeyValue::serialize of a key of k equal bytes and the piece of its value.
serialize(k, v, offset, byte) ==
  <<k>> \o ThreeBytes(v) \o [i \in 1 .. k |-> byte]
    \o (IF IsLarge(k, v) THEN ThreeBytes(offset) ELSE <<>>)
    \o [i \in 1 .. PieceSize(k, v, offset) |-> byte]

\* KeyValue::deserialize at an offset of a chunk; reading beyond a chunk's end
\* finds the bytes after it, taken as zeros here.
deserialize(data, at) ==
  LET byte(i) == IF at + i <= Len(data) THEN data[at + i] ELSE 0
      k == byte(1)
      v == byte(2) * 65536 + byte(3) * 256 + byte(4)
  IN  [k |-> k, v |-> v,
       offset |-> IF IsLarge(k, v) THEN byte(MetadataSize + k + 3) ELSE 0]

\* KeyValue::setSize.
setSize(k, v) == <<k>> \o ThreeBytes(v)

\* The objects found from an offset on, by their offsets: the scan of
\* ChunkUtil::getSize and getCount, which ends where both sizes are zero.
Scan(data) ==
  LET from[at \in Nat] ==
        LET o == deserialize(data, at)
        IN  IF at + MetadataSize >= ChunkSize \/ (o.k = 0 /\ o.v = 0) THEN <<>>
            ELSE <<[at |-> at, object |-> o]>> \o from[at + ObjectSize(o.k, o.v, o.offset)]
  IN  from[0]

getSize(data) ==
  FoldLeft(LAMBDA sum, e : sum + ObjectSize(e.object.k, e.object.v, e.object.offset), 0, Scan(data))

getCount(data) == Len(Scan(data))

\* ChunkUtil::next: the offset after an object, -1 at the end or at a deleted one.
next(data, at) ==
  LET o == deserialize(data, at)
  IN  IF at + MetadataSize < ChunkSize /\ o.k > 0 THEN at + ObjectSize(o.k, o.v, o.offset) ELSE -1

\* ChunkUtil::alloc and KeyValue::serialize: a chunk with one more object.
Append1(data, object) ==
  LET at == getSize(data)
  IN  SubSeq(data, 1, at) \o object \o Zeros(ChunkSize - at - Len(object))

\* ChunkUtil::deleteObject with a delta: only as many bytes are replaced as
\* the key and the value have, counted from the sizes on.
deleteObject(data, at) ==
  LET o == deserialize(data, at)
      length == o.k + o.v
      new == setSize(0, length) \o Zeros(length)
  IN  [i \in DOMAIN data |-> IF i \in at + 1 .. at + length THEN new[i - at] ELSE data[i]]

\* ChunkUtil::getData: the bytes of a chunk without zeros at either end.
getData(data) ==
  LET size == getSize(data)
      nonzero == {i \in 1 .. size : data[i] # 0}
      first == CHOOSE i \in nonzero : \A j \in nonzero : i <= j
      last == CHOOSE i \in nonzero : \A j \in nonzero : j <= i
  IN  IF nonzero = {} THEN [offset |-> size, data |-> <<>>]
      ELSE [offset |-> first - 1, data |-> SubSeq(data, first, last)]

\* ChunkUtil::load.
load(piece) ==
  Zeros(piece.offset) \o piece.data \o Zeros(ChunkSize - piece.offset - Len(piece.data))

-----------------------------------------------------------------------------
(***************************************************************************)
(* What the layout promises, for sizes of a key and a value, and for a     *)
(* chunk with some objects and one of them deleted.                        *)
(***************************************************************************)

\* The pieces of a value follow each other without a gap, each is found again
\* by its offset alone, and each fits into a chunk of its own.
SplitExact(k, v) ==
  LET n == NumOfSplit(k, v)
      at(i) == getValueOffsetAtSplit(k, v, i)
  IN  /\ at(0) = 0
      /\ \A i \in 0 .. n - 1 :
           /\ at(i) + PieceSize(k, v, at(i)) = IF i = n - 1 THEN v ELSE at(i + 1)
           /\ IsLarge(k, v) => getSplitIndex(k, v, at(i)) = i /\ getSplitIndex(k, 0, at(i)) = i
           /\ Len(serialize(k, v, at(i), 1)) = ObjectSize(k, v, at(i))
           /\ ObjectSize(k, v, at(i)) <= ChunkSize

\* A chunk filled with objects is scanned back to those objects, also when one
\* of them was deleted, and survives being trimmed and loaded again.
ChunkExact(sizes, deleted) ==
  LET objects == [i \in DOMAIN sizes |-> serialize(sizes[i][1], sizes[i][2], 0, i)]
      full == FoldLeft(Append1, Zeros(ChunkSize), objects)
      offset(i) == FoldLeft(LAMBDA s, o : s + Len(o), 0, SubSeq(objects, 1, i - 1))
      data == IF deleted = 0 THEN full ELSE deleteObject(full, offset(deleted))
  IN  /\ getCount(data) = Len(sizes)
      /\ \A i \in DOMAIN sizes :
           /\ Scan(data)[i].at = offset(i)
           /\ i # deleted => Scan(data)[i].object = [k |-> sizes[i][1], v |-> sizes[i][2], offset |-> 0]
           /\ next(data, offset(i)) = IF i = deleted THEN -1 ELSE offset(i) + Len(objects[i])
      /\ load(getData(data)) = data

-----------------------------------------------------------------------------
(***************************************************************************)
(* Messages.  A generator writes fields one after the other and puts a     *)
(* length into the header; a parser finds fields at places it computes,    *)
(* and needs a number of bytes.                                            *)
(***************************************************************************)
Generated(length, wrote) == [length |-> length, wrote |-> wrote]

Parsed(need, read) == [need |-> need, read |-> read]

F(width, names) == [i \in DOMAIN names |-> <<names[i], 0, width>>]

\* n times the fields of one width, as written by a loop.
Each(n, width, names) ==
  FlattenSeq([j \in 1 .. n |-> [i \in DOMAIN names |-> <<names[i], j, width>>]])

Bytewise(name, n) == <<<<name, 0, n>>>>

Entry(i, fields) == [j \in DOMAIN fields |-> <<fields[j][1], i, fields[j][3]>>]

Bytes(fields) == FoldLeft(LAMBDA sum, f : sum + f[3], 0, fields)

\* The places of fields that follow each other from an offset on.
At(offset, fields) ==
  {<<fields[i][1], fields[i][2], offset + Bytes(SubSeq(fields, 1, i - 1)), fields[i][3]>> : i \in DOMAIN fields}

\* Several parsers at work on one message.
Together(parsers) ==
  Parsed(Max({r.need : r \in parsers} \cup {0}), UNION {r.read : r \in parsers})

\* An offset that moved on past entries of some sizes.
Advanced(offset, sizes) == FoldLeft(LAMBDA sum, size : sum + size, offset, sizes)

\* The header has the length that was written, the parser finds every field where
\* it was written, and does not refuse the message.
ReadAsWritten(generated, parsed) ==
  /\ generated.length = Bytes(generated.wrote)
  /\ parsed.read \subseteq At(0, generated.wrote)
  /\ parsed.need <= generated.length

Ids == F(4, <<"listId", "stripeId", "chunkId">>)

Split(p) == IF p.large THEN SplitOffsetSize ELSE 0

\* A key and, of a large object, the offset after it.
KeyBytes(p) == Bytewise("key", p.key + Split(p))

-----------------------------------------------------------------------------
(***************************************************************************)
(* The sizes of the fixed fields, by which lengths are computed (header.hh) *)
(***************************************************************************)
PROTO_HEADER_SIZE == 16
PROTO_NAMED_PIPE_SIZE == 2
PROTO_ADDRESS_SIZE == 6
PROTO_PROMOTE_BACKUP_SERVER_SIZE == 14
PROTO_HEARTBEAT_SIZE == 13
PROTO_METADATA_SIZE == 12
PROTO_KEY_OP_METADATA_SIZE == 19
PROTO_LOAD_STATS_SIZE == 12
PROTO_KEY_SIZE == 1
PROTO_KEY_BACKUP_BASE_SIZE == 3
PROTO_KEY_BACKUP_FOR_DATA_SIZE == 17
PROTO_KEY_BACKUP_SEALED_SIZE == 12
PROTO_CHUNK_KEY_SIZE == 13
PROTO_CHUNK_KEY_VALUE_UPDATE_SIZE == 23
PROTO_KEY_VALUE_SIZE == 4
PROTO_KEY_VALUE_UPDATE_SIZE == 7
PROTO_CHUNK_UPDATE_SIZE == 24
PROTO_BATCH_CHUNK_SIZE == 4
PROTO_BATCH_KEY_SIZE == 4
PROTO_BATCH_KEY_VALUE_SIZE == 4
PROTO_REMAPPING_LOCK_SIZE == 6
PROTO_DEGRADED_SET_SIZE == 17
PROTO_DEGRADED_LOCK_REQ_SIZE == 6
PROTO_DEGRADED_LOCK_RES_BASE_SIZE == 3
PROTO_DEGRADED_LOCK_RES_LOCK_SIZE == 14
PROTO_DEGRADED_LOCK_RES_REMAP_SIZE == 4
PROTO_DEGRADED_LOCK_RES_NOT_SIZE == 0
PROTO_DEGRADED_REQ_BASE_SIZE == 15
PROTO_FORWARD_KEY_BASE_SIZE == 17
PROTO_FORWARD_KEY_UPDATE_SIZE == 6
PROTO_LIST_STRIPE_KEY_SIZE == 9
PROTO_DEGRADED_RELEASE_REQ_SIZE == 12
PROTO_DEGRADED_RELEASE_RES_SIZE == 4
PROTO_RECONSTRUCTION_SIZE == 12
PROTO_CHUNK_SEAL_SIZE == 16
PROTO_CHUNK_SEAL_DATA_SIZE == 6
PROTO_CHUNK_SIZE == 12
PROTO_CHUNKS_SIZE == 12
PROTO_CHUNK_DATA_SIZE == 21
PROTO_CHUNK_KEY_VALUE_SIZE == 21
PROTO_ACK_BASE_SIZE == 8
PROTO_ACK_DELTA_SIZE == 10

-----------------------------------------------------------------------------
(***************************************************************************)
(* The header of every message                                             *)
(***************************************************************************)
Magics == 0 .. 7
Froms == {0, 8, 16, 24}
Tos == {0, 32, 64, 96}

\* The first byte holds the kind of message, its sender and receiver, and a flag.
FirstByte(magic, from, to, isLarge) == magic + from + to + (IF isLarge THEN 128 ELSE 0)

ParsedByte(b) ==
  [magic |-> b % 8, from |-> 8 * ((b \div 8) % 4), to |-> 32 * ((b \div 32) % 4), isLarge |-> b \div 128 = 1]

\* Number of bytes of the send and receive buffers: one object and its sizes,
\* rounded up to pages, and twice that.
PageSize == 4096
PROTO_BUF_MIN_SIZE == 65536
getSuggestedBufferSize(keySize, chunkSize, supportLargeObject) ==
  LET ret == PROTO_HEADER_SIZE + PROTO_KEY_VALUE_SIZE + keySize + (IF supportLargeObject THEN 16777216 ELSE chunkSize)
      pages == ret \div PageSize + (IF ret % PageSize = 0 THEN 0 ELSE 1)
      size == 2 * pages * PageSize
  IN  IF size < PROTO_BUF_MIN_SIZE THEN PROTO_BUF_MIN_SIZE ELSE size

-----------------------------------------------------------------------------
(***************************************************************************)
(* Normal operations                                                       *)
(***************************************************************************)
generateKeyHeader(p) == Generated(PROTO_KEY_SIZE + p.key + Split(p), F(1, <<"keySize">>) \o KeyBytes(p))

\* The offset of a split is read behind the key by those that use it.
parseKeyHeader(p, offset) ==
  Parsed(offset + PROTO_KEY_SIZE + p.key, At(offset, F(1, <<"keySize">>) \o KeyBytes(p)))

\* From a data server, with the chunks sealed by the SET.
generateKeyBackupHeader(p) ==
  Generated(PROTO_KEY_BACKUP_BASE_SIZE + PROTO_KEY_BACKUP_FOR_DATA_SIZE + p.n * PROTO_KEY_BACKUP_SEALED_SIZE + p.key + Split(p),
            F(1, <<"isParity", "keySize", "isLarge">>) \o F(4, <<"timestamp", "listId", "stripeId", "chunkId">>)
              \o F(1, <<"sealedCount">>) \o Each(p.n, 4, <<"listId", "stripeId", "chunkId">>) \o KeyBytes(p))

\* From a data server for an object of which no chunk was sealed.
generateKeyBackupUnsealed(p) ==
  Generated(PROTO_KEY_BACKUP_BASE_SIZE + PROTO_KEY_BACKUP_FOR_DATA_SIZE + p.key + Split(p),
            F(1, <<"isParity", "keySize", "isLarge">>) \o F(4, <<"timestamp", "listId", "stripeId", "chunkId">>)
              \o F(1, <<"sealedCount">>) \o KeyBytes(p))

generateKeyBackupParity(p) ==
  Generated(PROTO_KEY_BACKUP_BASE_SIZE + p.key + Split(p), F(1, <<"isParity", "keySize", "isLarge">>) \o KeyBytes(p))

\* What follows the base depends on who sent it, and on the number of sealed chunks.
parseKeyBackupHeader(p, isParity, sealedCount) ==
  LET base == F(1, <<"isParity", "keySize", "isLarge">>)
      data == F(4, <<"timestamp", "listId", "stripeId", "chunkId">>) \o F(1, <<"sealedCount">>)
      sealed == Each(sealedCount, 4, <<"listId", "stripeId", "chunkId">>)
      ptr == Bytes(base)
  IN  IF isParity
      THEN Parsed(PROTO_KEY_BACKUP_BASE_SIZE + p.key, At(0, base) \cup At(ptr, KeyBytes(p)))
      ELSE Parsed(PROTO_KEY_BACKUP_BASE_SIZE + PROTO_KEY_BACKUP_FOR_DATA_SIZE + sealedCount * PROTO_KEY_BACKUP_SEALED_SIZE + p.key,
                  At(0, base) \cup At(ptr, data \o sealed \o KeyBytes(p)))

generateChunkKeyHeader(p) ==
  Generated(PROTO_CHUNK_KEY_SIZE + p.key, Ids \o F(1, <<"keySize">>) \o Bytewise("key", p.key))

parseChunkKeyHeader(p) ==
  Parsed(PROTO_CHUNK_KEY_SIZE + p.key, At(0, Ids \o F(1, <<"keySize">>)) \cup At(PROTO_CHUNK_KEY_SIZE, Bytewise("key", p.key)))

\* Requests have the new bytes of the value, answers have not.
ValueUpdate(p, with) == IF with /\ p.value > 0 THEN Bytewise("valueUpdate", p.value) ELSE <<>>

generateChunkKeyValueUpdateHeader(p, with) ==
  Generated(PROTO_CHUNK_KEY_VALUE_UPDATE_SIZE + p.key + Split(p) + (IF with THEN p.value ELSE 0),
            Ids \o F(1, <<"keySize">>) \o F(3, <<"valueUpdateSize", "valueUpdateOffset", "chunkUpdateOffset">>)
              \o F(1, <<"isLarge">>) \o KeyBytes(p) \o ValueUpdate(p, with))

parseChunkKeyValueUpdateHeader(p, with) ==
  LET fixed == Ids \o F(1, <<"keySize">>)
                 \o F(3, <<"valueUpdateSize", "valueUpdateOffset", "chunkUpdateOffset">>) \o F(1, <<"isLarge">>)
      key == Bytes(fixed)
  IN  Parsed(PROTO_CHUNK_KEY_VALUE_UPDATE_SIZE + p.key + Split(p) + (IF with THEN p.value ELSE 0),
             At(0, fixed) \cup At(key, KeyBytes(p)) \cup At(key + p.key + Split(p), ValueUpdate(p, with)))

\* Sizes, key and value as they are: SET and GET of an object, or of the piece of a
\* split one at an offset.  A size of the pieces of 0 stands for an object that is whole.
generateKeyValueHeader(p, splitOffset, splitSize) ==
  LET whole == splitSize = 0 \/ splitSize = p.value
      piece == IF splitOffset + splitSize > p.value THEN p.value - splitOffset ELSE splitSize
      fields == F(1, <<"keySize">>) \o F(3, <<"valueSize">>) \o Bytewise("key", p.key)
                  \o (IF whole THEN Bytewise("value", p.value) ELSE F(3, <<"splitOffset">>) \o Bytewise("value", piece))
  IN  Generated(Bytes(fields), fields)

\* Whether an object is split is found out from its sizes.
parseKeyValueHeader(p, offset, enableSplit, splitOffset) ==
  LET fixed == F(1, <<"keySize">>) \o F(3, <<"valueSize">>) \o Bytewise("key", p.key)
      ptr == offset + Bytes(fixed)
      piece == PieceSize(p.key, p.value, splitOffset)
  IN  IF enableSplit /\ IsLarge(p.key, p.value)
      THEN Parsed(offset + PROTO_KEY_VALUE_SIZE + SplitOffsetSize + p.key + piece,
                  At(offset, fixed) \cup At(ptr, F(3, <<"splitOffset">>)) \cup At(ptr + SplitOffsetSize, Bytewise("value", piece)))
      ELSE Parsed(offset + PROTO_KEY_VALUE_SIZE + p.key + p.value,
                  At(offset, fixed) \cup At(ptr, Bytewise("value", p.value)))

generateKeyValueUpdateHeader(p, with) ==
  Generated(PROTO_KEY_VALUE_UPDATE_SIZE + p.key + (IF with THEN p.value ELSE 0),
            F(1, <<"keySize">>) \o F(3, <<"valueUpdateSize", "valueUpdateOffset">>)
              \o Bytewise("key", p.key) \o ValueUpdate(p, with))

\* split is what the caller moves the value on by.
parseKeyValueUpdateHeader(p, with, offset, split) ==
  LET fixed == F(1, <<"keySize">>) \o F(3, <<"valueUpdateSize", "valueUpdateOffset">>)
      key == offset + Bytes(fixed)
  IN  Parsed(offset + PROTO_KEY_VALUE_UPDATE_SIZE + p.key + (IF with THEN p.value ELSE 0),
             At(offset, fixed) \cup At(key, Bytewise("key", p.key + split)) \cup At(key + p.key + split, ValueUpdate(p, with)))

generateChunkUpdateHeader(p, with) ==
  Generated(PROTO_CHUNK_UPDATE_SIZE + (IF with THEN p.value ELSE 0),
            Ids \o F(4, <<"offset", "length", "updatingChunkId">>) \o ValueUpdate(p, with))

parseChunkUpdateHeader(p, with) ==
  Parsed(PROTO_CHUNK_UPDATE_SIZE + (IF with THEN p.value ELSE 0),
         At(0, Ids \o F(4, <<"offset", "length", "updatingChunkId">>)) \cup At(PROTO_CHUNK_UPDATE_SIZE, ValueUpdate(p, with)))

-----------------------------------------------------------------------------
(***************************************************************************)
(* Chunks, batches and seals                                               *)
(***************************************************************************)
generateChunkHeader(p) == Generated(PROTO_CHUNK_SIZE, Ids)

\* The i-th of a list, or the only one for i = 0.
parseChunkHeader(i, offset) == Parsed(offset + PROTO_CHUNK_SIZE, At(offset, Entry(i, Ids)))

generateChunksHeader(p) ==
  LET fields == F(4, <<"listId", "chunkId", "numStripes">>) \o Each(p.n, 4, <<"stripeId">>)
  IN  Generated(Bytes(fields), fields)

parseChunksHeader(p) ==
  Parsed(PROTO_CHUNKS_SIZE + p.n * 4,
         At(0, F(4, <<"listId", "chunkId", "numStripes">>)) \cup At(PROTO_CHUNKS_SIZE, Each(p.n, 4, <<"stripeId">>)))

generateChunkDataHeader(p) ==
  Generated(PROTO_CHUNK_DATA_SIZE + p.value + p.n,
            F(1, <<"sealIndicatorCount">>) \o Ids \o F(4, <<"size", "offset">>)
              \o Each(p.n, 1, <<"sealIndicator">>) \o Bytewise("data", p.value))

parseChunkDataHeader(p) ==
  LET fixed == F(1, <<"sealIndicatorCount">>) \o Ids \o F(4, <<"size", "offset">>)
  IN  Parsed(PROTO_CHUNK_DATA_SIZE + p.n + p.value,
             At(0, fixed) \cup At(Bytes(fixed), Each(p.n, 1, <<"sealIndicator">>))
               \cup (IF p.value > 0 THEN At(Bytes(fixed) + p.n, Bytewise("data", p.value)) ELSE {}))

\* Keys of different sizes: the i-th has i bytes more than p.key.
Keyed(p, i) == [p EXCEPT !.key = @ + i, !.large = FALSE]

EachKey(p, n) == FlattenSeq([i \in 1 .. n |-> Entry(i, generateKeyHeader(Keyed(p, i)).wrote)])

\* The places of entries whose sizes vary, the i-th found by a parser of its own.
Indexed(i, parsed) == Parsed(parsed.need, {<<f[1], i, f[3], f[4]>> : f \in parsed.read})

nextKeys(p, n, offset) ==
  Together({Indexed(i, parseKeyHeader(Keyed(p, i), Advanced(offset, [j \in 1 .. i - 1 |-> PROTO_KEY_SIZE + p.key + j])))
              : i \in 1 .. n})

\* A reconstructed chunk that is not sealed returns: n deleted keys, then m objects, each
\* written as it is and once more as large ones are meant to be.
generateChunkKeyValueHeader(p) ==
  LET fixed == Ids \o F(4, <<"deleted", "count">>) \o F(1, <<"isCompleted">>)
      object(i) == F(1, <<"keySize">>) \o F(3, <<"valueSize">>) \o Bytewise("key", p.key + i) \o Bytewise("value", p.value)
      again(i) ==
        IF IsLarge(p.key + i, p.value)
        THEN F(1, <<"keySize">>) \o F(3, <<"valueSize">>) \o Bytewise("key", p.key + i) \o F(3, <<"splitSize">>)
               \o Bytewise("value", PieceSize(p.key + i, p.value, 0))
        ELSE object(i)
      fields == fixed \o EachKey(p, p.n)
                  \o FlattenSeq([i \in 1 .. p.m |-> Entry(p.n + i, object(i)) \o Entry(p.n + i, again(i))])
  IN  Generated(Bytes(fields), fields)

\* ServerWorker::handleSetChunkRequest goes through the keys and the objects, moving on
\* by the sizes of one copy of each.
parseChunkKeyValueHeader(p) ==
  LET objects == Advanced(PROTO_CHUNK_KEY_VALUE_SIZE, [i \in 1 .. p.n |-> PROTO_KEY_SIZE + p.key + i])
      at(i) == Advanced(objects, [j \in 1 .. i - 1 |-> PROTO_KEY_VALUE_SIZE + p.key + j + p.value])
  IN  Together({Parsed(PROTO_CHUNK_KEY_VALUE_SIZE, At(0, Ids \o F(4, <<"deleted", "count">>) \o F(1, <<"isCompleted">>))),
                nextKeys(p, p.n, PROTO_CHUNK_KEY_VALUE_SIZE)}
               \cup {Indexed(p.n + i, parseKeyValueHeader(Keyed(p, i), at(i), FALSE, 0)) : i \in 1 .. p.m})

generateBatchChunkHeader(p) ==
  LET fields == F(4, <<"count">>) \o Each(p.n, 4, <<"requestId", "listId", "stripeId", "chunkId">>)
  IN  Generated(Bytes(fields), fields)

nextChunkInBatchChunkHeader(p) ==
  LET at(i) == Advanced(PROTO_BATCH_CHUNK_SIZE, [j \in 1 .. i - 1 |-> 4 + PROTO_CHUNK_SIZE])
  IN  Together({Parsed(PROTO_BATCH_CHUNK_SIZE, At(0, F(4, <<"count">>)))}
               \cup {Parsed(0, At(at(i), Entry(i, F(4, <<"requestId">>)))) : i \in 1 .. p.n}
               \cup {parseChunkHeader(i, at(i) + 4) : i \in 1 .. p.n})

generateBatchKeyHeader(p) ==
  LET fields == F(4, <<"count">>) \o EachKey(p, p.n)
  IN  Generated(Bytes(fields), fields)

nextKeyInBatchKeyHeader(p) ==
  Together({Parsed(PROTO_BATCH_KEY_SIZE, At(0, F(4, <<"count">>))), nextKeys(p, p.n, PROTO_BATCH_KEY_SIZE)})

\* The objects of a batch, written as they are stored.  They are looked up by keys that
\* are not marked as large: split objects are not found, and left out.
Batched(p) == SelectSeq([i \in 1 .. p.n |-> p.key + i], LAMBDA k : ~IsLarge(k, p.value))

generateBatchKeyValueHeader(p) ==
  LET object(i) == F(1, <<"keySize">>) \o F(3, <<"valueSize">>) \o Bytewise("key", Batched(p)[i]) \o Bytewise("value", p.value)
      fields == F(4, <<"count">>) \o FlattenSeq([i \in DOMAIN Batched(p) |-> Entry(i, object(i))])
  IN  Generated(Bytes(fields), fields)

\* Moves on by the sizes of an object that is not split.
nextKeyValueInBatchKeyValueHeader(p) ==
  LET keys == Batched(p)
      at(i) == Advanced(PROTO_BATCH_KEY_VALUE_SIZE, [j \in 1 .. i - 1 |-> PROTO_KEY_VALUE_SIZE + keys[j] + p.value])
      object(i) == At(at(i), Entry(i, F(1, <<"keySize">>) \o F(3, <<"valueSize">>) \o Bytewise("key", keys[i])))
                     \cup At(at(i) + PROTO_KEY_VALUE_SIZE + keys[i], Entry(i, Bytewise("value", p.value)))
  IN  Parsed(PROTO_BATCH_KEY_VALUE_SIZE, At(0, F(4, <<"count">>)) \cup UNION {object(i) : i \in DOMAIN keys})

\* The answer to a batch takes its keys from the batch.
generateBatchKeyAnswer(p) ==
  LET keys == Batched(p)
      fields == F(4, <<"count">>) \o FlattenSeq([i \in DOMAIN keys |-> Entry(i, F(1, <<"keySize">>) \o Bytewise("key", keys[i]))])
  IN  Generated(Bytes(fields), fields)

\* The keys of the objects of a chunk with their offsets in it (ServerProtocol::reqSealChunk).
generateChunkSealHeader(p) ==
  LET record(i) == F(1, <<"keySize">>) \o F(4, <<"offset">>) \o F(1, <<"isLarge">>) \o Bytewise("key", p.key + i + Split(p))
      records == FlattenSeq([i \in 1 .. p.n |-> Entry(i, record(i))])
  IN  Generated(Advanced(PROTO_CHUNK_SEAL_SIZE, [i \in 1 .. p.n |-> PROTO_CHUNK_SEAL_DATA_SIZE + p.key + i + Split(p)]),
                Ids \o F(4, <<"count">>) \o records)

\* ParityChunkBuffer::flushData, in bytes 0, 1 to 4, 5 and from 6 on of each record.
parseChunkSealHeader(p) ==
  LET at(i) == Advanced(PROTO_CHUNK_SEAL_SIZE, [j \in 1 .. i - 1 |-> PROTO_CHUNK_SEAL_DATA_SIZE + p.key + j + Split(p)])
      record(i) == {<<"keySize", i, at(i), 1>>, <<"offset", i, at(i) + 1, 4>>, <<"isLarge", i, at(i) + 5, 1>>,
                    <<"key", i, at(i) + PROTO_CHUNK_SEAL_DATA_SIZE, p.key + i + Split(p)>>}
  IN  Parsed(PROTO_CHUNK_SEAL_SIZE, At(0, Ids \o F(4, <<"count">>)) \cup UNION {record(i) : i \in 1 .. p.n})

-----------------------------------------------------------------------------
(***************************************************************************)
(* Degraded operations and remapping                                       *)
(***************************************************************************)
\* n pairs of a list and a chunk, and as many that they are redirected to.
Redirections(p, from, to) == Each(2 * p.n, 4, <<from>>) \o Each(2 * p.n, 4, <<to>>)

\* Two arrays of 2n numbers of four bytes, the second found by the size of the first.
RedirectionsAt(p, ptr, from, to) ==
  At(ptr, Each(2 * p.n, 4, <<from>>)) \cup At(ptr + 4 * (p.n * 2), Each(2 * p.n, 4, <<to>>))

\* The offset of a split always has room, filled with zeros in other objects.
generateDegradedLockReqHeader(p) ==
  Generated(PROTO_DEGRADED_LOCK_REQ_SIZE + p.key + SplitOffsetSize + p.n * 4 * 4,
            F(4, <<"reconstructedCount">>) \o F(1, <<"keySize", "isLarge">>) \o KeyBytes(p)
              \o (IF p.large THEN <<>> ELSE F(3, <<"placeholder">>))
              \o Redirections(p, "original", "reconstructed"))

parseDegradedLockReqHeader(p) ==
  LET fixed == F(4, <<"reconstructedCount">>) \o F(1, <<"keySize", "isLarge">>)
      key == Bytes(fixed)
  IN  Parsed(PROTO_DEGRADED_LOCK_REQ_SIZE + p.key + p.n * 4 * 4,
             At(0, fixed) \cup At(key, KeyBytes(p))
               \cup RedirectionsAt(p, key + p.key + SplitOffsetSize, "original", "reconstructed"))

\* The answers share a beginning.
DegradedLockRes(p, length, rest) ==
  Generated(PROTO_DEGRADED_LOCK_RES_BASE_SIZE + p.key + Split(p) + length,
            F(1, <<"type", "keySize", "isLarge">>) \o KeyBytes(p) \o rest)

\* Redirections of the key's own chunk and of parity chunks come first.  Here the
\* i-th is of chunk i of a stripe with two data chunks, and the key's is chunk 1.
Related(i) == i = 1 \/ i > 2

RelatedFirst(p) ==
  SelectSeq([i \in 1 .. p.n |-> i], Related) \o SelectSeq([i \in 1 .. p.n |-> i], LAMBDA i : ~Related(i))

\* The list and the chunk of the i-th redirection.
PairOf(name, i) == <<<<name, 2 * i - 1, 4>>, <<name, 2 * i, 4>>>>

generateDegradedLockResLocked(p) ==
  LET entries(name) == FlattenSeq([j \in 1 .. p.n |-> PairOf(name, RelatedFirst(p)[j])])
  IN  DegradedLockRes(p, PROTO_DEGRADED_LOCK_RES_LOCK_SIZE + p.m * 4 + p.n * 4 * 4,
        F(1, <<"isSealed">>) \o F(4, <<"stripeId", "reconstructedCount", "ongoingAtChunk">>)
          \o F(1, <<"numSurvivingChunkIds">>) \o Each(p.m, 4, <<"survivingChunkIds">>)
          \o entries("original") \o entries("reconstructed"))

generateDegradedLockResNot(p) == DegradedLockRes(p, PROTO_DEGRADED_LOCK_RES_NOT_SIZE, <<>>)

generateDegradedLockResRemapped(p) ==
  DegradedLockRes(p, PROTO_DEGRADED_LOCK_RES_REMAP_SIZE + p.n * 4 * 4,
                  F(4, <<"remappedCount">>) \o Redirections(p, "original", "remapped"))

\* The beginning, and what follows it for each type.
parseDegradedLockResBase(p) ==
  Parsed(PROTO_DEGRADED_LOCK_RES_BASE_SIZE + p.key, At(0, F(1, <<"type", "keySize", "isLarge">>) \o KeyBytes(p)))

DegradedLockResOffset(p) == PROTO_DEGRADED_LOCK_RES_BASE_SIZE + p.key + Split(p)

\* The arrays hold the redirections in the order related ones first.
parseDegradedLockResLocked(p) ==
  LET fixed == F(1, <<"isSealed">>) \o F(4, <<"stripeId", "reconstructedCount", "ongoingAtChunk">>)
                 \o F(1, <<"numSurvivingChunkIds">>)
      surviving == DegradedLockResOffset(p) + Bytes(fixed)
      original == surviving + p.m * 4
      pair(j, name, ptr) == At(ptr + (j * 2 - 2) * 4, PairOf(name, RelatedFirst(p)[j]))
  IN  Together({parseDegradedLockResBase(p),
                Parsed(DegradedLockResOffset(p) + PROTO_DEGRADED_LOCK_RES_LOCK_SIZE,
                       At(DegradedLockResOffset(p), fixed) \cup At(surviving, Each(p.m, 4, <<"survivingChunkIds">>))
                         \cup UNION {pair(j, "original", original) : j \in 1 .. p.n}
                         \cup UNION {pair(j, "reconstructed", original + p.n * 2 * 4) : j \in 1 .. p.n})})

parseDegradedLockResRemapped(p) ==
  LET offset == DegradedLockResOffset(p)
  IN  Together({parseDegradedLockResBase(p),
                Parsed(offset + PROTO_DEGRADED_LOCK_RES_REMAP_SIZE,
                       At(offset, F(4, <<"remappedCount">>))
                         \cup RedirectionsAt(p, offset + PROTO_DEGRADED_LOCK_RES_REMAP_SIZE, "original", "remapped"))})

\* What a degraded request has before the request itself.
DegradedReqBase(p) ==
  F(1, <<"isLarge", "isSealed">>) \o F(4, <<"stripeId", "reconstructedCount", "ongoingAtChunk">>)
    \o F(1, <<"numSurvivingChunkIds">>) \o Each(p.m, 4, <<"survivingChunkIds">>)
    \o Redirections(p, "original", "reconstructed")

generateDegradedReqHeader(p) ==
  Generated(PROTO_DEGRADED_REQ_BASE_SIZE + p.m * 4 + p.n * 4 * 4 + PROTO_KEY_SIZE + p.key + Split(p),
            DegradedReqBase(p) \o F(1, <<"keySize">>) \o KeyBytes(p))

generateDegradedReqUpdate(p) ==
  Generated(PROTO_DEGRADED_REQ_BASE_SIZE + p.m * 4 + p.n * 4 * 4 + PROTO_KEY_VALUE_UPDATE_SIZE + p.key + Split(p) + p.value,
            DegradedReqBase(p) \o F(1, <<"keySize">>) \o F(3, <<"valueUpdateSize", "valueUpdateOffset">>)
              \o KeyBytes(p) \o Bytewise("valueUpdate", p.value))

parseDegradedReqBase(p) ==
  LET fixed == F(1, <<"isLarge", "isSealed">>) \o F(4, <<"stripeId", "reconstructedCount", "ongoingAtChunk">>)
                 \o F(1, <<"numSurvivingChunkIds">>)
      surviving == Bytes(fixed)
  IN  Parsed(PROTO_DEGRADED_REQ_BASE_SIZE,
             At(0, fixed) \cup At(surviving, Each(p.m, 4, <<"survivingChunkIds">>))
               \cup RedirectionsAt(p, surviving + p.m * 4, "original", "reconstructed"))

\* A mutant: the update is taken to follow the key at once.
parseDegradedReqUnsplit(p, isUpdate) ==
  LET offset == PROTO_DEGRADED_REQ_BASE_SIZE + p.m * 4 + p.n * 4 * 4
  IN  Together({parseDegradedReqBase(p),
                IF isUpdate THEN parseKeyValueUpdateHeader(p, TRUE, offset, 0) ELSE parseKeyHeader(p, offset)})

\* The request is reached by the sizes of what comes before it.
parseDegradedReqHeader(p, isUpdate) ==
  LET offset == PROTO_DEGRADED_REQ_BASE_SIZE + p.m * 4 + p.n * 4 * 4
  IN  Together({parseDegradedReqBase(p),
                IF isUpdate THEN parseKeyValueUpdateHeader(p, TRUE, offset, Split(p)) ELSE parseKeyHeader(p, offset)})

\* An object on its way to the server it is redirected to, and of DEGRADED_UPDATE the update.
generateForwardKeyReqHeader(p, isUpdate) ==
  Generated(PROTO_FORWARD_KEY_BASE_SIZE + p.key + p.value + (IF isUpdate THEN PROTO_FORWARD_KEY_UPDATE_SIZE + p.m ELSE 0),
            F(1, <<"opcode">>) \o Ids \o F(1, <<"keySize">>) \o F(3, <<"valueSize">>)
              \o Bytewise("key", p.key) \o Bytewise("value", p.value)
              \o (IF isUpdate THEN F(3, <<"valueUpdateSize", "valueUpdateOffset">>) \o Bytewise("valueUpdate", p.m) ELSE <<>>))

parseForwardKeyReqHeader(p, isUpdate) ==
  LET fixed == F(1, <<"opcode">>) \o Ids \o F(1, <<"keySize">>) \o F(3, <<"valueSize">>)
      key == Bytes(fixed)
      update == key + (p.key + p.value)
      size == PROTO_FORWARD_KEY_BASE_SIZE + p.key + p.value
  IN  Together({Parsed(size, At(0, fixed) \cup At(key, Bytewise("key", p.key)) \cup At(key + p.key, Bytewise("value", p.value))),
                IF isUpdate
                THEN Parsed(size + PROTO_FORWARD_KEY_UPDATE_SIZE + p.m,
                            At(update, F(3, <<"valueUpdateSize", "valueUpdateOffset">>) \o Bytewise("valueUpdate", p.m)))
                ELSE Parsed(size, {})})

generateForwardKeyResHeader(p, isUpdate) ==
  Generated(PROTO_FORWARD_KEY_BASE_SIZE + p.key + (IF isUpdate THEN PROTO_FORWARD_KEY_UPDATE_SIZE ELSE 0),
            F(1, <<"opcode">>) \o Ids \o F(1, <<"keySize">>) \o F(3, <<"valueSize">>) \o Bytewise("key", p.key)
              \o (IF isUpdate THEN F(3, <<"valueUpdateSize", "valueUpdateOffset">>) ELSE <<>>))

parseForwardKeyResHeader(p, isUpdate) ==
  LET fixed == F(1, <<"opcode">>) \o Ids \o F(1, <<"keySize">>) \o F(3, <<"valueSize">>)
      key == Bytes(fixed)
      update == IF isUpdate THEN F(3, <<"valueUpdateSize", "valueUpdateOffset">>) ELSE <<>>
  IN  Parsed(PROTO_FORWARD_KEY_BASE_SIZE + p.key + (IF isUpdate THEN PROTO_FORWARD_KEY_UPDATE_SIZE ELSE 0),
             At(0, fixed) \cup At(key, Bytewise("key", p.key)) \cup At(key + p.key, update))

generateListStripeKeyHeader(p) ==
  Generated(PROTO_LIST_STRIPE_KEY_SIZE + p.key + Split(p),
            F(4, <<"listId", "chunkId">>) \o F(1, <<"keySize">>) \o KeyBytes(p))

parseListStripeKeyHeader(p) ==
  LET fixed == F(4, <<"listId", "chunkId">>) \o F(1, <<"keySize">>)
  IN  Parsed(PROTO_LIST_STRIPE_KEY_SIZE + p.key + Split(p), At(0, fixed) \cup At(Bytes(fixed), KeyBytes(p)))

generateDegradedReleaseReqHeader(p) ==
  LET fields == Each(p.n, 4, <<"listId", "stripeId", "chunkId">>)
  IN  Generated(Bytes(fields), fields)

\* ServerWorker::handleReleaseDegradedLockRequest parses and moves on until nothing is left.
parseDegradedReleaseReqHeader(p) ==
  Together({parseChunkHeader(i, Advanced(0, [j \in 1 .. i - 1 |-> PROTO_DEGRADED_RELEASE_REQ_SIZE])) : i \in 1 .. p.n})

generateDegradedReleaseResHeader(p) == Generated(PROTO_DEGRADED_RELEASE_RES_SIZE, F(4, <<"count">>))

parseDegradedReleaseResHeader(p) == Parsed(PROTO_DEGRADED_RELEASE_RES_SIZE, At(0, F(4, <<"count">>)))

generateRemappingLockHeader(p) ==
  Generated(PROTO_REMAPPING_LOCK_SIZE + p.key + Split(p) + p.n * 4 * 4,
            F(4, <<"remappedCount">>) \o F(1, <<"keySize", "isLarge">>) \o KeyBytes(p)
              \o Redirections(p, "original", "remapped"))

parseRemappingLockHeader(p) ==
  LET fixed == F(4, <<"remappedCount">>) \o F(1, <<"keySize", "isLarge">>)
      key == Bytes(fixed)
  IN  Parsed(PROTO_REMAPPING_LOCK_SIZE + p.key + p.n * 4 * 4,
             At(0, fixed) \cup At(key, KeyBytes(p)) \cup RedirectionsAt(p, key + p.key + Split(p), "original", "remapped"))

\* A SET of an object, or of the piece of a split one, and where its stripe is remapped to.
generateDegradedSetHeader(p, splitOffset, splitSize) ==
  LET isLarge == ~(splitSize = 0 \/ splitSize = p.value)
      piece == IF splitOffset + splitSize > p.value THEN p.value - splitOffset ELSE splitSize
      fields == F(4, <<"listId", "chunkId", "remappedCount">>) \o F(1, <<"keySize">>) \o F(3, <<"valueSize">>)
                  \o F(1, <<"isLarge">>) \o Bytewise("key", p.key)
                  \o (IF isLarge THEN F(3, <<"splitOffset">>) \o Bytewise("value", piece) ELSE Bytewise("value", p.value))
                  \o Redirections(p, "original", "remapped")
  IN  Generated(Bytes(fields), fields)

\* Whether the object is split is found out from its sizes, not from the flag.
parseDegradedSetHeader(p, splitOffset) ==
  LET fixed == F(4, <<"listId", "chunkId", "remappedCount">>) \o F(1, <<"keySize">>) \o F(3, <<"valueSize">>)
                 \o F(1, <<"isLarge">>)
      ptr == Bytes(fixed) + p.key
      split == IF IsLarge(p.key, p.value) THEN F(3, <<"splitOffset">>) ELSE <<>>
      piece == PieceSize(p.key, p.value, splitOffset)
      value == ptr + Bytes(split)
  IN  Parsed(PROTO_DEGRADED_SET_SIZE + Bytes(split) + p.key + piece + p.n * 4 * 4,
             At(0, fixed \o Bytewise("key", p.key)) \cup At(ptr, split) \cup At(value, Bytewise("value", piece))
               \cup RedirectionsAt(p, value + piece, "original", "remapped"))

-----------------------------------------------------------------------------
(***************************************************************************)
(* Metadata, recovery, acknowledgements and registration                   *)
(***************************************************************************)
Heartbeat == F(4, <<"timestamp", "sealed", "keys">>) \o F(1, <<"isLast">>)

\* Chunks sealed since the last heartbeat, then the operations on keys.
Operation(p, i) ==
  F(1, <<"keySize", "opcode">>) \o Ids \o F(4, <<"opTimestamp">>) \o F(1, <<"isLarge">>) \o Bytewise("key", p.key + i + Split(p))

OpsMetadata(p) ==
  Each(p.n, 4, <<"listId", "stripeId", "chunkId">>)
    \o FlattenSeq([i \in 1 .. p.m |-> Entry(p.n + i, Operation(p, i))])

generateHeartbeatMessage(p) == Generated(Bytes(Heartbeat \o OpsMetadata(p)), Heartbeat \o OpsMetadata(p))

generateHeartbeatAnswer(p) == Generated(PROTO_HEARTBEAT_SIZE, Heartbeat)

parseHeartbeatHeader(offset) == Parsed(offset + PROTO_HEARTBEAT_SIZE, At(offset, Heartbeat))

parseMetadataHeader(i, offset) == Parsed(offset + PROTO_METADATA_SIZE, At(offset, Entry(i, Ids)))

\* The key is a pointer behind the fixed fields.
parseKeyOpMetadataHeader(p, i, offset) ==
  Parsed(offset + PROTO_KEY_OP_METADATA_SIZE + p.key + i + Split(p), At(offset, Entry(p.n + i, Operation(p, i))))

\* The coordinator moves on by what each parser says it has processed.
parseOpsMetadata(p, offset) ==
  LET ops == Advanced(offset, [i \in 1 .. p.n |-> PROTO_METADATA_SIZE])
      at(i) == Advanced(ops, [j \in 1 .. i - 1 |-> PROTO_KEY_OP_METADATA_SIZE + p.key + j + Split(p)])
  IN  Together({parseMetadataHeader(i, Advanced(offset, [j \in 1 .. i - 1 |-> PROTO_METADATA_SIZE])) : i \in 1 .. p.n}
               \cup {parseKeyOpMetadataHeader(p, i, at(i)) : i \in 1 .. p.m})

parseHeartbeatMessage(p) == Together({parseHeartbeatHeader(0), parseOpsMetadata(p, PROTO_HEARTBEAT_SIZE)})

Address == F(4, <<"addr">>) \o F(2, <<"port">>)

generateAddressHeader(p) == Generated(PROTO_ADDRESS_SIZE, Address)

parseAddressHeader(offset) == Parsed(offset + PROTO_ADDRESS_SIZE, At(offset, Address))

generateSrcDstAddressHeader(p) == Generated(PROTO_ADDRESS_SIZE * 2, Entry(1, Address) \o Entry(2, Address))

parseSrcDstAddressHeader(p) == Parsed(PROTO_ADDRESS_SIZE * 2, At(0, Entry(1, Address) \o Entry(2, Address)))

generateMetadataBackupMessage(p) ==
  Generated(Bytes(Address \o Heartbeat \o OpsMetadata(p)), Address \o Heartbeat \o OpsMetadata(p))

parseMetadataBackupMessage(p) ==
  Together({parseAddressHeader(0), parseHeartbeatHeader(PROTO_ADDRESS_SIZE),
            parseOpsMetadata(p, PROTO_ADDRESS_SIZE + PROTO_HEARTBEAT_SIZE)})

\* The counts are filled in afterwards, in room left between the address and the chunks.
generatePromoteBackupServerHeader(p) ==
  LET fields == Address \o F(4, <<"chunkCount", "unsealedCount">>)
                  \o Each(p.n, 4, <<"listId", "stripeId", "chunkId">>) \o EachKey(p, p.m)
  IN  Generated(Bytes(fields), fields)

generatePromoteBackupServerAnswer(p) ==
  Generated(PROTO_PROMOTE_BACKUP_SERVER_SIZE, Address \o F(4, <<"chunkCount", "unsealedCount">>))

\* PendingRecovery::insertMetadata and insertKeys take the lists of a request apart.
parsePromoteBackupServerHeader(p, isRequest) ==
  LET fixed == Parsed(PROTO_PROMOTE_BACKUP_SERVER_SIZE, At(0, Address \o F(4, <<"chunkCount", "unsealedCount">>)))
      keys == Advanced(PROTO_PROMOTE_BACKUP_SERVER_SIZE, [i \in 1 .. p.n |-> PROTO_METADATA_SIZE])
      chunks == At(PROTO_PROMOTE_BACKUP_SERVER_SIZE, Each(p.n, 4, <<"listId", "stripeId", "chunkId">>))
  IN  IF isRequest THEN Together({fixed, Parsed(0, chunks), nextKeys(p, p.m, keys)}) ELSE fixed

generateReconstructionHeader(p) ==
  LET fields == F(4, <<"listId", "chunkId", "numStripes">>) \o Each(p.n, 4, <<"stripeId">>)
  IN  Generated(Bytes(fields), fields)

generateReconstructionAnswer(p) == Generated(PROTO_RECONSTRUCTION_SIZE, F(4, <<"listId", "chunkId", "numStripes">>))

parseReconstructionHeader(p, isRequest) ==
  LET stripes == IF isRequest THEN p.n ELSE 0
  IN  Parsed(PROTO_RECONSTRUCTION_SIZE + stripes * 4,
             At(0, F(4, <<"listId", "chunkId", "numStripes">>)) \cup At(PROTO_RECONSTRUCTION_SIZE, Each(stripes, 4, <<"stripeId">>)))

generateAcknowledgementHeader(p) == Generated(PROTO_ACK_BASE_SIZE, F(4, <<"fromTimestamp", "toTimestamp">>))

parseAcknowledgementHeader(p) == Parsed(PROTO_ACK_BASE_SIZE, At(0, F(4, <<"fromTimestamp", "toTimestamp">>)))

generateDeltaAcknowledgementHeader(p) ==
  LET fields == F(4, <<"tsCount", "keyCount">>) \o F(2, <<"targetId">>)
                  \o Each(p.n, 4, <<"timestamp">>) \o EachKey(p, p.m)
  IN  Generated(Bytes(fields), fields)

parseDeltaAcknowledgementHeader(p) ==
  LET fixed == F(4, <<"tsCount", "keyCount">>) \o F(2, <<"targetId">>) \o Each(p.n, 4, <<"timestamp">>)
  IN  Together({Parsed(PROTO_ACK_DELTA_SIZE + p.n * 4 + p.m, At(0, fixed)),
                nextKeys(p, p.m, PROTO_ACK_DELTA_SIZE + p.n * 4)})

\* n latencies of GET, m of SET, and as many overloaded servers as the key has bytes.
generateLoadStatsHeader(p) ==
  LET record == Address \o F(4, <<"sec", "nsec">>)
  IN  Generated(PROTO_LOAD_STATS_SIZE + (p.n + p.m) * (4 * 3 + 2) + p.key * (4 + 2),
                F(4, <<"serverGetCount", "serverSetCount", "serverOverloadCount">>)
                  \o FlattenSeq([i \in 1 .. p.n + p.m |-> Entry(i, record)])
                  \o FlattenSeq([i \in 1 .. p.key |-> Entry(p.n + p.m + i, Address)]))

\* The counts are parsed, then records at widths added up in parseLoadingStats.
parseLoadingStats(p) ==
  LET recordSize == 4 * 3 + 2
      serverAddrSize == 4 + 2
      at(i) == PROTO_LOAD_STATS_SIZE + (i - 1) * recordSize
      server(i) == PROTO_LOAD_STATS_SIZE + (p.n + p.m) * recordSize + (i - 1) * serverAddrSize
      record(i) == {<<"addr", i, at(i), 4>>, <<"port", i, at(i) + 4, 2>>, <<"sec", i, at(i) + 4 + 2, 4>>, <<"nsec", i, at(i) + 4 * 2 + 2, 4>>}
      overloaded(i) == {<<"addr", p.n + p.m + i, server(i), 4>>, <<"port", p.n + p.m + i, server(i) + 4, 2>>}
  IN  Parsed(PROTO_LOAD_STATS_SIZE + (p.n + p.m) * recordSize + p.key * serverAddrSize,
             At(0, F(4, <<"serverGetCount", "serverSetCount", "serverOverloadCount">>))
               \cup UNION {record(i) : i \in 1 .. p.n + p.m} \cup UNION {overloaded(i) : i \in 1 .. p.key})

generateNamedPipeHeader(p) ==
  Generated(PROTO_NAMED_PIPE_SIZE + p.key + p.value,
            F(1, <<"readLength", "writeLength">>) \o Bytewise("readPathname", p.key) \o Bytewise("writePathname", p.value))

parseNamedPipeHeader(p) ==
  LET ptr == Bytes(F(1, <<"readLength", "writeLength">>))
  IN  Parsed(PROTO_NAMED_PIPE_SIZE,
             At(0, F(1, <<"readLength", "writeLength">>)) \cup At(ptr, Bytewise("readPathname", p.key))
               \cup At(ptr + p.key, Bytewise("writePathname", p.value)))

-----------------------------------------------------------------------------
(***************************************************************************)
(* What the layouts promise                                                *)
(***************************************************************************)

\* What a generator writes, with the fields found by the parsers of the receiver.
NormalMessages(p) ==
  { <<generateKeyHeader(p), parseKeyHeader(p, 0)>>,
    <<generateKeyBackupHeader(p), parseKeyBackupHeader(p, FALSE, p.n)>>,
    <<generateKeyBackupUnsealed(p), parseKeyBackupHeader(p, FALSE, 0)>>,
    <<generateKeyBackupParity(p), parseKeyBackupHeader(p, TRUE, 0)>>,
    <<generateChunkKeyHeader(p), parseChunkKeyHeader(p)>>,
    <<generateKeyValueHeader(p, 0, 0), parseKeyValueHeader(p, 0, FALSE, 0)>> }
  \cup UNION {
    { <<generateChunkKeyValueUpdateHeader(p, with), parseChunkKeyValueUpdateHeader(p, with)>>,
      <<generateKeyValueUpdateHeader(p, with), parseKeyValueUpdateHeader(p, with, 0, 0)>>,
      <<generateChunkUpdateHeader(p, with), parseChunkUpdateHeader(p, with)>> } : with \in BOOLEAN }

ChunkMessages(p) ==
  { <<generateChunkHeader(p), parseChunkHeader(0, 0)>>,
    <<generateChunksHeader(p), parseChunksHeader(p)>>,
    <<generateChunkDataHeader(p), parseChunkDataHeader(p)>>,
    <<generateBatchChunkHeader(p), nextChunkInBatchChunkHeader(p)>>,
    <<generateBatchKeyHeader(p), nextKeyInBatchKeyHeader(p)>>,
    <<generateBatchKeyValueHeader(p), nextKeyValueInBatchKeyValueHeader(p)>>,
    <<generateChunkSealHeader(p), parseChunkSealHeader(p)>> }

DegradedMessages(p) ==
  { <<generateDegradedLockReqHeader(p), parseDegradedLockReqHeader(p)>>,
    <<generateDegradedLockResLocked(p), parseDegradedLockResLocked(p)>>,
    <<generateDegradedLockResNot(p), parseDegradedLockResBase(p)>>,
    <<generateDegradedLockResRemapped(p), parseDegradedLockResRemapped(p)>>,
    <<generateDegradedReqHeader(p), parseDegradedReqHeader(p, FALSE)>>,
    <<generateDegradedReqUpdate(p), parseDegradedReqHeader(p, TRUE)>>,
    <<generateListStripeKeyHeader(p), parseListStripeKeyHeader(p)>>,
    <<generateDegradedReleaseReqHeader(p), parseDegradedReleaseReqHeader(p)>>,
    <<generateDegradedReleaseResHeader(p), parseDegradedReleaseResHeader(p)>>,
    <<generateRemappingLockHeader(p), parseRemappingLockHeader(p)>> }
  \cup UNION {
    { <<generateForwardKeyReqHeader(p, isUpdate), parseForwardKeyReqHeader(p, isUpdate)>>,
      <<generateForwardKeyResHeader(p, isUpdate), parseForwardKeyResHeader(p, isUpdate)>> } : isUpdate \in BOOLEAN }

OtherMessages(p) ==
  { <<generateHeartbeatMessage(p), parseHeartbeatMessage(p)>>,
    <<generateHeartbeatAnswer(p), parseHeartbeatHeader(0)>>,
    <<generateMetadataBackupMessage(p), parseMetadataBackupMessage(p)>>,
    <<generatePromoteBackupServerHeader(p), parsePromoteBackupServerHeader(p, TRUE)>>,
    <<generatePromoteBackupServerAnswer(p), parsePromoteBackupServerHeader(p, FALSE)>>,
    <<generateReconstructionHeader(p), parseReconstructionHeader(p, TRUE)>>,
    <<generateReconstructionAnswer(p), parseReconstructionHeader(p, FALSE)>>,
    <<generateAcknowledgementHeader(p), parseAcknowledgementHeader(p)>>,
    <<generateDeltaAcknowledgementHeader(p), parseDeltaAcknowledgementHeader(p)>>,
    <<generateAddressHeader(p), parseAddressHeader(0)>>,
    <<generateSrcDstAddressHeader(p), parseSrcDstAddressHeader(p)>>,
    <<generateLoadStatsHeader(p), parseLoadingStats(p)>>,
    <<generateNamedPipeHeader(p), parseNamedPipeHeader(p)>> }

\* The SET of the i-th part of an object, as Client and parity server take it apart.
PieceMessages(p, i) ==
  LET offset == getValueOffsetAtSplit(p.key, p.value, i)
      size == IF IsLarge(p.key, p.value) THEN SplitSize(p.key) ELSE 0
  IN  { <<generateKeyValueHeader(p, offset, size), parseKeyValueHeader(p, 0, TRUE, offset)>>,
        <<generateDegradedSetHeader(p, offset, size), parseDegradedSetHeader(p, offset)>> }

\* Every message is read as it was written, whatever the sizes of its parts.
MessagesExact(p) ==
  /\ \A m \in NormalMessages(p) \cup ChunkMessages(p) \cup DegradedMessages(p) \cup OtherMessages(p) :
       ReadAsWritten(m[1], m[2])
  /\ p.n < NumOfSplit(p.key, p.value) => \A m \in PieceMessages(p, p.n) : ReadAsWritten(m[1], m[2])

\* The objects of an unsealed chunk that returns are read as they were written
\* (chunk_protocol.cc:163-205, server_peer_req_worker.cc:594).  They are not: each
\* is written twice and counted once, so that with two the receiver finds the second
\* object where the copy of the first is.
ReturnedExact(p) == ReadAsWritten(generateChunkKeyValueHeader(p), parseChunkKeyValueHeader(p))

\* The first byte is taken apart into what it was put together from.
HeaderExact ==
  \A magic \in Magics, from \in Froms, to \in Tos, isLarge \in BOOLEAN :
    ParsedByte(FirstByte(magic, from, to, isLarge)) = [magic |-> magic, from |-> from, to |-> to, isLarge |-> isLarge]

\* The request to seal a chunk lists the keys of its objects, which may take more
\* bytes than the chunk, but always fit into the send buffer.
SealFits(keySize, chunkSize) ==
  LET objects == chunkSize \div (MetadataSize + keySize)
  IN  objects * (PROTO_CHUNK_SEAL_DATA_SIZE + keySize) <= getSuggestedBufferSize(keySize, chunkSize, FALSE)
==============================================================================
