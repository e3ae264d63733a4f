-------------------------------- MODULE Codec --------------------------------
(***************************************************************************)
(* The wire format of codec.py, byte by byte: fields, slotted pages,       *)
(* freelist pages, the meta page and the records of the log.               *)
(*                                                                         *)
(* A byte is <<n>> with n in 0..255.  The four bytes of a CRC32 are cells  *)
(* that carry what they were computed over, so two CRCs are equal exactly  *)
(* when their inputs are: collisions are left out, and the CRC32 of no     *)
(* bytes is 0, as zlib's is.  A key is its number, KeyLen[k] times, and so *)
(* is a value.                                                             *)
(***************************************************************************)
EXTENDS Pages, TLC

Zeros(n) == [i \in 1..n |-> <<0>>]

\* A little-endian unsigned field of n bytes (numbers stay below 2^31).
Field(x, n) == [i \in 1..n |-> <<IF i > 4 THEN 0 ELSE (x \div 256^(i - 1)) % 256>>]

\* The number in a field, of which the fourth byte and up are zero.
Number(bytes) == bytes[1][1] + 256 * bytes[2][1] + 65536 * bytes[3][1]

\* A number that is read from a field as it was written.
IsNumber(x) == x \in Nat /\ x < 256^3

Crc32(bytes) ==
    IF bytes = <<>> THEN Zeros(4)
    ELSE [i \in 1..4 |-> <<255 + i>> \o [j \in DOMAIN bytes |-> bytes[j][1]]]

KeyBytes(k) == [i \in 1..KeyLen[k] |-> <<k>>]
ValueBytes(v) == [i \in 1..ValueLen[v] |-> <<v>>]

\* write_length_prefixed_bytes.
LengthPrefixed(bytes) == Field(Len(bytes), LengthField) \o bytes

\* data[from : from + n] of Python: from 0, and cut at the end of the data.
Slice(bytes, from, n) == SubSeq(bytes, from + 1, Min({from + n, Len(bytes)}))

\* read_length_prefixed_bytes at an offset.
ReadPrefixed(bytes, at) == Slice(bytes, at + LengthField, Number(Slice(bytes, at, LengthField)))

\* unpack_from wants all the bytes of its fields.
Readable(bytes, at, n) == at + n <= Len(bytes)

-----------------------------------------------------------------------------
(* encode_page and decode_page. *)

TypeTag == [internal |-> 1, leaf |-> 2, freelist |-> 3]

LinkOf(page) ==
    CASE page.type = "leaf" -> page.right
      [] page.type = "internal" -> page.leftmost
      [] page.type = "freelist" -> page.next

SlotRecord(page, i) ==
    LET slot == page.slots[i]
    IN LengthPrefixed(KeyBytes(slot.key))
        \o IF page.type = "leaf" THEN LengthPrefixed(ValueBytes(slot.value))
           ELSE Field(slot.child, PageIdField)

\* record_end_ptr after the first i records, packed backward from the end.
RecordStarts(page) ==
    LET start[i \in 0..Len(page.slots)] ==
            IF i = 0 THEN PageSize ELSE start[i - 1] - Len(SlotRecord(page, i))
    IN start

\* The slot directory, or the ids of a freelist page.
Directory(page) ==
    IF page.type = "freelist"
    THEN FlattenSeq([i \in DOMAIN page.freed |-> Field(page.freed[i], PageIdField)])
    ELSE FlattenSeq([i \in DOMAIN page.slots |->
            Field(RecordStarts(page)[i], 4) \o Field(Len(SlotRecord(page, i)), 4)])

CountOf(page) == Len(IF page.type = "freelist" THEN page.freed ELSE page.slots)

Header(page, lsn) ==
    LET n == CountOf(page)
        free == IF page.type = "freelist" THEN <<0, 0>>
                ELSE <<PageHeader + SlotEntry * n, RecordStarts(page)[n]>>
    IN Field(TypeTag[page.type], 1) \o Zeros(3) \o Field(n, 4) \o Field(free[1], 4)
        \o Field(free[2], 4) \o Field(lsn, 8) \o Field(LinkOf(page), PageIdField)

\* The records, and over them the header with the directory.  A slice that is
\* longer than what it replaces makes the buffer longer.
EncodePage(page, lsn) ==
    LET front == Header(page, lsn) \o Directory(page)
        records == IF page.type = "freelist" THEN <<>>
                   ELSE FlattenSeq(Reverse([i \in DOMAIN page.slots |-> SlotRecord(page, i)]))
        start == IF records = <<>> THEN PageSize ELSE RecordStarts(page)[Len(page.slots)]
        cell(i) == IF i <= Len(front) THEN front[i]
                   ELSE IF i - start \in DOMAIN records THEN records[i - start] ELSE <<0>>
    IN [i \in 1..Max({PageSize, Len(front)}) |-> cell(i)]

\* The slot whose directory entry is at an offset.
DecodeSlot(bytes, at, type) ==
    LET record == Slice(bytes, Number(Slice(bytes, at, 4)), Number(Slice(bytes, at + 4, 4)))
        key == ReadPrefixed(record, 0)
        rest == LengthField + Len(key)
    IN IF type = "leaf" THEN [key |-> key, value |-> ReadPrefixed(record, rest)]
       ELSE [key |-> key, child |-> Number(Slice(record, rest, PageIdField))]

\* decode_page: the page with its keys and values as bytes, and its LSN.
DecodePage(bytes) ==
    LET tag == Number(<<bytes[1], <<0>>, <<0>>>>)
        count == Number(Slice(bytes, 4, 4))
        lsn == Number(Slice(bytes, 16, 8))
        link == Number(Slice(bytes, 24, PageIdField))
        at(i) == PageHeader + 8 * (i - 1)
        ids == [i \in 1..count |-> Number(Slice(bytes, at(i), PageIdField))]
        slots(type) == [i \in 1..count |-> DecodeSlot(bytes, at(i), type)]
    IN CASE tag = 1 -> [page |-> Internal(link, slots("internal")), lsn |-> lsn]
         [] tag = 2 -> [page |-> Leaf(link, slots("leaf")), lsn |-> lsn]
         [] tag = 3 -> [page |-> Freelist(link, ids), lsn |-> lsn]
         [] tag \notin 1..3 -> [page |-> Unreadable, lsn |-> 0]

-----------------------------------------------------------------------------
(* The meta page. *)

Magic == [i \in 1..8 |-> <<(<<66, 80, 84, 82, 69, 69, 68, 66>>)[i]>>]

MetaFields(m) ==
    Magic \o Field(1, 4) \o Field(PageSize, 4) \o Field(m.root, 8) \o Field(m.next, 8)
        \o Field(m.flhead, 8) \o Field(m.last_checkpoint_lsn, 8)

\* encode_meta_page.
EncodeMetaPage(m) ==
    MetaFields(m) \o Crc32(MetaFields(m)) \o Zeros(PageSize - MinPageSize)

MetaIn(bytes) ==
    [type |-> "meta", root |-> Number(Slice(bytes, 16, 8)), next |-> Number(Slice(bytes, 24, 8)),
     flhead |-> Number(Slice(bytes, 32, 8)), last_checkpoint_lsn |-> Number(Slice(bytes, 40, 8))]

\* Mutant: no checksum is verified.
DecodeMetaPageUnverified(bytes) ==
    [err |-> "none", page |-> MetaIn(bytes)]

\* decode_meta_page.
DecodeMetaPage(bytes) ==
    IF SubSeq(bytes, 1, 8) # Magic THEN [err |-> "DBCorruptedError"]
    ELSE IF Crc32(SubSeq(bytes, 1, 48)) # SubSeq(bytes, 49, 52) THEN [err |-> "DBChecksumError"]
    ELSE [err |-> "none", page |-> MetaIn(bytes)]

-----------------------------------------------------------------------------
(* The records of the log. *)

OpTag == [put |-> 1, delete |-> 2, checkpoint |-> 3]

RecordPayload(op) ==
    CASE op[1] = "put" -> LengthPrefixed(KeyBytes(op[2])) \o LengthPrefixed(ValueBytes(op[3]))
      [] op[1] = "delete" -> LengthPrefixed(KeyBytes(op[2]))
      [] op[1] = "checkpoint" -> Field(op[2], 8) \o Field(op[3], 8) \o Field(op[4], 8)

\* encode_wal_record.
EncodeWalRecord(lsn, op) ==
    LET body == Field(lsn, 8) \o Field(OpTag[op[1]], 1) \o RecordPayload(op)
        framed == Field(Len(body) + 4, LengthField) \o body
    IN framed \o Crc32(framed)

\* verify_crc32.
ChecksumHolds(bytes) ==
    Crc32(SubSeq(bytes, 1, Len(bytes) - 4)) = SubSeq(bytes, Len(bytes) - 3, Len(bytes))

\* Mutant: the length field of the key is not skipped.
DecodeWalRecordShifted(bytes) ==
    LET tag == Number(<<bytes[13], <<0>>, <<0>>>>)
        key == ReadPrefixed(bytes, 13)
    IN IF ~Readable(bytes, 4, 9) THEN [kind |-> "struct.error"]
       ELSE IF tag \notin 1..3 THEN [kind |-> "ValueError"]
       ELSE [kind |-> "record", lsn |-> Number(Slice(bytes, 4, 8)), op |->
             CASE tag = 1 -> <<"put", key, ReadPrefixed(bytes, 13 + Len(key))>>
               [] tag = 2 -> <<"delete", key>>
               [] tag = 3 -> <<"checkpoint", Number(Slice(bytes, 13, 8)), Number(Slice(bytes, 21, 8)),
                               Number(Slice(bytes, 29, 8))>>]

\* decode_wal_record, once the checksum holds: a frame without room for the
\* header is a struct.error, an unknown tag a ValueError.
DecodeWalRecord(bytes) ==
    LET tag == Number(<<bytes[13], <<0>>, <<0>>>>)
        key == ReadPrefixed(bytes, 13)
    IN IF ~Readable(bytes, 4, 9) THEN [kind |-> "struct.error"]
       ELSE IF tag \notin 1..3 THEN [kind |-> "ValueError"]
       ELSE [kind |-> "record", lsn |-> Number(Slice(bytes, 4, 8)), op |->
             CASE tag = 1 -> <<"put", key, ReadPrefixed(bytes, 13 + LengthField + Len(key))>>
               [] tag = 2 -> <<"delete", key>>
               [] tag = 3 -> <<"checkpoint", Number(Slice(bytes, 13, 8)), Number(Slice(bytes, 21, 8)),
                               Number(Slice(bytes, 29, 8))>>]

\* decode_next_wal_record_from_file at an offset; read() moves past what it
\* has read.
DecodeNext(bytes, at) ==
    LET length == Number(Slice(bytes, at, LengthField))
        frame == Slice(bytes, at, LengthField + length)
        read == DecodeWalRecord(frame)
    IN IF ~Readable(bytes, at, LengthField) \/ ~Readable(bytes, at + LengthField, length)
       THEN [kind |-> "EOFError", next |-> Len(bytes)]
       ELSE IF ~ChecksumHolds(frame)
       THEN [kind |-> "DBChecksumError", next |-> at + LengthField + length]
       ELSE IF read.kind # "record" THEN read
       ELSE [kind |-> "record", lsn |-> read.lsn, op |-> read.op, next |-> at + LengthField + length]

=============================================================================
