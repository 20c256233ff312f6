------------------------------- MODULE Responses -------------------------------
(***************************************************************************)
(* How src/src/dns.rs reads the response of a resolver: skip_name, which   *)
(* finds where the name of a record ends, the records behind it one after  *)
(* the other, and what parse_answers, parse_txt and parse_ptr take from    *)
(* them; parse_name follows the compression pointers of a PTR record.      *)
(*                                                                         *)
(* A response is a sequence of bytes and positions count from 0, as in the *)
(* code.  A position that is found is a number, Broken stands for every    *)
(* error.  A byte from 192 on starts a pointer: its low six bits and the   *)
(* next byte are the target; one between 64 and 191 is a reserved type.    *)
(* Where the code would panic, a byte outside of the sequence is asked for.*)
(***************************************************************************)
EXTENDS Integers, SequencesExt

CONSTANT MaxJumps   \* the guard of parse_name, 128

ASSUME ResponsesAssumption == MaxJumps \in Nat

Byte == 0..255
Broken == -1
Pointer == 192
Label == 1..63
Reserved == 64..191

HeaderSize == 12
Fixed == 10        \* the bytes between a record's name and its data
QTYPE_A == 1
QTYPE_PTR == 12
QTYPE_TXT == 16
QTYPE_AAAA == 28

Has(buf, pos) == pos < Len(buf)
At(buf, pos) == buf[pos + 1]
Word(buf, pos) == At(buf, pos) * 256 + At(buf, pos + 1)
Slice(buf, from, to) == SubSeq(buf, from + 1, to)

-----------------------------------------------------------------------------
(* Names.                                                                  *)

\* Faulty: a pointer is taken for a part of the name that more follows.
SkipStep_GoesOn(buf, pos, skip) ==
    IF ~Has(buf, pos) THEN Broken
    ELSE LET len == At(buf, pos) IN
         CASE len = 0 -> pos + 1
           [] len \in Label -> IF pos + 1 + len > Len(buf) THEN Broken
                               ELSE skip[pos + 1 + len]
           [] len \in Reserved -> Broken
           [] OTHER -> IF pos + 2 > Len(buf) THEN Broken ELSE skip[pos + 2]

\* One round of the loop at pos, when skip tells what the later rounds make of it.
SkipStep(buf, pos, skip) ==
    IF ~Has(buf, pos) THEN Broken
    ELSE LET len == At(buf, pos) IN
         CASE len = 0 -> pos + 1
           [] len \in Label -> IF pos + 1 + len > Len(buf) THEN Broken
                               ELSE skip[pos + 1 + len]
           [] len \in Reserved -> Broken
           [] OTHER -> IF pos + 2 > Len(buf) THEN Broken ELSE pos + 2

\* The position after the name at each pos; a pointer ends it.
SkipFrom(buf) ==
    LET skip[pos \in Nat] == SkipStep(buf, pos, skip) IN skip
SkipName(buf, start) == SkipFrom(buf)[start]

\* What a reader returns: an error, or what it found.
Refused == [ok |-> FALSE, value |-> <<>>]
Found(v) == [ok |-> TRUE, value |-> v]

Labelled(label, name) == IF name.ok THEN Found(<<label>> \o name.value) ELSE Refused
Target(len, byte) == (len - Pointer) * 256 + byte

Spot(jumps, pos) == [jumps |-> jumps, pos |-> pos]
Spots == [jumps : Nat, pos : Nat]

\* parse_name: the labels.  The position behind them is used by nobody.
ParseStep(buf, at, parse) ==
    IF at.jumps >= MaxJumps \/ ~Has(buf, at.pos) THEN Refused
    ELSE LET len == At(buf, at.pos) IN
         CASE len = 0 -> Found(<<>>)
           [] len \in Label ->
                IF at.pos + 1 + len > Len(buf) THEN Refused
                ELSE Labelled(Slice(buf, at.pos + 1, at.pos + 1 + len),
                              parse[Spot(at.jumps + 1, at.pos + 1 + len)])
           [] len \in Reserved -> Refused
           [] OTHER -> IF ~Has(buf, at.pos + 1) THEN Refused
                       ELSE parse[Spot(at.jumps + 1, Target(len, At(buf, at.pos + 1)))]
ParseFrom(buf) == LET parse[at \in Spots] == ParseStep(buf, at, parse) IN parse
ParseName(buf, start) == ParseFrom(buf)[Spot(0, start)]

-----------------------------------------------------------------------------
(* Sections.                                                               *)

\* Behind the question at pos, its type and its class.
QuestionEnd(buf, pos) ==
    LET name == SkipName(buf, pos)
    IN IF name = Broken \/ name + 4 > Len(buf) THEN Broken ELSE name + 4

\* Behind the first k of the questions, and behind all of them.
QuestionEnds(buf) ==
    LET end[k \in 0..Word(buf, 4)] ==
            IF k = 0 THEN HeaderSize
            ELSE IF end[k - 1] = Broken THEN Broken ELSE QuestionEnd(buf, end[k - 1])
    IN end
AnswerStart(buf) ==
    IF Len(buf) < HeaderSize THEN Broken ELSE QuestionEnds(buf)[Word(buf, 4)]

\* The record at pos.
NoRecord == [type |-> 0, data |-> Broken, end |-> Broken]
RecordAt(buf, pos) ==
    LET name == SkipName(buf, pos)
        data == name + Fixed
    IN IF name = Broken \/ data > Len(buf) THEN NoRecord
       ELSE LET end == data + Word(buf, data - 2)
            IN IF end > Len(buf) THEN NoRecord
               ELSE [type |-> Word(buf, name), data |-> data, end |-> end]

\* As many records as the header says, each from the end of the one before;
\* start is where the first begins.
ReadRecords(buf, start) ==
    LET read[k \in 0..Word(buf, 6)] ==
            IF k = 0 THEN [NoRecord EXCEPT !.end = start]
            ELSE IF read[k - 1].end = Broken THEN NoRecord
            ELSE RecordAt(buf, read[k - 1].end)
    IN read
Records(buf, start) == [k \in 1..Word(buf, 6) |-> ReadRecords(buf, start)[k]]

-----------------------------------------------------------------------------
(* What is taken from the records.                                         *)

RecordData(buf, r) == Slice(buf, r.data, r.end)
Missing(rs) == {k \in DOMAIN rs : rs[k].end = Broken}

IsAddress(r) == \/ r.type = QTYPE_A /\ r.end - r.data = 4
                \/ r.type = QTYPE_AAAA /\ r.end - r.data = 16
ParseAnswers(buf, rs) ==
    IF Missing(rs) # {} THEN Refused
    ELSE LET found == SelectSeq(rs, IsAddress)
         IN Found([i \in DOMAIN found |-> RecordData(buf, found[i])])

\* The segments of a TXT record, one after the other; the last may be cut off.
Text(buf, r) ==
    LET from[p \in r.data..r.end] ==
            IF p = r.end THEN <<>>
            ELSE LET to == Min({p + 1 + At(buf, p), r.end})
                 IN Slice(buf, p + 1, to) \o from[to]
    IN from[r.data]
IsText(r) == r.type = QTYPE_TXT
ParseTxt(buf, rs) ==
    IF Missing(rs) # {} THEN Refused
    ELSE LET found == SelectSeq(rs, IsText)
         IN Found([i \in DOMAIN found |-> Text(buf, found[i])])

\* The first PTR record, before which no other may be broken; at most one name.
ParsePtr(buf, rs) ==
    LET last == Missing(rs) \union {k \in DOMAIN rs : rs[k].type = QTYPE_PTR}
    IN IF last = {} THEN Found(<<>>)
       ELSE LET r == rs[Min(last)]
            IN IF r.end = Broken THEN Refused
               ELSE LET name == ParseName(buf, r.data)
                    IN IF name.ok THEN Found(<<name.value>>) ELSE Refused

\* The reader for each kind of question.
Read(kind, buf) ==
    LET start == AnswerStart(buf) IN
    IF start = Broken THEN Refused
    ELSE LET rs == Records(buf, start)
         IN CASE kind = "address" -> ParseAnswers(buf, rs)
              [] kind = "text" -> ParseTxt(buf, rs)
              [] kind = "host" -> ParsePtr(buf, rs)

-----------------------------------------------------------------------------
(* What a resolver sends, in RFC 1035's encoding.  A name is its labels,   *)
(* and then the root, or a pointer to the name of the question, to what    *)
(* follows the first label of that, or to the name itself.                 *)

Bytes16(n) == <<n \div 256, n % 256>>
PointerTo(pos) == <<Pointer + pos \div 256, pos % 256>>
LabelBytes(labels) == FlattenSeq([i \in DOMAIN labels |-> <<Len(labels[i])>> \o labels[i]])

NameBytes(message, name, pos) ==
    LabelBytes(name.labels)
    \o CASE name.tail = "root" -> <<0>>
         [] name.tail = "question" -> PointerTo(HeaderSize)
         [] name.tail = "parent" -> PointerTo(HeaderSize + 1 + Len(message.question[1]))
         [] name.tail = "itself" -> PointerTo(pos)

\* The data of a record are bytes, segments of a text, or a name.
DataBytes(message, data, pos) ==
    CASE data.kind = "bytes" -> data.bytes
      [] data.kind = "segments" -> LabelBytes(data.segments)
      [] data.kind = "name" -> NameBytes(message, data.name, pos)
RecordBytes(message, r, pos) ==
    LET name == NameBytes(message, r.name, pos)
        data == DataBytes(message, r.data, pos + Len(name) + Fixed)
    IN name \o Bytes16(r.type) \o Bytes16(1) \o <<0, 0, 0, 60>> \o Bytes16(Len(data)) \o data

Header(message) == <<7, 7, 129, 128>> \o Bytes16(1) \o Bytes16(Len(message.answers))
                   \o <<0, 0, 0, 0>>
Encode(message) ==
    FoldLeft(LAMBDA sent, r : sent \o RecordBytes(message, r, Len(sent)),
             Header(message) \o LabelBytes(message.question) \o <<0>>
             \o Bytes16(QTYPE_A) \o Bytes16(1),
             message.answers)
=============================================================================
