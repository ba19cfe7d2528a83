------------------------------ MODULE DeltaStream ------------------------------
(***************************************************************************)
(* Text deltas: a stream of windows, each rebuilding one chunk of a target *)
(* from a view of the source and new data; how windows are found, and how  *)
(* they travel as svndiff.  A byte holds two bits of operation and LenBits *)
(* of length, or one continuation bit and LenBits + 1 of an integer; the   *)
(* code's LenBits is 6.  Compression is left out: a section that would not *)
(* shrink is stored, and that is the only kind here.                       *)
(***************************************************************************)
EXTENDS Integers, Sequences, FiniteSets, SequencesExt

CONSTANTS
  BlockSize,      \* xdeltaBlockSize
  MaxCandidates,  \* xdeltaMaxCandidates
  GoodMatch,      \* xdeltaGoodMatch
  MaxWindowSize,  \* MaxWindowSize, of a chunk of source or target
  LenBits,        \* bits of an instruction's length
  Width,          \* bits of an integer (64)
  Half,           \* values of half a rolling hash (2^16)
  Failed          \* an error

Slice(s, first, count) == SubSeq(s, first + 1, first + count)
Group    == 2 ^ (LenBits + 1)
Groups   == (Width + LenBits) \div (LenBits + 1)

Op(kind, offset, length) == [kind |-> kind, offset |-> offset, length |-> length]

-----------------------------------------------------------------------------
(* Finding a delta *)

Added2(hash, n, value) ==
  [low |-> hash.low + value, high |-> hash.high + n * value]

RollingHash(block) ==
  LET sum == FoldLeft(LAMBDA h, i : Added2(h, Len(block) - i + 1, block[i]),
                      [low |-> 0, high |-> 0], [i \in DOMAIN block |-> i])
  IN [low |-> sum.low % Half, high |-> sum.high % Half]

RollHash(hash, outgoing, incoming) ==
  LET low == hash.low - outgoing + incoming IN
  [low  |-> low % Half,
   high |-> (hash.high - BlockSize * outgoing + low) % Half]

\* The hash of every block of the source, each rolled from the one before.
SourceHashes(source) ==
  IF Len(source) < BlockSize THEN <<>>
  ELSE LET hash[i \in 0 .. Len(source) - BlockSize] ==
             IF i = 0 THEN RollingHash(Slice(source, 0, BlockSize))
             ELSE RollHash(hash[i - 1], source[i], source[i + BlockSize])
       IN [i \in 1 .. Len(source) - BlockSize + 1 |-> hash[i - 1]]

\* The first MaxCandidates offsets of the source whose block has that hash.
Candidates(source, hash) ==
  LET First(all) == SubSeq(all, 1, IF Len(all) > MaxCandidates THEN MaxCandidates ELSE Len(all))
      Of(hashes) == First(SelectSeq([i \in DOMAIN hashes |-> i - 1],
                                    LAMBDA offset : hashes[offset + 1] = hash))
  IN Of(SourceHashes(source))

\* How far source and target agree from there.
Agreement(source, offset, target, position) ==
  LET Agrees(n) == /\ offset + n <= Len(source) /\ position + n <= Len(target)
                   /\ \A k \in 1 .. n : source[offset + k] = target[position + k]
  IN CHOOSE n \in 0 .. Len(target) : Agrees(n) /\ ~Agrees(n + 1)

NoMatch == [offset |-> -1, length |-> 0]

BestMatch(source, target, position) ==
  LET Longer(best, offset, length) ==
        IF best.length >= GoodMatch \/ length < BlockSize \/ length <= best.length
        THEN best ELSE [offset |-> offset, length |-> length]
      Better(best, offset) == Longer(best, offset, Agreement(source, offset, target, position))
  IN IF position + BlockSize > Len(target) THEN NoMatch
     ELSE FoldLeft(Better, NoMatch,
                   Candidates(source, RollingHash(Slice(target, position, BlockSize))))

AppendLiteral(window, literal) ==
  IF literal = <<>> THEN window
  ELSE [window EXCEPT !.ops = Append(@, Op("new", Len(window.newData), Len(literal))),
                      !.newData = @ \o literal]

BuildWindow(source, target, sourceOffset) ==
  LET empty == [sourceOffset |-> sourceOffset, sourceLength |-> Len(source),
                targetLength |-> Len(target), ops |-> <<>>, newData |-> <<>>]
      Flushed(s, position) == AppendLiteral(s.window, SubSeq(target, s.literalStart + 1, position))
      Copied(s, position, match) ==
        IF match = NoMatch THEN s
        ELSE [window |-> [Flushed(s, position) EXCEPT
                            !.ops = Append(@, Op("source", match.offset, match.length))],
              literalStart |-> position + match.length]
      Step(s, position) == IF position < s.literalStart THEN s
                           ELSE Copied(s, position, BestMatch(source, target, position))
      Whole(last) == Flushed(last, Len(target))
  IN Whole(FoldLeft(Step, [window |-> empty, literalStart |-> 0], [i \in 1 .. Len(target) |-> i - 1]))

\* readWindowChunk: what is left, up to a window's worth.
Chunk(s, index) ==
  LET first == index * MaxWindowSize
      left  == IF Len(s) > first THEN Len(s) - first ELSE 0
  IN Slice(s, first, IF left > MaxWindowSize THEN MaxWindowSize ELSE left)

\* TxDeltaStream: one window for each chunk of the target, against the chunk of
\* the source in the same place.
SourceOffset(source, index) ==
  IF index * MaxWindowSize < Len(source) THEN index * MaxWindowSize ELSE Len(source)

TxDeltaStream(source, target) ==
  [i \in 1 .. (Len(target) + MaxWindowSize - 1) \div MaxWindowSize |->
     BuildWindow(Chunk(source, i - 1), Chunk(target, i - 1), SourceOffset(source, i - 1))]

-----------------------------------------------------------------------------
(* Applying a delta *)

Valid(window) ==
  LET Produced(i) == FoldLeft(LAMBDA sum, op : sum + op.length, 0, SubSeq(window.ops, 1, i))
  IN /\ window.sourceOffset >= 0 /\ window.sourceLength >= 0 /\ window.targetLength >= 0
     /\ \A i \in DOMAIN window.ops :
          LET op == window.ops[i] IN
          /\ op.offset >= 0 /\ op.length > 0
          /\ op.length <= window.targetLength - Produced(i - 1)
          /\ op.kind = "source" => op.offset <= window.sourceLength - op.length
          /\ op.kind = "target" => op.offset < Produced(i - 1)
          /\ op.kind = "new"    => op.offset <= Len(window.newData) - op.length
     /\ Produced(Len(window.ops)) = window.targetLength

\* An operation on the target copies byte by byte: it may run into what it writes.
CopyTarget(target, op) ==
  FoldLeft(LAMBDA t, k : Append(t, t[op.offset + k]), target, [k \in 1 .. op.length |-> k])

ApplyOp(source, window, target, op) ==
  CASE op.kind = "source" -> target \o Slice(source, op.offset, op.length)
    [] op.kind = "target" -> CopyTarget(target, op)
    [] op.kind = "new"    -> target \o Slice(window.newData, op.offset, op.length)

ApplyWindow(view, window) ==
  IF ~Valid(window) \/ Len(view) # window.sourceLength THEN Failed
  ELSE FoldLeft(LAMBDA t, op : ApplyOp(view, window, t, op), <<>>, window.ops)

\* Apply, treeWindows.Window: each window's view is read from the source.
ApplyStream(source, windows) ==
  LET Joined(target, chunk) == IF chunk = Failed THEN Failed ELSE target \o chunk
      Apply(target, w) ==
        IF target = Failed \/ w.sourceOffset + w.sourceLength > Len(source) THEN Failed
        ELSE Joined(target, ApplyWindow(Slice(source, w.sourceOffset, w.sourceLength), w))
  IN FoldLeft(Apply, <<>>, windows)

-----------------------------------------------------------------------------
(* svndiff *)

\* appendVarint: base-Group digits, all but the last with the continuation bit.
Varint(value) ==
  LET digits == CHOOSE n \in 1 .. Groups : value < Group ^ n /\ (n = 1 \/ value >= Group ^ (n - 1))
  IN [i \in 1 .. digits |->
        ((value \div (Group ^ (digits - i))) % Group) + (IF i < digits THEN Group ELSE 0)]

\* The bytes an integer may take from a position on.
Leading(data, position) ==
  SubSeq(data, position + 1, IF position + Groups < Len(data) THEN position + Groups ELSE Len(data))

\* What was read, when an integer ended there.
Integer(s, position) ==
  IF s.failed \/ ~s.done THEN Failed ELSE [value |-> s.value, position |-> position + s.read]

Unread == [value |-> 0, read |-> 0, done |-> FALSE, failed |-> FALSE]

\* Mutant: forgets that the next shift may push bits out.
ConsumeVarintWrapping(data, position) ==
  LET Read(s, byte) ==
        IF s.done THEN s
        ELSE [value |-> (s.value * Group + (byte % Group)) % (2 ^ Width), read |-> s.read + 1,
              done |-> byte < Group, failed |-> FALSE]
  IN Integer(FoldLeft(Read, Unread, Leading(data, position)), position)

\* readVarint, consumeVarint: at most Groups bytes, and none that would shift a
\* bit out.
ConsumeVarint(data, position) ==
  LET Read(s, byte) ==
        IF s.done \/ s.failed THEN s
        ELSE IF s.value > (2 ^ Width - 1) \div Group THEN [s EXCEPT !.failed = TRUE]
        ELSE [value |-> s.value * Group + (byte % Group), read |-> s.read + 1,
              done |-> byte < Group, failed |-> FALSE]
  IN Integer(FoldLeft(Read, Unread, Leading(data, position)), position)

Selector == [source |-> 0, target |-> 1, new |-> 2]

Instruction(op) ==
  LET first == Selector[op.kind] * 2 ^ LenBits IN
  (IF op.length < 2 ^ LenBits THEN <<first + op.length>> ELSE <<first>> \o Varint(op.length))
  \o (IF op.kind = "new" THEN <<>> ELSE Varint(op.offset))

EncodeInstructions(ops) == FlattenSeq([i \in DOMAIN ops |-> Instruction(ops[i])])

\* A section of svndiff1 and 2 begins with its original length.
Section(data, version) == IF version = 0 THEN data ELSE Varint(Len(data)) \o data

\* WriteWindow: the header is five integers, kept apart from the sections here.
EncodeWindow(window, version) ==
  LET Framed(instructions, newData) ==
        [header |-> Varint(window.sourceOffset) \o Varint(window.sourceLength)
                   \o Varint(window.targetLength) \o Varint(Len(instructions))
                   \o Varint(Len(newData)),
         instructions |-> instructions, newData |-> newData]
  IN Framed(Section(EncodeInstructions(window.ops), version), Section(window.newData, version))

\* readSection, of a stored section
ReadSection(encoded, version, limit) ==
  LET Payload(length) ==
        IF length = Failed THEN Failed
        ELSE IF length.value > limit \/ Len(encoded) - length.position # length.value THEN Failed
        ELSE SubSeq(encoded, length.position + 1, Len(encoded))
  IN IF version = 0 THEN encoded ELSE Payload(ConsumeVarint(encoded, 0))

\* One instruction from a position; new data is taken in order.
DecodeOp(data, position, newPosition) ==
  LET byte  == data[position + 1]
      short == byte % (2 ^ LenBits)
      kinds == {k \in DOMAIN Selector : Selector[k] = byte \div (2 ^ LenBits)}
      Read(kind, length, offset) ==
        IF offset = Failed THEN Failed
        ELSE [op |-> Op(kind, offset.value, length), position |-> offset.position]
      Sized(kind, length) ==
        IF length = Failed THEN Failed
        ELSE IF length.value = 0 THEN Failed
        ELSE Read(kind, length.value,
                  IF kind = "new" THEN [value |-> newPosition, position |-> length.position]
                  ELSE ConsumeVarint(data, length.position))
  IN IF kinds = {} THEN Failed
     ELSE Sized(CHOOSE k \in kinds : TRUE,
                IF short # 0 THEN [value |-> short, position |-> position + 1]
                ELSE ConsumeVarint(data, position + 1))

DecodeInstructions(data) ==
  LET Take(s, next) ==
        IF next = Failed THEN Failed
        ELSE [ops |-> Append(s.ops, next.op), position |-> next.position,
              newPosition |-> s.newPosition + (IF next.op.kind = "new" THEN next.op.length ELSE 0)]
      Read(s, i) == IF s = Failed THEN s
                    ELSE IF s.position # i THEN s
                    ELSE Take(s, DecodeOp(data, i, s.newPosition))
  IN IF data = Failed THEN Failed
     ELSE FoldLeft(Read, [ops |-> <<>>, position |-> 0, newPosition |-> 0],
                   [i \in 1 .. Len(data) |-> i - 1])

\* The five integers that open a window.
Header(encoded) ==
  LET Take(s, next) == IF next = Failed THEN Failed
                       ELSE [fields |-> Append(s.fields, next.value), position |-> next.position]
      Field(s, i) == IF s = Failed THEN Failed ELSE Take(s, ConsumeVarint(encoded.header, s.position))
  IN FoldLeft(Field, [fields |-> <<>>, position |-> 0], <<1, 2, 3, 4, 5>>)

\* NextWindow.  The limit of new data is the same before and after its length
\* has been taken off.
NextWindow(encoded, version, lastSourceOffset) ==
  LET Checked(window, newPosition) ==
        IF newPosition # Len(window.newData) \/ ~Valid(window) THEN Failed ELSE window
      Body(f, newData, decoded) ==
        IF newData = Failed \/ decoded = Failed THEN Failed
        ELSE Checked([sourceOffset |-> f[1], sourceLength |-> f[2], targetLength |-> f[3],
                      ops |-> decoded.ops, newData |-> newData], decoded.newPosition)
      Fits(f) == /\ f[2] <= MaxWindowSize /\ f[3] <= MaxWindowSize
                 /\ f[4] <= MaxWindowSize * 21 /\ f[5] <= MaxWindowSize
                 /\ f[1] >= lastSourceOffset
      Window(header) ==
        IF header = Failed THEN Failed
        ELSE IF ~Fits(header.fields) THEN Failed
        ELSE Body(header.fields, ReadSection(encoded.newData, version, MaxWindowSize),
                  DecodeInstructions(ReadSection(encoded.instructions, version, MaxWindowSize * 21)))
  IN Window(Header(encoded))

DecodeStream(encoded, version) ==
  LET Join(s, window) == IF window = Failed THEN Failed ELSE Append(s, window)
      Read(s, e) == IF s = Failed THEN Failed
                    ELSE Join(s, NextWindow(e, version, IF s = <<>> THEN 0 ELSE Last(s).sourceOffset))
  IN FoldLeft(Read, <<>>, encoded)
=============================================================================
