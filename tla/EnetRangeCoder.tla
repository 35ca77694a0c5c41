-------------------------- MODULE EnetRangeCoder ---------------------------
(***************************************************************************)
(* The range coder of compress.c: an adaptive model of order 2, whose      *)
(* contexts are binary indexed trees in a pool of symbols that starts anew *)
(* when it is full, and the carryless range coder it drives.  Compressor   *)
(* and decompressor build the same model, one from the values and the      *)
(* other from what it decodes.                                             *)
(*                                                                         *)
(* Bytes are digits to the base Base, words have four of them.  Places in  *)
(* the pool are counted from 1, so that 0 is no symbol; the code has       *)
(* offsets between symbols where places are used here.                     *)
(***************************************************************************)
EXTENDS Integers, Sequences, TLC

CONSTANTS
  Base,        \* 0x100: the values of a byte
  Alphabet,    \* the bytes an input is made of
  MaxLength,   \* bound: bytes compressed
  MaxEmpty,    \* bound: empty buffers in an input
  PoolSize,    \* symbols in the pool, 4096 in the code
  CountMax     \* the largest count a symbol can hold, 0xFF

ASSUME CoderAssumption ==
  /\ Base \in Nat \ {0, 1}
  /\ Alphabet \subseteq 0..(Base - 1)
  /\ {MaxLength, MaxEmpty, PoolSize, CountMax} \subseteq Nat

SymbolDelta == 3         \* ENET_CONTEXT_SYMBOL_DELTA
SymbolMinimum == 1       \* ENET_CONTEXT_SYMBOL_MINIMUM
EscapeMinimum == 1       \* ENET_CONTEXT_ESCAPE_MINIMUM
SubcontextOrder == 2     \* ENET_SUBCONTEXT_ORDER
SubSymbolDelta == 2      \* ENET_SUBCONTEXT_SYMBOL_DELTA
SubEscapeDelta == 5      \* ENET_SUBCONTEXT_ESCAPE_DELTA

Bottom == Base * Base    \* ENET_RANGE_CODER_BOTTOM
Top == Bottom * Base     \* ENET_RANGE_CODER_TOP
Word == Top * Base       \* enet_uint32

VARIABLES
  input,       \* the bytes of the buffers inData has passed
  taken,       \* the bytes the loop took for them: *inData++
  encoder      \* the other local variables of enet_range_coder_compress, and
               \* the most symbols its pool has held

vars == <<input, taken, encoder>>

-----------------------------------------------------------------------------
(* The pool of symbols.  A symbol is a node of the tree of one context and *)
(* is itself a context: the one in which its value was seen last.          *)

Root == 1

Symbol(value, count) ==
  [value |-> value, count |-> count, under |-> count, left |-> 0, right |-> 0,
   symbols |-> 0, escapes |-> 0, total |-> 0, parent |-> Root]

NewPool == <<[Symbol(0, 0) EXCEPT !.escapes = EscapeMinimum,
                                  !.total = EscapeMinimum + Base * SymbolMinimum]>>

\* A new symbol that field of the symbol at place n leads to.
CreateSymbol(pool, n, field, value, update) ==
  Append([pool EXCEPT ![n] = [@ EXCEPT ![field] = Len(pool) + 1]], Symbol(value, update))

\* Mutant: the sums over left subtrees keep their values when counts are halved.
RECURSIVE RescaleKeepsUnder(_, _)
RescaleKeepsUnder(pool, n) ==
  LET node == pool[n]
      count == node.count - node.count \div 2
      left == IF node.left = 0 THEN [pool |-> pool, total |-> 0]
              ELSE RescaleKeepsUnder(pool, node.left)
      here == [left.pool EXCEPT ![n].count = count]
      right == IF node.right = 0 THEN [pool |-> here, total |-> 0]
               ELSE RescaleKeepsUnder(here, node.right)
  IN  [pool |-> right.pool, total |-> count + left.total + right.total]

\* enet_symbol_rescale on the subtree at place n, with the sum of its counts
RECURSIVE Rescale(_, _)
Rescale(pool, n) ==
  LET node == pool[n]
      count == node.count - node.count \div 2
      left == IF node.left = 0 THEN [pool |-> pool, total |-> 0] ELSE Rescale(pool, node.left)
      under == count + left.total
      here == [left.pool EXCEPT ![n].count = count, ![n].under = under]
      right == IF node.right = 0 THEN [pool |-> here, total |-> 0] ELSE Rescale(here, node.right)
  IN  [pool |-> right.pool, total |-> under + right.total]

\* ENET_CONTEXT_RESCALE
ContextRescale(pool, n, minimum) ==
  LET halved == IF pool[n].symbols = 0 THEN [pool |-> pool, total |-> 0]
                ELSE Rescale(pool, pool[n].symbols)
      escapes == pool[n].escapes - pool[n].escapes \div 2
  IN  [halved.pool EXCEPT ![n].escapes = escapes,
                          ![n].total = halved.total + escapes + Base * minimum]

\* What follows every use of the context at place n: its total grows by delta
\* for the value and by escape for a value that was new.  count is that of the
\* symbol before it was used.
ContextUpdate(pool, n, count, delta, escape, minimum) ==
  LET grown == [pool EXCEPT ![n].escapes = @ + escape, ![n].total = @ + delta + escape]
  IN  IF count > CountMax - 2 * delta + minimum \/ grown[n].total > Bottom - Base
      THEN ContextRescale(grown, n, minimum)
      ELSE grown

\* ENET_CONTEXT_ENCODE from the node at place n on: the symbol for value,
\* made if there is none, its count before and the counts below it.
RECURSIVE TreeEncode(_, _, _, _, _)
TreeEncode(pool, n, value, under, update) ==
  LET node == pool[n]
      passed == [pool EXCEPT ![n].under = @ + update]
      Made(p, side) == [pool |-> CreateSymbol(p, n, side, value, update),
                        symbol |-> Len(pool) + 1, count |-> 0]
  IN  CASE value < node.value /\ node.left # 0 ->
             TreeEncode(passed, node.left, value, under, update)
        [] value < node.value /\ node.left = 0 -> Made(passed, "left") @@ [under |-> under]
        [] value > node.value /\ node.right # 0 ->
             TreeEncode(pool, node.right, value, under + node.under, update)
        [] value > node.value /\ node.right = 0 ->
             Made(pool, "right") @@ [under |-> under + node.under]
        [] OTHER -> [pool |-> [passed EXCEPT ![n].count = @ + update], symbol |-> n,
                     count |-> node.count, under |-> under + node.under - node.count]

ContextEncode(pool, n, value, update, minimum) ==
  LET found ==
        IF pool[n].symbols = 0
        THEN [pool |-> CreateSymbol(pool, n, "symbols", value, update),
              symbol |-> Len(pool) + 1, count |-> 0, under |-> 0]
        ELSE TreeEncode(pool, pool[n].symbols, value, 0, update)
  IN  [found EXCEPT !.count = @ + minimum, !.under = @ + value * minimum]

\* Mutant: the pool starts anew one symbol later.
NextContextTooLate(c) ==
  LET moved == IF c.order >= SubcontextOrder
               THEN [c EXCEPT !.predicted = c.pool[c.predicted].parent]
               ELSE [c EXCEPT !.order = @ + 1]
  IN  IF Len(moved.pool) > PoolSize - SubcontextOrder
      THEN [moved EXCEPT !.pool = NewPool, !.predicted = Root, !.order = 0]
      ELSE moved

\* The end of a turn of either loop: the context that predicts the next value,
\* and ENET_RANGE_CODER_FREE_SYMBOLS.
NextContext(c) ==
  LET moved == IF c.order >= SubcontextOrder
               THEN [c EXCEPT !.predicted = c.pool[c.predicted].parent]
               ELSE [c EXCEPT !.order = @ + 1]
  IN  IF Len(moved.pool) >= PoolSize - SubcontextOrder
      THEN [moved EXCEPT !.pool = NewPool, !.predicted = Root, !.order = 0]
      ELSE moved

\* The turn is over but for NextContext, which may start the pool anew.
Peaked(c) == [c EXCEPT !.peak = IF Len(c.pool) > @ THEN Len(c.pool) ELSE @]

\* *parent = symbol, where parent points at predicted or at the field of a symbol
Link(c, place, symbol) ==
  IF place = 0 THEN [c EXCEPT !.predicted = symbol] ELSE [c EXCEPT !.pool[place].parent = symbol]

-----------------------------------------------------------------------------
(* The range: ENET_RANGE_CODER_ENCODE and ENET_RANGE_CODER_DECODE.         *)

\* Digits leave while the highest one is settled; a range that has become too
\* small is cut so that it will be.
RECURSIVE Normalize(_, _, _)
Normalize(low, range, digits) ==
  LET settled == low \div Top = ((low + range) % Word) \div Top
      cut == IF settled THEN range ELSE (-low) % Bottom
  IN  IF ~settled /\ range >= Bottom
      THEN [low |-> low, range |-> range, digits |-> digits]
      ELSE Normalize((low * Base) % Word, (cut * Base) % Word, Append(digits, low \div Top))

Narrow(c, under, count, total) ==
  LET share == c.range \div total
  IN  Normalize((c.low + under * share) % Word, share * count, <<>>)

Encode(c, under, count, total) ==
  LET to == Narrow(c, under, count, total)
  IN  [c EXCEPT !.low = to.low, !.range = to.range, !.output = @ \o to.digits]

\* Mutant: flush writes only as many bytes as seem to be needed.
FlushOne(low) == IF low = 0 THEN <<>> ELSE <<low \div Top>>

\* ENET_RANGE_CODER_FLUSH
RECURSIVE Flush(_)
Flush(low) == IF low = 0 THEN <<>> ELSE <<low \div Top>> \o Flush((low * Base) % Word)

-----------------------------------------------------------------------------
(* enet_range_coder_compress.                                              *)

EncodeRoot(c, value, place) ==
  LET found == ContextEncode(c.pool, Root, value, SymbolDelta, SymbolMinimum)
      root == found.pool[Root]
      linked == Link([c EXCEPT !.pool = found.pool], place, found.symbol)
      coded == Encode(linked, root.escapes + found.under, found.count, root.total)
  IN  [coded EXCEPT !.pool =
         ContextUpdate(@, Root, found.count, SymbolDelta, 0, SymbolMinimum)]

\* The contexts from place n up to the root: an escape from each that has not
\* seen the value, until one has.
RECURSIVE EncodeFrom(_, _, _, _)
EncodeFrom(c, n, value, place) ==
  LET found == ContextEncode(c.pool, n, value, SubSymbolDelta, 0)
      here == found.pool[n]
      linked == Link([c EXCEPT !.pool = found.pool], place, found.symbol)
      isNew == found.count = 0
      coded == CASE ~isNew -> Encode(linked, here.escapes + found.under, found.count, here.total)
                 [] isNew /\ here.escapes > 0 /\ here.escapes < here.total ->
                      Encode(linked, 0, here.escapes, here.total)
                 [] OTHER -> linked
      updated == [coded EXCEPT !.pool =
                    ContextUpdate(@, n, found.count, SubSymbolDelta,
                                  IF isNew THEN SubEscapeDelta ELSE 0, 0)]
  IN  IF n = Root THEN EncodeRoot(c, value, place)
      ELSE IF isNew
           THEN EncodeFrom(updated, updated.pool[n].parent, value, found.symbol)
           ELSE updated

Coder ==
  [pool |-> NewPool, predicted |-> Root, order |-> 0, low |-> 0, range |-> Word - 1, peak |-> 1]

Init ==
  /\ input = <<>>
  /\ taken = <<>>
  /\ encoder = Coder @@ [output |-> <<>>]

Compress(value) ==
  /\ Len(taken) < MaxLength
  /\ taken' = Append(taken, value)
  /\ encoder' = NextContext(Peaked(EncodeFrom(encoder, encoder.predicted, value, 0)))

\* The current buffer has another byte, or it is over and the next is not
\* empty: how the input is cut into buffers makes no difference.
FromBuffer(value) ==
  /\ input' = Append(input, value)
  /\ Compress(value)

\* The current buffer is over and the next one, that of an empty packet, is
\* empty: inData >= inEnd is not tested again, and *inData is any byte.  (The
\* program may stop there instead, since data is NULL in such a packet; its
\* behaviour then ends in the state before.)  inData is now behind inEnd, so
\* that the next turn goes on to the buffer after it.  The first buffer is that
\* of a command.
BehindEmptyBuffer(value) ==
  /\ input # <<>>
  /\ Len(taken) - Len(input) < MaxEmpty
  /\ UNCHANGED input
  /\ Compress(value)

Next == \E value \in Alphabet : FromBuffer(value) \/ BehindEmptyBuffer(value)

Spec == Init /\ [][Next]_vars

\* What the function returns when the input ends here.
Compressed == encoder.output \o Flush(encoder.low)

-----------------------------------------------------------------------------
(* enet_range_coder_decompress.                                            *)

\* The next k bytes of the input, zeros when it is over, enter decodeCode.
RECURSIVE ShiftIn(_, _, _)
ShiftIn(code, rest, k) ==
  CASE k = 0 -> [code |-> code, rest |-> rest]
    [] k > 0 /\ rest = <<>> -> ShiftIn((code * Base) % Word, rest, k - 1)
    [] OTHER -> ShiftIn((code * Base + Head(rest)) % Word, Tail(rest), k - 1)

\* ENET_RANGE_CODER_READ
Code(d, total) == ((d.code - d.low) % Word) \div (d.range \div total)

Decode(d, under, count, total) ==
  LET to == Narrow(d, under, count, total)
      next == ShiftIn(d.code, d.rest, Len(to.digits))
  IN  [d EXCEPT !.low = to.low, !.range = to.range, !.code = next.code, !.rest = next.rest]

\* A symbol the root has not seen: its value follows from the code.
Unseen(pool, n, side, code, value) ==
  [pool |-> CreateSymbol(pool, n, side, value, SymbolDelta), symbol |-> Len(pool) + 1,
   value |-> value, count |-> SymbolMinimum, under |-> code]

NoSymbol == [symbol |-> 0]

\* ENET_CONTEXT_DECODE from the node at place n on.  Only the root, where
\* minimum is not 0, can be asked for a value it has no symbol for.
RECURSIVE TreeDecode(_, _, _, _, _, _)
TreeDecode(pool, n, code, under, update, minimum) ==
  LET node == pool[n]
      after == under + node.under + (node.value + 1) * minimum
      before == node.count + minimum
      passed == [pool EXCEPT ![n].under = @ + update]
  IN  CASE code >= after /\ node.right # 0 ->
             TreeDecode(pool, node.right, code, under + node.under, update, minimum)
        [] code >= after /\ node.right = 0 ->
             IF minimum = 0 THEN NoSymbol
             ELSE Unseen(pool, n, "right", code, node.value + 1 + (code - after) \div minimum)
        [] code < after - before /\ node.left # 0 ->
             TreeDecode(passed, node.left, code, under, update, minimum)
        [] code < after - before /\ node.left = 0 ->
             IF minimum = 0 THEN NoSymbol
             ELSE Unseen(passed, n, "left", code,
                         node.value - 1 - (after - before - code - 1) \div minimum)
        [] OTHER -> [pool |-> [passed EXCEPT ![n].count = @ + update], symbol |-> n,
                     value |-> node.value, count |-> before, under |-> after - before]

ContextDecode(pool, n, code, update, minimum) ==
  CASE pool[n].symbols # 0 -> TreeDecode(pool, pool[n].symbols, code, 0, update, minimum)
    [] pool[n].symbols = 0 /\ minimum = 0 -> NoSymbol
    [] OTHER -> Unseen(pool, n, "symbols", code, code \div minimum)

\* patchContexts: the contexts from place n to the one that knew the value
\* take it in, as those of the compressor did.
RECURSIVE Patch(_, _, _, _, _, _)
Patch(d, n, known, value, place, bottom) ==
  LET found == ContextEncode(d.pool, n, value, SubSymbolDelta, 0)
      linked == Link([d EXCEPT !.pool = found.pool], place, found.symbol)
      updated == [linked EXCEPT !.pool =
                    ContextUpdate(@, n, found.count, SubSymbolDelta,
                                  IF found.count = 0 THEN SubEscapeDelta ELSE 0, 0)]
  IN  IF n = known THEN Link(d, place, bottom)
      ELSE Patch(updated, updated.pool[n].parent, known, value, found.symbol, bottom)

\* A value decoded in the context at place n.
Decoded(d, n, found, total, delta, minimum) ==
  LET read == Decode([d EXCEPT !.pool = found.pool],
                     d.pool[n].escapes + found.under, found.count, total)
      updated == [read EXCEPT !.pool = ContextUpdate(@, n, found.count, delta, 0, minimum)]
      patched == Patch(updated, d.predicted, n, found.value, 0, found.symbol)
  IN  IF found.symbol = 0 THEN [d EXCEPT !.status = "failed"]
      ELSE NextContext(Peaked([patched EXCEPT !.output = Append(@, found.value)]))

\* The contexts from place n up to the root, until one is not escaped from.
\* An escape from the root ends the output.
RECURSIVE DecodeFrom(_, _)
DecodeFrom(d, n) ==
  LET here == d.pool[n]
      code == Code(d, here.total)
      escapes == code < here.escapes
      escaped == Decode(d, 0, here.escapes, here.total)
      minimum == IF n = Root THEN SymbolMinimum ELSE 0
      delta == IF n = Root THEN SymbolDelta ELSE SubSymbolDelta
  IN  CASE n # Root /\ (here.escapes = 0 \/ here.escapes >= here.total) ->
             DecodeFrom(d, here.parent)
        [] n # Root /\ here.escapes \in 1..(here.total - 1) /\ escapes ->
             DecodeFrom(escaped, here.parent)
        [] n = Root /\ escapes -> [escaped EXCEPT !.status = "ended"]
        [] OTHER -> Decoded(d, n, ContextDecode(d.pool, n, code - here.escapes, delta, minimum),
                            here.total, delta, minimum)

\* The loop over the output, at most limit bytes.
RECURSIVE DecodeLoop(_, _)
DecodeLoop(d, limit) ==
  IF d.status # "running" \/ Len(d.output) > limit THEN d
  ELSE DecodeLoop(DecodeFrom(d, d.predicted), limit)

Decoder(data) ==
  LET seed == ShiftIn(0, data, 4)
  IN  Coder @@ [code |-> seed.code, rest |-> seed.rest, output |-> <<>>, status |-> "running"]

Decompressed(data, limit) == DecodeLoop(Decoder(data), limit)

-----------------------------------------------------------------------------
(* Properties.                                                             *)

\* What the model at place n of a pool predicts, whatever places its symbols
\* have: the decompressor makes those of one value in the opposite order.
RECURSIVE Model(_, _)
Model(pool, n) ==
  IF n = 0 THEN <<>>
  ELSE <<pool[n].value, pool[n].count, pool[n].under, pool[n].escapes, pool[n].total,
         Model(pool, pool[n].left), Model(pool, pool[n].right), Model(pool, pool[n].symbols)>>

\* What is decompressed is what the loop took, wherever it ends: the
\* decompressor finds the end by itself, although compress writes none, and
\* zeros stand for the bytes that flush leaves away.  Its contexts have then
\* become those of the compressor, and it stands at the same one
\* (enet_range_coder_compress, enet_range_coder_decompress).  Without empty
\* buffers the loop takes the input; with them see InputComesBack.
RoundTrip ==
  taken # <<>> =>
    LET decoder == Decompressed(Compressed, MaxLength)
    IN  /\ decoder.status = "ended"
        /\ decoder.output = taken
        /\ Len(taken) = Len(input) => decoder.output = input
        /\ decoder.order = encoder.order
        /\ Model(decoder.pool, Root) = Model(encoder.pool, Root)
        /\ Model(decoder.pool, decoder.predicted) = Model(encoder.pool, encoder.predicted)

\* In no turn of either loop does the pool hold more symbols than it has room
\* for, although they are counted after the turn only, when it may be too late:
\* a byte that is new in all of its contexts makes a symbol in each
\* (ENET_SYMBOL_CREATE, ENET_RANGE_CODER_FREE_SYMBOLS).
PoolSuffices ==
  /\ encoder.peak <= PoolSize
  /\ taken # <<>> => Decompressed(Compressed, MaxLength).peak <= PoolSize

\* No invariant of the code, but what enet.h:324 says of it ("Compresses from
\* inBuffers[0:inBufferCount-1], containing inLimit bytes"): what is decompressed
\* is the content of the buffers.  One empty buffer refutes it (README, section 8).
InputComesBack ==
  taken # <<>> => Decompressed(Compressed, MaxLength).output = input
=============================================================================
