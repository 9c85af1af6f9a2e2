--------------------------- MODULE TemplateCodec ---------------------------
(***************************************************************************)
(* A template in bytes: how it is put together (lib/bitcoin-template.ts,   *)
(* the same as create_coinbase of the stratum server) and how the detail   *)
(* page takes it apart again (lib/bitcoin-utils.ts, TemplateCard.tsx and   *)
(* TemplateDetailContent.tsx).                                             *)
(*                                                                         *)
(* Bytes are 0 .. 255; a transaction id is an opaque leaf and a double     *)
(* hash the pair of what it hashes.                                        *)
(***************************************************************************)
EXTENDS Integers, Sequences, FiniteSets, SequencesExt, FiniteSetsExt

CONSTANTS
  Forms,        \* what a template may be made of
  ExtranonceLen \* extranonce bytes of the coinbase script

ASSUME TemplateCodecAssumption == ExtranonceLen \in Nat

VARIABLES
  posted,  \* the template with the id of the page, NoForm before its registration
  detail,  \* the page: its last answer
  showRaw  \* OutputsCard: raw scripts shown

codecVars == <<posted, detail, showRaw>>

NoForm == [height |-> -1]
Zeros(n) == [i \in 1 .. n |-> 0]

-----------------------------------------------------------------------------
(* Encoding.                                                               *)

\* u32ToLeHex, and the eight bytes of a value.
LE(v, n) == [i \in 1 .. n |-> IF i > 4 THEN 0 ELSE (v \div 256 ^ (i - 1)) % 256]
FromLE(bytes) == FoldLeft(LAMBDA sum, i : sum + bytes[i] * 256 ^ (i - 1), 0,
                          [i \in 1 .. Len(bytes) |-> i])

EncodeVarInt(n) == IF n < 253 THEN <<n>> ELSE <<253>> \o LE(n, 2)

\* BIP34: as few bytes as the height needs, with a zero one after a high bit.
HeightBytes(height) ==
  LET bytes == LE(height, Min({n \in 1 .. 4 : n = 4 \/ height < 256 ^ n}))
  IN  IF bytes[Len(bytes)] >= 128 THEN Append(bytes, 0) ELSE bytes

\* Up to the extranonce; a tag is other servers' custom.
Coinbase1(form) ==
  LET h == HeightBytes(form.height)
  IN  LE(1, 4) \o <<1>> \o Zeros(32) \o <<255, 255, 255, 255>>
        \o <<1 + Len(h) + Len(form.tag) + ExtranonceLen, Len(h)>> \o h \o form.tag

\* OP_RETURN, the push of 36 bytes, aa21a9ed and the commitment.
Commitment == <<106, 36, 170, 33, 169, 237>> \o Zeros(32)

\* Sequence, outputs, locktime.
Coinbase2(form) ==
  <<255, 255, 255, 255>> \o <<IF form.commits THEN 2 ELSE 1>>
    \o LE(form.value, 8) \o EncodeVarInt(Len(form.script)) \o form.script
    \o (IF form.commits THEN LE(0, 8) \o EncodeVarInt(Len(Commitment)) \o Commitment ELSE << >>)
    \o Zeros(4)

\* The pairs of a level; an odd one is hashed with itself.
NextLevel(hashes) ==
  [i \in 1 .. (Len(hashes) + 1) \div 2 |->
     <<hashes[2 * i - 1], IF 2 * i <= Len(hashes) THEN hashes[2 * i] ELSE hashes[2 * i - 1]>>]

\* One turn of the loop: the first hash is the branch of this level, the rest are paired.
BranchStep(s) ==
  IF s.hashes = << >> THEN s
  ELSE [branches |-> Append(s.branches, Head(s.hashes)), hashes |-> NextLevel(Tail(s.hashes))]

ComputeMerkleBranches(txids) ==
  FoldLeft(LAMBDA s, i : BranchStep(s), [branches |-> << >>, hashes |-> txids],
           [i \in 1 .. Len(txids) |-> i]).branches

TxIds(form) == [i \in 1 .. form.txs |-> <<i>>]

\* What is registered.
TemplateOf(form) ==
  [height |-> form.height, coinbase1 |-> Coinbase1(form), coinbase2 |-> Coinbase2(form),
   branches |-> ComputeMerkleBranches(TxIds(form)), nbits |-> form.nbits, version |-> form.version]

-----------------------------------------------------------------------------
(* Decoding.                                                               *)

ParseCoinbaseHeight(cb1) ==
  IF Len(cb1) < 44 \/ cb1[43] = 0 \/ cb1[43] > 4 THEN -1
  ELSE FromLE([i \in 1 .. cb1[43] |-> IF 43 + i <= Len(cb1) THEN cb1[43 + i] ELSE 0])

\* The first byte after the height.
AsciiStart(cb1) == 44 + cb1[43]

DecodeCoinbaseAscii(cb1) ==
  LET scriptEnd == Min({42 + cb1[42], Len(cb1)}) IN
  IF Len(cb1) < 43 \/ cb1[42] = 0 THEN << >>
  ELSE [i \in 1 .. Min({80, Max({0, scriptEnd - AsciiStart(cb1) + 1})}) |->
          LET b == cb1[AsciiStart(cb1) + i - 1] IN IF b \in 32 .. 126 THEN b ELSE 46]

\* Script bytes declared and not present; -1 for null.
InferExtranonceGap(cb1) ==
  IF Len(cb1) < 42 THEN -1 ELSE Max({-1, cb1[42] - (Len(cb1) - 42)})

ReconstructCoinbase(cb1, cb2) ==
  LET gap == InferExtranonceGap(cb1) IN cb1 \o Zeros(IF gap >= 0 THEN gap ELSE 8) \o cb2

\* bitcoinjs' Transaction.fromHex: outputs from a position on, failing past the end.
ReadOut(tx, s) ==
  IF ~s.ok \/ s.pos + 8 > Len(tx) THEN [s EXCEPT !.ok = FALSE]
  ELSE LET wide == tx[s.pos + 8] = 253
           start == s.pos + (IF wide THEN 11 ELSE 9)
           len == IF ~wide THEN tx[s.pos + 8]
                  ELSE IF s.pos + 10 > Len(tx) THEN Len(tx)
                  ELSE FromLE(SubSeq(tx, s.pos + 9, s.pos + 10))
       IN  IF start + len - 1 > Len(tx) THEN [s EXCEPT !.ok = FALSE]
           ELSE [ok |-> TRUE, pos |-> start + len,
                 outs |-> Append(s.outs, [value |-> FromLE(SubSeq(tx, s.pos, s.pos + 3)),
                                          script |-> SubSeq(tx, start, start + len - 1)])]
ReadTx(tx) ==
  LET outsAt == 43 + tx[42] + 4
      none == [ok |-> FALSE, pos |-> 0, outs |-> << >>]
      read == FoldLeft(LAMBDA s, i : ReadOut(tx, s), [ok |-> TRUE, pos |-> outsAt + 1, outs |-> << >>],
                       [i \in 1 .. tx[outsAt] |-> i])
  IN  IF outsAt > Len(tx) THEN none
      ELSE IF read.ok /\ read.pos + 3 = Len(tx) THEN read ELSE none

\* detectAddress: the canonical shapes.
StartsWith(s, prefix) == Len(s) >= Len(prefix) /\ SubSeq(s, 1, Len(prefix)) = prefix
DetectAddress(script) ==
  CASE Len(script) = 25 /\ StartsWith(script, <<118, 169, 20>>) /\ script[24] = 136 /\ script[25] = 172
         -> "p2pkh"
    [] Len(script) = 23 /\ StartsWith(script, <<169, 20>>) /\ script[23] = 135 -> "p2sh"
    [] Len(script) = 22 /\ StartsWith(script, <<0, 20>>) -> "p2wpkh"
    [] Len(script) = 34 /\ StartsWith(script, <<0, 32>>) -> "p2wsh"
    [] Len(script) = 34 /\ StartsWith(script, <<81, 32>>) -> "p2tr"
    [] OTHER -> "unknown"

\* The data an OP_RETURN script pushes.
PushedData(script) ==
  LET rest == Tail(script)
      Cut(from, len) == SubSeq(rest, from, Min({from + len - 1, Len(rest)}))
  IN  IF rest = << >> THEN << >>
      ELSE IF rest[1] \in 1 .. 75 THEN Cut(2, rest[1])
      ELSE IF rest[1] = 76 /\ Len(rest) >= 2 THEN Cut(3, rest[2])
      ELSE IF rest[1] = 77 /\ Len(rest) >= 3 THEN Cut(4, FromLE(SubSeq(rest, 2, 3)))
      ELSE rest

\* First bytes of other protocols' data, in the order they are tried.
Markers == <<[protocol |-> "Rootstock", prefix |-> <<82, 83, 75, 66, 76, 79, 67, 75, 58>>],
             [protocol |-> "Hathor", prefix |-> <<72, 65, 84, 72, 79, 82>>],
             [protocol |-> "Syscoin", prefix |-> <<83, 89, 83, 95, 66, 76, 79, 67, 75>>],
             [protocol |-> "exSat", prefix |-> <<69, 88, 83, 65, 84>>],
             [protocol |-> "CoreDAO", prefix |-> <<67, 79, 82, 69>>]>>
DecodeOpReturn(data) ==
  LET hits == {i \in DOMAIN Markers : StartsWith(data, Markers[i].prefix)}
  IN  IF data = << >> THEN "none"
      ELSE IF StartsWith(data, <<170, 33, 169, 237>>) /\ Len(data) = 36 THEN "Segwit Commitment"
      ELSE IF hits # {} THEN Markers[Min(hits)].protocol ELSE "Unknown"

\* An output as the card shows it.
ParseOutput(out) ==
  [value |-> out.value, script |-> out.script,
   kind |-> IF out.script # << >> /\ out.script[1] = 106 THEN DecodeOpReturn(PushedData(out.script))
            ELSE DetectAddress(out.script)]
ParseCoinbase(t) ==
  LET read == ReadTx(ReconstructCoinbase(t.coinbase1, t.coinbase2))
      outs == [i \in DOMAIN read.outs |-> ParseOutput(read.outs[i])]
  IN  [ok |-> read.ok, outputs |-> outs,
       totalOutputSats |-> FoldLeft(LAMBDA sum, o : sum + o.value, 0, outs)]

\* decodeNbits: 32 bytes, most significant first.
DecodeNbits(nbits) ==
  LET shift == nbits.exp - 3
      hex == nbits.mant \o Zeros(Max({0, shift}))
  IN  IF Len(hex) > 32 THEN SubSeq(hex, Len(hex) - 31, Len(hex)) ELSE Zeros(32 - Len(hex)) \o hex

ComputeFirstTransaction(branches) == IF branches = << >> THEN <<"empty">> ELSE branches[1]

\* reconstructHeaderHex and decomposeHeader: six fields of an 80-byte header.
FieldLengths == <<4, 32, 32, 4, 4, 4>>
FieldStart(i) == FoldLeft(LAMBDA sum, k : sum + FieldLengths[k], 0, [k \in 1 .. i - 1 |-> k])
ReconstructHeader(t, rolled) ==
  LE(rolled, 4) \o Zeros(32) \o Zeros(32) \o LE(7, 4) \o t.nbits.mant \o <<t.nbits.exp>> \o LE(9, 4)
DecomposeHeader(header, templateVersion, shareVersion) ==
  [i \in 1 .. 6 |->
     [bytes |-> SubSeq(header, FieldStart(i) + 1, FieldStart(i) + FieldLengths[i]),
      source |-> IF i = 1 THEN (IF templateVersion # shareVersion THEN "miner" ELSE "template")
                 ELSE IF i \in {2, 5} THEN "template" ELSE "miner"]]

-----------------------------------------------------------------------------
(* TemplateDetailContent.                                                  *)

Loading == [stage |-> "loading", form |-> NoForm]

Post(form) ==
  /\ posted = NoForm
  /\ posted' = form
  /\ UNCHANGED <<detail, showRaw>>

\* fetchTemplateById, again every thirty seconds.
DetailAnswer ==
  /\ detail' = [stage |-> IF posted = NoForm THEN "not found" ELSE "shown", form |-> posted]
  /\ showRaw' = (showRaw /\ detail.stage = "shown" /\ posted # NoForm)
  /\ UNCHANGED posted

\* A request that fails counts as no template.
DetailFails ==
  /\ detail' = [stage |-> "not found", form |-> NoForm]
  /\ showRaw' = FALSE
  /\ UNCHANGED posted

ToggleRaw ==
  /\ detail.stage = "shown" /\ ParseCoinbase(TemplateOf(detail.form)).ok
  /\ showRaw' = ~showRaw
  /\ UNCHANGED <<posted, detail>>

CodecInit == posted = NoForm /\ detail = Loading /\ showRaw = FALSE

CodecNext == \/ \E form \in Forms : Post(form)
             \/ DetailAnswer \/ DetailFails \/ ToggleRaw

CodecSpec == CodecInit /\ [][CodecNext]_codecVars

-----------------------------------------------------------------------------
(* Properties.                                                             *)

CodecTypeOK ==
  /\ posted = NoForm \/ posted \in Forms
  /\ showRaw \in BOOLEAN
  /\ detail.form \in {posted, NoForm}
  /\ showRaw => detail.stage = "shown"

\* The card finds in the bytes what went into them: the height by BIP34, the tag, the
\* outputs with their kinds and values, whatever the lengths of height, tag and script.
CardReadsTheCoinbase ==
  detail.stage = "shown" =>
    LET form == detail.form    t == TemplateOf(form)    cb == ParseCoinbase(t) IN
    /\ ParseCoinbaseHeight(t.coinbase1) = form.height
    /\ DecodeCoinbaseAscii(t.coinbase1) =
         [i \in DOMAIN form.tag |-> IF form.tag[i] \in 32 .. 126 THEN form.tag[i] ELSE 46]
    /\ cb.ok /\ cb.totalOutputSats = form.value
    /\ cb.outputs[1].script = form.script
    /\ form.commits <=> \E i \in DOMAIN cb.outputs : cb.outputs[i].kind = "Segwit Commitment"

\* Read as a two's complement number, the height in the script is never negative.
HeightIsPositive ==
  detail.stage = "shown" =>
    LET cb1 == Coinbase1(detail.form) IN cb1[43 + cb1[43]] < 128

\* Levels of the whole tree, the coinbase its first leaf: the last one is the root.
Root(leaves) ==
  FoldLeft(LAMBDA level, i : IF Len(level) = 1 THEN level ELSE NextLevel(level), leaves, leaves)[1]

\* Hashed up along the branches, the coinbase gives the root of the tree of all transactions.
BranchesProveTheRoot ==
  detail.stage = "shown" =>
    LET t == TemplateOf(detail.form)    coinbase == <<0>>    txids == TxIds(detail.form) IN
    /\ FoldLeft(LAMBDA hash, b : <<hash, b>>, coinbase, t.branches) = Root(<<coinbase>> \o txids)
    /\ ComputeFirstTransaction(t.branches) = IF txids = << >> THEN <<"empty">> ELSE txids[1]

\* The target's bytes stand where mantissa * 256^(exp - 3) puts them, modulo 2^256, and the
\* six fields of a header tile its eighty bytes and carry what was put into them.
TargetAndHeaderAreInPlace ==
  detail.stage = "shown" =>
    LET t == TemplateOf(detail.form)
        target == DecodeNbits(t.nbits)
        WeightOf(i) == 32 - i
    IN  /\ \A i \in 1 .. 32 :
             LET k == WeightOf(i) - (t.nbits.exp - 3)
             IN  target[i] = IF k \in 0 .. 2 THEN t.nbits.mant[3 - k] ELSE 0
        /\ \A rolled \in {t.version, t.version + 8192} :
             LET header == ReconstructHeader(t, rolled)
                 fields == DecomposeHeader(header, t.version, rolled)
             IN  /\ Len(header) = 80 /\ FlattenSeq([i \in 1 .. 6 |-> fields[i].bytes]) = header
                 /\ FromLE(fields[1].bytes) = rolled
                 /\ (fields[1].source = "miner") <=> (rolled # t.version)

\* The bytes of a template are read back as they were written: coinbase, height,
\* branches, target and header fields.
CodecInv ==
  /\ CodecTypeOK /\ CardReadsTheCoinbase /\ HeightIsPositive
  /\ BranchesProveTheRoot /\ TargetAndHeaderAreInPlace

=============================================================================
