------------------------------- MODULE Encoding -------------------------------
(***************************************************************************)
(* The binary format of what replicas send each other (src/src/encode.rs   *)
(* and the encode modules of text.rs, anchor.rs, insertion.rs, deletion.rs *)
(* and version_map.rs).                                                    *)
(*                                                                         *)
(* A buffer is a sequence of bytes.  A decoder takes what it needs from    *)
(* the front of a buffer and gives the value and the rest, or fails.       *)
(* Integers are LEB128: digits, the lowest first, each with a bit that     *)
(* says whether more are to come.                                          *)
(***************************************************************************)
EXTENDS Integers, SequencesExt

CONSTANT Radix    \* what a byte of an integer counts to; 128 in the code

ASSUME RadixAssumption == Radix \in Nat /\ Radix > 2

Ok(value, rest) == [ok |-> TRUE, value |-> value, rest |-> rest]

Failed == [ok |-> FALSE]

(* The decoder that goes on where another one has stopped: `?` in the code.*)
Then(decoded, Next(_, _)) ==
    IF decoded.ok THEN Next(decoded.value, decoded.rest) ELSE Failed

(* A decoder that is run n times, each time with what it has made so far.  *)
Repeat(n, Next(_, _), value, buf) ==
    LET after[k \in 0 .. n] ==
          IF k = 0 THEN Ok(value, buf) ELSE Then(after[k - 1], Next)
    IN  after[n]

(* The values of a decoder that is run n times.                            *)
DecodeEach(n, Decode(_), buf) ==
    Repeat(n, LAMBDA values, front :
                Then(Decode(front), LAMBDA value, rest :
                  Ok(Append(values, value), rest)),
           <<>>, buf)

EncodeEach(values, Encode(_)) ==
    LET front[k \in 0 .. Len(values)] ==
          IF k = 0 THEN <<>> ELSE front[k - 1] \o Encode(values[k])
    IN  front[Len(values)]

------------------------------------------------------------------------------
(* Integers, booleans and flags.                                           *)
EncodeInt(n) ==
    LET bytes[k \in Nat] ==
          IF k < Radix THEN <<k>>
          ELSE <<Radix + (k % Radix)>> \o bytes[k \div Radix]
    IN  bytes[n]

IsLastDigit(buf, k) ==
    buf[k] < Radix /\ \A j \in 1 .. k - 1 : buf[j] >= Radix

DecodeInt(buf) ==
    LET len == CHOOSE k \in DOMAIN buf : IsLastDigit(buf, k)
        number[k \in 1 .. len + 1] ==
          IF k > len THEN 0 ELSE (number[k + 1] * Radix) + (buf[k] % Radix)
    IN  IF \E k \in DOMAIN buf : IsLastDigit(buf, k)
        THEN Ok(number[1], SubSeq(buf, len + 1, Len(buf)))
        ELSE Failed

EncodeInts(ints) == EncodeEach(ints, EncodeInt)

DecodeInts(n, buf) == DecodeEach(n, DecodeInt, buf)

EncodeBool(b) == IF b THEN <<1>> ELSE <<0>>

(* A byte that must be one of some.                                        *)
DecodeFlag(flags, buf) ==
    IF buf # <<>> /\ Head(buf) \in flags THEN Ok(Head(buf), Tail(buf))
    ELSE Failed

DecodeBool(buf) ==
    Then(DecodeFlag({0, 1}, buf), LAMBDA byte, rest : Ok(byte = 1, rest))

------------------------------------------------------------------------------
(* Texts and anchors.  A text is encoded with its length, not its end.     *)
EncodeText(m) == EncodeInts(<<m.by, m.start, m.end - m.start>>)

DecodeText(buf) ==
    Then(DecodeInts(3, buf), LAMBDA n, rest :
      Ok([by |-> n[1], start |-> n[2], end |-> n[2] + n[3]], rest))

EncodeAnchor(anchor) == EncodeInts(<<anchor.id, anchor.ts, anchor.offset>>)

AnchorOf(id, ts, offset) == [id |-> id, offset |-> offset, ts |-> ts]

DecodeAnchor(buf) ==
    Then(DecodeInts(3, buf), LAMBDA n, rest :
      Ok(AnchorOf(n[1], n[2], n[3]), rest))

(* An anchor of a user's, with its bias.                                   *)
EncodeBiasedAnchor(anchor) ==
    EncodeAnchor(anchor.at) \o EncodeBool(anchor.bias = "right")

DecodeBiasedAnchor(buf) ==
    Then(DecodeAnchor(buf), LAMBDA at, front :
      Then(DecodeBool(front), LAMBDA is_right, rest :
        Ok([at |-> at, bias |-> IF is_right THEN "right" ELSE "left"], rest)))

------------------------------------------------------------------------------
(* Insertions.  The anchor of one that continues a run is left out.        *)

(* Mutant: an anchor in text of the same inserter is taken for the end of  *)
(* the run the insertion belongs to.                                       *)
ContinuesOwnText(m) == m.anchor.id = m.by

ContinuesExisting(m) == m.anchor.id = m.by /\ m.anchor.ts = m.ts

EncodeInsertion(m) ==
    EncodeText(m) \o EncodeInts(<<m.ts, m.lam>>)
      \o EncodeBool(ContinuesExisting(m))
      \o IF ContinuesExisting(m) THEN <<>> ELSE EncodeAnchor(m.anchor)

InsertionOf(text, ts, lam, anchor) ==
    [by |-> text.by, start |-> text.start, end |-> text.end,
     anchor |-> anchor, ts |-> ts, lam |-> lam]

DecodeInsertion(buf) ==
    Then(DecodeText(buf), LAMBDA text, after_text :
      Then(DecodeInts(2, after_text), LAMBDA clocks, after_clocks :
        Then(DecodeBool(after_clocks), LAMBDA continues, front :
          Then(IF continues
               THEN Ok(AnchorOf(text.by, clocks[1], text.start), front)
               ELSE DecodeAnchor(front), LAMBDA anchor, rest :
            Ok(InsertionOf(text, clocks[1], clocks[2], anchor), rest)))))

------------------------------------------------------------------------------
(* Version maps and deletion maps: the replica's own entry, and the other  *)
(* ones in the order of a hash map.                                        *)
EncodeMap(map, this_id, order) ==
    LET rest == SelectSeq(order, LAMBDA id : id # this_id /\ map[id] > 0)
    IN  EncodeInts(<<this_id, map[this_id], Len(rest)>>)
          \o EncodeEach(rest, LAMBDA id : EncodeInts(<<id, map[id]>>))

(* An id that is not in the map counts as zero.                            *)
DecodeMap(ids, buf) ==
    Then(DecodeInts(3, buf), LAMBDA n, front :
      Repeat(n[3], LAMBDA map, entry :
               Then(DecodeInts(2, entry), LAMBDA e, rest :
                 Ok([map EXCEPT ![e[1]] = e[2]], rest)),
             [id \in ids |-> IF id = n[1] THEN n[2] ELSE 0], front))

------------------------------------------------------------------------------
(* Deletions.  What the two anchors share is written once.                 *)
DifferentReplicaIds == 0
SameReplicaId == 1
SameReplicaIdAndRunTs == 2

(* Mutant: with the ids, the timestamps are taken to be the same.          *)
AnchorsFlagById(start, end) ==
    IF start.id # end.id THEN DifferentReplicaIds ELSE SameReplicaIdAndRunTs

AnchorsFlag(start, end) ==
    IF start.id # end.id THEN DifferentReplicaIds
    ELSE IF start.ts # end.ts THEN SameReplicaId
    ELSE SameReplicaIdAndRunTs

EncodeAnchors(start, end) ==
    LET flag == AnchorsFlag(start, end)
    IN  <<flag>> \o EncodeAnchor(start) \o
        CASE flag = DifferentReplicaIds -> EncodeAnchor(end)
          [] flag = SameReplicaId -> EncodeInts(<<end.ts, end.offset>>)
          [] flag = SameReplicaIdAndRunTs ->
               EncodeInt(end.offset - start.offset)

DecodeEndAnchor(flag, start, buf) ==
    CASE flag = DifferentReplicaIds -> DecodeAnchor(buf)
      [] flag = SameReplicaId ->
           Then(DecodeInts(2, buf), LAMBDA n, rest :
             Ok(AnchorOf(start.id, n[1], n[2]), rest))
      [] flag = SameReplicaIdAndRunTs ->
           Then(DecodeInt(buf), LAMBDA len, rest :
             Ok(AnchorOf(start.id, start.ts, start.offset + len), rest))

DecodeAnchors(buf) ==
    Then(DecodeFlag(0 .. 2, buf), LAMBDA flag, front :
      Then(DecodeAnchor(front), LAMBDA start, after_start :
        Then(DecodeEndAnchor(flag, start, after_start), LAMBDA end, rest :
          Ok([start |-> start, end |-> end], rest))))

EncodeDeletion(d, order) ==
    EncodeAnchors(d.start, d.end) \o EncodeMap(d.version_map, d.by, order)
      \o EncodeInt(d.ts)

DeletionOf(by, start, end, map, ts) ==
    [by |-> by, ts |-> ts, start |-> start, end |-> end, version_map |-> map]

(* The id a map starts with is the id of the replica it belongs to.        *)
DecodeDeletion(ids, buf) ==
    Then(DecodeAnchors(buf), LAMBDA anchors, front :
      Then(DecodeInt(front), LAMBDA by, ignored :
        Then(DecodeMap(ids, front), LAMBDA map, after_map :
          Then(DecodeInt(after_map), LAMBDA ts, rest :
            Ok(DeletionOf(by, anchors.start, anchors.end, map, ts), rest)))))
==============================================================================
