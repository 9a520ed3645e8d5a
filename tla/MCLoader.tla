------------------------------ MODULE MCLoader ------------------------------
EXTENDS Loader, TLC

CONSTANT MaxRecords    \* records of an undamaged file

Number(n) == [kind |-> "number", text |-> ToString(n), value |-> n]

Word(text) == [kind |-> "word", text |-> text, value |-> 0]

Overlong == [kind |-> "overlong", text |-> "99999999999", value |-> 0]

Line(time, type, id, owner, side, quantity, price) ==
  <<Number(time), Word("AAPL"), Word(type), Number(id), Number(owner), Word(side),
    Number(quantity), Number(price)>>

Lines == {Line(0, "ADD", 1, 2, "BUY", 3, 4), Line(1, "MODIFY", 1, 2, "SELL", 5, 6)}

Undamaged == UNION {{FlattenSeq(s) : s \in [1 .. n -> Lines]} : n \in 0 .. MaxRecords}

OddTokens == {Number(7), Word("MOD"), Word("AAPL"), Overlong}

(* A field of the file is replaced or left out, or nothing is wrong. *)
Damaged(tokens) ==
  {tokens} \cup {ReplaceAt(tokens, i, token) : i \in DOMAIN tokens, token \in OddTokens}
           \cup {RemoveAt(tokens, i) : i \in DOMAIN tokens}

(* The file is cut off anywhere. *)
CutOff(tokens) == {SubSeq(tokens, 1, n) : n \in 0 .. Len(tokens)}

MCFiles ==
  [tokens : UNION {CutOff(tokens) : tokens \in UNION {Damaged(u) : u \in Undamaged}},
   endsWithSpace : BOOLEAN, exists : {TRUE}]
    \cup [tokens : {<< >>}, endsWithSpace : {TRUE}, exists : {FALSE}]
=============================================================================
