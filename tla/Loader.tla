------------------------------- MODULE Loader -------------------------------
(***************************************************************************)
(* src/io.cpp: LoadEventsFromFile, one extraction (>>) per step.           *)
(*                                                                         *)
(* A file is the tokens the stream splits it into, and whether whitespace  *)
(* follows the last one: without it, reading the last token already sets   *)
(* eof.  A token has its text, and what reading it as an int makes of it:  *)
(* a "number" that fits int; an "overlong" one, which is consumed and      *)
(* fails; a "word", which fails on its first character and stays.          *)
(***************************************************************************)
EXTENDS OrderTypes, SequencesExt

CONSTANT Files  \* sequences of tokens, and whether whitespace ends them

(* The tokens of a file are a sequence. *)
ASSUME FilesAssumption ==
  \A f \in Files : f.tokens \in Seq({f.tokens[i] : i \in DOMAIN f.tokens})

VARIABLES
  file,
  outcome,      \* open, reading, loaded, or the exception thrown
  input,        \* the tokens not yet consumed
  eof, fail,    \* the state bits of the stream
  record,       \* the fields of the current line read so far
  events

vars == <<file, outcome, input, eof, fail, record, events>>

FieldCount == 8

(* time, order_id, owner_id, quantity and price are read as int. *)
IntFields == {1, 4, 5, 7, 8}

(* What the code makes of a text; every other text is refused. *)
ParseOrderType ==
  [ADD |-> "Add", CANCEL |-> "Cancel", MODIFY |-> "Mod", MOD |-> "Mod",
   IOC |-> "IOC", MARKET |-> "Market"]

ParseSide == [BUY |-> "Buy", SELL |-> "Sell"]

(* The event of the fields r. *)
BackTestEvent(r) ==
  [time |-> r[1].value, symbol |-> r[2].text, order_type |-> ParseOrderType[r[3].text],
   order_id |-> r[4].value, owner_id |-> r[5].value, side |-> ParseSide[r[6].text],
   quantity |-> r[7].value, price |-> r[8].value]

(* The token can be read into this field. *)
Fits(token, field) == field \in IntFields => token.kind = "number"

Parses(r) == r[6].text \in DOMAIN ParseSide /\ r[3].text \in DOMAIN ParseOrderType

(* Consuming the last token runs into the end of the file. *)
AtEnd(tokens) == Len(tokens) = 1 /\ ~file.endsWithSpace

Init ==
  /\ file \in Files
  /\ outcome = "open"
  /\ input = file.tokens
  /\ eof = FALSE /\ fail = FALSE
  /\ record = << >>
  /\ events = << >>

(* std::ifstream input(path): a path that cannot be opened throws. *)
Open ==
  /\ outcome = "open"
  /\ outcome' = IF file.exists THEN "reading" ELSE "unopened"
  /\ UNCHANGED <<file, input, eof, fail, record, events>>

(* The stream is asked for the next field. *)
Extracting == outcome = "reading" /\ ~fail /\ Len(record) < FieldCount

ReadField ==
  /\ Extracting
  /\ input # << >>
  /\ Fits(Head(input), Len(record) + 1)
  /\ record' = Append(record, Head(input))
  /\ input' = Tail(input)
  /\ eof' = AtEnd(input)
  /\ UNCHANGED <<file, outcome, fail, events>>

(* Nothing but whitespace is left. *)
ReachEnd ==
  /\ Extracting
  /\ input = << >>
  /\ eof' = TRUE /\ fail' = TRUE
  /\ UNCHANGED <<file, outcome, input, record, events>>

(* Mutant: the stream is cleared and read on, as if to skip the token. *)
FailToReadAndClear ==
  /\ Extracting
  /\ input # << >>
  /\ ~Fits(Head(input), Len(record) + 1)
  /\ IF Head(input).kind = "overlong"
     THEN input' = Tail(input) /\ eof' = AtEnd(input)
     ELSE UNCHANGED <<input, eof>>
  /\ UNCHANGED <<file, outcome, fail, record, events>>

(* The next token is no int. *)
FailToRead ==
  /\ Extracting
  /\ input # << >>
  /\ ~Fits(Head(input), Len(record) + 1)
  /\ fail' = TRUE
  /\ IF Head(input).kind = "overlong"
     THEN input' = Tail(input) /\ eof' = AtEnd(input)
     ELSE UNCHANGED <<input, eof>>
  /\ UNCHANGED <<file, outcome, record, events>>

(* Mutant: a record that ends with the file is taken for the failed read. *)
PushBackUnlessEof ==
  /\ outcome = "reading" /\ Len(record) = FieldCount
  /\ \/ /\ Parses(record)
        /\ events' = IF eof THEN events ELSE Append(events, BackTestEvent(record))
        /\ record' = << >>
        /\ UNCHANGED outcome
     \/ /\ ~Parses(record)
        /\ outcome' = "unknown"
        /\ UNCHANGED <<events, record>>
  /\ UNCHANGED <<file, input, eof, fail>>

(* The body of the loop: the event is stored, or a text in it is unknown. *)
PushBack ==
  /\ outcome = "reading" /\ Len(record) = FieldCount
  /\ \/ /\ Parses(record)
        /\ events' = Append(events, BackTestEvent(record))
        /\ record' = << >>
        /\ UNCHANGED outcome
     \/ /\ ~Parses(record)
        /\ outcome' = "unknown"
        /\ UNCHANGED <<events, record>>
  /\ UNCHANGED <<file, input, eof, fail>>

(* Mutant: what stopped the loop is not looked at. *)
ResultUnchecked(at_end) == "loaded"

(* The test of eof behind the loop. *)
Result(at_end) == IF at_end THEN "loaded" ELSE "malformed"

Finish ==
  /\ outcome = "reading" /\ fail
  /\ outcome' = Result(eof)
  /\ UNCHANGED <<file, input, eof, fail, record, events>>

Next == Open \/ ReadField \/ ReachEnd \/ FailToRead \/ PushBack \/ Finish

Spec == Init /\ [][Next]_vars

(* One thread; every extraction returns. *)
FairSpec == Spec /\ WF_vars(Next)

-----------------------------------------------------------------------------
(***************************************************************************)
(* Properties.  The reference is the format of README, "Input Data":       *)
(* records of eight fields, one after the other.                           *)
(***************************************************************************)
RecordAt(i) == SubSeq(file.tokens, FieldCount * (i - 1) + 1, FieldCount * i)

IsRecord(r) == Parses(r) /\ \A field \in 1 .. FieldCount : Fits(r[field], field)

IsWhole ==
  /\ file.exists
  /\ Len(file.tokens) % FieldCount = 0
  /\ \A i \in 1 .. Len(file.tokens) \div FieldCount : IsRecord(RecordAt(i))

(* io.cpp:70-74 stores record i of the file as event i, none twice and     *)
(* none skipped; and when the file is taken (io.cpp:76-81), what it leaves *)
(* unread is less than a record, or a last one whose price does not fit.   *)
LoadedAsWritten ==
  /\ \A i \in DOMAIN events : IsRecord(RecordAt(i)) /\ events[i] = BackTestEvent(RecordAt(i))
  /\ outcome = "loaded" =>
       LET unread == Len(file.tokens) - FieldCount * Len(events) IN
       \/ unread < FieldCount
       \/ unread = FieldCount /\ Last(file.tokens).kind = "overlong" /\ ~file.endsWithSpace

(* A file of whole records is never refused, and nothing of it is lost,    *)
(* with and without a newline at its end.                                  *)
WholeFilesLoad ==
  /\ outcome \in {"unopened", "malformed", "unknown"} => ~IsWhole
  /\ outcome = "loaded" /\ IsWhole => FieldCount * Len(events) = Len(file.tokens)

(* LoadEventsFromFile returns or throws for every file (io.cpp:70).        *)
LoadingEnds == <>(outcome \notin {"open", "reading"})

(* io.cpp:78 calls a file that stops in the middle of a record malformed:  *)
(* a file that is loaded consists of whole records.                        *)
IncompleteRefused == outcome = "loaded" => IsWhole
=============================================================================
