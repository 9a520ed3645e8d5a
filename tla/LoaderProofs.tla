---------------------------- MODULE LoaderProofs ----------------------------
(***************************************************************************)
(* Proofs about module Loader, for files of any length: the events are the *)
(* records of the file, and a file of whole records is loaded entirely.    *)
(***************************************************************************)
EXTENDS Loader, TLAPS

(* How many tokens are in the events and the record read so far.           *)
Stored == FieldCount * Len(events) + Len(record)

(* What is stored is the beginning of the file, field by field.            *)
Prefix ==
  /\ file \in Files
  /\ \E S : events \in Seq(S)
  /\ \E S : record \in Seq(S)
  /\ Len(record) <= FieldCount
  /\ Stored <= Len(file.tokens)
  /\ \A i \in 1 .. Len(events) : IsRecord(RecordAt(i)) /\ events[i] = BackTestEvent(RecordAt(i))
  /\ \A j \in 1 .. Len(record) :
       Fits(record[j], j) /\ record[j] = file.tokens[FieldCount * Len(events) + j]

(* What is left to read is the rest of the file.  The stream is at its end *)
(* when nothing is left.                                                   *)
Rest ==
  /\ \E S : input \in Seq(S)
  /\ ~fail =>
       /\ Len(file.tokens) = Stored + Len(input)
       /\ \A i \in 1 .. Len(input) : input[i] = file.tokens[Stored + i]
       /\ eof => input = << >>

(* A failed read met the end of the file or a token that does not fit; at  *)
(* the end of the file that is a last, overlong number.                    *)
Failure ==
  fail =>
    /\ Len(record) < FieldCount
    /\ \/ eof /\ Stored = Len(file.tokens)
       \/ /\ Stored < Len(file.tokens)
          /\ ~Fits(file.tokens[Stored + 1], Len(record) + 1)
          /\ eof => /\ Stored + 1 = Len(file.tokens)
                    /\ file.tokens[Stored + 1].kind = "overlong"
                    /\ ~file.endsWithSpace

Outcomes ==
  /\ outcome = "unopened" => ~file.exists
  /\ outcome = "unknown" => Len(record) = FieldCount /\ ~Parses(record)
  /\ outcome = "loaded" => fail /\ eof
  /\ outcome = "malformed" => fail /\ ~eof

(* The inductive invariant.                                                *)
LoadInv == Prefix /\ Rest /\ Failure /\ Outcomes

-----------------------------------------------------------------------------
(* The tokens of a file are numbered from 1.                               *)
LEMMA FileTokens ==
  ASSUME NEW f \in Files
  PROVE  /\ \E S : f.tokens \in Seq(S)
         /\ Len(f.tokens) \in Nat /\ DOMAIN f.tokens = 1 .. Len(f.tokens)
<1>1. PICK S : f.tokens \in Seq(S)
  <2>1. f.tokens \in Seq({f.tokens[i] : i \in DOMAIN f.tokens})
    BY FilesAssumption
  <2> QED BY ONLY <2>1, Zenon
<1> QED BY <1>1

(* Record i of a file, token by token.                                     *)
LEMMA RecordTokens ==
  ASSUME file \in Files, NEW i \in Nat \ {0}, FieldCount * i <= Len(file.tokens),
         NEW j \in 1 .. FieldCount
  PROVE  RecordAt(i)[j] = file.tokens[FieldCount * (i - 1) + j]
<1>1. PICK S : file.tokens \in Seq(S)
  BY FileTokens
<1> QED BY <1>1 DEF RecordAt, FieldCount

(* Appending to a sequence.                                                *)
LEMMA AppendTo ==
  ASSUME NEW s, \E S : s \in Seq(S), NEW x
  PROVE  /\ \E S : Append(s, x) \in Seq(S)
         /\ Len(s) \in Nat /\ Len(Append(s, x)) = Len(s) + 1
         /\ \A i \in 1 .. Len(s) : Append(s, x)[i] = s[i]
         /\ Append(s, x)[Len(s) + 1] = x
<1>1. PICK S : s \in Seq(S)
  OBVIOUS
<1>2. s \in Seq(S \cup {x}) /\ Append(s, x) \in Seq(S \cup {x})
  BY <1>1
<1> QED BY <1>2

(* Taking the first token of the input.                                    *)
LEMMA TailOf ==
  ASSUME NEW s, \E S : s \in Seq(S), s # << >>
  PROVE  /\ \E S : Tail(s) \in Seq(S)
         /\ Len(s) \in Nat /\ Len(s) > 0 /\ Len(Tail(s)) = Len(s) - 1
         /\ \A i \in 1 .. Len(s) - 1 : Tail(s)[i] = s[i + 1]
         /\ Head(s) = s[1]
<1>1. PICK S : s \in Seq(S)
  OBVIOUS
<1>2. Tail(s) \in Seq(S) /\ Len(s) \in Nat /\ Len(s) > 0
  BY <1>1
<1> QED BY <1>1, <1>2

(* The counts are natural numbers.                                         *)
LEMMA Counts ==
  ASSUME Prefix
  PROVE  /\ Len(events) \in Nat /\ Len(record) \in Nat /\ Len(file.tokens) \in Nat
         /\ Stored \in Nat /\ Stored = 8 * Len(events) + Len(record) /\ FieldCount = 8
<1>1. Len(events) \in Nat /\ Len(record) \in Nat /\ Len(file.tokens) \in Nat
  BY FileTokens DEF Prefix
<1> QED BY <1>1 DEF Stored, FieldCount

(* Nothing is read yet.                                                    *)
LEMMA InitLoad == Init => LoadInv
<1> SUFFICES ASSUME Init PROVE LoadInv
  OBVIOUS
<1>1. /\ \E S : file.tokens \in Seq(S)
      /\ Len(file.tokens) \in Nat
  BY FileTokens DEF Init
<1>2. events \in Seq({}) /\ record \in Seq({}) /\ Len(events) = 0 /\ Len(record) = 0
  BY DEF Init
<1>3. Stored = 0
  BY <1>2 DEF Stored, FieldCount
<1> QED BY <1>1, <1>2, <1>3 DEF Init, LoadInv, Prefix, Rest, Failure, Outcomes, FieldCount

(* A token that fits is the next field.                                    *)
LEMMA ReadFieldLoad ==
  ASSUME LoadInv, ReadField
  PROVE  LoadInv'
<1>1. /\ outcome = "reading" /\ outcome' = outcome /\ ~fail /\ fail' = fail
      /\ file' = file /\ events' = events
      /\ Len(record) < FieldCount /\ input # << >> /\ Fits(Head(input), Len(record) + 1)
      /\ record' = Append(record, Head(input)) /\ input' = Tail(input)
      /\ eof' = AtEnd(input)
  BY DEF ReadField, Extracting
<1>2. /\ \E S : input' \in Seq(S)
      /\ Len(input) \in Nat /\ Len(input) > 0 /\ Len(input') = Len(input) - 1
      /\ \A i \in 1 .. Len(input) - 1 : input'[i] = input[i + 1]
      /\ Head(input) = input[1]
  BY <1>1, TailOf DEF LoadInv, Rest
<1>3. /\ \E S : record' \in Seq(S)
      /\ Len(record) \in Nat /\ Len(record') = Len(record) + 1
      /\ \A j \in 1 .. Len(record) : record'[j] = record[j]
      /\ record'[Len(record) + 1] = Head(input)
  <2> DEFINE token == Head(input)
  <2>1. (\E S : record \in Seq(S)) /\ record' = Append(record, token)
    BY <1>1 DEF LoadInv, Prefix
  <2> HIDE DEF token
  <2>2. /\ \E S : record' \in Seq(S)
        /\ Len(record) \in Nat /\ Len(record') = Len(record) + 1
        /\ \A j \in 1 .. Len(record) : record'[j] = record[j]
        /\ record'[Len(record) + 1] = token
    BY <2>1, AppendTo, ZenonT(40)
  <2> QED BY <2>2 DEF token
<1>4. /\ Len(events) \in Nat /\ Len(file.tokens) \in Nat /\ Stored \in Nat
      /\ Stored = 8 * Len(events) + Len(record) /\ FieldCount = 8
  BY Counts DEF LoadInv
<1>5. Stored' = Stored + 1
  BY <1>1, <1>3, <1>4 DEF Stored
<1>6. Head(input) = file.tokens[Stored + 1]
  BY <1>1, <1>2 DEF LoadInv, Rest
<1>7. Prefix'
  <2>1. Stored' <= Len(file'.tokens) /\ Len(record') <= FieldCount
    BY <1>1, <1>2, <1>3, <1>4, <1>5 DEF LoadInv, Rest
  <2>2. \A j \in 1 .. Len(record') :
          Fits(record'[j], j) /\ record'[j] = file.tokens[FieldCount * Len(events) + j]
    <3> SUFFICES ASSUME NEW j \in 1 .. Len(record')
                 PROVE  Fits(record'[j], j)
                        /\ record'[j] = file.tokens[FieldCount * Len(events) + j]
      OBVIOUS
    <3>1. CASE j = Len(record) + 1
      BY <1>1, <1>3, <1>4, <1>6, <3>1
    <3>2. CASE j \in 1 .. Len(record)
      BY <1>3, <3>2 DEF LoadInv, Prefix
    <3> QED BY <1>3, <3>1, <3>2
  <2>3. \A i \in 1 .. Len(events') :
          IsRecord(RecordAt(i))' /\ events'[i] = BackTestEvent(RecordAt(i))'
    BY <1>1 DEF LoadInv, Prefix, IsRecord, RecordAt, BackTestEvent
  <2> QED BY <1>1, <1>3, <2>1, <2>2, <2>3 DEF LoadInv, Prefix
<1>8. Rest'
  <2>1. Len(file'.tokens) = Stored' + Len(input')
    BY <1>1, <1>2, <1>4, <1>5, SMTT(30) DEF LoadInv, Rest
  <2>2. \A i \in 1 .. Len(input') : input'[i] = file'.tokens[Stored' + i]
    BY <1>1, <1>2, <1>4, <1>5, SMTT(30) DEF LoadInv, Rest
  <2>3. eof' => input' = << >>
    <3>1. eof' => Len(input) = 1
      BY ONLY <1>1, Zenon DEF AtEnd
    <3>2. PICK S : input' \in Seq(S)
      BY <1>2
    <3>3. Len(input) = 1 => input' = << >>
      BY <1>2, <3>2
    <3> QED BY <3>1, <3>3
  <2> QED BY <1>2, <2>1, <2>2, <2>3 DEF Rest
<1>9. Failure' /\ Outcomes'
  BY <1>1 DEF Failure, Outcomes
<1> QED BY <1>7, <1>8, <1>9 DEF LoadInv

(* The parts of the invariant that a step leaves alone which stores        *)
(* nothing.                                                                *)
LEMMA PrefixKept ==
  ASSUME Prefix, file' = file, events' = events, record' = record
  PROVE  Prefix' /\ Stored' = Stored
BY DEF Prefix, Stored, IsRecord, RecordAt, BackTestEvent

(* The end of the file, or a token that does not fit.                      *)
LEMMA FailLoad ==
  ASSUME LoadInv, ReachEnd \/ FailToRead
  PROVE  LoadInv'
<1>1. /\ outcome = "reading" /\ outcome' = outcome /\ ~fail /\ fail'
      /\ file' = file /\ events' = events /\ record' = record
      /\ Len(record) < FieldCount
  BY DEF ReachEnd, FailToRead, Extracting
<1>2. Prefix' /\ Stored' = Stored /\ Stored \in Nat /\ Len(file.tokens) \in Nat
  BY <1>1, PrefixKept, Counts DEF LoadInv
<1>3. CASE ReachEnd
  <2>1. input' = input /\ input = << >> /\ eof'
    BY <1>3 DEF ReachEnd
  <2>2. Rest' /\ Failure'
    BY <1>1, <1>2, <2>1 DEF LoadInv, Rest, Failure
  <2> QED BY <1>1, <1>2, <2>2 DEF LoadInv, Outcomes
<1>4. CASE FailToRead
  <2>1. /\ input # << >> /\ ~Fits(Head(input), Len(record) + 1)
        /\ \/ /\ Head(input).kind = "overlong"
              /\ input' = Tail(input) /\ eof' = AtEnd(input)
           \/ input' = input /\ eof' = eof
    BY <1>4 DEF FailToRead
  <2>2. /\ \E S : Tail(input) \in Seq(S)
        /\ Len(input) \in Nat /\ Len(input) > 0 /\ Head(input) = input[1]
    BY <2>1, TailOf DEF LoadInv, Rest
  <2>3. Rest'
    BY <1>1, <2>1, <2>2 DEF LoadInv, Rest
  <2>4. /\ Head(input) = file.tokens[Stored + 1]
        /\ Len(file.tokens) = Stored + Len(input) /\ ~eof
    BY <1>1, <2>1, <2>2 DEF LoadInv, Rest
  <2>5. Failure'
    <3>1. eof' => Len(input) = 1 /\ Head(input).kind = "overlong" /\ ~file.endsWithSpace
      BY ONLY <2>1, <2>4, Zenon DEF AtEnd
    <3>2. Stored < Len(file.tokens) /\ (Len(input) = 1 => Stored + 1 = Len(file.tokens))
      <4>1. /\ Stored \in Nat /\ Len(input) \in Nat /\ Len(input) > 0
            /\ Len(file.tokens) = Stored + Len(input)
        BY <1>2, <2>2, <2>4
      <4>2. \A m, n \in Nat : n > 0 => m < m + n /\ (n = 1 => m + 1 = m + n)
        OBVIOUS
      <4> QED BY ONLY <4>1, <4>2, Zenon
    <3> QED BY <1>1, <1>2, <2>1, <2>4, <3>1, <3>2 DEF Failure
  <2> QED BY <1>1, <1>2, <2>3, <2>5 DEF LoadInv, Outcomes
<1> QED BY <1>3, <1>4

(* Eight fields are record Len(events) + 1 of the file.                    *)
LEMMA FullRecord ==
  ASSUME Prefix, Len(record) = FieldCount
  PROVE  \A j \in 1 .. FieldCount : RecordAt(Len(events) + 1)[j] = record[j]
<1>1. /\ Len(events) \in Nat /\ Len(file.tokens) \in Nat /\ FieldCount = 8
      /\ Stored = 8 * Len(events) + 8 /\ Stored <= Len(file.tokens)
  BY Counts DEF Prefix
<1> SUFFICES ASSUME NEW j \in 1 .. FieldCount
             PROVE  RecordAt(Len(events) + 1)[j] = record[j]
  OBVIOUS
<1>2. Len(events) + 1 \in Nat \ {0} /\ FieldCount * (Len(events) + 1) <= Len(file.tokens)
  BY <1>1
<1>3. RecordAt(Len(events) + 1)[j] = file.tokens[FieldCount * (Len(events) + 1 - 1) + j]
  BY <1>2, RecordTokens DEF Prefix
<1>4. Len(events) + 1 - 1 = Len(events)
  BY <1>1
<1> QED BY <1>3, <1>4 DEF Prefix

(* The loop's body stores the record, or throws.                           *)
LEMMA PushBackLoad ==
  ASSUME LoadInv, PushBack
  PROVE  LoadInv'
<1>1. /\ outcome = "reading" /\ file' = file /\ input' = input /\ eof' = eof /\ fail' = fail
      /\ Len(record) = FieldCount
  BY DEF PushBack
<1>2. /\ Len(events) \in Nat /\ Len(file.tokens) \in Nat /\ Stored \in Nat
      /\ Stored = 8 * Len(events) + Len(record) /\ FieldCount = 8
  BY Counts DEF LoadInv
<1>3. ~fail
  BY <1>1, <1>2 DEF LoadInv, Failure
<1>4. CASE /\ Parses(record) /\ outcome' = outcome /\ record' = << >>
           /\ events' = Append(events, BackTestEvent(record))
  <2>1. /\ \E S : events' \in Seq(S)
        /\ Len(events') = Len(events) + 1
        /\ \A i \in 1 .. Len(events) : events'[i] = events[i]
        /\ events'[Len(events) + 1] = BackTestEvent(record)
    <3> DEFINE e == BackTestEvent(record)
    <3>1. (\E S : events \in Seq(S)) /\ events' = Append(events, e)
      BY <1>4 DEF LoadInv, Prefix
    <3> HIDE DEF e
    <3>2. /\ \E S : events' \in Seq(S)
          /\ Len(events') = Len(events) + 1
          /\ \A i \in 1 .. Len(events) : events'[i] = events[i]
          /\ events'[Len(events) + 1] = e
      BY <3>1, AppendTo
    <3> QED BY <3>2 DEF e
  <2>2. record' \in Seq({}) /\ Len(record') = 0
    BY <1>4
  <2>3. Stored' = Stored
    BY <1>1, <1>2, <2>1, <2>2 DEF Stored
  <2>4. \A j \in 1 .. FieldCount : RecordAt(Len(events) + 1)[j] = record[j] /\ Fits(record[j], j)
    BY <1>1, FullRecord DEF LoadInv, Prefix
  <2>5. /\ IsRecord(RecordAt(Len(events) + 1))
        /\ BackTestEvent(RecordAt(Len(events) + 1)) = BackTestEvent(record)
    BY <1>2, <1>4, <2>4 DEF IsRecord, Parses, BackTestEvent
  <2>6. \A i \in 1 .. Len(events') :
          IsRecord(RecordAt(i)) /\ events'[i] = BackTestEvent(RecordAt(i))
    BY <1>2, <2>1, <2>5, SMTT(30) DEF LoadInv, Prefix
  <2>7. \A i \in 1 .. Len(events') :
          IsRecord(RecordAt(i))' /\ events'[i] = BackTestEvent(RecordAt(i))'
    BY <1>1, <2>6 DEF IsRecord, RecordAt, BackTestEvent
  <2>8. Prefix'
    BY <1>1, <1>2, <2>1, <2>2, <2>3, <2>7 DEF LoadInv, Prefix
  <2>9. Rest'
    BY <1>1, <2>3 DEF LoadInv, Rest
  <2> QED BY <1>1, <1>3, <1>4, <2>8, <2>9 DEF LoadInv, Failure, Outcomes
<1>5. CASE ~Parses(record) /\ outcome' = "unknown" /\ events' = events /\ record' = record
  <2>1. Prefix' /\ Stored' = Stored
    BY <1>1, <1>5, PrefixKept DEF LoadInv
  <2>2. Rest'
    BY <1>1, <2>1 DEF LoadInv, Rest
  <2> QED BY <1>1, <1>3, <1>5, <2>1, <2>2 DEF LoadInv, Failure, Outcomes, Parses
<1> QED BY <1>4, <1>5 DEF PushBack

(* Opening the file and leaving the loop.                                  *)
LEMMA OutcomeLoad ==
  ASSUME LoadInv, Open \/ Finish
  PROVE  LoadInv'
<1>1. /\ file' = file /\ input' = input /\ eof' = eof /\ fail' = fail
      /\ record' = record /\ events' = events
  BY DEF Open, Finish
<1>2. Prefix' /\ Stored' = Stored
  BY <1>1, PrefixKept DEF LoadInv
<1>3. Rest' /\ Failure'
  BY <1>1, <1>2 DEF LoadInv, Rest, Failure
<1>4. CASE Open
  <2>1. outcome' \in {"reading", "unopened"} /\ (outcome' = "unopened" => ~file.exists)
    BY <1>4 DEF Open
  <2> QED BY <1>1, <1>2, <1>3, <2>1 DEF LoadInv, Outcomes
<1>5. CASE Finish
  <2>1. fail /\ outcome' = IF eof THEN "loaded" ELSE "malformed"
    BY <1>5 DEF Finish, Result
  <2> QED BY <1>1, <1>2, <1>3, <2>1 DEF LoadInv, Outcomes
<1> QED BY <1>4, <1>5

(* Every step keeps the invariant.                                         *)
LEMMA NextLoad == LoadInv /\ [Next]_vars => LoadInv'
<1> SUFFICES ASSUME LoadInv, [Next]_vars PROVE LoadInv'
  OBVIOUS
<1>1. CASE Next
  BY <1>1, ReadFieldLoad, FailLoad, PushBackLoad, OutcomeLoad DEF Next
<1>2. CASE UNCHANGED vars
  <2>1. Prefix' /\ Stored' = Stored
    BY <1>2, PrefixKept DEF vars, LoadInv
  <2> QED BY <1>2, <2>1 DEF vars, LoadInv, Rest, Failure, Outcomes, Parses
<1> QED BY <1>1, <1>2

-----------------------------------------------------------------------------
(* What has been read of an events file, at every point.                   *)
THEOREM LoadInvariant == Spec => []LoadInv
BY InitLoad, NextLoad, PTL DEF Spec

(* Record i is event i, and what a loaded file leaves unread is no whole   *)
(* record, for files of any length (io.cpp:70-81).                         *)
THEOREM EventsAreTheFile == Spec => []LoadedAsWritten
<1>1. LoadInv => LoadedAsWritten
  <2> SUFFICES ASSUME LoadInv PROVE LoadedAsWritten
    OBVIOUS
  <2>1. /\ Len(events) \in Nat /\ Len(record) \in Nat /\ Len(file.tokens) \in Nat
        /\ Stored \in Nat /\ Stored = 8 * Len(events) + Len(record) /\ FieldCount = 8
    BY Counts DEF LoadInv
  <2>2. \A i \in DOMAIN events : IsRecord(RecordAt(i)) /\ events[i] = BackTestEvent(RecordAt(i))
    BY DEF LoadInv, Prefix
  <2>3. ASSUME outcome = "loaded"
        PROVE  LET unread == Len(file.tokens) - FieldCount * Len(events) IN
               \/ unread < FieldCount
               \/ /\ unread = FieldCount
                  /\ Last(file.tokens).kind = "overlong" /\ ~file.endsWithSpace
    <3> DEFINE unread == Len(file.tokens) - FieldCount * Len(events)
    <3>1. unread = Len(file.tokens) - Stored + Len(record) /\ Len(record) < 8
      BY <2>1, <2>3 DEF LoadInv, Outcomes, Failure
    <3>2. \/ Stored = Len(file.tokens)
          \/ /\ Stored + 1 = Len(file.tokens)
             /\ file.tokens[Stored + 1].kind = "overlong" /\ ~file.endsWithSpace
      BY <2>3 DEF LoadInv, Outcomes, Failure
    <3>3. CASE Stored = Len(file.tokens)
      <4> HIDE DEF unread
      <4>1. unread = Len(record)
        BY <2>1, <3>1, <3>3
      <4>2. unread < FieldCount
        BY <2>1, <3>1, <4>1
      <4> QED BY <4>2 DEF unread
    <3>4. CASE /\ Stored + 1 = Len(file.tokens)
               /\ file.tokens[Stored + 1].kind = "overlong" /\ ~file.endsWithSpace
      <4>1. unread = Len(record) + 1
        BY <2>1, <3>1, <3>4
      <4>2. Last(file.tokens).kind = "overlong"
        BY <3>4 DEF Last
      <4> HIDE DEF unread
      <4>3. unread < FieldCount \/ unread = FieldCount
        <5>1. Len(record) \in Nat /\ Len(record) < 8 /\ FieldCount = 8
          BY <2>1, <3>1
        <5> QED BY ONLY <4>1, <5>1
      <4> QED BY <3>4, <4>2, <4>3 DEF unread
    <3> QED BY <3>2, <3>3, <3>4
  <2> QED BY <2>2, <2>3 DEF LoadedAsWritten
<1> QED BY <1>1, LoadInvariant, PTL

(* A file of whole records, however many, is loaded entirely, whether or   *)
(* not a newline ends it.                                                  *)
THEOREM WholeFilesAreLoaded == Spec => []WholeFilesLoad
<1>1. LoadInv => WholeFilesLoad
  <2> SUFFICES ASSUME LoadInv, IsWhole
               PROVE  /\ outcome \notin {"unopened", "malformed", "unknown"}
                      /\ outcome = "loaded" => FieldCount * Len(events) = Len(file.tokens)
    BY DEF WholeFilesLoad
  <2> DEFINE m == Len(file.tokens) \div FieldCount
             k == Len(events)
  <2>1. /\ k \in Nat /\ Len(record) \in Nat /\ Len(file.tokens) \in Nat
        /\ Stored \in Nat /\ Stored = 8 * k + Len(record) /\ FieldCount = 8
        /\ Stored <= Len(file.tokens)
    BY Counts DEF LoadInv, Prefix
  <2>2. m \in Nat /\ Len(file.tokens) = 8 * m
    <3>1. Len(file.tokens) % 8 = 0
      BY <2>1 DEF IsWhole
    <3>2. m = Len(file.tokens) \div 8
      BY <2>1
    <3>3. \A n \in Nat : n % 8 = 0 => n = 8 * (n \div 8) /\ n \div 8 \in Nat
      BY SMT
    <3> HIDE DEF m
    <3>4. Len(file.tokens) \in Nat
      BY <2>1
    <3> QED BY ONLY <3>1, <3>2, <3>3, <3>4
  <2>3. \A i \in 1 .. m : IsRecord(RecordAt(i))
    BY DEF IsWhole
  <2> HIDE DEF m
  <2>5. ASSUME Len(record) < 8, Stored < Len(file.tokens)
        PROVE  Fits(file.tokens[Stored + 1], Len(record) + 1)
    <3>1. k + 1 \in 1 .. m /\ Len(record) + 1 \in 1 .. 8
      BY <2>1, <2>2, <2>5
    <3>2. RecordAt(k + 1)[Len(record) + 1] = file.tokens[Stored + 1]
      <4>1. /\ file \in Files /\ k + 1 \in Nat \ {0}
            /\ FieldCount * (k + 1) <= Len(file.tokens)
            /\ Len(record) + 1 \in 1 .. FieldCount
        BY <2>1, <2>2, <3>1 DEF LoadInv, Prefix
      <4>2. RecordAt(k + 1)[Len(record) + 1]
              = file.tokens[FieldCount * (k + 1 - 1) + (Len(record) + 1)]
        BY <4>1, RecordTokens
      <4>3. FieldCount * (k + 1 - 1) + (Len(record) + 1) = Stored + 1
        BY <2>1
      <4> QED BY <4>2, <4>3
    <3> QED BY <2>1, <2>3, <3>1, <3>2 DEF IsRecord
  <2>6. fail => Stored = Len(file.tokens) /\ Len(record) < 8 /\ eof
    BY <2>1, <2>5 DEF LoadInv, Failure
  <2>7. ASSUME Len(record) = 8
        PROVE  Parses(record)
    <3>1. k + 1 \in 1 .. m
      BY <2>1, <2>2, <2>7
    <3>2. \A j \in 1 .. 8 : RecordAt(k + 1)[j] = record[j]
      BY <2>1, <2>7, FullRecord DEF LoadInv
    <3>3. Parses(RecordAt(k + 1))
      BY <2>3, <3>1 DEF IsRecord
    <3> QED BY <3>2, <3>3 DEF Parses
  <2>8. outcome \notin {"unopened", "malformed", "unknown"}
    BY <2>1, <2>6, <2>7 DEF LoadInv, Outcomes, IsWhole
  <2>9. outcome = "loaded" => FieldCount * Len(events) = Len(file.tokens)
    BY <2>1, <2>2, <2>6 DEF LoadInv, Outcomes
  <2> QED BY <2>8, <2>9
<1> QED BY <1>1, LoadInvariant, PTL
=============================================================================
