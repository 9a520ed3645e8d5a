---------------------------- MODULE ConfigLoader ----------------------------
(***************************************************************************)
(* src/config.cpp: LoadBacktestConfigFromFile, one line per step.          *)
(*                                                                         *)
(* A line is what Trim and find('=') make of it: how many '=' it has (or   *)
(* Ignored, for an empty line and for one that begins with #), whether     *)
(* there is text on both sides of the first one, the key, and the value.   *)
(* The text of a value is given by what std::stoi and std::stod return for *)
(* its beginning, whether that is all of it, and whether it is finite.     *)
(***************************************************************************)
EXTENDS OrderTypes

CONSTANTS
  Files,     \* the files: lines, and whether they can be opened and read
  Ignored,   \* an empty line or a comment
  Throws     \* std::stoi, std::stod: no number there, or out of range

(* The lines of a file are a sequence. *)
ASSUME FilesAssumption ==
  \A f \in Files : f.lines \in Seq({f.lines[n] : n \in DOMAIN f.lines})

VARIABLES
  file,
  outcome,      \* open, reading, loaded, or the exception thrown
  input,        \* the lines not yet read
  lineNumber,
  parsedKeys,
  config

vars == <<file, outcome, input, lineNumber, parsedKeys, config>>

(* The fields of BacktestConfig and LatencyConfig, with their defaults. *)
Defaults ==
  [max_time |-> 0, strategy_owner_id |-> 1, fee_ticks |-> 0,
   market_communication_latency_ticks |-> 0, prediction_generation_latency_ticks |-> 0,
   prediction_transfer_latency_ticks |-> 0]

(* ParseInt and ParseDouble accept the text. *)
IsNumber(key, value) ==
  IF key = "fee_ticks"
  THEN value.stod # Throws /\ value.stodReadsAll /\ value.finite
  ELSE value.stoi # Throws /\ value.stoiReadsAll

Parse(key, value) == IF key = "fee_ticks" THEN value.stod ELSE value.stoi

Init ==
  /\ file \in Files
  /\ outcome = "open"
  /\ input = file.lines
  /\ lineNumber = 0
  /\ parsedKeys = {}
  /\ config = Defaults

Open ==
  /\ outcome = "open"
  /\ outcome' = IF file.exists THEN "reading" ELSE "unopened"
  /\ UNCHANGED <<file, input, lineNumber, parsedKeys, config>>

(* std::getline reads the next line. *)
GetLine ==
  /\ outcome = "reading" /\ input # << >>
  /\ input' = Tail(input)

(* Mutant: only the lines that say something are counted. *)
SkipLineUncounted ==
  /\ GetLine
  /\ Head(input).separators = Ignored
  /\ UNCHANGED <<file, outcome, lineNumber, parsedKeys, config>>

SkipLine ==
  /\ GetLine
  /\ Head(input).separators = Ignored
  /\ lineNumber' = lineNumber + 1
  /\ UNCHANGED <<file, outcome, parsedKeys, config>>

(* Mutant: a key may come again; the last line counts. *)
AcceptableAgain(line) ==
  /\ line.separators = 1
  /\ line.hasBoth
  /\ line.key \in DOMAIN Defaults
  /\ IsNumber(line.key, line.value)

(* None of the exceptions between config.cpp:91 and 119 is thrown. *)
Acceptable(line) ==
  /\ line.separators = 1
  /\ line.hasBoth
  /\ line.key \notin parsedKeys
  /\ line.key \in DOMAIN Defaults
  /\ IsNumber(line.key, line.value)

SetField ==
  /\ GetLine
  /\ Head(input).separators # Ignored /\ Acceptable(Head(input))
  /\ lineNumber' = lineNumber + 1
  /\ parsedKeys' = parsedKeys \cup {Head(input).key}
  /\ config' = [config EXCEPT ![Head(input).key] = Parse(Head(input).key, Head(input).value)]
  /\ UNCHANGED <<file, outcome>>

(* The exception names lineNumber.  The key is noted before it is judged. *)
RefuseLine ==
  /\ GetLine
  /\ Head(input).separators # Ignored /\ ~Acceptable(Head(input))
  /\ lineNumber' = lineNumber + 1
  /\ parsedKeys' = IF Head(input).separators = 1 /\ Head(input).hasBoth
                    THEN parsedKeys \cup {Head(input).key} ELSE parsedKeys
  /\ outcome' = "refused"
  /\ UNCHANGED <<file, config>>

(* std::getline fails: at the end of the file, or because of a read error. *)
EndOfFile ==
  /\ outcome = "reading" /\ input = << >>
  /\ outcome' = IF file.readable THEN "loaded" ELSE "unreadable"
  /\ UNCHANGED <<file, input, lineNumber, parsedKeys, config>>

Next == Open \/ SkipLine \/ SetField \/ RefuseLine \/ EndOfFile

Spec == Init /\ [][Next]_vars

-----------------------------------------------------------------------------
(***************************************************************************)
(* Properties, over the file as a whole.                                   *)
(***************************************************************************)
Settings == {n \in DOMAIN file.lines : file.lines[n].separators # Ignored}

(* Line n is a setting of a known key, to a number, for the first time. *)
IsGood(n) ==
  LET line == file.lines[n] IN
  /\ line.separators = 1 /\ line.hasBoth
  /\ line.key \in DOMAIN Defaults /\ IsNumber(line.key, line.value)
  /\ \A m \in Settings : m < n => file.lines[m].key # line.key

(* A configuration that is returned says what every line of the file says, *)
(* and the default for the keys without a line (config.cpp:73-121): no     *)
(* line is lost, and none overrides another.                               *)
ConfigAsWritten ==
  outcome = "loaded" =>
    /\ \A n \in Settings :
         LET line == file.lines[n] IN
         line.key \in DOMAIN config /\ config[line.key] = Parse(line.key, line.value)
    /\ \A key \in DOMAIN Defaults :
         config[key] = Defaults[key] \/ \E n \in Settings : file.lines[n].key = key

(* The line an exception names (config.cpp:80, 89) is the first one that   *)
(* is wrong, blank lines and comments counted, and a file with none is not *)
(* refused.                                                                *)
ErrorNamesFirstBadLine ==
  /\ outcome = "refused" =>
       /\ lineNumber \in Settings /\ ~IsGood(lineNumber)
       /\ \A n \in Settings : n < lineNumber => IsGood(n)
  /\ outcome = "loaded" => \A n \in Settings : IsGood(n)
=============================================================================
