------------------------- MODULE ConfigLoaderProofs -------------------------
(***************************************************************************)
(* Proofs about module ConfigLoader, for files of any length: a loaded     *)
(* configuration says what the file says, and an exception names the first *)
(* line that is wrong.                                                     *)
(***************************************************************************)
EXTENDS ConfigLoader, TLAPS

(* The settings among the lines read so far, the latest one not counted if *)
(* it was refused.                                                         *)
Taken == {n \in Settings : n <= lineNumber /\ (outcome = "refused" => n < lineNumber)}

(* What is left to read is the file from line lineNumber + 1 on.           *)
Reading ==
  /\ file \in Files
  /\ \E S : input \in Seq(S)
  /\ lineNumber \in Nat
  /\ Len(input) = Len(file.lines) - lineNumber
  /\ \A i \in 1 .. Len(input) : input[i] = file.lines[lineNumber + i]

(* parsedKeys are the keys of the settings taken, each a good one, and the *)
(* configuration holds their values and the defaults of the other keys.    *)
Results ==
  /\ \A n \in Taken :
       /\ IsGood(n)
       /\ config[file.lines[n].key] = Parse(file.lines[n].key, file.lines[n].value)
  /\ outcome # "refused" => parsedKeys = {file.lines[n].key : n \in Taken}
  /\ DOMAIN config = DOMAIN Defaults
  /\ \A key \in DOMAIN Defaults :
       config[key] = Defaults[key] \/ \E n \in Taken : file.lines[n].key = key

Stops ==
  /\ outcome \in {"open", "unopened"} => lineNumber = 0
  /\ outcome = "refused" => lineNumber \in Settings /\ ~IsGood(lineNumber)
  /\ outcome = "loaded" => input = << >>

(* The inductive invariant.                                                *)
LoadInv == Reading /\ Results /\ Stops

-----------------------------------------------------------------------------
(* The lines of a file are numbered from 1.                                *)
LEMMA FileLines ==
  ASSUME NEW f \in Files
  PROVE  /\ \E S : f.lines \in Seq(S)
         /\ Len(f.lines) \in Nat /\ DOMAIN f.lines = 1 .. Len(f.lines)
<1>1. PICK S : f.lines \in Seq(S)
  <2>1. f.lines \in Seq({f.lines[n] : n \in DOMAIN f.lines})
    BY FilesAssumption
  <2> QED BY ONLY <2>1, Zenon
<1> QED BY <1>1

(* Nothing is read yet.                                                    *)
LEMMA InitLoad == Init => LoadInv
<1> SUFFICES ASSUME Init PROVE LoadInv
  OBVIOUS
<1>1. /\ \E S : file.lines \in Seq(S)
      /\ Len(file.lines) \in Nat /\ DOMAIN file.lines = 1 .. Len(file.lines)
  BY FileLines DEF Init
<1>2. Taken = {}
  BY <1>1 DEF Init, Taken, Settings
<1>3. Reading
  BY <1>1 DEF Init, Reading
<1>4. Results /\ Stops
  BY <1>2 DEF Init, Results, Stops
<1> QED BY <1>3, <1>4 DEF LoadInv

(* std::getline takes line lineNumber + 1.                                 *)
LEMMA GetLineReads ==
  ASSUME Reading, GetLine, lineNumber' = lineNumber + 1, file' = file
  PROVE  /\ Reading'
         /\ Head(input) = file.lines[lineNumber + 1]
         /\ lineNumber + 1 \in DOMAIN file.lines
<1>1. PICK S : input \in Seq(S)
  BY DEF Reading
<1>2. /\ input # << >> /\ input' = Tail(input)
  BY DEF GetLine
<1>3. /\ input' \in Seq(S) /\ Len(input) \in Nat /\ Len(input) > 0
      /\ Len(input') = Len(input) - 1
      /\ \A i \in 1 .. Len(input') : input'[i] = input[i + 1]
      /\ Head(input) = input[1]
  BY <1>1, <1>2
<1>4. Len(file.lines) \in Nat /\ DOMAIN file.lines = 1 .. Len(file.lines)
  BY FileLines DEF Reading
<1> QED BY <1>3, <1>4 DEF Reading

(* An empty line or a comment changes the count only.                      *)
LEMMA SkipLineLoad ==
  ASSUME LoadInv, SkipLine
  PROVE  LoadInv'
<1>1. /\ GetLine /\ lineNumber' = lineNumber + 1 /\ file' = file /\ outcome' = outcome
      /\ parsedKeys' = parsedKeys /\ config' = config
      /\ outcome = "reading" /\ Head(input).separators = Ignored /\ lineNumber \in Nat
  BY DEF SkipLine, GetLine, LoadInv, Reading
<1>2. Reading' /\ lineNumber + 1 \notin Settings
  BY <1>1, GetLineReads DEF LoadInv, Settings
<1>3. Taken' = Taken /\ Settings' = Settings
  <2>1. Settings' = Settings /\ \A n \in Settings : n \in Nat
    BY <1>1, FileLines DEF Settings, LoadInv, Reading
  <2> QED BY <1>1, <1>2, <2>1 DEF Taken
<1>4. Results' /\ Stops'
  BY <1>1, <1>3 DEF LoadInv, Results, Stops, IsGood
<1> QED BY <1>2, <1>4 DEF LoadInv

(* What the code tests against parsedKeys is what IsGood says of the file. *)
LEMMA AcceptableIsGood ==
  ASSUME LoadInv, outcome = "reading", lineNumber + 1 \in DOMAIN file.lines
  PROVE  Acceptable(file.lines[lineNumber + 1]) <=> IsGood(lineNumber + 1)
<1>1. /\ lineNumber \in Nat
      /\ \A n \in Settings : n \in Nat
      /\ parsedKeys = {file.lines[n].key : n \in Taken}
  BY FileLines DEF LoadInv, Reading, Results, Settings
<1>2. \A n \in Settings : n \in Taken <=> n < lineNumber + 1
  BY <1>1 DEF Taken
<1>3. \A key : key \in parsedKeys <=>
               \E n \in Settings : n < lineNumber + 1 /\ file.lines[n].key = key
  BY <1>1, <1>2 DEF Taken
<1> QED BY <1>3 DEF Acceptable, IsGood

(* A good setting is taken.                                                *)
LEMMA SetFieldLoad ==
  ASSUME LoadInv, SetField
  PROVE  LoadInv'
<1> DEFINE line == file.lines[lineNumber + 1]
<1>1. /\ GetLine /\ lineNumber' = lineNumber + 1 /\ file' = file
      /\ outcome = "reading" /\ outcome' = outcome /\ lineNumber \in Nat
  BY DEF SetField, GetLine, LoadInv, Reading
<1>2. Reading' /\ Head(input) = line /\ lineNumber + 1 \in DOMAIN file.lines
  BY <1>1, GetLineReads DEF LoadInv
<1>3. /\ line.separators # Ignored /\ Acceptable(line)
      /\ parsedKeys' = parsedKeys \cup {line.key}
      /\ config' = [config EXCEPT ![line.key] = Parse(line.key, line.value)]
  BY <1>2 DEF SetField
<1>4. IsGood(lineNumber + 1)
  BY <1>1, <1>2, <1>3, AcceptableIsGood
<1>5. /\ Settings' = Settings /\ \A n \in Settings : n \in Nat
      /\ lineNumber + 1 \in Settings /\ \A n : IsGood(n)' <=> IsGood(n)
  BY <1>1, <1>2, <1>3, FileLines DEF Settings, LoadInv, Reading, IsGood
<1>6. Taken' = Taken \cup {lineNumber + 1}
  BY <1>1, <1>5 DEF Taken
<1>7. \A n \in Taken : file.lines[n].key # line.key
  BY <1>1, <1>3, <1>5 DEF LoadInv, Results, Acceptable
<1>8. line.key \in DOMAIN Defaults /\ DOMAIN config = DOMAIN Defaults
  BY <1>3 DEF Acceptable, LoadInv, Results
<1>9. /\ DOMAIN config' = DOMAIN config
      /\ config'[line.key] = Parse(line.key, line.value)
      /\ \A key \in DOMAIN Defaults \ {line.key} : config'[key] = config[key]
  BY <1>3, <1>8
<1>10. Results'
  <2>1. \A n \in Taken' :
          /\ IsGood(n)'
          /\ config'[file.lines[n].key] = Parse(file.lines[n].key, file.lines[n].value)
    <3> SUFFICES ASSUME NEW n \in Taken'
                 PROVE  /\ IsGood(n)
                        /\ config'[file.lines[n].key]
                             = Parse(file.lines[n].key, file.lines[n].value)
      BY <1>5
    <3>1. CASE n = lineNumber + 1
      BY <1>4, <1>9, <3>1
    <3>2. CASE n \in Taken
      <4>1. IsGood(n) /\ config[file.lines[n].key]
                           = Parse(file.lines[n].key, file.lines[n].value)
        BY <3>2 DEF LoadInv, Results
      <4>2. file.lines[n].key \in DOMAIN Defaults \ {line.key}
        BY <1>7, <3>2, <4>1 DEF IsGood
      <4> QED BY <1>9, <4>1, <4>2
    <3> QED BY <1>6, <3>1, <3>2
  <2>2. parsedKeys' = {file.lines[n].key : n \in Taken'}
    BY <1>1, <1>3, <1>6 DEF LoadInv, Results
  <2>3. \A key \in DOMAIN Defaults :
          config'[key] = Defaults[key] \/ \E n \in Taken' : file.lines[n].key = key
    BY <1>6, <1>9 DEF LoadInv, Results
  <2> QED BY <1>1, <1>8, <1>9, <2>1, <2>2, <2>3 DEF Results
<1>11. Stops'
  BY <1>1 DEF Stops
<1> QED BY <1>2, <1>10, <1>11 DEF LoadInv

(* The line refused is the next one, and it is not good.                   *)
LEMMA RefuseLineLoad ==
  ASSUME LoadInv, RefuseLine
  PROVE  LoadInv'
<1>1. /\ GetLine /\ lineNumber' = lineNumber + 1 /\ file' = file /\ config' = config
      /\ outcome = "reading" /\ outcome' = "refused" /\ lineNumber \in Nat
      /\ Head(input).separators # Ignored /\ ~Acceptable(Head(input))
  BY DEF RefuseLine, GetLine, LoadInv, Reading
<1>2. /\ Reading' /\ Head(input) = file.lines[lineNumber + 1]
      /\ lineNumber + 1 \in DOMAIN file.lines
  BY <1>1, GetLineReads DEF LoadInv
<1>3. lineNumber + 1 \in Settings /\ ~IsGood(lineNumber + 1)
  BY <1>1, <1>2, AcceptableIsGood DEF Settings
<1>4. /\ Settings' = Settings /\ \A n \in Settings : n \in Nat
      /\ \A n : IsGood(n)' <=> IsGood(n)
  BY <1>1, FileLines DEF Settings, LoadInv, Reading, IsGood
<1>5. Taken' = Taken
  BY <1>1, <1>4 DEF Taken
<1>6. Results'
  BY <1>1, <1>4, <1>5 DEF LoadInv, Results
<1>7. Stops'
  BY <1>1, <1>3, <1>4 DEF Stops
<1> QED BY <1>2, <1>6, <1>7 DEF LoadInv

(* Opening and ending the file change the outcome alone.                   *)
LEMMA OutcomeLoad ==
  ASSUME LoadInv, Open \/ EndOfFile
  PROVE  LoadInv'
<1>1. /\ file' = file /\ input' = input /\ lineNumber' = lineNumber
      /\ parsedKeys' = parsedKeys /\ config' = config
      /\ outcome # "refused" /\ outcome' # "refused"
      /\ outcome' = "unopened" => lineNumber = 0
      /\ outcome' # "open"
      /\ outcome' = "loaded" => input = << >>
  BY DEF Open, EndOfFile, LoadInv, Stops
<1>2. Settings' = Settings /\ Taken' = Taken /\ \A n : IsGood(n)' <=> IsGood(n)
  BY <1>1 DEF Settings, Taken, IsGood
<1>3. Reading' /\ Results' /\ Stops'
  BY <1>1, <1>2 DEF LoadInv, Reading, Results, Stops
<1> QED BY <1>3 DEF LoadInv

(* Every step keeps the invariant.                                         *)
LEMMA NextLoad == LoadInv /\ [Next]_vars => LoadInv'
<1> SUFFICES ASSUME LoadInv, [Next]_vars PROVE LoadInv'
  OBVIOUS
<1>1. CASE Next
  BY <1>1, OutcomeLoad, SkipLineLoad, SetFieldLoad, RefuseLineLoad DEF Next
<1>2. CASE UNCHANGED vars
  BY <1>2 DEF vars, LoadInv, Reading, Results, Stops, Taken, Settings, IsGood
<1> QED BY <1>1, <1>2

-----------------------------------------------------------------------------
(* What has been read of a configuration file, at every point.             *)
THEOREM LoadInvariant == Spec => []LoadInv
BY InitLoad, NextLoad, PTL DEF Spec

(* No line of a file that is loaded is lost or overridden, for files of    *)
(* any length (config.cpp:73-127).                                         *)
THEOREM LoadedConfigIsTheFile == Spec => []ConfigAsWritten
<1>1. LoadInv => ConfigAsWritten
  <2> SUFFICES ASSUME LoadInv, outcome = "loaded" PROVE ConfigAsWritten
    BY DEF ConfigAsWritten
  <2>1. lineNumber = Len(file.lines) /\ Len(file.lines) \in Nat
    BY FileLines DEF LoadInv, Reading, Stops
  <2>2. Taken = Settings
    BY <2>1, FileLines DEF Taken, Settings, LoadInv, Reading
  <2> QED BY <2>2 DEF LoadInv, Results, ConfigAsWritten, IsGood
<1> QED BY <1>1, LoadInvariant, PTL

(* An exception names the first wrong line, and only a file with a wrong   *)
(* line is refused (config.cpp:80-121).                                    *)
THEOREM FirstBadLineNamed == Spec => []ErrorNamesFirstBadLine
<1>1. LoadInv => ErrorNamesFirstBadLine
  <2> SUFFICES ASSUME LoadInv PROVE ErrorNamesFirstBadLine
    OBVIOUS
  <2>1. /\ lineNumber \in Nat /\ Len(file.lines) \in Nat
        /\ \A n \in Settings : n \in 1 .. Len(file.lines)
    BY FileLines DEF LoadInv, Reading, Settings
  <2>2. \A n \in Settings : n < lineNumber => n \in Taken
    BY <2>1 DEF Taken
  <2>3. outcome = "loaded" => \A n \in Settings : n \in Taken
    BY <2>1 DEF Taken, LoadInv, Reading, Stops
  <2> QED BY <2>2, <2>3 DEF LoadInv, Results, Stops, ErrorNamesFirstBadLine
<1> QED BY <1>1, LoadInvariant, PTL
=============================================================================
