--------------------------- MODULE MCConfigLoader ---------------------------
EXTENDS ConfigLoader

CONSTANT MaxLines

(* What std::stoi and std::stod return for a text, and whether for all of it. *)
Text(stoi, stoiReadsAll, stod, stodReadsAll, finite) ==
  [stoi |-> stoi, stoiReadsAll |-> stoiReadsAll, stod |-> stod,
   stodReadsAll |-> stodReadsAll, finite |-> finite]

(* 7, 2.5, 3x, inf, 99999999999; doubles are tenths, the last one is cut.  *)
Texts ==
  {Text(7, TRUE, 70, TRUE, TRUE), Text(2, FALSE, 25, TRUE, TRUE),
   Text(3, FALSE, 30, FALSE, TRUE), Text(Throws, FALSE, 0, TRUE, FALSE),
   Text(Throws, FALSE, 99, TRUE, TRUE)}

Line(separators, hasBoth, key, value) ==
  [separators |-> separators, hasBoth |-> hasBoth, key |-> key, value |-> value]

Keys == {"max_time", "market_communication_latency_ticks", "fee_ticks", "max_tme"}

SomeText == CHOOSE text \in Texts : TRUE

MCLines ==
  {Line(1, TRUE, key, text) : key \in Keys, text \in Texts}
    \cup {Line(Ignored, FALSE, "", SomeText), Line(0, FALSE, "", SomeText),
          Line(2, TRUE, "max_time", SomeText), Line(1, FALSE, "", SomeText)}

MCFiles ==
  [lines : UNION {[1 .. n -> MCLines] : n \in 0 .. MaxLines}, exists : {TRUE}, readable : {TRUE}]
    \cup [lines : {<< >>, <<Line(Ignored, FALSE, "", SomeText)>>}, exists : {TRUE}, readable : {FALSE}]
    \cup [lines : {<< >>}, exists : {FALSE}, readable : {FALSE}]
=============================================================================
