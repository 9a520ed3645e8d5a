------------------------------ MODULE Portfolio -----------------------------
(***************************************************************************)
(* src/portfolio.cpp: cash and positions, as a value.  Prices, quantities  *)
(* and the fee are integers here: the doubles of the code are exact on     *)
(* integers of this size.                                                  *)
(***************************************************************************)
EXTENDS OrderTypes

EmptyPortfolio == [cash |-> 0, positions |-> EmptyMap]

(* Portfolio::position. *)
Position(portfolio, symbol) ==
  IF symbol \in DOMAIN portfolio.positions THEN portfolio.positions[symbol] ELSE 0

(* Mutant: only a complete fill moves the portfolio. *)
ApplyCompleteFills(portfolio, symbol, r, feeTicks) ==
  LET signed == IF r.side = "Buy" THEN r.quantity ELSE -r.quantity IN
  IF r.type # "OrderFilled"
  THEN portfolio
  ELSE [cash |-> portfolio.cash - signed * r.price - feeTicks * r.quantity,
        positions |-> With(portfolio.positions, symbol,
                           Position(portfolio, symbol) + signed)]

(* Portfolio::apply. *)
Apply(portfolio, symbol, r, feeTicks) ==
  LET signed == IF r.side = "Buy" THEN r.quantity ELSE -r.quantity IN
  IF ~IsFill(r)
  THEN portfolio
  ELSE [cash |-> portfolio.cash - signed * r.price - feeTicks * r.quantity,
        positions |-> With(portfolio.positions, symbol,
                           Position(portfolio, symbol) + signed)]
=============================================================================
