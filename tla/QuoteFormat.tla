---------------------------- MODULE QuoteFormat ----------------------------
(***************************************************************************)
(* Amounts as the web front end shows and reads them (web/lib/quote-       *)
(* format.ts).  A decimal string is its digits without the point, a        *)
(* natural number, and the number of digits behind the point: "0.050" is   *)
(* [n |-> 50, d |-> 3].                                                    *)
(***************************************************************************)
EXTENDS Naturals, FiniteSets

Base == 10

Pow[k \in Nat] == IF k = 0 THEN 1 ELSE Base * Pow[k - 1]

\* null of parseQuoteAmount.
NoAmount == [ok |-> FALSE, v |-> 0]

\* parseQuoteAmount: a fraction longer than the coin's decimals is refused, a shorter one
\* padded at its end.
ParseQuoteAmount(s, decimals) ==
  IF s.d > decimals THEN NoAmount
  ELSE [ok |-> TRUE, v |-> s.n * Pow[decimals - s.d]]

\* formatPriceInQuote: whole and fraction, trailing zeros of the fraction stripped.
FormatPriceInQuote(v, decimals) ==
  LET digits == CHOOSE k \in 0 .. decimals :
                  /\ v % Pow[decimals - k] = 0
                  /\ \A e \in 0 .. k - 1 : v % Pow[decimals - e] # 0
  IN  [n |-> v \div Pow[decimals - digits], d |-> digits]

\* Two decimal strings denote the same number.
SameNumber(s, t) == s.n * Pow[t.d] = t.n * Pow[s.d]

=============================================================================
