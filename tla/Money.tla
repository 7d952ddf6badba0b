-------------------------------- MODULE Money ---------------------------------
(* Decimal.quantize with the default context: to the nearest, half to even. *)
EXTENDS Integers, Sequences

(* n/d rounded to an integer, d > 0. *)
Quantize(n, d) ==
    LET q == n \div d
        r == n % d
    IN IF 2 * r < d \/ (2 * r = d /\ q % 2 = 0) THEN q ELSE q + 1

(* sum(..., Decimal("0")) over what a list gives. *)
SumSeq(s) ==
    LET upTo[n \in 0 .. Len(s)] == IF n = 0 THEN 0 ELSE upTo[n - 1] + s[n]
    IN upTo[Len(s)]
=============================================================================
