-------------------------------- MODULE FxRates --------------------------------
(***************************************************************************)
(* Exchange rates (accounting/models.py FxRate): a table of fixings shared *)
(* by all tenants, written in the admin, and get_rate(), which takes the   *)
(* latest fixing on or before a date.                                      *)
(***************************************************************************)
EXTENDS Integers, FiniteSetsExt

CONSTANTS Currencies,
          LastDate,     \* dates are 1 .. LastDate
          Rates         \* what a form may be filled in with

ASSUME FxAssumption == LastDate \in Nat /\ Rates \subseteq Int

VARIABLE fixing         \* base, quote, date -> rate, or NoRate

NoRate == 0             \* a row's rate is positive: clean()
Dates == 1 .. LastDate
Pairs == {p \in Currencies \X Currencies : p[1] # p[2]}

FxInit == fixing = [p \in Pairs |-> [d \in Dates |-> NoRate]]

(* One row for a pair and a date; clean() refuses rates that are not       *)
(* positive.                                                               *)
SaveFixing(p, d, r) == /\ r > 0
                       /\ fixing' = [fixing EXCEPT ![p][d] = r]

DeleteFixing(p, d) == fixing' = [fixing EXCEPT ![p][d] = NoRate]

FxNext == \E p \in Pairs, d \in Dates : \/ \E r \in Rates : SaveFixing(p, d, r)
                                        \/ DeleteFixing(p, d)

FxSpec == FxInit /\ [][FxNext]_fixing

FixedAnytime(f, p, on) == {d \in Dates : f[p][d] # NoRate}
Fixed(f, p, on) == {d \in 1 .. on : f[p][d] # NoRate}

GetRate(f, base, quote, on) ==
    CASE base = quote                       -> 1
      [] Fixed(f, <<base, quote>>, on) = {} -> NoRate
      [] OTHER                              -> f[<<base, quote>>][Max(Fixed(f, <<base, quote>>, on))]

(* What a rate is on a date depends on the fixings of its own pair up to   *)
(* that date alone: a later fixing, or one of another pair (the inverse    *)
(* one included), never changes an amount already converted.               *)
NoLookAhead ==
    [][\A p \in Pairs, on \in Dates :
          (\A d \in 1 .. on : fixing'[p][d] = fixing[p][d]) =>
              GetRate(fixing', p[1], p[2], on) = GetRate(fixing, p[1], p[2], on)]_fixing

=============================================================================
