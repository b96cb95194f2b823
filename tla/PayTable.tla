------------------------------ MODULE PayTable ------------------------------
(***************************************************************************)
(* What a round pays, twice: as the server computes it (pkg/par, pkg/prng, *)
(* pkg/money) and as the pages for the players do (shared/prng-money.js).  *)
(*                                                                         *)
(* A roll is the pick in 0..TotalWeight-1 it is scaled to by both.  An     *)
(* amount is in minor units, Scale to a unit of money; an amount as a page *)
(* writes it, a number of units with decimals, is that number times Scale. *)
(*                                                                         *)
(* Amounts are exact here.  On the server those are not of which product   *)
(* and rounding leave an int64: Apply wraps for the last few products that *)
(* fit, and saturates where the prize does not fit.  On the pages they are *)
(* exact below 2^53.  Neither limit is modelled.                           *)
(***************************************************************************)
EXTENDS Integers, Sequences, FiniteSetsExt

CONSTANT Scale      \* MONEY_SCALE, 10000 in the code

ASSUME ScaleAssumption == Scale \in Nat /\ Scale % 2 = 0 /\ Scale > 1

Half == Scale \div 2

Row(tier, multiplier, weight) == [tier |-> tier, multiplier |-> multiplier, weight |-> weight]

\* Default96; the ids are the indexes less 1.
Table ==
    << Row("MISS", 0, 570000),             Row("COMMON", Half, 160000),
       Row("COMMON", Scale, 170000),       Row("COMMON", 2 * Scale, 50000),
       Row("RARE", 5 * Scale, 30000),      Row("RARE", 10 * Scale, 12000),
       Row("RARE", 20 * Scale, 5000),      Row("BOSS", 50 * Scale, 2000),
       Row("BOSS", 100 * Scale, 800),      Row("BOSS", 250 * Scale, 160),
       Row("BOSS", 500 * Scale, 40) >>

\* Its mirror, PAR_TABLE_96: a number of half units, as multiplierMinor / 5000.
Mirror ==
    LET Tier(i) == IF i = 1 THEN "MISS" ELSE IF i <= 4 THEN "COMMON"
                   ELSE IF i <= 7 THEN "RARE" ELSE "BOSS"
        halves  == <<0, 1, 2, 4, 10, 20, 40, 100, 200, 500, 1000>>
        weights == <<570000, 160000, 170000, 50000, 30000, 12000, 5000, 2000, 800, 160, 40>>
    IN  [i \in 1..11 |-> Row(Tier(i), halves[i] * Half, weights[i])]

\* The sums of the weights of the rows up to each.
Sums(table) ==
    LET sum[i \in 0..Len(table)] == IF i = 0 THEN 0 ELSE sum[i - 1] + table[i].weight
    IN  sum

\* What NewTable compiles.
Cumulative  == Sums(Table)
TotalWeight == Cumulative[Len(Table)]

\* What samplePAR adds up as it goes.
MirrorSums == Sums(Mirror)

\* Table.SamplePick: a binary search.
SamplePick(pick) ==
    LET find[window \in (DOMAIN Table) \X (DOMAIN Table)] ==
            LET low  == window[1]
                high == window[2]
                mid  == (low + high) \div 2
            IN  IF low >= high THEN low
                ELSE IF Cumulative[mid] <= pick THEN find[<<mid + 1, high>>]
                ELSE find[<<low, mid>>]
    IN  Table[find[<<1, Len(Table)>>]]

\* Mutant of SamplePAR: the last pick of a row is the next one's.
SamplePARNext(pick) ==
    Mirror[Min({i \in DOMAIN Mirror : pick + 1 < MirrorSums[i]} \cup {Len(Mirror)})]

\* samplePAR: a walk along the rows.
SamplePAR(pick) ==
    Mirror[Min({i \in DOMAIN Mirror : pick < MirrorSums[i]} \cup {Len(Mirror)})]

\* Multiplier.Apply: rounded to the nearest.
Apply(multiplier, bet) == (bet * multiplier + Half) \div Scale

\* applyMultiplier: what is below a minor unit is cut off.
ApplyMultiplier(bet, multiplier) == (bet * multiplier) \div Scale

\* outcomeFromRoll.
Outcome(pick, bet) ==
    LET hit == SamplePick(pick)
    IN  [tier |-> hit.tier, prize |-> Apply(hit.multiplier, bet)]

\* betToMinor: a whole number of units is taken for minor ones from Scale on.
BetToMinor(amount) ==
    IF amount <= 0 THEN Scale
    ELSE IF amount % Scale = 0 /\ amount >= Scale * Scale THEN amount \div Scale
    ELSE amount

\* betAmountFromReplay: minor units are taken for units of money below Scale.
BetAmountFromReplay(minor) == IF minor >= Scale THEN minor ELSE minor * Scale

\* computeOutcome.
ComputeOutcome(pick, amount) ==
    LET hit == SamplePAR(pick)
    IN  [tier |-> hit.tier, prize |-> ApplyMultiplier(BetToMinor(amount), hit.multiplier)]

=============================================================================
