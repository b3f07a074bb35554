----------------------------- MODULE PriceEngine -----------------------------
(***************************************************************************)
(* The arithmetic and the answers of price.rs, in cents.  The engine keeps *)
(* no state but the symbols that fail, which are constant while a process  *)
(* lives: OrderSaga has them change with a restart and takes its quotes    *)
(* from a set of prices; here is what that set is.                         *)
(***************************************************************************)
EXTENDS Integers, TLAPS

\* default_catalog.
Catalog == [BTC |-> 6000000, ETH |-> 300000, SOL |-> 15000, ADA |-> 45, DOGE |-> 15]

\* PriceEngine.band_bps, and what gen_range may draw.
BandBps == 200
Draws == -BandBps..BandBps

\* Decimal::round_dp(2) of x ten-thousandths of a cent: to the nearest cent, and a
\* tie to the even one.
RoundDp(x) ==
  LET cents == x \div 10000
      rest == x % 10000
  IN IF rest < 5000 \/ (rest = 5000 /\ cents % 2 = 0) THEN cents ELSE cents + 1

Jitter(base, bps) == RoundDp(base * (10000 + bps))

\* PriceEngine::quote: what it may answer, a price among them being a number.
Quote(symbol, failing) ==
  IF symbol \in failing THEN {"Unavailable"}
  ELSE IF symbol \notin DOMAIN Catalog THEN {"Unknown"}
  ELSE {Jitter(Catalog[symbol], bps) : bps \in Draws}

\* get_price asks price() and, when that is None, quote() again.
GetPrice(symbol, failing) ==
  {IF q = "Unavailable" THEN "503" ELSE IF q = "Unknown" THEN "404" ELSE "200"
     : q \in Quote(symbol, failing)}

-----------------------------------------------------------------------------
\* Rounding is to one of the nearest cents.
LEMMA NearestCent ==
  ASSUME NEW x \in Nat
  PROVE  /\ RoundDp(x) \in Nat
         /\ 2 * (10000 * RoundDp(x) - x) <= 10000
         /\ 2 * (x - 10000 * RoundDp(x)) <= 10000
  <1> DEFINE cents == x \div 10000
             rest == x % 10000
  <1>1. cents \in Nat /\ rest \in 0..9999 /\ x = 10000 * cents + rest
    OBVIOUS
  <1>2. \/ RoundDp(x) = cents /\ rest <= 5000
        \/ RoundDp(x) = cents + 1 /\ rest >= 5000
    BY <1>1 DEF RoundDp
  <1> QED
    BY <1>1, <1>2

\* The jittered value lies in the band before it is rounded.
LEMMA DrawnInBand ==
  ASSUME NEW base \in Nat, NEW bps \in Draws
  PROVE  /\ base * (10000 + bps) \in Nat
         /\ 9800 * base <= base * (10000 + bps)
         /\ base * (10000 + bps) <= 10200 * base
  <1>1. bps \in Int /\ -200 <= bps /\ bps <= 200
    BY DEF Draws, BandBps
  <1>2. base * (10000 + bps) = 9800 * base + base * (200 + bps)
    BY <1>1
  <1>3. base * (10000 + bps) = 10200 * base - base * (200 - bps)
    BY <1>1
  <1>4. base * (200 + bps) \in Nat /\ base * (200 - bps) \in Nat
    BY <1>1
  <1> QED
    BY <1>1, <1>2, <1>3, <1>4

\* "Apply +-band_bps jitter, rounded to 2 dp" (PriceEngine::jitter): for every base
\* price and every draw the quote is within the band and half a cent of rounding, and
\* a listed symbol is never quoted at nothing.
THEOREM QuoteNearBand ==
  ASSUME NEW base \in Nat, NEW bps \in Draws
  PROVE  /\ 9800 * base - 5000 <= 10000 * Jitter(base, bps)
         /\ 10000 * Jitter(base, bps) <= 10200 * base + 5000
         /\ base > 0 => Jitter(base, bps) > 0
  <1> DEFINE x == base * (10000 + bps)
  <1>1. x \in Nat /\ 9800 * base <= x /\ x <= 10200 * base
    BY DrawnInBand
  <1>2. Jitter(base, bps) = RoundDp(x)
    BY DEF Jitter
  <1> HIDE DEF x
  <1>3. /\ RoundDp(x) \in Nat
        /\ 2 * (10000 * RoundDp(x) - x) <= 10000
        /\ 2 * (x - 10000 * RoundDp(x)) <= 10000
    BY <1>1, NearestCent
  <1> QED
    BY <1>1, <1>2, <1>3

\* Every quote of a base price of whole half dollars is within two per cent of it, as
\* the unit test of price.rs finds for BTC: the ends of its band are whole cents.
THEOREM QuoteInBand ==
  ASSUME NEW halves \in Nat, NEW bps \in Draws
  PROVE  LET base == 50 * halves IN
         /\ 9800 * base <= 10000 * Jitter(base, bps)
         /\ 10000 * Jitter(base, bps) <= 10200 * base
  <1> DEFINE base == 50 * halves
             x == base * (10000 + bps)
  <1>1. base \in Nat
    OBVIOUS
  <1>2. x \in Nat /\ 9800 * base <= x /\ x <= 10200 * base
    BY <1>1, DrawnInBand
  <1>3. /\ RoundDp(x) \in Nat
        /\ 2 * (10000 * RoundDp(x) - x) <= 10000
        /\ 2 * (x - 10000 * RoundDp(x)) <= 10000
    BY <1>2, NearestCent
  <1>4. 9800 * base = 10000 * (49 * halves) /\ 10200 * base = 10000 * (51 * halves)
    OBVIOUS
  <1>5. 49 * halves <= RoundDp(x) /\ RoundDp(x) <= 51 * halves
    <2> HIDE DEF x, base
    <2> QED
      BY <1>2, <1>3, <1>4
  <1>6. Jitter(base, bps) = RoundDp(x)
    BY DEF Jitter
  <1> HIDE DEF x, base
  <1>7. 9800 * base <= 10000 * Jitter(base, bps)
        /\ 10000 * Jitter(base, bps) <= 10200 * base
    BY <1>3, <1>4, <1>5, <1>6
  <1> QED
    BY <1>7 DEF base

\* The cheap symbols are outside of that theorem: ADA at 0.45 is quoted at 0.44, more
\* than two per cent below, and DOGE at 0.15 never moves, against "each quote applies
\* a small bounded-random jitter (+-band_bps basis points) so prices move on every
\* request" (price.rs).
THEOREM CheapSymbols ==
  /\ 10000 * Jitter(Catalog.ADA, -BandBps) < (10000 - BandBps) * Catalog.ADA
  /\ \A bps \in Draws : Jitter(Catalog.DOGE, bps) = Catalog.DOGE
  <1>1. Catalog.ADA = 45 /\ Catalog.DOGE = 15
    BY DEF Catalog
  <1>2. Jitter(45, -200) = 44
    BY DEF Jitter, RoundDp
  <1>3. ASSUME NEW bps \in Draws
        PROVE  Jitter(15, bps) = 15
    <2> DEFINE x == 15 * (10000 + bps)
    <2>1. x \in Nat /\ 147000 <= x /\ x <= 153000
      BY DEF Draws, BandBps
    <2>2. Jitter(15, bps) = RoundDp(x)
      BY DEF Jitter
    <2> HIDE DEF x
    <2>3. /\ RoundDp(x) \in Nat
          /\ 2 * (10000 * RoundDp(x) - x) <= 10000
          /\ 2 * (x - 10000 * RoundDp(x)) <= 10000
      BY <2>1, NearestCent
    <2>4. RoundDp(x) = 15
      BY <2>1, <2>3
    <2> QED
      BY <2>2, <2>4
  <1> QED
    BY <1>1, <1>2, <1>3 DEF BandBps
=============================================================================
