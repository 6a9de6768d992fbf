------------------------------ MODULE OracleFeed ------------------------------
(***************************************************************************)
(* One bank's oracle over time: its publisher writes the account, the      *)
(* admin may change the bank's oracle setup, and the clock moves.  The     *)
(* program reads the account through the adapters of OraclePrice.          *)
(***************************************************************************)
EXTENDS OraclePrice

CONSTANTS Mantissas, Deviations, Exponents,  \* what a publisher writes
          MaxAges,                           \* values of oracle_max_age
          MaxFeedTime                        \* bound on the clock

ASSUME FeedAssumption ==
  /\ Mantissas \subseteq Nat /\ Deviations \subseteq Nat /\ Exponents \subseteq Int
  /\ MaxAges \subseteq Nat /\ MaxFeedTime \in Nat

VARIABLES oracle_setup, oracle_max_age, feed, clock

feed_vars == <<oracle_setup, oracle_max_age, feed, clock>>

\* The exponents a setup's publisher can write: a pull feed has a fixed one
\* and a SwitchboardDecimal has no negative scale.
ExponentsOf(setup) ==
  CASE setup \in PythSetups      -> Exponents
    [] setup = "SwitchboardV2"   -> {e \in Exponents : e <= 0}
    [] OTHER                     -> {-PRECISION}

Contents(setup, time) ==
  [valid: BOOLEAN, enough: BOOLEAN, publish_time: {time}, exponent: ExponentsOf(setup),
   price: Mantissas, conf: Deviations, ema_price: Mantissas, ema_conf: Deviations]

FeedInit ==
  /\ oracle_setup \in OracleSetups \ {"None"}
  /\ oracle_max_age \in MaxAges
  /\ feed \in Contents(oracle_setup, 0)
  /\ clock = 0

PublishFeed ==
  /\ feed' \in Contents(oracle_setup, clock)
  /\ UNCHANGED <<oracle_setup, oracle_max_age, clock>>

\* configure_bank with an oracle: the new account is another feed, one that
\* validate_oracle_setup accepts.  How far a push feed was verified is only
\* checked when it is used.
ConfigureOracle(setup, max_age) ==
  /\ oracle_setup' = setup
  /\ oracle_max_age' = max_age
  /\ feed' \in Contents(setup, feed.publish_time)
  /\ feed'.valid \/ setup = "PythPushOracle"
  /\ UNCHANGED clock

ClockTick ==
  /\ clock < MaxFeedTime
  /\ clock' = clock + 1
  /\ UNCHANGED <<oracle_setup, oracle_max_age, feed>>

FeedNext ==
  \/ PublishFeed
  \/ \E setup \in OracleSetups \ {"None"}, max_age \in MaxAges : ConfigureOracle(setup, max_age)
  \/ ClockTick

FeedSpec == FeedInit /\ [][FeedNext]_feed_vars

-----------------------------------------------------------------------------
Usable == Loads(oracle_setup, oracle_max_age, feed, clock) /\ HasResult(oracle_setup, feed)

\* The prices the risk engine works with bracket the reported price and stay
\* within MAX_CONF_INTERVAL of it, for both price types, whatever the
\* publisher reports as confidence: a deposit is never valued above and a debt
\* never below the reported price, and a price never becomes negative.
BandBracketsPrice ==
  Usable => \A price_type \in PriceTypes :
    LET price == GetPrice(oracle_setup, feed, price_type)
        low   == GetPriceOfType(oracle_setup, feed, price_type, "Low")
        high  == GetPriceOfType(oracle_setup, feed, price_type, "High")
    IN  /\ 0 <= low /\ low <= price /\ price <= high
        /\ high - low <= 2 * Mul(price, MAX_CONF_INTERVAL)

\* The publisher's number times 10 ^ Decimals, and the decimals that
\* fit_scale_switchboard_decimal drops.
Decimals(f) == Greatest(-f.exponent, 0)
Whole(setup, f, price_type) ==
  (IF price_type = "TimeWeighted" /\ setup \in PythSetups THEN f.ema_price ELSE f.price)
    * EXP_10[Greatest(f.exponent, 0)]
DroppedDecimals(setup, f) ==
  IF setup = "SwitchboardV2" THEN Greatest(Decimals(f) - MAX_SCALE, 0) ELSE 0

RoundedDown(setup, f, price_type) ==
  LET error == Whole(setup, f, price_type) * ONE
                 - GetPrice(setup, f, price_type) * EXP_10[Decimals(f)]
      lost  == IF DroppedDecimals(setup, f) > 0 THEN EXP_10[DroppedDecimals(setup, f)] * ONE ELSE 0
  IN  0 <= error /\ error < EXP_10[Decimals(f)] + lost

\* The conversions of the adapters are the publisher's number rounded down to
\* a unit, except that a SwitchboardDecimal first loses the decimals beyond
\* MAX_SCALE.  The comparison is exact: all numbers are in 10 ^ -Decimals of a
\* unit.
ConversionRoundsDown ==
  Usable => \A price_type \in PriceTypes : RoundedDown(oracle_setup, feed, price_type)
=============================================================================
