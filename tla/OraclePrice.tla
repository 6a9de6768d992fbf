---------------------------- MODULE OraclePrice ----------------------------
(***************************************************************************)
(* The price adapters of state/price.rs.  A feed is the content of an      *)
(* oracle account as its publisher writes it: integer mantissas with a     *)
(* decimal exponent.  An adapter decides whether the feed may be used at   *)
(* all, converts it to I80F48 and widens it by a confidence interval.      *)
(***************************************************************************)
EXTENDS FixedPoint

CONSTANTS CONF_INTERVAL_MULTIPLE,  \* 2.12 in the build, in units
          STD_DEV_MULTIPLE,        \* 1.96
          MAX_CONF_INTERVAL,       \* 0.05
          MAX_PYTH_ORACLE_AGE,     \* 60 seconds
          MAX_SWB_ORACLE_AGE,      \* 180 seconds
          PRECISION,               \* 18: decimals of a Switchboard pull feed
          MAX_SCALE                \* 20: decimals kept of a SwitchboardDecimal

ASSUME OracleAssumption ==
  /\ CONF_INTERVAL_MULTIPLE \in Nat /\ STD_DEV_MULTIPLE \in Nat
  /\ MAX_CONF_INTERVAL \in Nat /\ MAX_CONF_INTERVAL <= ONE
  /\ MAX_PYTH_ORACLE_AGE \in Nat /\ MAX_SWB_ORACLE_AGE \in Nat
  /\ PRECISION \in Nat /\ MAX_SCALE \in Nat

PythSetups == {"PythLegacy", "PythPushOracle"}
OracleSetups == PythSetups \cup {"None", "SwitchboardV2", "SwitchboardPull"}
PriceTypes == {"TimeWeighted", "RealTime"}
Biases == {"Low", "High"}

\* valid: the address, owner, discriminator, feed id and verification level
\* are those the bank expects.  enough: a round-based Switchboard feed has
\* min_oracle_results answers.  A negative price or deviation trips the
\* assertions of get_confidence_interval and is not considered.
FeedRecords == [valid: BOOLEAN, enough: BOOLEAN, publish_time: Nat, exponent: Int,
                price: Nat, conf: Nat, ema_price: Nat, ema_conf: Nat]

-----------------------------------------------------------------------------
(* Liveness of a feed.                                                     *)

\* BankConfig::get_oracle_max_age: zero stands for the default of Pyth and
\* Switchboard V2 feeds, and for zero seconds with a Switchboard pull feed.
GetOracleMaxAge(setup, oracle_max_age) ==
  CASE oracle_max_age = 0 /\ setup = "SwitchboardV2" -> MAX_SWB_ORACLE_AGE
    [] oracle_max_age = 0 /\ setup \in PythSetups    -> MAX_PYTH_ORACLE_AGE
    [] OTHER                                         -> oracle_max_age

\* The age check of the oracle libraries.
NoOlderThan(publish_time, now, max_age) == now - publish_time <= max_age

\* try_from_bank_config succeeds.
Loads(setup, oracle_max_age, feed, now) ==
  /\ setup # "None" /\ feed.valid
  /\ NoOlderThan(feed.publish_time, now, GetOracleMaxAge(setup, oracle_max_age))

\* A loaded feed still fails on every price when too few oracles answered.
HasResult(setup, feed) == setup = "SwitchboardV2" => feed.enough

-----------------------------------------------------------------------------
(* Conversions to I80F48.                                                  *)

\* The tables EXP_10 and EXP_10_I80F48, without their ends.
EXP_10[n \in Nat] == IF n = 0 THEN 1 ELSE 10 * EXP_10[n - 1]

\* Mutant: the division rounds up.
PythPriceComponentsToI80F48_Up(mantissa, exponent) ==
  IF exponent < 0 THEN (mantissa * ONE + EXP_10[-exponent] - 1) \div EXP_10[-exponent]
                  ELSE mantissa * ONE * EXP_10[exponent]

PythPriceComponentsToI80F48(mantissa, exponent) ==
  IF exponent < 0 THEN (mantissa * ONE) \div EXP_10[-exponent]
                  ELSE mantissa * ONE * EXP_10[exponent]

\* fit_scale_switchboard_decimal drops the digits beyond MAX_SCALE first.
SwitchboardDecimalToI80F48(mantissa, scale) ==
  LET kept == IF scale <= MAX_SCALE THEN scale ELSE MAX_SCALE
  IN  ((mantissa \div EXP_10[scale - kept]) * ONE) \div EXP_10[kept]

-----------------------------------------------------------------------------
(* The adapters: the price a feed reports and how wide it is.              *)

PythLegacyPriceFeed(feed, price_type) ==
  LET mantissa == IF price_type = "TimeWeighted" THEN feed.ema_price ELSE feed.price
      conf     == IF price_type = "TimeWeighted" THEN feed.ema_conf ELSE feed.conf
  IN  [price |-> PythPriceComponentsToI80F48(mantissa, feed.exponent),
       width |-> Mul(PythPriceComponentsToI80F48(conf, feed.exponent), CONF_INTERVAL_MULTIPLE)]

\* The same with the price and the time weighted price of a price update.
PythPushOraclePriceFeed(feed, price_type) == PythLegacyPriceFeed(feed, price_type)

\* Switchboard feeds have one price for both types.
SwitchboardV2PriceFeed(feed) ==
  [price |-> SwitchboardDecimalToI80F48(feed.price, -feed.exponent),
   width |-> Mul(SwitchboardDecimalToI80F48(feed.conf, -feed.exponent), STD_DEV_MULTIPLE)]

\* The standard deviation is not divided by 10 ^ PRECISION.
SwitchboardPullPriceFeed(feed) ==
  [price |-> (feed.price * ONE) \div EXP_10[PRECISION],
   width |-> Mul(feed.conf * ONE, STD_DEV_MULTIPLE)]

Adapter(setup, feed, price_type) ==
  CASE setup = "PythLegacy"     -> PythLegacyPriceFeed(feed, price_type)
    [] setup = "PythPushOracle" -> PythPushOraclePriceFeed(feed, price_type)
    [] setup = "SwitchboardV2"  -> SwitchboardV2PriceFeed(feed)
    [] OTHER                    -> SwitchboardPullPriceFeed(feed)

GetPrice(setup, feed, price_type) == Adapter(setup, feed, price_type).price

\* Mutant: the interval is not capped.
GetConfidenceInterval_Uncapped(setup, feed, price_type) ==
  Adapter(setup, feed, price_type).width

GetConfidenceInterval(setup, feed, price_type) ==
  Least(Adapter(setup, feed, price_type).width,
        Mul(GetPrice(setup, feed, price_type), MAX_CONF_INTERVAL))

GetPriceOfType(setup, feed, price_type, bias) ==
  LET price == GetPrice(setup, feed, price_type)
      confidence_interval == GetConfidenceInterval(setup, feed, price_type)
  IN  IF bias = "Low" THEN price - confidence_interval ELSE price + confidence_interval
=============================================================================
