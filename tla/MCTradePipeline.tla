--------------------------- MODULE MCTradePipeline -----------------------------
(* Values for the constants of TradePipeline.                                     *)
EXTENDS TradePipeline

\* Two parts of one order, then a sale that crosses zero when it counts twice.
CrossingDetail ==
  <<[order |-> 1, side |-> "BUY",  qty |-> 1, price |-> 10],
    [order |-> 1, side |-> "BUY",  qty |-> 2, price |-> 13],
    [order |-> 2, side |-> "SELL", qty |-> 2, price |-> 11]>>

\* The last went through the OMS.
ManySources == <<{"paper"}, {"paper"}, {"paper", "oms"}>>
================================================================================
