---------------------------- MODULE MCPaperBroker ------------------------------
(* Values for the constants of PaperBroker.                                       *)
EXTENDS PaperBroker

\* A purchase, a sale that goes back to flat and beyond, and a purchase larger than
\* what is left once the first is paid.
RoundTrip ==
  <<[side |-> "BUY",  qty |-> 1, asked |-> 10, price |-> 10],
    [side |-> "SELL", qty |-> 2, asked |-> 5,  price |-> 12],
    [side |-> "BUY",  qty |-> 1, asked |-> 13, price |-> 13]>>
================================================================================
