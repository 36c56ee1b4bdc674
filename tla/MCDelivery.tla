----------------------------- MODULE MCDelivery -----------------------------
\* One worker, two brokers and a task of two blocks, one of which names no generator.
EXTENDS Delivery

CONSTANTS w1, b1, b2, m1, m2, noBroker, noBlock
=============================================================================
