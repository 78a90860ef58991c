------------------------------- MODULE MCDelivery -------------------------------
EXTENDS Delivery
=============================================================================
