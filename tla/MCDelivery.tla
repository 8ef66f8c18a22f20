----------------------------- MODULE MCDelivery -----------------------------
EXTENDS ObservationDelivery
=============================================================================
