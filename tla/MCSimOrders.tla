---------------------------- MODULE MCSimOrders ----------------------------
EXTENDS SimOrders

=============================================================================
