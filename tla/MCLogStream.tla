---------------------------- MODULE MCLogStream -----------------------------
EXTENDS LogReceipt

CONSTANT c1
MCClients == {c1}
=============================================================================
