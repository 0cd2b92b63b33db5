------------------------ MODULE MCPlainTablesLiveness -------------------------
EXTENDS MCPlainTables, PlainTablesLiveness
===============================================================================
