--------------------------- MODULE MCStorageHealth ---------------------------
EXTENDS StorageHealth

\* Two slabs of address 1 and one of address 2.
MCSlabIds == {<<1, 1>>, <<1, 2>>, <<2, 1>>}
==============================================================================
