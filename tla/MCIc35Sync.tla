---- MODULE MCIc35Sync ----
EXTENDS Ic35Sync, TLC
CONSTANTS a, b
MCSymmetry == Permutations({a, b})
MCOneFile == [id \in Ids |-> 1]
MCOneFileSlots == [s \in Slots |-> 1]
MCTwoFiles == [id \in Ids |-> IF id > 3 THEN 2 ELSE 1]
MCTwoFilesSlots == [s \in Slots |-> IF s > 4 THEN 2 ELSE 1]
====
