----------------------------- MODULE MCIndexer -----------------------------
EXTENDS Indexer, TLC

CONSTANTS A, B, w1, w2, op

OneContract == {A}
TwoContracts == {A, B}
OneWorker == {w1}
Handoff == {w1, w2}
OneOperator == {op}
WorkerSymmetry == Permutations(Handoff)
NoPoison == {}
PoisonFirst == {<<A, 1>>}
=============================================================================
