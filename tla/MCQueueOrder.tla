---------------------------- MODULE MCQueueOrder ----------------------------
(* Small instances of QueueOrder: tasks of two kinds.                      *)
EXTENDS QueueOrder, TLC

CONSTANTS a, b

MCKinds == {a, b}
MCBackoff == <<1, 1>>

AnyKind == Permutations({a, b})
=============================================================================
