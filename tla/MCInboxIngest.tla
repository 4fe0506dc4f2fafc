--------------------------- MODULE MCInboxIngest ---------------------------
(* A message m1 published twice under one id, m3 without an id, m4 and m5  *)
(* that cannot be recorded.                                                *)
EXTENDS InboxIngest, TLC

CONSTANTS m1, m1again, m3, m4, m5

Key(m) ==
    CASE m \in {m1, m1again} -> "id1"
      [] m = m4 -> "id4"
      [] m = m5 -> "id5"
      [] OTHER -> NoKey

WorkerSymmetry == Permutations(Workers)
=============================================================================
