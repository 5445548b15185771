---------------------------- MODULE MCLifecycle -----------------------------
(* A firmware in two blocks, whole or with a bad record; two crystals.     *)
EXTENDS Lifecycle

Rec(type, block) == [type |-> type, block |-> block]
MCFiles == {
  <<Rec("data", 1), Rec("extended", 1), Rec("data", 2), Rec("eof", 1)>>,
  <<Rec("data", 1), Rec("cut", 1), Rec("data", 2)>>,
  <<Rec("other", 1), Rec("data", 2)>>,
  <<Rec("beyond", 2)>>, <<Rec("data", 2)>>}
=============================================================================
