----------------------------- MODULE MCStcFlash -----------------------------
(* Blocks of two bytes, erase units of two blocks, a flash of two units.   *)
EXTENDS StcFlash

Rec(type, addr, data) == [type |-> type, addr |-> addr, data |-> data, sound |-> TRUE]
End0 == Rec("end", 0, <<>>)
MCHex == {
  <<Rec("data", 0, <<1, 2, 3>>), End0, [Rec("data", 0, <<9>>) EXCEPT !.sound = FALSE]>>,
  <<Rec("data", 0, <<1, 2>>), Rec("segment", 2, <<>>), Rec("data", 1, <<3>>),
    Rec("linear", 1, <<>>), Rec("data", 0, <<4>>), End0>>,
  <<Rec("data", 2, <<7, 8>>), Rec("data", 0, <<1, 2, 3>>), End0>>,
  <<Rec("data", 0, <<1, 2>>), [Rec("data", 2, <<3>>) EXCEPT !.sound = FALSE], End0>>}

\* A write of nothing, one across two blocks, and one of the whole flash and more.
MCStray == {[command |-> "write", offset |-> a, chunk |-> [k \in 0 .. n - 1 |-> 0]] :
              <<a, n>> \in {<<0, 0>>, <<1, 2>>, <<0, 10>>}}
=============================================================================
