--------------------------- MODULE MCSiblingList ---------------------------
(* Two replicas and six writes over two clock entries: chains, concurrent  *)
(* pairs, and timestamps that disagree with the causal order.              *)
EXTENDS SiblingList

MCName == {1, 2}

MCObject == {
  [vc |-> <<1, 0>>, ts |-> 3],
  [vc |-> <<0, 1>>, ts |-> 2],
  [vc |-> <<2, 0>>, ts |-> 5],
  [vc |-> <<1, 1>>, ts |-> 4],
  [vc |-> <<0, 2>>, ts |-> 1],
  [vc |-> <<0, 3>>, ts |-> 6]}

=============================================================================
