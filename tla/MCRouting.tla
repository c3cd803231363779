----------------------------- MODULE MCRouting -----------------------------
(* Identifiers of three bits: three nodes share the half that is far from  *)
(* the local identifier, and one of them may answer from a second address. *)
EXTENDS Routing

Node(id, address) == [id |-> id, address |-> address]
MCLocalIds == {<<0, 0, 0>>, <<1, 0, 0>>, <<1, 1, 1>>}
MCNodes == {Node(<<1, 0, 0>>, "a"), Node(<<1, 0, 1>>, "a"), Node(<<1, 0, 1>>, "b"),
            Node(<<1, 1, 0>>, "a")}
MCFading == {Node(<<1, 0, 0>>, "a"), Node(<<1, 0, 1>>, "a")}
MCStrangers == {Node(<<1, 0, 1>>, "b")}
=============================================================================
