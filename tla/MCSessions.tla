------------------------------ MODULE MCSessions ------------------------------
(* Instances of Sessions: a client alone and a subscriber alone, which comes *)
(* twice, with two servers, and the two together with one server.            *)
EXTENDS Sessions

Run(servers, clients, subs) ==
  [servers |-> servers, runs |-> [p \in {"client", "subscriber"} |->
                                    IF p = "client" THEN clients ELSE subs]]

Small == {Run({"s1", "s2"}, 1, 0), Run({"s1", "s2"}, 0, 2), Run({"s1"}, 1, 1)}

=============================================================================
