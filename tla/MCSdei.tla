------------------------------ MODULE MCSdei ------------------------------
(***************************************************************************)
(* Sdei for TLC, with five clients: one that uses a shared event on two    *)
(* PEs, which it turns off and on; one that does so and never masks a PE   *)
(* again; one that binds and registers a private event on two PEs at once; *)
(* one that registers a critical event of the platform on two PEs; and one *)
(* that nests private, shared and explicit events of both classes on a     *)
(* single PE and changes their routing.                                    *)
(***************************************************************************)
EXTENDS Sdei

\* As on FVP and Tegra, the explicit events follow the dynamic ones.
Shared == <<"s">>
Private == <<"k", "v", "w", "x">>
KIsPlatform == [m \in {"k"} |-> "l"]

Events == {"bind", "release", "register", "unregister"}
SharedClient(calls) == [pes |-> {"p", "q"}, maps |-> {"s"}, intrs |-> {"i"}, calls |-> calls]
PrivateClient(maps, intrs) == [pes |-> {"p", "q"}, maps |-> maps, intrs |-> intrs,
                               calls |-> {"bind", "register", "unregister", "mask"}]
MCClients == {PrivateClient({"v", "w"}, {"j"}), PrivateClient({"k"}, {"l"}),
              SharedClient(Events \cup {"mask", "power"}), SharedClient(Events),
              [pes |-> {"p"}, maps |-> {"s", "k", "v", "x"}, intrs |-> {"i", "j"},
               calls |-> Events \cup {"routing", "mask"}]}
=============================================================================
