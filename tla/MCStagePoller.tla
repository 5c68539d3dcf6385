--------------------------- MODULE MCStagePoller ---------------------------
(***************************************************************************)
(* StagePoller with expected-products maps of the code's shape, cut to    *)
(* two products: the managed-API map has one stage with two products; the *)
(* multitenant map has an empty "bootstrap" stage and one product.        *)
(***************************************************************************)
EXTENDS StagePoller, TLC

MCManagedApi == "installation" :> <<"rhsso", "3scale">>

MCMTManagedApi == ("bootstrap" :> <<>>) @@ ("installation" :> <<"rhsso">>)

\* the managed-API map cut to one product, for the runs under fairness
MCManagedApiOne == "installation" :> <<"rhsso">>

=============================================================================
