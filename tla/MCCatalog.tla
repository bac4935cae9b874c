----------------------------- MODULE MCCatalog ------------------------------
(* Three names: two spellings that match each other, and a translation.     *)
EXTENDS Catalog

MCClose == {<<f, f>> : f \in Food} \cup {<<"flour", "flours">>, <<"flours", "flour">>}
MCNear == {<<"flour", "mehl">>, <<"mehl", "flour">>}
MCSeed == [f \in {"flour"} |-> {"mehl"}]
MCRenaming == {<<"flour", "mehl">>}
=============================================================================
