---------------------------- MODULE MCModelCodec ----------------------------
(***************************************************************************)
(* A schema for TLC that reaches every branch of to_dict: Leaf has two     *)
(* scalar attributes, one renamed by attribute_map; Holder has a nested    *)
(* model, a list of models, a dict of models (all renamed) and a scalar.   *)
(***************************************************************************)
EXTENDS ModelCodec, TLC

CONSTANTS Leaf, Holder

Scalar == [kind |-> "scalar"]
Of(k, c) == [kind |-> k, cls |-> c]

MCClasses == {Leaf, Holder}

MCSchema ==
    (Leaf :> [leaf_name |-> [key |-> "leafName", type |-> Scalar],
              note      |-> [key |-> "note",     type |-> Scalar]])
    @@
    (Holder :> [item   |-> [key |-> "item",  type |-> Of("model", Leaf)],
                items  |-> [key |-> "items", type |-> Of("list", Leaf)],
                by_key |-> [key |-> "byKey", type |-> Of("dict", Leaf)],
                label  |-> [key |-> "label", type |-> Scalar]])
=============================================================================
