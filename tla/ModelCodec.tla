----------------------------- MODULE ModelCodec -----------------------------
(***************************************************************************)
(* The dict/JSON codec of plugin/models/base_model.py (Model.to_dict,     *)
(* to_json, from_dict) and server.py's _JSONProvider, over a schema of     *)
(* generated model classes: for each class, its openapi_types (the         *)
(* declared type of each attribute) and attribute_map (its JSON key).      *)
(*                                                                         *)
(* A Python value is a record tagged by kind: "none", "scalar", "list"     *)
(* (elems, a sequence), "dict" (items, a function), "model" (cls, attrs);  *)
(* a JSON object built by to_dict is kind "object" with its fields.        *)
(* hasattr(x, "to_dict") holds exactly of kind "model".  from_dict calls   *)
(* util.deserialize_model, which is not in this tree: it is modelled from  *)
(* the generator's contract (each key of attribute_map read back with its  *)
(* declared type; a missing key leaves the attribute None).                *)
(***************************************************************************)
EXTENDS Naturals, Sequences

CONSTANTS
    Classes,        \* generated model classes
    Schema          \* [c \in Classes |-> [attr |-> [key |-> json key, type |-> t]]]
                    \* t is [kind |-> "scalar"] or [kind |-> "model"|"list"|"dict", cls |-> c]

ASSUME SchemaAssumption ==
    /\ DOMAIN Schema = Classes
    /\ \A c \in Classes : \A a \in DOMAIN Schema[c] :
          Schema[c][a].type.kind \in {"scalar", "model", "list", "dict"}

VARIABLES
    sent,       \* the model the plugin serializes
    wire,       \* the JSON object it produced, or NoWire
    received    \* the model the peer's from_dict rebuilt, or NoWire

vars == <<sent, wire, received>>

NoneV == [kind |-> "none"]
NoWire == [kind |-> "nothing"]
ModelV(c, f) == [kind |-> "model", cls |-> c, attrs |-> f]
ListV(s) == [kind |-> "list", elems |-> s]
DictV(f) == [kind |-> "dict", items |-> f]
ObjectV(f) == [kind |-> "object", fields |-> f]

\* Mutant of JsonKey: the attribute's Python name used as its JSON key.
JsonKeyAttrName(c, a) == a

\* to_dict: insert_attr = self.attribute_map[attr]
JsonKey(c, a) == Schema[c][a].key

RECURSIVE ToDict(_, _), AttrValue(_), ToDictElem(_)

\* The lambdas of to_dict: x.to_dict() if hasattr(x, "to_dict") else x.
ToDictElem(x) == IF x.kind = "model" THEN ToDict(x, TRUE) ELSE x

\* to_dict: the value stored for one attribute, by the branch it takes.
AttrValue(v) ==
    CASE v.kind = "list"  -> ListV([j \in DOMAIN v.elems |-> ToDictElem(v.elems[j])])
      [] v.kind = "model" -> ToDict(v, TRUE)
      [] v.kind = "dict"  -> DictV([k \in DOMAIN v.items |-> ToDictElem(v.items[k])])
      [] OTHER            -> v

\* Model.to_dict(include_none): every attribute of openapi_types under its
\* JSON key, deleted again when include_none is False and it is None.
ToDict(m, includeNone) ==
    LET kept == {a \in DOMAIN m.attrs : includeNone \/ AttrValue(m.attrs[a]) # NoneV}
        keys == {JsonKey(m.cls, a) : a \in kept}
    IN  ObjectV([k \in keys |->
                   AttrValue(m.attrs[CHOOSE a \in kept : JsonKey(m.cls, a) = k])])

\* Model.to_json: to_dict(include_none=False).
ToJson(m) == ToDict(m, FALSE)

\* _JSONProvider.default: a Model is encoded by its to_json.
Default(o) == IF o.kind = "model" THEN ToJson(o) ELSE o

RECURSIVE Deserialize(_, _), FromDict(_, _)

\* util._deserialize: a JSON value read back as declared type t.
Deserialize(j, t) ==
    IF j = NoneV THEN NoneV
    ELSE CASE t.kind = "model" -> FromDict(t.cls, j)
           [] t.kind = "list"  -> ListV([i \in DOMAIN j.elems |->
                                      Deserialize(j.elems[i], [kind |-> "model", cls |-> t.cls])])
           [] t.kind = "dict"  -> DictV([k \in DOMAIN j.items |->
                                      Deserialize(j.items[k], [kind |-> "model", cls |-> t.cls])])
           [] OTHER            -> j

\* Model.from_dict -> util.deserialize_model: every attribute whose
\* attribute_map key is present is read back, the others stay None.
FromDict(c, j) ==
    ModelV(c, [a \in DOMAIN Schema[c] |->
                 IF Schema[c][a].key \in DOMAIN j.fields
                   THEN Deserialize(j.fields[Schema[c][a].key], Schema[c][a].type)
                   ELSE NoneV])

-----------------------------------------------------------------------------
\* Values of declared type t, nesting models at most d deep, lists of at
\* most one element and dicts of at most the one key "k".
RECURSIVE ValuesOf(_, _), ModelsOf(_, _)
ValuesOf(t, d) ==
    {NoneV} \cup
    CASE t.kind = "scalar" -> {[kind |-> "scalar"]}
      [] d = 0             -> {}
      [] t.kind = "model"  -> ModelsOf(t.cls, d - 1)
      [] t.kind = "list"   -> {ListV(<<>>)} \cup {ListV(<<m>>) : m \in ModelsOf(t.cls, d - 1)}
      [] t.kind = "dict"   -> {DictV([k \in {} |-> NoneV])} \cup
                              {DictV([k \in {"k"} |-> m]) : m \in ModelsOf(t.cls, d - 1)}
ModelsOf(c, d) ==
    LET vals == [a \in DOMAIN Schema[c] |-> ValuesOf(Schema[c][a].type, d)]
        attrs == {f \in [DOMAIN Schema[c] -> UNION {vals[a] : a \in DOMAIN Schema[c]}] :
                    \A a \in DOMAIN Schema[c] : f[a] \in vals[a]}
    IN  {ModelV(c, f) : f \in attrs}

Init ==
    /\ sent \in UNION {ModelsOf(c, 1) : c \in Classes}
    /\ wire = NoWire
    /\ received = NoWire

\* jsonify / export_result: the model is encoded through _JSONProvider.
Encode ==
    /\ wire = NoWire
    /\ wire' = Default(sent)
    /\ UNCHANGED <<sent, received>>

\* The peer rebuilds the model with from_dict of the sent model's class.
Decode ==
    /\ wire # NoWire
    /\ received = NoWire
    /\ received' = FromDict(sent.cls, wire)
    /\ UNCHANGED <<sent, wire>>

Next == Encode \/ Decode

Spec == Init /\ [][Next]_vars

-----------------------------------------------------------------------------
\* from_dict of to_json gives the model back: to_json drops only None
\* attributes, which from_dict restores as None, and every nested model,
\* list element and dict value comes back under its attribute_map key.
RoundTrip == received # NoWire => received = sent

RECURSIVE HasNull(_)
HasNull(j) ==
    CASE j.kind = "none"   -> TRUE
      [] j.kind = "object" -> \E k \in DOMAIN j.fields : HasNull(j.fields[k])
      [] j.kind = "list"   -> \E i \in DOMAIN j.elems : HasNull(j.elems[i])
      [] j.kind = "dict"   -> \E k \in DOMAIN j.items : HasNull(j.items[k])
      [] OTHER             -> FALSE

\* base_model.py to_json: "Does not include None attrs to the dict": the
\* JSON the plugin sends holds no null.
JsonHasNoNull == wire # NoWire => ~HasNull(wire)
=============================================================================
