----------------------------- MODULE Redaction -----------------------------
(***************************************************************************)
(* gateway/redaction.py: what is left of a JSON value before it is put on  *)
(* a page.                                                                 *)
(*                                                                         *)
(* A JSON value is [kind, text, items]: a leaf with its text, or a list or *)
(* an object with its items in order, each [key, value] (a list item has   *)
(* the key NoKey).  JsonValues holds the values that occur and everything  *)
(* inside them.                                                            *)
(***************************************************************************)
EXTENDS Sequences, Naturals

CONSTANTS JsonValues,     \* JSON values, closed under taking items
          SensitiveKeys,  \* keys that contain one of SENSITIVE_KEY_FRAGMENTS
          MaxNesting      \* how deep they nest without a RecursionError

ASSUME JsonAssumption ==
    /\ MaxNesting \in Nat
    /\ \A v \in JsonValues :
          /\ v = [kind |-> v.kind, text |-> v.text, items |-> v.items]
          /\ v.items \in Seq([key : STRING, value : JsonValues])
          /\ v.kind # "object" => \A i \in DOMAIN v.items : v.items[i].key \notin SensitiveKeys
    /\ \E depth \in [JsonValues -> 0..MaxNesting] :
          \A v \in JsonValues : \A i \in DOMAIN v.items : depth[v.items[i].value] < depth[v]

REDACTED == "[redacted]"

Leaf(text) == [kind |-> "leaf", text |-> text, items |-> <<>>]

is_sensitive_key(key) == key \in SensitiveKeys

redact_json[value \in JsonValues] ==
    [value EXCEPT !.items =
        [i \in DOMAIN value.items |->
            [value.items[i] EXCEPT
                !.value = IF value.kind = "object" /\ is_sensitive_key(value.items[i].key)
                          THEN Leaf(REDACTED) ELSE redact_json[@]]]]

----------------------------------------------------------------------------
(* What a reader finds in a JSON value.                                    *)

Readable == JsonValues \cup {redact_json[v] : v \in JsonValues} \cup {Leaf(REDACTED)}

Below(item, at, leaf) == [leaf EXCEPT !.path = <<[at |-> at, key |-> item.key]>> \o @]

(* The leaves of a value, each with the path to it and its text.           *)
Leaves[v \in Readable] ==
    IF v.items = <<>> THEN {[path |-> <<>>, kind |-> v.kind, text |-> v.text]}
    ELSE UNION {{Below(v.items[i], i, leaf) : leaf \in Leaves[v.items[i].value]} :
                    i \in DOMAIN v.items}

UnderSensitiveKey(leaf) == \E i \in DOMAIN leaf.path : is_sensitive_key(leaf.path[i].key)

(* The leaves shown are those received, except that no sensitive key, at   *)
(* any depth, in lists or objects, has its value, and that something still *)
(* stands for every value taken away.                                      *)
HidesOnlySensitive(received, shown) ==
    /\ {leaf \in shown : ~UnderSensitiveKey(leaf)} = {leaf \in received : ~UnderSensitiveKey(leaf)}
    /\ \A leaf \in shown : UnderSensitiveKey(leaf) => leaf.text = REDACTED
    /\ \A leaf \in received : UnderSensitiveKey(leaf) =>
          \E i \in DOMAIN leaf.path : \E other \in shown : other.path = SubSeq(leaf.path, 1, i)

=============================================================================
