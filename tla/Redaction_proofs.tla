-------------------------- MODULE Redaction_proofs --------------------------
(***************************************************************************)
(* What redact_json leaves of any JSON value.                              *)
(*                                                                         *)
(* redact_json and Leaves are recursive in the items of a value, so that   *)
(* they are functions that exist, and every fact about them, is shown by   *)
(* induction over how deep values nest.                                    *)
(***************************************************************************)
EXTENDS Redaction, Induction

(* A depth that the assumption promises, and the values it has under n.    *)
IsDepth(depth) ==
    /\ depth \in [JsonValues -> 0..MaxNesting]
    /\ \A v \in JsonValues : \A i \in DOMAIN v.items : depth[v.items[i].value] < depth[v]

Shallow(depth, n) == {v \in JsonValues : depth[v] < n}

LEMMA DepthExists == \E depth : IsDepth(depth)
BY JsonAssumption DEF IsDepth

LEMMA Items ==
    ASSUME NEW v \in JsonValues
    PROVE  /\ v.items = <<>> <=> DOMAIN v.items = {}
           /\ DOMAIN v.items \subseteq Nat \ {0}
           /\ \A i \in DOMAIN v.items :
                 /\ v.items[i].value \in JsonValues /\ v.items[i].key \in STRING
                 /\ v.items[i] = [key |-> v.items[i].key, value |-> v.items[i].value]
<1> DEFINE items == v.items
<1>1. items \in Seq([key : STRING, value : JsonValues])
  BY JsonAssumption
<1> HIDE DEF items
<1>2. Len(items) \in Nat /\ DOMAIN items = 1..Len(items)
  BY <1>1
<1>3. items = <<>> <=> DOMAIN items = {}
  <2>1. items = <<>> <=> Len(items) = 0
    BY <1>1
  <2>2. 1..Len(items) = {} <=> Len(items) = 0
    BY <1>2
  <2> QED BY <1>2, <2>1, <2>2
<1>4. DOMAIN items \subseteq Nat \ {0}
  BY <1>2
<1>5. ASSUME NEW i \in DOMAIN items
      PROVE  /\ items[i].value \in JsonValues /\ items[i].key \in STRING
             /\ items[i] = [key |-> items[i].key, value |-> items[i].value]
  <2> DEFINE T == [key : STRING, value : JsonValues]
  <2> HIDE DEF T
  <2>0. items \in Seq(T)
    BY <1>1 DEF T
  <2>1. items[i] \in T
    BY <1>2, <2>0
  <2> QED BY <2>1 DEF T
<1> QED BY <1>3, <1>4, <1>5 DEF items

LEMMA AllShallow ==
    ASSUME NEW depth, IsDepth(depth)
    PROVE  /\ Shallow(depth, 0) = {}
           /\ Shallow(depth, MaxNesting + 1) = JsonValues
           /\ \A n \in Nat : Shallow(depth, n) \subseteq Shallow(depth, n + 1)
           /\ \A n \in Nat : \A v \in Shallow(depth, n + 1) : \A i \in DOMAIN v.items :
                 v.items[i].value \in Shallow(depth, n)
<1>1. /\ MaxNesting \in Nat
      /\ \A v \in JsonValues : depth[v] \in 0..MaxNesting
      /\ \A v \in JsonValues : \A i \in DOMAIN v.items :
            v.items[i].value \in JsonValues /\ depth[v.items[i].value] < depth[v]
  BY JsonAssumption, Items DEF IsDepth
<1>2. Shallow(depth, 0) = {} /\ Shallow(depth, MaxNesting + 1) = JsonValues
  BY <1>1 DEF Shallow
<1>3. ASSUME NEW n \in Nat PROVE Shallow(depth, n) \subseteq Shallow(depth, n + 1)
  BY <1>1 DEF Shallow
<1>4. ASSUME NEW n \in Nat, NEW v \in Shallow(depth, n + 1), NEW i \in DOMAIN v.items
      PROVE  v.items[i].value \in Shallow(depth, n)
  <2>1. v \in JsonValues /\ depth[v] < n + 1
    BY DEF Shallow
  <2> DEFINE w == v.items[i].value
  <2>2. w \in JsonValues /\ depth[w] < depth[v] /\ depth[w] \in Int /\ depth[v] \in Int
    BY <1>1, <2>1
  <2> HIDE DEF w
  <2>3. w \in Shallow(depth, n)
    BY <2>1, <2>2 DEF Shallow
  <2> QED BY <2>3 DEF w
<1> QED BY <1>2, <1>3, <1>4

----------------------------------------------------------------------------
(* The two recursive functions.                                            *)

(* One turn of redact_json, which the values inside are given to by f.     *)
RedactedItem(f, v, i) ==
    [v.items[i] EXCEPT
        !.value = IF v.kind = "object" /\ is_sensitive_key(v.items[i].key)
                  THEN Leaf(REDACTED) ELSE f[@]]

Redacted(f, v) == [v EXCEPT !.items = [i \in DOMAIN v.items |-> RedactedItem(f, v, i)]]

LEMMA RedactionExists == redact_json = [v \in JsonValues |-> Redacted(redact_json, v)]
<1>1. PICK depth : IsDepth(depth)
  BY DepthExists
<1> DEFINE D(n) == Shallow(depth, n)
           S == {n \in Nat : \E f : f = [v \in D(n) |-> Redacted(f, v)]}
<1>2. 0 \in S
  <2> DEFINE f == [v \in {} |-> v]
  <2>1. f = [v \in D(0) |-> Redacted(f, v)]
    BY <1>1, AllShallow
  <2> QED BY <2>1
<1>3. ASSUME NEW n \in Nat, n \in S PROVE n + 1 \in S
  <2>1. PICK f : f = [v \in D(n) |-> Redacted(f, v)]
    BY <1>3
  <2> DEFINE g == [v \in D(n + 1) |-> Redacted(f, v)]
  <2>2. /\ D(n) \subseteq D(n + 1)
        /\ \A v \in D(n + 1) : \A i \in DOMAIN v.items : v.items[i].value \in D(n)
    BY <1>1, AllShallow
  <2> HIDE DEF D
  <2>3. \A v \in D(n) : g[v] = f[v]
    <3> DEFINE of(v) == Redacted(f, v)
    <3>1. f = [v \in D(n) |-> of(v)] /\ g = [v \in D(n + 1) |-> of(v)]
      BY <2>1
    <3> HIDE DEF of, g
    <3> QED BY <2>2, <3>1
  <2> HIDE DEF g
  <2>4. \A v \in D(n + 1) : Redacted(g, v) = Redacted(f, v)
    <3> SUFFICES ASSUME NEW v \in D(n + 1) PROVE Redacted(g, v) = Redacted(f, v)
      OBVIOUS
    <3>1. \A i \in DOMAIN v.items : RedactedItem(g, v, i) = RedactedItem(f, v, i)
      BY <2>2, <2>3 DEF RedactedItem
    <3> QED BY <3>1, Zenon DEF Redacted
  <2>5. g = [v \in D(n + 1) |-> Redacted(g, v)]
    BY <2>4, Zenon DEF g
  <2>6. n + 1 \in Nat
    OBVIOUS
  <2> QED BY <2>5, <2>6, Zenon
<1>4. Nat \subseteq S
  <2> HIDE DEF S
  <2> QED BY <1>2, <1>3, NatsInASet
<1>5. MaxNesting + 1 \in S
  BY <1>4, JsonAssumption
<1>6. PICK h : h = [v \in JsonValues |-> Redacted(h, v)]
  BY <1>1, <1>5, AllShallow
<1>7. redact_json = CHOOSE f : f = [v \in JsonValues |-> Redacted(f, v)]
  BY DEF redact_json, Redacted, RedactedItem
<1> QED BY <1>6, <1>7, Zenon

(* What redact_json makes of one value.                                    *)
LEMMA RedactedValue ==
    ASSUME NEW v \in JsonValues
    PROVE  LET r == redact_json[v] IN
           /\ r.kind = v.kind /\ r.text = v.text
           /\ DOMAIN r.items = DOMAIN v.items
           /\ r.items = <<>> <=> v.items = <<>>
           /\ \A i \in DOMAIN v.items :
                 /\ r.items[i].key = v.items[i].key
                 /\ r.items[i].value = IF v.kind = "object" /\ is_sensitive_key(v.items[i].key)
                                       THEN Leaf(REDACTED) ELSE redact_json[v.items[i].value]
<1> DEFINE r == redact_json[v]
           item(i) == RedactedItem(redact_json, v, i)
<1>1. r = Redacted(redact_json, v)
  <2> DEFINE of(w) == Redacted(redact_json, w)
  <2>1. redact_json = [w \in JsonValues |-> of(w)]
    BY RedactionExists
  <2> HIDE DEF of
  <2>2. redact_json[v] = of(v)
    BY <2>1
  <2> QED BY <2>2 DEF of
<1>2. v = [kind |-> v.kind, text |-> v.text, items |-> v.items]
  BY JsonAssumption
<1>3. r.kind = v.kind /\ r.text = v.text /\ r.items = [i \in DOMAIN v.items |-> item(i)]
  <2> HIDE DEF r, item
  <2>1. r = [v EXCEPT !.items = [i \in DOMAIN v.items |-> item(i)]]
    BY <1>1 DEF Redacted, item
  <2> QED BY <1>2, <2>1
<1>4. ASSUME NEW i \in DOMAIN v.items
      PROVE  /\ item(i).key = v.items[i].key
             /\ item(i).value = IF v.kind = "object" /\ is_sensitive_key(v.items[i].key)
                                THEN Leaf(REDACTED) ELSE redact_json[v.items[i].value]
  <2> DEFINE e == v.items[i]
  <2>1. e = [key |-> e.key, value |-> e.value]
    BY Items
  <2> HIDE DEF e
  <2>2. [e EXCEPT !.value = IF v.kind = "object" /\ is_sensitive_key(e.key)
                            THEN Leaf(REDACTED) ELSE redact_json[@]]
           = [key |-> e.key, value |-> IF v.kind = "object" /\ is_sensitive_key(e.key)
                                       THEN Leaf(REDACTED) ELSE redact_json[e.value]]
    BY <2>1
  <2> QED BY <2>2 DEF e, RedactedItem
<1> HIDE DEF item, r
<1>5. r.items = <<>> <=> v.items = <<>>
  <2>1. v.items = <<>> <=> DOMAIN v.items = {}
    BY Items
  <2>2. DOMAIN r.items = DOMAIN v.items
    BY <1>3
  <2>3. DOMAIN v.items = {} => r.items = <<>>
    <3>1. ASSUME NEW s, s = [i \in {} |-> item(i)] PROVE s = <<>>
      BY <3>1
    <3> QED BY <1>3, <3>1
  <2>4. r.items = <<>> => DOMAIN r.items = {}
    OBVIOUS
  <2> QED BY <2>1, <2>2, <2>3, <2>4
<1>6. /\ DOMAIN r.items = DOMAIN v.items
      /\ \A i \in DOMAIN v.items : r.items[i] = item(i)
  BY <1>3
<1>7. \A i \in DOMAIN v.items :
         /\ r.items[i].key = v.items[i].key
         /\ r.items[i].value = IF v.kind = "object" /\ is_sensitive_key(v.items[i].key)
                               THEN Leaf(REDACTED) ELSE redact_json[v.items[i].value]
  BY <1>4, <1>6
<1> QED BY <1>3, <1>5, <1>6, <1>7 DEF r

(* One turn of Leaves, which the values inside are given to by f.          *)
LeavesInItem(f, v, i) == {Below(v.items[i], i, leaf) : leaf \in f[v.items[i].value]}

LeavesOf(f, v) ==
    IF v.items = <<>> THEN {[path |-> <<>>, kind |-> v.kind, text |-> v.text]}
    ELSE UNION {LeavesInItem(f, v, i) : i \in DOMAIN v.items}

ReadableTo(depth, n) ==
    Shallow(depth, n) \cup {redact_json[v] : v \in Shallow(depth, n)} \cup {Leaf(REDACTED)}

(* Redacting makes nothing deeper.                                         *)
LEMMA AllReadable ==
    ASSUME NEW depth, IsDepth(depth)
    PROVE  /\ ReadableTo(depth, 0) = {Leaf(REDACTED)}
           /\ ReadableTo(depth, MaxNesting + 1) = Readable
           /\ \A n \in Nat : ReadableTo(depth, n) \subseteq ReadableTo(depth, n + 1)
           /\ \A n \in Nat : \A v \in ReadableTo(depth, n + 1) : \A i \in DOMAIN v.items :
                 v.items[i].value \in ReadableTo(depth, n)
<1>1. ReadableTo(depth, 0) = {Leaf(REDACTED)} /\ ReadableTo(depth, MaxNesting + 1) = Readable
  BY AllShallow DEF ReadableTo, Readable
<1>2. ASSUME NEW n \in Nat PROVE ReadableTo(depth, n) \subseteq ReadableTo(depth, n + 1)
  <2>1. Shallow(depth, n) \subseteq Shallow(depth, n + 1)
    BY AllShallow
  <2> QED BY <2>1 DEF ReadableTo
<1>3. ASSUME NEW n \in Nat, NEW v \in ReadableTo(depth, n + 1), NEW i \in DOMAIN v.items
      PROVE  v.items[i].value \in ReadableTo(depth, n)
  <2>1. \A w \in Shallow(depth, n + 1) : \A j \in DOMAIN w.items :
           w.items[j].value \in Shallow(depth, n)
    BY AllShallow
  <2>2. CASE v \in Shallow(depth, n + 1)
    BY <2>1, <2>2 DEF ReadableTo
  <2>3. CASE \E w \in Shallow(depth, n + 1) : v = redact_json[w]
    <3>1. PICK w \in Shallow(depth, n + 1) : v = redact_json[w]
      BY <2>3
    <3>2. w \in JsonValues
      BY DEF Shallow
    <3>3. /\ DOMAIN v.items = DOMAIN w.items
          /\ v.items[i].value \in {Leaf(REDACTED), redact_json[w.items[i].value]}
      BY <3>1, <3>2, RedactedValue
    <3>4. w.items[i].value \in Shallow(depth, n)
      BY <2>1, <3>3
    <3> QED BY <3>3, <3>4 DEF ReadableTo
  <2>4. CASE v = Leaf(REDACTED)
    <3>1. v.items = <<>>
      BY <2>4 DEF Leaf
    <3>2. \A j : j \notin DOMAIN << >>
      BY SMT
    <3> QED BY <3>1, <3>2
  <2> QED BY <2>2, <2>3, <2>4 DEF ReadableTo
<1> QED BY <1>1, <1>2, <1>3

LEMMA LeavesExist == Leaves = [v \in Readable |-> LeavesOf(Leaves, v)]
<1>1. PICK depth : IsDepth(depth)
  BY DepthExists
<1> DEFINE D(n) == ReadableTo(depth, n)
           S == {n \in Nat : \E f : f = [v \in D(n) |-> LeavesOf(f, v)]}
<1>2. 0 \in S
  <2> DEFINE top == Leaf(REDACTED)
             f == [v \in {top} |-> {[path |-> <<>>, kind |-> top.kind, text |-> top.text]}]
  <2>1. D(0) = {top}
    BY <1>1, AllReadable
  <2>2. LeavesOf(f, top) = {[path |-> <<>>, kind |-> top.kind, text |-> top.text]}
    BY DEF LeavesOf, Leaf
  <2> HIDE DEF top, D
  <2>3. f = [v \in D(0) |-> LeavesOf(f, v)]
    BY <2>1, <2>2
  <2> QED BY <2>3
<1>3. ASSUME NEW n \in Nat, n \in S PROVE n + 1 \in S
  <2>1. PICK f : f = [v \in D(n) |-> LeavesOf(f, v)]
    BY <1>3
  <2> DEFINE g == [v \in D(n + 1) |-> LeavesOf(f, v)]
  <2>2. /\ D(n) \subseteq D(n + 1)
        /\ \A v \in D(n + 1) : \A i \in DOMAIN v.items : v.items[i].value \in D(n)
    BY <1>1, AllReadable
  <2> HIDE DEF D
  <2>3. \A v \in D(n) : g[v] = f[v]
    <3> DEFINE of(v) == LeavesOf(f, v)
    <3>1. f = [v \in D(n) |-> of(v)] /\ g = [v \in D(n + 1) |-> of(v)]
      BY <2>1
    <3> HIDE DEF of, g
    <3> QED BY <2>2, <3>1
  <2> HIDE DEF g
  <2>4. \A v \in D(n + 1) : LeavesOf(g, v) = LeavesOf(f, v)
    <3> SUFFICES ASSUME NEW v \in D(n + 1) PROVE LeavesOf(g, v) = LeavesOf(f, v)
      OBVIOUS
    <3>1. \A i \in DOMAIN v.items : g[v.items[i].value] = f[v.items[i].value]
      BY <2>2, <2>3
    <3>2. \A i \in DOMAIN v.items : LeavesInItem(g, v, i) = LeavesInItem(f, v, i)
      BY <3>1, Zenon DEF LeavesInItem
    <3>3. UNION {LeavesInItem(g, v, i) : i \in DOMAIN v.items}
             = UNION {LeavesInItem(f, v, i) : i \in DOMAIN v.items}
      BY <3>2
    <3> QED BY <3>3, Zenon DEF LeavesOf
  <2>5. g = [v \in D(n + 1) |-> LeavesOf(g, v)]
    BY <2>4, Zenon DEF g
  <2>6. n + 1 \in Nat
    OBVIOUS
  <2> QED BY <2>5, <2>6, Zenon
<1>4. Nat \subseteq S
  <2> HIDE DEF S
  <2> QED BY <1>2, <1>3, NatsInASet
<1>5. MaxNesting + 1 \in S
  BY <1>4, JsonAssumption
<1>6. PICK h : h = [v \in Readable |-> LeavesOf(h, v)]
  BY <1>1, <1>5, AllReadable
<1>7. Leaves = CHOOSE f : f = [v \in Readable |-> LeavesOf(f, v)]
  BY DEF Leaves, LeavesOf, LeavesInItem
<1> QED BY <1>6, <1>7, Zenon

LEMMA LeavesInside ==
    ASSUME NEW v \in Readable
    PROVE  Leaves[v] =
              IF v.items = <<>> THEN {[path |-> <<>>, kind |-> v.kind, text |-> v.text]}
              ELSE UNION {{Below(v.items[i], i, leaf) : leaf \in Leaves[v.items[i].value]} :
                             i \in DOMAIN v.items}
<1> DEFINE of(w) == LeavesOf(Leaves, w)
<1>1. Leaves = [w \in Readable |-> of(w)]
  BY LeavesExist
<1> HIDE DEF of
<1>2. Leaves[v] = of(v)
  BY <1>1
<1> QED BY <1>2, Zenon DEF of, LeavesOf, LeavesInItem

LEMMA LeafInside ==
    ASSUME NEW v \in Readable, v.items # <<>>
    PROVE  \A leaf : leaf \in Leaves[v]
              <=> \E i \in DOMAIN v.items : \E m \in Leaves[v.items[i].value] :
                     leaf = Below(v.items[i], i, m)
<1> DEFINE part(i) == {Below(v.items[i], i, m) : m \in Leaves[v.items[i].value]}
<1>1. Leaves[v] = UNION {part(i) : i \in DOMAIN v.items}
  BY LeavesInside, Zenon
<1>2. \A i, leaf : leaf \in part(i)
         <=> \E m \in Leaves[v.items[i].value] : leaf = Below(v.items[i], i, m)
  OBVIOUS
<1> HIDE DEF part
<1> DEFINE parts == {part(i) : i \in DOMAIN v.items}
<1>3. \A leaf : leaf \in UNION parts <=> \E i \in DOMAIN v.items : leaf \in part(i)
  OBVIOUS
<1>4. Leaves[v] = UNION parts
  BY <1>1
<1> HIDE DEF parts
<1>5. \A leaf : leaf \in Leaves[v] <=> \E i \in DOMAIN v.items : leaf \in part(i)
  BY <1>3, <1>4
<1> DEFINE inside(i, leaf) == \E m \in Leaves[v.items[i].value] : leaf = Below(v.items[i], i, m)
<1>6. \A i, leaf : leaf \in part(i) <=> inside(i, leaf)
  BY <1>2
<1> HIDE DEF inside
<1>7. \A leaf : leaf \in Leaves[v] <=> \E i \in DOMAIN v.items : inside(i, leaf)
  BY <1>5, <1>6
<1> QED BY <1>7 DEF inside

----------------------------------------------------------------------------
(* Leaves and their paths.                                                 *)

Step == [at : Nat, key : STRING]

IsLeaf(leaf) ==
    /\ leaf = [path |-> leaf.path, kind |-> leaf.kind, text |-> leaf.text]
    /\ leaf.path \in Seq(Step)

LEMMA LeafBelow ==
    ASSUME NEW item, item.key \in STRING, NEW at \in Nat, NEW leaf, IsLeaf(leaf)
    PROVE  LET lower == Below(item, at, leaf) IN
           /\ IsLeaf(lower)
           /\ lower.text = leaf.text
           /\ lower.path = <<[at |-> at, key |-> item.key]>> \o leaf.path
           /\ UnderSensitiveKey(lower) <=> is_sensitive_key(item.key) \/ UnderSensitiveKey(leaf)
<1> DEFINE lower == Below(item, at, leaf)
           step == [at |-> at, key |-> item.key]
<1>1. step \in Step /\ step.key = item.key
  BY DEF Step
<1> HIDE DEF step
<1>2. /\ lower = [path |-> <<step>> \o leaf.path, kind |-> leaf.kind, text |-> leaf.text]
      /\ leaf.path \in Seq(Step)
  <2> DEFINE p == <<step>> \o leaf.path
  <2>1. lower = [leaf EXCEPT !.path = p]
    BY DEF Below, step
  <2>2. leaf = [path |-> leaf.path, kind |-> leaf.kind, text |-> leaf.text]
        /\ leaf.path \in Seq(Step)
    BY DEF IsLeaf
  <2> HIDE DEF p, lower
  <2>3. lower = [path |-> p, kind |-> leaf.kind, text |-> leaf.text]
    BY <2>1, <2>2
  <2> QED BY <2>2, <2>3 DEF p
<1> HIDE DEF lower
<1> DEFINE path == leaf.path
           longer == <<step>> \o path
<1>3. /\ longer \in Seq(Step)
      /\ path \in Seq(Step)
      /\ Len(path) \in Nat /\ DOMAIN path = 1..Len(path)
      /\ DOMAIN longer = 1..(Len(path) + 1)
      /\ longer[1] = step
      /\ \A i \in 1..Len(path) : longer[i + 1] = path[i]
  BY <1>1, <1>2
<1>4. lower.path = longer /\ lower.text = leaf.text /\ lower.kind = leaf.kind
  BY <1>2
<1> HIDE DEF path, longer
<1>5. IsLeaf(lower)
  BY <1>2, <1>3, <1>4 DEF IsLeaf, longer, path
<1>6. (\E i \in DOMAIN longer : is_sensitive_key(longer[i].key))
         <=> is_sensitive_key(item.key) \/ \E i \in DOMAIN path : is_sensitive_key(path[i].key)
  <2>1. \A i \in DOMAIN longer : i = 1 \/ (i - 1 \in DOMAIN path /\ longer[i] = path[i - 1])
    <3> SUFFICES ASSUME NEW i \in DOMAIN longer, i # 1
                 PROVE  i - 1 \in DOMAIN path /\ longer[i] = path[i - 1]
      OBVIOUS
    <3>1. i - 1 \in 1..Len(path) /\ (i - 1) + 1 = i
      BY <1>3
    <3> QED BY <1>3, <3>1
  <2>2. \A i \in DOMAIN path : i + 1 \in DOMAIN longer /\ longer[i + 1] = path[i]
    BY <1>3
  <2>3. 1 \in DOMAIN longer /\ longer[1].key = item.key
    BY <1>1, <1>3
  <2> DEFINE bad(s, i) == is_sensitive_key(s[i].key)
  <2>4. /\ \A i \in DOMAIN longer : bad(longer, i) => is_sensitive_key(item.key)
                                                   \/ \E j \in DOMAIN path : bad(path, j)
        /\ \A j \in DOMAIN path : bad(path, j) => \E i \in DOMAIN longer : bad(longer, i)
        /\ is_sensitive_key(item.key) => \E i \in DOMAIN longer : bad(longer, i)
    <3>1. \A i \in DOMAIN longer : i # 1 => i - 1 \in DOMAIN path
                                           /\ (bad(longer, i) <=> bad(path, i - 1))
      BY <2>1, Zenon
    <3>2. \A j \in DOMAIN path : j + 1 \in DOMAIN longer /\ (bad(longer, j + 1) <=> bad(path, j))
      BY <2>2, Zenon
    <3>3. 1 \in DOMAIN longer /\ (bad(longer, 1) <=> is_sensitive_key(item.key))
      BY <2>3, Zenon
    <3> HIDE DEF bad
    <3> QED BY <3>1, <3>2, <3>3, Zenon
  <2> QED BY <2>4
<1>7. UnderSensitiveKey(lower) <=> is_sensitive_key(item.key) \/ UnderSensitiveKey(leaf)
  BY <1>4, <1>6, Zenon DEF UnderSensitiveKey, path
<1> QED BY <1>4, <1>5, <1>7 DEF lower, longer, path, step

(* A prefix of a path is a prefix of the path one level up.                *)
LEMMA LongerPrefix ==
    ASSUME NEW T, NEW step \in T, NEW path \in Seq(T), NEW i \in DOMAIN path
    PROVE  /\ i + 1 \in DOMAIN (<<step>> \o path)
           /\ <<step>> \o SubSeq(path, 1, i) = SubSeq(<<step>> \o path, 1, i + 1)
<1>1. i \in Nat /\ i >= 1 /\ i <= Len(path) /\ Len(path) \in Nat
  OBVIOUS
<1> DEFINE longer == <<step>> \o path
           part == SubSeq(path, 1, i)
           a == <<step>> \o part
           b == SubSeq(longer, 1, i + 1)
<1>2. /\ longer \in Seq(T) /\ Len(longer) = Len(path) + 1
      /\ longer[1] = step
      /\ \A j \in 1..Len(path) : longer[j + 1] = path[j]
  OBVIOUS
<1>3. part \in Seq(T) /\ Len(part) = i /\ \A j \in 1..i : part[j] = path[j]
  BY <1>1
<1> HIDE DEF longer, part
<1>4. a \in Seq(T) /\ Len(a) = i + 1 /\ a[1] = step /\ \A j \in 1..i : a[j + 1] = part[j]
  BY <1>3
<1>5. b \in Seq(T) /\ Len(b) = i + 1 /\ \A j \in 1..(i + 1) : b[j] = longer[j]
  BY <1>1, <1>2
<1> HIDE DEF a, b
<1>6. ASSUME NEW j \in 1..(i + 1) PROVE a[j] = b[j]
  <2>1. CASE j = 1
    BY <1>1, <1>2, <1>4, <1>5, <2>1
  <2>2. CASE j # 1
    <3>1. j - 1 \in 1..i /\ j - 1 \in 1..Len(path) /\ (j - 1) + 1 = j
      BY <1>1, <2>2
    <3>2. a[j] = part[j - 1] /\ longer[j] = path[j - 1] /\ part[j - 1] = path[j - 1]
      BY <1>2, <1>3, <1>4, <3>1
    <3> QED BY <1>5, <3>2
  <2> QED BY <2>1, <2>2
<1>7. a = b
  BY <1>4, <1>5, <1>6
<1>8. i + 1 \in DOMAIN longer
  BY <1>1, <1>2
<1> QED BY <1>7, <1>8 DEF a, b, longer, part

----------------------------------------------------------------------------
(* The result.                                                             *)

HiddenLeaf == [path |-> <<>>, kind |-> "leaf", text |-> REDACTED]

LEMMA LeavesOfRedacted == Leaves[Leaf(REDACTED)] = {HiddenLeaf}
<1>1. Leaf(REDACTED) \in Readable /\ Leaf(REDACTED).items = <<>>
  BY DEF Readable, Leaf
<1>2. Leaf(REDACTED).kind = "leaf" /\ Leaf(REDACTED).text = REDACTED
  BY DEF Leaf
<1> QED BY <1>1, <1>2, LeavesInside DEF HiddenLeaf

LEMMA TopLeaf ==
    ASSUME NEW kind, NEW text
    PROVE  LET leaf == [path |-> <<>>, kind |-> kind, text |-> text] IN
           IsLeaf(leaf) /\ ~UnderSensitiveKey(leaf)
<1> DEFINE leaf == [path |-> <<>>, kind |-> kind, text |-> text]
<1>1. leaf.path = <<>> /\ leaf.kind = kind /\ leaf.text = text
  OBVIOUS
<1>2. <<>> \in Seq(Step) /\ \A i : i \notin DOMAIN << >>
  BY SMT
<1>3. IsLeaf(leaf)
  BY <1>1, <1>2 DEF IsLeaf
<1>4. ~UnderSensitiveKey(leaf)
  <2> HIDE DEF leaf
  <2> QED BY <1>1, <1>2, Zenon DEF UnderSensitiveKey
<1> QED BY <1>3, <1>4

(* What is shown of v is right.                                            *)
Faithful(v) ==
    /\ \A leaf \in Leaves[v] \cup Leaves[redact_json[v]] : IsLeaf(leaf)
    /\ HidesOnlySensitive(Leaves[v], Leaves[redact_json[v]])

(* If it is for every item, it is for the value.                           *)
LEMMA FaithfulAbove ==
    ASSUME NEW v \in JsonValues, \A i \in DOMAIN v.items : Faithful(v.items[i].value)
    PROVE  Faithful(v)
<1> DEFINE r == redact_json[v]
           I == DOMAIN v.items
           item(i) == v.items[i]
           kid(i) == v.items[i].value
           shut(i) == v.kind = "object" /\ is_sensitive_key(item(i).key)
           top == [path |-> <<>>, kind |-> v.kind, text |-> v.text]
<1>1. v \in Readable /\ r \in Readable
  BY DEF Readable
<1>2. /\ r.kind = v.kind /\ r.text = v.text /\ DOMAIN r.items = I
      /\ r.items = <<>> <=> v.items = <<>>
      /\ \A i \in I : /\ r.items[i].key = item(i).key
                     /\ r.items[i].value = IF shut(i) THEN Leaf(REDACTED) ELSE redact_json[kid(i)]
  BY RedactedValue
<1>3. CASE v.items = <<>>
  <2>1. Leaves[v] = {top} /\ Leaves[r] = {top}
    <3> HIDE DEF r
    <3> QED BY <1>1, <1>2, <1>3, LeavesInside
  <2>2. IsLeaf(top) /\ ~UnderSensitiveKey(top)
    BY TopLeaf
  <2> HIDE DEF top
  <2> QED BY <2>1, <2>2, Zenon DEF Faithful, HidesOnlySensitive, r
<1>4. CASE v.items # <<>>
  <2> DEFINE received(i) == Leaves[kid(i)]
             shown(i) == IF shut(i) THEN {HiddenLeaf} ELSE Leaves[redact_json[kid(i)]]
             under(i, leaf) == Below(item(i), i, leaf)
  <2>1. \A leaf : leaf \in Leaves[v] <=> \E i \in I : \E m \in received(i) : leaf = under(i, m)
    <3> HIDE DEF r, top, shut, shown
    <3> QED BY <1>1, <1>4, LeafInside, Zenon
  <2>2. \A leaf : leaf \in Leaves[r] <=> \E i \in I : \E m \in shown(i) : leaf = under(i, m)
    <3> DEFINE part(i) == Leaves[r.items[i].value]
    <3>1. \A leaf : leaf \in Leaves[r]
             <=> \E i \in I : \E m \in part(i) : leaf = Below(r.items[i], i, m)
      <4> HIDE DEF r
      <4>1. r.items # <<>> /\ DOMAIN r.items = I
        BY <1>2, <1>4
      <4>2. \A leaf : leaf \in Leaves[r]
               <=> \E i \in DOMAIN r.items : \E m \in Leaves[r.items[i].value] :
                      leaf = Below(r.items[i], i, m)
        BY <1>1, <4>1, LeafInside, Zenon
      <4> QED BY <4>1, <4>2, Zenon
    <3>2. \A i \in I : part(i) = shown(i)
      BY <1>2, LeavesOfRedacted
    <3>3. \A i \in I : \A m : Below(r.items[i], i, m) = under(i, m)
      BY <1>2 DEF Below
    <3> HIDE DEF part, shown, under, r
    <3> QED BY <3>1, <3>2, <3>3
  <2>3. \A i \in I : i \in Nat /\ item(i).key \in STRING /\ kid(i) \in JsonValues
    BY Items
  <2>4. \A i \in I : is_sensitive_key(item(i).key) <=> shut(i)
    BY JsonAssumption DEF is_sensitive_key
  <2>5. \A i \in I : Faithful(kid(i))
    OBVIOUS
  <2>6. IsLeaf(HiddenLeaf) /\ ~UnderSensitiveKey(HiddenLeaf) /\ HiddenLeaf.text = REDACTED
        /\ HiddenLeaf.path = <<>>
    BY TopLeaf DEF HiddenLeaf
  <2>7. \A i \in I : \A m \in received(i) \cup shown(i) : IsLeaf(m)
    BY <2>5, <2>6 DEF Faithful
  <2>8. \A i \in I : \A m \in received(i) \cup shown(i) :
           /\ IsLeaf(under(i, m))
           /\ under(i, m).text = m.text
           /\ under(i, m).path = <<[at |-> i, key |-> item(i).key]>> \o m.path
           /\ UnderSensitiveKey(under(i, m)) <=> shut(i) \/ UnderSensitiveKey(m)
    BY <2>3, <2>4, <2>7, LeafBelow
  <2>9. \A i \in I : ~shut(i) =>
           /\ \A m : m \in shown(i) /\ ~UnderSensitiveKey(m)
                      <=> m \in received(i) /\ ~UnderSensitiveKey(m)
           /\ \A m \in shown(i) : UnderSensitiveKey(m) => m.text = REDACTED
           /\ \A m \in received(i) : UnderSensitiveKey(m) =>
                 \E k \in DOMAIN m.path : \E other \in shown(i) : other.path = SubSeq(m.path, 1, k)
    <3> SUFFICES ASSUME NEW i \in I, ~shut(i)
                 PROVE  /\ \A m : m \in shown(i) /\ ~UnderSensitiveKey(m)
                                   <=> m \in received(i) /\ ~UnderSensitiveKey(m)
                        /\ \A m \in shown(i) : UnderSensitiveKey(m) => m.text = REDACTED
                        /\ \A m \in received(i) : UnderSensitiveKey(m) =>
                              \E k \in DOMAIN m.path :
                                  \E other \in shown(i) : other.path = SubSeq(m.path, 1, k)
      OBVIOUS
    <3>1. shown(i) = Leaves[redact_json[kid(i)]]
      OBVIOUS
    <3>2. HidesOnlySensitive(received(i), shown(i))
      <4> HIDE DEF shown
      <4> QED BY <2>5, <3>1 DEF Faithful
    <3> HIDE DEF shown, received
    <3> QED BY <3>2, Zenon DEF HidesOnlySensitive
  <2>10. \A i \in I : shut(i) => shown(i) = {HiddenLeaf}
    OBVIOUS
  <2>11. ASSUME NEW i \in I, NEW m \in received(i), UnderSensitiveKey(under(i, m))
         PROVE  \E k \in DOMAIN under(i, m).path : \E other \in Leaves[r] :
                    other.path = SubSeq(under(i, m).path, 1, k)
    <3> DEFINE step == [at |-> i, key |-> item(i).key]
    <3>1. step \in Step
      BY <2>3 DEF Step
    <3>2. m.path \in Seq(Step)
      BY <2>7 DEF IsLeaf
    <3>3. CASE shut(i)
      <4>1. HiddenLeaf \in shown(i) /\ under(i, HiddenLeaf) \in Leaves[r]
        BY <2>2, <2>10, <3>3
      <4>2. under(i, HiddenLeaf).path = <<step>> \o <<>>
        BY <2>6, <2>8, <4>1
      <4> DEFINE longer == <<step>> \o m.path
      <4> HIDE DEF step
      <4>3. 1 \in DOMAIN longer /\ SubSeq(longer, 1, 1) = <<step>> \o <<>>
        <5>1. /\ longer \in Seq(Step) /\ longer[1] = step
              /\ Len(longer) \in Nat /\ Len(longer) >= 1 /\ DOMAIN longer = 1..Len(longer)
          BY <3>1, <3>2
        <5> HIDE DEF longer
        <5> DEFINE part == SubSeq(longer, 1, 1)
        <5>2. part \in Seq(Step) /\ Len(part) = 1 /\ part[1] = longer[1]
          BY <5>1
        <5> HIDE DEF part
        <5>4. part = <<part[1]>>
          BY <5>2
        <5>3. <<step>> \o <<>> = <<step>>
          BY <3>1
        <5> QED BY <5>1, <5>2, <5>3, <5>4 DEF part
      <4>4. under(i, m).path = longer
        BY <2>8 DEF step
      <4> HIDE DEF under, longer, shown, received
      <4> QED BY <4>1, <4>2, <4>3, <4>4
    <3>4. CASE ~shut(i)
      <4>1. UnderSensitiveKey(m)
        BY <2>8, <2>11, <3>4
      <4>2. PICK k \in DOMAIN m.path, other \in shown(i) : other.path = SubSeq(m.path, 1, k)
        <5> HIDE DEF shown, received, shut
        <5> QED BY <2>9, <3>4, <4>1
      <4>3. under(i, other) \in Leaves[r]
        BY <2>2, <4>2
      <4>4. under(i, other).path = <<step>> \o SubSeq(m.path, 1, k)
            /\ under(i, m).path = <<step>> \o m.path
        BY <2>8, <4>2
      <4> HIDE DEF step, under, shown, received
      <4>5. /\ k + 1 \in DOMAIN (<<step>> \o m.path)
            /\ <<step>> \o SubSeq(m.path, 1, k) = SubSeq(<<step>> \o m.path, 1, k + 1)
        BY <3>1, <3>2, LongerPrefix
      <4> QED BY <4>3, <4>4, <4>5
    <3> QED BY <3>3, <3>4
  <2> HIDE DEF r, received, shown, under, shut
  <2>12. \A leaf \in Leaves[v] \cup Leaves[r] : IsLeaf(leaf)
    <3>1. ASSUME NEW leaf \in Leaves[v] PROVE IsLeaf(leaf)
      <4>1. PICK i \in I : \E m \in received(i) : leaf = under(i, m)
        BY <2>1
      <4>2. PICK m \in received(i) : leaf = under(i, m)
        BY <4>1
      <4> QED BY <2>8, <4>2
    <3>2. ASSUME NEW leaf \in Leaves[r] PROVE IsLeaf(leaf)
      <4>1. PICK i \in I : \E m \in shown(i) : leaf = under(i, m)
        BY <2>2
      <4>2. PICK m \in shown(i) : leaf = under(i, m)
        BY <4>1
      <4> QED BY <2>8, <4>2
    <3> QED BY <3>1, <3>2
  <2>13. \A leaf : leaf \in Leaves[r] /\ ~UnderSensitiveKey(leaf)
                   <=> leaf \in Leaves[v] /\ ~UnderSensitiveKey(leaf)
    <3>1. ASSUME NEW leaf \in Leaves[r], ~UnderSensitiveKey(leaf) PROVE leaf \in Leaves[v]
      <4>1. PICK i \in I : \E m \in shown(i) : leaf = under(i, m)
        BY <2>2
      <4>2. PICK m \in shown(i) : leaf = under(i, m)
        BY <4>1
      <4>3. ~shut(i) /\ ~UnderSensitiveKey(m)
        BY <2>8, <3>1, <4>2
      <4> QED BY <2>1, <2>9, <4>2, <4>3
    <3>2. ASSUME NEW leaf \in Leaves[v], ~UnderSensitiveKey(leaf) PROVE leaf \in Leaves[r]
      <4>1. PICK i \in I : \E m \in received(i) : leaf = under(i, m)
        BY <2>1
      <4>2. PICK m \in received(i) : leaf = under(i, m)
        BY <4>1
      <4>3. ~shut(i) /\ ~UnderSensitiveKey(m)
        BY <2>8, <3>2, <4>2
      <4> QED BY <2>2, <2>9, <4>2, <4>3
    <3> QED BY <3>1, <3>2
  <2>14. ASSUME NEW leaf \in Leaves[r], UnderSensitiveKey(leaf) PROVE leaf.text = REDACTED
    <3>1. PICK i \in I : \E m \in shown(i) : leaf = under(i, m)
      BY <2>2
    <3>2. PICK m \in shown(i) : leaf = under(i, m)
      BY <3>1
    <3>3. leaf.text = m.text /\ (shut(i) \/ UnderSensitiveKey(m))
      BY <2>8, <2>14, <3>2
    <3> QED BY <2>6, <2>9, <2>10, <3>2, <3>3
  <2>15. ASSUME NEW leaf \in Leaves[v], UnderSensitiveKey(leaf)
         PROVE  \E k \in DOMAIN leaf.path : \E other \in Leaves[r] :
                    other.path = SubSeq(leaf.path, 1, k)
    <3>1. PICK i \in I : \E m \in received(i) : leaf = under(i, m)
      BY <2>1
    <3>2. PICK m \in received(i) : leaf = under(i, m)
      BY <3>1
    <3> QED BY <2>11, <2>15, <3>2, Zenon
  <2> QED BY <2>12, <2>13, <2>14, <2>15, Zenon DEF Faithful, HidesOnlySensitive, r
<1> QED BY <1>3, <1>4

(* redact_json hides what is under a sensitive key, at any depth, in lists *)
(* and in objects, and nothing else.                                       *)
THEOREM RedactionHidesOnlySensitive ==
    \A v \in JsonValues : HidesOnlySensitive(Leaves[v], Leaves[redact_json[v]])
<1>1. PICK depth : IsDepth(depth)
  BY DepthExists
<1> DEFINE D(n) == Shallow(depth, n)
           S == {n \in Nat : \A v \in D(n) : Faithful(v)}
<1>2. 0 \in S
  BY <1>1, AllShallow
<1>3. ASSUME NEW n \in Nat, n \in S PROVE n + 1 \in S
  <2>1. ASSUME NEW v \in D(n + 1) PROVE Faithful(v)
    <3>1. v \in JsonValues
      BY DEF Shallow
    <3>2. \A i \in DOMAIN v.items : v.items[i].value \in D(n)
      BY <1>1, AllShallow
    <3>3. \A i \in DOMAIN v.items : Faithful(v.items[i].value)
      BY <1>3, <3>2
    <3> QED BY <3>1, <3>3, FaithfulAbove
  <2>2. n + 1 \in Nat
    OBVIOUS
  <2> QED BY <2>1, <2>2, Zenon
<1>4. Nat \subseteq S
  <2> HIDE DEF S
  <2> QED BY <1>2, <1>3, NatsInASet
<1>5. MaxNesting + 1 \in S
  BY <1>4, JsonAssumption
<1>6. \A v \in JsonValues : Faithful(v)
  BY <1>1, <1>5, AllShallow
<1> QED BY <1>6 DEF Faithful

=============================================================================
