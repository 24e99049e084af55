--------------------------- MODULE Requests_proofs ---------------------------
(***************************************************************************)
(* From the form to the request: what the context parser returns for a     *)
(* block of any length, and what the request builders make of a form.      *)
(*                                                                         *)
(* The parser is a recursive function over the lines, so its facts need    *)
(* induction; NatsInASet gives it, one predicate at a time.                *)
(***************************************************************************)
EXTENDS SimulateHandler, FiniteSetTheorems, Induction

----------------------------------------------------------------------------
(* The context parser.                                                     *)

ParseStart == [context |-> {}, errors |-> 0, stopped |-> FALSE]

(* p holds the states of the parser, before the first line and after each  *)
(* of the first n lines.                                                   *)
IsParse(p, lines, n) ==
    p = [i \in 0..n |-> IF i = 0 THEN ParseStart ELSE ParseLine(p[i - 1], lines[i])]

LEMMA ParseSteps ==
    ASSUME NEW p, NEW lines, NEW n \in Nat, IsParse(p, lines, n)
    PROVE  /\ p[0] = ParseStart
           /\ \A i \in 1..n : p[i] = ParseLine(p[i - 1], lines[i])
<1> DEFINE step(i) == IF i = 0 THEN ParseStart ELSE ParseLine(p[i - 1], lines[i])
<1>1. p = [i \in 0..n |-> step(i)]
  BY DEF IsParse
<1>2. \A i \in 0..n : p[i] = step(i)
  <2> HIDE DEF step
  <2> QED BY <1>1
<1>3. 0 \in 0..n /\ \A i \in 1..n : i \in 0..n /\ i # 0
  OBVIOUS
<1> QED BY <1>2, <1>3

(* The other way round.                                                    *)
LEMMA StepsParse ==
    ASSUME NEW p, NEW lines, NEW n \in Nat, p = [i \in 0..n |-> p[i]], p[0] = ParseStart,
           \A i \in 1..n : p[i] = ParseLine(p[i - 1], lines[i])
    PROVE  IsParse(p, lines, n)
<1> DEFINE step(i) == IF i = 0 THEN ParseStart ELSE ParseLine(p[i - 1], lines[i])
<1>1. \A i \in 0..n : p[i] = step(i)
  <2> SUFFICES ASSUME NEW i \in 0..n PROVE p[i] = step(i)
    OBVIOUS
  <2>1. i = 0 \/ i \in 1..n
    OBVIOUS
  <2> QED BY <2>1
<1>2. p = [i \in 0..n |-> step(i)]
  <2> HIDE DEF step
  <2> QED BY <1>1
<1> QED BY <1>2 DEF IsParse

(* A block of any length can be parsed to its end.                         *)
LEMMA ParseExists ==
    ASSUME NEW lines, NEW n \in Nat
    PROVE  \E p : IsParse(p, lines, n)
<1> DEFINE S == {k \in Nat : \E p : IsParse(p, lines, k)}
<1>1. 0 \in S
  <2> DEFINE p == [i \in 0..0 |-> ParseStart]
  <2>1. p = [i \in 0..0 |-> p[i]] /\ p[0] = ParseStart
    OBVIOUS
  <2>2. IsParse(p, lines, 0)
    <3> HIDE DEF p
    <3>1. 0 \in Nat /\ \A i \in 1..0 : p[i] = ParseLine(p[i - 1], lines[i])
      OBVIOUS
    <3> QED BY <2>1, <3>1, StepsParse
  <2> QED BY <2>2
<1>2. ASSUME NEW k \in Nat, k \in S
      PROVE  k + 1 \in S
  <2>1. PICK p : IsParse(p, lines, k)
    BY <1>2
  <2> DEFINE q == [i \in 0..(k + 1) |-> IF i = k + 1 THEN ParseLine(p[k], lines[k + 1]) ELSE p[i]]
  <2>2. p[0] = ParseStart /\ \A i \in 1..k : p[i] = ParseLine(p[i - 1], lines[i])
    BY <2>1, ParseSteps
  <2>3. q = [i \in 0..(k + 1) |-> q[i]]
    OBVIOUS
  <2>4. q[0] = ParseStart
    BY <2>2
  <2>5. ASSUME NEW i \in 1..(k + 1) PROVE q[i] = ParseLine(q[i - 1], lines[i])
    <3>1. CASE i = k + 1
      <4>1. k \in 0..(k + 1) /\ k # k + 1 /\ q[k] = p[k] /\ i - 1 = k
        BY <3>1
      <4>2. q[i] = ParseLine(p[k], lines[k + 1])
        BY <3>1
      <4> HIDE DEF q
      <4> QED BY <3>1, <4>1, <4>2
    <3>2. CASE i # k + 1
      <4>1. i \in 1..k /\ i - 1 \in 0..k /\ i - 1 # k + 1 /\ i - 1 \in 0..(k + 1)
        BY <3>2
      <4>2. q[i] = p[i] /\ q[i - 1] = p[i - 1]
        BY <3>2, <4>1
      <4> HIDE DEF q
      <4> QED BY <2>2, <4>1, <4>2
    <3> QED BY <3>1, <3>2
  <2>6. IsParse(q, lines, k + 1)
    <3> HIDE DEF q
    <3>1. k + 1 \in Nat
      OBVIOUS
    <3> QED BY <3>1, <2>3, <2>4, <2>5, StepsParse
  <2> QED BY <2>6
<1>3. Nat \subseteq S
  <2> HIDE DEF S
  <2> QED BY <1>1, <1>2, NatsInASet
<1> QED BY <1>3

LEMMA ParseContextIsParsed ==
    ASSUME NEW lines, Len(lines) \in Nat
    PROVE  \E p : IsParse(p, lines, Len(lines)) /\ ParseContext(lines) = p[Len(lines)]
<1> DEFINE parsed == CHOOSE p : IsParse(p, lines, Len(lines))
<1>1. IsParse(parsed, lines, Len(lines))
  BY ParseExists
<1>2. ParseContext(lines) = parsed[Len(lines)]
  BY DEF ParseContext, IsParse, ParseStart
<1> QED BY <1>1, <1>2

(* The entries that the lines up to n stand for.                           *)
EntriesTo(lines, n) ==
    {<<lines[j].key, lines[j].value>> : j \in {k \in 1..n : lines[k].form # "blank"}}

(* What is true after n lines: the loop stops only with an error; the      *)
(* context is within the cap and has one entry per key; and until there is *)
(* an error it holds every entry so far.                                   *)
ParseInv(state, lines, n) ==
    /\ state = [context |-> state.context, errors |-> state.errors, stopped |-> state.stopped]
    /\ state.errors \in Nat
    /\ state.stopped \in BOOLEAN
    /\ state.stopped => state.errors # 0
    /\ IsFiniteSet(state.context)
    /\ Cardinality(state.context) <= MAX_CONTEXT_ENTRIES
    /\ IsFiniteSet(Keys(state.context))
    /\ Cardinality(Keys(state.context)) = Cardinality(state.context)
    /\ state.errors = 0 => state.context = EntriesTo(lines, n)

LEMMA NextEntry ==
    ASSUME NEW lines, NEW n \in Nat
    PROVE  EntriesTo(lines, n + 1) =
              IF lines[n + 1].form = "blank" THEN EntriesTo(lines, n)
              ELSE EntriesTo(lines, n) \cup {<<lines[n + 1].key, lines[n + 1].value>>}
<1>1. 1..(n + 1) = 1..n \cup {n + 1}
  OBVIOUS
<1> DEFINE said(m) == {k \in 1..m : lines[k].form # "blank"}
<1>2. \A j : j \in said(n + 1) <=> j \in said(n) \/ (j = n + 1 /\ lines[n + 1].form # "blank")
  BY <1>1, Zenon
<1> HIDE DEF said
<1>3. \A m, e : e \in EntriesTo(lines, m)
                   <=> \E j \in said(m) : e = <<lines[j].key, lines[j].value>>
  BY DEF EntriesTo, said
<1>4. \A e : e \in EntriesTo(lines, n + 1)
          <=> \/ e \in EntriesTo(lines, n)
              \/ lines[n + 1].form # "blank" /\ e = <<lines[n + 1].key, lines[n + 1].value>>
  <2> DEFINE of(j) == <<lines[j].key, lines[j].value>>
  <2>1. \A m, e : e \in EntriesTo(lines, m) <=> \E j \in said(m) : e = of(j)
    BY <1>3
  <2>2. SUFFICES \A e : e \in EntriesTo(lines, n + 1)
                    <=> \/ e \in EntriesTo(lines, n)
                        \/ lines[n + 1].form # "blank" /\ e = of(n + 1)
    OBVIOUS
  <2> HIDE DEF of
  <2> QED BY <1>2, <2>1
<1> QED BY <1>4

LEMMA ParseLineKeepsInv ==
    ASSUME NEW state, NEW lines, NEW n \in Nat, ParseInv(state, lines, n)
    PROVE  ParseInv(ParseLine(state, lines[n + 1]), lines, n + 1)
<1> DEFINE line == lines[n + 1]
           entry == <<line.key, line.value>>
           next == ParseLine(state, line)
<1> SUFFICES ParseInv(next, lines, n + 1)
  OBVIOUS
<1> DEFINE Is(st, context, errors, stopped) ==
              /\ st = [context |-> st.context, errors |-> st.errors, stopped |-> st.stopped]
              /\ st.context = context /\ st.errors = errors /\ st.stopped = stopped
<1>0. Is(state, state.context, state.errors, state.stopped) /\ MAX_CONTEXT_ENTRIES \in Nat
  BY VocabularyAssumption DEF ParseInv
<1>1. CASE state.stopped \/ line.form = "blank"
  <2>1. next = state
    BY <1>1 DEF ParseLine
  <2>2. state.errors = 0 => line.form = "blank"
    BY <1>1 DEF ParseInv
  <2>3. state.errors = 0 => EntriesTo(lines, n + 1) = EntriesTo(lines, n)
    BY <2>2, NextEntry
  <2> HIDE DEF next
  <2> QED BY <2>1, <2>3 DEF ParseInv
<1>2. CASE ~(state.stopped \/ line.form = "blank")
  <2>1. CASE Cardinality(state.context) >= MAX_CONTEXT_ENTRIES
    <3>1. Is(next, state.context, state.errors + 1, TRUE)
      <4>1. next = [state EXCEPT !.errors = state.errors + 1, !.stopped = TRUE]
        BY <1>2, <2>1 DEF ParseLine
      <4> QED BY <1>0, <4>1
    <3>2. state.errors + 1 \in Nat /\ state.errors + 1 # 0
      BY DEF ParseInv
    <3> HIDE DEF next
    <3> QED BY <3>1, <3>2, Zenon DEF ParseInv
  <2>2. CASE /\ ~(Cardinality(state.context) >= MAX_CONTEXT_ENTRIES)
             /\ LineBroken(line) \/ line.key \in Keys(state.context)
    <3>1. Is(next, state.context, state.errors + 1, state.stopped)
      <4>1. next = [state EXCEPT !.errors = state.errors + 1]
        BY <1>2, <2>2 DEF ParseLine
      <4> QED BY <1>0, <4>1
    <3>2. state.errors + 1 \in Nat /\ state.errors + 1 # 0
      BY DEF ParseInv
    <3> HIDE DEF next
    <3> QED BY <3>1, <3>2, Zenon DEF ParseInv
  <2>3. CASE /\ ~(Cardinality(state.context) >= MAX_CONTEXT_ENTRIES)
             /\ ~(LineBroken(line) \/ line.key \in Keys(state.context))
    <3> DEFINE context == state.context \cup {entry}
    <3>1. Is(next, context, state.errors, state.stopped)
      <4>1. next = [state EXCEPT !.context = context]
        BY <1>2, <2>3 DEF ParseLine
      <4> HIDE DEF context
      <4> QED BY <1>0, <4>1
    <3>2. Keys(context) = Keys(state.context) \cup {line.key} /\ entry \notin state.context
      BY <2>3 DEF Keys
    <3>3. IsFiniteSet(state.context) /\ IsFiniteSet(Keys(state.context))
      BY DEF ParseInv
    <3>4. IsFiniteSet(context) /\ Cardinality(context) = Cardinality(state.context) + 1
      BY <3>2, <3>3, FS_AddElement
    <3>5. /\ IsFiniteSet(Keys(context))
          /\ Cardinality(Keys(context)) = Cardinality(Keys(state.context)) + 1
      BY <2>3, <3>2, <3>3, FS_AddElement
    <3>6. Cardinality(state.context) \in Nat
      BY <3>3, FS_CardinalityType
    <3>7. Cardinality(context) <= MAX_CONTEXT_ENTRIES
      BY <1>0, <2>3, <3>4, <3>6
    <3>8. state.errors = 0 => context = EntriesTo(lines, n + 1)
      BY <1>2, NextEntry DEF ParseInv
    <3> HIDE DEF next, context
    <3> QED BY <3>1, <3>4, <3>5, <3>7, <3>8, Zenon DEF ParseInv
  <2> QED BY <2>1, <2>2, <2>3
<1> QED BY <1>1, <1>2

(* What the parser returns for a block of lines.                           *)
LEMMA ParsedContext ==
    ASSUME NEW lines, Len(lines) \in Nat
    PROVE  ParseInv(ParseContext(lines), lines, Len(lines))
<1>1. PICK p : IsParse(p, lines, Len(lines)) /\ ParseContext(lines) = p[Len(lines)]
  BY ParseContextIsParsed
<1> DEFINE S == {i \in Nat : i <= Len(lines) => ParseInv(p[i], lines, i)}
<1>2. /\ p[0] = ParseStart
      /\ \A i \in 1..Len(lines) : p[i] = ParseLine(p[i - 1], lines[i])
  BY <1>1, ParseSteps
<1>3. 0 \in S
  <2>1. EntriesTo(lines, 0) = {} /\ Keys({}) = {}
    BY DEF EntriesTo, Keys
  <2>2. MAX_CONTEXT_ENTRIES \in Nat
    BY VocabularyAssumption
  <2>3. 0 \in Nat /\ Cardinality({}) = 0 /\ IsFiniteSet({}) /\ 0 <= MAX_CONTEXT_ENTRIES
    BY <2>2, FS_EmptySet
  <2>4. ParseInv(ParseStart, lines, 0)
    BY <2>1, <2>3, Zenon DEF ParseInv, ParseStart
  <2> QED BY <1>2, <2>4
<1>4. ASSUME NEW i \in Nat, i \in S PROVE i + 1 \in S
  <2> SUFFICES ASSUME i + 1 <= Len(lines) PROVE ParseInv(p[i + 1], lines, i + 1)
    OBVIOUS
  <2>1. ParseInv(p[i], lines, i)
    BY <1>4
  <2>2. p[i + 1] = ParseLine(p[i], lines[i + 1])
    <3>1. i + 1 \in 1..Len(lines) /\ (i + 1) - 1 = i
      OBVIOUS
    <3> QED BY <1>2, <3>1
  <2> QED BY <2>1, <2>2, ParseLineKeepsInv
<1>5. Nat \subseteq S
  <2> HIDE DEF S
  <2> QED BY <1>3, <1>4, NatsInASet
<1>6. Len(lines) \in S
  BY <1>5
<1> QED BY <1>1, <1>6

(* A blank first line changes nothing.                                     *)
LEMMA LeadingBlankLine ==
    ASSUME NEW T, NEW lines \in Seq(T), lines # <<>>, lines[1].form = "blank"
    PROVE  ParseContext(Tail(lines)) = ParseContext(lines)
<1> DEFINE n == Len(lines)
           rest == Tail(lines)
<1>1. /\ n \in Nat \ {0} /\ n - 1 \in Nat /\ Len(rest) = n - 1
      /\ \A i \in 1..(n - 1) : rest[i] = lines[i + 1]
  OBVIOUS
<1> HIDE DEF n, rest
<1>2. PICK p : IsParse(p, lines, n) /\ ParseContext(lines) = p[n]
  BY <1>1, ParseContextIsParsed DEF n
<1>3. PICK q : IsParse(q, rest, n - 1) /\ ParseContext(rest) = q[n - 1]
  BY <1>1, ParseContextIsParsed
<1>4. /\ p[0] = ParseStart
      /\ \A i \in 1..n : p[i] = ParseLine(p[i - 1], lines[i])
      /\ q[0] = ParseStart
      /\ \A i \in 1..(n - 1) : q[i] = ParseLine(q[i - 1], rest[i])
  BY <1>1, <1>2, <1>3, ParseSteps
<1> DEFINE S == {i \in Nat : i <= n - 1 => q[i] = p[i + 1]}
<1>5. 0 \in S
  <2>1. p[1] = ParseLine(ParseStart, lines[1])
    <3>1. 1 \in 1..n /\ 1 - 1 = 0
      BY <1>1
    <3> QED BY <1>4, <3>1
  <2>2. p[1] = ParseStart
    BY <2>1 DEF ParseLine
  <2> QED BY <1>4, <2>2
<1>6. ASSUME NEW i \in Nat, i \in S PROVE i + 1 \in S
  <2> SUFFICES ASSUME i + 1 <= n - 1 PROVE q[i + 1] = p[(i + 1) + 1]
    OBVIOUS
  <2>1. /\ i + 1 \in 1..(n - 1) /\ (i + 1) - 1 = i /\ i <= n - 1
        /\ (i + 1) + 1 \in 1..n /\ ((i + 1) + 1) - 1 = i + 1
    BY <1>1
  <2>2. q[i] = p[i + 1]
    BY <1>6, <2>1
  <2>3. q[i + 1] = ParseLine(q[i], rest[i + 1]) /\ rest[i + 1] = lines[(i + 1) + 1]
    BY <1>1, <1>4, <2>1
  <2>4. p[(i + 1) + 1] = ParseLine(p[i + 1], lines[(i + 1) + 1])
    BY <1>4, <2>1
  <2> QED BY <2>2, <2>3, <2>4
<1>7. Nat \subseteq S
  <2> HIDE DEF S
  <2> QED BY <1>5, <1>6, NatsInASet
<1>8. q[n - 1] = p[(n - 1) + 1] /\ (n - 1) + 1 = n
  BY <1>1, <1>7
<1> QED BY <1>2, <1>3, <1>8 DEF rest

----------------------------------------------------------------------------
(* The request builders.                                                   *)

LEMMA TruthyKeeps ==
    ASSUME NEW v
    PROVE  Truthy(OrAbsent(v)) = OrAbsent(v)
  BY DEF Truthy, OrAbsent

(* Taking a valid request apart and posting it sends the request.          *)
LEMMA WireBodyIsTheRequest ==
    ASSUME NEW f, Built(f).ok, Endpoint(f) # "none"
    PROVE  WireBody(f) = Built(f).request
<1>1. CASE Endpoint(f) = "operation_aware"
  <2> DEFINE r == [action |-> f.action_verb, resource_type |-> OrAbsent(f.resource_type),
                   resource_id |-> OrAbsent(f.resource_id), request_id |-> OrAbsent(f.request_id),
                   context |-> {}]
  <2>1. Built(f).request = r
    BY <1>1 DEF Built, BuildOperationAwareSimulation, GatewayPayload, NoRequest
  <2>2. OperationAwareBody(r) = r
    BY TruthyKeeps DEF OperationAwareBody
  <2> HIDE DEF r
  <2> QED
    BY <1>1, <2>1, <2>2 DEF WireBody
<1>2. CASE Endpoint(f) # "operation_aware"
  <2> DEFINE entries == ParseContext(f.context).context
             r == [action |-> f.action_verb, resource_type |-> OrAbsent(f.resource_type),
                   resource_id |-> OrAbsent(f.resource_id), request_id |-> Absent,
                   context |-> entries]
  <2> HIDE DEF entries
  <2>1. Built(f).request = r
    BY <1>2 DEF Built, BuildSimulation, GatewayPayload, NoRequest, entries
  <2>2. EvaluateBody(r) = r
    BY TruthyKeeps DEF EvaluateBody
  <2> HIDE DEF r
  <2> QED
    BY <1>2, <2>1, <2>2 DEF WireBody
<1> QED
  BY <1>1, <1>2

(* What a form that is accepted is like, and the request made of it.       *)
LEMMA AcceptedForm ==
    ASSUME NEW f, Built(f).ok, Endpoint(f) # "none"
    PROVE  LET r == Built(f).request IN
           /\ f.action_verb \in ACTION_VERBS /\ r.action = f.action_verb
           /\ f.resource_type \in RESOURCE_TYPES /\ r.resource_type = f.resource_type
           /\ f.resource_id \notin LongTexts \cup UnsafeTexts \cup TypedTexts
           /\ r.resource_id = OrAbsent(f.resource_id)
           /\ Endpoint(f) = "legacy" =>
                 /\ SimulationErrors(f) = {}
                 /\ ParseContext(f.context).errors \in Nat => ParseContext(f.context).errors = 0
                 /\ r.context = ParseContext(f.context).context
                 /\ r.request_id = Absent
           /\ Endpoint(f) = "operation_aware" =>
                 /\ OperationAwareErrors(f) = {}
                 /\ LegacyOnlyFieldErrors(f) = {}
                 /\ \A i \in DOMAIN f.context : f.context[i].form = "blank"
                 /\ r.context = {}
                 /\ r.request_id = OrAbsent(f.request_id)
<1> DEFINE r == Built(f).request
<1>0. \A v \in RESOURCE_TYPES : OrAbsent(v) = v
  BY VocabularyAssumption DEF OrAbsent
<1>1. CASE Endpoint(f) = "operation_aware"
  <2>1. OperationAwareErrors(f) = {}
    BY <1>1 DEF Built, BuildOperationAwareSimulation
  <2>2. LegacyOnlyFieldErrors(f) = {} /\ RequestFieldErrors(f) = {}
    BY <2>1 DEF OperationAwareErrors
  <2>3. /\ f.action_verb \in ACTION_VERBS /\ f.resource_type \in RESOURCE_TYPES
        /\ f.resource_id \notin LongTexts \cup UnsafeTexts \cup TypedTexts
    BY <2>2, Zenon DEF RequestFieldErrors
  <2>4. \A i \in DOMAIN f.context : f.context[i].form = "blank"
    BY <2>2, Zenon DEF LegacyOnlyFieldErrors
  <2>5. r = [action |-> f.action_verb, resource_type |-> OrAbsent(f.resource_type),
             resource_id |-> OrAbsent(f.resource_id), request_id |-> OrAbsent(f.request_id),
             context |-> {}]
    BY <1>1 DEF Built, BuildOperationAwareSimulation, GatewayPayload, NoRequest
  <2> HIDE DEF r
  <2>6. /\ r.action = f.action_verb /\ r.resource_type = f.resource_type
        /\ r.resource_id = OrAbsent(f.resource_id) /\ r.request_id = OrAbsent(f.request_id)
        /\ r.context = {}
    BY <1>0, <2>3, <2>5
  <2> QED BY <1>1, <2>1, <2>2, <2>3, <2>4, <2>6 DEF r
<1>2. CASE Endpoint(f) = "legacy"
  <2> DEFINE parsed == ParseContext(f.context)
  <2> HIDE DEF parsed
  <2>1. SimulationErrors(f) = {}
    BY <1>2 DEF Built, BuildSimulation
  <2>2. RequestFieldErrors(f) = {} /\ ~(parsed.errors > 0)
    BY <2>1, Zenon DEF SimulationErrors, parsed
  <2>3. /\ f.action_verb \in ACTION_VERBS /\ f.resource_type \in RESOURCE_TYPES
        /\ f.resource_id \notin LongTexts \cup UnsafeTexts \cup TypedTexts
    BY <2>2, Zenon DEF RequestFieldErrors
  <2>4. parsed.errors \in Nat => parsed.errors = 0
    BY <2>2
  <2>5. r = [action |-> f.action_verb, resource_type |-> OrAbsent(f.resource_type),
             resource_id |-> OrAbsent(f.resource_id), request_id |-> Absent,
             context |-> parsed.context]
    BY <1>2 DEF Built, BuildSimulation, GatewayPayload, NoRequest, parsed
  <2> HIDE DEF r
  <2>6. /\ r.action = f.action_verb /\ r.resource_type = f.resource_type
        /\ r.resource_id = OrAbsent(f.resource_id) /\ r.request_id = Absent
        /\ r.context = parsed.context
    BY <1>0, <2>3, <2>5
  <2> QED BY <1>2, <2>1, <2>3, <2>4, <2>6 DEF r, parsed
<1>3. Endpoint(f) \in {"none", "legacy", "operation_aware"}
  BY DEF Endpoint, ParseEvaluationType
<1> QED BY <1>1, <1>2, <1>3

(* Every non-blank line of an accepted form is an entry of its request,    *)
(* the entries have different keys, and there are no more than the cap.    *)
LEMMA AcceptedContext ==
    ASSUME NEW T, NEW f, f.context \in Seq(T), Built(f).ok, Endpoint(f) # "none"
    PROVE  LET entries == Built(f).request.context IN
           /\ entries = EntriesTo(f.context, Len(f.context))
           /\ Cardinality(entries) <= MAX_CONTEXT_ENTRIES
           /\ Cardinality(Keys(entries)) = Cardinality(entries)
<1> DEFINE lines == f.context
           entries == Built(f).request.context
<1>1. Len(lines) \in Nat /\ DOMAIN lines = 1..Len(lines)
  OBVIOUS
<1>2. CASE Endpoint(f) = "operation_aware"
  <2>1. entries = {} /\ \A i \in DOMAIN lines : lines[i].form = "blank"
    BY <1>2, AcceptedForm
  <2>2. EntriesTo(lines, Len(lines)) = {} /\ Keys({}) = {}
    BY <1>1, <2>1 DEF EntriesTo, Keys
  <2>3. MAX_CONTEXT_ENTRIES \in Nat /\ Cardinality({}) = 0
    BY VocabularyAssumption, FS_EmptySet
  <2> HIDE DEF entries, lines
  <2>4. /\ entries = EntriesTo(lines, Len(lines))
        /\ Cardinality(entries) <= MAX_CONTEXT_ENTRIES
        /\ Cardinality(Keys(entries)) = Cardinality(entries)
    BY <2>1, <2>2, <2>3
  <2> QED BY <2>4 DEF entries, lines
<1>3. CASE Endpoint(f) = "legacy"
  <2> DEFINE parsed == ParseContext(lines)
  <2>1. ParseInv(parsed, lines, Len(lines))
    BY <1>1, ParsedContext
  <2>2. parsed.errors = 0 /\ entries = parsed.context
    BY <1>3, <2>1, AcceptedForm DEF ParseInv
  <2> HIDE DEF entries, lines, parsed
  <2>3. /\ entries = EntriesTo(lines, Len(lines))
        /\ Cardinality(entries) <= MAX_CONTEXT_ENTRIES
        /\ Cardinality(Keys(entries)) = Cardinality(entries)
    BY <2>1, <2>2 DEF ParseInv
  <2> QED BY <2>3 DEF entries, lines
<1>4. Endpoint(f) \in {"none", "legacy", "operation_aware"}
  BY DEF Endpoint, ParseEvaluationType
<1> QED BY <1>2, <1>3, <1>4

=============================================================================
