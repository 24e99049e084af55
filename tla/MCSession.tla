----------------------------- MODULE MCSession -----------------------------
(***************************************************************************)
(* Values for the constants of SimulateSession: the sample scenarios, what *)
(* an operator types, and what a call may return.                          *)
(***************************************************************************)
EXTENDS SimulateSession

MC_ACTION_VERBS == {"read", "write", "execute"}
MC_RESOURCE_TYPES == {"ahu", "setpoint", "device"}
MC_LongTexts == {"long"}
MC_UnsafeTexts == {"roof top"}
MC_UnsafeValues == {"<b>"}
MC_NonSlugTexts == {"", "roof top", "ahu:1"}
MC_TypedTexts == {"ahu:1"}

TwoClients == [base_url : BOOLEAN, token : {TRUE}]

Pair(key, value) == [form |-> "pair", key |-> key, value |-> value]
BlankLine == [form |-> "blank", key |-> "", value |-> ""]

(* sample_simulator_scenarios, without titles and summaries.               *)
Scenario(subject, kind, verb, type, id, context) ==
    [subject_id |-> subject, subject_type |-> kind, action_verb |-> verb, resource_type |-> type,
     resource_id |-> id, context |-> context, request_id |-> ""]

SampleScenarios ==
    {Scenario("operator-jane", "user", "read", "ahu", "rooftop-1", <<Pair("site", "bldg-a")>>),
     Scenario("tech-mike", "user", "write", "setpoint", "zone-3",
              <<Pair("maintenance_window", "true"), Pair("site", "bldg-a")>>),
     Scenario("vendor-acme", "service", "execute", "device", "restricted-controller",
              <<Pair("vendor", "acme"), Pair("ticket", "chg-1042")>>)}

TypedInputs ==
    [action_verb |-> {"read"}, resource_type |-> {"ahu"}, resource_id |-> {"ahu:1"},
     subject_id |-> {"op"}, subject_type |-> {}, request_id |-> {"r1"},
     context |-> {<<BlankLine, Pair("site", "b")>>}]

----------------------------------------------------------------------------
(* What comes back.                                                        *)

Reply(code, kind, body, raw) ==
    [code |-> code, kind |-> kind, body |-> body, header |-> Null, raw |-> raw]
AllowBody ==
    [EmptyBody EXCEPT !["request_id"] = "g1", !["evaluation_status"] = "completed",
                      !["disposition"] = "allow", !["outcome"] = "allow"]

Object(items) == [kind |-> "object", text |-> "", items |-> items]
List(values) ==
    [kind |-> "list", text |-> "", items |-> [i \in DOMAIN values |-> [key |-> "no_key", value |-> values[i]]]]
Item_(key, value) == [key |-> key, value |-> value]

MC_SensitiveKeys == {"token", "Set-Cookie"}

Leaf1 == Leaf("1")
Session_ == Object(<<Item_("token", Leaf1), Item_("id", Leaf("2"))>>)
Sessions == List(<<Session_, Leaf1>>)
Nested == Object(<<Item_("status", Leaf1), Item_("token", Session_), Item_("data", Sessions)>>)
Deeper == Object(<<Item_("Set-Cookie", Sessions), Item_("more", Nested)>>)
Plain == Object(<<Item_("status", Leaf1)>>)

MC_JsonValues == {Plain, Nested, Deeper, Leaf1, Leaf("2"), Session_, Sessions}

SessionReplies ==
    {Reply(200, "object", AllowBody, Plain), Reply(500, "object", EmptyBody, Deeper),
     Reply(503, "bottomless", EmptyBody, Plain)}

=============================================================================
