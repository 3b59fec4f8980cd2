--------------------------- MODULE MCProviderCall ---------------------------
(* Values for TLC: a representative of every class of status, of every way a *)
(* model name is routed, and of every way a body can be odd.                 *)
EXTENDS ProviderCall

AllOutcomes ==
    {"200", "400", "401", "404", "422", "429", "500", "503"} \cup NoStatus

M(role, text) == [role |-> role, text |-> text]

Conversations ==
    {<<M("user", "a")>>,
     <<M("system", "s1")>>,
     <<M("system", "s1"), M("user", "a"), M("assistant", "b"), M("user", "c")>>,
     <<M("system", "s1"), M("user", "a"), M("system", "s2"), M("assistant", "b")>>}

Models ==
    [name : {"gemini", "gpt-x", "claude-x"}, exact : {TRUE}]
        \cup [name : {"gemini", "default"}, exact : {FALSE}]

AllCalls ==
    [model : Models, messages : Conversations, keyed : {TRUE}]
        \cup [model : [name : {"gemma-x", "o1-x", "claude-x"}, exact : {TRUE}],
              messages : {<<M("user", "a")>>}, keyed : {FALSE}]

Reasons == {"absent", "null"} \cup UNION {Dialect(p) : p \in Providers}

(* Every shape of the list and its first element; every reason; every count. *)
AllBodies ==
    [list : {"absent", "null", "empty", "garbled"}, message : {"absent"}, text : {"absent"},
     reason : {"absent"}, usage : {"given"}, in : {2}, out : {1}, total : {4}]
        \cup [list : {"first"}, message : Shapes, text : Shapes, reason : {"null"},
              usage : {"given"}, in : {2}, out : {1}, total : {3}]
        \cup [list : {"first"}, message : {"given"}, text : {"given"}, reason : Reasons,
              usage : {"given"}, in : {3}, out : {1}, total : {None}]
        \cup [list : {"first"}, message : {"given"}, text : {"given"}, reason : {"absent"},
              usage : {"given"}, in : {None, Null, 2}, out : {None, Null, 1},
              total : {None, Null, 3}]
        \cup [list : {"first"}, message : {"given"}, text : {"given"}, reason : {"null"},
              usage : {"absent", "null"}, in : {None}, out : {None}, total : {None}]
=============================================================================
