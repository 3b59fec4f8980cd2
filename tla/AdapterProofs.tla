---------------------------- MODULE AdapterProofs ----------------------------
(***************************************************************************)
(* What the operators of Adapters compute, for every conversation and      *)
(* every body: lemmas for the proofs about the calls that use them.        *)
(***************************************************************************)
EXTENDS Adapters, Induction, TLAPS

(* The loop behind OfRoles, as a function that the model writes with a LET. *)
Builds(after, messages, roles) ==
    after = [i \in 0..Len(messages) |->
               IF i = 0 THEN <<>>
               ELSE IF messages[i].role \in roles THEN Append(after[i - 1], messages[i])
               ELSE after[i - 1]]

(* The same, step by step. *)
Runs(after, messages, roles) ==
    /\ after[0] = <<>>
    /\ \A i \in 1..Len(messages) :
          /\ messages[i].role \in roles => after[i] = Append(after[i - 1], messages[i])
          /\ messages[i].role \notin roles => after[i] = after[i - 1]

(* The loop comes to its end. *)
LEMMA LoopEnds ==
    ASSUME NEW M, NEW messages \in Seq(M), NEW roles
    PROVE  \E after : Builds(after, messages, roles)
<1> DEFINE X == Seq(M)
           empty == <<>>
           step == [i \in Nat |-> [s \in X |->
                      IF i + 1 \in 1..Len(messages) /\ messages[i + 1].role \in roles
                      THEN Append(s, messages[i + 1])
                      ELSE s]]
<1>1. step \in [Nat -> [X -> X]] /\ empty \in X
  OBVIOUS
<1>2. \A i \in Nat, s \in X : i + 1 \in 1..Len(messages) =>
         step[i][s] = IF messages[i + 1].role \in roles THEN Append(s, messages[i + 1]) ELSE s
  OBVIOUS
<1> HIDE DEF step, X, empty
<1>3. PICK f \in [Nat -> X] : Iterates(f, empty, step)
  BY <1>1, RecursionOnNat
<1>4. ASSUME NEW i \in 1..Len(messages)
      PROVE  f[i] = IF messages[i].role \in roles THEN Append(f[i - 1], messages[i]) ELSE f[i - 1]
  <2>1. i - 1 \in Nat /\ (i - 1) + 1 = i
    OBVIOUS
  <2>2. f[i - 1] \in X /\ f[i] = step[i - 1][f[i - 1]]
    BY <2>1, <1>3 DEF Iterates
  <2> QED
    BY <2>1, <2>2, <1>2
<1> DEFINE after == [i \in 0..Len(messages) |-> f[i]]
<1>5. Len(messages) \in Nat
  OBVIOUS
<1>6. Builds(after, messages, roles)
  <2>1. after[0] = <<>>
    BY <1>3, <1>5 DEF Iterates, empty
  <2>2. ASSUME NEW i \in 0..Len(messages), i # 0
        PROVE  after[i] = IF messages[i].role \in roles
                          THEN Append(after[i - 1], messages[i]) ELSE after[i - 1]
    <3>1. i \in 1..Len(messages) /\ after[i] = f[i] /\ after[i - 1] = f[i - 1]
      BY <2>2, <1>5
    <3> QED
      BY <3>1, <1>4
  <2>3. after = [i \in 0..Len(messages) |-> after[i]]
    OBVIOUS
  <2> HIDE DEF after
  <2> QED
    BY <2>1, <2>2, <2>3 DEF Builds
<1> QED
  BY <1>6

(* OfRoles is what the loop ends with. *)
LEMMA OfRolesIsLoop ==
    ASSUME NEW M, NEW messages \in Seq(M), NEW roles
    PROVE  \E after : /\ Runs(after, messages, roles)
                      /\ OfRoles(messages, roles) = after[Len(messages)]
<1> DEFINE after == CHOOSE h : Builds(h, messages, roles)
<1>1. Builds(after, messages, roles)
  BY LoopEnds, Zenon
<1>2. OfRoles(messages, roles) = after[Len(messages)]
  BY DEF OfRoles, Builds
<1> HIDE DEF after
<1>3. \A i \in 0..Len(messages) :
         after[i] = IF i = 0 THEN <<>>
                    ELSE IF messages[i].role \in roles THEN Append(after[i - 1], messages[i])
                    ELSE after[i - 1]
  BY <1>1, Zenon DEF Builds
<1>4. Len(messages) \in Nat
  OBVIOUS
<1>5. 0 \in 0..Len(messages) /\ \A i \in 1..Len(messages) : i \in 0..Len(messages) /\ i # 0
  BY <1>4
<1>6. Runs(after, messages, roles)
  BY <1>3, <1>5, Zenon DEF Runs
<1> QED
  BY <1>2, <1>6

(* What OfRoles returns is a list of messages of the wanted roles. *)
LEMMA OfRolesType ==
    ASSUME NEW M, NEW messages \in Seq(M), NEW roles
    PROVE  OfRoles(messages, roles) \in Seq({m \in M : m.role \in roles})
<1> DEFINE T == {m \in M : m.role \in roles}
<1>1. PICK after : /\ Runs(after, messages, roles)
                   /\ OfRoles(messages, roles) = after[Len(messages)]
  BY OfRolesIsLoop
<1> DEFINE S == {i \in Nat : i <= Len(messages) => after[i] \in Seq(T)}
<1>2. Len(messages) \in Nat
  OBVIOUS
<1>3. 0 \in S
  <2>1. after[0] = <<>>
    BY <1>1 DEF Runs
  <2>2. <<>> \in Seq(T)
    OBVIOUS
  <2> HIDE DEF T
  <2>3. after[0] \in Seq(T)
    BY <2>1, <2>2
  <2> QED
    BY <2>3
<1>4. ASSUME NEW i \in S PROVE i + 1 \in S
  <2> SUFFICES ASSUME i + 1 <= Len(messages) PROVE after[i + 1] \in Seq(T)
    OBVIOUS
  <2>1. i + 1 \in 1..Len(messages) /\ (i + 1) - 1 = i /\ after[i] \in Seq(T)
    BY <1>2
  <2>2. messages[i + 1] \in M
    BY <2>1
  <2>3. \/ after[i + 1] = after[i]
        \/ messages[i + 1].role \in roles /\ after[i + 1] = Append(after[i], messages[i + 1])
    BY <2>1, <1>1 DEF Runs
  <2>4. messages[i + 1].role \in roles => messages[i + 1] \in T
    BY <2>2
  <2> HIDE DEF T
  <2>5. CASE after[i + 1] = after[i]
    BY <2>1, <2>5
  <2>6. CASE messages[i + 1] \in T /\ after[i + 1] = Append(after[i], messages[i + 1])
    <3>1. after[i] \in Seq(T) /\ messages[i + 1] \in T
      BY <2>1, <2>6
    <3>2. Append(after[i], messages[i + 1]) \in Seq(T)
      BY <3>1
    <3> QED
      BY <2>6, <3>2
  <2> QED
    BY <2>3, <2>4, <2>5, <2>6
<1>5. Len(messages) \in S
  <2>1. S \in SUBSET Nat
    OBVIOUS
  <2> HIDE DEF S
  <2> QED
    BY <2>1, <1>2, <1>3, <1>4, InductionOnNat
<1> QED
  BY <1>1, <1>2, <1>5

(* Nothing is dropped from a list whose messages all are of these roles. *)
LEMMA OfRolesAll ==
    ASSUME NEW M, NEW messages \in Seq(M), NEW roles,
           \A i \in 1..Len(messages) : messages[i].role \in roles
    PROVE  OfRoles(messages, roles) = messages
<1>1. PICK after : /\ Runs(after, messages, roles)
                   /\ OfRoles(messages, roles) = after[Len(messages)]
  BY OfRolesIsLoop
<1> DEFINE S == {i \in Nat : i <= Len(messages) => after[i] = SubSeq(messages, 1, i)}
<1>2. Len(messages) \in Nat
  OBVIOUS
<1>3. 0 \in S
  <2>1. after[0] = <<>>
    BY <1>1 DEF Runs
  <2>2. SubSeq(messages, 1, 0) = <<>>
    OBVIOUS
  <2> QED
    BY <2>1, <2>2
<1>4. ASSUME NEW i \in S PROVE i + 1 \in S
  <2> SUFFICES ASSUME i + 1 <= Len(messages) PROVE after[i + 1] = SubSeq(messages, 1, i + 1)
    OBVIOUS
  <2>1. i + 1 \in 1..Len(messages) /\ (i + 1) - 1 = i /\ after[i] = SubSeq(messages, 1, i)
    BY <1>2
  <2>2. after[i + 1] = Append(after[i], messages[i + 1])
    BY <2>1, <1>1 DEF Runs
  <2>3. Append(SubSeq(messages, 1, i), messages[i + 1]) = SubSeq(messages, 1, i + 1)
    BY <2>1
  <2> QED
    BY <2>1, <2>2, <2>3
<1>5. Len(messages) \in S
  <2>1. S \in SUBSET Nat
    OBVIOUS
  <2> HIDE DEF S
  <2> QED
    BY <2>1, <1>2, <1>3, <1>4, InductionOnNat
<1>6. after[Len(messages)] = SubSeq(messages, 1, Len(messages))
  BY <1>2, <1>5
<1>7. SubSeq(messages, 1, Len(messages)) = messages
  OBVIOUS
<1> QED
  BY <1>1, <1>6, <1>7

(* Nothing is left of a list whose messages all are of other roles. *)
LEMMA OfRolesNone ==
    ASSUME NEW M, NEW messages \in Seq(M), NEW roles,
           \A i \in 1..Len(messages) : messages[i].role \notin roles
    PROVE  OfRoles(messages, roles) = <<>>
<1>1. PICK after : /\ Runs(after, messages, roles)
                   /\ OfRoles(messages, roles) = after[Len(messages)]
  BY OfRolesIsLoop
<1> DEFINE S == {i \in Nat : i <= Len(messages) => after[i] = <<>>}
<1>2. Len(messages) \in Nat
  OBVIOUS
<1>3. 0 \in S
  <2>1. after[0] = <<>>
    BY <1>1 DEF Runs
  <2> QED
    BY <2>1
<1>4. ASSUME NEW i \in S PROVE i + 1 \in S
  <2> SUFFICES ASSUME i + 1 <= Len(messages) PROVE after[i + 1] = <<>>
    OBVIOUS
  <2>1. i + 1 \in 1..Len(messages) /\ (i + 1) - 1 = i /\ after[i] = <<>>
    BY <1>2
  <2>2. after[i + 1] = after[i]
    BY <2>1, <1>1 DEF Runs
  <2> QED
    BY <2>1, <2>2
<1>5. Len(messages) \in S
  <2>1. S \in SUBSET Nat
    OBVIOUS
  <2> HIDE DEF S
  <2> QED
    BY <2>1, <1>2, <1>3, <1>4, InductionOnNat
<1>6. after[Len(messages)] = <<>>
  BY <1>2, <1>5
<1> QED
  BY <1>1, <1>6
-----------------------------------------------------------------------------
(* Bodies *)

(* A body that can be read has counts where they are looked at. *)
LEMMA CountsType ==
    ASSUME NEW provider \in Providers, NEW b \in Body, ~Unreadable(provider, b),
           b.usage = "given"
    PROVE  /\ b.in \in Nat \cup {None} /\ b.out \in Nat \cup {None}
           /\ provider # "anthropic" => b.total \in Nat \cup {None}
BY DEF Body, Providers, Unreadable, OpenAIUnreadable, AnthropicUnreadable, GeminiUnreadable,
       UsageUnreadable, None, Null

(* What the adapters return is an LLMResponse. *)
LEMMA NormalisedType ==
    ASSUME NEW provider \in Providers, NEW b \in Body, ~Unreadable(provider, b),
           b.reason \in Dialect(provider) \cup {"absent", "null"}
    PROVE  Normalised(provider, b) \in LLMResponse
<1>1. Content(provider, b) \in {"", "text"}
  BY DEF Content
<1>2. FinishReason(provider, b) \in
         {"stop", "length", "content_filter", "malformed_function_call"}
            \cup Dialect("openai") \cup Dialect("anthropic")
  BY DEF FinishReason, GeminiReason, Dialect, Providers
<1>3. Tokens(provider, b) \in [in : Nat, out : Nat, total : Nat]
  <2>1. CASE b.usage # "given"
    BY <2>1 DEF Tokens
  <2>2. CASE b.usage = "given"
    <3>1. /\ Count(b.in, 0) \in Nat /\ Count(b.out, 0) \in Nat
          /\ provider # "anthropic" => b.total \in Nat \cup {None}
      BY <2>2, CountsType DEF Count
    <3>2. provider # "anthropic" => Count(b.total, Count(b.in, 0) + Count(b.out, 0)) \in Nat
      BY <3>1 DEF Count
    <3> QED
      BY <2>2, <3>1, <3>2 DEF Tokens
  <2> QED
    BY <2>1, <2>2
<1> QED
  BY <1>1, <1>2, <1>3 DEF Normalised, LLMResponse
=============================================================================
