----------------------------- MODULE Career_proofs -----------------------------
(***************************************************************************)
(* Proofs about module Career and the tables of module Catalogue: what each *)
(* check promises when requests do not overlap, and what an acceptance and *)
(* an entry are promised when they do.  CareerInv is the invariant: the    *)
(* steps a request has left, what it knows until another one writes its    *)
(* table (KnowsInv), what suggestions find (AcceptInv), and the dates an   *)
(* update was validated with (DatesInv).                                   *)
(***************************************************************************)
EXTENDS Career, FiniteSetTheorems, SequenceTheorems, TLAPS

-----------------------------------------------------------------------------
(***************************************************************************)
(* The steps of a request: short lists, and what is left of them.          *)
(***************************************************************************)

LEMMA Four ==
  ASSUME NEW a, NEW b, NEW c, NEW d
  PROVE  /\ Head(<<a, b, c, d>>) = a /\ Len(<<a, b, c, d>>) = 4 /\ <<a, b, c, d>> # <<>>
         /\ Tail(<<a, b, c, d>>) = <<b, c, d>>
OBVIOUS

LEMMA Three ==
  ASSUME NEW a, NEW b, NEW c
  PROVE  /\ Head(<<a, b, c>>) = a /\ Len(<<a, b, c>>) = 3 /\ <<a, b, c>> # <<>>
         /\ Tail(<<a, b, c>>) = <<b, c>>
OBVIOUS

LEMMA Two ==
  ASSUME NEW a, NEW b
  PROVE  /\ Head(<<a, b>>) = a /\ Len(<<a, b>>) = 2 /\ <<a, b>> # <<>>
         /\ Tail(<<a, b>>) = <<b>>
OBVIOUS

LEMMA One ==
  ASSUME NEW a
  PROVE  /\ Head(<<a>>) = a /\ Len(<<a>>) = 1 /\ <<a>> # <<>>
OBVIOUS

LEMMA ListsOfSteps ==
  ASSUME NEW a \in Steps, NEW b \in Steps, NEW c \in Steps, NEW d \in Steps
  PROVE  {<<>>, <<a>>, <<a, b>>, <<a, b, c>>, <<a, b, c, d>>} \subseteq Seq(Steps)
OBVIOUS

LEMMA EmptyFirst ==
  ASSUME NEW S, NEW s \in Seq(S) PROVE <<>> \o s = s
OBVIOUS

LEMMA Append1 ==
  ASSUME NEW a \in Steps, NEW b \in Steps
  PROVE  <<a>> \o <<b>> = <<a, b>>
<1> HIDE DEF Steps
<1> DEFINE s == <<a>> \o <<b>>
<1>1. <<a>> \in Seq(Steps) /\ <<b>> \in Seq(Steps) /\ <<a, b>> \in Seq(Steps)
  OBVIOUS
<1>2. /\ Len(s) = 2 /\ s \in Seq(Steps)
      /\ s[1] = a
      /\ s[2] = b
  BY <1>1
<1>3. \A i \in 1..2 : s[i] = <<a, b>>[i]
  <2> SUFFICES ASSUME NEW i \in 1..2 PROVE s[i] = <<a, b>>[i]
    OBVIOUS
  <2>1. i = 1 \/ i = 2
    OBVIOUS
  <2> HIDE DEF s
  <2> QED BY <2>1, <1>2
<1>4. Len(<<a, b>>) = 2
  OBVIOUS
<1> HIDE DEF s
<1>5. s = <<a, b>>
  BY <1>1, <1>2, <1>3, <1>4, SeqEqual
<1> QED BY <1>5 DEF s

LEMMA Append2 ==
  ASSUME NEW a \in Steps, NEW b \in Steps, NEW c \in Steps
  PROVE  <<a, b>> \o <<c>> = <<a, b, c>>
<1> HIDE DEF Steps
<1> DEFINE s == <<a, b>> \o <<c>>
<1>1. <<a, b>> \in Seq(Steps) /\ <<c>> \in Seq(Steps) /\ <<a, b, c>> \in Seq(Steps)
  OBVIOUS
<1>2. /\ Len(s) = 3 /\ s \in Seq(Steps)
      /\ s[1] = a
      /\ s[2] = b
      /\ s[3] = c
  BY <1>1
<1>3. \A i \in 1..3 : s[i] = <<a, b, c>>[i]
  <2> SUFFICES ASSUME NEW i \in 1..3 PROVE s[i] = <<a, b, c>>[i]
    OBVIOUS
  <2>1. i = 1 \/ i = 2 \/ i = 3
    OBVIOUS
  <2> HIDE DEF s
  <2> QED BY <2>1, <1>2
<1>4. Len(<<a, b, c>>) = 3
  OBVIOUS
<1> HIDE DEF s
<1>5. s = <<a, b, c>>
  BY <1>1, <1>2, <1>3, <1>4, SeqEqual
<1> QED BY <1>5 DEF s

LEMMA Append3 ==
  ASSUME NEW a \in Steps, NEW b \in Steps, NEW c \in Steps, NEW d \in Steps
  PROVE  <<a, b, c>> \o <<d>> = <<a, b, c, d>>
<1> HIDE DEF Steps
<1> DEFINE s == <<a, b, c>> \o <<d>>
<1>1. <<a, b, c>> \in Seq(Steps) /\ <<d>> \in Seq(Steps) /\ <<a, b, c, d>> \in Seq(Steps)
  OBVIOUS
<1>2. /\ Len(s) = 4 /\ s \in Seq(Steps)
      /\ s[1] = a
      /\ s[2] = b
      /\ s[3] = c
      /\ s[4] = d
  BY <1>1
<1>3. \A i \in 1..4 : s[i] = <<a, b, c, d>>[i]
  <2> SUFFICES ASSUME NEW i \in 1..4 PROVE s[i] = <<a, b, c, d>>[i]
    OBVIOUS
  <2>1. i = 1 \/ i = 2 \/ i = 3 \/ i = 4
    OBVIOUS
  <2> HIDE DEF s
  <2> QED BY <2>1, <1>2
<1>4. Len(<<a, b, c, d>>) = 4
  OBVIOUS
<1> HIDE DEF s
<1>5. s = <<a, b, c, d>>
  BY <1>1, <1>2, <1>3, <1>4, SeqEqual
<1> QED BY <1>5 DEF s

LEMMA UpdatePlan ==
  ASSUME NEW old, NEW new, new.highlighted \in BOOLEAN
  PROVE  UpdateSteps(old, new) =
           IF new.name # old.name
             THEN IF new.highlighted THEN <<"name", "slug", "count", "update">> ELSE <<"name", "slug", "update">>
             ELSE IF new.highlighted THEN <<"count", "update">> ELSE <<"update">>
<1>1. {"name", "slug", "count", "update"} \subseteq Steps
  BY DEF Steps
<1>2. /\ <<"name", "slug">> \o <<"count">> = <<"name", "slug", "count">>
      /\ <<"name", "slug", "count">> \o <<"update">> = <<"name", "slug", "count", "update">>
      /\ <<"name", "slug">> \o <<"update">> = <<"name", "slug", "update">>
      /\ <<"count">> \o <<"update">> = <<"count", "update">>
  BY <1>1, Append1, Append2, Append3
<1>3. /\ <<>> \o <<"count">> = <<"count">>
      /\ <<>> \o <<"update">> = <<"update">>
      /\ <<"name", "slug">> \o <<>> = <<"name", "slug">>
      /\ <<>> \o <<>> = <<>>
  OBVIOUS
<1>4. CASE new.name # old.name /\ new.highlighted
  BY <1>4, <1>2 DEF UpdateSteps
<1>5. CASE new.name # old.name /\ ~new.highlighted
  BY <1>5, <1>2, <1>3 DEF UpdateSteps
<1>6. CASE new.name = old.name /\ new.highlighted
  BY <1>6, <1>2, <1>3 DEF UpdateSteps
<1>7. CASE new.name = old.name /\ ~new.highlighted
  BY <1>7, <1>3 DEF UpdateSteps
<1> QED BY <1>4, <1>5, <1>6, <1>7

\* What is first in a plan, how long it is and what is left after its first step.
LEMMA Heads ==
  /\ Head(<<"name", "count", "slug", "insert">>) = "name" /\ Len(<<"name", "count", "slug", "insert">>) = 4
  /\ Head(<<"count", "slug", "insert">>) = "count" /\ Len(<<"count", "slug", "insert">>) = 3
  /\ Head(<<"slug", "insert">>) = "slug" /\ Len(<<"slug", "insert">>) = 2
  /\ Head(<<"insert">>) = "insert" /\ Len(<<"insert">>) = 1
  /\ Head(<<"name", "slug", "insert">>) = "name" /\ Len(<<"name", "slug", "insert">>) = 3
  /\ Head(<<"name", "slug", "count", "update">>) = "name" /\ Len(<<"name", "slug", "count", "update">>) = 4
  /\ Head(<<"slug", "count", "update">>) = "slug" /\ Len(<<"slug", "count", "update">>) = 3
  /\ Head(<<"count", "update">>) = "count" /\ Len(<<"count", "update">>) = 2
  /\ Head(<<"update">>) = "update" /\ Len(<<"update">>) = 1
  /\ Head(<<"name", "slug", "update">>) = "name" /\ Len(<<"name", "slug", "update">>) = 3
  /\ Head(<<"slug", "update">>) = "slug" /\ Len(<<"slug", "update">>) = 2
  /\ Head(<<"delete">>) = "delete" /\ Len(<<"delete">>) = 1
  /\ Head(<<"lookup">>) = "lookup" /\ Len(<<"lookup">>) = 1
  /\ Head(<<"next">>) = "next" /\ Len(<<"next">>) = 1
  /\ Head(<<"name", "slug", "insert", "next">>) = "name" /\ Len(<<"name", "slug", "insert", "next">>) = 4
  /\ Head(<<"slug", "insert", "next">>) = "slug" /\ Len(<<"slug", "insert", "next">>) = 3
  /\ Head(<<"insert", "next">>) = "insert" /\ Len(<<"insert", "next">>) = 2
  /\ Head(<<"recover", "next">>) = "recover" /\ Len(<<"recover", "next">>) = 2
BY One, Two, Three, Four

LEMMA Tails ==
  /\ Tail(<<"name", "count", "slug", "insert">>) = <<"count", "slug", "insert">>
  /\ Tail(<<"count", "slug", "insert">>) = <<"slug", "insert">>
  /\ Tail(<<"slug", "insert">>) = <<"insert">>
  /\ Tail(<<"name", "slug", "insert">>) = <<"slug", "insert">>
  /\ Tail(<<"name", "slug", "count", "update">>) = <<"slug", "count", "update">>
  /\ Tail(<<"slug", "count", "update">>) = <<"count", "update">>
  /\ Tail(<<"count", "update">>) = <<"update">>
  /\ Tail(<<"name", "slug", "update">>) = <<"slug", "update">>
  /\ Tail(<<"slug", "update">>) = <<"update">>
  /\ Tail(<<"name", "slug", "insert", "next">>) = <<"slug", "insert", "next">>
  /\ Tail(<<"slug", "insert", "next">>) = <<"insert", "next">>
  /\ Tail(<<"insert", "next">>) = <<"next">>
  /\ Tail(<<"recover", "next">>) = <<"next">>
BY Two, Three, Four

LEMMA PlansAreLists ==
  ASSUME NEW q, q.steps \in PlansOf(q)
  PROVE  q.steps \in Seq(Steps) /\ q.steps # <<>>
<1>1. {"name", "count", "slug", "insert", "update", "delete", "lookup", "next", "recover"} \subseteq Steps
  BY DEF Steps
<1>2. /\ {<<"name", "count", "slug", "insert">>,
           <<"count", "slug", "insert">>,
           <<"slug", "insert">>,
           <<"insert">>,
           <<"name", "slug", "insert">>,
           <<"name", "slug", "count", "update">>,
           <<"slug", "count", "update">>,
           <<"count", "update">>,
           <<"update">>,
           <<"name", "slug", "update">>,
           <<"slug", "update">>,
           <<"delete">>,
           <<"lookup">>,
           <<"next">>,
           <<"name", "slug", "insert", "next">>,
           <<"slug", "insert", "next">>,
           <<"insert", "next">>,
           <<"recover", "next">>} \subseteq Seq(Steps)
  BY <1>1, ListsOfSteps
<1>3. <<>> \notin {<<"name", "count", "slug", "insert">>,
           <<"count", "slug", "insert">>,
           <<"slug", "insert">>,
           <<"insert">>,
           <<"name", "slug", "insert">>,
           <<"name", "slug", "count", "update">>,
           <<"slug", "count", "update">>,
           <<"count", "update">>,
           <<"update">>,
           <<"name", "slug", "update">>,
           <<"slug", "update">>,
           <<"delete">>,
           <<"lookup">>,
           <<"next">>,
           <<"name", "slug", "insert", "next">>,
           <<"slug", "insert", "next">>,
           <<"insert", "next">>,
           <<"recover", "next">>}
  BY One, Two, Three, Four
<1> QED  BY <1>2, <1>3 DEF PlansOf

Second(q) == Head(Tail(q.steps))

\* What comes after each step.
LEMMA AtName ==
  ASSUME NEW q, q.new.highlighted \in BOOLEAN, q.steps \in PlansOf(q), Head(q.steps) = "name"
  PROVE  /\ q.op \in {"create", "update", "suggest"}
         /\ Len(q.steps) # 1 /\ Tail(q.steps) \in PlansOf(q)
         /\ Second(q) = IF q.op = "create" /\ q.new.highlighted THEN "count" ELSE "slug"
<1>1. CASE q.op = "create" /\ q.new.highlighted
  <2>1. PlansOf(q) = {<<"name", "count", "slug", "insert">>, <<"count", "slug", "insert">>, <<"slug", "insert">>,
                     <<"insert">>}
    BY <1>1 DEF PlansOf
  <2>2. q.steps = <<"name", "count", "slug", "insert">>
    BY <2>1, Heads
  <2> QED  BY <1>1, <2>1, <2>2, Heads, Tails DEF Second
<1>2. CASE q.op = "create" /\ ~q.new.highlighted
  <2>1. PlansOf(q) = {<<"name", "slug", "insert">>, <<"slug", "insert">>, <<"insert">>}
    BY <1>2 DEF PlansOf
  <2>2. q.steps = <<"name", "slug", "insert">>
    BY <2>1, Heads
  <2> QED  BY <1>2, <2>1, <2>2, Heads, Tails DEF Second
<1>3. CASE q.op = "update" /\ q.new.highlighted
  <2>1. PlansOf(q) = {<<"name", "slug", "count", "update">>, <<"slug", "count", "update">>, <<"count", "update">>,
                     <<"update">>}
    BY <1>3 DEF PlansOf
  <2>2. q.steps = <<"name", "slug", "count", "update">>
    BY <2>1, Heads
  <2> QED  BY <1>3, <2>1, <2>2, Heads, Tails DEF Second
<1>4. CASE q.op = "update" /\ ~q.new.highlighted
  <2>1. PlansOf(q) = {<<"name", "slug", "update">>, <<"slug", "update">>, <<"update">>}
    BY <1>4 DEF PlansOf
  <2>2. q.steps = <<"name", "slug", "update">>
    BY <2>1, Heads
  <2> QED  BY <1>4, <2>1, <2>2, Heads, Tails DEF Second
<1>5. CASE q.op = "delete"
  <2>1. PlansOf(q) = {<<"delete">>}
    BY <1>5 DEF PlansOf
  <2> QED  BY <2>1, Heads
<1>6. CASE q.op = "suggest"
  <2>1. PlansOf(q) = {<<"lookup">>, <<"next">>, <<"name", "slug", "insert", "next">>,
                     <<"slug", "insert", "next">>, <<"insert", "next">>, <<"recover", "next">>}
    BY <1>6 DEF PlansOf
  <2>2. q.steps = <<"name", "slug", "insert", "next">>
    BY <2>1, Heads
  <2> QED  BY <1>6, <2>1, <2>2, Heads, Tails DEF Second
<1> QED  BY <1>1, <1>2, <1>3, <1>4, <1>5, <1>6 DEF PlansOf

LEMMA AtCount ==
  ASSUME NEW q, q.new.highlighted \in BOOLEAN, q.steps \in PlansOf(q), Head(q.steps) = "count"
  PROVE  /\ q.op \in {"create", "update"} /\ q.new.highlighted
         /\ Len(q.steps) # 1 /\ Tail(q.steps) \in PlansOf(q)
         /\ Second(q) = IF q.op = "create" THEN "slug" ELSE "update"
<1>1. CASE q.op = "create" /\ q.new.highlighted
  <2>1. PlansOf(q) = {<<"name", "count", "slug", "insert">>, <<"count", "slug", "insert">>, <<"slug", "insert">>,
                     <<"insert">>}
    BY <1>1 DEF PlansOf
  <2>2. q.steps = <<"count", "slug", "insert">>
    BY <2>1, Heads
  <2> QED  BY <1>1, <2>1, <2>2, Heads, Tails DEF Second
<1>2. CASE q.op = "create" /\ ~q.new.highlighted
  <2>1. PlansOf(q) = {<<"name", "slug", "insert">>, <<"slug", "insert">>, <<"insert">>}
    BY <1>2 DEF PlansOf
  <2> QED  BY <2>1, Heads
<1>3. CASE q.op = "update" /\ q.new.highlighted
  <2>1. PlansOf(q) = {<<"name", "slug", "count", "update">>, <<"slug", "count", "update">>, <<"count", "update">>,
                     <<"update">>}
    BY <1>3 DEF PlansOf
  <2>2. q.steps = <<"count", "update">>
    BY <2>1, Heads
  <2> QED  BY <1>3, <2>1, <2>2, Heads, Tails DEF Second
<1>4. CASE q.op = "update" /\ ~q.new.highlighted
  <2>1. PlansOf(q) = {<<"name", "slug", "update">>, <<"slug", "update">>, <<"update">>}
    BY <1>4 DEF PlansOf
  <2> QED  BY <2>1, Heads
<1>5. CASE q.op = "delete"
  <2>1. PlansOf(q) = {<<"delete">>}
    BY <1>5 DEF PlansOf
  <2> QED  BY <2>1, Heads
<1>6. CASE q.op = "suggest"
  <2>1. PlansOf(q) = {<<"lookup">>, <<"next">>, <<"name", "slug", "insert", "next">>,
                     <<"slug", "insert", "next">>, <<"insert", "next">>, <<"recover", "next">>}
    BY <1>6 DEF PlansOf
  <2> QED  BY <2>1, Heads
<1> QED  BY <1>1, <1>2, <1>3, <1>4, <1>5, <1>6 DEF PlansOf

LEMMA AtSlug ==
  ASSUME NEW q, q.new.highlighted \in BOOLEAN, q.steps \in PlansOf(q), Head(q.steps) = "slug"
  PROVE  /\ q.op \in {"create", "update", "suggest"}
         /\ Len(q.steps) # 1 /\ Tail(q.steps) \in PlansOf(q)
         /\ Second(q) = IF q.op # "update" THEN "insert"
                                  ELSE IF q.new.highlighted THEN "count" ELSE "update"
<1>1. CASE q.op = "create" /\ q.new.highlighted
  <2>1. PlansOf(q) = {<<"name", "count", "slug", "insert">>, <<"count", "slug", "insert">>, <<"slug", "insert">>,
                     <<"insert">>}
    BY <1>1 DEF PlansOf
  <2>2. q.steps = <<"slug", "insert">>
    BY <2>1, Heads
  <2> QED  BY <1>1, <2>1, <2>2, Heads, Tails DEF Second
<1>2. CASE q.op = "create" /\ ~q.new.highlighted
  <2>1. PlansOf(q) = {<<"name", "slug", "insert">>, <<"slug", "insert">>, <<"insert">>}
    BY <1>2 DEF PlansOf
  <2>2. q.steps = <<"slug", "insert">>
    BY <2>1, Heads
  <2> QED  BY <1>2, <2>1, <2>2, Heads, Tails DEF Second
<1>3. CASE q.op = "update" /\ q.new.highlighted
  <2>1. PlansOf(q) = {<<"name", "slug", "count", "update">>, <<"slug", "count", "update">>, <<"count", "update">>,
                     <<"update">>}
    BY <1>3 DEF PlansOf
  <2>2. q.steps = <<"slug", "count", "update">>
    BY <2>1, Heads
  <2> QED  BY <1>3, <2>1, <2>2, Heads, Tails DEF Second
<1>4. CASE q.op = "update" /\ ~q.new.highlighted
  <2>1. PlansOf(q) = {<<"name", "slug", "update">>, <<"slug", "update">>, <<"update">>}
    BY <1>4 DEF PlansOf
  <2>2. q.steps = <<"slug", "update">>
    BY <2>1, Heads
  <2> QED  BY <1>4, <2>1, <2>2, Heads, Tails DEF Second
<1>5. CASE q.op = "delete"
  <2>1. PlansOf(q) = {<<"delete">>}
    BY <1>5 DEF PlansOf
  <2> QED  BY <2>1, Heads
<1>6. CASE q.op = "suggest"
  <2>1. PlansOf(q) = {<<"lookup">>, <<"next">>, <<"name", "slug", "insert", "next">>,
                     <<"slug", "insert", "next">>, <<"insert", "next">>, <<"recover", "next">>}
    BY <1>6 DEF PlansOf
  <2>2. q.steps = <<"slug", "insert", "next">>
    BY <2>1, Heads
  <2> QED  BY <1>6, <2>1, <2>2, Heads, Tails DEF Second
<1> QED  BY <1>1, <1>2, <1>3, <1>4, <1>5, <1>6 DEF PlansOf

LEMMA AtInsert ==
  ASSUME NEW q, q.new.highlighted \in BOOLEAN, q.steps \in PlansOf(q), Head(q.steps) = "insert"
  PROVE  /\ q.op \in {"create", "suggest"}
         /\ IF q.op = "create" THEN Len(q.steps) = 1
                               ELSE Len(q.steps) # 1 /\ Tail(q.steps) = <<"next">>
<1>1. CASE q.op = "create" /\ q.new.highlighted
  <2>1. PlansOf(q) = {<<"name", "count", "slug", "insert">>, <<"count", "slug", "insert">>, <<"slug", "insert">>,
                     <<"insert">>}
    BY <1>1 DEF PlansOf
  <2>2. q.steps = <<"insert">>
    BY <2>1, Heads
  <2> QED  BY <1>1, <2>1, <2>2, Heads, Tails DEF Second
<1>2. CASE q.op = "create" /\ ~q.new.highlighted
  <2>1. PlansOf(q) = {<<"name", "slug", "insert">>, <<"slug", "insert">>, <<"insert">>}
    BY <1>2 DEF PlansOf
  <2>2. q.steps = <<"insert">>
    BY <2>1, Heads
  <2> QED  BY <1>2, <2>1, <2>2, Heads, Tails DEF Second
<1>3. CASE q.op = "update" /\ q.new.highlighted
  <2>1. PlansOf(q) = {<<"name", "slug", "count", "update">>, <<"slug", "count", "update">>, <<"count", "update">>,
                     <<"update">>}
    BY <1>3 DEF PlansOf
  <2> QED  BY <2>1, Heads
<1>4. CASE q.op = "update" /\ ~q.new.highlighted
  <2>1. PlansOf(q) = {<<"name", "slug", "update">>, <<"slug", "update">>, <<"update">>}
    BY <1>4 DEF PlansOf
  <2> QED  BY <2>1, Heads
<1>5. CASE q.op = "delete"
  <2>1. PlansOf(q) = {<<"delete">>}
    BY <1>5 DEF PlansOf
  <2> QED  BY <2>1, Heads
<1>6. CASE q.op = "suggest"
  <2>1. PlansOf(q) = {<<"lookup">>, <<"next">>, <<"name", "slug", "insert", "next">>,
                     <<"slug", "insert", "next">>, <<"insert", "next">>, <<"recover", "next">>}
    BY <1>6 DEF PlansOf
  <2>2. q.steps = <<"insert", "next">>
    BY <2>1, Heads
  <2> QED  BY <1>6, <2>1, <2>2, Heads, Tails DEF Second
<1> QED  BY <1>1, <1>2, <1>3, <1>4, <1>5, <1>6 DEF PlansOf

LEMMA AtRecover ==
  ASSUME NEW q, q.new.highlighted \in BOOLEAN, q.steps \in PlansOf(q), Head(q.steps) = "recover"
  PROVE  q.op = "suggest" /\ Len(q.steps) # 1 /\ Tail(q.steps) = <<"next">>
<1>1. CASE q.op = "create" /\ q.new.highlighted
  <2>1. PlansOf(q) = {<<"name", "count", "slug", "insert">>, <<"count", "slug", "insert">>, <<"slug", "insert">>,
                     <<"insert">>}
    BY <1>1 DEF PlansOf
  <2> QED  BY <2>1, Heads
<1>2. CASE q.op = "create" /\ ~q.new.highlighted
  <2>1. PlansOf(q) = {<<"name", "slug", "insert">>, <<"slug", "insert">>, <<"insert">>}
    BY <1>2 DEF PlansOf
  <2> QED  BY <2>1, Heads
<1>3. CASE q.op = "update" /\ q.new.highlighted
  <2>1. PlansOf(q) = {<<"name", "slug", "count", "update">>, <<"slug", "count", "update">>, <<"count", "update">>,
                     <<"update">>}
    BY <1>3 DEF PlansOf
  <2> QED  BY <2>1, Heads
<1>4. CASE q.op = "update" /\ ~q.new.highlighted
  <2>1. PlansOf(q) = {<<"name", "slug", "update">>, <<"slug", "update">>, <<"update">>}
    BY <1>4 DEF PlansOf
  <2> QED  BY <2>1, Heads
<1>5. CASE q.op = "delete"
  <2>1. PlansOf(q) = {<<"delete">>}
    BY <1>5 DEF PlansOf
  <2> QED  BY <2>1, Heads
<1>6. CASE q.op = "suggest"
  <2>1. PlansOf(q) = {<<"lookup">>, <<"next">>, <<"name", "slug", "insert", "next">>,
                     <<"slug", "insert", "next">>, <<"insert", "next">>, <<"recover", "next">>}
    BY <1>6 DEF PlansOf
  <2>2. q.steps = <<"recover", "next">>
    BY <2>1, Heads
  <2> QED  BY <1>6, <2>1, <2>2, Heads, Tails DEF Second
<1> QED  BY <1>1, <1>2, <1>3, <1>4, <1>5, <1>6 DEF PlansOf

LEMMA AtUpdate ==
  ASSUME NEW q, q.new.highlighted \in BOOLEAN, q.steps \in PlansOf(q), Head(q.steps) = "update"
  PROVE  q.op = "update" /\ Len(q.steps) = 1
<1>1. CASE q.op = "create" /\ q.new.highlighted
  <2>1. PlansOf(q) = {<<"name", "count", "slug", "insert">>, <<"count", "slug", "insert">>, <<"slug", "insert">>,
                     <<"insert">>}
    BY <1>1 DEF PlansOf
  <2> QED  BY <2>1, Heads
<1>2. CASE q.op = "create" /\ ~q.new.highlighted
  <2>1. PlansOf(q) = {<<"name", "slug", "insert">>, <<"slug", "insert">>, <<"insert">>}
    BY <1>2 DEF PlansOf
  <2> QED  BY <2>1, Heads
<1>3. CASE q.op = "update" /\ q.new.highlighted
  <2>1. PlansOf(q) = {<<"name", "slug", "count", "update">>, <<"slug", "count", "update">>, <<"count", "update">>,
                     <<"update">>}
    BY <1>3 DEF PlansOf
  <2>2. q.steps = <<"update">>
    BY <2>1, Heads
  <2> QED  BY <1>3, <2>1, <2>2, Heads, Tails DEF Second
<1>4. CASE q.op = "update" /\ ~q.new.highlighted
  <2>1. PlansOf(q) = {<<"name", "slug", "update">>, <<"slug", "update">>, <<"update">>}
    BY <1>4 DEF PlansOf
  <2>2. q.steps = <<"update">>
    BY <2>1, Heads
  <2> QED  BY <1>4, <2>1, <2>2, Heads, Tails DEF Second
<1>5. CASE q.op = "delete"
  <2>1. PlansOf(q) = {<<"delete">>}
    BY <1>5 DEF PlansOf
  <2> QED  BY <2>1, Heads
<1>6. CASE q.op = "suggest"
  <2>1. PlansOf(q) = {<<"lookup">>, <<"next">>, <<"name", "slug", "insert", "next">>,
                     <<"slug", "insert", "next">>, <<"insert", "next">>, <<"recover", "next">>}
    BY <1>6 DEF PlansOf
  <2> QED  BY <2>1, Heads
<1> QED  BY <1>1, <1>2, <1>3, <1>4, <1>5, <1>6 DEF PlansOf

LEMMA AtDelete ==
  ASSUME NEW q, q.new.highlighted \in BOOLEAN, q.steps \in PlansOf(q), Head(q.steps) = "delete"
  PROVE  q.op = "delete" /\ Len(q.steps) = 1
<1>1. CASE q.op = "create" /\ q.new.highlighted
  <2>1. PlansOf(q) = {<<"name", "count", "slug", "insert">>, <<"count", "slug", "insert">>, <<"slug", "insert">>,
                     <<"insert">>}
    BY <1>1 DEF PlansOf
  <2> QED  BY <2>1, Heads
<1>2. CASE q.op = "create" /\ ~q.new.highlighted
  <2>1. PlansOf(q) = {<<"name", "slug", "insert">>, <<"slug", "insert">>, <<"insert">>}
    BY <1>2 DEF PlansOf
  <2> QED  BY <2>1, Heads
<1>3. CASE q.op = "update" /\ q.new.highlighted
  <2>1. PlansOf(q) = {<<"name", "slug", "count", "update">>, <<"slug", "count", "update">>, <<"count", "update">>,
                     <<"update">>}
    BY <1>3 DEF PlansOf
  <2> QED  BY <2>1, Heads
<1>4. CASE q.op = "update" /\ ~q.new.highlighted
  <2>1. PlansOf(q) = {<<"name", "slug", "update">>, <<"slug", "update">>, <<"update">>}
    BY <1>4 DEF PlansOf
  <2> QED  BY <2>1, Heads
<1>5. CASE q.op = "delete"
  <2>1. PlansOf(q) = {<<"delete">>}
    BY <1>5 DEF PlansOf
  <2>2. q.steps = <<"delete">>
    BY <2>1, Heads
  <2> QED  BY <1>5, <2>1, <2>2, Heads, Tails DEF Second
<1>6. CASE q.op = "suggest"
  <2>1. PlansOf(q) = {<<"lookup">>, <<"next">>, <<"name", "slug", "insert", "next">>,
                     <<"slug", "insert", "next">>, <<"insert", "next">>, <<"recover", "next">>}
    BY <1>6 DEF PlansOf
  <2> QED  BY <2>1, Heads
<1> QED  BY <1>1, <1>2, <1>3, <1>4, <1>5, <1>6 DEF PlansOf

LEMMA AtLookup ==
  ASSUME NEW q, q.new.highlighted \in BOOLEAN, q.steps \in PlansOf(q), Head(q.steps) = "lookup"
  PROVE  q.op = "suggest"
<1>1. CASE q.op = "create" /\ q.new.highlighted
  <2>1. PlansOf(q) = {<<"name", "count", "slug", "insert">>, <<"count", "slug", "insert">>, <<"slug", "insert">>,
                     <<"insert">>}
    BY <1>1 DEF PlansOf
  <2> QED  BY <2>1, Heads
<1>2. CASE q.op = "create" /\ ~q.new.highlighted
  <2>1. PlansOf(q) = {<<"name", "slug", "insert">>, <<"slug", "insert">>, <<"insert">>}
    BY <1>2 DEF PlansOf
  <2> QED  BY <2>1, Heads
<1>3. CASE q.op = "update" /\ q.new.highlighted
  <2>1. PlansOf(q) = {<<"name", "slug", "count", "update">>, <<"slug", "count", "update">>, <<"count", "update">>,
                     <<"update">>}
    BY <1>3 DEF PlansOf
  <2> QED  BY <2>1, Heads
<1>4. CASE q.op = "update" /\ ~q.new.highlighted
  <2>1. PlansOf(q) = {<<"name", "slug", "update">>, <<"slug", "update">>, <<"update">>}
    BY <1>4 DEF PlansOf
  <2> QED  BY <2>1, Heads
<1>5. CASE q.op = "delete"
  <2>1. PlansOf(q) = {<<"delete">>}
    BY <1>5 DEF PlansOf
  <2> QED  BY <2>1, Heads
<1>6. CASE q.op = "suggest"
  <2>1. PlansOf(q) = {<<"lookup">>, <<"next">>, <<"name", "slug", "insert", "next">>,
                     <<"slug", "insert", "next">>, <<"insert", "next">>, <<"recover", "next">>}
    BY <1>6 DEF PlansOf
  <2>2. q.steps = <<"lookup">>
    BY <2>1, Heads
  <2> QED  BY <1>6, <2>1, <2>2, Heads, Tails DEF Second
<1> QED  BY <1>1, <1>2, <1>3, <1>4, <1>5, <1>6 DEF PlansOf

LEMMA AtNext ==
  ASSUME NEW q, q.new.highlighted \in BOOLEAN, q.steps \in PlansOf(q), Head(q.steps) = "next"
  PROVE  q.op = "suggest" /\ Len(q.steps) = 1
<1>1. CASE q.op = "create" /\ q.new.highlighted
  <2>1. PlansOf(q) = {<<"name", "count", "slug", "insert">>, <<"count", "slug", "insert">>, <<"slug", "insert">>,
                     <<"insert">>}
    BY <1>1 DEF PlansOf
  <2> QED  BY <2>1, Heads
<1>2. CASE q.op = "create" /\ ~q.new.highlighted
  <2>1. PlansOf(q) = {<<"name", "slug", "insert">>, <<"slug", "insert">>, <<"insert">>}
    BY <1>2 DEF PlansOf
  <2> QED  BY <2>1, Heads
<1>3. CASE q.op = "update" /\ q.new.highlighted
  <2>1. PlansOf(q) = {<<"name", "slug", "count", "update">>, <<"slug", "count", "update">>, <<"count", "update">>,
                     <<"update">>}
    BY <1>3 DEF PlansOf
  <2> QED  BY <2>1, Heads
<1>4. CASE q.op = "update" /\ ~q.new.highlighted
  <2>1. PlansOf(q) = {<<"name", "slug", "update">>, <<"slug", "update">>, <<"update">>}
    BY <1>4 DEF PlansOf
  <2> QED  BY <2>1, Heads
<1>5. CASE q.op = "delete"
  <2>1. PlansOf(q) = {<<"delete">>}
    BY <1>5 DEF PlansOf
  <2> QED  BY <2>1, Heads
<1>6. CASE q.op = "suggest"
  <2>1. PlansOf(q) = {<<"lookup">>, <<"next">>, <<"name", "slug", "insert", "next">>,
                     <<"slug", "insert", "next">>, <<"insert", "next">>, <<"recover", "next">>}
    BY <1>6 DEF PlansOf
  <2>2. q.steps = <<"next">>
    BY <2>1, Heads
  <2> QED  BY <1>6, <2>1, <2>2, Heads, Tails DEF Second
<1> QED  BY <1>1, <1>2, <1>3, <1>4, <1>5, <1>6 DEF PlansOf

-----------------------------------------------------------------------------
(***************************************************************************)
(* Types of the requests about tags and skills.                            *)
(***************************************************************************)

LEMMA Constants ==
  /\ AnyName \in SkillNames /\ AnyName \in Names /\ AnyCategory \in Categories
  /\ 0 \in 0..MaxRows /\ 1 \in Ids /\ NoId \notin Ids
  /\ \A n \in Names : Base[n] \in Names
  /\ MaxRows \in Nat /\ MaxHighlighted \in Nat
BY CatalogueAssumption DEF AnyName, AnyCategory, Ids, NoId

LEMMA FreeRowType ==
  /\ FreeRow \in Row
  /\ FreeRow.st = "free" /\ FreeRow.highlighted = FALSE
  /\ \A n \in Names, c \in Categories, h \in BOOLEAN :
       [FreeRow EXCEPT !.st = "live", !.name = n, !.category = c, !.highlighted = h] \in Row
BY Constants DEF FreeRow, Row, Slugs

LEMMA NewRequestType == NewRequest \in Request
<1>1. <<>> \in Seq(Steps) /\ {} \in SUBSET Names /\ {} \in SUBSET Ids /\ {} \in SUBSET Columns
  OBVIOUS
<1> QED  BY <1>1, FreeRowType DEF NewRequest, Request, Tables

LEMMA StoppedType ==
  ASSUME NEW q \in Request, NEW end \in {"ok", "refused", "failed"}
  PROVE  /\ Stopped(q, end) \in Request
         /\ Stopped(q, end).steps = <<>> /\ Stopped(q, end).id = NoId
         /\ Stopped(q, end).op = q.op /\ Stopped(q, end).table = q.table
         /\ Stopped(q, end).end = end /\ Stopped(q, end).got = q.got
BY NewRequestType DEF Stopped, NewRequest, Request

LEMMA AdvancedType ==
  ASSUME NEW q \in Request, q.steps # <<>>
  PROVE  /\ Advanced(q) \in Request
         /\ Advanced(q).op = q.op /\ Advanced(q).table = q.table
         /\ Len(q.steps) = 1 => Advanced(q) = Stopped(q, "ok")
         /\ Len(q.steps) # 1 => /\ Advanced(q) = [q EXCEPT !.steps = Tail(q.steps)]
                                /\ Advanced(q).steps = Tail(q.steps)
<1>1. Tail(q.steps) \in Seq(Steps)
  BY DEF Request
<1>2. [q EXCEPT !.steps = Tail(q.steps)] \in Request
  BY <1>1 DEF Request
<1>3. CASE Len(q.steps) = 1
  BY <1>3, StoppedType DEF Advanced
<1>4. CASE Len(q.steps) # 1
  BY <1>2, <1>4 DEF Advanced, Request
<1> QED  BY <1>3, <1>4

LEMMA ConflictedType ==
  ASSUME NEW q \in Request
  PROVE  /\ Conflicted(q) \in Request
         /\ Conflicted(q).op = q.op /\ Conflicted(q).table = q.table
         /\ IF q.op = "suggest"
              THEN Conflicted(q) = [q EXCEPT !.steps = <<"recover", "next">>]
              ELSE Conflicted(q).steps = <<>> /\ Conflicted(q).id = NoId
<1>1. <<"recover", "next">> \in Seq(Steps)
  BY ListsOfSteps DEF Steps
<1>2. [q EXCEPT !.steps = <<"recover", "next">>] \in Request
  BY <1>1 DEF Request
<1>3. CASE q.op = "suggest"
  BY <1>2, <1>3 DEF Conflicted, Request
<1>4. CASE q.op # "suggest"
  BY <1>4, StoppedType DEF Conflicted
<1> QED  BY <1>3, <1>4

LEMMA ViolatedType ==
  ASSUME NEW q \in Request
  PROVE  /\ Violated(q) \in Request /\ Violated(q).op = q.op /\ Violated(q).table = q.table
         /\ Violated(q).steps = <<>> /\ Violated(q).id = NoId
         /\ Violated(q).end = "failed" /\ Violated(q).stale = q.stale
<1> DEFINE p == Stopped(q, "failed")
<1>1. /\ p \in Request /\ p.steps = <<>> /\ p.id = NoId /\ p.op = q.op /\ p.table = q.table
      /\ p.end = "failed"
  BY StoppedType
<1>2. Violated(q) = [p EXCEPT !.stale = q.stale]
  BY DEF Violated
<1> HIDE DEF p
<1>3. q.stale \in BOOLEAN
  BY DEF Request
<1> QED  BY <1>1, <1>2, <1>3 DEF Request

\* A request that has ended plans nothing, one that goes on what is left.
LEMMA StoppedPlanned ==
  ASSUME NEW q \in Request, NEW end \in {"ok", "refused", "failed"}, Planned(q)
  PROVE  Planned(Stopped(q, end))
BY StoppedType DEF Planned

LEMMA TailPlanned ==
  ASSUME NEW q \in Request, Planned(q), q.steps # <<>>,
         Len(q.steps) # 1 => Tail(q.steps) \in PlansOf(q)
  PROVE  Planned(Advanced(q))
<1>1. CASE Len(q.steps) = 1
  BY <1>1, AdvancedType, StoppedPlanned
<1>2. CASE Len(q.steps) # 1
  <2>1. Advanced(q) = [q EXCEPT !.steps = Tail(q.steps)]
    BY <1>2, AdvancedType
  <2>2. /\ Advanced(q).steps = Tail(q.steps) /\ Advanced(q).op = q.op /\ Advanced(q).new = q.new
        /\ Advanced(q).id = q.id /\ Advanced(q).table = q.table
    BY <2>1 DEF Request
  <2>3. PlansOf(Advanced(q)) = PlansOf(q)
    BY <2>2 DEF PlansOf
  <2> QED  BY <1>2, <2>2, <2>3 DEF Planned
<1> QED  BY <1>1, <1>2

-----------------------------------------------------------------------------
(***************************************************************************)
(* What requests know, the cap and the names: a read concerns its request  *)
(* only, and a write those that are under way on its table.                *)
(***************************************************************************)

CatalogueInv ==
  /\ TypeOK
  /\ \A r \in Requests : Planned(request[r])
  /\ KnowsInv /\ CapHolds /\ NoTwins

\* What a request knows is about the rows of its own table.
LEMMA KnowsLocal ==
  ASSUME NEW p \in Requests, Knows(request[p]), table'[request[p].table] = table[request[p].table],
         request'[p].table = request[p].table, request'[p].id = request[p].id,
         request'[p].op = request[p].op, request'[p].sent = request[p].sent,
         request'[p].new = request[p].new, request'[p].steps = request[p].steps
  PROVE  Knows(request[p])'
<1> DEFINE q == request[p]
<1>1. Live(q.table)' = Live(q.table)
  BY DEF Live
<1>2. Named(q.table, q.new.name, q.id)' = Named(q.table, q.new.name, q.id)
  BY <1>1 DEF Named, SameName
<1>3. q.table = "skill" => Highlighted(q.new.category, q.id)' = Highlighted(q.new.category, q.id)
  BY <1>1 DEF Highlighted
<1>4. Slugged(q.table, q.new.slug, q.id)' = Slugged(q.table, q.new.slug, q.id)
  BY <1>1 DEF Slugged
<1> QED  BY <1>1, <1>2, <1>3, <1>4 DEF Knows

LEMMA ReadsKeep ==
  ASSUME CatalogueInv, NEW r \in Requests, NEW q \in Request, Planned(q),
         q.steps # <<>> /\ ~q.stale => Knows(q), Reads(r, q)
  PROVE  CatalogueInv'
<1>1. table' = table /\ overlapped' = overlapped
  BY DEF Reads
<1>2. /\ request' \in [Requests -> Request] /\ request'[r] = q
      /\ \A p \in Requests \ {r} : request'[p] = request[p]
  BY DEF CatalogueInv, TypeOK, Reads
<1>3. TypeOK'
  BY <1>1, <1>2 DEF CatalogueInv, TypeOK
<1>4. \A p \in Requests : Planned(request[p])'
  <2> SUFFICES ASSUME NEW p \in Requests PROVE Planned(request'[p])
    BY DEF Planned, PlansOf
  <2>1. CASE p = r
    BY <1>2, <2>1
  <2>2. CASE p # r
    BY <1>2, <2>2 DEF CatalogueInv
  <2> QED  BY <2>1, <2>2
<1>5. KnowsInv'
  <2> SUFFICES ASSUME NEW p \in Requests, request'[p].steps # <<>>, ~request'[p].stale
               PROVE  Knows(request[p])'
    BY DEF KnowsInv
  <2>1. Knows(request'[p])
    BY <1>2 DEF CatalogueInv, KnowsInv
  <2> QED  BY <1>1, <2>1 DEF Knows, Live, Named, Slugged, SameName, Highlighted
<1>6. CapHolds' /\ NoTwins'
  BY <1>1 DEF CatalogueInv, CapHolds, NoTwins, Highlighted, Live, Twins
<1> QED  BY <1>3, <1>4, <1>5, <1>6 DEF CatalogueInv

LEMMA WritesKeep ==
  ASSUME CatalogueInv, NEW r \in Requests, NEW q \in Request, Planned(q),
         q.steps = <<>> \/ (q.op = "suggest" /\ Head(q.steps) = "next"),
         NEW i \in Ids, NEW row \in Row, Writes(r, q, i, row), CapHolds', NoTwins'
  PROVE  CatalogueInv'
<1> DEFINE t == request[r].table
<1>1. t \in Tables /\ request \in [Requests -> Request]
  BY DEF CatalogueInv, TypeOK, Request
<1>2. /\ table' \in [Tables -> [Ids -> Row]]
      /\ \A u \in Tables \ {t} : table'[u] = table[u]
  BY <1>1 DEF Writes, CatalogueInv, TypeOK
<1>3. overlapped' \subseteq Tables
  BY <1>1 DEF Writes, CatalogueInv, TypeOK
<1>4. /\ DOMAIN request' = Requests /\ request'[r] = q
      /\ request' = [p \in Requests |-> request'[p]]
      /\ \A p \in Requests \ {r} :
           request'[p] = [request[p] EXCEPT !.stale = @ \/ (request[p].steps # <<>> /\ request[p].table = t)]
  BY <1>1 DEF Writes
<1>5. ASSUME NEW p \in Requests \ {r}
      PROVE  /\ request'[p] \in Request
             /\ request'[p].table = request[p].table /\ request'[p].id = request[p].id
             /\ request'[p].op = request[p].op /\ request'[p].sent = request[p].sent
             /\ request'[p].new = request[p].new /\ request'[p].steps = request[p].steps
             /\ request'[p].stale = (request[p].stale \/ (request[p].steps # <<>> /\ request[p].table = t))
  <2> DEFINE more == request[p].stale \/ (request[p].steps # <<>> /\ request[p].table = t)
  <2>1. more \in BOOLEAN
    OBVIOUS
  <2>2. request[p] \in Request
    BY <1>1
  <2>3. request'[p] = [request[p] EXCEPT !.stale = more]
    BY <1>4, <2>2
  <2> HIDE DEF more
  <2>4. /\ request'[p] \in Request
        /\ request'[p].table = request[p].table /\ request'[p].id = request[p].id
        /\ request'[p].op = request[p].op /\ request'[p].sent = request[p].sent
        /\ request'[p].new = request[p].new /\ request'[p].steps = request[p].steps
        /\ request'[p].stale = more
    BY <2>1, <2>2, <2>3 DEF Request
  <2> QED  BY <2>4 DEF more
<1>6. TypeOK'
  BY <1>2, <1>3, <1>4, <1>5 DEF TypeOK
<1>7. \A p \in Requests : Planned(request[p])'
  <2> SUFFICES ASSUME NEW p \in Requests PROVE Planned(request'[p])
    BY DEF Planned, PlansOf
  <2>1. CASE p = r
    BY <1>4, <2>1
  <2>2. CASE p # r
    <3>1. Planned(request[p])
      BY DEF CatalogueInv
    <3>2. PlansOf(request'[p]) = PlansOf(request[p])
      BY <1>5, <2>2 DEF PlansOf
    <3> QED  BY <1>5, <2>2, <3>1, <3>2 DEF Planned
  <2> QED  BY <2>1, <2>2
<1>8. KnowsInv'
  <2> SUFFICES ASSUME NEW p \in Requests, request'[p].steps # <<>>, ~request'[p].stale
               PROVE  Knows(request[p])'
    BY DEF KnowsInv
  <2>1. CASE p = r
    <3>1. request'[p] = q /\ q.op = "suggest" /\ Head(q.steps) = "next"
      BY <1>4, <2>1
    <3> QED  BY <3>1 DEF Knows
  <2>2. CASE p # r
    <3>1. ~request[p].stale /\ request[p].steps # <<>> /\ request[p].table # t
      BY <1>5, <2>2
    <3>2. Knows(request[p])
      BY <3>1 DEF CatalogueInv, KnowsInv
    <3>3. table'[request[p].table] = table[request[p].table]
      BY <1>1, <1>2, <3>1 DEF Request
    <3> QED  BY <1>5, <2>2, <3>2, <3>3, KnowsLocal
  <2> QED  BY <2>1, <2>2
<1> QED  BY <1>6, <1>7, <1>8 DEF CatalogueInv

\* A row of a table is written, the others stay.
LEMMA RowWritten ==
  ASSUME TypeOK, NEW t \in Tables, NEW i \in Ids, NEW row \in Row,
         table' = [table EXCEPT ![t][i] = row]
  PROVE  /\ \A u \in Tables \ {t} : table'[u] = table[u]
         /\ table'[t][i] = row
         /\ \A j \in Ids \ {i} : table'[t][j] = table[t][j]
         /\ Live(t)' = (Live(t) \ {i}) \cup (IF row.st = "live" THEN {i} ELSE {})
<1>1. /\ \A u \in Tables \ {t} : table'[u] = table[u]
      /\ table'[t][i] = row
      /\ \A j \in Ids \ {i} : table'[t][j] = table[t][j]
  BY DEF TypeOK
<1>2. ASSUME NEW j \in Ids
      PROVE  (j \in Live(t))' <=> j \in (Live(t) \ {i}) \cup (IF row.st = "live" THEN {i} ELSE {})
  BY <1>1 DEF Live
<1>3. Live(t) \subseteq Ids /\ Live(t)' \subseteq Ids
  BY DEF Live
<1> QED  BY <1>1, <1>2, <1>3

LEMMA HighlightedType ==
  ASSUME NEW c, NEW e
  PROVE  Highlighted(c, e) \in Nat
<1> DEFINE H == {j \in Live("skill") \ {e} : table["skill"][j].category = c /\ table["skill"][j].highlighted}
<1>1. IsFiniteSet(Ids)
  <2>1. 1 \in Int /\ MaxRows \in Int
    BY Constants
  <2> QED  BY <2>1, FS_Interval DEF Ids
<1>2. H \subseteq Ids
  BY DEF Live
<1> QED  BY <1>1, <1>2, FS_Subset, FS_CardinalityType DEF Highlighted

\* The cap holds on if the row that is written still had room.
LEMMA CapKept ==
  ASSUME TypeOK, NEW i \in Ids, NEW row \in Row, table' = [table EXCEPT !["skill"][i] = row],
         \A c \in Categories : Highlighted(c, NoId) <= MaxHighlighted,
         row.st = "live" /\ row.highlighted => Highlighted(row.category, i) < MaxHighlighted
  PROVE  \A c \in Categories : Highlighted(c, NoId)' <= MaxHighlighted
<1> SUFFICES ASSUME NEW c \in Categories PROVE Highlighted(c, NoId)' <= MaxHighlighted
  OBVIOUS
<1> DEFINE H(e) == {j \in Live("skill") \ {e} : table["skill"][j].category = c /\ table["skill"][j].highlighted}
           After == {j \in Live("skill")' \ {NoId} :
                       table'["skill"][j].category = c /\ table'["skill"][j].highlighted}
<1>1. IsFiniteSet(Ids)
  <2>1. 1 \in Int /\ MaxRows \in Int
    BY Constants
  <2> QED  BY <2>1, FS_Interval DEF Ids
<1>2. H(NoId) \subseteq Ids /\ H(i) \subseteq Ids /\ After \subseteq Ids
  BY DEF Live
<1>3. /\ IsFiniteSet(H(NoId)) /\ IsFiniteSet(H(i)) /\ IsFiniteSet(After)
      /\ Cardinality(H(NoId)) \in Nat /\ Cardinality(H(i)) \in Nat /\ Cardinality(After) \in Nat
  BY <1>1, <1>2, FS_Subset, FS_CardinalityType
<1>4. /\ table'["skill"][i] = row
      /\ \A j \in Ids \ {i} : table'["skill"][j] = table["skill"][j]
      /\ Live("skill")' = (Live("skill") \ {i}) \cup (IF row.st = "live" THEN {i} ELSE {})
  BY RowWritten DEF Tables
<1>5. /\ Highlighted(c, NoId) = Cardinality(H(NoId)) /\ Highlighted(c, i) = Cardinality(H(i))
      /\ Highlighted(c, NoId)' = Cardinality(After)
  BY DEF Highlighted
<1>6. Live("skill") \subseteq Ids /\ NoId \notin Ids
  BY Constants DEF Live
<1>7. CASE row.st = "live" /\ row.highlighted /\ row.category = c
  <2>1. After \subseteq H(i) \cup {i}
    BY <1>4, <1>6
  <2>2. IsFiniteSet(H(i) \cup {i}) /\ Cardinality(H(i) \cup {i}) = Cardinality(H(i)) + 1
    <3>1. i \notin H(i)
      OBVIOUS
    <3> QED  BY <1>3, <3>1, FS_AddElement
  <2>3. Cardinality(After) <= Cardinality(H(i)) + 1
    BY <2>1, <2>2, FS_Subset
  <2>4. Cardinality(H(i)) < MaxHighlighted
    BY <1>5, <1>7
  <2> QED  BY <1>3, <1>5, <2>3, <2>4, Constants
<1>8. CASE ~(row.st = "live" /\ row.highlighted /\ row.category = c)
  <2>1. After \subseteq H(NoId)
    BY <1>4, <1>6, <1>8
  <2>2. Cardinality(After) <= Cardinality(H(NoId))
    BY <1>3, <2>1, FS_Subset
  <2>3. Cardinality(H(NoId)) <= MaxHighlighted
    BY <1>5
  <2> QED  BY <1>3, <1>5, <2>2, <2>3, Constants
<1> QED  BY <1>7, <1>8

\* No other live tag has a name that is not taken.
LEMMA TwinsKept ==
  ASSUME TypeOK, NEW i \in Ids, NEW row \in Row, table' = [table EXCEPT !["tag"][i] = row],
         \A j, k \in Live("tag") : Twins(j, k) => j = k,
         row.st = "live" => \/ Named("tag", row.name, i) = {}
                            \/ i \in Live("tag") /\ table["tag"][i].name = row.name
  PROVE  \A j, k \in Live("tag")' : Twins(j, k)' => j = k
<1>1. /\ table'["tag"][i] = row
      /\ \A j \in Ids \ {i} : table'["tag"][j] = table["tag"][j]
      /\ Live("tag")' = (Live("tag") \ {i}) \cup (IF row.st = "live" THEN {i} ELSE {})
  BY RowWritten DEF Tables
<1>2. Live("tag") \subseteq Ids
  BY DEF Live
<1>3. ASSUME NEW j \in Live("tag") \ {i}, row.st = "live"
      PROVE  Lower[table["tag"][j].name] # Lower[row.name]
  <2>1. CASE Named("tag", row.name, i) = {}
    BY <2>1, <1>3 DEF Named, SameName
  <2>2. CASE i \in Live("tag") /\ table["tag"][i].name = row.name
    BY <2>2, <1>3 DEF Twins
  <2> QED  BY <1>3, <2>1, <2>2
<1>4. ASSUME NEW j \in Live("tag")', NEW k \in Live("tag")', Lower[table'["tag"][j].name] = Lower[table'["tag"][k].name]
      PROVE  j = k
  <2>1. CASE j = i /\ k # i
    BY <1>1, <1>2, <1>3, <1>4, <2>1
  <2>2. CASE j # i /\ k = i
    BY <1>1, <1>2, <1>3, <1>4, <2>2
  <2>3. CASE j # i /\ k # i
    BY <1>1, <1>2, <1>4, <2>3 DEF Twins
  <2> QED  BY <2>1, <2>2, <2>3
<1> QED  BY <1>4 DEF Twins

\* A request that is under way.
LEMMA Going ==
  ASSUME CatalogueInv, NEW r \in Requests, request[r].steps # <<>>
  PROVE  /\ request[r] \in Request /\ Planned(request[r])
         /\ request[r].steps \in PlansOf(request[r])
         /\ request[r].new.highlighted \in BOOLEAN
         /\ request[r].stale \in BOOLEAN
         /\ ~request[r].stale => Knows(request[r])
<1>1. request[r] \in Request /\ Planned(request[r])
  BY DEF CatalogueInv, TypeOK
<1>2. request[r].new \in Row /\ request[r].stale \in BOOLEAN
  BY <1>1 DEF Request
<1>3. request[r].new.highlighted \in BOOLEAN
  BY <1>2 DEF Row
<1>4. ~request[r].stale => Knows(request[r])
  BY DEF CatalogueInv, KnowsInv
<1> QED  BY <1>1, <1>2, <1>3, <1>4 DEF Planned

\* What it knows carries over to its next step.
LEMMA TailKnows ==
  ASSUME NEW q \in Request, q.steps # <<>>, Len(q.steps) # 1, q.op = "update" => Knows(q),
         Second(q) = "insert" => Slugged(q.table, q.new.slug, q.id) = {},
         Second(q) \in {"slug", "count", "insert", "update"} /\ (q.op = "update" => "name" \in q.sent) =>
           Named(q.table, q.new.name, q.id) = {},
         Second(q) \in (IF q.op = "create" THEN {"slug", "insert"} ELSE {"update"})
           /\ q.table = "skill" /\ q.new.highlighted => Highlighted(q.new.category, q.id) < MaxHighlighted
  PROVE  Knows(Advanced(q))
<1> DEFINE p == Advanced(q)
<1>1. p = [q EXCEPT !.steps = Tail(q.steps)]
  BY AdvancedType
<1>2. /\ p.steps = Tail(q.steps) /\ p.op = q.op /\ p.table = q.table /\ p.id = q.id
      /\ p.new = q.new /\ p.sent = q.sent
  BY <1>1 DEF Request
<1>3. Head(p.steps) = Second(q)
  BY <1>2 DEF Second
<1> HIDE DEF p
<1>4. Knows(p)
  BY <1>2, <1>3 DEF Knows
<1> QED  BY <1>4 DEF p

-----------------------------------------------------------------------------
(***************************************************************************)
(* Each step of a request keeps what the requests know.                    *)
(***************************************************************************)

\* A request that ends with a read.
LEMMA StopsKeep ==
  ASSUME CatalogueInv, NEW r \in Requests, request[r].steps # <<>>,
         NEW end \in {"ok", "refused", "failed"}, Reads(r, Stopped(request[r], end))
  PROVE  CatalogueInv'
BY Going, StoppedType, StoppedPlanned, ReadsKeep

LEMMA CreateKeeps ==
  ASSUME CatalogueInv, NEW r \in Requests, Create(r)
  PROVE  CatalogueInv'
<1>0. PICK t \in Tables : \E n \in NamesOf(t), c \in Categories, h \in BOOLEAN :
        Begin(r, [NewRequest EXCEPT
          !.steps = IF h THEN <<"name", "count", "slug", "insert">> ELSE <<"name", "slug", "insert">>,
          !.table = t, !.op = "create",
          !.new = [FreeRow EXCEPT !.st = "live", !.name = n, !.category = c, !.highlighted = h]])
  BY DEF Create
<1>1. PICK n \in NamesOf(t), c \in Categories, h \in BOOLEAN :
        Begin(r, [NewRequest EXCEPT
          !.steps = IF h THEN <<"name", "count", "slug", "insert">> ELSE <<"name", "slug", "insert">>,
          !.table = t, !.op = "create",
          !.new = [FreeRow EXCEPT !.st = "live", !.name = n, !.category = c, !.highlighted = h]])
  BY <1>0
<1> DEFINE steps == IF h THEN <<"name", "count", "slug", "insert">> ELSE <<"name", "slug", "insert">>
           new == [FreeRow EXCEPT !.st = "live", !.name = n, !.category = c, !.highlighted = h]
           q == [NewRequest EXCEPT !.steps = steps, !.table = t, !.op = "create", !.new = new]
<1>2. n \in Names
  BY CatalogueAssumption DEF NamesOf
<1>3. new \in Row /\ new.highlighted = h
  BY <1>2, FreeRowType DEF Row
<1>4. steps \in Seq(Steps) /\ steps # <<>> /\ Head(steps) = "name"
  <2>1. {"name", "count", "slug", "insert"} \subseteq Steps
    BY DEF Steps
  <2> QED  BY <2>1, ListsOfSteps, Heads, Three, Four
<1> HIDE DEF steps, new
<1>5. /\ q \in Request /\ q.steps = steps /\ q.op = "create" /\ q.table = t /\ q.id = NoId /\ q.new = new
  BY <1>3, <1>4, NewRequestType DEF Request, NewRequest
<1> HIDE DEF q
<1>6. steps \in PlansOf(q)
  BY <1>3, <1>5 DEF PlansOf, steps
<1>7. Planned(q)
  BY <1>5, <1>6 DEF Planned
<1>8. Knows(q)
  BY <1>4, <1>5 DEF Knows
<1>9. Reads(r, q)
  BY <1>1 DEF Begin, q, steps, new
<1> QED  BY <1>5, <1>7, <1>8, <1>9, ReadsKeep

LEMMA UpdateKeeps ==
  ASSUME CatalogueInv, NEW r \in Requests, Update(r)
  PROVE  CatalogueInv'
<1>1. PICK t \in Tables :
        \E i \in Live(t), n \in NamesOf(t), c \in Categories, h \in BOOLEAN, sent \in SUBSET Columns :
          LET old == table[t][i] IN
          /\ t = "tag" => sent = {"name"}
          /\ "name" \in sent <=> n # old.name
          /\ "category" \notin sent => c = old.category
          /\ "highlighted" \notin sent => h = old.highlighted
          /\ sent # {}
          /\ LET new == [old EXCEPT !.name = n, !.category = c, !.highlighted = h] IN
             Begin(r, [NewRequest EXCEPT !.steps = UpdateSteps(old, new), !.table = t, !.op = "update",
                                         !.id = i, !.new = new, !.sent = sent])
  BY Zenon DEF Update
<1>2. PICK i \in Live(t), n \in NamesOf(t), c \in Categories, h \in BOOLEAN, sent \in SUBSET Columns :
        LET old == table[t][i] IN
        /\ t = "tag" => sent = {"name"}
        /\ "name" \in sent <=> n # old.name
        /\ "category" \notin sent => c = old.category
        /\ "highlighted" \notin sent => h = old.highlighted
        /\ sent # {}
        /\ LET new == [old EXCEPT !.name = n, !.category = c, !.highlighted = h] IN
           Begin(r, [NewRequest EXCEPT !.steps = UpdateSteps(old, new), !.table = t, !.op = "update",
                                       !.id = i, !.new = new, !.sent = sent])
  BY <1>1, Zenon
<1> DEFINE old == table[t][i]
           new == [old EXCEPT !.name = n, !.category = c, !.highlighted = h]
           steps == UpdateSteps(old, new)
           q == [NewRequest EXCEPT !.steps = steps, !.table = t, !.op = "update",
                                   !.id = i, !.new = new, !.sent = sent]
<1>3. n \in Names /\ i \in Ids
  BY CatalogueAssumption DEF NamesOf, Live
<1>4. old \in Row
  BY <1>3 DEF CatalogueInv, TypeOK
<1>5. new \in Row /\ new.highlighted = h /\ new.name = n /\ new.category = c
  BY <1>3, <1>4 DEF Row
<1>6. steps = IF n # old.name
                THEN IF h THEN <<"name", "slug", "count", "update">> ELSE <<"name", "slug", "update">>
                ELSE IF h THEN <<"count", "update">> ELSE <<"update">>
  <2> HIDE DEF new, old
  <2> QED  BY <1>5, UpdatePlan
<1> HIDE DEF steps, new
<1>7. /\ steps \in Seq(Steps) /\ steps # <<>>
      /\ n # old.name => Head(steps) = "name"
      /\ n = old.name => Head(steps) = IF h THEN "count" ELSE "update"
  <2>1. {"name", "count", "slug", "update"} \subseteq Steps
    BY DEF Steps
  <2>2. CASE n # old.name /\ h
    BY <1>6, <2>1, <2>2, ListsOfSteps, Heads, Four
  <2>3. CASE n # old.name /\ ~h
    BY <1>6, <2>1, <2>3, ListsOfSteps, Heads, Three
  <2>4. CASE n = old.name /\ h
    BY <1>6, <2>1, <2>4, ListsOfSteps, Heads, Two
  <2>5. CASE n = old.name /\ ~h
    BY <1>6, <2>1, <2>5, ListsOfSteps, Heads, One
  <2> QED  BY <2>2, <2>3, <2>4, <2>5
<1>8. /\ q \in Request /\ q.steps = steps /\ q.op = "update" /\ q.table = t /\ q.id = i
      /\ q.new = new /\ q.sent = sent
  BY <1>3, <1>5, <1>7, NewRequestType DEF Request, NewRequest
<1> HIDE DEF q
<1>9. steps \in PlansOf(q)
  <2>1. CASE h
    BY <1>5, <1>6, <1>8, <2>1 DEF PlansOf
  <2>2. CASE ~h
    BY <1>5, <1>6, <1>8, <2>2 DEF PlansOf
  <2> QED  BY <2>1, <2>2
<1>10. Planned(q)
  BY <1>8, <1>9 DEF Planned
<1>11. /\ "name" \in sent <=> n # old.name
       /\ "category" \notin sent => c = old.category
       /\ "highlighted" \notin sent => h = old.highlighted
  BY <1>2
<1>12. Knows(q)
  BY <1>5, <1>7, <1>8, <1>11 DEF Knows
<1>13. Reads(r, q)
  BY <1>2 DEF Begin, q, steps, new
<1> QED  BY <1>8, <1>10, <1>12, <1>13, ReadsKeep

LEMMA DeleteKeeps ==
  ASSUME CatalogueInv, NEW r \in Requests, Delete(r)
  PROVE  CatalogueInv'
<1>0. PICK t \in Tables : \E i \in Live(t) :
        Begin(r, [NewRequest EXCEPT !.steps = <<"delete">>, !.table = t, !.op = "delete", !.id = i])
  BY DEF Delete
<1>1. PICK i \in Live(t) :
        Begin(r, [NewRequest EXCEPT !.steps = <<"delete">>, !.table = t, !.op = "delete", !.id = i])
  BY <1>0
<1> DEFINE q == [NewRequest EXCEPT !.steps = <<"delete">>, !.table = t, !.op = "delete", !.id = i]
<1>2. i \in Ids
  BY DEF Live
<1>3. <<"delete">> \in Seq(Steps) /\ <<"delete">> # <<>> /\ Head(<<"delete">>) = "delete"
  <2>1. "delete" \in Steps
    BY DEF Steps
  <2> QED  BY <2>1, ListsOfSteps, One
<1>4. q \in Request /\ q.steps = <<"delete">> /\ q.op = "delete"
  BY <1>2, <1>3, NewRequestType DEF Request, NewRequest
<1>5. Reads(r, q)
  BY <1>1 DEF Begin
<1> HIDE DEF q
<1>6. Planned(q)
  BY <1>4 DEF Planned, PlansOf
<1>7. Knows(q)
  BY <1>3, <1>4 DEF Knows
<1> QED  BY <1>4, <1>5, <1>6, <1>7, ReadsKeep

LEMMA CanonicalType ==
  ASSUME TypeOK, NEW n \in Names
  PROVE  Canonical(n) \subseteq Names
<1>1. \A i \in Ids : table["tag"][i].name \in Names
  BY DEF TypeOK, Tables, Row
<1>2. Named("tag", n, NoId) \subseteq Ids /\ Live("tag") \subseteq Ids
  BY DEF Named, Live
<1> QED  BY <1>1, <1>2 DEF Canonical

LEMMA SuggestKeeps ==
  ASSUME CatalogueInv, NEW r \in Requests, Suggest(r)
  PROVE  CatalogueInv'
<1>1. PICK m \in Names, n \in Names : \E cm \in Canonical(m), cn \in Canonical(n) :
        Begin(r, [NewRequest EXCEPT !.steps = <<"lookup">>, !.op = "suggest", !.asked = {m, n},
                                    !.names = {cm} \cup (IF Base[cn] = Base[cm] THEN {} ELSE {cn})])
  BY DEF Suggest
<1>2. PICK cm \in Canonical(m), cn \in Canonical(n) :
        Begin(r, [NewRequest EXCEPT !.steps = <<"lookup">>, !.op = "suggest", !.asked = {m, n},
                                    !.names = {cm} \cup (IF Base[cn] = Base[cm] THEN {} ELSE {cn})])
  BY <1>1
<1> DEFINE names == {cm} \cup (IF Base[cn] = Base[cm] THEN {} ELSE {cn})
           q == [NewRequest EXCEPT !.steps = <<"lookup">>, !.op = "suggest", !.asked = {m, n}, !.names = names]
<1>3. names \in SUBSET Names /\ {m, n} \in SUBSET Names
  BY CanonicalType DEF CatalogueInv
<1>4. <<"lookup">> \in Seq(Steps) /\ <<"lookup">> # <<>> /\ Head(<<"lookup">>) = "lookup"
  <2>1. "lookup" \in Steps
    BY DEF Steps
  <2> QED  BY <2>1, ListsOfSteps, One
<1>5. Reads(r, q)
  BY <1>2 DEF Begin
<1> HIDE DEF names
<1>6. q \in Request /\ q.steps = <<"lookup">> /\ q.op = "suggest" /\ q.id = NoId /\ q.table = "tag"
  BY <1>3, <1>4, NewRequestType DEF Request, NewRequest
<1> HIDE DEF q
<1>7. Planned(q)
  BY <1>6 DEF Planned, PlansOf
<1>8. Knows(q)
  BY <1>4, <1>6 DEF Knows
<1> QED  BY <1>5, <1>6, <1>7, <1>8, ReadsKeep

\* A conflict ends a request, or has its suggestion looked for.
LEMMA ConflictKeeps ==
  ASSUME CatalogueInv, NEW r \in Requests, request[r].steps # <<>>,
         Reads(r, Conflicted(request[r]))
  PROVE  CatalogueInv'
<1> DEFINE q == request[r]
           p == Conflicted(q)
<1>1. q \in Request /\ Planned(q)
  BY Going
<1>2. /\ p \in Request /\ p.op = q.op /\ p.table = q.table
      /\ IF q.op = "suggest"
           THEN p = [q EXCEPT !.steps = <<"recover", "next">>]
           ELSE p.steps = <<>> /\ p.id = NoId
  BY <1>1, ConflictedType
<1>3. CASE q.op = "suggest"
  <2>1. p.steps = <<"recover", "next">> /\ p.id = q.id
    BY <1>1, <1>2, <1>3 DEF Request
  <2> HIDE DEF p
  <2>2. Planned(p)
    BY <1>1, <1>2, <1>3, <2>1 DEF Planned, PlansOf
  <2>3. Knows(p)
    BY <1>2, <1>3, <2>1, Heads DEF Knows
  <2> QED  BY <1>2, <2>2, <2>3, ReadsKeep DEF p
<1>4. CASE q.op # "suggest"
  <2> HIDE DEF p
  <2>1. Planned(p)
    BY <1>1, <1>2, <1>4 DEF Planned
  <2> QED  BY <1>2, <1>4, <2>1, ReadsKeep DEF p
<1> QED  BY <1>3, <1>4

\* The violation of a constraint ends it.
LEMMA ViolationKeeps ==
  ASSUME CatalogueInv, NEW r \in Requests, request[r].steps # <<>>, Reads(r, Violated(request[r]))
  PROVE  CatalogueInv'
<1> DEFINE q == request[r]
           p == Violated(q)
<1>1. q \in Request /\ Planned(q)
  BY Going
<1>2. p \in Request /\ p.op = q.op /\ p.table = q.table /\ p.steps = <<>> /\ p.id = NoId
  BY <1>1, ViolatedType
<1> HIDE DEF p
<1>3. Planned(p)
  BY <1>1, <1>2 DEF Planned
<1> QED  BY <1>2, <1>3, ReadsKeep DEF p

LEMMA CheckNameKeeps ==
  ASSUME CatalogueInv, NEW r \in Requests, CheckName(r)
  PROVE  CatalogueInv'
<1> DEFINE q == request[r]
<1>1. q.steps # <<>> /\ Head(q.steps) = "name"
  BY DEF CheckName, At
<1>2. /\ q \in Request /\ Planned(q) /\ q.steps \in PlansOf(q) /\ q.new.highlighted \in BOOLEAN
      /\ ~q.stale => Knows(q)
  BY <1>1, Going
<1>3. CASE Named(q.table, q.new.name, q.id) = {}
  <2> DEFINE a == Advanced(q)
             p == [a EXCEPT !.stale = a.stale /\ q.op = "update"]
  <2>1. Reads(r, p)
    BY <1>3 DEF CheckName
  <2>2. /\ Len(q.steps) # 1 /\ Tail(q.steps) \in PlansOf(q) /\ q.op \in {"create", "update", "suggest"}
        /\ Second(q) = IF q.op = "create" /\ q.new.highlighted THEN "count" ELSE "slug"
    BY <1>1, <1>2, AtName
  <2>3. a \in Request /\ Planned(a) /\ a.op = q.op /\ a.table = q.table
    BY <1>1, <1>2, <2>2, AdvancedType, TailPlanned
  <2>4. a.stale = q.stale /\ a.steps = Tail(q.steps)
    BY <1>1, <1>2, <2>2, AdvancedType DEF Request
  <2>5. ASSUME Knows(q) \/ q.op # "update" PROVE Knows(a)
    <3>1. ~(/\ Second(q) \in (IF q.op = "create" THEN {"slug", "insert"} ELSE {"update"})
            /\ q.new.highlighted)
      BY <2>2
    <3>2. Second(q) # "insert"
      BY <2>2
    <3> HIDE DEF q, a
    <3> QED  BY <1>1, <1>2, <1>3, <2>2, <2>5, <3>1, <3>2, TailKnows DEF a
  <2> HIDE DEF a
  <2>6. /\ p \in Request /\ p.steps = a.steps /\ p.op = a.op /\ p.table = a.table /\ p.id = a.id
        /\ p.new = a.new /\ p.sent = a.sent /\ p.stale = (a.stale /\ q.op = "update")
    BY <2>3 DEF Request
  <2> HIDE DEF p
  <2>7. Planned(p) /\ (Knows(a) => Knows(p))
    BY <2>3, <2>6 DEF Planned, PlansOf, Knows
  <2>8. ~p.stale => Knows(p)
    BY <1>2, <2>4, <2>5, <2>6, <2>7
  <2> QED  BY <2>1, <2>6, <2>7, <2>8, ReadsKeep
<1>4. CASE Named(q.table, q.new.name, q.id) # {}
  BY <1>1, <1>4, ConflictKeeps DEF CheckName
<1> QED  BY <1>3, <1>4

LEMMA CheckCapKeeps ==
  ASSUME CatalogueInv, NEW r \in Requests, CheckCap(r)
  PROVE  CatalogueInv'
<1> DEFINE q == request[r]
<1>1. q.steps # <<>> /\ Head(q.steps) = "count"
  BY DEF CheckCap, At
<1>2. /\ q \in Request /\ Planned(q) /\ q.steps \in PlansOf(q) /\ q.new.highlighted \in BOOLEAN
      /\ ~q.stale => Knows(q)
  BY <1>1, Going
<1>3. CASE ~(Highlighted(q.new.category, q.id) >= MaxHighlighted)
  <2>1. Reads(r, Advanced(q))
    BY <1>3 DEF CheckCap
  <2>2. /\ Len(q.steps) # 1 /\ Tail(q.steps) \in PlansOf(q) /\ q.op \in {"create", "update"}
        /\ Second(q) = IF q.op = "create" THEN "slug" ELSE "update"
    BY <1>1, <1>2, AtCount
  <2>3. Advanced(q) \in Request /\ Planned(Advanced(q))
    BY <1>1, <1>2, <2>2, AdvancedType, TailPlanned
  <2>4. Advanced(q).stale = q.stale
    BY <1>1, <1>2, <2>2, AdvancedType DEF Request
  <2>5. Highlighted(q.new.category, q.id) < MaxHighlighted
    BY <1>3, HighlightedType, Constants
  <2>6. ASSUME Knows(q) PROVE Knows(Advanced(q))
    <3>1. (q.op = "update" => "name" \in q.sent) => Named(q.table, q.new.name, q.id) = {}
      BY <1>1, <2>6 DEF Knows
    <3>2. Second(q) # "insert"
      BY <2>2
    <3> HIDE DEF q
    <3> QED  BY <1>1, <1>2, <2>2, <2>5, <2>6, <3>1, <3>2, TailKnows
  <2> QED  BY <1>2, <2>1, <2>3, <2>4, <2>6, ReadsKeep
<1>4. CASE Highlighted(q.new.category, q.id) >= MaxHighlighted
  BY <1>1, <1>4, StopsKeep DEF CheckCap
<1> QED  BY <1>3, <1>4

LEMMA ChooseSlugKeeps ==
  ASSUME CatalogueInv, NEW r \in Requests, ChooseSlug(r)
  PROVE  CatalogueInv'
<1> DEFINE q == request[r]
<1>1. q.steps # <<>> /\ Head(q.steps) = "slug"
  BY DEF ChooseSlug, At
<1>2. /\ q \in Request /\ Planned(q) /\ q.steps \in PlansOf(q) /\ q.new.highlighted \in BOOLEAN
      /\ ~q.stale => Knows(q)
  BY <1>1, Going
<1>3. PICK k \in 0..MaxRows : /\ Slugged(q.table, <<Base[q.new.name], k>>, q.id) = {}
                             /\ Reads(r, Advanced([q EXCEPT !.new.slug = <<Base[q.new.name], k>>]))
  BY DEF ChooseSlug
<1> DEFINE s == <<Base[q.new.name], k>>
           p == [q EXCEPT !.new.slug = s]
<1>4. q.new \in Row /\ s \in Slugs
  <2>1. q.new \in Row
    BY <1>2 DEF Request
  <2>2. q.new.name \in Names
    BY <2>1 DEF Row
  <2> QED  BY <2>1, <2>2, Constants DEF Slugs
<1> HIDE DEF s
<1>5. [q.new EXCEPT !.slug = s] \in Row
  BY <1>4 DEF Row
<1>6. p = [q EXCEPT !.new = [q.new EXCEPT !.slug = s]]
  BY <1>2 DEF Request
<1>7. /\ p \in Request /\ p.steps = q.steps /\ p.op = q.op /\ p.table = q.table /\ p.id = q.id
      /\ p.sent = q.sent /\ p.stale = q.stale /\ p.new = [q.new EXCEPT !.slug = s]
  BY <1>2, <1>5, <1>6 DEF Request
<1>8. /\ p.new.highlighted = q.new.highlighted /\ p.new.name = q.new.name
      /\ p.new.category = q.new.category
  BY <1>4, <1>7 DEF Row
<1>9. Reads(r, Advanced(p)) /\ Slugged(q.table, s, q.id) = {}
  BY <1>3 DEF s
<1> HIDE DEF p
<1>10. PlansOf(p) = PlansOf(q)
  BY <1>7, <1>8 DEF PlansOf
<1>11. /\ Len(p.steps) # 1 /\ Tail(p.steps) \in PlansOf(p)
       /\ Second(p) = IF p.op # "update" THEN "insert"
                       ELSE IF p.new.highlighted THEN "count" ELSE "update"
  <2>1. p.new.highlighted \in BOOLEAN /\ p.steps \in PlansOf(p) /\ Head(p.steps) = "slug"
    BY <1>1, <1>2, <1>7, <1>8, <1>10
  <2> QED  BY <2>1, AtSlug
<1>12. Planned(p)
  BY <1>2, <1>7, <1>10 DEF Planned
<1>13. Advanced(p) \in Request /\ Planned(Advanced(p))
  BY <1>1, <1>7, <1>11, <1>12, AdvancedType, TailPlanned
<1>14. Advanced(p).stale = q.stale
  BY <1>1, <1>7, <1>11, AdvancedType DEF Request
<1>15. ASSUME Knows(q) PROVE Knows(Advanced(p))
  <2>1. /\ (q.op = "update" => "name" \in q.sent) => Named(q.table, q.new.name, q.id) = {}
        /\ q.op = "create" /\ q.table = "skill" /\ q.new.highlighted =>
             Highlighted(q.new.category, q.id) < MaxHighlighted
    BY <1>1, <1>15 DEF Knows
  <2>2. q.op = "update" => Knows(p)
    BY <1>1, <1>7, <1>8, <1>15 DEF Knows
  <2>5. Slugged(p.table, p.new.slug, p.id) = {}
    BY <1>4, <1>7, <1>9 DEF Row
  <2>3. Second(p) \in (IF p.op = "create" THEN {"slug", "insert"} ELSE {"update"})
          /\ p.table = "skill" /\ p.new.highlighted => Highlighted(p.new.category, p.id) < MaxHighlighted
    BY <1>7, <1>8, <1>11, <2>1
  <2>4. (p.op = "update" => "name" \in p.sent) => Named(p.table, p.new.name, p.id) = {}
    BY <1>7, <1>8, <2>1
  <2> QED  BY <1>1, <1>7, <1>11, <2>2, <2>3, <2>4, <2>5, TailKnows
<1> QED  BY <1>2, <1>9, <1>13, <1>14, <1>15, ReadsKeep

\* What a write has to respect, unless it overlapped another.
LEMMA WriteHolds ==
  ASSUME CatalogueInv, NEW r \in Requests, NEW q \in Request, NEW i \in Ids, NEW row \in Row, Writes(r, q, i, row),
         ~request[r].stale /\ request[r].table = "skill" /\ row.st = "live" /\ row.highlighted =>
           Highlighted(row.category, i) < MaxHighlighted,
         ~request[r].stale /\ request[r].table = "tag" /\ row.st = "live" =>
           \/ Named("tag", row.name, i) = {}
           \/ i \in Live("tag") /\ table["tag"][i].name = row.name
  PROVE  CapHolds' /\ NoTwins'
<1> DEFINE t == request[r].table
<1>1. t \in Tables /\ TypeOK /\ request[r].stale \in BOOLEAN
  BY DEF CatalogueInv, TypeOK, Request
<1>2. /\ table' = [table EXCEPT ![t][i] = row]
      /\ overlapped' = overlapped \cup (IF request[r].stale THEN {t} ELSE {})
  BY DEF Writes
<1>3. CapHolds'
  <2>1. CASE t = "skill" /\ "skill" \notin overlapped'
    <3>1. ~request[r].stale /\ "skill" \notin overlapped
      BY <1>2, <2>1
    <3>2. \A c \in Categories : Highlighted(c, NoId) <= MaxHighlighted
      BY <3>1 DEF CatalogueInv, CapHolds
    <3>3. \A c \in Categories : Highlighted(c, NoId)' <= MaxHighlighted
      BY <1>1, <1>2, <2>1, <3>1, <3>2, CapKept
    <3> QED  BY <3>3 DEF CapHolds
  <2>2. CASE t = "tag"
    <3>1. table'["skill"] = table["skill"] /\ overlapped \subseteq overlapped'
      BY <1>1, <1>2, <2>2 DEF TypeOK
    <3> QED  BY <3>1 DEF CatalogueInv, CapHolds, Highlighted, Live
  <2>3. CASE "skill" \in overlapped'
    BY <2>3 DEF CapHolds
  <2> QED  BY <1>1, <2>1, <2>2, <2>3 DEF Tables
<1>4. NoTwins'
  <2>1. CASE t = "tag" /\ "tag" \notin overlapped'
    <3>1. ~request[r].stale /\ "tag" \notin overlapped
      BY <1>2, <2>1
    <3>2. \A j, k \in Live("tag") : Twins(j, k) => j = k
      BY <3>1 DEF CatalogueInv, NoTwins
    <3>3. \A j, k \in Live("tag")' : Twins(j, k)' => j = k
      BY <1>1, <1>2, <2>1, <3>1, <3>2, TwinsKept
    <3> QED  BY <3>3 DEF NoTwins
  <2>2. CASE t = "skill"
    <3>1. table'["tag"] = table["tag"] /\ overlapped \subseteq overlapped'
      BY <1>1, <1>2, <2>2 DEF TypeOK, Tables
    <3> QED  BY <3>1 DEF CatalogueInv, NoTwins, Twins, Live
  <2>3. CASE "tag" \in overlapped'
    BY <2>3 DEF NoTwins
  <2> QED  BY <1>1, <2>1, <2>2, <2>3 DEF Tables
<1> QED  BY <1>3, <1>4

\* A step that leaves a suggestion at its next name, or a new one.
LEMMA BetweenNames ==
  ASSUME NEW q, q.op = "suggest", Head(q.steps) \in {"lookup", "next", "name", "recover"}
  PROVE  Knows(q)
<1>1. Head(q.steps) \in {"slug", "count", "insert", "update"} => FALSE
  OBVIOUS
<1> QED  BY <1>1 DEF Knows

\* What is left of a request whose row is inserted.
LEMMA InsertedType ==
  ASSUME NEW q \in Request, Planned(q), q.steps \in PlansOf(q), q.new.highlighted \in BOOLEAN,
         Head(q.steps) = "insert", NEW i \in Ids
  PROVE  LET p == [Advanced(q) EXCEPT !.got = IF q.op = "suggest" THEN @ \cup {i} ELSE @] IN
         /\ p \in Request /\ Planned(p) /\ p.op = q.op /\ p.table = q.table
         /\ p.got = (IF q.op = "suggest" THEN q.got \cup {i} ELSE q.got)
         /\ IF q.op = "suggest" THEN p.steps = <<"next">> /\ p.names = q.names /\ p.end = q.end ELSE p.steps = <<>>
<1> DEFINE a == Advanced(q)
           p == [a EXCEPT !.got = IF q.op = "suggest" THEN @ \cup {i} ELSE @]
<1>1. /\ q.op \in {"create", "suggest"}
      /\ IF q.op = "create" THEN Len(q.steps) = 1
                            ELSE Len(q.steps) # 1 /\ Tail(q.steps) = <<"next">>
  BY AtInsert
<1>2. q.steps # <<>>
  BY PlansAreLists
<1>3. q.got \subseteq Ids
  BY DEF Request
<1>4. CASE q.op = "create"
  <2>1. a \in Request /\ a.op = q.op /\ a.table = q.table /\ a.steps = <<>> /\ a.got = q.got /\ Planned(a)
    BY <1>1, <1>2, <1>4, AdvancedType, StoppedType, StoppedPlanned
  <2> HIDE DEF a
  <2>2. p = a
    BY <1>4, <2>1 DEF Request
  <2> QED  BY <1>4, <2>1, <2>2 DEF a
<1>5. CASE q.op = "suggest"
  <2>1. /\ a \in Request /\ a.op = q.op /\ a.table = q.table /\ a.steps = <<"next">>
        /\ a.got = q.got /\ a.names = q.names /\ a.end = q.end /\ a.id = q.id
    <3>1. a = [q EXCEPT !.steps = Tail(q.steps)] /\ a \in Request
      BY <1>1, <1>2, <1>5, AdvancedType
    <3> HIDE DEF a
    <3> QED  BY <1>1, <1>5, <3>1 DEF Request
  <2> HIDE DEF a
  <2>2. /\ p \in Request /\ p.op = q.op /\ p.table = q.table /\ p.steps = <<"next">> /\ p.got = q.got \cup {i}
        /\ p.names = q.names /\ p.end = q.end /\ p.id = q.id
    BY <1>3, <1>5, <2>1 DEF Request
  <2> HIDE DEF p
  <2>3. Planned(p)
    BY <1>5, <2>2 DEF Planned, PlansOf
  <2> QED  BY <1>5, <2>2, <2>3 DEF p, a
<1> QED  BY <1>1, <1>4, <1>5

LEMMA InsertKeeps ==
  ASSUME CatalogueInv, NEW r \in Requests, Insert(r)
  PROVE  CatalogueInv'
<1> DEFINE q == request[r]
<1>1. q.steps # <<>> /\ Head(q.steps) = "insert"
  BY DEF Insert, At
<1>2. /\ q \in Request /\ Planned(q) /\ q.steps \in PlansOf(q) /\ q.new.highlighted \in BOOLEAN
      /\ ~q.stale => Knows(q)
  BY <1>1, Going
<1>3. CASE Violates(q.table, q.new, NoId)
  BY <1>1, <1>3, ViolationKeeps DEF Insert
<1>4. CASE ~Violates(q.table, q.new, NoId)
  <2>1. PICK i \in Ids :
          /\ table[q.table][i].st = "free"
          /\ Writes(r, [Advanced(q) EXCEPT !.got = IF q.op = "suggest" THEN @ \cup {i} ELSE @], i, q.new)
    BY <1>4 DEF Insert
  <2> DEFINE p == [Advanced(q) EXCEPT !.got = IF q.op = "suggest" THEN @ \cup {i} ELSE @]
  <2>2. /\ p \in Request /\ Planned(p) /\ p.op = q.op
        /\ IF q.op = "suggest" THEN p.steps = <<"next">> ELSE p.steps = <<>>
    BY <1>1, <1>2, InsertedType
  <2>3. q.op \in {"create", "suggest"}
    BY <1>1, <1>2, AtInsert
  <2>4. q.id = NoId /\ (q.op = "suggest" => q.table = "tag")
    BY <1>2, <2>3 DEF Planned
  <2>5. q.new \in Row
    BY <1>2 DEF Request
  <2>6. Writes(r, p, i, q.new)
    BY <2>1
  <2> HIDE DEF p
  <2>7. i \notin Live(q.table)
    BY <2>1 DEF Live
  <2>8. ~q.stale => Named(q.table, q.new.name, NoId) = {}
    BY <1>1, <1>2, <2>3, <2>4 DEF Knows
  <2>9. ~q.stale /\ q.table = "tag" => Named("tag", q.new.name, i) = {}
    BY <2>7, <2>8, Constants DEF Named, Live
  <2>10. ~q.stale /\ q.table = "skill" /\ q.new.highlighted => Highlighted(q.new.category, i) < MaxHighlighted
    <3>1. ~q.stale /\ q.table = "skill" /\ q.new.highlighted => Highlighted(q.new.category, NoId) < MaxHighlighted
      BY <1>1, <1>2, <2>3, <2>4 DEF Knows
    <3>2. q.table = "skill" => Live("skill") \ {i} = Live("skill") \ {NoId}
      BY <2>7, Constants DEF Live
    <3> QED  BY <3>1, <3>2 DEF Highlighted
  <2>11. CapHolds' /\ NoTwins'
    BY <2>2, <2>5, <2>6, <2>9, <2>10, WriteHolds
  <2>12. p.steps = <<>> \/ (p.op = "suggest" /\ Head(p.steps) = "next")
    <3>1. Head(<<"next">>) = "next"
      BY One
    <3>2. CASE q.op = "suggest"
      BY <2>2, <3>1, <3>2
    <3>3. CASE q.op = "create"
      BY <2>2, <3>3
    <3> QED  BY <2>3, <3>2, <3>3
  <2> QED  BY <2>2, <2>5, <2>6, <2>11, <2>12, WritesKeep
<1> QED  BY <1>3, <1>4

LEMMA SaveKeeps ==
  ASSUME CatalogueInv, NEW r \in Requests, Save(r)
  PROVE  CatalogueInv'
<1> DEFINE q == request[r]
           old == table[q.table][q.id]
           row == Patched(old, q)
<1>1. q.steps # <<>> /\ Head(q.steps) = "update"
  BY DEF Save, At
<1>2. /\ q \in Request /\ Planned(q) /\ q.steps \in PlansOf(q) /\ q.new.highlighted \in BOOLEAN
      /\ ~q.stale => Knows(q)
  BY <1>1, Going
<1>3. q.op = "update" /\ Len(q.steps) = 1
  BY <1>1, <1>2, AtUpdate
<1>4. CASE q.id \notin Live(q.table)
  BY <1>1, <1>4, StopsKeep DEF Save
<1>5. CASE q.id \in Live(q.table) /\ Violates(q.table, row, q.id)
  BY <1>1, <1>5, StopsKeep DEF Save
<1>6. CASE q.id \in Live(q.table) /\ ~Violates(q.table, row, q.id)
  <2>1. Writes(r, Advanced(q), q.id, row)
    BY <1>6 DEF Save
  <2>2. q.id \in Ids /\ q.table \in Tables /\ q.new \in Row
    BY <1>2, <1>6 DEF Live, Request
  <2>3. old \in Row
    BY <2>2 DEF CatalogueInv, TypeOK
  <2>4. /\ row \in Row
        /\ row.name = (IF "name" \in q.sent THEN q.new.name ELSE old.name)
        /\ row.category = (IF "category" \in q.sent THEN q.new.category ELSE old.category)
        /\ row.highlighted = (IF "highlighted" \in q.sent THEN q.new.highlighted ELSE old.highlighted)
    <3> HIDE DEF old
    <3> QED  BY <2>2, <2>3 DEF Patched, Row
  <2>5. Advanced(q) \in Request /\ Planned(Advanced(q)) /\ Advanced(q).steps = <<>>
    BY <1>1, <1>2, <1>3, AdvancedType, StoppedType, StoppedPlanned
  <2>6. ~q.stale => row.category = q.new.category /\ row.highlighted = q.new.highlighted
    <3>1. ~q.stale => /\ "category" \notin q.sent => q.new.category = old.category
                      /\ "highlighted" \notin q.sent => q.new.highlighted = old.highlighted
      BY <1>2, <1>3 DEF Knows
    <3> HIDE DEF old, row
    <3> QED  BY <2>4, <3>1
  <2>7. ~q.stale /\ q.table = "skill" /\ row.highlighted => Highlighted(row.category, q.id) < MaxHighlighted
    <3>1. ~q.stale /\ q.table = "skill" /\ q.new.highlighted => Highlighted(q.new.category, q.id) < MaxHighlighted
      BY <1>1, <1>2, <1>3 DEF Knows
    <3> HIDE DEF row
    <3> QED  BY <2>6, <3>1
  <2>8. ~q.stale /\ q.table = "tag" =>
          \/ Named("tag", row.name, q.id) = {}
          \/ q.id \in Live("tag") /\ old.name = row.name
    <3>1. ~q.stale /\ "name" \in q.sent => Named(q.table, q.new.name, q.id) = {}
      BY <1>1, <1>2, <1>3 DEF Knows
    <3>2. "name" \in q.sent => row.name = q.new.name
      BY <2>4
    <3>3. "name" \notin q.sent => row.name = old.name
      BY <2>4
    <3> HIDE DEF row, old
    <3> QED  BY <1>6, <3>1, <3>2, <3>3
  <2>9. CapHolds' /\ NoTwins'
    <3> HIDE DEF row
    <3> QED  BY <2>1, <2>2, <2>4, <2>5, <2>7, <2>8, WriteHolds
  <2>10. row \in Row /\ q.id \in Ids
    BY <2>2, <2>4
  <2> DEFINE p == Advanced(q)
  <2>11. p \in Request /\ Planned(p) /\ p.steps = <<>> /\ Writes(r, p, q.id, row)
    BY <2>1, <2>5
  <2> HIDE DEF row, p, q
  <2> QED  BY <2>9, <2>10, <2>11, WritesKeep
<1> QED  BY <1>4, <1>5, <1>6

LEMMA RemoveKeeps ==
  ASSUME CatalogueInv, NEW r \in Requests, Remove(r)
  PROVE  CatalogueInv'
<1> DEFINE q == request[r]
           row == [FreeRow EXCEPT !.st = "gone"]
<1>1. q.steps # <<>> /\ Head(q.steps) = "delete"
  BY DEF Remove, At
<1>2. q \in Request /\ Planned(q) /\ q.steps \in PlansOf(q) /\ q.new.highlighted \in BOOLEAN
  BY <1>1, Going
<1>3. CASE q.id \notin Live(q.table)
  BY <1>1, <1>3, StopsKeep DEF Remove
<1>4. CASE q.id \in Live(q.table)
  <2>1. Writes(r, Advanced(q), q.id, row)
    BY <1>4 DEF Remove
  <2>2. row \in Row /\ row.st = "gone"
    BY FreeRowType DEF Row
  <2>3. Len(q.steps) = 1
    BY <1>1, <1>2, AtDelete
  <2>4. Advanced(q) \in Request /\ Planned(Advanced(q)) /\ Advanced(q).steps = <<>>
    BY <1>1, <1>2, <2>3, AdvancedType, StoppedType, StoppedPlanned
  <2>5. q.id \in Ids
    BY <1>4 DEF Live
  <2> DEFINE p == Advanced(q)
  <2> HIDE DEF row, p, q
  <2>6. CapHolds' /\ NoTwins'
    BY <2>1, <2>2, <2>4, <2>5, WriteHolds DEF p, q
  <2> QED  BY <2>1, <2>2, <2>4, <2>5, <2>6, WritesKeep DEF p, q
<1> QED  BY <1>3, <1>4

LEMMA LookupKeeps ==
  ASSUME CatalogueInv, NEW r \in Requests, Lookup(r)
  PROVE  CatalogueInv'
<1> DEFINE q == request[r]
           found == {n \in q.names : Slugged("tag", <<Base[n], 0>>, NoId) # {}}
           got == UNION {Slugged("tag", <<Base[n], 0>>, NoId) : n \in found}
           p == [q EXCEPT !.steps = <<"next">>, !.names = @ \ found, !.got = got]
<1>1. q.steps # <<>> /\ Head(q.steps) = "lookup"
  BY DEF Lookup, At
<1>2. q \in Request /\ Planned(q) /\ q.steps \in PlansOf(q) /\ q.new.highlighted \in BOOLEAN
  BY <1>1, Going
<1>3. q.op = "suggest"
  BY <1>1, <1>2, AtLookup
<1>4. Reads(r, p)
  BY DEF Lookup
<1>5. got \subseteq Ids
  BY DEF Slugged, Live
<1>6. <<"next">> \in Seq(Steps) /\ Head(<<"next">>) = "next"
  <2>1. "next" \in Steps
    BY DEF Steps
  <2> QED  BY <2>1, ListsOfSteps, One
<1> HIDE DEF got, found
<1>7. /\ p \in Request /\ p.steps = <<"next">> /\ p.op = "suggest" /\ p.table = q.table /\ p.id = q.id
  BY <1>2, <1>3, <1>5, <1>6 DEF Request
<1> HIDE DEF p
<1>8. Planned(p)
  BY <1>2, <1>3, <1>7 DEF Planned, PlansOf
<1>9. Knows(p)
  BY <1>6, <1>7, BetweenNames
<1> QED  BY <1>4, <1>7, <1>8, <1>9, ReadsKeep

\* A request that turns to one of its names.
LEMMA TurnsType ==
  ASSUME NEW q \in Request, Planned(q), q.op = "suggest", NEW n \in Names
  PROVE  LET p == [q EXCEPT !.steps = <<"name", "slug", "insert", "next">>, !.names = @ \ {n},
                            !.new = [FreeRow EXCEPT !.st = "live", !.name = n]] IN
         /\ p \in Request /\ Planned(p) /\ p.op = "suggest" /\ p.table = q.table /\ p.end = q.end
         /\ p.steps = <<"name", "slug", "insert", "next">> /\ p.got = q.got
         /\ p.names = q.names \ {n} /\ p.new.name = n /\ p.new.st = "live"
<1> DEFINE new == [FreeRow EXCEPT !.st = "live", !.name = n]
           steps == <<"name", "slug", "insert", "next">>
           p == [q EXCEPT !.steps = steps, !.names = @ \ {n}, !.new = new]
<1>1. new \in Row /\ new.name = n /\ new.st = "live"
  BY FreeRowType DEF Row
<1>2. steps \in Seq(Steps)
  <2>1. {"name", "slug", "insert", "next"} \subseteq Steps
    BY DEF Steps
  <2> QED  BY <2>1, ListsOfSteps
<1> HIDE DEF new, steps
<1>3. /\ p \in Request /\ p.steps = steps /\ p.names = q.names \ {n} /\ p.new = new
      /\ p.op = q.op /\ p.table = q.table /\ p.id = q.id /\ p.got = q.got /\ p.end = q.end
  BY <1>1, <1>2 DEF Request
<1> HIDE DEF p
<1>4. Planned(p)
  BY <1>3 DEF Planned, PlansOf, steps
<1> QED  BY <1>1, <1>3, <1>4 DEF p, new, steps

LEMMA NextNameKeeps ==
  ASSUME CatalogueInv, NEW r \in Requests, NextName(r)
  PROVE  CatalogueInv'
<1> DEFINE q == request[r]
<1>1. q.steps # <<>> /\ Head(q.steps) = "next"
  BY DEF NextName, At
<1>2. q \in Request /\ Planned(q) /\ q.steps \in PlansOf(q) /\ q.new.highlighted \in BOOLEAN
  BY <1>1, Going
<1>3. q.op = "suggest" /\ Len(q.steps) = 1
  BY <1>1, <1>2, AtNext
<1>4. CASE Reads(r, Advanced(q))
  <2>1. Advanced(q) = Stopped(q, "ok")
    BY <1>1, <1>2, <1>3, AdvancedType
  <2> QED  BY <1>1, <1>4, <2>1, StopsKeep
<1>5. ASSUME NEW n \in q.names,
             Reads(r, [q EXCEPT !.steps = <<"name", "slug", "insert", "next">>, !.names = @ \ {n},
                                !.new = [FreeRow EXCEPT !.st = "live", !.name = n]])
      PROVE  CatalogueInv'
  <2> DEFINE p == [q EXCEPT !.steps = <<"name", "slug", "insert", "next">>, !.names = @ \ {n},
                            !.new = [FreeRow EXCEPT !.st = "live", !.name = n]]
  <2>1. n \in Names
    BY <1>2 DEF Request
  <2>2. p \in Request /\ Planned(p) /\ p.op = "suggest" /\ p.steps = <<"name", "slug", "insert", "next">>
    BY <1>2, <1>3, <2>1, TurnsType, ZenonT(60)
  <2>3. Reads(r, p)
    BY <1>5
  <2> HIDE DEF p
  <2>4. Head(p.steps) = "name"
    BY <2>2, Four
  <2>5. Knows(p)
    BY <2>2, <2>4, BetweenNames
  <2> QED  BY <2>2, <2>3, <2>5, ReadsKeep
<1> QED  BY <1>4, <1>5 DEF NextName

\* A suggestion that was found goes on to the next name.
LEMMA FoundType ==
  ASSUME NEW q \in Request, Planned(q), q.steps # <<>>, q.op = "suggest", Len(q.steps) # 1,
         Tail(q.steps) = <<"next">>, NEW i \in Ids
  PROVE  LET p == Advanced([q EXCEPT !.got = @ \cup {i}]) IN
         /\ p \in Request /\ Planned(p) /\ p.op = "suggest" /\ p.table = q.table /\ p.end = q.end
         /\ p.steps = <<"next">> /\ p.got = q.got \cup {i} /\ p.names = q.names
<1> DEFINE g == [q EXCEPT !.got = @ \cup {i}]
           p == Advanced(g)
<1>1. /\ g \in Request /\ g.steps = q.steps /\ g.op = q.op /\ g.table = q.table /\ g.id = q.id
      /\ g.got = q.got \cup {i} /\ g.names = q.names /\ g.end = q.end
  BY DEF Request
<1> HIDE DEF g
<1>2. p \in Request /\ p = [g EXCEPT !.steps = Tail(g.steps)]
  BY <1>1, AdvancedType
<1>3. /\ p.steps = <<"next">> /\ p.op = "suggest" /\ p.table = q.table /\ p.id = q.id
      /\ p.got = q.got \cup {i} /\ p.names = q.names /\ p.end = q.end
  BY <1>1, <1>2 DEF Request
<1> HIDE DEF p
<1>4. Planned(p)
  BY <1>3 DEF Planned, PlansOf
<1> QED  BY <1>2, <1>3, <1>4 DEF p, g

LEMMA RecoverKeeps ==
  ASSUME CatalogueInv, NEW r \in Requests, Recover(r)
  PROVE  CatalogueInv'
<1> DEFINE q == request[r]
           found == Conflicting(q.new.name)
<1>1. q.steps # <<>> /\ Head(q.steps) = "recover"
  BY DEF Recover, At
<1>2. q \in Request /\ Planned(q) /\ q.steps \in PlansOf(q) /\ q.new.highlighted \in BOOLEAN
  BY <1>1, Going
<1>3. q.op = "suggest" /\ Len(q.steps) # 1 /\ Tail(q.steps) = <<"next">>
  BY <1>1, <1>2, AtRecover
<1>4. CASE Reads(r, Stopped(q, "failed"))
  BY <1>1, <1>4, StopsKeep
<1>5. ASSUME NEW i \in found, Reads(r, Advanced([q EXCEPT !.got = @ \cup {i}]))
      PROVE  CatalogueInv'
  <2> DEFINE p == Advanced([q EXCEPT !.got = @ \cup {i}])
  <2>1. i \in Ids
    BY <1>5 DEF Conflicting, Named, Slugged, Live
  <2>2. p \in Request /\ Planned(p) /\ p.op = "suggest" /\ p.steps = <<"next">>
    BY <1>1, <1>2, <1>3, <2>1, FoundType
  <2>3. Reads(r, p)
    BY <1>5
  <2> HIDE DEF p
  <2>4. Head(p.steps) = "next"
    BY <2>2, One
  <2>5. Knows(p)
    BY <2>2, <2>4, BetweenNames
  <2> QED  BY <2>2, <2>3, <2>5, ReadsKeep
<1> QED  BY <1>4, <1>5 DEF Recover

LEMMA StepKeeps ==
  ASSUME CatalogueInv, NEW r \in Requests, CatalogueStep(r)
  PROVE  CatalogueInv'
BY CreateKeeps, UpdateKeeps, DeleteKeeps, SuggestKeeps, CheckNameKeeps, CheckCapKeeps, ChooseSlugKeeps,
   InsertKeeps, SaveKeeps, RemoveKeeps, LookupKeeps, NextNameKeeps, RecoverKeeps DEF CatalogueStep

LEMMA UnchangedKeeps ==
  ASSUME CatalogueInv, UNCHANGED catalogueVars
  PROVE  CatalogueInv'
<1> USE DEF catalogueVars, CatalogueInv
<1>1. TypeOK' /\ (\A r \in Requests : Planned(request[r]))'
  BY DEF TypeOK, Planned, PlansOf
<1>2. KnowsInv'
  <2> SUFFICES ASSUME NEW r \in Requests, request'[r].steps # <<>>, ~request'[r].stale
               PROVE  Knows(request[r])'
    BY DEF KnowsInv
  <2>1. Knows(request[r])
    BY DEF KnowsInv
  <2> QED  BY <2>1, KnowsLocal
<1>3. CapHolds' /\ NoTwins'
  BY DEF CapHolds, NoTwins, Live, Highlighted, Twins
<1> QED  BY <1>1, <1>2, <1>3

-----------------------------------------------------------------------------
(***************************************************************************)
(* The acceptance of suggestions.  As long as no tag is renamed or deleted *)
(* the tags only grow, so that what was in the way is there to be found;   *)
(* and the names of a list stay apart from the tags found for it, so that  *)
(* what is found is new to it.                                             *)
(***************************************************************************)

\* Rows are added, those there are stay as they are.
Grows == /\ Live("tag") \subseteq Live("tag")'
         /\ \A j \in Live("tag") : table'["tag"][j] = table["tag"][j]

LEMMA SetsGrow ==
  ASSUME Grows
  PROVE  /\ \A s : Slugged("tag", s, NoId) \subseteq Slugged("tag", s, NoId)'
         /\ \A n : Named("tag", n, NoId) \subseteq Named("tag", n, NoId)'
BY DEF Grows, Slugged, Named, SameName

LEMMA ConflictingStays ==
  ASSUME Grows, NEW n, Conflicting(n) # {}
  PROVE  Conflicting(n)' # {}
<1>1. Conflicting(n)' = IF Named("tag", n, NoId)' # {} THEN Named("tag", n, NoId)'
                                                      ELSE Slugged("tag", <<Base[n], 0>>, NoId)'
  BY DEF Conflicting
<1>2. CASE Named("tag", n, NoId) # {}
  BY <1>1, <1>2, SetsGrow
<1>3. CASE Named("tag", n, NoId) = {}
  <2>1. Slugged("tag", <<Base[n], 0>>, NoId) # {}
    BY <1>3 DEF Conflicting
  <2> QED  BY <1>1, <2>1, SetsGrow
<1> QED  BY <1>2, <1>3

\* What the others rely on stays.
LEMMA ResolvableStays ==
  ASSUME Grows, NEW p \in Requests, Resolvable(request[p]),
         request'[p].op = request[p].op, request'[p].table = request[p].table,
         request'[p].steps = request[p].steps, request'[p].end = request[p].end,
         request'[p].new = request[p].new, request'[p].names = request[p].names,
         request'[p].got = request[p].got, request[p].stale => request'[p].stale
  PROVE  Resolvable(request[p])'
<1> DEFINE q == request[p]
<1>1. q.op = "suggest" /\ q.end \notin {"none", "ok"} => q.stale
  BY DEF Resolvable
<1>2. CASE q.steps = <<>>
  BY <1>1, <1>2 DEF Resolvable
<1>3. CASE q.steps # <<>>
  <2>1. /\ Head(q.steps) = "insert" /\ q.table = "tag" => q.new.slug[1] = Base[q.new.name]
        /\ Head(q.steps) = "recover" => Conflicting(q.new.name) # {}
        /\ q.op = "suggest" => q.end = "none" /\ Apart(q)
    BY <1>3 DEF Resolvable
  <2>2. q.op = "suggest" => Apart(q)'
    BY <2>1 DEF Apart, Current, Grows
  <2>3. PICK n : n = q.new.name
    OBVIOUS
  <2>4. request'[p].new.name = n
    BY <2>3
  <2>5. Head(q.steps) = "recover" => Conflicting(q.new.name)' # {}
    <3>1. Head(q.steps) = "recover" => Conflicting(n)' # {}
      BY <2>1, <2>3, ConflictingStays
    <3>2. Conflicting(q.new.name)' = Conflicting(n)'
      BY <2>4 DEF Conflicting, Named, Slugged, SameName
    <3> QED  BY <3>1, <3>2
  <2> QED  BY <1>1, <1>3, <2>1, <2>2, <2>5 DEF Resolvable
<1> QED  BY <1>2, <1>3

\* A read that goes on resolvably, and keeps what its request is about.
LEMMA ReadsAccept ==
  ASSUME TypeOK, AcceptInv, NEW r \in Requests, NEW q, Reads(r, q),
         Disturbs(request[r]) => Disturbs(q),
         ~Disturbed => Resolvable(q)
  PROVE  AcceptInv'
<1> SUFFICES ASSUME ~Disturbed' PROVE SluggedByName' /\ \A p \in Requests : Resolvable(request[p])'
  BY DEF AcceptInv
<1>1. table' = table /\ request'[r] = q /\ \A p \in Requests \ {r} : request'[p] = request[p]
  BY DEF Reads, TypeOK
<1>2. ~Disturbed
  <2> SUFFICES ASSUME NEW p \in Requests, Disturbs(request[p]) PROVE Disturbed'
    BY DEF Disturbed
  <2>1. Disturbs(request'[p])
    BY <1>1
  <2> QED  BY <2>1 DEF Disturbed, Disturbs
<1>3. SluggedByName /\ (\A p \in Requests : Resolvable(request[p])) /\ Resolvable(q)
  BY <1>2 DEF AcceptInv
<1>4. SluggedByName'
  BY <1>1, <1>3 DEF SluggedByName, Live
<1>5. ASSUME NEW p \in Requests PROVE Resolvable(request[p])'
  <2>1. Resolvable(request'[p])
    BY <1>1, <1>3
  <2> QED  BY <1>1, <2>1 DEF Resolvable, Conflicting, Named, Slugged, SameName, Live, Apart, Current
<1> QED  BY <1>4, <1>5

\* A write that lets the tags grow.
LEMMA WritesAccept ==
  ASSUME TypeOK, AcceptInv, NEW r \in Requests, NEW q, NEW i \in Ids, NEW row \in Row, Writes(r, q, i, row),
         Disturbs(request[r]) => Disturbs(q),
         ~Disturbed => Grows /\ SluggedByName' /\ Resolvable(request[r])'
  PROVE  AcceptInv'
<1> SUFFICES ASSUME ~Disturbed' PROVE SluggedByName' /\ \A p \in Requests : Resolvable(request[p])'
  BY DEF AcceptInv
<1> DEFINE t == request[r].table
<1>1. /\ request'[r] = q
      /\ \A p \in Requests \ {r} :
           request'[p] = [request[p] EXCEPT !.stale = @ \/ (request[p].steps # <<>> /\ request[p].table = t)]
  BY DEF Writes
<1>2. ASSUME NEW p \in Requests \ {r}
      PROVE  /\ request'[p].op = request[p].op /\ request'[p].table = request[p].table
             /\ request'[p].steps = request[p].steps /\ request'[p].end = request[p].end
             /\ request'[p].new = request[p].new /\ request'[p].names = request[p].names
             /\ request'[p].got = request[p].got /\ (request[p].stale => request'[p].stale)
  <2> DEFINE more == request[p].stale \/ (request[p].steps # <<>> /\ request[p].table = t)
  <2>1. request[p] \in Request /\ request'[p] = [request[p] EXCEPT !.stale = more]
    BY <1>1 DEF TypeOK
  <2>2. request[p].stale => more
    OBVIOUS
  <2> HIDE DEF more
  <2> QED  BY <2>1, <2>2 DEF Request
<1>3. ~Disturbed
  <2> SUFFICES ASSUME NEW p \in Requests, Disturbs(request[p]) PROVE Disturbed'
    BY DEF Disturbed
  <2>1. Disturbs(request'[p])
    BY <1>1, <1>2 DEF Disturbs
  <2> QED  BY <2>1 DEF Disturbed, Disturbs
<1>4. \A p \in Requests : Resolvable(request[p])
  BY <1>3 DEF AcceptInv
<1>5. ASSUME NEW p \in Requests PROVE Resolvable(request[p])'
  <2>1. CASE p = r
    BY <1>3, <2>1
  <2>2. CASE p # r
    BY <1>2, <1>3, <1>4, <2>2, ResolvableStays
  <2> QED  BY <2>1, <2>2
<1> QED  BY <1>3, <1>5

\* A row that is added, or a skill that is written.
LEMMA RowsGrow ==
  ASSUME TypeOK, NEW t \in Tables, NEW i \in Ids, NEW row \in Row, table' = [table EXCEPT ![t][i] = row],
         t = "tag" => i \notin Live("tag")
  PROVE  /\ Grows
         /\ t = "tag" => table'["tag"][i] = row
         /\ t = "tag" => Live("tag")' = Live("tag") \cup (IF row.st = "live" THEN {i} ELSE {})
         /\ t # "tag" => Live("tag")' = Live("tag")
<1>1. CASE t = "tag"
  <2>1. table' = [table EXCEPT !["tag"][i] = row]
    BY <1>1
  <2>2. table'["tag"][i] = row /\ \A j \in Ids \ {i} : table'["tag"][j] = table["tag"][j]
    BY <2>1 DEF TypeOK, Tables
  <2> DEFINE After == Live("tag") \cup (IF row.st = "live" THEN {i} ELSE {})
  <2>3. ASSUME NEW j \in Ids PROVE (j \in Live("tag"))' <=> j \in After
    BY <1>1, <2>2 DEF Live
  <2>4. Live("tag")' = After
    <3>1. Live("tag")' \subseteq Ids /\ After \subseteq Ids
      BY DEF Live
    <3> QED  BY <2>3, <3>1
  <2> QED  BY <1>1, <2>2, <2>4 DEF Grows, Live
<1>2. CASE t # "tag"
  <2>1. table'["tag"] = table["tag"]
    BY <1>2, RowWritten DEF Tables
  <2> QED  BY <1>2, <2>1 DEF Grows, Live
<1> QED  BY <1>1, <1>2

\* Requests that cannot be suggestions at a step of interest.
LEMMA PlainResolvable ==
  ASSUME NEW q, q.op # "suggest", Head(q.steps) \notin {"insert", "recover"} \/ q.steps = <<>>
  PROVE  Resolvable(q)
BY DEF Resolvable

LEMMA StopsAccept ==
  ASSUME CatalogueInv, AcceptInv, NEW r \in Requests, request[r].steps # <<>>,
         NEW end \in {"ok", "refused", "failed"}, Reads(r, Stopped(request[r], end)),
         ~Disturbed => request[r].op # "suggest" \/ end = "ok"
  PROVE  AcceptInv'
<1> DEFINE q == request[r]
           p == Stopped(q, end)
<1>1. q \in Request
  BY Going
<1>2. p.steps = <<>> /\ p.op = q.op /\ p.table = q.table /\ p.end = end
  BY <1>1, StoppedType
<1> HIDE DEF p
<1>3. ~Disturbed => Resolvable(p)
  BY <1>2 DEF Resolvable
<1>4. TypeOK /\ (Disturbs(q) => Disturbs(p))
  BY <1>2 DEF CatalogueInv, Disturbs
<1> QED  BY <1>3, <1>4, ReadsAccept DEF p

\* A suggestion in the way of which there is something that can be found.
LEMMA ConflictAccept ==
  ASSUME CatalogueInv, AcceptInv, NEW r \in Requests, request[r].steps # <<>>,
         Reads(r, Conflicted(request[r])), Head(request[r].steps) = "name",
         request[r].op = "suggest" => Conflicting(request[r].new.name) # {}
  PROVE  AcceptInv'
<1> DEFINE q == request[r]
           p == Conflicted(q)
<1>1. q \in Request /\ TypeOK
  BY Going DEF CatalogueInv
<1>2. /\ p \in Request /\ p.op = q.op /\ p.table = q.table
      /\ IF q.op = "suggest"
           THEN p = [q EXCEPT !.steps = <<"recover", "next">>]
           ELSE p.steps = <<>> /\ p.id = NoId
  BY <1>1, ConflictedType
<1>3. Disturbs(q) => Disturbs(p)
  BY <1>2 DEF Disturbs
<1>4. ASSUME ~Disturbed PROVE Resolvable(p)
  <2>1. CASE q.op = "suggest"
    <3>1. /\ p.steps = <<"recover", "next">> /\ p.new = q.new /\ p.names = q.names
          /\ p.got = q.got /\ p.end = q.end
      <4>1. p = [q EXCEPT !.steps = <<"recover", "next">>]
        BY <1>2, <2>1
      <4> HIDE DEF p
      <4> QED  BY <1>1, <4>1 DEF Request
    <3>2. Head(p.steps) = "recover" /\ p.steps # <<>>
      BY <3>1, Two
    <3>3. Resolvable(q)
      BY <1>4 DEF AcceptInv
    <3> HIDE DEF p
    <3>4. Apart(q) /\ q.end = "none"
      BY <2>1, <3>3 DEF Resolvable
    <3>5. Current(p) = {q.new.name} /\ Current(q) = {q.new.name}
      BY <3>1, <3>2 DEF Current
    <3>6. Apart(p)
      BY <3>1, <3>4, <3>5 DEF Apart
    <3> QED  BY <2>1, <3>1, <3>2, <3>4, <3>6 DEF Resolvable
  <2>2. CASE q.op # "suggest"
    BY <1>2, <2>2, PlainResolvable
  <2> QED  BY <2>1, <2>2
<1> HIDE DEF p
<1> QED  BY <1>1, <1>3, <1>4, ReadsAccept DEF p

LEMMA BeginsAccept ==
  ASSUME CatalogueInv, AcceptInv, NEW r \in Requests, Create(r) \/ Update(r) \/ Delete(r)
  PROVE  AcceptInv'
<1>1. TypeOK /\ ~Disturbs(NewRequest)
  BY DEF CatalogueInv, Disturbs, NewRequest
<1>2. ASSUME NEW q, q.op # "suggest", Head(q.steps) \notin {"insert", "recover"}, Begin(r, q)
      PROVE  AcceptInv'
  <2>1. Resolvable(q)
    BY <1>2, PlainResolvable
  <2> QED  BY <1>1, <1>2, <2>1, ReadsAccept DEF Begin
<1>3. CASE Create(r)
  <2>1. PICK t \in Tables : \E n \in NamesOf(t), c \in Categories, h \in BOOLEAN :
        Begin(r, [NewRequest EXCEPT
          !.steps = IF h THEN <<"name", "count", "slug", "insert">> ELSE <<"name", "slug", "insert">>,
          !.table = t, !.op = "create",
          !.new = [FreeRow EXCEPT !.st = "live", !.name = n, !.category = c, !.highlighted = h]])
    BY <1>3 DEF Create
  <2>2. PICK n \in NamesOf(t), c \in Categories, h \in BOOLEAN :
        Begin(r, [NewRequest EXCEPT
          !.steps = IF h THEN <<"name", "count", "slug", "insert">> ELSE <<"name", "slug", "insert">>,
          !.table = t, !.op = "create",
          !.new = [FreeRow EXCEPT !.st = "live", !.name = n, !.category = c, !.highlighted = h]])
    BY <2>1
  <2> DEFINE steps == IF h THEN <<"name", "count", "slug", "insert">> ELSE <<"name", "slug", "insert">>
             new == [FreeRow EXCEPT !.st = "live", !.name = n, !.category = c, !.highlighted = h]
             q == [NewRequest EXCEPT !.steps = steps, !.table = t, !.op = "create", !.new = new]
  <2>3. Head(steps) = "name"
    BY Heads
  <2> HIDE DEF steps, new
  <2>4. q.op = "create" /\ q.steps = steps
    BY DEF NewRequest
  <2>5. Begin(r, q)
    BY <2>2 DEF steps, new
  <2> HIDE DEF q
  <2> QED  BY <1>2, <2>3, <2>4, <2>5
<1>4. CASE Update(r)
  <2>1. PICK t \in Tables :
        \E i \in Live(t), n \in NamesOf(t), c \in Categories, h \in BOOLEAN, sent \in SUBSET Columns :
          LET old == table[t][i] IN
          /\ t = "tag" => sent = {"name"}
          /\ "name" \in sent <=> n # old.name
          /\ "category" \notin sent => c = old.category
          /\ "highlighted" \notin sent => h = old.highlighted
          /\ sent # {}
          /\ LET new == [old EXCEPT !.name = n, !.category = c, !.highlighted = h] IN
             Begin(r, [NewRequest EXCEPT !.steps = UpdateSteps(old, new), !.table = t, !.op = "update",
                                         !.id = i, !.new = new, !.sent = sent])
    BY <1>4, Zenon DEF Update
  <2>2. PICK i \in Live(t), n \in NamesOf(t), c \in Categories, h \in BOOLEAN, sent \in SUBSET Columns :
        LET old == table[t][i] IN
        /\ t = "tag" => sent = {"name"}
        /\ "name" \in sent <=> n # old.name
        /\ "category" \notin sent => c = old.category
        /\ "highlighted" \notin sent => h = old.highlighted
        /\ sent # {}
        /\ LET new == [old EXCEPT !.name = n, !.category = c, !.highlighted = h] IN
           Begin(r, [NewRequest EXCEPT !.steps = UpdateSteps(old, new), !.table = t, !.op = "update",
                                       !.id = i, !.new = new, !.sent = sent])
    BY <2>1, Zenon
  <2> DEFINE old == table[t][i]
             new == [old EXCEPT !.name = n, !.category = c, !.highlighted = h]
             steps == UpdateSteps(old, new)
             q == [NewRequest EXCEPT !.steps = steps, !.table = t, !.op = "update",
                                     !.id = i, !.new = new, !.sent = sent]
  <2>3. new.highlighted \in BOOLEAN
    <3>1. i \in Ids
      BY DEF Live
    <3>2. old \in Row
      BY <1>1, <3>1 DEF TypeOK
    <3> HIDE DEF old
    <3> QED  BY <3>2 DEF Row
  <2>4. Head(steps) \in {"name", "count", "update"}
    <3> HIDE DEF new, old
    <3> QED  BY <2>3, UpdatePlan, Heads
  <2> HIDE DEF steps, new
  <2>5. q.op = "update" /\ q.steps = steps
    BY DEF NewRequest
  <2>6. Begin(r, q)
    BY <2>2 DEF steps, new
  <2> HIDE DEF q
  <2> QED  BY <1>2, <2>4, <2>5, <2>6
<1>5. CASE Delete(r)
  <2>1. PICK t \in Tables : \E i \in Live(t) :
          Begin(r, [NewRequest EXCEPT !.steps = <<"delete">>, !.table = t, !.op = "delete", !.id = i])
    BY <1>5 DEF Delete
  <2>2. PICK i \in Live(t) :
          Begin(r, [NewRequest EXCEPT !.steps = <<"delete">>, !.table = t, !.op = "delete", !.id = i])
    BY <2>1
  <2> DEFINE q == [NewRequest EXCEPT !.steps = <<"delete">>, !.table = t, !.op = "delete", !.id = i]
  <2>3. q.op = "delete" /\ Head(q.steps) = "delete"
    BY One DEF NewRequest
  <2>4. Begin(r, q)
    BY <2>2
  <2> HIDE DEF q
  <2> QED  BY <1>2, <2>3, <2>4
<1> QED  BY <1>3, <1>4, <1>5

LEMMA SuggestAccept ==
  ASSUME CatalogueInv, AcceptInv, NEW r \in Requests, Suggest(r)
  PROVE  AcceptInv'
<1>1. PICK m \in Names, n \in Names : \E cm \in Canonical(m), cn \in Canonical(n) :
        Begin(r, [NewRequest EXCEPT !.steps = <<"lookup">>, !.op = "suggest", !.asked = {m, n},
                                    !.names = {cm} \cup (IF Base[cn] = Base[cm] THEN {} ELSE {cn})])
  BY DEF Suggest
<1>2. PICK cm \in Canonical(m), cn \in Canonical(n) :
        Begin(r, [NewRequest EXCEPT !.steps = <<"lookup">>, !.op = "suggest", !.asked = {m, n},
                                    !.names = {cm} \cup (IF Base[cn] = Base[cm] THEN {} ELSE {cn})])
  BY <1>1
<1> DEFINE names == {cm} \cup (IF Base[cn] = Base[cm] THEN {} ELSE {cn})
           q == [NewRequest EXCEPT !.steps = <<"lookup">>, !.op = "suggest", !.asked = {m, n}, !.names = names]
<1>3. \A x, y \in names : Base[x] = Base[y] => x = y
  OBVIOUS
<1>4. Begin(r, q)
  BY <1>2
<1> HIDE DEF names
<1>5. q.steps = <<"lookup">> /\ q.names = names /\ q.got = {} /\ q.end = "none"
  BY DEF NewRequest
<1>6. Head(q.steps) = "lookup"
  BY <1>5, One
<1>7. TypeOK /\ ~Disturbs(NewRequest)
  BY DEF CatalogueInv, Disturbs, NewRequest
<1> HIDE DEF q
<1>8. Current(q) = {}
  BY <1>6 DEF Current
<1>9. Apart(q)
  BY <1>3, <1>5, <1>8 DEF Apart
<1>10. Resolvable(q)
  BY <1>5, <1>6, <1>9 DEF Resolvable
<1> QED  BY <1>4, <1>7, <1>10, ReadsAccept DEF Begin

LEMMA CheckNameAccept ==
  ASSUME CatalogueInv, AcceptInv, NEW r \in Requests, CheckName(r)
  PROVE  AcceptInv'
<1> DEFINE q == request[r]
<1>1. q.steps # <<>> /\ Head(q.steps) = "name"
  BY DEF CheckName, At
<1>2. q \in Request /\ Planned(q) /\ q.steps \in PlansOf(q) /\ q.new.highlighted \in BOOLEAN /\ TypeOK
  BY <1>1, Going DEF CatalogueInv
<1>3. CASE Named(q.table, q.new.name, q.id) = {}
  <2> DEFINE a == Advanced(q)
             p == [a EXCEPT !.stale = a.stale /\ q.op = "update"]
  <2>1. Reads(r, p)
    BY <1>3 DEF CheckName
  <2>2. /\ Len(q.steps) # 1 /\ q.op \in {"create", "update", "suggest"}
        /\ Second(q) = IF q.op = "create" /\ q.new.highlighted THEN "count" ELSE "slug"
    BY <1>1, <1>2, AtName
  <2>3. a = [q EXCEPT !.steps = Tail(q.steps)] /\ a \in Request
    BY <1>1, <1>2, <2>2, AdvancedType
  <2> HIDE DEF a
  <2>4. /\ p.steps = Tail(q.steps) /\ p.op = q.op /\ p.table = q.table /\ p.new = q.new
        /\ p.names = q.names /\ p.got = q.got /\ p.end = q.end
    BY <1>2, <2>3 DEF Request
  <2> HIDE DEF p
  <2>5. Head(p.steps) \in {"count", "slug"} /\ (q.op = "suggest" => Head(p.steps) = "slug")
    BY <2>2, <2>4 DEF Second
  <2>6. ASSUME ~Disturbed PROVE Resolvable(p)
    <3>1. CASE q.op = "suggest"
      <4>1. Apart(q) /\ q.end = "none"
        BY <1>1, <2>6, <3>1 DEF AcceptInv, Resolvable
      <4>2. Current(p) = {q.new.name} /\ Current(q) = {q.new.name}
        BY <1>1, <2>4, <2>5, <3>1 DEF Current
      <4>3. Apart(p)
        BY <2>4, <4>1, <4>2 DEF Apart
      <4> QED  BY <2>4, <2>5, <3>1, <4>1, <4>3 DEF Resolvable
    <3>2. CASE q.op # "suggest"
      BY <2>4, <2>5, <3>2, PlainResolvable
    <3> QED  BY <3>1, <3>2
  <2>7. Disturbs(q) => Disturbs(p)
    BY <2>4 DEF Disturbs
  <2> QED  BY <1>2, <2>1, <2>6, <2>7, ReadsAccept
<1>4. CASE Named(q.table, q.new.name, q.id) # {}
  <2>1. Reads(r, Conflicted(q))
    BY <1>4 DEF CheckName
  <2>2. q.op = "suggest" => Conflicting(q.new.name) # {}
    BY <1>2, <1>4 DEF Planned, Conflicting
  <2> QED  BY <1>1, <2>1, <2>2, ConflictAccept
<1> QED  BY <1>3, <1>4

LEMMA CheckCapAccept ==
  ASSUME CatalogueInv, AcceptInv, NEW r \in Requests, CheckCap(r)
  PROVE  AcceptInv'
<1> DEFINE q == request[r]
           p == Advanced(q)
<1>1. q.steps # <<>> /\ Head(q.steps) = "count"
  BY DEF CheckCap, At
<1>2. q \in Request /\ Planned(q) /\ q.steps \in PlansOf(q) /\ q.new.highlighted \in BOOLEAN /\ TypeOK
  BY <1>1, Going DEF CatalogueInv
<1>3. /\ Len(q.steps) # 1 /\ q.op \in {"create", "update"}
      /\ Second(q) = IF q.op = "create" THEN "slug" ELSE "update"
  BY <1>1, <1>2, AtCount
<1>4. CASE Reads(r, Stopped(q, "refused"))
  BY <1>1, <1>3, <1>4, StopsAccept
<1>5. CASE Reads(r, p)
  <2>1. p.op = q.op /\ p.table = q.table /\ p.steps = Tail(q.steps)
    BY <1>1, <1>2, <1>3, AdvancedType
  <2> HIDE DEF p
  <2>2. Head(p.steps) \in {"slug", "update"}
    BY <1>3, <2>1 DEF Second
  <2>3. Resolvable(p)
    BY <1>3, <2>1, <2>2, PlainResolvable
  <2>4. Disturbs(q) => Disturbs(p)
    BY <2>1 DEF Disturbs
  <2> QED  BY <1>2, <1>5, <2>3, <2>4, ReadsAccept
<1> QED  BY <1>4, <1>5 DEF CheckCap

LEMMA ChooseSlugAccept ==
  ASSUME CatalogueInv, AcceptInv, NEW r \in Requests, ChooseSlug(r)
  PROVE  AcceptInv'
<1> DEFINE q == request[r]
           free == {k \in 0..MaxRows : Slugged(q.table, <<Base[q.new.name], k>>, q.id) = {}}
<1>1. q.steps # <<>> /\ Head(q.steps) = "slug"
  BY DEF ChooseSlug, At
<1>2. q \in Request /\ Planned(q) /\ q.steps \in PlansOf(q) /\ q.new.highlighted \in BOOLEAN /\ TypeOK
  BY <1>1, Going DEF CatalogueInv
<1>3. PICK k \in free : /\ \A j \in free : k <= j
                        /\ Reads(r, Advanced([q EXCEPT !.new.slug = <<Base[q.new.name], k>>]))
  BY DEF ChooseSlug
<1> DEFINE s == <<Base[q.new.name], k>>
           g == [q EXCEPT !.new.slug = s]
           p == Advanced(g)
<1>4. q.new \in Row /\ s \in Slugs
  <2>1. q.new \in Row
    BY <1>2 DEF Request
  <2>2. q.new.name \in Names
    BY <2>1 DEF Row
  <2> QED  BY <2>1, <2>2, Constants DEF Slugs
<1>5. Reads(r, p)
  BY <1>3
<1>6. s[1] = Base[q.new.name] /\ s[2] = k
  OBVIOUS
<1> HIDE DEF s
<1>7. [q.new EXCEPT !.slug = s] \in Row
  BY <1>4 DEF Row
<1>8. g = [q EXCEPT !.new = [q.new EXCEPT !.slug = s]]
  BY <1>2 DEF Request
<1>9. /\ g \in Request /\ g.steps = q.steps /\ g.op = q.op /\ g.table = q.table
      /\ g.names = q.names /\ g.got = q.got /\ g.end = q.end /\ g.new = [q.new EXCEPT !.slug = s]
  BY <1>2, <1>7, <1>8 DEF Request
<1>10. g.new.name = q.new.name /\ g.new.slug = s /\ g.new.st = q.new.st
  BY <1>4, <1>9 DEF Row
<1> HIDE DEF g
<1>11. /\ q.op \in {"create", "update", "suggest"} /\ Len(q.steps) # 1
       /\ Second(q) = IF q.op # "update" THEN "insert"
                      ELSE IF q.new.highlighted THEN "count" ELSE "update"
  BY <1>1, <1>2, AtSlug
<1>12. p = [g EXCEPT !.steps = Tail(g.steps)] /\ p.steps = Tail(g.steps)
  BY <1>1, <1>9, <1>11, AdvancedType
<1> HIDE DEF p
<1>13. /\ p.op = q.op /\ p.table = q.table /\ p.names = q.names /\ p.got = q.got /\ p.end = q.end
       /\ p.new.name = q.new.name /\ p.new.slug = s /\ p.new.st = q.new.st
  BY <1>9, <1>10, <1>12 DEF Request
<1>14. Head(p.steps) = Second(q)
  BY <1>9, <1>12 DEF Second
<1>15. Disturbs(q) => Disturbs(p)
  BY <1>13 DEF Disturbs
<1>16. ASSUME ~Disturbed PROVE Resolvable(p)
  <2>1. CASE q.op = "update"
    <3>1. Head(p.steps) \in {"count", "update"}
      BY <1>11, <1>14, <2>1
    <3> QED  BY <1>13, <2>1, <3>1, PlainResolvable
  <2>2. CASE q.op # "update"
    <3>1. Head(p.steps) = "insert"
      BY <1>11, <1>14, <2>2
    <3>3. CASE q.op = "suggest"
      <4>1. Apart(q) /\ q.end = "none"
        BY <1>1, <1>16, <3>3 DEF AcceptInv, Resolvable
      <4>2. Current(p) = {q.new.name} /\ Current(q) = {q.new.name}
        BY <1>1, <1>13, <3>1 DEF Current
      <4>3. Apart(p)
        BY <1>13, <4>1, <4>2 DEF Apart
      <4> QED  BY <1>6, <1>13, <3>1, <4>1, <4>3 DEF Resolvable
    <3>4. CASE q.op # "suggest"
      BY <1>6, <1>13, <3>1, <3>4 DEF Resolvable
    <3> QED  BY <3>3, <3>4
  <2> QED  BY <2>1, <2>2
<1> QED  BY <1>2, <1>5, <1>15, <1>16, ReadsAccept

\* What is not known to have changed since the name was checked violates no
\* constraint.
LEMMA NothingInTheWay ==
  ASSUME CatalogueInv, NEW r \in Requests, request[r].steps # <<>>, Head(request[r].steps) = "insert",
         request[r].op = "suggest", ~request[r].stale
  PROVE  ~Violates(request[r].table, request[r].new, NoId)
<1> DEFINE q == request[r]
<1>1. Planned(q) /\ Knows(q)
  BY DEF CatalogueInv, KnowsInv
<1>2. q.id = NoId /\ q.table = "tag"
  BY <1>1 DEF Planned
<1>3. Named("tag", q.new.name, NoId) = {} /\ Slugged("tag", q.new.slug, NoId) = {}
  BY <1>1, <1>2 DEF Knows
<1> QED  BY <1>2, <1>3 DEF Violates, Named, SameName, Slugged

LEMMA InsertAccept ==
  ASSUME CatalogueInv, AcceptInv, NEW r \in Requests, Insert(r)
  PROVE  AcceptInv'
<1> DEFINE q == request[r]
<1>1. q.steps # <<>> /\ Head(q.steps) = "insert"
  BY DEF Insert, At
<1>2. q \in Request /\ Planned(q) /\ q.steps \in PlansOf(q) /\ q.new.highlighted \in BOOLEAN /\ TypeOK
  BY <1>1, Going DEF CatalogueInv
<1>3. q.op \in {"create", "suggest"} /\ q.id = NoId /\ (q.op = "suggest" => q.table = "tag")
  BY <1>1, <1>2, AtInsert DEF Planned
<1>4. CASE Violates(q.table, q.new, NoId)
  <2> DEFINE p == Violated(q)
  <2>1. Reads(r, p)
    BY <1>4 DEF Insert
  <2>2. /\ p.op = q.op /\ p.table = q.table /\ p.steps = <<>> /\ p.stale = q.stale
    BY <1>2, ViolatedType
  <2>3. q.op = "suggest" => q.stale
    BY <1>1, <1>4, NothingInTheWay
  <2> HIDE DEF p
  <2>4. Resolvable(p) /\ (Disturbs(q) => Disturbs(p))
    BY <2>2, <2>3 DEF Resolvable, Disturbs
  <2> QED  BY <1>2, <2>1, <2>4, ReadsAccept
<1>5. CASE ~Violates(q.table, q.new, NoId)
  <2>1. PICK i \in Ids :
          /\ table[q.table][i].st = "free"
          /\ Writes(r, [Advanced(q) EXCEPT !.got = IF q.op = "suggest" THEN @ \cup {i} ELSE @], i, q.new)
    BY <1>5 DEF Insert
  <2> DEFINE p == [Advanced(q) EXCEPT !.got = IF q.op = "suggest" THEN @ \cup {i} ELSE @]
  <2>2. /\ p.op = q.op /\ p.table = q.table /\ p.got = (IF q.op = "suggest" THEN q.got \cup {i} ELSE q.got)
        /\ IF q.op = "suggest" THEN p.steps = <<"next">> /\ p.names = q.names /\ p.end = q.end ELSE p.steps = <<>>
    BY <1>1, <1>2, InsertedType
  <2>3. Writes(r, p, i, q.new)
    BY <2>1
  <2> HIDE DEF p
  <2>4. q.table \in Tables /\ q.new \in Row
    BY <1>2 DEF Request
  <2>5. i \notin Live(q.table)
    BY <2>1 DEF Live
  <2>7. request'[r] = p /\ table' = [table EXCEPT ![q.table][i] = q.new]
    BY <2>3 DEF Writes
  <2>8. /\ Grows
        /\ q.table = "tag" => table'["tag"][i] = q.new
        /\ q.table = "tag" => Live("tag")' = Live("tag") \cup (IF q.new.st = "live" THEN {i} ELSE {})
        /\ q.table # "tag" => Live("tag")' = Live("tag")
    BY <1>2, <2>4, <2>5, <2>7, RowsGrow
  <2>9. ASSUME ~Disturbed PROVE SluggedByName' /\ Resolvable(request[r])'
    <3>1. SluggedByName /\ Resolvable(q)
      BY <2>9 DEF AcceptInv
    <3>2. q.table = "tag" => q.new.slug[1] = Base[q.new.name]
      BY <1>1, <3>1 DEF Resolvable
    <3>3. SluggedByName'
      <4> SUFFICES ASSUME NEW j \in Live("tag")'
                   PROVE  table'["tag"][j].slug[1] = Base[table'["tag"][j].name]
        BY DEF SluggedByName
      <4>1. CASE j \in Live("tag")
        BY <2>8, <3>1, <4>1 DEF Grows, SluggedByName
      <4>2. CASE j \notin Live("tag")
        BY <2>8, <3>2, <4>2
      <4> QED  BY <4>1, <4>2
    <3>4. CASE q.op = "create"
      <4>1. request'[r].op = "create" /\ request'[r].steps = <<>>
        BY <2>2, <2>7, <3>4
      <4> QED  BY <3>3, <4>1 DEF Resolvable
    <3>5. CASE q.op = "suggest"
      <4>1. Apart(q) /\ q.end = "none"
        BY <1>1, <3>1, <3>5 DEF Resolvable
      <4>2. Current(q) = {q.new.name}
        BY <1>1 DEF Current
      <4>3. p.steps = <<"next">> /\ p.names = q.names /\ p.got = q.got \cup {i} /\ p.end = "none" /\ p.op = "suggest"
        BY <2>2, <3>5, <4>1
      <4>4. Head(p.steps) = "next"
        BY <4>3, One
      <4>5. Current(request[r])' = {}
        BY <2>7, <4>4 DEF Current
      <4>6. p.got \subseteq Live("tag")'
        <5>1. q.new.st = "live" /\ q.got \subseteq Live("tag")
          BY <4>1, <4>2 DEF Apart
        <5> QED  BY <1>3, <2>8, <3>5, <4>3, <5>1
      <4>7. ASSUME NEW j \in p.got, NEW n \in p.names PROVE Base[table'["tag"][j].name] # Base[n]
        <5>1. n \in q.names /\ n # q.new.name
          BY <4>1, <4>2, <4>3 DEF Apart
        <5>2. CASE j \in q.got
          BY <2>8, <4>1, <4>3, <5>1, <5>2 DEF Grows, Apart
        <5>3. CASE j = i
          BY <1>3, <2>8, <3>5, <4>1, <4>2, <5>1, <5>3 DEF Apart
        <5> QED  BY <4>3, <5>2, <5>3
      <4>8. \A m, n \in p.names : Base[m] = Base[n] => m = n
        BY <4>1, <4>3 DEF Apart
      <4>9. Apart(request[r])'
        BY <2>7, <4>5, <4>6, <4>7, <4>8 DEF Apart
      <4>10. /\ request'[r].op = "suggest" /\ request'[r].end = "none" /\ Head(request'[r].steps) = "next"
        BY <2>7, <4>3, <4>4
      <4> QED  BY <3>3, <4>9, <4>10 DEF Resolvable
    <3> QED  BY <1>3, <3>3, <3>4, <3>5
  <2>10. Disturbs(q) => Disturbs(p)
    BY <2>2 DEF Disturbs
  <2> QED  BY <1>2, <2>3, <2>4, <2>8, <2>9, <2>10, WritesAccept
<1> QED  BY <1>4, <1>5

\* Writes by a request about skills, or one that renames or deletes a tag.
LEMMA OtherWritesAccept ==
  ASSUME CatalogueInv, AcceptInv, NEW r \in Requests, NEW q, NEW i \in Ids, NEW row \in Row, Writes(r, q, i, row),
         request[r].op \in {"update", "delete"}, q.op = request[r].op, q.table = request[r].table, q.steps = <<>>
  PROVE  AcceptInv'
<1> DEFINE t == request[r].table
<1>1. t \in Tables /\ TypeOK
  BY DEF CatalogueInv, TypeOK, Request
<1>2. table' = [table EXCEPT ![t][i] = row] /\ request'[r] = q
  BY DEF Writes
<1>3. ~Disturbed => t # "tag"
  BY DEF Disturbed, Disturbs
<1>4. t # "tag" => Grows /\ Live("tag")' = Live("tag")
  BY <1>1, <1>2, RowsGrow
<1>5. ASSUME ~Disturbed PROVE Grows /\ SluggedByName' /\ Resolvable(request[r])'
  <2>1. SluggedByName
    BY <1>5 DEF AcceptInv
  <2>2. Grows /\ Live("tag")' = Live("tag")
    BY <1>3, <1>4, <1>5
  <2>3. SluggedByName'
    BY <2>1, <2>2 DEF SluggedByName, Grows
  <2>4. request'[r].op # "suggest" /\ request'[r].steps = <<>>
    BY <1>2
  <2> QED  BY <2>2, <2>3, <2>4 DEF Resolvable
<1>6. Disturbs(request[r]) => Disturbs(q)
  BY DEF Disturbs
<1> QED  BY <1>1, <1>5, <1>6, WritesAccept

LEMMA SaveAccept ==
  ASSUME CatalogueInv, AcceptInv, NEW r \in Requests, Save(r)
  PROVE  AcceptInv'
<1> DEFINE q == request[r]
           row == Patched(table[q.table][q.id], q)
           p == Advanced(q)
<1>1. q.steps # <<>> /\ Head(q.steps) = "update"
  BY DEF Save, At
<1>2. q \in Request /\ Planned(q) /\ q.steps \in PlansOf(q) /\ q.new.highlighted \in BOOLEAN /\ TypeOK
  BY <1>1, Going DEF CatalogueInv
<1>3. q.op = "update" /\ Len(q.steps) = 1
  BY <1>1, <1>2, AtUpdate
<1>4. CASE Reads(r, Stopped(q, "refused"))
  BY <1>1, <1>3, <1>4, StopsAccept
<1>5. CASE Reads(r, Stopped(q, "failed"))
  BY <1>1, <1>3, <1>5, StopsAccept
<1>6. CASE q.id \in Live(q.table) /\ Writes(r, p, q.id, row)
  <2>1. q.id \in Ids /\ q.table \in Tables /\ q.new \in Row
    BY <1>2, <1>6 DEF Live, Request
  <2>2. row \in Row
    <3> DEFINE old == table[q.table][q.id]
    <3>1. old \in Row
      BY <1>2, <2>1 DEF TypeOK
    <3> HIDE DEF old
    <3>2. Patched(old, q) \in Row
      BY <2>1, <3>1 DEF Patched, Row
    <3> QED  BY <3>2 DEF old
  <2>3. p.op = q.op /\ p.table = q.table /\ p.steps = <<>>
    BY <1>1, <1>2, <1>3, AdvancedType, StoppedType
  <2> HIDE DEF p, row
  <2> QED  BY <1>3, <1>6, <2>1, <2>2, <2>3, OtherWritesAccept
<1> QED  BY <1>4, <1>5, <1>6 DEF Save

LEMMA RemoveAccept ==
  ASSUME CatalogueInv, AcceptInv, NEW r \in Requests, Remove(r)
  PROVE  AcceptInv'
<1> DEFINE q == request[r]
           row == [FreeRow EXCEPT !.st = "gone"]
           p == Advanced(q)
<1>1. q.steps # <<>> /\ Head(q.steps) = "delete"
  BY DEF Remove, At
<1>2. q \in Request /\ Planned(q) /\ q.steps \in PlansOf(q) /\ q.new.highlighted \in BOOLEAN /\ TypeOK
  BY <1>1, Going DEF CatalogueInv
<1>3. q.op = "delete" /\ Len(q.steps) = 1
  BY <1>1, <1>2, AtDelete
<1>4. CASE Reads(r, Stopped(q, "refused"))
  BY <1>1, <1>3, <1>4, StopsAccept
<1>5. CASE q.id \in Live(q.table) /\ Writes(r, p, q.id, row)
  <2>1. q.id \in Ids
    BY <1>5 DEF Live
  <2>2. row \in Row
    BY FreeRowType DEF Row
  <2>3. p.op = q.op /\ p.table = q.table /\ p.steps = <<>>
    BY <1>1, <1>2, <1>3, AdvancedType, StoppedType
  <2> HIDE DEF p, row
  <2> QED  BY <1>3, <1>5, <2>1, <2>2, <2>3, OtherWritesAccept
<1> QED  BY <1>4, <1>5 DEF Remove

LEMMA LookupAccept ==
  ASSUME CatalogueInv, AcceptInv, NEW r \in Requests, Lookup(r)
  PROVE  AcceptInv'
<1> DEFINE q == request[r]
           found == {n \in q.names : Slugged("tag", <<Base[n], 0>>, NoId) # {}}
           got == UNION {Slugged("tag", <<Base[n], 0>>, NoId) : n \in found}
           p == [q EXCEPT !.steps = <<"next">>, !.names = @ \ found, !.got = got]
<1>1. q.steps # <<>> /\ Head(q.steps) = "lookup"
  BY DEF Lookup, At
<1>2. q \in Request /\ Planned(q) /\ q.steps \in PlansOf(q) /\ q.new.highlighted \in BOOLEAN /\ TypeOK
  BY <1>1, Going DEF CatalogueInv
<1>3. q.op = "suggest"
  BY <1>1, <1>2, AtLookup
<1>4. Reads(r, p)
  BY DEF Lookup
<1>5. \A i \in got : i \in Live("tag") /\ \E n \in found : table["tag"][i].slug = <<Base[n], 0>>
  BY DEF Slugged
<1>6. found \subseteq q.names
  OBVIOUS
<1> HIDE DEF got, found
<1>7. /\ p.steps = <<"next">> /\ p.op = q.op /\ p.table = q.table /\ p.end = q.end
      /\ p.names = q.names \ found /\ p.got = got
  BY <1>2 DEF Request
<1> HIDE DEF p
<1>8. Head(p.steps) = "next"
  BY <1>7, One
<1>9. Current(p) = {} /\ Current(q) = {}
  BY <1>1, <1>8 DEF Current
<1>10. ASSUME ~Disturbed PROVE Resolvable(p)
  <2>1. SluggedByName /\ Apart(q) /\ q.end = "none"
    BY <1>1, <1>3, <1>10 DEF AcceptInv, Resolvable
  <2>2. \A m, n \in q.names : Base[m] = Base[n] => m = n
    BY <1>9, <2>1 DEF Apart
  <2>3. \A i \in got, n \in p.names : Base[table["tag"][i].name] # Base[n]
    <3> SUFFICES ASSUME NEW i \in got, NEW n \in p.names PROVE Base[table["tag"][i].name] # Base[n]
      OBVIOUS
    <3>1. PICK m \in found : table["tag"][i].slug = <<Base[m], 0>>
      BY <1>5
    <3>2. Base[table["tag"][i].name] = Base[m]
      BY <1>5, <2>1, <3>1 DEF SluggedByName
    <3>3. m \in q.names /\ n \in q.names /\ m # n
      BY <1>6, <1>7
    <3> QED  BY <2>2, <3>2, <3>3
  <2>4. Apart(p)
    BY <1>5, <1>7, <1>9, <2>2, <2>3 DEF Apart
  <2> QED  BY <1>7, <1>8, <2>1, <2>4 DEF Resolvable
<1>11. Disturbs(q) => Disturbs(p)
  BY <1>7 DEF Disturbs
<1> QED  BY <1>2, <1>4, <1>10, <1>11, ReadsAccept

LEMMA NextNameAccept ==
  ASSUME CatalogueInv, AcceptInv, NEW r \in Requests, NextName(r)
  PROVE  AcceptInv'
<1> DEFINE q == request[r]
<1>1. q.steps # <<>> /\ Head(q.steps) = "next"
  BY DEF NextName, At
<1>2. q \in Request /\ Planned(q) /\ q.steps \in PlansOf(q) /\ q.new.highlighted \in BOOLEAN /\ TypeOK
  BY <1>1, Going DEF CatalogueInv
<1>3. q.op = "suggest" /\ Len(q.steps) = 1
  BY <1>1, <1>2, AtNext
<1>4. CASE Reads(r, Advanced(q))
  <2>1. Advanced(q) = Stopped(q, "ok")
    BY <1>1, <1>2, <1>3, AdvancedType
  <2> QED  BY <1>1, <1>4, <2>1, StopsAccept
<1>5. ASSUME NEW n \in q.names,
             Reads(r, [q EXCEPT !.steps = <<"name", "slug", "insert", "next">>, !.names = @ \ {n},
                                !.new = [FreeRow EXCEPT !.st = "live", !.name = n]])
      PROVE  AcceptInv'
  <2> DEFINE p == [q EXCEPT !.steps = <<"name", "slug", "insert", "next">>, !.names = @ \ {n},
                            !.new = [FreeRow EXCEPT !.st = "live", !.name = n]]
  <2>1. n \in Names
    BY <1>2 DEF Request
  <2>2. /\ p \in Request /\ Planned(p) /\ p.op = "suggest" /\ p.table = q.table /\ p.end = q.end
        /\ p.steps = <<"name", "slug", "insert", "next">> /\ p.got = q.got
        /\ p.names = q.names \ {n} /\ p.new.name = n /\ p.new.st = "live"
    BY <1>2, <1>3, <2>1, TurnsType, ZenonT(60)
  <2>3. Reads(r, p)
    BY <1>5
  <2> HIDE DEF p
  <2>4. Head(p.steps) = "name"
    BY <2>2, Four
  <2>5. Current(p) = {n} /\ Current(q) = {}
    BY <1>1, <2>2, <2>4 DEF Current
  <2>6. p.names \cup Current(p) = q.names \cup Current(q)
    BY <2>2, <2>5
  <2>7. ASSUME ~Disturbed PROVE Resolvable(p)
    <3>1. Apart(q) /\ q.end = "none"
      BY <1>1, <1>3, <2>7 DEF AcceptInv, Resolvable
    <3>2. Apart(p)
      BY <2>2, <2>5, <2>6, <3>1 DEF Apart
    <3> QED  BY <2>2, <2>4, <3>1, <3>2 DEF Resolvable
  <2>8. Disturbs(q) => Disturbs(p)
    BY <1>3, <2>2 DEF Disturbs
  <2> QED  BY <1>2, <2>3, <2>7, <2>8, ReadsAccept
<1> QED  BY <1>4, <1>5 DEF NextName

LEMMA RecoverAccept ==
  ASSUME CatalogueInv, AcceptInv, NEW r \in Requests, Recover(r)
  PROVE  AcceptInv'
<1> DEFINE q == request[r]
           found == Conflicting(q.new.name)
<1>1. q.steps # <<>> /\ Head(q.steps) = "recover"
  BY DEF Recover, At
<1>2. q \in Request /\ Planned(q) /\ q.steps \in PlansOf(q) /\ q.new.highlighted \in BOOLEAN /\ TypeOK
  BY <1>1, Going DEF CatalogueInv
<1>3. q.op = "suggest" /\ Len(q.steps) # 1 /\ Tail(q.steps) = <<"next">>
  BY <1>1, <1>2, AtRecover
<1>4. found \subseteq Live("tag")
  BY DEF Conflicting, Named, Slugged
<1>5. q.new.name \in Names /\ \A i \in Live("tag") : table["tag"][i].name \in Names
  BY <1>2 DEF Request, Row, TypeOK, Tables, Live
<1>6. ASSUME ~Disturbed
      PROVE  /\ found # {} /\ Apart(q) /\ q.end = "none"
             /\ \A i \in found : Base[table["tag"][i].name] = Base[q.new.name]
  <2>1. SluggedByName /\ Resolvable(q)
    BY <1>6 DEF AcceptInv
  <2>2. found # {} /\ Apart(q) /\ q.end = "none"
    BY <1>1, <1>3, <2>1 DEF Resolvable
  <2>3. ASSUME NEW i \in found PROVE Base[table["tag"][i].name] = Base[q.new.name]
    <3>1. CASE i \in Named("tag", q.new.name, NoId)
      <4>1. Lower[table["tag"][i].name] = Lower[q.new.name]
        BY <3>1 DEF Named, SameName
      <4> QED  BY <1>4, <1>5, <4>1, CatalogueAssumption
    <3>2. CASE i \in Slugged("tag", <<Base[q.new.name], 0>>, NoId)
      <4>1. table["tag"][i].slug[1] = Base[q.new.name]
        BY <3>2 DEF Slugged
      <4> QED  BY <1>4, <2>1, <4>1 DEF SluggedByName
    <3> QED  BY <3>1, <3>2 DEF Conflicting
  <2> QED  BY <2>2, <2>3
<1>7. Current(q) = {q.new.name}
  BY <1>1 DEF Current
<1>8. CASE (found = {} \/ found \cap q.got # {}) /\ Reads(r, Stopped(q, "failed"))
  <2>1. Disturbed
    BY <1>6, <1>7, <1>8 DEF Apart
  <2> QED  BY <1>1, <1>8, <2>1, StopsAccept
<1>9. ASSUME NEW i \in found, Reads(r, Advanced([q EXCEPT !.got = @ \cup {i}]))
      PROVE  AcceptInv'
  <2> DEFINE p == Advanced([q EXCEPT !.got = @ \cup {i}])
  <2>1. i \in Ids
    BY <1>4 DEF Live
  <2>2. /\ p.op = "suggest" /\ p.table = q.table /\ p.end = q.end
        /\ p.steps = <<"next">> /\ p.got = q.got \cup {i} /\ p.names = q.names
    BY <1>1, <1>2, <1>3, <2>1, FoundType
  <2>3. Reads(r, p)
    BY <1>9
  <2> HIDE DEF p
  <2>4. Head(p.steps) = "next"
    BY <2>2, One
  <2>5. Current(p) = {}
    BY <2>4 DEF Current
  <2>6. ASSUME ~Disturbed PROVE Resolvable(p)
    <3>1. Apart(q) /\ q.end = "none" /\ Base[table["tag"][i].name] = Base[q.new.name]
      BY <1>6, <2>6
    <3>2. \A n \in q.names : Base[q.new.name] # Base[n]
      BY <1>7, <3>1 DEF Apart
    <3>3. Apart(p)
      <4>1. p.got \subseteq Live("tag")
        BY <1>4, <2>2, <3>1 DEF Apart
      <4>2. \A j \in p.got, n \in p.names : Base[table["tag"][j].name] # Base[n]
        BY <2>2, <3>1, <3>2 DEF Apart
      <4>3. \A m, n \in p.names : Base[m] = Base[n] => m = n
        BY <2>2, <3>1 DEF Apart
      <4> QED  BY <2>5, <4>1, <4>2, <4>3 DEF Apart
    <3> QED  BY <2>2, <2>4, <3>1, <3>3 DEF Resolvable
  <2>7. Disturbs(q) => Disturbs(p)
    BY <1>3, <2>2 DEF Disturbs
  <2> QED  BY <1>2, <2>3, <2>6, <2>7, ReadsAccept
<1> QED  BY <1>8, <1>9 DEF Recover

LEMMA StepAccepts ==
  ASSUME CatalogueInv, AcceptInv, NEW r \in Requests, CatalogueStep(r)
  PROVE  AcceptInv'
BY BeginsAccept, SuggestAccept, CheckNameAccept, CheckCapAccept, ChooseSlugAccept, InsertAccept, SaveAccept,
   RemoveAccept, LookupAccept, NextNameAccept, RecoverAccept DEF CatalogueStep

LEMMA UnchangedAccepts ==
  ASSUME AcceptInv, UNCHANGED catalogueVars
  PROVE  AcceptInv'
<1>1. table' = table /\ request' = request
  BY DEF catalogueVars
<1>2. Disturbed' = Disturbed
  BY <1>1 DEF Disturbed, Disturbs
<1>3. SluggedByName => SluggedByName'
  BY <1>1 DEF SluggedByName, Live
<1>4. \A p \in Requests : Resolvable(request[p]) => Resolvable(request[p])'
  BY <1>1 DEF Resolvable, Conflicting, Named, Slugged, SameName, Live, Apart, Current
<1> QED  BY <1>2, <1>3, <1>4 DEF AcceptInv

-----------------------------------------------------------------------------
(***************************************************************************)
(* The first states, and the entry.                                        *)
(***************************************************************************)

\* At most the first row of a table is there.
LEMMA FirstRowsType ==
  ASSUME NEW named, named = <<>> \/ \E n \in Names : named = <<n>>
  PROVE  /\ FirstRows(named) \in [Ids -> Row]
         /\ \A i \in Ids : FirstRows(named)[i].st = "live" =>
              i = 1 /\ FirstRows(named)[i].slug[1] = Base[FirstRows(named)[i].name]
         /\ FirstRows(named)[1].st = "live" <=> named # <<>>
         /\ \A i \in Ids : i # 1 => FirstRows(named)[i].highlighted = FALSE
<1>1. 1 \in Ids /\ \A i \in Ids : i \in Nat /\ i >= 1
  BY Constants DEF Ids
<1>2. CASE named = <<>>
  <2>1. \A i \in Ids : ~(i <= Len(named))
    <3>1. Len(named) = 0
      BY <1>2
    <3> QED  BY <1>1, <3>1
  <2>2. FirstRows(named) = [i \in Ids |-> FreeRow]
    BY <2>1, Zenon DEF FirstRows
  <2> QED  BY <1>1, <1>2, <2>2, FreeRowType
<1>3. ASSUME NEW n \in Names, named = <<n>>
      PROVE  /\ FirstRows(named) \in [Ids -> Row]
             /\ \A i \in Ids : FirstRows(named)[i].st = "live" =>
                  i = 1 /\ FirstRows(named)[i].slug[1] = Base[FirstRows(named)[i].name]
             /\ FirstRows(named)[1].st = "live" <=> named # <<>>
             /\ \A i \in Ids : i # 1 => FirstRows(named)[i].highlighted = FALSE
  <2> DEFINE first == [FreeRow EXCEPT !.st = "live", !.name = n, !.slug = <<Base[n], 0>>]
  <2>1. Len(named) = 1 /\ named[1] = n /\ named # <<>>
    BY <1>3
  <2>2. FirstRows(named) = [i \in Ids |-> IF i = 1 THEN first ELSE FreeRow]
    <3>1. \A i \in Ids : i <= Len(named) <=> i = 1
      BY <1>1, <2>1
    <3>2. \A i \in Ids :
            (IF i <= Len(named)
               THEN [FreeRow EXCEPT !.st = "live", !.name = named[i], !.slug = <<Base[named[i]], 0>>]
               ELSE FreeRow) = IF i = 1 THEN first ELSE FreeRow
      BY <2>1, <3>1
    <3> HIDE DEF first
    <3> QED  BY <3>2, Zenon DEF FirstRows
  <2>3. first \in Row /\ first.st = "live" /\ first.name = n /\ first.slug[1] = Base[n]
    BY Constants, FreeRowType DEF Row, Slugs
  <2> HIDE DEF first
  <2> QED  BY <1>1, <2>1, <2>2, <2>3, FreeRowType
<1> QED  BY <1>2, <1>3

LEMMA InitKeeps ==
  ASSUME CatalogueInit
  PROVE  CatalogueInv /\ AcceptInv /\ 1 \in Live("skill")
<1>1. PICK tags : /\ tags = <<>> \/ \E n \in Names : tags = <<n>>
                  /\ table = [t \in Tables |-> IF t = "tag" THEN FirstRows(tags)
                                       ELSE [FirstRows(<<AnyName>>) EXCEPT ![1].highlighted = TRUE]]
  BY DEF CatalogueInit
<1> DEFINE skills == FirstRows(<<AnyName>>)
<1>2. /\ skills \in [Ids -> Row] /\ skills[1].st = "live"
      /\ \A i \in Ids : skills[i].st = "live" => i = 1
  <2>1. AnyName \in Names /\ <<AnyName>> # <<>>
    BY Constants
  <2> QED  BY <2>1, FirstRowsType
<1> HIDE DEF skills
<1>3. table["tag"] = FirstRows(tags) /\ table["skill"] = [skills EXCEPT ![1].highlighted = TRUE]
  BY <1>1 DEF Tables, skills
<1>4. table["skill"] \in [Ids -> Row] /\ table["skill"][1].st = "live"
      /\ \A i \in Ids : table["skill"][i].st = "live" => i = 1
  <2>1. [skills[1] EXCEPT !.highlighted = TRUE] \in Row /\ [skills[1] EXCEPT !.highlighted = TRUE].st = "live"
    BY <1>2, Constants DEF Row
  <2> QED  BY <1>2, <1>3, <2>1, Constants
<1>5. table["tag"] \in [Ids -> Row]
      /\ \A i \in Ids : table["tag"][i].st = "live" =>
           i = 1 /\ table["tag"][i].slug[1] = Base[table["tag"][i].name]
  <2> DEFINE first == FirstRows(tags)
  <2>1. /\ first \in [Ids -> Row]
        /\ \A i \in Ids : first[i].st = "live" => i = 1 /\ first[i].slug[1] = Base[first[i].name]
    <3>1. tags = <<>> \/ \E n \in Names : tags = <<n>>
      BY <1>1
    <3> QED  BY <3>1, FirstRowsType
  <2>2. table["tag"] = first
    BY <1>3
  <2> HIDE DEF first
  <2> QED  BY <2>1, <2>2
<1>6. table \in [Tables -> [Ids -> Row]]
  <2>1. \A t \in Tables : table[t] \in [Ids -> Row]
    BY <1>4, <1>5 DEF Tables
  <2> QED  BY <1>1, <2>1
<1>7. request = [r \in Requests |-> NewRequest] /\ overlapped = {}
  BY DEF CatalogueInit
<1>8. NewRequest.steps = <<>> /\ NewRequest.op = "none" /\ NewRequest.end = "none"
  BY DEF NewRequest
<1>9. TypeOK /\ (\A r \in Requests : Planned(request[r])) /\ KnowsInv
  BY <1>6, <1>7, <1>8, NewRequestType DEF TypeOK, Planned, KnowsInv
<1>10. CapHolds
  <2>1. ASSUME NEW c \in Categories PROVE Highlighted(c, NoId) <= MaxHighlighted
    <3> DEFINE H == {i \in Live("skill") \ {NoId} :
                       table["skill"][i].category = c /\ table["skill"][i].highlighted}
    <3>1. H \subseteq {1}
      BY <1>4 DEF Live
    <3>2. H = {} \/ H = {1}
      BY <3>1
    <3> HIDE DEF H
    <3>3. Cardinality({}) = 0 /\ Cardinality({1}) = 1
      BY FS_EmptySet, FS_Singleton
    <3>4. Cardinality(H) \in {0, 1}
      BY <3>2, <3>3
    <3>5. Highlighted(c, NoId) = Cardinality(H)
      BY DEF Highlighted, H
    <3> QED  BY <3>4, <3>5, CatalogueAssumption
  <2> QED  BY <2>1 DEF CapHolds
<1>11. NoTwins
  BY <1>5 DEF NoTwins, Live
<1>12. AcceptInv
  <2>1. SluggedByName
    BY <1>5 DEF SluggedByName, Live
  <2>2. \A r \in Requests : Resolvable(request[r])
    BY <1>7, <1>8 DEF Resolvable
  <2> QED  BY <2>1, <2>2 DEF AcceptInv
<1>13. 1 \in Live("skill")
  BY <1>4, Constants DEF Live
<1> QED  BY <1>9, <1>10, <1>11, <1>12, <1>13 DEF CatalogueInv

\* The inductive invariant of Career.
CareerInv ==
  /\ CareerTypeOK /\ CatalogueInv /\ AcceptInv
  /\ entry.skills \subseteq Live("skill")
  /\ DatesInv /\ DatesHold

LEMMA DayTypes == Days \subseteq Nat \ {0} /\ NoDay \notin Days /\ 1 \in Days /\ NoDay = 0
BY CareerAssumption DEF Days, NoDay

LEMMA NoEntryType ==
  /\ NoEntry \in Entry /\ NoEntry.st = "none" /\ NoEntry.skills = {} /\ NoEntry.end = NoDay
  /\ [NoEntry EXCEPT !.st = "gone"] \in Entry
  /\ [NoEntry EXCEPT !.st = "gone"].st = "gone" /\ [NoEntry EXCEPT !.st = "gone"].skills = {}
BY DayTypes DEF NoEntry, Entry

LEMMA EndedType ==
  ASSUME NEW pc \in {"new", "done", "refused", "failed"}
  PROVE  Ended(pc) \in Edit /\ Ended(pc).pc = pc /\ NewEdit \in Edit /\ NewEdit.pc = "new"
<1> DEFINE sent == [start |-> NoDay, end |-> NoDay, current |-> FALSE, linked |-> FALSE, skills |-> {}]
<1>1. sent \in Sent
  BY DayTypes DEF Sent
<1> HIDE DEF sent
<1>2. NewEdit = [pc |-> "new", op |-> "create", stale |-> FALSE, sent |-> sent]
  BY DEF NewEdit, sent
<1> QED  BY <1>1, <1>2 DEF Ended, Edit

\* What a request makes of the row.
LEMMA AppliedType ==
  ASSUME NEW row \in Entry, NEW sent \in Sent
  PROVE  /\ Applied(row, sent) \in Entry
         /\ Applied(row, sent).start = (IF sent.start = NoDay THEN row.start ELSE sent.start)
         /\ Applied(row, sent).end = (IF sent.end = NoDay THEN row.end ELSE sent.end)
         /\ Applied(row, sent).current = sent.current
         /\ Applied(row, sent).skills = (IF sent.linked THEN sent.skills ELSE row.skills)
<1>1. {1} \subseteq Ids
  BY Constants
<1>2. /\ sent.start \in Days \cup {NoDay} /\ sent.end \in Days \cup {NoDay}
      /\ sent.current \in BOOLEAN /\ sent.skills \subseteq {1}
  BY DEF Sent
<1>3. /\ row.start \in Days /\ row.end \in Days \cup {NoDay} /\ row.skills \subseteq Ids
  BY DEF Entry
<1> DEFINE start == IF sent.start = NoDay THEN row.start ELSE sent.start
           end == IF sent.end = NoDay THEN row.end ELSE sent.end
           current == sent.current
           skills == IF sent.linked THEN sent.skills ELSE row.skills
<1>4. start \in Days /\ end \in Days \cup {NoDay} /\ current \in BOOLEAN /\ skills \subseteq Ids
  BY <1>1, <1>2, <1>3
<1>5. Applied(row, sent) =
        [row EXCEPT !.start = start, !.end = end, !.current = current, !.skills = skills]
  BY DEF Applied, Entry
<1> HIDE DEF start, end, current, skills
<1>6. /\ [row EXCEPT !.start = start, !.end = end, !.current = current, !.skills = skills] \in Entry
      /\ Applied(row, sent).start = start /\ Applied(row, sent).end = end
      /\ Applied(row, sent).current = current /\ Applied(row, sent).skills = skills
  BY <1>4, <1>5 DEF Entry
<1> QED  BY <1>5, <1>6 DEF start, end, current, skills

LEMMA LiveEntryType ==
  ASSUME NEW row \in Entry
  PROVE  LET live == [row EXCEPT !.st = "live"] IN
         /\ live \in Entry /\ live.st = "live" /\ live.start = row.start /\ live.end = row.end
         /\ live.current = row.current /\ live.skills = row.skills
BY DEF Entry

\* A request about the entry which leaves it as it is.
LEMMA MovesKeep ==
  ASSUME CareerInv, UNCHANGED <<catalogueVars, entry, mixed>>, NEW r \in Requests, NEW e \in Edit, Moves(r, e),
         e.pc \in {"assert", "write"} /\ ~e.stale =>
           Valid(Applied(entry, e.sent).start, Applied(entry, e.sent).end, Applied(entry, e.sent).current)
  PROVE  CareerInv'
<1>1. CatalogueInv' /\ AcceptInv'
  BY UnchangedKeeps, UnchangedAccepts DEF CareerInv
<1>2. CareerTypeOK'
  BY <1>1 DEF CareerInv, CareerTypeOK, CatalogueInv, Moves
<1>3. (entry.skills \subseteq Live("skill"))' /\ DatesHold'
  BY DEF CareerInv, Live, DatesHold, catalogueVars
<1>4. DatesInv'
  <2>1. entry' = entry /\ edit' = [edit EXCEPT ![r] = e] /\ DatesInv /\ edit \in [Requests -> Edit]
    BY DEF Moves, CareerInv, CareerTypeOK
  <2>2. \A p \in Requests : edit'[p] = IF p = r THEN e ELSE edit[p]
    BY <2>1
  <2> QED  BY <2>1, <2>2 DEF DatesInv
<1> QED  BY <1>1, <1>2, <1>3, <1>4 DEF CareerInv

\* A request which writes it: the others that were validated know an old row.
LEMMA WrittenKeep ==
  ASSUME CareerInv, UNCHANGED catalogueVars, NEW r \in Requests, NEW row \in Entry, Written(r, row, "done"),
         row.st # "none", row.skills \subseteq Live("skill"),
         row.st = "live" /\ ~edit[r].stale => Valid(row.start, row.end, row.current)
  PROVE  CareerInv'
<1>1. CatalogueInv' /\ AcceptInv'
  BY UnchangedKeeps, UnchangedAccepts DEF CareerInv
<1>2. edit \in [Requests -> Edit] /\ Ended("done") \in Edit /\ Ended("done").pc = "done" /\ mixed \in BOOLEAN
  BY EndedType DEF CareerInv, CareerTypeOK
<1>3. ASSUME NEW p \in Requests
      PROVE  edit'[p] \in Edit /\ (edit'[p].pc \in {"assert", "write"} => edit'[p].stale)
  <2> DEFINE more == edit[p].stale \/ edit[p].pc \in {"assert", "write"}
  <2>1. more \in BOOLEAN /\ (edit[p].pc \in {"assert", "write"} => more)
    OBVIOUS
  <2>2. edit'[p] = IF p = r THEN Ended("done") ELSE [edit[p] EXCEPT !.stale = more]
    BY <1>2 DEF Written, Edit
  <2> HIDE DEF more
  <2>3. edit[p] \in Edit
    BY <1>2
  <2> QED  BY <1>2, <2>1, <2>2, <2>3 DEF Edit
<1>4. DOMAIN edit' = Requests /\ edit' = [p \in Requests |-> edit'[p]]
  BY DEF Written
<1>5. mixed' \in BOOLEAN /\ (~mixed' => ~edit[r].stale)
  BY DEF Written
<1>6. entry' = row
  BY DEF Written
<1>7. CareerTypeOK'
  BY <1>1, <1>3, <1>4, <1>5, <1>6 DEF CareerTypeOK, CatalogueInv
<1>8. (entry.skills \subseteq Live("skill"))'
  BY <1>6 DEF Live, catalogueVars
<1>9. DatesHold' /\ DatesInv'
  BY <1>3, <1>5, <1>6 DEF DatesHold, DatesInv
<1> QED  BY <1>1, <1>7, <1>8, <1>9 DEF CareerInv

LEMMA CreateEntryKeeps ==
  ASSUME CareerInv, NEW r \in Requests, CreateEntry(r)
  PROVE  CareerInv'
<1>1. PICK sent \in Sent :
        /\ Free(r) /\ entry.st = "none"
        /\ \A p \in Requests : edit[p] = NewEdit
        /\ sent.start # NoDay
        /\ Moves(r, IF Valid(sent.start, sent.end, sent.current)
                      THEN [NewEdit EXCEPT !.pc = "assert", !.sent = sent]
                      ELSE Ended("refused"))
        /\ UNCHANGED <<catalogueVars, entry, mixed>>
  BY Zenon DEF CreateEntry
<1>2. CASE Valid(sent.start, sent.end, sent.current)
  <2> DEFINE e == [NewEdit EXCEPT !.pc = "assert", !.sent = sent]
  <2>1. e \in Edit /\ e.sent = sent
    BY EndedType DEF Edit
  <2>2. Moves(r, e)
    BY <1>1, <1>2
  <2> HIDE DEF e
  <2>3. entry \in Entry /\ entry.end = NoDay
    BY <1>1, NoEntryType DEF CareerInv, DatesInv
  <2>4. Valid(Applied(entry, sent).start, Applied(entry, sent).end, Applied(entry, sent).current)
    BY <1>1, <1>2, <2>3, AppliedType
  <2> QED  BY <1>1, <2>1, <2>2, <2>4, MovesKeep
<1>3. CASE ~Valid(sent.start, sent.end, sent.current)
  <2>1. Moves(r, Ended("refused"))
    BY <1>1, <1>3
  <2> QED  BY <1>1, <2>1, EndedType, MovesKeep
<1> QED  BY <1>2, <1>3

LEMMA UpdateEntryKeeps ==
  ASSUME CareerInv, NEW r \in Requests, UpdateEntry(r)
  PROVE  CareerInv'
<1>1. PICK sent \in Sent :
        LET m == Merged(sent, entry) IN
        /\ Free(r) /\ entry.st = "live"
        /\ Moves(r, IF Valid(m.start, m.end, m.current)
                      THEN [NewEdit EXCEPT !.pc = "assert", !.op = "update", !.sent = sent]
                      ELSE Ended("refused"))
        /\ UNCHANGED <<catalogueVars, entry, mixed>>
  BY Zenon DEF UpdateEntry
<1> DEFINE m == Merged(sent, entry)
<1>2. entry \in Entry
  BY DEF CareerInv, CareerTypeOK
<1>3. m.start = Applied(entry, sent).start /\ m.end = Applied(entry, sent).end
      /\ m.current = Applied(entry, sent).current
  BY <1>2, AppliedType DEF Merged, Sent
<1>4. Moves(r, IF Valid(m.start, m.end, m.current)
                 THEN [NewEdit EXCEPT !.pc = "assert", !.op = "update", !.sent = sent]
                 ELSE Ended("refused"))
      /\ UNCHANGED <<catalogueVars, entry, mixed>>
  BY <1>1, Zenon
<1> HIDE DEF m
<1>5. CASE Valid(m.start, m.end, m.current)
  <2> DEFINE e == [NewEdit EXCEPT !.pc = "assert", !.op = "update", !.sent = sent]
  <2>1. e \in Edit /\ e.sent = sent
    BY EndedType DEF Edit
  <2>2. Moves(r, e)
    BY <1>4, <1>5
  <2> HIDE DEF e
  <2> QED  BY <1>3, <1>4, <1>5, <2>1, <2>2, MovesKeep
<1>6. CASE ~Valid(m.start, m.end, m.current)
  <2>1. Moves(r, Ended("refused"))
    BY <1>4, <1>6
  <2> QED  BY <1>4, <2>1, EndedType, MovesKeep
<1> QED  BY <1>5, <1>6

LEMMA AssertSkillsKeeps ==
  ASSUME CareerInv, NEW r \in Requests, AssertSkills(r)
  PROVE  CareerInv'
<1>1. edit[r] \in Edit /\ edit[r].pc = "assert" /\ UNCHANGED <<catalogueVars, entry, mixed>>
  BY DEF AssertSkills, CareerInv, CareerTypeOK
<1>2. CASE Moves(r, [edit[r] EXCEPT !.pc = "write"])
  <2> DEFINE e == [edit[r] EXCEPT !.pc = "write"]
  <2>1. e \in Edit /\ e.sent = edit[r].sent /\ e.stale = edit[r].stale
    BY <1>1 DEF Edit
  <2>2. Moves(r, e)
    BY <1>2
  <2> HIDE DEF e
  <2>3. ~edit[r].stale =>
          Valid(Applied(entry, e.sent).start, Applied(entry, e.sent).end, Applied(entry, e.sent).current)
    BY <1>1, <2>1 DEF CareerInv, DatesInv
  <2> QED  BY <1>1, <2>1, <2>2, <2>3, MovesKeep
<1>3. CASE Moves(r, Ended("refused"))
  BY <1>1, <1>3, EndedType, MovesKeep
<1> QED  BY <1>2, <1>3 DEF AssertSkills

LEMMA WriteEntryKeeps ==
  ASSUME CareerInv, NEW r \in Requests, WriteEntry(r)
  PROVE  CareerInv'
<1>1. /\ edit[r] \in Edit /\ edit[r].pc = "write" /\ UNCHANGED catalogueVars
      /\ entry \in Entry /\ edit[r].sent \in Sent
  BY DEF WriteEntry, CareerInv, CareerTypeOK, Edit
<1> DEFINE sent == edit[r].sent
           row == [Applied(entry, sent) EXCEPT !.st = "live"]
<1>2. CASE \E pc \in {"refused", "failed"} : Moves(r, Ended(pc)) /\ UNCHANGED <<entry, mixed>>
  BY <1>1, <1>2, EndedType, MovesKeep
<1>3. CASE Dangling(sent) = {} /\ Written(r, row, "done")
  <2>1. Applied(entry, sent) \in Entry
    BY <1>1, AppliedType
  <2>2. /\ row \in Entry /\ row.st = "live" /\ row.start = Applied(entry, sent).start
        /\ row.end = Applied(entry, sent).end /\ row.current = Applied(entry, sent).current
        /\ row.skills = Applied(entry, sent).skills
    BY <2>1, LiveEntryType
  <2>3. Written(r, row, "done")
    BY <1>3
  <2> HIDE DEF row
  <2>4. row.skills \subseteq Live("skill")
    <3>1. sent.skills \subseteq Live("skill") /\ entry.skills \subseteq Live("skill")
      BY <1>3 DEF Dangling, CareerInv
    <3> QED  BY <1>1, <2>2, <3>1, AppliedType
  <2>5. ~edit[r].stale => Valid(row.start, row.end, row.current)
    BY <1>1, <2>2 DEF CareerInv, DatesInv
  <2> QED  BY <1>1, <2>2, <2>3, <2>4, <2>5, WrittenKeep
<1>4. \/ \E pc \in {"refused", "failed"} : Moves(r, Ended(pc)) /\ UNCHANGED <<entry, mixed>>
      \/ Dangling(sent) = {} /\ Written(r, row, "done")
  <2> HIDE DEF row
  <2>1. CASE entry.st = "gone" /\ Moves(r, Ended("refused")) /\ UNCHANGED <<entry, mixed>>
    BY <2>1
  <2>2. CASE Dangling(sent) # {} /\ Moves(r, Ended("failed")) /\ UNCHANGED <<entry, mixed>>
    BY <2>2
  <2>3. CASE Dangling(sent) = {} /\ Written(r, row, "done")
    BY <2>3
  <2> QED  BY <2>1, <2>2, <2>3 DEF WriteEntry, row
<1> QED  BY <1>2, <1>3, <1>4

LEMMA DeleteEntryKeeps ==
  ASSUME CareerInv, NEW r \in Requests, DeleteEntry(r)
  PROVE  CareerInv'
<1>1. UNCHANGED catalogueVars
  BY DEF DeleteEntry
<1>2. CASE Written(r, [NoEntry EXCEPT !.st = "gone"], "done")
  <2> DEFINE row == [NoEntry EXCEPT !.st = "gone"]
  <2>1. row \in Entry /\ row.st = "gone" /\ row.skills = {} /\ Written(r, row, "done")
    BY <1>2, NoEntryType
  <2> HIDE DEF row
  <2> QED  BY <1>1, <2>1, WrittenKeep
<1>3. CASE Moves(r, Ended("refused")) /\ UNCHANGED <<entry, mixed>>
  BY <1>1, <1>3, EndedType, MovesKeep
<1> QED  BY <1>2, <1>3 DEF DeleteEntry

LEMMA CatalogueActionKeeps ==
  ASSUME CareerInv, NEW r \in Requests, CatalogueAction(r)
  PROVE  CareerInv'
<1>1. CatalogueInv' /\ AcceptInv'
  BY StepKeeps, StepAccepts DEF CatalogueAction, CareerInv
<1> DEFINE left == {i \in entry.skills : table'["skill"][i].st = "live"}
<1>2. entry \in Entry /\ edit' = edit /\ mixed' = mixed /\ left \subseteq Ids
  BY DEF CatalogueAction, CareerInv, CareerTypeOK, Entry
<1>3. left \subseteq Live("skill")'
  BY <1>2 DEF Live
<1>4. entry' = [entry EXCEPT !.skills = left]
  BY DEF CatalogueAction
<1>5. left \subseteq entry.skills
  OBVIOUS
<1> HIDE DEF left
<1>6. /\ entry' \in Entry /\ entry'.st = entry.st /\ entry'.start = entry.start /\ entry'.end = entry.end
      /\ entry'.current = entry.current /\ entry'.skills = left
  BY <1>2, <1>4 DEF Entry
<1>7. CareerTypeOK'
  BY <1>1, <1>2, <1>6 DEF CareerInv, CareerTypeOK, CatalogueInv
<1>8. (entry.skills \subseteq Live("skill"))'
  BY <1>3, <1>6
<1>9. DatesHold'
  BY <1>2, <1>6 DEF CareerInv, DatesHold
<1>10. DatesInv'
  <2>1. entry'.st = "none" => entry' = NoEntry
    <3>1. CASE entry.st = "none"
      <4>1. entry = NoEntry
        BY <3>1 DEF CareerInv, DatesInv
      <4>2. left = {}
        BY <1>5, <4>1, NoEntryType
      <4> QED  BY <1>4, <4>1, <4>2 DEF NoEntry
    <3> QED  BY <1>6, <3>1
  <2>2. ASSUME NEW p \in Requests, edit[p].pc \in {"assert", "write"}, ~edit[p].stale
        PROVE  Valid(Applied(entry', edit[p].sent).start, Applied(entry', edit[p].sent).end,
                     Applied(entry', edit[p].sent).current)
    <3>1. edit[p].sent \in Sent
      BY DEF CareerInv, CareerTypeOK, Edit
    <3>2. Valid(Applied(entry, edit[p].sent).start, Applied(entry, edit[p].sent).end,
                Applied(entry, edit[p].sent).current)
      BY <2>2 DEF CareerInv, DatesInv
    <3>3. /\ Applied(entry', edit[p].sent).start = Applied(entry, edit[p].sent).start
          /\ Applied(entry', edit[p].sent).end = Applied(entry, edit[p].sent).end
          /\ Applied(entry', edit[p].sent).current = Applied(entry, edit[p].sent).current
      BY <1>2, <1>6, <3>1, AppliedType
    <3> QED  BY <3>2, <3>3
  <2> QED  BY <1>2, <2>1, <2>2 DEF DatesInv
<1> QED  BY <1>1, <1>7, <1>8, <1>9, <1>10 DEF CareerInv

LEMMA CareerInvInit == Init => CareerInv
<1> SUFFICES ASSUME Init PROVE CareerInv
  OBVIOUS
<1>1. CatalogueInv /\ AcceptInv /\ 1 \in Live("skill")
  BY InitKeeps DEF Init
<1> DEFINE first == [NoEntry EXCEPT !.st = "live", !.end = 1, !.skills = {1}]
<1>2. /\ first \in Entry /\ first.st = "live" /\ first.start = 1 /\ first.end = 1 /\ first.skills = {1}
  BY Constants, DayTypes DEF NoEntry, Entry
<1>3. entry = NoEntry \/ entry = first
  BY DEF Init
<1> HIDE DEF first
<1>4. \A r \in Requests : edit[r] = NewEdit
  BY DEF Init
<1>5. CareerTypeOK
  BY <1>1, <1>2, <1>3, NoEntryType, EndedType DEF Init, CareerTypeOK, CatalogueInv
<1>6. entry.skills \subseteq Live("skill")
  BY <1>1, <1>2, <1>3, NoEntryType
<1>7. DatesInv
  BY <1>2, <1>3, <1>4, EndedType DEF DatesInv
<1>8. DatesHold
  BY <1>2, <1>3, NoEntryType, DayTypes DEF DatesHold, Valid
<1> QED  BY <1>1, <1>5, <1>6, <1>7, <1>8 DEF CareerInv

LEMMA CareerInvNext == CareerInv /\ [Next]_vars => CareerInv'
<1>1. ASSUME CareerInv, UNCHANGED vars PROVE CareerInv'
  <2>1. UNCHANGED catalogueVars /\ UNCHANGED <<entry, edit, mixed>>
    BY <1>1 DEF vars
  <2>2. CatalogueInv' /\ AcceptInv'
    BY <1>1, <2>1, UnchangedKeeps, UnchangedAccepts DEF CareerInv
  <2>3. CareerTypeOK'
    BY <1>1, <2>1, <2>2 DEF CareerInv, CareerTypeOK, CatalogueInv
  <2>4. (entry.skills \subseteq Live("skill"))' /\ DatesInv' /\ DatesHold'
    BY <1>1, <2>1 DEF CareerInv, Live, DatesInv, DatesHold, catalogueVars
  <2> QED  BY <2>2, <2>3, <2>4 DEF CareerInv
<1>2. ASSUME CareerInv, Next PROVE CareerInv'
  BY <1>2, CatalogueActionKeeps, CreateEntryKeeps, UpdateEntryKeeps, AssertSkillsKeeps, WriteEntryKeeps,
     DeleteEntryKeeps DEF Next
<1> QED  BY <1>1, <1>2

LEMMA CareerInvAlways == Spec => []CareerInv
BY CareerInvInit, CareerInvNext, PTL DEF Spec

-----------------------------------------------------------------------------
\* The types of the tables, the requests and the entry; every link of the entry
\* leads to a skill that is there (assertSkillsExist() is only a first check: the
\* foreign keys decide, and a deletion takes the links along); and a request
\* knows what it has read until somebody else writes its table.
THEOREM ConsistentAlways == Spec => []Consistent
<1>1. CareerInv => Consistent
  BY DEF CareerInv, CatalogueInv, Consistent
<1> QED  BY <1>1, CareerInvAlways, PTL

\* The checks that are made before the write (countHighlightedSkillsByCategory(),
\* findTagByName(), validateDates()) promise what they are there for, for any number
\* of requests, names, categories and cap, as long as no request overlaps another
\* one about the same table.
THEOREM SerialChecksHoldAlways == Spec => []SerialChecksHold
<1>1. CareerInv => SerialChecksHold
  BY DEF CareerInv, CatalogueInv, SerialChecksHold
<1> QED  BY <1>1, CareerInvAlways, PTL

\* resolveAiSuggestedTags() fails only if a tag was written between the check of a
\* name and its insert, or was renamed or deleted: what was in the way at the check
\* is found again by its name or its slug, and was not resolved to before.
THEOREM AcceptanceSurvivesAlways == Spec => []AcceptanceSurvives
<1>1. CareerInv => AcceptanceSurvives
  BY DEF CareerInv, AcceptInv, Resolvable, AcceptanceSurvives
<1> QED  BY <1>1, CareerInvAlways, PTL

==============================================================================
