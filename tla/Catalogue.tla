------------------------------- MODULE Catalogue -------------------------------
(***************************************************************************)
(* Tags and skills: two tables of names with slugs, written by requests    *)
(* that read first (is the name taken, which slug is free, how many skills *)
(* are highlighted) and write in a later statement, without a transaction. *)
(* The reads of a request are its steps here, in the order of the code.    *)
(* The invalidation at the end of a request is module ReadThroughCache's.  *)
(***************************************************************************)
EXTENDS Integers, FiniteSets, Sequences

CONSTANTS
  Requests,       \* requests to the API, each served once
  Names,          \* names of tags
  SkillNames,     \* and those of skills
  Lower,          \* lower(name): a member of Names for each
  Base,           \* generateSlug(name): a member of Names for each
  Categories,     \* the categories of skills
  MaxHighlighted, \* MAX_HIGHLIGHTED_PER_CATEGORY
  MaxRows         \* bound on the rows of each table

ASSUME CatalogueAssumption ==
  /\ IsFiniteSet(Requests) /\ IsFiniteSet(Names)
  /\ SkillNames \subseteq Names /\ SkillNames # {} /\ Categories # {}
  /\ {Lower, Base} \subseteq [Names -> Names]
  /\ \A m, n \in Names : Lower[m] = Lower[n] => Base[m] = Base[n]
  /\ MaxHighlighted \in Nat \ {0} /\ MaxRows \in Nat \ {0}

VARIABLES
  table,     \* the rows of the tables "tag" and "skill"
  request,   \* the progress of each request
  overlapped \* history: tables that were written by requests which overlapped

catalogueVars == <<table, request, overlapped>>

-----------------------------------------------------------------------------
Tables == {"tag", "skill"}
Ids == 1..MaxRows
NoId == 0

\* A base, with the suffix -k if k is not 0.
Slugs == Names \X (0..MaxRows)

NamesOf(t) == IF t = "tag" THEN Names ELSE SkillNames

\* Ids are serial: those of deleted rows do not come back.
Row == [st : {"free", "live", "gone"}, name : Names, slug : Slugs,
        category : Categories, highlighted : BOOLEAN]

Steps == {"name", "count", "slug", "insert", "update", "delete", "lookup", "next", "recover"}

Columns == {"name", "category", "highlighted"}

\* sent are the columns of an update; got is what a list of suggested names has
\* been resolved to so far, names what is left of it, asked the list (history).
Request == [steps : Seq(Steps), table : Tables, op : {"none", "create", "update", "delete", "suggest"},
            id : Ids \cup {NoId}, new : Row, sent : SUBSET Columns, asked : SUBSET Names, names : SUBSET Names, got : SUBSET Ids,
            stale : BOOLEAN, end : {"none", "ok", "refused", "failed"}]

AnyName == CHOOSE n \in SkillNames : TRUE
AnyCategory == CHOOSE c \in Categories : TRUE

FreeRow == [st |-> "free", name |-> AnyName, slug |-> <<AnyName, 0>>,
            category |-> AnyCategory, highlighted |-> FALSE]

NewRequest == [steps |-> <<>>, table |-> "tag", op |-> "none", id |-> NoId, new |-> FreeRow,
               sent |-> {}, asked |-> {}, names |-> {}, got |-> {}, stale |-> FALSE, end |-> "none"]

TypeOK ==
  /\ table \in [Tables -> [Ids -> Row]]
  /\ request \in [Requests -> Request]
  /\ overlapped \subseteq Tables

\* The rows of a table: some names, each with its own slug.
FirstRows(named) ==
  [i \in Ids |-> IF i <= Len(named)
                   THEN [FreeRow EXCEPT !.st = "live", !.name = named[i], !.slug = <<Base[named[i]], 0>>]
                   ELSE FreeRow]

\* At most one tag, and one highlighted skill.
CatalogueInit ==
  /\ \E tags \in {<<>>} \cup {<<n>> : n \in Names} :
       table = [t \in Tables |-> IF t = "tag" THEN FirstRows(tags)
                                 ELSE [FirstRows(<<AnyName>>) EXCEPT ![1].highlighted = TRUE]]
  /\ request = [r \in Requests |-> NewRequest]
  /\ overlapped = {}

-----------------------------------------------------------------------------
Live(t) == {i \in Ids : table[t][i].st = "live"}

\* findTagByName() ignores case, findSkillByName() does not.
SameName(t, m, n) == IF t = "tag" THEN Lower[m] = Lower[n] ELSE m = n

Named(t, n, except) == {i \in Live(t) \ {except} : SameName(t, table[t][i].name, n)}

Slugged(t, s, except) == {i \in Live(t) \ {except} : table[t][i].slug = s}

\* The unique constraints of name and slug.
Violates(t, row, id) ==
  \E i \in Live(t) \ {id} : table[t][i].name = row.name \/ table[t][i].slug = row.slug

\* countHighlightedSkillsByCategory()
Highlighted(c, except) ==
  Cardinality({i \in Live("skill") \ {except} :
                 table["skill"][i].category = c /\ table["skill"][i].highlighted})

At(r, step) == request[r].steps # <<>> /\ Head(request[r].steps) = step

\* A request that has ended remembers what it was and what it found.
Stopped(q, end) ==
  [NewRequest EXCEPT !.op = q.op, !.table = q.table, !.end = end, !.asked = q.asked, !.got = q.got]

\* The next step of a request, which has ended well after the last.
Advanced(q) == IF Len(q.steps) = 1 THEN Stopped(q, "ok") ELSE [q EXCEPT !.steps = Tail(@)]

Reads(r, q) == request' = [request EXCEPT ![r] = q] /\ UNCHANGED <<table, overlapped>>

\* A row is written: those who read the table before know an old one.
Writes(r, q, i, row) ==
  LET t == request[r].table IN
  /\ table' = [table EXCEPT ![t][i] = row]
  /\ request' = [p \in Requests |->
       IF p = r THEN q
       ELSE [request[p] EXCEPT !.stale = @ \/ (request[p].steps # <<>> /\ request[p].table = t)]]
  /\ overlapped' = overlapped \cup (IF request[r].stale THEN {t} ELSE {})

\* Mutant: only the violation of a constraint is recovered from.
Conflicted_Thrown(q) == Stopped(q, "refused")

\* ConflictError, which the resolution of suggestions catches.
Conflicted(q) ==
  IF q.op = "suggest" THEN [q EXCEPT !.steps = <<"recover", "next">>] ELSE Stopped(q, "refused")

\* The violation of a constraint. The query builder wraps the driver's error, and
\* isUniqueViolationError() looks at the outer one only: nothing catches it.
Violated(q) == [Stopped(q, "failed") EXCEPT !.stale = q.stale]

-----------------------------------------------------------------------------
(***************************************************************************)
(* createTagService(), createSkillService() and their kin.                 *)
(***************************************************************************)

Begin(r, q) ==
  /\ request[r] = NewRequest
  /\ Reads(r, q)

\* The cap of a skill's category is checked before the slug is chosen.
Create(r) ==
  \E t \in Tables : \E n \in NamesOf(t), c \in Categories, h \in BOOLEAN :
    /\ t = "tag" => ~h /\ c = AnyCategory
    /\ Begin(r, [NewRequest EXCEPT
         !.steps = IF h THEN <<"name", "count", "slug", "insert">> ELSE <<"name", "slug", "insert">>,
         !.table = t, !.op = "create",
         !.new = [FreeRow EXCEPT !.st = "live", !.name = n, !.category = c, !.highlighted = h]])

\* Mutant: a skill that is highlighted already is not counted again.
UpdateSteps_NewlyOnly(old, new) ==
  (IF new.name # old.name THEN <<"name", "slug">> ELSE <<>>)
  \o (IF new.highlighted /\ ~old.highlighted THEN <<"count">> ELSE <<>>) \o <<"update">>

\* An update checks the name if it changes, and the cap whenever the skill ends
\* up highlighted.
UpdateSteps(old, new) ==
  (IF new.name # old.name THEN <<"name", "slug">> ELSE <<>>)
  \o (IF new.highlighted THEN <<"count">> ELSE <<>>) \o <<"update">>

\* The columns that a patch brings are written, the name if it is another one;
\* an empty patch writes nothing.
Update(r) ==
  \E t \in Tables : \E i \in Live(t), n \in NamesOf(t), c \in Categories, h \in BOOLEAN, sent \in SUBSET Columns :
    LET old == table[t][i] IN
    /\ t = "tag" => sent = {"name"}
    /\ "name" \in sent <=> n # old.name
    /\ "category" \notin sent => c = old.category
    /\ "highlighted" \notin sent => h = old.highlighted
    /\ sent # {}
    /\ LET new == [old EXCEPT !.name = n, !.category = c, !.highlighted = h] IN
       Begin(r, [NewRequest EXCEPT !.steps = UpdateSteps(old, new), !.table = t, !.op = "update",
                                   !.id = i, !.new = new, !.sent = sent])

Delete(r) ==
  \E t \in Tables : \E i \in Live(t) :
    Begin(r, [NewRequest EXCEPT !.steps = <<"delete">>, !.table = t, !.op = "delete", !.id = i])

\* What a creation rests on is read from here on.
CheckName(r) ==
  LET q == request[r] IN
  /\ At(r, "name")
  /\ Reads(r, IF Named(q.table, q.new.name, q.id) = {}
                THEN [Advanced(q) EXCEPT !.stale = @ /\ q.op = "update"]
                ELSE Conflicted(q))

CheckCap(r) ==
  LET q == request[r] IN
  /\ At(r, "count")
  /\ Reads(r, IF Highlighted(q.new.category, q.id) >= MaxHighlighted
                THEN Stopped(q, "refused") ELSE Advanced(q))

\* ensureUniqueSlug(): the last of its queries decides.
ChooseSlug(r) ==
  LET q == request[r]
      free == {k \in 0..MaxRows : Slugged(q.table, <<Base[q.new.name], k>>, q.id) = {}} IN
  /\ At(r, "slug")
  /\ \E k \in free :
       /\ \A j \in free : k <= j
       /\ Reads(r, Advanced([q EXCEPT !.new.slug = <<Base[q.new.name], k>>]))

Insert(r) ==
  LET q == request[r] IN
  /\ At(r, "insert")
  /\ IF Violates(q.table, q.new, NoId)
       THEN Reads(r, Violated(q))
       ELSE \E i \in Ids :
              /\ table[q.table][i].st = "free"
              /\ \A j \in 1..(i - 1) : table[q.table][j].st # "free"
              /\ Writes(r, [Advanced(q) EXCEPT !.got = IF q.op = "suggest" THEN @ \cup {i} ELSE @],
                        i, q.new)

\* UPDATE ... SET the columns sent: the others are what they are by now.
Patched(row, q) ==
  [row EXCEPT !.name        = IF "name" \in q.sent THEN q.new.name ELSE @,
              !.slug        = IF "name" \in q.sent THEN q.new.slug ELSE @,
              !.category    = IF "category" \in q.sent THEN q.new.category ELSE @,
              !.highlighted = IF "highlighted" \in q.sent THEN q.new.highlighted ELSE @]

Save(r) ==
  LET q == request[r]
      row == Patched(table[q.table][q.id], q) IN
  /\ At(r, "update")
  /\ CASE q.id \notin Live(q.table)    -> Reads(r, Stopped(q, "refused"))
       [] Violates(q.table, row, q.id) -> Reads(r, Stopped(q, "failed"))
       [] OTHER -> Writes(r, Advanced(q), q.id, row)

Remove(r) ==
  LET q == request[r] IN
  /\ At(r, "delete")
  /\ IF q.id \in Live(q.table)
       THEN Writes(r, Advanced(q), q.id, [FreeRow EXCEPT !.st = "gone"])
       ELSE Reads(r, Stopped(q, "refused"))

-----------------------------------------------------------------------------
(***************************************************************************)
(* resolveAiSuggestedTags(), when a draft is accepted.                     *)
(***************************************************************************)

\* canonicalizeTagName(): a tag of that name, else one of that slug, else the
\* name itself (Names are those the icon catalogue leaves as they are).
Canonical(n) ==
  LET exact == {table["tag"][i].name : i \in Named("tag", n, NoId)}
      like  == {table["tag"][i].name : i \in
                 {j \in Live("tag") : \/ Base[table["tag"][j].name] = Base[n]
                                     \/ table["tag"][j].slug = <<Base[n], 0>>}} IN
  CASE exact # {} -> exact
    [] exact = {} /\ like # {} -> like
    [] OTHER -> {n}

\* canonicalizeSuggestedTagNames(): of names with one slug the first is kept.
Suggest(r) ==
  \E m, n \in Names : \E cm \in Canonical(m), cn \in Canonical(n) :
    Begin(r, [NewRequest EXCEPT !.steps = <<"lookup">>, !.op = "suggest",
                                !.asked = {m, n}, !.names = {cm} \cup (IF Base[cn] = Base[cm] THEN {} ELSE {cn})])

\* findTagsBySlugs(): those there are need no insert.
Lookup(r) ==
  LET q == request[r]
      found == {n \in q.names : Slugged("tag", <<Base[n], 0>>, NoId) # {}} IN
  /\ At(r, "lookup")
  /\ Reads(r, [q EXCEPT !.steps = <<"next">>, !.names = @ \ found,
                        !.got = UNION {Slugged("tag", <<Base[n], 0>>, NoId) : n \in found}])

NextName(r) ==
  LET q == request[r] IN
  /\ At(r, "next")
  /\ \/ q.names = {} /\ Reads(r, Advanced(q))
     \/ \E n \in q.names :
          Reads(r, [q EXCEPT !.steps = <<"name", "slug", "insert", "next">>, !.names = @ \ {n},
                             !.new = [FreeRow EXCEPT !.st = "live", !.name = n]])

\* findTagByName() ?? findTagBySlug()
Conflicting(n) ==
  LET named == Named("tag", n, NoId) IN
  IF named # {} THEN named ELSE Slugged("tag", <<Base[n], 0>>, NoId)

Recover(r) ==
  LET q == request[r]
      found == Conflicting(q.new.name) IN
  /\ At(r, "recover")
  /\ \/ /\ found = {} \/ found \cap q.got # {}   \* resolved to already, or gone
        /\ Reads(r, Stopped(q, "failed"))
     \/ \E i \in found \ q.got : Reads(r, Advanced([q EXCEPT !.got = @ \cup {i}]))

-----------------------------------------------------------------------------
CatalogueStep(r) ==
  \/ Create(r) \/ Update(r) \/ Delete(r) \/ Suggest(r)
  \/ CheckName(r) \/ CheckCap(r) \/ ChooseSlug(r)
  \/ Insert(r) \/ Save(r) \/ Remove(r)
  \/ Lookup(r) \/ NextName(r) \/ Recover(r)

CatalogueNext == \E r \in Requests : CatalogueStep(r)

CatalogueSpec == CatalogueInit /\ [][CatalogueNext]_catalogueVars

-----------------------------------------------------------------------------
(***************************************************************************)
(* What a request has ahead of it and what it has found out, which is what *)
(* the properties below rest on.                                           *)
(***************************************************************************)

\* What can be left of the steps of a request: a skill that is to be
\* highlighted is counted, whatever comes before.
PlansOf(q) ==
  LET counts == q.new.highlighted IN
  CASE q.op = "create" /\ counts  -> {<<"name", "count", "slug", "insert">>, <<"count", "slug", "insert">>,
                                      <<"slug", "insert">>, <<"insert">>}
    [] q.op = "create" /\ ~counts -> {<<"name", "slug", "insert">>, <<"slug", "insert">>, <<"insert">>}
    [] q.op = "update" /\ counts  -> {<<"name", "slug", "count", "update">>, <<"slug", "count", "update">>,
                                      <<"count", "update">>, <<"update">>}
    [] q.op = "update" /\ ~counts -> {<<"name", "slug", "update">>, <<"slug", "update">>, <<"update">>}
    [] q.op = "delete"            -> {<<"delete">>}
    [] q.op = "suggest"           -> {<<"lookup">>, <<"next">>, <<"name", "slug", "insert", "next">>,
                                      <<"slug", "insert", "next">>, <<"insert", "next">>, <<"recover", "next">>}
    [] OTHER -> {}

Planned(q) ==
  /\ q.steps # <<>> => q.steps \in PlansOf(q)
  /\ q.op \in {"create", "suggest"} => q.id = NoId
  /\ q.op = "suggest" => q.table = "tag"

\* What a request has read, until somebody else writes the table: the columns it
\* leaves alone, that neither the name nor the slug is taken, that there is room
\* in the category.
Knows(q) ==
  LET row == table[q.table][q.id] IN
  /\ q.op = "update" =>
       /\ q.id \in Live(q.table)
       /\ "category" \notin q.sent => q.new.category = row.category
       /\ "highlighted" \notin q.sent => q.new.highlighted = row.highlighted
  /\ Head(q.steps) \in {"slug", "count", "insert", "update"} /\ (q.op = "update" => "name" \in q.sent) =>
       Named(q.table, q.new.name, q.id) = {}
  /\ Head(q.steps) = "insert" => Slugged(q.table, q.new.slug, q.id) = {}
  /\ Head(q.steps) \in (IF q.op = "create" THEN {"slug", "insert"} ELSE {"update"})
       /\ q.table = "skill" /\ q.new.highlighted =>
       Highlighted(q.new.category, q.id) < MaxHighlighted

KnowsInv == \A r \in Requests : request[r].steps # <<>> /\ ~request[r].stale => Knows(request[r])

\* A tag was renamed or deleted, or is about to be.
Disturbs(q) == q.table = "tag" /\ q.op \in {"update", "delete"}

Disturbed == \E p \in Requests : Disturbs(request[p])

\* The name that a list of suggestions is at.
Current(q) == IF Head(q.steps) \in {"name", "slug", "insert", "recover"} THEN {q.new.name} ELSE {}

\* The slugs of the names that are left differ from each other and from those of
\* the tags that are found.
Apart(q) ==
  /\ Current(q) # {} => q.new.st = "live"
  /\ q.got \subseteq Live("tag")
  /\ Current(q) \cap q.names = {}
  /\ \A m, n \in q.names \cup Current(q) : Base[m] = Base[n] => m = n
  /\ \A i \in q.got, n \in q.names \cup Current(q) : Base[table["tag"][i].name] # Base[n]

\* What was in the way of a suggestion is there to be found, and was not found
\* before.
Resolvable(q) ==
  /\ q.op = "suggest" /\ q.end \notin {"none", "ok"} => q.stale
  /\ q.steps # <<>> =>
       /\ Head(q.steps) = "insert" /\ q.table = "tag" => q.new.slug[1] = Base[q.new.name]
       /\ Head(q.steps) = "recover" => Conflicting(q.new.name) # {}
       /\ q.op = "suggest" => q.end = "none" /\ Apart(q)

SluggedByName == \A i \in Live("tag") : table["tag"][i].slug[1] = Base[table["tag"][i].name]

AcceptInv == ~Disturbed => SluggedByName /\ \A r \in Requests : Resolvable(request[r])

-----------------------------------------------------------------------------
\* No category has more highlighted skills than the cap, whatever was created,
\* updated and moved between categories, unless two requests overlapped: each
\* counts before it writes (skills.service.ts:108 and :160).
CapHolds ==
  "skill" \notin overlapped => \A c \in Categories : Highlighted(c, NoId) <= MaxHighlighted

Twins(i, j) == Lower[table["tag"][i].name] = Lower[table["tag"][j].name]

\* No two tags have names that differ in case only, unless two requests
\* overlapped: the constraint of the column would let them pass.
NoTwins ==
  "tag" \notin overlapped => \A i, j \in Live("tag") : Twins(i, j) => i = j

\* The acceptance of suggestions survives another acceptance or the
\* administrator's own tag: what is there when a name is checked is found again,
\* by name or by slug, and was not resolved to before. It fails only if a tag was
\* written between that check and the insert, or was renamed or deleted.
AcceptanceSurvives ==
  \A r \in Requests :
    request[r].op = "suggest" /\ request[r].end \notin {"none", "ok"}
      => request[r].stale \/ Disturbed

\* tags.service.ts:173: races of concurrent creations are handled. Not the race of
\* two inserts, which the constraint decides.
RacesAreHandled ==
  \A r \in Requests : request[r].op = "suggest" /\ request[r].end = "failed" => Disturbed

\* The first two without their condition, which requests that overlap refute.
CapAlways == \A c \in Categories : Highlighted(c, NoId) <= MaxHighlighted

NeverTwins == \A i, j \in Live("tag") : Twins(i, j) => i = j

\* A suggestion becomes a tag of its name: not when another name has its slug.
SuggestionMeant ==
  \A r \in Requests :
    request[r].op = "suggest" /\ request[r].end = "ok" =>
      \A i \in request[r].got : \E n \in request[r].asked : Lower[table["tag"][i].name] = Lower[n]
==============================================================================
