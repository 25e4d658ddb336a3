--------------------------- MODULE CommentsSection ---------------------------
(***************************************************************************)
(* The comments under a post as a visitor reads them: the page holds the   *)
(* first ones, as the API's cache had them when the web server's own cache *)
(* was filled, and the browser loads the others page by page while the     *)
(* comments are moderated (module Comments).                               *)
(***************************************************************************)
EXTENDS Comments

CONSTANT PerPage   \* COMMENTS_PER_PAGE

ASSUME PerPageAssumption == PerPage \in Nat \ {0}

VARIABLES
  page,     \* the web server's copy of the post's detail ('use cache')
  section,  \* the state of CommentsSection
  load      \* the page that is on its way to it

vars == <<apiVars, page, section, load>>

-----------------------------------------------------------------------------
\* "all" is the history of the list that the section started from, "short" that
\* comments became public between a count and the rows that were read with it.
Section == [open : BOOLEAN, loaded : SUBSET Ids, nextPage : 1..(MaxComments + 2),
            hasMore : BOOLEAN, all : SUBSET Ids, short : BOOLEAN]

Closed == [open |-> FALSE, loaded |-> {}, nextPage |-> 1, hasMore |-> FALSE,
           all |-> {}, short |-> FALSE]

Load == [todo : SUBSET Queries, got : SUBSET Ids, total : 0..MaxComments, short : BOOLEAN]

NoLoad == [todo |-> Queries, got |-> {}, total |-> 0, short |-> FALSE]

NoPage == [present |-> FALSE, list |-> NoList]

TypeOK ==
  /\ ApiTypeOK
  /\ page \in [present : BOOLEAN, list : List]
  /\ section \in Section
  /\ load \in Load

Init ==
  /\ ApiInit
  /\ page = NoPage
  /\ section = Closed
  /\ load = NoLoad

\* getPublicPostDetail(): rendered from the API's entry, for an hour.
RenderPage ==
  /\ ~page.present /\ entry.present
  /\ page' = [present |-> TRUE, list |-> entry.list]
  /\ UNCHANGED <<apiVars, section, load>>

PageExpires ==
  /\ page.present
  /\ page' = NoPage
  /\ UNCHANGED <<apiVars, section, load>>

\* Mutant: the pages after those the preview has begun.
FirstPage_After(loaded) == (loaded + PerPage - 1) \div PerPage + 1

\* The first page that may hold a comment which the preview does not.
FirstPage(loaded) == loaded \div PerPage + 1

OpenSection ==
  LET ids == {c.id : c \in page.list.comments} IN
  /\ page.present /\ ~section.open
  /\ section' = [open |-> TRUE, loaded |-> ids,
                 nextPage |-> FirstPage(Cardinality(ids)),
                 hasMore |-> Cardinality(ids) < page.list.count,
                 all |-> page.list.all,
                 short |-> page.list.count < Cardinality(page.list.all)]
  /\ UNCHANGED <<apiVars, page, load>>

\* loadMoreComments() asks for one page at a time; findPaginatedApproved...() reads
\* the table, not the cache, in two queries that run at the same time.
Loads(query) ==
  /\ section.open /\ section.hasMore
  /\ query \in load.todo
  /\ UNCHANGED <<apiVars, page, section>>

ReadTotal ==
  /\ Loads("count")
  /\ load' = [load EXCEPT !.todo = @ \ {"count"}, !.total = Cardinality(Public(row))]

ReadPage ==
  LET n == section.nextPage IN
  /\ Loads("rows")
  /\ load' = [load EXCEPT
       !.todo = @ \ {"rows"},
       !.got = {c.id : c \in Rows((n - 1) * PerPage + 1, n * PerPage)},
       !.short = "count" \notin load.todo /\ load.total < Cardinality(Public(row))]

\* The trees are merged by id.
ShowPage ==
  LET n == section.nextPage IN
  /\ load.todo = {}
  /\ section' = [section EXCEPT
       !.loaded = @ \cup load.got,
       !.nextPage = n + 1,
       !.hasMore = n < (load.total + PerPage - 1) \div PerPage,
       !.short = @ \/ load.short]
  /\ load' = NoLoad
  /\ UNCHANGED <<apiVars, page>>

\* An error of a query or of the request changes nothing.
LoadFails ==
  /\ load # NoLoad
  /\ load' = NoLoad
  /\ UNCHANGED <<apiVars, page, section>>

Next ==
  \/ ApiNext /\ UNCHANGED <<page, section, load>>
  \/ RenderPage
  \/ PageExpires
  \/ OpenSection
  \/ ReadTotal
  \/ ReadPage
  \/ ShowPage
  \/ LoadFails

Spec == Init /\ [][Next]_vars

-----------------------------------------------------------------------------
\* No invalidation is on its way.
Quiet == \A q \in Requests : request[q].pc \notin {"scan", "del"}

\* The cached detail shows exactly the public comments as they are, once the
\* moderation that changed them has invalidated it: unless two moderations of
\* one comment overlapped (needsCacheInvalidation() judges by the status that
\* was read before the write), or an invalidation failed, or was over before the
\* fill stored what it had begun to read.
CacheFollows ==
  entry.present /\ ~entry.missed /\ ~raced /\ Quiet
    => entry.list.comments = Rows(1, Preview) /\ entry.list.count = Cardinality(Public(row))

\* So does what a fill has read, while no invalidation has passed it by.
FillsFollow ==
  ~raced /\ Quiet =>
    \A r \in Readers : fill[r].active /\ ~fill[r].missed =>
      /\ "rows" \notin fill[r].todo => fill[r].list.comments = Rows(1, Preview)
      /\ "count" \notin fill[r].todo => fill[r].list.count = Cardinality(Public(row))

\* While Redis answers, a comment is stored only under its reservation, and the
\* reservation outlasts it; a rejection that was decided is a rejection.
ReservedFirst ==
  faults = 0 =>
    /\ recent => cooldown.redis
    /\ \A q \in Requests : request[q].pc = "insert" => cooldown.redis
AimInv ==
  \A q \in Requests :
    request[q].pc = "write" /\ request[q].op = "reject" => request[q].to = "rejected"

\* A list is the first part of what was public when it was read, and what was
\* public still is, unless something was withdrawn.
Begins(list) ==
  LET ids == {c.id : c \in list.comments} IN
  /\ ids \subseteq list.all
  /\ \A i \in ids, j \in list.all \ ids : i < j
Lists == {entry.list, page.list} \cup {fill[r].list : r \in Readers}
ListsBegin == \A list \in Lists : Begins(list) /\ (~withdrawn => list.all \subseteq Public(row))

\* A comment that is still to be loaded has its place after the pages that were,
\* and the visitor is offered another page; it is on the page that was read, or
\* after it and counted, unless a count was too short.
StillAhead ==
  section.open /\ ~withdrawn =>
    /\ section.all \subseteq Public(row)
    /\ \A i \in section.all \ section.loaded :
         /\ Place(i) > (section.nextPage - 1) * PerPage
         /\ section.short \/ section.hasMore
         /\ "rows" \notin load.todo /\ i \notin load.got =>
              /\ Place(i) > section.nextPage * PerPage
              /\ "count" \notin load.todo /\ ~load.short
                   => load.total > section.nextPage * PerPage

\* Only an open section loads.
LoadInv == load # NoLoad => section.open /\ section.hasMore

\* There are not more pages than comments, but for the one after the preview.
PagesEnd == section.hasMore => section.nextPage <= MaxComments + 1

\* What the runs check as one invariant.
Consistent ==
  /\ TypeOK /\ ReservedFirst /\ AimInv /\ CacheFollows /\ FillsFollow
  /\ ListsBegin /\ StillAhead /\ LoadInv /\ PagesEnd

\* Once an address has a comment stored, no other of it passes the check
\* before the cooldown is over, as long as Redis answers: the cooldown is
\* reserved before the insert.
CooldownHolds ==
  [][\A q \in Requests :
       recent /\ request[q].pc = "new" /\ request'[q].pc = "reserve" => faults' > 0]_vars

\* A visitor who loads all pages sees every comment that was public when the
\* page was rendered, although preview and pages are cut differently, the
\* preview may be old, and older comments are approved meanwhile: only the
\* withdrawal of a comment can hide another one, or an approval between the two
\* queries of one read, of which the count came first.
AllShown ==
  section.open /\ ~section.hasMore /\ ~withdrawn /\ ~section.short
    => section.all \subseteq section.loaded

\* "invalidate when any side of a status transition involves 'approved'"
\* (comments.admin.service.ts:39): the cached detail follows every transition.
TransitionsInvalidate ==
  entry.present /\ (\A q \in Requests : request[q].pc \notin {"write", "scan", "del"})
    => {c.id : c \in entry.list.comments} \subseteq Public(row)

\* "Falls back to local in-memory store when Redis is unavailable"
\* (rateLimit.ts:230): the cooldown holds through a failure of Redis.
CooldownSurvives ==
  [][\A q \in Requests :
       recent /\ request[q].pc = "new" => request'[q].pc # "reserve"]_vars

\* Loading all pages shows all comments, whatever is moderated meanwhile.
NothingSkipped ==
  section.open /\ ~section.hasMore
    => section.all \cap Public(row) \subseteq section.loaded

\* Only a withdrawal can hide a comment.
NothingCutShort ==
  section.open /\ ~section.hasMore /\ ~withdrawn => section.all \subseteq section.loaded

\* The web server's page follows the API's cache: once moderation is done, it
\* shows no comment that is not public.
PageFollows ==
  page.present /\ (\A q \in Requests : request[q].pc \notin {"write", "scan", "del"})
    => {c.id : c \in page.list.comments} \subseteq Public(row)
==============================================================================
