-------------------------------- MODULE Career --------------------------------
(***************************************************************************)
(* An entry of the administrator's experience and the skills it names: an  *)
(* update is validated against the row as it was read, with what the schema *)
(* fills in for fields that were not sent, and written in a later          *)
(* transaction with the links to the skills of module Catalogue.           *)
(* The slug of an entry is chosen as that of a skill and left out.         *)
(***************************************************************************)
EXTENDS Catalogue

CONSTANT Dates   \* 1..Dates are the days

ASSUME CareerAssumption == Dates \in Nat \ {0}

VARIABLES
  entry,    \* the row and its rows in experience_skills
  edit,     \* the progress of each request that is about the entry
  mixed     \* history: the entry was written by requests which overlapped

vars == <<catalogueVars, entry, edit, mixed>>

-----------------------------------------------------------------------------
Days == 1..Dates
NoDay == 0

Entry == [st : {"none", "live", "gone"}, start : Days, end : Days \cup {NoDay},
          current : BOOLEAN, skills : SUBSET Ids]

\* What a request sends: NoDay stands for a day that is not sent, linked tells
\* whether skills are: the one that is there at first is enough.
Sent == {s \in [start : Days \cup {NoDay}, end : Days \cup {NoDay}, current : BOOLEAN,
                linked : BOOLEAN, skills : {{}, {1}}] :
           s.skills # {} => s.linked}

Edit == [pc : {"new", "assert", "write", "done", "refused", "failed"},
         op : {"create", "update", "delete"}, sent : Sent, stale : BOOLEAN]

NoEntry == [st |-> "none", start |-> 1, end |-> NoDay, current |-> FALSE, skills |-> {}]

NewEdit == [pc |-> "new", op |-> "create", stale |-> FALSE,
            sent |-> [start |-> NoDay, end |-> NoDay, current |-> FALSE,
                     linked |-> FALSE, skills |-> {}]]

CareerTypeOK ==
  /\ TypeOK
  /\ entry \in Entry
  /\ edit \in [Requests -> Edit]
  /\ mixed \in BOOLEAN

Init ==
  /\ CatalogueInit
  /\ entry \in {NoEntry, [NoEntry EXCEPT !.st = "live", !.end = 1, !.skills = {1}]}
  /\ edit = [r \in Requests |-> NewEdit]
  /\ mixed = FALSE

-----------------------------------------------------------------------------
\* validateDates(): an end unless current, and not before the start.
Valid(start, end, current) ==
  /\ current \/ end # NoDay
  /\ end # NoDay => end >= start

Ended(pc) == [NewEdit EXCEPT !.pc = pc]

Moves(r, e) == edit' = [edit EXCEPT ![r] = e]

Free(r) == edit[r] = NewEdit /\ request[r] = NewRequest

\* The skills of a request may exist or not.  Only one entry is created.
CreateEntry(r) ==
  \E sent \in Sent :
    /\ Free(r) /\ entry.st = "none"
    /\ \A p \in Requests : edit[p] = NewEdit
    /\ sent.start # NoDay   \* required by the schema
    /\ Moves(r, IF Valid(sent.start, sent.end, sent.current)
                  THEN [NewEdit EXCEPT !.pc = "assert", !.sent = sent]
                  ELSE Ended("refused"))
    /\ UNCHANGED <<catalogueVars, entry, mixed>>

\* The dates the row will have: isCurrent has a default that updateExperienceSchema
\* keeps, so it is always sent.
Merged(sent, row) ==
  [sent EXCEPT !.start = IF @ = NoDay THEN row.start ELSE @,
               !.end   = IF @ = NoDay THEN row.end ELSE @]

UpdateEntry(r) ==
  \E sent \in Sent :
    LET m == Merged(sent, entry) IN
    /\ Free(r) /\ entry.st = "live"
    /\ Moves(r, IF Valid(m.start, m.end, m.current)
                  THEN [NewEdit EXCEPT !.pc = "assert", !.op = "update", !.sent = sent]
                  ELSE Ended("refused"))
    /\ UNCHANGED <<catalogueVars, entry, mixed>>

\* assertSkillsExist()
AssertSkills(r) ==
  LET skills == edit[r].sent.skills IN
  /\ edit[r].pc = "assert"
  /\ Moves(r, IF skills \subseteq Live("skill")
                THEN [edit[r] EXCEPT !.pc = "write"] ELSE Ended("refused"))
  /\ UNCHANGED <<catalogueVars, entry, mixed>>

\* The columns that were sent, and the links if any were.
Applied(row, sent) ==
  [row EXCEPT !.start   = IF sent.start = NoDay THEN @ ELSE sent.start,
              !.end     = IF sent.end = NoDay THEN @ ELSE sent.end,
              !.current = sent.current,
              !.skills  = IF sent.linked THEN sent.skills ELSE @]

\* Mutant: the links have no foreign key.
Dangling_Never(sent) == {}

\* A skill that was deleted meanwhile breaks a foreign key.
Dangling(sent) == sent.skills \ Live("skill")

Written(r, row, pc) ==
  /\ entry' = row
  /\ edit' = [p \in Requests |->
       IF p = r THEN Ended(pc) ELSE [edit[p] EXCEPT !.stale = @ \/ edit[p].pc \in {"assert", "write"}]]
  /\ mixed' = (mixed \/ edit[r].stale)

\* One transaction: the row, if it is still there, and its links.
WriteEntry(r) ==
  LET e == edit[r] IN
  /\ e.pc = "write"
  /\ CASE entry.st = "gone"        -> Moves(r, Ended("refused")) /\ UNCHANGED <<entry, mixed>>
       [] Dangling(e.sent) # {}     -> Moves(r, Ended("failed")) /\ UNCHANGED <<entry, mixed>>
       [] OTHER -> Written(r, [Applied(entry, e.sent) EXCEPT !.st = "live"], "done")
  /\ UNCHANGED catalogueVars

\* softDeleteExperience(), in one statement
DeleteEntry(r) ==
  /\ Free(r)
  /\ IF entry.st = "live" THEN Written(r, [NoEntry EXCEPT !.st = "gone"], "done")
                          ELSE Moves(r, Ended("refused")) /\ UNCHANGED <<entry, mixed>>
  /\ UNCHANGED catalogueVars

\* A request about tags and skills; a deleted skill takes its links along.
CatalogueAction(r) ==
  /\ edit[r] = NewEdit
  /\ CatalogueStep(r)
  /\ entry' = [entry EXCEPT !.skills = {i \in @ : table'["skill"][i].st = "live"}]
  /\ UNCHANGED <<edit, mixed>>

Next ==
  \E r \in Requests :
    \/ CatalogueAction(r)
    \/ CreateEntry(r) \/ UpdateEntry(r) \/ AssertSkills(r) \/ WriteEntry(r) \/ DeleteEntry(r)

Spec == Init /\ [][Next]_vars

-----------------------------------------------------------------------------
\* A request that was validated leaves dates that make sense, until somebody
\* else writes the entry.
DatesInv ==
  /\ entry.st = "none" => entry = NoEntry
  /\ \A r \in Requests : edit[r].pc \in {"assert", "write"} /\ ~edit[r].stale =>
       LET row == Applied(entry, edit[r].sent) IN Valid(row.start, row.end, row.current)

\* What the runs check as one invariant: the types, that no link of the entry
\* outlives its skill, and that the requests know what they rely on.
Consistent ==
  /\ CareerTypeOK
  /\ entry.skills \subseteq Live("skill")
  /\ \A r \in Requests : Planned(request[r])
  /\ KnowsInv /\ AcceptInv /\ DatesInv

\* The dates of an entry make sense although an update is validated against
\* the row it found, unless two updates overlapped: the table has no constraint.
DatesHold ==
  entry.st = "live" /\ ~mixed => Valid(entry.start, entry.end, entry.current)

\* Every check that comes before its write: what it promises holds as long as
\* no request about the same table overlapped it.
SerialChecksHold == CapHolds /\ NoTwins /\ DatesHold

\* The dates of an entry make sense whatever overlaps.
DatesAlways == entry.st = "live" => Valid(entry.start, entry.end, entry.current)
==============================================================================
