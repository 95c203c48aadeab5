---------------------------- MODULE RequestFiles ----------------------------
(***************************************************************************)
(* Questions kept in request files (request_files.py).  Every section of a   *)
(* file under a heading with a request number becomes a request record of    *)
(* its own, linked to the ventures it is about.  A record is found again by  *)
(* what the last synchronisation wrote into it, so that a question is asked  *)
(* once, however the files, the mapping and the records change in between.   *)
(*                                                                         *)
(* apply plans and writes in one transaction, hence one step; the preview    *)
(* only shows a plan that is made anew.  A heading, a title and an answer    *)
(* count with the section they belong to.  What an answer in a file does to  *)
(* its request is in HumanInputs; here only that it overwrites the mark the  *)
(* synchronisation left.                                                    *)
(***************************************************************************)
EXTENDS Integers, FiniteSets, Sequences

CONSTANTS Files,      \* the names of the files, in the order they are read
          Keys,       \* request numbers
          Questions,  \* wordings
          Topics,     \* ventures a section can be about
          Contents,   \* what a file may hold: sequences of sections
          NoFile,
          MaxOccurrences, \* how often a number may be repeated in a file
          MaxChanges      \* bound on edits, registrations and imported answers

VARIABLES content,    \* file -> its sections: [key, question, answered, about]
          record,     \* id -> the request record
          settled,    \* history: nothing has changed since the last apply
          changes

vars == <<content, record, settled, changes>>

Names == {Files[i] : i \in DOMAIN Files}

\* An id is the request number, or the number with a digest of file and occurrence.
Ids == {<<k>> : k \in Keys} \cup (Keys \X Names \X (1..MaxOccurrences))

\* What a synchronisation leaves in a record (source_diagnostics, file_sync).
NotSynced == [file |-> NoFile, occurrence |-> 0, question |-> NoFile, answered |-> FALSE]
NoRecord  == [sync |-> NotSynced, path |-> NoFile, question |-> NoFile,
              revision |-> 0, targets |-> {}]

\* The rows: what is synchronised of a section, and a request with it.
FileSync == [file : Names \cup {NoFile}, occurrence : 0..MaxOccurrences,
             question : Questions \cup {NoFile}, answered : BOOLEAN]
Record   == [sync : FileSync, path : Names \cup {NoFile}, question : Questions \cup {NoFile},
             revision : Nat, targets : SUBSET Topics]

Exists(id)  == record[id].revision > 0
Managed(id) == record[id].sync # NotSynced

Init ==
    /\ content = [f \in Names |-> <<>>]
    /\ record = [id \in Ids |-> NoRecord]
    /\ settled = FALSE
    /\ changes = 0

-----------------------------------------------------------------------------
(* The plan *)

\* A section is found at a place: the file, in their order, and its position there.
Places == UNION {{n} \X DOMAIN content[Files[n]] : n \in DOMAIN Files}

File(p)        == Files[p[1]]
Section(p)     == content[File(p)][p[2]]
Precedes(p, q) == p[1] < q[1] \/ (p[1] = q[1] /\ p[2] < q[2])

\* sections: occurrences of a number count within the file.
Repeats(p)    == {i \in 1..p[2] : content[File(p)][i].key = Section(p).key}
Occurrence(p) == Cardinality(Repeats(p))

\* The sections of all files that are about some venture.
Items == {p \in Places : Section(p).about # {}}

SyncOf(p) == [file |-> File(p), occurrence |-> Occurrence(p),
              question |-> Section(p).question, answered |-> Section(p).answered]

Number(p)   == <<Section(p).key>>
Suffixed(p) == <<Section(p).key, File(p), Occurrence(p)>>

IsOwn(p, id) == record[id].sync.file = File(p) /\ record[id].sync.occurrence = Occurrence(p)

\* Registered by hand for answers in this very file.
IsLinked(p, id) == Exists(id) /\ record[id].path = File(p) /\ ~Managed(id)

MayHaveNumber(p) ==
    \/ ~Exists(Number(p)) /\ Occurrence(p) = 1
    \/ Exists(Number(p)) /\ (IsOwn(p, Number(p)) \/ IsLinked(p, Number(p)))

\* The first section of the plan that may have its number takes it.
IsClaimed(p) ==
    \E q \in Items : Precedes(q, p) /\ Number(q) = Number(p) /\ MayHaveNumber(q)

\* Fault: a number that another section of this plan has taken is given again.
IdentityUnclaimed(p) == IF MayHaveNumber(p) THEN Number(p) ELSE Suffixed(p)

\* The number, unless another file or occurrence has it already.  The other
\* id is the section's own: it is free, or this section has made it.
Identity(p) == IF MayHaveNumber(p) /\ ~IsClaimed(p) THEN Number(p) ELSE Suffixed(p)

Unchanged(p, id) ==
    /\ Exists(id)
    /\ Section(p).about \subseteq record[id].targets
    /\ IsLinked(p, id) \/ record[id].sync = SyncOf(p)

-----------------------------------------------------------------------------
(* What apply writes *)

\* The question alone decides whether this is a new revision: answering is none.
Revision(old, p) ==
    IF old.revision = 0 THEN 1
    ELSE IF old.sync.question # Section(p).question THEN old.revision + 1 ELSE old.revision

Written(p, id) ==
    IF IsLinked(p, id)
    THEN [record[id] EXCEPT !.targets = @ \cup Section(p).about]
    ELSE [record[id] EXCEPT !.sync = SyncOf(p), !.question = Section(p).question,
                            !.revision = Revision(record[id], p),
                            !.targets = @ \cup Section(p).about]

\* The sections that are written into a record.
Pending(id) == {p \in Items : Identity(p) = id /\ ~Unchanged(p, id)}

Apply ==
    /\ record' = [id \in Ids |->
         IF Pending(id) = {} THEN record[id]
         ELSE Written(CHOOSE p \in Pending(id) : \A q \in Pending(id) : ~Precedes(p, q), id)]
    /\ settled' = TRUE
    /\ UNCHANGED <<content, changes>>

-----------------------------------------------------------------------------
(* What changes in between *)

Change == changes < MaxChanges /\ changes' = changes + 1 /\ settled' = FALSE

\* A file, or the mapping of its sections to ventures, is edited.
Edit(f, sections) ==
    /\ Change
    /\ sections # content[f]
    /\ content' = [content EXCEPT ![f] = sections]
    /\ UNCHANGED record

\* HumanInputService.register, with the current version: answers are in file f, if
\* anywhere, and topic is among what the question is about.
Register(k, f, question, topic) ==
    /\ Change
    /\ \/ record[<<k>>].path # f \/ record[<<k>>].question # question
       \/ topic \notin record[<<k>>].targets
    /\ record' = [record EXCEPT ![<<k>>].path = f, ![<<k>>].question = question,
                                ![<<k>>].revision = @ + 1,
                                ![<<k>>].targets = @ \cup {topic}]
    /\ UNCHANGED content

\* HumanInputService.sync: the answer in the file is saved, or the one in the
\* console is kept; either way the record's mark is written anew without file_sync.
ImportAnswer(k) ==
    /\ Change
    /\ Managed(<<k>>)
    /\ record[<<k>>].path # NoFile
    /\ LET sections == content[record[<<k>>].path]
           mine     == {i \in DOMAIN sections : sections[i].key = k}
       IN  Cardinality(mine) = 1 /\ \A i \in mine : sections[i].answered
    /\ record' = [record EXCEPT ![<<k>>].sync = NotSynced]
    /\ UNCHANGED content

Next ==
    \/ Apply
    \/ \E f \in Names, sections \in Contents : Edit(f, sections)
    \/ \E k \in Keys, f \in Names \cup {NoFile}, q \in Questions, t \in Topics : Register(k, f, q, t)
    \/ \E k \in Keys : ImportAnswer(k)

Spec == Init /\ [][Next]_vars

-----------------------------------------------------------------------------
\* A record is about something once it is there, and one whose id is not a bare
\* number belongs to the section that gave it the id.
TypeOK ==
    /\ content \in [Names -> Contents]
    /\ DOMAIN record = Ids
    /\ \A id \in Ids : /\ record[id] \in Record
                       /\ Exists(id) <=> record[id].targets # {}
                       /\ Exists(id) /\ Len(id) = 3 =>
                            record[id].sync.file = id[2] /\ record[id].sync.occurrence = id[3]
    /\ settled \in BOOLEAN /\ changes \in 0..MaxChanges

\* Synchronising settles.  No two records are kept in step with one section, and
\* after an apply no two sections share a record and the same apply again would
\* write nothing, whatever was edited, registered and answered before.
ApplySettles ==
    /\ \A i, j \in Ids :
         /\ Managed(i) /\ Managed(j) /\ i[1] = j[1]
         /\ record[i].sync.file = record[j].sync.file
         /\ record[i].sync.occurrence = record[j].sync.occurrence
         => i = j
    /\ settled =>
         \A p \in Items : /\ Unchanged(p, Identity(p))
                          /\ \A q \in Items : Identity(p) = Identity(q) => p = q
=============================================================================
