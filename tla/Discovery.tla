------------------------------ MODULE Discovery ------------------------------
(***************************************************************************)
(* Discovery records (discovery_records.py, portfolio.py): ideas and their  *)
(* append-only revisions, the sources and relations of ideas, and what is   *)
(* observed of the market: an observation belongs to the revision that was  *)
(* current when it was made, may be corrected there, and is carried over    *)
(* to the next revision unless the author says otherwise.                   *)
(*                                                                         *)
(* Every operation is one locked transaction; an expected revision that is  *)
(* outdated, like everything else a service refuses, changes nothing.       *)
(***************************************************************************)
EXTENDS Integers, Sequences, FiniteSets

CONSTANTS Ideas,         \* identities of ideas
          Contents,      \* what the fields of a revision may say
          Rivals,        \* spellings of the names of market actors
          Folded,        \* spelling -> the name with all case folded
          Lowered,       \* spelling -> in lower case, as Python has it
          Stored,        \* spelling -> in lower case, as the store has it
          Websites,      \* their websites, None among them
          Roles,         \* what an actor is to an idea: a competitor, a substitute
          Notes,         \* what an observation may say
          Kinds,         \* kinds of relations, derivation among them
          Rationales,    \* reasons that are given for a relation
          Locators,      \* where sources are found, with the digest if known
          Digests,       \* kinds and contents of what is found there
          Batches,       \* campaign exports: the ideas each one holds
          None,          \* no website, no source
          MaxRevisions,
          MaxCorrections \* bound on corrected observations

VARIABLES revisions,     \* the contents of each idea's revisions, oldest first
          observed,      \* the observations of each revision
          superseded,    \* observations the audit keeps
          rival,         \* the website of each registered market actor
          source,        \* what is registered at each locator
          cited,         \* which ideas cite which sources
          related,       \* relations of ideas, with their rationale
          imported       \* batches with a receipt

vars == <<revisions, observed, superseded, rival, source, cited, related, imported>>

Exists(i) == revisions[i] # <<>>

Current(i) == Len(revisions[i])

Unregistered == "unregistered"

\* The tables, and the rows they may hold.
Histories   == [Ideas -> UNION {[1..n -> Contents] : n \in 0..MaxRevisions}]
Observation == [rival : Rivals, role : Roles, note : Notes]
Audited     == Ideas \X (1..MaxRevisions) \X Observation
Actors      == [Rivals -> Websites \cup {Unregistered}]
Sources     == [Locators -> Digests \cup {None}]
Citation    == Ideas \X Locators
Relation    == [pair : Ideas \X Ideas \X (Kinds \cup {"derived_from"}), rationale : Rationales]

TypeOK ==
    /\ revisions \in Histories
    /\ \A i \in Ideas : \A r \in 1..MaxRevisions :
          /\ observed[i][r] \subseteq Observation
          /\ r > Len(revisions[i]) => observed[i][r] = {}
          /\ \A o, p \in observed[i][r] : o.rival = p.rival /\ o.role = p.role => o = p
          /\ \A o \in observed[i][r] : rival[o.rival] # Unregistered
    /\ superseded \subseteq Audited
    /\ rival \in Actors /\ source \in Sources
    /\ cited \subseteq Citation /\ related \subseteq Relation
    /\ \A c \in cited : Exists(c[1]) /\ source[c[2]] # None
    /\ \A x, y \in related : x.pair = y.pair => x = y
    /\ imported \subseteq Batches
    /\ \A b \in imported : \A i \in b : Exists(i)

Init ==
    /\ revisions = [i \in Ideas |-> <<>>]
    /\ observed = [i \in Ideas |-> [r \in 1..MaxRevisions |-> {}]]
    /\ superseded = {}
    /\ rival = [n \in Rivals |-> Unregistered]
    /\ source = [l \in Locators |-> None]
    /\ cited = {}
    /\ related = {}
    /\ imported = {}

-----------------------------------------------------------------------------
(* Ideas.                                                                  *)

Derivations(i, parents, why) ==
    {[pair |-> <<i, p, "derived_from">>, rationale |-> why] : p \in parents}

\* Sources that are cited are registered.
AllRegistered(sources) == \A l \in sources : source[l] # None

\* A derived idea names parents that exist.
Create(i, content, parents, sources, why) ==
    /\ ~Exists(i)
    /\ \A p \in parents : Exists(p)
    /\ AllRegistered(sources)
    /\ revisions' = [revisions EXCEPT ![i] = <<content>>]
    /\ related' = related \cup Derivations(i, parents, why)
    /\ cited' = cited \cup ({i} \X sources)
    /\ UNCHANGED <<observed, superseded, rival, source, imported>>

\* Fault: what is carried over is moved.
CarriedAway(i, carry) ==
    [observed[i] EXCEPT ![Current(i) + 1] = IF carry THEN observed[i][Current(i)] ELSE {},
                        ![Current(i)] = {}]

\* What the next revision starts from: copies, the earlier ones stay.
Carried(i, carry) ==
    [observed[i] EXCEPT ![Current(i) + 1] = IF carry THEN observed[i][Current(i)] ELSE {}]

\* Fields that are left out keep what the current revision says.
Revise(i, content, carry) ==
    /\ Exists(i)
    /\ Current(i) < MaxRevisions
    /\ content # revisions[i][Current(i)]
    /\ revisions' = [revisions EXCEPT ![i] = Append(@, content)]
    /\ observed' = [observed EXCEPT ![i] = Carried(i, carry)]
    /\ UNCHANGED <<superseded, rival, source, cited, related, imported>>

\* One relation of a kind between two ideas, with one rationale.
Relate(i, j, kind, rationale) ==
    /\ i # j /\ Exists(i) /\ Exists(j)
    /\ \A x \in related : x.pair # <<i, j, kind>>
    /\ related' = related \cup {[pair |-> <<i, j, kind>>, rationale |-> rationale]}
    /\ UNCHANGED <<revisions, observed, superseded, rival, source, cited, imported>>

\* A campaign is imported as a whole or not at all: with one of its ideas there
\* already, or its receipt, nothing happens.  Its sources are registered where
\* they are not, and cited by every idea that names them.
Import(batch, content, sources, digest) ==
    /\ batch \notin imported
    /\ \A i \in batch : ~Exists(i)
    /\ revisions' = [i \in Ideas |-> IF i \in batch THEN <<content>> ELSE revisions[i]]
    /\ imported' = imported \cup {batch}
    /\ source' = [l \in Locators |->
                    IF l \in sources /\ source[l] = None THEN digest ELSE source[l]]
    /\ cited' = cited \cup (batch \X sources)
    /\ UNCHANGED <<observed, superseded, rival, related>>

-----------------------------------------------------------------------------
(* Sources.                                                                *)

\* A locator stands for one content; registering it again finds it.  Either way
\* the ideas that are named cite it.
RegisterSource(l, digest, ideas) ==
    /\ source[l] \in {None, digest}
    /\ \A i \in ideas : Exists(i)
    /\ source' = [source EXCEPT ![l] = digest]
    /\ cited' = cited \cup (ideas \X {l})
    /\ UNCHANGED <<revisions, observed, superseded, rival, related, imported>>

\* A claim somebody checked is a source of its own, whose locator holds the digest of
\* what was claimed: a claim that reads otherwise is another source.
RecordClaim(l, digest, ideas) ==
    /\ source[l] \in {None, digest}
    /\ \A i \in ideas : Exists(i)
    /\ source' = [source EXCEPT ![l] = digest]
    /\ cited' = cited \cup (ideas \X {l})
    /\ UNCHANGED <<revisions, observed, superseded, rival, related, imported>>

Cite(i, l) ==
    /\ Exists(i)
    /\ AllRegistered({l})
    /\ cited' = cited \cup {<<i, l>>}
    /\ UNCHANGED <<revisions, observed, superseded, rival, source, related, imported>>

-----------------------------------------------------------------------------
(* The market.                                                             *)

Registered(n) == rival[n] # Unregistered

\* The actors found for a name: one of the same folded name and website, or one
\* whose stored name in lower case is the name in lower case.
Found(n, website) ==
    LET same == {m \in Rivals : Registered(m) /\ Folded[m] = Folded[n] /\ rival[m] = website}
        like == {m \in Rivals : Registered(m) /\ Stored[m] = Lowered[n]}
    IN  IF same # {} THEN same ELSE like

\* A found actor serves unless another website was asked for; a new one is
\* registered.  One actor of each spelling is enough to tell what goes wrong.
Serves(m, website) == website \in {None, rival[m]}

IsNew(n, website) == Found(n, website) = {} /\ ~Registered(n)

Register(n, website) ==
    /\ IsNew(n, website)
    /\ rival' = [rival EXCEPT ![n] = website]
    /\ UNCHANGED <<revisions, observed, superseded, source, cited, related, imported>>

\* An observation is of the current revision; a second one of the same actor in the
\* same role corrects the first, which the audit keeps.
ObserveOf(i, m, role, note) ==
    LET r == Current(i)
        o == [rival |-> m, role |-> role, note |-> note]
        earlier == {p \in observed[i][r] : p.rival = m /\ p.role = role}
    IN  /\ o \notin earlier
        /\ observed' = [observed EXCEPT ![i][r] = (@ \ earlier) \cup {o}]
        /\ superseded' = superseded \cup {<<i, r, p>> : p \in earlier}
        /\ Cardinality(superseded') <= MaxCorrections

Observe(i, n, role, note, website) ==
    /\ Exists(i)
    /\ \/ /\ IsNew(n, website)
          /\ ObserveOf(i, n, role, note)
          /\ rival' = [rival EXCEPT ![n] = website]
       \/ /\ \E m \in Found(n, website) : Serves(m, website) /\ ObserveOf(i, m, role, note)
          /\ UNCHANGED rival
    /\ UNCHANGED <<revisions, source, cited, related, imported>>

Next ==
    \/ \E i \in Ideas, c \in Contents :
          \/ \E parents \in SUBSET (Ideas \ {i}), sources \in SUBSET Locators,
                why \in Rationales : Create(i, c, parents, sources, why)
          \/ \E carry \in BOOLEAN : Revise(i, c, carry)
    \/ \E i, j \in Ideas, kind \in Kinds, rationale \in Rationales : Relate(i, j, kind, rationale)
    \/ \E batch \in Batches, c \in Contents, S \in SUBSET Locators, d \in Digests :
          Import(batch, c, S, d)
    \/ \E l \in Locators, d \in Digests, S \in SUBSET Ideas :
          RegisterSource(l, d, S) \/ RecordClaim(l, d, S)
    \/ \E i \in Ideas, l \in Locators : Cite(i, l)
    \/ \E n \in Rivals, w \in Websites : Register(n, w)
    \/ \E i \in Ideas, n \in Rivals, role \in Roles, note \in Notes, w \in Websites :
          Observe(i, n, role, note, w)

Spec == Init /\ [][Next]_vars

-----------------------------------------------------------------------------
\* What was observed of a revision is never lost: it stands unchanged once a
\* later revision is current, and while it is current a correction leaves the
\* corrected observation in the audit.
ObservationsAreKept ==
    [][\A i \in Ideas : \A r \in 1..MaxRevisions :
          /\ r < Current(i) => observed'[i][r] = observed[i][r]
          /\ \A o \in observed[i][r] :
                o \in observed'[i][r] \/ <<i, r, o>> \in superseded']_vars

\* ADR-0019 gives market actors "a stable identity over normalized name and
\* website" and promises that "a same-name actor with a different website is a
\* conflict": one normalized name has one market actor.
OneActorPerName ==
    \A m, n \in Rivals : Registered(m) /\ Registered(n) /\ Folded[m] = Folded[n] => m = n
=============================================================================
