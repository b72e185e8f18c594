------------------------------ MODULE ScriptFacts ------------------------------
(***************************************************************************)
(* What each block of each script does, as facts about the twelve concrete   *)
(* scripts of Scripts. They have no parameter but the value NoBlame, so      *)
(* that TLC, which evaluates them, decides them completely. The proofs about *)
(* Operations rest on them and expand no script.                             *)
(***************************************************************************)
EXTENDS Scripts

(* The script that leads from r towards g, and to which revision.           *)
Leaving(r, g) == IF r < g THEN Up[r + 1] ELSE Down[r]

Beyond(r, g) == IF r < g THEN r + 1 ELSE r - 1

(* The catalog in which a block of that script begins.                      *)
Entry(r, g, b) ==
    IF b = 1 THEN Expected(r) ELSE Run(Expected(r), {}, Leaving(r, g)[1], r + 1).cat

EdgesTable == <<1, "edges">>

Of(cat) == {o.of : o \in cat}

ChecksOf(cat) == {o \in cat : o.kind = "check"}

Meets(rows, cat) == \A o \in ChecksOf(cat) : rows \subseteq Allowed(o.name)

(* A script has one block or two.                                           *)
ASSUME TwoBlocks ==
    \A r, g \in 0..6 : r # g => Len(Leaving(r, g)) \in 1..2

(* Whatever rows a block finds, it goes on to the catalog in which the next *)
(* one begins, or fails at the CHECK of edges. If it goes on, the rows meet *)
(* the CHECKs that it leaves, and it adds none without the lock of edges.   *)
Leads(r, g, b, rows) ==
    LET done == Run(Entry(r, g, b), rows, Leaving(r, g)[b], r + 1)
    IN IF done.failed = NoBlame
       THEN /\ done.cat = IF b < Len(Leaving(r, g)) THEN Entry(r, g, b + 1)
                                                   ELSE Expected(Beyond(r, g))
            /\ Meets(rows, Entry(r, g, b)) => Meets(rows, done.cat)
            /\ EdgesTable \in done.held \/ ChecksOf(done.cat) \subseteq ChecksOf(Entry(r, g, b))
       ELSE /\ done.failed.on = "edges"
            /\ \/ done.failed.do = "select"
               \/ done.failed.do = "create" /\ done.failed.kind = "check"

ASSUME BlocksLead ==
    \A r, g \in 0..6 : r # g =>
    \A b \in 1..Len(Leaving(r, g)), rows \in SUBSET EdgeType : Leads(r, g, b, rows)

(* Only the downgrade of 0003 deletes rows.                                 *)
ASSUME OneDelete ==
    \A r, g \in 0..6 : r # g =>
    \A b \in 1..Len(Leaving(r, g)) : Deletes(Leaving(r, g)[b]) => r = 3 /\ g < 3

(* A table is there from the revision on that creates it.                   *)
ASSUME TablesStay ==
    \A r, s \in 0..6 : \A t \in Of(Expected(r)) :
        t[1] \in 1..6 /\ (t \in Of(Expected(s)) <=> t[1] <= s)

(* The CHECKs of a revision let through what it is meant to hold.           *)
ASSUME ChecksAdmit ==
    \A r \in 1..6 :
        Admitted(r) = {e \in EdgeType : \A o \in ChecksOf(Expected(r)) : e \in Allowed(o.name)}

ASSUME OneEdgesTable ==
    \A r \in 1..6 : Ids(Expected(r), {"edges"}) = {EdgesTable}
==============================================================================
