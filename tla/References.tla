----------------------------- MODULE References -----------------------------
(***************************************************************************)
(* How a command finds the one object its argument stands for: a snapshot, *)
(* an OS template, a backup.  What is found here is what a restore, a      *)
(* reinstall or a delete is then done to.  Texts are sequences of letters, *)
(* of which one has an upper case.                                         *)
(***************************************************************************)
EXTENDS Sequences, Integers, FiniteSets

Letters == INSTANCE SequencesExt

Lower(text) == [i \in 1..Len(text) |-> IF text[i] = "A" THEN "a" ELSE text[i]]

HasPart(text, part) ==
  \E i \in 0..Len(text) - Len(part) : SubSeq(text, i + 1, i + Len(part)) = part

\* What may be listed: a name, and a description, empty but for snapshots.
Object(name, about) == [name |-> name, about |-> about]
Kinds == {"snapshot", "template", "backup"}

\* A backup is found by a prefix of its token, a template by a part of its name
\* in any case, a snapshot by a part of its file name, or of its description in
\* any case.
Fits(kind, o, ref) ==
  \/ kind = "backup" /\ Letters!IsPrefix(ref, o.name)
  \/ kind = "template" /\ HasPart(Lower(o.name), Lower(ref))
  \/ kind = "snapshot" /\ HasPart(o.name, ref)
  \/ kind = "snapshot" /\ o.about # <<>> /\ HasPart(Lower(o.about), Lower(ref))

\* One turn of the loop over the listing: an exact name ends it.
\* (Mutant: nothing does.)
LookOn(kind, ref, seen, o) ==
  IF Fits(kind, o, ref) THEN [seen EXCEPT !.names = @ \cup {o.name}] ELSE seen

Look(kind, ref, seen, o) ==
  IF seen.exact THEN seen
  ELSE IF o.name = ref THEN [exact |-> TRUE, names |-> {o.name}]
  ELSE IF Fits(kind, o, ref) THEN [exact |-> FALSE, names |-> seen.names \cup {o.name}]
  ELSE seen

\* What was seen after each number of objects.
Nothing == [exact |-> FALSE, names |-> {}]

Seen(kind, list, ref) ==
  LET seen[n \in 0..Len(list)] ==
        IF n = 0 THEN Nothing ELSE Look(kind, ref, seen[n - 1], list[n])
  IN  seen

\* findSnapshot, matchTemplate, resolveBackup: what the reference may stand for.
\* Only if that is one object do they return it.
Find(kind, list, ref) == Seen(kind, list, ref)[Len(list)].names

----------------------------------------------------------------------------
(* Properties, of a listing in which no name occurs twice *)

\* A name in full is that object's, whatever other names and descriptions it is
\* a part of, and wherever in the listing it stands.
FullNameIsUnmistakable(kind, list) ==
  \A i \in DOMAIN list : Find(kind, list, list[i].name) = {list[i].name}

\* KiwiVM may list them in any order: the answer is the same.
OrderIsNoMatter(kind, list, ref) ==
  Find(kind, list, ref) = Find(kind, Letters!Reverse(list), ref)

\* "Be more specific": an abbreviation that stood for one object, made longer,
\* stands for the same one or for none, never for another.
MoreSpecificIsSafe(kind, list, ref, longer) ==
  (/\ Letters!IsPrefix(ref, longer)
   /\ Cardinality(Find(kind, list, ref)) = 1
   /\ \A i \in DOMAIN list : list[i].name # ref)
  => Find(kind, list, longer) \subseteq Find(kind, list, ref)

=============================================================================
