--------------------------- MODULE CanonicalTypes ---------------------------
(***************************************************************************)
(* Completing a product's descriptors with the canonical ones it lacks     *)
(* (transcode/error.rs: complete_with_canonical), type by type: the        *)
(* product's own definitions win, in whichever file they are, and the      *)
(* canonical files that refer to them import those files instead.  Public  *)
(* imports are left out.                                                   *)
(***************************************************************************)
EXTENDS Naturals, Sequences, SequencesExt

CONSTANTS
  Canonical,  \* the canonical files, dependencies first: [name (a path), types, uses, imports]
  Products    \* the product pools: sets of files

VARIABLES
  pool,      \* the descriptors
  completed, \* whether they have been completed
  product    \* history: the descriptors as the product came with them
poolVars == <<pool, completed, product>>

DefinedIn(files, type) == {f.name : f \in {g \in files : type \in g.types}}
Present(files, name) == \E f \in files : f.name = name
Copy(name) == <<"structured-proxy/canonical">> \o name

\* The canonical files are a valid pool, listed as `files()` lists one: every name
\* and every type once, imports before the files that use their types.
ASSUME CanonicalAssumption ==
  /\ Canonical \in Seq(ToSet(Canonical))
  /\ \A i, j \in DOMAIN Canonical :
       /\ Canonical[i].name \in Seq(ToSet(Canonical[i].name))
       /\ Canonical[i].name # Copy(Canonical[j].name)
       /\ i # j => /\ Canonical[i].name # Canonical[j].name
                   /\ Canonical[i].types \cap Canonical[j].types = {}
  /\ \A i \in DOMAIN Canonical :
       /\ \A name \in Canonical[i].imports : \E j \in 1 .. (i - 1) : Canonical[j].name = name
       /\ \A type \in Canonical[i].uses \ Canonical[i].types :
            \E j \in 1 .. (i - 1) : Canonical[j].name \in Canonical[i].imports /\ type \in Canonical[j].types

\* So is a product's pool, in which a canonical name may be any file's.
ASSUME ProductsAssumption ==
  \A files \in Products : \A f, g \in files : f.name = g.name \/ f.types \cap g.types # {} => f = g

\* prost-reflect: a file goes in when its name is free, the files it imports are
\* there and define, between them and it, every type it uses.
Addable(files, file) ==
  /\ ~Present(files, file.name)
  /\ \A name \in file.imports : Present(files, name)
  /\ \A type \in file.uses \ file.types :
       \E f \in files : f.name \in file.imports /\ type \in f.types

\* What stands in for the canonical file of that name, if anything does.
StandIns(acc, name) == {s.by : s \in {t \in acc.standIns : t.for = name}}

\* Fault: an import is kept by its canonical name.
ImportsByName(acc, file) == file.imports

\* The files that are imported for a canonical one: those that stand in for it,
\* beside the product's revision of it.
ImportOf(acc, name) ==
  IF StandIns(acc, name) = {} THEN {name}
  ELSE (UNION StandIns(acc, name)) \cup (IF Present(acc.files, name) THEN {name} ELSE {})
ImportsOf(acc, file) == UNION {ImportOf(acc, name) : name \in file.imports}

Merge(acc, file) ==
  LET defining == UNION {DefinedIn(acc.files, type) : type \in file.types}
      missing == {type \in file.types : DefinedIn(acc.files, type) = {}}
      renamed == defining # {} \/ Present(acc.files, file.name)
      name == IF renamed THEN Copy(file.name) ELSE file.name
      copy == [name |-> name, types |-> missing, uses |-> file.uses,
               imports |-> ImportsOf(acc, file) \cup defining]
      standIn(by) == [acc EXCEPT !.standIns = @ \cup {[for |-> file.name, by |-> by]}]
  IN IF missing = {}
     THEN IF Present(acc.files, file.name) THEN acc ELSE standIn(defining)
     ELSE IF ~Addable(acc.files, copy) THEN acc
     ELSE [(IF renamed THEN standIn(defining \cup {name}) ELSE acc)
             EXCEPT !.files = @ \cup {copy}]

\* The pool after each of the canonical files, in order.
Completing(files) ==
  LET acc[n \in 0 .. Len(Canonical)] ==
        IF n = 0 THEN [files |-> files, standIns |-> {}] ELSE Merge(acc[n - 1], Canonical[n])
  IN  acc
CompleteWithCanonical(files) == Completing(files)[Len(Canonical)].files

TypesInit == pool \in Products /\ completed = FALSE /\ product = pool
Complete ==
  /\ ~completed /\ completed' = TRUE
  /\ pool' = CompleteWithCanonical(pool) /\ UNCHANGED product
TypesSpec == TypesInit /\ [][Complete]_poolVars

-----------------------------------------------------------------------------
\* "The canonical ones are always available": every canonical type is there once,
\* whatever the product defines of them and wherever.
CanonicalAvailable ==
  completed => \A i \in DOMAIN Canonical : \A type \in Canonical[i].types :
                 \E f \in pool : type \in f.types /\ DefinedIn(pool, type) = {f.name}

\* A product file has the name of a canonical one, whose types the product defines,
\* some of them in other files.
Hollow(files, file) ==
  /\ Present(files, file.name)
  /\ \A type \in file.types : DefinedIn(files, type) # {}
  /\ \E type \in file.types : file.name \notin DefinedIn(files, type)

\* A canonical file of which a type is left out.
Lost(files, file) == \E type \in file.types : DefinedIn(files, type) = {}

\* Whatever the product defines and wherever, no type has two definitions, and a
\* type is left out only where the product uses the name of the copy that would
\* hold it, or behind an import that a hollow file of the product answers: a file
\* that is renamed or left out never takes the ones that import it along.
LostForCause ==
  completed =>
    /\ \A f, g \in pool : f.types \cap g.types # {} => f.name = g.name
    /\ \A i \in DOMAIN Canonical :
         Lost(pool, Canonical[i]) =>
           \/ Present(product, Copy(Canonical[i].name))
           \/ \E j \in DOMAIN Canonical :
                /\ Canonical[j].name \in Canonical[i].imports
                /\ Hollow(product, Canonical[j]) \/ Lost(pool, Canonical[j])
=============================================================================
